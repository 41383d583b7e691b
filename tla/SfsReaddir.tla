----------------------------- MODULE SfsReaddir -----------------------------
(***************************************************************************)
(* Reading a directory of SFS (sfs16/dir.c).  An open directory holds one  *)
(* open file per normal directory below, in the order of the replicas, and *)
(* getdents walks through them one after the other.  A directory of SFS    *)
(* has an entry in several of them, so the names of the directories that   *)
(* were read are kept in a hash table and dropped when met again.  The     *)
(* position the application sees is made of the sizes of the directories   *)
(* read so far and of the lengths of the names read in the current one.    *)
(*                                                                         *)
(* VFS holds the i_mutex of the SFS directory during a call, so that no    *)
(* entry comes or goes between the steps of one call.                      *)
(***************************************************************************)
EXTENDS Naturals, Sequences, SequencesExt

CONSTANTS
    N,            \* number of normal directories below
    Dirs, Files,  \* names, of directories and of other files
    Gone,         \* a slot of a directory below that holds no entry
    NameLen,      \* the length of each name
    DirSize,      \* i_size of each directory below
    MaxSlots,     \* bound: slots of each directory below
    Bufs,         \* sizes of the buffer of the application
    MaySeek,      \* whether the application calls lseek
    MayFail,      \* whether reading a directory below and kmalloc may fail
    MaxRead       \* bound: entries read between two calls of lseek

Names    == Dirs \cup Files
Replicas == 1 .. N
NULL     == 0

ASSUME ConstantsAssumption ==
    /\ N \in Nat \ {0}
    /\ DirSize \in [Replicas -> Nat] /\ MaxSlots \in [Replicas -> Nat]
    /\ Bufs \subseteq Nat
    /\ Gone \notin Names
    /\ NameLen \in [Names -> Nat \ {0}]
    \* A directory below has room for the names in its slots.
    /\ \A r \in Replicas, n \in Names : MaxSlots[r] * NameLen[n] <= DirSize[r]

VARIABLES
    content,   \* the slots of every directory below
    grown,     \* i_size of the SFS directory calls for a larger hash table
    pc,        \* "user", or a place in sfs_iterate: "fill", "next"
    pos,       \* f_pos of the SFS file
    last_pos, curr_file, end_file, curr_major_pos, curr_minor_pos,  \* dir_info
    read,      \* the directories recorded in the hash table of dir_info
    f_pos,     \* f_pos of every file below: the slots read
    room,      \* what is left of the application's buffer
    astray,    \* what the last seek has made of the positions in curr_file:
               \* "no", "twice" (its first names are counted twice) or "past"
               \* (it was past the end, and the major position is the end)
    out,       \* entries read since the last lseek: name, position, astray
    old,       \* names that have been there since that lseek
    whole,     \* that lseek went to the beginning
    clean      \* dir_info was as after open then, and no entry was refused

dirVars  == <<content, grown, old, whole>>
infoVars == <<last_pos, curr_file, end_file, curr_major_pos, curr_minor_pos,
              read, f_pos>>
vars == <<dirVars, pc, pos, infoVars, room, out, clean, astray>>

\* The directories below in which name n has an entry.
Holding(n) == {r \in Replicas : \E s \in DOMAIN content[r] : content[r][s] = n}
Present    == {n \in Names : Holding(n) # {}}

Init ==
    /\ content = [r \in Replicas |-> <<>>]
    /\ grown = FALSE /\ pc = "user" /\ pos = 0
    /\ last_pos = 0 /\ curr_file = NULL /\ end_file = NULL
    /\ curr_major_pos = 0 /\ curr_minor_pos = 0
    /\ read = {} /\ f_pos = [r \in Replicas |-> 0]
    /\ room = 0 /\ out = <<>> /\ old = {} /\ whole = TRUE
    /\ clean = TRUE /\ astray = "no"

-----------------------------------------------------------------------------
(* The entries of the directory change between two calls.                  *)

\* A new entry goes into a free slot or behind the last one.
AddEntry(n, r) ==
    /\ pc = "user" /\ r \notin Holding(n)
    /\ n \in Files => Holding(n) = {}
    /\ \/ \E s \in DOMAIN content[r] :
            /\ content[r][s] = Gone
            /\ content' = [content EXCEPT ![r][s] = n]
       \/ /\ Len(content[r]) < MaxSlots[r]
          /\ content' = [content EXCEPT ![r] = Append(@, n)]
    /\ grown' \in {grown, TRUE}
    /\ UNCHANGED <<old, whole, clean, astray, pc, pos, infoVars, room, out>>

\* An entry is removed from all the directories that hold it.
RemoveEntry(n) ==
    /\ pc = "user" /\ n \in Present
    /\ content' = [r \in Replicas |-> [s \in DOMAIN content[r] |->
                     IF content[r][s] = n THEN Gone ELSE content[r][s]]]
    /\ old' = old \ {n}
    /\ UNCHANGED <<grown, whole, clean, astray, pc, pos, infoVars, room, out>>

-----------------------------------------------------------------------------
(* The application moves the position: to the beginning, or to the position *)
(* of an entry it has read, as telldir and seekdir do.                      *)

\* A scan begins at position p.
NewScan(p) ==
    /\ out' = <<>> /\ old' = Present /\ whole' = (p = 0)
    /\ clean' = (read' = {} /\ \A r \in Replicas \ {1} : f_pos'[r] = 0)

Seek(p) ==
    /\ MaySeek /\ pc = "user"
    /\ pos' = p
    /\ UNCHANGED <<content, grown, pc, infoVars, room, astray>>
    /\ NewScan(p)

-----------------------------------------------------------------------------
(* sfs_dir_seek: the file that position p falls into is rewound and the    *)
(* names before p are counted; its f_pos stays at the beginning, as the    *)
(* position that iterate leaves in the context is not written back.  The   *)
(* seek fails when reading that file fails, and when p is past the end.    *)

\* The position of the first entry of directory r, N + 1 being the end.
Major(r) == FoldLeft(LAMBDA a, size : a + size, 0, SubSeq(DirSize, 1, r - 1))

\* The lengths of the names in the first k slots of directory r.
Length(r, k) ==
    FoldLeft(LAMBDA a, n : IF n = Gone THEN a ELSE a + NameLen[n], 0,
             SubSeq(content[r], 1, k))

\* sfs_skip_filldir goes on while the count does not exceed p: the position
\* among all the files, not the one in file r.
Skippable(r, p) == {Length(r, k) : k \in 0 .. Len(content[r])} \cap 0 .. p
Skipped(r, p)   == CHOOSE m \in Skippable(r, p) :
                      \A l \in Skippable(r, p) : l <= m

\* File r is current, read from its beginning, with m as the minor position.
Rewound(r, m) ==
    /\ curr_file' = r
    /\ curr_major_pos' = Major(r) /\ curr_minor_pos' = m
    /\ f_pos' = [f_pos EXCEPT ![r] = 0]
    /\ astray' = IF m = 0 THEN "no" ELSE "twice"

Seeks(p) ==
    \E r \in Replicas :
        /\ Major(r) <= p /\ p < Major(r + 1)
        /\ Rewound(r, IF p = Major(r) THEN 0 ELSE Skipped(r, p))

SeekFails(p) ==
    \/ /\ p >= Major(N + 1)
       /\ curr_file' = NULL
       /\ curr_major_pos' = Major(N + 1) /\ curr_minor_pos' = 0
       /\ astray' = "past"
       /\ UNCHANGED f_pos
    \/ /\ MayFail
       /\ \E r \in Replicas : /\ Major(r) < p /\ p < Major(r + 1)
                              /\ \E m \in Skippable(r, p) : Rewound(r, m)

\* sfs_refresh_hash_dirent.
Refreshed ==
    /\ read' = IF grown THEN {} ELSE read
    /\ grown' = FALSE

\* A scan begins when the position is 0 and nothing has been read.
Begins ==
    IF pos = 0 /\ out = <<>> THEN NewScan(0)
    ELSE UNCHANGED <<out, old, whole, clean>>

\* sfs_iterate up to the loop over the files: seek, or begin, or go on in
\* curr_file or behind end_file.
Start(b) ==
    /\ pc = "user" /\ Len(out) < MaxRead
    /\ room' = b /\ pc' = "fill"
    /\ \/ pos # last_pos /\ Refreshed /\ Seeks(pos)
       \/ /\ pos = last_pos /\ pos = 0
          /\ Rewound(1, 0)
          /\ UNCHANGED <<grown, read>>
       \/ /\ pos = last_pos /\ pos # 0
          /\ \/ curr_file # NULL /\ UNCHANGED curr_file
             \/ curr_file = NULL /\ end_file < N /\ curr_file' = end_file + 1
          /\ UNCHANGED <<grown, read, curr_major_pos, curr_minor_pos, f_pos,
                         astray>>
    /\ end_file' = curr_file'
    /\ Begins
    /\ UNCHANGED <<content, pos, last_pos>>

\* sfs_iterate when the seek fails.
StartFails ==
    /\ pc = "user" /\ pos # last_pos
    /\ Refreshed /\ SeekFails(pos)
    /\ last_pos' = curr_major_pos' + curr_minor_pos'
    /\ pos' = curr_major_pos' + curr_minor_pos'
    /\ UNCHANGED <<content, old, whole, clean, pc, end_file, room, out>>

-----------------------------------------------------------------------------
(* iterate of the current file, one slot at a time, with sfs_filldir.      *)

Reached  == f_pos[curr_file] + 1
Current  == content[curr_file][Reached]
InFile   == pc = "fill" /\ Reached \in DOMAIN content[curr_file]
Advance  == f_pos' = [f_pos EXCEPT ![curr_file] = Reached]
Recorded == IF Current \in Dirs THEN read \cup {Current} ELSE read

SkipSlot ==
    /\ InFile /\ Current = Gone
    /\ Advance
    /\ UNCHANGED <<dirVars, clean, astray, pc, pos, last_pos, curr_file,
                   end_file, curr_major_pos, curr_minor_pos, read, room, out>>

SkipDuplicate ==
    /\ InFile /\ Current \in read
    /\ Advance
    /\ curr_minor_pos' = curr_minor_pos + NameLen[Current]
    /\ UNCHANGED <<dirVars, clean, astray, pc, pos, last_pos, curr_file,
                   end_file, curr_major_pos, read, room, out>>

\* Mutant: the directories that were read are not recorded.
Emit_NotRecorded ==
    /\ InFile /\ Current \in Names \ read /\ NameLen[Current] <= room
    /\ Advance
    /\ out' = Append(out, [name |-> Current,
                           pos |-> curr_major_pos + curr_minor_pos,
                           astray |-> astray])
    /\ room' = room - NameLen[Current]
    /\ curr_minor_pos' = curr_minor_pos + NameLen[Current]
    /\ UNCHANGED <<dirVars, clean, astray, pc, pos, last_pos, curr_file,
                   end_file, curr_major_pos, read>>

\* The application's filldir takes the entry.
Emit ==
    /\ InFile /\ Current \in Names \ read /\ NameLen[Current] <= room
    /\ Advance
    /\ read' = Recorded
    /\ out' = Append(out, [name |-> Current,
                           pos |-> curr_major_pos + curr_minor_pos,
                           astray |-> astray])
    /\ room' = room - NameLen[Current]
    /\ curr_minor_pos' = curr_minor_pos + NameLen[Current]
    /\ UNCHANGED <<dirVars, clean, astray, pc, pos, last_pos, curr_file,
                   end_file, curr_major_pos>>

\* It refuses the entry, and iterate stops without an error.
Refuse ==
    /\ InFile /\ Current \in Names \ read /\ NameLen[Current] > room
    /\ read' = Recorded
    /\ pc' = "next" /\ clean' = FALSE
    /\ UNCHANGED <<dirVars, astray, pos, last_pos, curr_file, end_file,
                   curr_major_pos, curr_minor_pos, f_pos, room, out>>

\* There is no memory to record a directory: iterate stops in the same way.
NoMemory ==
    /\ MayFail /\ InFile /\ Current \in Dirs \ read
    /\ pc' = "next" /\ clean' = FALSE
    /\ UNCHANGED <<dirVars, astray, pos, infoVars, room, out>>

EndOfFile ==
    /\ pc = "fill" /\ ~InFile
    /\ pc' = "next"
    /\ UNCHANGED <<dirVars, clean, astray, pos, infoVars, room, out>>

\* iterate fails; the position below is kept for the next call.
Fail ==
    /\ MayFail /\ pc = "fill"
    /\ pc' = "user" /\ room' = 0
    /\ last_pos' = curr_major_pos + curr_minor_pos
    /\ pos' = curr_major_pos + curr_minor_pos
    /\ UNCHANGED <<dirVars, clean, astray, curr_file, end_file, curr_major_pos,
                   curr_minor_pos, read, f_pos, out>>

\* Mutant: the size of the file that was read is not added.
Next_NoMajor ==
    /\ pc = "next"
    /\ curr_minor_pos' = 0
    /\ f_pos' = [f_pos EXCEPT ![curr_file] = 0]
    /\ astray' = IF astray = "twice" THEN "no" ELSE astray
    /\ \/ /\ curr_file < N
          /\ curr_file' = curr_file + 1 /\ end_file' = curr_file + 1
          /\ pc' = "fill" /\ UNCHANGED <<pos, last_pos, room>>
       \/ /\ curr_file = N
          /\ curr_file' = NULL
          /\ last_pos' = curr_major_pos /\ pos' = curr_major_pos
          /\ pc' = "user" /\ room' = 0 /\ UNCHANGED end_file
    /\ UNCHANGED <<dirVars, clean, curr_major_pos, read, out>>

\* Mutant: the last file is not read.
Next_StopsEarly ==
    /\ pc = "next"
    /\ curr_major_pos' = curr_major_pos + DirSize[curr_file]
    /\ curr_minor_pos' = 0
    /\ f_pos' = [f_pos EXCEPT ![curr_file] = 0]
    /\ astray' = IF astray = "twice" THEN "no" ELSE astray
    /\ \/ /\ curr_file + 1 < N
          /\ curr_file' = curr_file + 1 /\ end_file' = curr_file + 1
          /\ pc' = "fill" /\ UNCHANGED <<pos, last_pos, room>>
       \/ /\ curr_file + 1 >= N
          /\ curr_file' = NULL
          /\ last_pos' = curr_major_pos' /\ pos' = curr_major_pos'
          /\ pc' = "user" /\ room' = 0 /\ UNCHANGED end_file
    /\ UNCHANGED <<dirVars, clean, read, out>>

\* The rest of the loop: the next file, or the end of the directory.
NextFile ==
    /\ pc = "next"
    /\ curr_major_pos' = curr_major_pos + DirSize[curr_file]
    /\ curr_minor_pos' = 0
    /\ f_pos' = [f_pos EXCEPT ![curr_file] = 0]
    /\ astray' = IF astray = "twice" THEN "no" ELSE astray
    /\ \/ /\ curr_file < N
          /\ curr_file' = curr_file + 1 /\ end_file' = curr_file + 1
          /\ pc' = "fill" /\ UNCHANGED <<pos, last_pos, room>>
       \/ /\ curr_file = N
          /\ curr_file' = NULL
          /\ last_pos' = curr_major_pos' /\ pos' = curr_major_pos'
          /\ pc' = "user" /\ room' = 0 /\ UNCHANGED end_file
    /\ UNCHANGED <<dirVars, clean, read, out>>

-----------------------------------------------------------------------------
Next ==
    \/ \E n \in Names, r \in Replicas : AddEntry(n, r)
    \/ \E n \in Names : RemoveEntry(n)
    \/ \E p \in {0} \cup {out[i].pos : i \in DOMAIN out} : Seek(p)
    \/ \E b \in Bufs : Start(b)
    \/ StartFails
    \/ SkipSlot \/ SkipDuplicate \/ Emit \/ Refuse \/ NoMemory
    \/ EndOfFile \/ Fail \/ NextFile

Spec == Init /\ [][Next]_vars

-----------------------------------------------------------------------------
(* In a scan no name that stays in the directory is read twice, although a  *)
(* directory of SFS is an entry of several directories below, and although  *)
(* the scan may be cut by an I/O error and entries come and go in between.  *)
NoDuplicates ==
    \A i, j \in DOMAIN out :
        out[i].name = out[j].name /\ out[i].name \in old => i = j

(* The positions the application is given for the entries of a scan grow,   *)
(* so that a position stands for one place, and they lie inside the         *)
(* directory.  The code has two exceptions.  A seek into the middle of a    *)
(* file leaves the names before it counted and reads the file again from    *)
(* its beginning: the positions in that file then run into those of the     *)
(* next files, or past the end.  After a seek past the end has failed,      *)
(* reading goes on behind the last file read, with positions past the end.  *)
PositionsGrow ==
    /\ \A i, j \in DOMAIN out : i < j =>
          \/ out[i].pos < out[j].pos
          \/ out[i].astray = "twice" /\ out[j].astray = "no"
    /\ \A i \in DOMAIN out : out[i].astray = "no" => out[i].pos < Major(N + 1)

ScanEnded == pc = "user" /\ curr_file = NULL /\ pos # 0 /\ whole
Returned  == {out[i].name : i \in DOMAIN out}

(* A scan that began at position 0 and came to the end of the last file has *)
(* returned every name that was there all along, however often it was cut   *)
(* by errors and whatever was added and removed meanwhile.  The code has    *)
(* exceptions, which clean excludes: an entry that does not fit in the      *)
(* buffer ends the file below it; a scan after rewinddir drops directories  *)
(* that are still in the hash table, and reads on where an earlier scan     *)
(* stopped in a file below behind the first.                                *)
ScanComplete == ScanEnded /\ clean => old \subseteq Returned
=============================================================================
