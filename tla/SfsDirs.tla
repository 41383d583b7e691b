------------------------------ MODULE SfsDirs ------------------------------
(***************************************************************************)
(* Directories of SFS (sfs16: namei.c, rename.c, dentry.c, dispatch.c).    *)
(*                                                                         *)
(* A directory of SFS has a copy in some of the replicas, the file systems *)
(* below.  A copy that holds entries of its own is marked normal by an     *)
(* extended attribute; the others are shadows that only lead to what is    *)
(* below them.  sfs_lookup searches the normal copies of the parent alone, *)
(* so an entry in a copy without the mark cannot be found again.           *)
(*                                                                         *)
(* disk is what the replicas hold; dent is the dentry cache of SFS, with   *)
(* the private data of struct sfs_dentry.  Creating an entry clones the    *)
(* missing copies of the path one by one, without the locks of the         *)
(* directories it goes through, and is split into those steps.             *)
(***************************************************************************)
EXTENDS Integers, Sequences, FiniteSets, FiniteSetsExt

CONSTANTS
    N,                \* replica_count
    SPAN_THRESHOLD,   \* normal copies a directory may have
    Tasks,
    Slots, Root,      \* paths of directories, and the root
    Parent,           \* the directory a path is in
    Moves,            \* the renames of directories, <<from, to>>
    MaxCalls          \* bound: calls and remounts of a behaviour

Replicas == 0 .. N - 1
Dirs     == Slots \cup {Root}
No       == "no"      \* no dentry of the replica, or a negative one
Dead     == "dead"    \* a dentry that d_delete left with the removed inode
Unset    == -1        \* first_normal_dir_id before anything is assigned to it
Free     == "free"
Idle     == [pc |-> "idle"]

ASSUME DirsAssumption ==
    /\ N \in Nat \ {0} /\ SPAN_THRESHOLD \in Nat \ {0} /\ MaxCalls \in Nat
    /\ Root \notin Slots /\ Parent \in [Slots -> Dirs]
    /\ Moves \subseteq Slots \X Slots
    /\ {No, Dead} \cap Dirs = {} /\ Free \notin Tasks

VARIABLES
    disk,     \* of each replica: its directories, the marked ones, those with a file
    dent,     \* the dentry of each path, with the fields of sfs_dentry
    lock,     \* holder of i_mutex
    op,       \* the creation each task is at
    made,     \* the replicas in which files were created in a directory
    harmed,   \* paths that a call has moved or removed although it failed
    holed,    \* paths that lost copies to a removal that failed
    oops,     \* "null" or "wild" once such a pointer was used
    calls

vars == <<disk, dent, lock, op, made, harmed, holed, oops, calls>>

-----------------------------------------------------------------------------
(* Dentries.                                                               *)

\* sfs_dentry_real_alloc: first_normal_dir_id is not assigned.
NewDentry(s) == [state |-> s, reps |-> [k \in Replicas |-> No],
                 map |-> {}, count |-> 0, first |-> Unset]

\* clean_dentry: first_normal_dir_id keeps its value.
Clean(e) == [e EXCEPT !.reps = [k \in Replicas |-> No], !.map = {}, !.count = 0]

Cached(d) == dent[d].state # "none"
Below(x, d) == x # Root /\ Parent[x] = d
\* A call holds the dentry, or one below it.
InUse(d) == lock[d] # Free \/ \E t \in Tasks : op[t] # Idle /\ op[t].new = d
BusyBelow(d) == \E x \in Slots : Below(x, d) /\ InUse(x)
\* find_replica_dentry(d, k)->d_inode.
HasInode(e, k) == e.reps[k] # No

\* The private data check_normal_dir leaves after it saw the copies of d in the
\* replicas of seen, k0 first and the others in their order.  A stray semicolon
\* makes it assign first_normal_dir_id each time.
CheckNormal(e, d, seen, k0) ==
    LET normal == {k \in seen : d \in disk[k].normal}
    IN  [e EXCEPT !.map   = @ \cup normal,
                  !.count = @ + Cardinality(normal),
                  !.first = IF normal = {} THEN @
                            ELSE IF normal = {k0} THEN k0 ELSE Max(normal \ {k0})]

\* Mutant: the scan ends with the copies under normal copies of the parent.
sfs_lookup_NoFullScan(d) ==
    LET p    == dent[Parent[d]]
        hits == {k \in p.map : p.reps[k] = Parent[d] /\ d \in disk[k].dirs}
        e    == [NewDentry("pos") EXCEPT !.reps = [k \in Replicas |->
                                                     IF k \in hits THEN d ELSE No]]
    IN  IF hits = {} THEN NewDentry("neg") ELSE CheckNormal(e, d, hits, Min(hits))

\* sfs_lookup for a directory: a copy under a normal copy of the parent makes
\* it look at all copies.
sfs_lookup(d) ==
    LET p    == dent[Parent[d]]
        all  == {k \in Replicas : p.reps[k] = Parent[d] /\ d \in disk[k].dirs}
        hits == all \cap p.map
        e    == [NewDentry("pos") EXCEPT !.reps = [k \in Replicas |->
                                                     IF k \in all THEN d ELSE No]]
    IN  IF hits = {} THEN NewDentry("neg") ELSE CheckNormal(e, d, all, Min(hits))

\* The root at mount time.
Mounted ==
    LET e == [NewDentry("pos") EXCEPT !.reps = [k \in Replicas |-> Root]]
    IN  CheckNormal(e, Root, Replicas, 0)

-----------------------------------------------------------------------------
(* Calls into the replicas.                                                *)

Empty(k, x) == x \notin disk[k].files /\ \A y \in disk[k].dirs \ {Root} : Parent[y] # x

\* rmdir of a copy of d; an inode that is already removed has no entry.
Removable(d, k) == dent[d].reps[k] \in Dirs /\ Empty(k, dent[d].reps[k])

\* Mutant: only the directory itself is cloned.
MissingUp_LeafOnly(d, k) == IF HasInode(dent[d], k) THEN <<>> ELSE <<d>>

\* find_replica_dentry finds no copy of these directories, the topmost first.
RECURSIVE MissingUp(_, _)
MissingUp(d, k) ==
    IF HasInode(dent[d], k) THEN <<>> ELSE Append(MissingUp(Parent[d], k), d)

-----------------------------------------------------------------------------
(* Creating an entry: a file in d, or the directory c of d.                *)

Threshold == IF N > SPAN_THRESHOLD THEN SPAN_THRESHOLD ELSE N

\* local_dispatch: a replica without a normal copy, while there may be more of
\* them, else the normal ones in turn.
local_dispatch(d) ==
    IF dent[d].count < Threshold THEN Replicas \ dent[d].map ELSE dent[d].map

\* sfs_add_dir_entry puts directories below the first normal copy.
dir_dispatch(d) == IF dent[d].count = 0 THEN Replicas ELSE {dent[d].first}

\* The task has chosen replica k for an entry of d.
Begin(t, d, c, k) ==
    /\ op' = [op EXCEPT ![t] = [pc |-> "check", dir |-> d, new |-> c, k |-> k,
                                path |-> MissingUp(d, k)]]
    /\ lock' = [lock EXCEPT ![d] = t]
    /\ calls' = calls + 1
    /\ UNCHANGED <<disk, dent, made, harmed, holed, oops>>

Ready(t, d) == op[t] = Idle /\ Cached(d) /\ lock[d] = Free /\ calls < MaxCalls /\ oops = "no"

BeginCreate(t, d) ==
    /\ Ready(t, d) /\ dent[d].state = "pos"
    /\ \E k \in local_dispatch(d) : Begin(t, d, "file", k)

BeginMkdir(t, c) ==
    /\ Ready(t, Parent[c]) /\ dent[c].state = "neg"
    /\ \E k \in dir_dispatch(Parent[c]) : Begin(t, Parent[c], c, k)

Finish(t) ==
    /\ op' = [op EXCEPT ![t] = Idle]
    /\ lock' = [lock EXCEPT ![op[t].dir] = Free]

\* sfs_clone_branch, next directory of the path: get_replica_dentry looks the
\* copy up, in a copy of the parent that may have been removed meanwhile.
CloneCheck(t) ==
    /\ op[t].pc = "check" /\ op[t].path # <<>> /\ oops = "no"
    /\ LET d == Head(op[t].path)
           k == op[t].k
           p == dent[Parent[d]].reps[k]
           there == d \in disk[k].dirs /\ p = Parent[d]
       IN  IF p = No
           THEN oops' = "null" /\ UNCHANGED <<dent, op>>
           ELSE /\ dent' = IF ~HasInode(dent[d], k) /\ there
                           THEN [dent EXCEPT ![d].reps[k] = d] ELSE dent
                /\ op' = [op EXCEPT ![t] =
                            IF HasInode(dent[d], k) \/ there
                            THEN [@ EXCEPT !.path = Tail(@)]
                            ELSE [@ EXCEPT !.pc = "mkdir"]]
                /\ UNCHANGED oops
    /\ UNCHANGED <<disk, lock, made, harmed, holed, calls>>

\* The mkdir of a copy; a copy another task has made is an error, and in a
\* removed directory the new one is lost.
CloneMkdir(t) ==
    /\ op[t].pc = "mkdir" /\ oops = "no"
    /\ LET d == Head(op[t].path)
           k == op[t].k
           next == [op EXCEPT ![t].pc = "check", ![t].path = Tail(@)]
           p == dent[Parent[d]].reps[k]
       IN  \/ /\ p = No
              /\ oops' = "null"
              /\ UNCHANGED <<disk, dent, op, lock>>
           \/ /\ p = Dead
              /\ dent' = [dent EXCEPT ![d].reps[k] = Dead]
              /\ op' = next
              /\ UNCHANGED <<disk, lock, oops>>
           \/ /\ p \in Dirs /\ d \notin disk[k].dirs
              /\ disk' = [disk EXCEPT ![k].dirs = @ \cup {d}]
              /\ dent' = [dent EXCEPT ![d].reps[k] = d]
              /\ op' = next
              /\ UNCHANGED <<lock, oops>>
           \/ /\ p \in Dirs /\ d \in disk[k].dirs
              /\ Finish(t)
              /\ UNCHANGED <<disk, dent, oops>>
    /\ UNCHANGED <<made, harmed, holed, calls>>

\* set_normal_dir: the mark on disk, unless the bitmap has it.
SetNormal(e, k) ==
    IF k \in e.map THEN e
    ELSE [e EXCEPT !.map = @ \cup {k}, !.count = @ + 1,
                   !.first = IF e.count = 0 THEN k ELSE @]

\* Mutant: the attribute is not written.
MarkOn_Nothing(ds, e, k) == ds

MarkOn(ds, e, k) ==
    IF k \in e.map \/ e.reps[k] = Dead THEN ds
    ELSE [ds EXCEPT ![k].normal = @ \cup {e.reps[k]}]

\* The rest of create_replica_dir and of simple_add_entry.
AddFile(t) ==
    /\ op[t].pc = "check" /\ op[t].path = <<>> /\ op[t].new = "file" /\ oops = "no"
    /\ LET d == op[t].dir
           k == op[t].k
           x == dent[d].reps[k]
           marked == MarkOn(disk, dent[d], k)
       IN  IF x = No
           THEN oops' = "null" /\ UNCHANGED <<disk, dent, op, lock, made>>
           ELSE /\ disk' = IF x = Dead THEN disk
                           ELSE [marked EXCEPT ![k].files = @ \cup {x}]
                /\ dent' = [dent EXCEPT ![d] = SetNormal(@, k)]
                /\ made' = [made EXCEPT ![d] = @ \cup {k}]
                /\ Finish(t)
                /\ UNCHANGED oops
    /\ UNCHANGED <<harmed, holed, calls>>

\* simple_add_dir_entry and sfs_add_dir_entry.
AddDir(t) ==
    /\ op[t].pc = "check" /\ op[t].path = <<>> /\ op[t].new # "file" /\ oops = "no"
    /\ LET p == op[t].dir
           c == op[t].new
           k == op[t].k
           x == dent[p].reps[k]
           marked == MarkOn(disk, dent[p], k)
           parent == [dent EXCEPT ![p] = SetNormal(@, k)]
       IN  IF x = No
           THEN oops' = "null" /\ UNCHANGED <<disk, dent, op, lock>>
           ELSE /\ IF HasInode(dent[c], k)
                   THEN /\ dent' = [parent EXCEPT ![c].state = "pos"]
                        /\ disk' = marked
                   ELSE IF c \in disk[k].dirs /\ x = p
                   THEN /\ dent' = [parent EXCEPT ![c].reps[k] = c]
                        /\ disk' = marked
                   ELSE /\ dent' = [parent EXCEPT ![c].state = "pos",
                                          ![c].reps[k] = IF x = p THEN c ELSE Dead]
                        /\ disk' = IF x = p THEN [marked EXCEPT ![k].dirs = @ \cup {c}]
                                   ELSE marked
                /\ Finish(t)
                /\ UNCHANGED oops
    /\ UNCHANGED <<made, harmed, holed, calls>>

-----------------------------------------------------------------------------
(* Removing and renaming directories.  i_mutex of the parents, and of a     *)
(* directory that is removed, is held for the whole call.                   *)

\* Mutant: the copies go in the order of the replicas.
sfs_rmdir_InOrder(d) ==
    LET have  == {k \in Replicas : HasInode(dent[d], k)}
        bad   == {k \in have : ~Removable(d, k)}
        early == {k \in have : \A j \in bad : k < j}
    IN  [gone |-> early, ok |-> bad = {}, clean |-> bad = {}]

\* sfs_rmdir: the copies gone, what it returns and whether it cleans d.  The
\* copy in the first normal replica of the parent goes last.
sfs_rmdir(d) ==
    LET p     == dent[Parent[d]]
        last  == IF p.count > 0 THEN p.first ELSE Unset
        have  == {k \in Replicas \ {last} : HasInode(dent[d], k)}
        bad   == {k \in have : ~Removable(d, k)}
        early == {k \in have : \A j \in bad : k < j}
        res(gone, ok, clean) == [gone |-> gone, ok |-> ok, clean |-> clean]
    IN  IF bad # {} THEN res(early, FALSE, FALSE)
        ELSE IF last = Unset THEN res(have, have # {}, TRUE)
        ELSE IF ~HasInode(dent[d], last) \/ ~Removable(d, last)
        THEN res(have, FALSE, FALSE)
        ELSE res(have \cup {last}, TRUE, TRUE)

\* What is left on disk.
Without(d, gone) ==
    [k \in Replicas |->
        IF k \notin gone THEN disk[k]
        ELSE LET x == dent[d].reps[k]
             IN  [disk[k] EXCEPT !.dirs = @ \ {x}, !.normal = @ \ {x}]]

\* d_delete: the dentry of a removed copy turns negative (No) unless someone
\* else uses it (Dead), as a dentry below that is still there always does.
Left(d) == {l \in [Replicas -> {No, Dead}] :
               \A x \in Slots, k \in Replicas :
                   Below(x, d) /\ HasInode(dent[x], k) => l[k] = Dead}

Delete(d, gone, left) ==
    [x \in Dirs |-> [dent[x] EXCEPT !.reps = [k \in Replicas |->
        IF k \in gone /\ dent[x].reps[k] = dent[d].reps[k] THEN left[k] ELSE dent[x].reps[k]]]]

\* The dentry of d after the call, and the ones below it after its removal.
Removed(ds, d, r) ==
    [x \in Dirs |->
        IF x = d THEN (LET e == IF r.clean THEN Clean(ds[d]) ELSE ds[d]
                       IN  IF r.ok THEN [e EXCEPT !.state = "neg"] ELSE e)
        ELSE IF r.ok /\ Below(x, d) THEN NewDentry("none")
        ELSE ds[x]]

\* A removal that failed has taken copies of d; the one to go last was not there.
Taken(d, r) == ~r.ok /\ r.gone # {}
Harmed(d, r) ==
    IF Taken(d, r) /\ dent[Parent[d]].count > 0
       /\ ~HasInode(dent[d], dent[Parent[d]].first) THEN {d} ELSE {}
Holed(d, r) == IF Taken(d, r) THEN {d} ELSE {}

Rmdir(t, d) ==
    /\ Ready(t, Parent[d]) /\ dent[d].state = "pos" /\ lock[d] = Free
    /\ LET r == sfs_rmdir(d)
       IN  /\ r.ok => ~BusyBelow(d)
           /\ disk' = Without(d, r.gone)
           /\ \E left \in Left(d) : dent' = Removed(Delete(d, r.gone, left), d, r)
           /\ made' = IF r.ok THEN [made EXCEPT ![d] = {}] ELSE made
           /\ harmed' = harmed \cup Harmed(d, r)
           /\ holed' = (IF r.ok THEN holed \ {d} ELSE holed) \cup Holed(d, r)
    /\ calls' = calls + 1
    /\ UNCHANGED <<lock, op, oops>>

\* The lower rename of o to n in one replica.  A copy that goes to a removed
\* directory is lost with it.
Moved(s, o, n, lost) ==
    LET to(S) == (S \ {o, n}) \cup (IF o \in S /\ ~lost THEN {n} ELSE {})
    IN  [dirs |-> to(s.dirs), normal |-> to(s.normal), files |-> to(s.files)]

\* sfs_rename_dir once the target is gone: every copy of o is moved, below a copy
\* of the new parent; for a copy that was removed that copy is made as well, and
\* the rename below finds no entry.  The copy of the old parent always has an
\* inode, as Left says: the test for EIO never fails.  Then a copy of n is made in replica id.  d_move leaves the
\* dentries of n negative, so that mkdir meets a copy that was moved there.
RenameCopies(disks, ds, o, n, id) ==
    LET np    == Parent[n]
        ks    == {k \in Replicas : ds[o].reps[k] = o}
        clone == {k \in Replicas : (HasInode(ds[o], k) \/ k = id) /\ ~HasInode(ds[np], k)}
        ds1   == [ds EXCEPT ![np].reps = [k \in Replicas |-> IF k \in clone THEN np ELSE @[k]]]
        disk1 == [k \in Replicas |-> IF k \in clone
                                     THEN [disks[k] EXCEPT !.dirs = @ \cup {np}] ELSE disks[k]]
        dead  == {k \in Replicas : ds1[np].reps[k] = Dead}
        there == {k \in Replicas \ dead : n \in disk1[k].dirs}
        \* A copy of n that is not empty makes the lower rename fail, unnoticed.
        ok    == {k \in ks : k \in there => n \notin disk1[k].files}
        disk2 == [k \in Replicas |-> IF k \in ok THEN Moved(disk1[k], o, n, k \in dead)
                                     ELSE disk1[k]]
        disk3 == MarkOn(disk2, ds1[np], id)
        err   == id \notin dead /\ (id \in ks) # (id \in there)
        mkdir == id \notin dead /\ id \notin ks \cup there
        \* The dentries of a copy follow it; those of one it replaces do not.
        after(k, x) == IF k \notin ok THEN x
                       ELSE IF x = o THEN (IF k \in dead THEN Dead ELSE n)
                       ELSE IF x = n THEN Dead ELSE x
        ds2   == [x \in Dirs |->
                    [(IF x = np THEN SetNormal(ds1[np], id) ELSE ds1[x]) EXCEPT
                        !.reps = [k \in Replicas |-> after(k, @[k])]]]
    IN  [ok   |-> ~err,
         disk |-> IF mkdir THEN [disk3 EXCEPT ![id].dirs = @ \cup {n}] ELSE disk3,
         \* On success the VFS gives the dentry of o the name n.
         dent |-> IF err THEN ds2
                  ELSE [x \in Dirs |-> IF x = n THEN ds2[o]
                                       ELSE IF x = o \/ Below(x, n) THEN NewDentry("none")
                                       ELSE ds2[x]]]

\* first_normal_dir_id of the new parent is read although nothing may have been
\* assigned to it: any replica, or an index out of range.
RenameDir(t, o, n) ==
    /\ Ready(t, Parent[o]) /\ Cached(Parent[n]) /\ lock[Parent[n]] = Free
    /\ dent[o].state = "pos" /\ lock[o] = Free /\ Cached(n)
    /\ harmed = {}   \* bound: no rename follows a call that did harm
    /\ dent[n].state = "pos" => lock[n] = Free
    /\ LET r  == IF dent[n].state = "pos" THEN sfs_rmdir(n)
                 ELSE [gone |-> {}, ok |-> TRUE, clean |-> FALSE]
           d1 == Without(n, r.gone)
           f  == dent[Parent[n]].first
       IN  \E left \in Left(n), id \in IF f = Unset THEN Replicas ELSE {f} :
             LET e1 == Delete(n, r.gone, left)
                 e2 == [e1 EXCEPT ![n] = IF r.clean THEN Clean(@) ELSE @]
                 m  == RenameCopies(d1, e2, o, n, id)
             IN  /\ r.ok => ~BusyBelow(n)
                 /\ disk' = IF r.ok THEN m.disk ELSE d1
                 /\ dent' = IF r.ok THEN m.dent ELSE e2
                 /\ made' = IF r.ok /\ m.ok
                            THEN [made EXCEPT ![n] = made[o], ![o] = {}] ELSE made
                 /\ harmed' = harmed \cup Harmed(n, r)
                                \cup (IF r.ok /\ ~m.ok THEN {o, n} ELSE {})
                 /\ holed' = holed \cup Holed(n, r)
                                \cup (IF r.ok /\ m.ok /\ o \in holed THEN {n} ELSE {})
    /\ calls' = calls + 1
    /\ UNCHANGED <<lock, op, oops>>

\* The same, when the index is out of range.
RenameWild(t, o, n) ==
    /\ Ready(t, Parent[o]) /\ Cached(Parent[n]) /\ lock[Parent[n]] = Free
    /\ dent[o].state = "pos" /\ Cached(n) /\ dent[Parent[n]].first = Unset
    /\ oops' = "wild"
    /\ UNCHANGED <<disk, dent, lock, op, made, harmed, holed, calls>>

-----------------------------------------------------------------------------
(* Files go; dentries come and go.                                         *)

\* A file of d that is found is unlinked.
Unlink(t, d) ==
    /\ Ready(t, d) /\ dent[d].state = "pos"
    /\ \E k \in made[d] \cap dent[d].map :
         /\ dent[d].reps[k] \in disk[k].files
         /\ disk' = [disk EXCEPT ![k].files = @ \ {dent[d].reps[k]}]
         /\ made' = [made EXCEPT ![d] = @ \ {k}]
    /\ calls' = calls + 1
    /\ UNCHANGED <<dent, lock, op, harmed, holed, oops>>

Lookup(t, d) ==
    /\ op[t] = Idle /\ ~Cached(d) /\ oops = "no"
    /\ dent[Parent[d]].state = "pos" /\ lock[Parent[d]] = Free
    /\ dent' = [dent EXCEPT ![d] = sfs_lookup(d)]
    /\ UNCHANGED <<disk, lock, op, made, harmed, holed, oops, calls>>

\* The shrinker, sfs_dentry_release.
Forget(d) ==
    /\ Cached(d) /\ ~InUse(d) /\ oops = "no"
    /\ \A x \in Slots : Below(x, d) => ~Cached(x)
    /\ dent' = [dent EXCEPT ![d] = NewDentry("none")]
    /\ UNCHANGED <<disk, lock, op, made, harmed, holed, oops, calls>>

Remount ==
    /\ \A t \in Tasks : op[t] = Idle
    /\ calls < MaxCalls /\ oops = "no"
    /\ dent' = [d \in Dirs |-> IF d = Root THEN Mounted ELSE NewDentry("none")]
    /\ calls' = calls + 1
    /\ UNCHANGED <<disk, lock, op, made, harmed, holed, oops>>

-----------------------------------------------------------------------------

\* Empty replicas, mounted.
Init ==
    /\ disk = [k \in Replicas |-> [dirs |-> {Root}, normal |-> {}, files |-> {}]]
    /\ dent = [d \in Dirs |-> IF d = Root THEN Mounted ELSE NewDentry("none")]
    /\ lock = [d \in Dirs |-> Free]
    /\ op = [t \in Tasks |-> Idle]
    /\ made = [d \in Dirs |-> {}]
    /\ harmed = {} /\ holed = {} /\ oops = "no" /\ calls = 0

Work(t) ==
    \/ \E d \in Dirs : BeginCreate(t, d) \/ Unlink(t, d)
    \/ \E d \in Slots : BeginMkdir(t, d) \/ Rmdir(t, d) \/ Lookup(t, d)
    \/ \E m \in Moves : RenameDir(t, m[1], m[2]) \/ RenameWild(t, m[1], m[2])
    \/ CloneCheck(t) \/ CloneMkdir(t) \/ AddFile(t) \/ AddDir(t)

Next == Remount \/ (\E d \in Slots : Forget(d)) \/ (\E t \in Tasks : Work(t))

Spec == Init /\ [][Next]_vars

-----------------------------------------------------------------------------
(* Properties.                                                             *)

\* What lookups from the root find on disk.
RECURSIVE Visible(_)
Visible(d) ==
    d = Root \/ /\ Visible(Parent[d])
                /\ \E k \in Replicas : Parent[d] \in disk[k].normal /\ d \in disk[k].dirs

RECURSIVE Path(_)
Path(d) == IF d = Root THEN {Root} ELSE {d} \cup Path(Parent[d])

\* No call that failed has changed the directory or one above it.
Whole(d) == Path(d) \cap (harmed \cup holed) = {}

(* A file whose creation succeeded is found again when no dentry is cached: *)
(* its directory is visible and the copy that holds it marked, while the    *)
(* copies above it are cloned by several tasks at a time and others are     *)
(* removed.  Exception: a removal that failed took copies of a directory of *)
(* the path, of which the bitmap still has the bits.                        *)
FilesVisible ==
    \A d \in Dirs : \A k \in made[d] :
        Whole(d) => Visible(d) /\ d \in disk[k].normal /\ d \in disk[k].files

(* A dentry agrees with the disk: a directory with a positive one is found  *)
(* again, also when sfs_rmdir failed half-way, as the copy under the first  *)
(* normal copy of the parent goes last; a path with a negative one is not   *)
(* found, so that no copy a removal left shows up again.  Exceptions: the   *)
(* copy to go last did not exist, because a lookup has changed              *)
(* first_normal_dir_id; a rename returned EEXIST with all copies moved.     *)
PathsAgree ==
    \A d \in Slots : dent[d].state # "none" /\ d \notin harmed /\ Whole(Parent[d]) =>
        (dent[d].state = "pos" <=> Visible(d))

(* normal_dir_map, normal_dir_count and first_normal_dir_id belong together *)
(* whatever creations, renames and lookups set them: local_dispatch would   *)
(* search the map forever, with the spinlock held, if the count were wrong. *)
(* And the map names the copies that are marked on disk, with the exception *)
(* of FilesVisible.                                                         *)
MapIsDisk ==
    \A d \in Dirs :
        /\ dent[d].count = Cardinality(dent[d].map)
        /\ dent[d].count > 0 => dent[d].first \in dent[d].map
        /\ dent[d].state = "pos" /\ Whole(d) =>
              dent[d].map = {k \in Replicas : d \in disk[k].normal}

(* The clone of a branch and the creation after it use no copy without      *)
(* inode, unless a removal that failed took it away meanwhile.              *)
NoOops == oops = "null" => harmed \cup holed # {}
============================================================================
