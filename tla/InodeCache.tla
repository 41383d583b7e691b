----------------------------- MODULE InodeCache -----------------------------
(***************************************************************************)
(* The partitioned inode cache.  A superblock on a loop device has a hash  *)
(* table of its own and a lock for it, set up by mount_fs after the file   *)
(* system has been mounted; the others share the global ones.  Tasks look  *)
(* inodes up, create, unlink and release them while the memory shrinker    *)
(* evicts unused ones and the device is mounted again.                     *)
(*                                                                         *)
(* A section under a table's lock is one step; a task reads which table    *)
(* and lock to use in an earlier one.  The chains of a table are the set   *)
(* of inodes hashed in it.                                                 *)
(***************************************************************************)
EXTENDS Naturals, FiniteSets

CONSTANTS
    Tasks,
    Sbs, LoopSbs,      \* superblocks, and those whose device is /dev/loop*
    Inos, RootIno,     \* inode numbers
    Objs,              \* memory for inodes
    NoObj, Off,
    MaxTables          \* bound: sets of tables a superblock is given

ASSUME CacheAssumption ==
    /\ IsFiniteSet(Tasks) /\ LoopSbs \subseteq Sbs /\ RootIno \in Inos
    /\ MaxTables \in Nat \ {0} /\ NoObj \notin Objs /\ Off \notin Sbs

VARIABLES
    sb,      \* the superblocks
    disk,    \* inode numbers in use on disk
    inode,   \* the inodes in memory
    w,       \* what a task does
    bare     \* inodes taken out of a table under another table's lock

vars == <<sb, disk, inode, w, bare>>

NoSb  == [state |-> "none", active |-> 0, isloop |-> FALSE, tables |-> 0, again |-> FALSE]
NoInode == [state |-> "free", sb |-> Off, ino |-> Off, count |-> 0, nlink |-> 0, table |-> Off]

\* obj is the inode held, waited for or evicted; head the table read.
Idle == [pc |-> "idle", sb |-> Off, ino |-> Off, head |-> Off, obj |-> NoObj]

Init ==
    /\ sb = [s \in Sbs |-> NoSb]
    /\ disk = [s \in Sbs |-> {RootIno}]
    /\ inode = [i \in Objs |-> NoInode]
    /\ w = [t \in Tasks |-> Idle]
    /\ bare = {}

-----------------------------------------------------------------------------
Global == <<Off, 0>>

groupfs_get_ihtable(s) == IF sb[s].isloop THEN <<s, sb[s].tables>> ELSE Global

\* Mutant: every table has the global lock.
groupfs_get_ihlock_Global(s) == Off

\* The lock of a table is its superblock's, or the global one.
groupfs_get_ihlock(s) == IF sb[s].isloop THEN s ELSE Off

LockOf(table) == table[1]

Freeing(i) == inode[i].state = "freeing"

\* The inodes of table h with this superblock and number.
Matching(h, s, ino) ==
    {i \in Objs : inode[i].table = h /\ inode[i].sb = s /\ inode[i].ino = ino}

At(t, l) == w[t].pc = l

Busy(s) == \E t \in Tasks : w[t].sb = s

-----------------------------------------------------------------------------
(* Mounting.                                                                *)

\* type->mount of a device that is not mounted: alloc_super, and fill_super
\* reads the root inode, which the root dentry keeps.  The journal inode, which
\* is read in the same way and kept until the unmount, is not looked up again.
MountNew(s, i) ==
    /\ sb[s].state = "none" /\ inode[i] = NoInode
    /\ sb' = [sb EXCEPT ![s] = [NoSb EXCEPT !.state = "filled", !.active = 1]]
    /\ inode' = [inode EXCEPT ![i] =
          [state |-> "live", sb |-> s, ino |-> RootIno, count |-> 1, nlink |-> 1,
           table |-> groupfs_get_ihtable(s)]]
    /\ UNCHANGED <<disk, w, bare>>

\* type->mount of a device that is mounted returns its superblock.
MountAgain(s) ==
    /\ sb[s].state = "up" /\ sb[s].active < 2
    /\ s \in LoopSbs => sb[s].tables < MaxTables
    /\ sb' = [sb EXCEPT ![s].state = "filled", ![s].active = @ + 1, ![s].again = TRUE]
    /\ UNCHANGED <<disk, inode, w, bare>>

\* The rest of mount_fs: on a loop device the superblock gets new tables.
mount_fs(s) ==
    /\ sb[s].state = "filled"
    /\ IF s \in LoopSbs
       THEN sb' = [sb EXCEPT ![s].state = "up", ![s].isloop = TRUE, ![s].tables = @ + 1]
       ELSE sb' = [sb EXCEPT ![s].state = "up"]
    /\ UNCHANGED <<disk, inode, w, bare>>

\* The inodes of set gone are unhashed; those in another table than the one
\* whose lock is held are recorded.
Unhash(gone, s) ==
    /\ inode' = [i \in Objs |-> IF i \in gone THEN NoInode ELSE inode[i]]
    /\ bare' = bare \cup {[loop |-> s \in LoopSbs, table |-> inode[i].table] :
                             i \in {j \in gone : LockOf(inode[j].table) # groupfs_get_ihlock(s)}}

\* The last unmount drops the root dentry, and evict_inodes every inode.
Umount(s) ==
    /\ sb[s].state = "up" /\ ~Busy(s)
    /\ IF sb[s].active > 1
       THEN /\ sb' = [sb EXCEPT ![s].active = @ - 1]
            /\ UNCHANGED <<inode, bare>>
       ELSE /\ sb' = [sb EXCEPT ![s] = NoSb]
            /\ Unhash({i \in Objs : inode[i].sb = s}, s)
    /\ UNCHANGED <<disk, w>>

-----------------------------------------------------------------------------
(* Looking up: iget_locked.                                                 *)

Mounted(s) == sb[s].active > 0 /\ (sb[s].state = "up" \/ sb[s].again)

Start(t, s, ino, l) ==
    w' = [w EXCEPT ![t] = [pc |-> l, sb |-> s, ino |-> ino,
                           head |-> groupfs_get_ihtable(s), obj |-> NoObj]]

\* A directory has the number: it is not being created and not unlinked.
HasName(s, ino) ==
    /\ \A u \in Tasks : ~(w[u].sb = s /\ w[u].ino = ino /\ w[u].pc \in {"create", "ebusy", "evict"})
    /\ \A i \in Objs : (inode[i].sb = s /\ inode[i].ino = ino /\ ~Freeing(i)) => inode[i].nlink = 1

\* The number was read from a directory, whose i_mutex keeps the name there.
iget_locked(t, s, ino) ==
    /\ At(t, "idle") /\ Mounted(s) /\ ino \in disk[s]
    /\ HasName(s, ino)
    /\ Start(t, s, ino, "find")
    /\ UNCHANGED <<sb, disk, inode, bare>>

\* Mutant: an inode that is being freed is taken.
Got_Freeing(t, i) ==
    /\ inode' = [inode EXCEPT ![i].count = @ + 1]
    /\ w' = [w EXCEPT ![t].pc = IF inode[i].state = "new" THEN "waitnew" ELSE "using",
                      ![t].obj = i]

\* A task has found inode i: it waits for one that is being freed or read.
Got(t, i) ==
    IF Freeing(i) THEN /\ w' = [w EXCEPT ![t].pc = IF At(t, "find") THEN "wait" ELSE "wait2",
                                         ![t].obj = i]
                       /\ UNCHANGED inode
    ELSE /\ inode' = [inode EXCEPT ![i].count = @ + 1]
         /\ w' = [w EXCEPT ![t].pc = IF inode[i].state = "new" THEN "waitnew" ELSE "using",
                           ![t].obj = i]

\* find_inode_fast, under the lock.
find_inode_fast(t) ==
    /\ At(t, "find")
    /\ LET found == Matching(w[t].head, w[t].sb, w[t].ino)
       IN  IF found = {} THEN w' = [w EXCEPT ![t].pc = "insert"] /\ UNCHANGED inode
           ELSE \E i \in found : Got(t, i)
    /\ UNCHANGED <<sb, disk, bare>>

\* A new inode i of task t is hashed; the task will read it.
Hash(t, i) ==
    /\ inode' = [inode EXCEPT ![i] = [state |-> "new", sb |-> w[t].sb, ino |-> w[t].ino,
                                      count |-> 1, nlink |-> 1, table |-> w[t].head]]
    /\ w' = [w EXCEPT ![t].pc = "fill", ![t].obj = i]

\* Mutant: the table is not searched again.
Insert_NoRecheck(t) ==
    /\ At(t, "insert")
    /\ \E i \in Objs : inode[i] = NoInode /\ Hash(t, i)
    /\ UNCHANGED <<sb, disk, bare>>

\* The table is searched again; the new inode is hashed if there is none.
Insert(t) ==
    /\ At(t, "insert")
    /\ LET found == Matching(w[t].head, w[t].sb, w[t].ino)
       IN  IF found = {} THEN \E i \in Objs : inode[i] = NoInode /\ Hash(t, i)
           ELSE \E i \in found : Got(t, i)
    /\ UNCHANGED <<sb, disk, bare>>

\* alloc_inode fails.
InsertFails(t) ==
    /\ At(t, "insert")
    /\ w' = [w EXCEPT ![t] = Idle]
    /\ UNCHANGED <<sb, disk, inode, bare>>

\* unlock_new_inode, when the inode has been read.
unlock_new_inode(t) ==
    /\ At(t, "fill")
    /\ inode' = [inode EXCEPT ![w[t].obj].state = "live"]
    /\ w' = [w EXCEPT ![t].pc = "using"]
    /\ UNCHANGED <<sb, disk, bare>>

wait_on_inode(t) ==
    /\ At(t, "waitnew") /\ inode[w[t].obj].state # "new"
    /\ w' = [w EXCEPT ![t].pc = "using"]
    /\ UNCHANGED <<sb, disk, inode, bare>>

-----------------------------------------------------------------------------
(* Creating: the file system takes a number that is free on disk.           *)

new_inode(t, s, ino) ==
    /\ At(t, "idle") /\ Mounted(s) /\ ino \notin disk[s]
    /\ disk' = [disk EXCEPT ![s] = @ \cup {ino}]
    /\ Start(t, s, ino, "create")
    /\ UNCHANGED <<sb, inode, bare>>

\* insert_inode_locked passes over inodes that are being freed; another inode
\* of the number is an error, and the number is given back.  The code takes a
\* reference to that inode, waits until it is read and drops it again; if it was
\* unhashed meanwhile the code starts over, which is the other branch.
insert_inode_locked(t) ==
    /\ At(t, "create")
    /\ IF \A i \in Matching(w[t].head, w[t].sb, w[t].ino) : Freeing(i)
       THEN /\ \E i \in Objs : inode[i] = NoInode /\ Hash(t, i)
            /\ UNCHANGED disk
       ELSE /\ w' = [w EXCEPT ![t].pc = "ebusy"]
            /\ UNCHANGED <<inode, disk>>
    /\ UNCHANGED <<sb, bare>>

CreateFails(t) ==
    /\ At(t, "ebusy") \/ At(t, "create")
    /\ disk' = [disk EXCEPT ![w[t].sb] = @ \ {w[t].ino}]
    /\ w' = [w EXCEPT ![t] = Idle]
    /\ UNCHANGED <<sb, inode, bare>>

-----------------------------------------------------------------------------
(* Releasing.                                                               *)

\* Mutant: the number is given back with the name.
Unlink_FreesNumber(t) ==
    /\ At(t, "using") /\ w[t].ino # RootIno /\ inode[w[t].obj].nlink = 1
    /\ inode' = [inode EXCEPT ![w[t].obj].nlink = 0]
    /\ disk' = [disk EXCEPT ![w[t].sb] = @ \ {w[t].ino}]
    /\ UNCHANGED <<sb, w, bare>>

\* The name goes; i_mutex keeps lookups of it out.
Unlink(t) ==
    /\ At(t, "using") /\ w[t].ino # RootIno /\ inode[w[t].obj].nlink = 1
    /\ \A u \in Tasks \ {t} :
          w[u].sb = w[t].sb /\ w[u].ino = w[t].ino => w[u].pc \in {"using", "evict", "unhash"}
    /\ inode' = [inode EXCEPT ![w[t].obj].nlink = 0]
    /\ UNCHANGED <<sb, disk, w, bare>>

\* iput: an inode without a name is freed with the last reference, another
\* one stays in the cache.
iput(t) ==
    /\ At(t, "using")
    /\ LET i    == w[t].obj
           drop == inode[i].count = 1 /\ inode[i].nlink = 0
       IN  /\ inode' = [inode EXCEPT ![i].count = @ - 1,
                                     ![i].state = IF drop THEN "freeing" ELSE @]
           /\ w' = [w EXCEPT ![t] = IF drop THEN [@ EXCEPT !.pc = "evict"] ELSE Idle]
    /\ UNCHANGED <<sb, disk, bare>>

\* The memory shrinker takes an unused inode.
prune_icache_sb(t, i) ==
    /\ At(t, "idle") /\ inode[i].state = "live" /\ inode[i].count = 0
    /\ sb[inode[i].sb].state = "up"
    /\ inode' = [inode EXCEPT ![i].state = "freeing"]
    /\ w' = [w EXCEPT ![t] = [pc |-> "unhash", sb |-> inode[i].sb, ino |-> inode[i].ino,
                              head |-> Off, obj |-> i]]
    /\ UNCHANGED <<sb, disk, bare>>

\* evict: ext3_evict_inode gives the number of an unlinked inode back ...
ext3_evict_inode(t) ==
    /\ At(t, "evict")
    /\ disk' = [disk EXCEPT ![w[t].sb] = @ \ {w[t].ino}]
    /\ w' = [w EXCEPT ![t].pc = "unhash"]
    /\ UNCHANGED <<sb, inode, bare>>

\* Mutant: nobody is woken.
Woken_None(t) == [w EXCEPT ![t] = Idle]

\* ... then the inode is unhashed and freed, and the tasks that wait for that
\* search again.
Woken(t) ==
    [u \in Tasks |->
        IF u = t THEN Idle
        ELSE IF w[u].pc \in {"wait", "wait2"} /\ w[u].obj = w[t].obj
        THEN [w[u] EXCEPT !.pc = IF @ = "wait" THEN "find" ELSE "insert", !.obj = NoObj]
        ELSE w[u]]

remove_inode_hash(t) ==
    /\ At(t, "unhash")
    /\ Unhash({w[t].obj}, w[t].sb)
    /\ w' = Woken(t)
    /\ UNCHANGED <<sb, disk>>

-----------------------------------------------------------------------------
Next ==
    \/ \E s \in Sbs :
          \/ \E i \in Objs : MountNew(s, i)
          \/ MountAgain(s)
          \/ mount_fs(s)
          \/ Umount(s)
    \/ \E t \in Tasks :
          \/ \E s \in Sbs, ino \in Inos : iget_locked(t, s, ino) \/ new_inode(t, s, ino)
          \/ find_inode_fast(t)
          \/ Insert(t)
          \/ InsertFails(t)
          \/ unlock_new_inode(t)
          \/ wait_on_inode(t)
          \/ insert_inode_locked(t)
          \/ CreateFails(t)
          \/ Unlink(t)
          \/ iput(t)
          \/ \E i \in Objs : prune_icache_sb(t, i)
          \/ ext3_evict_inode(t)
          \/ remove_inode_hash(t)

Spec == Init /\ [][Next]_vars

-----------------------------------------------------------------------------
Labels == {"idle", "find", "insert", "wait", "wait2", "fill", "waitnew", "using",
           "create", "ebusy", "evict", "unhash"}
Tables == ((Sbs \cup {Off}) \X Nat) \cup {Off}

SuperBlock ==
    [state : {"none", "filled", "up"}, active : 0 .. 2, isloop : BOOLEAN,
     tables : 0 .. MaxTables, again : BOOLEAN]
Inode ==
    [state : {"free", "new", "live", "freeing"}, sb : Sbs \cup {Off}, ino : Inos \cup {Off},
     count : Nat, nlink : {0, 1}, table : Tables]
Work ==
    [pc : Labels, sb : Sbs \cup {Off}, ino : Inos \cup {Off}, head : Tables,
     obj : Objs \cup {NoObj}]

\* The shapes of the state.
TypeOK ==
    /\ sb \in [Sbs -> SuperBlock]
    /\ disk \in [Sbs -> SUBSET Inos]
    /\ inode \in [Objs -> Inode]
    /\ w \in [Tasks -> Work]
    /\ bare \subseteq [loop : BOOLEAN, table : Tables]

\* Inode i was hashed before its superblock got the table it has now: in
\* fill_super, or before the device was mounted again.
Left(i) == inode[i].table # groupfs_get_ihtable(inode[i].sb)

\* mount_fs has replaced the tables of a loop device that was mounted already.
Replaced(s) == s \in LoopSbs /\ sb[s].again

\* A file has one inode in memory, besides those that are being freed and those
\* that mount_fs has left in a table the superblock no longer uses; and with a
\* device mounted once only the root inode is left in one.
OneInode ==
    /\ \A i, j \in Objs :
          (/\ i # j
           /\ inode[i].state \in {"new", "live"} /\ inode[j].state \in {"new", "live"}
           /\ inode[i].sb = inode[j].sb /\ inode[i].ino = inode[j].ino)
          => inode[i].table # inode[j].table
    /\ \A i \in Objs :
          (inode[i].state # "free" /\ Left(i) /\ ~Replaced(inode[i].sb))
          => inode[i].ino = RootIno /\ inode[i].table = Global

\* A task that uses an inode uses the one it asked for, it is neither being
\* freed nor read, and the references are those of the users and the root dentry:
\* none is left when the inode is freed.
RefsSafe ==
    \A i \in Objs :
        LET holds == {t \in Tasks : w[t].obj = i /\ w[t].pc \in {"using", "fill", "waitnew"}}
        IN  /\ \A t \in holds :
                  /\ inode[i].sb = w[t].sb /\ inode[i].ino = w[t].ino
                  /\ inode[i].state \in {"new", "live"}
                  /\ w[t].pc = "using" => inode[i].state = "live"
            /\ Freeing(i) => inode[i].count = 0
            /\ inode[i].state \in {"new", "live"} =>
                  inode[i].count - Cardinality(holds) \in
                      IF inode[i].ino = RootIno THEN {0, 1} ELSE {0}

\* A number that is free on disk is not in use in memory: insert_inode_locked
\* finds no inode but ones being freed, though the number is given back before
\* the old inode is unhashed.  A device mounted twice may have two inodes of a
\* file, and one is left when the number is given back with the other.
NumberIsFree ==
    \A t \in Tasks : w[t].pc = "ebusy" => Replaced(w[t].sb)

\* An inode is unhashed under the lock of the table it is in, but for the root
\* inode of a loop device, which is in the global table and goes under the
\* superblock's lock.
UnderLock ==
    \A b \in bare : b.loop /\ b.table = Global

\* A task that waits for an inode to go waits for one that is being freed: it
\* is never left waiting when the inode has gone.
WaitsForFreeing ==
    \A t \in Tasks : w[t].pc \in {"wait", "wait2"} =>
        /\ Freeing(w[t].obj)
        /\ \E u \in Tasks : w[u].obj = w[t].obj /\ w[u].pc \in {"evict", "unhash"}
=============================================================================
