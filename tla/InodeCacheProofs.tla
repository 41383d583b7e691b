-------------------------- MODULE InodeCacheProofs --------------------------
(***************************************************************************)
(* Proofs about the partitioned inode cache, for any number of tasks,      *)
(* superblocks, inode numbers and inodes, and any number of mounts: the    *)
(* invariant is inductive, and what follows from it.                       *)
(***************************************************************************)
EXTENDS InodeReleaseProofs, FiniteSetTheorems

-----------------------------------------------------------------------------
(* Counting holders.                                                        *)

LEMMA Counting == Counts
<1>1. ASSUME NEW t \in Tasks PROVE Cardinality({t}) = 1
  BY Zenon, FS_Singleton
<1>2. ASSUME NEW S \in SUBSET Tasks
      PROVE  /\ Cardinality(S) \in Nat
             /\ Cardinality(S) = 0 <=> S = {}
             /\ Cardinality(S) = 1 => \E t \in Tasks : S = {t}
             /\ \A t \in Tasks \ S : Cardinality(S \cup {t}) = Cardinality(S) + 1
             /\ \A t \in S : Cardinality(S \ {t}) = Cardinality(S) - 1
  <2>1. IsFiniteSet(S)
    BY Zenon, CacheAssumption, FS_Subset
  <2>2. Cardinality(S) = 1 => \E t \in Tasks : S = {t}
    <3> SUFFICES ASSUME Cardinality(S) = 1 PROVE \E t \in Tasks : S = {t}
      OBVIOUS
    <3>1. PICK x : S = {x}
      BY Zenon, <2>1, FS_Singleton
    <3> QED
      BY Zenon, <3>1
  <2>3. \A t \in Tasks \ S : Cardinality(S \cup {t}) = Cardinality(S) + 1
    BY Zenon, <2>1, FS_AddElement
  <2>4. \A t \in S : Cardinality(S \ {t}) = Cardinality(S) - 1
    BY Zenon, <2>1, FS_RemoveElement
  <2> QED
    BY Zenon, <2>1, <2>2, <2>3, <2>4, FS_CardinalityType, FS_EmptySet
<1> QED
  BY Zenon, <1>1, <1>2 DEF Counts

-----------------------------------------------------------------------------
(* Mounting.                                                                *)

\* Superblock s, and no other, has changed.
SbIs(s, state, active, isloop, tables, again) ==
    /\ sb' \in [Sbs -> SuperBlock]
    /\ \A x \in Sbs :
          /\ x # s => sb'[x] = sb[x]
          /\ sb'[x].state  = IF x = s THEN state  ELSE sb[x].state
          /\ sb'[x].active = IF x = s THEN active ELSE sb[x].active
          /\ sb'[x].isloop = IF x = s THEN isloop ELSE sb[x].isloop
          /\ sb'[x].tables = IF x = s THEN tables ELSE sb[x].tables
          /\ sb'[x].again  = IF x = s THEN again  ELSE sb[x].again

LEMMA SbStep ==
  ASSUME TypeOK, NEW s \in Sbs, NEW STATE r, r \in SuperBlock, sb' = [sb EXCEPT ![s] = r]
  PROVE  SbIs(s, r.state, r.active, r.isloop, r.tables, r.again)
BY DEF TypeOK, SbIs

\* The other superblocks are as they were.
LEMMA SbOthers ==
  ASSUME CacheInv, NEW s \in Sbs, NEW STATE a, NEW STATE b, NEW STATE c, NEW STATE d,
         NEW STATE e, SbIs(s, a, b, c, d, e), SbFits(s)'
  PROVE  SbInv'
<1>1. ASSUME NEW x \in Sbs, x # s PROVE SbFits(x)'
  <2>1. sb'[x] = sb[x] /\ SbFits(x)
    BY Zenon, <1>1 DEF SbIs, CacheInv, SbInv
  <2> QED
    BY <2>1 DEF SbFits
<1> QED
  BY Zenon, <1>1 DEF SbInv

LEMMA NewStep ==
  ASSUME CacheInv, NEW s \in Sbs, NEW i \in Objs, MountNew(s, i)
  PROVE  SbIs(s, "filled", 1, FALSE, 0, FALSE)
<1> DEFINE q == [NoSb EXCEPT !.state = "filled"]
           r == [q EXCEPT !.active = 1]
<1>1. /\ q \in SuperBlock /\ q.state = "filled" /\ q.isloop = FALSE
      /\ q.tables = 0 /\ q.again = FALSE
  BY Zenon, NoneTyped DEF NoSb, SuperBlock
<1>2. sb' = [sb EXCEPT ![s] = r]
  BY NoneTyped, Zenon DEF MountNew
<1> HIDE DEF q
<1>3. /\ r \in SuperBlock /\ r.state = q.state /\ r.active = 1 /\ r.isloop = q.isloop
      /\ r.tables = q.tables /\ r.again = q.again
  BY <1>1 DEF SuperBlock
<1> HIDE DEF r
<1>4. SbIs(s, r.state, r.active, r.isloop, r.tables, r.again)
  BY Zenon, <1>2, <1>3, SbStep DEF CacheInv
<1> QED
  BY Zenon, <1>1, <1>3, <1>4

LEMMA AgainStep ==
  ASSUME CacheInv, NEW s \in Sbs, MountAgain(s)
  PROVE  SbIs(s, "filled", sb[s].active + 1, sb[s].isloop, sb[s].tables, TRUE)
<1> DEFINE q == [sb[s] EXCEPT !.state = "filled"]
           p == [q EXCEPT !.active = sb[s].active + 1]
           r == [p EXCEPT !.again = TRUE]
<1>1. sb[s] \in SuperBlock /\ sb[s].active < 2 /\ sb[s].active \in 0 .. 2
  BY Zenon, Fields DEF CacheInv, TypeOK, MountAgain
<1>2. /\ q \in SuperBlock /\ q.state = "filled" /\ q.isloop = sb[s].isloop
      /\ q.tables = sb[s].tables /\ q.active = sb[s].active
  BY <1>1 DEF SuperBlock
<1>3. sb' = [sb EXCEPT ![s] = r]
  BY Zenon DEF MountAgain
<1> HIDE DEF q
<1>4. /\ p \in SuperBlock /\ p.state = q.state /\ p.active = sb[s].active + 1
      /\ p.isloop = q.isloop /\ p.tables = q.tables
  BY <1>1, <1>2 DEF SuperBlock
<1> HIDE DEF p
<1>5. /\ r \in SuperBlock /\ r.state = p.state /\ r.active = p.active
      /\ r.isloop = p.isloop /\ r.tables = p.tables /\ r.again = TRUE
  BY Zenon, <1>4 DEF SuperBlock
<1> HIDE DEF r
<1>6. SbIs(s, r.state, r.active, r.isloop, r.tables, r.again)
  BY Zenon, <1>3, <1>5, SbStep DEF CacheInv
<1> QED
  BY Zenon, <1>2, <1>4, <1>5, <1>6

LEMMA TablesStep ==
  ASSUME CacheInv, NEW s \in Sbs, mount_fs(s), s \in LoopSbs
  PROVE  SbIs(s, "up", sb[s].active, TRUE, sb[s].tables + 1, sb[s].again)
<1> DEFINE q == [sb[s] EXCEPT !.state = "up"]
           p == [q EXCEPT !.isloop = TRUE]
           r == [p EXCEPT !.tables = sb[s].tables + 1]
<1>1. /\ sb[s] \in SuperBlock /\ sb[s].tables + 1 \in 0 .. MaxTables
  <2>1. sb[s] \in SuperBlock /\ sb[s].tables < MaxTables
    BY Zenon DEF CacheInv, TypeOK, SbInv, SbFits, mount_fs
  <2>2. sb[s].tables \in 0 .. MaxTables
    BY <2>1, Fields
  <2> QED
    BY <2>1, <2>2, CacheAssumption
<1>2. /\ q \in SuperBlock /\ q.state = "up" /\ q.again = sb[s].again
      /\ q.tables = sb[s].tables /\ q.active = sb[s].active
  BY <1>1 DEF SuperBlock
<1>3. sb' = [sb EXCEPT ![s] = r]
  BY Zenon DEF mount_fs
<1> HIDE DEF q
<1>4. /\ p \in SuperBlock /\ p.state = q.state /\ p.active = q.active
      /\ p.isloop = TRUE /\ p.again = q.again
  BY Zenon, <1>2 DEF SuperBlock
<1> HIDE DEF p
<1>5. /\ r \in SuperBlock /\ r.state = p.state /\ r.active = p.active
      /\ r.isloop = p.isloop /\ r.tables = sb[s].tables + 1 /\ r.again = p.again
  BY Zenon, <1>1, <1>4 DEF SuperBlock
<1> HIDE DEF r
<1>6. SbIs(s, r.state, r.active, r.isloop, r.tables, r.again)
  BY Zenon, <1>3, <1>5, SbStep DEF CacheInv
<1> QED
  BY Zenon, <1>2, <1>4, <1>5, <1>6

LEMMA UpStep ==
  ASSUME CacheInv, NEW s \in Sbs, mount_fs(s), s \notin LoopSbs
  PROVE  SbIs(s, "up", sb[s].active, sb[s].isloop, sb[s].tables, sb[s].again)
<1> DEFINE r == [sb[s] EXCEPT !.state = "up"]
<1>1. /\ r \in SuperBlock /\ r.state = "up" /\ r.again = sb[s].again
      /\ r.tables = sb[s].tables /\ r.active = sb[s].active /\ r.isloop = sb[s].isloop
  BY DEF SuperBlock, CacheInv, TypeOK
<1>2. sb' = [sb EXCEPT ![s] = r]
  BY Zenon DEF mount_fs
<1> HIDE DEF r
<1>3. SbIs(s, r.state, r.active, r.isloop, r.tables, r.again)
  BY Zenon, <1>1, <1>2, SbStep DEF CacheInv
<1> QED
  BY Zenon, <1>1, <1>3

LEMMA DownStep ==
  ASSUME CacheInv, NEW s \in Sbs, Umount(s), sb[s].active > 1
  PROVE  SbIs(s, "up", sb[s].active - 1, sb[s].isloop, sb[s].tables, sb[s].again)
<1> DEFINE r == [sb[s] EXCEPT !.active = sb[s].active - 1]
<1>1. sb[s] \in SuperBlock /\ sb[s].active - 1 \in 0 .. 2 /\ sb[s].state = "up"
  <2>1. sb[s] \in SuperBlock /\ sb[s].state = "up"
    BY DEF CacheInv, TypeOK, Umount
  <2>2. sb[s].active \in 0 .. 2
    BY <2>1, Fields
  <2> QED
    BY <2>1, <2>2
<1>2. /\ r \in SuperBlock /\ r.state = "up" /\ r.again = sb[s].again
      /\ r.tables = sb[s].tables /\ r.active = sb[s].active - 1 /\ r.isloop = sb[s].isloop
  BY <1>1 DEF SuperBlock
<1>3. sb' = [sb EXCEPT ![s] = r]
  BY DEF Umount
<1> HIDE DEF r
<1>4. SbIs(s, r.state, r.active, r.isloop, r.tables, r.again)
  BY Zenon, <1>2, <1>3, SbStep DEF CacheInv
<1> QED
  BY Zenon, <1>2, <1>4

\* A superblock that is not mounted is not in use.
LEMMA NotMounted ==
  ASSUME CacheInv, NEW s \in Sbs, sb[s].state = "none"
  PROVE  /\ \A j \in Objs : inode[j].sb # s
         /\ \A u \in Tasks : w[u].sb # s
<1>1. \A j \in Objs : inode[j].sb # s
  BY CacheAssumption DEF CacheInv, InodesLinked, NoInode
<1>2. ~Mounted(s)
  BY DEF CacheInv, SbInv, SbFits, NoSb, Mounted
<1>3. \A u \in Tasks : w[u].sb # s
  BY <1>2, CacheAssumption DEF CacheInv, TasksLinked, Idle
<1> QED
  BY <1>1, <1>3

\* A step of the superblocks alone: inodes and tasks keep the tables they are
\* in, unless the superblock had none.
LEMMA SbOnly ==
  ASSUME CacheInv, UNCHANGED <<disk, inode, w, bare>>, TypeOK', SbInv',
         \A x \in Sbs :
            /\ sb[x].state # "none" => sb'[x].state # "none"
            /\ Mounted(x) => Mounted(x)'
            /\ Replaced(x) => Replaced(x)'
            /\ sb[x].isloop => sb'[x].isloop
            /\ sb'[x].state = "filled" /\ ~sb'[x].again => sb[x].state = "filled" /\ ~sb[x].again
            /\ \/ Replaced(x)'
               \/ groupfs_get_ihtable(x)' = groupfs_get_ihtable(x)
               \/ sb[x].state = "filled" /\ ~sb[x].again
  PROVE  CacheInv'
<1>1. /\ \A j \in Objs : inode[j].state # "free" => inode[j].sb \in Sbs
      /\ \A u \in Tasks : w[u].pc # "idle" => w[u].sb \in Sbs /\ Mounted(w[u].sb)
      /\ \A x \in Sbs : sb[x].state = "filled" /\ ~sb[x].again => ~Mounted(x)
  BY Zenon DEF CacheInv, InodesLinked, TasksLinked, Mounted
<1>2. InodesLinked'
  BY Zenon DEF CacheInv, InodesLinked
<1>3. TasksLinked'
  BY Zenon DEF CacheInv, TasksLinked, Numbered
<1>4. HoldInv' /\ RemoveInv' /\ WaitInv'
  BY Zenon DEF CacheInv, HoldInv, RemoveInv, WaitInv, InUse, Freeing
<1>5. CountInv' /\ OneEach'
  BY Zenon DEF CacheInv, CountInv, OneEach, InUse, Freeing, Numbered, Holders
<1>6. InodeTables'
  BY Zenon, <1>1 DEF CacheInv, InodeTables
<1>7. TaskTables'
  BY Zenon, <1>1 DEF CacheInv, TaskTables, Searching, Waiting
<1>8. DiskInv'
  BY Zenon, <1>1 DEF CacheInv, DiskInv, InUse, Searching, Waiting
<1>9. NameInv'
  BY Zenon, <1>1 DEF CacheInv, NameInv, InUse, Concerns
<1>10. AloneInv'
  BY Zenon, <1>1 DEF CacheInv, AloneInv, InUse, Numbered, Concerns
<1>11. UnderLock'
  BY DEF CacheInv, UnderLock
<1> QED
  BY Zenon, <1>2, <1>3, <1>4, <1>5, <1>6, <1>7, <1>8, <1>9, <1>10, <1>11 DEF CacheInv

LEMMA MountAgainStep ==
  ASSUME CacheInv, NEW s \in Sbs, MountAgain(s)
  PROVE  CacheInv'
<1>1. SbIs(s, "filled", sb[s].active + 1, sb[s].isloop, sb[s].tables, TRUE)
  BY Zenon, AgainStep
<1>2. /\ UNCHANGED <<disk, inode, w, bare>> /\ sb[s].state = "up"
      /\ s \in LoopSbs => sb[s].tables < MaxTables
      /\ sb[s].active > 0 /\ sb[s].active + 1 > 0
  <2>1. sb[s] \in SuperBlock /\ sb[s].state = "up"
    BY DEF CacheInv, TypeOK, MountAgain
  <2>2. sb[s].active \in 0 .. 2 /\ sb[s].active > 0
    BY Zenon, <2>1, Fields DEF CacheInv, SbInv, SbFits
  <2> QED
    BY <2>2 DEF MountAgain
<1>3. TypeOK'
  BY Zenon, <1>1, <1>2 DEF CacheInv, TypeOK, SbIs
<1>4. SbInv'
  <2>1. SbFits(s)'
    BY <1>1, <1>2 DEF CacheInv, SbInv, SbFits, SbIs
  <2> QED
    BY Zenon, <1>1, <2>1, SbOthers
<1>5. \A x \in Sbs : x # s =>
         /\ sb'[x] = sb[x] /\ (Mounted(x) => Mounted(x)') /\ (Replaced(x) => Replaced(x)')
         /\ groupfs_get_ihtable(x)' = groupfs_get_ihtable(x)
  BY Zenon, <1>1 DEF SbIs, Mounted, Replaced, groupfs_get_ihtable
<1>6. /\ sb'[s].state # "none" /\ (Mounted(s) => Mounted(s)') /\ (Replaced(s) => Replaced(s)')
      /\ sb[s].isloop => sb'[s].isloop
      /\ sb'[s].state = "filled" /\ ~sb'[s].again => sb[s].state = "filled" /\ ~sb[s].again
      /\ \/ Replaced(s)'
         \/ groupfs_get_ihtable(s)' = groupfs_get_ihtable(s)
         \/ sb[s].state = "filled" /\ ~sb[s].again
  BY Zenon, <1>1, <1>2 DEF SbIs, Mounted, Replaced, groupfs_get_ihtable
<1> QED
  BY <1>2, <1>3, <1>4, <1>5, <1>6, SbOnly

LEMMA TablesGiven ==
  ASSUME CacheInv, NEW s \in Sbs, mount_fs(s), s \in LoopSbs
  PROVE  CacheInv'
<1>1. SbIs(s, "up", sb[s].active, TRUE, sb[s].tables + 1, sb[s].again)
  BY Zenon, TablesStep
<1>2. UNCHANGED <<disk, inode, w, bare>> /\ sb[s].state = "filled" /\ s \in LoopSbs
  BY DEF mount_fs
<1>3. TypeOK'
  BY Zenon, <1>1, <1>2 DEF CacheInv, TypeOK, SbIs
<1>4. SbInv'
  <2>1. SbFits(s)'
    BY <1>1, <1>2 DEF CacheInv, SbInv, SbFits, SbIs
  <2> QED
    BY Zenon, <1>1, <2>1, SbOthers
<1>5. \A x \in Sbs : x # s =>
         /\ sb'[x] = sb[x] /\ (Mounted(x) => Mounted(x)') /\ (Replaced(x) => Replaced(x)')
         /\ groupfs_get_ihtable(x)' = groupfs_get_ihtable(x)
  BY Zenon, <1>1 DEF SbIs, Mounted, Replaced, groupfs_get_ihtable
<1>6. /\ sb'[s].state # "none" /\ (Mounted(s) => Mounted(s)') /\ (Replaced(s) => Replaced(s)')
      /\ sb[s].isloop => sb'[s].isloop
      /\ sb'[s].state = "filled" /\ ~sb'[s].again => sb[s].state = "filled" /\ ~sb[s].again
      /\ \/ Replaced(s)'
         \/ groupfs_get_ihtable(s)' = groupfs_get_ihtable(s)
         \/ sb[s].state = "filled" /\ ~sb[s].again
  BY Zenon, <1>1, <1>2 DEF SbIs, Mounted, Replaced
<1> QED
  BY Zenon, <1>2, <1>3, <1>4, <1>5, <1>6, SbOnly

LEMMA NoTablesGiven ==
  ASSUME CacheInv, NEW s \in Sbs, mount_fs(s), s \notin LoopSbs
  PROVE  CacheInv'
<1>1. SbIs(s, "up", sb[s].active, sb[s].isloop, sb[s].tables, sb[s].again)
  BY UpStep
<1>2. UNCHANGED <<disk, inode, w, bare>> /\ sb[s].state = "filled" /\ s \notin LoopSbs
  BY DEF mount_fs
<1>3. TypeOK'
  BY Zenon, <1>1, <1>2 DEF CacheInv, TypeOK, SbIs
<1>4. SbInv'
  <2>1. SbFits(s)'
    BY <1>1, <1>2 DEF CacheInv, SbInv, SbFits, SbIs
  <2> QED
    BY Zenon, <1>1, <2>1, SbOthers
<1>5. \A x \in Sbs : x # s =>
         /\ sb'[x] = sb[x] /\ (Mounted(x) => Mounted(x)') /\ (Replaced(x) => Replaced(x)')
         /\ groupfs_get_ihtable(x)' = groupfs_get_ihtable(x)
  BY Zenon, <1>1 DEF SbIs, Mounted, Replaced, groupfs_get_ihtable
<1>6. /\ sb'[s].state # "none" /\ (Mounted(s) => Mounted(s)') /\ (Replaced(s) => Replaced(s)')
      /\ sb[s].isloop => sb'[s].isloop
      /\ sb'[s].state = "filled" /\ ~sb'[s].again => sb[s].state = "filled" /\ ~sb[s].again
      /\ \/ Replaced(s)'
         \/ groupfs_get_ihtable(s)' = groupfs_get_ihtable(s)
         \/ sb[s].state = "filled" /\ ~sb[s].again
  BY Zenon, <1>1 DEF SbIs, Mounted, Replaced, groupfs_get_ihtable
<1> QED
  BY Zenon, <1>2, <1>3, <1>4, <1>5, <1>6, SbOnly

LEMMA UmountOne ==
  ASSUME CacheInv, NEW s \in Sbs, Umount(s), sb[s].active > 1
  PROVE  CacheInv'
<1>1. SbIs(s, "up", sb[s].active - 1, sb[s].isloop, sb[s].tables, sb[s].again)
  BY DownStep
<1>2. /\ UNCHANGED <<disk, inode, w, bare>> /\ sb[s].state = "up" /\ sb[s].active - 1 > 0
  <2>1. sb[s] \in SuperBlock
    BY DEF CacheInv, TypeOK
  <2>2. sb[s].active \in 0 .. 2
    BY Zenon, <2>1, Fields
  <2> QED
    BY <2>2 DEF Umount
<1>3. TypeOK'
  BY Zenon, <1>1, <1>2 DEF CacheInv, TypeOK, SbIs
<1>4. SbInv'
  <2>1. SbFits(s)'
    BY <1>1, <1>2 DEF CacheInv, SbInv, SbFits, SbIs
  <2> QED
    BY Zenon, <1>1, <2>1, SbOthers
<1>5. \A x \in Sbs : x # s =>
         /\ sb'[x] = sb[x] /\ (Mounted(x) => Mounted(x)') /\ (Replaced(x) => Replaced(x)')
         /\ groupfs_get_ihtable(x)' = groupfs_get_ihtable(x)
  BY Zenon, <1>1 DEF SbIs, Mounted, Replaced, groupfs_get_ihtable
<1>6. /\ sb'[s].state # "none" /\ (Mounted(s) => Mounted(s)') /\ (Replaced(s) => Replaced(s)')
      /\ sb[s].isloop => sb'[s].isloop
      /\ sb'[s].state = "filled" /\ ~sb'[s].again => sb[s].state = "filled" /\ ~sb[s].again
      /\ \/ Replaced(s)'
         \/ groupfs_get_ihtable(s)' = groupfs_get_ihtable(s)
         \/ sb[s].state = "filled" /\ ~sb[s].again
  BY Zenon, <1>1, <1>2 DEF SbIs, Mounted, Replaced, groupfs_get_ihtable
<1> QED
  BY <1>2, <1>3, <1>4, <1>5, <1>6, SbOnly

\* The superblocks other than s are as they were.
OthersKeep(s) ==
    \A x \in Sbs \ {s} :
        /\ sb'[x] = sb[x] /\ (Mounted(x)' <=> Mounted(x)) /\ (Replaced(x)' <=> Replaced(x))
        /\ groupfs_get_ihtable(x)' = groupfs_get_ihtable(x)

LEMMA MountNewStep ==
  ASSUME Counts, CacheInv, NEW s \in Sbs, NEW i \in Objs, MountNew(s, i)
  PROVE  CacheInv'
<1>1. SbIs(s, "filled", 1, FALSE, 0, FALSE)
  BY Zenon, NewStep
<1>2. /\ UNCHANGED <<disk, w, bare>> /\ inode[i].state = "free"
      /\ \A j \in Objs : inode[j].sb # s
      /\ \A u \in Tasks : w[u].sb # s
  BY NotMounted DEF MountNew, NoInode
<1>3. InodeIs(i, "live", s, RootIno, 1, 1, Global)
  <2> DEFINE r == [state |-> "live", sb |-> s, ino |-> RootIno, count |-> 1, nlink |-> 1,
                   table |-> Global]
  <2>1. groupfs_get_ihtable(s) = Global /\ Global \in Tables
    BY DEF CacheInv, SbInv, SbFits, MountNew, NoSb, groupfs_get_ihtable, Global, Tables
  <2>2. inode' = [inode EXCEPT ![i] = r]
    BY <2>1 DEF MountNew
  <2>3. r \in Inode
    BY <2>1, CacheAssumption DEF Inode
  <2>4. InodeIs(i, r.state, r.sb, r.ino, r.count, r.nlink, r.table)
    BY Zenon, <2>2, <2>3, InodeStep DEF CacheInv
  <2> QED
    BY <2>4
<1>4. \A u \in Tasks : w[u].pc \in Holding \cup Waiting \cup Removing => w[u].obj # i
  BY Zenon, <1>2 DEF CacheInv, HoldInv, WaitInv, RemoveInv, InUse, Freeing
<1>5. /\ OthersKeep(s) /\ sb'[s].state # "none"
      /\ ~Replaced(s)'
  BY Zenon, <1>1 DEF SbIs, OthersKeep, Mounted, Replaced, groupfs_get_ihtable
<1>6. /\ \A j \in Objs : inode[j].state # "free" => inode[j].sb \in Sbs \ {s}
      /\ \A u \in Tasks : w[u].pc # "idle" => w[u].sb \in Sbs \ {s}
      /\ s \in Sbs /\ RootIno \in Inos
  BY Zenon, <1>2, CacheAssumption DEF CacheInv, InodesLinked, TasksLinked
<1>n. /\ \A j \in Objs : j # i => InodeSame(j)
      /\ ~InUse(i) /\ InUse(i)' /\ ~Freeing(i) /\ ~Freeing(i)'
      /\ \A x, n : Numbered(i, x, n)' = (x = s /\ n = RootIno)
  BY Zenon, <1>2, <1>3, InodeKept DEF InodeIs, InUse, Freeing, Numbered
<1>10. TypeOK'
  BY Zenon, <1>1, <1>2, <1>3 DEF CacheInv, SbIs, InodeIs, InodeTyped, TypeOK
<1>11. SbInv'
  <2>1. /\ sb'[s].state = "filled" /\ sb'[s].active = 1 /\ ~sb'[s].isloop
        /\ sb'[s].tables = 0 /\ ~sb'[s].again
    BY Zenon, <1>1 DEF SbIs
  <2>2. SbFits(s)'
    BY <2>1, CacheAssumption DEF SbFits
  <2> QED
    BY Zenon, <1>1, <2>2, SbOthers
<1>12. InodesLinked'
  BY <1>3, <1>5, <1>6 DEF CacheInv, OthersKeep, InodeIs, InodesLinked
<1>13. TasksLinked'
  BY <1>2, <1>3, <1>4, <1>5 DEF CacheInv, OthersKeep, InodeIs, TasksLinked, Numbered
<1>14. HoldInv'
  BY Zenon, <1>2, <1>3 DEF CacheInv, InodeIs, HoldInv, TasksLinked, InUse, Holding
<1>15. RemoveInv'
  BY <1>2, <1>3 DEF CacheInv, InodeIs, RemoveInv, TasksLinked, Freeing
<1>16. WaitInv'
  BY Zenon, <1>2, <1>3 DEF CacheInv, InodeIs, WaitInv, TasksLinked, Freeing
<1>17. CountInv'
  <2>1. \A j \in Objs : Holders(j)' = Holders(j)
    BY <1>2 DEF Holders
  <2>2. Holders(i) = {}
    BY <1>4 DEF Holders
  <2>3. Cardinality(Holders(i)) = 0
    BY Zenon, <2>2 DEF Counts
  <2>4. (inode[i].count - Cardinality(Holders(i)))' = 1 /\ inode'[i].ino = RootIno /\ ~Freeing(i)'
    BY <1>3, <2>1, <2>3 DEF InodeIs, Freeing
  <2>5. \A j \in Objs \ {i} : inode'[j] = inode[j]
    BY <1>3 DEF InodeIs
  <2> QED
    BY <2>1, <2>4, <2>5 DEF CacheInv, CountInv, InUse, Freeing
<1>18. OneEach'
  BY <1>2, <1>3 DEF CacheInv, InodeIs, OneEach, InUse, Numbered
<1>19. InodeTables'
  BY <1>3, <1>5, <1>6 DEF CacheInv, OthersKeep, InodeIs, InodeTables
<1>20. TaskTables'
  BY Zenon, <1>2, <1>5, <1>6 DEF CacheInv, OthersKeep, TaskTables, Searching, Waiting
<1>21. DiskInv'
  BY <1>2, <1>3, <1>5, <1>6 DEF CacheInv, OthersKeep, InodeIs, DiskInv, InUse,
      Searching, Waiting
<1>22. NameInv'
  BY <1>2, <1>3, <1>5, <1>6 DEF CacheInv, OthersKeep, InodeIs, NameInv, InUse, Concerns
<1>23. AloneInv'
  BY <1>2, <1>3, <1>5, <1>6 DEF CacheInv, OthersKeep, InodeIs, AloneInv, InUse,
      Numbered, Concerns
<1>24. UnderLock'
  BY <1>2 DEF CacheInv, UnderLock
<1> QED
  BY <1>10, <1>11, <1>12, <1>13, <1>14, <1>15, <1>16, <1>17, <1>18, <1>19, <1>20, <1>21,
      <1>22, <1>23, <1>24 DEF CacheInv

LEMMA UmountLast ==
  ASSUME CacheInv, NEW s \in Sbs, Umount(s), ~(sb[s].active > 1)
  PROVE  CacheInv'
<1>1. SbIs(s, "none", 0, FALSE, 0, FALSE) /\ sb'[s] = NoSb
  <2>1. sb' = [sb EXCEPT ![s] = NoSb]
    BY DEF Umount
  <2>2. SbIs(s, NoSb.state, NoSb.active, NoSb.isloop, NoSb.tables, NoSb.again)
    BY Zenon, <2>1, NoneTyped, SbStep DEF CacheInv
  <2> QED
    BY Zenon, <2>1, <2>2 DEF NoSb, CacheInv, TypeOK
<1>2. /\ UNCHANGED <<disk, w>> /\ \A u \in Tasks : w[u].sb # s
      /\ Off \notin Sbs
  BY CacheAssumption DEF Umount, Busy
<1>3. Unhash({j \in Objs : inode[j].sb = s}, s)
  BY DEF Umount
<1>4. /\ inode' \in [Objs -> Inode]
      /\ \A j \in Objs : /\ inode[j].sb = s => inode'[j] = NoInode
                         /\ inode[j].sb # s => inode'[j] = inode[j]
  BY Zenon, <1>3, NoneTyped DEF Unhash, CacheInv, TypeOK
<1>5. NoInode.state = "free" /\ NoInode.sb = Off
  BY DEF NoInode
<1>6. bare' \subseteq [loop : BOOLEAN, table : Tables] /\ UnderLock'
  <2>1. {j \in Objs : inode[j].sb = s} \subseteq
           {j \in Objs : inode[j].state # "free" /\ inode[j].sb = s}
    BY Zenon, <1>2, <1>5 DEF CacheInv, InodesLinked
  <2> QED
    BY <1>3, <2>1, UnhashBare
<1>7. \A u \in Tasks : w[u].pc \in Holding \cup Waiting \cup Removing =>
         inode'[w[u].obj] = inode[w[u].obj] /\ w[u].obj \in Objs
  BY <1>2, <1>4 DEF CacheInv, TasksLinked, Numbered
<1>8. /\ OthersKeep(s)
      /\ \A j \in Objs : inode[j].state # "free" => inode[j].sb \in Sbs
      /\ \A u \in Tasks : w[u].pc # "idle" => w[u].sb \in Sbs \ {s}
  BY Zenon, <1>1, <1>2 DEF CacheInv, InodesLinked, TasksLinked, SbIs, OthersKeep,
      Mounted, Replaced, groupfs_get_ihtable
<1>n. \A j \in Objs :
         /\ inode[j].sb # s => InodeSame(j)
         /\ inode[j].sb = s => ~InUse(j)' /\ ~Freeing(j)' /\ inode'[j].state = "free"
  BY <1>4, <1>5, InodeKept DEF InUse, Freeing
<1>10. TypeOK'
  BY Zenon, <1>1, <1>2, <1>4, <1>6 DEF CacheInv, SbIs, TypeOK
<1>11. SbInv'
  <2>1. SbFits(s)'
    BY <1>1 DEF CacheInv, SbInv, SbFits, SbIs
  <2> QED
    BY Zenon, <1>1, <2>1, SbOthers
<1>12. InodesLinked'
  BY <1>4, <1>5, <1>8 DEF CacheInv, OthersKeep, InodesLinked
<1>13. TasksLinked'
  BY Zenon, <1>2, <1>7, <1>8 DEF CacheInv, OthersKeep, TasksLinked, Numbered
<1>14. HoldInv'
  BY Zenon, <1>2, <1>7 DEF CacheInv, HoldInv, InUse, Holding
<1>15. RemoveInv'
  BY <1>2, <1>4, <1>5, <1>7 DEF CacheInv, RemoveInv, Freeing
<1>16. WaitInv'
  BY Zenon, <1>2, <1>7 DEF CacheInv, WaitInv, Freeing
<1>17. CountInv'
  <2>1. \A j \in Objs : Holders(j)' = Holders(j)
    BY <1>2 DEF Holders
  <2>2. \A j \in Objs : inode'[j].state = "free" \/ inode'[j] = inode[j]
    BY <1>4, <1>5
  <2> QED
    BY Zenon, <2>1, <2>2 DEF CacheInv, CountInv, InUse, Freeing
<1>18. OneEach'
  BY <1>4, <1>5 DEF CacheInv, OneEach, InUse, Numbered
<1>19. InodeTables'
  BY <1>4, <1>5, <1>8 DEF CacheInv, OthersKeep, InodeTables
<1>20. TaskTables'
  BY Zenon, <1>2, <1>8 DEF CacheInv, OthersKeep, TaskTables, Searching, Waiting
<1>21. DiskInv'
  BY Zenon, <1>2, <1>4, <1>5, <1>8 DEF CacheInv, OthersKeep, DiskInv, InUse, Searching,
      Waiting
<1>22. NameInv'
  BY <1>2, <1>4, <1>5, <1>8 DEF CacheInv, OthersKeep, NameInv, InUse, Concerns
<1>23. AloneInv'
  BY <1>2, <1>4, <1>5, <1>8 DEF CacheInv, OthersKeep, AloneInv, InUse, Numbered,
      Concerns
<1>24. UnderLock'
  BY <1>6
<1> QED
  BY <1>10, <1>11, <1>12, <1>13, <1>14, <1>15, <1>16, <1>17, <1>18, <1>19, <1>20, <1>21,
      <1>22, <1>23, <1>24 DEF CacheInv
-----------------------------------------------------------------------------
(* The theorems.                                                            *)

LEMMA NextInv == CacheInv /\ [Next]_vars => CacheInv'
<1> SUFFICES ASSUME CacheInv, [Next]_vars PROVE CacheInv'
  OBVIOUS
<1>c. Counts
  BY Counting
<1>1. ASSUME NEW s \in Sbs, NEW i \in Objs, MountNew(s, i) PROVE CacheInv'
  BY <1>c, <1>1, MountNewStep
<1>2. ASSUME NEW s \in Sbs, MountAgain(s) PROVE CacheInv'
  BY <1>2, MountAgainStep
<1>3. ASSUME NEW s \in Sbs, mount_fs(s) PROVE CacheInv'
  BY <1>3, TablesGiven, NoTablesGiven
<1>4. ASSUME NEW s \in Sbs, Umount(s) PROVE CacheInv'
  BY <1>4, UmountOne, UmountLast
<1>5. ASSUME NEW t \in Tasks, NEW s \in Sbs, NEW ino \in Inos,
             iget_locked(t, s, ino) \/ new_inode(t, s, ino)
      PROVE  CacheInv'
  BY <1>5, IgetStep, NewInodeStep
<1>6. ASSUME NEW t \in Tasks,
             find_inode_fast(t) \/ Insert(t) \/ InsertFails(t) \/ unlock_new_inode(t)
             \/ wait_on_inode(t)
      PROVE  CacheInv'
  BY <1>c, <1>6, FindStep, InsertStep, InsertFailsStep, UnlockNewStep, WaitOnStep
<1>7. ASSUME NEW t \in Tasks, insert_inode_locked(t) \/ CreateFails(t) PROVE CacheInv'
  BY <1>c, <1>7, InsertLockedStep, CreateFailsStep
<1>8. ASSUME NEW t \in Tasks,
             Unlink(t) \/ iput(t) \/ ext3_evict_inode(t) \/ remove_inode_hash(t)
      PROVE  CacheInv'
  BY <1>c, <1>8, UnlinkStep, PutInv, EvictStep, RemoveStep
<1>9. ASSUME NEW t \in Tasks, NEW i \in Objs, prune_icache_sb(t, i) PROVE CacheInv'
  BY <1>c, <1>9, PruneStep
<1>10. CASE UNCHANGED vars
  <2> USE <1>10 DEF vars, CacheInv
  <2>1. TypeOK' /\ SbInv' /\ InodesLinked' /\ TasksLinked'
    BY DEF TypeOK, SbInv, SbFits, InodesLinked, TasksLinked, Numbered, Mounted
  <2>2. HoldInv' /\ RemoveInv' /\ WaitInv'
    BY DEF HoldInv, RemoveInv, WaitInv, InUse, Freeing
  <2>3. CountInv' /\ OneEach'
    BY DEF CountInv, OneEach, InUse, Freeing, Numbered, Holders
  <2>4. InodeTables' /\ TaskTables'
    BY DEF InodeTables, TaskTables, Replaced, groupfs_get_ihtable
  <2>5. DiskInv' /\ NameInv' /\ AloneInv' /\ UnderLock'
    BY DEF DiskInv, NameInv, AloneInv, UnderLock, InUse, Replaced, Numbered, Concerns
  <2> QED
    BY <2>1, <2>2, <2>3, <2>4, <2>5
<1> QED
  BY <1>1, <1>2, <1>3, <1>4, <1>5, <1>6, <1>7, <1>8, <1>9, <1>10 DEF Next

\* The inductive invariant holds, however lookups, creations, unlinks, releases,
\* the shrinker and mounts of inode.c and super.c interleave.
THEOREM CacheInvariant == Spec => []CacheInv
<1>1. Init => CacheInv
  BY InitInv
<1>2. CacheInv /\ [Next]_vars => CacheInv'
  BY NextInv
<1> QED
  BY <1>1, <1>2, PTL DEF Spec

\* The state has its shapes: no more tables than mount_fs has allocated, no
\* negative i_count.
THEOREM CacheTyped == Spec => []TypeOK
<1>1. CacheInv => TypeOK
  BY DEF CacheInv
<1> QED
  BY <1>1, CacheInvariant, PTL

\* iget_locked and insert_inode_locked never hash two inodes of a file in one
\* table, and with a device mounted once only the root inode is left in a table
\* that mount_fs has superseded.
THEOREM FileHasOneInode == Spec => []OneInode
<1>1. CacheInv => OneInode
  <2> SUFFICES ASSUME CacheInv PROVE OneInode
    OBVIOUS
  <2>1. ASSUME NEW i \in Objs, NEW j \in Objs, i # j,
               inode[i].state \in {"new", "live"}, inode[j].state \in {"new", "live"},
               inode[i].sb = inode[j].sb, inode[i].ino = inode[j].ino
        PROVE  inode[i].table # inode[j].table
    BY <2>1 DEF CacheInv, OneEach, InUse, Numbered
  <2>2. ASSUME NEW i \in Objs, inode[i].state # "free", Left(i), ~Replaced(inode[i].sb)
        PROVE  inode[i].ino = RootIno /\ inode[i].table = Global
    BY <2>2 DEF CacheInv, InodeTables, Left
  <2> QED
    BY <2>1, <2>2 DEF OneInode
<1> QED
  BY <1>1, CacheInvariant, PTL

\* i_count counts the users, and an inode is freed by iput or prune_icache_sb
\* when it has none.
THEOREM UsersHaveReferences == Spec => []RefsSafe
<1>1. CacheInv => RefsSafe
  <2> SUFFICES ASSUME CacheInv, NEW i \in Objs
               PROVE  /\ \A t \in Holders(i) :
                            /\ inode[i].sb = w[t].sb /\ inode[i].ino = w[t].ino
                            /\ inode[i].state \in {"new", "live"}
                            /\ w[t].pc = "using" => inode[i].state = "live"
                      /\ Freeing(i) => inode[i].count = 0
                      /\ inode[i].state \in {"new", "live"} =>
                            inode[i].count - Cardinality(Holders(i)) \in
                                IF inode[i].ino = RootIno THEN {0, 1} ELSE {0}
    BY DEF RefsSafe, Holders, Holding
  <2>1. ASSUME NEW t \in Holders(i)
        PROVE  /\ inode[i].sb = w[t].sb /\ inode[i].ino = w[t].ino
               /\ inode[i].state \in {"new", "live"}
               /\ w[t].pc = "using" => inode[i].state = "live"
    BY DEF Holders, CacheInv, TasksLinked, HoldInv, Numbered, InUse
  <2>2. /\ Freeing(i) => inode[i].count = 0
        /\ inode[i].state \in {"new", "live"} =>
              inode[i].count - Cardinality(Holders(i)) \in
                  IF inode[i].ino = RootIno THEN {0, 1} ELSE {0}
    BY DEF CacheInv, CountInv, InUse
  <2> QED
    BY <2>1, <2>2
<1> QED
  BY <1>1, CacheInvariant, PTL

\* A number that the file system has found free on disk is refused by
\* insert_inode_locked only on a device that is mounted twice, though
\* ext3_evict_inode gives numbers back before the old inode is unhashed.
THEOREM FreeNumbersAreFree == Spec => []NumberIsFree
<1>1. CacheInv => NumberIsFree
  BY DEF CacheInv, DiskInv, NumberIsFree
<1> QED
  BY <1>1, CacheInvariant, PTL

\* remove_inode_hash and the last unmount hold the lock of the table an inode is
\* in, but for the root inode of a loop device.
THEOREM UnhashedUnderLock == Spec => []UnderLock
<1>1. CacheInv => UnderLock
  BY DEF CacheInv
<1> QED
  BY <1>1, CacheInvariant, PTL

\* __wait_on_freeing_inode waits for an inode some task is still removing, so
\* the wake-up in evict is still to come.
THEOREM WaitersAreWoken == Spec => []WaitsForFreeing
<1>1. CacheInv => WaitsForFreeing
  <2> SUFFICES ASSUME CacheInv, NEW t \in Tasks, w[t].pc \in Waiting
               PROVE  /\ Freeing(w[t].obj)
                      /\ \E u \in Tasks : w[u].obj = w[t].obj /\ w[u].pc \in Removing
    BY DEF WaitsForFreeing, Waiting, Removing
  <2>1. w[t].obj \in Objs /\ Freeing(w[t].obj)
    BY DEF CacheInv, TasksLinked, WaitInv
  <2> QED
    BY <2>1 DEF CacheInv, RemoveInv
<1> QED
  BY <1>1, CacheInvariant, PTL
=============================================================================
