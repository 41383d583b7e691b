-------------------------- MODULE InodeReleaseProofs ------------------------
(***************************************************************************)
(* The steps that release inodes, mount and unmount preserve the invariant *)
(* of the partitioned inode cache.                                         *)
(***************************************************************************)
EXTENDS InodeLookupProofs

-----------------------------------------------------------------------------
(* Releasing.                                                               *)

LEMMA NlinkStep ==
  ASSUME TypeOK, NEW i \in Objs, inode' = [inode EXCEPT ![i].nlink = 0]
  PROVE  InodeIs(i, inode[i].state, inode[i].sb, inode[i].ino, inode[i].count, 0,
                 inode[i].table)
<1> DEFINE r == [inode[i] EXCEPT !.nlink = 0]
<1>1. inode[i] \in Inode
  BY DEF TypeOK
<1>2. /\ r \in Inode /\ r.nlink = 0 /\ r.state = inode[i].state /\ r.sb = inode[i].sb
      /\ r.ino = inode[i].ino /\ r.count = inode[i].count /\ r.table = inode[i].table
  BY <1>1 DEF Inode
<1>3. inode' = [inode EXCEPT ![i] = r]
  OBVIOUS
<1> HIDE DEF r
<1>4. InodeIs(i, r.state, r.sb, r.ino, r.count, r.nlink, r.table)
  BY Zenon, <1>2, <1>3, InodeStep
<1> QED
  BY <1>2, <1>4

LEMMA PutStep ==
  ASSUME TypeOK, NEW i \in Objs, NEW STATE c, c \in Nat,
         NEW STATE x, x \in {"free", "new", "live", "freeing"},
         inode' = [inode EXCEPT ![i].count = c, ![i].state = x]
  PROVE  InodeIs(i, x, inode[i].sb, inode[i].ino, c, inode[i].nlink, inode[i].table)
<1> DEFINE q == [inode[i] EXCEPT !.count = c]
           r == [q EXCEPT !.state = x]
<1>1. inode[i] \in Inode
  BY DEF TypeOK
<1>2. /\ q \in Inode /\ q.count = c /\ q.nlink = inode[i].nlink
      /\ q.sb = inode[i].sb /\ q.ino = inode[i].ino /\ q.table = inode[i].table
  BY <1>1 DEF Inode
<1>3. inode' = [inode EXCEPT ![i] = r]
  BY Zenon DEF TypeOK
<1> HIDE DEF q
<1>4. /\ r \in Inode /\ r.state = x /\ r.count = q.count /\ r.nlink = q.nlink
      /\ r.sb = q.sb /\ r.ino = q.ino /\ r.table = q.table
  BY <1>2 DEF Inode
<1> HIDE DEF r
<1>5. InodeIs(i, r.state, r.sb, r.ino, r.count, r.nlink, r.table)
  BY Zenon, <1>3, <1>4, InodeStep
<1> QED
  BY Zenon, <1>2, <1>4, <1>5

LEMMA UnlinkStep ==
  ASSUME CacheInv, NEW t \in Tasks, Unlink(t)
  PROVE  CacheInv'
<1> DEFINE i == w[t].obj
<1>1. /\ UNCHANGED <<sb, disk, w, bare>> /\ w[t].pc = "using" /\ w[t].ino # RootIno
      /\ i \in Objs /\ InUse(i) /\ Numbered(i, w[t].sb, w[t].ino)
      /\ \A u \in Tasks \ {t} :
            Concerns(u, w[t].sb, w[t].ino) => w[u].pc \in {"using", "evict", "unhash"}
  BY Zenon DEF Unlink, At, CacheInv, TasksLinked, HoldInv, Holding, Concerns
<1>2. InodeIs(i, inode[i].state, inode[i].sb, inode[i].ino, inode[i].count, 0, inode[i].table)
  BY Zenon, <1>1, NlinkStep DEF CacheInv, Unlink
<1> HIDE DEF i
<1>3. /\ inode' \in [Objs -> Inode]
      /\ \A j \in Objs :
            /\ j # i => inode'[j] = inode[j]
            /\ inode'[j].state = inode[j].state
            /\ inode'[j].sb = inode[j].sb /\ inode'[j].ino = inode[j].ino
            /\ inode'[j].nlink = IF j = i THEN 0 ELSE inode[j].nlink
            /\ inode'[j].table = inode[j].table /\ inode'[j].count = inode[j].count
  BY Zenon, <1>2 DEF InodeIs, InodeTyped
<1>s. SbSame
  BY <1>1, SbKept
<1>n. \A j \in Objs : InodeSame(j)
  BY <1>3, InodeAsBefore
<1>10. TypeOK'
  BY Zenon, <1>1, <1>3 DEF CacheInv, TypeOK
<1>11. SbInv'
  BY Zenon, <1>1 DEF CacheInv, SbInv, SbFits
<1>12. InodesLinked'
  BY <1>1, <1>3 DEF CacheInv, InodesLinked, InUse, Numbered
<1>13. TasksLinked'
  BY <1>1, <1>3, <1>s, <1>n DEF CacheInv, TasksLinked, SbSame, InodeSame
<1>14. HoldInv'
  BY <1>1, <1>3 DEF CacheInv, HoldInv, TasksLinked, InUse, Holding
<1>15. RemoveInv'
  BY Zenon, <1>1, <1>3, <1>n DEF CacheInv, RemoveInv, TasksLinked, InodeSame
<1>16. WaitInv'
  BY Zenon, <1>1, <1>3, <1>n DEF CacheInv, WaitInv, TasksLinked, InodeSame
<1>17. CountInv'
  <2>1. \A j \in Objs : Holders(j)' = Holders(j)
    BY <1>1 DEF Holders
  <2> QED
    BY Zenon, <1>3, <2>1, <1>n DEF CacheInv, CountInv, InodeSame
<1>18. OneEach'
  BY <1>3 DEF CacheInv, OneEach, InUse, Numbered
<1>19. InodeTables'
  BY <1>1, <1>3, <1>s DEF CacheInv, InodeTables, SbSame
<1>20. TaskTables'
  BY Zenon, <1>1, <1>s DEF CacheInv, TaskTables, SbSame
<1>21. DiskInv'
  BY Zenon, <1>1, <1>3 DEF CacheInv, DiskInv, InUse, Replaced
<1>22. NameInv'
  BY <1>1, <1>3, <1>s DEF CacheInv, NameInv, InUse, Concerns, AloneInv, Numbered, SbSame
<1>23. AloneInv'
  BY <1>1, <1>3, <1>s, <1>n DEF CacheInv, AloneInv, Concerns, SbSame, InodeSame
<1>24. UnderLock'
  BY <1>1 DEF CacheInv, UnderLock
<1> QED
  BY <1>10, <1>11, <1>12, <1>13, <1>14, <1>15, <1>16, <1>17, <1>18, <1>19, <1>20, <1>21,
      <1>22, <1>23, <1>24 DEF CacheInv

\* Inodes in use that are not the root are one for each number, if the
\* tables have not been replaced.
LEMMA OneInUse ==
  ASSUME CacheInv, NEW i \in Objs, NEW j \in Objs, InUse(i), InUse(j),
         Numbered(i, inode[j].sb, inode[j].ino), inode[i].ino # RootIno,
         ~Replaced(inode[i].sb)
  PROVE  i = j
<1>1. inode[i].state # "free" /\ inode[j].state # "free" /\ inode[i].sb = inode[j].sb
      /\ inode[i].ino = inode[j].ino
  BY DEF InUse, Numbered
<1>2. inode[i].table = groupfs_get_ihtable(inode[i].sb)
  BY Zenon, <1>1 DEF CacheInv, InodeTables
<1>3. inode[j].table = groupfs_get_ihtable(inode[i].sb)
  BY Zenon, <1>1 DEF CacheInv, InodeTables
<1> QED
  BY Zenon, <1>2, <1>3 DEF CacheInv, OneEach

\* A task that uses an inode is one of its holders.
LEMMA Held ==
  ASSUME Counts, CacheInv, NEW t \in Tasks, At(t, "using")
  PROVE  LET i == w[t].obj
         IN  /\ i \in Objs /\ InUse(i) /\ Numbered(i, w[t].sb, w[t].ino)
             /\ t \in Holders(i) /\ Holders(i) \in SUBSET Tasks
             /\ Cardinality(Holders(i)) \in Nat \ {0}
             /\ inode[i].count \in Nat /\ inode[i].count >= Cardinality(Holders(i))
<1> DEFINE i == w[t].obj
<1>1. /\ i \in Objs /\ InUse(i) /\ Numbered(i, w[t].sb, w[t].ino)
      /\ t \in Holders(i)
  BY Zenon DEF At, CacheInv, TasksLinked, HoldInv, Holding, Holders
<1>2. Holders(i) \in SUBSET Tasks
  BY Zenon DEF Holders
<1>3. Cardinality(Holders(i)) \in Nat /\ Cardinality(Holders(i)) # 0
  BY Zenon, <1>1, <1>2 DEF Counts
<1>4. inode[i].count \in Nat
  BY Zenon, <1>1, Fields DEF CacheInv, TypeOK
<1>5. inode[i].count - Cardinality(Holders(i)) \in {0, 1}
  BY Zenon, <1>1 DEF CacheInv, CountInv
<1>6. inode[i].count >= Cardinality(Holders(i))
  BY <1>3, <1>4, <1>5
<1> QED
  BY Zenon, <1>1, <1>2, <1>3, <1>4, <1>6

LEMMA PutKeepStep ==
  ASSUME Counts, CacheInv, NEW t \in Tasks, iput(t),
         ~(inode[w[t].obj].count = 1 /\ inode[w[t].obj].nlink = 0)
  PROVE  CacheInv'
<1>a. At(t, "using") /\ w[t].obj \in Objs
  BY Zenon, Held DEF iput
<1>i. PICK i \in Objs : i = w[t].obj
  BY <1>a
<1>1. /\ UNCHANGED <<sb, disk, bare>> /\ w[t].pc = "using" /\ At(t, "using")
      /\ inode' = [inode EXCEPT ![i].count = @ - 1, ![i].state = @]
      /\ w' = [w EXCEPT ![t] = Idle] /\ Off \notin Sbs
  BY Zenon, <1>i, CacheAssumption DEF iput, At
<1>2. /\ i \in Objs /\ InUse(i) /\ Numbered(i, w[t].sb, w[t].ino)
      /\ t \in Holders(i) /\ Holders(i) \in SUBSET Tasks
      /\ Cardinality(Holders(i)) \in Nat \ {0}
      /\ inode[i].count \in Nat /\ inode[i].count >= Cardinality(Holders(i))
  BY Zenon, <1>1, <1>i, Held
<1>3. WorkIs(t, "idle", Off, Off, Off, NoObj) /\ w'[t] = Idle
  BY Zenon, <1>1, IdleStep DEF CacheInv
<1>4. InodeIs(i, inode[i].state, inode[i].sb, inode[i].ino, inode[i].count - 1,
              inode[i].nlink, inode[i].table)
  <2>1. inode[i].count - 1 \in Nat /\ inode[i].state \in {"free", "new", "live", "freeing"}
    BY <1>2 DEF InUse
  <2> QED
    BY Zenon, <1>1, <2>1, PutStep DEF CacheInv
<1>5. /\ UNCHANGED <<sb, disk, bare>> /\ w[t].pc = "using" /\ Off \notin Sbs
      /\ i \in Objs /\ InUse(i) /\ w[t].obj = i
  BY Zenon, <1>1, <1>2, <1>i
<1>6. /\ inode' \in [Objs -> Inode]
      /\ \A j \in Objs :
            /\ j # i => inode'[j] = inode[j]
            /\ inode'[j].state = inode[j].state
            /\ inode'[j].sb = inode[j].sb /\ inode'[j].ino = inode[j].ino
            /\ inode'[j].nlink = inode[j].nlink
            /\ inode'[j].table = inode[j].table
  BY Zenon, <1>4 DEF InodeIs, InodeTyped
<1>7. InodesAlike
  BY Zenon, <1>6, InodeAsBefore DEF InodesAlike
<1>8. TypeOK'
  BY Zenon, <1>3, <1>5, <1>6 DEF CacheInv, WorkIs, WorkTyped, TypeOK
<1>9. InodesLinked'
  BY <1>5, <1>6 DEF CacheInv, InodesLinked, InUse
<1>10. CountInv'
  <2>1. \A j \in Objs : Holders(j)' = IF j = i THEN Holders(i) \ {t} ELSE Holders(j)
    BY Zenon, <1>3, <1>5 DEF WorkIs, Holders, Holding
  <2>2. Cardinality(Holders(i) \ {t}) = Cardinality(Holders(i)) - 1
    BY <1>2 DEF Counts
  <2>3. inode'[i].count = inode[i].count - 1 /\ inode[i].count \in Nat
    BY Zenon, <1>2, <1>4 DEF InodeIs
  <2>4. (inode[i].count - Cardinality(Holders(i)))' = inode[i].count - Cardinality(Holders(i))
    BY <1>2, <2>1, <2>2, <2>3
  <2>5. \A j \in Objs \ {i} : Holders(j)' = Holders(j) /\ inode'[j] = inode[j]
    BY Zenon, <1>6, <2>1
  <2>6. ~Freeing(i)' /\ inode'[i].ino = inode[i].ino /\ InUse(i)
    BY Zenon, <1>5, <1>6 DEF InUse, Freeing
  <2> QED
    BY Zenon, <2>4, <2>5, <2>6 DEF CacheInv, CountInv, InUse, Freeing
<1>11. WorkLinked(t, "idle", Off, Off, NoObj)
  BY <1>3, <1>5 DEF WorkLinked, Holding, Waiting, Removing
<1>12. HeadFits("idle", Off, Off) /\ DiskFits("idle", Off, Off) /\ NumberFits(t, "idle", Off, Off)
  BY Zenon, OffFits
<1>13. DiskInv'
  BY Zenon, <1>3, <1>5, <1>7, <1>12, DiskKept
<1> QED
  BY Zenon, <1>3, <1>5, <1>7, <1>8, <1>9, <1>10, <1>11, <1>12, <1>13, TaskStep

LEMMA PutDropStep ==
  ASSUME Counts, CacheInv, NEW t \in Tasks, iput(t),
         inode[w[t].obj].count = 1, inode[w[t].obj].nlink = 0
  PROVE  CacheInv'
<1>a. At(t, "using") /\ w[t].obj \in Objs
  BY Zenon, Held DEF iput
<1>i. PICK i \in Objs : i = w[t].obj
  BY <1>a
<1>1. /\ i \in Objs /\ InUse(i) /\ Numbered(i, w[t].sb, w[t].ino)
      /\ t \in Holders(i) /\ Holders(i) \in SUBSET Tasks
      /\ Cardinality(Holders(i)) \in Nat \ {0}
      /\ inode[i].count = 1 /\ 1 >= Cardinality(Holders(i))
  BY Zenon, <1>a, <1>i, Held
<1>2. Holders(i) = {t}
  <2>1. Cardinality(Holders(i)) = 1
    BY <1>1
  <2>2. Holders(i) \in SUBSET Tasks
    BY Zenon, <1>1
  <2>3. PICK x : Holders(i) = {x}
    BY Zenon, <2>1, <2>2 DEF Counts
  <2> QED
    BY Zenon, <1>1, <2>3
<1>3. WorkIs(t, "evict", w[t].sb, w[t].ino, w[t].head, w[t].obj)
  <2>1. w' = [w EXCEPT ![t].pc = "evict"]
    BY Zenon DEF iput
  <2> QED
    BY Zenon, <2>1, PcStep DEF CacheInv, Labels
<1>4. InodeIs(i, "freeing", inode[i].sb, inode[i].ino, 0, inode[i].nlink, inode[i].table)
  <2>1. inode' = [inode EXCEPT ![i].count = 0, ![i].state = "freeing"]
    BY <1>i DEF iput
  <2>2. TypeOK /\ 0 \in Nat /\ "freeing" \in {"free", "new", "live", "freeing"}
    BY DEF CacheInv
  <2> QED
    BY Zenon, <2>1, <2>2, PutStep
<1>5. /\ UNCHANGED <<sb, disk, bare>> /\ w[t].pc = "using" /\ w[t].obj = i
      /\ i \in Objs /\ InUse(i) /\ Numbered(i, w[t].sb, w[t].ino)
      /\ w[t].ino # RootIno /\ inode[i].nlink = 0
  BY Zenon, <1>1, <1>i DEF iput, At, CacheInv, InodesLinked, InUse, Numbered
<1>6. \A u \in Tasks : u # t => ~(w[u].obj = i /\ w[u].pc \in Holding)
  BY <1>2 DEF Holders
<1>7. \A j \in Objs : ~Replaced(w[t].sb) /\ InUse(j) /\ Numbered(j, w[t].sb, w[t].ino) => j = i
  BY Zenon, <1>5, OneInUse DEF Numbered
<1>s. SbSame
  BY <1>5, SbKept
<1>n. /\ \A j \in Objs : j # i => InodeSame(j)
      /\ InUse(i) /\ ~InUse(i)' /\ ~Freeing(i) /\ Freeing(i)'
      /\ \A x, n : Numbered(i, x, n)' = Numbered(i, x, n)
  BY Zenon, <1>4, <1>5, InodeKept DEF InodeIs, InUse, Freeing, Numbered
<1>10. TypeOK'
  BY Zenon, <1>3, <1>4, <1>5 DEF CacheInv, WorkIs, WorkTyped, InodeIs, InodeTyped,
      TypeOK
<1>11. SbInv'
  BY Zenon, <1>5 DEF CacheInv, SbInv, SbFits
<1>12. InodesLinked'
  BY <1>4, <1>5 DEF CacheInv, InodeIs, InodesLinked, InUse
<1>13. TasksLinked'
  BY <1>3, <1>4, <1>5, <1>s, <1>n DEF CacheInv, WorkIs, InodeIs, TasksLinked, SbSame,
      InodeSame
<1>14. HoldInv'
  BY <1>3, <1>4, <1>6 DEF CacheInv, WorkIs, InodeIs, HoldInv, TasksLinked, InUse,
      Holding
<1>15. RemoveInv'
  BY <1>3, <1>4, <1>5 DEF CacheInv, WorkIs, InodeIs, RemoveInv, TasksLinked, Freeing,
      Removing, InUse
<1>16. WaitInv'
  BY Zenon, <1>3, <1>4, <1>n DEF CacheInv, WorkIs, InodeIs, WaitInv, TasksLinked,
      Waiting, InodeSame
<1>17. CountInv'
  <2>1. \A j \in Objs \ {i} : Holders(j)' = Holders(j) /\ inode'[j] = inode[j]
    BY <1>3, <1>4, <1>5 DEF WorkIs, InodeIs, Holders
  <2>2. Freeing(i)' /\ inode'[i].count = 0 /\ ~InUse(i)'
    BY Zenon, <1>4, <1>n DEF InodeIs, InodeSame
  <2> QED
    BY Zenon, <2>1, <2>2 DEF CacheInv, CountInv, InUse, Freeing
<1>18. OneEach'
  BY <1>4 DEF CacheInv, InodeIs, OneEach, InUse, Numbered
<1>19. InodeTables'
  BY <1>4, <1>5, <1>s DEF CacheInv, InodeIs, InodeTables, InUse, SbSame
<1>20. TaskTables'
  BY Zenon, <1>3, <1>5, <1>s DEF CacheInv, WorkIs, TaskTables, Searching, Waiting,
      SbSame
<1>21. DiskInv'
  BY <1>3, <1>4, <1>5, <1>s DEF CacheInv, WorkIs, InodeIs, DiskInv, InUse, Numbered,
      SbSame
<1>22. NameInv'
  BY <1>3, <1>4, <1>5, <1>7, <1>s DEF CacheInv, WorkIs, InodeIs, NameInv, InUse,
      Concerns, Numbered, SbSame
<1>23. AloneInv'
  <2>1. ASSUME ~Replaced(w[t].sb), NEW u \in Tasks \ {t}, Concerns(u, w[t].sb, w[t].ino)
        PROVE  w[u].pc = "unhash"
    <3>1. w[u].pc \in {"using", "unhash"}
      BY Zenon, <1>5, <2>1 DEF CacheInv, NameInv, Numbered
    <3>2. w[u].pc = "using" => w[u].obj \in Objs /\ InUse(w[u].obj) /\ Numbered(w[u].obj, w[t].sb, w[t].ino)
      BY Zenon, <2>1 DEF CacheInv, TasksLinked, HoldInv, Holding, Concerns
    <3> QED
      BY Zenon, <1>6, <1>7, <2>1, <3>1, <3>2 DEF Holding
  <2>2. ~Replaced(w[t].sb) => \A j \in Objs : InUse(j)' => ~Numbered(j, w[t].sb, w[t].ino)'
    BY Zenon, <1>3, <1>4, <1>7 DEF WorkIs, InodeIs, InUse, Numbered
  <2>3. ASSUME NEW u \in Tasks \ {t}, w[u].pc \in {"create", "evict"}, ~Replaced(w[u].sb)
        PROVE  /\ \A j \in Objs : InUse(j)' => ~Numbered(j, w[u].sb, w[u].ino)'
               /\ \A v \in Tasks \ {u} : Concerns(v, w[u].sb, w[u].ino)' => w'[v].pc = "unhash"
    <3>1. /\ \A j \in Objs : InUse(j) => ~Numbered(j, w[u].sb, w[u].ino)
          /\ \A v \in Tasks \ {u} : Concerns(v, w[u].sb, w[u].ino) => w[v].pc = "unhash"
      BY Zenon, <2>3 DEF CacheInv, AloneInv
    <3>2. ~Concerns(t, w[u].sb, w[u].ino)
      BY Zenon, <1>5, <3>1
    <3> QED
      BY <1>3, <1>4, <3>1, <3>2 DEF WorkIs, InodeIs, InUse, Numbered, Concerns
  <2> QED
    BY <1>3, <1>5, <2>1, <2>2, <2>3, <1>s DEF WorkIs, AloneInv, Concerns, SbSame
<1>24. UnderLock'
  BY Zenon, <1>5 DEF CacheInv, UnderLock
<1> QED
  BY Zenon, <1>10, <1>11, <1>12, <1>13, <1>14, <1>15, <1>16, <1>17, <1>18, <1>19, <1>20,
      <1>21,
      <1>22, <1>23, <1>24 DEF CacheInv

LEMMA PutInv ==
  ASSUME Counts, CacheInv, NEW t \in Tasks, iput(t)
  PROVE  CacheInv'
BY Zenon, PutKeepStep, PutDropStep

LEMMA PruneStep ==
  ASSUME Counts, CacheInv, NEW t \in Tasks, NEW i \in Objs, prune_icache_sb(t, i)
  PROVE  CacheInv'
<1>1. /\ UNCHANGED <<sb, disk, bare>> /\ w[t].pc = "idle" /\ inode[i].state = "live"
      /\ inode[i].count = 0 /\ sb[inode[i].sb].state = "up" /\ Off \notin Sbs
      /\ InUse(i) /\ ~Freeing(i)
  BY CacheAssumption DEF prune_icache_sb, At, InUse, Freeing
<1>2. inode[i] \in Inode /\ inode[i].sb \in Sbs /\ inode[i].ino \in Inos /\ Mounted(inode[i].sb)
  BY Zenon, <1>1 DEF CacheInv, TypeOK, InodesLinked, SbInv, SbFits, Mounted
<1>3. WorkIs(t, "unhash", inode[i].sb, inode[i].ino, Off, i)
  <2> DEFINE s == inode[i].sb
             n == inode[i].ino
             r == [pc |-> "unhash", sb |-> s, ino |-> n, head |-> Off, obj |-> i]
  <2>1. w' = [w EXCEPT ![t] = r] /\ s \in Sbs /\ n \in Inos
    BY <1>2 DEF prune_icache_sb
  <2> HIDE DEF s, n
  <2>2. r \in Work
    BY <2>1 DEF Work, Labels, Tables
  <2>3. WorkIs(t, r.pc, r.sb, r.ino, r.head, r.obj)
    BY Zenon, <2>1, <2>2, WorkStep DEF CacheInv
  <2> QED
    BY <2>3 DEF s, n
<1>4. InodeIs(i, "freeing", inode[i].sb, inode[i].ino, inode[i].count, inode[i].nlink,
              inode[i].table)
  BY Zenon, StateStep DEF CacheInv, prune_icache_sb
<1>5. Holders(i) = {}
  <2>1. Holders(i) \in SUBSET Tasks
    BY Zenon DEF Holders
  <2>2. Cardinality(Holders(i)) \in Nat
    BY Zenon, <2>1 DEF Counts
  <2>3. 0 - Cardinality(Holders(i)) \in {0, 1}
    BY Zenon, <1>1 DEF CacheInv, CountInv
  <2>4. Cardinality(Holders(i)) = 0
    BY <2>2, <2>3
  <2> QED
    BY Zenon, <2>1, <2>4 DEF Counts
<1>6. \A u \in Tasks : ~(w[u].obj = i /\ w[u].pc \in Holding)
  BY <1>5 DEF Holders
<1>s. SbSame
  BY <1>1, SbKept
<1>n. /\ \A j \in Objs : j # i => InodeSame(j)
      /\ InUse(i) /\ ~InUse(i)' /\ ~Freeing(i) /\ Freeing(i)'
      /\ \A x, n : Numbered(i, x, n)' = Numbered(i, x, n)
  BY Zenon, <1>1, <1>4, InodeKept DEF InodeIs, InUse, Freeing, Numbered
<1>10. TypeOK'
  BY Zenon, <1>1, <1>3, <1>4 DEF CacheInv, WorkIs, WorkTyped, InodeIs, InodeTyped,
      TypeOK
<1>11. SbInv'
  BY Zenon, <1>1 DEF CacheInv, SbInv, SbFits
<1>12. InodesLinked'
  BY <1>1, <1>4 DEF CacheInv, InodeIs, InodesLinked
<1>13. TasksLinked'
  BY <1>1, <1>2, <1>3, <1>4, <1>s DEF CacheInv, WorkIs, InodeIs, TasksLinked, Numbered,
      SbSame
<1>14. HoldInv'
  BY <1>3, <1>4, <1>6 DEF CacheInv, WorkIs, InodeIs, HoldInv, TasksLinked, InUse,
      Holding
<1>15. RemoveInv'
  BY <1>1, <1>3, <1>4 DEF CacheInv, WorkIs, InodeIs, RemoveInv, TasksLinked, Freeing,
      Removing
<1>16. WaitInv'
  BY Zenon, <1>3, <1>4, <1>n DEF CacheInv, WorkIs, InodeIs, WaitInv, TasksLinked,
      InodeSame
<1>17. CountInv'
  <2>1. \A j \in Objs \ {i} : Holders(j)' = Holders(j) /\ inode'[j] = inode[j]
    BY <1>1, <1>3, <1>4 DEF WorkIs, InodeIs, Holders, Holding
  <2>2. Freeing(i)' /\ inode'[i].count = 0 /\ ~InUse(i)'
    BY Zenon, <1>1, <1>4 DEF InodeIs, Freeing, InUse
  <2> QED
    BY Zenon, <2>1, <2>2 DEF CacheInv, CountInv, InUse, Freeing
<1>18. OneEach'
  BY <1>4 DEF CacheInv, InodeIs, OneEach, InUse, Numbered
<1>19. InodeTables'
  BY <1>1, <1>4, <1>s DEF CacheInv, InodeIs, InodeTables, SbSame
<1>20. TaskTables'
  BY <1>1, <1>3, <1>s DEF CacheInv, WorkIs, TaskTables, Searching, Waiting, SbSame
<1>21. DiskInv'
  BY <1>1, <1>3, <1>4, <1>s DEF CacheInv, WorkIs, InodeIs, DiskInv, InUse, SbSame
<1>22. NameInv'
  BY <1>1, <1>3, <1>4, <1>s DEF CacheInv, WorkIs, InodeIs, NameInv, InUse, Concerns,
      SbSame
<1>23. AloneInv'
  BY <1>1, <1>3, <1>4, <1>s DEF CacheInv, WorkIs, InodeIs, AloneInv, InUse, Numbered,
      Concerns, SbSame
<1>24. UnderLock'
  BY <1>1 DEF CacheInv, UnderLock
<1> QED
  BY <1>10, <1>11, <1>12, <1>13, <1>14, <1>15, <1>16, <1>17, <1>18, <1>19, <1>20, <1>21,
      <1>22, <1>23, <1>24 DEF CacheInv

LEMMA EvictStep ==
  ASSUME CacheInv, NEW t \in Tasks, ext3_evict_inode(t)
  PROVE  CacheInv'
<1>1. WorkIs(t, "unhash", w[t].sb, w[t].ino, w[t].head, w[t].obj)
  BY Zenon, PcStep DEF CacheInv, ext3_evict_inode, Labels
<1>2. /\ UNCHANGED <<sb, inode, bare>> /\ w[t].pc = "evict"
      /\ w[t].sb \in Sbs /\ w[t].ino # RootIno
      /\ disk' \in [Sbs -> SUBSET Inos]
      /\ \A x \in Sbs : disk'[x] = IF x = w[t].sb THEN disk[x] \ {w[t].ino} ELSE disk[x]
  BY Zenon DEF ext3_evict_inode, At, CacheInv, TypeOK, TasksLinked, DiskInv
<1>3. InodesAlike
  BY <1>2, InodeKept DEF InodesAlike
<1>4. WorkLinked(t, "unhash", w[t].sb, w[t].ino, w[t].obj)
  BY Zenon, <1>2 DEF CacheInv, TasksLinked, WorkLinked, Holding, Waiting, Removing
<1>5. HeadFits("unhash", w[t].sb, w[t].head) /\ NumberFits(t, "unhash", w[t].sb, w[t].ino)
  BY DEF HeadFits, NumberFits, Searching, Waiting
<1>6. TypeOK'
  BY Zenon, <1>1, <1>2 DEF CacheInv, WorkIs, WorkTyped, TypeOK
<1>7. InodesLinked'
  BY Zenon, <1>2 DEF CacheInv, InodesLinked
<1>8. CountInv'
  <2>1. w[t].pc \notin Holding /\ "unhash" \notin Holding
    BY <1>2 DEF Holding
  <2>2. \A j \in Objs : Holders(j)' = Holders(j)
    BY Zenon, <1>1, <2>1, HoldersKept
  <2> QED
    BY Zenon, <1>2, <2>2 DEF CacheInv, CountInv, InUse, Freeing
<1>9. DiskInv'
  BY Zenon, <1>1, <1>2, <1>3, DiskFreed
<1> QED
  BY Zenon, <1>1, <1>2, <1>3, <1>4, <1>5, <1>6, <1>7, <1>8, <1>9, TaskStep

\* Inodes of a superblock are unhashed under their tables' lock, but for the
\* root inode.
LEMMA UnhashBare ==
  ASSUME CacheInv, NEW s \in Sbs, NEW STATE gone, Unhash(gone, s),
         gone \subseteq {j \in Objs : inode[j].state # "free" /\ inode[j].sb = s}
  PROVE  bare' \subseteq [loop : BOOLEAN, table : Tables] /\ UnderLock'
<1>1. ASSUME NEW b \in bare', b \notin bare
      PROVE  b \in [loop : BOOLEAN, table : Tables] /\ b.loop /\ b.table = Global
  <2>1. PICK j \in gone : /\ b = [loop |-> s \in LoopSbs, table |-> inode[j].table]
                          /\ LockOf(inode[j].table) # groupfs_get_ihlock(s)
    BY <1>1 DEF Unhash
  <2>2. /\ inode[j].table = Global \/ (sb[s].isloop /\ inode[j].table[1] = s)
        /\ sb[s].isloop => s \in LoopSbs
    BY Zenon DEF CacheInv, InodeTables, SbInv, SbFits
  <2>3. inode[j].table = Global /\ s \in LoopSbs
    BY <2>1, <2>2 DEF LockOf, groupfs_get_ihlock, Global
  <2>4. b = [loop |-> TRUE, table |-> Global]
    BY Zenon, <2>1, <2>3
  <2>5. Global \in Tables
    BY DEF Global, Tables
  <2> QED
    BY <2>4, <2>5
<1> QED
  BY <1>1 DEF CacheInv, TypeOK, UnderLock

\* What remove_inode_hash does, field by field.
Removed(t, i) ==
    /\ w' \in [Tasks -> Work] /\ inode' \in [Objs -> Inode]
    /\ w'[t] = Idle /\ inode'[i] = NoInode
    /\ \A j \in Objs \ {i} : inode'[j] = inode[j]
    /\ \A u \in Tasks \ {t} :
          /\ w'[u].sb = w[u].sb /\ w'[u].ino = w[u].ino /\ w'[u].head = w[u].head
          /\ IF w[u].pc \in Waiting /\ w[u].obj = i
             THEN /\ w'[u].pc \in {"find", "insert"}
             ELSE w'[u] = w[u]

LEMMA RemovedEffect ==
  ASSUME CacheInv, NEW t \in Tasks, NEW i \in Objs, i = w[t].obj, remove_inode_hash(t)
  PROVE  Removed(t, i)
<1>1. /\ inode' = [j \in Objs |-> IF j \in {i} THEN NoInode ELSE inode[j]]
      /\ w' = Woken(t) /\ TypeOK
  BY DEF remove_inode_hash, Unhash, CacheInv
<1>2. /\ inode' \in [Objs -> Inode] /\ inode'[i] = NoInode
      /\ \A j \in Objs \ {i} : inode'[j] = inode[j]
  BY <1>1, NoneTyped DEF TypeOK
<1>3. ASSUME NEW u \in Tasks, u # t, w[u].pc \in Waiting, w[u].obj = i
      PROVE  /\ w'[u] \in Work /\ w'[u].pc \in {"find", "insert"}
             /\ w'[u].sb = w[u].sb /\ w'[u].ino = w[u].ino /\ w'[u].head = w[u].head
  <2> DEFINE p == IF w[u].pc = "wait" THEN "find" ELSE "insert"
             q == [w[u] EXCEPT !.pc = p]
             r == [q EXCEPT !.obj = NoObj]
  <2>1. w[u] \in Work /\ p \in {"find", "insert"}
    BY <1>1 DEF TypeOK
  <2>2. w'[u] = [w[u] EXCEPT !.pc = IF @ = "wait" THEN "find" ELSE "insert", !.obj = NoObj]
    BY Zenon, <1>1, <1>3 DEF Woken, Waiting
  <2>3. w'[u] = r
    BY Zenon, <2>2
  <2> HIDE DEF p
  <2>4. /\ q \in Work /\ q.pc = p
        /\ q.sb = w[u].sb /\ q.ino = w[u].ino /\ q.head = w[u].head
    BY <2>1 DEF Work, Labels
  <2> HIDE DEF q
  <2>5. r \in Work /\ r.pc = q.pc /\ r.sb = q.sb /\ r.ino = q.ino /\ r.head = q.head
    BY <2>4 DEF Work
  <2> HIDE DEF r
  <2> QED
    BY Zenon, <2>1, <2>3, <2>4, <2>5
<1>4. ASSUME NEW u \in Tasks, u # t, ~(w[u].pc \in Waiting /\ w[u].obj = i)
      PROVE  w'[u] = w[u] /\ w'[u] \in Work
  BY Zenon, <1>1, <1>4 DEF Woken, Waiting, TypeOK
<1>5. w'[t] = Idle /\ w'[t] \in Work
  BY Zenon, <1>1, NoneTyped DEF Woken
<1>6. w' \in [Tasks -> Work]
  <2>1. \A u \in Tasks : w'[u] \in Work
    BY Zenon, <1>3, <1>4, <1>5
  <2>2. w' = [u \in Tasks |-> w'[u]]
    BY Zenon, <1>1 DEF Woken
  <2> QED
    BY <2>1, <2>2
<1> QED
  BY Zenon, <1>2, <1>3, <1>4, <1>5, <1>6 DEF Removed

LEMMA RemoveStep ==
  ASSUME CacheInv, NEW t \in Tasks, remove_inode_hash(t)
  PROVE  CacheInv'
<1>0. w[t].pc = "unhash" /\ w[t].obj \in Objs /\ UNCHANGED <<sb, disk>>
  BY Zenon DEF remove_inode_hash, At, CacheInv, TasksLinked, Removing
<1>i. PICK i \in Objs : i = w[t].obj
  BY <1>0
<1>1. Removed(t, i)
  BY <1>i, RemovedEffect
<1>2. /\ w'[t].pc = "idle" /\ w'[t].sb = Off /\ w'[t].obj = NoObj
      /\ inode'[i].state = "free" /\ inode'[i].sb = Off /\ Off \notin Sbs /\ NoObj \notin Objs
  BY <1>1, CacheAssumption DEF Removed, Idle, NoInode
<1>3. /\ w[t].pc = "unhash" /\ UNCHANGED <<sb, disk>> /\ Freeing(i) /\ w[t].sb \in Sbs
      /\ i = w[t].obj
      /\ \A u \in Tasks : w[u].pc \in Removing /\ w[u].obj = i => u = t
  BY Zenon, <1>0, <1>i DEF CacheInv, RemoveInv, Removing, TasksLinked
<1>4. {i} \subseteq {j \in Objs : inode[j].state # "free" /\ inode[j].sb = w[t].sb}
  BY Zenon, <1>3 DEF CacheInv, TasksLinked, Removing, Freeing, Numbered
<1>5. bare' \subseteq [loop : BOOLEAN, table : Tables] /\ UnderLock'
  BY Zenon, <1>3, <1>4, UnhashBare DEF remove_inode_hash
<1>6. \A u \in Tasks : w[u].obj = i => w[u].pc \notin Holding
  BY Zenon, <1>3 DEF CacheInv, HoldInv, InUse, Freeing
<1>s. SbSame
  BY <1>3, SbKept
<1>n. /\ \A j \in Objs : j # i => InodeSame(j)
      /\ ~InUse(i) /\ ~InUse(i)' /\ Freeing(i) /\ ~Freeing(i)'
      /\ \A x, n : x \in Sbs => ~Numbered(i, x, n)'
  BY Zenon, <1>1, <1>2, <1>3, InodeKept DEF Removed, InUse, Freeing, Numbered
<1>10. TypeOK'
  BY Zenon, <1>1, <1>3, <1>5 DEF CacheInv, Removed, TypeOK
<1>11. SbInv'
  BY Zenon, <1>3 DEF CacheInv, SbInv, SbFits
<1>12. InodesLinked'
  BY <1>1, <1>2, <1>3 DEF CacheInv, Removed, InodesLinked
<1>13. TasksLinked'
  BY <1>1, <1>2, <1>3, <1>6, <1>s DEF CacheInv, Removed, TasksLinked, Numbered, Holding,
      Waiting, Removing, SbSame
<1>14. HoldInv'
  BY <1>1, <1>2, <1>6 DEF CacheInv, Removed, HoldInv, TasksLinked, InUse, Holding
<1>15. RemoveInv'
  BY <1>1, <1>2, <1>3 DEF CacheInv, Removed, RemoveInv, TasksLinked, Freeing, Removing
<1>16. WaitInv'
  BY Zenon, <1>1, <1>2, <1>n DEF CacheInv, Removed, WaitInv, TasksLinked, Waiting,
      InodeSame
<1>17. CountInv'
  <2>1. \A j \in Objs \ {i} : Holders(j)' = Holders(j) /\ inode'[j] = inode[j]
    BY <1>1, <1>2, <1>3 DEF Removed, Holders, Holding
  <2>2. ~Freeing(i)' /\ ~InUse(i)'
    BY <1>2 DEF Freeing, InUse
  <2> QED
    BY Zenon, <2>1, <2>2 DEF CacheInv, CountInv, InUse, Freeing
<1>18. OneEach'
  BY <1>1, <1>2 DEF CacheInv, Removed, OneEach, InUse, Numbered
<1>19. InodeTables'
  BY <1>1, <1>2, <1>3, <1>s DEF CacheInv, Removed, InodeTables, SbSame
<1>20. TaskTables'
  BY <1>1, <1>2, <1>3, <1>s DEF CacheInv, Removed, TaskTables, Searching, Waiting,
      SbSame
<1>21. DiskInv'
  BY <1>1, <1>2, <1>3, <1>s DEF CacheInv, Removed, DiskInv, InUse, Searching, Waiting,
      SbSame
<1>22. NameInv'
  BY <1>1, <1>2, <1>3 DEF CacheInv, Removed, NameInv, InUse, Replaced, Concerns,
      InodesLinked, Waiting
<1>23. AloneInv'
  BY <1>1, <1>2, <1>3, <1>s DEF CacheInv, Removed, AloneInv, InUse, Numbered, Concerns,
      TasksLinked, Waiting, SbSame
<1>24. UnderLock'
  BY <1>5
<1> QED
  BY <1>10, <1>11, <1>12, <1>13, <1>14, <1>15, <1>16, <1>17, <1>18, <1>19, <1>20, <1>21,
      <1>22, <1>23, <1>24 DEF CacheInv

=============================================================================
