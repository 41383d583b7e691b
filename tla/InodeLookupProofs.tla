-------------------------- MODULE InodeLookupProofs -------------------------
(***************************************************************************)
(* The inductive invariant of the partitioned inode cache, and that the    *)
(* steps that look inodes up and create them preserve it.                  *)
(***************************************************************************)
EXTENDS InodeCache, TLAPS

-----------------------------------------------------------------------------
(* The inductive invariant.                                                 *)

Holding   == {"using", "fill", "waitnew"}
Waiting   == {"wait", "wait2"}
Removing  == {"evict", "unhash"}
Searching == {"find", "insert"} \cup Waiting

InUse(i)   == inode[i].state \in {"new", "live"}
Holders(i) == {t \in Tasks : w[t].obj = i /\ w[t].pc \in Holding}

Numbered(i, s, ino) == inode[i].sb = s /\ inode[i].ino = ino
Concerns(t, s, ino) == w[t].sb = s /\ w[t].ino = ino

\* Superblocks: those that are not mounted have nothing, and isloop is set
\* when the first mount of a loop device is complete.
SbFits(s) ==
    /\ IF sb[s].state = "none" THEN sb[s] = NoSb ELSE sb[s].active > 0
    /\ sb[s].isloop => s \in LoopSbs
    /\ s \in LoopSbs /\ (sb[s].state = "up" \/ sb[s].again) => sb[s].isloop
    /\ s \in LoopSbs /\ sb[s].state = "filled" => sb[s].tables < MaxTables
    /\ sb[s].state = "filled" /\ ~sb[s].again => ~sb[s].isloop
SbInv == \A s \in Sbs : SbFits(s)

\* Inodes belong to superblocks that are mounted.
InodesLinked ==
    \A i \in Objs :
        /\ inode[i].state = "free" => inode[i] = NoInode
        /\ inode[i].state # "free" =>
              /\ inode[i].sb \in Sbs /\ inode[i].ino \in Inos
              /\ sb[inode[i].sb].state # "none"
              /\ inode[i].nlink = 0 => inode[i].ino # RootIno

\* So do tasks, and a task has an inode of the number it is about.
TasksLinked ==
    \A t \in Tasks :
        /\ w[t].pc = "idle" => w[t] = Idle
        /\ w[t].pc # "idle" =>
              w[t].sb \in Sbs /\ w[t].ino \in Inos /\ Mounted(w[t].sb)
        /\ w[t].pc \in Holding \cup Waiting \cup Removing =>
              w[t].obj \in Objs /\ Numbered(w[t].obj, w[t].sb, w[t].ino)

\* An inode that a task holds is in use.
HoldInv ==
    \A t \in Tasks :
        /\ w[t].pc \in Holding => InUse(w[t].obj)
        /\ w[t].pc = "using" => inode[w[t].obj].state = "live"

\* An inode that is being freed is removed by one task.
RemoveInv ==
    /\ \A i \in Objs :
          Freeing(i) => \E u \in Tasks : w[u].obj = i /\ w[u].pc \in Removing
    /\ \A t \in Tasks : w[t].pc \in Removing =>
          /\ Freeing(w[t].obj)
          /\ \A u \in Tasks : w[u].pc \in Removing /\ w[u].obj = w[t].obj => u = t

\* A task that waits waits for an inode that is being freed.
WaitInv == \A t \in Tasks : w[t].pc \in Waiting => Freeing(w[t].obj)

\* The references of an inode.
CountInv ==
    \A i \in Objs :
        /\ Freeing(i) => inode[i].count = 0
        /\ InUse(i) => inode[i].count - Cardinality(Holders(i)) \in
                           IF inode[i].ino = RootIno THEN {0, 1} ELSE {0}

\* A table has one inode of a number that is in use.
OneEach ==
    \A i, j \in Objs :
        i # j /\ InUse(i) /\ InUse(j) /\ Numbered(i, inode[j].sb, inode[j].ino)
        => inode[i].table # inode[j].table

\* Which table an inode is in.
InodeTables ==
    \A i \in Objs : inode[i].state # "free" =>
        LET s == inode[i].sb
        IN  /\ inode[i].table = Global \/ (sb[s].isloop /\ inode[i].table[1] = s)
            /\ ~Replaced(s) => \/ inode[i].table = groupfs_get_ihtable(s)
                               \/ inode[i].ino = RootIno /\ inode[i].table = Global
            /\ sb[s].state = "filled" /\ ~sb[s].again =>
                  inode[i].ino = RootIno /\ inode[i].table = Global

\* Which table a task uses.
TaskTables ==
    \A t \in Tasks : w[t].pc \in Searching \cup {"create"} =>
        LET s == w[t].sb
        IN  /\ w[t].head = Global \/ (sb[s].isloop /\ w[t].head[1] = s)
            /\ ~Replaced(s) => w[t].head = groupfs_get_ihtable(s)

\* A number that is in use in memory or searched for is in use on disk.
DiskInv ==
    /\ \A s \in Sbs : RootIno \in disk[s]
    /\ \A i \in Objs : InUse(i) /\ ~Replaced(inode[i].sb) =>
          inode[i].ino \in disk[inode[i].sb]
    /\ \A t \in Tasks :
          /\ w[t].pc \in {"create", "ebusy", "evict"} => w[t].ino # RootIno
          /\ w[t].pc = "ebusy" => Replaced(w[t].sb)
          /\ w[t].pc \in Searching \cup {"create", "evict"} /\ ~Replaced(w[t].sb) =>
                w[t].ino \in disk[w[t].sb]

\* With an inode that has no name, tasks are only concerned as users, or as
\* removers of older inodes.
NameInv ==
    \A i \in Objs : InUse(i) /\ ~Replaced(inode[i].sb) /\ inode[i].nlink = 0 =>
        \A u \in Tasks :
            Concerns(u, inode[i].sb, inode[i].ino) => w[u].pc \in {"using", "unhash"}

\* A task that creates an inode or evicts an unlinked one is alone with its
\* number, but for removers of older inodes.
AloneInv ==
    \A t \in Tasks : w[t].pc \in {"create", "evict"} /\ ~Replaced(w[t].sb) =>
        /\ \A i \in Objs : InUse(i) => ~Numbered(i, w[t].sb, w[t].ino)
        /\ \A u \in Tasks \ {t} :
              Concerns(u, w[t].sb, w[t].ino) => w[u].pc = "unhash"

CacheInv ==
    /\ TypeOK /\ SbInv /\ InodesLinked /\ TasksLinked
    /\ HoldInv /\ RemoveInv /\ WaitInv /\ CountInv
    /\ OneEach /\ InodeTables /\ TaskTables
    /\ DiskInv /\ NameInv /\ AloneInv /\ UnderLock

\* What the steps use of the sizes of sets of tasks.
Counts ==
    /\ \A t \in Tasks : Cardinality({t}) = 1
    /\ \A S \in SUBSET Tasks :
          /\ Cardinality(S) \in Nat
          /\ Cardinality(S) = 0 <=> S = {}
          /\ Cardinality(S) = 1 => \E t \in Tasks : S = {t}
          /\ \A t \in Tasks \ S : Cardinality(S \cup {t}) = Cardinality(S) + 1
          /\ \A t \in S : Cardinality(S \ {t}) = Cardinality(S) - 1

-----------------------------------------------------------------------------
(* The initial state.                                                       *)

LEMMA InitInv == Init => CacheInv
<1> SUFFICES ASSUME Init PROVE CacheInv
  OBVIOUS
<1> USE CacheAssumption DEF Init, NoSb, NoInode, Idle
<1>1. TypeOK /\ SbInv
  BY DEF TypeOK, Labels, Tables, SuperBlock, Inode, Work, SbInv, SbFits
<1>2. InodesLinked /\ TasksLinked
  BY DEF InodesLinked, TasksLinked, Holding, Waiting, Removing
<1>3. HoldInv /\ RemoveInv /\ WaitInv
  BY Zenon DEF HoldInv, RemoveInv, WaitInv, Holding, Waiting, Removing, Freeing
<1>4. CountInv /\ OneEach /\ InodeTables /\ TaskTables
  BY Zenon DEF CountInv, OneEach, InodeTables, TaskTables, InUse, Searching, Waiting
<1>5. DiskInv /\ NameInv /\ AloneInv /\ UnderLock
  BY Zenon DEF DiskInv, NameInv, AloneInv, UnderLock, InUse, Searching, Waiting
<1> QED
  BY Zenon, <1>1, <1>2, <1>3, <1>4, <1>5 DEF CacheInv

-----------------------------------------------------------------------------
(* Types.                                                                   *)

LEMMA TableType ==
  ASSUME TypeOK, NEW s \in Sbs
  PROVE  groupfs_get_ihtable(s) \in Tables
BY DEF TypeOK, groupfs_get_ihtable, Tables, Global, SuperBlock

LEMMA NoneTyped == NoSb \in SuperBlock /\ NoInode \in Inode /\ Idle \in Work
BY CacheAssumption DEF NoSb, NoInode, Idle, SuperBlock, Inode, Work, Labels, Tables

LEMMA SuperBlockUpdates ==
  ASSUME NEW r \in SuperBlock
  PROVE  /\ \A x \in {"none", "filled", "up"} : [r EXCEPT !.state = x] \in SuperBlock
         /\ \A x \in 0 .. 2 : [r EXCEPT !.active = x] \in SuperBlock
         /\ \A x \in 0 .. MaxTables : [r EXCEPT !.tables = x] \in SuperBlock
         /\ \A x \in BOOLEAN : [r EXCEPT !.isloop = x] \in SuperBlock
         /\ \A x \in BOOLEAN : [r EXCEPT !.again = x] \in SuperBlock
BY DEF SuperBlock

LEMMA InodeUpdates ==
  ASSUME NEW r \in Inode
  PROVE  /\ \A x \in {"free", "new", "live", "freeing"} : [r EXCEPT !.state = x] \in Inode
         /\ \A x \in Nat : [r EXCEPT !.count = x] \in Inode
         /\ \A x \in {0, 1} : [r EXCEPT !.nlink = x] \in Inode
BY DEF Inode

LEMMA WorkUpdates ==
  ASSUME NEW r \in Work
  PROVE  /\ \A x \in Labels : [r EXCEPT !.pc = x] \in Work
         /\ \A x \in Sbs \cup {Off} : [r EXCEPT !.sb = x] \in Work
         /\ \A x \in Inos \cup {Off} : [r EXCEPT !.ino = x] \in Work
         /\ \A x \in Tables : [r EXCEPT !.head = x] \in Work
         /\ \A x \in Objs \cup {NoObj} : [r EXCEPT !.obj = x] \in Work
BY DEF Work

LEMMA Fields ==
  /\ \A r \in SuperBlock : /\ r.state \in {"none", "filled", "up"} /\ r.active \in 0 .. 2
                           /\ r.isloop \in BOOLEAN /\ r.tables \in 0 .. MaxTables
                           /\ r.again \in BOOLEAN
  /\ \A r \in Inode : /\ r.state \in {"free", "new", "live", "freeing"}
                      /\ r.sb \in Sbs \cup {Off} /\ r.ino \in Inos \cup {Off}
                      /\ r.count \in Nat /\ r.nlink \in {0, 1} /\ r.table \in Tables
  /\ \A r \in Work : /\ r.pc \in Labels /\ r.sb \in Sbs \cup {Off}
                     /\ r.ino \in Inos \cup {Off} /\ r.head \in Tables
                     /\ r.obj \in Objs \cup {NoObj}
BY DEF SuperBlock, Inode, Work

-----------------------------------------------------------------------------
(* Steps, field by field.                                                   *)

\* The types of w and inode, named so that the leaves below need not see them.
WorkTyped  == w \in [Tasks -> Work]
InodeTyped == inode \in [Objs -> Inode]

\* Task t, and no other, has new work.
WorkIs(t, pc, s, ino, head, obj) ==
    /\ WorkTyped'
    /\ \A u \in Tasks : u # t => w'[u] = w[u]
    /\ w'[t].pc = pc /\ w'[t].sb = s /\ w'[t].ino = ino /\ w'[t].head = head
    /\ w'[t].obj = obj

\* Inode i, and no other, has changed.
InodeIs(i, state, s, ino, count, nlink, table) ==
    /\ InodeTyped'
    /\ \A j \in Objs : j # i => inode'[j] = inode[j]
    /\ inode'[i].state = state /\ inode'[i].sb = s /\ inode'[i].ino = ino
    /\ inode'[i].count = count /\ inode'[i].nlink = nlink /\ inode'[i].table = table

\* The tables of the superblocks, and the standing of inode j, are as they were.
SbSame ==
    \A x : /\ Mounted(x)' = Mounted(x) /\ Replaced(x)' = Replaced(x)
           /\ groupfs_get_ihtable(x)' = groupfs_get_ihtable(x)
InodeSame(j) ==
    /\ InUse(j)' = InUse(j) /\ Freeing(j)' = Freeing(j)
    /\ \A s, n : Numbered(j, s, n)' = Numbered(j, s, n)

LEMMA SbKept ==
  ASSUME UNCHANGED sb
  PROVE  SbSame
BY DEF SbSame, Mounted, Replaced, groupfs_get_ihtable

LEMMA InodeKept ==
  ASSUME NEW j, inode'[j] = inode[j]
  PROVE  InodeSame(j)
BY DEF InodeSame, InUse, Freeing, Numbered

LEMMA InodeAsBefore ==
  ASSUME NEW j, inode'[j].state = inode[j].state \/ {inode'[j].state, inode[j].state} \subseteq {"new", "live"},
         inode'[j].sb = inode[j].sb, inode'[j].ino = inode[j].ino
  PROVE  InodeSame(j)
BY DEF InodeSame, InUse, Freeing, Numbered

LEMMA WorkStep ==
  ASSUME TypeOK, NEW t \in Tasks, NEW STATE r, r \in Work, w' = [w EXCEPT ![t] = r]
  PROVE  WorkIs(t, r.pc, r.sb, r.ino, r.head, r.obj)
BY DEF TypeOK, WorkIs, WorkTyped

LEMMA InodeStep ==
  ASSUME TypeOK, NEW i \in Objs, NEW STATE r, r \in Inode, inode' = [inode EXCEPT ![i] = r]
  PROVE  InodeIs(i, r.state, r.sb, r.ino, r.count, r.nlink, r.table)
BY DEF TypeOK, InodeIs, InodeTyped

LEMMA PcStep ==
  ASSUME TypeOK, NEW t \in Tasks, NEW STATE p, p \in Labels, w' = [w EXCEPT ![t].pc = p]
  PROVE  WorkIs(t, p, w[t].sb, w[t].ino, w[t].head, w[t].obj)
<1> DEFINE r == [w[t] EXCEPT !.pc = p]
<1>1. w[t] \in Work
  BY DEF TypeOK
<1>2. /\ r \in Work /\ r.pc = p
      /\ r.sb = w[t].sb /\ r.ino = w[t].ino /\ r.head = w[t].head /\ r.obj = w[t].obj
  BY <1>1 DEF Work
<1>3. w' = [w EXCEPT ![t] = r]
  OBVIOUS
<1> HIDE DEF r
<1>4. WorkIs(t, r.pc, r.sb, r.ino, r.head, r.obj)
  BY Zenon, <1>2, <1>3, WorkStep
<1> QED
  BY <1>2, <1>4

LEMMA PcObjStep ==
  ASSUME TypeOK, NEW t \in Tasks, NEW STATE p, p \in Labels, NEW i \in Objs,
         w' = [w EXCEPT ![t].pc = p, ![t].obj = i]
  PROVE  WorkIs(t, p, w[t].sb, w[t].ino, w[t].head, i)
<1> DEFINE q == [w[t] EXCEPT !.pc = p]
           r == [q EXCEPT !.obj = i]
<1>1. w[t] \in Work
  BY DEF TypeOK
<1>2. /\ q \in Work /\ q.pc = p
      /\ q.sb = w[t].sb /\ q.ino = w[t].ino /\ q.head = w[t].head
  BY <1>1 DEF Work
<1>3. w' = [w EXCEPT ![t] = r]
  BY Zenon DEF TypeOK
<1> HIDE DEF q
<1>4. /\ r \in Work /\ r.pc = q.pc /\ r.obj = i
      /\ r.sb = q.sb /\ r.ino = q.ino /\ r.head = q.head
  BY <1>2 DEF Work
<1> HIDE DEF r
<1>5. WorkIs(t, r.pc, r.sb, r.ino, r.head, r.obj)
  BY Zenon, <1>3, <1>4, WorkStep
<1> QED
  BY <1>2, <1>4, <1>5

LEMMA IdleStep ==
  ASSUME TypeOK, NEW t \in Tasks, w' = [w EXCEPT ![t] = Idle]
  PROVE  WorkIs(t, "idle", Off, Off, Off, NoObj) /\ w'[t] = Idle
<1>1. WorkIs(t, Idle.pc, Idle.sb, Idle.ino, Idle.head, Idle.obj)
  BY Zenon, NoneTyped, WorkStep
<1>2. w'[t] = Idle
  BY DEF TypeOK
<1> QED
  BY <1>1, <1>2 DEF Idle

LEMMA StartStep ==
  ASSUME TypeOK, NEW t \in Tasks, NEW s \in Sbs, NEW ino \in Inos, NEW l \in Labels,
         Start(t, s, ino, l)
  PROVE  WorkIs(t, l, s, ino, groupfs_get_ihtable(s), NoObj)
<1> DEFINE h == groupfs_get_ihtable(s)
           r == [pc |-> l, sb |-> s, ino |-> ino, head |-> h, obj |-> NoObj]
<1>1. w' = [w EXCEPT ![t] = r]
  BY DEF Start
<1>2. h \in Tables
  BY TableType
<1> HIDE DEF h
<1>3. r \in Work
  BY <1>2 DEF Work
<1>4. WorkIs(t, r.pc, r.sb, r.ino, r.head, r.obj)
  BY Zenon, <1>1, <1>3, WorkStep
<1> QED
  BY <1>4 DEF h

LEMMA CountStep ==
  ASSUME TypeOK, NEW i \in Objs, NEW STATE c, c \in Nat,
         inode' = [inode EXCEPT ![i].count = c]
  PROVE  InodeIs(i, inode[i].state, inode[i].sb, inode[i].ino, c, inode[i].nlink,
                 inode[i].table)
<1> DEFINE r == [inode[i] EXCEPT !.count = c]
<1>1. inode[i] \in Inode
  BY DEF TypeOK
<1>2. /\ r \in Inode /\ r.count = c /\ r.state = inode[i].state /\ r.sb = inode[i].sb
      /\ r.ino = inode[i].ino /\ r.nlink = inode[i].nlink /\ r.table = inode[i].table
  BY <1>1 DEF Inode
<1>3. inode' = [inode EXCEPT ![i] = r]
  OBVIOUS
<1> HIDE DEF r
<1>4. InodeIs(i, r.state, r.sb, r.ino, r.count, r.nlink, r.table)
  BY Zenon, <1>2, <1>3, InodeStep
<1> QED
  BY <1>2, <1>4

LEMMA StateStep ==
  ASSUME TypeOK, NEW i \in Objs, NEW x \in {"live", "freeing"},
         inode' = [inode EXCEPT ![i].state = x]
  PROVE  InodeIs(i, x, inode[i].sb, inode[i].ino, inode[i].count, inode[i].nlink,
                 inode[i].table)
<1> DEFINE r == [inode[i] EXCEPT !.state = x]
<1>1. inode[i] \in Inode
  BY DEF TypeOK
<1>2. /\ r \in Inode /\ r.state = x /\ r.count = inode[i].count /\ r.sb = inode[i].sb
      /\ r.ino = inode[i].ino /\ r.nlink = inode[i].nlink /\ r.table = inode[i].table
  BY <1>1 DEF Inode
<1>3. inode' = [inode EXCEPT ![i] = r]
  OBVIOUS
<1> HIDE DEF r
<1>4. InodeIs(i, r.state, r.sb, r.ino, r.count, r.nlink, r.table)
  BY Zenon, <1>2, <1>3, InodeStep
<1> QED
  BY <1>2, <1>4
-----------------------------------------------------------------------------
(* Hashing a new inode.                                                     *)

LEMMA HashEffect ==
  ASSUME CacheInv, NEW t \in Tasks, NEW i \in Objs, Hash(t, i), w[t].pc \in {"insert", "create"}
  PROVE  /\ WorkIs(t, "fill", w[t].sb, w[t].ino, w[t].head, i)
         /\ InodeIs(i, "new", w[t].sb, w[t].ino, 1, 1, w[t].head)
<1>1. w[t] \in Work
  BY DEF CacheInv, TypeOK
<1>2. WorkIs(t, "fill", w[t].sb, w[t].ino, w[t].head, i)
  BY Zenon, PcObjStep DEF CacheInv, Labels, Hash
<1> DEFINE r == [state |-> "new", sb |-> w[t].sb, ino |-> w[t].ino, count |-> 1,
                 nlink |-> 1, table |-> w[t].head]
<1>3. r \in Inode
  BY Zenon, <1>1, Fields DEF Inode
<1>4. InodeIs(i, r.state, r.sb, r.ino, r.count, r.nlink, r.table)
  BY Zenon, <1>3, InodeStep DEF CacheInv, Hash
<1> QED
  BY Zenon, <1>2, <1>4

LEMMA HashStep ==
  ASSUME Counts, CacheInv, NEW t \in Tasks, NEW i \in Objs,
         w[t].pc \in {"insert", "create"}, inode[i].state = "free", inode[i].sb = Off,
         WorkIs(t, "fill", w[t].sb, w[t].ino, w[t].head, i),
         InodeIs(i, "new", w[t].sb, w[t].ino, 1, 1, w[t].head),
         \A j \in Objs : InUse(j) /\ Numbered(j, w[t].sb, w[t].ino) => inode[j].table # w[t].head,
         UNCHANGED <<sb, disk, bare>>
  PROVE  CacheInv'
<1>1. w[t].sb \in Sbs /\ w[t].ino \in Inos /\ Mounted(w[t].sb) /\ Off \notin Sbs
  BY Zenon, CacheAssumption DEF CacheInv, TasksLinked
<1>2. sb[w[t].sb].state # "none"
  BY <1>1 DEF CacheInv, SbInv, SbFits, Mounted, NoSb
<1>s. SbSame
  BY SbKept
<1>n. /\ \A j \in Objs : j # i => InodeSame(j)
      /\ ~InUse(i) /\ InUse(i)' /\ ~Freeing(i) /\ ~Freeing(i)'
      /\ \A x, n : Numbered(i, x, n)' = (x = w[t].sb /\ n = w[t].ino)
  BY Zenon, InodeKept DEF InodeIs, InUse, Freeing, Numbered
<1>10. TypeOK'
  BY Zenon DEF CacheInv, WorkIs, WorkTyped, InodeIs, InodeTyped, TypeOK
<1>11. SbInv'
  BY Zenon DEF CacheInv, SbInv, SbFits
<1>12. InodesLinked'
  BY <1>1, <1>2 DEF CacheInv, InodeIs, InodesLinked
<1>13. TasksLinked'
  BY <1>1, <1>s DEF CacheInv, WorkIs, InodeIs, TasksLinked, Numbered, Holding, Waiting,
      Removing, SbSame
<1>14. HoldInv'
  BY DEF CacheInv, WorkIs, InodeIs, HoldInv, TasksLinked, InUse, Holding
<1>15. RemoveInv'
  BY DEF CacheInv, WorkIs, InodeIs, RemoveInv, TasksLinked, Freeing, Removing
<1>16. WaitInv'
  BY Zenon, <1>n DEF CacheInv, WorkIs, InodeIs, WaitInv, TasksLinked, Waiting, InodeSame
<1>17. CountInv'
  <2>1. \A j \in Objs : Holders(j)' = IF j = i THEN {t} ELSE Holders(j)
    <3>1. Holders(i) = {}
      BY Zenon DEF CacheInv, HoldInv, Holders, InUse
    <3> QED
      BY <3>1 DEF WorkIs, Holders, Holding
  <2>2. Cardinality({t}) = 1
    BY Zenon DEF Counts
  <2> QED
    <3>1. \A j \in Objs : j # i => inode'[j] = inode[j] /\ Holders(j)' = Holders(j)
      BY Zenon, <2>1 DEF InodeIs
    <3>2. inode'[i].state = "new" /\ inode'[i].count = 1
      BY Zenon DEF InodeIs
    <3>3. Cardinality(Holders(i))' = 1
      BY Zenon, <2>1, <2>2
    <3>4. (inode[i].count - Cardinality(Holders(i)))' = 0
      BY <3>2, <3>3
    <3> QED
      BY Zenon, <3>1, <3>2, <3>4 DEF CacheInv, CountInv, InUse, Freeing
<1>18. OneEach'
  BY DEF CacheInv, InodeIs, OneEach, InUse, Numbered
<1>19. InodeTables'
  <2>1. /\ w[t].head = Global \/ (sb[w[t].sb].isloop /\ w[t].head[1] = w[t].sb)
        /\ ~Replaced(w[t].sb) => w[t].head = groupfs_get_ihtable(w[t].sb)
    BY Zenon DEF CacheInv, TaskTables, Searching
  <2>2. ~(sb[w[t].sb].state = "filled" /\ ~sb[w[t].sb].again)
    BY Zenon, <1>1 DEF Mounted
  <2>3. /\ inode'[i].sb = w[t].sb /\ inode'[i].table = w[t].head
        /\ \A j \in Objs : j # i => inode'[j] = inode[j]
    BY Zenon DEF InodeIs
  <2> QED
    BY <1>s, <2>1, <2>2, <2>3 DEF CacheInv, InodeTables, SbSame
<1>20. TaskTables'
  BY <1>s DEF CacheInv, WorkIs, TaskTables, Searching, SbSame
<1>21. DiskInv'
  BY <1>s DEF CacheInv, WorkIs, InodeIs, DiskInv, InUse, Searching, SbSame
<1>22. NameInv'
  BY <1>s DEF CacheInv, WorkIs, InodeIs, NameInv, InUse, Concerns, SbSame
<1>23. AloneInv'
  BY <1>s DEF CacheInv, WorkIs, InodeIs, AloneInv, InUse, Numbered, Concerns, SbSame
<1>24. UnderLock'
  BY Zenon DEF CacheInv, UnderLock
<1> QED
  BY Zenon, <1>10, <1>11, <1>12, <1>13, <1>14, <1>15, <1>16, <1>17, <1>18, <1>19, <1>20,
      <1>21, <1>22, <1>23, <1>24 DEF CacheInv

-----------------------------------------------------------------------------
(* Steps of one task.                                                       *)

\* Inodes may have other counts and a new one may be live; they are otherwise
\* as they were.
InodesAlike ==
    \A j \in Objs :
        /\ InodeSame(j)
        /\ inode'[j].state = "free" <=> inode[j].state = "free"
        /\ inode[j].state = "live" => inode'[j].state = "live"
        /\ inode'[j].sb = inode[j].sb /\ inode'[j].ino = inode[j].ino
        /\ inode'[j].nlink = inode[j].nlink /\ inode'[j].table = inode[j].table

\* What the invariant asks of the new work of task t: that it is linked to a
\* mounted superblock and to inodes in the state it needs,
WorkLinked(t, p, s, n, o) ==
    /\ p = "idle" => w'[t] = Idle
    /\ p # "idle" => s \in Sbs /\ n \in Inos /\ Mounted(s)
    /\ p \in Holding \cup Waiting \cup Removing => o \in Objs /\ Numbered(o, s, n)
    /\ p \in Holding => InUse(o)
    /\ p = "using" => inode'[o].state = "live"
    /\ p \in Waiting => Freeing(o)
    /\ p \in Removing <=> w[t].pc \in Removing
    /\ p \in Removing => o = w[t].obj

\* that it uses the table of its superblock,
HeadFits(p, s, h) ==
    p \in Searching \cup {"create"} =>
        /\ h = Global \/ (sb[s].isloop /\ h[1] = s)
        /\ ~Replaced(s) => h = groupfs_get_ihtable(s)

\* that its number is in use on disk,
DiskFits(p, s, n) ==
    /\ p \in {"create", "ebusy", "evict"} => n # RootIno
    /\ p = "ebusy" => Replaced(s)
    /\ p \in Searching \cup {"create", "evict"} /\ ~Replaced(s) => n \in disk[s]

\* and that it leaves alone the numbers of unlinked inodes and those that are
\* being created or evicted, and is alone with the one it creates or evicts.
NumberFits(t, p, s, n) ==
    ~Replaced(s) =>
        /\ p \notin {"using", "unhash"} =>
              \A i \in Objs : InUse(i) /\ Numbered(i, s, n) => inode[i].nlink # 0
        /\ p # "unhash" =>
              \A u \in Tasks \ {t} : w[u].pc \in {"create", "evict"} => ~Concerns(u, s, n)
        /\ p \in {"create", "evict"} =>
              /\ \A i \in Objs : InUse(i) => ~Numbered(i, s, n)
              /\ \A u \in Tasks \ {t} : Concerns(u, s, n) => w[u].pc = "unhash"

\* A step of one task.
LEMMA TaskStep ==
  ASSUME CacheInv, NEW t \in Tasks, NEW STATE p, NEW STATE s, NEW STATE n, NEW STATE h,
         NEW STATE o, WorkIs(t, p, s, n, h, o), UNCHANGED <<sb, bare>>, InodesAlike,
         WorkLinked(t, p, s, n, o), HeadFits(p, s, h), NumberFits(t, p, s, n),
         TypeOK', InodesLinked', CountInv', DiskInv'
  PROVE  CacheInv'
<1>1. SbSame
  BY SbKept
<1>2. /\ \A u \in Tasks : u # t => w'[u] = w[u]
      /\ \A u \in Tasks : u # t => \A x, y : Concerns(u, x, y)' = Concerns(u, x, y)
      /\ w'[t].pc = p /\ w'[t].sb = s /\ w'[t].ino = n /\ w'[t].head = h /\ w'[t].obj = o
      /\ \A x, y : Concerns(t, x, y)' = (x = s /\ y = n)
  BY DEF WorkIs, Concerns
<1>3. SbInv'
  BY Zenon DEF CacheInv, SbInv, SbFits
<1>4. TasksLinked'
  BY <1>1, <1>2 DEF CacheInv, TasksLinked, WorkLinked, SbSame, InodesAlike, InodeSame
<1>5. HoldInv'
  BY <1>2 DEF CacheInv, HoldInv, TasksLinked, WorkLinked, InodesAlike, InodeSame, Holding
<1>6. RemoveInv'
  BY <1>2 DEF CacheInv, RemoveInv, TasksLinked, WorkLinked, InodesAlike, InodeSame
<1>7. WaitInv'
  BY <1>2 DEF CacheInv, WaitInv, TasksLinked, WorkLinked, InodesAlike, InodeSame
<1>8. OneEach'
  BY DEF CacheInv, OneEach, InodesAlike, InodeSame
<1>9. InodeTables'
  <2>1. ASSUME NEW i \in Objs PROVE UNCHANGED <<inode[i].sb, inode[i].ino, inode[i].table>>
    BY Zenon DEF InodesAlike
  <2>2. ASSUME NEW i \in Objs PROVE inode'[i].state # "free" => inode[i].state # "free"
    BY Zenon DEF InodesAlike
  <2> QED
    BY Zenon, <1>1, <2>1, <2>2 DEF CacheInv, InodeTables, SbSame
<1>10. TaskTables'
  BY <1>1, <1>2 DEF CacheInv, TaskTables, HeadFits, SbSame
<1>11. NameInv'
  <2>1. ASSUME NEW i \in Objs, InUse(i)', ~Replaced(inode[i].sb)', inode'[i].nlink = 0,
               NEW u \in Tasks, Concerns(u, inode[i].sb, inode[i].ino)'
        PROVE  w'[u].pc \in {"using", "unhash"}
    <3>1. /\ InUse(i) /\ ~Replaced(inode[i].sb) /\ inode[i].nlink = 0
          /\ inode'[i].sb = inode[i].sb /\ inode'[i].ino = inode[i].ino
      BY Zenon, <1>1, <2>1 DEF InodesAlike, InodeSame, SbSame
    <3>2. CASE u # t
      BY <1>2, <2>1, <3>1, <3>2 DEF CacheInv, NameInv
    <3>3. CASE u = t
      <4>1. inode[i].sb = s /\ inode[i].ino = n
        BY Zenon, <1>2, <2>1, <3>1, <3>3
      <4> QED
        BY Zenon, <1>2, <3>1, <3>3, <4>1 DEF NumberFits, Numbered
    <3> QED
      BY Zenon, <3>2, <3>3
  <2> QED
    BY Zenon, <2>1 DEF NameInv
<1>12. AloneInv'
  <2>1. ASSUME NEW u \in Tasks, w'[u].pc \in {"create", "evict"}, ~Replaced(w[u].sb)'
        PROVE  /\ \A i \in Objs : InUse(i)' => ~Numbered(i, w[u].sb, w[u].ino)'
               /\ \A v \in Tasks \ {u} :
                     Concerns(v, w[u].sb, w[u].ino)' => w'[v].pc = "unhash"
    <3>1. ~Replaced(w'[u].sb)
      BY Zenon, <1>1, <2>1 DEF SbSame
    <3>2. CASE u = t
      BY <1>2, <2>1, <3>1, <3>2 DEF NumberFits, InodesAlike, InodeSame
    <3>3. CASE u # t
      <4>1. /\ w[u].pc \in {"create", "evict"} /\ ~Replaced(w[u].sb)
            /\ w'[u].sb = w[u].sb /\ w'[u].ino = w[u].ino
        BY Zenon, <1>2, <2>1, <3>1, <3>3
      <4>2. /\ \A i \in Objs : InUse(i) => ~Numbered(i, w[u].sb, w[u].ino)
            /\ \A v \in Tasks \ {u} : Concerns(v, w[u].sb, w[u].ino) => w[v].pc = "unhash"
        BY Zenon, <4>1 DEF CacheInv, AloneInv
      <4>3. Concerns(t, w[u].sb, w[u].ino)' => p = "unhash"
        BY Zenon, <1>2, <3>3, <4>1 DEF NumberFits, Concerns
      <4> QED
        BY <1>2, <4>1, <4>2, <4>3 DEF InodesAlike, InodeSame
    <3> QED
      BY Zenon, <3>2, <3>3
  <2> QED
    BY Zenon, <2>1 DEF AloneInv
<1>13. UnderLock'
  BY Zenon DEF CacheInv, UnderLock
<1> QED
  BY Zenon, <1>3, <1>4, <1>5, <1>6, <1>7, <1>8, <1>9, <1>10, <1>11, <1>12, <1>13 DEF CacheInv

\* Nothing on disk changes.
LEMMA DiskKept ==
  ASSUME CacheInv, NEW t \in Tasks, NEW STATE p, NEW STATE s, NEW STATE n, NEW STATE h,
         NEW STATE o, WorkIs(t, p, s, n, h, o), UNCHANGED <<sb, disk>>, InodesAlike,
         DiskFits(p, s, n)
  PROVE  DiskInv'
<1>1. SbSame
  BY SbKept
<1> QED
  BY <1>1 DEF CacheInv, DiskInv, DiskFits, WorkIs, InodesAlike, InodeSame, SbSame

\* The number of a task is freed on disk: the task creates or evicts an inode,
\* so that no other is concerned, or the tables have been replaced.
LEMMA DiskFreed ==
  ASSUME CacheInv, NEW t \in Tasks, NEW STATE p, NEW STATE s, NEW STATE n, NEW STATE h,
         NEW STATE o, WorkIs(t, p, s, n, h, o), UNCHANGED sb, InodesAlike,
         p \in {"idle", "unhash"}, w[t].sb \in Sbs, w[t].ino # RootIno,
         w[t].pc \in {"create", "evict"} \/ Replaced(w[t].sb),
         \A x \in Sbs : disk'[x] = IF x = w[t].sb THEN disk[x] \ {w[t].ino} ELSE disk[x]
  PROVE  DiskInv'
<1>1. SbSame
  BY SbKept
<1>2. \A x \in Sbs : \A y : y \in disk[x] /\ ~(x = w[t].sb /\ y = w[t].ino) => y \in disk'[x]
  OBVIOUS
<1>3. ASSUME NEW i \in Objs, InUse(i), ~Replaced(inode[i].sb)
      PROVE  inode[i].ino \in disk'[inode[i].sb]
  <2>1. inode[i].sb \in Sbs /\ inode[i].ino \in disk[inode[i].sb]
    BY Zenon, <1>3 DEF CacheInv, InodesLinked, DiskInv, InUse
  <2>2. ~(inode[i].sb = w[t].sb /\ inode[i].ino = w[t].ino)
    BY Zenon, <1>3 DEF CacheInv, AloneInv, Numbered
  <2> QED
    BY Zenon, <1>2, <2>1, <2>2
<1>4. ASSUME NEW u \in Tasks, u # t, w[u].pc \in Searching \cup {"create", "evict"},
             ~Replaced(w[u].sb)
      PROVE  w[u].ino \in disk'[w[u].sb]
  <2>1. w[u].sb \in Sbs /\ w[u].ino \in disk[w[u].sb] /\ w[u].pc # "unhash"
    BY <1>4 DEF CacheInv, TasksLinked, DiskInv, Searching, Waiting
  <2>2. ~(w[u].sb = w[t].sb /\ w[u].ino = w[t].ino)
    BY Zenon, <1>4, <2>1 DEF CacheInv, AloneInv, Concerns
  <2> QED
    BY Zenon, <1>2, <2>1, <2>2
<1>5. \A x \in Sbs : RootIno \in disk'[x]
  BY <1>2 DEF CacheInv, DiskInv
<1> QED
  BY <1>1, <1>3, <1>4, <1>5 DEF CacheInv, WorkIs, DiskInv, InodesAlike, InodeSame, SbSame,
      Searching, Waiting

\* The inodes have the holders that they had.
LEMMA HoldersKept ==
  ASSUME NEW t \in Tasks, NEW STATE p, NEW STATE s, NEW STATE n, NEW STATE h, NEW STATE o,
         WorkIs(t, p, s, n, h, o),
         p \in Holding <=> w[t].pc \in Holding, p \in Holding => o = w[t].obj
  PROVE  \A j \in Objs : Holders(j)' = Holders(j)
BY DEF WorkIs, Holders

\* A step of one task that changes no inode and nothing on disk.
LEMMA WorkOnly ==
  ASSUME CacheInv, NEW t \in Tasks, NEW STATE p, NEW STATE s, NEW STATE n, NEW STATE h,
         NEW STATE o, WorkIs(t, p, s, n, h, o), UNCHANGED <<sb, disk, inode, bare>>,
         WorkLinked(t, p, s, n, o), HeadFits(p, s, h), DiskFits(p, s, n),
         NumberFits(t, p, s, n),
         p \in Holding <=> w[t].pc \in Holding, p \in Holding => o = w[t].obj
  PROVE  CacheInv'
<1>1. InodesAlike
  BY InodeKept DEF InodesAlike
<1>2. TypeOK'
  BY Zenon DEF CacheInv, WorkIs, WorkTyped, TypeOK
<1>3. InodesLinked'
  BY Zenon DEF CacheInv, InodesLinked
<1>4. CountInv'
  <2>1. \A j \in Objs : Holders(j)' = Holders(j)
    BY Zenon, HoldersKept
  <2> QED
    BY Zenon, <2>1 DEF CacheInv, CountInv, InUse, Freeing
<1>5. DiskInv'
  BY Zenon, <1>1, DiskKept
<1> QED
  BY Zenon, <1>1, <1>2, <1>3, <1>4, <1>5, TaskStep

\* A task that has finished fits.
LEMMA OffFits ==
  ASSUME CacheInv, NEW t \in Tasks
  PROVE  /\ HeadFits("idle", Off, Off) /\ DiskFits("idle", Off, Off)
         /\ NumberFits(t, "idle", Off, Off)
<1>1. \A i \in Objs : InUse(i) => inode[i].sb \in Sbs
  BY Zenon DEF CacheInv, InodesLinked, InUse
<1>2. \A u \in Tasks : w[u].pc \in {"create", "evict"} => w[u].sb \in Sbs
  BY Zenon DEF CacheInv, TasksLinked
<1>3. NumberFits(t, "idle", Off, Off)
  BY <1>1, <1>2, CacheAssumption DEF NumberFits, Numbered, Concerns
<1> QED
  BY <1>3 DEF HeadFits, DiskFits, Searching, Waiting

-----------------------------------------------------------------------------
(* Looking up.                                                              *)

LEMMA IgetStep ==
  ASSUME CacheInv, NEW t \in Tasks, NEW s \in Sbs, NEW ino \in Inos, iget_locked(t, s, ino)
  PROVE  CacheInv'
<1>1. WorkIs(t, "find", s, ino, groupfs_get_ihtable(s), NoObj)
  BY StartStep DEF CacheInv, iget_locked, Labels
<1>2. /\ UNCHANGED <<sb, disk, inode, bare>> /\ w[t].pc = "idle"
      /\ Mounted(s) /\ ino \in disk[s] /\ HasName(s, ino)
  BY DEF iget_locked, At
<1>3. WorkLinked(t, "find", s, ino, NoObj)
  BY <1>2 DEF WorkLinked, Holding, Waiting, Removing
<1>4. HeadFits("find", s, groupfs_get_ihtable(s)) /\ DiskFits("find", s, ino)
  BY <1>2 DEF HeadFits, DiskFits, groupfs_get_ihtable
<1>5. NumberFits(t, "find", s, ino)
  BY <1>2 DEF NumberFits, HasName, Concerns, Numbered, InUse, Freeing
<1>6. "find" \notin Holding /\ w[t].pc \notin Holding
  BY <1>2 DEF Holding
<1> QED
  BY Zenon, <1>1, <1>2, <1>3, <1>4, <1>5, <1>6, WorkOnly

LEMMA SearchedStep ==
  ASSUME CacheInv, NEW t \in Tasks, w[t].pc = "find",
         WorkIs(t, "insert", w[t].sb, w[t].ino, w[t].head, w[t].obj),
         UNCHANGED <<sb, disk, inode, bare>>
  PROVE  CacheInv'
<1>1. WorkLinked(t, "insert", w[t].sb, w[t].ino, w[t].obj)
  BY DEF CacheInv, TasksLinked, WorkLinked, Holding, Waiting, Removing
<1>2. HeadFits("insert", w[t].sb, w[t].head) /\ DiskFits("insert", w[t].sb, w[t].ino)
  BY Zenon DEF CacheInv, TaskTables, DiskInv, HeadFits, DiskFits, Searching
<1>3. NumberFits(t, "insert", w[t].sb, w[t].ino)
  BY DEF CacheInv, NameInv, AloneInv, NumberFits, Concerns, Numbered
<1>4. "insert" \notin Holding /\ w[t].pc \notin Holding
  BY DEF Holding
<1> QED
  BY Zenon, <1>1, <1>2, <1>3, <1>4, WorkOnly

LEMMA InsertFailsStep ==
  ASSUME CacheInv, NEW t \in Tasks, InsertFails(t)
  PROVE  CacheInv'
<1>1. WorkIs(t, "idle", Off, Off, Off, NoObj) /\ w'[t] = Idle
  BY Zenon, IdleStep DEF CacheInv, InsertFails
<1>2. w[t].pc = "insert" /\ UNCHANGED <<sb, disk, inode, bare>>
  BY DEF InsertFails, At
<1>3. WorkLinked(t, "idle", Off, Off, NoObj)
  BY <1>1, <1>2 DEF WorkLinked, Holding, Waiting, Removing
<1>4. HeadFits("idle", Off, Off) /\ DiskFits("idle", Off, Off) /\ NumberFits(t, "idle", Off, Off)
  BY Zenon, OffFits
<1>5. "idle" \notin Holding /\ w[t].pc \notin Holding
  BY <1>2 DEF Holding
<1> QED
  BY Zenon, <1>1, <1>2, <1>3, <1>4, <1>5, WorkOnly

LEMMA GotFreeing ==
  ASSUME CacheInv, NEW t \in Tasks, NEW i \in Matching(w[t].head, w[t].sb, w[t].ino),
         w[t].pc \in {"find", "insert"}, Freeing(i), Got(t, i), UNCHANGED <<sb, disk, bare>>
  PROVE  CacheInv'
<1>1. /\ i \in Objs /\ Numbered(i, w[t].sb, w[t].ino)
      /\ w[t].pc \in {"find", "insert"} /\ Freeing(i)
  BY DEF Matching, Numbered
<1>2. PICK p \in Waiting : w' = [w EXCEPT ![t].pc = p, ![t].obj = i] /\ UNCHANGED inode
  BY DEF Got, Waiting
<1>3. WorkIs(t, p, w[t].sb, w[t].ino, w[t].head, i)
  BY Zenon, <1>1, <1>2, PcObjStep DEF CacheInv, Labels, Waiting
<1>4. WorkLinked(t, p, w[t].sb, w[t].ino, i)
  BY <1>1 DEF CacheInv, TasksLinked, WorkLinked, Holding, Waiting, Removing
<1>5. HeadFits(p, w[t].sb, w[t].head) /\ DiskFits(p, w[t].sb, w[t].ino)
  BY <1>1 DEF CacheInv, TaskTables, DiskInv, HeadFits, DiskFits, Searching, Waiting
<1>6. NumberFits(t, p, w[t].sb, w[t].ino)
  BY <1>1 DEF CacheInv, NameInv, AloneInv, NumberFits, Concerns, Numbered, Waiting
<1>7. p \notin Holding /\ w[t].pc \notin Holding
  BY <1>1 DEF Holding, Waiting
<1> QED
  BY Zenon, <1>2, <1>3, <1>4, <1>5, <1>6, <1>7, WorkOnly

LEMMA GotInUse ==
  ASSUME Counts, CacheInv, NEW t \in Tasks, NEW i \in Matching(w[t].head, w[t].sb, w[t].ino),
         w[t].pc \in {"find", "insert"}, ~Freeing(i), Got(t, i), UNCHANGED <<sb, disk, bare>>
  PROVE  CacheInv'
<1>1. /\ i \in Objs /\ inode[i].sb = w[t].sb /\ inode[i].ino = w[t].ino
      /\ w[t].pc \in {"find", "insert"} /\ InUse(i)
  <2>1. /\ i \in Objs /\ inode[i].sb = w[t].sb /\ inode[i].ino = w[t].ino
        /\ w[t].pc \in {"find", "insert"} /\ inode[i] \in Inode
    BY Zenon DEF Matching, CacheInv, TypeOK
  <2>2. inode[i].state # "free"
    BY <2>1, CacheAssumption DEF CacheInv, InodesLinked, TasksLinked, NoInode
  <2> QED
    BY Zenon, <2>1, <2>2, Fields DEF InUse, Freeing
<1>p. PICK p \in {"waitnew", "using"} :
         /\ w' = [w EXCEPT ![t].pc = p, ![t].obj = i]
         /\ p = "using" => inode[i].state = "live"
  BY Zenon, <1>1 DEF Got, InUse
<1>2. /\ WorkIs(t, p, w[t].sb, w[t].ino, w[t].head, i)
      /\ p \in {"waitnew", "using"} /\ (p = "using" => inode[i].state = "live")
  BY Zenon, <1>1, <1>p, PcObjStep DEF CacheInv, Labels
<1>3. /\ inode[i].count \in Nat
      /\ InodeIs(i, inode[i].state, inode[i].sb, inode[i].ino, inode[i].count + 1,
                 inode[i].nlink, inode[i].table)
  <2>1. inode[i].count \in Nat
    BY Zenon, <1>1, Fields DEF CacheInv, TypeOK
  <2> QED
    BY <1>1, <2>1, CountStep DEF CacheInv, Got
<1>4. /\ UNCHANGED <<sb, disk, bare>> /\ inode' \in [Objs -> Inode]
      /\ \A j \in Objs :
            /\ j # i => inode'[j] = inode[j]
            /\ inode'[j].state = inode[j].state /\ inode'[j].sb = inode[j].sb
            /\ inode'[j].ino = inode[j].ino /\ inode'[j].nlink = inode[j].nlink
            /\ inode'[j].table = inode[j].table
  BY Zenon, <1>3 DEF InodeIs, InodeTyped
<1>5. InodesAlike
  BY <1>1, <1>4, InodeAsBefore DEF InodesAlike
<1>6. TypeOK'
  BY Zenon, <1>2, <1>4 DEF CacheInv, WorkIs, WorkTyped, TypeOK
<1>7. InodesLinked'
  BY <1>1, <1>4 DEF CacheInv, InodesLinked, InUse
<1>8. CountInv'
  <2>1. \A j \in Objs : Holders(j)' = IF j = i THEN Holders(i) \cup {t} ELSE Holders(j)
    BY Zenon, <1>2 DEF WorkIs, Holders, Holding
  <2>2. Holders(i) \in SUBSET Tasks /\ t \in Tasks \ Holders(i)
    BY Zenon DEF Holders, Holding
  <2>3. Cardinality(Holders(i) \cup {t}) = Cardinality(Holders(i)) + 1
    BY Zenon, <2>2 DEF Counts
  <2>4. Cardinality(Holders(i)) \in Nat
    BY Zenon, <2>2 DEF Counts
  <2> QED
    <3>1. ASSUME NEW j \in Objs, j # i
          PROVE  inode'[j] = inode[j] /\ Holders(j)' = Holders(j)
      BY Zenon, <1>4, <2>1, <3>1
    <3>2. inode'[i].count = inode[i].count + 1 /\ inode'[i].ino = inode[i].ino
      BY Zenon, <1>3 DEF InodeIs, InodeTyped
    <3>3. Cardinality(Holders(i))' = Cardinality(Holders(i)) + 1
      BY Zenon, <1>1, <2>1, <2>3
    <3>4. inode[i].count - Cardinality(Holders(i)) \in IF inode[i].ino = RootIno THEN {0, 1} ELSE {0}
      BY Zenon, <1>1 DEF CacheInv, CountInv
    <3>5. (inode[i].count - Cardinality(Holders(i)))' = inode[i].count - Cardinality(Holders(i))
      BY <1>3, <2>4, <3>2, <3>3
    <3>6. ~Freeing(i)'
      BY Zenon, <1>1, <1>4 DEF Freeing
    <3> QED
      BY Zenon, <3>1, <3>2, <3>4, <3>5, <3>6 DEF CacheInv, CountInv, InUse, Freeing
<1>9. WorkLinked(t, p, w[t].sb, w[t].ino, i)
  BY <1>1, <1>2, <1>4 DEF CacheInv, TasksLinked, WorkLinked, Numbered, Holding, Waiting, Removing
<1>10. HeadFits(p, w[t].sb, w[t].head) /\ DiskFits(p, w[t].sb, w[t].ino)
  BY Zenon, <1>2 DEF HeadFits, DiskFits, Searching, Waiting
<1>11. NumberFits(t, p, w[t].sb, w[t].ino)
  BY <1>1, <1>2 DEF CacheInv, NameInv, AloneInv, NumberFits, Concerns, Numbered
<1>12. DiskInv'
  BY Zenon, <1>2, <1>5, <1>10, DiskKept
<1> QED
  BY Zenon, <1>2, <1>5, <1>6, <1>7, <1>8, <1>9, <1>10, <1>11, <1>12, TaskStep

LEMMA GotStep ==
  ASSUME Counts, CacheInv, NEW t \in Tasks, NEW i \in Matching(w[t].head, w[t].sb, w[t].ino),
         w[t].pc \in {"find", "insert"}, Got(t, i), UNCHANGED <<sb, disk, bare>>
  PROVE  CacheInv'
BY GotFreeing, GotInUse

LEMMA FindStep ==
  ASSUME Counts, CacheInv, NEW t \in Tasks, find_inode_fast(t)
  PROVE  CacheInv'
<1>1. w[t].pc = "find" /\ UNCHANGED <<sb, disk, bare>>
  BY DEF find_inode_fast, At
<1>2. CASE Matching(w[t].head, w[t].sb, w[t].ino) = {}
  <2>1. UNCHANGED inode /\ w' = [w EXCEPT ![t].pc = "insert"]
    BY <1>2 DEF find_inode_fast
  <2>2. WorkIs(t, "insert", w[t].sb, w[t].ino, w[t].head, w[t].obj)
    BY Zenon, <2>1, PcStep DEF CacheInv, Labels
  <2> QED
    BY Zenon, <1>1, <2>1, <2>2, SearchedStep
<1>3. CASE Matching(w[t].head, w[t].sb, w[t].ino) # {}
  BY Zenon, <1>1, <1>3, GotStep DEF find_inode_fast
<1> QED
  BY <1>2, <1>3

LEMMA HashCase ==
  ASSUME Counts, CacheInv, NEW t \in Tasks, NEW i \in Objs, w[t].pc \in {"insert", "create"},
         \A j \in Matching(w[t].head, w[t].sb, w[t].ino) : Freeing(j),
         inode[i] = NoInode, Hash(t, i), UNCHANGED <<sb, disk, bare>>
  PROVE  CacheInv'
<1>1. inode[i].state = "free" /\ inode[i].sb = Off
  BY DEF NoInode
<1>2. \A j \in Objs : InUse(j) /\ Numbered(j, w[t].sb, w[t].ino) => inode[j].table # w[t].head
  BY DEF Matching, Numbered, Freeing, InUse
<1> QED
  BY Zenon, <1>1, <1>2, HashEffect, HashStep

LEMMA InsertStep ==
  ASSUME Counts, CacheInv, NEW t \in Tasks, Insert(t)
  PROVE  CacheInv'
<1>1. w[t].pc = "insert" /\ UNCHANGED <<sb, disk, bare>>
  BY Zenon DEF Insert, At
<1>2. CASE Matching(w[t].head, w[t].sb, w[t].ino) = {}
  <2>1. PICK i \in Objs : inode[i] = NoInode /\ Hash(t, i)
    BY <1>2 DEF Insert
  <2> QED
    BY Zenon, <1>1, <1>2, <2>1, HashCase
<1>3. CASE Matching(w[t].head, w[t].sb, w[t].ino) # {}
  BY Zenon, <1>1, <1>3, GotStep DEF Insert
<1> QED
  BY <1>2, <1>3

LEMMA UnlockNewStep ==
  ASSUME CacheInv, NEW t \in Tasks, unlock_new_inode(t)
  PROVE  CacheInv'
<1>1. WorkIs(t, "using", w[t].sb, w[t].ino, w[t].head, w[t].obj)
  BY Zenon, PcStep DEF CacheInv, unlock_new_inode, Labels
<1>2. /\ w[t].pc = "fill" /\ UNCHANGED <<sb, disk, bare>> /\ w[t].obj \in Objs /\ InUse(w[t].obj)
  BY Zenon DEF unlock_new_inode, At, CacheInv, TasksLinked, HoldInv, Holding
<1> DEFINE i == w[t].obj
<1>3. InodeIs(i, "live", inode[i].sb, inode[i].ino, inode[i].count, inode[i].nlink, inode[i].table)
  BY Zenon, <1>2, StateStep DEF CacheInv, unlock_new_inode
<1> HIDE DEF i
<1>4. i \in Objs /\ w[t].obj = i /\ InUse(i)
  BY Zenon, <1>2 DEF i
<1>5. /\ inode' \in [Objs -> Inode]
      /\ \A j \in Objs :
            /\ j # i => inode'[j] = inode[j]
            /\ inode'[j].state = IF j = i THEN "live" ELSE inode[j].state
            /\ inode'[j].sb = inode[j].sb /\ inode'[j].ino = inode[j].ino
            /\ inode'[j].nlink = inode[j].nlink /\ inode'[j].table = inode[j].table
            /\ inode'[j].count = inode[j].count
  BY Zenon, <1>3 DEF InodeIs, InodeTyped
<1>6. InodesAlike
  BY <1>4, <1>5, InodeAsBefore DEF InodesAlike, InUse
<1>7. TypeOK'
  BY Zenon, <1>1, <1>2, <1>5 DEF CacheInv, WorkIs, WorkTyped, TypeOK
<1>8. InodesLinked'
  BY <1>2, <1>4, <1>5 DEF CacheInv, InodesLinked, InUse
<1>9. CountInv'
  <2>1. \A j \in Objs : Holders(j)' = Holders(j)
    BY <1>1, <1>2 DEF WorkIs, Holders, Holding
  <2> QED
    BY <1>4, <1>5, <2>1 DEF CacheInv, CountInv, InUse, Freeing
<1>10. WorkLinked(t, "using", w[t].sb, w[t].ino, w[t].obj)
  BY <1>2, <1>4, <1>5 DEF CacheInv, TasksLinked, WorkLinked, Holding, Waiting, Removing
<1>11. HeadFits("using", w[t].sb, w[t].head) /\ DiskFits("using", w[t].sb, w[t].ino)
  BY Zenon DEF HeadFits, DiskFits, Searching, Waiting
<1>12. NumberFits(t, "using", w[t].sb, w[t].ino)
  BY <1>2 DEF CacheInv, AloneInv, NumberFits, Concerns
<1>13. DiskInv'
  BY Zenon, <1>1, <1>2, <1>6, <1>11, DiskKept
<1> QED
  BY Zenon, <1>1, <1>2, <1>6, <1>7, <1>8, <1>9, <1>10, <1>11, <1>12, <1>13, TaskStep

LEMMA WaitOnStep ==
  ASSUME CacheInv, NEW t \in Tasks, wait_on_inode(t)
  PROVE  CacheInv'
<1>1. WorkIs(t, "using", w[t].sb, w[t].ino, w[t].head, w[t].obj)
  BY Zenon, PcStep DEF CacheInv, wait_on_inode, Labels
<1>2. /\ w[t].pc = "waitnew" /\ UNCHANGED <<sb, disk, inode, bare>>
      /\ inode[w[t].obj].state = "live"
  BY Zenon DEF wait_on_inode, At, CacheInv, HoldInv, Holding, InUse
<1>3. WorkLinked(t, "using", w[t].sb, w[t].ino, w[t].obj)
  BY <1>2 DEF CacheInv, TasksLinked, HoldInv, WorkLinked, Holding, Waiting, Removing
<1>4. HeadFits("using", w[t].sb, w[t].head) /\ DiskFits("using", w[t].sb, w[t].ino)
  BY DEF HeadFits, DiskFits, Searching, Waiting
<1>5. NumberFits(t, "using", w[t].sb, w[t].ino)
  BY <1>2 DEF CacheInv, AloneInv, NumberFits, Concerns
<1>6. "using" \in Holding /\ w[t].pc \in Holding
  BY <1>2 DEF Holding
<1> QED
  BY Zenon, <1>1, <1>2, <1>3, <1>4, <1>5, <1>6, WorkOnly

-----------------------------------------------------------------------------
(* Creating.                                                                *)

LEMMA NewInodeStep ==
  ASSUME CacheInv, NEW t \in Tasks, NEW s \in Sbs, NEW ino \in Inos, new_inode(t, s, ino)
  PROVE  CacheInv'
<1>1. WorkIs(t, "create", s, ino, groupfs_get_ihtable(s), NoObj)
  BY StartStep DEF CacheInv, new_inode, Labels
<1>2. /\ UNCHANGED <<sb, inode, bare>> /\ w[t].pc = "idle" /\ Mounted(s) /\ ino \notin disk[s]
      /\ disk' \in [Sbs -> SUBSET Inos]
      /\ \A x \in Sbs : disk'[x] = IF x = s THEN disk[x] \cup {ino} ELSE disk[x]
  BY Zenon DEF new_inode, At, CacheInv, TypeOK
<1>3. ino # RootIno
  BY Zenon, <1>2 DEF CacheInv, DiskInv
<1>4. WorkLinked(t, "create", s, ino, NoObj)
  BY <1>2 DEF WorkLinked, Holding, Waiting, Removing
<1>5. HeadFits("create", s, groupfs_get_ihtable(s))
  BY <1>2 DEF HeadFits, groupfs_get_ihtable
<1>6. InodesAlike
  BY <1>2, InodeKept DEF InodesAlike
<1>7. NumberFits(t, "create", s, ino)
  <2>1. ~Replaced(s) => \A i \in Objs : InUse(i) => ~Numbered(i, s, ino)
    BY Zenon, <1>2 DEF CacheInv, DiskInv, Numbered
  <2>2. ASSUME ~Replaced(s), NEW u \in Tasks, Concerns(u, s, ino)
        PROVE  w[u].pc = "unhash"
    <3>1. w[u].pc \in Labels
      BY Zenon, Fields DEF CacheInv, TypeOK
    <3>2. w[u].pc # "idle"
      BY <2>2, CacheAssumption DEF CacheInv, TasksLinked, Idle, Concerns
    <3>3. w[u].pc \notin Holding
      BY Zenon, <2>1, <2>2 DEF CacheInv, TasksLinked, HoldInv, Concerns
    <3>4. w[u].pc \notin Searching \cup {"create", "evict", "ebusy"}
      BY Zenon, <1>2, <2>2 DEF CacheInv, DiskInv, Concerns
    <3> QED
      BY Zenon, <3>1, <3>2, <3>3, <3>4 DEF Labels, Holding, Searching, Waiting
  <2>3. ASSUME ~Replaced(s), NEW u \in Tasks \ {t}, w[u].pc \in {"create", "evict"}
        PROVE  ~Concerns(u, s, ino)
    BY Zenon, <1>2, <2>3 DEF CacheInv, DiskInv, Concerns
  <2> QED
    BY <2>1, <2>2, <2>3 DEF NumberFits
<1>8. TypeOK'
  BY Zenon, <1>1, <1>2 DEF CacheInv, WorkIs, WorkTyped, TypeOK
<1>9. InodesLinked'
  BY Zenon, <1>2 DEF CacheInv, InodesLinked
<1>10. CountInv'
  <2>1. \A j \in Objs : Holders(j)' = Holders(j)
    BY <1>1, <1>2 DEF WorkIs, Holders, Holding
  <2> QED
    BY Zenon, <1>2, <2>1 DEF CacheInv, CountInv, InUse, Freeing
<1>11. DiskInv'
  <2>1. SbSame
    BY <1>2, SbKept
  <2>2. \A x \in Sbs : disk[x] \subseteq disk'[x]
    BY <1>2
  <2>3. ino \in disk'[s]
    BY Zenon, <1>2
  <2>4. \A u \in Tasks : w[u].pc # "idle" => w[u].sb \in Sbs
    BY Zenon DEF CacheInv, TasksLinked
  <2>5. \A i \in Objs : InUse(i) => inode[i].sb \in Sbs
    BY Zenon DEF CacheInv, InodesLinked, InUse
  <2> QED
    BY <1>1, <1>3, <1>6, <2>1, <2>2, <2>3, <2>4, <2>5 DEF CacheInv, WorkIs, DiskInv,
        InodesAlike, InodeSame, SbSame, Searching, Waiting
<1> QED
  BY Zenon, <1>1, <1>2, <1>4, <1>5, <1>6, <1>7, <1>8, <1>9, <1>10, <1>11, TaskStep

LEMMA BusyStep ==
  ASSUME CacheInv, NEW t \in Tasks, NEW i \in Matching(w[t].head, w[t].sb, w[t].ino),
         ~Freeing(i), w[t].pc = "create",
         WorkIs(t, "ebusy", w[t].sb, w[t].ino, w[t].head, w[t].obj),
         UNCHANGED <<sb, disk, inode, bare>>
  PROVE  CacheInv'
<1>2. Replaced(w[t].sb)
  <2>1. /\ i \in Objs /\ Numbered(i, w[t].sb, w[t].ino) /\ w[t].sb \in Sbs /\ inode[i] \in Inode
    BY Zenon DEF Matching, Numbered, CacheInv, TasksLinked, TypeOK
  <2>2. inode[i].state # "free"
    BY <2>1, CacheAssumption DEF CacheInv, InodesLinked, NoInode, Numbered
  <2>3. InUse(i)
    BY Zenon, <2>1, <2>2, Fields DEF InUse, Freeing
  <2> QED
    BY Zenon, <2>1, <2>3 DEF CacheInv, AloneInv
<1>3. WorkLinked(t, "ebusy", w[t].sb, w[t].ino, w[t].obj)
  BY DEF CacheInv, TasksLinked, WorkLinked, Holding, Waiting, Removing
<1>4. HeadFits("ebusy", w[t].sb, w[t].head) /\ DiskFits("ebusy", w[t].sb, w[t].ino)
  BY <1>2 DEF CacheInv, DiskInv, HeadFits, DiskFits, Searching, Waiting
<1>5. NumberFits(t, "ebusy", w[t].sb, w[t].ino)
  BY <1>2 DEF NumberFits
<1>6. "ebusy" \notin Holding /\ w[t].pc \notin Holding
  BY DEF Holding
<1> QED
  BY Zenon, <1>3, <1>4, <1>5, <1>6, WorkOnly

LEMMA InsertLockedStep ==
  ASSUME Counts, CacheInv, NEW t \in Tasks, insert_inode_locked(t)
  PROVE  CacheInv'
<1>1. w[t].pc = "create" /\ UNCHANGED <<sb, bare>>
  BY Zenon DEF insert_inode_locked, At
<1>2. CASE \A i \in Matching(w[t].head, w[t].sb, w[t].ino) : Freeing(i)
  <2>1. UNCHANGED disk /\ \E i \in Objs : inode[i] = NoInode /\ Hash(t, i)
    BY <1>2 DEF insert_inode_locked
  <2> QED
    BY Zenon, <1>1, <1>2, <2>1, HashCase
<1>3. ASSUME NEW i \in Matching(w[t].head, w[t].sb, w[t].ino), ~Freeing(i) PROVE CacheInv'
  <2>1. UNCHANGED <<disk, inode>> /\ w' = [w EXCEPT ![t].pc = "ebusy"]
    BY <1>3 DEF insert_inode_locked
  <2>2. WorkIs(t, "ebusy", w[t].sb, w[t].ino, w[t].head, w[t].obj)
    BY Zenon, <2>1, PcStep DEF CacheInv, Labels
  <2> QED
    BY Zenon, <1>1, <1>3, <2>1, <2>2, BusyStep
<1> QED
  BY <1>2, <1>3

LEMMA CreateFailsStep ==
  ASSUME CacheInv, NEW t \in Tasks, CreateFails(t)
  PROVE  CacheInv'
<1>1. WorkIs(t, "idle", Off, Off, Off, NoObj) /\ w'[t] = Idle
  BY Zenon, IdleStep DEF CacheInv, CreateFails
<1>2. /\ UNCHANGED <<sb, inode, bare>> /\ w[t].pc \in {"create", "ebusy"}
      /\ w[t].sb \in Sbs /\ w[t].ino # RootIno /\ Off \notin Sbs
      /\ disk' \in [Sbs -> SUBSET Inos]
      /\ \A x \in Sbs : disk'[x] = IF x = w[t].sb THEN disk[x] \ {w[t].ino} ELSE disk[x]
  BY Zenon, CacheAssumption DEF CreateFails, At, CacheInv, TypeOK, TasksLinked, DiskInv
<1>3. InodesAlike
  BY <1>2, InodeKept DEF InodesAlike
<1>4. WorkLinked(t, "idle", Off, Off, NoObj)
  BY <1>1, <1>2 DEF WorkLinked, Holding, Waiting, Removing
<1>5. HeadFits("idle", Off, Off) /\ NumberFits(t, "idle", Off, Off)
  BY Zenon, OffFits
<1>6. TypeOK'
  BY Zenon, <1>1, <1>2 DEF CacheInv, WorkIs, WorkTyped, TypeOK
<1>7. InodesLinked'
  BY Zenon, <1>2 DEF CacheInv, InodesLinked
<1>8. CountInv'
  <2>1. \A j \in Objs : Holders(j)' = Holders(j)
    BY <1>1, <1>2 DEF WorkIs, Holders, Holding
  <2> QED
    BY Zenon, <1>2, <2>1 DEF CacheInv, CountInv, InUse, Freeing
<1>9. DiskInv'
  <2>1. w[t].pc = "create" \/ Replaced(w[t].sb)
    BY Zenon, <1>2 DEF CacheInv, DiskInv
  <2>2. DiskFits("idle", Off, Off)
    BY Zenon, OffFits
  <2> QED
    BY Zenon, <1>1, <1>2, <1>3, <2>1, <2>2, DiskFreed
<1> QED
  BY Zenon, <1>1, <1>2, <1>3, <1>4, <1>5, <1>6, <1>7, <1>8, <1>9, TaskStep
=============================================================================
