-------------------------- MODULE LoopDeviceProofs --------------------------
(***************************************************************************)
(* Proofs about the life of a loop device, for any number of tasks,        *)
(* flushers and backing files.                                             *)
(***************************************************************************)
EXTENDS LoopDevice, TLAPS, FiniteSetTheorems, SequenceTheorems

-----------------------------------------------------------------------------
(* The inductive invariant.                                                 *)

Locked  == {"binding", "clearing", "closing"}
Openers == {u \in Tasks : pc[u] \in HasOpen}

\* lo_ctl_mutex is held by the one task between two steps of an ioctl or of
\* the last close, and a flusher is never one.
LockInv ==
    /\ \A u \in Tasks : pc[u] \in Locked <=> mutex = u
    /\ \A u \in Tasks : pc[u] = "binding" => lo_state = "unbound"
    /\ \A u \in Tasks : pc[u] \in {"clearing", "closing"} => lo_state = "rundown"
    /\ \A u \in Flushers : pc[u] \notin Locked \cup {"open"}

\* What belongs to a binding is there exactly while the device is bound.
StateInv ==
    /\ lo_state = "unbound" =>
          /\ thread = NoThread /\ filp = None /\ ~stop /\ ~autoclear
          /\ mutex = None => backing = None /\ ~capacity /\ held = {}
          /\ mutex # None => backing # None /\ held = {backing} /\ ~switched
    /\ lo_state = "bound" =>
          /\ mutex = None /\ backing # None /\ held = {backing}
          /\ thread.st = "run" /\ ~stop
          /\ autoclear => refcnt > 0
          /\ ~switched => thread.file = backing /\ cache \in {None, backing}
    /\ lo_state = "rundown" =>
          /\ mutex # None /\ filp # None /\ held = {filp}
          /\ thread.st = "none" => thread = NoThread /\ backing = None
          /\ thread.st # "none" /\ ~switched => thread.file = filp
          /\ Openers \subseteq {mutex}
    /\ ~present => lo_state = "unbound" /\ mutex = None /\ refcnt = 0

RefInv == refcnt = Cardinality(Openers)

\* A task that is neither early nor switched works on the bound file.
IOFine(u) ==
    ~early[u] =>
       /\ pc[u] \in InRedirect \cup {"submit"} => lo_state = "bound"
       /\ pc[u] \in InRedirect /\ ~switched => file[u] = backing
       /\ pc[u] = "send" /\ ~switched => src[u] = backing

IOInv == \A u \in Tasks : IOFine(u)

\* The users on lo_cio_list sleep, and each is there once.
QueueInv ==
    /\ \A i \in DOMAIN queue : pc[queue[i]] = "wait"
    /\ \A i, j \in DOMAIN queue : queue[i] = queue[j] => i = j

DevInv == TypeOK /\ LockInv /\ StateInv /\ RefInv /\ IOInv /\ QueueInv

-----------------------------------------------------------------------------
(* Types.                                                                   *)

LEMMA InitDev == Init => DevInv
<1> SUFFICES ASSUME Init PROVE DevInv
  OBVIOUS
<1>1. TypeOK
  <2>1. <<>> \in Seq(Users)
    BY EmptySeq
  <2> QED
    BY Zenon, <2>1 DEF Init, TypeOK, NoThread, HasOpen, InRedirect, Users
<1>2. LockInv /\ IOInv
  BY Zenon, DeviceAssumption DEF Init, LockInv, Locked, IOInv, IOFine, InRedirect, Users
<1>3. Openers = {}
  BY DEF Init, Openers, HasOpen, InRedirect, Users
<1>4. RefInv
  BY <1>3, FS_EmptySet DEF Init, RefInv
<1>5. StateInv /\ QueueInv
  BY <1>3 DEF Init, StateInv, QueueInv, NoThread
<1> QED
  BY <1>1, <1>2, <1>4, <1>5 DEF DevInv

LEMMA TypeStep ==
    ASSUME TypeOK, [Next]_vars
    PROVE  TypeOK'
<1>0. <<>> \in Seq(Users)
  BY EmptySeq
<1> USE DEF TypeOK, Goto, Users, HasOpen, InRedirect, ioVars, devVars
<1>1. ASSUME NEW u \in Tasks, NEW f \in Files, NEW ro \in BOOLEAN, SetFd(u, f, ro)
      PROVE  TypeOK'
  BY Zenon, <1>1 DEF SetFd
<1>2. ASSUME NEW u \in Tasks, NEW f \in Files, ChangeFd(u, f) PROVE TypeOK'
  BY <1>2 DEF ChangeFd
<1>3. ASSUME NEW u \in Tasks, Open(u) PROVE TypeOK'
  BY <1>3 DEF Open
<1>4. ASSUME NEW u \in Tasks, Release(u) PROVE TypeOK'
  <2>1. dirty' \in BOOLEAN /\ refcnt' \in Nat
    <3>1. dirty' \in BOOLEAN
      BY Zenon, <1>4 DEF Release, WrittenBack
    <3>2. refcnt' = refcnt - 1 /\ (refcnt > 1 \/ refcnt = 1) /\ refcnt \in Nat
      BY Zenon, <1>4 DEF Release, WrittenBack
    <3> QED
      BY <3>1, <3>2
  <2>2. CASE StopThread(u, "closing")
    BY <1>4, <2>1, <2>2 DEF Release, StopThread
  <2>3. CASE Goto(u, "closed") /\ UNCHANGED <<lo_state, filp, stop, mutex>>
    BY <1>4, <2>1, <2>3 DEF Release
  <2> QED
    BY Zenon, <1>4, <2>2, <2>3 DEF Release
<1>5. ASSUME NEW u \in Tasks, ClrFd(u) PROVE TypeOK'
  <2>1. CASE autoclear' = TRUE /\ UNCHANGED <<lo_state, filp, stop, mutex, pc>>
    BY <1>5, <2>1 DEF ClrFd
  <2>2. CASE StopThread(u, "clearing") /\ UNCHANGED autoclear
    BY <1>5, <2>2 DEF ClrFd, StopThread
  <2> QED
    BY Zenon, <1>5, <2>1, <2>2 DEF ClrFd
<1>6. ASSUME NEW u \in Tasks, Write(u) PROVE TypeOK'
  BY <1>6 DEF Write
<1>7. ASSUME NEW u \in Users, SetFdInit(u) PROVE TypeOK'
  BY Zenon, <1>0, <1>7 DEF SetFdInit
<1>8. ASSUME NEW u \in Users, SetFdFails(u) PROVE TypeOK'
  BY Zenon, <1>0, <1>8 DEF SetFdFails
<1>9. ASSUME NEW u \in Users, ClrStopped(u) PROVE TypeOK'
  BY <1>9 DEF ClrStopped, NoThread
<1>10. ASSUME NEW u \in Users, ClrDone(u) PROVE TypeOK'
  BY Zenon, <1>10 DEF ClrDone
<1>11. ASSUME NEW u \in Users, StartIO(u) PROVE TypeOK'
  <2>1. early' \in [Users -> BOOLEAN] /\ dirty' \in BOOLEAN
    BY Zenon, <1>11 DEF StartIO
  <2> QED
    BY <1>11, <2>1 DEF StartIO, Rest
<1>12. ASSUME NEW u \in Users, EnterRedirect(u) PROVE TypeOK'
  BY <1>12 DEF EnterRedirect
<1>13. ASSUME NEW u \in Users, LookupHit(u) PROVE TypeOK'
  BY <1>13 DEF LookupHit
<1>14. ASSUME NEW u \in Users, LookupMiss(u) PROVE TypeOK'
  BY <1>14 DEF LookupMiss
<1>15. ASSUME NEW u \in Users, Send(u) PROVE TypeOK'
  BY <1>15 DEF Send, Rest
<1>16. CASE Serve
  <2>1. Head(queue) \in Users /\ Tail(queue) \in Seq(Users)
    BY <1>16, HeadTailProperties DEF Serve
  <2> QED
    BY <1>16, <2>1 DEF Serve
<1>17. CASE ThreadExit
  BY <1>17 DEF ThreadExit
<1>18. CASE Remove \/ Add
  BY Zenon, <1>0, <1>18 DEF Remove, Add
<1>19. CASE UNCHANGED vars
  BY <1>19 DEF vars
<1> HIDE DEF TypeOK, Users
<1> QED
  BY Zenon, <1>1, <1>2, <1>3, <1>4, <1>5, <1>6, <1>7, <1>8, <1>9, <1>10, <1>11, <1>12, <1>13, <1>14, <1>15, <1>16, <1>17, <1>18, <1>19
  DEF Next, Ioctl, Continue

-----------------------------------------------------------------------------
(* The lock.                                                                *)

LEMMA GotoMoves ==
    ASSUME TypeOK, NEW u \in Users, NEW l, Goto(u, l)
    PROVE  pc'[u] = l /\ \A v \in Users \ {u} : pc'[v] = pc[v]
BY Zenon DEF TypeOK, Goto

\* Only the holder of lo_ctl_mutex is in one of these places.
LEMMA Holder ==
    ASSUME LockInv, NEW u \in Users, pc[u] \in Locked
    PROVE  /\ u \in Tasks /\ mutex = u
           /\ pc[u] = "binding" => lo_state = "unbound"
           /\ pc[u] \in {"clearing", "closing"} => lo_state = "rundown"
           /\ \A v \in Users \ {u} : pc[v] \notin Locked
BY Zenon DEF LockInv, Users

LEMMA LockStays ==
    ASSUME LockInv, UNCHANGED <<mutex, lo_state>>,
           \A v \in Users : \/ pc'[v] = pc[v]
                            \/ /\ pc[v] \notin Locked /\ pc'[v] \notin Locked
                               /\ v \in Flushers => pc'[v] # "open"
    PROVE  LockInv'
BY Zenon DEF LockInv, Locked, Users

LEMMA LockTaken ==
    ASSUME TypeOK, LockInv, NEW u \in Tasks, mutex = None, mutex' = u,
           NEW l \in Locked, Goto(u, l),
           l = "binding" => lo_state' = "unbound",
           l \in {"clearing", "closing"} => lo_state' = "rundown"
    PROVE  LockInv'
<1>1. pc'[u] = l /\ \A v \in Users \ {u} : pc'[v] = pc[v]
  BY Zenon, GotoMoves DEF Users
<1>2. u # None /\ u \notin Flushers /\ \A v \in Tasks : v # None
  BY Zenon, DeviceAssumption
<1>3. \A v \in Users \ {u} : pc'[v] \notin Locked
  BY Zenon, <1>1, <1>2 DEF LockInv, Users
<1>4. \A v \in Users \ {u} :
         pc'[v] # "binding" /\ pc'[v] # "clearing" /\ pc'[v] # "closing"
  BY Zenon, <1>3 DEF Locked
<1> QED
  BY Zenon, <1>1, <1>2, <1>3, <1>4 DEF LockInv, Users

LEMMA LockDropped ==
    ASSUME TypeOK, LockInv, NEW u \in Users, pc[u] \in Locked, mutex' = None,
           NEW l, l \notin Locked, Goto(u, l)
    PROVE  LockInv'
<1>1. pc'[u] = l /\ \A v \in Users \ {u} : pc'[v] = pc[v]
  BY Zenon, GotoMoves
<1>2. u \in Tasks /\ u \notin Flushers /\ \A v \in Tasks : v # None
  BY Zenon, DeviceAssumption, Holder
<1>3. \A v \in Users : pc'[v] \notin Locked
  BY Zenon, <1>1, Holder
<1>4. \A v \in Users : pc'[v] # "binding" /\ pc'[v] # "clearing" /\ pc'[v] # "closing"
  BY Zenon, <1>3 DEF Locked
<1> QED
  BY Zenon, <1>1, <1>2, <1>3, <1>4 DEF LockInv, Users

\* The thread serves a user that sleeps.
LEMMA HeadWaits ==
    ASSUME TypeOK, QueueInv, queue # <<>>
    PROVE  Head(queue) \in Users /\ pc[Head(queue)] = "wait"
<1>1. queue \in Seq(Users)
  BY DEF TypeOK
<1>2. 1 \in DOMAIN queue /\ Head(queue) = queue[1] /\ Head(queue) \in Users
  BY <1>1, HeadTailProperties, EmptySeq
<1> QED
  BY <1>2 DEF QueueInv

LEMMA LockStep ==
    ASSUME TypeOK, LockInv, QueueInv, [Next]_vars
    PROVE  LockInv'
<1>1. ASSUME UNCHANGED <<mutex, lo_state, pc>> PROVE LockInv'
  BY Zenon, <1>1, LockStays
<1>2. ASSUME NEW u \in Users, NEW l, Goto(u, l), UNCHANGED <<mutex, lo_state>>,
             pc[u] \notin Locked, l \notin Locked, u \in Flushers => l # "open"
      PROVE  LockInv'
  BY Zenon, <1>2, GotoMoves, LockStays
<1>3. ASSUME NEW u \in Tasks, Open(u) PROVE LockInv'
  <2>1. Goto(u, "open") /\ pc[u] = "closed" /\ u \in Users /\ u \notin Flushers
        /\ UNCHANGED <<mutex, lo_state>>
    BY Zenon, <1>3, DeviceAssumption DEF Open, Users
  <2> QED
    BY Zenon, <1>2, <2>1 DEF Locked
<1>4. ASSUME NEW u \in Tasks, Release(u) PROVE LockInv'
  <2>1. CASE StopThread(u, "closing")
    BY Zenon, <1>4, <2>1, LockTaken DEF Release, StopThread, Locked
  <2>2. CASE Goto(u, "closed") /\ UNCHANGED <<lo_state, mutex>>
    <3>1. pc[u] = "open" /\ u \in Users
      BY Zenon, <1>4 DEF Release, Users
    <3> QED
      BY Zenon, <1>2, <2>2, <3>1 DEF Locked
  <2> QED
    BY Zenon, <1>4, <2>1, <2>2 DEF Release
<1>5. ASSUME NEW u \in Tasks, NEW f \in Files, NEW ro \in BOOLEAN, SetFd(u, f, ro)
      PROVE  LockInv'
  BY Zenon, <1>5, LockTaken DEF SetFd, Locked
<1>6. ASSUME NEW u \in Tasks, NEW f \in Files, ChangeFd(u, f) PROVE LockInv'
  BY Zenon, <1>1, <1>6 DEF ChangeFd
<1>7. ASSUME NEW u \in Tasks, ClrFd(u) PROVE LockInv'
  <2>1. CASE UNCHANGED <<lo_state, mutex, pc>>
    BY Zenon, <1>1, <2>1
  <2>2. CASE StopThread(u, "clearing")
    BY Zenon, <1>7, <2>2, LockTaken DEF ClrFd, StopThread, Locked
  <2> QED
    BY Zenon, <1>7, <2>1, <2>2 DEF ClrFd
<1>8. ASSUME NEW u \in Tasks, Write(u) PROVE LockInv'
  BY Zenon, <1>1, <1>8 DEF Write, devVars
<1>9. ASSUME NEW u \in Users, SetFdInit(u) \/ SetFdFails(u) PROVE LockInv'
  <2>1. Goto(u, "open") /\ pc[u] = "binding" /\ mutex' = None
    BY Zenon, <1>9 DEF SetFdInit, SetFdFails
  <2> QED
    BY Zenon, <2>1, LockDropped DEF Locked
<1>10. ASSUME NEW u \in Users, ClrStopped(u) PROVE LockInv'
  BY Zenon, <1>1, <1>10 DEF ClrStopped
<1>11. ASSUME NEW u \in Users, ClrDone(u) PROVE LockInv'
  <2>1. /\ pc[u] \in Locked /\ mutex' = None
        /\ \E l \in {"open", "closed"} : Goto(u, l)
    BY Zenon, <1>11 DEF ClrDone, Locked
  <2> QED
    BY Zenon, <2>1, LockDropped DEF Locked
<1>12. ASSUME NEW u \in Users, StartIO(u) \/ EnterRedirect(u) \/ LookupHit(u)
                               \/ LookupMiss(u)
       PROVE  LockInv'
  <2>1. /\ pc[u] \notin Locked /\ UNCHANGED <<mutex, lo_state>>
        /\ \E l \in {"submit", "oops", "lookup", "wait", "send"} : Goto(u, l)
    BY Zenon, <1>12 DEF StartIO, EnterRedirect, LookupHit, LookupMiss, Rest, Locked, devVars
  <2> QED
    BY Zenon, <1>2, <2>1 DEF Locked
<1>13. ASSUME NEW u \in Users, Send(u) PROVE LockInv'
  <2>1. /\ pc[u] \notin Locked /\ UNCHANGED <<mutex, lo_state>>
        /\ Goto(u, Rest(u))
    BY Zenon, <1>13 DEF Send, Locked, devVars
  <2> QED
    BY Zenon, <1>2, <2>1 DEF Locked, Rest
<1>14. CASE Serve
  <2>1. Head(queue) \in Users /\ pc[Head(queue)] = "wait"
    BY <1>14, HeadWaits DEF Serve
  <2>2. Goto(Head(queue), "send") /\ UNCHANGED <<mutex, lo_state>>
    BY Zenon, <1>14 DEF Serve, devVars
  <2> QED
    BY Zenon, <1>2, <2>1, <2>2 DEF Locked
<1>15. CASE ThreadExit \/ Remove \/ Add \/ UNCHANGED vars
  BY Zenon, <1>1, <1>15 DEF ThreadExit, Remove, Add, vars, devVars
<1> QED
  BY Zenon, <1>3, <1>4, <1>5, <1>6, <1>7, <1>8, <1>9, <1>10, <1>11, <1>12, <1>13, <1>14,
     <1>15
  DEF Next, Ioctl, Continue


-----------------------------------------------------------------------------
(* The reference count.                                                     *)

LEMMA OpenersFinite ==
    /\ IsFiniteSet(Openers) /\ Cardinality(Openers) \in Nat
    /\ Cardinality(Openers) = 0 => Openers = {}
BY DeviceAssumption, FS_Subset, FS_CardinalityType, FS_EmptySet DEF Openers

\* Who has the device open alone.
LEMMA OnlyOpener ==
    ASSUME RefInv, NEW u \in Openers, refcnt <= 1
    PROVE  Openers = {u} /\ refcnt = 1
<1>1. /\ IsFiniteSet(Openers \ {u})
      /\ Cardinality(Openers \ {u}) = Cardinality(Openers) - 1
  BY OpenersFinite, FS_RemoveElement
<1>2. Cardinality(Openers \ {u}) \in Nat
  BY <1>1, FS_CardinalityType
<1>3. Cardinality(Openers \ {u}) = 0 /\ refcnt = 1
  BY <1>1, <1>2, OpenersFinite DEF RefInv
<1>4. Openers \ {u} = {}
  BY <1>1, <1>3, FS_EmptySet
<1> QED
  BY <1>3, <1>4

LEMMA OpenersStay ==
    ASSUME \A v \in Tasks : pc'[v] \in HasOpen <=> pc[v] \in HasOpen
    PROVE  Openers' = Openers
BY Zenon DEF Openers

\* Between opening and closing a task stays among those that have it open.
LEMMA OpenersMove ==
    ASSUME TypeOK, QueueInv, LockInv, [Next]_vars
    PROVE  \/ \E u \in Tasks : /\ Open(u) /\ u \notin Openers
                               /\ Openers' = Openers \cup {u}
           \/ \E u \in Tasks : /\ Release(u) /\ u \in Openers
                               /\ Openers' = Openers \ {u}
           \/ Openers' = Openers /\ refcnt' = refcnt
<1>1. ASSUME UNCHANGED <<pc, refcnt>>
      PROVE  Openers' = Openers /\ refcnt' = refcnt
  BY <1>1 DEF Openers
<1>2. ASSUME NEW u \in Users, NEW l, Goto(u, l), refcnt' = refcnt,
             u \in Tasks => (pc[u] \in HasOpen <=> l \in HasOpen)
      PROVE  Openers' = Openers /\ refcnt' = refcnt
  <2>1. \A v \in Tasks : pc'[v] \in HasOpen <=> pc[v] \in HasOpen
    BY Zenon, <1>2, GotoMoves DEF Users
  <2> QED
    BY <1>2, <2>1, OpenersStay
<1>3. ASSUME NEW u \in Tasks, Open(u)
      PROVE  u \notin Openers /\ Openers' = Openers \cup {u}
  <2>1. /\ pc[u] = "closed" /\ pc'[u] = "open"
        /\ \A v \in Tasks \ {u} : pc'[v] = pc[v]
    BY Zenon, <1>3, GotoMoves DEF Open, Users
  <2>2. "open" \in HasOpen /\ "closed" \notin HasOpen
    BY DEF HasOpen, InRedirect
  <2> QED
    BY <2>1, <2>2 DEF Openers
<1>4. ASSUME NEW u \in Tasks, Release(u)
      PROVE  u \in Openers /\ Openers' = Openers \ {u}
  <2>1. /\ pc[u] = "open" /\ pc'[u] \in {"closed", "closing"}
        /\ \A v \in Tasks \ {u} : pc'[v] = pc[v]
    BY Zenon, <1>4, GotoMoves DEF Release, StopThread, Users
  <2>2. "open" \in HasOpen /\ "closed" \notin HasOpen /\ "closing" \notin HasOpen
    BY DEF HasOpen, InRedirect
  <2> QED
    BY <2>1, <2>2 DEF Openers
<1>5. ASSUME NEW u \in Tasks, NEW f \in Files, NEW ro \in BOOLEAN, SetFd(u, f, ro)
      PROVE  Openers' = Openers /\ refcnt' = refcnt
  BY Zenon, <1>2, <1>5 DEF SetFd, HasOpen, Users
<1>6. ASSUME NEW u \in Tasks, NEW f \in Files, ChangeFd(u, f)
      PROVE  Openers' = Openers /\ refcnt' = refcnt
  BY Zenon, <1>1, <1>6 DEF ChangeFd
<1>7. ASSUME NEW u \in Tasks, ClrFd(u)
      PROVE  Openers' = Openers /\ refcnt' = refcnt
  BY Zenon, <1>1, <1>2, <1>7 DEF ClrFd, StopThread, HasOpen, Users
<1>8. ASSUME NEW u \in Tasks, Write(u)
      PROVE  Openers' = Openers /\ refcnt' = refcnt
  BY Zenon, <1>1, <1>8 DEF Write, devVars
<1>9. ASSUME NEW u \in Users, SetFdInit(u) \/ SetFdFails(u)
      PROVE  Openers' = Openers /\ refcnt' = refcnt
  BY Zenon, <1>2, <1>9 DEF SetFdInit, SetFdFails, HasOpen
<1>10. ASSUME NEW u \in Users, ClrStopped(u)
       PROVE  Openers' = Openers /\ refcnt' = refcnt
  BY Zenon, <1>1, <1>10 DEF ClrStopped
<1>11. ASSUME NEW u \in Users, ClrDone(u)
       PROVE  Openers' = Openers /\ refcnt' = refcnt
  <2>1. CASE pc[u] = "closing"
    <3>1. "closed" \notin HasOpen /\ "closing" \notin HasOpen
      BY DEF HasOpen, InRedirect
    <3> QED
      BY Zenon, <1>2, <1>11, <2>1, <3>1 DEF ClrDone
  <2>2. CASE pc[u] # "closing"
    BY Zenon, <1>2, <1>11, <2>2 DEF ClrDone, HasOpen
  <2> QED
    BY <2>1, <2>2
<1>12. ASSUME NEW u \in Users, StartIO(u) \/ EnterRedirect(u) \/ LookupHit(u)
                               \/ LookupMiss(u) \/ Send(u)
       PROVE  Openers' = Openers /\ refcnt' = refcnt
  <2>1. u \in Tasks => pc[u] \in HasOpen
    BY Zenon, <1>12, DeviceAssumption
    DEF StartIO, EnterRedirect, LookupHit, LookupMiss, Send, Rest, HasOpen, InRedirect
  <2>2. /\ refcnt' = refcnt
        /\ \/ \E l \in {"submit", "oops", "lookup", "wait", "send"} : Goto(u, l)
           \/ Goto(u, Rest(u))
    BY Zenon, <1>12 DEF StartIO, EnterRedirect, LookupHit, LookupMiss, Send, devVars
  <2>3. /\ \A l \in {"submit", "oops", "lookup", "wait", "send"} : l \in HasOpen
        /\ u \in Tasks => Rest(u) \in HasOpen
    BY Zenon, DeviceAssumption DEF HasOpen, InRedirect, Rest
  <2> QED
    BY Zenon, <1>2, <2>1, <2>2, <2>3
<1>13. CASE Serve
  <2>1. Head(queue) \in Users /\ pc[Head(queue)] = "wait"
    BY <1>13, HeadWaits DEF Serve
  <2>2. Goto(Head(queue), "send") /\ refcnt' = refcnt
    BY Zenon, <1>13 DEF Serve, devVars
  <2> QED
    BY Zenon, <1>2, <2>1, <2>2 DEF HasOpen, InRedirect
<1>14. CASE ThreadExit \/ Remove \/ Add \/ UNCHANGED vars
  BY Zenon, <1>1, <1>14 DEF ThreadExit, Remove, Add, vars, devVars
<1>15. ASSUME NEW u \in Tasks, Ioctl(u)
       PROVE  Openers' = Openers /\ refcnt' = refcnt
  BY Zenon, <1>5, <1>6, <1>7, <1>15 DEF Ioctl
<1>16. ASSUME NEW u \in Users, Continue(u)
       PROVE  Openers' = Openers /\ refcnt' = refcnt
  BY Zenon, <1>9, <1>10, <1>11, <1>12, <1>16 DEF Continue
<1>17. CASE \E u \in Tasks : Open(u) \/ Release(u) \/ Ioctl(u) \/ Write(u)
  BY Zenon, <1>3, <1>4, <1>8, <1>15, <1>17
<1>18. CASE \E u \in Users : StartIO(u) \/ Continue(u)
  BY Zenon, <1>12, <1>16, <1>18
<1> QED
  BY Zenon, <1>13, <1>14, <1>17, <1>18 DEF Next

LEMMA RefStep ==
    ASSUME TypeOK, QueueInv, LockInv, RefInv, [Next]_vars
    PROVE  RefInv'
<1>1. ASSUME NEW u \in Tasks, Open(u), u \notin Openers, Openers' = Openers \cup {u}
      PROVE  RefInv'
  BY <1>1, OpenersFinite, FS_AddElement DEF RefInv, Open
<1>2. ASSUME NEW u \in Tasks, Release(u), u \in Openers, Openers' = Openers \ {u}
      PROVE  RefInv'
  BY <1>2, OpenersFinite, FS_RemoveElement DEF RefInv, Release
<1>3. CASE Openers' = Openers /\ refcnt' = refcnt
  BY <1>3 DEF RefInv
<1> QED
  BY Zenon, <1>1, <1>2, <1>3, OpenersMove

-----------------------------------------------------------------------------
(* What belongs to a binding.                                               *)

bindVars == <<present, lo_state, backing, capacity, autoclear, mutex, thread,
              stop, filp, held, switched>>

LEMMA OpenIsCounted ==
    ASSUME TypeOK, RefInv, NEW u \in Tasks, pc[u] \in HasOpen
    PROVE  u \in Openers /\ refcnt > 0
<1>1. u \in Openers
  BY DEF Openers
<1>2. Cardinality(Openers) # 0
  BY <1>1, OpenersFinite
<1> QED
  BY <1>1, <1>2 DEF RefInv, TypeOK

LEMMA StateStays ==
    ASSUME StateInv, UNCHANGED bindVars, refcnt' = refcnt, Openers' = Openers,
           lo_state = "bound" /\ ~switched => cache' \in {None, cache, backing}
    PROVE  StateInv'
BY Zenon DEF StateInv, bindVars

\* What a task finds under lo_ctl_mutex, when it comes from outside.
LEMMA Unlocked ==
    ASSUME TypeOK, StateInv, mutex = None
    PROVE  lo_state # "rundown"
BY Zenon DEF StateInv

LEMMA StateOpen ==
    ASSUME TypeOK, StateInv, NEW u \in Tasks, Open(u)
    PROVE  StateInv'
<1>1. /\ UNCHANGED <<bindVars, cache>> /\ mutex = None /\ present
  BY Zenon DEF Open, bindVars
<1>2. refcnt' > 0
  BY DEF Open, TypeOK
<1> QED
  BY Zenon, <1>1, <1>2, Unlocked DEF StateInv, bindVars

LEMMA StateStop ==
    ASSUME TypeOK, StateInv, NEW u \in Tasks, NEW l, lo_state = "bound",
           StopThread(u, l), Openers' \subseteq {u},
           UNCHANGED <<present, backing, thread, held, switched>>
    PROVE  StateInv'
BY DeviceAssumption DEF StateInv, StopThread, TypeOK

LEMMA StateRelease ==
    ASSUME TypeOK, StateInv, RefInv, NEW u \in Tasks, Release(u),
           Openers' = Openers \ {u}
    PROVE  StateInv'
<1>1. u \in Openers /\ refcnt > 0 /\ present
  <2>1. pc[u] \in HasOpen
    BY DEF Release, HasOpen
  <2>2. u \in Openers /\ refcnt > 0
    BY <2>1, OpenIsCounted
  <2> QED
    BY <2>2 DEF StateInv
<1>2. CASE refcnt = 1 /\ autoclear /\ lo_state = "bound" /\ StopThread(u, "closing")
  <2>1. Openers' \subseteq {u}
    BY <1>1, <1>2, OnlyOpener
  <2>2. UNCHANGED <<present, backing, thread, held, switched>>
    BY Zenon DEF Release
  <2> QED
    BY <1>2, <2>1, <2>2, StateStop
<1>3. CASE ~(refcnt = 1 /\ autoclear /\ lo_state = "bound")
           /\ UNCHANGED <<lo_state, filp, stop, mutex>>
  <2>1. UNCHANGED <<bindVars, cache>> /\ mutex = None
    BY Zenon, <1>3 DEF Release, bindVars
  <2>2. lo_state = "bound" /\ autoclear => refcnt' > 0
    BY <1>1, <1>3 DEF Release, TypeOK
  <2> QED
    BY Zenon, <1>1, <2>1, <2>2, Unlocked DEF StateInv, bindVars
<1> QED
  BY Zenon, <1>2, <1>3 DEF Release

LEMMA StateSetFd ==
    ASSUME TypeOK, StateInv, RefInv, NEW u \in Tasks, NEW f \in Files,
           NEW ro \in BOOLEAN, SetFd(u, f, ro)
    PROVE  StateInv'
<1>1. present
  BY OpenIsCounted DEF StateInv, SetFd, HasOpen
<1> QED
  BY <1>1, DeviceAssumption DEF StateInv, SetFd, TypeOK

LEMMA StateBinding ==
    ASSUME TypeOK, LockInv, StateInv, RefInv, NEW u \in Users,
           SetFdInit(u) \/ SetFdFails(u)
    PROVE  StateInv'
<1>1. pc[u] \in Locked /\ pc[u] = "binding"
  BY Zenon DEF SetFdInit, SetFdFails, Locked
<1>2. u \in Tasks /\ mutex = u /\ lo_state = "unbound"
  BY Zenon, <1>1, Holder
<1>3. mutex # None /\ present
  BY <1>1, <1>2, OpenIsCounted, DeviceAssumption DEF StateInv, HasOpen
<1>4. /\ thread = NoThread /\ filp = None /\ ~stop /\ ~autoclear
      /\ backing # None /\ held = {backing} /\ ~switched
  BY Zenon, <1>2, <1>3 DEF StateInv
<1>5. CASE SetFdInit(u)
  BY <1>3, <1>4, <1>5 DEF SetFdInit, StateInv
<1>6. CASE SetFdFails(u)
  BY <1>2, <1>3, <1>4, <1>6 DEF SetFdFails, StateInv
<1> QED
  BY <1>5, <1>6

LEMMA StateChangeFd ==
    ASSUME TypeOK, StateInv, NEW u \in Tasks, NEW f \in Files, ChangeFd(u, f),
           Openers' = Openers
    PROVE  StateInv'
<1>1. f # None
  BY DeviceAssumption
<1>2. held' = {f}
  BY DEF ChangeFd, StateInv
<1> QED
  BY Zenon, <1>1, <1>2 DEF ChangeFd, StateInv

LEMMA StateClrFd ==
    ASSUME TypeOK, StateInv, RefInv, NEW u \in Tasks, ClrFd(u), Openers' = Openers
    PROVE  StateInv'
<1>1. CASE refcnt > 1 /\ autoclear' = TRUE /\ UNCHANGED <<lo_state, filp, stop, mutex, pc>>
  <2>1. refcnt' > 0
    BY <1>1 DEF ClrFd, TypeOK
  <2> QED
    BY Zenon, <1>1, <2>1 DEF ClrFd, StateInv
<1>2. CASE refcnt <= 1 /\ StopThread(u, "clearing")
  <2>1. Openers' \subseteq {u}
    BY <1>2, OpenIsCounted, OnlyOpener DEF ClrFd, HasOpen
  <2>2. UNCHANGED <<present, backing, thread, held, switched>> /\ lo_state = "bound"
    BY Zenon DEF ClrFd
  <2> QED
    BY <1>2, <2>1, <2>2, StateStop
<1> QED
  BY Zenon, <1>1, <1>2 DEF ClrFd

LEMMA StateClear ==
    ASSUME TypeOK, LockInv, StateInv, NEW u \in Users, Openers' = Openers,
           ClrStopped(u) \/ ClrDone(u)
    PROVE  StateInv'
<1>1. pc[u] \in Locked /\ pc[u] \in {"clearing", "closing"}
  BY Zenon DEF ClrStopped, ClrDone, Locked
<1>2. u \in Tasks /\ mutex = u /\ lo_state = "rundown"
  BY Zenon, <1>1, Holder
<1>3. mutex # None /\ filp # None /\ held = {filp} /\ present /\ Openers \subseteq {mutex}
  BY Zenon, <1>2 DEF StateInv
<1>4. CASE ClrStopped(u)
  BY <1>2, <1>3, <1>4 DEF ClrStopped, StateInv, NoThread
<1>5. CASE ClrDone(u)
  <2>1. thread = NoThread /\ backing = None
    BY Zenon, <1>2, <1>5 DEF ClrDone, StateInv
  <2>2. held' = {}
    BY <1>3, <1>5 DEF ClrDone
  <2> QED
    BY Zenon, <1>3, <1>5, <2>1, <2>2 DEF ClrDone, StateInv
<1> QED
  BY <1>4, <1>5

LEMMA StateThread ==
    ASSUME TypeOK, StateInv, Openers' = Openers, Serve \/ ThreadExit
    PROVE  StateInv'
<1>1. CASE Serve
  <2>1. UNCHANGED bindVars /\ refcnt' = refcnt /\ cache' \in {thread.file, cache} \ {None}
    BY Zenon, <1>1 DEF Serve, bindVars, devVars
  <2> QED
    BY Zenon, <2>1, StateStays DEF StateInv
<1>2. CASE ThreadExit
  <2>1. lo_state = "rundown"
    BY <1>2 DEF ThreadExit, StateInv, TypeOK, NoThread
  <2>2. /\ thread'.st = "exited" /\ thread'.file = thread.file
        /\ thread.st = "run"
        /\ UNCHANGED <<devVars, mutex, filp, held, switched>>
    BY <1>2 DEF ThreadExit
  <2> QED
    BY Zenon, <2>1, <2>2 DEF StateInv, devVars
<1> QED
  BY <1>1, <1>2

LEMMA StateStep ==
    ASSUME TypeOK, LockInv, StateInv, RefInv, QueueInv, [Next]_vars
    PROVE  StateInv'
<1>1. ASSUME NEW u \in Tasks, Open(u) PROVE StateInv'
  BY <1>1, StateOpen
<1>2. ASSUME NEW u \in Tasks, Release(u), Openers' = Openers \ {u} PROVE StateInv'
  BY <1>2, StateRelease
<1>3. ASSUME Openers' = Openers, refcnt' = refcnt PROVE StateInv'
  <2>1. ASSUME NEW u \in Tasks, Ioctl(u) PROVE StateInv'
    BY Zenon, <1>3, <2>1, StateSetFd, StateChangeFd, StateClrFd DEF Ioctl
  <2>2. ASSUME UNCHANGED <<bindVars, cache>> PROVE StateInv'
    BY Zenon, <1>3, <2>2, StateStays
  <2>3. ASSUME NEW u \in Users, EnterRedirect(u) \/ LookupHit(u) \/ LookupMiss(u)
                                \/ Send(u) \/ StartIO(u)
        PROVE  UNCHANGED <<bindVars, cache>>
    BY Zenon, <2>3 DEF EnterRedirect, LookupHit, LookupMiss, Send, StartIO, bindVars, devVars
  <2>4. ASSUME NEW u \in Users, Continue(u) PROVE StateInv'
    BY Zenon, <1>3, <2>2, <2>3, <2>4, StateBinding, StateClear DEF Continue
  <2>5. ASSUME NEW u \in Tasks, Write(u) PROVE StateInv'
    BY Zenon, <2>2, <2>5 DEF Write, bindVars, devVars
  <2>6. CASE UNCHANGED vars
    BY Zenon, <2>2, <2>6 DEF vars, bindVars, devVars
  <2>7. CASE Remove
    BY Zenon, <1>3, <2>7 DEF Remove, StateInv
  <2>8. CASE Add
    BY Zenon, <1>3, <2>8 DEF Add, StateInv
  <2>9. CASE \E u \in Tasks : Release(u)
    <3>1. PICK u \in Tasks : Release(u)
      BY <2>9
    <3>2. refcnt' # refcnt
      BY <3>1 DEF Release, TypeOK
    <3> QED
      BY <1>3, <3>2
  <2>10. CASE \E u \in Tasks : Open(u) \/ Release(u) \/ Ioctl(u) \/ Write(u)
    BY Zenon, <1>1, <2>1, <2>5, <2>9, <2>10
  <2>11. CASE \E u \in Users : StartIO(u) \/ Continue(u)
    BY Zenon, <2>2, <2>3, <2>4, <2>11
  <2> QED
    BY Zenon, <1>3, <2>6, <2>7, <2>8, <2>10, <2>11, StateThread DEF Next
<1> QED
  BY Zenon, <1>1, <1>2, <1>3, OpenersMove

-----------------------------------------------------------------------------
(* I/O.                                                                     *)

InIO == InRedirect \cup {"submit"}

\* A task whose own state does not change, or that is not in an I/O after the
\* step, is fine after it when the device stays bound to the file.
LEMMA IOKeep ==
    ASSUME IOInv, NEW v \in Tasks,
           \/ pc'[v] \notin InIO
           \/ /\ pc'[v] = pc[v] /\ file'[v] = file[v] /\ src'[v] = src[v]
              /\ early'[v] = early[v]
           \/ pc[v] = "lookup" /\ pc'[v] = "wait" /\ UNCHANGED <<file, early>>,
           lo_state = "bound" =>
              /\ lo_state' = "bound"
              /\ switched' \/ (backing' = backing /\ switched' = switched)
    PROVE  IOFine(v)'
<1>1. IOFine(v)
  BY Zenon DEF IOInv
<1>2. lo_state = "bound" => lo_state' = "bound" /\ (~switched' => ~switched /\ backing' = backing)
  OBVIOUS
<1>3. CASE pc'[v] \notin InIO
  BY Zenon, <1>3 DEF IOFine, InIO, InRedirect
<1>4. CASE /\ pc'[v] = pc[v] /\ file'[v] = file[v] /\ src'[v] = src[v]
           /\ early'[v] = early[v]
  <2>1. IOFine(v)' <=>
           (~early[v] =>
              /\ pc[v] \in InRedirect \cup {"submit"} => lo_state' = "bound"
              /\ pc[v] \in InRedirect /\ ~switched' => file[v] = backing'
              /\ pc[v] = "send" /\ ~switched' => src[v] = backing')
    BY Zenon, <1>4 DEF IOFine
  <2>2. pc[v] = "send" => pc[v] \in InRedirect
    BY DEF InRedirect
  <2>3. pc[v] \in InRedirect => pc[v] \in InRedirect \cup {"submit"}
    OBVIOUS
  <2> QED
    BY Zenon, <1>1, <1>2, <2>1, <2>2, <2>3 DEF IOFine
<1>5. CASE pc[v] = "lookup" /\ pc'[v] = "wait" /\ UNCHANGED <<file, early>>
  <2>1. IOFine(v)' <=>
           (~early[v] => /\ lo_state' = "bound"
                         /\ ~switched' => file[v] = backing')
    BY Zenon, <1>5 DEF IOFine, InRedirect
  <2>2. ~early[v] => lo_state = "bound" /\ (~switched => file[v] = backing)
    BY Zenon, <1>1, <1>5 DEF IOFine, InRedirect
  <2> QED
    BY Zenon, <1>2, <2>1, <2>2
<1> QED
  BY <1>3, <1>4, <1>5

\* Steps that leave the state of the device and of all I/O alone, but for one
\* task that is not in an I/O afterwards.
LEMMA IOStays ==
    ASSUME TypeOK, IOInv, UNCHANGED ioVars,
           \/ pc' = pc
           \/ \E u \in Users, l \in {"open", "closed", "binding"} : Goto(u, l),
           lo_state = "bound" =>
              /\ lo_state' = "bound"
              /\ switched' \/ (backing' = backing /\ switched' = switched)
    PROVE  IOInv'
<1> SUFFICES ASSUME NEW v \in Tasks PROVE IOFine(v)'
  BY Zenon DEF IOInv
<1>1. pc'[v] = pc[v] \/ pc'[v] \notin InIO
  BY Zenon, GotoMoves DEF Users, InIO, InRedirect
<1> QED
  BY Zenon, <1>1, IOKeep DEF ioVars

\* Nobody else has the device open when it is taken down.
LEMMA IOStop ==
    ASSUME TypeOK, IOInv, NEW u \in Tasks, NEW l, l \notin InIO, Goto(u, l),
           Openers = {u}
    PROVE  IOInv'
<1> SUFFICES ASSUME NEW v \in Tasks PROVE IOFine(v)'
  BY Zenon DEF IOInv
<1>1. pc'[v] \notin InIO
  <2>1. CASE v = u
    BY Zenon, <2>1, GotoMoves DEF Users
  <2>2. CASE v # u
    <3>1. pc'[v] = pc[v]
      BY Zenon, <2>2, GotoMoves DEF Users
    <3>2. pc[v] \notin HasOpen
      BY <2>2 DEF Openers
    <3> QED
      BY <3>1, <3>2 DEF HasOpen, InIO
  <2> QED
    BY <2>1, <2>2
<1> QED
  BY Zenon, <1>1 DEF IOFine, InIO, InRedirect

LEMMA IOUser ==
    ASSUME TypeOK, LockInv, StateInv, IOInv, NEW u \in Users,
           StartIO(u) \/ EnterRedirect(u) \/ LookupHit(u) \/ LookupMiss(u) \/ Send(u)
    PROVE  IOInv'
<1> SUFFICES ASSUME NEW v \in Tasks PROVE IOFine(v)'
  BY Zenon DEF IOInv
<1>1. UNCHANGED <<lo_state, switched, backing>>
  BY Zenon DEF StartIO, EnterRedirect, LookupHit, LookupMiss, Send, devVars
<1>2. CASE v # u
  <2>1. pc'[v] = pc[v]
    BY Zenon, <1>2, GotoMoves DEF StartIO, EnterRedirect, LookupHit, LookupMiss, Send, Users
  <2>2. file'[v] = file[v] /\ src'[v] = src[v] /\ early'[v] = early[v]
    <3>1. /\ file' = file \/ \E x : file' = [file EXCEPT ![u] = x]
          /\ src' = src \/ \E x : src' = [src EXCEPT ![u] = x]
          /\ early' = early \/ \E x : early' = [early EXCEPT ![u] = x]
      BY Zenon DEF StartIO, EnterRedirect, LookupHit, LookupMiss, Send, ioVars
    <3>2. v \in DOMAIN file /\ v \in DOMAIN src /\ v \in DOMAIN early
      BY Zenon DEF TypeOK, Users
    <3> QED
      BY Zenon, <1>2, <3>1, <3>2 DEF TypeOK, Users
  <2> QED
    BY Zenon, <1>1, <2>1, <2>2, IOKeep
<1>3. CASE v = u
  <2>1. IOFine(u) /\ u \in Tasks /\ u \notin Flushers
    BY Zenon, <1>3, DeviceAssumption DEF IOInv
  <2>2. CASE StartIO(u)
    <3>1. pc[u] = "open" /\ pc'[u] = "submit" /\ early'[u] = (lo_state = "unbound")
      BY Zenon, <2>1, <2>2, GotoMoves DEF StartIO, Rest, TypeOK
    <3>2. lo_state # "rundown"
      <4>1. u \in Openers
        BY <2>1, <3>1 DEF Openers, HasOpen
      <4>2. mutex # u
        BY Zenon, <2>1, <3>1 DEF LockInv, Locked
      <4> QED
        BY <4>1, <4>2 DEF StateInv
    <3>3. ~early'[u] => lo_state' = "bound"
      BY Zenon, <1>1, <3>1, <3>2 DEF TypeOK
    <3> QED
      BY Zenon, <1>3, <3>1, <3>3 DEF IOFine, InRedirect
  <2>3. CASE EnterRedirect(u)
    <3>1. /\ pc[u] = "submit" /\ pc'[u] \in {"oops", "lookup"}
          /\ file'[u] = backing /\ early' = early
      BY Zenon, <2>1, <2>3, GotoMoves DEF EnterRedirect, TypeOK
    <3> QED
      BY Zenon, <1>1, <1>3, <2>1, <3>1 DEF IOFine, InRedirect
  <2>4. CASE LookupHit(u)
    <3>1. /\ pc[u] = "lookup" /\ pc'[u] = "send" /\ cache # None
          /\ src'[u] = cache /\ UNCHANGED <<file, early>>
      BY Zenon, <2>1, <2>4, GotoMoves DEF LookupHit, TypeOK
    <3>2. lo_state = "bound" /\ ~switched => cache = backing
      BY Zenon, <3>1 DEF StateInv
    <3> QED
      BY Zenon, <1>1, <1>3, <2>1, <3>1, <3>2 DEF IOFine, InRedirect
  <2>5. CASE LookupMiss(u)
    <3>1. pc[u] = "lookup" /\ pc'[u] = "wait" /\ UNCHANGED <<file, early>>
      BY Zenon, <2>1, <2>5, GotoMoves DEF LookupMiss, ioVars
    <3> QED
      BY Zenon, <1>1, <1>3, <3>1, IOKeep
  <2>6. CASE Send(u)
    <3>1. pc'[u] = "open"
      BY Zenon, <2>1, <2>6, GotoMoves DEF Send, Rest
    <3> QED
      BY Zenon, <1>3, <3>1 DEF IOFine, InRedirect
  <2> QED
    BY <2>2, <2>3, <2>4, <2>5, <2>6
<1> QED
  BY <1>2, <1>3

\* The thread finds the block in the file that the device is bound to.
LEMMA IOServe ==
    ASSUME TypeOK, StateInv, IOInv, QueueInv, Serve
    PROVE  IOInv'
<1> DEFINE u == Head(queue)
<1>1. u \in Users /\ pc[u] = "wait"
  BY HeadWaits DEF Serve
<1>2. PICK f \in {thread.file, cache} \ {None} :
         src' = [src EXCEPT ![u] = f] /\ cache' = f /\ Goto(u, "send")
  BY Zenon DEF Serve
<1>3. /\ src'[u] = f /\ \A v \in Users \ {u} : src'[v] = src[v]
      /\ pc'[u] = "send" /\ \A v \in Users \ {u} : pc'[v] = pc[v]
  BY Zenon, <1>1, <1>2, GotoMoves DEF TypeOK
<1>4. UNCHANGED <<lo_state, switched, backing, file, early>>
  BY Zenon DEF Serve, devVars
<1> HIDE DEF u
<1> SUFFICES ASSUME NEW v \in Tasks PROVE IOFine(v)'
  BY Zenon DEF IOInv
<1>5. CASE v # u
  BY Zenon, <1>3, <1>4, <1>5, IOKeep DEF Users
<1>6. CASE v = u
  <2>1. lo_state = "bound" /\ ~switched => f = backing
    BY Zenon DEF StateInv
  <2>2. IOFine(u)
    BY Zenon, <1>6 DEF IOInv
  <2> QED
    BY Zenon, <1>1, <1>3, <1>4, <1>6, <2>1, <2>2 DEF IOFine, InRedirect
<1> QED
  BY <1>5, <1>6

LEMMA IOStep ==
    ASSUME TypeOK, LockInv, StateInv, RefInv, IOInv, QueueInv, [Next]_vars
    PROVE  IOInv'
<1>1. {"open", "closed", "binding", "clearing", "closing"} \cap InIO = {}
  BY DEF InIO, InRedirect
<1>2. ASSUME NEW u \in Tasks, Open(u) \/ Write(u) PROVE IOInv'
  BY Zenon, <1>1, <1>2, IOStays DEF Open, Write, devVars, Users
<1>3. ASSUME NEW u \in Tasks, Release(u) PROVE IOInv'
  <2>1. CASE refcnt = 1 /\ StopThread(u, "closing")
    <3>1. Openers = {u}
      BY <1>3, <2>1, OpenIsCounted, OnlyOpener DEF Release, HasOpen
    <3> QED
      BY Zenon, <1>1, <2>1, <3>1, IOStop DEF StopThread
  <2>2. CASE Goto(u, "closed") /\ UNCHANGED lo_state
    BY Zenon, <1>1, <1>3, <2>2, IOStays DEF Release, Users
  <2> QED
    BY Zenon, <1>3, <2>1, <2>2 DEF Release
<1>4. ASSUME NEW u \in Tasks, NEW f \in Files, NEW ro \in BOOLEAN, SetFd(u, f, ro)
      PROVE  IOInv'
  BY Zenon, <1>1, <1>4, IOStays DEF SetFd, Users
<1>5. ASSUME NEW u \in Tasks, NEW f \in Files, ChangeFd(u, f) PROVE IOInv'
  BY Zenon, <1>5, IOStays DEF ChangeFd
<1>6. ASSUME NEW u \in Tasks, ClrFd(u) PROVE IOInv'
  <2>1. CASE refcnt <= 1 /\ StopThread(u, "clearing")
    <3>1. Openers = {u}
      BY <1>6, <2>1, OpenIsCounted, OnlyOpener DEF ClrFd, HasOpen
    <3> QED
      BY Zenon, <1>1, <2>1, <3>1, IOStop DEF StopThread
  <2>2. CASE UNCHANGED <<lo_state, pc>>
    BY Zenon, <1>6, <2>2, IOStays DEF ClrFd
  <2> QED
    BY Zenon, <1>6, <2>1, <2>2 DEF ClrFd
<1>7. ASSUME NEW u \in Tasks, Ioctl(u) PROVE IOInv'
  BY Zenon, <1>4, <1>5, <1>6, <1>7 DEF Ioctl
<1>8. ASSUME NEW u \in Users, SetFdInit(u) \/ SetFdFails(u) PROVE IOInv'
  <2>1. pc[u] \in Locked /\ pc[u] = "binding"
    BY Zenon, <1>8 DEF SetFdInit, SetFdFails, Locked
  <2>2. lo_state # "bound"
    BY <2>1, Holder
  <2> QED
    BY Zenon, <1>1, <1>8, <2>2, IOStays DEF SetFdInit, SetFdFails
<1>9. ASSUME NEW u \in Users, ClrStopped(u) \/ ClrDone(u) PROVE IOInv'
  <2>1. pc[u] \in Locked /\ pc[u] \in {"clearing", "closing"}
    BY Zenon, <1>9 DEF ClrStopped, ClrDone, Locked
  <2>2. lo_state # "bound"
    BY <2>1, Holder
  <2> QED
    BY Zenon, <1>1, <1>9, <2>2, IOStays DEF ClrStopped, ClrDone
<1>10. ASSUME NEW u \in Users, StartIO(u) \/ Continue(u) PROVE IOInv'
  BY Zenon, <1>8, <1>9, <1>10, IOUser DEF Continue
<1>11. CASE ThreadExit \/ Remove \/ Add \/ UNCHANGED vars
  BY Zenon, <1>11, IOStays DEF ThreadExit, Remove, Add, vars, devVars
<1>12. CASE \E u \in Tasks : Open(u) \/ Release(u) \/ Ioctl(u) \/ Write(u)
  BY Zenon, <1>2, <1>3, <1>7, <1>12
<1> QED
  BY Zenon, <1>10, <1>11, <1>12, IOServe DEF Next

-----------------------------------------------------------------------------
(* lo_cio_list.                                                             *)

LEMMA QueueKept ==
    ASSUME TypeOK, QueueInv, queue' \in {queue, <<>>},
           \A v \in Users : pc[v] = "wait" => pc'[v] = "wait"
    PROVE  QueueInv'
<1>1. CASE queue' = queue
  <2>1. \A i \in DOMAIN queue : queue[i] \in Users
    BY DEF TypeOK
  <2> QED
    BY Zenon, <1>1, <2>1 DEF QueueInv
<1>2. CASE queue' = <<>>
  <2>1. DOMAIN queue' = {}
    BY <1>2
  <2> QED
    BY Zenon, <2>1 DEF QueueInv
<1> QED
  BY <1>1, <1>2

LEMMA QueueAdded ==
    ASSUME TypeOK, QueueInv, NEW u \in Users, LookupMiss(u)
    PROVE  QueueInv'
<1>1. queue \in Seq(Users) /\ queue' = Append(queue, u) /\ pc[u] = "lookup"
  BY DEF LookupMiss, TypeOK
<1>2. /\ DOMAIN queue = 1 .. Len(queue) /\ DOMAIN queue' = 1 .. Len(queue) + 1
      /\ Len(queue) \in Nat
      /\ \A i \in 1 .. Len(queue) : queue'[i] = queue[i]
      /\ queue'[Len(queue) + 1] = u
  BY <1>1, AppendProperties
<1>3. pc'[u] = "wait" /\ \A v \in Users \ {u} : pc'[v] = pc[v]
  BY Zenon, GotoMoves DEF LookupMiss
<1>4. \A i \in 1 .. Len(queue) : queue[i] \in Users /\ pc[queue[i]] = "wait" /\ queue[i] # u
  BY <1>1, <1>2 DEF QueueInv
<1>5. \A i \in DOMAIN queue' : pc'[queue'[i]] = "wait"
  BY <1>2, <1>3, <1>4
<1>6. \A i, j \in DOMAIN queue' : queue'[i] = queue'[j] => i = j
  BY <1>2, <1>4 DEF QueueInv
<1> QED
  BY <1>5, <1>6 DEF QueueInv

LEMMA QueueServed ==
    ASSUME TypeOK, QueueInv, Serve
    PROVE  QueueInv'
<1>1. queue \in Seq(Users) /\ queue # <<>> /\ queue' = Tail(queue)
  BY DEF Serve, TypeOK
<1>2. /\ DOMAIN queue = 1 .. Len(queue) /\ DOMAIN queue' = 1 .. Len(queue) - 1
      /\ Len(queue) \in Nat /\ Len(queue) >= 1
      /\ \A i \in 1 .. Len(queue) - 1 : queue'[i] = queue[i + 1]
      /\ Head(queue) = queue[1] /\ Head(queue) \in Users
  BY <1>1, HeadTailProperties, EmptySeq
<1>3. \A v \in Users \ {Head(queue)} : pc'[v] = pc[v]
  BY Zenon, <1>2, GotoMoves DEF Serve
<1>4. \A i \in 1 .. Len(queue) - 1 :
         /\ i + 1 \in DOMAIN queue /\ queue[i + 1] \in Users
         /\ pc[queue[i + 1]] = "wait" /\ queue[i + 1] # queue[1]
  BY <1>1, <1>2 DEF QueueInv
<1>5. \A i \in DOMAIN queue' : pc'[queue'[i]] = "wait"
  BY <1>2, <1>3, <1>4
<1>6. \A i, j \in DOMAIN queue' : queue'[i] = queue'[j] => i = j
  BY <1>2, <1>4 DEF QueueInv
<1> QED
  BY <1>5, <1>6 DEF QueueInv

LEMMA QueueStep ==
    ASSUME TypeOK, QueueInv, [Next]_vars
    PROVE  QueueInv'
<1>1. ASSUME NEW u \in Users, NEW l, Goto(u, l), pc[u] # "wait", queue' \in {queue, <<>>}
      PROVE  QueueInv'
  <2>1. \A v \in Users : pc[v] = "wait" => pc'[v] = "wait"
    BY Zenon, <1>1, GotoMoves
  <2> QED
    BY Zenon, <1>1, <2>1, QueueKept
<1>2. ASSUME pc' = pc, queue' \in {queue, <<>>}
      PROVE  QueueInv'
  BY Zenon, <1>2, QueueKept
<1>3. ASSUME NEW u \in Tasks, Open(u) \/ Release(u) \/ Ioctl(u) \/ Write(u)
      PROVE  QueueInv'
  <2>1. pc[u] # "wait" /\ queue' = queue
    BY Zenon, <1>3 DEF Open, Release, Ioctl, SetFd, ChangeFd, ClrFd, Write
  <2>2. pc' = pc \/ \E l : Goto(u, l)
    BY Zenon, <1>3 DEF Open, Release, Ioctl, SetFd, ChangeFd, ClrFd, Write, StopThread
  <2> QED
    BY Zenon, <1>1, <1>2, <2>1, <2>2 DEF Users
<1>4. ASSUME NEW u \in Users, StartIO(u) \/ SetFdInit(u) \/ SetFdFails(u) \/ ClrStopped(u)
                              \/ ClrDone(u) \/ EnterRedirect(u) \/ LookupHit(u) \/ Send(u)
      PROVE  QueueInv'
  <2>1. pc[u] # "wait" /\ queue' \in {queue, <<>>}
    BY Zenon, <1>4 DEF StartIO, SetFdInit, SetFdFails, ClrStopped, ClrDone, EnterRedirect,
                       LookupHit, Send, Rest
  <2>2. pc' = pc \/ \E l : Goto(u, l)
    BY Zenon, <1>4 DEF StartIO, SetFdInit, SetFdFails, ClrStopped, ClrDone, EnterRedirect,
                       LookupHit, Send
  <2> QED
    BY Zenon, <1>1, <1>2, <2>1, <2>2
<1>5. CASE ThreadExit \/ Remove \/ Add \/ UNCHANGED vars
  BY Zenon, <1>2, <1>5 DEF ThreadExit, Remove, Add, vars
<1>6. CASE \E u \in Users : StartIO(u) \/ Continue(u)
  BY Zenon, <1>4, <1>6, QueueAdded DEF Continue
<1> QED
  BY Zenon, <1>3, <1>5, <1>6, QueueServed DEF Next

-----------------------------------------------------------------------------
(* The theorems.                                                            *)

LEMMA DevInvariant == Spec => []DevInv
<1>1. Init => DevInv
  BY InitDev
<1>2. DevInv /\ [Next]_vars => DevInv'
  BY TypeStep, LockStep, StateStep, RefStep, IOStep, QueueStep DEF DevInv
<1> QED
  BY <1>1, <1>2, PTL DEF Spec

\* Every state has its type, however many tasks, flushers and files there are.
THEOREM DeviceTyped == Spec => []TypeOK
<1>1. DevInv => TypeOK
  BY DEF DevInv
<1> QED
  BY <1>1, DevInvariant, PTL

\* lo_refcnt counts the tasks that have the device open, and LOOP_CTL_REMOVE
\* never frees a device that is open or has something left of a binding.
THEOREM OpenDeviceStays == Spec => []OpenIsPresent
<1>1. DevInv => OpenIsPresent
  <2> SUFFICES ASSUME DevInv PROVE OpenIsPresent
    OBVIOUS
  <2>1. refcnt = Cardinality({u \in Tasks : pc[u] \in HasOpen})
    BY DEF DevInv, RefInv, Openers
  <2>2. ASSUME NEW u \in Tasks, pc[u] # "closed"
        PROVE  present
    <3>1. pc[u] \in HasOpen \/ pc[u] = "closing"
      BY <2>2 DEF DevInv, TypeOK, Users
    <3>2. CASE pc[u] \in HasOpen
      BY <3>2, OpenIsCounted DEF DevInv, StateInv
    <3>3. CASE pc[u] = "closing"
      BY Zenon, <3>3, DeviceAssumption DEF DevInv, LockInv, StateInv, Locked
    <3> QED
      BY <3>1, <3>2, <3>3
  <2>3. ~present => thread = NoThread /\ held = {}
    BY Zenon DEF DevInv, StateInv
  <2> QED
    BY <2>1, <2>2, <2>3 DEF OpenIsPresent
<1> QED
  BY <1>1, DevInvariant, PTL

\* Neither loop_clr_fd nor the last close takes file and thread away from a
\* task in redirect_bio whose I/O began on a bound device.
THEOREM IOFindsDeviceBound == Spec => []BoundDuringIO
<1>1. DevInv => BoundDuringIO
  <2> SUFFICES ASSUME DevInv, NEW u \in Tasks, pc[u] \in InRedirect \cup {"submit"}, ~early[u]
               PROVE  lo_state = "bound" /\ backing # None /\ thread.st = "run" /\ ~stop
    BY Zenon DEF BoundDuringIO
  <2>1. lo_state = "bound"
    BY Zenon DEF DevInv, IOInv, IOFine
  <2> QED
    BY Zenon, <2>1 DEF DevInv, StateInv
<1> QED
  BY <1>1, DevInvariant, PTL

\* The block number that a task sends a bio to was found in the file the task
\* read from the device, which is the file still bound.
THEOREM BlocksOfOneFile == Spec => []OneFile
<1>1. DevInv => OneFile
  BY Zenon DEF DevInv, OneFile, IOInv, IOFine, InRedirect
<1> QED
  BY <1>1, DevInvariant, PTL

\* The device holds a reference to its backing file and to no other file.
THEOREM FileReferences == Spec => []FilesHeld
<1>1. DevInv => FilesHeld
  <2> SUFFICES ASSUME DevInv PROVE FilesHeld
    OBVIOUS
  <2>1. mutex = None => held = {backing} \ {None}
    <3>1. mutex = None => lo_state \in {"unbound", "bound"}
      BY DEF DevInv, TypeOK, StateInv
    <3>2. mutex = None /\ lo_state = "unbound" => held = {} /\ backing = None
      BY Zenon DEF DevInv, StateInv
    <3>3. mutex = None /\ lo_state = "bound" => held = {backing} /\ backing # None
      BY Zenon DEF DevInv, StateInv
    <3> QED
      BY <3>1, <3>2, <3>3
  <2>2. ASSUME thread.st = "run", ~switched PROVE thread.file \in held
    <3>1. lo_state # "unbound"
      BY <2>2 DEF DevInv, StateInv, NoThread
    <3>2. CASE lo_state = "bound"
      BY Zenon, <2>2, <3>2 DEF DevInv, StateInv
    <3>3. CASE lo_state = "rundown"
      <4>1. thread.st # "none"
        BY <2>2
      <4> QED
        BY Zenon, <2>2, <3>3, <4>1 DEF DevInv, StateInv
    <3> QED
      BY <3>1, <3>2, <3>3 DEF DevInv, TypeOK
  <2> QED
    BY <2>1, <2>2 DEF FilesHeld
<1> QED
  BY <1>1, DevInvariant, PTL

\* LOOP_CLR_FD of a device that others have open is done by the last close.
THEOREM AutoclearTakesEffect == Spec => []AutoclearDone
<1>1. DevInv => AutoclearDone
  <2> SUFFICES ASSUME DevInv, mutex = None, refcnt = 0 PROVE ~autoclear
    BY DEF AutoclearDone
  <2>1. lo_state \in {"unbound", "bound"}
    BY DEF DevInv, TypeOK, StateInv
  <2>2. ~(refcnt > 0)
    OBVIOUS
  <2> QED
    BY Zenon, <2>1, <2>2 DEF DevInv, StateInv
<1> QED
  BY <1>1, DevInvariant, PTL
=============================================================================
