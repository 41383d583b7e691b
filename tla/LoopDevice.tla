----------------------------- MODULE LoopDevice -----------------------------
(* The life of one loop device: opened, bound to a backing file, switched,   *)
(* cleared, released, removed and added again, while the tasks that have it  *)
(* open do I/O through redirect_bio and its service thread translates.       *)
(* An I/O is one bio for one block; the block cache is abstracted to the     *)
(* file whose mapping of that block it holds.  LoopTranslate has the details *)
(* of translation.                                                           *)
EXTENDS Naturals, Sequences, FiniteSets

CONSTANTS
    Tasks,     \* have the device open when they use it
    Flushers,  \* write back dirty pages of the device, without opening it
    Files,     \* backing files of the same size
    None

ASSUME DeviceAssumption ==
    /\ None \notin Files \cup Tasks
    /\ Tasks \cap Flushers = {}
    /\ IsFiniteSet(Tasks)

VARIABLES
    present,           \* the device exists: private_data of its disk
    lo_state,          \* "unbound", "bound", "rundown"
    backing,           \* lo_backing_file
    capacity,          \* the device has a size
    refcnt, autoclear, readonly,   \* lo_refcnt; LO_FLAGS_*
    mutex,             \* the holder of lo_ctl_mutex
    thread, stop,      \* loop_thread, the file it works on; kthread_stop
    queue, cache,      \* lo_cio_list; the file whose mapping is cached
    filp,              \* local of loop_clr_fd
    dirty,             \* the page cache of the device has data to write back
    pc, file, src,     \* each user; lo_backing_file as it read it; the file
                       \* that its block number comes from
    held,              \* files that the device has a reference to
    early, switched    \* history: bio of a device not yet bound; change_fd

devVars  == <<present, lo_state, backing, capacity, refcnt, autoclear, readonly>>
ioVars   == <<file, src, early>>
vars == <<devVars, mutex, thread, stop, queue, cache, filp, dirty, pc, ioVars,
          held, switched>>

Users == Tasks \cup Flushers

NoThread == [st |-> "none", file |-> None]

Init ==
    /\ present = TRUE /\ lo_state = "unbound" /\ backing = None
    /\ capacity = FALSE /\ refcnt = 0 /\ autoclear = FALSE /\ readonly = FALSE
    /\ mutex = None
    /\ thread = NoThread /\ stop = FALSE
    /\ queue = <<>> /\ cache = None
    /\ filp = None
    /\ dirty = FALSE
    /\ pc = [u \in Users |-> "closed"]
    /\ file = [u \in Users |-> None] /\ src = [u \in Users |-> None]
    /\ held = {}
    /\ early = [u \in Users |-> FALSE] /\ switched = FALSE

Goto(u, l) == pc' = [pc EXCEPT ![u] = l]

-----------------------------------------------------------------------------
(* Opening and closing.                                                     *)

\* lo_open, under loop_index_mutex and lo_ctl_mutex.
Open(u) ==
    /\ pc[u] = "closed" /\ mutex = None /\ present
    /\ refcnt' = refcnt + 1
    /\ Goto(u, "open")
    /\ UNCHANGED <<dirty, present, lo_state, backing, capacity, autoclear,
                   readonly, mutex, thread, stop, queue, cache, filp, ioVars,
                   held, switched>>

\* loop_clr_fd by a caller that goes on to l, up to kthread_stop.
StopThread(u, l) ==
    /\ lo_state' = "rundown"
    /\ filp' = backing
    /\ stop' = TRUE
    /\ mutex' = u
    /\ Goto(u, l)

\* The last close first writes back what the page cache holds, and drops what
\* is beyond the end of the device.
WrittenBack ==
    \/ refcnt > 1 /\ UNCHANGED dirty
    \/ /\ refcnt = 1 /\ dirty' = FALSE
       /\ ~(dirty /\ capacity) /\ \A w \in Flushers : pc[w] = "closed"

\* lo_release.  Without autoclear, loop_flush sends its magic bio to
\* redirect_bio, which completes it on the spot.
Release(u) ==
    /\ pc[u] = "open" /\ mutex = None
    /\ WrittenBack
    /\ refcnt' = refcnt - 1
    /\ \/ refcnt = 1 /\ autoclear /\ lo_state = "bound" /\ StopThread(u, "closing")
       \/ /\ ~(refcnt = 1 /\ autoclear /\ lo_state = "bound")
          /\ Goto(u, "closed")
          /\ UNCHANGED <<lo_state, filp, stop, mutex>>
    /\ UNCHANGED <<present, backing, capacity, autoclear, readonly, thread,
                   queue, cache, ioVars, held, switched>>

-----------------------------------------------------------------------------
(* lo_ioctl, under lo_ctl_mutex.                                            *)

\* loop_set_fd up to set_blocksize: the device gets its file and its size.
SetFd(u, f, ro) ==
    /\ pc[u] = "open" /\ mutex = None /\ lo_state = "unbound"
    /\ mutex' = u
    /\ backing' = f /\ capacity' = TRUE
    /\ readonly' = ro /\ autoclear' = FALSE
    /\ held' = held \cup {f}
    /\ switched' = FALSE
    /\ Goto(u, "binding")
    /\ UNCHANGED <<dirty, present, lo_state, refcnt, thread, stop, queue,
                   cache, filp, ioVars>>

\* Mutant: the cache of an earlier binding is kept.
SetFdInit_KeepsCache(u) ==
    /\ pc[u] = "binding"
    /\ queue' = <<>>
    /\ thread' = [st |-> "run", file |-> backing]
    /\ stop' = FALSE
    /\ lo_state' = "bound"
    /\ mutex' = None
    /\ Goto(u, "open")
    /\ UNCHANGED <<dirty, present, backing, capacity, refcnt, autoclear,
                   readonly, cache, filp, ioVars, held, switched>>

\* The rest of it: list and cache are initialised and the thread is started.
SetFdInit(u) ==
    /\ pc[u] = "binding"
    /\ queue' = <<>> /\ cache' = None
    /\ thread' = [st |-> "run", file |-> backing]
    /\ stop' = FALSE
    /\ lo_state' = "bound"
    /\ mutex' = None
    /\ Goto(u, "open")
    /\ UNCHANGED <<dirty, present, backing, capacity, refcnt, autoclear,
                   readonly, filp, ioVars, held, switched>>

\* kthread_create has failed.
SetFdFails(u) ==
    /\ pc[u] = "binding"
    /\ queue' = <<>> /\ cache' = None
    /\ held' = held \ {backing}
    /\ backing' = None /\ capacity' = FALSE
    /\ readonly' = FALSE /\ autoclear' = FALSE
    /\ mutex' = None
    /\ Goto(u, "open")
    /\ UNCHANGED <<dirty, present, lo_state, refcnt, thread, stop, filp,
                   ioVars, switched>>

\* Mutant: the reference to the old file is kept.
ChangeFd_KeepsReference(u, f) ==
    /\ pc[u] = "open" /\ mutex = None /\ lo_state = "bound" /\ readonly
    /\ f # backing
    /\ backing' = f
    /\ held' = held \cup {f}
    /\ switched' = TRUE
    /\ UNCHANGED <<dirty, present, lo_state, capacity, refcnt, autoclear,
                   readonly, mutex, thread, stop, queue, cache, filp, pc,
                   ioVars>>

\* loop_change_fd: the magic bio runs do_loop_switch inside redirect_bio.  The
\* thread, its file and the cache are as before.
ChangeFd(u, f) ==
    /\ pc[u] = "open" /\ mutex = None /\ lo_state = "bound" /\ readonly
    /\ f # backing
    /\ backing' = f
    /\ held' = (held \cup {f}) \ {backing}
    /\ switched' = TRUE
    /\ UNCHANGED <<dirty, present, lo_state, capacity, refcnt, autoclear,
                   readonly, mutex, thread, stop, queue, cache, filp, pc,
                   ioVars>>

\* Mutant: the device is cleared however many have it open.
ClrFd_IgnoresRefcnt(u) ==
    /\ pc[u] = "open" /\ mutex = None /\ lo_state = "bound"
    /\ StopThread(u, "clearing")
    /\ UNCHANGED <<dirty, present, backing, capacity, refcnt, autoclear,
                   readonly, thread, queue, cache, ioVars, held, switched>>

\* loop_clr_fd: put off to the last close while others have the device open.
ClrFd(u) ==
    /\ pc[u] = "open" /\ mutex = None /\ lo_state = "bound"
    /\ \/ /\ refcnt > 1
          /\ autoclear' = TRUE
          /\ UNCHANGED <<lo_state, filp, stop, mutex, pc>>
       \/ /\ refcnt <= 1
          /\ StopThread(u, "clearing")
          /\ UNCHANGED autoclear
    /\ UNCHANGED <<dirty, present, backing, capacity, refcnt, readonly, thread,
                   queue, cache, ioVars, held, switched>>

\* kthread_stop has returned; the file is taken from the device ...
ClrStopped(u) ==
    /\ pc[u] \in {"clearing", "closing"} /\ thread.st = "exited"
    /\ backing' = None
    /\ thread' = NoThread
    /\ UNCHANGED <<dirty, present, lo_state, capacity, refcnt, autoclear,
                   readonly, mutex, stop, queue, cache, filp, pc, ioVars, held,
                   switched>>

\* ... and the rest of its configuration.  The fput after the unlock drops a
\* reference that is the task's own by then, and touches nothing of the device.
ClrDone(u) ==
    /\ pc[u] \in {"clearing", "closing"} /\ thread.st = "none"
    /\ capacity' = FALSE
    /\ lo_state' = "unbound"
    /\ autoclear' = FALSE /\ readonly' = FALSE
    /\ held' = held \ {filp}
    /\ filp' = None
    /\ stop' = FALSE
    /\ mutex' = None
    /\ Goto(u, IF pc[u] = "closing" THEN "closed" ELSE "open")
    /\ UNCHANGED <<dirty, present, backing, refcnt, thread, queue, cache,
                   ioVars, switched>>

-----------------------------------------------------------------------------
(* loop_control_ioctl.                                                      *)

\* Mutant: LOOP_CTL_REMOVE does not test lo_refcnt.
Remove_IgnoresRefcnt ==
    /\ present /\ mutex = None
    /\ lo_state = "unbound"
    /\ present' = FALSE
    /\ UNCHANGED <<dirty, lo_state, backing, capacity, refcnt, autoclear,
                   readonly, mutex, thread, stop, queue, cache, filp, pc,
                   ioVars, held, switched>>

\* LOOP_CTL_REMOVE of a device that is neither bound nor open.
Remove ==
    /\ present /\ mutex = None
    /\ lo_state = "unbound" /\ refcnt = 0
    /\ present' = FALSE
    /\ UNCHANGED <<dirty, lo_state, backing, capacity, refcnt, autoclear,
                   readonly, mutex, thread, stop, queue, cache, filp, pc,
                   ioVars, held, switched>>

\* LOOP_CTL_ADD, LOOP_CTL_GET_FREE and loop_probe: a new, zeroed device.
Add ==
    /\ ~present
    /\ present' = TRUE
    /\ queue' = <<>> /\ cache' = None
    /\ UNCHANGED <<dirty, lo_state, backing, capacity, refcnt, autoclear,
                   readonly, mutex, thread, stop, filp, pc, ioVars, held,
                   switched>>

-----------------------------------------------------------------------------
(* I/O.                                                                     *)

\* Where a user is when it does no I/O.
Rest(u) == IF u \in Flushers THEN "closed" ELSE "open"

\* A buffered write of a task that has the device open.
Write(u) ==
    /\ pc[u] = "open" /\ capacity /\ ~readonly
    /\ dirty' = TRUE
    /\ UNCHANGED <<devVars, mutex, thread, stop, queue, cache, filp, pc,
                   ioVars, held, switched>>

\* The block layer lets a bio for a device with a size through.
StartIO(u) ==
    /\ pc[u] = Rest(u) /\ capacity
    /\ IF u \in Flushers THEN dirty /\ dirty' = FALSE ELSE UNCHANGED dirty
    /\ early' = [early EXCEPT ![u] = lo_state = "unbound"]
    /\ Goto(u, "submit")
    /\ UNCHANGED <<devVars, mutex, thread, stop, queue, cache, filp, file, src,
                   held, switched>>

\* loop_make_request, redirect_bio: the file of the device is read, whatever
\* lo_state is; without one this is a kernel oops.
EnterRedirect(u) ==
    /\ pc[u] = "submit"
    /\ file' = [file EXCEPT ![u] = backing]
    /\ Goto(u, IF backing = None THEN "oops" ELSE "lookup")
    /\ UNCHANGED <<dirty, devVars, mutex, thread, stop, queue, cache, filp,
                   src, early, held, switched>>

\* block_cache_lookup: a hit, or a request is put on lo_cio_list.
LookupHit(u) ==
    /\ pc[u] = "lookup" /\ cache # None
    /\ src' = [src EXCEPT ![u] = cache]
    /\ Goto(u, "send")
    /\ UNCHANGED <<dirty, devVars, mutex, thread, stop, queue, cache, filp,
                   file, early, held, switched>>

\* Mutant: list_add for list_add_tail.
LookupMiss_AtHead(u) ==
    /\ pc[u] = "lookup"
    /\ queue' = <<u>> \o queue
    /\ Goto(u, "wait")
    /\ UNCHANGED <<dirty, devVars, mutex, thread, stop, cache, filp, ioVars,
                   held, switched>>

LookupMiss(u) ==
    /\ pc[u] = "lookup"
    /\ queue' = Append(queue, u)
    /\ Goto(u, "wait")
    /\ UNCHANGED <<dirty, devVars, mutex, thread, stop, cache, filp, ioVars,
                   held, switched>>

\* The bio goes to the device that holds the file, to the block found.
Send(u) ==
    /\ pc[u] = "send"
    /\ file' = [file EXCEPT ![u] = None]
    /\ src' = [src EXCEPT ![u] = None]
    /\ early' = [early EXCEPT ![u] = FALSE]
    /\ Goto(u, Rest(u))
    /\ UNCHANGED <<dirty, devVars, mutex, thread, stop, queue, cache, filp,
                   held, switched>>

-----------------------------------------------------------------------------
(* loop_thread.                                                             *)

\* A request is served from the cache, or with get_block of the thread's file.
\* That get_block may fail, and the second wait of a FUA bio, do not depend on
\* the life of the device; LoopTranslate has them.
Serve ==
    /\ thread.st = "run" /\ queue # <<>>
    /\ LET u == Head(queue)
       IN  \E f \in {thread.file, cache} \ {None} :
              /\ src' = [src EXCEPT ![u] = f]
              /\ cache' = f
              /\ Goto(u, "send")
    /\ queue' = Tail(queue)
    /\ UNCHANGED <<dirty, devVars, mutex, thread, stop, filp, file, early,
                   held, switched>>

\* The thread leaves when it is told to and nothing is queued.
ThreadExit ==
    /\ thread.st = "run" /\ stop /\ queue = <<>>
    /\ thread' = [st |-> "exited", file |-> thread.file]
    /\ UNCHANGED <<dirty, devVars, mutex, stop, queue, cache, filp, pc, ioVars,
                   held, switched>>

-----------------------------------------------------------------------------
Ioctl(u) ==
    \/ \E f \in Files, ro \in BOOLEAN : SetFd(u, f, ro)
    \/ \E f \in Files : ChangeFd(u, f)
    \/ ClrFd(u)

\* What a user goes on with once it has begun.
Continue(u) ==
    \/ SetFdInit(u) \/ SetFdFails(u) \/ ClrStopped(u) \/ ClrDone(u)
    \/ EnterRedirect(u) \/ LookupHit(u) \/ LookupMiss(u) \/ Send(u)

Next ==
    \/ \E u \in Tasks : Open(u) \/ Release(u) \/ Ioctl(u) \/ Write(u)
    \/ \E u \in Users : StartIO(u) \/ Continue(u)
    \/ Serve \/ ThreadExit
    \/ Remove \/ Add

Spec == Init /\ [][Next]_vars

\* Users that have begun a call, and the thread, are scheduled.
FairSpec ==
    /\ Spec
    /\ \A u \in Users : WF_vars(Continue(u))
    /\ WF_vars(Serve \/ ThreadExit)

-----------------------------------------------------------------------------
(* Properties.                                                              *)

InRedirect == {"lookup", "wait", "send"}
HasOpen    == {"open", "binding", "clearing", "submit", "oops"} \cup InRedirect

\* The shapes of the state.
TypeOK ==
    /\ present \in BOOLEAN /\ capacity \in BOOLEAN
    /\ lo_state \in {"unbound", "bound", "rundown"}
    /\ backing \in Files \cup {None} /\ filp \in Files \cup {None}
    /\ refcnt \in Nat /\ autoclear \in BOOLEAN /\ readonly \in BOOLEAN
    /\ mutex \in Tasks \cup {None}
    /\ thread \in [st : {"none", "run", "exited"}, file : Files \cup {None}]
    /\ stop \in BOOLEAN /\ dirty \in BOOLEAN
    /\ queue \in Seq(Users) /\ cache \in Files \cup {None}
    /\ pc \in [Users -> HasOpen \cup {"closed", "closing"}]
    /\ file \in [Users -> Files \cup {None}] /\ src \in [Users -> Files \cup {None}]
    /\ held \subseteq Files
    /\ early \in [Users -> BOOLEAN] /\ switched \in BOOLEAN

\* Nobody has a device open that LOOP_CTL_REMOVE has freed, and the device is
\* removed only when nothing is left of a binding.
OpenIsPresent ==
    /\ refcnt = Cardinality({u \in Tasks : pc[u] \in HasOpen})
    /\ (\E u \in Tasks : pc[u] # "closed") => present
    /\ ~present => thread = NoThread /\ held = {}

\* A task that is doing I/O through an open device finds it bound and served:
\* loop_clr_fd cannot take file and thread from under it, neither by ioctl nor
\* at the last close.  The exception is I/O that began while loop_set_fd had
\* given the device its size and not yet its list and thread.
BoundDuringIO ==
    \A u \in Tasks : pc[u] \in InRedirect \cup {"submit"} /\ ~early[u] =>
       lo_state = "bound" /\ backing # None /\ thread.st = "run" /\ ~stop

\* A block number is used with the file it was computed for, and that is the
\* file now bound: bindings do not leak into each other through the cache or
\* the thread.  The exceptions are a device whose file loop_change_fd has
\* switched, where both go on with the old one, and I/O begun too early.
OneFile ==
    \A u \in Tasks : pc[u] = "send" /\ ~early[u] /\ ~switched =>
       src[u] = file[u] /\ src[u] = backing

\* The device has a reference to the file it is bound to and to no other, so a
\* file is released when the device lets go of it; the thread works on a file
\* that is held (until loop_change_fd puts the file under it).
FilesHeld ==
    /\ mutex = None => held = {backing} \ {None}
    /\ thread.st = "run" /\ ~switched => thread.file \in held

\* LOOP_CLR_FD of a device that others have open takes effect with the last
\* close: a device that nobody has open is not waiting to be cleared.
AutoclearDone == mutex = None /\ refcnt = 0 => ~autoclear

\* A task that waits for the thread is woken, and one that clears the device
\* gets done with it, whatever the others do to the device meanwhile.  The
\* exception is again a request put on a list that is about to be initialised.
CallsReturn ==
    \A u \in Tasks : pc[u] \in {"wait", "clearing", "closing"}
                       ~> pc[u] \in {"open", "closed"} \/ early[u]
=============================================================================
