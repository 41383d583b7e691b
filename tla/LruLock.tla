------------------------------ MODULE LruLock ------------------------------
(***************************************************************************)
(* The partitioned page cache: the LRU lists of a memory cgroup (a lruvec) *)
(* have a lock of their own, which replaces zone->lru_lock on most paths   *)
(* of mm/ but not on all.  Tasks add, activate, isolate, put back, reclaim,*)
(* compact, charge and release the pages of one zone.                      *)
(*                                                                         *)
(* A section under lruvec->lock that touches one page is one step.  What   *)
(* the code does to PG_lru outside that lock is a step of its own.  The    *)
(* lists of a lruvec are not told apart but for the unevictable one, which *)
(* holds the pages with PG_unevictable, and have no order.  A list that is *)
(* corrupted, or a BUG, ends the behaviour.                                *)
(***************************************************************************)
EXTENDS Naturals, FiniteSets

CONSTANTS
    Tasks, Pages,
    Groups, Root,      \* memory cgroups, and root_mem_cgroup
    NoTask, NoPage, Off,
    Jobs               \* what the tasks do

ASSUME LruAssumption == Root \in Groups /\ Off \notin Groups

VARIABLES
    page,       \* struct page and struct page_cgroup of every page
    lock,       \* who holds lruvec->lock of a group
    lru_lock,   \* who holds zone->lru_lock
    w,          \* what a task does
    fault       \* the first thing that went wrong

vars == <<page, lock, lru_lock, w, fault>>

\* A page that is free: count is the references, cached whether the page
\* cache has one of them, on the list the page is on, locked how often the
\* page became unevictable or evictable again.
Free == [count |-> 0, cached |-> FALSE, lru |-> FALSE, unevictable |-> FALSE,
         on |-> Off, group |-> Root, used |-> FALSE, locked |-> 0]

\* p is the page worked on, vec the lruvec read for it, ret where
\* putback_lru_page returns to; kind, g and took belong to reclaim, g, the
\* new group, and took, the page if it was on the LRU, to a charge.
Idle == [pc |-> "idle", job |-> "none", p |-> NoPage, vec |-> Off, ret |-> "idle",
         kind |-> "none", g |-> Off, took |-> {}]

NoFault == [what |-> "none", why |-> {}]

Init ==
    /\ page = [p \in Pages |-> Free]
    /\ lock = [g \in Groups |-> NoTask]
    /\ lru_lock = NoTask
    /\ w = [t \in Tasks |-> Idle]
    /\ fault = NoFault

-----------------------------------------------------------------------------
Charging          == {"chclear", "chdel", "chset", "chlru", "chadd"}
page_evictable(p) == page[p].locked # 1
Running(t, l)     == fault = NoFault /\ w[t].pc = l
At(t)             == page[w[t].p]

\* mem_cgroup_page_lruvec: an uncharged page off the lists goes to root.
Switched(r)               == IF ~r.lru /\ ~r.used THEN [r EXCEPT !.group = Root] ELSE r
mem_cgroup_page_lruvec(p) == Switched(page[p]).group

\* The sections on page p, outside the lruvec's lock, that tasks are in; and
\* whether the page's group is another than the one task t has read.
Why(t, p) ==
    {x \in {"release", "compact", "charge", "cull", "regroup"} :
        CASE x = "release" -> \E u \in Tasks : w[u].p = p /\ w[u].pc = "freeing"
          [] x = "compact" -> \E u \in Tasks : w[u].p = p /\ w[u].pc \in {"cget", "cdel"}
          [] x = "charge"  -> \E u \in Tasks : w[u].p = p /\ w[u].pc \in Charging
          [] x = "cull"    -> \E u \in Tasks : w[u].p = p /\ w[u].job = "cull" /\ w[u].pc = "lock"
          [] OTHER         -> {page[p].group, mem_cgroup_page_lruvec(p)} #
                                 {IF w[t].p = p THEN w[t].vec ELSE w[t].g}}

Fault(t, p, what) ==
    /\ fault' = [what |-> what, why |-> Why(t, p)]
    /\ UNCHANGED <<page, lock, lru_lock, w>>

-----------------------------------------------------------------------------
(* References.                                                              *)

\* The task is done with its page.
Return(t) == IF w[t].ret = "idle" THEN Idle
             ELSE [w[t] EXCEPT !.pc = w[t].ret, !.ret = "idle", !.job = "none",
                               !.p = NoPage, !.vec = Off]

\* put_page, release_pages: the last reference takes the page off its list.
Put(t) ==
    /\ Running(t, "put")
    /\ LET p == w[t].p
           n == page[p].count - 1
       IN  IF n = 0 /\ ~page[p].lru /\ page[p].on # Off THEN Fault(t, p, "freed")
           ELSE /\ page' = [page EXCEPT ![p] = IF n = 0 /\ ~page[p].lru THEN Free
                                              ELSE [@ EXCEPT !.count = n]]
                /\ w' = [w EXCEPT ![t] = IF n = 0 /\ page[p].lru
                                        THEN [@ EXCEPT !.pc = "release"] ELSE Return(t)]
                /\ UNCHANGED <<lock, lru_lock, fault>>

\* __page_cache_release: PG_lru is cleared before the lock is taken ...
Release(t) ==
    /\ Running(t, "release")
    /\ LET p == w[t].p
       IN  /\ w' = [w EXCEPT ![t].pc = "freeing", ![t].vec = mem_cgroup_page_lruvec(p)]
           /\ page' = [page EXCEPT ![p] = [Switched(@) EXCEPT !.lru = FALSE]]
    /\ UNCHANGED <<lock, lru_lock, fault>>

\* ... and the page is taken off its list under it, and freed.
Freeing(t) ==
    /\ Running(t, "freeing") /\ lock[w[t].vec] = NoTask
    /\ LET p == w[t].p
       IN  IF page[p].on = Off THEN Fault(t, p, "del")
           ELSE IF page[p].on # w[t].vec THEN Fault(t, p, "bare")
           ELSE /\ page' = [page EXCEPT ![p] = Free]
                /\ w' = [w EXCEPT ![t] = Return(t)]
                /\ UNCHANGED <<lock, lru_lock, fault>>

-----------------------------------------------------------------------------
(* Jobs that begin with a page.  A task has or takes a reference to it.     *)

Starts(t, job) == Running(t, "idle") /\ job \in Jobs

Begin(t, job, p, l) == w' = [w EXCEPT ![t] = [Idle EXCEPT !.pc = l, !.job = job, !.p = p]]

\* A new page is charged to group g, or left uncharged like a page of the
\* swap cache, and __lru_cache_add puts it in a pagevec.
lru_cache_add(t, p, g) ==
    /\ Starts(t, "add") /\ page[p] = Free
    /\ page' = [page EXCEPT ![p] = [Free EXCEPT !.count = 2, !.cached = TRUE,
                    !.group = IF g = Off THEN Root ELSE g, !.used = g # Off]]
    /\ Begin(t, "add", p, "vec")
    /\ UNCHANGED <<lock, lru_lock, fault>>

\* The page cache uncharges the page and drops its reference.
Truncate(t, p) ==
    /\ Starts(t, "truncate") /\ page[p].cached
    /\ \A u \in Tasks : ~(w[u].p = p /\ w[u].job = "charge")
    /\ page' = [page EXCEPT ![p].cached = FALSE, ![p].used = FALSE]
    /\ Begin(t, "truncate", p, "put")
    /\ UNCHANGED <<lock, lru_lock, fault>>

\* activate_page: the page is put in a pagevec.
activate_page(t, p) ==
    /\ Starts(t, "activate") /\ page[p].cached
    /\ page[p].lru /\ ~page[p].unevictable
    /\ page' = [page EXCEPT ![p].count = @ + 1]
    /\ Begin(t, "activate", p, "vec")
    /\ UNCHANGED <<lock, lru_lock, fault>>

\* isolate_lru_page, by whoever can get a reference.
isolate_lru_page(t, p) ==
    /\ Starts(t, "isolate") /\ page[p].count > 0 /\ page[p].lru
    /\ page' = [page EXCEPT ![p].count = @ + 1]
    /\ Begin(t, "isolate", p, "vec")
    /\ UNCHANGED <<lock, lru_lock, fault>>

\* PG_mlocked is set, and cleared again; the isolate_lru_page and
\* putback_lru_page that follow are those of job "isolate".
Mlock(p) ==
    /\ fault = NoFault /\ "mlock" \in Jobs
    /\ page[p].cached /\ page[p].locked < 2
    /\ page' = [page EXCEPT ![p].locked = @ + 1]
    /\ UNCHANGED <<lock, lru_lock, w, fault>>

-----------------------------------------------------------------------------
(* pagevec_lru_move_fn, isolate_lru_page, add_page_to_unevictable_list: the *)
(* lruvec is read, then locked.                                             *)

\* add_page_to_unevictable_list sets the flags before it takes the lock.
ReadVec(t) ==
    /\ Running(t, "vec")
    /\ LET p    == w[t].p
           cull == w[t].job = "cull"
       IN  /\ w' = [w EXCEPT ![t].pc = "lock", ![t].vec = mem_cgroup_page_lruvec(p)]
           /\ page' = [page EXCEPT ![p] =
                 [Switched(@) EXCEPT !.lru = @ \/ cull, !.unevictable = @ \/ cull]]
    /\ UNCHANGED <<lock, lru_lock, fault>>

\* The task may lock the lruvec it has read.
Locks(t, job) == Running(t, "lock") /\ w[t].job = job /\ lock[w[t].vec] = NoTask

\* A page is put on the list of the lruvec that is locked.
AddTo(t, lru, l) ==
    IF At(t).on # Off THEN Fault(t, w[t].p, "add")
    ELSE IF At(t).group # w[t].vec THEN Fault(t, w[t].p, "astray")
    ELSE /\ page' = [page EXCEPT ![w[t].p].on = w[t].vec, ![w[t].p].lru = lru]
         /\ w' = [w EXCEPT ![t].pc = l]
         /\ UNCHANGED <<lock, lru_lock, fault>>

\* __pagevec_lru_add_fn; PG_active, the third flag it asserts, is not modelled.
LruAdd(t) ==
    /\ Locks(t, "add")
    /\ IF At(t).lru \/ At(t).unevictable THEN Fault(t, w[t].p, "bug") ELSE AddTo(t, TRUE, "put")

\* The rest of add_page_to_unevictable_list.
Cull(t) == Locks(t, "cull") /\ AddTo(t, At(t).lru, "recheck")

\* __activate_page: the page goes from one list of the lruvec to another.
Activate(t) ==
    /\ Locks(t, "activate")
    /\ IF ~At(t).lru \/ At(t).unevictable \/ At(t).on = w[t].vec
       THEN /\ w' = [w EXCEPT ![t].pc = "put"]
            /\ UNCHANGED <<page, lock, lru_lock, fault>>
       ELSE Fault(t, w[t].p, IF At(t).on = Off THEN "del" ELSE "bare")

\* Mutant: PG_lru is not tested again under the lock.
Isolate_NoRetest(t) ==
    /\ Locks(t, "isolate") \/ Locks(t, "redo")
    /\ IF At(t).on # w[t].vec
       THEN Fault(t, w[t].p, IF At(t).on = Off THEN "del" ELSE "bare")
       ELSE /\ page' = [page EXCEPT ![w[t].p].on = Off, ![w[t].p].lru = FALSE]
            /\ w' = [w EXCEPT ![t].pc = IF w[t].job = "redo" THEN "putback" ELSE "isolated"]
            /\ UNCHANGED <<lock, lru_lock, fault>>

\* Mutant: PG_lru is left on the page that is isolated.
Isolate_NoClear(t) ==
    /\ Locks(t, "isolate") \/ Locks(t, "redo")
    /\ At(t).lru /\ At(t).on = w[t].vec
    /\ page' = [page EXCEPT ![w[t].p].on = Off]
    /\ w' = [w EXCEPT ![t].pc = "isolated"]
    /\ UNCHANGED <<lock, lru_lock, fault>>

\* The rest of isolate_lru_page; it fails when PG_lru has gone.
Isolate(t) ==
    /\ Locks(t, "isolate") \/ Locks(t, "redo")
    /\ IF ~At(t).lru
       THEN /\ w' = [w EXCEPT ![t].pc = "put"]
            /\ UNCHANGED <<page, lock, lru_lock, fault>>
       ELSE IF At(t).on # w[t].vec
       THEN Fault(t, w[t].p, IF At(t).on = Off THEN "del" ELSE "bare")
       ELSE /\ page' = [page EXCEPT ![w[t].p].on = Off, ![w[t].p].lru = FALSE]
            /\ w' = [w EXCEPT ![t].pc = IF w[t].job = "redo" THEN "putback" ELSE "isolated"]
            /\ UNCHANGED <<lock, lru_lock, fault>>

-----------------------------------------------------------------------------
(* A page that is isolated.                                                 *)

\* mem_cgroup_move_account, to another group, before the page goes back.
mem_cgroup_move_account(t, g) ==
    /\ Running(t, "isolated") /\ "move" \in Jobs
    /\ At(t).used /\ At(t).group # g
    /\ page' = [page EXCEPT ![w[t].p].group = g]
    /\ w' = [w EXCEPT ![t].pc = "putback"]
    /\ UNCHANGED <<lock, lru_lock, fault>>

\* putback_lru_page: by a pagevec, or to the unevictable list.
putback_lru_page(t) ==
    /\ Running(t, "putback") \/ Running(t, "isolated")
    /\ IF At(t).lru THEN Fault(t, w[t].p, "bug")
       ELSE /\ page' = [page EXCEPT ![w[t].p].unevictable = FALSE]
            /\ w' = [w EXCEPT ![t].pc = "vec",
                             ![t].job = IF page_evictable(w[t].p) THEN "add" ELSE "cull"]
            /\ UNCHANGED <<lock, lru_lock, fault>>

\* A page on the unevictable list that has become evictable is isolated
\* again; otherwise the reference is dropped.
Recheck(t) ==
    /\ Running(t, "recheck")
    /\ w' = [w EXCEPT ![t] = IF page_evictable(w[t].p) /\ At(t).lru
                            THEN [@ EXCEPT !.pc = "vec", !.job = "redo"]
                            ELSE [@ EXCEPT !.pc = "put"]]
    /\ UNCHANGED <<page, lock, lru_lock, fault>>

-----------------------------------------------------------------------------
(* Compaction: isolate_migratepages_range, under zone->lru_lock.            *)

Compact(t, p) ==
    /\ Starts(t, "compact") /\ lru_lock = NoTask
    /\ page[p].lru /\ ~page[p].unevictable
    /\ lru_lock' = t
    /\ w' = [w EXCEPT ![t] = [Idle EXCEPT !.pc = "cget", !.job = "compact", !.p = p,
                                         !.vec = mem_cgroup_page_lruvec(p)]]
    /\ UNCHANGED <<page, lock, fault>>

\* __isolate_lru_page: a page whose last reference has gone is left alone.
CompactGet(t) ==
    /\ Running(t, "cget")
    /\ IF At(t).count = 0
       THEN /\ lru_lock' = NoTask /\ w' = [w EXCEPT ![t] = Idle]
            /\ UNCHANGED <<page, lock, fault>>
       ELSE IF ~At(t).lru THEN Fault(t, w[t].p, "clear")
       ELSE /\ page' = [page EXCEPT ![w[t].p].count = @ + 1, ![w[t].p].lru = FALSE]
            /\ w' = [w EXCEPT ![t].pc = "cdel"]
            /\ UNCHANGED <<lock, lru_lock, fault>>

\* The page is taken off under the lruvec's lock; it is put back later.
CompactDel(t) ==
    /\ Running(t, "cdel") /\ lock[w[t].vec] = NoTask
    /\ IF At(t).on # w[t].vec
       THEN Fault(t, w[t].p, IF At(t).on = Off THEN "del" ELSE "bare")
       ELSE /\ page' = [page EXCEPT ![w[t].p].on = Off]
            /\ w' = [w EXCEPT ![t].pc = "putback"]
            /\ lru_lock' = NoTask
            /\ UNCHANGED <<lock, fault>>

-----------------------------------------------------------------------------
(* __mem_cgroup_commit_charge with lrucare, under zone->lru_lock.           *)

Charge(t, p, g) ==
    /\ Starts(t, "charge") /\ lru_lock = NoTask
    /\ page[p].cached /\ ~page[p].used
    /\ lru_lock' = t
    /\ page' = [page EXCEPT ![p].count = @ + 1]
    /\ w' = [w EXCEPT ![t] = [Idle EXCEPT !.job = "charge", !.p = p, !.g = g,
                 !.pc = IF page[p].lru THEN "chclear" ELSE "chset", !.vec = page[p].group]]
    /\ UNCHANGED <<lock, fault>>

ChargeClear(t) ==
    /\ Running(t, "chclear")
    /\ IF ~At(t).lru THEN Fault(t, w[t].p, "clear")
       ELSE /\ page' = [page EXCEPT ![w[t].p].lru = FALSE]
            /\ w' = [w EXCEPT ![t].pc = "chdel"]
            /\ UNCHANGED <<lock, lru_lock, fault>>

\* The page is taken off the old list ...
ChargeDel(t) ==
    /\ Running(t, "chdel") /\ lock[w[t].vec] = NoTask
    /\ IF At(t).on # w[t].vec
       THEN Fault(t, w[t].p, IF At(t).on = Off THEN "del" ELSE "bare")
       ELSE /\ page' = [page EXCEPT ![w[t].p].on = Off]
            /\ w' = [w EXCEPT ![t].pc = "chset", ![t].took = {w[t].p}]
            /\ UNCHANGED <<lock, lru_lock, fault>>

\* ... gets its group, and that is all for a page that was not on the LRU ...
ChargeSet(t) ==
    /\ Running(t, "chset")
    /\ IF At(t).lru /\ At(t).group # w[t].g THEN Fault(t, w[t].p, "moved")
       ELSE /\ page' = [page EXCEPT ![w[t].p].group = w[t].g, ![w[t].p].used = TRUE]
            /\ IF w[t].took = {}
               THEN w' = [w EXCEPT ![t].pc = "put"] /\ lru_lock' = NoTask
               ELSE w' = [w EXCEPT ![t].pc = "chlru", ![t].vec = w[t].g]
                    /\ UNCHANGED lru_lock
            /\ UNCHANGED <<lock, fault>>

\* ... is on the LRU again ...
ChargeLru(t) ==
    /\ Running(t, "chlru")
    /\ IF At(t).lru THEN Fault(t, w[t].p, "bug")
       ELSE /\ page' = [page EXCEPT ![w[t].p].lru = TRUE]
            /\ w' = [w EXCEPT ![t].pc = "chadd"]
            /\ UNCHANGED <<lock, lru_lock, fault>>

\* ... and is added to its new list.
ChargeAdd(t) ==
    /\ Running(t, "chadd") /\ lock[w[t].vec] = NoTask
    /\ IF At(t).on # Off THEN Fault(t, w[t].p, "add")
       ELSE /\ page' = [page EXCEPT ![w[t].p].on = w[t].vec]
            /\ w' = [w EXCEPT ![t].pc = "put", ![t].took = {}]
            /\ lru_lock' = NoTask
            /\ UNCHANGED <<lock, fault>>

-----------------------------------------------------------------------------
(* Reclaim of the evictable lists of a group: shrink_inactive_list isolates *)
(* under both locks, shrink_active_list under the lruvec's only.            *)

Shrink(t, kind, g, l) ==
    w' = [w EXCEPT ![t] = [Idle EXCEPT !.pc = l, !.kind = kind, !.g = g]]

shrink_inactive_list(t, g) ==
    /\ Starts(t, "inactive") /\ lru_lock = NoTask
    /\ lru_lock' = t
    /\ Shrink(t, "inactive", g, "rlock")
    /\ UNCHANGED <<page, lock, fault>>

shrink_active_list(t, g) ==
    /\ Starts(t, "active") /\ lock[g] = NoTask
    /\ lock' = [lock EXCEPT ![g] = t]
    /\ Shrink(t, "active", g, "take")
    /\ UNCHANGED <<page, lru_lock, fault>>

\* The task takes the group's lock and goes on at l.
TakeLock(t, from, l) ==
    /\ Running(t, from) /\ lock[w[t].g] = NoTask
    /\ lock' = [lock EXCEPT ![w[t].g] = t]
    /\ w' = [w EXCEPT ![t].pc = l]
    /\ UNCHANGED <<page, lru_lock, fault>>

\* isolate_lru_pages: a page whose last reference has gone (-EBUSY) stays; one
\* without PG_lru (-EINVAL) is a BUG.
isolate_lru_pages(t, p) ==
    /\ Running(t, "take") /\ page[p].on = w[t].g /\ ~page[p].unevictable
    /\ page[p].lru => page[p].count > 0
    /\ IF ~page[p].lru THEN Fault(t, p, "bug")
       ELSE /\ page' = [page EXCEPT ![p] = [@ EXCEPT !.count = @ + 1, !.lru = FALSE, !.on = Off]]
            /\ w' = [w EXCEPT ![t].took = @ \cup {p}]
            /\ UNCHANGED <<lock, lru_lock, fault>>

\* The locks are dropped while shrink_page_list works on the pages.
Isolated(t) ==
    /\ Running(t, "take")
    /\ lock' = [lock EXCEPT ![w[t].g] = NoTask]
    /\ lru_lock' = IF w[t].kind = "inactive" THEN NoTask ELSE lru_lock
    /\ w' = [w EXCEPT ![t] = IF w[t].took = {} THEN Idle ELSE [@ EXCEPT !.pc = "shrink"]]
    /\ UNCHANGED <<page, fault>>

\* shrink_page_list frees a page that nobody else has a reference to.
shrink_page_list(t, p) ==
    /\ Running(t, "shrink") /\ p \in w[t].took
    /\ w[t].kind = "inactive" /\ page_evictable(p)
    /\ page[p].cached /\ page[p].count = 2
    /\ page' = [page EXCEPT ![p] = Free]
    /\ w' = [w EXCEPT ![t].took = @ \ {p}]
    /\ UNCHANGED <<lock, lru_lock, fault>>

\* A page that has become unevictable goes back by putback_lru_page, from
\* shrink_page_list and shrink_active_list without the lock ...
PutUnevictable(t, p, ret) ==
    w' = [w EXCEPT ![t] = [@ EXCEPT !.pc = "putback", !.p = p, !.took = @ \ {p}, !.ret = ret]]

cull_mlocked(t, p) ==
    /\ Running(t, "shrink") /\ p \in w[t].took /\ ~page_evictable(p)
    /\ PutUnevictable(t, p, "shrink")
    /\ UNCHANGED <<page, lock, lru_lock, fault>>

\* shrink_active_list has put every page that is unevictable back by now;
\* shrink_page_list keeps the pages that it cannot lock.
LockAgain(t) ==
    /\ w[t].kind = "active" => \A p \in w[t].took : page_evictable(p)
    /\ TakeLock(t, "shrink", "back")

\* ... and from putback_inactive_pages with the lock dropped meanwhile.
CullInactive(t, p) ==
    /\ Running(t, "back") /\ p \in w[t].took
    /\ w[t].kind = "inactive" /\ ~page_evictable(p)
    /\ IF page[p].lru THEN Fault(t, p, "bug")
       ELSE /\ lock' = [lock EXCEPT ![w[t].g] = NoTask]
            /\ PutUnevictable(t, p, "relock")
            /\ UNCHANGED <<page, lru_lock, fault>>

\* Mutant: the page goes back to the list it was taken from.
PutBack_OldList(t, p) ==
    /\ Running(t, "back") /\ p \in w[t].took
    /\ w[t].kind = "inactive" => page_evictable(p)
    /\ ~page[p].lru
    /\ page' = [page EXCEPT ![p] =
           IF @.count = 1 THEN Free
           ELSE [Switched(@) EXCEPT !.count = @ - 1, !.lru = TRUE, !.on = w[t].g]]
    /\ w' = [w EXCEPT ![t].took = @ \ {p}]
    /\ UNCHANGED <<lock, lru_lock, fault>>

\* Mutant: the page is not put on a list.
PutBack_Dropped(t, p) ==
    /\ Running(t, "back") /\ p \in w[t].took
    /\ page' = [page EXCEPT ![p].count = @ - 1]
    /\ w' = [w EXCEPT ![t].took = @ \ {p}]
    /\ UNCHANGED <<lock, lru_lock, fault>>

\* putback_inactive_pages, move_active_pages_to_lru: the page is added to the
\* list of its group, whose lock is the one held if the group is still g, and
\* the reference dropped.
PutBack(t, p) ==
    /\ Running(t, "back") /\ p \in w[t].took
    /\ w[t].kind = "inactive" => page_evictable(p)
    /\ IF page[p].lru THEN Fault(t, p, "bug")
       ELSE IF lock[mem_cgroup_page_lruvec(p)] # t THEN Fault(t, p, "bare")
       ELSE /\ page' = [page EXCEPT ![p] =
                   IF @.count = 1 THEN Free
                   ELSE [Switched(@) EXCEPT !.count = @ - 1, !.lru = TRUE, !.on = w[t].g]]
            /\ w' = [w EXCEPT ![t].took = @ \ {p}]
            /\ UNCHANGED <<lock, lru_lock, fault>>

Shrunk(t) ==
    /\ Running(t, "back") /\ w[t].took = {}
    /\ lock' = [lock EXCEPT ![w[t].g] = NoTask]
    /\ w' = [w EXCEPT ![t] = Idle]
    /\ UNCHANGED <<page, lru_lock, fault>>

-----------------------------------------------------------------------------
OnPage(t, p) ==
    \/ \E g \in Groups \cup {Off} : lru_cache_add(t, p, g)
    \/ Truncate(t, p)
    \/ activate_page(t, p)
    \/ isolate_lru_page(t, p)
    \/ Compact(t, p)
    \/ \E g \in Groups : Charge(t, p, g)
    \/ isolate_lru_pages(t, p)
    \/ shrink_page_list(t, p)
    \/ cull_mlocked(t, p)
    \/ CullInactive(t, p)
    \/ PutBack(t, p)

Step(t) ==
    \/ Put(t)
    \/ Release(t)
    \/ Freeing(t)
    \/ ReadVec(t)
    \/ LruAdd(t)
    \/ Cull(t)
    \/ Activate(t)
    \/ Isolate(t)
    \/ \E g \in Groups : mem_cgroup_move_account(t, g)
    \/ putback_lru_page(t)
    \/ Recheck(t)
    \/ CompactGet(t)
    \/ CompactDel(t)
    \/ ChargeClear(t)
    \/ ChargeDel(t)
    \/ ChargeSet(t)
    \/ ChargeLru(t)
    \/ ChargeAdd(t)
    \/ \E g \in Groups : shrink_inactive_list(t, g) \/ shrink_active_list(t, g)
    \/ TakeLock(t, "rlock", "take")
    \/ Isolated(t)
    \/ LockAgain(t)
    \/ TakeLock(t, "relock", "back")
    \/ Shrunk(t)

\* A kernel that has hit a BUG does nothing more.
Halted == fault # NoFault /\ UNCHANGED vars

Next ==
    \/ \E t \in Tasks : Step(t) \/ \E p \in Pages : OnPage(t, p)
    \/ \E p \in Pages : Mlock(p)
    \/ Halted

Spec == Init /\ [][Next]_vars

-----------------------------------------------------------------------------
\* The lists keep together: no page is added while it is on a list or freed
\* while it is on one; and a page that is on none is deleted, or PG_lru cleared
\* twice, only while compaction or a charge handles PG_lru without the lruvec's
\* lock or a page has PG_lru before it is on the unevictable list.
ListsIntact ==
    /\ fault.what \notin {"add", "freed"}
    /\ fault.what = "del" => fault.why \cap {"compact", "charge", "cull"} # {}
    /\ fault.what = "clear" => fault.why \cap {"compact", "charge"} # {}

\* The assertions about PG_lru in isolate_lru_pages, putback_lru_page and the
\* pagevec code hold, unless PG_lru of the page was cleared ahead of the lock by
\* a release, a compaction or a charge that has yet to take it off.
AssertionsHold ==
    fault.what = "bug" => fault.why \cap {"release", "compact", "charge"} # {}

\* A list is changed under its own lruvec's lock and holds pages of its own
\* group, unless the page got another group after its lruvec was read, is being
\* charged, or is uncharged and lost PG_lru to compaction while on the list.
OwnLists ==
    fault.what \in {"bare", "astray", "moved"} =>
        fault.why \cap {"regroup", "charge", "compact"} # {}

\* A page no task is working on is on its group's list and has PG_lru, if the
\* page cache has it, and is free otherwise: none is lost, none stays behind.
AtRest ==
    \A p \in Pages :
        (fault = NoFault /\ \A t \in Tasks : w[t].p # p /\ p \notin w[t].took)
        => IF page[p].cached
           THEN page[p].count = 1 /\ page[p].lru /\ page[p].on = page[p].group
           ELSE page[p] = Free

=============================================================================
