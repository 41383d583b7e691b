--------------------------- MODULE LoopTranslate ---------------------------
(***************************************************************************)
(* Address translation in the virtualized block device driver (loop.c of   *)
(* the driver-alone tree).                                                 *)
(*                                                                         *)
(* A client is a task inside redirect_bio(): it translates the file block  *)
(* of a bio into a block of the host device and submits the bio there.     *)
(* It looks the block up in the cache; on a miss it queues a struct        *)
(* cio_req and sleeps.  One kernel thread per device (loop_thread) pops    *)
(* the requests, asks the host ext3 for the mapping, answers the client    *)
(* and prefetches the following blocks into the cache.  The same thread    *)
(* serves flushes with vfs_fsync(); LOOP_DIRTY tells clients whether there *)
(* is a mapping that such a flush still has to make durable.               *)
(*                                                                         *)
(* A bio here touches one block.  Spinlocks make a cache or list operation *)
(* one step; what happens after a lock is dropped is a step of its own.    *)
(* Local variables are reset where they go out of scope.                   *)
(***************************************************************************)
EXTENDS Naturals, Sequences, FiniteSets

CONSTANTS
    Clients,          \* tasks that may be inside redirect_bio
    NoClient,         \* the thread is not serving anybody
    NBlocks,          \* blocks of the virtual device
    prefetch_blocks,  \* module parameter of the same name
    LRU_LENGTH,       \* capacity of the block cache
    NPhys,            \* blocks of the host device are 1 .. NPhys
    Bios,             \* the kinds of bio that are submitted
    FailAt,           \* prefetch positions at which get_block may fail
    FsyncMayFail,     \* may vfs_fsync return an error?
    HostActs,         \* does the host commit its journal, and crash?
    Rebinds           \* is the image detached and bound again?

Blocks  == 0 .. NBlocks - 1
\* The thread maps past the end of the device when it prefetches.
FBlocks == 0 .. NBlocks + prefetch_blocks - 2
Phys    == 1 .. NPhys
Nodes   == 1 .. LRU_LENGTH
Hole    == 0          \* b_blocknr of an unmapped block
NULL    == 0          \* no cache node

BioKind == [write : BOOLEAN, empty : BOOLEAN, flush : BOOLEAN, fua : BOOLEAN]
NoBio   == [write |-> FALSE, empty |-> TRUE, flush |-> FALSE, fua |-> FALSE]
NoNode  == [b_blocknr |-> Hole, blk_local |-> 0]

\* The locals of loop_thread between two requests.
NoReq == [cio |-> NoClient, create |-> FALSE, cur |-> NULL, i |-> 0, j |-> 0,
          blk_start |-> 0, b_blocknr |-> Hole, got_num |-> 0, node |-> NULL]

\* Block maps of a file: no host block belongs to two file blocks.
FileMaps == {f \in [FBlocks -> Phys \cup {Hole}] :
                \A a, b \in FBlocks : f[a] = f[b] /\ f[a] # Hole => a = b}

ASSUME SizesAssumption ==
    /\ NBlocks \in Nat \ {0}
    /\ prefetch_blocks \in Nat \ {0}
    /\ LRU_LENGTH \in Nat \ {0}
    /\ NPhys \in Nat

ASSUME InputsAssumption ==
    /\ NoClient \notin Clients
    /\ Bios \subseteq BioKind
    /\ FailAt \subseteq Nat
    /\ FsyncMayFail \in BOOLEAN
    /\ HostActs \in BOOLEAN
    /\ Rebinds \in BOOLEAN

VARIABLES
    fmap, durable,        \* block map of the backing file: in memory, on disk
    dirty,                \* LOOP_DIRTY in lo_dirty_state
    node, hashed, lru, lru_count,       \* the block cache
    queue,                \* lo_cio_list
    cflush, cerr, cphy, cdone,          \* struct cio_req of each client
    pc, ptr, phys,        \* each client inside redirect_bio
    bio, blk,             \* the guest's bio that a client works on
    inflight, ended,      \* is it at the host device; how often was it ended
    tpc, t,               \* loop_thread
    stale,                \* history: ptr was recycled since the lookup
    fuaerr,               \* history: the flush behind the FUA write failed
    late,                 \* history: a cio_req was written to after its end
    acked, before,        \* history: completed writes; those before a flush
    synced, fuad,         \* history: writes that completed flushes, FUA cover
    forgotten             \* history: blocks whose dirty bit a rebind dropped

fileVars   == <<fmap, durable, dirty>>
cacheVars  == <<node, hashed, lru, lru_count>>
cioVars    == <<cflush, cerr, cphy, cdone>>
clientVars == <<pc, ptr, phys, stale>>
bioVars    == <<bio, blk, before>>
endVars    == <<inflight, ended, fuaerr>>
threadVars == <<tpc, t>>
ackVars    == <<acked, synced, fuad>>
flawVars   == <<late, forgotten>>
vars == <<fileVars, cacheVars, queue, cioVars, clientVars, bioVars, endVars,
          threadVars, ackVars, flawVars>>

-----------------------------------------------------------------------------
(* A sparse image file has just been bound (loop_set_fd).                   *)
Init ==
    /\ fmap = [b \in FBlocks |-> Hole]
    /\ durable = fmap
    /\ dirty = FALSE
    /\ node = [n \in Nodes |-> NoNode]
    /\ hashed = {}
    /\ lru = <<>>
    /\ lru_count = 0
    /\ queue = <<>>
    /\ cflush = [c \in Clients |-> FALSE]
    /\ cerr = [c \in Clients |-> FALSE]
    /\ cphy = [c \in Clients |-> Hole]
    /\ cdone = [c \in Clients |-> FALSE]
    /\ pc = [c \in Clients |-> "idle"]
    /\ ptr = [c \in Clients |-> NULL]
    /\ phys = [c \in Clients |-> Hole]
    /\ stale = [c \in Clients |-> FALSE]
    /\ bio = [c \in Clients |-> NoBio]
    /\ blk = [c \in Clients |-> 0]
    /\ before = [c \in Clients |-> {}]
    /\ inflight = [c \in Clients |-> FALSE]
    /\ ended = [c \in Clients |-> 1]
    /\ fuaerr = [c \in Clients |-> FALSE]
    /\ tpc = "wait"
    /\ t = NoReq
    /\ acked = {}
    /\ synced = {}
    /\ fuad = {}
    /\ late = FALSE
    /\ forgotten = {}

-----------------------------------------------------------------------------
(* redirect_bio, run by a client.                                           *)

\* Where redirect_bio goes once the flush in front of the data is settled.
AfterFlush(c) == IF bio[c].empty THEN "sendflush" ELSE "lookup"

Goto(c, l) == pc' = [pc EXCEPT ![c] = l]

\* bio_endio on the guest's bio.
EndBio(c) == ended' = [ended EXCEPT ![c] = @ + 1]

\* The guest's bio is no longer anybody's business.
Forget(c) ==
    /\ bio' = [bio EXCEPT ![c] = NoBio]
    /\ blk' = [blk EXCEPT ![c] = 0]
    /\ before' = [before EXCEPT ![c] = {}]

\* A guest submits a bio.  An empty one without flags is ended at once.
Submit(c, b, k) ==
    /\ pc[c] = "idle" /\ ~inflight[c]
    /\ \/ /\ k.flush \/ k.fua \/ ~k.empty
          /\ Goto(c, IF k.flush \/ k.empty THEN "preflush" ELSE "lookup")
          /\ ended' = [ended EXCEPT ![c] = 0]
          /\ bio' = [bio EXCEPT ![c] = k]
          /\ blk' = [blk EXCEPT ![c] = b]
          /\ before' = [before EXCEPT ![c] = IF k.flush THEN acked ELSE {}]
       \/ /\ ~k.flush /\ ~k.fua /\ k.empty
          /\ ended' = [ended EXCEPT ![c] = 1]
          /\ UNCHANGED <<pc, bioVars>>
    /\ fuaerr' = [fuaerr EXCEPT ![c] = FALSE]
    /\ UNCHANGED <<fileVars, cacheVars, queue, cioVars, ptr, phys, stale,
                   inflight, threadVars, ackVars, flawVars>>

\* test_bit(LOOP_DIRTY) before a flush ...
TestDirty(c) ==
    /\ pc[c] = "preflush"
    /\ Goto(c, IF dirty THEN "enqpre" ELSE AfterFlush(c))
    /\ UNCHANGED <<fileVars, cacheVars, queue, cioVars, ptr, phys, stale,
                   bioVars, endVars, threadVars, ackVars, flawVars>>

\* redirect_bio returns; the host device may still have the bio.
Return(c) ==
    /\ Goto(c, "idle")
    /\ IF inflight[c] THEN UNCHANGED bioVars ELSE Forget(c)

\* ... and behind a FUA write.
TestDirtyFua(c) ==
    /\ pc[c] = "fuatest"
    /\ \/ dirty /\ Goto(c, "enqfua") /\ UNCHANGED bioVars
       \/ ~dirty /\ Return(c)
    /\ UNCHANGED <<fileVars, cacheVars, queue, cioVars, ptr, phys, stale,
                   endVars, threadVars, ackVars, flawVars>>

\* cio_make_request and cio_make_request_flush up to wait_for_completion.
Enqueue(c) ==
    /\ \/ pc[c] = "enqpre" /\ Goto(c, "waitpre")
       \/ pc[c] = "enqmap" /\ Goto(c, "waitmap")
       \/ pc[c] = "enqfua" /\ Goto(c, "waitfua")
    /\ cflush' = [cflush EXCEPT ![c] = pc[c] # "enqmap"]
    /\ cerr' = [cerr EXCEPT ![c] = FALSE]
    /\ cdone' = [cdone EXCEPT ![c] = FALSE]
    /\ queue' = Append(queue, c)
    /\ UNCHANGED <<fileVars, cacheVars, cphy, ptr, phys, stale, bioVars,
                   endVars, threadVars, ackVars, flawVars>>

\* wait_for_completion returns and the cio_req goes out of scope.
Woken(c) ==
    /\ cdone[c]
    /\ cflush' = [cflush EXCEPT ![c] = FALSE]
    /\ cerr' = [cerr EXCEPT ![c] = FALSE]
    /\ cphy' = [cphy EXCEPT ![c] = Hole]
    /\ cdone' = [cdone EXCEPT ![c] = FALSE]

\* Mutant: the error path of the flush ends the bio and forgets to return.
WakePre_NoReturn(c) ==
    /\ pc[c] = "waitpre"
    /\ Woken(c)
    /\ Goto(c, AfterFlush(c))
    /\ IF cerr[c] THEN EndBio(c) ELSE UNCHANGED ended
    /\ UNCHANGED <<fileVars, cacheVars, queue, ptr, phys, stale, bioVars,
                   inflight, fuaerr, threadVars, ackVars, flawVars>>

\* The flush in front of the data (or an empty flush) has been served.
WakePre(c) ==
    /\ pc[c] = "waitpre"
    /\ Woken(c)
    /\ \/ cerr[c] /\ Return(c) /\ EndBio(c)
       \/ ~cerr[c] /\ Goto(c, AfterFlush(c)) /\ UNCHANGED <<bioVars, ended>>
    /\ UNCHANGED <<fileVars, cacheVars, queue, ptr, phys, stale, inflight,
                   fuaerr, threadVars, ackVars, flawVars>>

\* find_cache_node: the bucket is searched under its lock.
Found(b) == {n \in hashed : node[n].blk_local = b}

Lookup(c) ==
    /\ pc[c] = "lookup"
    /\ \/ /\ Found(blk[c]) = {}
          /\ Goto(c, "enqmap")
          /\ UNCHANGED ptr
       \/ \E n \in Found(blk[c]) :
             /\ ptr' = [ptr EXCEPT ![c] = n]
             /\ Goto(c, "readnode")
    /\ UNCHANGED <<fileVars, cacheVars, queue, cioVars, phys, stale, bioVars,
                   endVars, threadVars, ackVars, flawVars>>

\* block_cache_lookup reads node->b_blocknr after the bucket lock is gone.
ReadNode(c) ==
    /\ pc[c] = "readnode"
    /\ phys' = [phys EXCEPT ![c] = node[ptr[c]].b_blocknr]
    /\ Goto(c, IF node[ptr[c]].b_blocknr = Hole THEN "enqmap" ELSE "send")
    /\ ptr' = [ptr EXCEPT ![c] = NULL]
    /\ UNCHANGED <<fileVars, cacheVars, queue, cioVars, stale, bioVars, endVars,
                   threadVars, ackVars, flawVars>>

\* Mutant: the client does not look at the error of its request.
WakeMap_NoErrorTest(c) ==
    /\ pc[c] = "waitmap"
    /\ Woken(c)
    /\ phys' = [phys EXCEPT ![c] = cphy[c]]
    /\ Goto(c, "send")
    /\ UNCHANGED <<fileVars, cacheVars, queue, ptr, stale, bioVars, endVars,
                   threadVars, ackVars, flawVars>>

\* The mapping has been served.
WakeMap(c) ==
    /\ pc[c] = "waitmap"
    /\ Woken(c)
    /\ \/ cerr[c] /\ Return(c) /\ EndBio(c) /\ UNCHANGED phys
       \/ /\ ~cerr[c]
          /\ phys' = [phys EXCEPT ![c] = cphy[c]]
          /\ Goto(c, "send")
          /\ UNCHANGED <<bioVars, ended>>
    /\ UNCHANGED <<fileVars, cacheVars, queue, ptr, stale, inflight, fuaerr,
                   threadVars, ackVars, flawVars>>

\* submit_bio of the redirected bio, or of the empty flush bio.
Send(c) ==
    /\ \/ pc[c] = "sendflush" /\ Goto(c, "idle")
       \/ pc[c] = "send" /\ Goto(c, IF bio[c].fua THEN "fuatest" ELSE "idle")
    /\ inflight' = [inflight EXCEPT ![c] = TRUE]
    /\ phys' = [phys EXCEPT ![c] = Hole]
    /\ stale' = [stale EXCEPT ![c] = FALSE]
    /\ UNCHANGED <<fileVars, cacheVars, queue, cioVars, ptr, bioVars, ended,
                   fuaerr, threadVars, ackVars, flawVars>>

\* The flush behind a FUA write is done; an error ends the bio once more.
WakeFua(c) ==
    /\ pc[c] = "waitfua"
    /\ Woken(c)
    /\ Return(c)
    /\ \/ cerr[c] /\ EndBio(c) /\ fuaerr' = [fuaerr EXCEPT ![c] = TRUE]
       \/ ~cerr[c] /\ UNCHANGED <<ended, fuaerr>>
    /\ UNCHANGED <<fileVars, cacheVars, queue, ptr, phys, stale, inflight,
                   threadVars, ackVars, flawVars>>

\* lo_end_bio or sync_end_bio: the host device is done with the bio.
LowerDone(c, ok) ==
    /\ inflight[c]
    /\ inflight' = [inflight EXCEPT ![c] = FALSE]
    /\ EndBio(c)
    /\ LET data == IF ok /\ bio[c].write /\ ~bio[c].empty THEN {blk[c]} ELSE {}
       IN  /\ acked' = acked \cup data
           /\ fuad' = IF bio[c].fua THEN fuad \cup data ELSE fuad
           /\ synced' = IF ok /\ bio[c].flush THEN synced \cup before[c]
                                              ELSE synced
    /\ IF pc[c] = "idle" THEN Forget(c) ELSE UNCHANGED bioVars
    /\ UNCHANGED <<fileVars, cacheVars, queue, cioVars, clientVars, fuaerr,
                   threadVars, flawVars>>

-----------------------------------------------------------------------------
(* loop_thread.  t.cio is the request being served, t.i the position in the *)
(* prefetch loop.                                                           *)

\* Pop the head of lo_cio_list; for a mapping request, search the cache once.
Pop ==
    /\ tpc = "wait" /\ queue # <<>>
    /\ queue' = Tail(queue)
    /\ LET c   == Head(queue)
           req == [NoReq EXCEPT !.cio = c, !.create = bio[c].write,
                                !.blk_start = blk[c]]
       IN  \/ /\ cflush[c]
              /\ tpc' = "fsync"
              /\ t' = [NoReq EXCEPT !.cio = c]
           \/ /\ ~cflush[c] /\ Found(blk[c]) = {}
              /\ tpc' = "getblk"
              /\ t' = req
           \/ /\ ~cflush[c]
              /\ tpc' = "hit"
              /\ \E n \in Found(blk[c]) : t' = [req EXCEPT !.cur = n]
    /\ UNCHANGED <<fileVars, cacheVars, cioVars, clientVars, bioVars, endVars,
                   ackVars, flawVars>>

\* The block map reaches the disk, the blocks a rebind forgot included.
Persist ==
    /\ durable' = fmap
    /\ forgotten' = {b \in forgotten : fmap[b] = Hole}

\* vfs_fsync on the backing file: its block map reaches the disk, or not.
Fsync ==
    /\ tpc = "fsync"
    /\ \/ /\ Persist
          /\ tpc' = "synced"
          /\ UNCHANGED cerr
       \/ /\ FsyncMayFail
          /\ cerr' = [cerr EXCEPT ![t.cio] = TRUE]
          /\ tpc' = "complete"
          /\ UNCHANGED <<durable, forgotten>>
    /\ UNCHANGED <<fmap, dirty, cacheVars, queue, cflush, cphy, cdone,
                   clientVars, bioVars, endVars, t, ackVars, late>>

ClearDirty ==
    /\ tpc = "synced"
    /\ dirty' = FALSE
    /\ tpc' = "complete"
    /\ UNCHANGED <<fmap, durable, cacheVars, queue, cioVars, clientVars,
                   bioVars, endVars, t, ackVars, flawVars>>

\* The client sleeps in wait_for_completion.
Waiting(c) == pc[c] \in {"waitpre", "waitmap", "waitfua"}

\* The thread reports the failure of a prefetch in the request it answered at
\* position 0, whose client has woken up and left the function it lived in.
Expired == t.i > 0 /\ ~(Waiting(t.cio) /\ cdone[t.cio])

\* complete() after a flush, and after get_block has failed.
Complete ==
    /\ tpc = "complete"
    /\ cdone' = [cdone EXCEPT ![t.cio] = TRUE]
    /\ late' = (late \/ Expired)
    /\ tpc' = "wait" /\ t' = NoReq
    /\ UNCHANGED <<fileVars, cacheVars, queue, cflush, cerr, cphy, clientVars,
                   bioVars, endVars, ackVars, forgotten>>

\* Answer a request with host block p.
Reply(p) ==
    /\ cphy' = [cphy EXCEPT ![t.cio] = p]
    /\ cerr' = [cerr EXCEPT ![t.cio] = FALSE]
    /\ cdone' = [cdone EXCEPT ![t.cio] = TRUE]

\* Somebody else's request brought the block into the cache meanwhile.
Hit ==
    /\ tpc = "hit"
    /\ Reply(node[t.cur].b_blocknr)
    /\ tpc' = "wait" /\ t' = NoReq
    /\ UNCHANGED <<fileVars, cacheVars, queue, cflush, clientVars, bioVars,
                   endVars, ackVars, flawVars>>

\* Mutant: the client is answered at every position of the prefetch loop.
AfterGet_EveryPosition(r) == "answer"

\* What follows a successful get_block that left request state r.
AfterGet(r) == IF r.i = 0 THEN "answer"
               ELSE IF r.b_blocknr # Hole THEN "add" ELSE "skip"

(* get_block of the host file system for up to prefetch_blocks - t.i blocks. *)
GetBlockFails ==
    /\ t.i \in FailAt
    /\ cerr' = [cerr EXCEPT ![t.cio] = TRUE]
    /\ late' = (late \/ Expired)
    /\ tpc' = "complete"
    /\ UNCHANGED <<fmap, t>>

Got(p, g) == t' = [t EXCEPT !.b_blocknr = p, !.got_num = g, !.j = 0]

\* The next g blocks are mapped, to g consecutive host blocks.
Mapped(g) ==
    /\ fmap[t.blk_start] # Hole
    /\ \A k \in 0 .. g - 1 : fmap[t.blk_start + k] = fmap[t.blk_start] + k
    /\ Got(fmap[t.blk_start], g)
    /\ UNCHANGED fmap

\* A hole is reported by b_blocknr = 0; b_size keeps its value.
Unmapped ==
    /\ fmap[t.blk_start] = Hole /\ ~t.create
    /\ Got(Hole, prefetch_blocks - t.i)
    /\ UNCHANGED fmap

\* The host allocates consecutive blocks from p on to the next g blocks.
Allocate(g, p) ==
    /\ t.create
    /\ \A k \in 0 .. g - 1 : /\ fmap[t.blk_start + k] = Hole
                             /\ p + k \in Phys
                             /\ \A b \in FBlocks : fmap[b] # p + k
    /\ fmap' = [b \in FBlocks |->
                  IF b \in t.blk_start .. t.blk_start + g - 1
                  THEN p + (b - t.blk_start) ELSE fmap[b]]
    /\ Got(p, g)

GetBlockSucceeds ==
    /\ \/ \E g \in 1 .. prefetch_blocks - t.i : Mapped(g)
       \/ Unmapped
       \/ \E g \in 1 .. prefetch_blocks - t.i, p \in Phys : Allocate(g, p)
    /\ tpc' = IF t.create THEN "setdirty" ELSE AfterGet(t')
    /\ UNCHANGED <<cerr, late>>

GetBlock ==
    /\ tpc = "getblk"
    /\ GetBlockFails \/ GetBlockSucceeds
    /\ UNCHANGED <<durable, dirty, cacheVars, queue, cflush, cphy, cdone,
                   clientVars, bioVars, endVars, ackVars, forgotten>>

\* Mutant: LOOP_DIRTY is not set after an allocation.
SetDirty_Forgotten ==
    /\ tpc = "setdirty"
    /\ tpc' = AfterGet(t)
    /\ UNCHANGED <<fileVars, cacheVars, queue, cioVars, clientVars, bioVars,
                   endVars, t, ackVars, flawVars>>

SetDirty ==
    /\ tpc = "setdirty"
    /\ dirty' = TRUE
    /\ tpc' = AfterGet(t)
    /\ UNCHANGED <<fmap, durable, cacheVars, queue, cioVars, clientVars,
                   bioVars, endVars, t, ackVars, flawVars>>

\* The first block answers the client, even when it is a hole.
Answer ==
    /\ tpc = "answer"
    /\ Reply(t.b_blocknr)
    /\ tpc' = IF t.b_blocknr # Hole THEN "add" ELSE "skip"
    /\ UNCHANGED <<fileVars, cacheVars, queue, cflush, clientVars, bioVars,
                   endVars, t, ackVars, flawVars>>

\* The prefetch loop moves n positions on, and ends at prefetch_blocks.
Advance(n) ==
    IF t.i + n < prefetch_blocks
    THEN /\ tpc' = "getblk"
         /\ t' = [t EXCEPT !.i = @ + n, !.blk_start = @ + n, !.j = 0,
                           !.b_blocknr = Hole, !.got_num = 0, !.node = NULL]
    ELSE tpc' = "wait" /\ t' = NoReq

\* Mutant: the loop variable is not moved past a hole.
Skip_NoAdvance ==
    /\ tpc = "skip"
    /\ Advance(0)
    /\ UNCHANGED <<fileVars, cacheVars, queue, cioVars, clientVars, bioVars,
                   endVars, ackVars, flawVars>>

Skip ==
    /\ tpc = "skip"
    /\ Advance(1)
    /\ UNCHANGED <<fileVars, cacheVars, queue, cioVars, clientVars, bioVars,
                   endVars, ackVars, flawVars>>

(* add_cache(t.b_blocknr + t.j, t.blk_start + t.j).                         *)

\* Mutant: every block of the extent is cached with its first host block.
Insert_FirstBlockOnly(n) ==
    /\ node' = [node EXCEPT ![n] = [b_blocknr |-> t.b_blocknr,
                                    blk_local |-> t.blk_start + t.j]]
    /\ hashed' = hashed \cup {n}
    /\ lru' = Append(lru, n)
    /\ IF t.j + 1 < t.got_num
       THEN tpc' = "add" /\ t' = [t EXCEPT !.j = @ + 1, !.node = NULL]
       ELSE Advance(t.got_num)

\* The node is filled in and put in its bucket and at the young end of lru.
Insert(n) ==
    /\ node' = [node EXCEPT ![n] = [b_blocknr |-> t.b_blocknr + t.j,
                                    blk_local |-> t.blk_start + t.j]]
    /\ hashed' = hashed \cup {n}
    /\ lru' = Append(lru, n)
    /\ IF t.j + 1 < t.got_num
       THEN tpc' = "add" /\ t' = [t EXCEPT !.j = @ + 1, !.node = NULL]
       ELSE Advance(t.got_num)

AddNew ==
    /\ tpc = "add" /\ lru_count < LRU_LENGTH
    /\ lru_count' = lru_count + 1
    /\ Insert(lru_count + 1)
    /\ UNCHANGED <<fileVars, queue, cioVars, clientVars, bioVars, endVars,
                   ackVars, flawVars>>

\* Mutant: the recycled node stays in its bucket.
Recycle_StaysHashed ==
    /\ tpc = "add" /\ lru_count >= LRU_LENGTH
    /\ t' = [t EXCEPT !.node = Head(lru)]
    /\ lru' = Tail(lru)
    /\ tpc' = "reuse"
    /\ UNCHANGED <<fileVars, node, hashed, lru_count, queue, cioVars,
                   clientVars, bioVars, endVars, ackVars, flawVars>>

\* The cache is full: the oldest node leaves lru and its bucket ...
Recycle ==
    /\ tpc = "add" /\ lru_count >= LRU_LENGTH
    /\ t' = [t EXCEPT !.node = Head(lru)]
    /\ lru' = Tail(lru)
    /\ hashed' = hashed \ {Head(lru)}
    /\ tpc' = "reuse"
    /\ UNCHANGED <<fileVars, node, lru_count, queue, cioVars, clientVars,
                   bioVars, endVars, ackVars, flawVars>>

\* ... and is overwritten, under the eyes of whoever still points to it.
Reuse ==
    /\ tpc = "reuse"
    /\ Insert(t.node)
    /\ stale' = [c \in Clients |->
                   stale[c] \/ (pc[c] = "readnode" /\ ptr[c] = t.node)]
    /\ UNCHANGED <<fileVars, lru_count, queue, cioVars, pc, ptr, phys, bioVars,
                   endVars, ackVars, flawVars>>

-----------------------------------------------------------------------------
(* The host, and the administrator of the device.                           *)

\* The host file system commits its journal whenever it likes.
HostCommit ==
    /\ HostActs
    /\ Persist
    /\ UNCHANGED <<fmap, dirty, cacheVars, queue, cioVars, clientVars, bioVars,
                   endVars, threadVars, ackVars, late>>

\* loop_set_fd: nothing is cached, and the block map counts as clean.
Bind ==
    /\ dirty' = FALSE
    /\ node' = [n \in Nodes |-> NoNode]
    /\ hashed' = {}
    /\ lru' = <<>>
    /\ lru_count' = 0
    /\ queue' = <<>>

\* The host crashes and the image is bound again: only the disk is left.
Crash ==
    /\ HostActs
    /\ Bind
    /\ fmap' = durable
    /\ acked' = synced
    /\ cflush' = [c \in Clients |-> FALSE]
    /\ cerr' = [c \in Clients |-> FALSE]
    /\ cphy' = [c \in Clients |-> Hole]
    /\ cdone' = [c \in Clients |-> FALSE]
    /\ pc' = [c \in Clients |-> "idle"]
    /\ ptr' = [c \in Clients |-> NULL]
    /\ phys' = [c \in Clients |-> Hole]
    /\ stale' = [c \in Clients |-> FALSE]
    /\ bio' = [c \in Clients |-> NoBio]
    /\ blk' = [c \in Clients |-> 0]
    /\ before' = [c \in Clients |-> {}]
    /\ inflight' = [c \in Clients |-> FALSE]
    /\ ended' = [c \in Clients |-> 1]
    /\ fuaerr' = [c \in Clients |-> FALSE]
    /\ tpc' = "wait" /\ t' = NoReq
    /\ UNCHANGED <<durable, synced, fuad, flawVars>>

\* LOOP_CLR_FD when nobody uses the device, then LOOP_SET_FD of the image;
\* nothing is written out, and LOOP_DIRTY no longer stands for these blocks.
Rebind ==
    /\ Rebinds
    /\ \A c \in Clients : pc[c] = "idle" /\ ~inflight[c]
    /\ tpc = "wait" /\ queue = <<>>
    /\ Bind
    /\ forgotten' = forgotten \cup {b \in FBlocks : durable[b] # fmap[b]}
    /\ UNCHANGED <<fmap, durable, cioVars, clientVars, bioVars, endVars,
                   threadVars, ackVars, late>>

-----------------------------------------------------------------------------
ClientStep(c) ==
    \/ TestDirty(c) \/ TestDirtyFua(c) \/ Enqueue(c) \/ WakePre(c) \/ Lookup(c)
    \/ ReadNode(c) \/ WakeMap(c) \/ Send(c) \/ WakeFua(c)

ThreadStep ==
    \/ Pop \/ Fsync \/ ClearDirty \/ Complete \/ Hit \/ GetBlock \/ SetDirty
    \/ Answer \/ Skip \/ AddNew \/ Recycle \/ Reuse

Next ==
    \/ \E c \in Clients, b \in Blocks, k \in Bios : Submit(c, b, k)
    \/ \E c \in Clients : ClientStep(c)
    \/ \E c \in Clients, ok \in BOOLEAN : LowerDone(c, ok)
    \/ ThreadStep
    \/ HostCommit
    \/ Crash
    \/ Rebind

Spec == Init /\ [][Next]_vars

-----------------------------------------------------------------------------
(* Types.                                                                   *)
ClientPC == {"idle", "preflush", "enqpre", "waitpre", "sendflush", "lookup",
             "readnode", "enqmap", "waitmap", "send", "fuatest", "enqfua",
             "waitfua"}
ThreadPC == {"wait", "fsync", "synced", "complete", "hit", "getblk", "setdirty",
             "answer", "skip", "add", "reuse"}
Request  == [cio : Clients \cup {NoClient}, create : BOOLEAN,
             cur : Nodes \cup {NULL}, i : Nat, j : Nat, blk_start : Nat,
             b_blocknr : Phys \cup {Hole}, got_num : Nat,
             node : Nodes \cup {NULL}]

FileTypes ==
    /\ fmap \in FileMaps
    /\ durable \in FileMaps
    /\ dirty \in BOOLEAN
CacheTypes ==
    /\ node \in [Nodes -> [b_blocknr : Phys \cup {Hole}, blk_local : FBlocks]]
    /\ hashed \in SUBSET Nodes
    /\ lru \in Seq(Nodes)
    /\ lru_count \in 0 .. LRU_LENGTH
CioTypes ==
    /\ queue \in Seq(Clients)
    /\ cflush \in [Clients -> BOOLEAN]
    /\ cerr \in [Clients -> BOOLEAN]
    /\ cphy \in [Clients -> Phys \cup {Hole}]
    /\ cdone \in [Clients -> BOOLEAN]
ClientTypes ==
    /\ pc \in [Clients -> ClientPC]
    /\ ptr \in [Clients -> Nodes \cup {NULL}]
    /\ phys \in [Clients -> Phys \cup {Hole}]
    /\ stale \in [Clients -> BOOLEAN]
BioTypes ==
    /\ bio \in [Clients -> BioKind]
    /\ blk \in [Clients -> Blocks]
    /\ before \in [Clients -> SUBSET FBlocks]
    /\ inflight \in [Clients -> BOOLEAN]
    /\ ended \in [Clients -> Nat]
    /\ fuaerr \in [Clients -> BOOLEAN]
ThreadTypes ==
    /\ tpc \in ThreadPC
    /\ t \in Request
AckTypes ==
    /\ acked \in SUBSET FBlocks
    /\ synced \in SUBSET FBlocks
    /\ fuad \in SUBSET FBlocks
FlawTypes ==
    /\ late \in BOOLEAN
    /\ forgotten \in SUBSET FBlocks

\* Every variable of the driver and of the backing file has its type; in
\* particular the block map never gives one host block to two file blocks.
TypeOK ==
    /\ FileTypes /\ CacheTypes /\ CioTypes /\ ClientTypes /\ BioTypes
    /\ ThreadTypes /\ AckTypes /\ FlawTypes

-----------------------------------------------------------------------------
(* Safety.                                                                  *)

\* The thread still has to answer the request it has popped.
Owed ==
    \/ tpc \in {"fsync", "synced", "hit"}
    \/ tpc \in {"getblk", "setdirty", "answer", "complete"} /\ t.i = 0

Queued(c) == \E i \in DOMAIN queue : queue[i] = c

\* The client sleeps exactly as long as its request is queued, once, or is
\* the one being served and not yet completed, or has been completed.
RequestsMatch ==
    /\ \A i, j \in DOMAIN queue : queue[i] = queue[j] => i = j
    /\ \A c \in Clients : Queued(c) => Waiting(c) /\ ~cdone[c]
    /\ Owed => /\ t.cio \in Clients
               /\ Waiting(t.cio) /\ ~cdone[t.cio] /\ ~Queued(t.cio)
    /\ \A c \in Clients :
          Waiting(c) /\ ~cdone[c] => Queued(c) \/ (Owed /\ t.cio = c)

(* A cio_req lives on the stack of a client.  No request is lost, and the   *)
(* thread never completes a request whose client has gone on.  There is one *)
(* exception, after which nothing is promised: get_block failed at a block  *)
(* that was only prefetched, and the thread reported it in the request that *)
(* it had answered before, when that request was no longer there.           *)
AnsweredOnce == ~late => RequestsMatch

(* A bio is submitted to the host block that backs its file block, unless   *)
(* the thread recycled the cache node between the client's lookup and its   *)
(* read of the node, the bio reads a block that was a hole, or a failed     *)
(* prefetch was reported in a request after its end.                        *)
ExactTranslation ==
    \A c \in Clients : pc[c] = "send" /\ ~stale[c] /\ ~late =>
        \/ phys[c] = fmap[blk[c]]
        \/ phys[c] = Hole /\ ~bio[c].write

(* Whatever the interleaving, recycling included, a write is only ever      *)
(* submitted to a host block that belongs to the backing file of the        *)
(* device, as long as no failed prefetch was reported in a request after    *)
(* its end.                                                                 *)
WritesStayInFile ==
    \A c \in Clients : pc[c] = "send" /\ bio[c].write /\ ~late =>
        \E b \in FBlocks : fmap[b] # Hole /\ phys[c] = fmap[b]

(* The hash table and the lru list hold the same nodes, each once; a node   *)
(* that was ever filled in holds a true translation.                        *)
CacheSound ==
    /\ hashed = {lru[i] : i \in DOMAIN lru}
    /\ \A i, j \in DOMAIN lru : lru[i] = lru[j] => i = j
    /\ Len(lru) = IF tpc = "reuse" THEN lru_count - 1 ELSE lru_count
    /\ \A n \in 1 .. lru_count : /\ node[n].b_blocknr # Hole
                                 /\ node[n].b_blocknr = fmap[node[n].blk_local]

(* When a bio with REQ_FLUSH has completed, every write that had completed  *)
(* before it was submitted keeps its mapping through any later crash.  The  *)
(* clients rely on LOOP_DIRTY alone to decide whether to ask for a fsync.   *)
(* Two exceptions: a block whose mapping was not durable when the image was *)
(* bound again, until a commit or a fsync makes it so (loop_set_fd clears   *)
(* LOOP_DIRTY), and a failed prefetch reported in a request after its end.  *)
SyncedSurvives ==
    ~late => \A b \in synced \ forgotten :
                 fmap[b] # Hole /\ durable[b] = fmap[b]

(* The guest's bio is ended at most once, and exactly once when the driver  *)
(* and the host device are done with it: bio_endio is called by the error   *)
(* paths of redirect_bio and by the completions, and they never both do so, *)
(* with one exception: when the flush behind a FUA write fails, the bio is  *)
(* ended here although the host device has it and ends it too.              *)
EndedOnce ==
    \A c \in Clients :
        LET ends == IF fuaerr[c] THEN 2 ELSE 1
        IN  /\ ended[c] <= ends
            /\ pc[c] = "idle" /\ ~inflight[c] => ended[c] = ends

(* include/linux/fs.h on WRITE_FUA: the data is on non-volatile media when  *)
(* the write completes, so the mapping that leads to it has to be durable.  *)
FuaDurable == \A b \in fuad : durable[b] # Hole

-----------------------------------------------------------------------------
(* Refinement: the abstract disk.                                           *)

\* The host device has had the bio; redirect_bio has still to return.
FuaTail == {"fuatest", "enqfua", "waitfua"}

Stage(c) ==
    IF inflight[c] THEN "issued"
    ELSE IF pc[c] = "idle" THEN "idle"
    ELSE IF pc[c] = "send" THEN "located"
    ELSE IF pc[c] \in FuaTail THEN "done" ELSE "taken"

StageMap == [c \in Clients |-> Stage(c)]

Disk == INSTANCE VirtualDisk WITH
    Kinds <- Bios, NoKind <- NoBio, map <- fmap, disk <- durable,
    stage <- StageMap, at <- phys, raced <- stale, broken <- late

(* Translation cache, thread, requests and dirty bit together are a disk    *)
(* that sends every bio to the host block of its file block and completes a *)
(* flush only when what completed before it would survive a crash.          *)
ActsAsDisk == Disk!Spec

-----------------------------------------------------------------------------
(* Liveness.  The thread and the clients run whenever they can, and the     *)
(* host device completes what it was given.                                 *)
Fairness ==
    /\ WF_vars(ThreadStep)
    /\ \A c \in Clients : WF_vars(ClientStep(c))
    /\ \A c \in Clients : WF_vars(\E ok \in BOOLEAN : LowerDone(c, ok))

FairSpec == Spec /\ Fairness

(* Every bio that enters redirect_bio leaves it and is ended.               *)
BioCompletes ==
    \A c \in Clients :
        (pc[c] # "idle" \/ inflight[c]) ~> (pc[c] = "idle" /\ ~inflight[c])
=============================================================================
