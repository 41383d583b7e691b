--------------------------- MODULE LoopDiskProofs ---------------------------
(***************************************************************************)
(* Proofs about durability and about the ends of the guests' bios: what    *)
(* LOOP_DIRTY and the fsync of loop_thread guarantee to a guest that       *)
(* flushes, and that bio_endio is called once; and the proof that the      *)
(* driver implements VirtualDisk.                                          *)
(***************************************************************************)
EXTENDS LoopTranslateProofs

\* A completed write, a cached translation, or a write that knows its block.
Holds(c) ==
    /\ bio[c].write /\ ~bio[c].empty
    /\ \/ pc[c] \in {"readnode", "send", "fuatest", "enqfua", "waitfua"}
       \/ pc[c] = "waitmap" /\ cdone[c] /\ ~cerr[c]
       \/ inflight[c]

Known(b) ==
    \/ b \in acked
    \/ \E n \in 1 .. lru_count : node[n].blk_local = b
    \/ \E c \in Clients : Holds(c) /\ blk[c] = b

\* The mapping of b is on disk, or a rebind has made the driver forget b.
Safe(b) == b \in forgotten \/ (fmap[b] # Hole /\ durable[b] = fmap[b])

\* The flush in front of the bio has been settled.
Flushed(c) ==
    \/ inflight[c]
    \/ pc[c] \notin {"idle", "preflush", "enqpre", "waitpre"}
    \/ pc[c] = "waitpre" /\ ~cerr[c]
         /\ (cdone[c] \/ (t.cio = c /\ t.i = 0 /\ tpc = "complete"))

\* LOOP_DIRTY tells about every known block that is not on disk.
BlocksFine ==
    /\ \A b \in FBlocks : Known(b) => b \in forgotten \/ fmap[b] # Hole
    /\ \A b \in FBlocks : Known(b) /\ ~dirty => Safe(b)
    /\ ~dirty /\ tpc # "setdirty" =>
          \A b \in FBlocks : b \in forgotten \/ durable[b] = fmap[b]
    /\ tpc = "synced" => durable = fmap

FlushInv ==
    /\ BlocksFine
    /\ \A b \in synced : Safe(b)
    /\ \A c \in Clients :
          /\ pc[c] = "sendflush" => bio[c].empty
          /\ before[c] \subseteq acked
          /\ Flushed(c) => \A b \in before[c] : Safe(b)

-----------------------------------------------------------------------------
(* Durability.                                                              *)

\* Outside a crash, mappings only come, and the disk only catches up.
LEMMA MapsGrow ==
    ASSUME ServeInv, [Next]_vars, ~Crash, ~Rebind
    PROVE  /\ \A b \in FBlocks : fmap[b] # Hole => fmap'[b] = fmap[b]
           /\ (UNCHANGED <<durable, forgotten>> \/ (Persist /\ UNCHANGED fmap))
<1> USE DEF ServeInv, StructInv
<1>1. CASE ClientNext \/ UNCHANGED vars
  BY <1>1, ClientFrame DEF fileVars, flawVars, vars
<1>2. CASE GetBlock
  <2>1. \A b \in FBlocks : fmap[b] # Hole => fmap'[b] = fmap[b]
    BY <1>2, GetBlockMap
  <2>2. UNCHANGED <<durable, forgotten>>
    BY <1>2 DEF GetBlock
  <2> QED
    BY <2>1, <2>2
<1>3. CASE Pop \/ Complete \/ Hit \/ Answer \/ Skip \/ AddNew \/ Recycle \/ Reuse
  <2>1. UNCHANGED <<fileVars, forgotten>>
    BY Zenon, <1>3 DEF Pop, Complete, Hit, Answer, Skip, AddNew, Recycle, Reuse, flawVars
  <2> QED
    BY <2>1 DEF fileVars
<1>4. CASE Fsync \/ ClearDirty \/ SetDirty \/ HostCommit
  BY <1>4 DEF Fsync, ClearDirty, SetDirty, HostCommit, flawVars
<1> QED
  BY Zenon, <1>1, <1>2, <1>3, <1>4, NextSplit DEF ThreadStep

LEMMA SafeStays ==
    ASSUME ServeInv, [Next]_vars, NEW b \in FBlocks, Safe(b)
    PROVE  Safe(b)'
<1>1. CASE Crash
  BY <1>1 DEF Crash, Safe, flawVars
<1>2. CASE Rebind
  BY <1>2 DEF Rebind, Safe
<1>3. CASE ~Crash /\ ~Rebind
  <2>1. /\ fmap[b] # Hole => fmap'[b] = fmap[b]
        /\ (UNCHANGED <<durable, forgotten>> \/ (Persist /\ UNCHANGED fmap))
    BY <1>3, MapsGrow
  <2> QED
    BY <2>1 DEF Safe, Persist
<1> QED
  BY <1>1, <1>2, <1>3

\* A block becomes known from the cache or from an answer of the thread.
LEMMA HoldsSelf ==
    ASSUME ServeInv, FlushInv, NEW c \in Clients, ClientAct(c), Holds(c)'
    PROVE  Known(blk'[c])
<1> USE DEF ServeInv, StructInv
<1>0. /\ TypeOK /\ pc \in [Clients -> ClientPC] /\ bio \in [Clients -> BioKind]
      /\ blk \in [Clients -> Blocks] /\ inflight \in [Clients -> BOOLEAN]
      /\ cdone \in [Clients -> BOOLEAN] /\ cerr \in [Clients -> BOOLEAN]
  BY DEF TypeOK, ClientTypes, BioTypes, CioTypes
<1>1. ASSUME Holds(c), blk'[c] = blk[c] PROVE Known(blk'[c])
  BY <1>1 DEF Known
<1>2. ASSUME NEW b \in Blocks, NEW k \in Bios, Submit(c, b, k)
      PROVE  FALSE
  BY <1>0, <1>2 DEF Submit, Goto, Holds, bioVars
<1>3. ASSUME bio'[c] = NoBio PROVE FALSE
  BY <1>3 DEF Holds, NoBio
<1>4. CASE TestDirty(c)
  BY <1>0, <1>1, <1>4 DEF TestDirty, Goto, AfterFlush, Holds, bioVars, endVars
<1>5. CASE TestDirtyFua(c)
  BY <1>0, <1>1, <1>3, <1>5 DEF TestDirtyFua, Goto, Return, Forget, Holds, bioVars,
     endVars
<1>6. CASE Enqueue(c)
  BY <1>0, <1>1, <1>6 DEF Enqueue, Goto, Holds, bioVars, endVars
<1>7. CASE WakePre(c)
  BY <1>0, <1>1, <1>3, <1>7 DEF WakePre, Goto, Return, Forget, AfterFlush, Holds,
     bioVars
<1>8. CASE Lookup(c)
  <2>1. CASE Found(blk[c]) = {}
    BY <1>0, <1>1, <1>8, <2>1 DEF Lookup, Goto, Holds, bioVars, endVars
  <2>2. CASE Found(blk[c]) # {}
    <3>1. \E n \in 1 .. lru_count : node[n].blk_local = blk[c]
      BY Zenon, <2>2 DEF Found, Allocated
    <3> QED
      BY <1>8, <3>1 DEF Lookup, Known, bioVars
  <2> QED
    BY <2>1, <2>2
<1>9. CASE ReadNode(c)
  BY <1>0, <1>1, <1>9 DEF ReadNode, Goto, Holds, bioVars, endVars
<1>10. CASE WakeMap(c)
  BY <1>0, <1>1, <1>3, <1>10 DEF WakeMap, Woken, Goto, Return, Forget, Holds, bioVars
<1>11. CASE Send(c)
  BY Zenon, <1>0, <1>1, <1>11 DEF Send, Goto, Holds, FlushInv, bioVars
<1>12. CASE WakeFua(c)
  BY Zenon, <1>0, <1>1, <1>3, <1>12 DEF WakeFua, Goto, Return, Forget, Holds, bioVars
<1>13. ASSUME NEW ok \in BOOLEAN, LowerDone(c, ok)
       PROVE  Known(blk'[c])
  BY Zenon, <1>0, <1>1, <1>3, <1>13 DEF LowerDone, Forget, Holds, bioVars, clientVars
<1> QED
  BY <1>2, <1>4, <1>5, <1>6, <1>7, <1>8, <1>9, <1>10, <1>11, <1>12, <1>13
  DEF ClientAct, ClientStep

LEMMA KnownGrows ==
    ASSUME ServeInv, FlushInv, [Next]_vars, ~late', ~Crash, ~Rebind,
           NEW b \in FBlocks, Known(b)'
    PROVE  Known(b) \/ (fmap[b] # Hole /\ tpc \in {"answer", "add", "reuse"})
<1> USE DEF ServeInv, StructInv
<1>0. /\ TypeOK /\ t \in Request /\ blk \in [Clients -> Blocks]
      /\ cdone \in [Clients -> BOOLEAN] /\ cerr \in [Clients -> BOOLEAN]
      /\ node \in [Nodes -> [b_blocknr : Phys \cup {Hole}, blk_local : FBlocks]]
      /\ lru_count \in 0 .. LRU_LENGTH
  BY DEF TypeOK, ThreadTypes, BioTypes, CioTypes, CacheTypes
<1>1. ASSUME NEW c \in Clients, ClientAct(c) PROVE Known(b)
  <2>1. UNCHANGED <<node, lru_count>>
    BY <1>1, ClientNextAct, ClientFrame DEF cacheVars
  <2>2. CASE b \in acked'
    <3>1. CASE \E ok \in BOOLEAN : LowerDone(c, ok)
      BY <2>2, <3>1 DEF LowerDone, Known, Holds
    <3>2. CASE ~(\E ok \in BOOLEAN : LowerDone(c, ok))
      <4>1. UNCHANGED acked
        BY Zenon, <1>1, <3>2 DEF ClientAct, ClientStep, Submit, TestDirty, TestDirtyFua,
           Enqueue, WakePre, Lookup, ReadNode, WakeMap, Send, WakeFua, ackVars
      <4> QED
        BY <2>2, <4>1 DEF Known
    <3> QED
      BY <3>1, <3>2
  <2>3. CASE \E n \in 1 .. lru_count' : node'[n].blk_local = b
    BY <2>1, <2>3 DEF Known
  <2>4. ASSUME NEW d \in Clients, Holds(d)', blk'[d] = b PROVE Known(b)
    <3>1. CASE d = c
      BY <1>1, <2>4, <3>1, HoldsSelf
    <3>2. CASE d # c
      <4>1. Same(d)
        BY <1>0, <1>1, <3>2, OtherClients
      <4> QED
        BY Zenon, <2>4, <4>1 DEF Same, Holds, Known
    <3> QED
      BY <3>1, <3>2
  <2> QED
    BY <2>2, <2>3, <2>4 DEF Known
\* A step of the thread or of the host.
<1>2. ASSUME UNCHANGED <<pc, bioVars, endVars, ackVars>>,
             \A d \in Clients : cdone'[d] /\ ~cerr'[d] => cdone[d] /\ ~cerr[d],
             UNCHANGED <<node, lru_count>>
      PROVE  Known(b)
  BY <1>2 DEF Known, Holds, bioVars, endVars, ackVars
<1>3. CASE UNCHANGED vars
  BY Zenon, <1>2, <1>3 DEF vars, cacheVars, cioVars, clientVars
<1>4. CASE HostCommit
  BY <1>2, <1>4 DEF HostCommit, cacheVars, cioVars, clientVars
<1>5. CASE Pop \/ ClearDirty \/ SetDirty \/ Skip
  BY Zenon, <1>2, <1>5, ThreadFrame DEF ThreadStep, Pop, ClearDirty, SetDirty, Skip,
     cacheVars, cioVars
<1>6. CASE Recycle
  BY <1>2, <1>6, ThreadFrame DEF ThreadStep, Recycle, cioVars
<1>7. CASE Fsync
  BY Zenon, <1>0, <1>2, <1>7, ThreadFrame DEF ThreadStep, Fsync, cacheVars
<1>8. CASE GetBlock
  BY Zenon, <1>0, <1>2, <1>8, ThreadFrame DEF ThreadStep, GetBlock, GetBlockFails,
     GetBlockSucceeds, cacheVars
\* The client that is answered is the only one that may learn something.
<1>9. ASSUME ThreadStep, Owed, UNCHANGED <<node, lru_count>>,
             \A d \in Clients : d # t.cio => cdone'[d] = cdone[d] /\ cerr'[d] = cerr[d]
      PROVE  \/ Known(b)
             \/ /\ b = blk[t.cio] /\ bio[t.cio].write /\ pc[t.cio] = "waitmap"
                /\ ~cerr'[t.cio]
  <2>1. UNCHANGED <<pc, bioVars, endVars, ackVars>>
    BY <1>9, ThreadFrame
  <2> QED
    BY Zenon, <1>9, <2>1 DEF Known, Holds, bioVars, endVars, ackVars, RequestsMatch
<1>10. CASE Complete /\ t.i > 0
  <2>1. UNCHANGED <<cdone, cerr, node, lru_count>>
    BY <1>0, <1>10 DEF Complete, Expired, cacheVars
  <2> QED
    BY Zenon, <1>2, <1>10, <2>1, ThreadFrame DEF ThreadStep
<1>14. CASE Complete /\ ~(t.i > 0)
  <2>0. t.i = 0
    BY <1>0, <1>14 DEF Request
  <2>1. UNCHANGED <<node, lru_count, cerr>> /\ tpc = "complete"
        /\ \A d \in Clients : d # t.cio => cdone'[d] = cdone[d]
    BY <1>0, <1>14 DEF Complete, cacheVars
  <2>2. Owed /\ (cflush[t.cio] \/ cerr[t.cio]) /\ t.cio \in Clients
    BY <2>0, <2>1 DEF Owed, ServeOK, ThreadOK
  <2>3. pc[t.cio] = "waitmap" => ~cflush[t.cio]
    BY Zenon, <2>2 DEF ClientOK, ClientFine
  <2> QED
    BY <1>9, <1>14, <2>1, <2>2, <2>3 DEF ThreadStep
<1>11. CASE Hit
  <2>1. /\ UNCHANGED <<node, lru_count>> /\ tpc = "hit"
        /\ \A d \in Clients : d # t.cio => cdone'[d] = cdone[d] /\ cerr'[d] = cerr[d]
    BY <1>0, <1>11 DEF Hit, Reply, cacheVars
  <2>2. /\ Owed /\ t.blk_start = blk[t.cio]
        /\ t.cur \in 1 .. lru_count /\ node[t.cur].blk_local = t.blk_start
    BY Zenon, <2>1 DEF Owed, ServeOK, ThreadOK, Allocated
  <2> QED
    BY Zenon, <1>9, <1>11, <2>1, <2>2 DEF ThreadStep, Known
<1>12. CASE Answer
  <2>1. /\ UNCHANGED <<node, lru_count>> /\ tpc = "answer"
        /\ \A d \in Clients : d # t.cio => cdone'[d] = cdone[d] /\ cerr'[d] = cerr[d]
    BY <1>0, <1>12 DEF Answer, Reply, cacheVars
  <2>2. /\ Owed /\ t.blk_start = blk[t.cio] /\ t.create = bio[t.cio].write
        /\ t.b_blocknr = Hole => ~t.create
    BY Zenon, <2>1 DEF Owed, ServeOK, ThreadOK
  <2>3. t.b_blocknr # Hole => fmap[t.blk_start] # Hole
    <3>1. t.b_blocknr # Hole => fmap[t.blk_start + 0] = t.b_blocknr + 0
      BY <1>0, <2>1, SizesAssumption DEF ThreadOK, Request
    <3> QED
      BY <1>0, <3>1 DEF Request, Phys, Hole
  <2> QED
    BY Zenon, <1>9, <1>12, <2>1, <2>2, <2>3 DEF ThreadStep
\* The node that is filled in is the only one that may hold a new block.
<1>13. CASE AddNew \/ Reuse
  <2>1. PICK n \in Nodes : /\ Insert(n) /\ tpc \in {"add", "reuse"}
                           /\ 1 .. lru_count' \subseteq (1 .. lru_count) \cup {n}
    <3>1. CASE AddNew
      BY <1>0, <3>1, SizesAssumption DEF AddNew, Nodes
    <3>2. CASE Reuse
      <4>1. t.node \in Nodes
        BY Zenon, <1>0, <3>2, InUse DEF Reuse, ThreadOK
      <4> QED
        BY Zenon, <3>2, <4>1 DEF Reuse
    <3> QED
      BY <1>13, <3>1, <3>2
  <2>2. UNCHANGED <<pc, bioVars, endVars, ackVars, cioVars>>
    BY Zenon, <1>13, ThreadFrame DEF ThreadStep, AddNew, Reuse
  <2>3. /\ fmap[t.blk_start + t.j] # Hole
        /\ \A m \in Nodes : node'[m] = IF m = n THEN [b_blocknr |-> t.b_blocknr + t.j,
                                                      blk_local |-> t.blk_start + t.j]
                                                ELSE node[m]
    <3>1. t.b_blocknr + t.j \in Phys /\ t.b_blocknr + t.j = fmap[t.blk_start + t.j]
      BY <2>1, BlockRange
    <3> QED
      BY <1>0, <2>1, <3>1 DEF Insert, Phys, Hole
  <2>4. 1 .. lru_count \subseteq Nodes
    BY <1>0, SizesAssumption DEF Nodes
  <2>5. /\ \A c \in Clients : Holds(c)' <=> Holds(c)
        /\ blk' = blk /\ acked' = acked
    BY Zenon, <2>2 DEF Holds, bioVars, endVars, ackVars, cioVars
  <2>6. ASSUME NEW m \in 1 .. lru_count', node'[m].blk_local = b
        PROVE  (\E k \in 1 .. lru_count : node[k].blk_local = b) \/ fmap[b] # Hole
    <3>1. CASE m = n
      BY <2>3, <2>6, <3>1
    <3>2. CASE m # n
      BY Zenon, <2>1, <2>3, <2>4, <2>6, <3>2
    <3> QED
      BY Zenon, <3>1, <3>2
  <2> QED
    BY Zenon, <2>1, <2>5, <2>6 DEF Known
<1> QED
  BY Zenon, <1>1, <1>3, <1>4, <1>5, <1>6, <1>7, <1>8, <1>10, <1>11, <1>12, <1>13,
     <1>14, NextSplit, ClientNextAct
  DEF ThreadStep

\* Between an allocation and LOOP_DIRTY, the thread stays where it sets the
\* bit, and it clears the bit only after a fsync.
LEMMA DirtyWindow ==
    ASSUME ServeInv, [Next]_vars, ~Crash, ~Rebind
    PROVE  /\ fmap' # fmap => tpc' = "setdirty"
           /\ tpc = "setdirty" => tpc' = "setdirty" \/ dirty'
           /\ tpc' = "synced" => tpc = "synced" \/ durable' = fmap'
           /\ dirty /\ ~dirty' => tpc = "synced"
<1> USE DEF ServeInv, StructInv
<1>1. CASE ClientNext \/ UNCHANGED vars
  BY <1>1, ClientFrame DEF fileVars, threadVars, vars
<1>2. CASE GetBlock
  BY Zenon, <1>2 DEF GetBlock, GetBlockFails, GetBlockSucceeds, Mapped, Unmapped, Allocate,
     AfterGet
<1>3. CASE Complete \/ Hit \/ Answer
  <2>1. /\ UNCHANGED fileVars /\ tpc \in {"complete", "hit", "answer"}
        /\ tpc' \in {"wait", "add", "skip"}
    BY Zenon, <1>3 DEF Complete, Hit, Answer
  <2> QED
    BY <2>1 DEF fileVars
<1>4. CASE Skip \/ AddNew \/ Reuse
  BY <1>4 DEF Skip, AddNew, Reuse, Insert, Advance, fileVars
<1>5. CASE Pop \/ Recycle
  <2>1. UNCHANGED fileVars /\ tpc # "setdirty" /\ tpc' # "synced"
    BY Zenon, <1>5 DEF Pop, Recycle
  <2> QED
    BY <2>1 DEF fileVars
<1>6. CASE Fsync \/ ClearDirty \/ SetDirty \/ HostCommit
  BY <1>6 DEF Fsync, ClearDirty, SetDirty, HostCommit, Persist, threadVars, AfterGet
<1> QED
  BY Zenon, <1>1, <1>2, <1>3, <1>4, <1>5, <1>6, NextSplit DEF ThreadStep

\* These facts about blocks survive every step but a crash and a rebind.
LEMMA BlocksStep ==
    ASSUME ServeInv, FlushInv, [Next]_vars, ~late', ~Crash, ~Rebind
    PROVE  BlocksFine'
<1>1. /\ \A b \in FBlocks : fmap[b] # Hole => fmap'[b] = fmap[b]
      /\ (UNCHANGED <<durable, forgotten>> \/ (Persist /\ UNCHANGED fmap))
  BY MapsGrow
<1>2. /\ fmap' # fmap => tpc' = "setdirty"
      /\ tpc = "setdirty" => tpc' = "setdirty" \/ dirty'
      /\ tpc' = "synced" => tpc = "synced" \/ durable' = fmap'
      /\ dirty /\ ~dirty' => tpc = "synced"
  BY DirtyWindow
<1>3. ASSUME NEW b \in FBlocks, Known(b)'
      PROVE  /\ b \in forgotten' \/ fmap'[b] # Hole
             /\ ~dirty' => Safe(b)'
  <2>1. Known(b) \/ (fmap[b] # Hole /\ tpc \in {"answer", "add", "reuse"})
    BY <1>3, KnownGrows
  <2>2. b \in forgotten \/ fmap[b] # Hole
    BY Zenon, <2>1 DEF FlushInv, BlocksFine
  <2>3. b \in forgotten' \/ fmap'[b] # Hole
    BY Zenon, <1>1, <2>2 DEF Persist
  <2>4. ~dirty' => Safe(b)
    BY Zenon, <1>2, <2>1, <2>2 DEF FlushInv, BlocksFine, Safe
  <2> QED
    BY <2>3, <2>4, SafeStays
<1>4. ASSUME ~dirty', tpc' # "setdirty", NEW b \in FBlocks
      PROVE  b \in forgotten' \/ durable'[b] = fmap'[b]
  <2>1. fmap' = fmap /\ tpc # "setdirty"
    BY Zenon, <1>2, <1>4
  <2>2. b \in forgotten \/ durable[b] = fmap[b]
    BY Zenon, <1>2, <1>4, <2>1 DEF FlushInv, BlocksFine
  <2>3. CASE durable' = durable /\ forgotten' = forgotten
    BY Zenon, <2>1, <2>2, <2>3
  <2>4. CASE Persist
    BY Zenon, <2>1, <2>4 DEF Persist
  <2> QED
    BY Zenon, <1>1, <2>3, <2>4
<1>5. ASSUME tpc' = "synced" PROVE durable' = fmap'
  <2>1. fmap' = fmap
    BY Zenon, <1>2, <1>5
  <2> QED
    BY Zenon, <1>1, <1>2, <1>5, <2>1 DEF FlushInv, BlocksFine, Persist
<1> QED
  BY Zenon, <1>3, <1>4, <1>5 DEF BlocksFine

\* A flush settled by a client that runs, by the thread, or earlier.
LEMMA FlushedClient ==
    ASSUME ServeInv, FlushInv, NEW c \in Clients, ClientAct(c), Flushed(c)'
    PROVE  \A b \in before'[c] : Safe(b)
<1> USE DEF ServeInv, StructInv
<1>0. /\ TypeOK /\ pc \in [Clients -> ClientPC] /\ bio \in [Clients -> BioKind]
      /\ before \in [Clients -> SUBSET FBlocks] /\ inflight \in [Clients -> BOOLEAN]
      /\ cdone \in [Clients -> BOOLEAN] /\ cerr \in [Clients -> BOOLEAN]
      /\ acked \in SUBSET FBlocks
  BY Zenon DEF TypeOK, ClientTypes, BioTypes, CioTypes, AckTypes
<1>1. UNCHANGED <<tpc, t>>
  BY ClientNextAct, ClientFrame DEF threadVars
<1>2. ASSUME Flushed(c), before'[c] = before[c] \/ before'[c] = {}
      PROVE  \A b \in before'[c] : Safe(b)
  BY Zenon, <1>2 DEF FlushInv
<1>3. ASSUME NEW b \in Blocks, NEW k \in Bios, Submit(c, b, k)
      PROVE  before'[c] = {}
  BY Zenon, <1>0, <1>3 DEF Submit, Goto, Flushed, bioVars
<1>4. CASE TestDirty(c)
  <2>1. before'[c] = before[c]
    BY Zenon, <1>4 DEF TestDirty, bioVars
  <2>2. CASE dirty
    BY Zenon, <1>0, <1>2, <1>4, <2>1, <2>2 DEF TestDirty, Goto, Flushed, endVars
  <2>3. CASE ~dirty
    BY Zenon, <1>0, <2>1, <2>3 DEF FlushInv, BlocksFine, Known, Safe
  <2> QED
    BY <2>2, <2>3
<1>5. CASE TestDirtyFua(c)
  BY Zenon, <1>0, <1>2, <1>5 DEF TestDirtyFua, Return, Forget, Flushed, bioVars
<1>6. CASE Enqueue(c)
  <2>1. pc[c] = "enqpre" => ~(t.cio = c /\ t.i = 0 /\ tpc = "complete")
    BY Zenon DEF RequestsMatch, Owed, Waiting
  <2> QED
    BY Zenon, <1>0, <1>1, <1>2, <1>6, <2>1 DEF Enqueue, Goto, Flushed, bioVars, endVars
<1>7. CASE WakePre(c)
  BY Zenon, <1>0, <1>2, <1>7 DEF WakePre, Woken, Return, Goto, Forget, Flushed, bioVars
<1>8. CASE Lookup(c) \/ ReadNode(c)
  BY Zenon, <1>0, <1>2, <1>8 DEF Lookup, ReadNode, Flushed, bioVars
<1>9. CASE WakeMap(c) \/ WakeFua(c)
  BY Zenon, <1>0, <1>2, <1>9 DEF WakeMap, WakeFua, Return, Forget, Flushed, bioVars
<1>10. CASE Send(c)
  BY Zenon, <1>0, <1>2, <1>10 DEF Send, Flushed, bioVars
<1>11. ASSUME NEW ok \in BOOLEAN, LowerDone(c, ok)
       PROVE  \A b \in before'[c] : Safe(b)
  BY Zenon, <1>0, <1>2, <1>11 DEF LowerDone, Forget, Flushed, bioVars
<1> QED
  BY Zenon, <1>3, <1>4, <1>5, <1>6, <1>7, <1>8, <1>9, <1>10, <1>11 DEF ClientAct, ClientStep

LEMMA FlushedThread ==
    ASSUME ServeInv, FlushInv, ThreadStep, ~late',
           NEW c \in Clients, Flushed(c)'
    PROVE  Flushed(c) \/ \A b \in before[c] : Safe(b)
<1> USE DEF ServeInv, StructInv
<1>0. /\ TypeOK /\ t \in Request /\ before \in [Clients -> SUBSET FBlocks]
      /\ cdone \in [Clients -> BOOLEAN] /\ cerr \in [Clients -> BOOLEAN]
      /\ acked \in SUBSET FBlocks
  BY DEF TypeOK, ThreadTypes, BioTypes, CioTypes, AckTypes
<1>1. UNCHANGED <<pc, inflight>>
  BY ThreadFrame DEF endVars
<1>2. ASSUME cdone'[c] /\ ~cerr'[c] => cdone[c] /\ ~cerr[c], tpc' # "complete"
      PROVE  Flushed(c)
  BY Zenon, <1>1, <1>2 DEF Flushed
<1>3. CASE Pop \/ SetDirty \/ Recycle
  BY Zenon, <1>2, <1>3 DEF Pop, SetDirty, Recycle, AfterGet, cioVars
<1>4. CASE Skip \/ AddNew \/ Reuse
  BY Zenon, <1>2, <1>4 DEF Skip, AddNew, Reuse, Insert, Advance, cioVars
<1>5. CASE Fsync
  BY Zenon, <1>0, <1>1, <1>5 DEF Fsync, Flushed
<1>6. CASE ClearDirty
  BY Zenon, <1>0, <1>6 DEF ClearDirty, FlushInv, BlocksFine, Known, Safe
<1>7. CASE Complete
  <2>1. CASE t.i > 0
    <3>1. UNCHANGED <<cdone, cerr>> /\ tpc' # "complete"
      BY <1>0, <1>7, <2>1 DEF Complete, Expired
    <3> QED
      BY Zenon, <1>2, <3>1
  <2>2. CASE ~(t.i > 0)
    <3>1. t.i = 0
      BY <1>0, <2>2 DEF Request
    <3> QED
      BY Zenon, <1>0, <1>1, <1>7, <3>1 DEF Complete, Flushed
  <2> QED
    BY <2>1, <2>2
<1>8. CASE Hit \/ Answer
  <2>1. /\ UNCHANGED cflush /\ tpc' # "complete"
        /\ c # t.cio => cdone'[c] = cdone[c] /\ cerr'[c] = cerr[c]
    BY Zenon, <1>0, <1>8 DEF Hit, Answer, Reply
  <2>2. ~cflush[t.cio]
    BY Zenon, <1>8 DEF Hit, Answer, ServeOK, Owed, ThreadOK
  <2>3. pc[c] = "waitpre" => cflush[c]
    BY Zenon DEF ClientOK, ClientFine
  <2> QED
    BY Zenon, <1>1, <2>1, <2>2, <2>3 DEF Flushed
<1>9. CASE GetBlock
  <2>1. CASE GetBlockFails
    BY Zenon, <1>0, <1>1, <1>9, <2>1 DEF GetBlock, GetBlockFails, Flushed
  <2>2. CASE GetBlockSucceeds
    BY Zenon, <1>2, <1>9, <2>2 DEF GetBlock, GetBlockSucceeds, AfterGet
  <2> QED
    BY Zenon, <1>9, <2>1, <2>2 DEF GetBlock
<1> QED
  BY Zenon, <1>3, <1>4, <1>5, <1>6, <1>7, <1>8, <1>9 DEF ThreadStep

\* What a client that runs does to the histories and to its own bio.
LEMMA ClientHistory ==
    ASSUME ServeInv, FlushInv, NEW c \in Clients, ClientAct(c)
    PROVE  /\ pc'[c] = "sendflush" => bio'[c].empty
           /\ acked \subseteq acked' /\ before'[c] \subseteq acked'
           /\ \A b \in synced' : b \in synced \/ (inflight[c] /\ b \in before[c])
<1> USE DEF ServeInv, StructInv
<1>0. /\ pc \in [Clients -> ClientPC] /\ bio \in [Clients -> BioKind]
      /\ before \in [Clients -> SUBSET FBlocks]
      /\ (pc[c] = "sendflush" => bio[c].empty) /\ before[c] \subseteq acked
  BY DEF TypeOK, ClientTypes, BioTypes, FlushInv
<1>1. ASSUME NEW b \in Blocks, NEW k \in Bios, Submit(c, b, k)
      PROVE  /\ pc'[c] # "sendflush" /\ before'[c] \subseteq acked /\ UNCHANGED ackVars
  BY Zenon, <1>0, <1>1 DEF Submit, Goto, bioVars
<1>2. CASE TestDirty(c) \/ Enqueue(c) \/ Lookup(c) \/ ReadNode(c) \/ Send(c)
  BY Zenon, <1>0, <1>2 DEF TestDirty, Enqueue, Lookup, ReadNode, Send, Goto, AfterFlush,
     bioVars, ackVars
<1>3. CASE TestDirtyFua(c) \/ WakePre(c) \/ WakeMap(c) \/ WakeFua(c)
  BY Zenon, <1>0, <1>3 DEF TestDirtyFua, WakePre, WakeMap, WakeFua, Return, Forget, Goto,
     AfterFlush, bioVars, ackVars, NoBio
<1>4. ASSUME NEW ok \in BOOLEAN, LowerDone(c, ok)
      PROVE  /\ pc'[c] = "sendflush" => bio'[c].empty
             /\ acked \subseteq acked' /\ before'[c] \subseteq acked'
             /\ \A b \in synced' : b \in synced \/ (inflight[c] /\ b \in before[c])
  BY Zenon, <1>0, <1>4 DEF LowerDone, Forget, clientVars, bioVars, NoBio
<1> QED
  BY Zenon, <1>1, <1>2, <1>3, <1>4 DEF ClientAct, ClientStep, ackVars

LEMMA FlushStep ==
    ASSUME ServeInv, FlushInv, [Next]_vars, ~late'
    PROVE  FlushInv'
<1>0. /\ TypeOK /\ acked \in SUBSET FBlocks /\ synced \in SUBSET FBlocks
      /\ before \in [Clients -> SUBSET FBlocks]
  BY DEF ServeInv, StructInv, TypeOK, AckTypes, BioTypes
<1>1. CASE Crash
  <2>1. /\ fmap' = durable /\ durable' = durable /\ acked' = synced /\ synced' = synced
        /\ lru_count' = 0 /\ tpc' = "wait" /\ forgotten' = forgotten
        /\ \A c \in Clients : /\ pc'[c] = "idle" /\ bio'[c] = NoBio
                              /\ before'[c] = {} /\ ~inflight'[c]
    BY <1>1 DEF Crash, Bind, flawVars
  <2>2. \A c \in Clients : ~Holds(c)' /\ ~Flushed(c)'
    BY Zenon, <2>1 DEF Holds, Flushed, NoBio
  <2>3. \A b \in FBlocks : Known(b)' => b \in synced
    <3>1. \A n : n \notin 1 .. lru_count'
      BY <2>1
    <3> QED
      BY Zenon, <2>1, <2>2, <3>1 DEF Known
  <2>4. \A b \in synced : Safe(b)
    BY DEF FlushInv
  <2>5. BlocksFine'
    BY Zenon, <2>1, <2>3, <2>4 DEF BlocksFine, Safe
  <2> QED
    BY Zenon, <2>1, <2>2, <2>4, <2>5 DEF FlushInv, Safe
<1>3. CASE Rebind
  <2>1. /\ UNCHANGED <<fmap, durable, cioVars, clientVars, bioVars, endVars, threadVars,
                       ackVars>>
        /\ forgotten' = forgotten \cup {b \in FBlocks : durable[b] # fmap[b]}
        /\ lru_count' = 0 /\ tpc = "wait"
        /\ \A c \in Clients : pc[c] = "idle" /\ ~inflight[c]
    BY <1>3 DEF Rebind, Bind
  <2>2. \A c \in Clients : ~Holds(c)' /\ ~Flushed(c)'
    BY Zenon, <2>1 DEF Holds, Flushed, clientVars, bioVars, endVars
  <2>3. \A b \in FBlocks : Known(b)' => Known(b)
    <3>1. \A n : n \notin 1 .. lru_count'
      BY <2>1
    <3> QED
      BY Zenon, <2>1, <2>2, <3>1 DEF Known, ackVars
  <2>4. \A b \in FBlocks : b \in forgotten' \/ durable'[b] = fmap'[b]
    BY <2>1
  <2>5. ASSUME NEW b \in FBlocks, Known(b)'
        PROVE  b \in forgotten' \/ fmap'[b] # Hole
    BY Zenon, <2>1, <2>3, <2>5 DEF FlushInv, BlocksFine
  <2>6. BlocksFine'
    BY Zenon, <2>1, <2>4, <2>5 DEF BlocksFine, Safe, threadVars
  <2>7. \A b \in FBlocks : Safe(b) => Safe(b)'
    BY SafeStays
  <2> QED
    BY Zenon, <1>0, <2>1, <2>2, <2>6, <2>7 DEF FlushInv, clientVars, bioVars, ackVars
<1>2. CASE ~Crash /\ ~Rebind
  <2>1. BlocksFine'
    BY <1>2, BlocksStep
  <2>2. \A b \in FBlocks : Safe(b) => Safe(b)'
    BY SafeStays
  <2>3. ASSUME NEW c \in Clients, ClientAct(c) PROVE FlushInv'
    <3>1. UNCHANGED <<tpc, t>>
      BY <2>3, ClientNextAct, ClientFrame DEF threadVars
    <3>2. /\ pc'[c] = "sendflush" => bio'[c].empty
          /\ acked \subseteq acked' /\ before'[c] \subseteq acked'
          /\ \A b \in synced' : b \in synced \/ (inflight[c] /\ b \in before[c])
      BY Zenon, <2>3, ClientHistory
    <3>3. \A b \in synced' : Safe(b)'
      BY Zenon, <1>0, <2>2, <3>2 DEF FlushInv, Flushed
    <3>4. Flushed(c)' => \A b \in before'[c] : Safe(b) /\ b \in FBlocks
      <4>1. TypeOK'
        BY <2>3, ClientNextAct, ClientNextTypes DEF ServeInv, StructInv
      <4> QED
        BY <2>3, <4>1, FlushedClient DEF TypeOK, BioTypes
    <3>5. ASSUME NEW d \in Clients, d # c
          PROVE  /\ pc'[d] = "sendflush" => bio'[d].empty
                 /\ before'[d] \subseteq acked'
                 /\ Flushed(d)' => \A b \in before'[d] : Safe(b) /\ b \in FBlocks
      <4>1. Same(d)
        BY <1>0, <2>3, <3>5, OtherClients
      <4> QED
        BY Zenon, <1>0, <3>1, <3>2, <4>1 DEF Same, Flushed, FlushInv
    <3> QED
      BY Zenon, <2>1, <2>2, <3>2, <3>3, <3>4, <3>5 DEF FlushInv
  <2>4. ASSUME UNCHANGED <<pc, bioVars, endVars, ackVars>>,
               \A c \in Clients : Flushed(c)' => Flushed(c) \/ \A b \in before[c] : Safe(b)
        PROVE  FlushInv'
    <3>1. \A b \in synced' : Safe(b)'
      BY Zenon, <1>0, <2>2, <2>4 DEF FlushInv, ackVars
    <3>2. ASSUME NEW c \in Clients
          PROVE  /\ pc'[c] = "sendflush" => bio'[c].empty
                 /\ before'[c] \subseteq acked'
                 /\ Flushed(c)' => \A b \in before'[c] : Safe(b)'
      BY Zenon, <1>0, <2>2, <2>4 DEF FlushInv, ackVars, bioVars
    <3> QED
      BY Zenon, <2>1, <3>1, <3>2 DEF FlushInv
  <2>5. CASE ThreadStep
    BY <2>4, <2>5, ThreadFrame, FlushedThread
  <2>6. CASE HostCommit
    BY Zenon, <2>4, <2>6 DEF HostCommit, Flushed, cioVars, clientVars, endVars, threadVars
  <2>7. CASE UNCHANGED vars
    BY Zenon, <2>4, <2>7 DEF vars, Flushed, cioVars, clientVars, endVars, threadVars
  <2> QED
    BY Zenon, <1>2, <2>3, <2>5, <2>6, <2>7, NextSplit, ClientNextAct
<1> QED
  BY <1>1, <1>2, <1>3

LEMMA InitFlush == Init => FlushInv
<1> SUFFICES ASSUME Init PROVE FlushInv
  OBVIOUS
<1>1. /\ durable = fmap /\ acked = {} /\ synced = {} /\ lru_count = 0 /\ tpc = "wait"
      /\ \A c \in Clients : /\ pc[c] = "idle" /\ bio[c] = NoBio /\ ~inflight[c]
                            /\ before[c] = {}
  BY DEF Init
<1>2. \A c \in Clients : ~Holds(c) /\ ~Flushed(c)
  BY Zenon, <1>1 DEF Holds, Flushed, NoBio
<1>3. \A n : n \notin 1 .. lru_count
  BY <1>1
<1>4. \A b \in FBlocks : ~Known(b)
  BY Zenon, <1>1, <1>2, <1>3 DEF Known
<1> QED
  BY Zenon, <1>1, <1>2, <1>4 DEF FlushInv, BlocksFine

\* Until a cio_req has been written to after its end, FlushInv holds.
LEMMA FlushInvariant == Spec => [](~late => FlushInv)
<1>1. Init => FlushInv
  BY InitFlush
<1>2. StructInv /\ (~late => ServeInv) /\ (~late => FlushInv) /\ [Next]_vars
        => (~late' => FlushInv')
  BY FlushStep, FlawStep DEF StructInv, TypeOK
<1>3. Spec => [](StructInv /\ (~late => ServeInv))
  BY ServeInvariant
<1> QED
  BY <1>1, <1>2, <1>3, PTL DEF Spec

(* When a bio with REQ_FLUSH has completed, the mappings of the writes that *)
(* had completed before it was submitted survive every crash of the host:   *)
(* LOOP_DIRTY is never found clear by redirect_bio while such a mapping is  *)
(* not on disk, but for the mappings that a rebind has made the driver      *)
(* forget.  The theorem assumes nothing of the host: get_block may fail at  *)
(* any block, and the promise ends with the first step that writes to a     *)
(* cio_req after its end.                                                   *)
THEOREM FlushIsDurable == Spec => []SyncedSurvives
<1>1. (~late => FlushInv) => SyncedSurvives
  BY Zenon DEF FlushInv, SyncedSurvives, Safe
<1>2. Spec => [](~late => FlushInv)
  BY FlushInvariant
<1> QED
  BY <1>1, <1>2, PTL

-----------------------------------------------------------------------------
(* The ends of the guests' bios.                                            *)

EndFine(c) ==
    /\ pc[c] \notin FuaTail \cup {"idle"} => ended[c] = 0 /\ ~inflight[c]
    /\ pc[c] # "idle" => ~fuaerr[c]
    /\ pc[c] \in FuaTail \cup {"idle"} /\ ~fuaerr[c] =>
          ended[c] = IF inflight[c] THEN 0 ELSE 1
    /\ fuaerr[c] => ended[c] = IF inflight[c] THEN 1 ELSE 2

EndInv == \A c \in Clients : EndFine(c)

LEMMA NextEnd ==
    ASSUME NEW c \in Clients, ended \in [Clients -> Nat], EndBio(c)
    PROVE  /\ ended[c] = 0 => ended'[c] = 1
           /\ ended[c] = 1 => ended'[c] = 2
BY DEF EndBio

LEMMA EndSelf ==
    ASSUME TypeOK, NEW c \in Clients, EndFine(c), ClientAct(c)
    PROVE  EndFine(c)'
<1>0. /\ pc \in [Clients -> ClientPC]
      /\ inflight \in [Clients -> BOOLEAN] /\ ended \in [Clients -> Nat]
      /\ cerr \in [Clients -> BOOLEAN] /\ fuaerr \in [Clients -> BOOLEAN]
  BY DEF TypeOK, ClientTypes, BioTypes, CioTypes
<1> USE <1>0 DEF EndFine, FuaTail
<1>1. ASSUME NEW b \in Blocks, NEW k \in Bios, Submit(c, b, k)
      PROVE  EndFine(c)'
  BY ZenonT(30), <1>1 DEF Submit, Goto
<1>2. CASE TestDirty(c)
  BY Zenon, <1>2 DEF TestDirty, Goto, AfterFlush, endVars
<1>3. CASE TestDirtyFua(c)
  BY Zenon, <1>3 DEF TestDirtyFua, Goto, Return, endVars
<1>4. CASE Enqueue(c)
  BY Zenon, <1>4 DEF Enqueue, Goto, endVars
<1>5. CASE WakePre(c)
  <2>1. /\ pc[c] = "waitpre" /\ ended[c] = 0 /\ ~inflight[c] /\ ~inflight'[c]
        /\ ~fuaerr[c] /\ ~fuaerr'[c]
    BY Zenon, <1>5 DEF WakePre
  <2>2. CASE cerr[c]
    <3>1. pc'[c] = "idle" /\ EndBio(c)
      BY Zenon, <1>5, <2>2 DEF WakePre, Goto, Return
    <3>2. ended'[c] = 1
      BY Zenon, <2>1, <3>1, NextEnd
    <3> QED
      BY Zenon, <2>1, <3>1, <3>2
  <2>3. CASE ~cerr[c]
    BY Zenon, <1>5, <2>1, <2>3 DEF WakePre, Goto, AfterFlush
  <2> QED
    BY Zenon, <2>2, <2>3
<1>6. CASE Lookup(c) \/ ReadNode(c)
  BY Zenon, <1>6 DEF Lookup, ReadNode, Goto, endVars
<1>7. CASE WakeMap(c)
  <2>1. /\ pc[c] = "waitmap" /\ ended[c] = 0 /\ ~inflight[c] /\ ~inflight'[c]
        /\ ~fuaerr[c] /\ ~fuaerr'[c]
    BY Zenon, <1>7 DEF WakeMap
  <2>2. \/ pc'[c] = "idle" /\ ended'[c] = 1
        \/ pc'[c] = "send" /\ ended'[c] = 0
    <3>1. CASE cerr[c]
      <4>1. pc'[c] = "idle" /\ EndBio(c)
        BY Zenon, <1>7, <3>1 DEF WakeMap, Goto, Return
      <4>2. ended'[c] = 1
        BY Zenon, <2>1, <4>1, NextEnd
      <4> QED
        BY Zenon, <4>1, <4>2
    <3>2. CASE ~cerr[c]
      BY Zenon, <1>7, <2>1, <3>2 DEF WakeMap, Goto
    <3> QED
      BY Zenon, <3>1, <3>2
  <2> QED
    BY Zenon, <2>1, <2>2
<1>8. CASE Send(c)
  <2>1. /\ pc[c] \in {"send", "sendflush"}
        /\ pc'[c] \in {"idle", "fuatest"}
        /\ inflight'[c] /\ ended' = ended /\ fuaerr' = fuaerr
    BY Zenon, <1>8 DEF Send, Goto
  <2> QED
    BY Zenon, <2>1
<1>9. CASE WakeFua(c)
  <2>1. /\ pc[c] = "waitfua" /\ pc'[c] = "idle" /\ ~fuaerr[c]
        /\ inflight' = inflight /\ ended[c] = IF inflight[c] THEN 0 ELSE 1
    BY Zenon, <1>9 DEF WakeFua, Goto, Return
  <2>2. CASE cerr[c]
    <3>1. EndBio(c) /\ fuaerr'[c]
      BY Zenon, <1>9, <2>2 DEF WakeFua
    <3>2. ended'[c] = IF inflight[c] THEN 1 ELSE 2
      BY Zenon, <2>1, <3>1, NextEnd
    <3> QED
      BY Zenon, <2>1, <3>1, <3>2
  <2>3. CASE ~cerr[c]
    BY Zenon, <1>9, <2>1, <2>3 DEF WakeFua
  <2> QED
    BY Zenon, <2>2, <2>3
<1>10. ASSUME NEW ok \in BOOLEAN, LowerDone(c, ok)
       PROVE  EndFine(c)'
  <2>1. /\ inflight[c] /\ ~inflight'[c] /\ EndBio(c) /\ pc' = pc
        /\ fuaerr' = fuaerr
    BY Zenon, <1>10 DEF LowerDone, clientVars
  <2>2. /\ pc[c] \in FuaTail \cup {"idle"}
        /\ ended[c] = IF fuaerr[c] THEN 1 ELSE 0
    BY Zenon, <2>1
  <2>3. ended'[c] = IF fuaerr[c] THEN 2 ELSE 1
    BY Zenon, <2>1, <2>2, NextEnd
  <2> QED
    BY Zenon, <2>1, <2>2, <2>3
<1> QED
  BY Zenon, <1>1, <1>2, <1>3, <1>4, <1>5, <1>6, <1>7, <1>8, <1>9, <1>10
  DEF ClientAct, ClientStep

LEMMA EndStep ==
    ASSUME TypeOK, EndInv, [Next]_vars
    PROVE  EndInv'
<1>1. ASSUME NEW c \in Clients, ClientAct(c) PROVE EndInv'
  <2>1. EndFine(c)'
    BY <1>1, EndSelf DEF EndInv
  <2>2. ASSUME NEW d \in Clients, d # c PROVE EndFine(d)'
    <3>1. Same(d)
      BY <1>1, <2>2, OtherClients
    <3> QED
      BY Zenon, <3>1 DEF EndInv, EndFine, Same
  <2> QED
    BY <2>1, <2>2 DEF EndInv
<1>2. ASSUME UNCHANGED <<pc, endVars>> PROVE EndInv'
  BY Zenon, <1>2 DEF EndInv, EndFine, endVars
<1>3. CASE ThreadStep
  BY <1>2, <1>3, ThreadFrame
<1>4. CASE HostCommit \/ Rebind
  BY Zenon, <1>2, <1>4 DEF HostCommit, Rebind, clientVars
<1>5. CASE Crash
  BY Zenon, <1>5 DEF Crash, EndInv, EndFine, FuaTail
<1>6. CASE UNCHANGED vars
  BY Zenon, <1>2, <1>6 DEF vars, clientVars
<1> QED
  BY <1>1, <1>3, <1>4, <1>5, <1>6, NextSplit, ClientNextAct

(* bio_endio is called once for every bio, by an error path or by the       *)
(* completion of the host's bio, whatever fails; only the failure of the    *)
(* flush behind a FUA write, whose error path runs after the bio was handed *)
(* on, ends the bio a second time.                                          *)
THEOREM BiosEndOnce == Spec => []EndedOnce
<1>1. Init => EndInv
  BY ZenonT(30) DEF Init, EndInv, EndFine, FuaTail
<1>2. TypeOK /\ EndInv /\ [Next]_vars => EndInv'
  BY EndStep
<1>3. EndInv => EndedOnce
  <2> SUFFICES ASSUME NEW c \in Clients, EndFine(c)
               PROVE  LET ends == IF fuaerr[c] THEN 2 ELSE 1
                      IN  /\ ended[c] <= ends
                          /\ pc[c] = "idle" /\ ~inflight[c] => ended[c] = ends
    BY DEF EndInv, EndedOnce
  <2>1. CASE fuaerr[c]
    <3>1. ended[c] = 1 \/ ended[c] = 2
      BY Zenon, <2>1 DEF EndFine
    <3>2. ended[c] <= 2
      BY <3>1
    <3> QED
      BY Zenon, <2>1, <3>2 DEF EndFine
  <2>2. CASE ~fuaerr[c]
    <3>1. ended[c] = 0 \/ ended[c] = 1
      BY Zenon, <2>2 DEF EndFine
    <3>2. ended[c] <= 1
      BY <3>1
    <3> QED
      BY Zenon, <2>2, <3>2 DEF EndFine, FuaTail
  <2> QED
    BY Zenon, <2>1, <2>2
<1>4. Spec => []TypeOK
  BY TypeCorrect
<1> QED
  BY <1>1, <1>2, <1>3, <1>4, PTL DEF Spec

-----------------------------------------------------------------------------
(* The driver implements VirtualDisk.  Steps of the cache, the thread and   *)
(* the request list are stutters of the disk, but for get_block (Grow),     *)
(* fsync (Commit) and recycling a node (Race); a client takes, locates,     *)
(* issues, rejects, finishes and closes its bio.                            *)

\* Only a bio with data is looked up, and only a FUA write has a tail.
KindFine(c) ==
    /\ pc[c] \in {"lookup", "readnode", "enqmap", "waitmap", "send"} =>
          ~bio[c].empty
    /\ pc[c] \in FuaTail => bio[c].fua

KindInv == \A c \in Clients : KindFine(c)

LEMMA KindSelf ==
    ASSUME TypeOK, NEW c \in Clients, KindFine(c), ClientAct(c)
    PROVE  KindFine(c)'
<1>0. pc \in [Clients -> ClientPC] /\ bio \in [Clients -> BioKind]
  BY DEF TypeOK, ClientTypes, BioTypes
<1> USE <1>0 DEF KindFine, FuaTail
<1>1. ASSUME NEW b \in Blocks, NEW k \in Bios, Submit(c, b, k)
      PROVE  KindFine(c)'
  BY ZenonT(30), <1>1 DEF Submit, Goto, bioVars
<1>2. CASE TestDirty(c)
  BY Zenon, <1>2 DEF TestDirty, Goto, AfterFlush, bioVars
<1>3. CASE TestDirtyFua(c)
  BY Zenon, <1>3 DEF TestDirtyFua, Goto, Return, bioVars
<1>4. CASE Enqueue(c)
  BY Zenon, <1>4 DEF Enqueue, Goto, bioVars
<1>5. CASE WakePre(c)
  BY Zenon, <1>5 DEF WakePre, Goto, Return, AfterFlush, bioVars
<1>6. CASE Lookup(c) \/ ReadNode(c)
  BY Zenon, <1>6 DEF Lookup, ReadNode, Goto, bioVars
<1>7. CASE WakeMap(c)
  BY Zenon, <1>7 DEF WakeMap, Goto, Return, bioVars
<1>8. CASE Send(c)
  BY Zenon, <1>8 DEF Send, Goto, bioVars
<1>9. CASE WakeFua(c)
  BY Zenon, <1>9 DEF WakeFua, Goto, Return, bioVars
<1>10. ASSUME NEW ok \in BOOLEAN, LowerDone(c, ok)
       PROVE  KindFine(c)'
  BY Zenon, <1>10 DEF LowerDone, clientVars, bioVars
<1> QED
  BY Zenon, <1>1, <1>2, <1>3, <1>4, <1>5, <1>6, <1>7, <1>8, <1>9, <1>10
  DEF ClientAct, ClientStep

LEMMA KindStep ==
    ASSUME TypeOK, KindInv, [Next]_vars
    PROVE  KindInv'
<1>1. ASSUME NEW c \in Clients, ClientAct(c) PROVE KindInv'
  <2>1. KindFine(c)'
    BY <1>1, KindSelf DEF KindInv
  <2>2. ASSUME NEW d \in Clients, d # c PROVE KindFine(d)'
    <3>1. Same(d)
      BY <1>1, <2>2, OtherClients
    <3> QED
      BY Zenon, <3>1 DEF KindInv, KindFine, Same
  <2> QED
    BY <2>1, <2>2 DEF KindInv
<1>2. ASSUME UNCHANGED <<pc, bioVars>> PROVE KindInv'
  BY Zenon, <1>2 DEF KindInv, KindFine, bioVars
<1>3. CASE ThreadStep
  BY <1>2, <1>3, ThreadFrame
<1>4. CASE HostCommit \/ Rebind
  BY Zenon, <1>2, <1>4 DEF HostCommit, Rebind, clientVars
<1>5. CASE Crash
  BY Zenon, <1>5 DEF Crash, KindInv, KindFine, FuaTail
<1>6. CASE UNCHANGED vars
  BY Zenon, <1>2, <1>6 DEF vars, clientVars
<1> QED
  BY <1>1, <1>3, <1>4, <1>5, <1>6, NextSplit, ClientNextAct

DiskInv == ServeInv /\ FlushInv /\ EndInv /\ KindInv

-----------------------------------------------------------------------------
(* Stages.                                                                  *)

\* When one client runs, only its stage changes.
LEMMA StageMove ==
    ASSUME NEW c \in Clients, \A d \in Clients \ {c} : Same(d)
    PROVE  StageMap' = [StageMap EXCEPT ![c] = Stage(c)']
<1>1. \A d \in Clients \ {c} : Stage(d)' = Stage(d)
  BY DEF Same, Stage
<1> QED
  BY Zenon, <1>1 DEF StageMap

LEMMA StageStays ==
    ASSUME UNCHANGED <<pc, inflight>>
    PROVE  StageMap' = StageMap
BY DEF StageMap, Stage

-----------------------------------------------------------------------------
(* The steps of the clients.                                                *)

\* The parts of the disk that no client touches by itself.
LEMMA ClientDisk ==
    ASSUME ClientNext
    PROVE  UNCHANGED <<fmap, durable, flawVars>>
BY ClientFrame DEF fileVars

LEMMA StepTakes ==
    ASSUME DiskInv, NEW c \in Clients, NEW b \in Blocks, NEW k \in Bios,
           Submit(c, b, k), \A d \in Clients \ {c} : Same(d), EndFine(c)',
           UNCHANGED <<fmap, durable, flawVars>>
    PROVE  [Disk!Next]_(Disk!vars)
<1>0. /\ pc \in [Clients -> ClientPC] /\ EndFine(c)
      /\ pc[c] = "idle" /\ ~inflight[c] /\ UNCHANGED <<inflight, phys, stale, ackVars>>
  BY DEF DiskInv, ServeInv, StructInv, TypeOK, ClientTypes, EndInv, Submit
<1>1. CASE UNCHANGED <<pc, bioVars>>
  <2>1. StageMap' = StageMap
    BY Zenon, <1>0, <1>1, StageStays
  <2> QED
    BY Zenon, <1>0, <1>1, <2>1 DEF Disk!vars, Disk!bioVars, bioVars, ackVars, flawVars, Disk!flaws
<1>2. CASE ~UNCHANGED <<pc, bioVars>>
  <2>1. /\ pc'[c] \in {"preflush", "lookup"}
        /\ bio' = [bio EXCEPT ![c] = k]
        /\ blk' = [blk EXCEPT ![c] = b]
        /\ before' = [before EXCEPT ![c] = IF k.flush THEN acked ELSE {}]
    BY Zenon, <1>0, <1>2 DEF Submit, Goto
  <2>2. Stage(c) = "idle" /\ Stage(c)' = "taken"
    BY Zenon, <1>0, <2>1 DEF Stage, FuaTail
  <2>3. StageMap' = [StageMap EXCEPT ![c] = "taken"] /\ StageMap[c] = "idle"
    BY Zenon, <2>2, StageMove DEF StageMap
  <2>4. Disk!Take(c)
    BY Zenon, <1>0, <2>1, <2>3 DEF Disk!Take, Disk!Move, ackVars, flawVars, Disk!flaws
  <2>5. StageMap'[c] # StageMap[c]
    BY <2>3 DEF StageMap
  <2> QED
    BY Zenon, <2>4, <2>5 DEF Disk!Next, Disk!BioStep
<1> QED
  BY <1>1, <1>2

\* A client that moves on, and whose bio changes its stage, takes a step of
\* the disk when Disk says so of its bio.
LEMMA StepMoves ==
    ASSUME NEW c \in Clients, \A d \in Clients \ {c} : Same(d),
           Stage(c)' # Stage(c),
           StageMap' = [StageMap EXCEPT ![c] = Stage(c)'] =>
                 \/ Disk!Take(c) \/ Disk!Locate(c) \/ Disk!Issue(c)
                 \/ Disk!Reject(c) \/ Disk!Finish(c) \/ Disk!Close(c)
    PROVE  Disk!Next
<1>1. StageMap' = [StageMap EXCEPT ![c] = Stage(c)']
  BY Zenon, StageMove
<1>2. StageMap'[c] # StageMap[c]
  BY <1>1 DEF StageMap
<1> QED
  BY Zenon, <1>1, <1>2 DEF Disk!Next, Disk!BioStep

\* Before the bio is located or sent, the disk does not notice.
LEMMA StepQuiet ==
    ASSUME DiskInv, NEW c \in Clients, \A d \in Clients \ {c} : Same(d),
           UNCHANGED <<fmap, durable, flawVars>>,
           TestDirty(c) \/ Enqueue(c) \/ Lookup(c)
    PROVE  UNCHANGED Disk!vars
<1>0. /\ pc \in [Clients -> ClientPC] /\ EndFine(c)
  BY DEF DiskInv, ServeInv, StructInv, TypeOK, ClientTypes, EndInv
<1>1. UNCHANGED <<inflight, phys, stale, bioVars, ackVars>>
  BY Zenon DEF TestDirty, Enqueue, Lookup, endVars
<1>2. Stage(c)' = Stage(c)
  <2>1. CASE pc[c] = "enqfua"
    <3>1. pc'[c] = "waitfua"
      BY Zenon, <1>0, <2>1 DEF TestDirty, Enqueue, Lookup, Goto
    <3> QED
      BY Zenon, <1>1, <2>1, <3>1 DEF Stage, FuaTail
  <2>2. CASE pc[c] # "enqfua"
    <3>1. /\ pc[c] \in {"preflush", "enqpre", "enqmap", "lookup"}
          /\ pc'[c] \in {"enqpre", "sendflush", "lookup", "waitpre", "waitmap",
                         "enqmap", "readnode"}
      BY Zenon, <1>0, <2>2 DEF TestDirty, Enqueue, Lookup, Goto, AfterFlush
    <3> QED
      BY Zenon, <1>1, <3>1 DEF Stage, FuaTail
  <2> QED
    BY <2>1, <2>2
<1>3. StageMap' = StageMap
  BY Zenon, <1>2, StageMove DEF StageMap
<1> QED
  BY Zenon, <1>1, <1>3 DEF Disk!vars, Disk!bioVars, bioVars, ackVars, flawVars, Disk!flaws

\* The bio is known to be at p.
LEMMA StepLocates ==
    ASSUME DiskInv, NEW c \in Clients, \A d \in Clients \ {c} : Same(d),
           UNCHANGED <<fmap, durable, flawVars, stale, bioVars, inflight, ackVars>>,
           pc[c] \in {"readnode", "waitmap"}, pc'[c] = "send",
           NEW STATE p, phys' = [phys EXCEPT ![c] = p],
           Translated(c, p) \/ (stale[c] /\ p # Hole /\ \E b \in FBlocks : p = fmap[b])
    PROVE  Disk!Next
<1>0. /\ EndFine(c) /\ ~bio[c].empty /\ ~inflight[c]
      /\ blk[c] \in FBlocks /\ DOMAIN fmap = FBlocks
  <2>1. fmap \in [FBlocks -> Phys \cup {Hole}]
    BY DEF DiskInv, ServeInv, StructInv, TypeOK, FileTypes, FileMaps
  <2>2. KindFine(c) /\ EndFine(c)
    BY DEF DiskInv, KindInv, EndInv
  <2>3. ~inflight[c] /\ ~bio[c].empty
    BY Zenon, <2>2 DEF KindFine, EndFine, FuaTail
  <2>4. blk[c] \in FBlocks
    BY Zenon, ConstantTypes DEF DiskInv, ServeInv, StructInv, TypeOK, BioTypes
  <2> QED
    BY <2>1, <2>2, <2>3, <2>4
<1>1. Stage(c) = "taken" /\ Stage(c)' = "located"
  BY Zenon, <1>0 DEF Stage, FuaTail
<1>2. /\ p \in {Hole} \cup {fmap[b] : b \in DOMAIN fmap}
      /\ \/ p = fmap[blk[c]] /\ p # Hole
         \/ p = Hole /\ ~bio[c].write
         \/ stale[c] /\ p # Hole
  BY Zenon, <1>0 DEF Translated
<1>3. StageMap[c] = "taken"
  BY Zenon, <1>1 DEF StageMap
<1>4. StageMap' = [StageMap EXCEPT ![c] = "located"] => Disk!Locate(c)
  BY Zenon, <1>0, <1>2, <1>3 DEF Disk!Locate, Disk!Move, Disk!bioVars, bioVars, ackVars, flawVars, Disk!flaws
<1>5. Stage(c)' # Stage(c)
  BY <1>1
<1> QED
  BY Zenon, <1>1, <1>4, <1>5, StepMoves

LEMMA StepReads ==
    ASSUME DiskInv, NEW c \in Clients, \A d \in Clients \ {c} : Same(d),
           UNCHANGED <<fmap, durable, flawVars>>, ReadNode(c)
    PROVE  Disk!Next
<1>1. /\ node[ptr[c]].b_blocknr # Hole
      /\ node[ptr[c]].b_blocknr = fmap[node[ptr[c]].blk_local]
      /\ ~stale[c] => node[ptr[c]].blk_local = blk[c]
  BY Zenon DEF ReadNode, PtrOK, CacheSound, DiskInv, ServeInv, StructInv
<1>2. ptr[c] \in Nodes
  BY Zenon, InUse DEF ReadNode, PtrOK, TypeOK, CacheTypes, DiskInv, ServeInv, StructInv
<1>3. node[ptr[c]].blk_local \in FBlocks
  BY <1>2 DEF TypeOK, CacheTypes, DiskInv, ServeInv, StructInv
<1>4. pc \in [Clients -> ClientPC]
  BY DEF DiskInv, ServeInv, StructInv, TypeOK, ClientTypes
<1>5. /\ pc[c] = "readnode" /\ pc'[c] = "send"
      /\ phys' = [phys EXCEPT ![c] = node[ptr[c]].b_blocknr]
      /\ UNCHANGED <<stale, bioVars, inflight, ackVars>>
  BY Zenon, <1>1, <1>4 DEF ReadNode, Goto, endVars
<1>6. \/ Translated(c, node[ptr[c]].b_blocknr)
      \/ /\ stale[c] /\ node[ptr[c]].b_blocknr # Hole
         /\ \E b \in FBlocks : node[ptr[c]].b_blocknr = fmap[b]
  BY Zenon, <1>1, <1>3 DEF Translated
<1> QED
  BY Zenon, <1>5, <1>6, StepLocates

\* The bio is ended with an error before it was sent.
LEMMA StepRejects ==
    ASSUME DiskInv, NEW c \in Clients, \A d \in Clients \ {c} : Same(d),
           UNCHANGED <<fmap, durable, flawVars, phys, stale, inflight, ackVars>>,
           pc[c] \in {"waitpre", "waitmap"}, Return(c)
    PROVE  Disk!Next
<1>0. EndFine(c) /\ pc \in [Clients -> ClientPC]
  BY DEF DiskInv, ServeInv, StructInv, TypeOK, ClientTypes, EndInv
<1>1. ~inflight[c] /\ pc'[c] = "idle" /\ Forget(c)
  BY Zenon, <1>0 DEF EndFine, FuaTail, Return, Goto
<1>2. Stage(c) = "taken" /\ Stage(c)' = "idle"
  BY Zenon, <1>1 DEF Stage, FuaTail
<1>3. Stage(c)' # Stage(c) /\ StageMap[c] = "taken"
  BY <1>2 DEF StageMap
<1>4. StageMap' = [StageMap EXCEPT ![c] = "idle"] => Disk!Reject(c)
  BY Zenon, <1>1, <1>3 DEF Disk!Reject, Disk!Move, Disk!Forget, Forget, ackVars, flawVars, Disk!flaws
<1> QED
  BY Zenon, <1>2, <1>3, <1>4, StepMoves

\* redirect_bio is done with a FUA write; the host device may not be.
LEMMA StepCloses ==
    ASSUME DiskInv, NEW c \in Clients, \A d \in Clients \ {c} : Same(d),
           UNCHANGED <<fmap, durable, flawVars, phys, stale, inflight, ackVars>>,
           pc[c] \in FuaTail, Return(c)
    PROVE  [Disk!Next]_(Disk!vars)
<1>0. pc \in [Clients -> ClientPC]
  BY DEF DiskInv, ServeInv, StructInv, TypeOK, ClientTypes
<1>1. pc'[c] = "idle"
  BY Zenon, <1>0 DEF Return, Goto
<1>2. CASE inflight[c]
  <2>1. Stage(c) = "issued" /\ Stage(c)' = "issued"
    BY Zenon, <1>2 DEF Stage
  <2>2. StageMap' = StageMap
    BY Zenon, <2>1, StageMove DEF StageMap
  <2>3. UNCHANGED bioVars
    BY Zenon, <1>2 DEF Return
  <2> QED
    BY Zenon, <2>2, <2>3 DEF Disk!vars, Disk!bioVars, bioVars, ackVars, flawVars, Disk!flaws
<1>3. CASE ~inflight[c]
  <2>1. Stage(c) = "done" /\ Stage(c)' = "idle"
    BY Zenon, <1>1, <1>3 DEF Stage, FuaTail
  <2>2. Stage(c)' # Stage(c) /\ StageMap[c] = "done"
    BY <2>1 DEF StageMap
  <2>3. Forget(c)
    BY Zenon, <1>3 DEF Return
  <2>4. StageMap' = [StageMap EXCEPT ![c] = "idle"] => Disk!Close(c)
    BY Zenon, <2>2, <2>3 DEF Disk!Close, Disk!Move, Disk!Forget, Forget, ackVars, flawVars, Disk!flaws
  <2> QED
    BY Zenon, <2>1, <2>2, <2>4, StepMoves
<1> QED
  BY <1>2, <1>3

LEMMA StepIssues ==
    ASSUME DiskInv, NEW c \in Clients, \A d \in Clients \ {c} : Same(d),
           UNCHANGED <<fmap, durable, flawVars>>, Send(c)
    PROVE  Disk!Next
<1>0. /\ EndFine(c) /\ (pc[c] = "sendflush" => bio[c].empty)
      /\ inflight \in [Clients -> BOOLEAN]
  BY DEF DiskInv, EndInv, FlushInv, ServeInv, StructInv, TypeOK, BioTypes
<1>1. /\ pc[c] \in {"send", "sendflush"} /\ inflight'[c]
      /\ phys' = [phys EXCEPT ![c] = Hole]
      /\ stale' = [stale EXCEPT ![c] = FALSE]
      /\ UNCHANGED <<bioVars, ackVars>>
  BY Zenon, <1>0 DEF Send
<1>2. /\ Stage(c) = "located" \/ (Stage(c) = "taken" /\ bio[c].empty)
      /\ Stage(c)' = "issued"
  BY Zenon, <1>0, <1>1 DEF Stage, EndFine, FuaTail
<1>3. /\ Stage(c)' # Stage(c)
      /\ StageMap[c] = "located" \/ (StageMap[c] = "taken" /\ bio[c].empty)
  BY <1>2 DEF StageMap
<1>4. StageMap' = [StageMap EXCEPT ![c] = "issued"] => Disk!Issue(c)
  BY Zenon, <1>1, <1>3 DEF Disk!Issue, Disk!Move, Disk!bioVars, bioVars, ackVars, flawVars, Disk!flaws
<1> QED
  BY Zenon, <1>2, <1>3, <1>4, StepMoves

\* A flush that has got to the host device has secured what it covers.
LEMMA StepFinishes ==
    ASSUME DiskInv, NEW c \in Clients, \A d \in Clients \ {c} : Same(d),
           UNCHANGED <<fmap, durable, flawVars>>, NEW ok \in BOOLEAN, LowerDone(c, ok)
    PROVE  Disk!Next
<1>0. EndFine(c) /\ KindFine(c) /\ inflight \in [Clients -> BOOLEAN]
  BY DEF DiskInv, EndInv, KindInv, ServeInv, StructInv, TypeOK, BioTypes
<1>1. inflight[c] /\ ~inflight'[c] /\ UNCHANGED <<pc, phys, stale>>
  BY Zenon, <1>0 DEF LowerDone, clientVars
<1>2. Disk!Secured(before[c] \ forgotten)
  BY Zenon, <1>1 DEF DiskInv, FlushInv, Flushed, Safe, Disk!Secured
<1>3. /\ acked' = IF ok /\ bio[c].write /\ ~bio[c].empty
                  THEN acked \cup {blk[c]} ELSE acked
      /\ synced' = IF ok /\ bio[c].flush THEN synced \cup before[c] ELSE synced
  BY Zenon DEF LowerDone
<1>4. StageMap[c] = "issued" /\ Stage(c) = "issued"
  BY Zenon, <1>1 DEF StageMap, Stage
<1>5. CASE pc[c] = "idle"
  <2>1. Stage(c)' = "idle"
    BY Zenon, <1>1, <1>5 DEF Stage
  <2>2. Forget(c)
    BY Zenon, <1>5 DEF LowerDone
  <2>3. StageMap' = [StageMap EXCEPT ![c] = "idle"] => Disk!Finish(c)
    BY Zenon, <1>1, <1>2, <1>3, <1>4, <2>2 DEF Disk!Finish, Disk!Move, Disk!Forget, Forget, flawVars, Disk!flaws
  <2>4. Stage(c)' # Stage(c)
    BY <1>4, <2>1
  <2> QED
    BY Zenon, <2>1, <2>3, <2>4, StepMoves
<1>6. CASE pc[c] # "idle"
  <2>1. pc[c] \in FuaTail /\ bio[c].fua
    BY Zenon, <1>0, <1>1, <1>6 DEF EndFine, KindFine
  <2>2. Stage(c)' = "done"
    BY Zenon, <1>1, <2>1 DEF Stage, FuaTail
  <2>3. UNCHANGED bioVars
    BY Zenon, <1>6 DEF LowerDone
  <2>4. StageMap' = [StageMap EXCEPT ![c] = "done"] => Disk!Finish(c)
    BY Zenon, <1>1, <1>2, <1>3, <1>4, <2>1, <2>3
    DEF Disk!Finish, Disk!Move, Disk!bioVars, bioVars, flawVars, Disk!flaws
  <2>5. Stage(c)' # Stage(c)
    BY <1>4, <2>2
  <2> QED
    BY Zenon, <2>2, <2>4, <2>5, StepMoves
<1> QED
  BY <1>5, <1>6

LEMMA ClientRefines ==
    ASSUME DiskInv, NEW c \in Clients, ClientAct(c), EndInv'
    PROVE  [Disk!Next]_(Disk!vars)
<1>0. /\ TypeOK /\ \A d \in Clients \ {c} : Same(d)
      /\ UNCHANGED <<fmap, durable, flawVars>>
  <2>1. TypeOK
    BY DEF DiskInv, ServeInv, StructInv
  <2> QED
    BY <2>1, OtherClients, ClientNextAct, ClientDisk
<1>1. ASSUME NEW b \in Blocks, NEW k \in Bios, Submit(c, b, k)
      PROVE  [Disk!Next]_(Disk!vars)
  <2>1. EndFine(c)'
    BY DEF EndInv
  <2> QED
    BY <1>0, <1>1, <2>1, StepTakes
<1>2. CASE TestDirty(c) \/ Enqueue(c) \/ Lookup(c)
  BY <1>0, <1>2, StepQuiet
<1>3. CASE TestDirtyFua(c)
  <2>1. CASE dirty
    <3>1. /\ pc[c] = "fuatest" /\ pc'[c] = "enqfua"
          /\ UNCHANGED <<phys, stale, bioVars, inflight, ackVars>>
      BY Zenon, <1>0, <1>3, <2>1 DEF TestDirtyFua, Goto, endVars, TypeOK, ClientTypes
    <3>2. Stage(c)' = Stage(c)
      BY Zenon, <3>1 DEF Stage, FuaTail
    <3>3. StageMap' = StageMap
      BY Zenon, <1>0, <3>2, StageMove DEF StageMap
    <3> QED
      BY Zenon, <1>0, <3>1, <3>3 DEF Disk!vars, Disk!bioVars, bioVars, ackVars, flawVars, Disk!flaws
  <2>2. CASE ~dirty
    <3>1. /\ pc[c] \in FuaTail /\ Return(c)
          /\ UNCHANGED <<phys, stale, inflight, ackVars>>
      BY Zenon, <1>3, <2>2 DEF TestDirtyFua, FuaTail, endVars
    <3> QED
      BY Zenon, <1>0, <3>1, StepCloses
  <2> QED
    BY <2>1, <2>2
<1>4. CASE WakePre(c)
  <2>1. pc[c] = "waitpre" /\ UNCHANGED <<phys, stale, inflight, ackVars>>
    BY Zenon, <1>4 DEF WakePre
  <2>2. CASE cerr[c]
    <3>1. Return(c)
      BY Zenon, <1>4, <2>2 DEF WakePre
    <3> QED
      BY Zenon, <1>0, <2>1, <3>1, StepRejects
  <2>3. CASE ~cerr[c]
    <3>1. pc'[c] \in {"sendflush", "lookup"} /\ UNCHANGED bioVars
      BY Zenon, <1>0, <1>4, <2>3
      DEF WakePre, Goto, AfterFlush, TypeOK, ClientTypes
    <3>2. Stage(c)' = Stage(c)
      BY Zenon, <2>1, <3>1 DEF Stage, FuaTail
    <3>3. StageMap' = StageMap
      BY Zenon, <1>0, <3>2, StageMove DEF StageMap
    <3> QED
      BY Zenon, <1>0, <2>1, <3>1, <3>3 DEF Disk!vars, Disk!bioVars, bioVars, ackVars, flawVars, Disk!flaws
  <2> QED
    BY <2>2, <2>3
<1>5. CASE ReadNode(c)
  BY <1>0, <1>5, StepReads
<1>6. CASE WakeMap(c)
  <2>1. pc[c] = "waitmap" /\ UNCHANGED <<stale, inflight, ackVars>>
    BY Zenon, <1>6 DEF WakeMap
  <2>2. CASE cerr[c]
    <3>1. Return(c) /\ UNCHANGED phys
      BY Zenon, <1>6, <2>2 DEF WakeMap
    <3> QED
      BY Zenon, <1>0, <2>1, <3>1, StepRejects
  <2>3. CASE ~cerr[c]
    <3>1. /\ pc'[c] = "send" /\ UNCHANGED bioVars
          /\ phys' = [phys EXCEPT ![c] = cphy[c]]
      BY Zenon, <1>0, <1>6, <2>3 DEF WakeMap, Goto, TypeOK, ClientTypes
    <3>2. Translated(c, cphy[c])
      BY Zenon, <1>6, <2>1, <2>3
      DEF WakeMap, Woken, DiskInv, ServeInv, ClientOK, ClientFine
    <3> QED
      BY Zenon, <1>0, <2>1, <3>1, <3>2, StepLocates
  <2> QED
    BY <2>2, <2>3
<1>7. CASE Send(c)
  BY <1>0, <1>7, StepIssues
<1>8. CASE WakeFua(c)
  <2>1. /\ pc[c] \in FuaTail /\ Return(c)
        /\ UNCHANGED <<phys, stale, inflight, ackVars>>
    BY Zenon, <1>8 DEF WakeFua, FuaTail
  <2> QED
    BY Zenon, <1>0, <2>1, StepCloses
<1>9. ASSUME NEW ok \in BOOLEAN, LowerDone(c, ok)
      PROVE  [Disk!Next]_(Disk!vars)
  BY <1>0, <1>9, StepFinishes
<1> QED
  BY Zenon, <1>1, <1>2, <1>3, <1>4, <1>5, <1>6, <1>7, <1>8, <1>9
  DEF ClientAct, ClientStep

-----------------------------------------------------------------------------
(* The steps of the thread and of the host.                                 *)

LEMMA ThreadRefines ==
    ASSUME DiskInv, ThreadStep, late' = late
    PROVE  [Disk!Next]_(Disk!vars)
<1>0. /\ TypeOK /\ StageMap' = StageMap
      /\ UNCHANGED <<pc, phys, bioVars, ackVars>>
  BY ThreadFrame, StageStays DEF DiskInv, ServeInv, StructInv, endVars
<1>1. ASSUME UNCHANGED <<fmap, durable, flawVars, stale>> PROVE UNCHANGED Disk!vars
  BY Zenon, <1>0, <1>1 DEF Disk!vars, Disk!bioVars, bioVars, ackVars, flawVars, Disk!flaws
<1>2. CASE Pop \/ ClearDirty \/ Complete \/ Hit \/ SetDirty \/ Answer \/ Skip
           \/ AddNew \/ Recycle
  <2>1. UNCHANGED <<fmap, durable, flawVars, stale>>
    BY Zenon, <1>2 DEF Pop, ClearDirty, Complete, Hit, SetDirty, Answer, Skip,
       AddNew, Recycle, fileVars, clientVars, flawVars
  <2> QED
    BY <1>1, <2>1
<1>3. CASE Fsync
  <2>1. UNCHANGED <<fmap, stale>> /\ (Persist \/ UNCHANGED <<durable, flawVars>>)
    BY Zenon, <1>3 DEF Fsync, clientVars, flawVars
  <2>2. Persist => Disk!Commit
    BY Zenon, <1>0, <2>1 DEF Persist, Disk!Commit, Disk!bioVars, bioVars, ackVars
  <2> QED
    BY Zenon, <1>1, <2>1, <2>2 DEF Disk!Next
<1>4. CASE GetBlock
  <2>1. UNCHANGED <<durable, stale, flawVars>>
    BY Zenon, <1>4 DEF GetBlock, GetBlockFails, GetBlockSucceeds, clientVars, flawVars
  <2>2. /\ fmap' \in FileMaps
        /\ \A b \in FBlocks : fmap[b] # Hole => fmap'[b] = fmap[b]
    BY <1>4, GetBlockMap DEF DiskInv, ServeInv
  <2>3. DOMAIN fmap = FBlocks
    BY <1>0 DEF TypeOK, FileTypes, FileMaps
  <2>4. CASE fmap' # fmap
    <3>1. Disk!Grow
      BY Zenon, <1>0, <2>1, <2>2, <2>3, <2>4 DEF Disk!Grow, Disk!bioVars, bioVars, ackVars, flawVars, Disk!flaws
    <3> QED
      BY Zenon, <3>1 DEF Disk!Next
  <2> QED
    BY <1>1, <2>1, <2>4
<1>5. CASE Reuse
  <2> DEFINE S == {c \in Clients : pc[c] = "readnode" /\ ptr[c] = t.node}
  <2>1. UNCHANGED <<fmap, durable, flawVars>>
    BY Zenon, <1>5 DEF Reuse, fileVars
  <2>2. stale' = [c \in Clients |-> stale[c] \/ c \in S]
    BY Zenon, <1>5 DEF Reuse
  <2>3. \A c \in S : StageMap[c] = "taken"
    <3> SUFFICES ASSUME NEW c \in Clients, pc[c] = "readnode"
                 PROVE  StageMap[c] = "taken"
      BY Zenon
    <3>1. ~inflight[c]
      BY Zenon DEF DiskInv, EndInv, EndFine, FuaTail
    <3> QED
      BY Zenon, <3>1 DEF StageMap, Stage, FuaTail
  <2>4. S \in SUBSET Clients
    BY Zenon
  <2> HIDE DEF S
  <2>5. Disk!Race(S)
    BY Zenon, <1>0, <2>1, <2>2, <2>3 DEF Disk!Race, Disk!bioVars, bioVars, ackVars, flawVars, Disk!flaws
  <2>6. CASE stale' # stale
    BY Zenon, <2>4, <2>5, <2>6 DEF Disk!Next
  <2> QED
    BY <1>1, <2>1, <2>6
<1> QED
  BY Zenon, <1>2, <1>3, <1>4, <1>5 DEF ThreadStep

LEMMA HostRefines ==
    ASSUME DiskInv, HostCommit \/ Crash \/ Rebind
    PROVE  [Disk!Next]_(Disk!vars)
<1>1. CASE HostCommit
  <2>1. UNCHANGED <<fmap, pc, inflight, phys, stale, bioVars, ackVars, late>> /\ Persist
    BY Zenon, <1>1 DEF HostCommit, clientVars, endVars
  <2>2. Disk!Commit
    BY Zenon, <2>1, StageStays DEF Persist, Disk!Commit, Disk!bioVars, bioVars, ackVars
  <2> QED
    BY Zenon, <2>2 DEF Disk!Next
<1>2. CASE Crash
  <2>1. \A c \in Clients : pc'[c] = "idle" /\ ~inflight'[c]
    BY Zenon, <1>2 DEF Crash
  <2>2. StageMap' = [c \in Clients |-> "idle"]
    BY <2>1 DEF StageMap, Stage
  <2>3. Disk!Crash
    BY Zenon, <1>2, <2>2 DEF Crash, Disk!Crash, Disk!Nobody, Disk!flaws, flawVars
  <2> QED
    BY Zenon, <2>3 DEF Disk!Next
<1>3. CASE Rebind
  <2>1. /\ UNCHANGED <<fmap, durable, pc, inflight, phys, stale, bioVars, ackVars, late>>
        /\ forgotten' = forgotten \cup {b \in FBlocks : durable[b] # fmap[b]}
        /\ \A c \in Clients : pc[c] = "idle" /\ ~inflight[c]
    BY Zenon, <1>3 DEF Rebind, clientVars, endVars
  <2>2. DOMAIN fmap = FBlocks
    BY DEF DiskInv, ServeInv, StructInv, TypeOK, FileTypes, FileMaps
  <2>3. StageMap = [c \in Clients |-> "idle"]
    BY <2>1 DEF StageMap, Stage
  <2>4. Disk!Reattach
    BY Zenon, <2>1, <2>2, <2>3, StageStays
    DEF Disk!Reattach, Disk!Nobody, Disk!bioVars, bioVars, ackVars
  <2> QED
    BY Zenon, <2>4 DEF Disk!Next
<1> QED
  BY <1>1, <1>2, <1>3

-----------------------------------------------------------------------------
(* The driver as a whole is a virtual disk, for any number of tasks, any    *)
(* cache, any prefetch and any failure of get_block: every step of          *)
(* redirect_bio, loop_thread and the host is a step of VirtualDisk or       *)
(* invisible to it.  A step that writes to a cio_req after its end is       *)
(* Break, after which VirtualDisk promises nothing; a rebind is Reattach.   *)
THEOREM DriverIsDisk == Spec => ActsAsDisk
<1>1. Init => Disk!Init
  <2> SUFFICES ASSUME Init PROVE Disk!Init
    OBVIOUS
  <2>1. StageMap = [c \in Clients |-> "idle"]
    BY DEF Init, StageMap, Stage
  <2>2. fmap \in FileMaps
    BY InitStruct DEF StructInv, TypeOK, FileTypes
  <2> QED
    BY Zenon, <2>1, <2>2 DEF Init, Disk!Init, Disk!Nobody
<1>2. Init => EndInv /\ KindInv
  <2>1. Init => EndInv
    BY ZenonT(30) DEF Init, EndInv, EndFine, FuaTail
  <2>2. Init => KindInv
    BY ZenonT(30) DEF Init, KindInv, KindFine, FuaTail
  <2> QED
    BY <2>1, <2>2
<1>3. StructInv /\ EndInv /\ KindInv /\ [Next]_vars => EndInv' /\ KindInv'
  BY EndStep, KindStep DEF StructInv
<1>4. StructInv /\ (~late => DiskInv) /\ EndInv' /\ [Next]_vars => [Disk!Next]_(Disk!vars)
  <2> SUFFICES ASSUME StructInv, ~late => DiskInv, EndInv', [Next]_vars
               PROVE  [Disk!Next]_(Disk!vars)
    OBVIOUS
  <2>1. CASE UNCHANGED vars
    <3>1. UNCHANGED <<fmap, durable, pc, inflight, phys, stale, bioVars, ackVars,
                      flawVars>>
      BY Zenon, <2>1 DEF vars, fileVars, clientVars, endVars
    <3> QED
      BY Zenon, <3>1, StageStays
      DEF Disk!vars, Disk!bioVars, Disk!flaws, bioVars, ackVars, flawVars
  <2>2. CASE late'
    BY Zenon, <2>2 DEF Disk!Next, Disk!Break
  <2>3. CASE ~late' /\ ~UNCHANGED vars
    <3>1. late \in BOOLEAN /\ late' \in BOOLEAN /\ (late => late')
      BY FlawStep DEF StructInv, TypeOK, FlawTypes
    <3>2. late' = late
      BY <2>3, <3>1
    <3>3. DiskInv
      BY <2>3, <3>1
    <3> QED
      BY Zenon, <2>3, <3>2, <3>3, NextSplit, ClientNextAct, ClientRefines, ThreadRefines,
         HostRefines
  <2> QED
    BY <2>1, <2>2, <2>3
<1>5. Spec => [](StructInv /\ (~late => ServeInv))
  BY ServeInvariant
<1>6. Spec => [](~late => FlushInv)
  BY FlushInvariant
<1>7. Disk!Init /\ [][Disk!Next]_(Disk!vars) => ActsAsDisk
  BY DEF ActsAsDisk, Disk!Spec
<1>8. ServeInv /\ FlushInv /\ EndInv /\ KindInv => DiskInv
  BY DEF DiskInv
<1> QED
  BY <1>1, <1>2, <1>3, <1>4, <1>5, <1>6, <1>7, <1>8, PTL DEF Spec
=============================================================================
