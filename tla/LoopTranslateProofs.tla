------------------------ MODULE LoopTranslateProofs ------------------------
(***************************************************************************)
(* Proofs about LoopTranslate, for every number of clients, size of the    *)
(* device, prefetch depth and cache capacity.                              *)
(***************************************************************************)
EXTENDS LoopTranslate, TLAPS

-----------------------------------------------------------------------------
(* Sequences.                                                               *)

LEMMA SeqLen ==
    ASSUME NEW S, NEW s \in Seq(S)
    PROVE  Len(s) \in Nat /\ DOMAIN s = 1 .. Len(s)
OBVIOUS

LEMMA SeqAppend ==
    ASSUME NEW S, NEW s \in Seq(S), NEW x \in S
    PROVE  /\ Append(s, x) \in Seq(S) /\ Len(Append(s, x)) = Len(s) + 1
           /\ DOMAIN Append(s, x) = 1 .. Len(s) + 1
           /\ \A i \in 1 .. Len(s) : Append(s, x)[i] = s[i]
           /\ Append(s, x)[Len(s) + 1] = x
OBVIOUS

LEMMA SeqHeadTail ==
    ASSUME NEW S, NEW s \in Seq(S), s # <<>>
    PROVE  /\ Head(s) \in S /\ Head(s) = s[1] /\ Len(s) >= 1
           /\ Tail(s) \in Seq(S) /\ DOMAIN Tail(s) = 1 .. Len(s) - 1
           /\ \A i \in 1 .. Len(s) - 1 : Tail(s)[i] = s[i + 1]
OBVIOUS

-----------------------------------------------------------------------------
(* The inductive invariant.                                                 *)

\* What loop_thread knows at each point of the prefetch loop.
ThreadOK ==
    /\ tpc = "wait" => t = NoReq
    /\ tpc # "wait" => t.cio \in Clients
    /\ tpc = "hit" => t.cur \in hashed /\ node[t.cur].blk_local = t.blk_start
    /\ tpc \in {"getblk", "setdirty", "answer", "skip", "add", "reuse"} =>
          /\ t.i < prefetch_blocks
          /\ t.i <= t.blk_start /\ t.blk_start < t.i + NBlocks
    /\ tpc \in {"setdirty", "answer", "skip", "add", "reuse"} =>
          /\ t.got_num \in 1 .. prefetch_blocks - t.i
          /\ t.j \in 0 .. t.got_num - 1
          /\ t.b_blocknr = Hole => ~t.create
          /\ t.b_blocknr # Hole =>
                \A k \in 0 .. t.got_num - 1 :
                    fmap[t.blk_start + k] = t.b_blocknr + k
    /\ tpc \in {"fsync", "synced", "answer"} => t.i = 0
    /\ tpc \in {"add", "reuse"} => t.b_blocknr # Hole
    /\ tpc = "reuse" => t.node \in (1 .. lru_count) \ hashed

\* A pointer into the cache leads to a node that has been filled in, and to
\* the right one as long as the thread has not recycled it.
PtrOK ==
    \A c \in Clients : pc[c] = "readnode" =>
        /\ ptr[c] \in 1 .. lru_count
        /\ ~stale[c] => node[ptr[c]].blk_local = blk[c]

\* The nodes are allocated in order.
Allocated == hashed \subseteq 1 .. lru_count

\* The cache, the pointers into it, the thread and the file fit together.
StructInv == TypeOK /\ CacheSound /\ Allocated /\ ThreadOK /\ PtrOK

-----------------------------------------------------------------------------
(* The cache, the thread and the block map.                                 *)

\* The clients touch neither the file, nor the cache, nor the thread.
ClientNext ==
    \/ \E c \in Clients, b \in Blocks, k \in Bios : Submit(c, b, k)
    \/ \E c \in Clients : ClientStep(c)
    \/ \E c \in Clients, ok \in BOOLEAN : LowerDone(c, ok)

LEMMA ClientFrame ==
    ClientNext => UNCHANGED <<fileVars, cacheVars, threadVars, flawVars>>
BY ZenonT(30) DEF ClientNext, ClientStep, Submit, TestDirty, TestDirtyFua, Enqueue, WakePre,
       Lookup, ReadNode, WakeMap, Send, WakeFua, LowerDone

LEMMA NextSplit ==
    Next <=> ClientNext \/ ThreadStep \/ HostCommit \/ Crash \/ Rebind
BY DEF Next, ClientNext

\* A request that was written to after its end is never made good, and only
\* blocks of the file are forgotten.
LEMMA FlawStep ==
    ASSUME FlawTypes, [Next]_vars
    PROVE  FlawTypes' /\ (late => late')
<1>1. CASE ClientNext \/ UNCHANGED vars
  BY <1>1, ClientFrame DEF FlawTypes, flawVars, vars
<1>2. CASE Complete \/ GetBlock
  BY Zenon, <1>2 DEF Complete, GetBlock, GetBlockFails, GetBlockSucceeds, FlawTypes
<1>3. CASE Fsync \/ HostCommit
  BY <1>3 DEF Fsync, HostCommit, Persist, FlawTypes
<1>4. CASE Rebind
  BY <1>4 DEF Rebind, FlawTypes
<1>5. CASE Pop \/ ClearDirty \/ Hit \/ SetDirty \/ Answer \/ Skip \/ AddNew
           \/ Recycle \/ Reuse \/ Crash
  <2>1. UNCHANGED flawVars
    BY Zenon, <1>5 DEF Pop, ClearDirty, Hit, SetDirty, Answer, Skip, AddNew, Recycle,
       Reuse, Crash
  <2> QED
    BY <2>1 DEF FlawTypes, flawVars
<1> QED
  BY Zenon, <1>1, <1>2, <1>3, <1>4, <1>5, NextSplit DEF ThreadStep

\* The nodes handed out so far are nodes.
LEMMA InUse ==
    ASSUME lru_count \in 0 .. LRU_LENGTH, NEW n \in 1 .. lru_count
    PROVE  n \in Nodes
BY SizesAssumption DEF Nodes

\* Appending a node to the list.
LEMMA AppendNode ==
    ASSUME NEW s \in Seq(Nodes), NEW n \in Nodes
    PROVE  /\ Append(s, n) \in Seq(Nodes) /\ Len(Append(s, n)) = Len(s) + 1
           /\ \A i \in 1 .. Len(s) : Append(s, n)[i] = s[i]
           /\ Append(s, n)[Len(s) + 1] = n
BY SeqAppend

\* Inside the prefetch loop there is at least one more block to go.
LEMMA OneLeft ==
    ASSUME NEW i \in Nat, i < prefetch_blocks
    PROVE  1 \in 1 .. prefetch_blocks - i
BY SizesAssumption

\* The types of what the steps write.
LEMMA ConstantTypes ==
    /\ NoReq \in Request
    /\ NoNode \in [b_blocknr : Phys \cup {Hole}, blk_local : FBlocks]
    /\ NoBio \in BioKind
    /\ Blocks \subseteq FBlocks
    /\ 0 \in Blocks
BY SizesAssumption DEF NoReq, Request, NoNode, NoBio, BioKind, Blocks, FBlocks,
                       NULL, Hole

LEMMA InitStruct == Init => StructInv
<1> SUFFICES ASSUME Init PROVE StructInv
  OBVIOUS
<1>1. TypeOK
  <2>1. fmap \in FileMaps /\ durable \in FileMaps
    BY DEF Init, FileMaps
  <2>2. lru \in Seq(Nodes) /\ queue \in Seq(Clients)
    BY DEF Init
  <2>3. ended \in [Clients -> Nat] /\ lru_count \in 0 .. LRU_LENGTH
    BY SizesAssumption DEF Init
  <2> QED
    BY Zenon, <2>1, <2>2, <2>3, ConstantTypes
    DEF Init, TypeOK, FileTypes, CacheTypes, CioTypes, ClientTypes, BioTypes,
        ThreadTypes, AckTypes, FlawTypes, ClientPC, ThreadPC
<1>2. CacheSound
  BY DEF Init, CacheSound
<1>3. ThreadOK
  BY DEF Init, ThreadOK
<1>4. PtrOK /\ Allocated
  BY DEF Init, PtrOK, Allocated
<1> QED
  BY <1>1, <1>2, <1>3, <1>4 DEF StructInv

\* The clients' own variables keep their types in the clients' steps.
LEMMA ClientNextTypes ==
    ASSUME TypeOK, PtrOK, ClientNext
    PROVE  TypeOK'
<1> USE ConstantTypes, ClientFrame DEF TypeOK
<1>1. (FileTypes /\ CacheTypes /\ ThreadTypes /\ FlawTypes)'
  BY DEF FileTypes, CacheTypes, ThreadTypes, FlawTypes, fileVars, cacheVars,
     threadVars, flawVars
<1>2. ASSUME NEW c \in Clients, NEW b \in Blocks, NEW k \in Bios, Submit(c, b, k)
      PROVE  (CioTypes /\ ClientTypes /\ BioTypes /\ AckTypes)'
  <2>1. CioTypes' /\ AckTypes'
    BY <1>2 DEF Submit, CioTypes, AckTypes, cioVars, ackVars
  <2>2. ClientTypes'
    BY <1>2 DEF Submit, ClientTypes, Goto, ClientPC
  <2>3. BioTypes'
    BY <1>2, InputsAssumption DEF Submit, BioTypes, AckTypes, bioVars
  <2> QED
    BY <2>1, <2>2, <2>3
<1>3. ASSUME NEW c \in Clients, TestDirty(c) \/ TestDirtyFua(c)
      PROVE  (CioTypes /\ ClientTypes /\ BioTypes /\ AckTypes)'
  <2>1. CioTypes' /\ AckTypes'
    BY <1>3 DEF TestDirty, TestDirtyFua, CioTypes, AckTypes, cioVars, ackVars
  <2>2. ClientTypes'
    BY <1>3 DEF TestDirty, TestDirtyFua, ClientTypes, Goto, Return, AfterFlush,
       ClientPC
  <2>3. BioTypes'
    BY <1>3 DEF TestDirty, TestDirtyFua, BioTypes, Return, Forget, bioVars,
       endVars
  <2> QED
    BY <2>1, <2>2, <2>3
<1>4. ASSUME NEW c \in Clients, Enqueue(c)
      PROVE  (CioTypes /\ ClientTypes /\ BioTypes /\ AckTypes)'
  <2>1. CioTypes'
    BY <1>4 DEF Enqueue, CioTypes
  <2>2. ClientTypes'
    BY <1>4 DEF Enqueue, ClientTypes, Goto, ClientPC
  <2>3. BioTypes' /\ AckTypes'
    BY <1>4 DEF Enqueue, BioTypes, AckTypes, bioVars, endVars, ackVars
  <2> QED
    BY <2>1, <2>2, <2>3
<1>5. ASSUME NEW c \in Clients, WakePre(c) \/ WakeMap(c) \/ WakeFua(c)
      PROVE  (CioTypes /\ ClientTypes /\ BioTypes /\ AckTypes)'
  <2>1. CioTypes' /\ AckTypes'
    BY Zenon, <1>5 DEF WakePre, WakeMap, WakeFua, Woken, CioTypes, AckTypes, ackVars
  <2>2. ClientTypes'
    BY ZenonT(30), <1>5 DEF WakePre, WakeMap, WakeFua, ClientTypes, CioTypes, Goto, Return,
       AfterFlush, ClientPC
  <2>3. /\ bio' \in [Clients -> BioKind] /\ blk' \in [Clients -> Blocks]
        /\ before' \in [Clients -> SUBSET FBlocks]
    <3>1. UNCHANGED bioVars \/ Forget(c)
      BY Zenon, <1>5 DEF WakePre, WakeMap, WakeFua, Return
    <3> QED
      BY <3>1 DEF BioTypes, Forget, bioVars
  <2>4. ended' \in [Clients -> Nat]
    <3>1. ended' = ended \/ EndBio(c)
      BY Zenon, <1>5 DEF WakePre, WakeMap, WakeFua
    <3> QED
      BY <3>1 DEF BioTypes, EndBio
  <2>5. inflight' \in [Clients -> BOOLEAN] /\ fuaerr' \in [Clients -> BOOLEAN]
    BY Zenon, <1>5 DEF WakePre, WakeMap, WakeFua, BioTypes
  <2>6. BioTypes'
    BY <2>3, <2>4, <2>5 DEF BioTypes
  <2> QED
    BY Zenon, <2>1, <2>2, <2>6
<1>6. ASSUME NEW c \in Clients, Lookup(c) \/ ReadNode(c) \/ Send(c)
      PROVE  (CioTypes /\ ClientTypes /\ BioTypes /\ AckTypes)'
  <2>1. CioTypes' /\ AckTypes'
    BY Zenon, <1>6 DEF Lookup, ReadNode, Send, CioTypes, AckTypes, cioVars, ackVars
  <2>2. ClientTypes'
    <3>1. pc[c] = "readnode" => ptr[c] \in Nodes
      BY SizesAssumption DEF PtrOK, CacheTypes, Nodes
    <3>2. CASE Lookup(c)
      BY <3>2 DEF Lookup, ClientTypes, CacheTypes, Found, Goto, ClientPC
    <3>3. CASE ReadNode(c)
      BY <3>1, <3>3 DEF ReadNode, ClientTypes, CacheTypes, Goto, ClientPC
    <3>4. CASE Send(c)
      BY <3>4 DEF Send, ClientTypes, Goto, ClientPC
    <3> QED
      BY <1>6, <3>2, <3>3, <3>4
  <2>3. BioTypes'
    BY Zenon, <1>6 DEF Lookup, ReadNode, Send, BioTypes, bioVars, endVars
  <2> QED
    BY <2>1, <2>2, <2>3
<1>7. ASSUME NEW c \in Clients, NEW ok \in BOOLEAN, LowerDone(c, ok)
      PROVE  (CioTypes /\ ClientTypes /\ BioTypes /\ AckTypes)'
  <2>1. CioTypes' /\ ClientTypes'
    BY Zenon, <1>7 DEF LowerDone, CioTypes, ClientTypes, cioVars, clientVars
  <2>2. AckTypes'
    BY <1>7 DEF LowerDone, AckTypes, BioTypes
  <2>3. BioTypes'
    BY <1>7 DEF LowerDone, BioTypes, Forget, EndBio, bioVars
  <2> QED
    BY <2>1, <2>2, <2>3
<1> QED
  BY <1>1, <1>2, <1>3, <1>4, <1>5, <1>6, <1>7 DEF ClientNext, ClientStep

LEMMA CrashTypes ==
    ASSUME TypeOK, HostCommit \/ Crash \/ Rebind
    PROVE  TypeOK'
<1> USE ConstantTypes DEF TypeOK
<1>0. FlawTypes'
  BY FlawStep, NextSplit
<1>1. CASE HostCommit
  <2>1. (FileTypes /\ CacheTypes /\ CioTypes)'
    BY <1>1 DEF HostCommit, Persist, FileTypes, CacheTypes, CioTypes, cacheVars, cioVars
  <2>2. (ClientTypes /\ BioTypes /\ ThreadTypes /\ AckTypes)'
    BY <1>1 DEF HostCommit, ClientTypes, BioTypes, ThreadTypes, AckTypes,
       clientVars, bioVars, endVars, threadVars, ackVars
  <2> QED
    BY <1>0, <2>1, <2>2
<1>2. ASSUME Bind, fmap' \in FileMaps, durable' \in FileMaps
      PROVE  (FileTypes /\ CacheTypes /\ queue \in Seq(Clients))'
  <2>1. FileTypes'
    BY Zenon, <1>2 DEF Bind, FileTypes
  <2>2. lru' \in Seq(Nodes) /\ queue' \in Seq(Clients)
    BY <1>2 DEF Bind
  <2>3. lru_count' \in 0 .. LRU_LENGTH
    BY <1>2, SizesAssumption DEF Bind
  <2>4. /\ node' \in [Nodes -> [b_blocknr : Phys \cup {Hole}, blk_local : FBlocks]]
        /\ hashed' \in SUBSET Nodes
    BY <1>2 DEF Bind
  <2> QED
    BY <2>1, <2>2, <2>3, <2>4 DEF CacheTypes
<1>3. CASE Crash
  <2>1. (FileTypes /\ CacheTypes /\ queue \in Seq(Clients))'
    BY <1>2, <1>3 DEF Crash, FileTypes
  <2>2. (CioTypes /\ ClientTypes)'
    BY Zenon, <1>3, <2>1 DEF Crash, CioTypes, ClientTypes, ClientPC
  <2>3. (BioTypes /\ ThreadTypes /\ AckTypes)'
    BY <1>3 DEF Crash, BioTypes, ThreadTypes, ThreadPC, AckTypes
  <2> QED
    BY <1>0, <2>1, <2>2, <2>3
<1>4. CASE Rebind
  <2>1. (FileTypes /\ CacheTypes /\ queue \in Seq(Clients))'
    BY Zenon, <1>2, <1>4 DEF Rebind, FileTypes
  <2> QED
    BY Zenon, <1>0, <1>4, <2>1 DEF Rebind, CioTypes, ClientTypes, BioTypes, ThreadTypes,
       AckTypes, cioVars, clientVars, bioVars, endVars, threadVars, ackVars
<1> QED
  BY <1>1, <1>3, <1>4

\* The blocks the thread works on exist in the file.
LEMMA BlockRange ==
    ASSUME StructInv
    PROVE  /\ tpc \in {"getblk", "setdirty", "answer", "skip", "add", "reuse"} =>
                 \A k \in 0 .. prefetch_blocks - t.i - 1 :
                     t.blk_start + k \in FBlocks
           /\ tpc \in {"add", "reuse"} =>
                 /\ t.b_blocknr + t.j \in Phys
                 /\ t.b_blocknr + t.j = fmap[t.blk_start + t.j]
                 /\ t.blk_start + t.j \in FBlocks
<1> USE SizesAssumption DEF StructInv, ThreadOK, TypeOK, ThreadTypes, Request
<1>1. tpc \in {"getblk", "setdirty", "answer", "skip", "add", "reuse"} =>
          \A k \in 0 .. prefetch_blocks - t.i - 1 : t.blk_start + k \in FBlocks
  BY DEF FBlocks
<1>2. ASSUME tpc \in {"add", "reuse"}
      PROVE  /\ t.b_blocknr + t.j = fmap[t.blk_start + t.j]
             /\ t.blk_start + t.j \in FBlocks
  BY <1>1, <1>2 DEF Phys, Hole
<1>3. ASSUME tpc \in {"add", "reuse"}
      PROVE  t.b_blocknr + t.j \in Phys
  <2>1. fmap[t.blk_start + t.j] \in Phys \cup {Hole}
    BY Zenon, <1>2, <1>3 DEF FileTypes, FileMaps
  <2>2. t.b_blocknr \in Phys /\ t.j \in Nat
    BY <1>3
  <2> QED
    BY <1>2, <1>3, <2>1, <2>2 DEF Phys, Hole
<1> QED
  BY Zenon, <1>1, <1>2, <1>3

\* The oldest node of a full cache.
LEMMA Oldest ==
    ASSUME StructInv, tpc = "add", lru_count >= LRU_LENGTH
    PROVE  /\ lru # <<>>
           /\ Head(lru) \in Nodes
           /\ Head(lru) \in hashed
           /\ Tail(lru) \in Seq(Nodes)
           /\ Len(Tail(lru)) = lru_count - 1
           /\ lru_count = LRU_LENGTH
           /\ \A i \in DOMAIN Tail(lru) : Tail(lru)[i] = lru[i + 1] /\ i + 1 \in DOMAIN lru
           /\ Head(lru) = lru[1] /\ 1 \in DOMAIN lru
BY SizesAssumption DEF StructInv, TypeOK, CacheTypes, CacheSound

\* The thread touches neither the clients' locals nor the guests' bios.
LEMMA ThreadFrame ==
    ThreadStep => UNCHANGED <<pc, ptr, phys, bioVars, endVars, ackVars>>
BY Zenon DEF ThreadStep, Pop, Fsync, ClearDirty, Complete, Hit, GetBlock, SetDirty,
       Answer, Skip, AddNew, Recycle, Reuse, clientVars

\* What get_block leaves behind: the old mappings, perhaps some new ones.
LEMMA GetBlockMap ==
    ASSUME StructInv, GetBlock
    PROVE  /\ fmap' \in FileMaps
           /\ \A b \in FBlocks : fmap[b] # Hole => fmap'[b] = fmap[b]
           /\ t' \in Request
           /\ GetBlockSucceeds =>
                 /\ t' = [t EXCEPT !.b_blocknr = t'.b_blocknr,
                                   !.got_num = t'.got_num, !.j = 0]
                 /\ t'.got_num \in 1 .. prefetch_blocks - t.i
                 /\ t'.b_blocknr = Hole => ~t.create /\ fmap' = fmap
                 /\ t'.b_blocknr # Hole =>
                       \A k \in 0 .. t'.got_num - 1 :
                           fmap'[t.blk_start + k] = t'.b_blocknr + k
<1> USE SizesAssumption
<1>0. /\ tpc = "getblk" /\ t \in Request /\ fmap \in FileMaps
      /\ t.i < prefetch_blocks /\ t.blk_start \in FBlocks
      /\ \A k \in 0 .. prefetch_blocks - t.i - 1 : t.blk_start + k \in FBlocks
  <2>1. tpc = "getblk" /\ t \in Request /\ fmap \in FileMaps /\ t.i < prefetch_blocks
    BY DEF GetBlock, StructInv, TypeOK, ThreadTypes, FileTypes, ThreadOK
  <2>2. \A k \in 0 .. prefetch_blocks - t.i - 1 : t.blk_start + k \in FBlocks
    BY <2>1, BlockRange
  <2> QED
    BY <2>1, <2>2 DEF Request
<1>1. CASE GetBlockFails
  BY <1>0, <1>1 DEF GetBlockFails, GetBlockSucceeds, AfterGet
<1>2. ASSUME NEW g \in 1 .. prefetch_blocks - t.i, Mapped(g)
      PROVE  /\ fmap' = fmap /\ t'.b_blocknr # Hole
             /\ t' = [t EXCEPT !.b_blocknr = t'.b_blocknr,
                               !.got_num = t'.got_num, !.j = 0]
             /\ t'.b_blocknr \in Phys \cup {Hole} /\ t'.got_num = g
             /\ \A k \in 0 .. g - 1 : fmap'[t.blk_start + k] = t'.b_blocknr + k
  BY <1>0, <1>2 DEF Mapped, Got, Request, FileMaps
<1>3. ASSUME Unmapped
      PROVE  /\ fmap' = fmap /\ t'.b_blocknr = Hole /\ ~t.create
             /\ t' = [t EXCEPT !.b_blocknr = t'.b_blocknr,
                               !.got_num = t'.got_num, !.j = 0]
             /\ t'.got_num = prefetch_blocks - t.i
  BY <1>0, <1>3 DEF Unmapped, Got, Request
<1>4. ASSUME NEW g \in 1 .. prefetch_blocks - t.i, NEW p \in Phys, Allocate(g, p)
      PROVE  /\ fmap' \in FileMaps
             /\ \A b \in FBlocks : fmap[b] # Hole => fmap'[b] = fmap[b]
             /\ t'.b_blocknr = p /\ p # Hole
             /\ t' = [t EXCEPT !.b_blocknr = t'.b_blocknr,
                               !.got_num = t'.got_num, !.j = 0]
             /\ t'.got_num = g
             /\ \A k \in 0 .. g - 1 : fmap'[t.blk_start + k] = t'.b_blocknr + k
  <2> DEFINE s == t.blk_start
  <2>1. /\ t'.b_blocknr = p /\ p # Hole /\ t'.got_num = g
        /\ t' = [t EXCEPT !.b_blocknr = t'.b_blocknr,
                          !.got_num = t'.got_num, !.j = 0]
    BY <1>0, <1>4 DEF Allocate, Got, Request, Phys, Hole
  <2>2. /\ fmap' = [b \in FBlocks |->
                      IF b \in s .. s + g - 1 THEN p + (b - s) ELSE fmap[b]]
        /\ \A b \in s .. s + g - 1 : /\ fmap[b] = Hole
                                     /\ p + (b - s) \in Phys
                                     /\ \A x \in FBlocks : fmap[x] # p + (b - s)
    <3>1. \A b \in s .. s + g - 1 : b - s \in 0 .. g - 1 /\ s + (b - s) = b
      BY <1>0 DEF FBlocks
    <3> QED
      BY <1>4, <3>1 DEF Allocate
  <2>3. fmap' \in [FBlocks -> Phys \cup {Hole}]
    BY <1>0, <2>2 DEF FileMaps
  <2>4. ASSUME NEW a \in FBlocks, NEW b \in FBlocks, fmap'[a] = fmap'[b],
               fmap'[a] # Hole
        PROVE  a = b
    <3>1. CASE a \in s .. s + g - 1 /\ b \in s .. s + g - 1
      BY SMTT(30), <1>0, <2>2, <2>4, <3>1 DEF FBlocks, Phys
    <3>2. CASE a \notin s .. s + g - 1 /\ b \notin s .. s + g - 1
      BY <1>0, <2>2, <2>4, <3>2 DEF FileMaps
    <3> QED
      BY <2>2, <2>4, <3>1, <3>2
  <2>5. \A b \in FBlocks : fmap[b] # Hole => fmap'[b] = fmap[b]
    BY <2>2
  <2>6. ASSUME NEW k \in 0 .. g - 1
        PROVE  fmap'[s + k] = p + k
    <3>1. s + k \in FBlocks /\ s + k \in s .. s + g - 1 /\ (s + k) - s = k
      BY <1>0 DEF FBlocks, Request
    <3> QED
      BY <2>2, <3>1
  <2>7. fmap' \in FileMaps
    <3>1. \A a, b \in FBlocks : fmap'[a] = fmap'[b] /\ fmap'[a] # Hole => a = b
      BY <2>4
    <3>2. fmap' \in {f \in [FBlocks -> Phys \cup {Hole}] :
                \A a, b \in FBlocks : f[a] = f[b] /\ f[a] # Hole => a = b}
      BY <2>3, <3>1, Zenon
    <3> QED
      BY <3>2 DEF FileMaps
  <2> QED
    BY <2>1, <2>5, <2>6, <2>7
<1>5. CASE GetBlockSucceeds
  <2>1. \/ \E g \in 1 .. prefetch_blocks - t.i : Mapped(g)
        \/ Unmapped
        \/ \E g \in 1 .. prefetch_blocks - t.i, p \in Phys : Allocate(g, p)
    BY <1>5 DEF GetBlockSucceeds
  <2>2. prefetch_blocks - t.i \in 1 .. prefetch_blocks - t.i
    BY <1>0 DEF Request
  <2>3. \A g \in 1 .. prefetch_blocks - t.i : g \in Nat
    BY <1>0 DEF Request
  <2>4. /\ t' = [t EXCEPT !.b_blocknr = t'.b_blocknr,
                         !.got_num = t'.got_num, !.j = 0]
        /\ t'.got_num \in 1 .. prefetch_blocks - t.i
        /\ t'.b_blocknr \in Phys \cup {Hole}
        /\ t'.b_blocknr = Hole => ~t.create /\ fmap' = fmap
    BY <1>2, <1>3, <1>4, <2>1, <2>2
  <2>5. /\ fmap' \in FileMaps
        /\ \A b \in FBlocks : fmap[b] # Hole => fmap'[b] = fmap[b]
        /\ t'.b_blocknr # Hole =>
              \A k \in 0 .. t'.got_num - 1 :
                  fmap'[t.blk_start + k] = t'.b_blocknr + k
    BY <1>0, <1>2, <1>3, <1>4, <2>1
  <2>6. t' \in Request
    <3>1. \A p \in Phys \cup {Hole}, g \in Nat :
             [t EXCEPT !.b_blocknr = p, !.got_num = g, !.j = 0] \in Request
      BY Zenon, <1>0 DEF Request
    <3>2. t'.got_num \in Nat
      BY <2>3, <2>4
    <3> QED
      BY ZenonT(30), <2>4, <3>1, <3>2
  <2> QED
    BY <2>4, <2>5, <2>6
<1> QED
  BY <1>1, <1>5 DEF GetBlock

\* The prefetch loop moves on by n blocks, no further than get_block went.
LEMMA AdvanceThread ==
    ASSUME StructInv, tpc \in {"skip", "add", "reuse"},
           NEW n \in 1 .. prefetch_blocks - t.i, Advance(n)
    PROVE  /\ ThreadTypes'
           /\ tpc' \in {"wait", "getblk"}
           /\ tpc' = "wait" => t' = NoReq
           /\ tpc' = "getblk" =>
                 /\ t'.cio \in Clients
                 /\ t'.i < prefetch_blocks /\ t'.i # 0
                 /\ t'.i <= t'.blk_start /\ t'.blk_start < t'.i + NBlocks
<1>0. /\ t \in Request /\ t.cio \in Clients
      /\ t.i <= t.blk_start /\ t.blk_start < t.i + NBlocks
  BY DEF StructInv, TypeOK, ThreadTypes, ThreadOK
<1>1. CASE t.i + n < prefetch_blocks
  <2>1. /\ tpc' = "getblk"
        /\ t' = [t EXCEPT !.i = t.i + n, !.blk_start = t.blk_start + n, !.j = 0,
                          !.b_blocknr = Hole, !.got_num = 0, !.node = NULL]
    BY <1>1 DEF Advance
  <2>2. /\ t.i \in Nat /\ t.blk_start \in Nat /\ n \in Nat /\ n >= 1
        /\ t.i + n \in Nat /\ t.blk_start + n \in Nat
    BY <1>0, SizesAssumption DEF Request
  <2>3. t' \in Request
    BY Zenon, <1>0, <2>1, <2>2 DEF Request
  <2>4. t'.i = t.i + n /\ t'.blk_start = t.blk_start + n /\ t'.cio = t.cio
    BY <1>0, <2>1 DEF Request
  <2> QED
    BY <1>0, <1>1, <2>1, <2>2, <2>3, <2>4, SizesAssumption
    DEF ThreadTypes, ThreadPC
<1>2. CASE ~(t.i + n < prefetch_blocks)
  BY <1>2, ConstantTypes DEF Advance, ThreadTypes, ThreadPC
<1> QED
  BY <1>1, <1>2

\* After Insert the thread adds the next block or leaves the inner loop.
LEMMA InsertThread ==
    ASSUME StructInv, tpc \in {"add", "reuse"}, NEW n, Insert(n)
    PROVE  /\ ThreadTypes'
           /\ tpc' \in {"wait", "getblk", "add"}
           /\ tpc' = "wait" => t' = NoReq
           /\ tpc' # "wait" => t'.cio \in Clients
           /\ tpc' \in {"getblk", "add"} =>
                 /\ t'.i < prefetch_blocks
                 /\ t'.i <= t'.blk_start /\ t'.blk_start < t'.i + NBlocks
           /\ tpc' = "getblk" => t'.i # 0
           /\ tpc' = "add" =>
                 /\ t'.got_num = t.got_num /\ t'.got_num \in 1 .. prefetch_blocks - t'.i
                 /\ t'.j \in 0 .. t.got_num - 1
                 /\ t'.b_blocknr = t.b_blocknr /\ t'.blk_start = t.blk_start
                 /\ t'.create = t.create
<1>0. /\ t \in Request /\ t.cio \in Clients
      /\ t.i < prefetch_blocks /\ t.i <= t.blk_start /\ t.blk_start < t.i + NBlocks
      /\ t.got_num \in 1 .. prefetch_blocks - t.i /\ t.j \in 0 .. t.got_num - 1
  BY DEF StructInv, TypeOK, ThreadTypes, ThreadOK
<1>1. CASE t.j + 1 < t.got_num
  <2>1. tpc' = "add" /\ t' = [t EXCEPT !.j = t.j + 1, !.node = NULL]
    BY <1>1 DEF Insert
  <2>2. /\ t.j \in Nat /\ t.got_num \in Nat
        /\ t.j + 1 \in Nat /\ t.j + 1 \in 0 .. t.got_num - 1
    BY <1>0, <1>1 DEF Request
  <2>3. t' \in Request
    BY Zenon, <1>0, <2>1, <2>2 DEF Request
  <2>4. /\ t'.cio = t.cio /\ t'.create = t.create /\ t'.i = t.i /\ t'.j = t.j + 1
        /\ t'.blk_start = t.blk_start /\ t'.b_blocknr = t.b_blocknr
        /\ t'.got_num = t.got_num
    BY <1>0, <2>1 DEF Request
  <2> QED
    BY <1>0, <2>1, <2>2, <2>3, <2>4 DEF ThreadTypes, ThreadPC
<1>2. CASE ~(t.j + 1 < t.got_num)
  <2>1. Advance(t.got_num)
    BY <1>2 DEF Insert
  <2> QED
    BY <1>0, <2>1, AdvanceThread
<1> QED
  BY Zenon, <1>1, <1>2

LEMMA ThreadStepTypes ==
    ASSUME StructInv, ThreadStep
    PROVE  TypeOK'
<1> USE ConstantTypes, ThreadFrame DEF StructInv, TypeOK
<1>1. (pc \in [Clients -> ClientPC] /\ ptr \in [Clients -> Nodes \cup {NULL}]
        /\ phys \in [Clients -> Phys \cup {Hole}] /\ BioTypes /\ AckTypes
        /\ FlawTypes)'
  BY FlawStep, NextSplit DEF ClientTypes, BioTypes, AckTypes, bioVars, endVars, ackVars
<1>2. CASE Pop
  <2>1. queue # <<>> /\ Head(queue) \in Clients /\ Tail(queue) \in Seq(Clients)
    BY Zenon, <1>2, SeqHeadTail DEF Pop, CioTypes
  <2>2. CioTypes' /\ ClientTypes' /\ FileTypes' /\ CacheTypes'
    BY Zenon, <1>2, <2>1 DEF Pop, CioTypes, ClientTypes, FileTypes, CacheTypes, cioVars,
       clientVars, fileVars, cacheVars
  <2>3. ThreadTypes'
    <3> DEFINE c == Head(queue)
    <3>1. bio[c].write \in BOOLEAN /\ blk[c] \in Nat
      BY <2>1 DEF BioTypes, BioKind, Blocks
    <3>2. \A n \in Found(blk[c]) : n \in Nodes
      BY DEF Found, CacheTypes
    <3>3. [NoReq EXCEPT !.cio = c] \in Request
      BY <2>1 DEF Request
    <3>4. [NoReq EXCEPT !.cio = c, !.create = bio[c].write, !.blk_start = blk[c]]
            \in Request
      BY Zenon, <2>1, <3>1 DEF Request
    <3>5. \A n \in Nodes :
            [[NoReq EXCEPT !.cio = c, !.create = bio[c].write, !.blk_start = blk[c]]
               EXCEPT !.cur = n] \in Request
      BY Zenon, <3>4 DEF Request
    <3> HIDE DEF c
    <3> QED
      BY ZenonT(30), <1>2, <3>2, <3>3, <3>4, <3>5 DEF Pop, c, ThreadTypes, ThreadPC
  <2> QED
    BY <1>1, <2>2, <2>3
<1>3. CASE Fsync \/ ClearDirty \/ SetDirty \/ Answer
  <2>1. FileTypes' /\ CacheTypes' /\ ClientTypes'
    BY Zenon, <1>3 DEF Fsync, Persist, ClearDirty, SetDirty, Answer, FileTypes, CacheTypes,
       ClientTypes, fileVars, cacheVars, clientVars
  <2>2. CioTypes'
    BY Zenon, <1>3 DEF Fsync, ClearDirty, SetDirty, Answer, Reply, CioTypes, ThreadTypes,
       Request, cioVars
  <2>3. ThreadTypes'
    BY Zenon, <1>3 DEF Fsync, ClearDirty, SetDirty, Answer, AfterGet, ThreadTypes, ThreadPC
  <2> QED
    BY <1>1, <2>1, <2>2, <2>3
<1>4. CASE Complete \/ Hit
  <2>1. FileTypes' /\ CacheTypes' /\ ClientTypes' /\ ThreadTypes'
    BY Zenon, <1>4 DEF Complete, Hit, FileTypes, CacheTypes, ClientTypes, ThreadTypes,
       ThreadPC, fileVars, cacheVars, clientVars
  <2>2. Hit => node[t.cur].b_blocknr \in Phys \cup {Hole}
    BY Zenon DEF Hit, ThreadOK, CacheTypes
  <2>3. CioTypes'
    BY Zenon, <1>4, <2>2 DEF Complete, Hit, Reply, CioTypes
  <2> QED
    BY <1>1, <2>1, <2>3
<1>5. CASE GetBlock
  <2>1. fmap' \in FileMaps /\ t' \in Request
    BY <1>5, GetBlockMap
  <2>2. FileTypes' /\ CacheTypes' /\ ClientTypes'
    BY Zenon, <1>5, <2>1 DEF GetBlock, FileTypes, CacheTypes, ClientTypes, cacheVars,
       clientVars
  <2>3. CioTypes'
    BY Zenon, <1>5 DEF GetBlock, GetBlockFails, GetBlockSucceeds, CioTypes
  <2>4. tpc' \in ThreadPC
    BY <1>5 DEF GetBlock, GetBlockFails, GetBlockSucceeds, AfterGet, ThreadPC
  <2> QED
    BY <1>1, <2>1, <2>2, <2>3, <2>4 DEF ThreadTypes
<1>6. CASE Skip
  <2>1. 1 \in 1 .. prefetch_blocks - t.i
    <3>1. t.i \in Nat /\ t.i < prefetch_blocks
      BY Zenon, <1>6 DEF Skip, ThreadOK, ThreadTypes, Request
    <3> QED
      BY Zenon, <3>1, OneLeft
  <2>2. ThreadTypes'
    BY <1>6, <2>1, AdvanceThread DEF Skip
  <2> QED
    BY Zenon, <1>1, <1>6, <2>2 DEF Skip, FileTypes, CacheTypes, CioTypes, ClientTypes,
       fileVars, cacheVars, cioVars, clientVars
<1>7. ASSUME NEW n \in Nodes, tpc \in {"add", "reuse"}, Insert(n)
      PROVE  /\ ThreadTypes'
             /\ node' \in [Nodes -> [b_blocknr : Phys \cup {Hole}, blk_local : FBlocks]]
             /\ hashed' \in SUBSET Nodes
             /\ lru' \in Seq(Nodes)
  <2>1. ThreadTypes'
    BY Zenon, <1>7, InsertThread
  <2>2. node' \in [Nodes -> [b_blocknr : Phys \cup {Hole}, blk_local : FBlocks]]
    BY <1>7, BlockRange DEF Insert, CacheTypes
  <2>3. hashed' \in SUBSET Nodes
    BY <1>7 DEF Insert, CacheTypes
  <2>4. lru' \in Seq(Nodes)
    BY <1>7, SeqAppend DEF Insert, CacheTypes
  <2> QED
    BY <2>1, <2>2, <2>3, <2>4
<1>8. CASE AddNew
  <2>1. lru_count + 1 \in Nodes /\ lru_count' \in 0 .. LRU_LENGTH
    BY <1>8, SizesAssumption DEF AddNew, CacheTypes, Nodes
  <2>2. CacheTypes' /\ ThreadTypes'
    BY Zenon, <1>7, <1>8, <2>1 DEF AddNew, CacheTypes
  <2> QED
    BY Zenon, <1>1, <1>8, <2>2 DEF AddNew, FileTypes, CioTypes, ClientTypes, fileVars,
       cioVars, clientVars
<1>9. CASE Recycle
  <2>1. Head(lru) \in Nodes /\ Tail(lru) \in Seq(Nodes)
    BY <1>9, Oldest DEF Recycle
  <2>2. CacheTypes' /\ ThreadTypes'
    BY Zenon, <1>9, <2>1 DEF Recycle, CacheTypes, ThreadTypes, ThreadPC, Request
  <2> QED
    BY <1>1, <1>9, <2>2 DEF Recycle, FileTypes, CioTypes, ClientTypes, fileVars,
       cioVars, clientVars
<1>10. CASE Reuse
  <2>0. t.node \in 1 .. lru_count /\ lru_count \in 0 .. LRU_LENGTH
    BY Zenon, <1>10 DEF Reuse, ThreadOK, CacheTypes
  <2>1. t.node \in Nodes
    BY <2>0, SizesAssumption DEF Nodes
  <2>2. CacheTypes' /\ ThreadTypes'
    BY Zenon, <1>7, <1>10, <2>1 DEF Reuse, CacheTypes
  <2>3. stale' \in [Clients -> BOOLEAN]
    BY <1>10 DEF Reuse, ClientTypes
  <2> QED
    BY Zenon, <1>1, <1>10, <2>2, <2>3 DEF Reuse, FileTypes, CioTypes, ClientTypes,
       fileVars, cioVars
<1> QED
  BY Zenon, <1>2, <1>3, <1>4, <1>5, <1>6, <1>8, <1>9, <1>10 DEF ThreadStep

\* Filling in node n keeps the cache sound when n is free: a node never used,
\* or the one that has just been taken out.
LEMMA InsertSound ==
    ASSUME StructInv, tpc \in {"add", "reuse"}, NEW n \in Nodes, Insert(n),
           n \notin hashed, fmap' = fmap,
           lru_count' = Len(lru) + 1, 1 .. lru_count' \subseteq (1 .. lru_count) \cup {n}
    PROVE  CacheSound'
<1>0. /\ lru \in Seq(Nodes) /\ lru' = Append(lru, n) /\ hashed' = hashed \cup {n}
      /\ hashed = {lru[i] : i \in DOMAIN lru}
      /\ \A i, j \in DOMAIN lru : lru[i] = lru[j] => i = j
      /\ tpc' # "reuse"
  <2>1. tpc' # "reuse"
    BY Zenon, InsertThread
  <2> QED
    BY <2>1 DEF Insert, StructInv, CacheSound, TypeOK, CacheTypes
<1>1. /\ DOMAIN lru = 1 .. Len(lru) /\ DOMAIN lru' = 1 .. Len(lru) + 1
      /\ Len(lru') = Len(lru) + 1 /\ Len(lru) \in Nat
      /\ \A i \in 1 .. Len(lru) : lru'[i] = lru[i]
      /\ lru'[Len(lru) + 1] = n
  <2>1. /\ lru' \in Seq(Nodes) /\ Len(lru') = Len(lru) + 1
        /\ \A i \in 1 .. Len(lru) : lru'[i] = lru[i]
        /\ lru'[Len(lru) + 1] = n
    <3>1. lru \in Seq(Nodes) /\ lru' = Append(lru, n)
      BY Zenon, <1>0
    <3>2. /\ Append(lru, n) \in Seq(Nodes) /\ Len(Append(lru, n)) = Len(lru) + 1
          /\ \A i \in 1 .. Len(lru) : Append(lru, n)[i] = lru[i]
          /\ Append(lru, n)[Len(lru) + 1] = n
      BY Zenon, <3>1, AppendNode
    <3> QED
      BY Zenon, <3>1, <3>2
  <2>2. /\ DOMAIN lru = 1 .. Len(lru) /\ Len(lru) \in Nat
        /\ DOMAIN lru' = 1 .. Len(lru')
    <3>1. lru \in Seq(Nodes) /\ lru' \in Seq(Nodes)
      BY Zenon, <1>0, <2>1
    <3> QED
      BY Zenon, <3>1, SeqLen
  <2> QED
    BY Zenon, <2>1, <2>2
<1>2. hashed' = {lru'[i] : i \in DOMAIN lru'}
  <2>1. ASSUME NEW m \in hashed PROVE \E i \in DOMAIN lru' : m = lru'[i]
    <3>1. PICK i \in DOMAIN lru : m = lru[i]
      BY Zenon, <1>0
    <3>2. i \in DOMAIN lru' /\ lru'[i] = lru[i]
      BY <1>1
    <3> QED
      BY Zenon, <3>1, <3>2
  <2>2. Len(lru) + 1 \in DOMAIN lru'
    BY <1>1
  <2>3. ASSUME NEW i \in DOMAIN lru' PROVE lru'[i] \in hashed'
    <3>1. i \in DOMAIN lru \/ i = Len(lru) + 1
      BY <1>1
    <3>2. i \in DOMAIN lru => lru'[i] \in hashed
      BY Zenon, <1>0, <1>1
    <3> QED
      BY Zenon, <1>0, <1>1, <3>1, <3>2
  <2>4. ASSUME NEW m \in hashed' PROVE m \in {lru'[i] : i \in DOMAIN lru'}
    <3>1. CASE m \in hashed
      BY Zenon, <2>1, <3>1
    <3>2. CASE m = n
      BY Zenon, <1>1, <2>2, <3>2
    <3> QED
      BY Zenon, <1>0, <3>1, <3>2
  <2> QED
    BY Zenon, <2>3, <2>4
<1>3. ASSUME NEW i \in DOMAIN lru', NEW j \in DOMAIN lru', lru'[i] = lru'[j]
      PROVE  i = j
  <2>1. \A k \in DOMAIN lru : lru[k] # n
    BY Zenon, <1>0
  <2>2. (i \in DOMAIN lru \/ i = Len(lru) + 1) /\ (j \in DOMAIN lru \/ j = Len(lru) + 1)
    BY <1>1
  <2>3. \A k \in DOMAIN lru : lru'[k] = lru[k]
    BY Zenon, <1>1
  <2>4. CASE i \in DOMAIN lru /\ j \in DOMAIN lru
    <3>1. lru[i] = lru[j]
      BY Zenon, <1>3, <2>3, <2>4
    <3> QED
      BY Zenon, <1>0, <2>4, <3>1
  <2>5. CASE i \in DOMAIN lru /\ j = Len(lru) + 1
    BY Zenon, <1>1, <1>3, <2>1, <2>3, <2>5
  <2>6. CASE i = Len(lru) + 1 /\ j \in DOMAIN lru
    BY Zenon, <1>1, <1>3, <2>1, <2>3, <2>6
  <2> QED
    BY Zenon, <2>2, <2>4, <2>5, <2>6
<1>4. ASSUME NEW m \in 1 .. lru_count'
      PROVE  /\ node'[m].b_blocknr # Hole
             /\ node'[m].b_blocknr = fmap'[node'[m].blk_local]
  <2>1. CASE m = n
    BY <2>1, BlockRange DEF Insert, StructInv, TypeOK, CacheTypes, Phys, Hole
  <2>2. CASE m # n
    BY <2>2 DEF Insert, StructInv, CacheSound, TypeOK, CacheTypes
  <2> QED
    BY <2>1, <2>2
<1> QED
  BY Zenon, <1>0, <1>1, <1>2, <1>3, <1>4 DEF CacheSound

LEMMA CacheStep ==
    ASSUME StructInv, TypeOK', [Next]_vars
    PROVE  CacheSound'
<1> USE DEF StructInv
<1>1. ASSUME UNCHANGED <<cacheVars, fmap>>, (tpc' = "reuse") <=> (tpc = "reuse")
      PROVE  CacheSound'
  <2>1. /\ fmap' = fmap /\ node' = node /\ hashed' = hashed /\ lru' = lru
        /\ lru_count' = lru_count
    BY Zenon, <1>1 DEF cacheVars
  <2> QED
    BY Zenon, <1>1, <2>1 DEF CacheSound
<1>2. CASE ClientNext \/ UNCHANGED vars
  BY <1>1, <1>2, ClientFrame DEF vars, fileVars, threadVars
<1>3. CASE Pop \/ Fsync \/ ClearDirty \/ Complete \/ Hit \/ SetDirty \/ Answer
           \/ HostCommit
  BY Zenon, <1>1, <1>3 DEF Pop, Fsync, ClearDirty, Complete, Hit, SetDirty, Answer,
     AfterGet, HostCommit, fileVars, threadVars
<1>4. CASE Skip
  BY <1>1, <1>4 DEF Skip, Advance, fileVars
<1>5. CASE GetBlock
  <2>1. UNCHANGED cacheVars /\ tpc # "reuse" /\ tpc' # "reuse"
    BY <1>5 DEF GetBlock, GetBlockFails, GetBlockSucceeds, AfterGet
  <2>2. \A b \in FBlocks : fmap[b] # Hole => fmap'[b] = fmap[b]
    BY <1>5, GetBlockMap
  <2>3. \A n \in 1 .. lru_count : n \in Nodes
    BY SizesAssumption DEF TypeOK, CacheTypes, Nodes
  <2>4. \A n \in 1 .. lru_count : node[n].blk_local \in FBlocks
    BY <2>3 DEF TypeOK, CacheTypes
  <2>5. /\ node' = node /\ hashed' = hashed /\ lru' = lru /\ lru_count' = lru_count
    BY Zenon, <2>1 DEF cacheVars
  <2>6. \A n \in 1 .. lru_count : /\ node[n].b_blocknr # Hole
                                  /\ node[n].b_blocknr = fmap'[node[n].blk_local]
    BY Zenon, <2>2, <2>4 DEF CacheSound
  <2>7. \A n \in 1 .. lru_count' :
           /\ node'[n].b_blocknr # Hole
           /\ node'[n].b_blocknr = fmap'[node'[n].blk_local]
    BY Zenon, <2>5, <2>6
  <2>8. hashed' = {lru'[i] : i \in DOMAIN lru'}
    <3>1. hashed = {lru[i] : i \in DOMAIN lru}
      BY Zenon DEF CacheSound
    <3> QED
      BY <2>5, <3>1
  <2>9. \A i, j \in DOMAIN lru' : lru'[i] = lru'[j] => i = j
    <3>1. \A i, j \in DOMAIN lru : lru[i] = lru[j] => i = j
      BY Zenon DEF CacheSound
    <3> QED
      BY <2>5, <3>1
  <2>10. Len(lru') = lru_count'
    BY Zenon, <2>1, <2>5 DEF CacheSound
  <2> QED
    BY Zenon, <2>1, <2>7, <2>8, <2>9, <2>10 DEF CacheSound
<1>6. CASE AddNew
  <2>1. /\ lru_count \in Nat /\ lru_count + 1 \in Nodes /\ tpc = "add"
        /\ Insert(lru_count + 1) /\ lru_count' = lru_count + 1 /\ fmap' = fmap
    <3>1. /\ lru_count \in 0 .. LRU_LENGTH /\ lru_count < LRU_LENGTH /\ tpc = "add"
          /\ Insert(lru_count + 1) /\ lru_count' = lru_count + 1 /\ fmap' = fmap
      BY Zenon, <1>6 DEF AddNew, TypeOK, CacheTypes, fileVars
    <3>2. lru_count \in Nat /\ lru_count + 1 \in Nodes
      BY <3>1, SizesAssumption DEF Nodes
    <3> QED
      BY Zenon, <3>1, <3>2
  <2>2. Len(lru) = lru_count
    BY <2>1 DEF CacheSound
  <2>3. lru_count + 1 \notin hashed
    BY <2>1 DEF Allocated
  <2>4. 1 .. lru_count' \subseteq (1 .. lru_count) \cup {lru_count + 1}
    BY <2>1
  <2> QED
    BY <2>1, <2>2, <2>3, <2>4, InsertSound
<1>7. CASE Recycle
  <2>1. /\ tpc = "add" /\ tpc' = "reuse" /\ lru' = Tail(lru)
        /\ hashed' = hashed \ {Head(lru)} /\ UNCHANGED <<node, lru_count, fmap>>
    BY <1>7 DEF Recycle, fileVars
  <2>2. /\ Head(lru) = lru[1] /\ 1 \in DOMAIN lru
        /\ Len(lru') = lru_count - 1 /\ lru \in Seq(Nodes) /\ lru' \in Seq(Nodes)
        /\ \A i \in DOMAIN lru' : lru'[i] = lru[i + 1] /\ i + 1 \in DOMAIN lru
    BY <1>7, <2>1, Oldest DEF Recycle, TypeOK, CacheTypes
  <2>3. /\ Len(lru) = lru_count /\ Len(lru) \in Nat
        /\ DOMAIN lru = 1 .. Len(lru) /\ DOMAIN lru' = 1 .. Len(lru) - 1
    <3>1. Len(lru) = lru_count
      BY Zenon, <2>1 DEF CacheSound
    <3>2. /\ Len(lru) \in Nat /\ DOMAIN lru = 1 .. Len(lru)
          /\ DOMAIN lru' = 1 .. Len(lru')
      BY Zenon, <2>2, SeqLen
    <3> QED
      BY Zenon, <2>2, <3>1, <3>2
  <2>4. ASSUME NEW i \in DOMAIN lru', NEW j \in DOMAIN lru', lru'[i] = lru'[j]
        PROVE  i = j
    <3>0. \A a, b \in DOMAIN lru : lru[a] = lru[b] => a = b
      BY Zenon DEF CacheSound
    <3>3. lru[i + 1] = lru[j + 1]
      BY Zenon, <2>2, <2>4
    <3>4. i + 1 \in DOMAIN lru /\ j + 1 \in DOMAIN lru
      BY Zenon, <2>2
    <3>1. i + 1 = j + 1
      BY Zenon, <3>0, <3>3, <3>4
    <3>2. i \in Nat /\ j \in Nat
      BY <2>3
    <3> QED
      BY <3>1, <3>2
  <2>5. hashed' = {lru'[i] : i \in DOMAIN lru'}
    <3>1. ASSUME NEW n \in hashed' PROVE n \in {lru'[i] : i \in DOMAIN lru'}
      <4>0. n \in hashed /\ n # lru[1] /\ hashed = {lru[i] : i \in DOMAIN lru}
        BY Zenon, <2>1, <2>2, <3>1 DEF CacheSound
      <4>1. PICK i \in DOMAIN lru : n = lru[i] /\ i # 1
        BY Zenon, <4>0
      <4>2. i - 1 \in DOMAIN lru' /\ (i - 1) + 1 = i
        BY <2>3, <4>1
      <4> QED
        BY Zenon, <2>2, <4>1, <4>2
    <3>2. ASSUME NEW i \in DOMAIN lru' PROVE lru'[i] \in hashed'
      <4>1. lru'[i] = lru[i + 1] /\ i + 1 \in DOMAIN lru
        BY Zenon, <2>2
      <4>2. i \in 1 .. Len(lru) - 1 /\ Len(lru) \in Nat
        BY Zenon, <2>3
      <4>3. i + 1 # 1
        BY <4>2
      <4>4. lru[i + 1] \in hashed /\ lru[i + 1] # lru[1]
        BY Zenon, <2>2, <4>1, <4>3 DEF CacheSound
      <4> QED
        BY Zenon, <2>1, <2>2, <4>1, <4>4
    <3> QED
      BY Zenon, <3>1, <3>2
  <2> QED
    BY Zenon, <2>1, <2>2, <2>4, <2>5 DEF CacheSound
<1>8. CASE Reuse
  <2>1. /\ tpc = "reuse" /\ Insert(t.node) /\ UNCHANGED <<fmap, lru_count>>
        /\ t.node \in 1 .. lru_count /\ t.node \notin hashed
    BY Zenon, <1>8 DEF Reuse, ThreadOK, fileVars
  <2>2. t.node \in Nodes
    BY <2>1, SizesAssumption DEF TypeOK, CacheTypes, Nodes
  <2>3. lru_count' = Len(lru) + 1
    <3>1. Len(lru) = lru_count - 1 /\ lru_count' = lru_count
      BY Zenon, <2>1 DEF CacheSound
    <3>2. lru_count \in 0 .. LRU_LENGTH
      BY Zenon DEF TypeOK, CacheTypes
    <3> QED
      BY <3>1, <3>2, SizesAssumption
  <2>4. 1 .. lru_count' \subseteq (1 .. lru_count) \cup {t.node}
    BY <2>1
  <2> QED
    BY <2>1, <2>2, <2>3, <2>4, InsertSound
<1>9. CASE Crash \/ Rebind
  <2>1. hashed' = {} /\ lru' = <<>> /\ lru_count' = 0 /\ tpc' # "reuse"
    BY Zenon, <1>9 DEF Crash, Rebind, Bind, threadVars
  <2>2. /\ Len(lru') = 0 /\ 1 .. lru_count' = {}
        /\ \A i : i \notin DOMAIN lru'
    BY <2>1
  <2>3. hashed' = {lru'[i] : i \in DOMAIN lru'}
    BY Zenon, <2>1, <2>2
  <2>4. \A i, j \in DOMAIN lru' : lru'[i] = lru'[j] => i = j
    BY Zenon, <2>2
  <2>5. Len(lru') = IF tpc' = "reuse" THEN lru_count' - 1 ELSE lru_count'
    BY <2>1, <2>2
  <2> QED
    BY Zenon, <2>2, <2>3, <2>4, <2>5 DEF CacheSound
<1> QED
  BY <1>2, <1>3, <1>4, <1>5, <1>6, <1>7, <1>8, <1>9, NextSplit DEF ThreadStep

LEMMA AllocatedStep ==
    ASSUME StructInv, [Next]_vars
    PROVE  Allocated'
<1> USE DEF StructInv, Allocated
<1>1. CASE AddNew
  BY <1>1 DEF AddNew, Insert, TypeOK, CacheTypes
<1>2. CASE Recycle
  BY <1>2 DEF Recycle
<1>3. CASE Reuse
  BY <1>3 DEF Reuse, Insert, ThreadOK
<1>4. CASE Crash \/ Rebind
  BY Zenon, <1>4 DEF Crash, Rebind, Bind
<1>5. CASE ClientNext \/ UNCHANGED vars
  BY Zenon, <1>5, ClientFrame DEF vars, cacheVars
<1>6. CASE Pop \/ Fsync \/ ClearDirty \/ Complete \/ Hit \/ GetBlock \/ SetDirty
           \/ Answer \/ Skip \/ HostCommit
  BY Zenon, <1>6 DEF Pop, Fsync, ClearDirty, Complete, Hit, GetBlock, SetDirty, Answer,
     Skip, HostCommit, cacheVars
<1> QED
  BY <1>1, <1>2, <1>3, <1>4, <1>5, <1>6, NextSplit DEF ThreadStep

LEMMA ThreadOKStep ==
    ASSUME StructInv, TypeOK', [Next]_vars
    PROVE  ThreadOK'
<1> USE DEF StructInv
<1>0. t \in Request /\ (tpc \in ThreadPC)
  BY DEF TypeOK, ThreadTypes
<1>1. CASE ClientNext \/ UNCHANGED vars
  BY Zenon, <1>1, ClientFrame DEF ThreadOK, vars, fileVars, cacheVars, threadVars
<1>2. CASE Pop
  <2> DEFINE c == Head(queue)
  <2>1. c \in Clients
    BY Zenon, <1>2, SeqHeadTail DEF Pop, TypeOK, CioTypes
  <2>2. blk[c] \in Nat /\ blk[c] < NBlocks
    BY <2>1, SizesAssumption DEF TypeOK, BioTypes, Blocks
  <2>3. /\ NoReq.i = 0
        /\ [NoReq EXCEPT !.cio = c].cio = c /\ [NoReq EXCEPT !.cio = c].i = 0
        /\ LET r == [NoReq EXCEPT !.cio = c, !.create = bio[c].write,
                                  !.blk_start = blk[c]]
           IN  /\ r.cio = c /\ r.i = 0 /\ r.blk_start = blk[c]
               /\ \A n : /\ [r EXCEPT !.cur = n].cio = c
                         /\ [r EXCEPT !.cur = n].cur = n
                         /\ [r EXCEPT !.cur = n].blk_start = blk[c]
    BY DEF NoReq
  <2>4. UNCHANGED cacheVars
    BY Zenon, <1>2 DEF Pop
  <2> HIDE DEF c
  <2>5. \/ /\ tpc' = "fsync"
           /\ t'.cio = c /\ t'.i = 0
        \/ /\ tpc' = "getblk"
           /\ t'.cio = c /\ t'.i = 0 /\ t'.blk_start = blk[c]
        \/ /\ tpc' = "hit"
           /\ t'.cio = c /\ t'.blk_start = blk[c] /\ t'.cur \in Found(blk[c])
    BY ZenonT(30), <1>2, <2>3 DEF Pop, c
  <2>6. /\ tpc' # "wait" /\ t'.cio \in Clients
        /\ tpc' \notin {"synced", "setdirty", "answer", "skip", "add", "reuse"}
        /\ tpc' = "fsync" => t'.i = 0
    BY Zenon, <2>1, <2>5
  <2>7. tpc' = "hit" => t'.cur \in hashed' /\ node'[t'.cur].blk_local = t'.blk_start
    BY Zenon, <2>4, <2>5 DEF Found, cacheVars
  <2>8. tpc' = "getblk" => /\ t'.i < prefetch_blocks
                           /\ t'.i <= t'.blk_start /\ t'.blk_start < t'.i + NBlocks
    <3> SUFFICES ASSUME tpc' = "getblk"
                 PROVE  /\ t'.i < prefetch_blocks
                        /\ t'.i <= t'.blk_start /\ t'.blk_start < t'.i + NBlocks
      BY Zenon
    <3>1. t'.i = 0 /\ t'.blk_start = blk[c]
      BY Zenon, <2>5
    <3>2. /\ 0 < prefetch_blocks /\ 0 <= blk[c] /\ blk[c] < 0 + NBlocks
      BY <2>2, SizesAssumption DEF Blocks
    <3> QED
      BY Zenon, <3>1, <3>2
  <2> QED
    BY Zenon, <2>6, <2>7, <2>8 DEF ThreadOK
<1>3. CASE Fsync \/ ClearDirty \/ HostCommit
  BY Zenon, <1>3 DEF Fsync, ClearDirty, HostCommit, ThreadOK, cacheVars, threadVars
<1>4. CASE Complete \/ Hit \/ Crash
  BY Zenon, <1>4 DEF Complete, Hit, Crash, ThreadOK
<1>5. CASE GetBlock
  <2>1. /\ t.cio \in Clients /\ t.i < prefetch_blocks
        /\ t.i <= t.blk_start /\ t.blk_start < t.i + NBlocks
    BY Zenon, <1>5 DEF GetBlock, ThreadOK
  <2>2. CASE GetBlockFails
    BY Zenon, <2>1, <2>2 DEF GetBlockFails, ThreadOK
  <2>3. CASE GetBlockSucceeds
    <3>1. /\ t' = [t EXCEPT !.b_blocknr = t'.b_blocknr,
                            !.got_num = t'.got_num, !.j = 0]
          /\ t'.got_num \in 1 .. prefetch_blocks - t.i
          /\ t'.b_blocknr = Hole => ~t.create /\ fmap' = fmap
          /\ t'.b_blocknr # Hole =>
                \A k \in 0 .. t'.got_num - 1 :
                    fmap'[t.blk_start + k] = t'.b_blocknr + k
      BY <1>5, <2>3, GetBlockMap
    <3>2. PICK p, g : t' = [t EXCEPT !.b_blocknr = p, !.got_num = g, !.j = 0]
      BY Zenon, <3>1
    <3>3. /\ t'.cio = t.cio /\ t'.i = t.i /\ t'.j = 0
          /\ t'.blk_start = t.blk_start /\ t'.create = t.create
      BY <1>0, <3>2 DEF Request
    <3>4. /\ tpc' \in {"setdirty", "answer", "skip", "add"}
          /\ tpc' = "add" => t'.b_blocknr # Hole
          /\ tpc' = "answer" => t'.i = 0
      BY <2>3 DEF GetBlockSucceeds, AfterGet
    <3>5. t'.j \in 0 .. t'.got_num - 1
      BY <1>0, <3>1, <3>3, SizesAssumption DEF Request
    <3> QED
      BY <2>1, <3>1, <3>3, <3>4, <3>5 DEF ThreadOK
  <2> QED
    BY <1>5, <2>2, <2>3 DEF GetBlock
<1>6. CASE SetDirty
  BY Zenon, <1>6 DEF SetDirty, AfterGet, ThreadOK, cacheVars
<1>7. CASE Answer
  BY Zenon, <1>7 DEF Answer, ThreadOK, fileVars, cacheVars
<1>8. CASE Skip
  <2>1. 1 \in 1 .. prefetch_blocks - t.i
    <3>1. t.i \in Nat /\ t.i < prefetch_blocks
      BY Zenon, <1>0, <1>8 DEF Skip, ThreadOK, Request
    <3> QED
      BY Zenon, <3>1, OneLeft
  <2>2. /\ tpc' \in {"wait", "getblk"}
        /\ tpc' = "wait" => t' = NoReq
        /\ tpc' = "getblk" =>
              /\ t'.cio \in Clients
              /\ t'.i < prefetch_blocks
              /\ t'.i <= t'.blk_start /\ t'.blk_start < t'.i + NBlocks
    BY <1>8, <2>1, AdvanceThread DEF Skip
  <2> QED
    BY Zenon, <2>2 DEF ThreadOK
<1>9. CASE Recycle
  <2>1. Head(lru) \in hashed /\ Head(lru) \in 1 .. lru_count
    BY <1>9, Oldest DEF Recycle, Allocated
  <2>2. /\ tpc = "add" /\ tpc' = "reuse" /\ UNCHANGED <<fmap, lru_count>>
        /\ hashed' = hashed \ {Head(lru)} /\ t' = [t EXCEPT !.node = Head(lru)]
    BY <1>9 DEF Recycle, fileVars
  <2>3. /\ t'.node = Head(lru) /\ t'.cio = t.cio /\ t'.i = t.i /\ t'.j = t.j
        /\ t'.blk_start = t.blk_start /\ t'.create = t.create
        /\ t'.b_blocknr = t.b_blocknr /\ t'.got_num = t.got_num
    BY <1>0, <2>2 DEF Request
  <2> QED
    BY <2>1, <2>2, <2>3 DEF ThreadOK
<1>10. CASE AddNew \/ Reuse
  <2>1. \E n : Insert(n)
    BY Zenon, <1>10 DEF AddNew, Reuse
  <2>2. tpc \in {"add", "reuse"} /\ fmap' = fmap
    BY Zenon, <1>10 DEF AddNew, Reuse, fileVars
  <2>3. /\ t.b_blocknr # Hole
        /\ \A k \in 0 .. t.got_num - 1 : fmap[t.blk_start + k] = t.b_blocknr + k
    BY Zenon, <2>2 DEF ThreadOK
  <2> QED
    BY Zenon, <2>1, <2>2, <2>3, InsertThread DEF ThreadOK
<1>11. CASE Rebind
  BY Zenon, <1>11 DEF Rebind, Bind, ThreadOK, threadVars
<1> QED
  BY <1>1, <1>2, <1>3, <1>4, <1>5, <1>6, <1>7, <1>8, <1>9, <1>10, <1>11, NextSplit
  DEF ThreadStep

LEMMA PtrStep ==
    ASSUME StructInv, TypeOK', [Next]_vars
    PROVE  PtrOK'
<1> USE DEF StructInv, PtrOK
<1>0. /\ pc \in [Clients -> ClientPC] /\ ptr \in [Clients -> Nodes \cup {NULL}]
      /\ stale \in [Clients -> BOOLEAN] /\ blk \in [Clients -> Blocks]
      /\ node \in [Nodes -> [b_blocknr : Phys \cup {Hole}, blk_local : FBlocks]]
      /\ lru_count \in 0 .. LRU_LENGTH
  BY Zenon DEF TypeOK, ClientTypes, BioTypes, CacheTypes
<1>1. CASE ClientNext
  <2>0. UNCHANGED cacheVars
    BY <1>1, ClientFrame
  <2>1. ASSUME NEW c \in Clients, NEW b \in Blocks, NEW k \in Bios, Submit(c, b, k)
        PROVE  PtrOK'
    BY Zenon, <1>0, <2>0, <2>1 DEF Submit, Goto, bioVars, cacheVars
  <2>2. ASSUME NEW c \in Clients,
               TestDirty(c) \/ TestDirtyFua(c) \/ WakePre(c) \/ WakeMap(c) \/ WakeFua(c)
        PROVE  PtrOK'
    BY ZenonT(30), <1>0, <2>0, <2>2 DEF TestDirty, TestDirtyFua, WakePre, WakeMap, WakeFua,
       Goto, Return, Forget, AfterFlush, bioVars, cacheVars
  <2>3. ASSUME NEW c \in Clients, Enqueue(c) \/ Send(c) \/ ReadNode(c)
        PROVE  PtrOK'
    BY ZenonT(30), <1>0, <2>0, <2>3 DEF Enqueue, Send, ReadNode, Goto, bioVars, cacheVars
  <2>4. ASSUME NEW c \in Clients, Lookup(c)
        PROVE  PtrOK'
    BY Zenon, <1>0, <2>0, <2>4 DEF Lookup, Found, Goto, Allocated, bioVars, cacheVars
  <2>5. ASSUME NEW c \in Clients, NEW ok \in BOOLEAN, LowerDone(c, ok)
        PROVE  PtrOK'
    BY Zenon, <1>0, <2>0, <2>5 DEF LowerDone, Forget, clientVars, bioVars, cacheVars
  <2> QED
    BY Zenon, <1>1, <2>1, <2>2, <2>3, <2>4, <2>5 DEF ClientNext, ClientStep
<1>2. CASE UNCHANGED <<cacheVars, clientVars, bioVars>>
  BY Zenon, <1>2 DEF cacheVars, clientVars, bioVars
<1>3. CASE Pop \/ Fsync \/ ClearDirty \/ Complete \/ Hit \/ GetBlock \/ SetDirty
           \/ Answer \/ Skip \/ HostCommit \/ UNCHANGED vars
  BY Zenon, <1>2, <1>3 DEF Pop, Fsync, ClearDirty, Complete, Hit, GetBlock, SetDirty,
     Answer, Skip, HostCommit, vars
<1>4. CASE AddNew
  BY <1>0, <1>4 DEF AddNew, Insert, clientVars, bioVars
<1>5. CASE Recycle
  BY <1>0, <1>5 DEF Recycle, clientVars, bioVars
<1>6. CASE Reuse
  <2> SUFFICES ASSUME NEW c \in Clients, pc'[c] = "readnode"
               PROVE  /\ ptr'[c] \in 1 .. lru_count'
                      /\ ~stale'[c] => node'[ptr'[c]].blk_local = blk'[c]
    BY Zenon
  <2>1. /\ UNCHANGED <<pc, ptr, blk, lru_count>>
        /\ stale' = [d \in Clients |->
                       stale[d] \/ (pc[d] = "readnode" /\ ptr[d] = t.node)]
        /\ \A n \in Nodes : n # t.node => node'[n] = node[n]
    BY <1>0, <1>6 DEF Reuse, Insert, bioVars
  <2>2. ptr[c] \in 1 .. lru_count /\ ptr[c] \in Nodes
    <3>1. ptr[c] \in 1 .. lru_count /\ lru_count \in 0 .. LRU_LENGTH
      BY Zenon, <1>0, <2>1 DEF PtrOK
    <3> QED
      BY Zenon, <3>1, InUse
  <2>3. CASE ptr[c] = t.node
    BY Zenon, <2>1, <2>2, <2>3
  <2>4. CASE ptr[c] # t.node
    BY Zenon, <2>1, <2>2, <2>4
  <2> QED
    BY Zenon, <2>3, <2>4
<1>7. CASE Crash
  BY Zenon, <1>7 DEF Crash
<1>8. CASE Rebind
  BY Zenon, <1>8 DEF Rebind, clientVars
<1> QED
  BY Zenon, <1>1, <1>3, <1>4, <1>5, <1>6, <1>7, <1>8, NextSplit DEF ThreadStep

(* The block cache stays sound and every variable keeps its type, whatever  *)
(* the clients, the thread, the host and the administrator do.              *)
THEOREM StructInvariant == Spec => []StructInv
<1>1. ASSUME StructInv, [Next]_vars PROVE StructInv'
  <2>1. TypeOK'
    <3>1. CASE UNCHANGED vars
      BY Zenon, <1>1, <3>1 DEF StructInv, TypeOK, FileTypes, CacheTypes, CioTypes,
         ClientTypes, BioTypes, ThreadTypes, AckTypes, FlawTypes, vars, fileVars, cacheVars,
         cioVars, clientVars, bioVars, endVars, threadVars, ackVars, flawVars
    <3> QED
      BY <1>1, <3>1, NextSplit, ClientNextTypes, ThreadStepTypes, CrashTypes
      DEF StructInv
  <2> QED
    BY <1>1, <2>1, CacheStep, AllocatedStep, ThreadOKStep, PtrStep DEF StructInv
<1> QED
  BY <1>1, InitStruct, PTL DEF Spec

(* Type correctness of the driver.                                          *)
THEOREM TypeCorrect == Spec => []TypeOK
BY StructInvariant, PTL DEF StructInv

(* The hash table and the lru list agree and hold true translations only.   *)
THEOREM CacheCorrect == Spec => []CacheSound
BY StructInvariant, PTL DEF StructInv

-----------------------------------------------------------------------------
(* The requests between the clients and loop_thread, and the translations   *)
(* they carry, up to the step, if any, in which the thread writes to a      *)
(* request after its end: every lemma is about a step that is not that one. *)

\* The request being served is the one its client is waiting for.
ServeOK ==
    Owed => /\ tpc \in {"fsync", "synced"} => cflush[t.cio]
            /\ tpc = "complete" => cflush[t.cio] \/ cerr[t.cio]
            /\ tpc \in {"hit", "getblk", "setdirty", "answer"} =>
                  /\ ~cflush[t.cio]
                  /\ t.blk_start = blk[t.cio]
                  /\ t.create = bio[t.cio].write

\* p is what the bio of client c has to be redirected to.
Translated(c, p) ==
    \/ p = fmap[blk[c]] /\ p # Hole
    \/ p = Hole /\ ~bio[c].write

\* What client c knows at each point of redirect_bio.
ClientFine(c) ==
    /\ pc[c] \in {"waitpre", "waitfua"} => cflush[c]
    /\ pc[c] = "waitmap" => ~cflush[c]
    /\ pc[c] = "waitmap" /\ cdone[c] /\ ~cerr[c] => Translated(c, cphy[c])
    /\ pc[c] = "send" =>
          /\ ~stale[c] => Translated(c, phys[c])
          /\ bio[c].write => \E b \in FBlocks : fmap[b] # Hole /\ phys[c] = fmap[b]

ClientOK == \A c \in Clients : ClientFine(c)

ServeInv == StructInv /\ RequestsMatch /\ ServeOK /\ ClientOK

-----------------------------------------------------------------------------
(* The queue of requests.                                                   *)

LEMMA QueueAppend ==
    ASSUME queue \in Seq(Clients), NEW c \in Clients, ~Queued(c),
           \A i, j \in DOMAIN queue : queue[i] = queue[j] => i = j,
           queue' = Append(queue, c)
    PROVE  /\ \A i, j \in DOMAIN queue' : queue'[i] = queue'[j] => i = j
           /\ \A d \in Clients : Queued(d)' <=> Queued(d) \/ d = c
<1>1. /\ DOMAIN queue = 1 .. Len(queue) /\ DOMAIN queue' = 1 .. Len(queue) + 1
      /\ Len(queue) \in Nat
      /\ \A i \in 1 .. Len(queue) : queue'[i] = queue[i]
      /\ queue'[Len(queue) + 1] = c
  BY SeqAppend
<1> QED
  BY <1>1 DEF Queued

LEMMA QueueTail ==
    ASSUME queue \in Seq(Clients), queue # <<>>,
           \A i, j \in DOMAIN queue : queue[i] = queue[j] => i = j,
           queue' = Tail(queue)
    PROVE  /\ \A i, j \in DOMAIN queue' : queue'[i] = queue'[j] => i = j
           /\ Head(queue) \in Clients /\ Queued(Head(queue))
           /\ \A d \in Clients : Queued(d)' <=> Queued(d) /\ d # Head(queue)
<1>1. /\ DOMAIN queue = 1 .. Len(queue) /\ DOMAIN queue' = 1 .. Len(queue) - 1
      /\ Len(queue) \in Nat /\ Len(queue) >= 1
      /\ \A i \in 1 .. Len(queue) - 1 : queue'[i] = queue[i + 1]
      /\ Head(queue) = queue[1] /\ Head(queue) \in Clients
  BY SeqHeadTail, SeqLen
<1>2. ASSUME NEW d \in Clients, Queued(d), d # Head(queue)
      PROVE  Queued(d)'
  <2>1. PICK i \in DOMAIN queue : queue[i] = d
    BY <1>2 DEF Queued
  <2>2. i - 1 \in DOMAIN queue' /\ queue'[i - 1] = queue[i]
    BY <1>1, <1>2, <2>1
  <2> QED
    BY <2>1, <2>2 DEF Queued
<1>3. ASSUME NEW d \in Clients, Queued(d)'
      PROVE  Queued(d) /\ d # Head(queue)
  <2>1. PICK i \in DOMAIN queue' : queue'[i] = d
    BY <1>3 DEF Queued
  <2>2. i + 1 \in DOMAIN queue /\ queue[i + 1] = d /\ i + 1 # 1 /\ 1 \in DOMAIN queue
    BY <1>1, <2>1
  <2> QED
    BY <1>1, <2>2 DEF Queued
<1> QED
  BY <1>1, <1>2, <1>3 DEF Queued

-----------------------------------------------------------------------------
(* Frames.                                                                  *)

ClientAct(c) ==
    \/ \E b \in Blocks, k \in Bios : Submit(c, b, k)
    \/ ClientStep(c)
    \/ \E ok \in BOOLEAN : LowerDone(c, ok)

LEMMA ClientNextAct == ClientNext <=> \E c \in Clients : ClientAct(c)
BY DEF ClientNext, ClientAct

\* Nothing of client d changes.
Same(d) ==
    /\ pc'[d] = pc[d] /\ ptr'[d] = ptr[d] /\ phys'[d] = phys[d]
    /\ stale'[d] = stale[d]
    /\ bio'[d] = bio[d] /\ blk'[d] = blk[d] /\ before'[d] = before[d]
    /\ inflight'[d] = inflight[d] /\ ended'[d] = ended[d]
    /\ fuaerr'[d] = fuaerr[d]
    /\ cflush'[d] = cflush[d] /\ cerr'[d] = cerr[d] /\ cphy'[d] = cphy[d]
    /\ cdone'[d] = cdone[d]

\* A step of one client leaves the other clients alone.
LEMMA OtherClients ==
    ASSUME TypeOK, NEW c \in Clients, ClientAct(c),
           NEW d \in Clients, d # c
    PROVE  Same(d)
<1> USE DEF TypeOK, CioTypes, ClientTypes, BioTypes, Same
<1>1. ASSUME NEW b \in Blocks, NEW k \in Bios, Submit(c, b, k)
      PROVE  Same(d)
  BY <1>1 DEF Submit, Goto, cioVars, bioVars
<1>2. CASE TestDirty(c)
  BY <1>2 DEF TestDirty, Goto, cioVars, bioVars, endVars
<1>3. CASE TestDirtyFua(c)
  BY <1>3 DEF TestDirtyFua, Goto, Return, Forget, cioVars, bioVars, endVars
<1>4. CASE Enqueue(c)
  BY <1>4 DEF Enqueue, Goto, bioVars, endVars
<1>5. CASE WakePre(c)
  BY <1>5 DEF WakePre, Woken, Goto, Return, Forget, EndBio, bioVars
<1>6. CASE Lookup(c)
  BY <1>6 DEF Lookup, Goto, cioVars, bioVars, endVars
<1>7. CASE ReadNode(c)
  BY Zenon, <1>7 DEF ReadNode, Goto, cioVars, bioVars, endVars
<1>8. CASE WakeMap(c)
  BY <1>8 DEF WakeMap, Woken, Goto, Return, Forget, EndBio, bioVars
<1>9. CASE Send(c)
  BY <1>9 DEF Send, Goto, cioVars, bioVars
<1>10. CASE WakeFua(c)
  BY <1>10 DEF WakeFua, Woken, Goto, Return, Forget, EndBio, bioVars
<1>11. ASSUME NEW ok \in BOOLEAN, LowerDone(c, ok)
       PROVE  Same(d)
  BY <1>11 DEF LowerDone, Forget, EndBio, cioVars, clientVars, bioVars
<1> QED
  BY Zenon, <1>1, <1>2, <1>3, <1>4, <1>5, <1>6, <1>7, <1>8, <1>9, <1>10, <1>11
  DEF ClientAct, ClientStep

\* What a step of client c does to its request: it queues a new one, it takes
\* the answer to a completed one, or it has none and gets none.
LEMMA ClientRequest ==
    ASSUME TypeOK, NEW c \in Clients, ClientAct(c)
    PROVE  \/ /\ ~Waiting(c) /\ Waiting(c)' /\ ~cdone'[c]
              /\ queue' = Append(queue, c)
           \/ /\ Waiting(c) /\ cdone[c] /\ ~Waiting(c)' /\ queue' = queue
           \/ /\ ~Waiting(c) /\ ~Waiting(c)' /\ queue' = queue
           \/ /\ UNCHANGED <<queue, pc, cdone>>
<1> USE DEF TypeOK, CioTypes, ClientTypes, Waiting
<1>1. ASSUME NEW b \in Blocks, NEW k \in Bios, Submit(c, b, k)
      PROVE  ~Waiting(c) /\ ~Waiting(c)' /\ queue' = queue
  BY <1>1 DEF Submit, Goto
<1>2. CASE TestDirty(c) \/ TestDirtyFua(c) \/ Lookup(c) \/ ReadNode(c) \/ Send(c)
  BY ZenonT(30), <1>2 DEF TestDirty, TestDirtyFua, Lookup, ReadNode, Send, Goto, Return,
     AfterFlush
<1>3. CASE Enqueue(c)
  BY <1>3 DEF Enqueue, Goto
<1>4. CASE WakePre(c) \/ WakeMap(c) \/ WakeFua(c)
  <2>1. /\ cdone[c] /\ pc[c] \in {"waitpre", "waitmap", "waitfua"} /\ queue' = queue
        /\ pc' = [pc EXCEPT ![c] = pc'[c]]
        /\ pc'[c] \in {"idle", "sendflush", "lookup", "send"}
    BY Zenon, <1>4 DEF WakePre, WakeMap, WakeFua, Woken, Goto, Return, AfterFlush
  <2> QED
    BY Zenon, <2>1
<1>5. ASSUME NEW ok \in BOOLEAN, LowerDone(c, ok)
      PROVE  UNCHANGED <<queue, pc, cdone>>
  BY Zenon, <1>5 DEF LowerDone, clientVars, cioVars
<1> QED
  BY <1>1, <1>2, <1>3, <1>4, <1>5 DEF ClientAct, ClientStep

-----------------------------------------------------------------------------
(* Every request is answered once.                                          *)

LEMMA AnsweredStep ==
    ASSUME ServeInv, [Next]_vars, ~late'
    PROVE  RequestsMatch'
<1> USE DEF ServeInv, StructInv
<1>0. /\ TypeOK /\ queue \in Seq(Clients) /\ t \in Request
      /\ cdone \in [Clients -> BOOLEAN] /\ pc \in [Clients -> ClientPC]
  BY DEF TypeOK, CioTypes, ThreadTypes, ClientTypes
<1>1. ASSUME NEW c \in Clients, ClientAct(c) PROVE RequestsMatch'
  <2>1. \A d \in Clients : d # c => (Waiting(d)' <=> Waiting(d)) /\ (cdone'[d] <=> cdone[d])
    BY Zenon, <1>0, <1>1, OtherClients DEF Waiting, Same
  <2>2. (Owed' <=> Owed) /\ t' = t
    BY <1>1, ClientNextAct, ClientFrame DEF Owed, threadVars
  <2>3. CASE ~Waiting(c) /\ Waiting(c)' /\ ~cdone'[c] /\ queue' = Append(queue, c)
    <3>1. ~Queued(c) /\ (Owed => t.cio # c)
      BY Zenon, <2>3 DEF RequestsMatch
    <3>2. /\ \A i, j \in DOMAIN queue' : queue'[i] = queue'[j] => i = j
          /\ \A d \in Clients : Queued(d)' <=> Queued(d) \/ d = c
      BY Zenon, <1>0, <2>3, <3>1, QueueAppend DEF RequestsMatch
    <3> QED
      BY Zenon, <2>1, <2>2, <2>3, <3>1, <3>2 DEF RequestsMatch
  <2>4. CASE Waiting(c) /\ cdone[c] /\ ~Waiting(c)' /\ queue' = queue
    <3>1. ~Queued(c) /\ (Owed => t.cio # c)
      BY Zenon, <2>4 DEF RequestsMatch
    <3>2. \A d \in Clients : Queued(d)' <=> Queued(d)
      BY <2>4 DEF Queued
    <3> QED
      BY Zenon, <2>1, <2>2, <2>4, <3>1, <3>2 DEF RequestsMatch
  <2>5. CASE ~Waiting(c) /\ ~Waiting(c)' /\ queue' = queue
    <3>1. ~Queued(c) /\ (Owed => t.cio # c)
      BY <2>5 DEF RequestsMatch
    <3>2. \A d \in Clients : Queued(d)' <=> Queued(d)
      BY <2>5 DEF Queued
    <3> QED
      BY Zenon, <2>1, <2>2, <2>5, <3>1, <3>2 DEF RequestsMatch
  <2>6. CASE UNCHANGED <<queue, pc, cdone>>
    BY <2>2, <2>6 DEF RequestsMatch, Queued, Waiting
  <2> QED
    BY <1>0, <1>1, <2>3, <2>4, <2>5, <2>6, ClientRequest
<1>2. ASSUME UNCHANGED <<queue, pc, cdone>>, Owed' <=> Owed,
             Owed => t'.cio = t.cio
      PROVE  RequestsMatch'
  BY <1>2 DEF RequestsMatch, Queued, Waiting
<1>3. CASE Pop
  <2> DEFINE h == Head(queue)
  <2>1. /\ queue # <<>> /\ queue' = Tail(queue) /\ UNCHANGED <<pc, cdone>>
        /\ tpc = "wait"
    BY Zenon, <1>3 DEF Pop, cioVars, clientVars
  <2>2. Owed' /\ t'.cio = h
    <3>1. /\ [NoReq EXCEPT !.cio = h].cio = h
          /\ LET r == [NoReq EXCEPT !.cio = h, !.create = bio[h].write,
                                    !.blk_start = blk[h]]
             IN  r.cio = h /\ r.i = 0 /\ \A n : [r EXCEPT !.cur = n].cio = h
      BY DEF NoReq
    <3> QED
      BY Zenon, <1>3, <3>1 DEF Pop, Owed
  <2>3. /\ \A i, j \in DOMAIN queue' : queue'[i] = queue'[j] => i = j
        /\ h \in Clients /\ Queued(h)
        /\ \A d \in Clients : Queued(d)' <=> Queued(d) /\ d # h
    BY <1>0, <2>1, QueueTail DEF RequestsMatch
  <2>4. ~Owed
    BY <2>1 DEF Owed
  <2> HIDE DEF h
  <2> QED
    BY <2>1, <2>2, <2>3, <2>4 DEF RequestsMatch, Waiting
<1>4. CASE Fsync \/ ClearDirty
  BY Zenon, <1>2, <1>4 DEF Fsync, ClearDirty, Owed, ThreadOK, clientVars, cioVars
<1>5. ASSUME Owed, ~Owed', UNCHANGED <<queue, pc>>,
             cdone' = [cdone EXCEPT ![t.cio] = TRUE]
      PROVE  RequestsMatch'
  BY <1>0, <1>5 DEF RequestsMatch, Queued, Waiting
<1>6. CASE Complete
  <2>1. /\ UNCHANGED <<queue, pc>> /\ cdone' = [cdone EXCEPT ![t.cio] = TRUE]
        /\ ~Expired /\ ~Owed' /\ tpc = "complete" /\ t.cio \in Clients
    BY Zenon, <1>6 DEF Complete, ThreadOK, Owed, clientVars
  <2>2. CASE t.i = 0
    BY Zenon, <1>5, <2>1, <2>2 DEF Owed
  <2>3. CASE t.i # 0
    <3>1. t.i > 0
      BY <1>0, <2>3 DEF Request
    <3>2. cdone' = cdone
      BY <1>0, <2>1, <3>1 DEF Expired
    <3> QED
      BY Zenon, <1>2, <2>1, <2>3, <3>2 DEF Owed
  <2> QED
    BY <2>2, <2>3
<1>14. CASE Hit
  BY <1>5, <1>14 DEF Hit, Reply, Owed, clientVars
<1>7. CASE GetBlock
  <2>1. UNCHANGED <<queue, pc, cdone>> /\ tpc = "getblk"
    BY <1>7 DEF GetBlock, clientVars
  <2>2. CASE GetBlockFails
    BY Zenon, <1>2, <2>1, <2>2 DEF GetBlockFails, Owed
  <2>3. CASE GetBlockSucceeds
    <3>1. PICK p, g : t' = [t EXCEPT !.b_blocknr = p, !.got_num = g, !.j = 0]
      BY Zenon, <1>7, <2>3, GetBlockMap
    <3>2. t'.cio = t.cio /\ t'.i = t.i
      BY <1>0, <3>1 DEF Request
    <3> QED
      BY <1>2, <2>1, <2>3, <3>2 DEF GetBlockSucceeds, AfterGet, Owed
  <2> QED
    BY <1>7, <2>2, <2>3 DEF GetBlock
<1>8. CASE SetDirty
  BY <1>2, <1>8 DEF SetDirty, AfterGet, Owed, clientVars, cioVars
<1>9. CASE Answer
  BY <1>5, <1>9 DEF Answer, Reply, ThreadOK, Owed, clientVars
<1>10. CASE Skip
  <2>1. 1 \in 1 .. prefetch_blocks - t.i
    <3>1. t.i \in Nat /\ t.i < prefetch_blocks
      BY Zenon, <1>0, <1>10 DEF Skip, ThreadOK, Request
    <3> QED
      BY Zenon, <3>1, OneLeft
  <2>2. ~Owed /\ ~Owed'
    BY <1>10, <2>1, AdvanceThread DEF Skip, Owed
  <2> QED
    BY Zenon, <1>2, <1>10, <2>2 DEF Skip, clientVars, cioVars
<1>11. CASE AddNew \/ Reuse
  <2>1. ~Owed /\ ~Owed'
    BY <1>11, InsertThread DEF AddNew, Reuse, Owed
  <2> QED
    BY <1>2, <1>11, <2>1 DEF AddNew, Reuse, clientVars, cioVars
<1>12. CASE Recycle \/ HostCommit \/ Rebind \/ UNCHANGED vars
  BY <1>2, <1>12 DEF Recycle, HostCommit, Rebind, Bind, Owed, vars, clientVars,
     cioVars, threadVars
<1>13. CASE Crash
  <2>1. /\ queue' = <<>> /\ tpc' = "wait"
        /\ \A c \in Clients : pc'[c] = "idle"
    BY Zenon, <1>13 DEF Crash, Bind
  <2>2. \A i : i \notin DOMAIN queue'
    BY <2>1
  <2> QED
    BY Zenon, <2>1, <2>2 DEF RequestsMatch, Owed, Queued, Waiting
<1> QED
  BY <1>1, <1>3, <1>4, <1>6, <1>7, <1>8, <1>9, <1>10, <1>11, <1>12, <1>13, <1>14,
     NextSplit, ClientNextAct
  DEF ThreadStep

\* A step of a client leaves the request being served alone.
LEMMA ServedClient ==
    ASSUME ServeInv, NEW c \in Clients, ClientAct(c), Owed
    PROVE  Same(t.cio) \/ (\E ok \in BOOLEAN : LowerDone(c, ok))
<1> USE DEF ServeInv, StructInv
<1>1. t.cio \in Clients /\ Waiting(t.cio) /\ ~cdone[t.cio]
  BY Zenon DEF RequestsMatch
<1>2. CASE c = t.cio
  <2>1. pc[c] \in {"waitpre", "waitmap", "waitfua"} /\ ~cdone[c]
    BY <1>1, <1>2 DEF Waiting
  <2> QED
    BY Zenon, <2>1 DEF ClientAct, ClientStep, Submit, TestDirty, TestDirtyFua, Enqueue,
       WakePre, Lookup, ReadNode, WakeMap, Send, WakeFua, Woken
<1> QED
  BY <1>1, <1>2, OtherClients

LEMMA ServeStep ==
    ASSUME ServeInv, [Next]_vars, ~late'
    PROVE  ServeOK'
<1> USE DEF ServeInv, StructInv
<1>0. /\ TypeOK /\ t \in Request /\ cerr \in [Clients -> BOOLEAN]
      /\ pc \in [Clients -> ClientPC]
  BY DEF TypeOK, ThreadTypes, CioTypes, ClientTypes
<1>1. ASSUME UNCHANGED threadVars,
             Owed => /\ cflush'[t.cio] = cflush[t.cio] /\ cerr'[t.cio] = cerr[t.cio]
                     /\ blk'[t.cio] = blk[t.cio] /\ bio'[t.cio] = bio[t.cio]
      PROVE  ServeOK'
  BY Zenon, <1>1 DEF ServeOK, Owed, threadVars
<1>2. ASSUME NEW c \in Clients, ClientAct(c) PROVE ServeOK'
  <2>1. UNCHANGED threadVars
    BY <1>2, ClientNextAct, ClientFrame
  <2>2. ASSUME NEW ok \in BOOLEAN, LowerDone(c, ok), Owed
        PROVE  /\ UNCHANGED cioVars
               /\ blk'[t.cio] = blk[t.cio] /\ bio'[t.cio] = bio[t.cio]
    <3>1. t.cio \in Clients /\ pc[t.cio] # "idle"
      BY Zenon, <2>2 DEF RequestsMatch, Waiting
    <3>2. UNCHANGED cioVars /\ (UNCHANGED bioVars \/ (pc[c] = "idle" /\ Forget(c)))
      BY Zenon, <2>2 DEF LowerDone
    <3>3. /\ bio \in [Clients -> BioKind] /\ blk \in [Clients -> Blocks]
      BY Zenon, <1>0 DEF TypeOK, BioTypes
    <3>4. CASE t.cio = c
      BY Zenon, <3>1, <3>2, <3>4 DEF bioVars
    <3>5. CASE t.cio # c
      BY Zenon, <3>1, <3>2, <3>3, <3>5 DEF Forget, bioVars
    <3> QED
      BY Zenon, <3>2, <3>4, <3>5
  <2> QED
    BY Zenon, <1>1, <1>2, <2>1, <2>2, ServedClient DEF Same, cioVars
<1>3. CASE Pop
  <2> DEFINE h == Head(queue)
  <2>1. /\ LET r == [NoReq EXCEPT !.cio = h, !.create = bio[h].write,
                                  !.blk_start = blk[h]]
           IN  /\ r.cio = h /\ r.blk_start = blk[h] /\ r.create = bio[h].write
               /\ \A n : LET q == [r EXCEPT !.cur = n]
                         IN  q.cio = h /\ q.blk_start = blk[h]
                               /\ q.create = bio[h].write
        /\ [NoReq EXCEPT !.cio = h].cio = h
    BY DEF NoReq
  <2> HIDE DEF h
  <2>2. /\ t'.cio = h
        /\ \/ tpc' = "fsync" /\ cflush[h]
           \/ /\ tpc' \in {"hit", "getblk"} /\ ~cflush[h]
              /\ t'.blk_start = blk[h] /\ t'.create = bio[h].write
    BY ZenonT(30), <1>3, <2>1 DEF Pop, h
  <2> QED
    BY Zenon, <1>3, <2>2 DEF Pop, ServeOK, cioVars, bioVars
<1>4. CASE Fsync \/ ClearDirty
  BY Zenon, <1>4 DEF Fsync, ClearDirty, ServeOK, Owed, cioVars, bioVars
<1>5. CASE Complete \/ Hit \/ Crash
  BY Zenon, <1>5 DEF Complete, Hit, Crash, ServeOK, Owed
<1>6. CASE GetBlock
  <2>1. UNCHANGED <<cflush, bioVars>> /\ tpc = "getblk"
    BY <1>6 DEF GetBlock
  <2>2. CASE GetBlockFails
    <3>1. t.cio \in Clients
      BY <2>1 DEF ThreadOK
    <3> QED
      BY Zenon, <1>0, <2>2, <3>1 DEF GetBlockFails, ServeOK
  <2>3. CASE GetBlockSucceeds
    <3>1. PICK p, g : t' = [t EXCEPT !.b_blocknr = p, !.got_num = g, !.j = 0]
      BY Zenon, <1>6, <2>3, GetBlockMap
    <3>2. /\ t'.cio = t.cio /\ t'.i = t.i /\ t'.create = t.create
          /\ t'.blk_start = t.blk_start
      BY <1>0, <3>1 DEF Request
    <3>3. Owed' => Owed /\ tpc' \in {"setdirty", "answer"}
      BY <2>1, <2>3, <3>2 DEF GetBlockSucceeds, AfterGet, Owed
    <3> QED
      BY Zenon, <2>1, <2>3, <3>2, <3>3 DEF ServeOK, bioVars
  <2> QED
    BY <1>6, <2>2, <2>3 DEF GetBlock
<1>7. CASE SetDirty
  BY Zenon, <1>7 DEF SetDirty, AfterGet, ServeOK, Owed, cioVars, bioVars
<1>8. CASE Answer \/ Recycle
  BY <1>8 DEF Answer, Recycle, ServeOK, Owed
<1>9. CASE Skip
  <2>1. 1 \in 1 .. prefetch_blocks - t.i
    <3>1. t.i \in Nat /\ t.i < prefetch_blocks
      BY Zenon, <1>0, <1>9 DEF Skip, ThreadOK, Request
    <3> QED
      BY Zenon, <3>1, OneLeft
  <2> QED
    BY Zenon, <1>9, <2>1, AdvanceThread DEF Skip, Owed, ServeOK
<1>10. CASE AddNew \/ Reuse
  BY Zenon, <1>10, InsertThread DEF AddNew, Reuse, Owed, ServeOK
<1>11. CASE HostCommit \/ Rebind \/ UNCHANGED vars
  BY Zenon, <1>1, <1>11 DEF HostCommit, Rebind, vars, cioVars, bioVars
<1> QED
  BY <1>2, <1>3, <1>4, <1>5, <1>6, <1>7, <1>8, <1>9, <1>10, <1>11, NextSplit,
     ClientNextAct
  DEF ThreadStep

-----------------------------------------------------------------------------
(* The translations.                                                        *)

\* A mapping that is there stays there, so what a client knows stays true.
LEMMA FineGrows ==
    ASSUME TypeOK, NEW d \in Clients, ClientFine(d),
           \A b \in FBlocks : fmap[b] # Hole => fmap'[b] = fmap[b],
           pc'[d] = pc[d], phys'[d] = phys[d], stale[d] => stale'[d],
           bio'[d] = bio[d], blk'[d] = blk[d],
           cflush'[d] = cflush[d],
           \/ cerr'[d] = cerr[d] /\ cphy'[d] = cphy[d] /\ cdone'[d] = cdone[d]
           \/ ~cdone'[d] \/ cerr'[d]
    PROVE  ClientFine(d)'
<1>1. blk[d] \in FBlocks
  BY Zenon, ConstantTypes DEF TypeOK, BioTypes
<1> QED
  BY Zenon, <1>1 DEF ClientFine, Translated

\* The client that steps itself.
LEMMA FineSelf ==
    ASSUME ServeInv, NEW c \in Clients, ClientAct(c)
    PROVE  ClientFine(c)'
<1> USE DEF ServeInv, StructInv
<1>0. /\ TypeOK /\ pc \in [Clients -> ClientPC] /\ phys \in [Clients -> Phys \cup {Hole}]
      /\ cflush \in [Clients -> BOOLEAN] /\ cdone \in [Clients -> BOOLEAN]
      /\ cerr \in [Clients -> BOOLEAN] /\ blk[c] \in FBlocks
  BY Zenon, ConstantTypes DEF TypeOK, ClientTypes, CioTypes, BioTypes
<1>1. UNCHANGED fmap
  BY ClientNextAct, ClientFrame DEF fileVars
<1>2. CASE pc'[c] \notin {"waitpre", "waitfua", "waitmap", "send"}
  BY Zenon, <1>2 DEF ClientFine
<1>3. ASSUME NEW b \in Blocks, NEW k \in Bios, Submit(c, b, k)
      PROVE  pc'[c] \notin {"waitpre", "waitfua", "waitmap", "send"}
  BY Zenon, <1>0, <1>3 DEF Submit, Goto
<1>4. ASSUME TestDirty(c) \/ TestDirtyFua(c) \/ WakePre(c) \/ Lookup(c) \/ Send(c)
             \/ WakeFua(c)
      PROVE  pc'[c] \notin {"waitpre", "waitfua", "waitmap", "send"}
  BY ZenonT(30), <1>0, <1>4 DEF TestDirty, TestDirtyFua, WakePre, Lookup, Send, WakeFua, Goto,
     Return, AfterFlush
<1>5. CASE Enqueue(c)
  BY Zenon, <1>0, <1>5 DEF Enqueue, Goto, ClientFine
<1>6. CASE ReadNode(c)
  <2>1. /\ node[ptr[c]].b_blocknr # Hole
        /\ node[ptr[c]].b_blocknr = fmap[node[ptr[c]].blk_local]
        /\ ~stale[c] => node[ptr[c]].blk_local = blk[c]
    BY Zenon, <1>6 DEF ReadNode, PtrOK, CacheSound
  <2>2. ptr[c] \in Nodes
    BY Zenon, <1>6, InUse DEF ReadNode, PtrOK, TypeOK, CacheTypes
  <2>3. node[ptr[c]].blk_local \in FBlocks
    BY <2>2 DEF TypeOK, CacheTypes
  <2>4. /\ pc'[c] = "send" /\ phys'[c] = node[ptr[c]].b_blocknr
        /\ UNCHANGED <<stale, bio, blk>>
    BY Zenon, <1>0, <1>6, <2>1 DEF ReadNode, Goto, bioVars
  <2> QED
    BY Zenon, <1>1, <2>1, <2>3, <2>4 DEF ClientFine, Translated
<1>7. CASE WakeMap(c)
  <2>1. CASE cerr[c]
    BY Zenon, <1>0, <1>2, <1>7, <2>1 DEF WakeMap, Return, Goto
  <2>2. CASE ~cerr[c]
    <3>1. Translated(c, cphy[c])
      BY Zenon, <1>7, <2>2 DEF WakeMap, Woken, ClientOK, ClientFine
    <3>2. /\ pc'[c] = "send" /\ phys'[c] = cphy[c] /\ UNCHANGED <<bio, blk>>
      BY Zenon, <1>0, <1>7, <2>2 DEF WakeMap, Goto, bioVars
    <3> QED
      BY Zenon, <1>0, <1>1, <3>1, <3>2 DEF ClientFine, Translated
  <2> QED
    BY <2>1, <2>2
<1>8. ASSUME NEW ok \in BOOLEAN, LowerDone(c, ok)
      PROVE  ClientFine(c)'
  <2>1. UNCHANGED <<cioVars, clientVars>>
    BY Zenon, <1>8 DEF LowerDone
  <2>2. CASE pc[c] = "idle"
    BY <1>2, <2>1, <2>2 DEF clientVars
  <2>3. CASE pc[c] # "idle"
    BY ZenonT(30), <1>0, <1>1, <1>8, <2>1, <2>3
    DEF LowerDone, clientVars, cioVars, bioVars, ClientOK, ClientFine, Translated
  <2> QED
    BY <2>2, <2>3
<1> QED
  BY <1>2, <1>3, <1>4, <1>5, <1>6, <1>7, <1>8 DEF ClientAct, ClientStep

LEMMA FineStep ==
    ASSUME ServeInv, [Next]_vars, ~late', NEW d \in Clients
    PROVE  ClientFine(d)'
<1> USE DEF ServeInv, StructInv
<1>0. /\ TypeOK /\ t \in Request /\ ClientFine(d) /\ blk[d] \in FBlocks
      /\ cerr \in [Clients -> BOOLEAN] /\ cdone \in [Clients -> BOOLEAN]
      /\ cphy \in [Clients -> Phys \cup {Hole}]
  BY Zenon, ConstantTypes
  DEF TypeOK, ThreadTypes, CioTypes, BioTypes, ClientOK, ClientFine
<1>1. ASSUME NEW c \in Clients, ClientAct(c) PROVE ClientFine(d)'
  <2>1. CASE c = d
    BY <1>1, <2>1, FineSelf
  <2>2. CASE c # d
    <3>1. Same(d) /\ UNCHANGED fmap
      BY <1>0, <1>1, <2>2, OtherClients, ClientNextAct, ClientFrame DEF fileVars
    <3> QED
      BY Zenon, <1>0, <3>1, FineGrows DEF Same
  <2> QED
    BY <2>1, <2>2
<1>2. ASSUME UNCHANGED <<fmap, pc, phys, bio, blk, cioVars>>, stale[d] => stale'[d]
      PROVE  ClientFine(d)'
  BY Zenon, <1>0, <1>2, FineGrows DEF cioVars
<1>3. CASE Pop \/ ClearDirty \/ SetDirty \/ Skip \/ AddNew \/ Recycle \/ HostCommit
           \/ Rebind \/ UNCHANGED vars
  BY Zenon, <1>2, <1>3 DEF Pop, ClearDirty, SetDirty, Skip, AddNew, Recycle, HostCommit,
     Rebind, vars, fileVars, clientVars, bioVars
<1>4. CASE Reuse
  BY Zenon, <1>2, <1>4 DEF Reuse, fileVars, bioVars
<1>5. CASE Crash
  BY Zenon, <1>5 DEF Crash, ClientFine
<1>6. CASE Fsync
  <2>1. /\ UNCHANGED <<fmap, pc, phys, stale, bio, blk, cflush, cphy, cdone>>
        /\ Owed /\ (d # t.cio => cerr'[d] = cerr[d])
    BY Zenon, <1>0, <1>6 DEF Fsync, Owed, clientVars, bioVars
  <2>2. d = t.cio => ~cdone[d]
    BY Zenon, <2>1 DEF RequestsMatch
  <2> QED
    BY Zenon, <1>0, <2>1, <2>2, FineGrows
<1>7. CASE GetBlock
  <2>1. /\ UNCHANGED <<pc, phys, stale, bio, blk, cflush, cphy, cdone>>
        /\ cerr'[d] = cerr[d] \/ cerr'[d]
    BY Zenon, <1>0, <1>7 DEF GetBlock, GetBlockFails, GetBlockSucceeds, clientVars, bioVars
  <2>2. \A b \in FBlocks : fmap[b] # Hole => fmap'[b] = fmap[b]
    BY <1>7, GetBlockMap
  <2> QED
    BY Zenon, <1>0, <2>1, <2>2, FineGrows
<1>8. CASE Complete
  <2>1. /\ UNCHANGED <<fmap, pc, phys, stale, bio, blk, cflush, cphy, cerr>>
        /\ tpc = "complete" /\ (d # t.cio => cdone'[d] = cdone[d])
    BY Zenon, <1>0, <1>8 DEF Complete, fileVars, clientVars, bioVars
  <2>2. CASE d # t.cio
    BY Zenon, <1>0, <2>1, <2>2, FineGrows
  <2>3. CASE d = t.cio /\ t.i = 0
    <3>1. cflush[d] \/ cerr[d]
      BY Zenon, <2>1, <2>3 DEF ServeOK, Owed
    <3> QED
      BY Zenon, <1>0, <2>1, <3>1 DEF ClientFine, Translated
  <2>4. CASE d = t.cio /\ t.i # 0
    <3>1. t.i > 0
      BY <1>0, <2>4 DEF Request
    <3>2. cdone'[d] = cdone[d]
      BY Zenon, <1>0, <1>8, <2>4, <3>1 DEF Complete, Expired
    <3> QED
      BY Zenon, <1>0, <2>1, <3>2, FineGrows
  <2> QED
    BY <2>2, <2>3, <2>4
<1>9. ASSUME NEW p, Reply(p), Owed, d = t.cio => Translated(d, p),
             d = t.cio => ~cflush[d], UNCHANGED <<fmap, pc, phys, stale, bio, blk, cflush>>
      PROVE  ClientFine(d)'
  <2>1. CASE d # t.cio
    BY Zenon, <1>0, <1>9, <2>1, FineGrows DEF Reply
  <2>2. CASE d = t.cio
    BY Zenon, <1>0, <1>9, <2>2 DEF Reply, ClientFine, Translated, RequestsMatch, Waiting
  <2> QED
    BY <2>1, <2>2
<1>10. CASE Hit
  <2>1. /\ tpc = "hit" /\ Reply(node[t.cur].b_blocknr)
        /\ UNCHANGED <<fmap, pc, phys, stale, bio, blk, cflush>>
    BY Zenon, <1>10 DEF Hit, fileVars, clientVars, bioVars
  <2>2. /\ Owed /\ ~cflush[t.cio] /\ t.blk_start = blk[t.cio]
        /\ t.cur \in 1 .. lru_count /\ node[t.cur].blk_local = t.blk_start
    BY Zenon, <2>1 DEF Owed, ServeOK, ThreadOK, Allocated
  <2>3. d = t.cio => Translated(d, node[t.cur].b_blocknr)
    BY Zenon, <2>2 DEF CacheSound, Translated
  <2> QED
    BY Zenon, <1>9, <2>1, <2>2, <2>3
<1>11. CASE Answer
  <2>1. /\ tpc = "answer" /\ Reply(t.b_blocknr)
        /\ UNCHANGED <<fmap, pc, phys, stale, bio, blk, cflush>>
    BY <1>11 DEF Answer, fileVars, clientVars, bioVars
  <2>2. /\ Owed /\ ~cflush[t.cio] /\ t.blk_start = blk[t.cio]
        /\ t.create = bio[t.cio].write
    BY Zenon, <2>1 DEF Owed, ServeOK, ThreadOK
  <2>3. t.b_blocknr # Hole => fmap[t.blk_start] = t.b_blocknr
    <3>2. t.got_num \in 1 .. prefetch_blocks - t.i
      BY Zenon, <2>1 DEF ThreadOK
    <3>3. 0 \in 0 .. t.got_num - 1
      BY <1>0, <3>2, SizesAssumption DEF Request
    <3>1. t.b_blocknr # Hole => fmap[t.blk_start + 0] = t.b_blocknr + 0
      BY Zenon, <2>1, <3>3 DEF ThreadOK
    <3> QED
      BY <1>0, <3>1 DEF Request, Phys, Hole
  <2>4. d = t.cio => Translated(d, t.b_blocknr)
    BY Zenon, <2>1, <2>2, <2>3 DEF Translated, ThreadOK
  <2> QED
    BY Zenon, <1>9, <2>1, <2>2, <2>4
<1> QED
  BY <1>1, <1>3, <1>4, <1>5, <1>6, <1>7, <1>8, <1>10, <1>11, NextSplit,
     ClientNextAct
  DEF ThreadStep

-----------------------------------------------------------------------------
LEMMA InitServe == Init => ServeInv
<1> SUFFICES ASSUME Init PROVE ServeInv
  OBVIOUS
<1>1. RequestsMatch
  BY DEF Init, RequestsMatch, Queued, Waiting, Owed
<1>2. ServeOK /\ ClientOK
  BY Zenon DEF Init, ServeOK, Owed, ClientOK, ClientFine
<1> QED
  BY <1>1, <1>2, InitStruct DEF ServeInv

(* The inductive invariant of the requests and the translations: they fit   *)
(* together until the thread writes to a request after its end.             *)
THEOREM ServeInvariant == Spec => [](StructInv /\ (~late => ServeInv))
<1>1. Init => ServeInv
  BY InitServe
<1>2. ASSUME StructInv, StructInv', ~late => ServeInv, [Next]_vars
      PROVE  ~late' => ServeInv'
  <2>1. ~late' => ~late
    BY <1>2, FlawStep DEF StructInv, TypeOK
  <2> QED
    BY <1>2, <2>1, AnsweredStep, ServeStep, FineStep DEF ServeInv, ClientOK
<1> QED
  BY <1>1, <1>2, StructInvariant, PTL DEF Spec

(* A request is never lost and never answered twice: the thread completes   *)
(* the cio_req on a client's stack once, while the client waits for it,     *)
(* unless it reports a failed prefetch in a request that is gone.           *)
THEOREM RequestsAnsweredOnce == Spec => []AnsweredOnce
<1>1. (~late => ServeInv) => AnsweredOnce
  BY DEF ServeInv, AnsweredOnce
<1> QED
  BY <1>1, ServeInvariant, PTL

(* A bio goes to the host block that backs its file block, except in the    *)
(* three cases that the property names.                                     *)
THEOREM TranslationIsExact == Spec => []ExactTranslation
<1>1. (~late => ServeInv) => ExactTranslation
  BY Zenon DEF ServeInv, ClientOK, ClientFine, Translated, ExactTranslation
<1> QED
  BY <1>1, ServeInvariant, PTL

(* No write ever leaves the backing file, even through a recycled node,     *)
(* unless a failed prefetch was reported in a request that was gone.        *)
THEOREM WritesConfined == Spec => []WritesStayInFile
<1>1. (~late => ServeInv) => WritesStayInFile
  BY Zenon DEF ServeInv, ClientOK, ClientFine, WritesStayInFile
<1> QED
  BY <1>1, ServeInvariant, PTL
=============================================================================
