---------------------------- MODULE BioRedirect ----------------------------
(* How redirect_bio of the loop driver cuts one guest bio into bios for the *)
(* host device, and how lo_end_bio gathers their completions again.         *)
(* The task translates block after block, adds the pages of the guest's bio *)
(* to host bios, chains these under a lo_bio_head and submits the chain,    *)
(* while completions of bios submitted earlier run on other processors (or, *)
(* for a ramdisk, inside submit_bio).  Two bios share none of this state.   *)
(* The cache, the service thread and flushes are LoopTranslate's.           *)
EXTENDS Naturals, Sequences, FiniteSets

CONSTANTS
    SectorsPerBlock,  \* sectors_per_block of the host file system
    Maps,             \* block maps of the backing file: block -> host block
    Requests          \* the guests' bios, see Request

ASSUME SectorsAssumption == SectorsPerBlock \in Nat \ {0}

\* The shapes of a bio: pages of len[p] sectors, page p at sector base[p] of
\* the transfer, which starts at sector start of the loop device.  (That base
\* increases follows; it is stated because the proofs use it.)
ASSUME RequestsAssumption ==
    \A r \in Requests :
       /\ r.start \in Nat /\ r.pages \in Nat
       /\ r.len \in [1 .. r.pages -> Nat \ {0}]
       /\ r.base \in [1 .. r.pages + 1 -> Nat]
       /\ r.base[1] = 0
       /\ \A p \in 1 .. r.pages : r.base[p + 1] = r.base[p] + r.len[p]
       /\ \A p, q \in 1 .. r.pages + 1 : p < q => r.base[p] < r.base[q]

\* Every block the guests can reach has a host block, 0 for a hole.
ASSUME MapsAssumption ==
    \A m \in Maps, r \in Requests : \A s \in 0 .. r.base[r.pages + 1] - 1 :
       LET b == (r.start + s) \div SectorsPerBlock
       IN  b \in DOMAIN m /\ m[b] \in Nat

NULL == [sector |-> 0, size |-> 0, mid |-> FALSE, st |-> "none"]

VARIABLES
    req, bmap,            \* old_bio, and what translation answers
    pc,
    total, logical,       \* nr_total_sectors, sec_nr_logical
    phys, next,           \* sec_nr_phys, next_sector
    remaining, count,     \* remaining_sectors, count
    page, off, len,       \* the page in hand, its offset and rest
    new_bio, list,        \* the host bio being filled; the lo_bios of head
    cur,                  \* lo_bio of the submit loop
    nr_done, error, lock, \* of the lo_bio_head; who holds head_lock
    freed,                \* which of "list", "head" have been freed
    ended, result,        \* bio_endio of old_bio: how often, with an error?
    wire,                 \* history: which data went to which host sector
    failed                \* history: did something go wrong?

blockVars  == <<total, logical, phys, next, remaining, count>>
pageVars   == <<page, off, len>>
headVars   == <<nr_done, error, lock, freed>>
endVars    == <<ended, result>>
vars == <<req, bmap, pc, blockVars, pageVars, new_bio, list, cur, headVars,
          endVars, wire, failed>>

Init ==
    /\ req \in Requests /\ bmap \in Maps
    /\ pc = "block"
    /\ total = req.base[req.pages + 1] /\ logical = req.start
    /\ phys = 0 /\ next = 0 /\ remaining = 0 /\ count = 0
    /\ page = 0 /\ off = 0 /\ len = 0
    /\ new_bio = NULL /\ list = <<>> /\ cur = 0
    /\ nr_done = 0 /\ error = FALSE /\ lock = 0 /\ freed = {}
    /\ ended = 0 /\ result = FALSE
    /\ wire = {} /\ failed = FALSE

-----------------------------------------------------------------------------
(* redirect_bio, from the first block to the last submit_bio.               *)

\* bio_endio(old_bio, err).
EndOrig(err) == ended' = ended + 1 /\ result' = err

\* Translation or bio_alloc has failed: nothing has been submitted, and the
\* head and the bios on its list, now l, are left behind.
GiveUp(l) ==
    /\ pc' = "over" /\ EndOrig(TRUE) /\ failed' = TRUE
    /\ list' = l
    /\ UNCHANGED <<req, bmap, blockVars, pageVars, new_bio, cur, headVars,
                   wire>>

\* The host sector of sector s of the loop device.
HostSector(s) ==
    bmap[s \div SectorsPerBlock] * SectorsPerBlock + (s % SectorsPerBlock)

\* lo_new_bio: mid marks one that starts in the middle of a block's data.
NewBio(s, mid) == [sector |-> s, size |-> 0, mid |-> mid, st |-> "new"]

Smaller(m, n) == IF m < n THEN m ELSE n

\* Mutant: a block is joined to the one before it whatever their addresses.
NextBlock_NoContiguityTest ==
    /\ pc = "block" /\ total > 0
    /\ phys' = HostSector(logical)
    /\ LET n == Smaller(total, SectorsPerBlock - (logical % SectorsPerBlock))
       IN  /\ remaining' = n
           /\ total' = total - n
           /\ logical' = logical + n
           /\ next' = phys' + n
    /\ count' = count + 1
    /\ \/ new_bio = NULL /\ new_bio' = NewBio(phys', FALSE)
       \/ new_bio # NULL /\ new_bio' = new_bio
    /\ pc' = "page"
    /\ UNCHANGED <<req, bmap, pageVars, list, cur, headVars, endVars, wire,
                   failed>>

\* The next block is translated; it goes into the bio of the block before it
\* when the two are neighbours on the host device, otherwise lo_send_bio
\* chains that bio and a new one is begun.
NextBlock ==
    /\ pc = "block" /\ total > 0
    /\ phys' = HostSector(logical)
    /\ LET n == Smaller(total, SectorsPerBlock - (logical % SectorsPerBlock))
       IN  /\ remaining' = n
           /\ total' = total - n
           /\ logical' = logical + n
           /\ next' = phys' + n
    /\ count' = count + 1
    /\ \/ count = 0 /\ new_bio' = NewBio(phys', FALSE) /\ UNCHANGED list
       \/ count > 0 /\ phys' = next /\ UNCHANGED <<new_bio, list>>
       \/ /\ count > 0 /\ phys' # next
          /\ list' = Append(list, new_bio)
          /\ new_bio' = NewBio(phys', FALSE)
    /\ pc' = "page"
    /\ UNCHANGED <<req, bmap, pageVars, cur, headVars, endVars, wire, failed>>

\* The block cannot be translated, or there is no memory for a bio.
NextBlockFails ==
    /\ pc = "block" /\ total > 0
    /\ \/ GiveUp(list)
       \/ /\ count > 0 /\ HostSector(logical) # next
          /\ GiveUp(Append(list, new_bio))

\* The next page of old_bio is taken when the last one is used up.
InHand == IF len = 0 THEN [page |-> page + 1, off |-> 0, len |-> req.len[page + 1]]
                     ELSE [page |-> page, off |-> off, len |-> len]

\* n sectors of the page in hand are in bio b, number k of the chain.
Added(b, k, n) ==
    /\ new_bio' = [b EXCEPT !.size = @ + n]
    /\ wire' = wire \cup {[bio |-> k, at |-> b.sector + b.size + s,
                           page |-> InHand.page, off |-> InHand.off + s] :
                             s \in 0 .. n - 1}
    /\ page' = InHand.page
    /\ off' = InHand.off + n
    /\ len' = InHand.len - n
    /\ remaining' = remaining - n

\* Mutant: the offset in the page is not moved on.
AddPage_SameOffset ==
    /\ pc = "page" /\ remaining > 0
    /\ LET n == Smaller(remaining, InHand.len)
       IN  /\ new_bio' = [new_bio EXCEPT !.size = @ + n]
           /\ wire' = wire \cup {[bio |-> Len(list) + 1,
                                  at |-> new_bio.sector + new_bio.size + s,
                                  page |-> InHand.page, off |-> s] :
                                    s \in 0 .. n - 1}
           /\ page' = InHand.page
           /\ off' = 0
           /\ len' = InHand.len - n
           /\ remaining' = remaining - n
    /\ UNCHANGED <<req, bmap, pc, total, logical, phys, next, count, list, cur,
                   headVars, endVars, failed>>

\* bio_add_page takes what the page in hand holds of the block.
AddPage ==
    /\ pc = "page" /\ remaining > 0
    /\ Added(new_bio, Len(list) + 1, Smaller(remaining, InHand.len))
    /\ UNCHANGED <<req, bmap, pc, total, logical, phys, next, count, list, cur,
                   headVars, endVars, failed>>

\* bio_add_page refuses, which it may for any bio but an empty one: the bio
\* is chained, and the page goes into a new one, begun at sec_nr_phys, the
\* host sector of the first byte of this block's data.
AddPageRefused ==
    /\ pc = "page" /\ remaining > 0 /\ new_bio.size > 0
    /\ list' = Append(list, new_bio)
    /\ Added(NewBio(phys, phys + remaining # next), Len(list) + 2,
             Smaller(remaining, InHand.len))
    /\ UNCHANGED <<req, bmap, pc, total, logical, phys, next, count, cur,
                   headVars, endVars, failed>>

\* It refuses, and there is no memory for another bio.
AddPageFails ==
    /\ pc = "page" /\ remaining > 0 /\ new_bio.size > 0
    /\ GiveUp(Append(list, new_bio))

BlockDone ==
    /\ pc = "page" /\ remaining = 0
    /\ pc' = "block"
    /\ UNCHANGED <<req, bmap, blockVars, pageVars, new_bio, list, cur,
                   headVars, endVars, wire, failed>>

\* All blocks are placed: the last bio is chained, or there was none at all.
LastBlock ==
    /\ pc = "block" /\ total = 0
    /\ \/ /\ count > 0
          /\ list' = Append(list, new_bio)
          /\ new_bio' = NULL
          /\ cur' = 1
          /\ pc' = "submit"
          /\ UNCHANGED endVars
       \/ /\ count = 0
          /\ EndOrig(FALSE)
          /\ pc' = "over"
          /\ UNCHANGED <<new_bio, list, cur>>
    /\ UNCHANGED <<req, bmap, blockVars, pageVars, headVars, wire, failed>>

\* Mutant: the loop looks for the head of the list, also behind the last bio.
SubmitBio_UntilHead ==
    /\ pc = "submit"
    /\ list' = [list EXCEPT ![cur].st = "sent"]
    /\ pc' = "next"
    /\ UNCHANGED <<req, bmap, blockVars, pageVars, new_bio, cur, headVars,
                   endVars, wire, failed>>

\* Mutant: the loop ends at the last bio, which is never submitted.
SubmitBio_NotLast ==
    /\ pc = "submit"
    /\ list' = IF cur = Len(list) THEN list ELSE [list EXCEPT ![cur].st = "sent"]
    /\ pc' = IF cur = Len(list) THEN "over" ELSE "next"
    /\ UNCHANGED <<req, bmap, blockVars, pageVars, new_bio, cur, headVars,
                   endVars, wire, failed>>

\* submit_bio of the lo_bio in hand.
SubmitBio ==
    /\ pc = "submit"
    /\ list' = [list EXCEPT ![cur].st = "sent"]
    /\ pc' = IF cur = Len(list) THEN "over" ELSE "next"
    /\ UNCHANGED <<req, bmap, blockVars, pageVars, new_bio, cur, headVars,
                   endVars, wire, failed>>

\* lo_bio->slice.next is read when submit_bio has returned.
NextBio ==
    /\ pc = "next"
    /\ cur' = cur + 1
    /\ pc' = "submit"
    /\ UNCHANGED <<req, bmap, blockVars, pageVars, new_bio, list, headVars,
                   endVars, wire, failed>>

-----------------------------------------------------------------------------
(* lo_end_bio for the bio number j of the chain.                            *)

\* Mutant: head_lock is held for the counting alone.
EndCount_Unlocks(j, err) ==
    /\ list[j].st = "sent" /\ lock = 0
    /\ nr_done' = nr_done + 1
    /\ error' = (error \/ err)
    /\ failed' = (failed \/ err)
    /\ list' = [list EXCEPT ![j].st = "counted"]
    /\ UNCHANGED <<req, bmap, pc, blockVars, pageVars, new_bio, cur, lock,
                   freed, endVars, wire>>

\* Under head_lock the bio is counted and its error kept if it is the first.
EndCount(j, err) ==
    /\ list[j].st = "sent" /\ lock = 0
    /\ lock' = j
    /\ nr_done' = nr_done + 1
    /\ error' = (error \/ err)
    /\ failed' = (failed \/ err)
    /\ list' = [list EXCEPT ![j].st = "counted"]
    /\ UNCHANGED <<req, bmap, pc, blockVars, pageVars, new_bio, cur, freed,
                   endVars, wire>>

\* Still under it: the last of nr_total bios frees the chain and ends old_bio.
EndTest(j) ==
    /\ list[j].st = "counted"
    /\ lock' = 0
    /\ \/ /\ nr_done = Len(list)
          /\ freed' = freed \cup {"list"}
          /\ EndOrig(error)
          /\ list' = [list EXCEPT ![j].st = "last"]
       \/ /\ nr_done # Len(list)
          /\ list' = [list EXCEPT ![j].st = "done"]
          /\ UNCHANGED <<freed, endVars>>
    /\ UNCHANGED <<req, bmap, pc, blockVars, pageVars, new_bio, cur, nr_done,
                   error, wire, failed>>

\* kfree(head), after the unlock.
FreeHead(j) ==
    /\ list[j].st = "last"
    /\ freed' = freed \cup {"head"}
    /\ list' = [list EXCEPT ![j].st = "done"]
    /\ UNCHANGED <<req, bmap, pc, blockVars, pageVars, new_bio, cur, nr_done,
                   error, lock, endVars, wire, failed>>

-----------------------------------------------------------------------------
Task == NextBlock \/ NextBlockFails \/ AddPage \/ AddPageRefused \/ AddPageFails
        \/ BlockDone \/ LastBlock \/ SubmitBio \/ NextBio

EndBio(j) == (\E err \in BOOLEAN : EndCount(j, err)) \/ EndTest(j) \/ FreeHead(j)

\* Nothing more happens to this bio.
Quiet == pc = "over" /\ \A j \in 1 .. Len(list) : list[j].st \in {"new", "done"}

Next ==
    \/ Task
    \/ \E j \in 1 .. Len(list) : EndBio(j)
    \/ Quiet /\ UNCHANGED vars

Spec == Init /\ [][Next]_vars

\* The task is scheduled, and the host device completes every bio it is given.
FairSpec == Spec /\ WF_vars(Task) /\ WF_vars(\E j \in 1 .. Len(list) : EndBio(j))

-----------------------------------------------------------------------------
(* Properties.                                                              *)

\* The shapes of the state.
TypeOK ==
    /\ pc \in {"block", "page", "submit", "next", "over"}
    /\ total \in Nat /\ logical \in Nat /\ phys \in Nat /\ next \in Nat
    /\ remaining \in Nat /\ count \in Nat
    /\ page \in 0 .. req.pages /\ off \in Nat /\ len \in Nat
    /\ cur \in Nat /\ nr_done \in Nat /\ ended \in Nat
    /\ error \in BOOLEAN /\ result \in BOOLEAN /\ failed \in BOOLEAN
    /\ lock \in Nat
    /\ freed \subseteq {"list", "head"}

\* The chain with the bio that is still being filled.
Chain == IF new_bio = NULL THEN list ELSE Append(list, new_bio)

\* Every sector of a page goes to the host sector that holds its sector of
\* the loop device, in whatever way pages, blocks and host bios overlap.  The
\* exception is a bio that redirect_bio begins at sec_nr_phys because
\* bio_add_page refused a page with part of the block already added.
DataInPlace ==
    \A w \in wire : Chain[w.bio].mid
                    \/ w.at = HostSector(req.start + req.base[w.page] + w.off)

\* What is submitted is the whole transfer: every sector of every page of the
\* guest's bio is in exactly one host bio, once.
NothingLost ==
    pc \in {"submit", "next"} =>
       \A p \in 1 .. req.pages : \A s \in 0 .. req.len[p] - 1 :
          Cardinality({w \in wire : w.page = p /\ w.off = s}) = 1

\* The submit loop reads lo_bio and old_bio, and lo_end_bio reads the head, only
\* while they exist: completions cannot free them as long as the last bio of
\* the chain has not been submitted.
NoUseAfterFree ==
    /\ pc \in {"submit", "next"} => freed = {} /\ ended = 0
    /\ (\E j \in 1 .. Len(list) : list[j].st \in {"sent", "counted"}) => freed = {}

\* The guest's bio is ended once, and when all is over it has been, with an
\* error exactly if one of its parts failed; the head and its list are freed
\* exactly if they were submitted (each early exit leaves them behind).
OrigEndedOnce ==
    /\ ended <= 1
    /\ Quiet => /\ ended = 1 /\ result = failed
                /\ freed = IF cur > 0 THEN {"list", "head"} ELSE {}

\* The guest's bio comes back, if the device completes what it is given.
OrigCompletes == <>(ended = 1)
=============================================================================
