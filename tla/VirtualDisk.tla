---------------------------- MODULE VirtualDisk ----------------------------
(***************************************************************************)
(* What the MultiLanes driver promises to its guests: a disk whose blocks  *)
(* live wherever the host file system has put them.  There is no cache, no *)
(* queue and no thread here.  A bio is taken, goes to the host block that  *)
(* backs its block, and is over when the host device is done with it; a    *)
(* flush succeeds only when the writes completed before it can be found    *)
(* again after a crash.  Two flaws of the driver are part of the promise:  *)
(* detaching and attaching the disk makes flushes forget what is not yet   *)
(* on disk, and a request may be corrupted, which ends all promises.       *)
(* LoopTranslate implements this specification.                            *)
(***************************************************************************)
CONSTANTS
    Clients,          \* tasks that submit bios, one at a time
    Blocks,           \* blocks of the disk
    FileMaps,         \* functions from file blocks to host blocks or Hole
    Kinds, NoKind,    \* kinds of bio; the kind of no bio
    Hole

VARIABLES
    map, disk,        \* where the blocks are: now, and after a crash
    stage,            \* "idle", "taken", "located", "issued" or "done"
    at,               \* the host block of a located bio
    bio, blk, before, \* the bio, its block, the writes it has to secure
    raced,            \* the bio's lookup has met a recycled cache node
    acked, synced,    \* completed writes; those that a flush has secured
    forgotten,        \* blocks that flushes do not know about
    broken            \* the driver has corrupted a request

bioVars == <<bio, blk, before>>
flaws   == <<forgotten, broken>>
vars == <<map, disk, stage, at, bioVars, raced, acked, synced, flaws>>

Nobody(v) == [c \in Clients |-> v]

Init ==
    /\ map \in FileMaps
    /\ disk = map
    /\ stage = Nobody("idle")
    /\ at = Nobody(Hole)
    /\ bio = Nobody(NoKind) /\ blk = Nobody(0) /\ before = Nobody({})
    /\ raced = Nobody(FALSE)
    /\ acked = {} /\ synced = {}
    /\ forgotten = {} /\ broken = FALSE

-----------------------------------------------------------------------------
Move(c, s) == stage' = [stage EXCEPT ![c] = s]

Forget(c) ==
    /\ bio' = [bio EXCEPT ![c] = NoKind]
    /\ blk' = [blk EXCEPT ![c] = 0]
    /\ before' = [before EXCEPT ![c] = {}]

\* A flush secures the writes that have completed when it is submitted.
Take(c) ==
    /\ stage[c] = "idle"
    /\ Move(c, "taken")
    /\ \E b \in Blocks, k \in Kinds :
          /\ bio' = [bio EXCEPT ![c] = k]
          /\ blk' = [blk EXCEPT ![c] = b]
          /\ before' = [before EXCEPT ![c] = IF k.flush THEN acked ELSE {}]
    /\ UNCHANGED <<map, disk, at, raced, acked, synced, flaws>>

\* The cache node that the lookups of some bios have found is recycled.
Race(S) ==
    /\ raced' = [c \in Clients |-> raced[c] \/ c \in S]
    /\ \A c \in S : stage[c] = "taken"
    /\ UNCHANGED <<map, disk, stage, at, bioVars, acked, synced, flaws>>

\* The host block of the bio is known.  Only a read may find a hole, and only
\* a bio that has raced may find another block, which belongs to the file.
Locate(c) ==
    /\ stage[c] = "taken" /\ ~bio[c].empty
    /\ Move(c, "located")
    /\ \E p \in {Hole} \cup {map[b] : b \in DOMAIN map} :
          /\ \/ p = map[blk[c]] /\ p # Hole
             \/ p = Hole /\ ~bio[c].write
             \/ raced[c] /\ p # Hole
          /\ at' = [at EXCEPT ![c] = p]
    /\ UNCHANGED <<map, disk, bioVars, raced, acked, synced, flaws>>

\* The bio goes to the host device; an empty one has no block to look for.
Issue(c) ==
    /\ stage[c] = "located" \/ (stage[c] = "taken" /\ bio[c].empty)
    /\ Move(c, "issued")
    /\ at' = [at EXCEPT ![c] = Hole]
    /\ raced' = [raced EXCEPT ![c] = FALSE]
    /\ UNCHANGED <<map, disk, bioVars, acked, synced, flaws>>

\* The bio is ended with an error and never gets to the host device.
Reject(c) ==
    /\ stage[c] = "taken"
    /\ Move(c, "idle") /\ Forget(c)
    /\ UNCHANGED <<map, disk, at, raced, acked, synced, flaws>>

\* The writes in S can be found again after a crash.
Secured(S) == \A b \in S : map[b] # Hole /\ disk[b] = map[b]

\* The host device is done with the bio.
Finish(c) ==
    /\ stage[c] = "issued"
    /\ \/ Move(c, "idle") /\ Forget(c)
       \/ bio[c].fua /\ Move(c, "done") /\ UNCHANGED bioVars
    /\ \E ok \in BOOLEAN :
          /\ ok /\ bio[c].flush => Secured(before[c] \ forgotten)
          /\ acked' = IF ok /\ bio[c].write /\ ~bio[c].empty
                      THEN acked \cup {blk[c]} ELSE acked
          /\ synced' = IF ok /\ bio[c].flush THEN synced \cup before[c]
                                             ELSE synced
    /\ UNCHANGED <<map, disk, at, raced, flaws>>

\* A FUA write is over for the task, too.
Close(c) ==
    /\ stage[c] = "done"
    /\ Move(c, "idle") /\ Forget(c)
    /\ UNCHANGED <<map, disk, at, raced, acked, synced, flaws>>

\* The host gives blocks to holes of the file, and moves none.
Grow ==
    /\ map' # map
    /\ UNCHANGED <<disk, stage, at, bioVars, raced, acked, synced, flaws>>
    /\ map' \in FileMaps
    /\ \A b \in DOMAIN map : map[b] # Hole => map'[b] = map[b]

Commit ==
    /\ disk' = map
    /\ forgotten' = {b \in forgotten : map[b] = Hole}
    /\ UNCHANGED <<map, stage, at, bioVars, raced, acked, synced, broken>>

Crash ==
    /\ map' = disk
    /\ acked' = synced
    /\ stage' = Nobody("idle")
    /\ at' = Nobody(Hole)
    /\ bio' = Nobody(NoKind) /\ blk' = Nobody(0) /\ before' = Nobody({})
    /\ raced' = Nobody(FALSE)
    /\ UNCHANGED <<disk, synced, flaws>>

\* The idle disk is detached and attached again: flushes no longer know of
\* the blocks whose place a crash would lose.
Reattach ==
    /\ stage = Nobody("idle")
    /\ forgotten' = forgotten \cup {b \in DOMAIN map : disk[b] # map[b]}
    /\ UNCHANGED <<map, disk, stage, at, bioVars, raced, acked, synced, broken>>

\* A request has been corrupted, and from here on nothing is promised.
Break == broken'

-----------------------------------------------------------------------------
BioStep(c) ==
    /\ stage'[c] # stage[c]
    /\ Take(c) \/ Locate(c) \/ Issue(c) \/ Reject(c) \/ Finish(c) \/ Close(c)

Next ==
    \/ \E c \in Clients : BioStep(c)
    \/ raced' # raced /\ \E S \in SUBSET Clients : Race(S)
    \/ Grow \/ Commit \/ Crash \/ Reattach
    \/ Break

Spec == Init /\ [][Next]_vars
=============================================================================
