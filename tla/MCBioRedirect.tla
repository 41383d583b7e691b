--------------------------- MODULE MCBioRedirect ---------------------------
(* Bounded instance of BioRedirect for TLC.                                 *)
EXTENDS BioRedirect, SequencesExt

CONSTANTS MaxSectors,  \* sectors in a guest's bio
          MaxPages,    \* pages in it
          NPhys        \* host blocks 1 .. NPhys

\* Bios that start at either sector of the first block.
MCRequests ==
    {[start |-> s, pages |-> Len(l), len |-> l,
      base |-> [p \in 1 .. Len(l) + 1 |-> FoldLeft(+, 0, SubSeq(l, 1, p - 1))]] :
        s \in 0 .. SectorsPerBlock - 1,
        l \in {q \in SeqOf(1 .. MaxSectors, MaxPages) :
                  FoldLeft(+, 0, q) <= MaxSectors}}

Blocks == 0 .. (MaxSectors + SectorsPerBlock - 2) \div SectorsPerBlock

\* Host blocks belong to one block each; any number of blocks may be holes.
MCMaps == {m \in [Blocks -> 0 .. NPhys] :
              \A b, c \in Blocks : b # c /\ m[b] = m[c] => m[b] = 0}
=============================================================================
