---------------------------- MODULE MCSfsReaddir ----------------------------
(* An instance of SfsReaddir: two files below, with three slots and one.      *)
EXTENDS SfsReaddir, TLC

CONSTANTS d1, f1, f2

OneDir   == {d1}
TwoFiles == {f1, f2}
Symmetry == Permutations(TwoFiles)

\* The names just fit in the directories below: with the names before a seek
\* counted twice, the positions in each of them get past the end.
Lengths == [n \in Names |-> 2]
Slots   == <<3, 1>>
Sizes   == <<6, 2>>

\* Room for one entry and for all of them.
Buffers == {2, 9}
=============================================================================
