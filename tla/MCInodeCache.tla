---------------------------- MODULE MCInodeCache ----------------------------
(***************************************************************************)
(* Three tasks, a loop device and another one, a file beside the root.     *)
(***************************************************************************)
EXTENDS InodeCache, TLC

CONSTANTS t1, t2, t3, lo, sd, root, f, i1, i2, i3

ThreeTasks == {t1, t2, t3}
TwoSbs     == {lo, sd}
OneLoop    == {lo}
TwoInos    == {root, f}
ThreeObjs  == {i1, i2, i3}
Alike      == Permutations(ThreeTasks) \cup Permutations(ThreeObjs)
=============================================================================
