--------------------------- MODULE MCSfsNamespace ---------------------------
(* Instances of SfsNamespace: two directories, one of which has two files.  *)
EXTENDS SfsNamespace

CONSTANTS dirA, dirB, fx, fy, fz, d1, d2, d3

TwoDirs == {dirA, dirB}
ThreePaths == {fx, fy, fz}
ParentOf == [p \in Paths |-> IF p = fx THEN dirA ELSE dirB]

TwoData == {d1, d2}
ThreeData == {d1, d2, d3}
Alike == Permutations(Data)

Everywhere == [d \in Dirs |-> Replicas]
Apart == [d \in Dirs |-> IF d = dirA THEN {0} ELSE {1}]

AllOps == {"create", "unlink", "link", "rename", "replace"}
Synced == {"create", "rename", "replace"}
Plain == {"create", "rename"}

\* States behind a skipped sync are not explored further: the invariants say
\* nothing of them.
NotSkipped == ~skipped
=============================================================================
