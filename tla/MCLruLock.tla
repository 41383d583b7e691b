----------------------------- MODULE MCLruLock -----------------------------
(***************************************************************************)
(* Three tasks work on one page of a zone, which belongs to the root group *)
(* or to another.                                                          *)
(***************************************************************************)
EXTENDS LruLock, TLC

CONSTANTS t1, t2, t3, p1, g1

ThreeTasks == {t1, t2, t3}
OnePage    == {p1}
TwoGroups  == {Root, g1}
AllJobs    == {"add", "truncate", "activate", "isolate", "mlock", "move", "compact",
               "charge", "inactive", "active"}
Alike      == Permutations(ThreeTasks)
=============================================================================
