---------------------------- MODULE MCLoopDevice ----------------------------
(* Bounded instance of LoopDevice for TLC.                                  *)
EXTENDS LoopDevice, TLC

CONSTANTS t1, t2, w1, f1, f2

MCTasks    == {t1, t2}
MCFlushers == {w1}
MCFiles    == {f1, f2}

FileSymmetry == Permutations(MCFiles)
=============================================================================
