----------------------------- MODULE MCSfsDirs -----------------------------
(* Two directories of the root, and one below the second.                  *)
EXTENDS SfsDirs, TLC

MCSlots  == {"a", "b", "s"}
MCParent == [d \in MCSlots |-> IF d = "s" THEN "b" ELSE "/"]
Alike    == Permutations(Tasks)
MCMoves  == {<<"a", "b">>, <<"a", "s">>, <<"s", "a">>}
============================================================================
