-------------------------- MODULE MCLoopTranslate --------------------------
(* Small instances of LoopTranslate for TLC.                                *)
EXTENDS LoopTranslate, TLC

CONSTANTS c1, c2

Kind(w, e, f, u) == [write |-> w, empty |-> e, flush |-> f, fua |-> u]

Read       == Kind(FALSE, FALSE, FALSE, FALSE)
Write      == Kind(TRUE, FALSE, FALSE, FALSE)
WriteFlush == Kind(TRUE, FALSE, TRUE, FALSE)
WriteFua   == Kind(TRUE, FALSE, FALSE, TRUE)
Flush      == Kind(TRUE, TRUE, TRUE, FALSE)
Discard    == Kind(TRUE, TRUE, FALSE, FALSE)

ReadsAndWrites == {Read, Write}
FuaWrites      == {Write, WriteFua}
FuaAndFlush    == {Discard, Read, WriteFlush, WriteFua, Flush}

Symmetry == Permutations(Clients)

\* States behind the first corrupted cio_req are not explored further: the
\* invariants say nothing of them.
NotLate == ~late
=============================================================================
