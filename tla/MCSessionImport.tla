--------------------------- MODULE MCSessionImport ---------------------------
(* SessionImport for TLC: two threads, which are interchangeable.          *)
EXTENDS SessionImport, TLC

CONSTANTS c1, c2

MCCalls  == {c1, c2}
Symmetry == Permutations(MCCalls)
=============================================================================
