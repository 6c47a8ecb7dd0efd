--------------------------- MODULE MCDialupLine ---------------------------
(* DialupLine for TLC: callers are interchangeable in the safety runs.      *)
EXTENDS DialupLine, TLC

Symmetry == Permutations(Callers)
=============================================================================
