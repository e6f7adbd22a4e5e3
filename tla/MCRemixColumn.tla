--------------------------- MODULE MCRemixColumn ---------------------------
(* Small instances of RemixColumn for TLC. *)
EXTENDS RemixColumn, TLC

CONSTANTS j1, j2, j3, e1, e2

Symmetry == Permutations(Jobs) \cup Permutations(Edits)
=============================================================================
