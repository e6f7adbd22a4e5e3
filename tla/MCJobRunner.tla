---------------------------- MODULE MCJobRunner ----------------------------
(* Small instances of JobRunner for TLC. *)
EXTENDS JobRunner, TLC

CONSTANTS j1, j2, rmbg

MCJobs == {j1, j2}
MCTypes == {rmbg}
MCTypeOf == [j \in Jobs |-> rmbg]
MCSemCap == [t \in MCTypes |-> 1]
Symmetry == Permutations(MCJobs)
=============================================================================
