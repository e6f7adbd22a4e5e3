----------------------------- MODULE MCStageJob -----------------------------
(* Two batches over the same two positions: b1 has a sheet for each, b2 one sheet with both. *)
EXTENDS StageJob

CONSTANTS b1, b2, s1, s2, k1, k2

MCCropsOf ==
  [b \in Batches |-> [s \in Sheets |->
     CASE b = b1 /\ s = s1 -> {k1}
       [] b = b1 /\ s = s2 -> {k2}
       [] b = b2 /\ s = s1 -> {k1, k2}
       [] OTHER -> {}]]
=============================================================================
