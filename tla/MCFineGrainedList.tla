-------------------------- MODULE MCFineGrainedList --------------------------
(* Small instances of FineGrainedList for TLC.                                *)
EXTENDS FineGrainedList, TLC

Symmetry == Permutations(Nodes) \cup Permutations(Values)
=============================================================================
