------------------------------ MODULE MCTsQueue ------------------------------
(* Small instances of TsQueue for TLC, and the faults its properties catch.  *)
EXTENDS TsQueue, TLC

\* Addresses and values are interchangeable (threads are not: their roles overlap).
Symmetry == Permutations(Nodes) \cup Permutations(Values)
=============================================================================
