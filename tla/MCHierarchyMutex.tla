--------------------------- MODULE MCHierarchyMutex ---------------------------
(* Three threads and five mutexes: two of the same level, and one of the      *)
(* maximal level, which nobody can lock.                                      *)
EXTENDS HierarchyMutex, FiniteSets, TLC

CONSTANTS a, b, c, d, top

MCLevel == a :> 0 @@ b :> 1 @@ c :> 1 @@ d :> 2 @@ top :> 3
Symmetry == Permutations(Threads)
=============================================================================
