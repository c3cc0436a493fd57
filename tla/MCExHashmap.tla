------------------------------ MODULE MCExHashmap ------------------------------
(* Small instances of ExHashmap for TLC.                                      *)
EXTENDS ExHashmap, TLC

CONSTANTS t1, t2, t3, k1, k2

\* t1 changes the map, t2 changes and reads it, t3 scans and rehashes.
MCOps ==
  (t1 :> {"insert", "remove"}) @@ (t2 :> {"insert_or_assign", "mapped_for"})
    @@ (t3 :> {"copy", "load_factor", "rehash"})

\* As in the stress test: t1 inserts, t2 removes, t3 rehashes above a load of 1.
StressOps == (t1 :> {"insert"}) @@ (t2 :> {"mapped_for", "remove"}) @@ (t3 :> {"load_factor"})

\* The hashes agree modulo 2 and differ modulo 3.
MCHash == (k1 :> 0) @@ (k2 :> 2)
StressHash == (k1 :> 0) @@ (k2 :> 1)
=============================================================================
