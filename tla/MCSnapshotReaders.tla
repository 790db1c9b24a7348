------------------------- MODULE MCSnapshotReaders -------------------------
(***************************************************************************)
(* Small instances of SnapshotReaders for TLC.                             *)
(***************************************************************************)
EXTENDS SnapshotReaders, TLC

CONSTANTS p1, s1, s2, c1, c2, k1

Symmetry == Permutations({c1, c2}) \union Permutations({s1, s2})

\* Every step but the two that tear the files from their rows.
OutsideTransit == ({"locking"} \union HoldsLock) \ {"relink", "unrow"}

Nowhere == {}
=============================================================================
