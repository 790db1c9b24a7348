------------------------ MODULE MCWorkflowSnapshots ------------------------
(***************************************************************************)
(* Small instances of WorkflowSnapshots for TLC.                           *)
(***************************************************************************)
EXTENDS SnapshotRefinement, TLC

CONSTANTS p1, p2, s1, s2, c1, c2

Symmetry == Permutations({c1, c2}) \union Permutations({s1, s2})

\* Every step at which a collection can be interrupted.
Anywhere == {"locking", "detached"} \union HoldsLock

\* Every step but the two that tear the files from their rows: between moving
\* the directory and marking its row, and between pruning and deleting the row.
OutsideTransit == Anywhere \ {"relink", "unrow"}

\* One of the two alone.
TornMove == {"relink"}
TornPrune == {"unrow"}

Nowhere == {}
=============================================================================
