------------------------- MODULE MCBackgroundTasks -------------------------
(***************************************************************************)
(* Small instances of BackgroundTasks for TLC.                             *)
(***************************************************************************)
EXTENDS BackgroundTasks, TLC

CONSTANTS b1, b2, a1, a2, p1, p2

TasksSymmetry == Permutations(Call) \union Permutations(Project) \union Permutations(Session)
=============================================================================
