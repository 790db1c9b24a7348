------------------------ MODULE MCSessionSnapshots ------------------------
(***************************************************************************)
(* Small instances of SessionSnapshots for TLC.                            *)
(***************************************************************************)
EXTENDS SessionSnapshots, TLC

CONSTANTS a1, a2, p1, p2, s1, s2, c1, c2

SessionSymmetry ==
  Permutations(Session) \union Permutations(Project) \union Permutations(Source)
    \union Permutations(Proc)
=============================================================================
