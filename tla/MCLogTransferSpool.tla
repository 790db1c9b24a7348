------------------------ MODULE MCLogTransferSpool ------------------------
(***************************************************************************)
(* Small instances of LogTransferSpool for TLC.                            *)
(***************************************************************************)
EXTENDS LogTransferSpool, TLC

CONSTANTS h1, h2, h3, k1, k2

SpoolSymmetry == Permutations(Handler) \union Permutations(Client)
=============================================================================
