---------------------------- MODULE MCClaimOutbox ----------------------------
(***************************************************************************)
(* Instances of ClaimOutbox for TLC.                                       *)
(***************************************************************************)
EXTENDS ClaimOutbox, TLC

CONSTANTS w1, w2, w3

WorkerSymmetry == Permutations({w1, w2, w3})
=============================================================================
