------------------------------ MODULE MCClaims ------------------------------
(***************************************************************************)
(* Instances of Claims for TLC.                                            *)
(***************************************************************************)
EXTENDS Claims, TLC

CONSTANTS o1, o2, i1, i2, a, b, c

OneSale == [o \in {o1} |-> "sale"]
ItemsOfOne == [i \in {i1, i2} |-> o1]

AllClaimEdges == ClaimStatuses \X ClaimStatuses
NoRevival == AllClaimEdges \ {<<"rejected", "received">>}

RowsAndItems == Permutations({a, b, c}) \union Permutations({i1, i2})
=============================================================================
