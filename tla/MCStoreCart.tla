---------------------------- MODULE MCStoreCart ----------------------------
(* Two customers of one browser and two lines. *)
EXTENDS StoreCart, TLC

CONSTANTS u1, u2, i1, i2

UsersAndItems == Permutations({u1, u2}) \union Permutations({i1, i2})
=============================================================================
