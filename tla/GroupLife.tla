------------------------------ MODULE GroupLife ------------------------------
(***************************************************************************)
(* A payment group, the orders of one checkout, as the browser that made   *)
(* it may count on: the contract between the payment path (Payment, which  *)
(* implements it) and the pages of the store (StoreCheckout).              *)
(*                                                                         *)
(* A group is paid as a whole and for good, or one of its orders is        *)
(* canceled before, and then no late answer pays for the others.           *)
(***************************************************************************)
VARIABLE state

Turns(from, to) == state = from /\ state' = to

GroupInit == state = "none"

Created == Turns("none", "open")
Paid    == Turns("open", "paid")
Died    == Turns("open", "dead")

GroupNext == Created \/ Paid \/ Died

GroupSpec == GroupInit /\ [][GroupNext]_state
=============================================================================
