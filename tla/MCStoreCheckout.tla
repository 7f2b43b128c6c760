--------------------------- MODULE MCStoreCheckout ---------------------------
(***************************************************************************)
(* Two accounts, carts of two lines, two groups, two calls at once.        *)
(***************************************************************************)
EXTENDS StoreCheckout, TLC
=============================================================================
