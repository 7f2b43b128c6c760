--------------------------- MODULE MCStoreSession ---------------------------
(* Two tabs of one browser and two accounts. *)
EXTENDS StoreSession
=============================================================================
