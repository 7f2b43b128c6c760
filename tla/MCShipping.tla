------------------------------ MODULE MCShipping ------------------------------
(***************************************************************************)
(* Instances of Shipping for TLC.                                          *)
(***************************************************************************)
EXTENDS Shipping, TLC

CONSTANTS e1, e2
=============================================================================
