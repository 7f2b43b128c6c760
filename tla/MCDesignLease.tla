---------------------------- MODULE MCDesignLease ----------------------------
(***************************************************************************)
(* Three requests for one session.                                         *)
(***************************************************************************)
EXTENDS DesignLease, TLC
=============================================================================
