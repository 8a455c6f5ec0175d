----------------------------- MODULE MCNatRelay -----------------------------
(***************************************************************************)
(* A relay small enough that both directions are full at once.             *)
(***************************************************************************)
EXTENDS NatRelay, TLC
=============================================================================
