----------------------------- MODULE MCTerminal -----------------------------
(***************************************************************************)
(* A terminal small enough that every queue is full at once.               *)
(***************************************************************************)
EXTENDS Terminal, TLC
=============================================================================
