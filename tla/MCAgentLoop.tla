---------------------------- MODULE MCAgentLoop -----------------------------
(* Two forced checks beside the automatic ones, three versions. *)
EXTENDS AgentLoop, TLC

CONSTANTS f1, f2
Symmetry == Permutations({f1, f2})
=============================================================================
