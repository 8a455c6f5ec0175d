-------------------------- MODULE MCCountryReport ---------------------------
(* A dashboard that is restarted twice, two addresses in each family. *)
EXTENDS SessionReport, TLC

CONSTANTS a, b
=============================================================================
