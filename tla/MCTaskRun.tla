----------------------------- MODULE MCTaskRun ------------------------------
(* A pipe of one unit, three echo requests in five seconds, a channel of     *)
(* two, and a directory of four names of which two fit into a listing.       *)
EXTENDS TaskRun, TLC

MCLimit == ("http" :> 2) @@ ("tcp" :> 1)
MCItems == {"a", "b", "c", ".d"}
MCHidden == {".d"}
=============================================================================
