------------------------------ MODULE FileStore ------------------------------
(***************************************************************************)
(* What writes, uploads and deletes promise when only the agent changes    *)
(* the files: each takes effect at most once and at one instant, one with  *)
(* an if_match hash only while its target has that content, and success is *)
(* told only of what took effect - of an upload, possibly without its last *)
(* chunk.  An error promises nothing: a rename that could not be flushed   *)
(* is told as an error and stays.                                          *)
(***************************************************************************)
CONSTANTS Ops, Kind, Targets, Target, NewData, Short, Expected,
          AnyContent, NotRegular, None

VARIABLES value, applied, told

Deletes == {o \in Ops : Kind[o] \in {"delete", "deleteTree"}}

Init ==
    /\ applied = {}
    /\ told = [o \in Ops |-> "none"]

\* The instant o takes effect; a delete is told at that instant.
Apply(o, effect) ==
    /\ o \notin applied /\ told[o] = "none"
    /\ applied' = applied \cup {o}
    /\ value' = [value EXCEPT ![Target[o]] = effect]

Put(o) ==
    /\ o \notin Deletes
    /\ Expected[o] = AnyContent \/ value[Target[o]] = Expected[o]
    /\ value[Target[o]] # NotRegular
    /\ \/ Apply(o, NewData[o])
       \/ Kind[o] = "upload" /\ Apply(o, Short)
    /\ UNCHANGED told

Delete(o) ==
    /\ o \in Deletes
    /\ Kind[o] = "delete" => value[Target[o]] # None
    /\ Apply(o, None)
    /\ told' = [told EXCEPT ![o] = "ok"]

Tell(o, result) ==
    /\ told[o] = "none"
    /\ result = "ok" => o \in applied
    /\ told' = [told EXCEPT ![o] = result]
    /\ UNCHANGED <<value, applied>>

Next ==
    \E o \in Ops : Put(o) \/ Delete(o) \/ \E r \in {"ok", "error"} : Tell(o, r)

Spec == Init /\ [][Next]_<<value, applied, told>>
=============================================================================
