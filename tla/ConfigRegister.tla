--------------------------- MODULE ConfigRegister ---------------------------
(***************************************************************************)
(* What remote configuration promises: the configuration in effect is a    *)
(* register.  While the agent runs, it changes only by laying an           *)
(* admissible payload over the value it has at that very moment - although *)
(* the agent decides about a payload ten seconds before it takes effect.   *)
(***************************************************************************)
EXTENDS AgentConfig

VARIABLES
    running,  \* the agent runs with a loaded configuration
    value     \* the configuration in effect, when it runs

Init == running = FALSE /\ IsConfig(value)

\* Loading the file, whatever it holds.
Start == ~running /\ running' \in BOOLEAN /\ IsConfig(value')

Stop == running' = FALSE /\ UNCHANGED value

Change ==
    /\ running /\ UNCHANGED running
    /\ \E type \in TaskTypes, payload \in Payloads :
          /\ Admissible(value, type, payload)
          /\ value' = Merged(value, payload)

Next == Start \/ Stop \/ Change

Spec == Init /\ [][Next]_<<running, value>>
=============================================================================
