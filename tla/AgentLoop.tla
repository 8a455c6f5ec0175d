----------------------------- MODULE AgentLoop ------------------------------
(***************************************************************************)
(* The agent from its start to its end (src/main.rs, run_agent): a check   *)
(* for updates, then one session after the other, and a task that checks   *)
(* periodically beside them.  Updates has the checks; SessionTasks has     *)
(* what goes on in a session.                                              *)
(***************************************************************************)
EXTENDS Updates

VARIABLES
    phase,  \* "startup", "checking", "connect", "session", "closing", "wait"
            \* or "stopped"
    slept,  \* the periodic task has slept its period
    loose   \* history: a check was cancelled while it replaced the executable,
            \* or after that

allVars == <<vars, phase, slept, loose>>

LoopInit == Init /\ phase = "startup" /\ slept = FALSE /\ loose = FALSE

Up == running # 0 /\ phase # "stopped"

ChecksKept == UNCHANGED <<vars, loose>>

\* The first session begins when the check is over, or was not asked for.
StartUp ==
    /\ Up
    /\ \/ phase = "startup" /\ phase' = "checking" /\ Begin("startup") /\ UNCHANGED loose
       \/ phase = "startup" /\ phase' = "connect" /\ ChecksKept
       \/ phase = "checking" /\ phase' = "connect" /\ At("startup", "idle") /\ ChecksKept
    /\ UNCHANGED slept

Sleep ==
    /\ Up /\ phase \notin {"startup", "checking"}
    /\ At("periodic", "idle") /\ ~slept /\ slept' = TRUE
    /\ ChecksKept /\ UNCHANGED phase

\* It asks for the configuration anew; that may not want a check any more.
Periodic ==
    /\ Up /\ slept /\ slept' = FALSE
    /\ Begin("periodic") \/ UNCHANGED vars
    /\ UNCHANGED <<phase, loose>>

Ask(c) ==
    /\ Up /\ phase = "session" /\ Begin(c) /\ UNCHANGED <<phase, slept, loose>>

RunCheck(c) ==
    /\ Up /\ Check(c)
    /\ IF running' = 0
       THEN phase' = "startup" /\ slept' = FALSE /\ loose' = FALSE
       ELSE UNCHANGED <<phase, slept, loose>>

Connect ==
    /\ Up /\ phase = "connect" /\ phase' \in {"session", "wait", "stopped"}
    /\ ChecksKept /\ UNCHANGED slept

EndSession ==
    /\ Up /\ phase = "session" /\ phase' = "closing"
    /\ ChecksKept /\ UNCHANGED slept

\* The tasks of a session are cancelled before the next one, or the end.
CancelForced(c) ==
    /\ Up /\ phase = "closing" /\ Cancel(c)
    /\ loose' = (loose \/ step[c] \in {"replace", "exit"})
    /\ UNCHANGED <<phase, slept>>

\* A reload connects at once, an error after five seconds.
Closed ==
    /\ Up /\ phase = "closing" /\ \A c \in Forced : At(c, "idle")
    /\ phase' \in {"connect", "wait", "stopped"}
    /\ ChecksKept /\ UNCHANGED slept

Reconnect ==
    /\ Up /\ phase = "wait" /\ phase' \in {"connect", "stopped"}
    /\ ChecksKept /\ UNCHANGED slept

Thread(v) == Up /\ Detached(v) /\ UNCHANGED <<phase, slept, loose>>

Started == Restart /\ UNCHANGED <<phase, slept, loose>>

Next ==
    \/ StartUp \/ Sleep \/ Periodic \/ Connect \/ EndSession \/ Closed \/ Reconnect
    \/ \E c \in Checks : RunCheck(c)
    \/ \E c \in Forced : Ask(c) \/ CancelForced(c)
    \/ \E v \in Versions : Thread(v)
    \/ Started

Spec == LoopInit /\ [][Next]_allVars

-----------------------------------------------------------------------------
(* Properties *)

\* The executable is replaced by one check at a time, an automatic one never
\* puts an older version in the place of a newer, and a process that ends for
\* an update has installed what it verified last; all that unless the end of
\* a session cancels a check in the midst of its replacement, whose thread
\* (updater.rs 90) outlives the lock (line 37).
OneUpdate ==
    /\ TypeOK
    /\ ~loose =>
          /\ detached = {}
          /\ \A c \in Checks :
                /\ At(c, "replace") /\ c \notin Forced => version[c] > installed
                /\ At(c, "exit") => installed = version[c]
                /\ step[c] \in {"replace", "exit"} =>
                      \A d \in Checks \ {c} : step[d] \in {"idle", "lock"}
=============================================================================
