--------------------------- MODULE AgentLoopProofs ---------------------------
(***************************************************************************)
(* OneUpdate of AgentLoop, for any set of forced checks and any number of  *)
(* versions.  What carries it is the lock: a check that is past it holds   *)
(* it, so that at most one is.  It makes the executable the program that   *)
(* runs, until a check has replaced it and the process ends.               *)
(***************************************************************************)
EXTENDS AgentLoop, TLAPS

Working(c) == step[c] \notin {"idle", "lock"}

LockHeld == \A c \in Checks : Working(c) => lock = c

\* A check that is past the manifest has a version, and an automatic one a
\* newer one than the program that runs.
Chosen(c) == step[c] \in {"download", "verify", "replace", "exit"}

NewerChosen ==
    \A c \in Checks : Chosen(c) =>
        version[c] \in Versions /\ (c \notin Forced => version[c] > running)

\* The executable is the program that runs, or the one the process ends for.
Settled ==
    ~loose =>
        /\ detached = {}
        /\ running = 0 \/ installed = running \/ \E c \in Checks : At(c, "exit")
        /\ \A c \in Checks : At(c, "exit") => installed = version[c]

Ended == running = 0 => \A c \in Checks : At(c, "idle")

LoopTyped == loose \in BOOLEAN

Inductive == TypeOK /\ LoopTyped /\ LockHeld /\ NewerChosen /\ Settled /\ Ended

\* Only one check is past the lock.
LEMMA OneWorks ==
    ASSUME LockHeld, NEW c \in Checks, NEW d \in Checks, Working(c), Working(d)
    PROVE  c = d
  BY DEF LockHeld

\* What the loop keeps implies that one check replaces the executable at a time.
LEMMA OneUpdateFollows == Inductive => OneUpdate
<1> SUFFICES ASSUME Inductive, ~loose PROVE OneUpdate
  BY DEF Inductive, OneUpdate
<1>1. detached = {}
  BY DEF Inductive, Settled
<1>2. ASSUME NEW c \in Checks, step[c] \in {"replace", "exit"}, NEW d \in Checks \ {c}
      PROVE  step[d] \in {"idle", "lock"}
  BY <1>2, OneWorks DEF Inductive, Working
<1>3. ASSUME NEW c \in Checks, At(c, "replace"), c \notin Forced
      PROVE  version[c] > installed
  <2>1. \A d \in Checks : ~At(d, "exit")
    BY <1>2, <1>3 DEF At
  <2>2. running # 0
    BY <1>3 DEF Inductive, Ended, At
  <2>3. installed = running
    BY <2>1, <2>2 DEF Inductive, Settled
  <2> QED
    BY <1>3, <2>3 DEF Inductive, NewerChosen, Chosen, At
<1>4. ASSUME NEW c \in Checks, At(c, "exit") PROVE installed = version[c]
  BY <1>4 DEF Inductive, Settled
<1> QED
  BY <1>1, <1>2, <1>3, <1>4 DEF OneUpdate, Inductive

-----------------------------------------------------------------------------
(* A step of check c that replaces nothing *)

\* A check that goes on without replacing anything, with the lock if it is
\* beyond the lock, keeps the invariant.
LEMMA CheckMoves ==
    ASSUME Inductive, NEW c \in Checks, NEW s \in Steps, NEW v \in Versions \cup {0},
           running # 0, UNCHANGED <<running, installed, detached, loose>>,
           step' = [step EXCEPT ![c] = s], version' = [version EXCEPT ![c] = v],
           lock' \in Checks \cup {Nobody},
           s \notin {"idle", "lock"} => lock' = c,
           \A d \in Checks \ {c} : Working(d) => lock' = lock,
           s \in {"download", "verify", "replace"} =>
               v \in Versions /\ (c \notin Forced => v > running),
           s # "exit", step[c] # "exit"
    PROVE  Inductive'
<1>1. /\ \A d \in Checks \ {c} : step'[d] = step[d] /\ version'[d] = version[d]
      /\ step'[c] = s /\ version'[c] = v
  BY DEF Inductive, TypeOK
<1>2. TypeOK'
  BY DEF Inductive, TypeOK
<1>3. LockHeld'
  BY <1>1 DEF Inductive, LockHeld, Working
<1>4. NewerChosen'
  BY <1>1 DEF Inductive, NewerChosen, Chosen
<1>5. \A d \in Checks : At(d, "exit")' <=> At(d, "exit")
  BY <1>1 DEF At
<1>6. \A d \in Checks : At(d, "exit") => version'[d] = version[d]
  BY <1>1 DEF At
<1>7. Settled'
  BY <1>5, <1>6 DEF Inductive, Settled
<1>8. Ended'
  BY DEF Ended
<1> QED
  BY <1>2, <1>3, <1>4, <1>7, <1>8 DEF Inductive, LoopTyped

\* So does a check that begins.
LEMMA BeginKeeps ==
    ASSUME Inductive, NEW c \in Checks, Begin(c), running # 0, UNCHANGED loose
    PROVE  Inductive'
<1>1. version[c] \in Versions \cup {0} /\ version' = [version EXCEPT ![c] = version[c]]
  BY DEF Begin, Inductive, TypeOK
<1> QED
  BY <1>1, CheckMoves DEF Begin, At, To, ProgramKept, Steps, Inductive, TypeOK

\* Whoever leaves had the lock, or nothing but its own place in the queue.
LEMMA LeaveKeeps ==
    ASSUME Inductive, NEW c \in Checks, Leave(c), running # 0, step[c] # "exit",
           UNCHANGED <<running, installed, detached, loose>>
    PROVE  Inductive'
<1>1. \A d \in Checks \ {c} : Working(d) => lock' = lock
  BY DEF Leave, Inductive, LockHeld
<1>2. lock' \in Checks \cup {Nobody}
  BY DEF Leave, Inductive, TypeOK
<1> QED
  BY <1>1, <1>2, CheckMoves DEF Leave, To, Steps

\* The steps of a check, but for its end.
LEMMA CheckKeeps ==
    ASSUME Inductive, NEW c \in Checks, Check(c), ~Exit(c), running # 0, UNCHANGED loose
    PROVE  Inductive'
<1>1. version[c] \in Versions \cup {0} /\ version = [version EXCEPT ![c] = version[c]]
  BY DEF Inductive, TypeOK
<1>2. CASE Lock(c)
  <2>1. \A d \in Checks \ {c} : ~Working(d)
    BY <1>2, UpdatesAssumption DEF Lock, Inductive, LockHeld, Checks, Nobody
  <2> QED
    BY <1>1, <1>2, <2>1, CheckMoves DEF Lock, At, To, ProgramKept, Steps
<1>3. CASE Manifest(c)
  <2>1. step[c] = "manifest" /\ lock = c /\ running \in Nat
        /\ UNCHANGED <<running, installed, detached, loose>>
    BY <1>3, UpdatesAssumption
       DEF Manifest, At, ProgramKept, Inductive, LockHeld, Working, TypeOK, Versions
  <2>2. PICK v \in Versions :
          IF v <= running /\ c \notin Forced THEN Leave(c)
          ELSE /\ version' = [version EXCEPT ![c] = v]
               /\ To(c, "download") /\ UNCHANGED lock
    BY <1>3 DEF Manifest
  <2>3. CASE v <= running /\ c \notin Forced
    BY <2>1, <2>2, <2>3, LeaveKeeps
  <2>4. CASE ~(v <= running /\ c \notin Forced)
    <3>1. c \notin Forced => v > running
      BY <2>1, <2>4, UpdatesAssumption DEF Versions
    <3> QED
      BY <2>1, <2>2, <2>4, <3>1, CheckMoves DEF To, Steps
  <2> QED
    BY <2>3, <2>4
<1>4. CASE Download(c) \/ Verify(c)
  <2>1. PICK s \in {"verify", "replace"} : step' = [step EXCEPT ![c] = s]
    BY <1>4 DEF Download, Verify, To
  <2>2. /\ step[c] \in {"download", "verify"} /\ lock = c
        /\ UNCHANGED <<running, installed, detached, version, lock>>
    BY <1>4 DEF Download, Verify, At, ProgramKept, Inductive, LockHeld, Working
  <2>3. version[c] \in Versions /\ (c \notin Forced => version[c] > running)
    BY <2>2 DEF Inductive, NewerChosen, Chosen
  <2> QED
    BY <1>1, <2>1, <2>2, <2>3, CheckMoves DEF Steps
<1>5. CASE Fails(c)
  BY <1>5, LeaveKeeps DEF Fails, ProgramKept
<1>6. CASE Replace(c)
  <2>1. /\ step[c] = "replace" /\ step' = [step EXCEPT ![c] = "exit"]
        /\ installed' = version[c] /\ UNCHANGED <<running, version, lock, detached>>
    BY <1>6 DEF Replace, At, To
  <2>2. version[c] \in Versions /\ lock = c
    BY <2>1 DEF Inductive, NewerChosen, Chosen, LockHeld, Working
  <2>3. /\ \A d \in Checks \ {c} : step'[d] = step[d] /\ step[d] \in {"idle", "lock"}
        /\ step'[c] = "exit"
    BY <2>1, OneWorks DEF Inductive, TypeOK, Working
  <2>4. TypeOK'
    BY <2>1, <2>2 DEF Inductive, TypeOK, Steps
  <2>5. LockHeld' /\ Ended'
    BY <2>1, <2>2, <2>3 DEF Inductive, LockHeld, Working, Ended
  <2>6. NewerChosen'
    BY <2>1, <2>3 DEF Inductive, NewerChosen, Chosen
  <2>7. Settled'
    BY <2>1, <2>3 DEF Inductive, Settled, At
  <2> QED
    BY <2>4, <2>5, <2>6, <2>7 DEF Inductive, LoopTyped
<1> QED
  BY <1>2, <1>3, <1>4, <1>5, <1>6 DEF Check

\* The end of the process ends the checks with it.
LEMMA EndKeeps ==
    ASSUME Inductive, Ends, loose' = FALSE
    PROVE  Inductive'
<1>1. /\ running' = 0 /\ detached' = {} /\ lock' = Nobody /\ installed' = installed
      /\ \A c \in Checks : step'[c] = "idle"
  BY DEF Ends
<1>2. TypeOK'
  BY <1>1 DEF Ends, Inductive, TypeOK, Steps
<1> QED
  BY <1>1, <1>2 DEF Inductive, LoopTyped, LockHeld, Working, NewerChosen, Chosen, Settled, Ended, At

-----------------------------------------------------------------------------

\* Every step of the agent keeps the invariant, and so does a stutter.
LEMMA StepKeeps == Inductive /\ [Next]_allVars => Inductive'
<1> SUFFICES ASSUME Inductive, [Next]_allVars PROVE Inductive'
  OBVIOUS
<1>1. CASE UNCHANGED <<vars, loose>>
  BY <1>1 DEF vars, Inductive, LoopTyped, TypeOK, LockHeld, Working, NewerChosen, Chosen, Settled,
     Ended, At
<1>2. CASE StartUp
  <2>1. CASE Begin("startup") /\ UNCHANGED loose
    BY <1>2, <2>1, BeginKeeps DEF StartUp, Up, Checks
  <2> QED
    BY <1>1, <1>2, <2>1 DEF StartUp, ChecksKept
<1>3. CASE Sleep \/ Connect \/ EndSession \/ Closed \/ Reconnect
  BY <1>1, <1>3 DEF Sleep, Connect, EndSession, Closed, Reconnect, ChecksKept
<1>4. CASE Periodic
  <2>1. CASE Begin("periodic")
    BY <1>4, <2>1, BeginKeeps DEF Periodic, Up, Checks
  <2> QED
    BY <1>1, <1>4, <2>1 DEF Periodic
<1>5. ASSUME NEW c \in Checks, RunCheck(c) PROVE Inductive'
  <2>1. running # 0 /\ Check(c)
    BY <1>5 DEF RunCheck, Up
  <2>2. CASE Exit(c)
    <3>1. Ends /\ running' = 0
      BY <2>2 DEF Exit, Ends
    <3> QED
      BY <1>5, <3>1, EndKeeps DEF RunCheck
  <2>3. CASE ~Exit(c)
    <3>1. running' # 0
      BY <2>1, <2>3 DEF Check, Lock, Manifest, Download, Verify, Fails, Replace, ProgramKept
    <3> QED
      BY <1>5, <2>1, <2>3, <3>1, CheckKeeps DEF RunCheck
  <2> QED
    BY <2>2, <2>3
<1>6. ASSUME NEW c \in Forced, Ask(c) PROVE Inductive'
  <2>1. c \in Checks /\ Begin(c) /\ running # 0 /\ UNCHANGED loose
    BY <1>6 DEF Ask, Up, Checks
  <2> QED
    BY <2>1, BeginKeeps
<1>7. ASSUME NEW c \in Forced, CancelForced(c) PROVE Inductive'
  <2>1. /\ c \in Checks /\ running # 0 /\ Cancel(c) /\ Leave(c)
        /\ UNCHANGED <<running, installed>>
        /\ loose' = (loose \/ step[c] \in {"replace", "exit"})
    BY <1>7 DEF CancelForced, Up, Cancel, Checks
  <2>2. CASE step[c] \in {"replace", "exit"}
    <3>1. /\ step' = [step EXCEPT ![c] = "idle"] /\ version' = [version EXCEPT ![c] = 0]
          /\ lock' = IF lock = c THEN Nobody ELSE lock
          /\ detached' = IF At(c, "replace") THEN detached \cup {version[c]} ELSE detached
      BY <2>1 DEF Leave, To, Cancel
    <3>2. /\ \A d \in Checks \ {c} : step'[d] = step[d] /\ version'[d] = version[d]
          /\ step'[c] = "idle"
      BY <2>1, <3>1 DEF Inductive, TypeOK
    <3>3. version[c] \in Versions
      BY <2>1, <2>2 DEF Inductive, NewerChosen, Chosen
    <3>4. TypeOK'
      BY <2>1, <3>1, <3>3 DEF Inductive, TypeOK, Steps
    <3>5. LockHeld'
      BY <3>1, <3>2 DEF Inductive, LockHeld, Working
    <3>6. NewerChosen' /\ Ended'
      BY <2>1, <3>2 DEF Inductive, NewerChosen, Chosen, Ended
    <3>7. Settled'
      BY <2>1, <2>2 DEF Settled
    <3>8. LoopTyped'
      BY <2>1 DEF LoopTyped
    <3> QED
      BY <3>4, <3>5, <3>6, <3>7, <3>8 DEF Inductive
  <2>3. CASE step[c] \notin {"replace", "exit"}
    <3>1. UNCHANGED detached
      BY <2>1, <2>3 DEF Cancel, At
    <3>2. loose' = loose
      BY <2>1, <2>3 DEF Inductive, LoopTyped
    <3> QED
      BY <2>1, <2>3, <3>1, <3>2, LeaveKeeps
  <2> QED
    BY <2>2, <2>3
<1>8. ASSUME NEW v \in Versions, Thread(v) PROVE Inductive'
  <2>1. /\ v \in detached /\ detached' = detached \ {v} /\ installed' \in {installed, v}
        /\ UNCHANGED <<running, step, version, lock, loose>>
    BY <1>8 DEF Thread, Detached
  <2>2. loose
    BY <2>1 DEF Inductive, Settled
  <2>3. TypeOK'
    BY <2>1 DEF Inductive, TypeOK
  <2> QED
    BY <2>1, <2>2, <2>3 DEF Inductive, LoopTyped, LockHeld, Working, NewerChosen, Chosen, Settled,
       Ended, At
<1>9. CASE Started
  <2>1. /\ running = 0 /\ running' = installed
        /\ UNCHANGED <<installed, step, version, lock, detached, loose>>
    BY <1>9 DEF Started, Restart
  <2>2. /\ \A c \in Checks : step[c] = "idle"
        /\ installed \in Versions /\ installed # 0
    BY <2>1, UpdatesAssumption DEF Inductive, Ended, At, TypeOK, Versions
  <2>3. TypeOK'
    BY <2>1, <2>2 DEF Inductive, TypeOK
  <2>4. LockHeld' /\ NewerChosen'
    BY <2>1, <2>2 DEF LockHeld, Working, NewerChosen, Chosen
  <2>5. Settled'
    BY <2>1, <2>2 DEF Inductive, Settled, At
  <2>6. LoopTyped' /\ Ended'
    BY <2>1, <2>2 DEF Inductive, LoopTyped, Ended
  <2> QED
    BY <2>3, <2>4, <2>5, <2>6 DEF Inductive
<1> QED
  BY <1>1, <1>2, <1>3, <1>4, <1>5, <1>6, <1>7, <1>8, <1>9 DEF Next, allVars

\* An agent that starts for the first time has it.
LEMMA InitHolds == LoopInit => Inductive
<1> SUFFICES ASSUME LoopInit PROVE Inductive
  OBVIOUS
<1>1. /\ running = 1 /\ installed = 1 /\ lock = Nobody /\ detached = {} /\ loose = FALSE
      /\ \A c \in Checks : step[c] = "idle"
  BY DEF LoopInit, Init
<1>2. TypeOK
  BY <1>1, UpdatesAssumption DEF LoopInit, Init, TypeOK, Steps, Versions
<1>3. LockHeld /\ NewerChosen /\ Ended
  BY <1>1 DEF LockHeld, Working, NewerChosen, Chosen, Ended, At
<1>4. LoopTyped /\ Settled
  BY <1>1 DEF LoopTyped, Settled, At
<1> QED
  BY <1>2, <1>3, <1>4 DEF Inductive

\* One check at a time replaces the executable, never by an older version
\* unless the dashboard asked for it, and the process ends for what it has
\* installed - unless a session's end cancelled a check in its last steps.
THEOREM OneUpdateAlways == Spec => []OneUpdate
<1>1. Spec => []Inductive
  BY InitHolds, StepKeeps, PTL DEF Spec
<1> QED
  BY <1>1, OneUpdateFollows, PTL
=============================================================================
