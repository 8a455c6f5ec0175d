---------------------------- MODULE ConfigReload ----------------------------
(***************************************************************************)
(* Remote configuration from the dashboard's task to the session that uses *)
(* it: Runtime::apply and Runtime::commit (src/runtime.rs), load and save  *)
(* (src/config.rs), and the part of session and run_agent (src/main.rs)    *)
(* that reads the configuration and waits for the reload notification.     *)
(*                                                                         *)
(* Actors: the session's main task, its task worker (which calls apply),   *)
(* the timer tasks apply spawns (which call commit), and crashes of the    *)
(* whole process.  The pending mutex is held by apply throughout and by    *)
(* commit from CommitLock to CommitNotify; `commit' is its holder.         *)
(*                                                                         *)
(* current keeps its last value while the process is down; no step reads   *)
(* it before Load overwrites it.                                           *)
(***************************************************************************)
EXTENDS AgentConfig

CONSTANTS
    NoFile,      \* no configuration file
    None,        \* Option::None
    MaxApplies,  \* bound: changes accepted in a behaviour
    MaxLoads     \* bound: times the process is started

ASSUME BoundsAssumption == MaxApplies \in Nat /\ MaxLoads \in Nat
ASSUME NoneAssumption == None \notin [generation: Nat, transfer: BOOLEAN]
ASSUME NoFileAssumption ==
    NoFile \notin [server: FieldValues("server"), uuid: FieldValues("uuid"),
                   client_secret: FieldValues("client_secret"),
                   report_delay: Nat, ip_report_period: Nat,
                   disable_command_execute: BOOLEAN, tls: BOOLEAN,
                   insecure_tls: BOOLEAN]

VARIABLES
    phase,    \* where the process and its session loop are
    exit,     \* why a closing session ends
    disk,     \* contents of the configuration file
    current,  \* Runtime::current
    pending,  \* Runtime::pending, without the timer's handle
    timers,   \* the spawned tasks that have not begun their commit
    commit,   \* the commit that holds the pending lock
    version,  \* version of the reload watch channel
    session,  \* the configuration the session has read
    seen,     \* the version the session's receiver has seen
    saveFailed, \* history: since the load, the last save failed or was cut
    missed,   \* history: a commit notified between the session's read of
              \* the configuration and its subscription
    applies,  \* counts accepted changes, for the bound
    loads     \* counts starts, for the bound

vars == <<phase, exit, disk, current, pending, timers, commit, version,
          session, seen, saveFailed, missed, applies, loads>>

Phases == {"down",     \* no process
           "saving",   \* load() is writing the file
           "idle",     \* about to call session()
           "read",     \* the configuration is read, not yet subscribed
           "connect",  \* subscribed; connecting and registering
           "run",      \* the task worker runs, the loop selects
           "call",     \* the same, within a call that has no time limit
           "closing",  \* the main loop has ended, the worker may still run
           "retry"}    \* the five-second pause after an error

Up == phase \notin {"down", "saving"}
Working == phase \in {"run", "call"}
Subscribed == Working \/ phase \in {"connect", "closing"}

Timer(generation, config, fired) ==
    [generation |-> generation, config |-> config, fired |-> fired]

Commit(step, generation, config) ==
    [step |-> step, generation |-> generation, config |-> config]

NoCommit == Commit("none", 0, DefaultConfig)

TimerOK(t) ==
    /\ t = Timer(t.generation, t.config, t.fired)
    /\ t.generation \in Nat /\ IsConfig(t.config) /\ t.fired \in BOOLEAN

CommitOK(c) ==
    /\ c = Commit(c.step, c.generation, c.config)
    /\ c.step \in {"none", "save", "install", "notify"}
    /\ c.generation \in Nat /\ IsConfig(c.config)

TypeOK ==
    /\ phase \in Phases
    /\ exit \in {"none", "reload", "error", "stop"}
    /\ disk = NoFile \/ IsPartial(disk)
    /\ IsConfig(current) /\ IsConfig(session)
    /\ pending = None \/ pending \in [generation: Nat, transfer: BOOLEAN]
    /\ \A t \in timers : TimerOK(t)
    /\ CommitOK(commit)
    /\ version \in Nat /\ seen \in Nat
    /\ saveFailed \in BOOLEAN /\ missed \in BOOLEAN
    /\ applies \in Nat /\ loads \in Nat

Init ==
    /\ phase = "down" /\ exit = "none"
    /\ \/ disk \in {NoFile, NoFields}
       \/ \E s \in Servers, k \in Secrets \cup WeakSecrets, u \in Uuids :
             disk = [DefaultConfig EXCEPT !.server = s, !.client_secret = k,
                                          !.uuid = u]
    /\ current = DefaultConfig /\ session = DefaultConfig
    /\ pending = None /\ timers = {} /\ commit = NoCommit
    /\ version = 0 /\ seen = 0
    /\ saveFailed = FALSE /\ missed = FALSE
    /\ applies = 0 /\ loads = 0

-----------------------------------------------------------------------------
(* Start and crash of the process *)

\* load() up to its save: a file that fails validate(false) ends the
\* process before it has done anything, which is no step.
Load(uuid) ==
    /\ phase = "down" /\ loads < MaxLoads
    /\ LET file == IF disk = NoFile THEN NoFields ELSE disk
       IN  /\ Valid(LoadedWith(file, uuid), FALSE)
           /\ current' = LoadedWith(file, uuid)
           /\ phase' = IF disk = NoFile \/ GeneratesUuid(file)
                       THEN "saving" ELSE "idle"
    /\ loads' = loads + 1
    /\ version' = 0 /\ exit' = "none" /\ saveFailed' = FALSE
    /\ UNCHANGED <<disk, pending, timers, commit, session, seen, missed,
                   applies>>

LoadSave ==
    /\ phase = "saving"
    /\ disk' = current /\ saveFailed' = FALSE
    /\ phase' = "idle"
    /\ UNCHANGED <<exit, current, pending, timers, commit, version, session,
                   seen, missed, applies, loads>>

\* What a save that returns an error may leave: nothing written (the
\* directory or the open failed), a prefix (the disk is full), or the whole
\* contents (restricting the permissions failed).
FailedSave(c) ==
    /\ disk' \in {disk, c} \cup Prefixes(c)
    /\ saveFailed' = TRUE

LoadSaveFails ==
    /\ phase = "saving"
    /\ FailedSave(current)
    /\ phase' = "down"
    /\ UNCHANGED <<exit, current, pending, timers, commit, version, session,
                   seen, missed, applies, loads>>

Forget ==
    /\ phase' = "down"
    /\ pending' = None /\ timers' = {} /\ commit' = NoCommit
    /\ UNCHANGED <<exit, current, version, session, seen, missed, applies,
                   loads>>

\* The process is killed, or the updater ends it with process::exit(1); a
\* save under way is cut short.
Crash ==
    /\ phase # "down"
    /\ Forget
    /\ \/ UNCHANGED <<disk, saveFailed>>
       \/ /\ phase = "saving"
          /\ disk' \in Prefixes(current) /\ saveFailed' = TRUE
       \/ /\ commit.step = "save"
          /\ disk' \in Prefixes(commit.config) /\ saveFailed' = TRUE

-----------------------------------------------------------------------------
(* Runtime::apply, called by the task worker of the session *)

\* Accepting puts the next generation in place of what is pending.  Aborting
\* the old timer's task stops it at its next await: one that is already past
\* its sleep may get as far as the pending lock.
Accept(type, payload, generation) ==
    /\ Working \/ phase = "closing"
    /\ applies < MaxApplies
    /\ commit = NoCommit
    /\ Admissible(current, type, payload)
    /\ pending' = [generation |-> generation,
                   transfer |-> type = "ServerTransferApply"]
    /\ \E escaped \in SUBSET {t \in timers : t.fired} :
          timers' = escaped \cup
              {Timer(generation, Merged(current, payload), FALSE)}
    /\ applies' = applies + 1
    /\ UNCHANGED <<phase, exit, disk, current, commit, version, session, seen,
                   saveFailed, missed, loads>>

NextGeneration == IF pending = None THEN 1 ELSE pending.generation + 1

\* Mutants: a generation that is used again; a generic change that displaces
\* a transfer.
ApplySameGeneration(type, payload) ==
    Accept(type, payload, IF pending = None THEN 1 ELSE pending.generation)

ApplyOverTransfer(type, payload) == Accept(type, payload, NextGeneration)

\* A refused task changes nothing.
Apply(type, payload) ==
    /\ ~(type = "ApplyConfig" /\ pending # None /\ pending.transfer)
    /\ Accept(type, payload, NextGeneration)

-----------------------------------------------------------------------------
(* The timer's task: ten seconds of sleep, then Runtime::commit *)

\* The poll of an aborted task ends before another timer's ten seconds do.
TimerFires(t) ==
    /\ ~t.fired
    /\ \A u \in timers : ~u.fired
    /\ timers' = (timers \ {t}) \cup {Timer(t.generation, t.config, TRUE)}
    /\ UNCHANGED <<phase, exit, disk, current, pending, commit, version,
                   session, seen, saveFailed, missed, applies, loads>>

LockFor(t, step) ==
    /\ t.fired /\ commit = NoCommit
    /\ timers' = timers \ {t}
    /\ commit' = step
    /\ UNCHANGED <<phase, exit, disk, current, pending, version, session, seen,
                   saveFailed, missed, applies, loads>>

\* Mutant: no check of the generation.
CommitLockUnchecked(t) == LockFor(t, Commit("save", t.generation, t.config))

\* commit: take the lock, return unless the generation is still pending.
CommitLock(t) ==
    LockFor(t, IF pending # None /\ pending.generation = t.generation
               THEN Commit("save", t.generation, t.config) ELSE NoCommit)

Saved(config) ==
    /\ commit.step = "save"
    /\ disk' = config /\ saveFailed' = FALSE
    /\ commit' = [commit EXCEPT !.step = "install"]
    /\ UNCHANGED <<phase, exit, current, pending, timers, version, session,
                   seen, missed, applies, loads>>

\* Mutant: saves the configuration still in effect.
CommitSaveCurrent == Saved(current)

CommitSave == Saved(commit.config)

\* An error of the save returns at once: what is pending stays pending.
CommitSaveFails ==
    /\ commit.step = "save"
    /\ FailedSave(commit.config)
    /\ commit' = NoCommit
    /\ UNCHANGED <<phase, exit, current, pending, timers, version, session,
                   seen, missed, applies, loads>>

CommitInstall ==
    /\ commit.step = "install"
    /\ current' = commit.config
    /\ commit' = [commit EXCEPT !.step = "notify"]
    /\ UNCHANGED <<phase, exit, disk, pending, timers, version, session, seen,
                   saveFailed, missed, applies, loads>>

\* Sending on a watch channel without receivers fails and leaves the
\* version as it is.
Release(left) ==
    /\ commit.step = "notify"
    /\ pending' = left /\ commit' = NoCommit
    /\ version' = IF Subscribed THEN version + 1 ELSE version
    /\ missed' = (missed \/ phase = "read")
    /\ UNCHANGED <<phase, exit, disk, current, timers, session, seen,
                   saveFailed, applies, loads>>

\* Mutant: what was committed is left pending.
CommitNotifyLeaves == Release(pending)

CommitNotify == Release(None)

-----------------------------------------------------------------------------
(* run_agent and session *)

Steady == UNCHANGED <<disk, current, pending, timers, commit, version,
                      saveFailed, applies, loads>>

ReadConfig ==
    /\ phase = "idle" /\ phase' = "read"
    /\ session' = current /\ missed' = FALSE
    /\ UNCHANGED <<exit, seen>> /\ Steady

Subscribe ==
    /\ phase = "read" /\ phase' = "connect"
    /\ seen' = version
    /\ UNCHANGED <<exit, session, missed>> /\ Steady

\* Mutant: subscribes once connected.
ConnectThenSubscribe ==
    /\ phase = "connect" /\ phase' = "call"
    /\ seen' = version
    /\ UNCHANGED <<exit, session, missed>> /\ Steady

\* connect(), report_system_info2, spawning the worker; the next thing is to
\* open the stream of states.
Connect ==
    /\ phase = "connect" /\ phase' = "call"
    /\ UNCHANGED <<exit, session, seen, missed>> /\ Steady

ConnectFails ==
    /\ phase = "connect" /\ phase' = "retry"
    /\ UNCHANGED <<exit, session, seen, missed>> /\ Steady

\* A tick sends a state and may report the host: neither has a time limit,
\* and while the branch awaits it reload_rx is not polled.
StartCall ==
    /\ phase = "run" /\ phase' = "call"
    /\ UNCHANGED <<exit, session, seen, missed>> /\ Steady

CallReturns ==
    /\ phase = "call" /\ phase' = "run"
    /\ UNCHANGED <<exit, session, seen, missed>> /\ Steady

Close(why) ==
    /\ phase' = "closing" /\ exit' = why
    /\ UNCHANGED <<session, missed>> /\ Steady

CallFails == phase = "call" /\ Close("error") /\ UNCHANGED seen

\* reload_rx.changed()
ReloadObserved ==
    /\ phase = "run" /\ seen # version /\ seen' = version
    /\ Close("reload")

\* A stream, the worker or a receipt fails; or the agent is asked to stop.
SessionEnds ==
    /\ phase = "run" /\ UNCHANGED seen
    /\ \E why \in {"error", "stop"} : Close(why)

\* The worker has ended or is aborted, session() returns.
Closed ==
    /\ phase = "closing" /\ exit \in {"reload", "error"}
    /\ phase' = IF exit = "reload" THEN "idle" ELSE "retry"
    /\ exit' = "none"
    /\ UNCHANGED <<session, seen, missed>> /\ Steady

\* run_agent returns: the tasks left are dropped, a save that has begun on
\* another thread is waited for.
Stopped ==
    /\ phase = "closing" /\ exit = "stop"
    /\ Forget
    /\ UNCHANGED <<disk, saveFailed>>

Reconnect ==
    /\ phase = "retry" /\ phase' = "idle"
    /\ UNCHANGED <<exit, session, seen, missed>> /\ Steady

-----------------------------------------------------------------------------
Next ==
    \/ \E uuid \in Uuids : Load(uuid)
    \/ LoadSave
    \/ LoadSaveFails
    \/ Crash
    \/ \E type \in TaskTypes, payload \in Payloads : Apply(type, payload)
    \/ \E t \in timers : TimerFires(t)
    \/ \E t \in timers : CommitLock(t)
    \/ CommitSave
    \/ CommitSaveFails
    \/ CommitInstall
    \/ CommitNotify
    \/ ReadConfig
    \/ Subscribe
    \/ Connect
    \/ ConnectFails
    \/ StartCall
    \/ CallReturns
    \/ CallFails
    \/ ReloadObserved
    \/ SessionEnds
    \/ Closed
    \/ Stopped
    \/ Reconnect

Spec == Init /\ [][Next]_vars

\* What the runtime schedules: spawned tasks and a session that is not
\* waiting for the network run on.  The loop may look at reload_rx only now
\* and then, between calls, and select! picks among the ready branches at
\* random: a notification that waits is picked in the end.  No call is
\* assumed to return.
Fairness ==
    /\ WF_vars(\E t \in timers : TimerFires(t))
    /\ WF_vars(\E t \in timers : CommitLock(t))
    /\ WF_vars(CommitSave \/ CommitSaveFails)
    /\ WF_vars(CommitInstall)
    /\ WF_vars(CommitNotify)
    /\ WF_vars(ReadConfig)
    /\ WF_vars(Subscribe)
    /\ SF_vars(ReloadObserved)
    /\ WF_vars(Closed \/ Stopped)
    /\ WF_vars(Reconnect)

FairSpec == Spec /\ Fairness
-----------------------------------------------------------------------------
(* Properties *)

Carriers ==
    {t \in timers : pending # None /\ t.generation = pending.generation}

\* A pending change is committed by one task, and nothing is when no change
\* is pending: what commit's check of the generation is for, as aborting a
\* timer's task does not stop one that is already running.  A change is left
\* with nothing to commit it only after its save has failed (runtime.rs 141 to
\* 144 return with pending set).
OneCommitter ==
    /\ TypeOK
    /\ \A t, u \in Carriers : t = u
    /\ commit # NoCommit => Carriers = {}
    /\ IF pending = None THEN timers = {} /\ commit = NoCommit
       ELSE saveFailed \/ commit # NoCommit \/ Carriers # {}

\* The agent answers "another reload is in process" (main.rs) and "transfer
\* reload in progress" (runtime.rs) for as long as a change is pending: such
\* a reload should be one that is still in progress.
ReloadReallyInProgress == pending # None => commit # NoCommit \/ Carriers # {}

\* What a restart would read back is what is in effect, field by field,
\* except where an override is laid over the file: save goes before the
\* assignment of current, and only a failed save separates the two.
DiskTracksCurrent ==
    Up /\ ~saveFailed =>
        /\ disk # NoFile
        /\ IF commit.step = "install"
           THEN disk = commit.config
           ELSE \A f \in ConfigFields \ DOMAIN Overrides :
                   Normalize(FileFields(disk))[f] = current[f]

Stale == (phase = "connect" \/ Working) /\ session # current

\* A session that works with an outdated configuration has a notification
\* it has not yet seen, or will get one from the commit under way (the
\* reload test of tests/probe_dashboard.py expects it to reconnect).
StaleSessionIsNotified == Stale => seen # version \/ commit # NoCommit

\* The secret changes only by committing a transfer, and only to one that
\* the agent will present over verified TLS - however many changes were
\* accepted and superseded since the agent last had this secret.
SecretChangesByTransfer ==
    [][ (Up /\ current'.client_secret # current.client_secret) =>
          /\ pending # None /\ pending.transfer
          /\ current'.client_secret \in Secrets
          /\ current'.tls /\ ~current'.insecure_tls ]_vars

\* Once a transfer is accepted, only another transfer takes its place.
TransferNotDisplaced ==
    [][ (pending # None /\ pending.transfer /\ pending' # None)
          => pending'.transfer ]_vars

\* The configuration in effect is a register that remote changes update
\* atomically (ConfigRegister).
Register == INSTANCE ConfigRegister WITH running <- Up, value <- current

IsRegister == Register!Spec

\* An accepted change takes effect, or its save fails, or the process ends.
AcceptedSettles == (pending # None) ~> (pending = None \/ saveFailed)

\* A session does not go on with an outdated configuration, whatever else the
\* loop is busy with, unless it missed the notification - or a call without a
\* time limit never returns: opening the stream of states (main.rs 236),
\* sending a state (320) and reporting the host (327) wait for the dashboard
\* for ever.
CallsReturn == []<>(phase # "call")

StaleSessionEnds ==
    CallsReturn => ((Working /\ Stale) ~> (~Working \/ missed))
=============================================================================
