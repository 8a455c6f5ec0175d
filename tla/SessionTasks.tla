---------------------------- MODULE SessionTasks ----------------------------
(***************************************************************************)
(* The sessions of src/main.rs: the main loop of each, its task worker,    *)
(* the tasks the worker spawns, and the channels between them.             *)
(*                                                                         *)
(* A session's main loop awaits one thing at a time: a branch it has       *)
(* chosen is awaited to its end before it looks at the others again.  It   *)
(* gives the worker five seconds to stop and then aborts it, without       *)
(* waiting for the abort, so that a worker and tasks of an ended session   *)
(* may still exist when the next session runs.  What is aborted finishes   *)
(* the poll it is in and is dropped at its next await: until then the      *)
(* model lets it go on with whatever it was doing.                         *)
(***************************************************************************)
EXTENDS Integers, Sequences, FiniteSets

CONSTANTS
    Tasks,        \* tasks the dashboard sends, each once
    Kind,         \* Kind[t]: what the worker does with t
    Capacity,     \* of the channel of task results (64 in the code)
    MaxSessions   \* bound: sessions in a behaviour

ASSUME TasksAssumption ==
    Kind \in [Tasks -> {"stream",     \* terminal, NAT, files, transfer, and
                                      \* a task of unknown type: no result
                        "job",        \* probes, commands, mcp, update
                        "apply",      \* ApplyConfig, ServerTransferApply
                        "report"}]    \* ReportConfig

ASSUME SizesAssumption == Capacity \in Nat \ {0} /\ MaxSessions \in Nat

Sessions == 1 .. MaxSessions

VARIABLES
    main,     \* where the main loop is
    session,  \* the number of sessions so far
    worker,   \* worker[s]: where the worker of session s is
    aborted,  \* the sessions whose worker has been aborted
    stop,     \* the sessions whose watch channel tells the worker to stop
    held,     \* held[s]: the result the worker itself waits to send
    spawned,  \* the tasks in the workers' join sets
    results,  \* results[s]: the channel of task results
    lost,     \* the sessions whose connection is lost
    taken,    \* taken[t]: the session whose worker received t, or 0
    answered  \* the tasks whose result reached the dashboard

vars == <<main, session, worker, aborted, stop, held, spawned, results,
          lost, taken, answered>>

SpawnedTask == [session: Sessions, task: Tasks, cancelled: BOOLEAN,
                step: {"run", "reply"}]

MainSteps == {"idle",        \* between sessions
              "opening",     \* opening the state stream: no timeout
              "stateSend",   \* sending a state into its channel: no timeout
             "receipt",     \* waiting for a receipt: ten seconds
              "select",      \* looking at all its branches
              "hostReport",  \* reporting the host again: no timeout
              "stopping"}    \* waiting for the worker: five seconds

\* Where nothing but the dashboard ends the wait, or the loss of its connection.
Untimed == {"opening", "stateSend", "hostReport"}

WorkerSteps == {"none",
                "open",      \* opening the RequestTask stream
                "receive",   \* waiting for a task or for stop
                "send",      \* sending the result of apply or of a report
                "drain",     \* shutting its join set down
                "ended"}

TypeOK ==
    /\ main \in MainSteps
    /\ session \in 0 .. MaxSessions
    /\ worker \in [Sessions -> WorkerSteps]
    /\ aborted \in SUBSET Sessions /\ stop \in SUBSET Sessions
    /\ held \in [Sessions -> SUBSET Tasks]
    /\ spawned \in SUBSET SpawnedTask
    /\ results \in [Sessions -> Seq(Tasks)]
    /\ lost \in SUBSET Sessions
    /\ taken \in [Tasks -> 0 .. MaxSessions]
    /\ answered \in SUBSET Tasks

Init ==
    /\ main = "idle" /\ session = 0
    /\ worker = [s \in Sessions |-> "none"]
    /\ aborted = {} /\ stop = {} /\ lost = {}
    /\ held = [s \in Sessions |-> {}]
    /\ spawned = {}
    /\ results = [s \in Sessions |-> <<>>]
    /\ taken = [t \in Tasks |-> 0]
    /\ answered = {}

TasksOf(s) == {k \in spawned : k.session = s}

-----------------------------------------------------------------------------
(* The main loop *)

MainKeeps == UNCHANGED <<held, spawned, results, lost, taken, answered>>

MainAt(step) ==
    main' = step /\ UNCHANGED <<session, worker, aborted, stop>> /\ MainKeeps

\* session() has registered; it spawns the worker and opens the state stream.
Start ==
    /\ main = "idle" /\ session < MaxSessions
    /\ main' = "opening" /\ session' = session + 1
    /\ worker' = [worker EXCEPT ![session + 1] = "open"]
    /\ UNCHANGED <<aborted, stop>> /\ MainKeeps

StateOpened == main = "opening" /\ session \notin lost /\ MainAt("receipt")

\* A tick, or a report of the country, whose answer is awaited as long as a
\* receipt.
Tick == main = "select" /\ \E next \in {"stateSend", "receipt"} : MainAt(next)

StateSent == main = "stateSend" /\ MainAt("receipt")

\* Every ten minutes the receipt is followed by a report of the host.
ReceiptArrives ==
    /\ main = "receipt" /\ session \notin lost
    /\ \E next \in {"select", "hostReport"} : MainAt(next)

HostReported == main = "hostReport" /\ session \notin lost /\ MainAt("select")

\* Leaving the loop: the worker is told to stop.
Leave ==
    /\ main' = "stopping"
    /\ stop' = stop \cup {session}
    /\ UNCHANGED <<session, worker, aborted>> /\ MainKeeps

ReceiptAwaitedForEver == main = "receipt" /\ session \in lost /\ Leave

ReceiptFails == main = "receipt" /\ Leave

CallFails == main \in Untimed /\ Leave

\* The worker's error message, or the end of its channel.
WorkerEndSeen == main = "select" /\ worker[session] = "ended" /\ Leave

\* A reload, or a request to stop.
LeaveAsked == main = "select" /\ Leave

\* session() returns once the worker has ended ...
WorkerJoined == main = "stopping" /\ worker[session] = "ended" /\ MainAt("idle")

\* ... or after five seconds.
JoinAbandoned ==
    main = "stopping" /\ worker[session] # "ended" /\ MainAt("idle")

JoinTimesOut ==
    /\ main = "stopping" /\ worker[session] # "ended"
    /\ main' = "idle"
    /\ aborted' = aborted \cup {session}
    /\ UNCHANGED <<session, worker, stop>> /\ MainKeeps

-----------------------------------------------------------------------------
(* The worker of session s *)

WorkerKeeps == UNCHANGED <<main, session, aborted, stop, lost, answered>>

WorkerAt(s, step) == worker' = [worker EXCEPT ![s] = step]

Opens(s) ==
    /\ worker[s] = "open" /\ s \notin lost
    /\ WorkerAt(s, "receive")
    /\ WorkerKeeps /\ UNCHANGED <<held, spawned, results, taken>>

Take(s, t) ==
    /\ worker[s] = "receive" /\ s \notin lost
    /\ taken[t] = 0
    /\ taken' = [taken EXCEPT ![t] = s]
    /\ WorkerKeeps /\ UNCHANGED results

Running(s, t) == [session |-> s, task |-> t, cancelled |-> FALSE, step |-> "run"]

\* A task of its own for everything that is not answered at once.
ReceiveAndSpawn(s, t) ==
    /\ Take(s, t) /\ Kind[t] # "apply"
    /\ spawned' = spawned \cup {Running(s, t)}
    /\ UNCHANGED <<worker, held>>

\* The worker itself applies a configuration, and rejects a report while a
\* reload is pending; no task is received until the result is sent.
ReceiveAndHold(s, t) ==
    /\ Take(s, t) /\ Kind[t] \in {"apply", "report"}
    /\ held' = [held EXCEPT ![s] = {t}]
    /\ WorkerAt(s, "send")
    /\ UNCHANGED spawned

Sends(s) ==
    /\ worker[s] = "send" /\ s \notin lost
    /\ Len(results[s]) < Capacity
    /\ \E t \in held[s] : results' = [results EXCEPT ![s] = Append(@, t)]
    /\ held' = [held EXCEPT ![s] = {}]
    /\ WorkerAt(s, "receive")
    /\ WorkerKeeps /\ UNCHANGED <<spawned, taken>>

\* The end of the worker's loop drops the task stream, and with it the
\* channel of results.
DrainWith(s, tasks) ==
    /\ worker[s] \in {"open", "receive", "send"}
    /\ WorkerAt(s, "drain")
    /\ spawned' = tasks
    /\ results' = [results EXCEPT ![s] = <<>>]
    /\ held' = [held EXCEPT ![s] = {}]
    /\ WorkerKeeps /\ UNCHANGED taken

Cancel(k) == [k EXCEPT !.cancelled = TRUE]

Cancelled(s) == (spawned \ TasksOf(s)) \cup {Cancel(k) : k \in TasksOf(s)}

\* JoinSet::shutdown aborts every task before it waits for them.
Drain(s) == DrainWith(s, Cancelled(s))

\* The stream is refused, breaks or ends, or a result cannot be sent.
Fails(s) == Drain(s)

\* Only the wait for a task looks at the stop channel.
StopSeen(s) == worker[s] = "receive" /\ s \in stop /\ Drain(s)

Drained(s) ==
    /\ worker[s] = "drain" /\ TasksOf(s) = {}
    /\ WorkerAt(s, "ended")
    /\ WorkerKeeps /\ UNCHANGED <<held, spawned, results, taken>>

\* The abort of the worker takes effect: its join set is dropped, which
\* aborts the tasks and does not wait for them.
DroppedLeaving(s, tasks) ==
    /\ s \in aborted /\ worker[s] \notin {"none", "ended"}
    /\ WorkerAt(s, "ended")
    /\ spawned' = tasks
    /\ results' = [results EXCEPT ![s] = <<>>]
    /\ held' = [held EXCEPT ![s] = {}]
    /\ WorkerKeeps /\ UNCHANGED taken

DroppedDetached(s) == DroppedLeaving(s, spawned)

Dropped(s) == DroppedLeaving(s, Cancelled(s))

-----------------------------------------------------------------------------
(* A spawned task k, and the connection *)

TaskKeeps == UNCHANGED <<main, session, worker, aborted, stop, held, lost, taken>>

Gone(k) == spawned' = spawned \ {k} /\ TaskKeeps

JobDone(k) ==
    /\ k.step = "run" /\ Kind[k.task] # "stream"
    /\ spawned' = (spawned \ {k}) \cup {[k EXCEPT !.step = "reply"]}
    /\ TaskKeeps /\ UNCHANGED <<results, answered>>

StreamDone(k) ==
    /\ k.step = "run" /\ Kind[k.task] = "stream"
    /\ Gone(k) /\ UNCHANGED <<results, answered>>

Closed(s) == s \in lost \/ worker[s] \in {"drain", "ended"}

\* What try_send would do.
ReplyIfRoom(k) ==
    /\ k.step = "reply" /\ ~Closed(k.session)
    /\ results' = IF Len(results[k.session]) < Capacity
                  THEN [results EXCEPT ![k.session] = Append(@, k.task)]
                  ELSE results
    /\ Gone(k) /\ UNCHANGED answered

Reply(k) ==
    /\ k.step = "reply" /\ ~Closed(k.session)
    /\ Len(results[k.session]) < Capacity
    /\ results' = [results EXCEPT ![k.session] = Append(@, k.task)]
    /\ Gone(k) /\ UNCHANGED answered

\* A result for a stream that is gone is dropped.
ReplyFails(k) ==
    /\ k.step = "reply" /\ Closed(k.session)
    /\ Gone(k) /\ UNCHANGED <<results, answered>>

TaskCancelled(k) == k.cancelled /\ Gone(k) /\ UNCHANGED <<results, answered>>

\* The dashboard reads a result.
Deliver(s) ==
    /\ s \notin lost /\ results[s] # <<>>
    /\ answered' = answered \cup {Head(results[s])}
    /\ results' = [results EXCEPT ![s] = Tail(@)]
    /\ UNCHANGED spawned /\ TaskKeeps

ConnectionLost(s) ==
    /\ s <= session /\ s \notin lost
    /\ lost' = lost \cup {s}
    /\ UNCHANGED <<main, session, worker, aborted, stop, held, spawned,
                   results, taken, answered>>

-----------------------------------------------------------------------------
MainStep ==
    \/ Start \/ StateOpened \/ Tick \/ StateSent \/ ReceiptArrives \/ HostReported
    \/ ReceiptFails \/ CallFails \/ WorkerEndSeen \/ LeaveAsked
    \/ WorkerJoined \/ JoinTimesOut

WorkerStep(s) ==
    \/ Opens(s)
    \/ \E t \in Tasks : ReceiveAndSpawn(s, t) \/ ReceiveAndHold(s, t)
    \/ Sends(s) \/ Fails(s) \/ StopSeen(s)
    \/ Drained(s) \/ Dropped(s)

TaskStep(k) ==
    JobDone(k) \/ StreamDone(k) \/ Reply(k) \/ ReplyFails(k) \/ TaskCancelled(k)

Next ==
    \/ MainStep
    \/ \E s \in Sessions : WorkerStep(s) \/ Deliver(s) \/ ConnectionLost(s)
    \/ \E k \in spawned : TaskStep(k)

Spec == Init /\ [][Next]_vars

\* The runtime schedules what is ready: timers, tasks, aborts, and calls on
\* a connection that the HTTP/2 keep-alive has found dead.  A branch of
\* select! that stays ready is chosen at some round, as the choice is
\* random.  Nothing is assumed of a dashboard that keeps the connection and
\* does not answer or read.
Fairness ==
    /\ WF_vars(Tick)
    /\ WF_vars(ReceiptFails)
    /\ WF_vars(session \in lost /\ CallFails)
    /\ SF_vars(WorkerEndSeen)
    /\ WF_vars(WorkerJoined \/ JoinTimesOut)
    /\ \A s \in Sessions :
          /\ WF_vars(Sends(s))
          /\ WF_vars(s \in lost /\ Fails(s))
          /\ WF_vars(StopSeen(s))
          /\ WF_vars(Drained(s))
          /\ WF_vars(Dropped(s))
    /\ \A s \in Sessions, t \in Tasks :
          LET Mine == {k \in spawned : k.session = s /\ k.task = t}
          IN  /\ WF_vars(\E k \in Mine : JobDone(k))
              /\ WF_vars(\E k \in Mine : Reply(k) \/ ReplyFails(k))
              /\ WF_vars(\E k \in Mine : TaskCancelled(k))

FairSpec == Spec /\ Fairness

-----------------------------------------------------------------------------
(* Properties *)

Over(s) == s < session \/ (s = session /\ main = "idle")

\* Nothing of a session that has ended goes on: its worker has ended or is
\* being aborted, and without a worker every task it spawned is being
\* cancelled (pending_iostream_open_is_cancelled_with_its_session of main.rs
\* tests one handle of this).
OverMeansCancelled ==
    \A s \in Sessions : Over(s) =>
        /\ worker[s] = "ended" \/ s \in aborted
        /\ worker[s] = "ended" => \A k \in TasksOf(s) : k.cancelled

\* Where the result of t is on its way.
Places(s, t) ==
    {<<"held", i>> : i \in held[s] \cap {t}}
      \cup {<<"task", k>> : k \in {j \in TasksOf(s) : j.task = t}}
      \cup {<<"channel", i>> : i \in {i \in DOMAIN results[s] : results[s][i] = t}}
      \cup {<<"answered", i>> : i \in answered \cap {t}}

\* While the worker's loop runs no result is lost or doubled, however full
\* the channel: a task is in one place, and one of kind "stream", which has no
\* result, nowhere once it ended.
ResultInOnePlace ==
    \A t \in Tasks : LET s == taken[t] IN
        s # 0 /\ worker[s] \in {"receive", "send"} /\ s \notin lost =>
            \/ Cardinality(Places(s, t)) = 1
            \/ Kind[t] = "stream" /\ Places(s, t) = {}

\* The tasks of a session that has ended do end, though the worker does not
\* look at the stop channel while it opens the stream or sends a result.
OverEnds ==
    \A s \in Sessions :
        Over(s) ~> (TasksOf(s) = {} /\ worker[s] \in {"none", "ended"})

\* The dashboard lets the calls that have no timeout return.
CallsReturn == []<>(main \notin Untimed)

\* A session whose worker has ended makes way for the next, whatever branches
\* are ready and however long it waits for receipts - unless the main loop
\* waits for ever for a call that has no timeout (lines 236 and 327, and
\* the send at 320).
WorkerEndNoticed ==
    CallsReturn => \A s \in Sessions : (worker[s] = "ended") ~> Over(s)

\* A task that the worker took and that has a result - so neither a stream nor
\* a task of unknown type (tasks.rs 38 to 41) - is answered, or its session is
\* lost or told to stop or the stream ended: as long as the dashboard reads,
\* the worker and the tasks never wait for each other.
DashboardReads == \A s \in Sessions : WF_vars(Deliver(s))

Answered ==
    DashboardReads =>
        \A t \in {u \in Tasks : Kind[u] # "stream"} :
            (taken[t] # 0)
                ~> (t \in answered
                      \/ \E s \in Sessions : taken[t] = s /\ worker[s] \in {"drain", "ended"})
=============================================================================
