------------------------- MODULE SessionTasksProofs -------------------------
(***************************************************************************)
(* That nothing of an ended session goes on, and that no result is lost or *)
(* doubled within one, for any tasks, any capacity and any number of       *)
(* sessions; and what a session reports of the agent's country.            *)
(***************************************************************************)
EXTENDS SessionTasks, SessionReport, SequenceTheorems, FiniteSetTheorems, TLAPS

-----------------------------------------------------------------------------
(* What the proofs add to these properties to make them inductive            *)

\* A worker that has shut down its join set leaves no task that would run on.
DrainedMeansCancelled ==
    \A s \in Sessions : worker[s] \in {"drain", "ended"} =>
        /\ \A k \in TasksOf(s) : k.cancelled
        /\ worker[s] = "ended" /\ s \notin aborted => TasksOf(s) = {}

SessionNumbered == main # "idle" => session \in Sessions

NotYet ==
    \A s \in Sessions : s > session => worker[s] = "none" /\ s \notin aborted

Queued(s) == {results[s][i] : i \in DOMAIN results[s]}

Once(q) == \A i, j \in DOMAIN q : q[i] = q[j] => i = j

\* A session has nothing of a task that another received, or none did.
OwnTasks ==
    /\ \A k \in spawned : taken[k.task] = k.session
    /\ \A s \in Sessions : \A t \in held[s] \cup Queued(s) : taken[t] = s
    /\ \A t \in answered : taken[t] # 0
    /\ \A t \in Tasks :
          taken[t] # 0 => worker[taken[t]] \notin {"none", "open"}

HeldToSend ==
    \A s \in Sessions :
        /\ worker[s] # "send" => held[s] = {}
        /\ \A t, u \in held[s] : t = u

\* The tasks of a worker whose loop still runs are not aborted.
CancelledByDrain ==
    \A k \in spawned : k.cancelled => worker[k.session] \in {"drain", "ended"}

\* No result is doubled, whatever becomes of the session ...
NoneDoubled ==
    /\ \A j, k \in spawned : j.task = k.task => j = k
    /\ \A k \in spawned :
          k.task \notin held[k.session] \cup Queued(k.session) \cup answered
    /\ \A s \in Sessions :
          /\ Once(results[s])
          /\ held[s] \cap Queued(s) = {}
          /\ (held[s] \cup Queued(s)) \cap answered = {}

\* ... and none is lost while the worker's loop runs on its connection.
NoneLost ==
    \A t \in Tasks : LET s == taken[t] IN
        s # 0 /\ worker[s] \in {"receive", "send"} /\ s \notin lost /\ Kind[t] # "stream" =>
            \/ t \in held[s] \cup Queued(s) \cup answered
            \/ \E k \in spawned : k.task = t

Ending ==
    /\ TypeOK
    /\ SessionNumbered
    /\ NotYet
    /\ OverMeansCancelled
    /\ DrainedMeansCancelled

Accounting ==
    OwnTasks /\ HeldToSend /\ CancelledByDrain /\ NoneDoubled /\ NoneLost

Inductive == Ending /\ Accounting

-----------------------------------------------------------------------------
\* What an abort and an advance make of a spawned task.
LEMMA TaskChanged ==
    ASSUME NEW k \in SpawnedTask
    PROVE  /\ Cancel(k) \in SpawnedTask
           /\ Cancel(k).session = k.session
           /\ Cancel(k).cancelled
           /\ [k EXCEPT !.step = "reply"] \in SpawnedTask
           /\ [k EXCEPT !.step = "reply"].session = k.session
           /\ k.cancelled => [k EXCEPT !.step = "reply"].cancelled
  BY DEF SpawnedTask, Cancel

\* The main loop's steps disturb the worker's record only in Start and in
\* JoinTimesOut.
LEMMA MainKeepsEnding ==
    Ending /\ MainStep => Ending'
<1> SUFFICES ASSUME Ending, MainStep PROVE Ending'
  OBVIOUS
<1> USE SizesAssumption DEF Ending, TypeOK, SessionNumbered, NotYet, Sessions,
        OverMeansCancelled, DrainedMeansCancelled, Over, TasksOf, MainKeeps, MainSteps
<1>1. CASE Start
  <2>1. main' = "opening" /\ session' = session + 1 /\ session + 1 \in Sessions
    BY <1>1 DEF Start
  <2>2. worker' = [worker EXCEPT ![session + 1] = "open"]
    BY <1>1 DEF Start
  <2>3. UNCHANGED <<aborted, stop, held, spawned, results, lost, taken, answered>>
    BY <1>1 DEF Start
  <2>4. TypeOK'
    BY <2>1, <2>2, <2>3 DEF WorkerSteps
  <2>5. \A s \in Sessions : s # session + 1 => worker'[s] = worker[s]
    BY <2>2
  <2>6. worker'[session + 1] = "open"
    BY <2>1, <2>2
  <2>7. main = "idle"
    BY <1>1 DEF Start
  <2>8. \A s \in Sessions : Over(s)' => Over(s) /\ s # session + 1
    BY <2>1, <2>7
  <2>9. (SessionNumbered /\ NotYet)'
    BY <2>1, <2>3, <2>5
  <2>10. OverMeansCancelled'
    BY <2>3, <2>5, <2>8
  <2>11. DrainedMeansCancelled'
    BY <2>1, <2>3, <2>5, <2>6
  <2> QED
    BY <2>4, <2>9, <2>10, <2>11
<1>2. CASE StateOpened \/ Tick \/ StateSent \/ ReceiptArrives \/ HostReported
  BY <1>2 DEF StateOpened, Tick, StateSent, ReceiptArrives, HostReported, MainAt
<1>3. CASE ReceiptFails \/ CallFails \/ WorkerEndSeen \/ LeaveAsked
  <2>1. main # "idle" /\ Leave
    BY <1>3 DEF ReceiptFails, CallFails, Untimed, WorkerEndSeen, LeaveAsked
  <2> QED
    BY <2>1 DEF Leave
<1>4. CASE WorkerJoined
  BY <1>4 DEF WorkerJoined, MainAt
<1>5. CASE JoinTimesOut
  BY <1>5 DEF JoinTimesOut
<1> QED
  BY <1>1, <1>2, <1>3, <1>4, <1>5 DEF MainStep

\* A worker's steps concern its own session, whose tasks it cancels before
\* it reaches drain or ended.
LEMMA WorkerKeepsEnding ==
    ASSUME NEW s \in Sessions, Ending, WorkerStep(s)
    PROVE  Ending'
<1> USE SizesAssumption DEF Ending, TypeOK, SessionNumbered, NotYet, Sessions,
        OverMeansCancelled, DrainedMeansCancelled, Over, TasksOf, WorkerKeeps,
        WorkerAt, WorkerSteps
<1>1. CASE Opens(s)
  BY <1>1 DEF Opens
<1>2. ASSUME NEW t \in Tasks, ReceiveAndSpawn(s, t) PROVE Ending'
  <2>1. Running(s, t) \in SpawnedTask
    BY DEF Running, SpawnedTask
  <2>2. /\ taken' \in [Tasks -> 0 .. MaxSessions]
        /\ worker[s] = "receive" /\ spawned' = spawned \cup {Running(s, t)}
        /\ UNCHANGED <<main, session, worker, aborted, stop, held, results, lost, answered>>
    BY <1>2 DEF ReceiveAndSpawn, Take
  <2>3. TypeOK'
    BY <2>1, <2>2
  <2>4. \A u \in Sessions : u # s => TasksOf(u)' = TasksOf(u)
    BY <2>2 DEF Running
  <2>5. (OverMeansCancelled /\ DrainedMeansCancelled)'
    BY <2>2, <2>4
  <2> QED
    BY <2>2, <2>3, <2>5
<1>3. ASSUME NEW t \in Tasks, ReceiveAndHold(s, t) PROVE Ending'
  BY <1>3 DEF ReceiveAndHold, Take
<1>4. CASE Sends(s)
  <2>1. PICK t \in held[s] : results' = [results EXCEPT ![s] = Append(results[s], t)]
    BY <1>4 DEF Sends
  <2>2. t \in Tasks /\ Append(results[s], t) \in Seq(Tasks)
    BY <2>1, AppendProperties
  <2>3. results' \in [Sessions -> Seq(Tasks)]
    BY <2>1, <2>2
  <2>4. /\ held' = [held EXCEPT ![s] = {}] /\ worker' = [worker EXCEPT ![s] = "receive"]
        /\ UNCHANGED <<main, session, aborted, stop, lost, answered, spawned, taken>>
    BY <1>4 DEF Sends
  <2>5. worker[s] = "send"
    BY <1>4 DEF Sends
  <2>6. TypeOK' /\ \A u \in Sessions : TasksOf(u)' = TasksOf(u)
    BY <2>3, <2>4
  <2>7. (SessionNumbered /\ NotYet)'
    BY <2>4, <2>5
  <2>8. (OverMeansCancelled /\ DrainedMeansCancelled)'
    BY <2>4, <2>5, <2>6
  <2> QED
    BY <2>6, <2>7, <2>8
<1>5. ASSUME NEW step \in {"drain", "ended"},
             worker[s] # "none",
             worker' = [worker EXCEPT ![s] = step],
             step = "ended" => s \in aborted,
             spawned' = Cancelled(s),
             results' = [results EXCEPT ![s] = <<>>],
             held' = [held EXCEPT ![s] = {}],
             worker[s] # "ended",
             WorkerKeeps, UNCHANGED taken
      PROVE  Ending'
  <2>1. \A k \in TasksOf(s) : /\ Cancel(k) \in SpawnedTask
                              /\ Cancel(k).session = s
                              /\ Cancel(k).cancelled
    BY TaskChanged
  <2>2. spawned' \in SUBSET SpawnedTask
    BY <1>5, <2>1 DEF Cancelled
  <2>3. \A u \in Sessions : u # s => TasksOf(u)' = TasksOf(u)
    BY <1>5, <2>1 DEF Cancelled
  <2>4. \A k \in TasksOf(s)' : k.cancelled
    BY <1>5, <2>1 DEF Cancelled
  <2>5. TypeOK'
    <3>1. results' \in [Sessions -> Seq(Tasks)]
      BY <1>5, EmptySeq
    <3> QED
      BY <1>5, <2>2, <3>1
  <2>6. (OverMeansCancelled /\ DrainedMeansCancelled)'
    BY <1>5, <2>3, <2>4
  <2> QED
    BY <1>5, <2>5, <2>6
<1>6. CASE Fails(s) \/ StopSeen(s)
  BY <1>6, <1>5 DEF Fails, StopSeen, Drain, DrainWith
<1>7. CASE Drained(s)
  BY <1>7 DEF Drained
<1>8. CASE Dropped(s)
  BY <1>8, <1>5 DEF Dropped, DroppedLeaving
<1> QED
  BY <1>1, <1>2, <1>3, <1>4, <1>6, <1>7, <1>8 DEF WorkerStep

\* A task's own steps and the connection cancel nothing and start nothing.
LEMMA OthersKeepEnding ==
    ASSUME Ending,
           \/ \E s \in Sessions : Deliver(s) \/ ConnectionLost(s)
           \/ \E k \in spawned : TaskStep(k)
    PROVE  Ending'
<1> USE DEF Ending, TypeOK, SessionNumbered, NotYet, OverMeansCancelled,
        DrainedMeansCancelled, Over, TasksOf, TaskKeeps
<1>1. ASSUME NEW s \in Sessions, Deliver(s) PROVE Ending'
  <2>1. results'[s] \in Seq(Tasks) /\ Head(results[s]) \in Tasks
    BY <1>1 DEF Deliver
  <2>2. results' \in [Sessions -> Seq(Tasks)] /\ answered' \in SUBSET Tasks
    BY <1>1, <2>1 DEF Deliver
  <2> QED
    BY <1>1, <2>2 DEF Deliver
<1>2. ASSUME NEW s \in Sessions, ConnectionLost(s) PROVE Ending'
  BY <1>2 DEF ConnectionLost
<1>3. ASSUME NEW k \in spawned, JobDone(k) PROVE Ending'
  <2> DEFINE done == [k EXCEPT !.step = "reply"]
  <2>1. done \in SpawnedTask /\ done.session = k.session
    BY TaskChanged
  <2>2. k.cancelled => done.cancelled
    BY TaskChanged
  <2>3. spawned' = (spawned \ {k}) \cup {done}
    BY <1>3 DEF JobDone
  <2>4. UNCHANGED <<main, session, worker, aborted, stop, held, results, lost, taken, answered>>
    BY <1>3 DEF JobDone
  <2> HIDE DEF done
  <2>5. TypeOK'
    BY <2>1, <2>3, <2>4
  <2>6. \A s \in Sessions : (\A j \in TasksOf(s) : j.cancelled) => \A j \in TasksOf(s)' : j.cancelled
    BY <2>1, <2>2, <2>3
  <2>7. \A s \in Sessions : TasksOf(s) = {} => TasksOf(s)' = {}
    BY <2>1, <2>3
  <2> QED
    BY <2>4, <2>5, <2>6, <2>7
<1>4. ASSUME NEW k \in spawned, Gone(k), UNCHANGED answered,
             results' \in [Sessions -> Seq(Tasks)]
      PROVE  Ending'
  BY <1>4 DEF Gone
<1>5. ASSUME NEW k \in spawned,
             StreamDone(k) \/ ReplyFails(k) \/ TaskCancelled(k)
      PROVE  Ending'
  BY <1>5, <1>4 DEF StreamDone, ReplyFails, TaskCancelled
<1>6. ASSUME NEW k \in spawned, Reply(k) PROVE Ending'
  <2>1. k.session \in Sessions /\ k.task \in Tasks
    BY DEF SpawnedTask
  <2>2. results' \in [Sessions -> Seq(Tasks)]
    BY <1>6, <2>1 DEF Reply
  <2> QED
    BY <1>6, <1>4, <2>2 DEF Reply
<1> QED
  BY <1>1, <1>2, <1>3, <1>5, <1>6 DEF TaskStep

-----------------------------------------------------------------------------
(* No result is lost or doubled                                              *)

\* A result that enters a channel.
LEMMA Enqueued ==
    ASSUME TypeOK, NEW s \in Sessions, NEW t \in Tasks,
           results' = [results EXCEPT ![s] = Append(@, t)]
    PROVE  /\ Queued(s)' = Queued(s) \cup {t}
           /\ \A u \in Sessions : u # s => results'[u] = results[u]
           /\ Once(results[s]) /\ t \notin Queued(s) => Once(results'[s])
<1> DEFINE q == results[s]
<1>1. q \in Seq(Tasks) /\ results'[s] = Append(q, t)
  BY DEF TypeOK
<1>2. \A u \in Sessions : u # s => results'[u] = results[u]
  BY DEF TypeOK
<1> HIDE DEF q
<1>3. /\ DOMAIN q = 1 .. Len(q) /\ Len(q) \in Nat
      /\ DOMAIN results'[s] = 1 .. Len(q) + 1
      /\ \A i \in 1 .. Len(q) : results'[s][i] = q[i]
      /\ results'[s][Len(q) + 1] = t
  BY <1>1
<1>4. Queued(s) = {q[i] : i \in DOMAIN q}
  BY DEF Queued, q
<1>5. Queued(s)' = Queued(s) \cup {t}
  BY <1>3, <1>4 DEF Queued
<1>6. Once(q) /\ t \notin Queued(s) => Once(results'[s])
  BY <1>3, <1>4 DEF Once
<1> QED
  BY <1>2, <1>5, <1>6 DEF q

\* A result that leaves a channel.
LEMMA Dequeued ==
    ASSUME TypeOK, NEW s \in Sessions, results[s] # <<>>,
           results' = [results EXCEPT ![s] = Tail(@)]
    PROVE  /\ Queued(s) = Queued(s)' \cup {Head(results[s])}
           /\ \A u \in Sessions : u # s => results'[u] = results[u]
           /\ Once(results[s]) =>
                 Once(results'[s]) /\ Head(results[s]) \notin Queued(s)'
<1> DEFINE q == results[s]
           w == results'[s]
<1>1. q \in Seq(Tasks) /\ q # <<>> /\ w = Tail(q)
  BY DEF TypeOK
<1>2. \A u \in Sessions : u # s => results'[u] = results[u]
  BY DEF TypeOK
<1> HIDE DEF q, w
<1>3. /\ DOMAIN q = 1 .. Len(q) /\ Len(q) \in Nat \ {0}
      /\ DOMAIN w = 1 .. Len(q) - 1
      /\ \A i \in 1 .. Len(q) - 1 : w[i] = q[i + 1]
      /\ Head(q) = q[1]
  <2>1. Len(q) \in Nat /\ Len(q) # 0 /\ DOMAIN q = 1 .. Len(q)
    BY <1>1, EmptySeq, LenProperties
  <2>2. /\ Len(Tail(q)) = Len(q) - 1
        /\ \A i \in 1 .. Len(Tail(q)) : Tail(q)[i] = q[i + 1]
        /\ Tail(q) \in Seq(Tasks)
    BY <1>1, HeadTailProperties
  <2>3. DOMAIN Tail(q) = 1 .. Len(Tail(q))
    BY <2>2, LenProperties
  <2>4. Head(q) = q[1]
    OBVIOUS
  <2> QED
    BY <1>1, <2>1, <2>2, <2>3, <2>4
<1>4. Queued(s) = {q[i] : i \in DOMAIN q} /\ Queued(s)' = {w[i] : i \in DOMAIN w}
  BY DEF Queued, q, w
<1>5. \A i \in 1 .. Len(q) - 1 : w[i] = q[i + 1] /\ i + 1 \in 1 .. Len(q)
  BY <1>3
<1>6. Queued(s)' \cup {Head(q)} \subseteq Queued(s)
  BY <1>3, <1>4, <1>5
<1>7. Queued(s) \subseteq Queued(s)' \cup {Head(q)}
  <2> SUFFICES ASSUME NEW i \in 1 .. Len(q), i # 1
               PROVE  q[i] \in Queued(s)'
    BY <1>3, <1>4
  <2>1. i - 1 \in 1 .. Len(q) - 1 /\ (i - 1) + 1 = i
    BY <1>3
  <2>2. q[i] = w[i - 1] /\ i - 1 \in DOMAIN w
    BY <1>3, <2>1
  <2> QED
    BY <1>4, <2>2
<1>8. ASSUME Once(q) PROVE Once(w) /\ Head(q) \notin Queued(s)'
  <2>1. \A i, j \in 1 .. Len(q) : q[i] = q[j] => i = j
    BY <1>3, <1>8 DEF Once
  <2>2. \A i, j \in 1 .. Len(q) - 1 : w[i] = w[j] => i = j
    BY <1>3, <2>1
  <2>3. \A i \in 1 .. Len(q) - 1 : w[i] # q[1]
    BY <1>3, <2>1
  <2>4. Once(w)
    BY <1>3, <2>2 DEF Once
  <2>5. Head(q) \notin Queued(s)'
    BY <1>3, <1>4, <2>3
  <2> QED
    BY <2>4, <2>5
<1> QED
  BY <1>2, <1>6, <1>7, <1>8 DEF q, w

\* The main loop touches neither tasks nor results.
LEMMA MainKeepsAccounting ==
    Ending /\ Accounting /\ MainStep => Accounting'
<1> SUFFICES ASSUME Ending, Accounting, MainStep PROVE Accounting'
  OBVIOUS
<1> USE DEF Accounting, OwnTasks, HeldToSend, CancelledByDrain, NoneDoubled, NoneLost,
        Queued, Once, MainKeeps
<1>1. CASE Start
  <2>1. UNCHANGED <<held, spawned, results, lost, taken, answered>>
    BY <1>1 DEF Start
  <2>2. session \in 0 .. MaxSessions /\ session + 1 \in Sessions
    BY <1>1, SizesAssumption DEF Start, Ending, TypeOK, Sessions
  <2>3. worker[session + 1] = "none"
    BY <2>2 DEF Ending, NotYet, Sessions
  <2>4. worker' = [worker EXCEPT ![session + 1] = "open"] /\ worker \in [Sessions -> WorkerSteps]
    BY <1>1 DEF Start, Ending, TypeOK
  <2>5. \A s \in Sessions :
           worker'[s] = worker[s] \/ (worker[s] = "none" /\ worker'[s] = "open")
    BY <2>2, <2>3, <2>4
  <2>6. OwnTasks' /\ NoneDoubled'
    <3>1. NoneDoubled'
      BY <2>1
    <3>2. \A t \in Tasks : taken[t] # 0 => taken[t] \in Sessions
      BY DEF Ending, TypeOK, Sessions
    <3> QED
      BY <2>1, <2>2, <2>3, <2>4, <2>5, <3>1, <3>2
  <2>7. HeldToSend'
    BY <2>1, <2>5
  <2>8. CancelledByDrain'
    <3>1. \A k \in spawned : k.session \in Sessions
      BY DEF Ending, TypeOK, SpawnedTask
    <3> QED
      BY <2>1, <2>5, <3>1
  <2>9. NoneLost'
    <3>1. \A t \in Tasks : taken[t] # 0 => taken[t] \in Sessions
      BY DEF Ending, TypeOK, Sessions
    <3> QED
      BY <2>1, <2>5, <3>1
  <2> QED
    BY <2>6, <2>7, <2>8, <2>9
<1>2. CASE UNCHANGED <<worker, held, spawned, results, lost, taken, answered>>
  BY <1>2
<1>3. Start \/ UNCHANGED <<worker, held, spawned, results, lost, taken, answered>>
  BY DEF MainStep, StateOpened, Tick, StateSent, ReceiptArrives, HostReported, MainAt,
     ReceiptFails, CallFails, WorkerEndSeen, LeaveAsked, Leave, WorkerJoined, JoinTimesOut
<1> QED
  BY <1>1, <1>2, <1>3

\* What the worker aborts keeps its task and its session.
LEMMA CancelledTasks ==
    ASSUME NEW s \in Sessions, TypeOK
    PROVE  \E f \in [spawned -> SpawnedTask] :
              /\ Cancelled(s) = {f[k] : k \in spawned}
              /\ \A k \in spawned :
                    /\ f[k].task = k.task /\ f[k].session = k.session
                    /\ k.session # s => (f[k].cancelled => k.cancelled)
<1> DEFINE f == [k \in spawned |-> IF k.session = s THEN Cancel(k) ELSE k]
<1>1. \A k \in spawned :
         k \in SpawnedTask /\ Cancel(k) \in SpawnedTask
           /\ Cancel(k).task = k.task /\ Cancel(k).session = k.session
  BY DEF TypeOK, SpawnedTask, Cancel
<1>2. f \in [spawned -> SpawnedTask]
  BY <1>1
<1>3. \A k \in spawned : f[k].task = k.task /\ f[k].session = k.session
  BY <1>1
<1>4. \A k \in spawned : k.session # s => (f[k].cancelled => k.cancelled)
  OBVIOUS
<1>5. Cancelled(s) = {f[k] : k \in spawned}
  BY DEF Cancelled, TasksOf
<1> QED
  BY <1>2, <1>3, <1>4, <1>5

\* A worker receives each task once, and passes it on.
LEMMA WorkerKeepsAccounting ==
    ASSUME NEW s \in Sessions, Ending, Accounting, WorkerStep(s)
    PROVE  Accounting'
<1>1. /\ worker \in [Sessions -> WorkerSteps]
      /\ held \in [Sessions -> SUBSET Tasks]
      /\ taken \in [Tasks -> 0 .. MaxSessions]
      /\ results \in [Sessions -> Seq(Tasks)]
      /\ answered \in SUBSET Tasks
      /\ \A k \in spawned : k.session \in Sessions /\ k.task \in Tasks
      /\ 0 \notin Sessions
      /\ \A t \in Tasks : taken[t] # 0 => taken[t] \in Sessions
  BY SizesAssumption DEF Ending, TypeOK, SpawnedTask, Sessions
<1>2. OwnTasks /\ HeldToSend /\ CancelledByDrain /\ NoneDoubled /\ NoneLost
  BY DEF Accounting
<1>3. \A u : results'[u] = results[u] => Queued(u)' = Queued(u)
  BY DEF Queued
<1>4. CASE Opens(s)
  <2>1. /\ worker[s] = "open" /\ worker' = [worker EXCEPT ![s] = "receive"]
        /\ UNCHANGED <<held, spawned, results, taken, lost, answered>>
    BY <1>4 DEF Opens, WorkerAt, WorkerKeeps
  <2>2. \A u : Queued(u)' = Queued(u)
    BY <2>1, <1>3
  <2>3. OwnTasks'
    BY <1>1, <1>2, <2>1, <2>2 DEF OwnTasks
  <2>4. HeldToSend' /\ CancelledByDrain'
    BY <1>1, <1>2, <2>1 DEF HeldToSend, CancelledByDrain
  <2>5. NoneDoubled'
    BY <1>2, <2>1, <2>2 DEF NoneDoubled
  <2>6. NoneLost'
    BY <1>1, <1>2, <2>1, <2>2 DEF NoneLost, OwnTasks
  <2> QED
    BY <2>3, <2>4, <2>5, <2>6 DEF Accounting
<1>5. ASSUME NEW t \in Tasks, taken[t] = 0
      PROVE  /\ \A k \in spawned : k.task # t
             /\ \A u \in Sessions : t \notin held[u] /\ t \notin Queued(u)
             /\ t \notin answered
  BY <1>1, <1>2, <1>5 DEF OwnTasks
<1>6. ASSUME NEW t \in Tasks, ReceiveAndSpawn(s, t) PROVE Accounting'
  <2> DEFINE r == Running(s, t)
  <2>1. /\ worker[s] = "receive" /\ taken[t] = 0
        /\ taken' = [taken EXCEPT ![t] = s]
        /\ spawned' = spawned \cup {r}
        /\ UNCHANGED <<worker, held, results, lost, answered>>
    BY <1>6 DEF ReceiveAndSpawn, Take, WorkerKeeps
  <2>2. r.task = t /\ r.session = s /\ r.cancelled = FALSE
    BY DEF Running
  <2> HIDE DEF r
  <2>3. \A u : Queued(u)' = Queued(u)
    BY <2>1, <1>3
  <2>4. /\ \A k \in spawned : k.task # t
        /\ \A u \in Sessions : t \notin held[u] /\ t \notin Queued(u)
        /\ t \notin answered
    BY <1>5, <2>1
  <2>5. OwnTasks'
    BY <1>1, <1>2, <2>1, <2>2, <2>3, <2>4 DEF OwnTasks
  <2>6. HeldToSend' /\ CancelledByDrain'
    BY <1>2, <2>1, <2>2 DEF HeldToSend, CancelledByDrain
  <2>7. NoneDoubled'
    BY <1>2, <2>1, <2>2, <2>3, <2>4 DEF NoneDoubled
  <2>8. NoneLost'
    BY <1>1, <1>2, <2>1, <2>2, <2>3 DEF NoneLost
  <2> QED
    BY <2>5, <2>6, <2>7, <2>8 DEF Accounting
<1>7. ASSUME NEW t \in Tasks, ReceiveAndHold(s, t) PROVE Accounting'
  <2>1. /\ worker[s] = "receive" /\ taken[t] = 0
        /\ taken' = [taken EXCEPT ![t] = s]
        /\ held' = [held EXCEPT ![s] = {t}]
        /\ worker' = [worker EXCEPT ![s] = "send"]
        /\ UNCHANGED <<spawned, results, lost, answered>>
    BY <1>7 DEF ReceiveAndHold, Take, WorkerAt, WorkerKeeps
  <2>2. held'[s] = {t} /\ \A u \in Sessions : u # s => held'[u] = held[u]
    BY <1>1, <2>1
  <2>3. \A u : Queued(u)' = Queued(u)
    BY <2>1, <1>3
  <2>4. /\ \A k \in spawned : k.task # t
        /\ \A u \in Sessions : t \notin held[u] /\ t \notin Queued(u)
        /\ t \notin answered
    BY <1>5, <2>1
  <2>5. OwnTasks'
    BY <1>1, <1>2, <2>1, <2>2, <2>3, <2>4 DEF OwnTasks
  <2>6. HeldToSend' /\ CancelledByDrain'
    BY <1>1, <1>2, <2>1, <2>2 DEF HeldToSend, CancelledByDrain
  <2>7. NoneDoubled'
    BY <1>1, <1>2, <2>1, <2>2, <2>3, <2>4 DEF NoneDoubled
  <2>8. NoneLost'
    BY <1>1, <1>2, <2>1, <2>2, <2>3 DEF NoneLost, HeldToSend
  <2> QED
    BY <2>5, <2>6, <2>7, <2>8 DEF Accounting
<1>8. CASE Sends(s)
  <2>1. PICK t \in held[s] : results' = [results EXCEPT ![s] = Append(@, t)]
    BY <1>8 DEF Sends
  <2>2. /\ worker[s] = "send" /\ worker' = [worker EXCEPT ![s] = "receive"]
        /\ held' = [held EXCEPT ![s] = {}]
        /\ UNCHANGED <<spawned, taken, lost, answered>>
    BY <1>8 DEF Sends, WorkerAt, WorkerKeeps
  <2>3. t \in Tasks
    BY <1>1, <2>1
  <2>4. /\ Queued(s)' = Queued(s) \cup {t}
        /\ \A u \in Sessions : u # s => results'[u] = results[u]
        /\ Once(results[s]) /\ t \notin Queued(s) => Once(results'[s])
    BY <2>1, <2>3, Enqueued DEF Ending
  <2>5. \A u \in Sessions : u # s => Queued(u)' = Queued(u)
    BY <1>3, <2>4
  <2>6. held'[s] = {} /\ \A u \in Sessions : u # s => held'[u] = held[u]
    BY <1>1, <2>2
  <2>7. held[s] = {t} /\ taken[t] = s
    BY <1>2, <2>1 DEF HeldToSend, OwnTasks
  <2>8. OwnTasks'
    BY <1>1, <1>2, <2>2, <2>4, <2>5, <2>6, <2>7 DEF OwnTasks
  <2>9. HeldToSend' /\ CancelledByDrain'
    BY <1>1, <1>2, <2>2, <2>6 DEF HeldToSend, CancelledByDrain
  <2>10. NoneDoubled'
    BY <1>1, <1>2, <2>2, <2>4, <2>5, <2>6, <2>7 DEF NoneDoubled
  <2>11. NoneLost'
    BY <1>1, <1>2, <2>2, <2>4, <2>5, <2>6, <2>7 DEF NoneLost
  <2> QED
    BY <2>8, <2>9, <2>10, <2>11 DEF Accounting
<1>9. ASSUME NEW step \in {"drain", "ended"}, worker[s] \notin {"none", "ended"},
             worker' = [worker EXCEPT ![s] = step],
             spawned' = Cancelled(s),
             results' = [results EXCEPT ![s] = <<>>],
             held' = [held EXCEPT ![s] = {}],
             WorkerKeeps, UNCHANGED taken
      PROVE  Accounting'
  <2>1. PICK f \in [spawned -> SpawnedTask] :
              /\ spawned' = {f[k] : k \in spawned}
              /\ \A k \in spawned :
                    /\ f[k].task = k.task /\ f[k].session = k.session
                    /\ k.session # s => (f[k].cancelled => k.cancelled)
    BY <1>9, CancelledTasks DEF Ending
  <2>13. \A k \in spawned : f[k] \in spawned'
    BY <2>1
  <2>14. \A j \in spawned' : \E k \in spawned :
            /\ j = f[k] /\ j.task = k.task /\ j.session = k.session
            /\ k.session # s => (j.cancelled => k.cancelled)
    BY <2>1
  <2>2. /\ worker'[s] \in {"drain", "ended"}
        /\ \A u \in Sessions : u # s => worker'[u] = worker[u]
    BY <1>1, <1>9
  <2>3. held'[s] = {} /\ \A u \in Sessions : u # s => held'[u] = held[u]
    BY <1>1, <1>9
  <2>4. results'[s] = <<>> /\ \A u \in Sessions : u # s => results'[u] = results[u]
    BY <1>1, <1>9
  <2>5. Queued(s)' = {} /\ Once(results'[s])
    BY <2>4 DEF Queued, Once
  <2>6. \A u \in Sessions : u # s => Queued(u)' = Queued(u)
    BY <1>3, <2>4
  <2>7. UNCHANGED <<taken, lost, answered>>
    BY <1>9 DEF WorkerKeeps
  <2>8. OwnTasks'
    <3>1. \A k \in spawned' : taken[k.task] = k.session
      BY <1>2, <2>1 DEF OwnTasks
    <3>2. \A u \in Sessions : \A t \in held'[u] \cup Queued(u)' : taken[t] = u
      BY <1>2, <2>3, <2>5, <2>6 DEF OwnTasks
    <3>3. \A t \in Tasks : taken[t] # 0 => worker'[taken[t]] \notin {"none", "open"}
      BY <1>1, <1>2, <2>2 DEF OwnTasks
    <3> QED
      BY <1>2, <2>7, <3>1, <3>2, <3>3 DEF OwnTasks
  <2>9. HeldToSend'
    BY <1>2, <2>2, <2>3 DEF HeldToSend
  <2>10. CancelledByDrain'
    <3> SUFFICES ASSUME NEW j \in spawned', j.cancelled
                 PROVE  worker'[j.session] \in {"drain", "ended"}
      BY DEF CancelledByDrain
    <3>1. PICK k \in spawned :
             /\ j.session = k.session
             /\ k.session # s => (j.cancelled => k.cancelled)
      BY <2>14
    <3>2. k.session \in Sessions
      BY <1>1
    <3>3. k.session # s => worker[k.session] \in {"drain", "ended"}
      BY <1>2, <3>1 DEF CancelledByDrain
    <3> QED
      BY <2>2, <3>1, <3>2, <3>3
  <2>11. NoneDoubled'
    <3>1. \A j, k \in spawned' : j.task = k.task => j = k
      BY <1>2, <2>14 DEF NoneDoubled
    <3>2. \A u \in Sessions : held'[u] \subseteq held[u] /\ Queued(u)' \subseteq Queued(u)
      BY <2>3, <2>5, <2>6
    <3>3. \A k \in spawned' : k.session \in Sessions
            /\ k.task \notin held[k.session] \cup Queued(k.session) \cup answered
      BY <1>1, <1>2, <2>14 DEF NoneDoubled
    <3>4. \A u \in Sessions : Once(results'[u])
      BY <1>2, <2>4, <2>5 DEF NoneDoubled
    <3> QED
      BY <1>2, <2>7, <3>1, <3>2, <3>3, <3>4 DEF NoneDoubled
  <2>12. NoneLost'
    <3> SUFFICES ASSUME NEW t \in Tasks, taken[t] # 0, taken[t] \notin lost,
                        worker'[taken[t]] \in {"receive", "send"}, Kind[t] # "stream"
                 PROVE  \/ t \in held'[taken[t]] \cup Queued(taken[t])' \cup answered
                        \/ \E k \in spawned' : k.task = t
      BY <2>7 DEF NoneLost
    <3>1. taken[t] \in Sessions /\ taken[t] # s /\ worker'[taken[t]] = worker[taken[t]]
      BY <1>1, <2>2
    <3>2. \/ t \in held[taken[t]] \cup Queued(taken[t]) \cup answered
          \/ \E k \in spawned : k.task = t
      BY <1>2, <3>1 DEF NoneLost
    <3>3. (\E k \in spawned : k.task = t) => \E k \in spawned' : k.task = t
      BY <2>1, <2>13
    <3> QED
      BY <2>3, <2>6, <2>7, <3>1, <3>2, <3>3
  <2> QED
    BY <2>8, <2>9, <2>10, <2>11, <2>12 DEF Accounting
<1>10. CASE Fails(s) \/ StopSeen(s)
  BY <1>10, <1>9 DEF Fails, StopSeen, Drain, DrainWith, WorkerAt
<1>11. CASE Drained(s)
  <2>1. /\ worker[s] = "drain" /\ worker' = [worker EXCEPT ![s] = "ended"]
        /\ UNCHANGED <<held, spawned, results, taken, lost, answered>>
    BY <1>11 DEF Drained, WorkerAt, WorkerKeeps
  <2>2. \A u : Queued(u)' = Queued(u)
    BY <2>1, <1>3
  <2>3. OwnTasks'
    BY <1>1, <1>2, <2>1, <2>2 DEF OwnTasks
  <2>4. HeldToSend' /\ CancelledByDrain'
    BY <1>1, <1>2, <2>1 DEF HeldToSend, CancelledByDrain
  <2>5. NoneDoubled'
    BY <1>2, <2>1, <2>2 DEF NoneDoubled
  <2>6. NoneLost'
    BY <1>1, <1>2, <2>1, <2>2 DEF NoneLost
  <2> QED
    BY <2>3, <2>4, <2>5, <2>6 DEF Accounting
<1>12. CASE Dropped(s)
  BY <1>12, <1>9 DEF Dropped, DroppedLeaving, WorkerAt
<1> QED
  BY <1>4, <1>6, <1>7, <1>8, <1>10, <1>11, <1>12 DEF WorkerStep

\* A task of its own that ends has replied, unless nobody would read it.
LEMMA OthersKeepAccounting ==
    ASSUME Ending, Accounting,
           \/ \E s \in Sessions : Deliver(s) \/ ConnectionLost(s)
           \/ \E k \in spawned : TaskStep(k)
    PROVE  Accounting'
<1>1. /\ worker \in [Sessions -> WorkerSteps]
      /\ taken \in [Tasks -> 0 .. MaxSessions]
      /\ results \in [Sessions -> Seq(Tasks)]
      /\ \A k \in spawned : k \in SpawnedTask /\ k.session \in Sessions /\ k.task \in Tasks
      /\ 0 \notin Sessions
      /\ \A t \in Tasks : taken[t] # 0 => taken[t] \in Sessions
  BY SizesAssumption DEF Ending, TypeOK, SpawnedTask, Sessions
<1>2. OwnTasks /\ HeldToSend /\ CancelledByDrain /\ NoneDoubled /\ NoneLost
  BY DEF Accounting
<1>3. \A u : results'[u] = results[u] => Queued(u)' = Queued(u)
  BY DEF Queued
<1>4. ASSUME NEW s \in Sessions, Deliver(s) PROVE Accounting'
  <2> DEFINE t == Head(results[s])
  <2>1. /\ results[s] # <<>> /\ results' = [results EXCEPT ![s] = Tail(@)]
        /\ answered' = answered \cup {t}
        /\ UNCHANGED <<worker, held, spawned, taken, lost>>
    BY <1>4 DEF Deliver, TaskKeeps
  <2>2. /\ Queued(s) = Queued(s)' \cup {t}
        /\ \A u \in Sessions : u # s => results'[u] = results[u]
        /\ Once(results[s]) => Once(results'[s]) /\ t \notin Queued(s)'
    BY <2>1, Dequeued DEF Ending
  <2> HIDE DEF t
  <2>3. \A u \in Sessions : u # s => Queued(u)' = Queued(u)
    BY <1>3, <2>2
  <2>4. Once(results[s]) /\ taken[t] = s
    BY <1>2, <2>2 DEF OwnTasks, NoneDoubled
  <2>5. OwnTasks'
    <3>1. \A u \in Sessions : Queued(u)' \subseteq Queued(u)
      BY <2>2, <2>3
    <3>2. \A u \in answered' : taken[u] # 0
      BY <1>1, <1>2, <2>1, <2>4 DEF OwnTasks
    <3> QED
      BY <1>2, <2>1, <3>1, <3>2 DEF OwnTasks
  <2>6. HeldToSend' /\ CancelledByDrain'
    BY <1>2, <2>1 DEF HeldToSend, CancelledByDrain
  <2>7. NoneDoubled'
    <3>1. \A u \in Sessions : Once(results'[u])
      BY <1>2, <2>2 DEF NoneDoubled
    <3>2. \A u \in Sessions : u # s => t \notin held[u] \cup Queued(u)
      BY <1>2, <2>4 DEF OwnTasks
    <3>3. \A k \in spawned : k.task # t
      BY <1>2, <2>2, <2>4 DEF NoneDoubled, OwnTasks
    <3>4. t \notin held[s] /\ t \notin Queued(s)'
      BY <1>2, <2>2, <2>4 DEF NoneDoubled
    <3>5. \A u \in Sessions : Queued(u)' \subseteq Queued(u) /\ t \notin held[u] /\ t \notin Queued(u)'
      BY <2>2, <2>3, <3>2, <3>4
    <3>6. \A k \in spawned :
             k.task \notin held[k.session] \cup Queued(k.session)' \cup answered'
      BY <1>1, <1>2, <2>1, <3>3, <3>5 DEF NoneDoubled
    <3>7. \A u \in Sessions :
             /\ held[u] \cap Queued(u)' = {}
             /\ (held[u] \cup Queued(u)') \cap answered' = {}
      BY <1>2, <2>1, <3>5 DEF NoneDoubled
    <3> QED
      BY <1>2, <2>1, <3>1, <3>6, <3>7 DEF NoneDoubled
  <2>8. NoneLost'
    BY <1>1, <1>2, <2>1, <2>2, <2>3 DEF NoneLost
  <2> QED
    BY <2>5, <2>6, <2>7, <2>8 DEF Accounting
<1>5. ASSUME NEW s \in Sessions, ConnectionLost(s) PROVE Accounting'
  <2>1. lost \subseteq lost' /\ UNCHANGED <<worker, held, spawned, results, taken, answered>>
    BY <1>5 DEF ConnectionLost
  <2>2. \A u : Queued(u)' = Queued(u)
    BY <1>3, <2>1
  <2> QED
    BY <1>2, <2>1, <2>2 DEF Accounting, OwnTasks, HeldToSend, CancelledByDrain, NoneDoubled, NoneLost
<1>6. ASSUME NEW k \in spawned, JobDone(k) PROVE Accounting'
  <2> DEFINE done == [k EXCEPT !.step = "reply"]
  <2>1. done.task = k.task /\ done.session = k.session /\ done.cancelled = k.cancelled
    BY <1>1 DEF SpawnedTask
  <2>2. /\ spawned' = (spawned \ {k}) \cup {done}
        /\ UNCHANGED <<worker, held, results, taken, lost, answered>>
    BY <1>6 DEF JobDone, TaskKeeps
  <2> HIDE DEF done
  <2>3. \A u : Queued(u)' = Queued(u)
    BY <1>3, <2>2
  <2>4. OwnTasks' /\ HeldToSend' /\ CancelledByDrain'
    BY <1>2, <2>1, <2>2, <2>3 DEF OwnTasks, HeldToSend, CancelledByDrain
  <2>5. NoneDoubled'
    BY <1>2, <2>1, <2>2, <2>3 DEF NoneDoubled
  <2>6. NoneLost'
    BY <1>2, <2>1, <2>2, <2>3 DEF NoneLost
  <2> QED
    BY <2>4, <2>5, <2>6 DEF Accounting
<1>7. ASSUME NEW k \in spawned,
             StreamDone(k) \/ ReplyFails(k) \/ TaskCancelled(k)
      PROVE  Accounting'
  <2>1. /\ spawned' = spawned \ {k}
        /\ UNCHANGED <<worker, held, results, taken, lost, answered>>
    BY <1>7 DEF StreamDone, ReplyFails, TaskCancelled, Gone, TaskKeeps
  <2>2. \A u : Queued(u)' = Queued(u)
    BY <1>3, <2>1
  <2>3. \/ Kind[k.task] = "stream"
        \/ k.session \in lost
        \/ worker[k.session] \in {"drain", "ended"}
    BY <1>2, <1>7 DEF StreamDone, ReplyFails, TaskCancelled, Closed, CancelledByDrain
  <2>4. OwnTasks' /\ HeldToSend' /\ CancelledByDrain' /\ NoneDoubled'
    BY <1>2, <2>1, <2>2 DEF OwnTasks, HeldToSend, CancelledByDrain, NoneDoubled
  <2>5. NoneLost'
    BY <1>2, <2>1, <2>2, <2>3 DEF NoneLost, OwnTasks
  <2> QED
    BY <2>4, <2>5 DEF Accounting
<1>8. ASSUME NEW k \in spawned, Reply(k) PROVE Accounting'
  <2> DEFINE s == k.session
             t == k.task
  <2>1. /\ spawned' = spawned \ {k}
        /\ results' = [results EXCEPT ![s] = Append(@, t)]
        /\ UNCHANGED <<worker, held, taken, lost, answered>>
    BY <1>8 DEF Reply, Gone, TaskKeeps
  <2>2. s \in Sessions /\ t \in Tasks
    BY <1>1
  <2>3. /\ Queued(s)' = Queued(s) \cup {t}
        /\ \A u \in Sessions : u # s => results'[u] = results[u]
        /\ Once(results[s]) /\ t \notin Queued(s) => Once(results'[s])
    BY <2>1, <2>2, Enqueued DEF Ending
  <2>4. /\ taken[t] = s
        /\ t \notin held[s] \cup Queued(s) \cup answered
        /\ \A j \in spawned : j.task = t => j = k
    BY <1>2 DEF OwnTasks, NoneDoubled
  <2> HIDE DEF s, t
  <2>5. \A u \in Sessions : u # s => Queued(u)' = Queued(u)
    BY <1>3, <2>3
  <2>6. OwnTasks' /\ HeldToSend' /\ CancelledByDrain'
    BY <1>2, <2>1, <2>2, <2>3, <2>4, <2>5 DEF OwnTasks, HeldToSend, CancelledByDrain
  <2>7. NoneDoubled'
    <3>1. \A u \in Sessions : Once(results'[u])
      BY <1>2, <2>3, <2>4 DEF NoneDoubled
    <3>2. \A u \in Sessions : u # s => t \notin Queued(u) /\ t \notin held[u]
      BY <1>2, <2>4 DEF OwnTasks
    <3>3. \A u \in Sessions : \A x : x # t => (x \in Queued(u)' <=> x \in Queued(u))
      BY <2>3, <2>5
    <3>4. \A j \in spawned' : j \in spawned /\ j.task # t
      BY <2>1, <2>4
    <3>5. \A j \in spawned' :
             j.task \notin held[j.session] \cup Queued(j.session)' \cup answered
      BY <1>1, <1>2, <3>3, <3>4 DEF NoneDoubled
    <3>6. \A u \in Sessions : t \in Queued(u)' => t \notin held[u] /\ t \notin answered
      BY <2>4, <2>5, <3>2
    <3>7. \A u \in Sessions :
             /\ held[u] \cap Queued(u)' = {}
             /\ (held[u] \cup Queued(u)') \cap answered = {}
      BY <1>2, <3>3, <3>6 DEF NoneDoubled
    <3> QED
      BY <1>2, <2>1, <3>1, <3>4, <3>5, <3>7 DEF NoneDoubled
  <2>8. NoneLost'
    <3>1. \A u \in Sessions : Queued(u) \subseteq Queued(u)'
      BY <2>3, <2>5
    <3>2. t \in Queued(taken[t])'
      BY <2>1, <2>3, <2>4
    <3> QED
      BY <1>1, <1>2, <2>1, <3>1, <3>2 DEF NoneLost, t
  <2> QED
    BY <2>6, <2>7, <2>8 DEF Accounting
<1> QED
  BY <1>4, <1>5, <1>6, <1>7, <1>8 DEF TaskStep

\* Without a result in two places and with none missing, the places of a
\* task are a singleton.
LEMMA OneIsEnough ==
    Inductive => ResultInOnePlace
<1> SUFFICES ASSUME Inductive, NEW t \in Tasks, taken[t] # 0,
                    worker[taken[t]] \in {"receive", "send"}, taken[t] \notin lost
             PROVE  \/ Cardinality(Places(taken[t], t)) = 1
                    \/ Kind[t] = "stream" /\ Places(taken[t], t) = {}
  BY DEF ResultInOnePlace
<1> DEFINE s == taken[t]
           H == {<<"held", i>> : i \in held[s] \cap {t}}
           K == {<<"task", k>> : k \in {j \in TasksOf(s) : j.task = t}}
           Q == {<<"channel", i>> : i \in {i \in DOMAIN results[s] : results[s][i] = t}}
           A == {<<"answered", i>> : i \in answered \cap {t}}
<1>1. s \in Sessions /\ TypeOK /\ OwnTasks /\ NoneDoubled /\ NoneLost
  BY DEF Inductive, Ending, Accounting, TypeOK, Sessions
<1>2. Places(s, t) = H \cup K \cup Q \cup A
  BY DEF Places
<1>3. /\ H # {} => t \in held[s] /\ \A p, q \in H : p = q
      /\ A # {} => t \in answered /\ \A p, q \in A : p = q
      /\ Q # {} => t \in Queued(s)
      /\ K # {} => \E k \in TasksOf(s) : k.task = t
  BY DEF Queued
<1>4. \A p, q \in K : p = q
  BY <1>1 DEF NoneDoubled, TasksOf
<1>5. \A p, q \in Q : p = q
  BY <1>1 DEF NoneDoubled, Once
<1>6. /\ t \in held[s] => H # {}
      /\ t \in answered => A # {}
      /\ t \in Queued(s) => Q # {}
      /\ \A k \in spawned : k.task = t => K # {}
  <2>1. t \in Queued(s) => Q # {}
    BY DEF Queued
  <2>2. ASSUME NEW k \in spawned, k.task = t PROVE K # {}
    <3>1. k \in TasksOf(s)
      BY <1>1, <2>2 DEF OwnTasks, TasksOf
    <3> QED
      BY <2>2, <3>1
  <2>3. (t \in held[s] => H # {}) /\ (t \in answered => A # {})
    OBVIOUS
  <2> QED
    BY <2>1, <2>2, <2>3
<1>7. \A k \in TasksOf(s) : k.task = t => t \notin held[s] \cup Queued(s) \cup answered
  BY <1>1 DEF NoneDoubled, TasksOf
<1>8. held[s] \cap Queued(s) = {} /\ (held[s] \cup Queued(s)) \cap answered = {}
  BY <1>1 DEF NoneDoubled
<1>9. Kind[t] # "stream" => H # {} \/ K # {} \/ Q # {} \/ A # {}
  BY <1>1, <1>6 DEF NoneLost
<1> HIDE DEF s, H, K, Q, A
<1>10. \A p, q \in Places(s, t) : p = q
  BY <1>2, <1>3, <1>4, <1>5, <1>7, <1>8
<1>11. Places(s, t) # {} => Cardinality(Places(s, t)) = 1
  <2>1. ASSUME NEW p \in Places(s, t) PROVE Cardinality(Places(s, t)) = 1
    <3>1. Places(s, t) = {p}
      BY <1>10
    <3> QED
      BY <3>1, FS_Singleton
  <2> QED
    BY <2>1
<1>12. Kind[t] # "stream" => Places(s, t) # {}
  BY <1>2, <1>9
<1> QED
  BY <1>11, <1>12 DEF s

\* The inductive invariant of the sessions.
THEOREM SessionInvariant == Spec => []Inductive
<1>1. Init => Ending
  BY SizesAssumption
     DEF Init, Ending, TypeOK, MainSteps, WorkerSteps, Sessions, SessionNumbered,
         NotYet, OverMeansCancelled, DrainedMeansCancelled, Over, TasksOf, SpawnedTask
<1>2. Init => Accounting
  <2> SUFFICES ASSUME Init PROVE Accounting
    OBVIOUS
  <2>1. /\ spawned = {} /\ answered = {}
        /\ \A s \in Sessions : held[s] = {} /\ results[s] = <<>>
        /\ \A t \in Tasks : taken[t] = 0
    BY DEF Init
  <2>2. \A s \in Sessions : Queued(s) = {} /\ Once(results[s])
    BY <2>1 DEF Queued, Once
  <2> QED
    BY <2>1, <2>2
       DEF Accounting, OwnTasks, HeldToSend, CancelledByDrain, NoneDoubled, NoneLost
<1>3. Inductive /\ [Next]_vars => Inductive'
  <2> SUFFICES ASSUME Inductive, [Next]_vars PROVE Inductive'
    OBVIOUS
  <2>1. Ending /\ Accounting
    BY DEF Inductive
  <2>2. CASE UNCHANGED vars
    <3>1. Ending'
      BY <2>1, <2>2 DEF vars, Ending, TypeOK, SessionNumbered, NotYet,
         OverMeansCancelled, DrainedMeansCancelled, Over, TasksOf
    <3>2. Accounting'
      BY <2>1, <2>2 DEF vars, Accounting, OwnTasks, HeldToSend, CancelledByDrain,
         NoneDoubled, NoneLost, Queued
    <3> QED
      BY <3>1, <3>2 DEF Inductive
  <2>3. CASE MainStep
    BY <2>1, <2>3, MainKeepsEnding, MainKeepsAccounting DEF Inductive
  <2>4. ASSUME NEW s \in Sessions, WorkerStep(s) PROVE Inductive'
    BY <2>1, <2>4, WorkerKeepsEnding, WorkerKeepsAccounting DEF Inductive
  <2>5. CASE \/ \E s \in Sessions : Deliver(s) \/ ConnectionLost(s)
             \/ \E k \in spawned : TaskStep(k)
    BY <2>1, <2>5, OthersKeepEnding, OthersKeepAccounting DEF Inductive
  <2> QED
    BY <2>2, <2>3, <2>4, <2>5 DEF Next
<1> QED
  BY <1>1, <1>2, <1>3, PTL DEF Spec, Inductive

\* While a session's worker runs on its connection, the result of every task
\* it received is in one place on its way to the dashboard: none is lost or
\* doubled, whatever the interleaving of the worker and its tasks and however
\* full the channel.
THEOREM ResultsInOnePlace == Spec => []ResultInOnePlace
  BY SessionInvariant, OneIsEnough, PTL

\* Nothing of a session that has ended goes on: its worker has ended or is
\* being aborted, and the tasks of an ended worker are being cancelled.
THEOREM EndedSessionsAreCancelled == Spec => []OverMeansCancelled
<1>1. Inductive => OverMeansCancelled
  BY DEF Inductive, Ending
<1> QED
  BY <1>1, SessionInvariant, PTL

\* A worker that leaves its loop leaves no task that would run on.
THEOREM DrainedWorkersLeaveNothing == Spec => []DrainedMeansCancelled
<1>1. Inductive => DrainedMeansCancelled
  BY DEF Inductive, Ending
<1> QED
  BY <1>1, SessionInvariant, PTL

-----------------------------------------------------------------------------
(* The country report, a branch of the same loop that shares no state with   *)
(* the ones above                                                            *)

\* A session knows no boot of the dashboard that is still to come, so that it
\* notices each one that it has not heard from.
CountryInductive == Country!Known /\ known <= boot

\* The dashboard looks up an address or none.
LEMMA QueryTyped ==
    ASSUME NEW r \in Country!Reports PROVE Country!QueryIp(r) \in Country!Queries
<1>1. r.v4 \in Country!Queries /\ r.v6 \in Country!Queries
  BY DEF Country!Reports, Country!Queries
<1> QED
  BY <1>1 DEF Country!QueryIp

\* A lookup that found nothing is a report, too.
LEMMA FallbackTyped == Country!Fallback \in Country!Reports
  BY DEF Country!Fallback, Country!Reports

\* It holds before the first session.
LEMMA CountryInitially ==
    ASSUME Country!CountryReportAssumption
    PROVE  Country!Init => CountryInductive
<1> SUFFICES ASSUME Country!Init PROVE CountryInductive
  OBVIOUS
<1> USE DEF Country!Init
<1>1. Country!TypeOK
  <2>1. /\ address \in Country!Reports
        /\ job \in {"none", "runs", "done"} /\ result \in Country!Reports
        /\ due \in {"now", "soon", "later"}
    BY FallbackTyped
  <2>2. failures \in 0 .. MaxFailures
    BY DEF Country!CountryReportAssumption
  <2>3. reported \in BOOLEAN
    OBVIOUS
  <2>4. last \in Country!Queries \cup {Country!Nothing}
    OBVIOUS
  <2>5. known \in 0 .. MaxBoots /\ boot \in 1 .. MaxBoots
    BY DEF Country!CountryReportAssumption
  <2>6. told \in Country!Queries \cup {Country!Nothing}
    OBVIOUS
  <2>7. late \in SUBSET Country!Queries
    OBVIOUS
  <2>8. astray \in BOOLEAN
    OBVIOUS
  <2> QED
    BY <2>1, <2>2, <2>3, <2>4, <2>5, <2>6, <2>7, <2>8 DEF Country!TypeOK
<1>2. CountryInductive
  BY <1>1 DEF CountryInductive, Country!Known, Country!CountryReportAssumption
<1> QED
  BY <1>2

\* The loop, the dashboard and a report that arrives late keep it.
LEMMA CountrySteps ==
    ASSUME Country!CountryReportAssumption, CountryInductive,
           [Country!Next]_Country!vars
    PROVE  CountryInductive'
<1> USE DEF CountryInductive, Country!Known, Country!TypeOK,
            Country!CountryReportAssumption, Country!dashboard, Country!agent
<1>1. CASE UNCHANGED Country!vars
  BY <1>1 DEF Country!vars
<1>2. CASE Country!Open
  <2>1. /\ reported' \in BOOLEAN /\ astray' = astray /\ late' = late /\ told' = told
        /\ boot' = boot /\ known' = boot /\ last' = Country!Nothing /\ address' = address
    BY <1>2 DEF Country!Open, Country!NewSession
  <2>2. /\ job' = "none" /\ result' = Country!Fallback /\ due' = "now" /\ failures' = 0
        /\ reported' = FALSE
    BY <1>2 DEF Country!Open, Country!NewSession
  <2>3. Country!TypeOK'
    BY <2>1, <2>2, FallbackTyped
  <2> QED
    BY <2>1, <2>2, <2>3
<1>3. CASE Country!Move
  BY <1>3 DEF Country!Move
<1>4. CASE Country!Boot
  <2>1. late' \in SUBSET Country!Queries
    BY <1>4 DEF Country!Boot
  <2>2. Country!TypeOK'
    <3>1. /\ boot' = boot + 1 /\ boot < MaxBoots /\ told' = Country!Nothing
          /\ astray' = FALSE /\ UNCHANGED <<address, Country!agent>>
      BY <1>4 DEF Country!Boot
    <3>2. boot' \in 1 .. MaxBoots
      BY <3>1
    <3> QED
      BY <2>1, <3>1, <3>2
  <2> QED
    BY <1>4, <2>2 DEF Country!Boot
<1>5. ASSUME NEW query \in Country!Queries, Country!Late(query) PROVE CountryInductive'
  BY <1>5 DEF Country!Late
<1>6. CASE Country!Close
  <2>1. /\ reported' \in BOOLEAN /\ astray' = astray /\ late' = late /\ told' = told
        /\ boot' = boot /\ known' = 0 /\ last' = Country!Nothing /\ address' = address
    BY <1>6 DEF Country!Close, Country!NewSession
  <2>2. /\ job' = "none" /\ result' = Country!Fallback /\ due' = "now" /\ failures' = 0
        /\ reported' = FALSE
    BY <1>6 DEF Country!Close, Country!NewSession
  <2>3. Country!TypeOK'
    BY <2>1, <2>2, FallbackTyped
  <2> QED
    BY <2>1, <2>2, <2>3
<1>7. CASE Country!StartLookup
  BY <1>7 DEF Country!StartLookup
<1>8. CASE Country!Lookup
  <2>1. PICK got \in SUBSET {"v4", "v6"} :
          result' = [v4 |-> IF "v4" \in got THEN address.v4 ELSE NoAddress,
                     v6 |-> IF "v6" \in got THEN address.v6 ELSE NoAddress]
    BY <1>8 DEF Country!Lookup
  <2>2. result' \in Country!Reports
    BY <2>1 DEF Country!Reports
  <2> QED
    BY <1>8, <2>2 DEF Country!Lookup
<1>9. CASE Country!Retry
  BY <1>9, FallbackTyped DEF Country!Retry, Country!Fetched
<1>10. CASE Country!Skip
  BY <1>10, FallbackTyped
  DEF Country!Skip, Country!ToReport, Country!Unchanged, Country!Fetched
<1>11. CASE Country!Report
  BY <1>11, FallbackTyped, QueryTyped
  DEF Country!Report, Country!Told, Country!ToReport, Country!Fetched
<1>12. CASE Country!ReportFails
  <2>1. PICK query \in Country!Queries :
          /\ Country!ToReport(query)
          /\ \/ UNCHANGED Country!dashboard
             \/ Country!Told(query, FALSE) /\ UNCHANGED late
             \/ late' = late \cup {query} /\ UNCHANGED <<boot, told, astray>>
    BY <1>12 DEF Country!ReportFails
  <2>2. /\ due' = "soon" /\ failures' = 0 /\ job' = "none" /\ result' = Country!Fallback
        /\ UNCHANGED <<address, reported, last, known>>
    BY <1>12, <2>1 DEF Country!ReportFails, Country!ToReport, Country!Fetched
  <2>3. late' \in SUBSET Country!Queries
    BY <2>1 DEF Country!Told
  <2>4. boot' = boot /\ (astray' = TRUE \/ (astray' = astray /\ told' = told))
    BY <2>1 DEF Country!Told
  <2>5. told' \in Country!Queries \cup {Country!Nothing}
    BY <2>1 DEF Country!Told
  <2>6. Country!TypeOK'
    <3>1. /\ job' \in {"none", "runs", "done"} /\ due' \in {"now", "soon", "later"}
          /\ failures' \in 0 .. MaxFailures /\ result' \in Country!Reports
      BY <2>2, FallbackTyped
    <3> QED
      BY <2>2, <2>3, <2>4, <2>5, <3>1
  <2> QED
    BY <2>2, <2>4, <2>6
<1>13. CASE Country!ReportHost
  BY <1>13 DEF Country!ReportHost, Country!HostReport
<1> QED
  BY <1>1, <1>2, <1>3, <1>4, <1>5, <1>6, <1>7, <1>8, <1>9, <1>10, <1>11, <1>12,
     <1>13
  DEF Country!Next, Country!Session

\* What a session believes the dashboard to know, it knows (main.rs 262 to 336),
\* whatever is lost on the way, however often the dashboard is restarted and
\* whatever the addresses become.
THEOREM CountryKnown == ReportSpec => []ReportKnown
<1>1. CountryInductive => ReportKnown
  BY DEF CountryInductive, ReportKnown
<1>2. Country!Init => CountryInductive
  BY CountryInitially, SessionReportAssumption
<1>3. CountryInductive /\ [Country!Next]_(Country!vars) => CountryInductive'
  BY CountrySteps, SessionReportAssumption
<1> QED
  BY <1>1, <1>2, <1>3, PTL DEF ReportSpec, Country!Spec
=============================================================================
