# Formal models of the nezha agent

This directory holds TLA+ models of the agent in `src/`, the configurations
under which TLC checks them, and proofs that TLAPS checks. `PROJECT.json`
relates every definition to the lines it models, every property to a run, and
every run to what it shows. Paths below are relative to the repository; the
agent itself is `src/src/`.

1. [The system](#the-system)
2. [The hard parts](#the-hard-parts)
3. [Modules](#modules)
4. [Runs](#runs)
5. [Fairness](#fairness)
6. [Proofs](#proofs)
7. [Findings](#findings)
8. [Abstractions, and what is not modelled](#abstractions-and-what-is-not-modelled)
9. [Plan](#plan)

## The system

The agent is one process. `run_agent` (`main.rs`) keeps one gRPC *session* with
a dashboard at a time: it registers, reports the state of the host, and takes
tasks. Each session has a *task worker*, which answers some tasks itself and
spawns a tokio task for every other; spawned tasks may open IO streams of their
own (terminal, NAT, files, transfer). The parts share one `Runtime`: the
configuration in effect, the change that waits to be committed, and the channel
that tells the session of a reload.

| Component | State it keeps | Operations | Interacts with | What makes it correct |
|---|---|---|---|---|
| Runtime (`runtime.rs`) | `current`, `pending` with its generation and timer, the reload watch channel | `apply`, the ten-second timer, `commit` | called by the worker; saves through AgentConfig; wakes the session | one committer per change; a transfer is not displaced; the secret changes by transfer only; a commit is an atomic update of what is in effect |
| AgentConfig (`config.rs`) | the configuration file | `load`, `save`, `validate`, overlay | Runtime, edit, start-up | the file tracks what is in effect; a bad file is not loaded |
| Sessions (`main.rs`) | main loop, worker, join set, channel of results | connect, report, receive, spawn, stop, abort | everything | nothing of an ended session goes on; no result lost or doubled; an ended worker is noticed |
| File system tools (`mcp_fs.rs`, `platform/linux/filesystem.rs`) | files, temporaries, 1024 locks | list, read, write, delete | transfer; other programs | a listing or a read is of what was opened; compare and replace is atomic; targets are whole; temporaries go away; success is durable |
| Transfer (`mcp_transfer.rs`) | temporary file, stream, the call that opens it | upload, download | the same locks and commit | the same, however long an upload takes; what it says of its end is true; it waits for no limit without need |
| Terminal (`terminal.rs`) | two threads, two channels, a child | relay both ways, resize, tear down | its stream, a child process | order, nothing lost while it lasts, the end comes last, the child dies with it |
| NAT relay (`nat.rs`) | two directions, half-closing | relay, drain thirty seconds | its stream, a TCP backend | order, end of each direction, no stream left |
| File manager (`file_manager.rs`) | current upload, downloads | list, download, upload | its stream, files in place | frames of one answer stay together; an upload that is said to be complete is; no download outlives its stream |
| Exec and commands (`mcp_exec.rs`, `tasks.rs`) | process group, readers | run, limit, kill | children | every group is killed on every path; what is said of the exit and the output is true; no process waits at a full pipe for an agent that waits for it |
| Ping (`tasks.rs`, `platform/linux/ping.rs`) | probes in flight | five probes and a deadline | surge-ping | replies counted once; a deadline |
| surge-ping (`vendor/surge-ping`) | map of waiters | register, reply, cancel | Ping | a reply wakes its waiter; no waiter leaks |
| Updater (`updater.rs`) | a lock, the executable | check, download, replace, exit | ends the process | one update at a time; the executable is whole |
| Country report (`geoip.rs`, `main.rs`) | last report, dashboard's start time | report on a timer | session loop | reported again after a dashboard's restart |
| Service (`service.rs`, `platform/*/service.rs`) | unit file, status of the service | install, uninstall | systemd, launchd, SCM | a failed step is undone |
| Interactive configuration (`edit.rs`) | a copy of the file | edit, save | the file | does not undo concurrent changes |
| Monitor and probes (`monitor.rs`, `gpu.rs`, `platform/linux/*`) | last counters | sample | operating system | arithmetic of differences |

The monitor and the probes of the hardware, the ports to Windows and macOS, the
generated protocol, the certificate verifier and the scripts have no control
worth a model; `PROJECT.json` lists them with the reason.

## The hard parts

`PROJECT.json` lists forty hazards at their lines. They come from a few habits
of the code.

- **Abort is a request.** A tokio task that is aborted ends at its next await.
  Runtime aborts the timer of a superseded change, the session aborts its
  worker after five seconds, the worker drops its join set: whatever was
  running may still get as far as its next await, with a lock or a file in its
  hands.
- **State is read, then used much later.** A change is validated against the
  configuration in effect and committed ten seconds later; an upload compares
  the target before it receives for up to five minutes; a session reads the
  configuration and then subscribes to changes of it.
- **Steps of one change fail separately.** Saving, installing and notifying;
  filling, renaming and flushing the directory.
- **The process may end anywhere**, killed or by the updater's
  `process::exit(1)`, and the machine may lose power.
- **Everything is bounded.** Channels of 32 and 64 frames, pipes and the
  terminal's buffers are full at times; a branch of `select!` that waits for
  room does not look at the other branches.
- **Some waits are for others only.** A child need not read its terminal, a
  backend its connection, a dashboard its streams, and not every call to it has
  a time limit: the properties name each wait that nothing ends.
- **Other programs change the same files**, and a shell's descendants keep
  descriptors open.

## Modules

| Module | Models | Rests on |
|---|---|---|
| `AgentConfig` | the configuration record and the pure rules: overlay, normalise, validate, load, what makes a change admissible | |
| `ConfigRegister` | what remote configuration promises: a register updated atomically | `AgentConfig` |
| `ConfigReload` | Runtime, save and load, the session as far as it reads the configuration; crashes | `AgentConfig`, implements `ConfigRegister` |
| `ConfigReloadProofs` | proofs about `ConfigReload` | |
| `SessionTasks` | main loop, worker, spawned tasks, channel of results, over several sessions | |
| `SessionTasksProofs` | proofs about `SessionTasks` and `CountryReport` | |
| `FileStore` | what the file tools promise: an atomic store | |
| `FileCommit` | write, upload, delete as system calls; locks; other programs; kills and losses of power | implements `FileStore` |
| `FileCommitProofs` | proofs about `FileCommit` | |
| `FileReads` | list and read on an open handle, among renames and changes by others | |
| `Transfer` | the stream of an upload or a download: frames, the opening call, limits, the last frame | |
| `FileManager` | the old file manager: loop, uploads in place, concurrent downloads | |
| `Commands` | exec and shell commands: process group, pipes, readers, limits | |
| `Probes` | HTTP, TCP and ICMP probes | |
| `TaskRun` | one task: its dispatch by type and configuration, composed of the five above | instances of `Commands`, `Probes`, `FileManager`, `Transfer`, `FileReads` |
| `TaskRunProofs` | proofs about `TaskRun` and its parts | |
| `Updates` | a check for updates, its lock and the replacement of the executable | |
| `AgentLoop` | start-up, sessions one after the other, the periodic check, the restart | extends `Updates` |
| `AgentLoopProofs` | proofs about `AgentLoop` | |
| `CountryReport` | the lookup of addresses, their report and the dashboard's restart | |
| `SessionReport` | the same under a name of its own | instance of `CountryReport` |
| `RelayStream` | an IO stream of the dashboard: frames both ways and how it ends | |
| `RelayStreamProofs` | lemmas about queues of frames | `RelayStream` |
| `Terminal` | the terminal's loop, threads, queues and child | `RelayStream` |
| `TerminalProofs` | proofs about `Terminal` | `RelayStreamProofs` |
| `NatRelay` | the NAT relay's loop, the connection and the backend | `RelayStream` |
| `NatRelayProofs` | proofs about `NatRelay` | `RelayStreamProofs` |
| `MC*` | instances of the constants for TLC | |

Where a module defines an operator whose name adds what is wrong with it to the
name of an action (`LockUnheld`, `FillUnsynced`, `LeaveDetached`, ...), the
operator is that action with a plausible mistake. It is used by no
specification: it shows that the property it is listed with would notice.

### ConfigReload

| Variable | Code |
|---|---|
| `current` | `Runtime::current` |
| `pending` | `Runtime::pending`: generation and whether it is a transfer; its timer's handle is implicit |
| `timers` | the spawned tasks in their ten seconds, or past them (`fired`) and before the lock |
| `commit` | the task that holds the pending lock in `commit`, with its step |
| `version`, `seen` | the version of the watch channel, and the receiver's |
| `session` | the configuration the session works with |
| `disk` | the file: absent, whole or a prefix of the fields |
| `phase`, `exit` | where the process and the session loop are |
| `saveFailed`, `missed` | history variables, for the properties only |

`Apply` is `apply`: its refusals change nothing, its acceptance replaces
`pending` and aborts the old timer. A timer that is already past its sleep may
escape the abort (`escaped`), which is why `commit` compares generations.
`CommitLock`, `CommitSave`, `CommitInstall` and `CommitNotify` are the steps of
`commit`, with the pending lock held from the first to the last; `CommitSaveFails`
leaves nothing, a prefix or all of the file, as `fs::write` truncates first.
`Load` and `LoadSave` are `load`, including the uuid that is generated and
saved. `ReadConfig` and `Subscribe` are the first two lines of `session`. `call`
is a session that awaits something without a time limit (`StartCall`,
`CallReturns`, `CallFails`): the opening of the stream of states, with which
every session begins, and the sending of a state and the report of the host
after a tick. It does not look at the notification meanwhile, and the worker goes
on.
`Crash` may happen anywhere and cuts a save short.

### SessionTasks

`main` is the session's loop: what it awaits once it has chosen a branch, since
an await inside a branch looks at nothing else (`Untimed` are the awaits without a
limit). `worker[s]` is the worker of
session `s`; workers of earlier sessions may still exist. `spawned` holds the
tasks of all join sets, `results[s]` the channel. `DrainWith` is
`JoinSet::shutdown` and the end of the worker's loop, `JoinTimesOut` the abort
after five seconds, `Dropped` the moment the abort takes effect. Tasks have
four kinds: IO streams, which have no result, as a task of unknown type has none
(`tasks.rs`, lines 38 to 41), jobs that reply through the channel, changes of the
configuration and reports, which the worker sends itself (a report is spawned,
or refused by the worker while a reload is pending).

### FileCommit

Each operation is a sequence of system calls (`WriteNext`, `UploadNext`,
`DeleteNext`), and between any two of them others run. `dir` maps names to
inodes, `data` inodes to contents; `flushed` and `synced` say what of them
survives a loss of power. A temporary's name is unique, so the name and the
inode an operation creates are the operation itself. `Fail` is any error; what
it leaves to `TempEntry::drop` is `Clean` and `CleanUnlink`, which again look at
the name before they remove it. These may fail as well: `drop` ignores what
`fstatat` and `unlinkat` say (`CleanFails`), and a file whose metadata cannot be
read has no `TempEntry` yet (`CreateFails`). The operation then ends with its
temporary in place, which the history variable `abandoned` keeps for
`TempsRemoved`. `Outside` is any other program. Locks are named by `Stripe`, since
several names share one of the 1024 (`LOCK_COUNT`).

### RelayStream, Terminal, NatRelay

`RelayStream` holds what the dashboard's end of an IO stream does; both relays
extend it.

    dashboard -> remote -> loop -> inputs -> writer -> ptyIn -> child
    dashboard <- outbound <- loop <- outputs <- reader <- ptyOut <- child

`loop` is the task: in `select`, or holding a frame it waits to pass on.
`reader` and `writer` are the two blocking threads. The child is any program
that reads, or does not, and writes, may exit at any time, and may leave a process
that keeps the terminal open (`orphan`). `Leave` is the drop of the child
(SIGKILL to its group), of both channels and of the master; `Joined` the two
waits of two seconds. A chunk is its position in what its sender sent, so that
order, loss and doubling are visible.

    dashboard -> remote -> loop -> tcpOut -> backend
    dashboard <- outbound <- loop <- tcpIn <- backend

The NAT relay is one task for both directions. `open` is `sender.is_some()`,
`localEof` the flag of that name, `Drained` the limit of thirty seconds. `Done`
drops the connection; what the backend had sent by then and nobody read makes
the kernel reset it, and what was on its way to the backend may go with it
(`reset`). The backend, too, reads when it chooses.

### TaskRun and the tasks

`TaskRun` is `tasks::run` and the worker's dispatch: a task has one type, and
what the configuration disables is looked at before the request. The five
modules it instantiates share no state, since each task is a tokio task of its
own; `SessionTasks` has what tasks do to each other through the session. A
session that ends is the `Cancel`, `Stops` or stream end of each.

- `Commands`: `life` and `holds` are the leader, a member of its group and a
  process that left it; `reader` the tasks of exec, or `wait_with_output` of a
  shell command. `KillGroup` is `ProcessGuard::terminate`, which also runs on
  drop.
- `Probes`: `now` counts seconds. The biased `select!` of `icmp_ping` is
  `Expire`, `Join` and `Send`; `Tick` passes a second when none of them can.
- `FileManager`: a frame carries what it was meant to be (`kind`, `of`); the
  agent sees a size and a first byte, so that a data frame may be taken for a
  command. `lacking` is what an upload's target is short of: tokio's `File`
  hands writes to a thread and reports a failure at the next write.
  `parser`, `waiting` and `clear` are a dashboard that puts a download together
  from the header's size.
- `Transfer`: `opening` is the task of the call, `queue` the channel of 32,
  `final` the frame that says how it ended. `Willing` is a dashboard that does
  its part.
- `FileReads`: `named` is the object the path leads to, `handle` the one that
  was opened. `NextPart` is the dashboard asking on while it is told of more.

### Updates, AgentLoop, CountryReport

`step[c]` is where a check is: waiting for the lock, with the manifest, ...,
replacing the executable (on a blocking thread) and about to exit. A forced
check is a task of its session; when the session ends while it replaces,
`CancelForced` gives up the lock and `detached` is the thread that goes on.
`Ends` is `process::exit(1)`, after which `Restart` runs what is `installed`.

`CountryReport` has the branches of the session's `select!` for the lookup and
the host report. `told` is what the dashboard was told last since it was
started, `late` reports that timed out and may still arrive, `astray` that the
last one it got has no receipt.

## Runs

All passing runs disable TLC's deadlock check, for the same reason: the system
may stop. The agent may be told to stop or be started no more, all sessions or
operations may be over, a task may have ended. Where somebody may wait for
ever it is a property (`EndKills`, `EndsNoticed`, `ManagerEndDrains`,
`TransferFlows`, `CommandFlows`, `Answered`, `OpsEnd`).

| Run | Instance | Properties |
|---|---|---|
| `config_reload` | two secrets, overrides from the environment, two accepted changes, two starts, fairness | `OneCommitter`, `DiskTracksCurrent`, `SecretChangesByTransfer`, `TransferNotDisplaced`, `IsRegister`, `AcceptedSettles`, `StaleSessionEnds` |
| `reload_stuck` | one change | violates `ReloadReallyInProgress` |
| `reload_missed` | one change | violates `StaleSessionIsNotified` |
| `session_tasks` | a stream, a job and a report, channel of one, two sessions, fairness | `OverMeansCancelled`, `ResultInOnePlace`, `OverEnds`, `WorkerEndNoticed`, `Answered` |
| `file_commit` | write, upload and recursive delete of one name, two foreign inodes, one crash | `TargetsWhole`, `TempsRemoved`, `AckedDurable`, `CasHolds`, `ForeignTempKept` |
| `file_store` | two writes, an upload, a delete and a recursive one on two names with one lock, no other program, fairness | `IsStore`, `OpsEnd` |
| `file_failed` | one upload | violates `FailedUploadPreservesTarget` |
| `terminal` | four chunks each way, every queue of one | `InOrder`, `EndKills`, `ExitReported`, `RestIsQuiet` |
| `nat_relay` | three chunks each way, every queue of one | `InOrder`, `EndsNoticed`, `EndDelivers`, `RestIsQuiet` |
| `task_run` | one task of any type, with any of what can be disabled | `CommandCleansUp`, `CommandReplyTrue`, `CommandFlows`, `PingTrue`, `ManagerUploadsTrue`, `ManagerTransfersApart`, `ManagerEndDrains`, `TransferTrue`, `TransferFlows`, `ReadsTrue`, `RestIsQuiet` |
| `agent_loop` | two forced checks beside the automatic ones, three versions | `OneUpdate` |
| `country_report` | two addresses per family, one failure before the fallback, three starts of the dashboard | `ReportKnown` |

### Why the bounds are enough

- **Configuration.** What a change can meet is one predecessor whose task
  escaped its abort: `OneFired` (proved) says that no more than one task can be
  past its sleep, so two accepted changes show every meeting. Two secrets and
  one weak one tell transfers, refusals and no-ops apart; the payloads have one
  for every rule of `Admissible`, one that forbids all others and ones that
  clear fields. Two starts show a restart from whatever a crash left.
- **Sessions.** Two sessions show an abandoned worker beside a running one; a
  third would only add another abandoned one, and workers share nothing. A
  channel of one is full as soon as something is in it; a job, and a report
  that the worker may have to answer itself, compete for it.
- **Files.** Two operations with the same `if_match` hash and different new
  contents must not both succeed; the third operation removes the target
  beneath them. One shared lock is the worst case of 1024. One foreign regular
  file and one link (or directory) are what the checks tell apart. `writeBack`,
  in `file_store`, restores the expected content, so that comparing once and
  renaming later cannot be excused by an intermediate state.
- **Terminal.** A blocked input needs a chunk in each queue, one in the
  writer's hand and one in the loop's: four chunks are the least. A blocked
  output needs four the other way. Both are reached, the input alone
  (`InputBlocked` with an idle child) and the whole circle (with `OutputBlocked`).
- **NAT relay.** A backend that does not read (`BackendBlocks`) needs a chunk in
  `tcpOut` and one in the loop's hand, one that waits for the loop another in
  `tcpIn` and in its own; a dashboard that does not (`DashboardBlocks`) one in
  `outbound`. All three are reached with three chunks each way, with one to
  spare for a frame that arrives meanwhile.
- **Commands.** A pipe of one unit is full after one write; two units written
  are one more than exec keeps. One member and one process outside the group
  are the two fates a descendant can have.
- **Probes.** Three requests and five seconds leave time for answers before,
  between and after the last request, and for the deadline with some answered.
- **File manager.** Two commands are two concurrent downloads, or an upload and
  a download or listing beside it; an upload of one or two units
  lets the last frame be longer than what is left. A channel of one makes
  every sender wait.
- **Transfer.** Two slots hold attach and the header, as run sends both before
  it makes the call; a third frame must wait for the dashboard. Three units of
  data fill the channel more than once.
- **Reads.** A part of two units of a file of three needs a second part. Four
  names, one of them hidden, are one more than a listing of two takes in.
- **Updates.** Four checks and three versions give an older, an equal and a
  newer one to two checks that wait for the lock while another replaces.
- **Country report.** Two addresses and three starts suffice for an address
  that changes and returns, with a restart before and after.

## Fairness

Safety needs none. What liveness assumes:

- *Configuration*: tokio runs what is ready, so timers fire, commits go on, and
  a session that is not waiting for the network takes its next step
  (`Fairness` of `ConfigReload`). `Connect` and `CallReturns` are not fair: a
  dashboard need not answer. `ReloadObserved` is strongly fair, as the session
  looks at the notification only between its calls, and `StaleSessionEnds` has as
  its hypothesis that the session is not in such a call for ever (`CallsReturn`). One assumption about time is in `TimerFires`: the poll that an aborted
  timer's task is in ends before the ten seconds of the next timer do.
- *Sessions*: `Tick` is an interval; `ReceiptFails` a timeout of ten seconds;
  calls on a connection fail once it is lost, which the HTTP/2 keep-alive finds
  out; join and abort are timers. `WorkerEndSeen` is strongly fair, because
  `select!` picks a ready branch at random and other branches may be picked any
  finite number of times first. Nothing is assumed of a dashboard that keeps the
  connection and stays silent; the awaits of `Untimed` have no timeout, and that
  the main loop is in none of them for ever is the hypothesis of `WorkerEndNoticed`.
  `Answered` states as its hypothesis that the dashboard reads.
- *Files*: threads run on. What a dashboard sends is not assumed: an upload
  ends by its limit of 300 seconds (`UploadCut`).
  `OpsEnd` is checked in `file_store`, with five operations that wait for one lock
  and no other program; `file_commit`, which has the other programs, checks safety only.
- *Terminal* and *NAT relay*: stated without fairness. `Progress` collects the
  steps that happen by themselves: those of the agent, the tearing down of a
  stream that has ended, and the kernel's completion of a write for which there is
  room. Whether the child, the backend or the dashboard reads is their own choice and
  not in `Progress`. `Quiet` is the state in which the agent can do no more, and the
  properties say what holds there, naming each wait for somebody who does not read.
  What each one waits for is written out (`LoopRuns`, `WriterRuns`, `ReaderRuns`,
  `OthersRun`), so that the provers can reason about it. `RestIsQuiet` is a check of
  that list and claims nothing about the agent: `Quiet` is `~ENABLED Progress`, in
  every state TLC reaches. Every one of those steps moves a finite number of chunks on
  or ends something, so rest is reached if the runtime schedules them; the
  keep-alive, the one step that can repeat for ever, is not among them.
- *Tasks*: `ManagerEndDrains`, `TransferFlows` and `CommandFlows` are stated in the same way,
  with `Busy`, `RunGoes` and `DashboardGoes`, and `Readable`; `RestIsQuiet` of `TaskRun` is
  the conjunction of their equivalences with `ENABLED`, and a check of them as above.

## Proofs

The proofs hold for all values of the constants, under the named assumptions of
the modules: sizes are natural numbers, strings of different classes differ,
payloads are partial configurations, an absent file is no configuration,
operations are of the four kinds and foreign contents are whole. TLC evaluates
those assumptions on every run. Each component has an inductive invariant, which is
kept by every step and implies the properties: `Inductive`, or a formula named for its
component, as `TransfersKnown`. It is defined in the module of the proofs, as nothing
else needs it, and was checked by TLC on the instances of the runs before it was proved.
Every invariant a passing run checks is stated by a theorem, but for `RestIsQuiet`, and so is
every action property and both refinements.

**ConfigReload** (`ConfigReloadProofs`). `Inductive` has three parts.
`PendingKnown`: `OneCommitter` is not inductive; that an escaped task does not
commit rests on generations being unique among tasks and none being ahead of
the pending one (`TimersFollowPending`, `GenerationsUnique`), and that a commit
installs an admissible configuration rests on `FromCurrent`: each task's
configuration is what some payload makes of the configuration in effect *now*.
It was computed from the one in effect when the change was accepted; the two
agree because only a commit changes `current`, and a commit leaves nothing
pending. `Normalized`: normalising what is in effect changes nothing, so that it
is what saving and loading leave. `DiskTracksCurrent`, which needs both: a commit
saves a configuration that is the one in effect, overrides included, except for
the fields of its payload. The theorems are `PendingInvariant`,
`ReloadInvariant`, `TypeCorrect`, `ExactlyOneCommitter`,
`SecretSafety`, `TransferKept`, `DiskAgrees`, and `ImplementsRegister`: every
behaviour is one of `ConfigRegister`.

**SessionTasks** (`SessionTasksProofs`). `Ending`: `OverMeansCancelled` and
`DrainedMeansCancelled` need each other and two facts about numbers: sessions
that have not begun have no worker (`NotYet`), and the loop is outside `idle`
only within a session (`SessionNumbered`). `Accounting`, for `ResultsInOnePlace`:
what a session holds or queues is of a task it received (`OwnTasks`), the worker
holds one result at most and only while it sends (`HeldToSend`), a result in one
place is in no other (`NoneDoubled`) and, while the worker runs on its connection,
in some (`NoneLost`). The last needs that a task is cancelled only by a worker
that has left its loop (`CancelledByDrain`).

**FileCommit** (`FileCommitProofs`). `CasHolds` rests on `Compared`: from the
comparison to the rename, the target has the expected content or another
program has touched it. It survives the steps of the other operations because
they hold the same lock (`LocksHeld`), and their own filling of files because
an inode no operation has renamed is not a target (`OwnInodeUnseen`).
`TargetsWhole` rests on `TempsWhole` (contents are flushed before the window)
and `TempNames` (a temporary's name refers to its own inode or a foreign one,
and foreign ones are whole), for the directory and for what of it survives.
`TempsRemoved`, `AckedDurable` and `ForeignTempKept` rest on `Accounted`: whose
the name of a temporary is at each step (`NameKnown`), and that the dashboard is
told only of what has ended (`ToldAtEnd`).

`ImplementsStore` is the refinement `Spec => IsStore`, for constants under which no
other program is at work and nothing crashes (`Undisturbed`; the run `file_store`
has such constants). A rename is the store's write if `Alone` holds: the
temporary is in its place with what was written to it, and the target is what
it was found to be. All other steps change nothing the store shows.

**Terminal and NatRelay** (`TerminalProofs`, `NatRelayProofs`, with the lemmas of
`RelayStreamProofs`). `Carries(q, n)` says that a sequence of frames is what its sender
sent, up to its `n`-th chunk, with keep-alives anywhere between. The invariant is that all queues
of a direction in a row, with what a thread or the loop holds put between the queues it
goes from and to, carry what was sent: a step of the relay moves a frame across one of the
boundaries and leaves the row as it is, or adds to its end. To that come what each holder
can hold at which step (`HoldersKnown`, `TaskKnown`), that a reader tells of the
end as the last thing it does, with nothing left to read (`ReaderKnown`, `EofKnown`),
and that what the dashboard has is in order even after the relay has ended
(`GotInOrder`, `OutboundInOrder`). `RelayEndsNoticed`, `TerminalEndKills` and
`TerminalExitReported` follow each wait to the one it waits for, up to something that
can go on or to somebody who does not read; they need why a loop has ended
(`EndKnown`). `RelayEndDelivers` is part of the invariant: all that was sent has
reached the backend's queue when the end of the stream is noticed (`InputReached`). Queues are sequences of numbers, and the lemmas
say how a frame at the head of one or the end of another passes
through their concatenation.

**TaskRun** (`TaskRunProofs`). A step of the task is a step of one part and leaves
the others alone, so `TaskInvariant` is a conjunction of one invariant per part and
of what the configuration forbids (`NoCommand`, `NoProbe`, `NoTransfer`).

- *Commands* (`TaskCleansUp`, `TaskReplies`): who holds a pipe, and that an exit
  that is reported as the leader's own was its own (`OwnExit`), that nothing spilt is
  kept quiet (`NothingSpilt`) and that what was collected is what was read
  (`Collected`).
- *Probes* (`TaskPings`): every reply counted is one of a request sent, in time
  (`Answers`, `JoinedInTime`), and the counter is the size of that set.
- *Transfer* (`TaskTransfers`): what was said so far, in the channel or at the dashboard,
  is what the phase allows (`SaidInPhase`); the last frame is the last
  and is true (`FinalTrue`); the data said add up (`SentSoFar`).
- *FileReads* (`TaskReads`): the handle stays on what was opened (`HandleOpen`), parts
  join (`PartsJoin`) and a listing grows only by what is there (`ListGrows`).
- *FileManager* (`TaskUploads`): the agent sees a size and a first byte, and the dashboard
  sends on without waiting, so what the agent makes of a frame depends on all
  that are before it. `UploadsFollowed` says that the frames in the inbox lead
  from the agent's upload, stage by stage, to the one the dashboard is sending
  (`Leads`, `Stages`); that each upload has its number (`OwnNumbers`); and that
  what a target lacks is what these frames bring of it (`Brings`, `Lacks`). The only
  way off this path is an upload that the agent has refused and the dashboard
  does not know of yet: then the agent has told of a failure (`Followed`), which
  is why `UploadsTrue` allows a frame to be misread after one.
- *FileManager, downloads* (`TaskTransfersApart`): data frames carry no name, so what they
  belong to depends on what the dashboard expects when it reads them. `TransfersKnown`
  says, for a dashboard that has waited for each answer, that what it expects now
  (`parser`) goes through the frames in the outbox, view by view (`Parses`, `Views`), to
  what the one download that is not yet sent in full goes on with (`Continues`).
  One such view is right (`Apart`), as the command that is waited for is in one place
  only: the inbox (`AskedOnce`), the upload (`UploadAwaited`), the frame that the
  loop sends (`AnswerAwaited`) or a download (`DownloadsAwaited`); and until that
  one has begun to answer nothing but empty frames is on its way (`NotBegun`). A download
  may outlast its last chunk, as its task has yet to find the end of the file: then it
  is spent (`Spent`), and what completes an answer is the last frame (`CompleteLast`).
- *What waits* (`TaskCommandFlows`, `TaskTransferFlows`, `TaskEndDrains`): a full pipe has a
  reader as long as the agent waits for the process. A transfer's phase
  says how far its call has come (`CallKnown`), and what an upload still lacks is on its way
  or owed by a dashboard that was asked for it (`UploadFed`). A file manager that is done
  has no downloads; the rest follows from what each step waits for.

**AgentLoop** (`AgentLoopProofs`). `OneUpdate` needs three more facts: a check
beyond the lock holds it, so there is one (`LockHeld`); the version of an
automatic check is newer than the one that runs (`NewerChosen`); and as long as nothing was cancelled in its replacement, what is installed is
what runs until a check replaces it (`Settled`). `OneUpdateAlways` is the theorem.

**CountryReport** (in `SessionTasksProofs`, since the report is a branch of that loop).
`CountryKnown`: `Known` becomes inductive with one bound, that a session has heard of no
start of the dashboard that is still to come. `SessionReport` puts `CountryReport` under the
name `Country`, as the two modules have definitions of the same names.

### What is only model-checked

- Liveness: `AcceptedSettles`, `StaleSessionEnds`, `OverEnds`, `WorkerEndNoticed`,
  `Answered`, `OpsEnd`. The prover has no rule for fairness.
- `RestIsQuiet` of `Terminal`, `NatRelay` and `TaskRun`, which contains `ENABLED`, on which
  the prover does not reason. The properties that rest on it (`EndKills`, `ExitReported`,
  `EndsNoticed`, `CommandFlows`, `TransferFlows`, `ManagerEndDrains`) are proved
  of the wait conditions that are written out; that no action waits for anything
  else is what TLC checks.
- That a refinement or an invariant says enough is shown for each property by a mutated action
  that violates it on its run.
- The runs that fail, which are the findings.

## Findings

Three disagreements between what the repository says and what the code does;
each is a run that must fail.

1. `reload_stuck`: when a commit's save fails, `pending` stays set and no task
   is left for it. The agent then answers *another reload is in process* for
   ever, and after a transfer it refuses every further `ApplyConfig`.
2. `reload_missed`: a session reads the configuration and then subscribes. A
   commit that falls between the two lines is neither used nor noticed until
   the session ends for another reason.
3. `file_failed`: when flushing the directory fails after the rename, an upload
   (and a write) is reported as failed with its target replaced.

## Abstractions, and what is not modelled

- Strings are members of small sets; a hash is the content it is of; URLs and
  the syntax of addresses are left out, as are the fields of the configuration
  that no rule looks at.
- The time is abstract: a timeout may happen whenever its wait lasts.
- `FileCommit` has one directory. Walking and creating parents and trees below
  a deleted directory are left out. The repository's README says that a window
  between check and rename remains; the models have it (`Outside` between `owns`
  and `rename`), and `touched` and `swapped` name it.
- tokio's `File` reports a write that failed late at the next write, and
  `sync_all` does not report it. The last frame of an upload may therefore be
  missing from a file that is committed, or that the old file manager says is
  complete: `FileCommit` (`Written`) and `FileManager` (`TakeData`) have both
  outcomes, and no property says that it cannot happen.
- A dashboard that got a report of addresses whose receipt was lost keeps them
  when the agent returns to the address it reported before; `Known` excepts it
  (`astray`).
- A forced check that is cancelled in its replacement goes on without the lock;
  `OneUpdate` excepts what comes of it (`loose`).
- A file that the dashboard reads in parts may change hands between two of them;
  `ReadsTrue` then promises a part for every position, not one file.
- The text of a listing, of the output of a command and of errors is left out,
  and so are the standard input of exec (a task nobody waits for), certificates
  and delays of probes, and the environment of processes.
- Not modelled: the monitor and hardware probes (no state but counters), the
  editor and the service commands (processes of their own that make a few calls
  and end), surge-ping (vendored), the certificate verifier.
- The models follow Linux. The ports differ in the system calls of the commit.
- The kernel's line discipline passes bytes through, as it does for a program
  in raw mode: that it edits lines, or drops input of a line that is too long, is
  none of the agent's.
- A terminal that fails before its child runs has nothing to tear down and is
  not modelled. The window's size is a frame that may end the terminal when
  setting it fails.

## Plan

1. `edit.rs` as another writer of the file in `ConfigReload`; `Service` for systemd;
   directory trees for `FileCommit`.
2. Two tasks of one session at once: the file manager's uploads beside
   `FileCommit`'s operations on the same names.

Abstract specifications to add: a relay as a pair of lossless queues that
`Terminal` and `NatRelay` implement while they last.

Proofs to add: those of the relays' refinement; the invariants above would carry it.
