------------------------------ MODULE Commands ------------------------------
(***************************************************************************)
(* A command of the dashboard as the agent runs it: the MCP exec task      *)
(* (src/mcp_exec.rs) and the shell command (src/tasks.rs, command).  Both  *)
(* start a process as the leader of a group of its own, wait for it under  *)
(* a limit, and kill the group on every way out.                           *)
(*                                                                         *)
(* The processes: the leader, a member of its group, and one that left the *)
(* group (setsid) and is therefore not killed.  Each may hold the write    *)
(* end of a pipe.  Exec has a task per pipe read up to Max units and count *)
(* on; command reads one pipe itself, to its end, and has no second one.   *)
(***************************************************************************)
EXTENDS Naturals

CONSTANTS
    PipeCapacity,  \* units a pipe holds (64 KiB)
    MaxOutput,     \* units exec keeps (max_output_bytes)
    MaxWritten     \* bound: units written to a pipe

\* TaskRun assumes it.
CommandsAssumption ==
    PipeCapacity \in Nat \ {0} /\ MaxOutput \in Nat /\ MaxWritten \in Nat

Streams == {"out", "err"}
Group == {"leader", "member"}
Processes == Group \cup {"escapee"}

VARIABLES
    kind,     \* "exec" or "command"
    step,     \* what the task does
    life,     \* life[p]: "none", "runs" or "gone"
    holds,    \* holds[p]: the pipes p can write to
    exit,     \* the leader's exit: its own, or "killed"
    pipe,     \* pipe[s]: units in the pipe
    written,  \* written[s]: units written to it in all
    kept,     \* kept[s]: units its reader has kept
    reader,   \* reader[s]: "none", "reads", "ended" or "aborted"
    status,   \* what the wait for the leader came to
    lost,     \* pipes whose output exec has given up
    reply     \* "none", "refused", "sent" or, of a cancelled task, "cancelled"

processes == <<life, holds, exit>>
pipes == <<pipe, written, kept, reader>>
vars == <<kind, step, processes, pipes, status, lost, reply>>

TypeOK ==
    /\ kind \in {"exec", "command"}
    /\ step \in {"idle", "waiting", "out", "err", "over"}
    /\ life \in [Processes -> {"none", "runs", "gone"}]
    /\ holds \in [Processes -> SUBSET Streams]
    /\ exit \in {"none", "ok", "bad", "killed"}
    /\ pipe \in [Streams -> 0 .. PipeCapacity]
    /\ written \in [Streams -> 0 .. MaxWritten]
    /\ kept \in [Streams -> 0 .. MaxWritten]
    /\ reader \in [Streams -> {"none", "reads", "ended", "aborted"}]
    /\ status \in {"none", "ok", "bad", "error", "limit"}
    /\ lost \in SUBSET Streams
    /\ reply \in {"none", "refused", "sent", "cancelled"}

Init ==
    /\ kind \in {"exec", "command"} /\ step = "idle"
    /\ life = [p \in Processes |-> "none"] /\ holds = [p \in Processes |-> {}]
    /\ exit = "none"
    /\ pipe = [s \in Streams |-> 0] /\ written = [s \in Streams |-> 0]
    /\ kept = [s \in Streams |-> 0] /\ reader = [s \in Streams |-> "none"]
    /\ status = "none" /\ lost = {} /\ reply = "none"

Piped == IF kind = "exec" THEN Streams ELSE {"out"}

Runs(p) == life[p] = "runs"
Eof(s) == \A p \in Processes : s \notin holds[p]

-----------------------------------------------------------------------------
(* The processes *)

TaskKept == UNCHANGED <<kind, step, status, lost, reply>>

\* A child inherits the pipes of its parent, unless it is started without.
Fork(p, child) ==
    /\ Runs(p) /\ p \in Group /\ life[child] = "none"
    /\ life' = [life EXCEPT ![child] = "runs"]
    /\ \E own \in SUBSET holds[p] : holds' = [holds EXCEPT ![child] = own]
    /\ TaskKept /\ UNCHANGED <<exit, pipes>>

\* A process that writes to a full pipe waits.
Write(p, s) ==
    /\ Runs(p) /\ s \in holds[p] /\ reader[s] # "aborted"
    /\ pipe[s] < PipeCapacity /\ written[s] < MaxWritten
    /\ pipe' = [pipe EXCEPT ![s] = @ + 1]
    /\ written' = [written EXCEPT ![s] = @ + 1]
    /\ TaskKept /\ UNCHANGED <<processes, kept, reader>>

Exit(p) ==
    /\ Runs(p)
    /\ life' = [life EXCEPT ![p] = "gone"] /\ holds' = [holds EXCEPT ![p] = {}]
    /\ IF p = "leader" THEN exit' \in {"ok", "bad"} ELSE UNCHANGED exit
    /\ TaskKept /\ UNCHANGED pipes

ProcessStep ==
    \E p \in Processes :
        \/ \E child \in {"member", "escapee"} : Fork(p, child)
        \/ \E s \in Streams : Write(p, s)
        \/ Exit(p)

-----------------------------------------------------------------------------
(* Readers *)

\* kill(-pid, SIGKILL), also when the leader was reaped before.
KillGroup ==
    /\ life' = [p \in Processes |-> IF p \in Group /\ Runs(p) THEN "gone" ELSE life[p]]
    /\ holds' = [p \in Processes |-> IF p \in Group THEN {} ELSE holds[p]]
    /\ exit' = IF Runs("leader") THEN "killed" ELSE exit

ReadableUpToMax(s) ==
    reader[s] = "reads" /\ pipe[s] > 0 /\ (kind = "exec" => kept[s] < MaxOutput)

\* read_bounded reads on when it has all that it keeps.
Readable(s) == reader[s] = "reads" /\ pipe[s] > 0

Read(s) ==
    /\ Readable(s)
    /\ pipe' = [pipe EXCEPT ![s] = @ - 1]
    /\ kept' = [kept EXCEPT ![s] = IF kind = "exec" /\ @ >= MaxOutput THEN @ ELSE @ + 1]
    /\ TaskKept /\ UNCHANGED <<processes, written, reader>>

\* The end of a pipe comes when nobody can write to it any more.
ReadEnd(s) ==
    /\ reader[s] = "reads" /\ pipe[s] = 0 /\ Eof(s)
    /\ reader' = [reader EXCEPT ![s] = "ended"]
    /\ TaskKept /\ UNCHANGED <<processes, pipe, written, kept>>

ReaderStep == \E s \in Streams : Read(s) \/ ReadEnd(s)

-----------------------------------------------------------------------------
(* The task *)

Over(answer) == step' = "over" /\ reply' = answer /\ UNCHANGED kind

\* Commands are disabled, the request is not valid, or the process cannot be
\* started.
Refuse ==
    /\ step = "idle" /\ Over("refused")
    /\ UNCHANGED <<processes, pipes, status, lost>>

Start ==
    /\ step = "idle" /\ step' = "waiting"
    /\ life' = [life EXCEPT !["leader"] = "runs"]
    /\ holds' = [holds EXCEPT !["leader"] = Piped]
    /\ reader' = [s \in Streams |-> IF s \in Piped THEN "reads" ELSE "none"]
    /\ UNCHANGED <<kind, exit, pipe, written, kept, status, lost, reply>>

\* Exec: the leader has ended, or waiting for it failed, or took too long.
\* The group is killed before the output is collected.
Waited ==
    /\ kind = "exec" /\ step = "waiting"
    /\ \/ life["leader"] = "gone" /\ status' = exit
       \/ status' \in {"error", "limit"}
    /\ KillGroup /\ step' = "out"
    /\ UNCHANGED <<kind, pipes, lost, reply>>

After(s) ==
    IF s = "out" THEN step' = "err" /\ UNCHANGED <<kind, reply>> ELSE Over("sent")

Collect(s) ==
    /\ kind = "exec" /\ step = s /\ reader[s] = "ended"
    /\ After(s)
    /\ UNCHANGED <<processes, pipes, status, lost>>

Abort(s) ==
    /\ kind = "exec" /\ step = s /\ reader[s] = "reads" /\ ~Eof(s)
    /\ reader' = [reader EXCEPT ![s] = "aborted"]
    /\ After(s)
    /\ UNCHANGED <<processes, pipe, written, kept, status>>

GiveUpPartly(s) == Abort(s) /\ UNCHANGED lost

\* Half a second is enough to read out a pipe that nobody can write to; if
\* somebody can, what was read is dropped.
GiveUp(s) == Abort(s) /\ lost' = lost \cup {s}

\* Command: the leader has ended, and the pipe, too; the guard is dropped.
Finish ==
    /\ kind = "command" /\ step = "waiting"
    /\ life["leader"] = "gone" /\ reader["out"] = "ended"
    /\ status' = exit /\ KillGroup /\ Over("sent")
    /\ UNCHANGED <<pipes, lost>>

\* What wait_with_output has read is dropped with it.
TimesUp ==
    /\ kind = "command" /\ step = "waiting"
    /\ status' \in {"error", "limit"} /\ KillGroup /\ Over("sent")
    /\ reader' = [reader EXCEPT !["out"] = "aborted"] /\ lost' = {"out"}
    /\ UNCHANGED <<pipe, written, kept>>

\* The session ends, and with it the task: exec's readers are tasks of their
\* own and go on.
Dropped ==
    /\ step \in {"waiting", "out", "err"} /\ Over("cancelled")
    /\ reader' = IF kind = "exec" THEN reader ELSE [reader EXCEPT !["out"] = "aborted"]
    /\ UNCHANGED <<pipe, written, kept, status, lost>>

CancelLeaderOnly ==
    /\ Dropped
    /\ life' = [life EXCEPT !["leader"] = "gone"] /\ UNCHANGED <<holds, exit>>

Cancel == Dropped /\ KillGroup

Task ==
    \/ Refuse \/ Start \/ Waited \/ Finish \/ TimesUp \/ Cancel
    \/ \E s \in Streams : Collect(s) \/ GiveUp(s)

Next == ProcessStep \/ ReaderStep \/ Task

-----------------------------------------------------------------------------
(* Properties *)

\* Whatever way a task ends, the leader's exit before that of its children, a
\* limit, an error or the end of the session, nothing of its group runs on
\* (mcp_exec.rs 204 to 212, tasks.rs 280 to 297, linux.rs 59 to 70).
CleansUp == TypeOK /\ (step = "over" => \A p \in Group : ~Runs(p))

\* The answer has the leader's own exit, never that of its killing; the output
\* is the beginning of what was written and shorter only when it says so, or
\* nothing, which takes a process outside the group that holds the pipe or, for
\* command, the limit (mcp_exec.rs 46 to 62 and 210 to 230, tasks.rs 280 to 300).
ReplyTrue ==
    reply = "sent" =>
        /\ status \in {"ok", "bad"} => status = exit
        /\ \A s \in Piped \ lost :
              kept[s] = IF kind = "exec" /\ written[s] > MaxOutput
                        THEN MaxOutput ELSE written[s]
        /\ lost # {} => life["escapee"] # "none" \/ (kind = "command" /\ status \in {"error", "limit"})

\* A process that fills a pipe is never left waiting by an agent that waits
\* for it: someone reads, whatever has been kept (mcp_exec.rs 46 to 62 and 186
\* to 193, the test of concurrent output).
NeverStalls ==
    step = "waiting" =>
        \A s \in Piped : pipe[s] = PipeCapacity => Readable(s)

=============================================================================
