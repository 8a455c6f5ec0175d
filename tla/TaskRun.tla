------------------------------ MODULE TaskRun -------------------------------
(***************************************************************************)
(* One task of the dashboard in the worker of a session (src/main.rs) and  *)
(* in src/tasks.rs: it is dispatched by its type and by what the           *)
(* configuration disables, and becomes a command (Commands), a probe       *)
(* (Probes), a file manager (FileManager), a transfer (Transfer), a        *)
(* listing or a read (FileReads), or an answer.  A session that ends       *)
(* cancels it wherever it is.                                              *)
(***************************************************************************)
EXTENDS Integers

CONSTANTS PipeCapacity, MaxOutput, MaxWritten, Count, Deadline, Limit,
          Capacity, MaxSize, MaxCommands, Slots, MaxData,
          Items, Hidden, MaxList, MaxPart, MaxFile

VARIABLES
    type,      \* the type of the task
    disabled,  \* disable_command_execute and disable_send_query
    answer,    \* for the types that have no module

    order, process, life, holds, exit, pipe, written, kept, reader, status,
    lost, reply,

    inbox, ending, cut, outbox, loop, unsent, upload, lacking, refused,
    downloads, issued, sending, parser, waiting, clear, garbled, failed, untrue,
    misread,

    probe, state, host, servers, now, response, sent, answered, pending,
    received, outcome,

    op, phase, declared, remaining, final, committed, queue, opening, taken,
    heard, owed, arriving, hungup, gone,

    asked, seeking, named, handle, length, offset, total, parts, more, touched,
    present, unread, steady, listed

C == INSTANCE Commands WITH kind <- order, step <- process
P == INSTANCE Probes WITH kind <- probe, step <- state
F == INSTANCE FileManager
T == INSTANCE Transfer
R == INSTANCE FileReads

ASSUME TaskRunAssumption ==
    /\ C!CommandsAssumption /\ P!ProbesAssumption /\ F!FileManagerAssumption
    /\ T!TransferAssumption /\ R!FileReadsAssumption

commandVars ==
    <<order, process, life, holds, exit, pipe, written, kept, reader, status, lost, reply>>
probeVars ==
    <<probe, state, host, servers, now, response, sent, answered, pending, received, outcome>>
managerVars ==
    <<inbox, ending, cut, outbox, loop, unsent, upload, lacking, refused, downloads,
      issued, sending, parser, waiting, clear, garbled, failed, untrue, misread>>
transferVars ==
    <<op, phase, declared, remaining, final, committed, queue, opening, taken,
      heard, owed, arriving, hungup, gone>>
readVars ==
    <<asked, seeking, named, handle, length, offset, total, parts, more, touched,
      present, unread, steady, listed>>
vars ==
    <<type, disabled, answer, commandVars, probeVars, managerVars, transferVars, readVars>>

IsProbe == type \in {"http", "icmp", "tcp"}              \* 1 to 3
IsCommand == type \in {"command", "exec"}                \* 4 and 15
IsManager == type = "manager"                            \* 11
IsTransfer == type = "transfer"                          \* 20
IsRead == type \in {"list", "read"}                      \* 16 and 17
Others == {"keepalive", "config", "change", "unknown"}   \* 7, 12, 18 and 19, else

\* Only probes look at disable_send_query.
Init ==
    /\ type \in {"http", "icmp", "tcp", "command", "exec", "manager", "transfer",
                 "list", "read"} \cup Others
    /\ disabled \in SUBSET {"command", "query"} /\ (IsProbe \/ "query" \notin disabled)
    /\ answer = "none"
    /\ C!Init /\ order = (IF IsCommand THEN type ELSE "exec")
    /\ P!Init /\ probe = (IF IsProbe THEN type ELSE "tcp")
    /\ ~IsProbe => host = "literal" /\ servers = "valid"
    /\ F!Init
    /\ T!Init /\ (IsTransfer \/ op = "upload")
    /\ R!Init /\ asked = (IF IsRead THEN type ELSE "list")

\* A type is looked at before the configuration, and that before the request.
RunCommand ==
    /\ IsCommand /\ C!Next
    /\ "command" \in disabled => reply' = "refused"
    /\ UNCHANGED <<type, disabled, answer, probeVars, managerVars, transferVars, readVars>>

RunProbe ==
    /\ IsProbe /\ P!Next
    /\ ("query" \in disabled) <=> (outcome' = "refused")
    /\ UNCHANGED <<type, disabled, answer, commandVars, managerVars, transferVars, readVars>>

\* A file manager that is disabled does not open its stream.
RunManager ==
    /\ IsManager /\ "command" \notin disabled /\ F!Next
    /\ UNCHANGED <<type, disabled, answer, commandVars, probeVars, transferVars, readVars>>

\* A transfer that is disabled says so.
RunTransfer ==
    /\ IsTransfer /\ T!Next
    /\ "command" \in disabled => phase' \in {"start", "early", "done"}
    /\ UNCHANGED <<type, disabled, answer, commandVars, probeVars, managerVars, readVars>>

RunRead ==
    /\ IsRead /\ R!Next
    /\ "command" \in disabled => seeking' \in {"open", "error"}
    /\ UNCHANGED <<type, disabled, answer, commandVars, probeVars, managerVars, transferVars>>

\* The configuration of the agent is a command's business; what changes files
\* is FileCommit's; a type that is not known has no answer at all.
RunOther ==
    /\ type \in Others /\ answer = "none"
    /\ answer' = CASE type = "keepalive" -> "empty"
                   [] type = "config" ->
                          IF "command" \in disabled THEN "refused" ELSE "config"
                   [] type = "change" -> "files"
                   [] OTHER -> "no answer"
    /\ UNCHANGED <<type, disabled, commandVars, probeVars, managerVars, transferVars, readVars>>

Next ==
    RunCommand \/ RunProbe \/ RunManager \/ RunTransfer \/ RunRead \/ RunOther

Spec == Init /\ [][Next]_vars

-----------------------------------------------------------------------------
(* Properties, as the modules of the parts state them *)

\* Nothing that a task started in its process group outlives it, and nothing
\* is started when commands are disabled (tasks.rs 249 to 253, mcp_exec.rs
\* 76 to 84 and 204 to 212).
CommandCleansUp ==
    C!CleansUp /\ ("command" \in disabled => \A p \in C!Processes : life[p] = "none")

\* What the dashboard is told of a command's exit and output is true, and
\* none is left waiting at a full pipe.
CommandReplyTrue == C!ReplyTrue
CommandFlows == C!NeverStalls

\* A ping counts the replies that come in time, in any order, and no others;
\* a probe that is disabled sends nothing (tasks.rs 194 to 196).
PingTrue == P!PingTrue /\ ("query" \in disabled => sent = 0)

\* The properties of the file manager.
ManagerUploadsTrue == IsManager => F!UploadsTrue
ManagerTransfersApart == F!TransfersApart
ManagerEndDrains == IsManager => F!EndDrains

\* What is said of a transfer is true, and it waits for no limit without need.
TransferTrue ==
    T!TransferTrue /\ ("command" \in disabled => ~committed /\ ~T!Said("chunk"))
TransferFlows == IsTransfer => T!TransferFlows

\* Listings and reads are of what was opened, and whole when they say so.
ReadsTrue == R!ReadsTrue

\* What the parts are said to wait for is what their actions wait for: a
\* part that may go on can take a step, and one that may not cannot.
RestIsQuiet ==
    /\ IsCommand => \A s \in C!Streams : C!Readable(s) <=> ENABLED C!Read(s)
    /\ IsManager => (F!Busy <=> ENABLED F!Progress)
    /\ IsTransfer => (T!RunGoes <=> ENABLED T!Runs)
                     /\ (T!DashboardGoes <=> ENABLED T!Willing)
=============================================================================
