------------------------------ MODULE Terminal ------------------------------
(***************************************************************************)
(* A web terminal: run of src/terminal.rs.                                 *)
(*                                                                         *)
(*   dashboard -> remote -> loop -> inputs -> writer -> ptyIn -> child     *)
(*   dashboard <- outbound <- loop <- outputs <- reader <- ptyOut <- child *)
(*                                                                         *)
(* The loop is a task; the reader and the writer are threads, which        *)
(* nothing can interrupt.  Every queue between two of them is bounded.     *)
(* A child that ends may leave a process behind that keeps the terminal's  *)
(* other side open.                                                        *)
(***************************************************************************)
EXTENDS RelayStream

CONSTANTS
    PtyBuffer,  \* chunks the kernel holds in each direction
    MaxOut      \* bound: chunks the child writes

ASSUME TerminalAssumption == PtyBuffer \in Nat \ {0} /\ MaxOut \in Nat

VARIABLES
    loop,      \* where the task is
    exit,      \* why it left its loop
    held,      \* the frame it sends next
    inputs, writer, writing,   \* input_tx, the writer thread, its chunk
    outputs, reader, reading,  \* output_tx, the reader thread, its chunk
    ptyIn, ptyOut,             \* the terminal
    child,     \* "idle", "writing" or "dead"
    orphan,    \* a process it left behind keeps the terminal open
    consumed,  \* what the child has read
    written    \* counts the chunks it has written

threads == <<inputs, writer, writing, outputs, reader, reading>>
process == <<ptyIn, ptyOut, child, orphan, consumed, written>>
vars == <<loop, exit, held, stream, threads, process>>

Looping == loop \in {"select", "input", "output", "last"}
Left == loop \in {"joining", "done"}
SlaveOpen == child # "dead" \/ orphan

TypeOK ==
    /\ loop \in {"select", "input", "output", "last", "left", "joining", "done"}
    /\ exit \in {"none", "eof", "end", "input", "resize", "cut", "cancelled"}
    /\ held \in Frames /\ writing \in Frames /\ reading \in Frames
    /\ StreamTypeOK
    /\ Sized(inputs, Nat, Capacity) /\ Sized(outputs, Frames, Capacity)
    /\ Sized(ptyIn, Nat, PtyBuffer) /\ Sized(ptyOut, Nat, PtyBuffer)
    /\ consumed \in Seq(Nat)
    /\ written \in 0 .. MaxOut
    /\ writer \in {"receive", "write", "ended"}
    /\ reader \in {"read", "send", "fail", "ended"}
    /\ child \in {"idle", "writing", "dead"}
    /\ orphan \in BOOLEAN

\* The stream is open and the child is spawned; what fails before that
\* starts nothing.
Init ==
    /\ loop = "select" /\ exit = "none" /\ held = Keep /\ StreamInit
    /\ inputs = <<>> /\ writer = "receive" /\ writing = Keep
    /\ outputs = <<>> /\ reader = "read" /\ reading = Keep
    /\ ptyIn = <<>> /\ ptyOut = <<>>
    /\ child = "idle" /\ orphan = FALSE /\ consumed = <<>> /\ written = 0

-----------------------------------------------------------------------------
(* The dashboard *)

DashboardSends ==
    /\ ~Left /\ (SendChunk \/ SendOther \/ Close)
    /\ UNCHANGED <<loop, exit, held, threads, process>>

DashboardReads == ReadFrame /\ UNCHANGED <<loop, exit, held, threads, process>>

StreamTornDown == CutOff /\ UNCHANGED <<loop, exit, held, threads, process>>

-----------------------------------------------------------------------------
(* The loop *)

TakeRemote(step, f) ==
    /\ loop = "select" /\ TakeFrame
    /\ loop' = step /\ held' = f
    /\ exit' = IF step = "left" THEN "resize" ELSE exit
    /\ UNCHANGED <<threads, process>>

ReceiveChunk == remote # <<>> /\ Head(remote) # Keep /\ TakeRemote("input", Head(remote))

\* A resize, which may fail, and whatever else is not input.
ReceiveOther ==
    /\ remote # <<>> /\ Head(remote) = Keep
    /\ \E step \in {"select", "left"} : TakeRemote(step, Keep)

LeaveFor(why) ==
    loop' = "left" /\ exit' = why /\ UNCHANGED <<held, stream, threads, process>>

ReceiveEnd == loop = "select" /\ AtEnd /\ LeaveFor("end")

\* input_tx.send(data).await
PassInput ==
    /\ loop = "input" /\ writer # "ended"
    /\ Len(inputs) < Capacity /\ inputs' = Append(inputs, held)
    /\ loop' = "select" /\ held' = Keep
    /\ UNCHANGED <<exit, stream, writer, writing, outputs, reader, reading, process>>

InputRefused == loop = "input" /\ writer = "ended" /\ LeaveFor("input")

TakeOutput(step) ==
    /\ loop = "select" /\ outputs # <<>>
    /\ held' = Head(outputs) /\ outputs' = Tail(outputs)
    /\ loop' = step /\ exit' = IF step = "left" THEN "eof" ELSE exit
    /\ UNCHANGED <<stream, inputs, writer, writing, reader, reading, process>>

ReceiveOutputSilently ==
    outputs # <<>> /\ TakeOutput(IF Head(outputs) = Eof THEN "left" ELSE "output")

\* The reader ends after an error only, so the channel does not end first.
ReceiveOutput ==
    outputs # <<>> /\ TakeOutput(IF Head(outputs) = Eof THEN "last" ELSE "output")

KeepAlive ==
    /\ loop = "select" /\ loop' = "output" /\ held' = Keep
    /\ UNCHANGED <<exit, stream, threads, process>>

\* sender.send(frame).await
SendOutput ==
    /\ loop \in {"output", "last"} /\ Len(outbound) < Capacity
    /\ PutFrame(held)
    /\ IF loop = "last" THEN loop' = "left" /\ exit' = "eof"
                        ELSE loop' = "select" /\ UNCHANGED exit
    /\ held' = Keep
    /\ UNCHANGED <<threads, process>>

OutputRefused == loop \in {"output", "last"} /\ cut /\ LeaveFor("cut")

\* Dropping the child kills its process group and waits for it; what has not
\* been received from the channels and the stream never will be.
DropAll(alive) ==
    /\ held' = Keep /\ outputs' = <<>> /\ DropStream
    /\ child' = alive
    /\ orphan' \in IF child = "dead" THEN {orphan} ELSE BOOLEAN
    /\ UNCHANGED <<inputs, writer, writing, reader, reading, ptyIn, ptyOut,
                   consumed, written>>

LeaveDetached ==
    loop = "left" /\ loop' = "joining" /\ DropAll(child) /\ UNCHANGED exit

Leave == loop = "left" /\ loop' = "joining" /\ DropAll("dead") /\ UNCHANGED exit

\* Each thread is given two seconds.
Joined ==
    /\ loop = "joining" /\ loop' = "done"
    /\ UNCHANGED <<exit, held, stream, threads, process>>

\* The task is aborted with its session.
Cancelled ==
    Looping /\ loop' = "done" /\ exit' = "cancelled" /\ DropAll("dead")

-----------------------------------------------------------------------------
(* The threads *)

WriterOnly == UNCHANGED <<loop, exit, held, stream, outputs, reader, reading,
                          ptyOut, child, orphan, consumed, written>>

WriterReceives ==
    /\ writer = "receive" /\ inputs # <<>>
    /\ writer' = "write" /\ writing' = Head(inputs) /\ inputs' = Tail(inputs)
    /\ UNCHANGED ptyIn /\ WriterOnly

WriterWrites ==
    /\ writer = "write" /\ SlaveOpen /\ Len(ptyIn) < PtyBuffer
    /\ ptyIn' = Append(ptyIn, writing)
    /\ writer' = "receive" /\ writing' = Keep
    /\ UNCHANGED inputs /\ WriterOnly

WriterEndsByError ==
    /\ writer = "write" /\ ~SlaveOpen
    /\ writer' = "ended" /\ writing' = Keep /\ inputs' = <<>>
    /\ UNCHANGED ptyIn /\ WriterOnly

\* The channel is closed and empty.
WriterEndsByClose ==
    /\ writer = "receive" /\ inputs = <<>> /\ Left
    /\ writer' = "ended" /\ writing' = Keep
    /\ UNCHANGED <<inputs, ptyIn>> /\ WriterOnly

WriterEnds == WriterEndsByError \/ WriterEndsByClose

ReaderOnly == UNCHANGED <<loop, exit, held, stream, inputs, writer, writing,
                          ptyIn, child, orphan, consumed, written>>

ReaderReads ==
    /\ reader = "read" /\ ptyOut # <<>>
    /\ reader' = "send" /\ reading' = Head(ptyOut) /\ ptyOut' = Tail(ptyOut)
    /\ UNCHANGED outputs /\ ReaderOnly

\* No process has the terminal open and all was read.
ReaderFails ==
    /\ reader = "read" /\ ptyOut = <<>> /\ ~SlaveOpen
    /\ reader' = "fail" /\ reading' = Eof
    /\ UNCHANGED <<outputs, ptyOut>> /\ ReaderOnly

ReaderSendsTo(queue) ==
    /\ reader \in {"send", "fail"} /\ ~Left
    /\ outputs' = queue /\ reading' = Keep
    /\ reader' = IF reader = "fail" THEN "ended" ELSE "read"
    /\ UNCHANGED ptyOut /\ ReaderOnly

ReaderSendsIfRoom ==
    ReaderSendsTo(IF Len(outputs) < Capacity THEN Append(outputs, reading) ELSE outputs)

\* output_tx.blocking_send
ReaderSends == Len(outputs) < Capacity /\ ReaderSendsTo(Append(outputs, reading))

ReaderEnds ==
    /\ reader \in {"send", "fail"} /\ Left
    /\ reader' = "ended" /\ reading' = Keep
    /\ UNCHANGED <<outputs, ptyOut>> /\ ReaderOnly

-----------------------------------------------------------------------------
(* The child: any program that reads its terminal, or not, and writes to it *)

ChildOnly == UNCHANGED <<loop, exit, held, stream, threads>>

ChildReads ==
    /\ child = "idle" /\ ptyIn # <<>>
    /\ consumed' = Append(consumed, Head(ptyIn)) /\ ptyIn' = Tail(ptyIn)
    /\ UNCHANGED <<ptyOut, child, orphan, written>> /\ ChildOnly

ChildSpeaks ==
    /\ child = "idle" /\ written < MaxOut /\ child' = "writing"
    /\ UNCHANGED <<ptyIn, ptyOut, orphan, consumed, written>> /\ ChildOnly

ChildWrites ==
    /\ child = "writing" /\ Len(ptyOut) < PtyBuffer
    /\ child' = "idle" /\ written' = written + 1
    /\ ptyOut' = Append(ptyOut, written + 1)
    /\ UNCHANGED <<ptyIn, orphan, consumed>> /\ ChildOnly

ChildExits ==
    /\ child # "dead" /\ child' = "dead"
    /\ orphan' \in BOOLEAN
    /\ UNCHANGED <<ptyIn, ptyOut, consumed, written>> /\ ChildOnly

OrphanEnds ==
    /\ orphan /\ orphan' = FALSE
    /\ UNCHANGED <<ptyIn, ptyOut, child, consumed, written>> /\ ChildOnly

-----------------------------------------------------------------------------
Message == ReceiveChunk \/ ReceiveOther \/ ReceiveEnd
LoopStep ==
    PassInput \/ InputRefused \/ SendOutput \/ OutputRefused \/ Leave \/ Joined
WriterStep == WriterReceives \/ WriterWrites \/ WriterEnds
ReaderStep == ReaderReads \/ ReaderFails \/ ReaderSends \/ ReaderEnds

Next ==
    \/ DashboardSends \/ DashboardReads \/ StreamTornDown
    \/ Message \/ ReceiveOutput \/ KeepAlive \/ LoopStep \/ Cancelled
    \/ WriterStep \/ ReaderStep
    \/ ChildReads \/ ChildSpeaks \/ ChildWrites \/ ChildExits \/ OrphanEnds

Spec == Init /\ [][Next]_vars

-----------------------------------------------------------------------------
(* Properties *)

\* What the child wrote is on its way through two queues, a thread and a task.
OutputInOrder ==
    Looping /\ ~cut =>
        Carries(got \o outbound
                  \o Holding(loop \in {"output", "last"}, held) \o outputs
                  \o Holding(reader = "send", reading) \o ptyOut, written)

\* What the dashboard typed.
InputInOrder ==
    Looping /\ ending = "open" /\ writer # "ended" =>
        Carries(consumed \o ptyIn \o Holding(writer = "write", writing)
                  \o inputs \o Holding(loop = "input", held) \o remote, sent)

\* The dashboard is told of the end after all that was written.
EofComesLast ==
    \A i \in DOMAIN got : got[i] = Eof => got = UpTo(written) \o <<Eof>>

\* As long as the terminal lasts nothing is lost, doubled or reordered either
\* way, and the dashboard is told of the end last (lines 76 to 158).
InOrder == OutputInOrder /\ InputInOrder /\ EofComesLast

\* What happens by itself: tasks and threads run on, a stream that has ended
\* is torn down, and a child finishes what it writes.  Whether the child or
\* the dashboard reads is its own choice.
Progress ==
    \/ Message \/ ReceiveOutput \/ LoopStep \/ WriterStep \/ ReaderStep
    \/ ChildWrites \/ StreamTornDown

\* What each of them waits for.
LoopRuns ==
    \/ loop = "select" /\ (remote # <<>> \/ ending # "open" \/ outputs # <<>>)
    \/ loop = "input" /\ (writer = "ended" \/ Len(inputs) < Capacity)
    \/ loop \in {"output", "last"} /\ (cut \/ Len(outbound) < Capacity)
    \/ loop \in {"left", "joining"}

WriterRuns ==
    \/ writer = "receive" /\ (inputs # <<>> \/ Left)
    \/ writer = "write" /\ (~SlaveOpen \/ Len(ptyIn) < PtyBuffer)

ReaderRuns ==
    \/ reader = "read" /\ (ptyOut # <<>> \/ ~SlaveOpen)
    \/ reader \in {"send", "fail"} /\ (Left \/ Len(outputs) < Capacity)

OthersRun ==
    \/ child = "writing" /\ Len(ptyOut) < PtyBuffer
    \/ ending # "open" /\ ~cut

\* Progress moves chunks on; what it ends in is a state in which the terminal
\* stays, but for keep-alives, until somebody acts.
Quiet == ~(LoopRuns \/ WriterRuns \/ ReaderRuns \/ OthersRun)

\* Quiet is what it should be: the waits written out above are those of the
\* actions.
RestIsQuiet == Quiet <=> ~ENABLED Progress

\* The loop waits for the writer, and the writer for somebody to read input.
InputBlocked ==
    /\ loop = "input" /\ Len(inputs) = Capacity
    /\ writer = "write" /\ Len(ptyIn) = PtyBuffer /\ SlaveOpen

\* The child waits for the reader, and the reader for the loop.
OutputBlocked ==
    /\ child = "writing" /\ Len(ptyOut) = PtyBuffer
    /\ reader = "send" /\ Len(outputs) = Capacity

\* A terminal whose stream has ended ends, and its child with it - unless the
\* input is blocked, when the loop does not look at the stream (line 125) and
\* only the end of the session ends it.  The input is blocked by a child that
\* does not read, or by one that cannot, because its output is blocked by the
\* same loop.  And no thread is left behind, once no process has the terminal
\* open.
EndKills ==
    Quiet =>
        /\ ending # "open" => \/ loop = "done" /\ child = "dead"
                              \/ InputBlocked /\ (child = "writing" => OutputBlocked)
        /\ Left /\ ~SlaveOpen => writer = "ended" /\ reader = "ended"

\* A dashboard that reads is told when the child has exited, unless it ended
\* the stream or went on typing: input for a dead child ends the terminal with
\* the last output undelivered.
ExitReported ==
    ~SlaveOpen /\ exit \in {"none", "eof"} /\ ending = "open" /\ Quiet
        => outbound # <<>> \/ \E i \in DOMAIN got : got[i] = Eof
=============================================================================
