------------------------------ MODULE NatRelay ------------------------------
(***************************************************************************)
(* A relay to a TCP backend: run of src/nat.rs.                            *)
(*                                                                         *)
(*   dashboard -> remote -> loop -> tcpOut -> backend                      *)
(*   dashboard <- outbound <- loop <- tcpIn <- backend                     *)
(*                                                                         *)
(* One task serves both directions; while it passes a frame on it looks at *)
(* nothing else.  The backend may end its direction and go on reading.     *)
(***************************************************************************)
EXTENDS RelayStream

CONSTANTS
    TcpBuffer,  \* chunks the kernels hold in each direction
    MaxOut      \* bound: chunks the backend writes

ASSUME NatAssumption == TcpBuffer \in Nat \ {0} /\ MaxOut \in Nat

VARIABLES
    loop,      \* "select", "write", "send", "finish" or "done"
    exit,      \* why it is done
    held,      \* the frame it passes on
    open,      \* sender.is_some()
    localEof,  \* the end of the backend's direction was passed on
    tcpIn, tcpOut,  \* the connection
    backend,   \* "idle", "writing" or "gone"
    finished,  \* the backend will write nothing more
    reset,     \* the connection was reset, and what it held is lost
    received,  \* what the backend has read
    written    \* counts the chunks it has written

task == <<loop, exit, held, open, localEof>>
peer == <<backend, finished, received, written>>
vars == <<task, stream, tcpIn, tcpOut, reset, peer>>

TypeOK ==
    /\ StreamTypeOK
    /\ loop \in {"select", "write", "send", "finish", "done"}
    /\ exit \in {"none", "end", "write", "cut", "drained", "cancelled"}
    /\ held \in Frames
    /\ open \in BOOLEAN /\ localEof \in BOOLEAN
    /\ Sized(tcpIn, Nat, TcpBuffer) /\ Sized(tcpOut, Nat, TcpBuffer)
    /\ backend \in {"idle", "writing", "gone"}
    /\ finished \in BOOLEAN /\ reset \in BOOLEAN
    /\ received \in Seq(Nat) /\ written \in 0 .. MaxOut

\* The stream is open and the backend connected; a failure before that
\* leaves nothing behind.
Init ==
    /\ StreamInit
    /\ loop = "select" /\ exit = "none" /\ held = Keep
    /\ open = TRUE /\ localEof = FALSE
    /\ tcpIn = <<>> /\ tcpOut = <<>> /\ reset = FALSE
    /\ backend = "idle" /\ finished = FALSE
    /\ received = <<>> /\ written = 0

-----------------------------------------------------------------------------
(* The dashboard, and the backend: any program that reads, or not, and writes *)

Others == UNCHANGED <<task, tcpIn, tcpOut, reset, peer>>

DashboardSends == loop # "done" /\ (SendChunk \/ SendOther \/ Close) /\ Others

DashboardReads == ReadFrame /\ Others

StreamTornDown == CutOff /\ Others

BackendReads ==
    /\ backend = "idle" /\ tcpOut # <<>>
    /\ received' = Append(received, Head(tcpOut)) /\ tcpOut' = Tail(tcpOut)
    /\ UNCHANGED <<task, stream, tcpIn, reset, backend, finished, written>>

BackendSpeaks ==
    /\ backend = "idle" /\ ~finished /\ written < MaxOut
    /\ backend' = "writing"
    /\ UNCHANGED <<task, stream, tcpIn, tcpOut, reset, finished, received, written>>

BackendWrites ==
    /\ backend = "writing" /\ loop # "done" /\ Len(tcpIn) < TcpBuffer
    /\ backend' = "idle" /\ written' = written + 1
    /\ tcpIn' = Append(tcpIn, written + 1)
    /\ UNCHANGED <<task, stream, tcpOut, reset, finished, received>>

\* Writing on a connection that was closed resets it.
BackendWritesLate ==
    /\ backend = "writing" /\ loop = "done"
    /\ backend' = "idle" /\ reset' = TRUE
    /\ tcpOut' \in {tcpOut, <<>>}
    /\ UNCHANGED <<task, stream, tcpIn, finished, received, written>>

BackendFinishes ==
    /\ backend = "idle" /\ ~finished /\ finished' = TRUE
    /\ UNCHANGED <<task, stream, tcpIn, tcpOut, reset, backend, received, written>>

\* It closes its socket; what it did not read resets the connection.
BackendGoes ==
    /\ backend # "gone" /\ backend' = "gone" /\ finished' = TRUE
    /\ \/ UNCHANGED <<tcpIn, reset>>
       \/ tcpIn' = <<>> /\ reset' = TRUE
    /\ tcpOut' = <<>>
    /\ UNCHANGED <<task, stream, received, written>>

-----------------------------------------------------------------------------
(* The loop *)

Local == UNCHANGED <<exit, open, localEof, reset, peer>>

At(step, f) == loop' = step /\ held' = f

ReceiveChunk ==
    /\ loop = "select" /\ TakeFrame /\ Head(remote) # Keep
    /\ At("write", Head(remote))
    /\ UNCHANGED <<tcpIn, tcpOut>> /\ Local

ReceiveOther ==
    /\ loop = "select" /\ TakeFrame /\ Head(remote) = Keep
    /\ UNCHANGED <<loop, held, tcpIn, tcpOut>> /\ Local

\* tcp_write.write_all(&frame.data).await
WriteAll ==
    /\ loop = "write" /\ backend # "gone"
    /\ Len(tcpOut) < TcpBuffer /\ tcpOut' = Append(tcpOut, held)
    /\ At("select", Keep)
    /\ UNCHANGED <<stream, tcpIn>> /\ Local

ReadBackend ==
    /\ loop = "select" /\ ~localEof /\ tcpIn # <<>>
    /\ At("send", Head(tcpIn)) /\ tcpIn' = Tail(tcpIn)
    /\ UNCHANGED <<stream, tcpOut>> /\ Local

ReadEndAtOnce ==
    /\ loop = "select" /\ ~localEof /\ finished
    /\ At("finish", Eof) /\ open' = FALSE
    /\ UNCHANGED <<stream, exit, localEof, tcpIn, tcpOut, reset, peer>>

\* finish_local_read takes the sender, and drops it once the frame is sent.
ReadEnd ==
    /\ loop = "select" /\ ~localEof /\ finished /\ tcpIn = <<>>
    /\ At("finish", Eof) /\ open' = FALSE
    /\ UNCHANGED <<stream, exit, localEof, tcpIn, tcpOut, reset, peer>>

KeepAlive ==
    /\ loop = "select" /\ open
    /\ At("send", Keep)
    /\ UNCHANGED <<stream, tcpIn, tcpOut>> /\ Local

\* sender.send(frame).await
SendOutput ==
    /\ loop \in {"send", "finish"} /\ At("select", Keep)
    /\ localEof' = (localEof \/ loop = "finish")
    /\ Len(outbound) < Capacity /\ PutFrame(held)
    /\ UNCHANGED <<exit, open, tcpIn, tcpOut, reset, peer>>

\* Both halves of the connection are dropped.  What the backend has sent and
\* nobody read resets the connection, and what is on its way may be lost.
Done(why) ==
    /\ loop' = "done" /\ exit' = why /\ held' = Keep /\ open' = FALSE
    /\ DropStream
    /\ tcpIn' = <<>>
    /\ IF tcpIn = <<>> THEN UNCHANGED <<tcpOut, reset>>
       ELSE tcpOut' \in {tcpOut, <<>>} /\ reset' = TRUE
    /\ UNCHANGED <<localEof, peer>>

ReceiveEndAtOnce == loop = "select" /\ ending # "open" /\ Done("end")

ReceiveEnd == loop = "select" /\ AtEnd /\ Done("end")

WriteFails == loop = "write" /\ backend = "gone" /\ Done("write")

SendRefused == loop \in {"send", "finish"} /\ cut /\ Done("cut")

NeverDrains == FALSE

\* Thirty seconds after the end of the backend's direction.
Drains == loop = "select" /\ localEof

Drained == Drains /\ Done("drained")

\* The task is aborted with its session.
Cancelled == loop # "done" /\ Done("cancelled")

-----------------------------------------------------------------------------
LoopStep ==
    \/ ReceiveChunk \/ ReceiveOther \/ ReceiveEnd \/ WriteAll \/ WriteFails
    \/ ReadBackend \/ ReadEnd \/ SendOutput \/ SendRefused \/ Drained

Next ==
    \/ DashboardSends \/ DashboardReads \/ StreamTornDown
    \/ BackendReads \/ BackendSpeaks \/ BackendWrites \/ BackendWritesLate
    \/ BackendFinishes \/ BackendGoes
    \/ LoopStep \/ KeepAlive \/ Cancelled

Spec == Init /\ [][Next]_vars

-----------------------------------------------------------------------------
(* Properties *)

Relaying == loop # "done" /\ ~reset

\* What the backend wrote.
OutputInOrder ==
    Relaying /\ ~cut =>
        Carries(got \o outbound \o Holding(loop = "send", held) \o tcpIn, written)

\* What the dashboard sent.
InputInOrder ==
    Relaying /\ ending # "broken" /\ backend # "gone" =>
        Carries(received \o tcpOut \o Holding(loop = "write", held) \o remote, sent)

\* Once the dashboard is told of the end nothing follows, not even a
\* keep-alive, and nothing the backend wrote is missing.
EofComesLast ==
    \A i \in DOMAIN got : got[i] = Eof =>
        i = Len(got) /\ (reset \/ got = UpTo(written) \o <<Eof>>)

\* While the relay lasts nothing is lost, doubled or reordered either way, and
\* the end of the backend's direction comes last (lines 64 to 114).
InOrder == OutputInOrder /\ InputInOrder /\ EofComesLast

\* What happens by itself: the task runs on, a stream that has ended is torn
\* down, and the backend finishes what it writes.  Whether the backend or the
\* dashboard reads is its own choice.
Progress == LoopStep \/ StreamTornDown \/ BackendWrites \/ BackendWritesLate

\* What each of them waits for.
LoopRuns ==
    \/ loop = "select" /\ (remote # <<>> \/ ending # "open")
    \/ loop = "select" /\ ~localEof /\ (tcpIn # <<>> \/ finished)
    \/ Drains
    \/ loop = "write" /\ (backend = "gone" \/ Len(tcpOut) < TcpBuffer)
    \/ loop \in {"send", "finish"} /\ (cut \/ Len(outbound) < Capacity)

OthersRun ==
    \/ ending # "open" /\ ~cut
    \/ backend = "writing" /\ (loop = "done" \/ Len(tcpIn) < TcpBuffer)

Quiet == ~(LoopRuns \/ OthersRun)

\* Quiet is what it should be: the waits written out above are those of the
\* actions.
RestIsQuiet == Quiet <=> ~ENABLED Progress

\* The loop waits for the backend to read: it chooses not to, or it cannot,
\* because it is writing and the loop does not read.
BackendBlocks ==
    /\ loop = "write" /\ Len(tcpOut) = TcpBuffer
    /\ \/ backend = "idle"
       \/ backend = "writing" /\ Len(tcpIn) = TcpBuffer

\* The loop waits for the dashboard to read, which has not ended the stream.
DashboardBlocks ==
    /\ loop \in {"send", "finish"} /\ Len(outbound) = Capacity
    /\ ending = "open"

\* A relay whose stream or backend has ended ends, whatever the other side
\* sends - unless it waits, without a limit, for its backend to read (line 69)
\* or for its dashboard (lines 83 and 94, and finish_local_read).  There it
\* does not see an end, nor the thirty seconds, and only the end of the
\* session ends it.
EndsNoticed ==
    (ending # "open" \/ finished) /\ Quiet
        => loop = "done" \/ BackendBlocks \/ DashboardBlocks

\* When the relay ends with the stream, what the dashboard sent before has
\* reached the backend or is there for it to read - unless the backend leaves
\* or has sent something that nobody read.
EndDelivers ==
    ending = "end" /\ exit = "end" /\ backend # "gone" /\ ~reset
        => received \o tcpOut = UpTo(sent)
=============================================================================
