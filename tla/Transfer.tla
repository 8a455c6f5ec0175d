------------------------------ MODULE Transfer ------------------------------
(***************************************************************************)
(* The stream of an MCP transfer (src/mcp_transfer.rs): what run says to   *)
(* the dashboard, in which order, and what it waits for.                   *)
(*                                                                         *)
(* The agent's frames go through a channel.  The call that opens the       *)
(* stream is a task of its own: it reads the channel from the start, and   *)
(* returns when the dashboard says something or ends the stream.  What an  *)
(* upload does to its target is FileCommit's; here it is committed or not. *)
(***************************************************************************)
EXTENDS Integers, Sequences

CONSTANTS
    Slots,   \* frames the channel holds (32)
    MaxData  \* bound: units of data in a file

\* TaskRun assumes it.
TransferAssumption == Slots \in Nat /\ Slots >= 2 /\ MaxData \in Nat

VARIABLES
    op,         \* "upload" or "download"
    phase,      \* where run is
    declared,   \* the size in the header
    remaining,  \* units not yet received, or not yet sent
    final,      \* the frame that tells how it ended
    committed,  \* target.commit has returned without an error
    queue,      \* the channel
    opening,    \* the call that opens the stream
    taken,      \* run has its result: TRUE, or FALSE as long as it has not
    heard,      \* frames the dashboard has read
    owed,       \* units the dashboard has yet to send
    arriving,   \* its data on their way, by size
    hungup,     \* it sends nothing more
    gone        \* the connection is lost

vars == <<op, phase, declared, remaining, final, committed, queue, opening, taken,
          heard, owed, arriving, hungup, gone>>

TypeOK ==
    LET Frames == Seq({"attach", "accept", "offer", "chunk", "ok", "error"})
    IN  /\ op \in {"upload", "download"}
        /\ phase \in {"start", "early", "open", "data", "finish", "late", "drain", "done"}
        /\ declared \in 0 .. MaxData /\ remaining \in 0 .. declared
        /\ final \in {"none", "ok", "error"}
        /\ queue \in Frames /\ Len(queue) <= Slots /\ heard \in Frames
        /\ opening \in {"none", "calling", "opened", "failed", "aborted"}
        /\ owed \in 0 .. MaxData /\ arriving \in Seq(0 .. MaxData + 1)
        /\ {committed, taken, hungup, gone} \subseteq BOOLEAN

Init ==
    /\ op \in {"upload", "download"} /\ phase = "start"
    /\ declared = 0 /\ remaining = 0 /\ final = "none" /\ committed = FALSE
    /\ queue = <<>> /\ opening = "none" /\ taken = FALSE
    /\ heard = <<>> /\ owed = 0 /\ arriving = <<>> /\ hungup = FALSE /\ gone = FALSE

-----------------------------------------------------------------------------
(* The dashboard and the connection *)

Says(frame) == heard # <<>> /\ heard[Len(heard)] = frame
RunKept == UNCHANGED <<op, phase, declared, remaining, final, committed, taken>>

Hears ==
    /\ opening \in {"calling", "opened"} /\ queue # <<>>
    /\ heard' = Append(heard, Head(queue)) /\ queue' = Tail(queue)
    /\ RunKept /\ UNCHANGED <<opening, owed, arriving, hungup, gone>>

\* Its first answer, with or without data, completes the call.
Opens ==
    /\ opening = "calling" /\ opening' = "opened"
    /\ RunKept /\ UNCHANGED <<queue, heard, owed, arriving, hungup, gone>>

Sends(size) ==
    /\ opening = "opened" /\ ~hungup /\ arriving = <<>>
    /\ arriving' = <<size>> /\ owed' = IF size < owed THEN owed - size ELSE 0
    /\ RunKept /\ UNCHANGED <<queue, opening, heard, hungup, gone>>

HangsUp ==
    /\ opening = "opened" /\ ~hungup /\ hungup' = TRUE
    /\ RunKept /\ UNCHANGED <<queue, opening, heard, owed, arriving, gone>>

\* Nothing more is sent nor received; the call fails if it had not returned.
Breaks ==
    /\ opening \in {"calling", "opened"} /\ ~gone
    /\ gone' = TRUE /\ hungup' = TRUE /\ queue' = <<>> /\ arriving' = <<>>
    /\ opening' = IF opening = "calling" THEN "failed" ELSE opening
    /\ RunKept /\ UNCHANGED <<heard, owed>>

\* It has read all there will be.
HeardAll == queue = <<>> /\ phase \in {"early", "late", "drain"}

\* A dashboard that does its part: it reads, sends what was declared, and
\* ends the stream when the agent has ended its direction.
Willing ==
    \/ Hears
    \/ (Says("accept") \/ HeardAll) /\ Opens
    \/ owed > 0 /\ Says("accept") /\ Sends(1)
    \/ HeardAll /\ HangsUp

Dashboard ==
    Hears \/ Opens \/ (\E size \in 0 .. MaxData + 1 : Sends(size)) \/ HangsUp \/ Breaks

-----------------------------------------------------------------------------
(* run *)

DashboardKept == UNCHANGED <<op, heard, hungup, gone>>
WireKept == DashboardKept /\ UNCHANGED <<queue, opening, owed, arriving>>

Moves(p) == phase' = p /\ UNCHANGED <<declared, remaining, committed, taken>>

\* The outcome is known; the dashboard is told of it.
Results(frame) == final' = frame /\ Moves("finish")

\* A request without a stream has no answer at all.
Refuses ==
    /\ phase = "start" /\ Moves("done") /\ WireKept /\ UNCHANGED final

\* Attach, and an error or a header; then the call.
Calls(frame) ==
    /\ phase = "start"
    /\ queue' = <<"attach", frame>> /\ opening' = "calling"
    /\ DashboardKept /\ UNCHANGED <<final, committed, taken, arriving>>

\* Disabled, the root, a size out of range, an if_match hash that does not
\* match, a mode or an operation that is none, or a target that cannot be opened.
EarlyError ==
    Calls("error") /\ phase' = "early" /\ UNCHANGED <<declared, remaining, owed>>

EarlyEnds ==
    /\ phase = "early" /\ opening # "calling"
    /\ Moves("done") /\ WireKept /\ UNCHANGED final

MustOpenAlways(size) == TRUE

\* An upload of something waits for the call, and only then for data.
MustOpen(size) == op = "upload" /\ size > 0

Header(size) ==
    /\ Calls(IF op = "upload" THEN "accept" ELSE "offer")
    /\ declared' = size /\ remaining' = size
    /\ owed' = IF op = "upload" THEN size ELSE 0
    /\ phase' = IF MustOpen(size) THEN "open" ELSE "data"

OpenedUnlessFailed ==
    /\ phase = "open" /\ opening = "opened" /\ phase' = "data" /\ taken' = TRUE
    /\ WireKept /\ UNCHANGED <<declared, remaining, final, committed>>

Opened ==
    /\ phase = "open"
    /\ \/ opening = "opened" /\ phase' = "data" /\ taken' = TRUE /\ UNCHANGED final
       \/ opening = "failed" /\ phase' = "finish" /\ final' = "error" /\ UNCHANGED taken
    /\ WireKept /\ UNCHANGED <<declared, remaining, committed>>

\* More than what is left is an error.
Receive ==
    /\ phase = "data" /\ op = "upload" /\ remaining > 0 /\ arriving # <<>>
    /\ IF Head(arriving) > remaining
       THEN Results("error")
       ELSE /\ remaining' = remaining - Head(arriving)
            /\ UNCHANGED <<phase, declared, final, committed, taken>>
    /\ arriving' = Tail(arriving)
    /\ DashboardKept /\ UNCHANGED <<queue, opening, owed>>

\* The stream ended too early, or a keep-alive could not be sent.
Missed ==
    /\ phase = "data" /\ op = "upload" /\ remaining > 0 /\ arriving = <<>> /\ hungup
    /\ Results("error") /\ WireKept

\* Written, checked and renamed without a pause in which the limit could end it.
Commit ==
    /\ phase = "data" /\ op = "upload" /\ remaining = 0
    /\ phase' = "finish" /\ final' = "ok" /\ committed' = TRUE
    /\ WireKept /\ UNCHANGED <<declared, remaining, taken>>

Chunk ==
    /\ phase = "data" /\ op = "download" /\ remaining > 0
    /\ IF gone THEN Results("error") /\ UNCHANGED queue
       ELSE /\ Len(queue) < Slots /\ queue' = Append(queue, "chunk")
            /\ remaining' = remaining - 1
            /\ UNCHANGED <<phase, declared, final, committed, taken>>
    /\ DashboardKept /\ UNCHANGED <<opening, owed, arriving>>

SentAll ==
    /\ phase = "data" /\ op = "download" /\ remaining = 0
    /\ Results("ok") /\ WireKept

\* A disk or a source fails, is truncated, or the upload is not what it
\* should be: its hash, its mode, or the target's hash.
Fails == phase = "data" /\ Results("error") /\ WireKept

TellLimitedAlways == TRUE

\* A download's last frame is within its limit, an upload's is after it.
TellLimited == op = "download"

\* The call and the data have 300 s each.
TimesOut ==
    /\ \/ phase = "open" /\ opening = "calling"
       \/ phase = "data" /\ remaining > 0
       \/ phase = "finish" /\ final = "ok" /\ TellLimited
    /\ Results("error") /\ WireKept

\* Then it waits for the end of the stream, if the call did not fail before.
Tells ==
    /\ phase = "finish" /\ ~gone /\ Len(queue) < Slots
    /\ queue' = Append(queue, final)
    /\ Moves(IF taken THEN "drain" ELSE "late")
    /\ DashboardKept /\ UNCHANGED <<final, opening, owed, arriving>>

\* The connection is gone; or an error could not be sent within 2 s.
TellsNobody ==
    /\ phase = "finish" /\ (gone \/ (final = "error" /\ Len(queue) = Slots))
    /\ Moves(CASE final = "ok" /\ op = "upload" -> "done"
               [] taken -> "drain"
               [] OTHER -> "late")
    /\ WireKept /\ UNCHANGED final

Late ==
    /\ phase = "late"
    /\ \/ opening = "opened" /\ phase' = "drain" /\ taken' = TRUE
       \/ opening = "failed" /\ phase' = "done" /\ UNCHANGED taken
    /\ WireKept /\ UNCHANGED <<declared, remaining, final, committed>>

Drains ==
    /\ phase = "drain" /\ (arriving # <<>> \/ hungup)
    /\ IF arriving # <<>> THEN Moves("drain") ELSE Moves("done")
    /\ arriving' = IF arriving # <<>> THEN Tail(arriving) ELSE arriving
    /\ DashboardKept /\ UNCHANGED <<final, queue, opening, owed>>

\* The waits of 10 s, or the end of the session, in which run is dropped with
\* the call, the channel and an upload's temporary file.
Stops ==
    /\ phase \notin {"start", "done"} /\ Moves("done")
    /\ IF opening = "calling" THEN opening' = "aborted" /\ queue' = <<>>
       ELSE UNCHANGED <<opening, queue>>
    /\ DashboardKept /\ UNCHANGED <<final, owed, arriving>>

Runs ==
    \/ Refuses \/ EarlyError \/ EarlyEnds \/ (\E size \in 0 .. MaxData : Header(size))
    \/ Opened \/ Receive \/ Missed \/ Commit \/ Chunk \/ SentAll
    \/ Tells \/ TellsNobody \/ Late \/ Drains

Next == Dashboard \/ Runs \/ Fails \/ TimesOut \/ Stops

Spec == Init /\ [][Next]_vars

-----------------------------------------------------------------------------
(* Properties *)

Sent == heard \o queue
Said(frame) == \E i \in DOMAIN Sent : Sent[i] = frame

\* Attach, the header, and so many chunks.
Chunks(n) == Len(Sent) >= n + 2 /\ \A i \in 3 .. n + 2 : Sent[i] = "chunk"

OutcomeLast == \A i \in DOMAIN Sent : Sent[i] \in {"ok", "error"} => i = Len(Sent)

\* Whatever comes too late: the dashboard is told how a transfer ended at most
\* once and last, NZTO only of an upload that was committed or of a download
\* that was sent whole, and NZTE of no upload that was committed, not even if
\* that is when the 300 s are over (lines 274 to 317).  A commit that fails after
\* its rename is FileCommit's: it is not a commit here.
TransferTrue ==
    /\ TypeOK
    /\ Said("ok") =>
          IF op = "upload" THEN committed
          ELSE Chunks(declared) /\ Len(Sent) = declared + 3
    /\ Said("error") => ~committed
    /\ OutcomeLast

\* What run waits for, ...
RunGoes ==
    \/ phase = "start" \/ (phase = "early" /\ opening # "calling")
    \/ phase \in {"open", "late"} /\ opening \in {"opened", "failed"}
    \/ phase = "data" /\ remaining = 0
    \/ phase = "data" /\ op = "upload" /\ (arriving # <<>> \/ hungup)
    \/ phase = "data" /\ op = "download" /\ (gone \/ Len(queue) < Slots)
    \/ phase = "finish" /\ (gone \/ Len(queue) < Slots \/ final = "error")
    \/ phase = "drain" /\ (arriving # <<>> \/ hungup)

\* ... and what a dashboard that does its part waits for.
DashboardGoes ==
    \/ opening \in {"calling", "opened"} /\ queue # <<>>
    \/ opening = "calling" /\ (Says("accept") \/ HeardAll)
    \/ opening = "opened" /\ ~hungup
          /\ (HeardAll \/ (owed > 0 /\ Says("accept") /\ arriving = <<>>))

\* With such a dashboard nothing waits for a limit of time: neither for the
\* call, which an upload needs before its data and a download does not, nor
\* for room in the channel (lines 246 to 272, 318 to 333).
TransferFlows == phase # "done" => RunGoes \/ DashboardGoes
=============================================================================
