---------------------------- MODULE TaskRunProofs ---------------------------
(***************************************************************************)
(* Proofs about TaskRun: for any bounds, a command cleans up and its reply  *)
(* is true, a ping counts what it should, a transfer is told to have ended *)
(* as it did, listings and reads are of what was opened, and the old file  *)
(* manager answers uploads truly.                                          *)
(*                                                                         *)
(* Each part has a lemma for its initial states and one for its steps; a    *)
(* step of the task is a step of one part, and the others stay.             *)
(***************************************************************************)
EXTENDS TaskRun, SequenceTheorems, FiniteSetTheorems, TLAPS

-----------------------------------------------------------------------------
(* Commands *)

\* A task that has not begun has no processes, and none has a reply before it
\* is over.
CommandNotBegun ==
    /\ process = "idle" =>
          /\ \A p \in C!Processes : life[p] = "none"
          /\ \A s \in C!Streams : pipe[s] = 0 /\ written[s] = 0 /\ kept[s] = 0
          /\ status = "none" /\ lost = {}
    /\ process # "over" => reply = "none"
    /\ order = "command" => process \notin {"out", "err"}

\* What is gone, or was never there, holds no pipe; and the group has gone once
\* the wait is over.
Holders ==
    /\ \A p \in C!Processes : holds[p] # {} => C!Runs(p)
    /\ process # "waiting" => \A p \in C!Group : ~C!Runs(p)

\* The wait tells the leader's own exit.
OwnExit ==
    /\ process = "waiting" /\ life["leader"] = "gone" => exit \in {"ok", "bad"}
    /\ status \in {"ok", "bad"} => status = exit /\ life["leader"] = "gone"

\* What was written and is not in the pipe has been read.
Shown(n) == IF order = "exec" /\ n > MaxOutput THEN MaxOutput ELSE n

NothingSpilt ==
    \A s \in C!Streams :
        /\ pipe[s] <= written[s]
        /\ reader[s] \in {"reads", "ended"} => kept[s] = Shown(written[s] - pipe[s])
        /\ reader[s] = "ended" => pipe[s] = 0 /\ C!Eof(s)

\* An answer has all of a pipe, or gives it up; until the wait is over every
\* pipe has its reader.
Collected ==
    /\ process = "waiting" => \A s \in C!Piped : reader[s] \in {"reads", "ended"}
    /\ process = "err" => reader["out"] = "ended" \/ "out" \in lost
    /\ reply = "sent" => \A s \in C!Piped : reader[s] = "ended" \/ s \in lost
    /\ lost # {} => \/ life["escapee"] # "none"
                    \/ order = "command" /\ status \in {"error", "limit"} /\ process = "over"

CommandInductive ==
    /\ C!CleansUp /\ C!ReplyTrue
    /\ CommandNotBegun /\ Holders /\ OwnExit /\ NothingSpilt /\ Collected

\* A step of a command's processes, of its readers or of its task keeps what
\* is said of the group, the pipes and the reply.
LEMMA CommandStep == CommandInductive /\ C!Next => CommandInductive'
<1> SUFFICES ASSUME CommandInductive, C!Next PROVE CommandInductive'
  OBVIOUS
<1> USE TaskRunAssumption DEF C!CommandsAssumption, C!processes, C!pipes, C!TaskKept, C!Runs,
        C!Streams, C!Processes, C!Group, C!Eof, C!Piped, Shown, CommandInductive, C!TypeOK, C!CleansUp,
        C!ReplyTrue, CommandNotBegun, Holders, OwnExit, NothingSpilt, Collected
<1>1. ASSUME NEW p \in C!Processes, NEW child \in {"member", "escapee"}, C!Fork(p, child)
      PROVE  CommandInductive'
  BY <1>1 DEF C!Fork
<1>2. ASSUME NEW p \in C!Processes, NEW s \in C!Streams, C!Write(p, s)
      PROVE  CommandInductive'
  <2>1. /\ UNCHANGED <<order, process, life, holds, exit, status, lost, reply, kept, reader>>
        /\ C!Runs(p) /\ s \in holds[p] /\ reader[s] # "aborted"
        /\ pipe[s] < PipeCapacity /\ written[s] < MaxWritten
        /\ pipe' = [pipe EXCEPT ![s] = @ + 1] /\ written' = [written EXCEPT ![s] = @ + 1]
    BY <1>2 DEF C!Write
  <2>2. C!CleansUp' /\ CommandNotBegun' /\ Holders' /\ OwnExit' /\ Collected'
    BY <2>1
  <2>3. NothingSpilt'
    BY <2>1
  <2>4. C!ReplyTrue'
    BY <2>1
  <2> QED
    BY <2>2, <2>3, <2>4
<1>3. ASSUME NEW p \in C!Processes, C!Exit(p) PROVE CommandInductive'
  BY <1>3 DEF C!Exit
<1>4. ASSUME NEW s \in C!Streams, C!Read(s) PROVE CommandInductive'
  BY <1>4 DEF C!Read, C!Readable
<1>5. ASSUME NEW s \in C!Streams, C!ReadEnd(s) PROVE CommandInductive'
  BY <1>5 DEF C!ReadEnd
<1>6. CASE C!Refuse
  BY <1>6 DEF C!Refuse, C!Over
<1>7. CASE C!Start
  BY <1>7 DEF C!Start
<1>8. CASE C!Waited
  BY <1>8 DEF C!Waited, C!KillGroup
<1>9. CASE C!Finish
  BY <1>9 DEF C!Finish, C!KillGroup, C!Over
<1>10. CASE C!TimesUp
  BY <1>10 DEF C!TimesUp, C!KillGroup, C!Over
<1>11. CASE C!Cancel
  BY <1>11 DEF C!Cancel, C!Dropped, C!KillGroup, C!Over
<1>12. ASSUME NEW s \in C!Streams, C!Collect(s) PROVE CommandInductive'
  BY <1>12 DEF C!Collect, C!After, C!Over
<1>13. ASSUME NEW s \in C!Streams, C!GiveUp(s) PROVE CommandInductive'
  BY <1>13 DEF C!GiveUp, C!Abort, C!After, C!Over
<1> QED
  BY <1>1, <1>2, <1>3, <1>4, <1>5, <1>6, <1>7, <1>8, <1>9, <1>10, <1>11, <1>12, <1>13 DEF C!Next, C!ProcessStep, C!ReaderStep, C!Task

\* A command begins without processes, output and reply.
LEMMA CommandInit == C!Init => CommandInductive
  BY TaskRunAssumption
     DEF C!CommandsAssumption, C!Init, CommandInductive, C!TypeOK, C!CleansUp, C!ReplyTrue,
         CommandNotBegun, Holders, OwnExit, NothingSpilt, Collected, Shown, C!Runs,
         C!Streams, C!Processes, C!Group, C!Eof, C!Piped

-----------------------------------------------------------------------------
(* Transfer *)

\* Nothing is said before a task has read its request, and no outcome before
\* there is one.
SaidInPhase ==
    /\ phase = "start" => heard = <<>> /\ queue = <<>>
    /\ phase \in {"open", "data", "finish"} => ~T!Said("ok") /\ ~T!Said("error")
    /\ phase \in {"early", "start"} => ~T!Said("ok") /\ ~committed
    /\ phase = "open" => op = "upload"

\* The outcome is what has become of the file.
FinalTrue ==
    /\ phase = "finish" => final \in {"ok", "error"}
    /\ committed => op = "upload" /\ final = "ok" /\ phase \notin {"open", "data"}
    /\ phase = "finish" /\ final = "ok" =>
          IF op = "upload" THEN committed ELSE remaining = 0

\* Until its connection is lost a download has said what it has sent.
SentSoFar ==
    op = "download" /\ phase \in {"data", "finish"} /\ ~gone =>
        /\ T!Chunks(declared - remaining)
        /\ Len(T!Sent) = declared - remaining + 2

TransferSaid == T!TransferTrue /\ SaidInPhase /\ FinalTrue /\ SentSoFar

\* The data of an upload on their way, if there are any.
Coming == IF arriving = <<>> THEN 0 ELSE Head(arriving)

\* The call fails with the connection only, and until it has returned nothing
\* comes in.
CallKnown ==
    /\ phase = "start" => opening = "none" /\ ~gone /\ ~hungup /\ arriving = <<>>
    /\ phase \notin {"start", "done"} => opening \in {"calling", "opened", "failed"}
    /\ opening = "calling" => ~gone /\ ~hungup /\ arriving = <<>>
    /\ opening = "failed" => gone
    /\ gone => hungup /\ queue = <<>>
    /\ taken \/ phase = "drain" => opening = "opened"

\* The dashboard has been asked for the data that an upload lacks, and has yet
\* to send them.
UploadFed ==
    op = "upload" /\ phase \in {"open", "data"} /\ ~gone =>
        /\ T!Sent = <<"attach", "accept">>
        /\ Len(arriving) <= 1 /\ remaining <= owed + Coming
        /\ phase = "data" /\ remaining > 0 => opening = "opened"

TransferInductive == TransferSaid /\ CallKnown /\ UploadFed

\* What the agent says on the stream of a transfer.
TransferFrames == {"attach", "accept", "offer", "chunk", "ok", "error"}

\* A frame on its way from the channel to the dashboard stays what it is, and
\* where it is, in what the agent said.
LEMMA Passes ==
    ASSUME NEW S, NEW h \in Seq(S), NEW q \in Seq(S), q # <<>>
    PROVE  /\ Append(h, Head(q)) \o Tail(q) = h \o q
           /\ Append(h, Head(q)) \in Seq(S) /\ Tail(q) \in Seq(S)
           /\ Len(Tail(q)) = Len(q) - 1
<1>1. /\ Head(q) \in S /\ Tail(q) \in Seq(S) /\ Len(Tail(q)) = Len(q) - 1
      /\ Len(q) \in Nat \ {0} /\ Head(q) = q[1]
      /\ \A i \in 1 .. Len(Tail(q)) : Tail(q)[i] = q[i + 1]
  BY HeadTailProperties, EmptySeq
<1>2. /\ Append(h, Head(q)) \in Seq(S) /\ Len(Append(h, Head(q))) = Len(h) + 1
      /\ Append(h, Head(q))[Len(h) + 1] = Head(q)
      /\ \A i \in 1 .. Len(h) : Append(h, Head(q))[i] = h[i]
  BY <1>1
<1> DEFINE a == Append(h, Head(q))
           t == Tail(q)
<1>3. a \o t \in Seq(S) /\ h \o q \in Seq(S)
  BY <1>1, <1>2
<1>4. Len(a \o t) = Len(h \o q) /\ Len(h) \in Nat
  BY <1>1, <1>2
<1>5. ASSUME NEW i \in 1 .. Len(h \o q) PROVE (a \o t)[i] = (h \o q)[i]
  <2>1. CASE i <= Len(h)
    BY <1>1, <1>2, <1>4, <2>1
  <2>2. CASE i = Len(h) + 1
    BY <1>1, <1>2, <1>4, <2>2
  <2>3. CASE i > Len(h) + 1
    <3>1. i - (Len(h) + 1) \in 1 .. Len(t) /\ (i - (Len(h) + 1)) + 1 = i - Len(h)
      BY <1>1, <1>4, <2>3
    <3>2. (a \o t)[i] = t[i - (Len(h) + 1)]
      BY <1>1, <1>2, <1>4, <2>3, <3>1
    <3>3. (h \o q)[i] = q[i - Len(h)]
      BY <1>1, <1>4, <2>3
    <3> QED
      BY <1>1, <3>1, <3>2, <3>3
  <2> QED
    BY <1>4, <2>1, <2>2, <2>3
<1>6. a \o t = h \o q
  BY <1>3, <1>4, <1>5, SeqEqual
<1> QED
  BY <1>1, <1>2, <1>6

\* A frame that joins the channel is the last the agent has said.
LEMMA Joins ==
    ASSUME NEW S, NEW h \in Seq(S), NEW q \in Seq(S), NEW f \in S
    PROVE  /\ h \o Append(q, f) = Append(h \o q, f)
           /\ Append(q, f) \in Seq(S) /\ Len(Append(q, f)) = Len(q) + 1
<1>1. Append(q, f) = q \o <<f>> /\ Append(h \o q, f) = (h \o q) \o <<f>>
  BY AppendIsConcat, ConcatProperties
<1>2. <<f>> \in Seq(S)
  OBVIOUS
<1> QED
  BY <1>1, <1>2, ConcatAssociative, AppendProperties

\* What the invariant says of the frames depends on all that the agent has
\* said, not on how much of it the dashboard has read.
LEMMA SaidSame ==
    ASSUME T!Sent' = T!Sent
    PROVE  /\ \A f : T!Said(f)' <=> T!Said(f)
           /\ \A n : T!Chunks(n)' <=> T!Chunks(n)
           /\ T!OutcomeLast' <=> T!OutcomeLast
           /\ Len(T!Sent)' = Len(T!Sent)
  BY DEF T!Said, T!Chunks, T!OutcomeLast

\* A frame more is said, after what was said before.
LEMMA SaidMore ==
    ASSUME T!Sent \in Seq(TransferFrames), NEW f \in TransferFrames,
           T!Sent' = Append(T!Sent, f)
    PROVE  /\ \A g \in TransferFrames : T!Said(g)' <=> T!Said(g) \/ g = f
           /\ \A n \in Nat : T!Chunks(n) => T!Chunks(n)'
           /\ \A n \in Nat : f = "chunk" /\ T!Chunks(n) /\ Len(T!Sent) = n + 2 => T!Chunks(n + 1)'
           /\ ~T!Said("ok") /\ ~T!Said("error") => T!OutcomeLast'
           /\ Len(T!Sent)' = Len(T!Sent) + 1
<1> DEFINE s == T!Sent
           t == T!Sent'
<1>1. /\ s \in Seq(TransferFrames) /\ t = Append(s, f) /\ Len(s) \in Nat
      /\ DOMAIN s = 1 .. Len(s) /\ DOMAIN t = 1 .. Len(s) + 1 /\ Len(t) = Len(s) + 1
      /\ \A i \in 1 .. Len(s) : t[i] = s[i]
      /\ t[Len(s) + 1] = f
  OBVIOUS
<1>2. \A g : T!Said(g) <=> \E i \in DOMAIN s : s[i] = g
  BY DEF T!Said
<1>3. \A g : T!Said(g)' <=> \E i \in DOMAIN t : t[i] = g
  BY DEF T!Said
<1>4. \A n : T!Chunks(n) <=> Len(s) >= n + 2 /\ \A i \in 3 .. n + 2 : s[i] = "chunk"
  BY DEF T!Chunks
<1>5. \A n : T!Chunks(n)' <=> Len(t) >= n + 2 /\ \A i \in 3 .. n + 2 : t[i] = "chunk"
  BY DEF T!Chunks
<1>6. T!OutcomeLast' <=> \A i \in DOMAIN t : t[i] \in {"ok", "error"} => i = Len(t)
  BY DEF T!OutcomeLast
<1> HIDE DEF s, t
<1>7. \A g \in TransferFrames : T!Said(g)' <=> T!Said(g) \/ g = f
  BY <1>1, <1>2, <1>3
<1>8. \A n \in Nat : T!Chunks(n) => T!Chunks(n)'
  BY <1>1, <1>4, <1>5
<1>9. \A n \in Nat : f = "chunk" /\ T!Chunks(n) /\ Len(s) = n + 2 => T!Chunks(n + 1)'
  BY <1>1, <1>4, <1>5
<1>10. ~T!Said("ok") /\ ~T!Said("error") => T!OutcomeLast'
  BY <1>1, <1>2, <1>6
<1> QED
  BY <1>1, <1>7, <1>8, <1>9, <1>10 DEF s, t

\* What has not been read is lost with the channel.
LEMMA SaidLess ==
    ASSUME heard \in Seq(TransferFrames), queue \in Seq(TransferFrames),
           heard' = heard, queue' = <<>>
    PROVE  /\ \A f : T!Said(f)' => T!Said(f)
           /\ T!OutcomeLast => T!OutcomeLast'
           /\ \A f \in {"ok", "error"} : T!OutcomeLast /\ T!Said(f)' => T!Sent' = T!Sent
           /\ T!Sent' = heard
<1> DEFINE s == T!Sent
           t == T!Sent'
<1>1. /\ s = heard \o queue /\ t = heard /\ Len(heard) \in Nat /\ Len(queue) \in Nat
  BY ConcatEmptySeq, LenProperties DEF T!Sent
<1>2. /\ DOMAIN s = 1 .. Len(heard) + Len(queue) /\ Len(s) = Len(heard) + Len(queue)
      /\ DOMAIN t = 1 .. Len(heard) /\ Len(t) = Len(heard)
      /\ \A i \in 1 .. Len(heard) : s[i] = t[i]
  BY <1>1
<1>3. \A g : T!Said(g) <=> \E i \in DOMAIN s : s[i] = g
  BY DEF T!Said
<1>4. \A g : T!Said(g)' <=> \E i \in DOMAIN t : t[i] = g
  BY DEF T!Said
<1>5. T!OutcomeLast' <=> \A i \in DOMAIN t : t[i] \in {"ok", "error"} => i = Len(t)
  BY DEF T!OutcomeLast
<1>6. T!OutcomeLast <=> \A i \in DOMAIN s : s[i] \in {"ok", "error"} => i = Len(s)
  BY DEF T!OutcomeLast
<1> HIDE DEF s, t
<1>7. \A f : T!Said(f)' => T!Said(f)
  BY <1>1, <1>2, <1>3, <1>4
<1>8. ASSUME T!OutcomeLast, NEW i \in DOMAIN t, t[i] \in {"ok", "error"}
      PROVE  Len(queue) = 0 /\ i = Len(t)
  BY <1>1, <1>2, <1>6, <1>8
<1>9. T!OutcomeLast => T!OutcomeLast'
  BY <1>5, <1>8
<1>10. ASSUME NEW f \in {"ok", "error"}, T!OutcomeLast, T!Said(f)' PROVE s = t
  <2>1. Len(queue) = 0
    BY <1>4, <1>8, <1>10
  <2>2. queue = <<>>
    BY <2>1, EmptySeq
  <2> QED
    BY <1>1, <2>2, ConcatEmptySeq
<1> QED
  BY <1>1, <1>7, <1>9, <1>10 DEF s, t

\* One step of the dashboard or of the agent keeps what is said true.
LEMMA SaidStep == TransferSaid /\ T!Next => TransferSaid'
<1> SUFFICES ASSUME TransferSaid, T!Next PROVE TransferSaid'
  OBVIOUS
<1>1. /\ op \in {"upload", "download"}
      /\ phase \in {"start", "early", "open", "data", "finish", "late", "drain", "done"}
      /\ declared \in 0 .. MaxData /\ remaining \in 0 .. declared
      /\ final \in {"none", "ok", "error"}
      /\ queue \in Seq(TransferFrames) /\ Len(queue) <= Slots
      /\ heard \in Seq(TransferFrames)
      /\ opening \in {"none", "calling", "opened", "failed", "aborted"}
      /\ owed \in 0 .. MaxData /\ arriving \in Seq(0 .. MaxData + 1)
      /\ {committed, taken, hungup, gone} \subseteq BOOLEAN
  BY DEF TransferSaid, T!TransferTrue, T!TypeOK, TransferFrames
<1>2. Slots \in Nat /\ Slots >= 2 /\ MaxData \in Nat
  BY TaskRunAssumption DEF T!TransferAssumption
<1>3. T!Sent \in Seq(TransferFrames)
  BY <1>1, ConcatProperties DEF T!Sent
<1>4. arriving # <<>> =>
         Head(arriving) \in 0 .. MaxData + 1 /\ Tail(arriving) \in Seq(0 .. MaxData + 1)
  BY <1>1, HeadTailProperties
<1> USE DEF SaidInPhase, FinalTrue, SentSoFar, TransferSaid, T!TransferTrue, T!Moves,
        T!Results, T!RunKept, T!DashboardKept, T!WireKept, T!TransferAssumption
<1>5. ASSUME T!Sent' = T!Sent
      PROVE  /\ \A f : T!Said(f)' <=> T!Said(f)
             /\ \A n : T!Chunks(n)' <=> T!Chunks(n)
             /\ T!OutcomeLast' <=> T!OutcomeLast
             /\ Len(T!Sent)' = Len(T!Sent)
  BY <1>5, SaidSame
<1>6. CASE T!Hears
  <2>1. /\ queue # <<>> /\ heard' = Append(heard, Head(queue)) /\ queue' = Tail(queue)
        /\ UNCHANGED <<op, phase, declared, remaining, final, committed, taken, opening,
                       owed, arriving, hungup, gone>>
    BY <1>6 DEF T!Hears
  <2>2. /\ heard' \o queue' = heard \o queue
        /\ heard' \in Seq(TransferFrames) /\ queue' \in Seq(TransferFrames)
        /\ Len(queue') = Len(queue) - 1
    <3>1. heard \in Seq(TransferFrames) /\ queue \in Seq(TransferFrames)
      BY <1>1
    <3> QED
      BY <2>1, <3>1, Passes
  <2>3. T!TypeOK'
    BY <1>1, <1>2, <2>1, <2>2, LenProperties DEF T!TypeOK, TransferFrames
  <2>4. T!Sent' = T!Sent
    BY <2>2 DEF T!Sent
  <2> QED
    BY <1>5, <2>1, <2>3, <2>4
<1>7. ASSUME UNCHANGED <<heard, queue>>
      PROVE  T!Sent' = T!Sent
  BY <1>7 DEF T!Sent
<1>8. ASSUME NEW size \in 0 .. MaxData + 1, T!Sends(size) PROVE TransferSaid'
  <2>1. UNCHANGED <<heard, queue>>
    BY <1>8 DEF T!Sends
  <2>2. T!TypeOK'
    BY <1>1, <1>2, <1>4, <1>8 DEF T!TypeOK, TransferFrames, T!Sends
  <2> QED
    BY <1>1, <1>5, <1>7, <1>8, <2>1, <2>2 DEF T!Sends
<1>9. CASE T!Opens
  <2>1. UNCHANGED <<heard, queue>>
    BY <1>9 DEF T!Opens
  <2>2. T!TypeOK'
    BY <1>1, <1>2, <1>4, <1>9 DEF T!TypeOK, TransferFrames, T!Opens
  <2> QED
    BY <1>1, <1>5, <1>7, <1>9, <2>1, <2>2 DEF T!Opens
<1>10. CASE T!HangsUp
  <2>1. UNCHANGED <<heard, queue>>
    BY <1>10 DEF T!HangsUp
  <2>2. T!TypeOK'
    BY <1>1, <1>2, <1>4, <1>10 DEF T!TypeOK, TransferFrames, T!HangsUp
  <2> QED
    BY <1>1, <1>5, <1>7, <1>10, <2>1, <2>2 DEF T!HangsUp
<1>11. CASE T!Refuses
  <2>1. UNCHANGED <<heard, queue>>
    BY <1>11 DEF T!Refuses
  <2>2. T!TypeOK'
    BY <1>1, <1>2, <1>4, <1>11 DEF T!TypeOK, TransferFrames, T!Refuses
  <2> QED
    BY <1>1, <1>5, <1>7, <1>11, <2>1, <2>2 DEF T!Refuses
<1>12. CASE T!EarlyEnds
  <2>1. UNCHANGED <<heard, queue>>
    BY <1>12 DEF T!EarlyEnds
  <2>2. T!TypeOK'
    BY <1>1, <1>2, <1>4, <1>12 DEF T!TypeOK, TransferFrames, T!EarlyEnds
  <2> QED
    BY <1>1, <1>5, <1>7, <1>12, <2>1, <2>2 DEF T!EarlyEnds
<1>13. CASE T!Opened
  <2>1. UNCHANGED <<heard, queue>>
    BY <1>13 DEF T!Opened
  <2>2. T!TypeOK'
    BY <1>1, <1>2, <1>4, <1>13 DEF T!TypeOK, TransferFrames, T!Opened
  <2> QED
    BY <1>1, <1>5, <1>7, <1>13, <2>1, <2>2 DEF T!Opened
<1>14. CASE T!Receive
  <2>1. UNCHANGED <<heard, queue>>
    BY <1>14 DEF T!Receive
  <2>2. T!TypeOK'
    BY <1>1, <1>2, <1>4, <1>14 DEF T!TypeOK, TransferFrames, T!Receive
  <2> QED
    BY <1>1, <1>5, <1>7, <1>14, <2>1, <2>2 DEF T!Receive
<1>15. CASE T!Missed
  <2>1. UNCHANGED <<heard, queue>>
    BY <1>15 DEF T!Missed
  <2>2. T!TypeOK'
    BY <1>1, <1>2, <1>4, <1>15 DEF T!TypeOK, TransferFrames, T!Missed
  <2> QED
    BY <1>1, <1>5, <1>7, <1>15, <2>1, <2>2 DEF T!Missed
<1>16. CASE T!Commit
  <2>1. UNCHANGED <<heard, queue>>
    BY <1>16 DEF T!Commit
  <2>2. T!TypeOK'
    BY <1>1, <1>2, <1>4, <1>16 DEF T!TypeOK, TransferFrames, T!Commit
  <2> QED
    BY <1>1, <1>5, <1>7, <1>16, <2>1, <2>2 DEF T!Commit
<1>17. CASE T!SentAll
  <2>1. UNCHANGED <<heard, queue>>
    BY <1>17 DEF T!SentAll
  <2>2. T!TypeOK'
    BY <1>1, <1>2, <1>4, <1>17 DEF T!TypeOK, TransferFrames, T!SentAll
  <2> QED
    BY <1>1, <1>5, <1>7, <1>17, <2>1, <2>2 DEF T!SentAll
<1>18. CASE T!Fails
  <2>1. UNCHANGED <<heard, queue>>
    BY <1>18 DEF T!Fails
  <2>2. T!TypeOK'
    BY <1>1, <1>2, <1>4, <1>18 DEF T!TypeOK, TransferFrames, T!Fails
  <2> QED
    BY <1>1, <1>5, <1>7, <1>18, <2>1, <2>2 DEF T!Fails
<1>19. CASE T!TimesOut
  <2>1. UNCHANGED <<heard, queue>>
    BY <1>19 DEF T!TimesOut
  <2>2. T!TypeOK'
    BY <1>1, <1>2, <1>4, <1>19 DEF T!TypeOK, TransferFrames, T!TimesOut, T!TellLimited
  <2> QED
    BY <1>1, <1>5, <1>7, <1>19, <2>1, <2>2 DEF T!TimesOut, T!TellLimited
<1>20. CASE T!TellsNobody
  <2>1. UNCHANGED <<heard, queue>>
    BY <1>20 DEF T!TellsNobody
  <2>2. T!TypeOK'
    BY <1>1, <1>2, <1>4, <1>20 DEF T!TypeOK, TransferFrames, T!TellsNobody
  <2> QED
    BY <1>1, <1>5, <1>7, <1>20, <2>1, <2>2 DEF T!TellsNobody
<1>21. CASE T!Late
  <2>1. UNCHANGED <<heard, queue>>
    BY <1>21 DEF T!Late
  <2>2. T!TypeOK'
    BY <1>1, <1>2, <1>4, <1>21 DEF T!TypeOK, TransferFrames, T!Late
  <2> QED
    BY <1>1, <1>5, <1>7, <1>21, <2>1, <2>2 DEF T!Late
<1>22. CASE T!Drains
  <2>1. UNCHANGED <<heard, queue>>
    BY <1>22 DEF T!Drains
  <2>2. T!TypeOK'
    BY <1>1, <1>2, <1>4, <1>22 DEF T!TypeOK, TransferFrames, T!Drains
  <2> QED
    BY <1>1, <1>5, <1>7, <1>22, <2>1, <2>2 DEF T!Drains
<1>23. ASSUME queue' = <<>>, UNCHANGED <<op, declared, remaining, final, committed, heard>>,
             T!TypeOK',
             \/ UNCHANGED phase /\ gone'
             \/ phase \notin {"start", "done"} /\ phase' = "done"
      PROVE  TransferSaid'
  <2>1. /\ \A f : T!Said(f)' => T!Said(f)
        /\ T!OutcomeLast => T!OutcomeLast'
        /\ \A f \in {"ok", "error"} : T!OutcomeLast /\ T!Said(f)' => T!Sent' = T!Sent
    BY <1>1, <1>23, SaidLess
  <2> QED
    BY <1>1, <1>5, <1>23, <2>1
<1>24. CASE T!Breaks
  <2>1. T!TypeOK'
    BY <1>1, <1>2, <1>24, EmptySeq DEF T!Breaks, T!TypeOK, TransferFrames
  <2> QED
    BY <1>23, <1>24, <2>1 DEF T!Breaks
<1>25. CASE T!Stops
  <2>1. /\ phase \notin {"start", "done"} /\ phase' = "done"
        /\ UNCHANGED <<op, declared, remaining, final, committed, taken, heard, hungup, gone,
                       owed, arriving>>
    BY <1>25 DEF T!Stops
  <2>2. CASE opening = "calling"
    <3>1. opening' = "aborted" /\ queue' = <<>>
      BY <1>25, <2>2 DEF T!Stops
    <3>2. T!TypeOK'
      BY <1>1, <1>2, <2>1, <3>1, EmptySeq DEF T!TypeOK, TransferFrames
    <3> QED
      BY <1>23, <2>1, <3>1, <3>2
  <2>3. CASE opening # "calling"
    <3>1. UNCHANGED <<opening, queue>>
      BY <1>25, <2>3 DEF T!Stops
    <3>2. T!TypeOK'
      BY <1>1, <2>1, <3>1 DEF T!TypeOK, TransferFrames
    <3> QED
      BY <1>1, <1>5, <1>7, <2>1, <3>1, <3>2
  <2> QED
    BY <2>2, <2>3
<1>26. ASSUME NEW f \in TransferFrames, queue' = Append(queue, f), UNCHANGED heard
      PROVE  /\ \A g \in TransferFrames : T!Said(g)' <=> T!Said(g) \/ g = f
             /\ \A k \in Nat : T!Chunks(k) => T!Chunks(k)'
             /\ \A k \in Nat : f = "chunk" /\ T!Chunks(k) /\ Len(T!Sent) = k + 2 => T!Chunks(k + 1)'
             /\ ~T!Said("ok") /\ ~T!Said("error") => T!OutcomeLast'
             /\ Len(T!Sent)' = Len(T!Sent) + 1
             /\ queue' \in Seq(TransferFrames) /\ Len(queue') = Len(queue) + 1
  <2>1. /\ heard \o Append(queue, f) = Append(heard \o queue, f)
        /\ Append(queue, f) \in Seq(TransferFrames) /\ Len(Append(queue, f)) = Len(queue) + 1
    BY <1>1, Joins
  <2>2. T!Sent' = Append(T!Sent, f)
    BY <1>26, <2>1 DEF T!Sent
  <2> QED
    BY <1>3, <1>26, <2>1, <2>2, SaidMore
<1>27. CASE T!Chunk
  <2>1. CASE gone
    <3>1. UNCHANGED <<heard, queue>>
      BY <1>27, <2>1 DEF T!Chunk
    <3>2. T!TypeOK'
      BY <1>1, <1>2, <1>27, <2>1 DEF T!TypeOK, TransferFrames, T!Chunk
    <3> QED
      BY <1>1, <1>5, <1>7, <1>27, <2>1, <3>1, <3>2 DEF T!Chunk
  <2>2. CASE ~gone
    <3>1. /\ phase = "data" /\ op = "download" /\ remaining > 0
          /\ Len(queue) < Slots /\ queue' = Append(queue, "chunk")
          /\ remaining' = remaining - 1
          /\ UNCHANGED <<op, phase, declared, final, committed, taken, heard, hungup, gone,
                         opening, owed, arriving>>
      BY <1>27, <2>2 DEF T!Chunk
    <3>2. PICK k \in Nat : k = declared - remaining /\ k + 1 = declared' - remaining'
      BY <1>1, <3>1
    <3>3. /\ T!Said("ok")' <=> T!Said("ok")
          /\ T!Said("error")' <=> T!Said("error")
          /\ T!Chunks(k) /\ Len(T!Sent) = k + 2 => T!Chunks(k + 1)'
          /\ ~T!Said("ok") /\ ~T!Said("error") => T!OutcomeLast'
          /\ Len(T!Sent)' = Len(T!Sent) + 1
          /\ queue' \in Seq(TransferFrames) /\ Len(queue') = Len(queue) + 1
      BY <1>26, <3>1, <3>2 DEF TransferFrames
    <3>4. T!TypeOK'
      BY <1>1, <1>2, <3>1, <3>3, LenProperties DEF T!TypeOK, TransferFrames
    <3>5. T!Chunks(k) /\ Len(T!Sent) = k + 2 /\ ~T!Said("ok") /\ ~T!Said("error")
      BY <2>2, <3>1, <3>2
    <3>6. Len(T!Sent)' = k + 3 /\ T!Chunks(k + 1)'
      BY <3>2, <3>3, <3>5
    <3>7. SentSoFar'
      BY <3>2, <3>6
    <3> QED
      BY <1>1, <3>1, <3>3, <3>4, <3>5, <3>7
  <2> QED
    BY <2>1, <2>2
<1>28. CASE T!Tells
  <2>1. /\ phase = "finish" /\ ~gone /\ Len(queue) < Slots
        /\ queue' = Append(queue, final) /\ phase' \in {"drain", "late"}
        /\ UNCHANGED <<op, declared, remaining, final, committed, taken, heard, hungup, gone,
                       opening, owed, arriving>>
    BY <1>28 DEF T!Tells
  <2>2. final \in TransferFrames /\ final \in {"ok", "error"}
    BY <2>1 DEF TransferFrames
  <2>3. /\ T!Said("ok")' <=> final = "ok"
        /\ T!Said("error")' <=> final = "error"
        /\ T!Chunks(declared - remaining) => T!Chunks(declared - remaining)'
        /\ T!OutcomeLast'
        /\ Len(T!Sent)' = Len(T!Sent) + 1
        /\ queue' \in Seq(TransferFrames) /\ Len(queue') = Len(queue) + 1
    BY <1>1, <1>26, <2>1, <2>2 DEF TransferFrames
  <2>4. T!TypeOK'
    BY <1>1, <1>2, <2>1, <2>3, LenProperties DEF T!TypeOK, TransferFrames
  <2>5. T!Said("ok")' =>
           IF op = "upload" THEN committed
           ELSE T!Chunks(declared)' /\ Len(T!Sent)' = declared + 3
    BY <1>1, <2>1, <2>2, <2>3
  <2> QED
    BY <1>1, <2>1, <2>2, <2>3, <2>4, <2>5
<1>29. ASSUME NEW f \in {"accept", "offer", "error"}, T!Calls(f)
      PROVE  /\ queue' = <<"attach", f>> /\ heard' = <<>> /\ T!Sent' = <<"attach", f>>
             /\ queue' \in Seq(TransferFrames) /\ Len(queue') = 2 /\ Len(T!Sent)' = 2
             /\ ~T!Said("ok")' /\ (T!Said("error")' <=> f = "error")
             /\ T!Chunks(0)' /\ T!OutcomeLast'
  <2>1. queue' = <<"attach", f>> /\ heard' = <<>>
    BY <1>29 DEF T!Calls
  <2>2. <<"attach", f>> \in Seq(TransferFrames)
    BY DEF TransferFrames
  <2>3. T!Sent' = <<"attach", f>>
    BY <2>1, <2>2, ConcatEmptySeq DEF T!Sent
  <2> QED
    BY <2>1, <2>2, <2>3 DEF T!Said, T!Chunks, T!OutcomeLast
<1>30. CASE T!EarlyError
  <2>1. T!TypeOK'
    BY <1>1, <1>2, <1>29, <1>30, EmptySeq DEF T!EarlyError, T!Calls, T!TypeOK, TransferFrames
  <2> QED
    BY <1>1, <1>29, <1>30, <2>1 DEF T!EarlyError, T!Calls
<1>31. ASSUME NEW size \in 0 .. MaxData, T!Header(size) PROVE TransferSaid'
  <2>1. PICK f \in {"accept", "offer"} : T!Calls(f)
    BY <1>31 DEF T!Header
  <2>2. T!TypeOK'
    BY <1>1, <1>2, <1>29, <1>31, <2>1, EmptySeq
       DEF T!Header, T!MustOpen, T!Calls, T!TypeOK, TransferFrames
  <2>3. declared' - remaining' = 0
    BY <1>31 DEF T!Header
  <2> QED
    BY <1>1, <1>29, <1>31, <2>1, <2>2, <2>3 DEF T!Header, T!MustOpen, T!Calls
<1> QED
  BY <1>6, <1>8, <1>9, <1>10, <1>11, <1>12, <1>13, <1>14, <1>15, <1>16, <1>17, <1>18, <1>19, <1>20, <1>21, <1>22, <1>24, <1>25, <1>27, <1>28, <1>30, <1>31 DEF T!Next, T!Dashboard, T!Runs

\* A transfer begins with nothing said.
LEMMA SaidInit == T!Init => TransferSaid
<1> SUFFICES ASSUME T!Init PROVE TransferSaid
  OBVIOUS
<1>1. Slots \in Nat /\ Slots >= 2 /\ MaxData \in Nat
  BY TaskRunAssumption DEF T!TransferAssumption
<1>2. heard = <<>> /\ queue = <<>> /\ T!Sent = <<>>
  BY ConcatEmptySeq, EmptySeq DEF T!Init, T!Sent
<1>3. \A f : ~T!Said(f)
  BY <1>2 DEF T!Said
<1>4. T!OutcomeLast
  BY <1>2 DEF T!OutcomeLast
<1>5. T!TypeOK
  <2>1. <<>> \in Seq(TransferFrames) /\ <<>> \in Seq(0 .. MaxData + 1) /\ Len(<<>>) = 0
    BY EmptySeq
  <2> QED
    <3>1. queue \in Seq(TransferFrames) /\ Len(queue) <= Slots /\ heard \in Seq(TransferFrames)
      BY <1>1, <1>2, <2>1
    <3>2. arriving \in Seq(0 .. MaxData + 1)
      BY <2>1 DEF T!Init
    <3>3. declared \in 0 .. MaxData /\ remaining \in 0 .. declared /\ owed \in 0 .. MaxData
      BY <1>1 DEF T!Init
    <3>4. {committed, taken, hungup, gone} \subseteq BOOLEAN
      BY DEF T!Init
    <3> QED
    BY <3>1, <3>2, <3>3, <3>4 DEF T!Init, T!TypeOK, TransferFrames
<1> QED
  BY <1>2, <1>3, <1>4, <1>5
     DEF T!Init, TransferSaid, T!TransferTrue, SaidInPhase, FinalTrue, SentSoFar

\* An upload is fed as long as what it lacks shrinks with what is on its way.
LEMMA FedStays ==
    ASSUME UploadFed, UNCHANGED <<op, heard, queue, owed, arriving>>,
           phase' \in {"open", "data"} => phase' = phase /\ remaining' = remaining,
           gone => gone', opening = "opened" => opening' = "opened"
    PROVE  UploadFed'
<1>1. T!Sent' = T!Sent /\ Coming' = Coming
  BY DEF T!Sent, Coming
<1> QED
  BY <1>1 DEF UploadFed

\* The call and the connection bring an upload what it lacks, as long as they
\* last.
LEMMA CallStep == TransferInductive /\ T!Next => CallKnown' /\ UploadFed'
<1> SUFFICES ASSUME TransferInductive, T!Next PROVE CallKnown' /\ UploadFed'
  OBVIOUS
<1>1. /\ op \in {"upload", "download"}
      /\ phase \in {"start", "early", "open", "data", "finish", "late", "drain", "done"}
      /\ declared \in 0 .. MaxData /\ remaining \in 0 .. declared /\ MaxData \in Nat
      /\ queue \in Seq(TransferFrames) /\ heard \in Seq(TransferFrames)
      /\ owed \in 0 .. MaxData /\ arriving \in Seq(0 .. MaxData + 1)
      /\ CallKnown /\ UploadFed
      /\ phase = "start" => heard = <<>> /\ queue = <<>>
  BY TaskRunAssumption
     DEF TransferInductive, TransferSaid, SaidInPhase, T!TransferTrue, T!TypeOK, TransferFrames,
         T!TransferAssumption
<1>2. /\ phase = "start" => opening = "none" /\ ~gone /\ ~hungup /\ arriving = <<>>
      /\ phase \notin {"start", "done"} => opening \in {"calling", "opened", "failed"}
      /\ opening = "calling" => ~gone /\ ~hungup /\ arriving = <<>>
      /\ opening = "failed" => gone
      /\ gone => hungup /\ queue = <<>>
      /\ taken \/ phase = "drain" => opening = "opened"
  BY <1>1 DEF CallKnown
<1>3. op = "upload" /\ phase \in {"open", "data"} /\ ~gone =>
        /\ T!Sent = <<"attach", "accept">>
        /\ Len(arriving) <= 1 /\ remaining <= owed + Coming
        /\ phase = "data" /\ remaining > 0 => opening = "opened"
  BY <1>1 DEF UploadFed
<1>4. arriving # <<>> =>
        /\ Head(arriving) \in Nat /\ Len(arriving) >= 1
        /\ Len(Tail(arriving)) = Len(arriving) - 1
        /\ Tail(arriving) \in Seq(0 .. MaxData + 1)
  BY <1>1, HeadTailProperties
<1>5. ASSUME NEW s \in Seq(0 .. MaxData + 1), Len(s) <= 0 PROVE s = <<>>
  BY <1>5, EmptySeq, LenProperties
<1>6. CASE T!Hears
  <2>1. /\ queue # <<>> /\ heard' = Append(heard, Head(queue)) /\ queue' = Tail(queue)
        /\ UNCHANGED <<op, phase, declared, remaining, final, committed, taken, opening,
                       owed, arriving, hungup, gone>>
    BY <1>6 DEF T!Hears, T!RunKept
  <2>2. T!Sent' = T!Sent
    BY <1>1, <2>1, Passes DEF T!Sent
  <2> QED
    BY <1>2, <1>3, <2>1, <2>2 DEF CallKnown, UploadFed, Coming
<1>7. CASE T!Opens
  <2>1. CallKnown'
    BY <1>2, <1>7 DEF T!Opens, T!RunKept, CallKnown
  <2>2. UploadFed'
    BY <1>1, <1>7, FedStays DEF T!Opens, T!RunKept
  <2> QED
    BY <2>1, <2>2
<1>8. ASSUME NEW size \in 0 .. MaxData + 1, T!Sends(size) PROVE CallKnown' /\ UploadFed'
  <2>1. /\ opening = "opened" /\ ~hungup /\ arriving = <<>>
        /\ arriving' = <<size>> /\ owed' = IF size < owed THEN owed - size ELSE 0
        /\ UNCHANGED <<op, phase, remaining, taken, queue, opening, heard, hungup, gone>>
    BY <1>8 DEF T!Sends, T!RunKept
  <2>2. CallKnown'
    BY <1>2, <2>1 DEF CallKnown
  <2>3. Coming = 0 /\ Coming' = size /\ Len(arriving') = 1
    BY <2>1 DEF Coming
  <2>4. owed <= owed' + size
    BY <1>1, <2>1
  <2>5. T!Sent' = T!Sent
    BY <2>1 DEF T!Sent
  <2> QED
    BY <1>1, <1>3, <2>1, <2>2, <2>3, <2>4, <2>5 DEF UploadFed
<1>9. CASE T!HangsUp
  <2>1. CallKnown'
    BY <1>2, <1>9 DEF T!HangsUp, T!RunKept, CallKnown
  <2>2. UploadFed'
    BY <1>1, <1>9, FedStays DEF T!HangsUp, T!RunKept
  <2> QED
    BY <2>1, <2>2
<1>10. CASE T!Breaks
  BY <1>2, <1>10 DEF T!Breaks, T!RunKept, CallKnown, UploadFed
<1>11. CASE T!Refuses
  BY <1>2, <1>11 DEF T!Refuses, T!Moves, T!WireKept, T!DashboardKept, CallKnown, UploadFed
<1>12. CASE T!EarlyError
  BY <1>2, <1>12 DEF T!EarlyError, T!Calls, T!DashboardKept, CallKnown, UploadFed
<1>13. CASE T!EarlyEnds \/ T!Stops
  BY <1>2, <1>13
     DEF T!EarlyEnds, T!Stops, T!Moves, T!WireKept, T!DashboardKept, CallKnown, UploadFed
<1>14. ASSUME NEW size \in 0 .. MaxData, T!Header(size) PROVE CallKnown' /\ UploadFed'
  <2>1. /\ phase = "start" /\ opening' = "calling"
        /\ queue' = <<"attach", IF op = "upload" THEN "accept" ELSE "offer">>
        /\ remaining' = size /\ owed' = IF op = "upload" THEN size ELSE 0
        /\ phase' = IF op = "upload" /\ size > 0 THEN "open" ELSE "data"
        /\ UNCHANGED <<op, heard, hungup, gone, taken, arriving>>
    BY <1>14 DEF T!Header, T!MustOpen, T!Calls, T!DashboardKept
  <2>2. CallKnown'
    BY <1>2, <2>1 DEF CallKnown
  <2>3. op = "upload" => T!Sent' = <<"attach", "accept">>
    <3>1. <<"attach", "accept">> \in Seq(TransferFrames) /\ <<>> \o <<"attach", "accept">> = <<"attach", "accept">>
      BY ConcatEmptySeq DEF TransferFrames
    <3> QED
      BY <1>1, <2>1, <3>1 DEF T!Sent
  <2>4. Coming' = 0 /\ Len(arriving') = 0
    BY <1>2, <2>1 DEF Coming
  <2> QED
    BY <1>1, <2>1, <2>2, <2>3, <2>4 DEF UploadFed
<1>15. CASE T!Opened
  <2>1. /\ phase = "open" /\ UNCHANGED <<op, heard, hungup, gone, queue, opening, owed, arriving, remaining>>
        /\ \/ opening = "opened" /\ phase' = "data" /\ taken' = TRUE
           \/ opening = "failed" /\ phase' = "finish" /\ taken' = taken
    BY <1>15 DEF T!Opened, T!WireKept, T!DashboardKept
  <2>2. CallKnown'
    BY <1>2, <2>1 DEF CallKnown
  <2>3. T!Sent' = T!Sent /\ Coming' = Coming
    BY <2>1 DEF T!Sent, Coming
  <2> QED
    BY <1>3, <2>1, <2>2, <2>3 DEF UploadFed
<1>16. CASE T!Receive
  <2>1. /\ phase = "data" /\ arriving # <<>> /\ arriving' = Tail(arriving)
        /\ UNCHANGED <<op, heard, hungup, gone, queue, opening, owed, taken>>
        /\ \/ phase' = "finish"
           \/ phase' = "data" /\ remaining' = remaining - Head(arriving)
                /\ Head(arriving) <= remaining /\ remaining > 0
    BY <1>1, <1>4, <1>16 DEF T!Receive, T!Results, T!Moves, T!DashboardKept
  <2>2. CallKnown'
    BY <1>2, <2>1 DEF CallKnown
  <2>3. T!Sent' = T!Sent /\ Coming = Head(arriving)
    BY <2>1 DEF T!Sent, Coming
  <2>4. CASE phase' = "data" /\ op = "upload" /\ ~gone
    <3>1. Len(arriving') <= 0 /\ arriving' \in Seq(0 .. MaxData + 1)
      BY <1>1, <1>3, <1>4, <2>1, <2>4, LenProperties
    <3>2. arriving' = <<>>
      BY <1>5, <3>1
    <3>3. Coming' = 0 /\ Len(arriving') = 0
      BY <3>2 DEF Coming
    <3>4. remaining' <= owed' + Coming'
      BY <1>1, <1>3, <1>4, <2>1, <2>3, <2>4, <3>3
    <3>5. opening' = "opened"
      BY <1>3, <2>1, <2>4
    <3>6. T!Sent' = <<"attach", "accept">>
      BY <1>3, <2>1, <2>3, <2>4
    <3>7. UploadFed'
      BY <3>3, <3>4, <3>5, <3>6 DEF UploadFed
    <3> QED
      BY <2>2, <3>7
  <2>5. CASE ~(phase' = "data" /\ op = "upload" /\ ~gone)
    BY <2>1, <2>2, <2>5 DEF UploadFed
  <2> QED
    BY <2>4, <2>5
<1>17. CASE T!Missed \/ T!Commit \/ T!SentAll \/ T!Fails \/ T!TimesOut
  <2>1. /\ phase \notin {"start", "done"} /\ phase' = "finish"
        /\ UNCHANGED <<op, taken, heard, hungup, gone, queue, opening, owed, arriving>>
    BY <1>17 DEF T!Missed, T!Commit, T!SentAll, T!Fails, T!TimesOut, T!Results, T!Moves,
       T!WireKept, T!DashboardKept
  <2> QED
    BY <1>2, <2>1 DEF CallKnown, UploadFed
<1>18. CASE T!Chunk
  <2>1. /\ op = "download" /\ phase = "data" /\ phase' \in {"data", "finish"}
        /\ gone => queue' = queue
        /\ UNCHANGED <<op, taken, heard, hungup, gone, opening, owed, arriving>>
    BY <1>18 DEF T!Chunk, T!Results, T!Moves, T!DashboardKept
  <2> QED
    BY <1>2, <2>1 DEF CallKnown, UploadFed
<1>19. CASE T!Tells
  <2>1. /\ phase = "finish" /\ ~gone /\ phase' = IF taken THEN "drain" ELSE "late"
        /\ UNCHANGED <<op, taken, heard, hungup, gone, opening, owed, arriving>>
    BY <1>19 DEF T!Tells, T!Moves, T!DashboardKept
  <2> QED
    BY <1>2, <2>1 DEF CallKnown, UploadFed
<1>20. CASE T!TellsNobody
  <2>1. /\ phase = "finish" /\ phase' \in {"done", "drain", "late"}
        /\ phase' = "drain" => taken
        /\ UNCHANGED <<op, taken, heard, hungup, gone, queue, opening, owed, arriving>>
    BY <1>20 DEF T!TellsNobody, T!Moves, T!WireKept, T!DashboardKept
  <2> QED
    BY <1>2, <2>1 DEF CallKnown, UploadFed
<1>21. CASE T!Late
  BY <1>2, <1>21 DEF T!Late, T!WireKept, T!DashboardKept, CallKnown, UploadFed
<1>22. CASE T!Drains
  <2>1. /\ phase = "drain" /\ phase' \in {"drain", "done"}
        /\ UNCHANGED <<op, taken, heard, hungup, gone, queue, opening, owed>>
    BY <1>22 DEF T!Drains, T!Moves, T!DashboardKept
  <2> QED
    BY <1>2, <2>1 DEF CallKnown, UploadFed
<1> QED
  BY <1>6, <1>7, <1>8, <1>9, <1>10, <1>11, <1>12, <1>13, <1>14, <1>15, <1>16, <1>17, <1>18,
     <1>19, <1>20, <1>21, <1>22 DEF T!Next, T!Dashboard, T!Runs

\* One step of the dashboard or of the agent keeps the invariant.
LEMMA TransferStep == TransferInductive /\ T!Next => TransferInductive'
  BY SaidStep, CallStep DEF TransferInductive

\* A transfer begins with nothing said and nothing called.
LEMMA TransferInit == T!Init => TransferInductive
  BY SaidInit DEF T!Init, TransferInductive, CallKnown, UploadFed

\* As long as a transfer is not done run or the dashboard can go on.
LEMMA TransferGoesOn == TransferInductive => T!TransferFlows
<1> SUFFICES ASSUME TransferInductive, phase # "done", ~T!RunGoes PROVE T!DashboardGoes
  BY DEF T!TransferFlows
<1>1. /\ op \in {"upload", "download"}
      /\ phase \in {"start", "early", "open", "data", "finish", "late", "drain", "done"}
      /\ declared \in 0 .. MaxData /\ remaining \in 0 .. declared /\ MaxData \in Nat
      /\ queue \in Seq(TransferFrames) /\ Len(queue) <= Slots /\ heard \in Seq(TransferFrames)
      /\ opening \in {"none", "calling", "opened", "failed", "aborted"}
      /\ owed \in 0 .. MaxData /\ Slots \in Nat /\ Slots >= 2
  BY TaskRunAssumption
     DEF TransferInductive, TransferSaid, T!TransferTrue, T!TypeOK, TransferFrames,
         T!TransferAssumption
<1>2. /\ phase \notin {"start", "done"} => opening \in {"calling", "opened", "failed"}
      /\ opening = "failed" => gone
      /\ opening = "calling" => ~gone
      /\ gone => hungup /\ queue = <<>>
      /\ taken \/ phase = "drain" => opening = "opened"
  BY DEF TransferInductive, CallKnown
<1>3. op = "upload" /\ phase \in {"open", "data"} /\ ~gone =>
        /\ T!Sent = <<"attach", "accept">> /\ remaining <= owed + Coming
        /\ phase = "data" /\ remaining > 0 => opening = "opened"
  BY DEF TransferInductive, UploadFed
<1>4. SUFFICES ASSUME queue = <<>> PROVE T!DashboardGoes
  <2>1. CASE queue # <<>>
    BY <1>1, <1>2, <2>1 DEF T!RunGoes, T!DashboardGoes
  <2> QED
    BY <1>4, <2>1
<1>5. Len(queue) < Slots
  BY <1>1, <1>4
<1>6. T!Sent = <<"attach", "accept">> => T!Says("accept")
  <2>1. T!Sent = heard
    BY <1>1, <1>4, ConcatEmptySeq DEF T!Sent
  <2> QED
    BY <2>1 DEF T!Says
<1>7. CASE phase \in {"start", "finish"}
  BY <1>5, <1>7 DEF T!RunGoes
<1>8. CASE phase \in {"early", "late"}
  BY <1>2, <1>4, <1>8 DEF T!RunGoes, T!DashboardGoes, T!HeardAll
<1>9. CASE phase = "open"
  <2>1. opening = "calling" /\ op = "upload" /\ ~gone
    BY <1>2, <1>9 DEF T!RunGoes, TransferInductive, TransferSaid, SaidInPhase
  <2> QED
    BY <1>3, <1>6, <1>9, <2>1 DEF T!DashboardGoes
<1>10. CASE phase = "data"
  <2>1. op = "upload" /\ remaining > 0 /\ arriving = <<>> /\ ~hungup /\ ~gone
    BY <1>1, <1>2, <1>5, <1>10 DEF T!RunGoes
  <2>2. opening = "opened" /\ owed > 0
    BY <1>1, <1>3, <1>10, <2>1 DEF Coming
  <2> QED
    BY <1>3, <1>6, <1>10, <2>1, <2>2 DEF T!DashboardGoes
<1>11. CASE phase = "drain"
  BY <1>2, <1>4, <1>11 DEF T!RunGoes, T!DashboardGoes, T!HeardAll
<1> QED
  BY <1>1, <1>7, <1>8, <1>9, <1>10, <1>11

-----------------------------------------------------------------------------
(* Probes *)

\* The numbers of the requests that were sent.
Requests == 1 .. sent

\* Only what was sent is waited for or answered, and not before its time.
Answers ==
    /\ state \notin {"echo", "over"} => sent = 0 /\ outcome = "none"
    /\ state \in {"idle", "resolve"} => now = 0
    /\ state = "resolve" => probe # "http"
    /\ state = "echo" => probe = "icmp" /\ now <= Deadline /\ outcome = "none"
    /\ pending \subseteq Requests
    /\ \A n \in P!Numbers : answered[n] # P!None => n \in Requests
    /\ \A n \in Requests \ pending : answered[n] # P!None
    /\ \A n \in P!Numbers : answered[n] \in {P!None, P!Failed} \/ answered[n] <= now

\* Replies are joined within the second in which they came.
JoinedInTime ==
    state = "echo" => \A n \in pending : answered[n] \in {P!None, P!Failed, now}

\* The replies that are joined and are no failure.
Counted == {n \in Requests \ pending : answered[n] # P!Failed}

ProbeInductive ==
    P!PingTrue /\ Answers /\ JoinedInTime /\ received = Cardinality(Counted)

\* FiniteSets is the same in each module that extends it.
LEMMA SameSizes ==
    /\ \A S : P!IsFiniteSet(S) <=> IsFiniteSet(S)
    /\ \A S : P!Cardinality(S) = Cardinality(S)
    /\ \A S : R!IsFiniteSet(S) <=> IsFiniteSet(S)
    /\ \A S : R!Cardinality(S) = Cardinality(S)
<1>1. \A S : P!IsFiniteSet(S) <=> IsFiniteSet(S)
  BY DEF P!IsFiniteSet, IsFiniteSet
<1>2. \A S : P!Cardinality(S) = Cardinality(S)
  BY <1>1 DEF P!Cardinality, Cardinality
<1>3. \A S : R!IsFiniteSet(S) <=> IsFiniteSet(S)
  BY DEF R!IsFiniteSet, IsFiniteSet
<1>4. \A S : R!Cardinality(S) = Cardinality(S)
  BY <1>3 DEF R!Cardinality, Cardinality
<1> QED
  BY <1>1, <1>2, <1>3, <1>4

\* The replies that were counted are finitely many, and all of them when there
\* are as many as there are requests.
LEMMA CountedFinite ==
    ASSUME P!TypeOK
    PROVE  /\ IsFiniteSet(P!Numbers) /\ Cardinality(P!Numbers) = Count
           /\ IsFiniteSet(Counted) /\ Cardinality(Counted) \in 0 .. Count
           /\ Cardinality(Counted) = Count => Counted = P!Numbers
           /\ \A S \in SUBSET Counted :
                 Cardinality(S) \in Nat /\ Cardinality(S) <= Cardinality(Counted)
           /\ Cardinality(Counted) = 0 => Counted = {}
<1>1. Count \in Nat \ {0} /\ sent \in 0 .. Count /\ pending \in SUBSET (1 .. Count)
  BY TaskRunAssumption DEF P!ProbesAssumption, P!TypeOK, P!Numbers
<1>2. IsFiniteSet(P!Numbers) /\ Cardinality(P!Numbers) = Count
  BY <1>1, FS_Interval DEF P!Numbers
<1>3. Counted \in SUBSET P!Numbers
  BY <1>1 DEF Counted, Requests, P!Numbers
<1>4. /\ IsFiniteSet(Counted) /\ Cardinality(Counted) <= Count
      /\ Cardinality(Counted) = Count => Counted = P!Numbers
  BY <1>2, <1>3, FS_Subset
<1>5. Cardinality(Counted) \in Nat
  BY <1>4, FS_CardinalityType
<1>6. ASSUME NEW S \in SUBSET Counted
      PROVE  Cardinality(S) \in Nat /\ Cardinality(S) <= Cardinality(Counted)
  BY <1>4, FS_Subset, FS_CardinalityType
<1> QED
  BY <1>1, <1>2, <1>4, <1>5, <1>6, FS_EmptySet

\* A probe begins with nothing sent, answered or counted.
LEMMA ProbeInit == P!Init => ProbeInductive
<1> SUFFICES ASSUME P!Init PROVE ProbeInductive
  OBVIOUS
<1>1. /\ Count \in Nat \ {0} /\ Deadline \in Nat \ {0}
  BY TaskRunAssumption DEF P!ProbesAssumption
<1>2. P!TypeOK
  BY <1>1 DEF P!Init, P!TypeOK, P!None, P!Failed, P!Numbers
<1>3. Counted = {}
  BY DEF P!Init, Counted, Requests
<1> QED
  BY <1>1, <1>2, <1>3, FS_EmptySet, SameSizes
     DEF P!Init, ProbeInductive, P!PingTrue, Answers, JoinedInTime, Requests,
         P!None, P!Failed, P!Numbers

\* A step of a probe keeps the count of the replies, and the time in which
\* they were joined; an ending is what they come to.
LEMMA ProbeStep == ProbeInductive /\ P!Next => ProbeInductive'
<1> SUFFICES ASSUME ProbeInductive, P!Next PROVE ProbeInductive'
  OBVIOUS
<1>1. /\ Count \in Nat \ {0} /\ Deadline \in Nat \ {0}
      /\ Limit["http"] \in Nat /\ Limit["tcp"] \in Nat
  BY TaskRunAssumption DEF P!ProbesAssumption
<1>2. P!TypeOK /\ Answers /\ JoinedInTime /\ received = Cardinality(Counted)
  BY SameSizes DEF ProbeInductive, P!PingTrue
<1>3. \* What an ending has to show, given the rest of the next state.
      ASSUME P!TypeOK', Answers', JoinedInTime', Counted' = Counted,
             UNCHANGED received,
             outcome' \in {"none", "refused", "cancelled"} \/ sent' = 0
      PROVE  ProbeInductive'
  BY <1>2, <1>3, SameSizes DEF ProbeInductive, P!PingTrue
<1> USE DEF P!None, P!Failed, P!Numbers, Requests, P!given, P!echoes, P!Idle, P!Goes, P!Over
<1>4. ASSUME UNCHANGED P!echoes PROVE Counted' = Counted
  BY <1>4 DEF Counted
<1>5. CASE P!Refuse
  BY <1>1, <1>2, <1>3, <1>4, <1>5 DEF P!Refuse, P!TypeOK, Answers, JoinedInTime
<1>6. CASE P!Start
  <2>1. /\ state = "idle" /\ P!Idle
        /\ P!Over("failure") \/ P!Goes("request") \/ (P!Goes("resolve") /\ probe # "http")
    BY <1>6 DEF P!Start, P!Malformed
  <2>2. sent = 0 /\ UNCHANGED <<now, response, sent, answered, pending, received, probe, host, servers>>
    BY <1>2, <2>1 DEF Answers
  <2>3. Counted' = Counted
    BY <1>4, <2>1
  <2>4. \/ state' = "over" /\ outcome' = "failure"
        \/ state' = "request" /\ outcome' = "none"
        \/ state' = "resolve" /\ probe # "http" /\ outcome' = "none"
    BY <1>2, <2>1 DEF Answers
  <2>5. P!TypeOK' /\ Answers' /\ JoinedInTime'
    BY <1>1, <1>2, <2>1, <2>2, <2>4 DEF P!TypeOK, Answers, JoinedInTime
  <2> QED
    BY <1>3, <2>2, <2>3, <2>5
<1>7. CASE P!Resolve
  <2>1. /\ state = "resolve" /\ P!Idle
        /\ P!Over("failure") \/ P!Begin
    BY <1>7 DEF P!Resolve
  <2>2. sent = 0 /\ UNCHANGED <<now, response, sent, answered, pending, received, probe, host, servers>>
    BY <1>2, <2>1 DEF Answers, P!Begin
  <2>3. Counted' = Counted
    BY <1>4, <2>1
  <2>4. \/ state' = "over" /\ outcome' = "failure"
        \/ state' = (IF probe = "tcp" THEN "connect" ELSE "echo") /\ outcome' = "none"
    BY <1>2, <2>1 DEF Answers, P!Begin
  <2>5. P!TypeOK' /\ Answers' /\ JoinedInTime'
    BY <1>1, <1>2, <2>1, <2>2, <2>4 DEF P!TypeOK, Answers, JoinedInTime
  <2> QED
    BY <1>3, <2>2, <2>3, <2>5
<1>8. CASE P!Connect
  BY <1>1, <1>2, <1>3, <1>4, <1>8 DEF P!Connect, P!TypeOK, Answers, JoinedInTime
<1>9. CASE P!Respond
  BY <1>1, <1>2, <1>3, <1>4, <1>9 DEF P!Respond, P!TypeOK, Answers, JoinedInTime
<1>10. CASE P!ReadBody
  BY <1>1, <1>2, <1>3, <1>4, <1>10 DEF P!ReadBody, P!TypeOK, Answers, JoinedInTime
<1>11. CASE P!TimeOut
  BY <1>1, <1>2, <1>3, <1>4, <1>11 DEF P!TimeOut, P!TypeOK, Answers, JoinedInTime
<1>12. CASE P!Tick
  BY <1>1, <1>2, <1>3, <1>4, <1>12 DEF P!Tick, P!Busy, P!TypeOK, Answers, JoinedInTime
<1>13. CASE P!Cancel
  BY <1>1, <1>2, <1>3, <1>4, <1>13 DEF P!Cancel, P!TypeOK, Answers, JoinedInTime
<1>14. CASE P!Send
  <2>1. Counted' = Counted
    BY <1>1, <1>2, <1>14 DEF P!Send, P!Echoing, P!TypeOK, Answers, Counted
  <2> QED
    BY <1>1, <1>2, <1>3, <1>14, <2>1 DEF P!Send, P!Echoing, P!TypeOK, Answers, JoinedInTime
<1>15. ASSUME NEW n \in P!Numbers, P!Reply(n) PROVE ProbeInductive'
  <2>1. Counted' = Counted
    BY <1>1, <1>2, <1>15 DEF P!Reply, P!TypeOK, Answers, Counted
  <2> QED
    BY <1>1, <1>2, <1>3, <1>15, <2>1 DEF P!Reply, P!TypeOK, Answers, JoinedInTime
<1>16. ASSUME NEW n \in P!Numbers, P!Join(n) PROVE ProbeInductive'
  <2>1. /\ P!Echoing /\ n \in pending /\ answered[n] # P!None
        /\ pending' = pending \ {n} /\ received' = P!Count1(n)
        /\ IF P!Count1(n) = Count /\ answered[n] # P!Failed
           THEN P!Over("success") ELSE P!Goes("echo")
        /\ UNCHANGED <<probe, host, servers, now, response, sent, answered>>
    BY <1>16 DEF P!Join, P!JoinUntil
  <2>2. /\ IsFiniteSet(Counted) /\ n \notin Counted
        /\ received \in 0 .. Count
    BY <1>2, <2>1, CountedFinite DEF Counted
  <2>3. Counted' = IF answered[n] # P!Failed THEN Counted \cup {n} ELSE Counted
    BY <1>1, <1>2, <2>1 DEF Counted, P!TypeOK, Answers
  <2>4. received' = Cardinality(Counted')
    BY <1>2, <2>1, <2>2, <2>3, FS_AddElement DEF P!Count1
  <2>5. Counted' \in SUBSET P!Numbers /\ IsFiniteSet(P!Numbers) /\ Cardinality(P!Numbers) = Count
    <3>1. Counted' \in SUBSET P!Numbers
      BY <1>1, <1>2, <2>1 DEF Counted, P!TypeOK
    <3>2. IsFiniteSet(P!Numbers) /\ Cardinality(P!Numbers) = Count
      BY <1>2, CountedFinite
    <3> QED
      BY <3>1, <3>2
  <2>6. /\ IsFiniteSet(Counted') /\ Cardinality(Counted') \in 0 .. Count
        /\ Cardinality(Counted') = Count => Counted' = P!Numbers
    <3>1. /\ IsFiniteSet(Counted') /\ Cardinality(Counted') <= Count
          /\ Cardinality(Counted') = Count => Counted' = P!Numbers
      BY <2>5, FS_Subset
    <3> QED
      BY <1>1, <3>1, FS_CardinalityType
  <2>7. P!TypeOK'
    BY <1>1, <1>2, <2>1, <2>4, <2>6 DEF P!TypeOK
  <2>8. Answers' /\ JoinedInTime'
    BY <1>1, <1>2, <2>1 DEF Answers, JoinedInTime, P!TypeOK, P!Echoing
  <2>9. P!PingTrue'
    <3>1. CASE outcome' = "none"
      BY <2>7, <3>1 DEF P!PingTrue
    <3>2. CASE outcome' # "none"
      <4>1. outcome' = "success" /\ Counted' = P!Numbers /\ received' = Count
        BY <1>2, <2>1, <2>4, <2>6, <3>2 DEF Answers, P!Echoing
      <4>2. \A k \in P!Numbers : answered'[k] # P!Failed /\ answered'[k] # P!None
        BY <2>8, <4>1 DEF Counted, Answers
      <4>3. \A k \in P!Numbers : answered'[k] <= now'
        BY <2>8, <4>2 DEF Answers
      <4>4. received' >= Cardinality({k \in P!Numbers : answered'[k] < now'})
        <5>1. {k \in P!Numbers : answered'[k] < now'} \in SUBSET P!Numbers
          OBVIOUS
        <5>2. Cardinality({k \in P!Numbers : answered'[k] < now'}) <= Count
          BY <2>5, <5>1, FS_Subset
        <5>3. Cardinality({k \in P!Numbers : answered'[k] < now'}) \in Nat
          BY <2>5, <5>1, FS_Subset, FS_CardinalityType
        <5> QED
          BY <1>1, <4>1, <5>2, <5>3
      <4> QED
        BY <2>7, <4>1, <4>3, <4>4, SameSizes DEF P!PingTrue
    <3> QED
      BY <3>1, <3>2
  <2> QED
    BY <2>4, <2>8, <2>9, SameSizes DEF ProbeInductive
<1>17. CASE P!Expire
  <2>1. /\ state = "echo" /\ now = Deadline /\ state' = "over"
        /\ outcome' = IF received > 0 THEN "success" ELSE "failure"
        /\ UNCHANGED <<probe, host, servers, now, response, sent, answered, pending, received>>
    BY <1>17 DEF P!Expire
  <2>2. P!TypeOK' /\ Answers' /\ JoinedInTime' /\ Counted' = Counted
    BY <1>1, <1>2, <1>4, <2>1 DEF P!TypeOK, Answers, JoinedInTime
  <2>3. {k \in P!Numbers : answered[k] < now} \in SUBSET Counted
    BY <1>1, <1>2, <2>1 DEF P!TypeOK, Answers, JoinedInTime, Counted
  <2>4. received >= Cardinality({k \in P!Numbers : answered[k] < now})
    BY <1>2, <2>3, CountedFinite
  <2>5. received = 0 => \A k \in P!Numbers : answered[k] >= Deadline
    <3>1. received = 0 => Counted = {}
      BY <1>2, CountedFinite
    <3> QED
      BY <1>1, <1>2, <2>1, <2>3, <3>1 DEF P!TypeOK
  <2>6. P!PingTrue'
    BY <1>1, <1>2, <2>1, <2>2, <2>4, <2>5, SameSizes DEF P!PingTrue, P!TypeOK
  <2> QED
    BY <1>2, <2>1, <2>2, <2>6, SameSizes DEF ProbeInductive
<1> QED
  BY <1>5, <1>6, <1>7, <1>8, <1>9, <1>10, <1>11, <1>12, <1>13, <1>14, <1>15, <1>16, <1>17
     DEF P!Next

-----------------------------------------------------------------------------
(* Listings and reads *)

\* An operation of either kind uses the handle that it has opened.
HandleOpen ==
    /\ seeking \in {"size", "data", "items", "done"} => handle \in R!Objects
    /\ asked = "list" => seeking \notin {"size", "data"}
    /\ asked = "read" => seeking # "items"
    /\ asked = "list" /\ seeking = "open" => listed = {} /\ total = 0 /\ ~more

\* The dashboard has each unit up to its offset; of the first file only, as
\* long as the name leads there.
PartsJoin ==
    asked = "read" =>
        /\ parts \subseteq R!Objects \X (1 .. offset)
        /\ \A k \in 1 .. offset : \E o \in R!Objects : <<o, k>> \in parts
        /\ named = "first" =>
              /\ handle # "second"
              /\ parts = {"first"} \X (1 .. offset)
              /\ ~touched => offset <= length["first"]
        /\ seeking = "data" /\ ~touched => total = length[handle]

\* What has been looked at is counted, and listed unless the listing is full.
LookedAt == {i \in steady : R!Visible(i)} \ unread

ListGrows ==
    asked = "list" =>
        /\ IsFiniteSet(listed) /\ Cardinality(listed) <= MaxList
        /\ handle \in R!Objects => steady \subseteq present[handle]
        /\ total >= Cardinality(LookedAt)
        /\ more \/ ({handle} \X LookedAt) \subseteq listed
        /\ seeking = "done" => unread = {}

ReadInductive == R!ReadsTrue /\ HandleOpen /\ PartsJoin /\ ListGrows

\* The names of a directory are finitely many, and a part of them has no more.
LEMMA ItemsFinite ==
    \A S \in SUBSET Items :
        /\ IsFiniteSet(S) /\ Cardinality(S) \in Nat
        /\ \A U \in SUBSET S : Cardinality(U) <= Cardinality(S)
        /\ \A i : IsFiniteSet(S \cup {i}) /\ Cardinality(S \cup {i}) <= Cardinality(S) + 1
<1> SUFFICES ASSUME NEW S \in SUBSET Items
             PROVE  /\ IsFiniteSet(S) /\ Cardinality(S) \in Nat
                    /\ \A U \in SUBSET S : Cardinality(U) <= Cardinality(S)
                    /\ \A i : /\ IsFiniteSet(S \cup {i})
                              /\ Cardinality(S \cup {i}) <= Cardinality(S) + 1
  OBVIOUS
<1>1. IsFiniteSet(Items)
  BY TaskRunAssumption, SameSizes DEF R!FileReadsAssumption
<1>2. IsFiniteSet(S)
  BY <1>1, FS_Subset
<1>3. Cardinality(S) \in Nat
  BY <1>2, FS_CardinalityType
<1>4. \A U \in SUBSET S : Cardinality(U) <= Cardinality(S)
  BY <1>2, FS_Subset
<1>5. ASSUME NEW i
      PROVE  IsFiniteSet(S \cup {i}) /\ Cardinality(S \cup {i}) <= Cardinality(S) + 1
  <2>1. /\ IsFiniteSet(S \cup {i})
        /\ Cardinality(S \cup {i}) = IF i \in S THEN Cardinality(S) ELSE Cardinality(S) + 1
    BY <1>2, FS_AddElement
  <2> QED
    BY <1>3, <2>1
<1> QED
  BY <1>2, <1>3, <1>4, <1>5

\* A listing or a read begins with nothing opened.
LEMMA ReadInit == R!Init => ReadInductive
<1> SUFFICES ASSUME R!Init PROVE ReadInductive
  OBVIOUS
<1>1. MaxFile \in Nat /\ MaxList \in Nat
  BY TaskRunAssumption DEF R!FileReadsAssumption
<1>2. R!TypeOK /\ HandleOpen
  <2>1. present \in [R!Objects -> SUBSET Items] /\ length \in [R!Objects -> 0 .. MaxFile]
    BY DEF R!Init
  <2>2. offset \in 0 .. MaxFile /\ total \in Nat
    BY <1>1 DEF R!Init
  <2> QED
    BY <2>1, <2>2 DEF R!Init, R!TypeOK, R!Objects, HandleOpen
<1>3. R!ReadTrue /\ PartsJoin
  BY <1>1 DEF R!Init, R!Objects, R!ReadTrue, PartsJoin
<1>4. LookedAt = {} /\ listed = {}
  BY DEF R!Init, LookedAt
<1>5. R!ListTrue /\ ListGrows
  BY <1>1, <1>4, SameSizes, FS_EmptySet DEF R!Init, R!Objects, R!ListTrue, ListGrows
<1> QED
  BY <1>2, <1>3, <1>5 DEF ReadInductive, R!ReadsTrue

\* A step of the operation, or of others who replace, change or remove, keeps
\* what is said of the parts and of the entries that the dashboard has.
LEMMA ReadStep == ReadInductive /\ R!Next => ReadInductive'
<1> SUFFICES ASSUME ReadInductive, R!Next PROVE ReadInductive'
  OBVIOUS
<1>1. MaxFile \in Nat /\ MaxList \in Nat /\ MaxPart \in Nat \ {0}
  BY TaskRunAssumption DEF R!FileReadsAssumption
<1>2. /\ R!TypeOK /\ R!ReadTrue /\ R!ListTrue
      /\ HandleOpen /\ PartsJoin /\ ListGrows
  BY DEF ReadInductive, R!ReadsTrue
<1>3. asked \in {"list", "read"} /\ asked' = asked
  <2>1. asked \in {"list", "read"}
    BY <1>2 DEF R!TypeOK
  <2> QED
    BY <2>1 DEF R!Next, R!Others, R!Replaces, R!Touches, R!Removes, R!OperationKept, R!Operation,
          R!Open, R!Fails, R!Sizes, R!Part, R!NextPart, R!Item, R!ListIn, R!ListEnds, R!Goes
<1>4. \* A listing does not concern the parts of a read.
      ASSUME asked = "list" PROVE R!ReadTrue' /\ PartsJoin'
  BY <1>3, <1>4 DEF R!ReadTrue, PartsJoin
<1>5. ASSUME asked = "read" PROVE R!ListTrue' /\ ListGrows'
  BY <1>3, <1>5 DEF R!ListTrue, ListGrows
<1> USE DEF R!Objects, R!Goes, R!OperationKept, R!fileVars, R!listVars
<1>6. ASSUME R!TypeOK', HandleOpen', asked = "read" => R!ReadTrue' /\ PartsJoin',
             asked = "list" => R!ListTrue' /\ ListGrows'
      PROVE  ReadInductive'
  BY <1>3, <1>4, <1>5, <1>6 DEF ReadInductive, R!ReadsTrue
<1>7. LookedAt \in SUBSET Items /\ {i \in steady : R!Visible(i)} \in SUBSET Items
  BY <1>2 DEF LookedAt, R!TypeOK
<1>8. \* What stays as it is, for a listing.
      ASSUME UNCHANGED <<asked, handle, total, more, listed, unread, steady, present>>,
             seeking' \in {"done", "open"} => seeking' = seeking
      PROVE  R!ListTrue' /\ ListGrows'
  BY <1>2, <1>8 DEF R!ListTrue, ListGrows, LookedAt
<1>9. CASE R!Replaces
  BY <1>1, <1>2, <1>6, <1>8, <1>9 DEF R!Replaces, R!TypeOK, HandleOpen, R!ReadTrue, PartsJoin
<1>10. ASSUME NEW o \in R!Objects, R!Touches(o) PROVE ReadInductive'
  BY <1>1, <1>2, <1>6, <1>10 DEF R!Touches, R!TypeOK, HandleOpen, R!ReadTrue, PartsJoin
<1>11. CASE R!Fails
  BY <1>1, <1>2, <1>6, <1>8, <1>11 DEF R!Fails, R!TypeOK, HandleOpen, R!ReadTrue, PartsJoin
<1>12. CASE R!Sizes
  BY <1>1, <1>2, <1>6, <1>12
     DEF R!Sizes, R!Size, R!TypeOK, HandleOpen, R!ReadTrue, PartsJoin
<1>13. CASE R!NextPart
  BY <1>1, <1>2, <1>6, <1>13 DEF R!NextPart, R!TypeOK, HandleOpen, R!ReadTrue, PartsJoin
<1>14. ASSUME NEW wanted \in 1 .. MaxFile, R!Part(wanted) PROVE ReadInductive'
  <2> DEFINE rest == IF length[handle] > offset THEN length[handle] - offset ELSE 0
             count == R!AtMost(rest, R!AtMost(wanted, MaxPart))
  <2>1. /\ seeking = "data" /\ seeking' = "done" /\ asked = "read"
        /\ parts' = parts \cup ({handle} \X (offset + 1 .. offset + count))
        /\ more' = (offset + count < total) /\ offset' = offset + count
        /\ UNCHANGED <<asked, named, handle, length, total, touched, present, unread, steady, listed>>
    BY <1>2, <1>14 DEF R!Part, HandleOpen, R!TypeOK
  <2>2. /\ handle \in R!Objects /\ length[handle] \in 0 .. MaxFile /\ offset \in 0 .. MaxFile
        /\ total \in Nat /\ length \in [R!Objects -> 0 .. MaxFile]
    BY <1>2, <2>1 DEF HandleOpen, R!TypeOK
  <2>3. /\ count \in 0 .. rest /\ rest \in 0 .. MaxFile
        /\ offset + count \in 0 .. MaxFile
        /\ offset <= length[handle] => offset + count <= length[handle]
    BY <1>1, <2>2 DEF R!AtMost
  <2> HIDE DEF count
  <2>4. R!TypeOK'
    BY <1>1, <1>2, <2>1, <2>2, <2>3 DEF R!TypeOK
  <2>5. HandleOpen'
    BY <2>1, <2>2 DEF HandleOpen
  <2>6. parts \subseteq R!Objects \X (1 .. offset) /\ parts' \subseteq R!Objects \X (1 .. offset')
    BY <1>2, <2>1, <2>2, <2>3 DEF PartsJoin
  <2>7. \A k \in 1 .. offset' : \E o \in R!Objects : <<o, k>> \in parts'
    <3>1. \A k \in 1 .. offset : \E o \in R!Objects : <<o, k>> \in parts
      BY <1>2, <2>1 DEF PartsJoin
    <3>2. ASSUME NEW k \in 1 .. offset' PROVE \E o \in R!Objects : <<o, k>> \in parts'
      <4>1. CASE k <= offset
        BY <2>1, <2>2, <3>1, <4>1
      <4>2. CASE k > offset
        BY <2>1, <2>2, <2>3, <4>2
      <4> QED
        BY <2>1, <2>2, <2>3, <4>1, <4>2
    <3> QED
      BY <3>2
  <2>8. named' = "first" =>
           /\ handle' = "first"
           /\ parts' = {"first"} \X (1 .. offset')
           /\ ~touched' => offset' <= length'["first"]
    BY <1>2, <2>1, <2>2, <2>3 DEF PartsJoin
  <2>9. ~touched => total = length[handle]
    BY <1>2, <2>1 DEF PartsJoin
  <2>10. PartsJoin'
    BY <2>1, <2>6, <2>7, <2>8 DEF PartsJoin
  <2>11. R!ReadTrue'
    <3> SUFFICES ASSUME ~touched' PROVE R!ReadTrue'
      BY DEF R!ReadTrue
    <3>1. ~touched /\ total = length[handle] /\ (more' <=> offset' < length'[handle'])
      BY <2>1, <2>9
    <3>2. ~more' => offset' >= length'[handle']
      BY <2>1, <2>2, <2>3, <3>1
    <3>3. ~more' => \A k \in 1 .. length'[handle'] : \E o \in R!Objects : <<o, k>> \in parts'
      <4>1. ~more' => 1 .. length'[handle'] \subseteq 1 .. offset'
        BY <2>1, <2>2, <2>3, <3>2
      <4> QED
        BY <2>7, <4>1
    <3>4. named' = "first" /\ ~more' => parts' = {"first"} \X (1 .. length'["first"])
      <4>1. named' = "first" /\ ~more' => offset' = length'["first"]
        BY <2>1, <2>2, <2>3, <2>8, <3>2
      <4> QED
        BY <2>8, <4>1
    <3> QED
      BY <3>1, <3>3, <3>4 DEF R!ReadTrue
  <2> QED
    BY <1>6, <2>1, <2>4, <2>5, <2>10, <2>11
<1>15. CASE R!Open
  <2>1. CASE asked = "read"
    BY <1>1, <1>2, <1>6, <1>15, <2>1
       DEF R!Open, R!TypeOK, HandleOpen, R!ReadTrue, PartsJoin
  <2>2. CASE asked = "list"
    <3>1. /\ seeking = "open" /\ named \in R!Objects /\ handle' = named /\ seeking' = "items"
          /\ unread' = present[named] /\ steady' = present[named]
          /\ UNCHANGED <<asked, named, length, offset, parts, touched, total, more, present, listed>>
      BY <1>15, <2>2 DEF R!Open
    <3>2. listed = {} /\ total = 0 /\ ~more
      BY <1>2, <2>2, <3>1 DEF HandleOpen
    <3>3. LookedAt' = {}
      BY <3>1 DEF LookedAt
    <3>4. R!ListTrue' /\ ListGrows'
      BY <1>1, <3>1, <3>2, <3>3, SameSizes, FS_EmptySet DEF R!ListTrue, ListGrows
    <3>5. R!TypeOK' /\ HandleOpen'
      BY <1>1, <1>2, <2>2, <3>1 DEF R!TypeOK, HandleOpen
    <3> QED
      BY <1>6, <2>2, <3>4, <3>5
  <2> QED
    BY <1>3, <2>1, <2>2
<1>16. CASE R!ListEnds
  <2>1. /\ seeking = "items" /\ unread = {} /\ seeking' = "done" /\ asked = "list"
        /\ UNCHANGED <<asked, named, length, offset, parts, touched, handle, total, more,
                       present, unread, steady, listed>>
    BY <1>2, <1>3, <1>16 DEF R!ListEnds, HandleOpen
  <2>2. LookedAt = {i \in steady : R!Visible(i)}
    BY <2>1 DEF LookedAt
  <2>3. ListGrows'
    BY <1>2, <2>1 DEF ListGrows, LookedAt
  <2>4. R!ListTrue'
    BY <1>2, <2>1, <2>2, SameSizes DEF ListGrows, R!ListTrue
  <2>5. R!TypeOK' /\ HandleOpen'
    BY <1>2, <2>1 DEF R!TypeOK, HandleOpen
  <2> QED
    BY <1>6, <2>1, <2>3, <2>4, <2>5
<1>17. ASSUME NEW o \in R!Objects, NEW i \in Items, R!Removes(o, i) PROVE ReadInductive'
  <2>1. /\ asked = "list" /\ i \in present[o]
        /\ present' = [present EXCEPT ![o] = @ \ {i}]
        /\ IF o = handle
           THEN steady' = steady \ {i} /\ (unread' = unread \/ unread' = unread \ {i})
           ELSE UNCHANGED <<unread, steady>>
        /\ UNCHANGED <<asked, seeking, handle, offset, total, parts, more, listed, named,
                       length, touched>>
    BY <1>17 DEF R!Removes
  <2>2. /\ LookedAt' \in SUBSET LookedAt
        /\ {j \in steady' : R!Visible(j)} \in SUBSET {j \in steady : R!Visible(j)}
    BY <2>1 DEF LookedAt
  <2>3. /\ Cardinality(LookedAt') <= Cardinality(LookedAt)
        /\ Cardinality(LookedAt') \in Nat /\ Cardinality(LookedAt) \in Nat
    BY <1>7, <2>2, ItemsFinite
  <2>4. /\ Cardinality({j \in steady' : R!Visible(j)}) <= Cardinality({j \in steady : R!Visible(j)})
        /\ Cardinality({j \in steady' : R!Visible(j)}) \in Nat
        /\ Cardinality({j \in steady : R!Visible(j)}) \in Nat
    BY <1>7, <2>2, ItemsFinite
  <2>5. R!TypeOK' /\ HandleOpen'
    BY <1>2, <2>1 DEF R!TypeOK, HandleOpen
  <2>6. ListGrows'
    BY <1>2, <2>1, <2>2, <2>3, SameSizes DEF ListGrows, R!TypeOK
  <2>7. R!ListTrue'
    BY <1>2, <2>1, <2>2, <2>4, SameSizes DEF R!ListTrue, R!TypeOK
  <2> QED
    BY <1>6, <2>1, <2>5, <2>6, <2>7
<1>18. ASSUME NEW i \in Items, R!Item(i) PROVE ReadInductive'
  <2>1. /\ seeking = "items" /\ i \in unread /\ unread' = unread \ {i} /\ asked = "list"
        /\ handle \in R!Objects
        /\ UNCHANGED <<asked, named, seeking, length, offset, parts, touched, handle, present, steady>>
    BY <1>2, <1>3, <1>18 DEF R!Item, R!ListIn, HandleOpen
  <2>2. /\ IsFiniteSet(listed) /\ Cardinality(listed) \in Nat /\ Cardinality(listed) <= MaxList
        /\ Cardinality(listed) <= total /\ (more => Cardinality(listed) = MaxList)
        /\ total \in Nat /\ total >= Cardinality(LookedAt)
        /\ steady \subseteq present[handle]
        /\ more \/ ({handle} \X LookedAt) \subseteq listed
        /\ \A e \in listed : e[1] = handle /\ R!Visible(e[2])
    BY <1>2, <2>1, SameSizes, FS_CardinalityType DEF ListGrows, R!ListTrue, R!TypeOK
  <2>3. Cardinality(LookedAt) \in Nat
    BY <1>7, ItemsFinite
  <2>4. HandleOpen'
    BY <1>2, <2>1 DEF HandleOpen
  <2>5. \* The rest of the invariant, from what has become of the answer.
        ASSUME IsFiniteSet(listed'), Cardinality(listed') <= MaxList, total' \in Nat,
               Cardinality(listed') <= total', more' => Cardinality(listed') = MaxList,
               more' \in BOOLEAN, listed' \subseteq R!Objects \X Items,
               total' >= Cardinality(LookedAt'),
               more' \/ ({handle} \X LookedAt') \subseteq listed',
               \A e \in listed' : e[1] = handle /\ R!Visible(e[2])
        PROVE  ReadInductive'
    <3>1. R!TypeOK'
      BY <1>2, <2>1, <2>5 DEF R!TypeOK
    <3>2. ListGrows' /\ R!ListTrue'
      BY <2>1, <2>2, <2>5, SameSizes DEF ListGrows, R!ListTrue
    <3> QED
      BY <1>6, <2>1, <2>4, <3>1, <3>2
  <2>6. LookedAt' \subseteq LookedAt \cup {i} /\ (i \in LookedAt' => R!Visible(i) /\ i \in steady)
    BY <2>1 DEF LookedAt
  <2>7. CASE ~R!Visible(i)
    <3>1. UNCHANGED <<total, more, listed>>
      BY <1>18, <2>7 DEF R!Item, R!ListIn
    <3>2. LookedAt' = LookedAt
      BY <2>1, <2>7 DEF LookedAt
    <3> QED
      BY <1>2, <2>2, <2>5, <3>1, <3>2 DEF R!TypeOK
  <2>8. CASE R!Visible(i)
    <3>1. /\ total' = total + 1
          /\ IF Cardinality(listed) >= MaxList
             THEN more' = TRUE /\ UNCHANGED listed
             ELSE /\ UNCHANGED more
                  /\ listed' = IF i \in present[handle] THEN listed \cup {<<handle, i>>} ELSE listed
      BY <1>18, <2>8, SameSizes DEF R!Item, R!ListIn
    <3>2. Cardinality(LookedAt') <= Cardinality(LookedAt) + 1 /\ Cardinality(LookedAt') \in Nat
      <4>1. /\ LookedAt' \in SUBSET (LookedAt \cup {i}) /\ LookedAt \cup {i} \in SUBSET Items
        BY <1>7, <2>6
      <4>2. Cardinality(LookedAt \cup {i}) <= Cardinality(LookedAt) + 1
        BY <1>7, ItemsFinite
      <4>3. /\ Cardinality(LookedAt') <= Cardinality(LookedAt \cup {i})
            /\ Cardinality(LookedAt') \in Nat /\ Cardinality(LookedAt \cup {i}) \in Nat
        BY <4>1, ItemsFinite
      <4> QED
        BY <2>3, <4>2, <4>3
    <3>3. CASE Cardinality(listed) >= MaxList
      BY <1>1, <1>2, <2>2, <2>3, <2>5, <3>1, <3>2, <3>3 DEF R!TypeOK
    <3>4. CASE ~(Cardinality(listed) >= MaxList)
      <4>1. ~more /\ more' = more /\ Cardinality(listed) < MaxList
        BY <1>1, <2>2, <3>1, <3>4
      <4>2. /\ IsFiniteSet(listed') /\ Cardinality(listed') \in Nat
            /\ Cardinality(listed') <= Cardinality(listed) + 1
        <5>1. /\ IsFiniteSet(listed \cup {<<handle, i>>})
              /\ Cardinality(listed \cup {<<handle, i>>}) =
                    IF <<handle, i>> \in listed THEN Cardinality(listed) ELSE Cardinality(listed) + 1
          BY <2>2, FS_AddElement
        <5>2. listed' \in {listed, listed \cup {<<handle, i>>}}
          BY <3>1, <3>4
        <5>3. CASE listed' = listed
          BY <2>2, <5>3
        <5>4. CASE listed' = listed \cup {<<handle, i>>}
          <6>1. Cardinality(listed') \in {Cardinality(listed), Cardinality(listed) + 1}
            BY <5>1, <5>4
          <6> QED
            BY <2>2, <5>1, <5>4, <6>1
        <5> QED
          BY <5>2, <5>3, <5>4
      <4>3. ({handle} \X LookedAt') \subseteq listed'
        BY <2>2, <2>6, <3>1, <3>4, <4>1
      <4>4. listed' \subseteq R!Objects \X Items /\ \A e \in listed' : e[1] = handle /\ R!Visible(e[2])
        BY <1>2, <2>1, <2>2, <2>8, <3>1, <3>4 DEF R!TypeOK
      <4> QED
        <5>1. Cardinality(listed') <= MaxList /\ Cardinality(listed') <= total'
          BY <1>1, <2>2, <3>1, <4>1, <4>2
        <5>2. total' \in Nat /\ total' >= Cardinality(LookedAt')
          BY <2>2, <2>3, <3>1, <3>2
        <5>3. ~more' /\ more' \in BOOLEAN
          BY <1>2, <4>1 DEF R!TypeOK
        <5> QED
          BY <2>5, <4>2, <4>3, <4>4, <5>1, <5>2, <5>3
    <3> QED
      BY <3>3, <3>4
  <2> QED
    BY <2>7, <2>8
<1> QED
  BY <1>9, <1>10, <1>11, <1>12, <1>13, <1>14, <1>15, <1>16, <1>17, <1>18
     DEF R!Next, R!Others, R!Operation

-----------------------------------------------------------------------------
(* The file manager: its invariant says which uploads the frames in the inbox *)
(* begin, continue and complete, so the proof is about sequences of frames,    *)
(* without their first (Tail) and with one more (Append).                      *)

\* The frames that the dashboard sends, and those that it is sent.
Asked ==
    {F!KeepAlive} \cup [kind: {"list", "download", "other"}, of: F!Commands, size: {0}]
    \cup [kind: {"upload"}, of: F!Commands, size: 0 .. MaxSize]
    \cup [kind: {"data"}, of: F!Commands, size: 1 .. MaxSize]

Told ==
    {F!KeepAlive} \cup [kind: {"header"}, of: F!Commands, size: 1 .. MaxSize]
    \cup [kind: {"chunk"}, of: F!Commands, size: {1}]
    \cup [kind: {"answer"}, of: F!Commands, size: {0}]

Uploads == [of: F!Commands, left: 1 .. MaxSize] \cup {F!Nothing}

FramesTyped ==
    /\ inbox \in Seq(Asked) /\ outbox \in Seq(Told) /\ unsent \in Seq(Told)
    /\ \A d \in downloads : d.out \in Seq(Told) /\ Len(d.out) <= 1
    /\ upload \in Uploads /\ sending \in Uploads /\ sending.of <= issued
    /\ ending = "broken" => inbox = <<>>

\* A frame takes the upload that is under way from one stage to the next.
Leads(was, f, next) ==
    /\ f.kind = "empty" => next = was
    /\ f.kind = "data" =>
          /\ was # F!Nothing /\ f.of = was.of
          /\ next = IF f.size >= was.left THEN F!Nothing
                    ELSE [of |-> was.of, left |-> was.left - f.size]
    /\ f.kind = "upload" =>
          /\ was = F!Nothing
          /\ next = IF f.size > 0 THEN [of |-> f.of, left |-> f.size] ELSE F!Nothing
    /\ f.kind \notin {"empty", "data", "upload"} => was = F!Nothing /\ next = F!Nothing

\* stage[i] is what is under way before frame i, and the last of them after
\* all frames.
Stages(frames, last) ==
    {stage \in [1 .. Len(frames) + 1 -> Uploads] :
        /\ stage[Len(frames) + 1] = last
        /\ \A i \in 1 .. Len(frames) : Leads(stage[i], frames[i], stage[i + 1])}

\* The frames from the i-th on have so many units of data for the upload that
\* is under way before it, up to the frame that completes it, or to the last.
Brings(frames, stage, i, units) ==
    LET u == stage[i].of
        n == Len(frames) IN
    \E k \in i .. n + 1 :
        /\ \A j \in i .. k : stage[j].of = u
        /\ units = stage[i].left - stage[k].left + (IF k <= n THEN frames[k].size ELSE 0)
        /\ k <= n => /\ frames[k].kind = "data" /\ frames[k].size >= stage[k].left
                     /\ stage[n + 1].of # u

\* Each upload has a number of its own, no greater than the last one issued.
OwnNumbers(frames, first, last) ==
    /\ first.of <= last
    /\ \A i \in 1 .. Len(frames) :
          frames[i].kind = "upload" =>
              /\ frames[i].of <= last /\ frames[i].of # first.of
              /\ \A j \in 1 .. i - 1 : frames[j].kind = "upload" => frames[j].of # frames[i].of

\* What the target of an upload lacks is among these frames, unless the disk
\* refused some of it.
Lacks(frames, stage, last, units, bad) ==
    /\ stage[1] # F!Nothing /\ stage[1].of \notin bad =>
          Brings(frames, stage, 1, units[stage[1].of])
    /\ \A i \in 1 .. Len(frames) :
          frames[i].kind = "upload" =>
              /\ frames[i].of \notin bad
              /\ IF frames[i].size > 0
                 THEN Brings(frames, stage, i + 1, units[frames[i].of])
                 ELSE units[frames[i].of] = 0 /\ stage[Len(frames) + 1].of # frames[i].of
    /\ \A u \in F!Commands : u > last => units[u] = 0 /\ u \notin bad

\* The frames in the inbox lead from the agent's upload to the one that the
\* dashboard is sending; or else the agent has told of a failure, and the
\* dashboard goes on sending data for which there is no upload.
Followed(frames, stage) ==
    IF stage[1] = upload
    THEN /\ OwnNumbers(frames, stage[1], issued)
         /\ Lacks(frames, stage, issued, lacking, refused)
    ELSE upload = F!Nothing /\ failed

UploadsFollowed ==
    ending # "broken" /\ ~misread =>
        \E stage \in Stages(inbox, sending) : Followed(inbox, stage)

\* Empty frames are nobody's.
Silent(frames) == \A i \in 1 .. Len(frames) : frames[i].kind = "empty"

\* The commands that have an answer.
Answerable(f) == f.kind \in {"list", "download", "upload"}

\* A download that has sent its file sends no more, if the file has kept its
\* size.
Spent(d) == d.step = "read" /\ d.left = 0
AllSpent == \A d \in downloads : Spent(d)

\* The dashboard has received nothing of the answer that it waits for, and
\* nothing is on its way to it.
Unanswered == parser = F!Nothing /\ Silent(outbox)

\* A frame takes the dashboard from what it expects to what it expects then.
Parses(was, f, next) ==
    /\ f.kind = "empty" => next = was
    /\ f.kind = "header" => was = F!Nothing /\ next = [of |-> f.of, left |-> f.size]
    /\ f.kind = "chunk" =>
          /\ was # F!Nothing /\ f.of = was.of
          /\ next = IF was.left > 1 THEN [of |-> was.of, left |-> was.left - 1]
                    ELSE F!Nothing
    /\ f.kind = "answer" => (was = F!Nothing \/ f.of = was.of) /\ next = F!Nothing

\* view[i] is what it expects before frame i, and the last of them after all
\* frames.
Views(frames, first) ==
    {view \in [1 .. Len(frames) + 1 -> Uploads] :
        /\ view[1] = first
        /\ \A i \in 1 .. Len(frames) : Parses(view[i], frames[i], view[i + 1])}

\* A download that is not spent goes on where the frames end.
Continues(d, last) ==
    /\ d.left >= 0
    /\ d.step = "open" => Unanswered
    /\ d.step = "send" =>
          \/ d.out = <<F!Frame("header", d.of, d.left)>> /\ Unanswered /\ d.left > 0
          \/ d.out = <<F!Frame("chunk", d.of, 1)>> /\ last = [of |-> d.of, left |-> d.left + 1]
    /\ d.step = "read" => last = [of |-> d.of, left |-> d.left]
    /\ d.step = "failing" =>
          /\ d.out = <<F!Frame("answer", d.of, 0)>>
          /\ Unanswered \/ (last # F!Nothing /\ last.of = d.of)

\* The dashboard reads what it expects, of the command it waits for; what
\* completes an answer is the last of it.
FramesAwaited ==
    /\ \A i \in 1 .. Len(outbox) : outbox[i].kind # "empty" => outbox[i].of \in waiting
    /\ parser # F!Nothing => parser.of \in waiting

Completes(f, next) == f.kind = "answer" \/ (f.kind = "chunk" /\ next = F!Nothing)

CompleteLast(view) ==
    \A i \in 1 .. Len(outbox) :
        Completes(outbox[i], view[i + 1]) =>
            AllSpent /\ \A j \in i + 1 .. Len(outbox) : outbox[j].kind = "empty"

\* One command waits for its answer, and one part of the agent has it: the
\* inbox, the upload, the frame to be sent or a download.
OneWaits == \A a, b \in waiting : a = b

NotBegun == Unanswered /\ AllSpent

AskedOnce ==
    \A i \in 1 .. Len(inbox) :
        Answerable(inbox[i]) =>
            /\ inbox[i].of \in waiting /\ NotBegun /\ Silent(unsent) /\ upload = F!Nothing
            /\ \A j \in 1 .. Len(inbox) : Answerable(inbox[j]) => j = i

UploadAwaited == upload # F!Nothing => upload.of \in waiting /\ NotBegun /\ Silent(unsent)

AnswerAwaited ==
    ~Silent(unsent) => NotBegun /\ \E u \in waiting : unsent = <<F!Frame("answer", u, 0)>>

DownloadsAwaited(last) ==
    \A d \in downloads :
        ~Spent(d) =>
            /\ d.of \in waiting /\ Continues(d, last)
            /\ \A e \in downloads : ~Spent(e) => e = d

Apart(view) ==
    /\ OneWaits /\ AskedOnce /\ UploadAwaited /\ AnswerAwaited /\ FramesAwaited
    /\ CompleteLast(view) /\ DownloadsAwaited(view[Len(outbox) + 1])

TransfersKnown ==
    /\ ~garbled
    /\ cut => outbox = <<>>
    /\ loop = "done" => downloads = {}
    /\ clear /\ ~cut => \E view \in Views(outbox, parser) : Apart(view)

ManagerInductive == F!UploadsTrue /\ FramesTyped /\ UploadsFollowed /\ TransfersKnown

\* What the frames and the stages of an upload are made of.
LEMMA AskedFields ==
    ASSUME NEW f \in Asked
    PROVE  /\ f.of \in Nat /\ f.size \in Nat
           /\ f.kind \in {"upload", "data", "list", "download", "other"} => f.of \in F!Commands
           /\ f.kind = "data" => f.size >= 1
           /\ f.kind \in {"empty", "upload", "data", "list", "download", "other"}
           /\ f.kind = "empty" <=> f = F!KeepAlive
           /\ f.kind \in {"upload", "data"} => f.size <= MaxSize
<1>1. MaxSize \in Nat /\ MaxCommands \in Nat
  BY TaskRunAssumption DEF F!FileManagerAssumption
<1> QED
  BY <1>1 DEF Asked, F!KeepAlive, F!Frame, F!None, F!Commands

\* An upload that is under way has a number and units left.
LEMMA UploadFields ==
    ASSUME NEW w \in Uploads
    PROVE  /\ w.of \in Nat /\ w.left \in Nat
           /\ w # F!Nothing => w.of \in F!Commands /\ w.left \in 1 .. MaxSize
           /\ w = F!Nothing <=> w.of = 0
<1>1. MaxSize \in Nat /\ MaxCommands \in Nat
  BY TaskRunAssumption DEF F!FileManagerAssumption
<1> QED
  BY <1>1 DEF Uploads, F!Nothing, F!None, F!Commands

\* What is under way when nothing is.
LEMMA NothingOf == F!Nothing.of = 0 /\ F!Nothing.left = 0 /\ F!Nothing \in Uploads
  BY DEF F!Nothing, F!None, Uploads

\* Stages are uploads, and each frame leads from one to the next.
LEMMA StageFields ==
    ASSUME NEW q \in Seq(Asked), NEW last \in Uploads, NEW stage \in Stages(q, last)
    PROVE  /\ Len(q) \in Nat
           /\ stage \in [1 .. Len(q) + 1 -> Uploads]
           /\ stage[Len(q) + 1] = last
           /\ \A i \in 1 .. Len(q) : Leads(stage[i], q[i], stage[i + 1]) /\ q[i] \in Asked
           /\ \A i \in 1 .. Len(q) + 1 : stage[i] \in Uploads
<1>1. Len(q) \in Nat /\ \A i \in 1 .. Len(q) : q[i] \in Asked
  BY LenProperties, ElementOfSeq
<1> QED
  BY <1>1 DEF Stages

\* The stages before all frames but the first.
After(q, stage) == [i \in 1 .. Len(q) |-> stage[i + 1]]

\* Without the first frame the stages lead on as they did.
LEMMA StagesTail ==
    ASSUME NEW q \in Seq(Asked), q # <<>>, NEW last \in Uploads,
           NEW stage \in Stages(q, last)
    PROVE  /\ Tail(q) \in Seq(Asked) /\ Len(Tail(q)) = Len(q) - 1
           /\ Len(q) \in Nat \ {0} /\ Head(q) = q[1] /\ Head(q) \in Asked
           /\ \A i \in 1 .. Len(Tail(q)) : Tail(q)[i] = q[i + 1]
           /\ After(q, stage) \in Stages(Tail(q), last)
           /\ \A i \in 1 .. Len(q) : After(q, stage)[i] = stage[i + 1]
           /\ Leads(stage[1], Head(q), stage[2])
           /\ stage[1] \in Uploads /\ stage[2] \in Uploads
<1>1. /\ Head(q) \in Asked /\ Tail(q) \in Seq(Asked) /\ Len(Tail(q)) = Len(q) - 1
      /\ Len(q) \in Nat \ {0} /\ Head(q) = q[1]
      /\ \A i \in 1 .. Len(Tail(q)) : Tail(q)[i] = q[i + 1]
  BY HeadTailProperties, EmptySeq
<1>2. /\ stage[Len(q) + 1] = last
      /\ \A i \in 1 .. Len(q) : Leads(stage[i], q[i], stage[i + 1])
      /\ \A i \in 1 .. Len(q) + 1 : stage[i] \in Uploads
  BY StageFields
<1>3. Leads(stage[1], Head(q), stage[2]) /\ stage[1] \in Uploads /\ stage[2] \in Uploads
  <2>1. 1 \in 1 .. Len(q) /\ 1 \in 1 .. Len(q) + 1 /\ 2 \in 1 .. Len(q) + 1 /\ 1 + 1 = 2
    BY <1>1
  <2> QED
    BY <1>1, <1>2, <2>1
<1>4. \A i \in 1 .. Len(q) : After(q, stage)[i] = stage[i + 1] /\ stage[i + 1] \in Uploads
  BY <1>1, <1>2 DEF After
<1>5. After(q, stage) \in [1 .. Len(Tail(q)) + 1 -> Uploads]
  BY <1>1, <1>4 DEF After
<1>6. After(q, stage)[Len(Tail(q)) + 1] = last
  BY <1>1, <1>2, <1>4
<1>7. ASSUME NEW i \in 1 .. Len(Tail(q))
      PROVE  Leads(After(q, stage)[i], Tail(q)[i], After(q, stage)[i + 1])
  <2>1. i \in 1 .. Len(q) /\ i + 1 \in 1 .. Len(q)
    BY <1>1
  <2>2. Leads(stage[i + 1], q[i + 1], stage[(i + 1) + 1])
    BY <1>2, <2>1
  <2>3. /\ After(q, stage)[i] = stage[i + 1] /\ After(q, stage)[i + 1] = stage[(i + 1) + 1]
        /\ Tail(q)[i] = q[i + 1]
    BY <1>1, <1>4, <2>1
  <2> QED
    BY <2>2, <2>3
<1>8. After(q, stage) \in Stages(Tail(q), last)
  BY <1>5, <1>6, <1>7 DEF Stages
<1> QED
  BY <1>1, <1>3, <1>4, <1>8

\* What the frames bring from a later stage on does not depend on the first.
LEMMA BringsLater ==
    ASSUME NEW q \in Seq(Asked), q # <<>>, NEW last \in Uploads,
           NEW stage \in Stages(q, last),
           NEW i \in 1 .. Len(q), NEW units, Brings(q, stage, i + 1, units)
    PROVE  Brings(Tail(q), After(q, stage), i, units)
<1>1. /\ Len(Tail(q)) = Len(q) - 1 /\ Len(q) \in Nat
      /\ \A j \in 1 .. Len(Tail(q)) : Tail(q)[j] = q[j + 1]
      /\ \A j \in 1 .. Len(q) : After(q, stage)[j] = stage[j + 1]
  BY StagesTail
<1>2. PICK k \in i + 1 .. Len(q) + 1 :
        /\ \A j \in i + 1 .. k : stage[j].of = stage[i + 1].of
        /\ units = stage[i + 1].left - stage[k].left
                    + (IF k <= Len(q) THEN q[k].size ELSE 0)
        /\ k <= Len(q) => /\ q[k].kind = "data" /\ q[k].size >= stage[k].left
                          /\ stage[Len(q) + 1].of # stage[i + 1].of
  BY DEF Brings
<1>3. k - 1 \in i .. Len(Tail(q)) + 1 /\ k - 1 \in 1 .. Len(q) /\ (k - 1) + 1 = k
  BY <1>1, <1>2
<1>4. /\ After(q, stage)[i] = stage[i + 1] /\ After(q, stage)[k - 1] = stage[k]
      /\ After(q, stage)[Len(Tail(q)) + 1] = stage[Len(q) + 1]
  BY <1>1, <1>3
<1>5. \A j \in i .. k - 1 : After(q, stage)[j].of = stage[i + 1].of
  <2> SUFFICES ASSUME NEW j \in i .. k - 1 PROVE After(q, stage)[j].of = stage[i + 1].of
    OBVIOUS
  <2>1. j \in 1 .. Len(q) /\ j + 1 \in i + 1 .. k
    BY <1>2, <1>3
  <2> QED
    BY <1>1, <1>2, <2>1
<1>6. /\ k - 1 <= Len(Tail(q)) <=> k <= Len(q)
      /\ k <= Len(q) => Tail(q)[k - 1] = q[k]
  <2>1. k - 1 <= Len(Tail(q)) <=> k <= Len(q)
    BY <1>1, <1>2
  <2>2. k <= Len(q) => k - 1 \in 1 .. Len(Tail(q))
    BY <1>1, <1>3
  <2> QED
    BY <1>1, <1>3, <2>1, <2>2
<1>7. units = After(q, stage)[i].left - After(q, stage)[k - 1].left
               + (IF k - 1 <= Len(Tail(q)) THEN Tail(q)[k - 1].size ELSE 0)
  BY <1>2, <1>4, <1>6
<1>8. k - 1 <= Len(Tail(q)) =>
         /\ Tail(q)[k - 1].kind = "data" /\ Tail(q)[k - 1].size >= After(q, stage)[k - 1].left
         /\ After(q, stage)[Len(Tail(q)) + 1].of # After(q, stage)[i].of
  BY <1>2, <1>4, <1>6
<1> QED
  BY <1>3, <1>4, <1>5, <1>7, <1>8 DEF Brings

\* The first frame completes what is under way, or does nothing to it, or
\* brings a part.
LEMMA BringsNow ==
    ASSUME NEW q \in Seq(Asked), q # <<>>, NEW last \in Uploads,
           NEW stage \in Stages(q, last), stage[1] # F!Nothing,
           NEW units, Brings(q, stage, 1, units)
    PROVE  /\ Head(q).kind = "empty" => Brings(Tail(q), After(q, stage), 1, units)
           /\ Head(q).kind = "data" =>
                 IF Head(q).size >= stage[1].left THEN units = Head(q).size
                 ELSE Brings(Tail(q), After(q, stage), 1, units - Head(q).size)
<1>1. /\ Len(Tail(q)) = Len(q) - 1 /\ Len(q) \in Nat \ {0}
      /\ Head(q) = q[1] /\ Head(q) \in Asked
      /\ Leads(stage[1], Head(q), stage[2])
      /\ stage[1] \in Uploads /\ stage[2] \in Uploads
  BY StagesTail
<1>2. /\ stage[1].of \in Nat \ {0} /\ stage[1].left \in Nat /\ stage[2].left \in Nat
      /\ Head(q).size \in Nat
  BY <1>1, UploadFields, AskedFields
<1>3. PICK k \in 1 .. Len(q) + 1 :
        /\ \A j \in 1 .. k : stage[j].of = stage[1].of
        /\ units = stage[1].left - stage[k].left + (IF k <= Len(q) THEN q[k].size ELSE 0)
        /\ k <= Len(q) => /\ q[k].kind = "data" /\ q[k].size >= stage[k].left
                          /\ stage[Len(q) + 1].of # stage[1].of
  BY DEF Brings
<1>4. stage[k] \in Uploads /\ stage[k].left \in Nat /\ k \in Nat /\ 2 \in 1 .. Len(q) + 1
  BY <1>1, <1>3, StageFields, UploadFields
<1>5. k <= Len(q) => q[k].size \in Nat
  BY <1>1, <1>3, <1>4, StageFields, AskedFields
<1>6. units \in Int
  <2>1. (IF k <= Len(q) THEN q[k].size ELSE 0) \in Int
    BY <1>5
  <2> QED
    BY <1>2, <1>3, <1>4, <2>1
<1>7. k = 1 => Head(q).kind = "data" /\ Head(q).size >= stage[1].left /\ units = Head(q).size
  BY <1>1, <1>2, <1>3
<1>8. ASSUME k # 1
      PROVE  /\ stage[2].of = stage[1].of
             /\ Brings(q, stage, 2, units - stage[1].left + stage[2].left)
  <2>1. k \in 2 .. Len(q) + 1 /\ 2 \in 1 .. k
    BY <1>1, <1>3, <1>8
  <2>2. stage[2].of = stage[1].of /\ \A j \in 2 .. k : stage[j].of = stage[2].of
    BY <1>3, <2>1
  <2>3. units - stage[1].left + stage[2].left =
           stage[2].left - stage[k].left + (IF k <= Len(q) THEN q[k].size ELSE 0)
    <3> DEFINE extra == IF k <= Len(q) THEN q[k].size ELSE 0
    <3>1. extra \in Int
      BY <1>5
    <3>2. units = stage[1].left - stage[k].left + extra
      BY <1>3
    <3> HIDE DEF extra
    <3>3. ASSUME NEW a \in Int, NEW b \in Int, NEW c \in Int, NEW e \in Int, units = a - b + e
          PROVE  units - a + c = c - b + e
      BY <3>3
    <3>4. stage[1].left \in Int /\ stage[2].left \in Int /\ stage[k].left \in Int
      BY <1>2, <1>4
    <3>5. units - stage[1].left + stage[2].left = stage[2].left - stage[k].left + extra
      BY <3>1, <3>2, <3>3, <3>4
    <3> QED
      BY <3>5 DEF extra
  <2>4. k <= Len(q) => /\ q[k].kind = "data" /\ q[k].size >= stage[k].left
                       /\ stage[Len(q) + 1].of # stage[2].of
    BY <1>3, <2>2
  <2> QED
    BY <2>1, <2>2, <2>3, <2>4 DEF Brings
<1>9. k # 1 => Brings(Tail(q), After(q, stage), 1, units - stage[1].left + stage[2].left)
  <2>1. 1 \in 1 .. Len(q) /\ 1 + 1 = 2
    BY <1>1
  <2> QED
    BY <1>8, <2>1, BringsLater
<1>10. ASSUME Head(q).kind = "empty" PROVE Brings(Tail(q), After(q, stage), 1, units)
  <2>1. k # 1 /\ stage[2] = stage[1]
    BY <1>1, <1>7, <1>10 DEF Leads
  <2>2. units - stage[1].left + stage[2].left = units
    BY <1>2, <1>6, <2>1
  <2> QED
    BY <1>9, <2>1, <2>2
<1>11. ASSUME Head(q).kind = "data", Head(q).size >= stage[1].left PROVE units = Head(q).size
  <2>1. stage[2] = F!Nothing
    BY <1>1, <1>11 DEF Leads
  <2>2. k = 1
    BY <1>2, <1>8, <2>1, NothingOf
  <2> QED
    BY <1>7, <2>2
<1>12. ASSUME Head(q).kind = "data", ~(Head(q).size >= stage[1].left)
       PROVE Brings(Tail(q), After(q, stage), 1, units - Head(q).size)
  <2>1. stage[2].left = stage[1].left - Head(q).size
    BY <1>1, <1>12 DEF Leads
  <2>2. k # 1
    BY <1>7, <1>12
  <2>3. units - stage[1].left + stage[2].left = units - Head(q).size
    BY <1>2, <1>6, <2>1
  <2> QED
    BY <1>9, <2>2, <2>3
<1> QED
  BY <1>10, <1>11, <1>12

\* Frame f, when it is taken, may change what is said of its upload and of
\* the one under way, and of no other.
LEMMA TakenKeeps ==
    ASSUME NEW q \in Seq(Asked), q # <<>>, NEW last \in Uploads,
           NEW stage \in Stages(q, last), NEW most \in Nat,
           NEW units, NEW bad, NEW newUnits, NEW newBad,
           OwnNumbers(q, stage[1], most), Lacks(q, stage, most, units, bad),
           \A u \in F!Commands :
              /\ u # stage[1].of
              /\ ~(Head(q).kind = "upload" /\ Head(q).of = u)
              => newUnits[u] = units[u] /\ (u \in newBad <=> u \in bad),
           stage[2] # F!Nothing /\ stage[2].of \notin newBad =>
              Brings(Tail(q), After(q, stage), 1, newUnits[stage[2].of])
    PROVE  /\ OwnNumbers(Tail(q), stage[2], most)
           /\ Lacks(Tail(q), After(q, stage), most, newUnits, newBad)
<1> DEFINE f == Head(q)
           r == Tail(q)
           next == After(q, stage)
<1>1. /\ r \in Seq(Asked) /\ Len(r) = Len(q) - 1 /\ Len(q) \in Nat \ {0}
      /\ f = q[1] /\ f \in Asked
      /\ \A i \in 1 .. Len(r) : r[i] = q[i + 1]
      /\ \A i \in 1 .. Len(q) : next[i] = stage[i + 1]
      /\ Leads(stage[1], f, stage[2])
      /\ stage[1] \in Uploads /\ stage[2] \in Uploads
  BY StagesTail
<1>2. /\ stage[1].of <= most
      /\ \A i \in 1 .. Len(q) :
            q[i].kind = "upload" =>
                /\ q[i].of <= most /\ q[i].of # stage[1].of
                /\ \A j \in 1 .. i - 1 : q[j].kind = "upload" => q[j].of # q[i].of
  BY DEF OwnNumbers
<1>3. \A i \in 1 .. Len(q) :
         q[i].kind = "upload" =>
             /\ q[i].of \notin bad
             /\ IF q[i].size > 0
                THEN Brings(q, stage, i + 1, units[q[i].of])
                ELSE units[q[i].of] = 0 /\ stage[Len(q) + 1].of # q[i].of
  BY DEF Lacks
<1>4. \A u \in F!Commands : u > most => units[u] = 0 /\ u \notin bad
  BY DEF Lacks
<1>5. stage[1].of \in Nat /\ stage[2].of \in Nat /\ f.of \in Nat
  BY <1>1, AskedFields, UploadFields
<1>6. stage[2].of = stage[1].of \/ stage[2].of = 0 \/ (f.kind = "upload" /\ stage[2].of = f.of)
  <2>1. CASE f.kind = "empty"
    BY <1>1, <2>1 DEF Leads
  <2>2. CASE f.kind = "data"
    BY <1>1, <2>2, NothingOf DEF Leads
  <2>3. CASE f.kind = "upload"
    BY <1>1, <2>3, NothingOf DEF Leads
  <2>4. CASE f.kind \notin {"empty", "data", "upload"}
    BY <1>1, <2>4, NothingOf DEF Leads
  <2> QED
    BY <2>1, <2>2, <2>3, <2>4
<1>7. 1 \in 1 .. Len(q)
  BY <1>1
<1>8. f.kind = "upload" => f.of <= most /\ f.of # stage[1].of
  BY <1>1, <1>2, <1>7
<1>9. stage[2].of <= most
  <2>1. most >= 0
    OBVIOUS
  <2> QED
    BY <1>2, <1>5, <1>6, <1>8, <2>1
<1>10. ASSUME NEW i \in 1 .. Len(r), r[i].kind = "upload"
       PROVE  /\ i + 1 \in 1 .. Len(q) /\ r[i] = q[i + 1] /\ q[i + 1].kind = "upload"
              /\ r[i] \in Asked /\ r[i].of \in F!Commands /\ r[i].of \in Nat \ {0}
              /\ r[i].of <= most /\ r[i].of # stage[1].of /\ r[i].of # stage[2].of
              /\ f.kind = "upload" => f.of # r[i].of
  <2>1. i + 1 \in 1 .. Len(q) /\ r[i] = q[i + 1] /\ 1 \in 1 .. (i + 1) - 1
    BY <1>1
  <2>2. r[i] \in Asked
    BY <2>1, StageFields
  <2>3. r[i].of \in F!Commands /\ r[i].of \in Nat \ {0}
    BY <1>10, <2>2, AskedFields DEF F!Commands
  <2>4. r[i].of <= most /\ r[i].of # stage[1].of /\ (f.kind = "upload" => f.of # r[i].of)
    BY <1>1, <1>2, <1>10, <2>1
  <2>5. r[i].of # stage[2].of
    BY <1>6, <2>3, <2>4
  <2> QED
    BY <1>10, <2>1, <2>2, <2>3, <2>4, <2>5
<1>11. OwnNumbers(r, stage[2], most)
  <2>1. ASSUME NEW i \in 1 .. Len(r), r[i].kind = "upload",
               NEW j \in 1 .. i - 1, r[j].kind = "upload"
        PROVE  r[j].of # r[i].of
    <3>1. /\ i + 1 \in 1 .. Len(q) /\ j + 1 \in 1 .. (i + 1) - 1
          /\ r[i] = q[i + 1] /\ r[j] = q[j + 1]
      BY <1>1, <2>1
    <3> QED
      BY <1>2, <2>1, <3>1
  <2> QED
    BY <1>9, <1>10, <2>1 DEF OwnNumbers
<1>12. ASSUME NEW i \in 1 .. Len(r), r[i].kind = "upload"
       PROVE  /\ r[i].of \notin newBad
              /\ IF r[i].size > 0
                 THEN Brings(r, next, i + 1, newUnits[r[i].of])
                 ELSE newUnits[r[i].of] = 0 /\ next[Len(r) + 1].of # r[i].of
  <2>1. newUnits[r[i].of] = units[r[i].of] /\ (r[i].of \in newBad <=> r[i].of \in bad)
    BY <1>10, <1>12
  <2>2. /\ r[i].of \notin bad
        /\ IF r[i].size > 0
           THEN Brings(q, stage, (i + 1) + 1, units[r[i].of])
           ELSE units[r[i].of] = 0 /\ stage[Len(q) + 1].of # r[i].of
    BY <1>3, <1>10, <1>12
  <2>3. next[Len(r) + 1] = stage[Len(q) + 1]
    BY <1>1
  <2>4. r[i].size > 0 => Brings(r, next, i + 1, units[r[i].of])
    <3>1. i + 1 \in 1 .. Len(q)
      BY <1>10, <1>12
    <3> QED
      BY <2>2, <3>1, BringsLater
  <2> QED
    BY <2>1, <2>2, <2>3, <2>4
<1>13. ASSUME NEW u \in F!Commands, u > most PROVE newUnits[u] = 0 /\ u \notin newBad
  <2>1. u # stage[1].of /\ (f.kind = "upload" => f.of # u)
    BY <1>2, <1>5, <1>8, <1>13 DEF F!Commands
  <2> QED
    BY <1>4, <1>13, <2>1
<1>14. next[1] = stage[2]
  BY <1>1, <1>7
<1>15. Lacks(r, next, most, newUnits, newBad)
  BY <1>12, <1>13, <1>14 DEF Lacks
<1> QED
  BY <1>11, <1>15

\* The stages before and after one more frame.
With(q, stage, new) == [i \in 1 .. Len(q) + 2 |-> IF i <= Len(q) + 1 THEN stage[i] ELSE new]

\* One more frame leads to one more stage.
LEMMA StagesAppend ==
    ASSUME NEW q \in Seq(Asked), NEW last \in Uploads, NEW stage \in Stages(q, last),
           NEW f \in Asked, NEW new \in Uploads, Leads(last, f, new)
    PROVE  /\ Append(q, f) \in Seq(Asked) /\ Len(Append(q, f)) = Len(q) + 1
           /\ \A i \in 1 .. Len(q) : Append(q, f)[i] = q[i]
           /\ Append(q, f)[Len(q) + 1] = f
           /\ With(q, stage, new) \in Stages(Append(q, f), new)
           /\ \A i \in 1 .. Len(q) + 1 : With(q, stage, new)[i] = stage[i]
           /\ With(q, stage, new)[Len(q) + 2] = new
<1>1. /\ Append(q, f) \in Seq(Asked) /\ Len(Append(q, f)) = Len(q) + 1 /\ Len(q) \in Nat
      /\ \A i \in 1 .. Len(q) : Append(q, f)[i] = q[i]
      /\ Append(q, f)[Len(q) + 1] = f
  BY AppendProperties, LenProperties
<1>2. /\ stage[Len(q) + 1] = last
      /\ \A i \in 1 .. Len(q) : Leads(stage[i], q[i], stage[i + 1])
      /\ \A i \in 1 .. Len(q) + 1 : stage[i] \in Uploads
  BY StageFields
<1>3. /\ \A i \in 1 .. Len(q) + 1 : With(q, stage, new)[i] = stage[i]
      /\ With(q, stage, new)[Len(q) + 2] = new
  BY <1>1 DEF With
<1>4. With(q, stage, new) \in [1 .. Len(Append(q, f)) + 1 -> Uploads]
  <2>1. With(q, stage, new) \in [1 .. Len(q) + 2 -> Uploads]
    BY <1>1, <1>2 DEF With
  <2>2. Len(Append(q, f)) + 1 = Len(q) + 2
    BY <1>1
  <2> QED
    BY <2>1, <2>2
<1>5. ASSUME NEW i \in 1 .. Len(q) + 1
      PROVE  Leads(With(q, stage, new)[i], Append(q, f)[i], With(q, stage, new)[i + 1])
  <2>1. CASE i = Len(q) + 1
    <3>1. i + 1 = Len(q) + 2
      BY <1>1, <2>1
    <3>2. With(q, stage, new)[i] = last /\ With(q, stage, new)[i + 1] = new /\ Append(q, f)[i] = f
      BY <1>1, <1>2, <1>3, <2>1, <3>1
    <3> QED
      BY <3>2
  <2>2. CASE i # Len(q) + 1
    <3>1. i \in 1 .. Len(q) /\ i + 1 \in 1 .. Len(q) + 1
      BY <1>1, <2>2
    <3> QED
      BY <1>1, <1>2, <1>3, <3>1
  <2> QED
    BY <2>1, <2>2
<1>6. With(q, stage, new)[Len(Append(q, f)) + 1] = new
  <2>1. Len(Append(q, f)) + 1 = Len(q) + 2
    BY <1>1
  <2> QED
    BY <1>3, <2>1
<1>7. With(q, stage, new) \in Stages(Append(q, f), new)
  BY <1>1, <1>4, <1>5, <1>6 DEF Stages
<1> QED
  BY <1>1, <1>3, <1>7

\* Data of the upload that the dashboard is sending add to what the frames
\* bring for it; nothing else matters, unless its upload is begun again.
LEMMA BringsMore ==
    ASSUME NEW q \in Seq(Asked), NEW last \in Uploads, NEW stage \in Stages(q, last),
           NEW f \in Asked, NEW new \in Uploads, Leads(last, f, new),
           NEW i \in 1 .. Len(q) + 1, NEW units, Brings(q, stage, i, units),
           stage[i] # F!Nothing,
           f.kind = "upload" => f.of # stage[i].of
    PROVE  Brings(Append(q, f), With(q, stage, new), i,
                    IF f.kind = "data" /\ last.of = stage[i].of THEN units + f.size ELSE units)
<1> DEFINE r == Append(q, f)
           next == With(q, stage, new)
           u == stage[i].of
<1>1. /\ r \in Seq(Asked) /\ Len(r) = Len(q) + 1 /\ Len(q) \in Nat
      /\ \A j \in 1 .. Len(q) : r[j] = q[j]
      /\ r[Len(q) + 1] = f
      /\ \A j \in 1 .. Len(q) + 1 : next[j] = stage[j]
      /\ next[Len(q) + 2] = new
  BY StagesAppend, LenProperties
<1>2. PICK k \in i .. Len(q) + 1 :
        /\ \A j \in i .. k : stage[j].of = stage[i].of
        /\ units = stage[i].left - stage[k].left + (IF k <= Len(q) THEN q[k].size ELSE 0)
        /\ k <= Len(q) => /\ q[k].kind = "data" /\ q[k].size >= stage[k].left
                          /\ stage[Len(q) + 1].of # stage[i].of
  BY DEF Brings
<1>3. /\ stage[i] \in Uploads /\ stage[k] \in Uploads /\ k \in 1 .. Len(q) + 1
      /\ stage[Len(q) + 1] = last
  BY <1>1, <1>2, StageFields
<1>4. /\ stage[i].of \in Nat \ {0} /\ stage[i].left \in Nat /\ stage[k].left \in Nat
      /\ last.of \in Nat /\ last.left \in Nat /\ new.left \in Nat /\ f.size \in Nat
  BY <1>3, UploadFields, AskedFields
<1>5. next[i] = stage[i] /\ next[k] = stage[k] /\ \A j \in i .. k : next[j] = stage[j]
  BY <1>1, <1>2, <1>3
<1>6. last.of # u => new.of # u
  <2>1. CASE f.kind = "empty"
    BY <2>1 DEF Leads
  <2>2. CASE f.kind = "data"
    BY <1>4, <2>2, NothingOf DEF Leads
  <2>3. CASE f.kind = "upload"
    BY <1>4, <2>3, NothingOf DEF Leads
  <2>4. CASE f.kind \notin {"empty", "data", "upload"}
    BY <1>4, <2>4, NothingOf DEF Leads
  <2> QED
    BY <2>1, <2>2, <2>3, <2>4
<1>7. CASE k <= Len(q)
  <2>1. last.of # u /\ new.of # u
    BY <1>2, <1>3, <1>6, <1>7
  <2>2. k \in i .. Len(r) + 1 /\ k <= Len(r) /\ r[k] = q[k]
    BY <1>1, <1>2, <1>3, <1>7
  <2>3. next[Len(r) + 1] = new
    <3>1. Len(r) + 1 = Len(q) + 2
      BY <1>1
    <3> QED
      BY <1>1, <3>1
  <2>4. \A j \in i .. k : next[j].of = next[i].of
    BY <1>2, <1>5
  <2>5. units = next[i].left - next[k].left + (IF k <= Len(r) THEN r[k].size ELSE 0)
    BY <1>2, <1>5, <1>7, <2>2
  <2>6. r[k].kind = "data" /\ r[k].size >= next[k].left /\ next[Len(r) + 1].of # next[i].of
    BY <1>2, <1>5, <1>7, <2>1, <2>2, <2>3
  <2>7. Brings(r, next, i, units)
    BY <2>2, <2>4, <2>5, <2>6 DEF Brings
  <2> QED
    BY <2>1, <2>7
<1>8. CASE ~(k <= Len(q))
  <2>1. k = Len(q) + 1 /\ stage[k] = last /\ last.of = u
    BY <1>1, <1>2, <1>3, <1>8
  <2>2. units = stage[i].left - last.left
    <3>1. units = stage[i].left - stage[k].left + 0
      BY <1>2, <1>8
    <3> QED
      BY <1>4, <2>1, <3>1
  <2>3. \A j \in i .. k : next[j].of = next[i].of
    BY <1>2, <1>5
  <2>4. last # F!Nothing /\ f.kind \in {"empty", "data"}
    BY <1>4, <2>1, NothingOf DEF Leads
  <2>5. k + 1 \in i .. Len(r) + 1 /\ next[k + 1] = new /\ ~(k + 1 <= Len(r))
        /\ k \in i .. Len(r) + 1 /\ k <= Len(r) /\ r[k] = f
    <3>1. k + 1 = Len(q) + 2 /\ k = Len(r)
      BY <1>1, <2>1
    <3> QED
      BY <1>1, <1>2, <2>1, <3>1
  <2>6. ASSUME new.of = u, NEW n, n = stage[i].left - new.left
        PROVE  Brings(r, next, i, n)
    <3>1. \A j \in i .. k + 1 : next[j].of = next[i].of
      <4> SUFFICES ASSUME NEW j \in i .. k + 1 PROVE next[j].of = next[i].of
        OBVIOUS
      <4>1. j \in i .. k \/ j = k + 1
        BY <1>2
      <4> QED
        BY <1>5, <2>3, <2>5, <2>6, <4>1
    <3>2. n = next[i].left - next[k + 1].left + (IF k + 1 <= Len(r) THEN r[k + 1].size ELSE 0)
      <4>1. (IF k + 1 <= Len(r) THEN r[k + 1].size ELSE 0) = 0
        BY <2>5
      <4> QED
        BY <1>4, <1>5, <2>5, <2>6, <4>1
    <3> QED
      BY <2>5, <3>1, <3>2 DEF Brings
  <2>7. CASE f.kind = "empty"
    <3>1. new = last
      BY <2>7 DEF Leads
    <3> QED
      BY <2>1, <2>2, <2>6, <2>7, <3>1
  <2>8. CASE f.kind = "data" /\ f.size >= last.left
    <3>1. new = F!Nothing
      BY <2>8 DEF Leads
    <3>2. next[Len(r) + 1].of # next[i].of
      <4>1. k + 1 = Len(r) + 1
        BY <1>1, <2>1
      <4> QED
        BY <1>4, <1>5, <2>5, <3>1, <4>1, NothingOf
    <3>3. units + f.size = next[i].left - next[k].left + (IF k <= Len(r) THEN r[k].size ELSE 0)
      <4>1. (IF k <= Len(r) THEN r[k].size ELSE 0) = f.size
        BY <2>5
      <4> QED
        BY <1>4, <1>5, <2>1, <2>2, <4>1
    <3>4. r[k].kind = "data" /\ r[k].size >= next[k].left
      BY <1>5, <2>1, <2>5, <2>8
    <3>5. Brings(r, next, i, units + f.size)
      BY <2>3, <2>5, <3>2, <3>3, <3>4 DEF Brings
    <3> QED
      BY <2>1, <2>8, <3>5
  <2>9. CASE f.kind = "data" /\ ~(f.size >= last.left)
    <3>1. new.of = u /\ new.left = last.left - f.size
      BY <2>1, <2>9 DEF Leads
    <3>2. units + f.size = stage[i].left - new.left
      BY <1>4, <2>2, <3>1
    <3>3. Brings(r, next, i, units + f.size)
      BY <2>6, <3>1, <3>2
    <3> QED
      BY <2>1, <2>9, <3>3
  <2> QED
    BY <2>4, <2>7, <2>8, <2>9
<1> QED
  BY <1>7, <1>8

\* What becomes of an upload with a frame.
LEMMA LeadsTo ==
    ASSUME NEW was \in Uploads, NEW f \in Asked, NEW new \in Uploads, Leads(was, f, new)
    PROVE  /\ new.of = was.of \/ new.of = 0 \/ (f.kind = "upload" /\ new.of = f.of)
           /\ f.kind = "upload" /\ f.size > 0 => new.of = f.of /\ new.left = f.size /\ new # F!Nothing
           /\ f.kind = "upload" /\ ~(f.size > 0) => new = F!Nothing
           /\ f.kind = "data" => was # F!Nothing /\ f.of = was.of
           /\ f.kind \notin {"empty", "data"} => was = F!Nothing
<1>1. CASE f.kind = "empty"
  BY <1>1 DEF Leads
<1>2. CASE f.kind = "data"
  BY <1>2, NothingOf DEF Leads
<1>3. CASE f.kind = "upload"
  <2>1. f.of \in Nat \ {0}
    BY <1>3, AskedFields DEF F!Commands
  <2> QED
    BY <1>3, <2>1, NothingOf DEF Leads
<1>4. CASE f.kind \notin {"empty", "data", "upload"}
  BY <1>4, NothingOf DEF Leads
<1> QED
  BY <1>1, <1>2, <1>3, <1>4

\* A frame that the dashboard sends: a command of the next number, or data of
\* its upload.
LEMMA SentKeeps ==
    ASSUME NEW q \in Seq(Asked), NEW last \in Uploads, NEW stage \in Stages(q, last),
           NEW f \in Asked, NEW new \in Uploads, Leads(last, f, new),
           NEW most \in Nat, NEW newMost \in Nat, most <= newMost,
           NEW units \in [F!Commands -> Int], NEW newUnits, NEW bad,
           OwnNumbers(q, stage[1], most), Lacks(q, stage, most, units, bad),
           last.of <= most,
           f.kind = "upload" => most < f.of /\ f.of <= newMost,
           \A u \in F!Commands :
              newUnits[u] = IF f.kind = "data" /\ last.of = u THEN units[u] + f.size ELSE units[u]
    PROVE  /\ OwnNumbers(Append(q, f), stage[1], newMost)
           /\ Lacks(Append(q, f), With(q, stage, new), newMost, newUnits, bad)
<1> DEFINE r == Append(q, f)
           next == With(q, stage, new)
<1>1. /\ r \in Seq(Asked) /\ Len(r) = Len(q) + 1 /\ Len(q) \in Nat
      /\ \A j \in 1 .. Len(q) : r[j] = q[j]
      /\ r[Len(q) + 1] = f
      /\ \A j \in 1 .. Len(q) + 1 : next[j] = stage[j]
      /\ next[Len(q) + 2] = new
  BY StagesAppend, LenProperties
<1>2. /\ stage[1].of <= most
      /\ \A i \in 1 .. Len(q) :
            q[i].kind = "upload" =>
                /\ q[i].of <= most /\ q[i].of # stage[1].of
                /\ \A j \in 1 .. i - 1 : q[j].kind = "upload" => q[j].of # q[i].of
  BY DEF OwnNumbers
<1>3. /\ stage[1] # F!Nothing /\ stage[1].of \notin bad =>
            Brings(q, stage, 1, units[stage[1].of])
      /\ \A i \in 1 .. Len(q) :
            q[i].kind = "upload" =>
               /\ q[i].of \notin bad
               /\ IF q[i].size > 0
                  THEN Brings(q, stage, i + 1, units[q[i].of])
                  ELSE units[q[i].of] = 0 /\ stage[Len(q) + 1].of # q[i].of
      /\ \A u \in F!Commands : u > most => units[u] = 0 /\ u \notin bad
  BY DEF Lacks
<1>4. /\ stage[1] \in Uploads /\ 1 \in 1 .. Len(q) + 1 /\ stage[Len(q) + 1] = last
      /\ \A i \in 1 .. Len(q) : q[i] \in Asked /\ Leads(stage[i], q[i], stage[i + 1])
      /\ \A i \in 1 .. Len(q) + 1 : stage[i] \in Uploads
  BY <1>1, StageFields
<1>5. /\ last.of \in Nat /\ new.of \in Nat /\ f.of \in Nat /\ f.size \in Nat /\ stage[1].of \in Nat
      /\ stage[1] # F!Nothing => stage[1].of \in F!Commands
      /\ f.kind = "upload" => f.of \in F!Commands
  BY <1>4, UploadFields, AskedFields
<1>6. /\ new.of = last.of \/ new.of = 0 \/ (f.kind = "upload" /\ new.of = f.of)
      /\ f.kind = "upload" /\ f.size > 0 => new.of = f.of /\ new.left = f.size /\ new # F!Nothing
      /\ f.kind = "upload" /\ ~(f.size > 0) => new = F!Nothing
  BY LeadsTo
<1>7. ASSUME NEW i \in 1 .. Len(q), q[i].kind = "upload"
      PROVE  /\ q[i].of \in F!Commands /\ q[i].of \in Nat \ {0} /\ q[i].size \in Nat
             /\ q[i].of <= most /\ i + 1 \in 1 .. Len(q) + 1
             /\ q[i].size > 0 => stage[i + 1].of = q[i].of /\ stage[i + 1] # F!Nothing
             /\ f.kind = "upload" => f.of # q[i].of
  <2>1. q[i].of \in F!Commands /\ q[i].of \in Nat \ {0} /\ q[i].size \in Nat
    BY <1>4, <1>7, AskedFields DEF F!Commands
  <2>2. i + 1 \in 1 .. Len(q) + 1 /\ i \in 1 .. Len(q) + 1
    BY <1>1
  <2>3. q[i].size > 0 => stage[i + 1].of = q[i].of /\ stage[i + 1] # F!Nothing
    BY <1>4, <1>7, <2>2, LeadsTo
  <2>4. q[i].of <= most
    BY <1>2, <1>7
  <2> QED
    BY <1>5, <2>1, <2>2, <2>3, <2>4
<1>8. OwnNumbers(r, stage[1], newMost)
  <2>1. ASSUME NEW i \in 1 .. Len(r), r[i].kind = "upload"
        PROVE  /\ r[i].of <= newMost /\ r[i].of # stage[1].of
               /\ \A j \in 1 .. i - 1 : r[j].kind = "upload" => r[j].of # r[i].of
    <3>1. CASE i <= Len(q)
      <4>1. i \in 1 .. Len(q) /\ r[i] = q[i] /\ \A j \in 1 .. i - 1 : r[j] = q[j]
        BY <1>1, <3>1
      <4>2. q[i].of \in Nat /\ q[i].of <= most
        BY <1>7, <2>1, <4>1
      <4> QED
        BY <1>2, <2>1, <4>1, <4>2
    <3>2. CASE ~(i <= Len(q))
      <4>1. i = Len(q) + 1 /\ r[i] = f /\ \A j \in 1 .. i - 1 : j \in 1 .. Len(q) /\ r[j] = q[j]
        BY <1>1, <3>2
      <4>2. most < f.of /\ f.of <= newMost
        BY <2>1, <4>1
      <4>3. \A j \in 1 .. i - 1 : r[j].kind = "upload" => r[j].of # r[i].of
        BY <1>7, <2>1, <4>1
      <4> QED
        BY <1>2, <1>5, <4>1, <4>2, <4>3
    <3> QED
      BY <3>1, <3>2
  <2>2. stage[1].of <= newMost
    BY <1>2, <1>5
  <2> QED
    BY <2>1, <2>2 DEF OwnNumbers
<1>9. ASSUME NEW i \in 1 .. Len(q) + 1, stage[i] # F!Nothing, stage[i].of \in F!Commands,
             f.kind = "upload" => f.of # stage[i].of,
             Brings(q, stage, i, units[stage[i].of])
      PROVE  Brings(r, next, i, newUnits[stage[i].of])
  <2>1. Brings(r, next, i, IF f.kind = "data" /\ last.of = stage[i].of
                             THEN units[stage[i].of] + f.size ELSE units[stage[i].of])
    BY <1>9, BringsMore
  <2> QED
    BY <1>9, <2>1
<1>10. ASSUME stage[1] # F!Nothing, stage[1].of \notin bad
       PROVE  Brings(r, next, 1, newUnits[stage[1].of])
  <2>1. f.kind = "upload" => f.of # stage[1].of
    BY <1>2, <1>5
  <2> QED
    BY <1>3, <1>4, <1>5, <1>9, <1>10, <2>1
<1>11. ASSUME NEW i \in 1 .. Len(r), r[i].kind = "upload"
       PROVE  /\ r[i].of \notin bad
              /\ IF r[i].size > 0
                 THEN Brings(r, next, i + 1, newUnits[r[i].of])
                 ELSE newUnits[r[i].of] = 0 /\ next[Len(r) + 1].of # r[i].of
  <2>1. next[Len(r) + 1] = new
    <3>1. Len(r) + 1 = Len(q) + 2
      BY <1>1
    <3> QED
      BY <1>1, <3>1
  <2>2. CASE i <= Len(q)
    <3>1. i \in 1 .. Len(q) /\ r[i] = q[i] /\ q[i].kind = "upload"
      BY <1>1, <1>11, <2>2
    <3>2. /\ q[i].of \notin bad
          /\ IF q[i].size > 0
             THEN Brings(q, stage, i + 1, units[q[i].of])
             ELSE units[q[i].of] = 0 /\ stage[Len(q) + 1].of # q[i].of
      BY <1>3, <3>1
    <3>3. CASE q[i].size > 0
      <4>1. Brings(r, next, i + 1, newUnits[stage[i + 1].of])
        BY <1>7, <1>9, <3>1, <3>2, <3>3
      <4> QED
        BY <1>7, <3>1, <3>2, <3>3, <4>1
    <3>4. CASE ~(q[i].size > 0)
      <4>1. units[q[i].of] = 0 /\ last.of # q[i].of
        BY <1>4, <3>2, <3>4
      <4>2. newUnits[q[i].of] = 0 /\ new.of # q[i].of
        BY <1>6, <1>7, <3>1, <4>1
      <4> QED
        BY <2>1, <3>1, <3>2, <3>4, <4>2
    <3> QED
      BY <3>3, <3>4
  <2>3. CASE ~(i <= Len(q))
    <3>1. i = Len(q) + 1 /\ r[i] = f /\ f.kind = "upload" /\ i + 1 = Len(q) + 2
      BY <1>1, <1>11, <2>3
    <3>2. most < f.of /\ f.of \in F!Commands
      BY <1>5, <3>1
    <3>3. units[f.of] = 0 /\ f.of \notin bad
      BY <1>3, <1>5, <3>2
    <3>4. newUnits[f.of] = 0
      BY <3>1, <3>2, <3>3
    <3>5. CASE f.size > 0
      <4>1. Brings(r, next, i + 1, 0)
        <5>1. i + 1 \in i + 1 .. Len(r) + 1 /\ ~(i + 1 <= Len(r)) /\ i + 1 \in Nat
          BY <1>1, <3>1
        <5>2. next[i + 1] = new /\ new.left \in Nat
          BY <1>1, <3>1, UploadFields
        <5>3. 0 = next[i + 1].left - next[i + 1].left
                   + (IF i + 1 <= Len(r) THEN r[i + 1].size ELSE 0)
          BY <5>1, <5>2
        <5>4. \A j \in i + 1 .. i + 1 : next[j].of = next[i + 1].of
          BY <5>1
        <5> QED
          BY <5>1, <5>3, <5>4 DEF Brings
      <4> QED
        BY <3>1, <3>3, <3>4, <3>5, <4>1
    <3>6. CASE ~(f.size > 0)
      <4>1. new = F!Nothing /\ f.of # 0
        BY <1>6, <3>1, <3>2, <3>6 DEF F!Commands
      <4> QED
        BY <2>1, <3>1, <3>3, <3>4, <3>6, <4>1, NothingOf
    <3> QED
      BY <3>5, <3>6
  <2> QED
    BY <2>2, <2>3
<1>12. ASSUME NEW u \in F!Commands, u > newMost PROVE newUnits[u] = 0 /\ u \notin bad
  <2>1. u \in Nat /\ u > most /\ last.of # u
    BY <1>5, <1>12 DEF F!Commands
  <2> QED
    BY <1>3, <2>1
<1>13. next[1] = stage[1]
  BY <1>1, <1>4
<1> QED
  BY <1>8, <1>10, <1>11, <1>12, <1>13 DEF Lacks

\* The types of the file manager's state, by what changes together.
StreamTyped ==
    /\ inbox \in Seq(Asked) /\ Len(inbox) <= Capacity
    /\ ending \in {"open", "end", "broken"} /\ (ending = "broken" => inbox = <<>>)
    /\ cut \in BOOLEAN
OutTyped ==
    /\ outbox \in Seq(Told) /\ Len(outbox) <= Capacity
    /\ unsent \in Seq(Told) /\ Len(unsent) <= 1
    /\ loop \in {"select", "sending", "lastSend", "drain", "done"}
UploadTyped ==
    /\ upload \in Uploads /\ lacking \in [F!Commands -> Int]
    /\ refused \in SUBSET F!Commands
TruthTyped ==
    failed \in BOOLEAN /\ untrue \in BOOLEAN /\ misread \in BOOLEAN
DownloadsTyped ==
    \A d \in downloads :
        d \in F!Download /\ d.out \in Seq(Told) /\ Len(d.out) <= 1
DashboardTyped ==
    /\ issued \in 0 .. MaxCommands /\ sending \in Uploads /\ sending.of <= issued
    /\ garbled \in BOOLEAN
ViewTyped ==
    /\ parser \in [of: F!Commands \cup {F!None}, left: 0 .. MaxSize]
    /\ waiting \in SUBSET F!Commands /\ clear \in BOOLEAN

Typed ==
    /\ StreamTyped /\ OutTyped /\ UploadTyped /\ TruthTyped /\ DownloadsTyped
    /\ DashboardTyped /\ ViewTyped

\* What the dashboard sends and is sent are frames.
LEMMA FramesSeq ==
    ASSUME NEW q PROVE q \in Seq(Asked) \/ q \in Seq(Told) => q \in Seq(F!Frames)
<1>1. MaxSize \in Nat /\ MaxCommands \in Nat
  BY TaskRunAssumption DEF F!FileManagerAssumption
<1>2. Asked \subseteq F!Frames
  BY <1>1 DEF Asked, F!Frames, F!KeepAlive, F!Frame, F!None
<1>3. Told \subseteq F!Frames
  BY <1>1 DEF Told, F!Frames, F!KeepAlive, F!Frame, F!None
<1>4. ASSUME q \in Seq(Asked) PROVE q \in Seq(F!Frames)
  <2>1. \A i \in 1 .. Len(q) : q[i] \in F!Frames
    BY <1>2, <1>4, ElementOfSeq
  <2> QED
    BY <1>4, <2>1, LenProperties
<1>5. ASSUME q \in Seq(Told) PROVE q \in Seq(F!Frames)
  <2>1. \A i \in 1 .. Len(q) : q[i] \in F!Frames
    BY <1>3, <1>5, ElementOfSeq
  <2> QED
    BY <1>5, <2>1, LenProperties
<1> QED
  BY <1>4, <1>5

\* Together they are the types that the module states.
LEMMA TypedIs == F!TypeOK /\ FramesTyped <=> Typed
<1>1. MaxSize \in Nat /\ MaxCommands \in Nat
  BY TaskRunAssumption DEF F!FileManagerAssumption
<1>2. \A w \in Uploads : w \in [of: F!Commands \cup {F!None}, left: 0 .. MaxSize]
  BY <1>1 DEF Uploads, F!Nothing, F!None
<1>3. ASSUME F!TypeOK, FramesTyped PROVE Typed
  BY <1>3 DEF F!TypeOK, FramesTyped, Typed, StreamTyped, OutTyped, UploadTyped, TruthTyped,
              DownloadsTyped, DashboardTyped, ViewTyped
<1>4. ASSUME Typed PROVE F!TypeOK /\ FramesTyped
  <2>1. inbox \in Seq(F!Frames) /\ outbox \in Seq(F!Frames) /\ unsent \in Seq(F!Frames)
    BY <1>4, FramesSeq DEF Typed, StreamTyped, OutTyped
  <2> QED
    BY <1>2, <1>4, <2>1
       DEF F!TypeOK, FramesTyped, Typed, StreamTyped, OutTyped, UploadTyped, TruthTyped,
           DownloadsTyped, DashboardTyped, ViewTyped
<1> QED
  BY <1>3, <1>4

\* A queue with one more frame.
LEMMA QueueMore ==
    ASSUME NEW S, NEW q \in Seq(S), NEW f \in S, NEW n \in Nat, Len(q) < n
    PROVE  Append(q, f) \in Seq(S) /\ Len(Append(q, f)) <= n
  BY AppendProperties, LenProperties

\* A queue without its first frame.
LEMMA QueueLess ==
    ASSUME NEW S, NEW q \in Seq(S), q # <<>>, NEW n \in Nat, Len(q) <= n
    PROVE  /\ Tail(q) \in Seq(S) /\ Len(Tail(q)) <= n /\ Head(q) \in S
  BY HeadTailProperties, LenProperties

\* A queue that takes in another of one frame at most.
LEMMA QueueJoin ==
    ASSUME NEW S, NEW q \in Seq(S), NEW r \in Seq(S), NEW n \in Nat, Len(q) < n, Len(r) <= 1
    PROVE  q \o r \in Seq(S) /\ Len(q \o r) <= n
  BY ConcatProperties, LenProperties

\* A queue of one frame.
LEMMA OneFrame ==
    ASSUME NEW S, NEW f \in S PROVE <<f>> \in Seq(S) /\ Len(<<f>>) <= 1
<1>1. <<f>> \in Seq(S) /\ Len(<<f>>) = 1
  OBVIOUS
<1> QED
  BY <1>1

\* An empty queue.
LEMMA NoFrame ==
    ASSUME NEW S PROVE <<>> \in Seq(S) /\ Len(<<>>) = 0
  BY EmptySeq

\* What the dashboard does keeps the types.
LEMMA DashboardTypes == Typed /\ F!Dashboard => Typed'
<1> SUFFICES ASSUME Typed, F!Dashboard PROVE Typed'
  OBVIOUS
<1>1. /\ StreamTyped /\ OutTyped /\ UploadTyped /\ TruthTyped /\ DownloadsTyped
      /\ DashboardTyped /\ ViewTyped
  BY DEF Typed
<1>2. MaxSize \in Nat /\ MaxCommands \in Nat /\ Capacity \in Nat
  BY TaskRunAssumption DEF F!FileManagerAssumption
<1>3. UNCHANGED <<inbox, ending, cut>> => StreamTyped'
  BY <1>1 DEF StreamTyped
<1>4. UNCHANGED <<outbox, unsent, loop>> => OutTyped'
  BY <1>1 DEF OutTyped
<1>5. UNCHANGED <<upload, lacking, refused>> => UploadTyped'
  BY <1>1 DEF UploadTyped
<1>6. UNCHANGED <<failed, untrue, misread>> => TruthTyped'
  BY <1>1 DEF TruthTyped
<1>7. UNCHANGED downloads => DownloadsTyped'
  BY <1>1 DEF DownloadsTyped
<1>8. UNCHANGED <<issued, sending, garbled>> => DashboardTyped'
  BY <1>1 DEF DashboardTyped
<1>9. UNCHANGED <<parser, waiting, clear>> => ViewTyped'
  BY <1>1 DEF ViewTyped
<1>10. ASSUME NEW f \in Asked, F!Arrives(f)
       PROVE  /\ StreamTyped' /\ OutTyped' /\ TruthTyped' /\ DownloadsTyped'
              /\ UNCHANGED <<upload, refused>> /\ garbled' = garbled
  <2>1. inbox' = Append(inbox, f) /\ Len(inbox) < Capacity /\ ending = "open"
        /\ UNCHANGED <<ending, cut, outbox, loop, unsent, upload, refused, downloads,
                       failed, untrue, misread, garbled>>
    BY <1>10 DEF F!Arrives
  <2>2. Append(inbox, f) \in Seq(Asked) /\ Len(Append(inbox, f)) <= Capacity
    BY <1>1, <1>2, <2>1, QueueMore DEF StreamTyped
  <2>3. StreamTyped'
    BY <1>1, <2>1, <2>2 DEF StreamTyped
  <2> QED
    BY <1>4, <1>6, <1>7, <2>1, <2>3
<1>11. ASSUME NEW kind \in {"list", "download", "other", "upload"}, NEW size \in 0 .. MaxSize,
              kind # "upload" => size = 0, F!Command(kind, size)
       PROVE  Typed'
  <2>1. /\ issued < MaxCommands /\ F!Arrives(F!Frame(kind, issued + 1, size))
        /\ issued' = issued + 1 /\ UNCHANGED lacking /\ sending = F!Nothing
        /\ sending' = (IF kind = "upload" /\ size > 0
                       THEN [of |-> issued + 1, left |-> size] ELSE sending)
        /\ F!Expects(parser, IF kind = "other" THEN waiting ELSE waiting \cup {issued + 1},
                     clear /\ waiting = {})
    BY <1>11 DEF F!Command
  <2>2. issued + 1 \in F!Commands /\ issued \in Nat
    BY <1>1, <1>2, <2>1 DEF DashboardTyped, F!Commands
  <2>3. F!Frame(kind, issued + 1, size) \in Asked
    BY <1>2, <1>11, <2>2 DEF F!Frame, Asked
  <2>4. /\ StreamTyped' /\ OutTyped' /\ TruthTyped' /\ DownloadsTyped'
        /\ UNCHANGED <<upload, refused>> /\ garbled' = garbled
    BY <1>10, <2>1, <2>3
  <2>5. sending' \in Uploads /\ sending'.of <= issued + 1
    <3>1. CASE kind = "upload" /\ size > 0
      BY <1>2, <2>1, <2>2, <3>1 DEF Uploads
    <3>2. CASE ~(kind = "upload" /\ size > 0)
      BY <2>1, <2>2, <3>2, NothingOf
    <3> QED
      BY <3>1, <3>2
  <2>6. DashboardTyped'
    BY <1>1, <1>2, <2>1, <2>2, <2>4, <2>5 DEF DashboardTyped
  <2>7. ViewTyped'
    <3>1. parser' = parser \/ parser' = F!Nothing
      BY <2>1 DEF F!Expects
    <3>2. waiting' \in SUBSET F!Commands
      BY <1>1, <2>1, <2>2 DEF F!Expects, ViewTyped
    <3>3. clear' \in BOOLEAN
      BY <2>1 DEF F!Expects
    <3>4. F!Nothing \in [of: F!Commands \cup {F!None}, left: 0 .. MaxSize]
      BY <1>2 DEF F!Nothing, F!None
    <3> QED
      BY <1>1, <3>1, <3>2, <3>3, <3>4 DEF ViewTyped
  <2> QED
    BY <1>5, <2>1, <2>4, <2>6, <2>7 DEF Typed
<1>12. ASSUME NEW size \in 1 .. MaxSize, F!SendData(size) PROVE Typed'
  <2>1. /\ sending # F!Nothing /\ F!Arrives(F!Frame("data", sending.of, size))
        /\ sending' = (IF size >= sending.left THEN F!Nothing
                       ELSE [sending EXCEPT !.left = @ - size])
        /\ lacking' = [lacking EXCEPT ![sending.of] = @ + size]
        /\ UNCHANGED <<issued, parser, waiting, clear>>
    BY <1>12 DEF F!SendData, F!view
  <2>2. sending \in Uploads /\ sending.of \in F!Commands /\ sending.left \in 1 .. MaxSize
    BY <1>1, <2>1, UploadFields DEF DashboardTyped
  <2>3. F!Frame("data", sending.of, size) \in Asked
    BY <1>2, <2>2 DEF F!Frame, Asked
  <2>4. /\ StreamTyped' /\ OutTyped' /\ TruthTyped' /\ DownloadsTyped'
        /\ UNCHANGED <<upload, refused>> /\ garbled' = garbled
    BY <1>10, <2>1, <2>3
  <2>5. sending' \in Uploads /\ sending'.of <= issued
    <3>1. CASE size >= sending.left
      BY <1>1, <2>1, <3>1, NothingOf DEF DashboardTyped
    <3>2. CASE ~(size >= sending.left)
      <4>1. sending \in [of: F!Commands, left: 1 .. MaxSize]
        BY <2>1, <2>2 DEF Uploads
      <4>2. sending' = [sending EXCEPT !.left = sending.left - size]
        BY <2>1, <3>2
      <4>3. sending.left - size \in 1 .. MaxSize
        BY <1>2, <2>2, <3>2
      <4> QED
        BY <1>1, <4>1, <4>2, <4>3 DEF Uploads, DashboardTyped
    <3> QED
      BY <3>1, <3>2
  <2>6. DashboardTyped'
    BY <1>1, <2>1, <2>4, <2>5 DEF DashboardTyped
  <2>7. UploadTyped'
    BY <1>1, <2>1, <2>2, <2>4 DEF UploadTyped
  <2> QED
    BY <1>9, <2>1, <2>4, <2>6, <2>7 DEF Typed
<1>13. CASE F!SendEmpty
  <2>1. F!Arrives(F!KeepAlive) /\ UNCHANGED <<lacking, issued, sending, parser, waiting, clear>>
    BY <1>13 DEF F!SendEmpty, F!view
  <2>2. F!KeepAlive \in Asked
    BY DEF Asked
  <2> QED
    BY <1>5, <1>8, <1>9, <1>10, <2>1, <2>2 DEF Typed
<1>14. CASE F!Ends
  <2>1. UNCHANGED <<cut, outbox, loop, unsent, upload, lacking, refused, downloads, failed,
                    untrue, misread, issued, sending, garbled, parser, waiting, clear>>
    BY <1>14 DEF F!Ends, F!agent, F!client, F!view
  <2>2. \/ ending' = "end" /\ inbox' = inbox
        \/ ending' = "broken" /\ inbox' = <<>>
    BY <1>14 DEF F!Ends
  <2>3. /\ <<>> \in Seq(Asked) /\ Len(<<>>) <= Capacity
        /\ inbox \in Seq(Asked) /\ Len(inbox) <= Capacity /\ cut' \in BOOLEAN
    BY <1>1, <1>2, <2>1, NoFrame DEF StreamTyped
  <2>4. StreamTyped'
    BY <2>2, <2>3 DEF StreamTyped
  <2> QED
    BY <1>4, <1>5, <1>6, <1>7, <1>8, <1>9, <2>1, <2>4 DEF Typed
<1>15. CASE F!Cuts
  <2>1. UNCHANGED <<inbox, ending, loop, unsent, upload, lacking, refused, downloads, failed,
                    untrue, misread, issued, sending, garbled, parser, waiting, clear>>
        /\ cut' = TRUE /\ outbox' = <<>>
    BY <1>15 DEF F!Cuts, F!agent, F!client, F!view
  <2>2. StreamTyped'
    BY <1>1, <2>1 DEF StreamTyped
  <2>3. OutTyped'
    BY <1>1, <1>2, <2>1, NoFrame DEF OutTyped
  <2> QED
    BY <1>5, <1>6, <1>7, <1>8, <1>9, <2>1, <2>2, <2>3 DEF Typed
<1>16. CASE F!Reads
  <2>1. UNCHANGED <<inbox, ending, cut, loop, unsent, upload, lacking, refused, downloads, failed,
                    untrue, misread, issued, sending>>
        /\ outbox # <<>> /\ outbox' = Tail(outbox)
    BY <1>16 DEF F!Reads, F!agent
  <2>2. Head(outbox) \in Told /\ OutTyped'
    BY <1>1, <1>2, <2>1, QueueLess DEF OutTyped
  <2>3. garbled' \in BOOLEAN
    BY <1>16 DEF F!Reads
  <2>4. DashboardTyped'
    BY <1>1, <2>1, <2>3 DEF DashboardTyped
  <2>5. ViewTyped'
    <3> DEFINE f == Head(outbox)
               part == f.kind \in {"chunk", "answer"} /\ f.of = parser.of
               left == IF f.kind = "chunk" THEN parser.left - f.size ELSE 0
               reads == CASE f.kind = "header" -> [of |-> f.of, left |-> f.size]
                          [] part -> IF left > 0 THEN [parser EXCEPT !.left = left] ELSE F!Nothing
                          [] OTHER -> parser
               others == IF f.kind \in {"header", "empty"} \/ (part /\ left > 0)
                         THEN waiting ELSE waiting \ {f.of}
               Parsers == [of: F!Commands \cup {F!None}, left: 0 .. MaxSize]
    <3>1. F!Expects(reads, others, clear)
      BY <1>16 DEF F!Reads
    <3>2. f.kind = "header" => f.of \in F!Commands /\ f.size \in 0 .. MaxSize
      BY <1>2, <2>2 DEF Told, F!KeepAlive, F!Frame
    <3>3. f.kind = "chunk" => f.size = 1
      BY <2>2 DEF Told, F!KeepAlive, F!Frame
    <3>4. parser \in Parsers /\ waiting \in SUBSET F!Commands /\ clear \in BOOLEAN
      BY <1>1 DEF ViewTyped
    <3>5. F!Nothing \in Parsers
      BY <1>2 DEF F!Nothing, F!None
    <3>6. left > 0 => [parser EXCEPT !.left = left] \in Parsers
      <4>1. left > 0 => left \in 0 .. MaxSize
        BY <1>2, <3>3, <3>4
      <4> HIDE DEF left
      <4> QED
        BY <3>4, <4>1
    <3>7. reads \in Parsers
      <4>1. f.kind = "header" => [of |-> f.of, left |-> f.size] \in Parsers
        BY <3>2
      <4>2. f.kind = "header" => ~part
        OBVIOUS
      <4> HIDE DEF part, left
      <4>3. CASE f.kind = "header"
        BY <4>1, <4>3, <4>2
      <4>4. CASE f.kind # "header" /\ part
        BY <3>5, <3>6, <4>4
      <4>5. CASE f.kind # "header" /\ ~part
        BY <3>4, <4>5
      <4> QED
        BY <4>3, <4>4, <4>5
    <3>8. others \in SUBSET F!Commands
      BY <3>4
    <3> HIDE DEF reads, others
    <3>9. parser' = (IF clear THEN reads ELSE F!Nothing) /\ waiting' = (IF clear THEN others ELSE {})
          /\ clear' = clear
      BY <3>1 DEF F!Expects
    <3> QED
      BY <3>4, <3>5, <3>7, <3>8, <3>9 DEF ViewTyped
  <2> QED
    BY <1>3, <1>5, <1>6, <1>7, <2>1, <2>2, <2>4, <2>5 DEF Typed
<1> QED
  BY <1>2, <1>11, <1>12, <1>13, <1>14, <1>15, <1>16 DEF F!Dashboard

\* What the loop takes, writes and sends keeps the types.
LEMMA LoopTypes == Typed /\ (F!Loop \/ F!KeepAliveDue) => Typed'
<1> SUFFICES ASSUME Typed, F!Loop \/ F!KeepAliveDue PROVE Typed'
  OBVIOUS
<1>1. /\ StreamTyped /\ OutTyped /\ UploadTyped /\ TruthTyped /\ DownloadsTyped
      /\ DashboardTyped /\ ViewTyped
  BY DEF Typed
<1>2. MaxSize \in Nat /\ MaxCommands \in Nat /\ Capacity \in Nat
  BY TaskRunAssumption DEF F!FileManagerAssumption
<1>3. UNCHANGED <<inbox, ending, cut>> => StreamTyped'
  BY <1>1 DEF StreamTyped
<1>4. UNCHANGED <<outbox, unsent, loop>> => OutTyped'
  BY <1>1 DEF OutTyped
<1>5. UNCHANGED <<upload, lacking, refused>> => UploadTyped'
  BY <1>1 DEF UploadTyped
<1>6. UNCHANGED <<failed, untrue, misread>> => TruthTyped'
  BY <1>1 DEF TruthTyped
<1>7. UNCHANGED downloads => DownloadsTyped'
  BY <1>1 DEF DownloadsTyped
<1>8. UNCHANGED <<issued, sending, garbled>> => DashboardTyped'
  BY <1>1 DEF DashboardTyped
<1>9. UNCHANGED <<parser, waiting, clear>> => ViewTyped'
  BY <1>1 DEF ViewTyped
<1>10. ASSUME NEW now2, F!Expects(parser, waiting, now2), now2 \in BOOLEAN PROVE ViewTyped'
  <2>1. parser' \in {parser, F!Nothing} /\ waiting' \in {waiting, {}} /\ clear' \in BOOLEAN
    BY <1>10 DEF F!Expects
  <2>2. F!Nothing \in [of: F!Commands \cup {F!None}, left: 0 .. MaxSize]
    BY <1>2 DEF F!Nothing, F!None
  <2> QED
    BY <1>1, <2>1, <2>2 DEF ViewTyped
<1>11. ASSUME NEW wrong, F!Misreads(wrong) PROVE ViewTyped' /\ misread' \in BOOLEAN
  <2>1. F!Expects(parser, waiting, clear /\ ~wrong) /\ misread' = (misread \/ wrong)
    BY <1>11 DEF F!Misreads
  <2>2. (clear /\ ~wrong) \in BOOLEAN /\ (misread \/ wrong) \in BOOLEAN
    OBVIOUS
  <2> QED
    BY <1>10, <2>1, <2>2
<1>12. ASSUME F!Taken
       PROVE  /\ StreamTyped' /\ DashboardTyped' /\ UNCHANGED outbox
              /\ Head(inbox) \in Asked
  <2>1. inbox # <<>> /\ inbox' = Tail(inbox)
        /\ UNCHANGED <<ending, cut, outbox, issued, sending, garbled>>
    BY <1>12 DEF F!Taken, F!StreamKept
  <2>2. Tail(inbox) \in Seq(Asked) /\ Len(Tail(inbox)) <= Capacity /\ Head(inbox) \in Asked
    BY <1>1, <1>2, <2>1, QueueLess DEF StreamTyped
  <2>3. StreamTyped'
    BY <1>1, <2>1, <2>2 DEF StreamTyped
  <2> QED
    BY <1>8, <2>1, <2>2, <2>3
<1>13. ASSUME NEW l \in {"select", "sending", "lastSend", "drain", "done"}, F!Goes(l),
              UNCHANGED outbox
       PROVE OutTyped'
  BY <1>1, <1>13 DEF OutTyped, F!Goes
<1>14. ASSUME NEW f \in Told, NEW l \in {"sending", "lastSend"}, loop' = l, unsent' = <<f>>,
              UNCHANGED outbox
       PROVE OutTyped'
  BY <1>1, <1>14, OneFrame DEF OutTyped
<1>15. ASSUME NEW u \in F!Commands, NEW ok \in BOOLEAN, NEW lack, F!AnswerUpload(u, ok, lack),
              UNCHANGED outbox
       PROVE  /\ OutTyped' /\ failed' \in BOOLEAN /\ untrue' \in BOOLEAN
              /\ lacking' \in [F!Commands -> Int] /\ refused' \in SUBSET F!Commands
  <2>1. /\ failed' = (failed \/ ~ok)
        /\ untrue' = (untrue \/ (ok /\ lack # 0 /\ ~misread'))
        /\ lacking' = [lacking EXCEPT ![u] = 0] /\ refused' = refused \ {u}
        /\ loop' = "sending" /\ unsent' = <<F!Frame("answer", u, 0)>>
    BY <1>15 DEF F!AnswerUpload, F!Answer
  <2>2. F!Frame("answer", u, 0) \in Told
    BY DEF F!Frame, Told
  <2>3. OutTyped'
    BY <1>14, <1>15, <2>1, <2>2
  <2>4. failed' \in BOOLEAN /\ untrue' \in BOOLEAN
    BY <2>1
  <2>5. lacking' \in [F!Commands -> Int] /\ refused' \in SUBSET F!Commands
    BY <1>1, <2>1 DEF UploadTyped
  <2> QED
    BY <2>3, <2>4, <2>5
<1>16. CASE F!TakeEmpty
  <2>1. F!Taken /\ UNCHANGED <<loop, unsent, upload, lacking, refused, downloads, failed, untrue,
                               misread, parser, waiting, clear>>
    BY <1>16 DEF F!TakeEmpty, F!agent, F!view
  <2> QED
    BY <1>4, <1>5, <1>6, <1>7, <1>9, <1>12, <2>1 DEF Typed
<1>17. ASSUME F!TakeAsData
       PROVE  /\ StreamTyped' /\ DashboardTyped' /\ DownloadsTyped' /\ ViewTyped'
              /\ misread' \in BOOLEAN /\ UNCHANGED outbox
              /\ upload.of \in F!Commands /\ upload \in [of: F!Commands, left: 1 .. MaxSize]
              /\ F!SizeAsData(Head(inbox)) \in Nat \ {0}
  <2>1. /\ F!Taken /\ upload # F!Nothing /\ UNCHANGED downloads
        /\ F!Misreads(F!First.kind # "data")
    BY <1>17 DEF F!TakeAsData
  <2>2. Head(inbox) \in Asked
    BY <1>12, <2>1
  <2>3. F!SizeAsData(Head(inbox)) \in Nat \ {0}
    BY <2>2, AskedFields DEF F!SizeAsData
  <2>4. upload \in [of: F!Commands, left: 1 .. MaxSize] /\ upload.of \in F!Commands
    BY <1>1, <2>1 DEF UploadTyped, Uploads
  <2> QED
    BY <1>7, <1>11, <1>12, <2>1, <2>3, <2>4
<1>18. CASE F!TakeData
  <2> DEFINE size == F!SizeAsData(Head(inbox))
  <2>1. F!TakeAsData
    BY <1>18 DEF F!TakeData, F!WriteData
  <2>2. CASE size >= upload.left
    <3>1. PICK ok \in BOOLEAN : /\ upload' = F!Nothing
                                /\ F!AnswerUpload(upload.of, ok, lacking[upload.of] - size)
      BY <1>18, <2>2 DEF F!TakeData, F!WriteData, F!First
    <3> QED
      BY <1>15, <1>17, <2>1, <3>1, NothingOf DEF Typed, UploadTyped, TruthTyped
  <2>3. CASE ~(size >= upload.left)
    <3>1. /\ upload' = [upload EXCEPT !.left = @ - size] /\ F!Goes("select")
          /\ UNCHANGED <<untrue, failed>>
          /\ \/ refused' = refused \cup {upload.of} /\ UNCHANGED lacking
             \/ /\ lacking' = [lacking EXCEPT ![upload.of] = lacking[upload.of] - size]
                /\ UNCHANGED refused
      BY <1>18, <2>3 DEF F!TakeData, F!WriteData, F!First
    <3>2. OutTyped'
      BY <1>13, <1>17, <2>1, <3>1
    <3>3. upload' \in Uploads
      <4>1. upload.left - size \in 1 .. MaxSize
        BY <1>2, <1>17, <2>1, <2>3
      <4> HIDE DEF size
      <4> QED
        BY <1>17, <2>1, <3>1, <4>1 DEF Uploads
    <3>4. lacking' \in [F!Commands -> Int] /\ refused' \in SUBSET F!Commands
      <4>1. size \in Int
        BY <1>17, <2>1
      <4> HIDE DEF size
      <4> QED
        BY <1>1, <1>17, <2>1, <3>1, <4>1 DEF UploadTyped
    <3>5. TruthTyped'
      BY <1>1, <1>17, <2>1, <3>1 DEF TruthTyped
    <3> QED
      BY <1>17, <2>1, <3>2, <3>3, <3>4, <3>5 DEF Typed, UploadTyped
  <2> QED
    BY <2>2, <2>3
<1>19. CASE F!TakeDataFails
  <2>1. F!TakeAsData /\ upload' = F!Nothing /\ F!AnswerUpload(upload.of, FALSE, 0)
    BY <1>19 DEF F!TakeDataFails
  <2> QED
    BY <1>15, <1>17, <2>1, NothingOf DEF Typed, UploadTyped, TruthTyped
<1>20. ASSUME NEW kind \in {"list", "download", "upload", "other"}, F!TakeCommand(kind)
       PROVE  /\ StreamTyped' /\ DashboardTyped' /\ ViewTyped' /\ misread' \in BOOLEAN
              /\ UNCHANGED outbox /\ Head(inbox) \in Asked
              /\ Head(inbox).kind \in {kind, "data"} /\ Head(inbox).of \in F!Commands
  <2>1. F!Taken /\ Head(inbox).kind \in {kind, "data"} /\ F!Misreads(F!First.kind = "data")
    BY <1>20 DEF F!TakeCommand, F!First
  <2>2. Head(inbox) \in Asked
    BY <1>12, <2>1
  <2>3. Head(inbox).of \in F!Commands
    BY <2>1, <2>2, AskedFields
  <2> QED
    BY <1>11, <1>12, <2>1, <2>2, <2>3
<1>21. CASE F!TakeList
  <2>1. /\ F!TakeCommand("list")
        /\ loop' = "sending" /\ unsent' = <<F!Frame("answer", Head(inbox).of, 0)>>
        /\ UNCHANGED <<upload, lacking, refused, downloads, failed, untrue>>
    BY <1>21 DEF F!TakeList, F!Answer, F!First
  <2>2. F!Frame("answer", Head(inbox).of, 0) \in Told
    BY <1>20, <2>1 DEF F!Frame, Told
  <2>3. OutTyped'
    BY <1>14, <1>20, <2>1, <2>2
  <2>4. TruthTyped'
    BY <1>1, <1>20, <2>1 DEF TruthTyped
  <2> QED
    BY <1>5, <1>7, <1>20, <2>1, <2>3, <2>4 DEF Typed
<1>22. CASE F!TakeDownload
  <2>1. /\ F!TakeCommand("download") /\ F!Goes("select")
        /\ downloads' = downloads \cup
              {[of |-> Head(inbox).of, step |-> "open", out |-> <<>>, left |-> 0]}
        /\ UNCHANGED <<upload, lacking, refused, failed, untrue>>
    BY <1>22 DEF F!TakeDownload, F!First
  <2>2. DownloadsTyped'
    <3>1. <<>> \in Seq(Told) /\ <<>> \in Seq(F!Frames) /\ Len(<<>>) = 0
      BY NoFrame
    <3> DEFINE d == [of |-> Head(inbox).of, step |-> "open", out |-> <<>>, left |-> 0]
    <3>2. d \in F!Download /\ d.out = <<>>
      BY <1>20, <2>1, <3>1 DEF F!Download
    <3>3. downloads' = downloads \cup {d}
      BY <2>1
    <3>4. d.out \in Seq(Told) /\ Len(d.out) <= 1
      BY <3>1, <3>2
    <3> HIDE DEF d
    <3> QED
      BY <1>1, <3>2, <3>3, <3>4 DEF DownloadsTyped
  <2>3. TruthTyped'
    BY <1>1, <1>20, <2>1 DEF TruthTyped
  <2> QED
    BY <1>5, <1>13, <1>20, <2>1, <2>2, <2>3 DEF Typed
<1>23. ASSUME NEW size \in 0 .. MaxSize, F!TakeUpload(size) PROVE Typed'
  <2>1. F!TakeCommand("upload") /\ UNCHANGED downloads
    BY <1>23 DEF F!TakeUpload
  <2>2. CASE size = 0
    <3>1. PICK ok \in BOOLEAN :
             F!AnswerUpload(Head(inbox).of, ok, lacking[Head(inbox).of]) /\ UNCHANGED upload
      BY <1>23, <2>2 DEF F!TakeUpload, F!First
    <3> QED
      BY <1>1, <1>7, <1>15, <1>20, <2>1, <3>1 DEF Typed, UploadTyped, TruthTyped
  <2>3. CASE size # 0
    <3>1. /\ upload' = [of |-> Head(inbox).of, left |-> size] /\ F!Goes("select")
          /\ UNCHANGED <<lacking, refused, failed, untrue>>
      BY <1>23, <2>3 DEF F!TakeUpload, F!First
    <3>2. upload' \in Uploads
      BY <1>2, <1>20, <2>1, <2>3, <3>1 DEF Uploads
    <3>3. UploadTyped' /\ TruthTyped'
      BY <1>1, <1>20, <2>1, <3>1, <3>2 DEF UploadTyped, TruthTyped
    <3> QED
      BY <1>7, <1>13, <1>20, <2>1, <3>1, <3>3 DEF Typed
  <2> QED
    BY <2>2, <2>3
<1>24. CASE F!TakeUploadFails
  <2>1. F!TakeCommand("upload") /\ F!AnswerUpload(Head(inbox).of, FALSE, 0)
        /\ UNCHANGED <<upload, downloads>>
    BY <1>24 DEF F!TakeUploadFails, F!First
  <2> QED
    BY <1>1, <1>7, <1>15, <1>20, <2>1 DEF Typed, UploadTyped, TruthTyped
<1>25. CASE F!TakeOther
  <2>1. F!TakeCommand("other") /\ F!Goes("select")
        /\ UNCHANGED <<upload, lacking, refused, downloads, failed, untrue>>
    BY <1>25 DEF F!TakeOther
  <2>2. TruthTyped'
    BY <1>1, <1>20, <2>1 DEF TruthTyped
  <2> QED
    BY <1>5, <1>7, <1>13, <1>20, <2>1, <2>2 DEF Typed
<1>26. CASE F!StreamEnds
  <2>1. /\ upload' = F!Nothing
        /\ UNCHANGED <<ending, cut, outbox, issued, sending, garbled, inbox, lacking, refused,
                       untrue, misread, downloads, parser, waiting, clear>>
        /\ failed' \in {failed, TRUE}
    BY <1>26 DEF F!StreamEnds, F!LoopKept, F!StreamKept, F!view
  <2>2. \/ F!Goes("drain")
        \/ /\ upload # F!Nothing
           /\ loop' = "lastSend" /\ unsent' = <<F!Frame("answer", upload.of, 0)>>
    BY <1>26 DEF F!StreamEnds
  <2>3. upload # F!Nothing => F!Frame("answer", upload.of, 0) \in Told
    BY <1>1, UploadFields DEF UploadTyped, Told, F!Frame
  <2>4. OutTyped'
    BY <1>13, <1>14, <2>1, <2>2, <2>3
  <2>5. UploadTyped'
    BY <1>1, <2>1, NothingOf DEF UploadTyped
  <2>6. TruthTyped'
    BY <1>1, <2>1 DEF TruthTyped
  <2> QED
    BY <1>3, <1>7, <1>8, <1>9, <2>1, <2>4, <2>5, <2>6 DEF Typed
<1>27. CASE F!KeepAliveDue
  <2>1. /\ loop' = "sending" /\ unsent' = <<F!KeepAlive>>
        /\ UNCHANGED <<ending, cut, outbox, issued, sending, garbled, inbox, lacking, refused,
                       untrue, misread, upload, downloads, failed, parser, waiting, clear>>
    BY <1>27 DEF F!KeepAliveDue, F!Answer, F!LoopKept, F!StreamKept, F!view
  <2>2. F!KeepAlive \in Told
    BY DEF Told
  <2>3. OutTyped'
    BY <1>14, <2>1, <2>2
  <2> QED
    BY <1>3, <1>5, <1>6, <1>7, <1>8, <1>9, <2>1, <2>3 DEF Typed
<1>28. ASSUME F!FilesKept, UNCHANGED <<downloads, parser, waiting, clear>>, OutTyped'
       PROVE Typed'
  <2>1. UNCHANGED <<inbox, ending, cut, upload, lacking, refused, failed, untrue, misread,
                    issued, sending, garbled>>
    BY <1>28 DEF F!FilesKept
  <2> QED
    BY <1>3, <1>5, <1>6, <1>7, <1>8, <1>9, <1>28, <2>1 DEF Typed
<1>29. CASE F!Send
  <2>1. /\ Len(outbox) < Capacity /\ outbox' = outbox \o unsent /\ unsent' = <<>>
        /\ loop' \in {"select", "drain"}
        /\ F!FilesKept /\ UNCHANGED <<downloads, parser, waiting, clear>>
    BY <1>29 DEF F!Send, F!view
  <2>2. outbox \o unsent \in Seq(Told) /\ Len(outbox \o unsent) <= Capacity
    BY <1>1, <1>2, <2>1, QueueJoin DEF OutTyped
  <2>3. OutTyped'
    BY <2>1, <2>2, NoFrame DEF OutTyped
  <2> QED
    BY <1>28, <2>1, <2>3
<1>30. CASE F!SendFails
  <2>1. /\ loop' = "drain" /\ unsent' = <<>> /\ UNCHANGED outbox
        /\ F!FilesKept /\ UNCHANGED <<downloads, parser, waiting, clear>>
    BY <1>30 DEF F!SendFails, F!view
  <2>2. OutTyped'
    BY <1>1, <2>1, NoFrame DEF OutTyped
  <2> QED
    BY <1>28, <2>1, <2>2
<1>31. CASE F!Drained
  <2>1. F!Goes("done") /\ F!FilesKept /\ UNCHANGED <<outbox, downloads, parser, waiting, clear>>
    BY <1>31 DEF F!Drained, F!Finishes, F!view
  <2> QED
    BY <1>13, <1>28, <2>1
<1> QED
  BY <1>16, <1>18, <1>19, <1>21, <1>22, <1>23, <1>24, <1>25, <1>26, <1>27, <1>29, <1>30, <1>31
     DEF F!Loop

\* What the downloads do keeps the types.
LEMMA DownloadTypes ==
    ASSUME NEW d \in downloads PROVE Typed /\ F!DownloadStep(d) => Typed'
<1> SUFFICES ASSUME Typed, F!DownloadStep(d) PROVE Typed'
  OBVIOUS
<1>1. /\ StreamTyped /\ OutTyped /\ UploadTyped /\ TruthTyped /\ DownloadsTyped
      /\ DashboardTyped /\ ViewTyped
  BY DEF Typed
<1>2. MaxSize \in Nat /\ MaxCommands \in Nat /\ Capacity \in Nat
  BY TaskRunAssumption DEF F!FileManagerAssumption
<1>3. /\ d.of \in F!Commands /\ d.left \in Int /\ d \in F!Download
      /\ d.out \in Seq(Told) /\ Len(d.out) <= 1
  BY <1>1 DEF DownloadsTyped, F!Download
<1>4. F!DownloadKept => /\ StreamTyped' /\ UploadTyped' /\ TruthTyped' /\ DashboardTyped'
                        /\ UNCHANGED <<unsent, loop>>
  BY <1>1 DEF F!DownloadKept, F!FilesKept, StreamTyped, UploadTyped, TruthTyped, DashboardTyped
<1>5. UNCHANGED <<outbox, unsent, loop>> => OutTyped'
  BY <1>1 DEF OutTyped
<1>6. ASSUME NEW f \in Told, NEW left \in Int, NEW step \in {"send", "failing"},
             F!Becomes(d, F!Holding(d, f, left, step))
      PROVE  DownloadsTyped'
  <2>1. <<f>> \in Seq(Told) /\ Len(<<f>>) <= 1 /\ <<f>> \in Seq(F!Frames)
    BY OneFrame, FramesSeq
  <2>2. F!Holding(d, f, left, step) \in F!Download /\ F!Holding(d, f, left, step).out = <<f>>
    BY <1>3, <2>1 DEF F!Holding, F!Download
  <2> QED
    BY <1>1, <1>6, <2>1, <2>2 DEF F!Becomes, DownloadsTyped
<1>7. F!Leaves(d) => DownloadsTyped'
  BY <1>1 DEF F!Leaves, DownloadsTyped
<1>8. ASSUME NEW odd, F!Unclear(odd) PROVE ViewTyped'
  <2>1. F!Expects(parser, waiting, clear /\ ~odd)
    BY <1>8 DEF F!Unclear
  <2>2. parser' \in {parser, F!Nothing} /\ waiting' \in {waiting, {}} /\ clear' \in BOOLEAN
    BY <2>1 DEF F!Expects
  <2>3. F!Nothing \in [of: F!Commands \cup {F!None}, left: 0 .. MaxSize]
    BY <1>2 DEF F!Nothing, F!None
  <2> QED
    BY <1>1, <2>2, <2>3 DEF ViewTyped
<1>9. UNCHANGED <<parser, waiting, clear>> => ViewTyped'
  BY <1>1 DEF ViewTyped
<1>10. CASE F!Open(d)
  <2>1. PICK size \in 1 .. MaxSize :
           /\ F!Becomes(d, F!Holding(d, F!Frame("header", d.of, size), size, "send"))
           /\ F!DownloadKept /\ UNCHANGED <<outbox, parser, waiting, clear>>
    BY <1>10 DEF F!Open, F!OpenAs, F!view
  <2>2. F!Frame("header", d.of, size) \in Told
    BY <1>3 DEF F!Frame, Told
  <2>3. DownloadsTyped'
    BY <1>6, <2>1, <2>2
  <2> QED
    BY <1>4, <1>5, <1>9, <2>1, <2>3 DEF Typed
<1>11. CASE F!DownloadFails(d)
  <2>1. /\ F!Becomes(d, F!Holding(d, F!Frame("answer", d.of, 0), d.left, "failing"))
        /\ F!Unclear(d.step = "read" /\ d.left <= 0)
        /\ F!DownloadKept /\ UNCHANGED outbox
    BY <1>11 DEF F!DownloadFails
  <2>2. F!Frame("answer", d.of, 0) \in Told
    BY <1>3 DEF F!Frame, Told
  <2>3. DownloadsTyped'
    BY <1>3, <1>6, <2>1, <2>2
  <2> QED
    BY <1>4, <1>5, <1>8, <2>1, <2>3 DEF Typed
<1>12. CASE F!ReadChunk(d)
  <2>1. /\ F!Becomes(d, F!Holding(d, F!Frame("chunk", d.of, 1), d.left - 1, "send"))
        /\ F!Unclear(d.left = 0) /\ F!DownloadKept /\ UNCHANGED outbox
    BY <1>12 DEF F!ReadChunk
  <2>2. F!Frame("chunk", d.of, 1) \in Told /\ d.left - 1 \in Int
    BY <1>3 DEF F!Frame, Told
  <2>3. DownloadsTyped'
    BY <1>6, <2>1, <2>2
  <2> QED
    BY <1>4, <1>5, <1>8, <2>1, <2>3 DEF Typed
<1>13. CASE F!ReadEnd(d)
  BY <1>4, <1>5, <1>7, <1>8, <1>13 DEF F!ReadEnd, Typed
<1>14. CASE F!DownloadSends(d)
  <2>1. /\ Len(outbox) < Capacity /\ outbox' = outbox \o d.out
        /\ \/ F!Becomes(d, [d EXCEPT !.out = <<>>, !.step = "read"])
           \/ F!Leaves(d)
        /\ F!DownloadKept /\ UNCHANGED <<parser, waiting, clear>>
    BY <1>14 DEF F!DownloadSends, F!view
  <2>2. outbox \o d.out \in Seq(Told) /\ Len(outbox \o d.out) <= Capacity
    BY <1>1, <1>2, <1>3, <2>1, QueueJoin DEF OutTyped
  <2>3. OutTyped'
    BY <1>1, <1>4, <2>1, <2>2 DEF OutTyped
  <2>4. ASSUME F!Becomes(d, [d EXCEPT !.out = <<>>, !.step = "read"]) PROVE DownloadsTyped'
    <3>1. <<>> \in Seq(Told) /\ Len(<<>>) <= 1 /\ <<>> \in Seq(F!Frames)
      BY NoFrame
    <3>2. /\ [d EXCEPT !.out = <<>>, !.step = "read"] \in F!Download
          /\ [d EXCEPT !.out = <<>>, !.step = "read"].out = <<>>
      BY <1>3, <3>1 DEF F!Download
    <3> QED
      BY <1>1, <2>4, <3>1, <3>2 DEF F!Becomes, DownloadsTyped
  <2> QED
    BY <1>4, <1>7, <1>9, <2>1, <2>3, <2>4 DEF Typed
<1>15. CASE F!DownloadSendFails(d) \/ F!DownloadAborted(d)
  <2>1. F!Leaves(d) /\ F!DownloadKept /\ UNCHANGED <<outbox, parser, waiting, clear>>
    BY <1>15 DEF F!DownloadSendFails, F!DownloadAborted, F!view
  <2> QED
    BY <1>4, <1>5, <1>7, <1>9, <2>1 DEF Typed
<1> QED
  BY <1>10, <1>11, <1>12, <1>13, <1>14, <1>15 DEF F!DownloadStep

\* Every step of the file manager keeps the types.
LEMMA ManagerTypes == Typed /\ F!Next => Typed'
  BY DashboardTypes, LoopTypes, DownloadTypes DEF F!Next, F!Progress

\* What no frame and no step of an upload disturbs.
LEMMA FollowedStays ==
    /\ UploadsFollowed
    /\ UNCHANGED <<inbox, sending, upload, lacking, refused, issued, failed, misread>>
    /\ ending' # "broken" => ending # "broken"
    => UploadsFollowed'
  BY DEF UploadsFollowed, Followed

\* The stages that follow a frame tell that uploads are followed.
LEMMA FollowedNow ==
    ASSUME NEW stage \in Stages(inbox, sending)',
           stage[1] = upload' =>
              /\ OwnNumbers(inbox', stage[1], issued')
              /\ Lacks(inbox', stage, issued', lacking', refused'),
           stage[1] # upload' => upload' = F!Nothing /\ failed'
    PROVE  UploadsFollowed'
<1>1. Followed(inbox, stage)'
  BY DEF Followed
<1> QED
  BY <1>1 DEF UploadsFollowed

\* A frame that is taken from the inbox when the agent's upload is the one
\* that the frames lead from.
LEMMA TakenOn ==
    ASSUME Typed, F!Taken, NEW stage \in Stages(inbox, sending),
           stage[1] = upload, Followed(inbox, stage),
           \A u \in F!Commands :
              /\ u # upload.of
              /\ ~(Head(inbox).kind = "upload" /\ Head(inbox).of = u)
              => lacking'[u] = lacking[u] /\ (u \in refused' <=> u \in refused),
           \/ /\ stage[2] = upload'
              /\ stage[2] # F!Nothing /\ stage[2].of \notin refused' =>
                    Brings(Tail(inbox), After(inbox, stage), 1, lacking'[stage[2].of])
           \/ upload' = F!Nothing /\ failed'
    PROVE  UploadsFollowed'
<1> DEFINE next == After(inbox, stage)
<1>1. /\ inbox \in Seq(Asked) /\ inbox # <<>> /\ inbox' = Tail(inbox)
      /\ sending \in Uploads /\ sending' = sending /\ issued \in Nat /\ issued' = issued
  BY DEF Typed, StreamTyped, DashboardTyped, F!Taken, F!StreamKept
<1>2. /\ next \in Stages(Tail(inbox), sending) /\ Len(inbox) \in Nat \ {0}
      /\ \A i \in 1 .. Len(inbox) : next[i] = stage[i + 1]
  BY <1>1, StagesTail
<1>3. next[1] = stage[2]
  BY <1>2
<1>4. next \in Stages(inbox, sending)'
  BY <1>1, <1>2
<1>5. OwnNumbers(inbox, stage[1], issued) /\ Lacks(inbox, stage, issued, lacking, refused)
  BY DEF Followed
<1>6. ASSUME stage[2] = upload'
      PROVE  /\ OwnNumbers(Tail(inbox), stage[2], issued)
             /\ Lacks(Tail(inbox), next, issued, lacking', refused')
  <2>1. stage[2] # F!Nothing /\ stage[2].of \notin refused' =>
           Brings(Tail(inbox), After(inbox, stage), 1, lacking'[stage[2].of])
    BY <1>6
  <2>2. PICK units, bad : units = lacking' /\ bad = refused'
    OBVIOUS
  <2> QED
    BY <1>1, <1>5, <2>1, <2>2, TakenKeeps
<1> HIDE DEF next
<1>7. next[1] # upload' => upload' = F!Nothing /\ failed'
  BY <1>3
<1> QED
  BY <1>1, <1>3, <1>4, <1>6, <1>7, FollowedNow

\* The same when the agent has given up that upload: the frame is empty.
LEMMA TakenOff ==
    ASSUME Typed, F!Taken, NEW stage \in Stages(inbox, sending),
           stage[1] # upload, Followed(inbox, stage),
           Head(inbox).kind = "empty", upload' = upload, failed' = failed
    PROVE  UploadsFollowed'
<1> DEFINE next == After(inbox, stage)
<1>1. /\ inbox \in Seq(Asked) /\ inbox # <<>> /\ inbox' = Tail(inbox)
      /\ sending \in Uploads /\ sending' = sending
  BY DEF Typed, StreamTyped, DashboardTyped, F!Taken, F!StreamKept
<1>2. /\ next \in Stages(Tail(inbox), sending) /\ Len(inbox) \in Nat \ {0}
      /\ \A i \in 1 .. Len(inbox) : next[i] = stage[i + 1]
      /\ Leads(stage[1], Head(inbox), stage[2])
  BY <1>1, StagesTail
<1>3. next[1] = stage[1]
  BY <1>2 DEF Leads
<1>4. next \in Stages(inbox, sending)'
  BY <1>1, <1>2
<1>5. upload = F!Nothing /\ failed
  BY DEF Followed
<1> HIDE DEF next
<1> QED
  BY <1>3, <1>4, <1>5, FollowedNow

\* A frame that arrives.
LEMMA ArrivedOn ==
    ASSUME Typed, UploadsFollowed, NEW f \in Asked, F!Arrives(f),
           NEW new \in Uploads, sending' = new, Leads(sending, f, new),
           NEW newMost \in Nat, issued' = newMost, issued <= newMost,
           f.kind = "upload" => issued < f.of /\ f.of <= newMost,
           \A u \in F!Commands :
              lacking'[u] = IF f.kind = "data" /\ sending.of = u THEN lacking[u] + f.size
                            ELSE lacking[u]
    PROVE  UploadsFollowed'
<1>1. /\ inbox \in Seq(Asked) /\ inbox' = Append(inbox, f) /\ ending = "open"
      /\ UNCHANGED <<ending, upload, refused, failed, misread>>
      /\ sending \in Uploads /\ sending.of <= issued /\ issued \in Nat
      /\ lacking \in [F!Commands -> Int]
  BY DEF Typed, StreamTyped, DashboardTyped, UploadTyped, F!Arrives
<1> SUFFICES ASSUME ~misread PROVE UploadsFollowed'
  BY <1>1 DEF UploadsFollowed
<1>2. PICK stage \in Stages(inbox, sending) : Followed(inbox, stage)
  BY <1>1 DEF UploadsFollowed
<1> DEFINE next == With(inbox, stage, new)
<1>3. /\ next \in Stages(Append(inbox, f), new)
      /\ \A i \in 1 .. Len(inbox) + 1 : next[i] = stage[i]
  BY <1>1, StagesAppend
<1>4. next[1] = stage[1]
  BY <1>1, <1>3, LenProperties
<1>5. next \in Stages(inbox, sending)'
  BY <1>1, <1>3
<1>6. ASSUME stage[1] = upload
      PROVE  /\ OwnNumbers(Append(inbox, f), stage[1], newMost)
             /\ Lacks(Append(inbox, f), next, newMost, lacking', refused)
  <2>1. OwnNumbers(inbox, stage[1], issued) /\ Lacks(inbox, stage, issued, lacking, refused)
    BY <1>2, <1>6 DEF Followed
  <2>2. PICK units : units = lacking'
    OBVIOUS
  <2> QED
    BY <1>1, <2>1, <2>2, SentKeeps
<1> HIDE DEF next
<1>7. stage[1] # upload => upload = F!Nothing /\ failed
  BY <1>2 DEF Followed
<1> QED
  BY <1>1, <1>4, <1>5, <1>6, <1>7, FollowedNow

\* No upload is answered untruly, and nothing is misread before a failure.
Truths == ~untrue /\ (misread => failed)

\* What the dashboard does is followed.
LEMMA DashboardFollowed ==
    Typed /\ Truths /\ UploadsFollowed /\ F!Dashboard => Truths' /\ UploadsFollowed'
<1> SUFFICES ASSUME Typed, Truths, UploadsFollowed, F!Dashboard
             PROVE  Truths' /\ UploadsFollowed'
  OBVIOUS
<1>1. MaxSize \in Nat /\ MaxCommands \in Nat
  BY TaskRunAssumption DEF F!FileManagerAssumption
<1>2. /\ sending \in Uploads /\ sending.of <= issued /\ issued \in Nat /\ issued \in 0 .. MaxCommands
      /\ lacking \in [F!Commands -> Int]
  BY <1>1 DEF Typed, DashboardTyped, UploadTyped
<1>3. UNCHANGED <<failed, untrue, misread>> => Truths'
  BY DEF Truths
<1>4. ASSUME NEW kind \in {"list", "download", "other", "upload"}, NEW size \in 0 .. MaxSize,
             kind # "upload" => size = 0, F!Command(kind, size)
      PROVE  Truths' /\ UploadsFollowed'
  <2> DEFINE f == F!Frame(kind, issued + 1, size)
             new == IF kind = "upload" /\ size > 0
                    THEN [of |-> issued + 1, left |-> size] ELSE F!Nothing
  <2>1. /\ issued < MaxCommands /\ F!Arrives(f)
        /\ issued' = issued + 1 /\ UNCHANGED lacking /\ sending = F!Nothing /\ sending' = new
    BY <1>4 DEF F!Command
  <2>2. issued + 1 \in F!Commands /\ issued + 1 \in Nat
    BY <1>1, <1>2, <2>1 DEF F!Commands
  <2>3. f \in Asked
    BY <1>1, <1>4, <2>2 DEF F!Frame, Asked
  <2>4. f.kind = kind /\ f.of = issued + 1 /\ f.size = size
    BY DEF F!Frame
  <2>5. new \in Uploads
    BY <1>1, <1>4, <2>2 DEF Uploads
  <2>6. Leads(sending, f, new)
    BY <1>4, <2>1, <2>4 DEF Leads
  <2>7. UNCHANGED <<failed, untrue, misread>>
    BY <2>1 DEF F!Arrives
  <2> HIDE DEF f, new
  <2>8. UploadsFollowed'
    BY <1>2, <1>4, <2>1, <2>2, <2>3, <2>4, <2>5, <2>6, ArrivedOn
  <2> QED
    BY <1>3, <2>7, <2>8
<1>5. ASSUME NEW size \in 1 .. MaxSize, F!SendData(size) PROVE Truths' /\ UploadsFollowed'
  <2> DEFINE f == F!Frame("data", sending.of, size)
             new == IF size >= sending.left THEN F!Nothing
                    ELSE [sending EXCEPT !.left = @ - size]
  <2>1. /\ sending # F!Nothing /\ F!Arrives(f) /\ sending' = new
        /\ lacking' = [lacking EXCEPT ![sending.of] = @ + size] /\ issued' = issued
    BY <1>5 DEF F!SendData
  <2>2. sending \in [of: F!Commands, left: 1 .. MaxSize]
    BY <1>2, <2>1 DEF Uploads
  <2>3. f \in Asked
    BY <1>1, <2>2 DEF F!Frame, Asked
  <2>4. f.kind = "data" /\ f.of = sending.of /\ f.size = size
    BY DEF F!Frame
  <2>5. new = (IF size >= sending.left THEN F!Nothing
               ELSE [of |-> sending.of, left |-> sending.left - size])
    <3>1. ~(size >= sending.left) =>
             [sending EXCEPT !.left = @ - size] = [of |-> sending.of, left |-> sending.left - size]
      BY <2>2
    <3> QED
      BY <3>1
  <2>6. new \in Uploads
    <3>1. CASE size >= sending.left
      BY <2>5, <3>1, NothingOf
    <3>2. CASE ~(size >= sending.left)
      <4>1. sending.left - size \in 1 .. MaxSize /\ sending.of \in F!Commands
        BY <1>1, <2>2, <3>2
      <4> QED
        BY <2>5, <3>2, <4>1 DEF Uploads
    <3> QED
      BY <3>1, <3>2
  <2> HIDE DEF new
  <2>7. Leads(sending, f, new)
    BY <2>1, <2>4, <2>5 DEF Leads
  <2>8. UNCHANGED <<failed, untrue, misread>>
    BY <2>1 DEF F!Arrives
  <2> HIDE DEF f
  <2>9. \A u \in F!Commands :
           lacking'[u] = IF f.kind = "data" /\ sending.of = u THEN lacking[u] + f.size
                         ELSE lacking[u]
    BY <1>2, <2>1, <2>2, <2>4
  <2>10. UploadsFollowed'
    BY <1>2, <2>1, <2>3, <2>4, <2>6, <2>7, <2>9, ArrivedOn
  <2> QED
    BY <1>3, <2>8, <2>10
<1>6. CASE F!SendEmpty
  <2>1. F!Arrives(F!KeepAlive) /\ UNCHANGED <<lacking, issued, sending>>
    BY <1>6 DEF F!SendEmpty
  <2>2. F!KeepAlive \in Asked /\ F!KeepAlive.kind = "empty"
    BY DEF Asked, F!KeepAlive, F!Frame
  <2>3. Leads(sending, F!KeepAlive, sending)
    BY <2>2 DEF Leads
  <2>4. UNCHANGED <<failed, untrue, misread>>
    BY <2>1 DEF F!Arrives
  <2>5. UploadsFollowed'
    BY <1>2, <2>1, <2>2, <2>3, ArrivedOn
  <2> QED
    BY <1>3, <2>4, <2>5
<1>7. CASE F!Ends
  <2>1. /\ UNCHANGED <<sending, upload, lacking, refused, issued, failed, untrue, misread>>
        /\ \/ ending' = "broken"
           \/ ending = "open" /\ UNCHANGED inbox
    BY <1>7 DEF F!Ends, F!agent, F!client
  <2>2. UploadsFollowed'
    <3>1. CASE ending' = "broken"
      BY <3>1 DEF UploadsFollowed
    <3>2. CASE ending = "open" /\ UNCHANGED inbox
      BY <2>1, <3>2, FollowedStays
    <3> QED
      BY <2>1, <3>1, <3>2
  <2> QED
    BY <1>3, <2>1, <2>2
<1>8. CASE F!Cuts \/ F!Reads
  <2>1. UNCHANGED <<inbox, ending, sending, upload, lacking, refused, issued, failed, untrue,
                    misread>>
    BY <1>8 DEF F!Cuts, F!Reads, F!agent, F!client
  <2> QED
    BY <1>3, <2>1, FollowedStays
<1> QED
  BY <1>1, <1>4, <1>5, <1>6, <1>7, <1>8 DEF F!Dashboard

\* What the loop sends, and what the downloads do, has nothing to do with it;
\* the end of the stream fails the upload that is under way.
LEMMA OthersFollowed ==
    ASSUME Typed, Truths, UploadsFollowed,
           \/ F!Send \/ F!SendFails \/ F!Drained \/ F!KeepAliveDue \/ F!StreamEnds
           \/ \E d \in downloads : F!DownloadStep(d)
    PROVE  Truths' /\ UploadsFollowed'
<1>1. ASSUME UNCHANGED <<inbox, ending, sending, upload, lacking, refused, issued, failed,
                         untrue, misread>>
      PROVE  Truths' /\ UploadsFollowed'
  BY <1>1, FollowedStays DEF Truths
<1>2. CASE F!Send \/ F!SendFails \/ F!Drained
  BY <1>1, <1>2 DEF F!Send, F!SendFails, F!Drained, F!Finishes, F!FilesKept
<1>3. CASE F!KeepAliveDue
  BY <1>1, <1>3 DEF F!KeepAliveDue, F!LoopKept, F!StreamKept
<1>4. CASE \E d \in downloads : F!DownloadStep(d)
  <2>1. PICK d \in downloads : F!DownloadStep(d)
    BY <1>4
  <2>2. F!DownloadKept
    BY <2>1 DEF F!DownloadStep, F!Open, F!OpenAs, F!DownloadFails, F!ReadChunk, F!ReadEnd,
                F!DownloadSends, F!DownloadSendFails, F!DownloadAborted
  <2> QED
    BY <1>1, <2>2 DEF F!DownloadKept, F!FilesKept
<1>5. CASE F!StreamEnds
  <2>1. /\ upload' = F!Nothing
        /\ UNCHANGED <<ending, issued, sending, inbox, lacking, refused, untrue, misread>>
        /\ upload = F!Nothing => failed' = failed
        /\ upload # F!Nothing => failed' = TRUE
    BY <1>5 DEF F!StreamEnds, F!LoopKept, F!StreamKept
  <2>2. CASE upload = F!Nothing
    BY <1>1, <2>1, <2>2
  <2>3. CASE upload # F!Nothing
    <3>1. failed' = TRUE
      BY <2>1, <2>3
    <3>2. Truths'
      BY <2>1, <3>1 DEF Truths
    <3>3. ASSUME ending # "broken", ~misread PROVE UploadsFollowed'
      <4>1. PICK stage \in Stages(inbox, sending) : Followed(inbox, stage)
        BY <3>3 DEF UploadsFollowed
      <4>2. stage[1] = upload
        BY <2>3, <4>1 DEF Followed
      <4>3. stage \in Stages(inbox, sending)'
        BY <2>1, <4>1
      <4> QED
        BY <2>1, <2>3, <3>1, <4>2, <4>3, FollowedNow
    <3>4. UploadsFollowed'
      BY <2>1, <3>3 DEF UploadsFollowed
    <3> QED
      BY <3>2, <3>4
  <2> QED
    BY <2>2, <2>3
<1> QED
  BY <1>2, <1>3, <1>4, <1>5

\* What the loop takes is followed, or else misread after a failure.
LEMMA TakenFollowed ==
    ASSUME Typed, Truths, UploadsFollowed, Typed',
           \/ F!TakeEmpty \/ F!TakeData \/ F!TakeDataFails \/ F!TakeList \/ F!TakeDownload
           \/ (\E size \in 0 .. MaxSize : F!TakeUpload(size)) \/ F!TakeUploadFails
           \/ F!TakeOther
    PROVE  Truths' /\ UploadsFollowed'
<1> DEFINE f == Head(inbox)
<1>1. /\ F!Taken /\ (misread => misread') /\ (failed => failed')
      /\ misread \in BOOLEAN /\ failed \in BOOLEAN
  <2>1. F!Taken
    BY DEF F!TakeEmpty, F!TakeData, F!WriteData, F!TakeDataFails, F!TakeAsData, F!TakeList,
           F!TakeDownload, F!TakeUpload, F!TakeUploadFails, F!TakeOther, F!TakeCommand
  <2>2. misread => misread'
    BY DEF F!TakeEmpty, F!TakeData, F!WriteData, F!TakeDataFails, F!TakeAsData, F!TakeList,
           F!TakeDownload, F!TakeUpload, F!TakeUploadFails, F!TakeOther, F!TakeCommand,
           F!Misreads, F!agent
  <2>3. failed => failed'
    BY DEF F!TakeEmpty, F!TakeData, F!WriteData, F!TakeDataFails, F!TakeList,
           F!TakeDownload, F!TakeUpload, F!TakeUploadFails, F!TakeOther, F!AnswerUpload, F!agent
  <2> QED
    BY <2>1, <2>2, <2>3 DEF Typed, TruthTyped
<1>2. /\ inbox \in Seq(Asked) /\ inbox # <<>> /\ inbox' = Tail(inbox) /\ f \in Asked
      /\ sending \in Uploads /\ upload \in Uploads /\ ending # "broken" /\ ending' = ending
      /\ lacking \in [F!Commands -> Int] /\ refused \in SUBSET F!Commands
  BY <1>1, HeadTailProperties
     DEF Typed, StreamTyped, UploadTyped, DashboardTyped, F!Taken, F!StreamKept
<1>3. ASSUME misread' PROVE ~untrue' /\ UploadsFollowed'
  <2>1. untrue' = untrue \/ \E u, ok, lack : F!AnswerUpload(u, ok, lack)
    BY DEF F!TakeEmpty, F!TakeData, F!WriteData, F!TakeDataFails, F!TakeList, F!TakeDownload,
           F!TakeUpload, F!TakeUploadFails, F!TakeOther, F!agent
  <2>2. ASSUME NEW u, NEW ok, NEW lack, F!AnswerUpload(u, ok, lack) PROVE ~untrue'
    <3>1. untrue' = (untrue \/ (ok /\ lack # 0 /\ ~misread'))
      BY <2>2 DEF F!AnswerUpload
    <3> QED
      BY <1>3, <3>1 DEF Truths
  <2>3. ~untrue'
    BY <2>1, <2>2 DEF Truths
  <2> QED
    BY <1>3, <2>3 DEF UploadsFollowed
<1>4. ASSUME misread', failed PROVE Truths' /\ UploadsFollowed'
  BY <1>1, <1>3, <1>4 DEF Truths
<1>5. CASE misread
  BY <1>1, <1>4, <1>5 DEF Truths
<1>6. CASE ~misread
  <2>1. PICK stage \in Stages(inbox, sending) : Followed(inbox, stage)
    BY <1>2, <1>6 DEF UploadsFollowed
  <2>2. /\ Leads(stage[1], f, stage[2]) /\ stage[1] \in Uploads /\ stage[2] \in Uploads
    BY <1>2, StagesTail
  <2>3. /\ f.kind \in {"empty", "upload", "data", "list", "download", "other"}
        /\ f.kind = "empty" <=> f = F!KeepAlive
        /\ f.kind \in {"upload", "data", "list", "download", "other"} => f.of \in F!Commands
        /\ f.size \in Nat
    BY <1>2, AskedFields
  <2>4. /\ f.kind = "data" => stage[1] # F!Nothing /\ f.of = stage[1].of
        /\ f.kind \notin {"empty", "data"} => stage[1] = F!Nothing
    BY <1>2, <2>2, LeadsTo
  <2>5. stage[1] # upload => upload = F!Nothing /\ failed
    BY <2>1 DEF Followed
  <2>6. upload # F!Nothing => upload.of \in F!Commands /\ upload.left \in 1 .. MaxSize
    BY <1>2, UploadFields
  <2>7. ASSUME stage[1] = upload, upload # F!Nothing, upload.of \notin refused
        PROVE  Brings(inbox, stage, 1, lacking[upload.of])
    BY <2>1, <2>7 DEF Followed, Lacks
  <2>8. ASSUME UNCHANGED <<untrue, failed, misread>> PROVE Truths'
    BY <2>8 DEF Truths
  <2> HIDE DEF f
  <2>9. CASE F!TakeEmpty
    <3>1. /\ f = F!KeepAlive
          /\ UNCHANGED <<upload, lacking, refused, failed, untrue, misread>>
      BY <2>9 DEF F!TakeEmpty, F!First, F!agent, f
    <3>2. f.kind = "empty" /\ stage[2] = stage[1]
      BY <2>2, <2>3, <3>1 DEF Leads
    <3>3. CASE stage[1] = upload
      <4>1. stage[2] # F!Nothing /\ stage[2].of \notin refused =>
               Brings(Tail(inbox), After(inbox, stage), 1, lacking[stage[2].of])
        BY <1>2, <2>7, <3>2, <3>3, BringsNow DEF f
      <4>2. UploadsFollowed'
        BY <1>1, <2>1, <3>1, <3>2, <3>3, <4>1, TakenOn
      <4> QED
        BY <2>8, <3>1, <4>2
    <3>4. CASE stage[1] # upload
      <4>1. UploadsFollowed'
        BY <1>1, <2>1, <3>1, <3>2, <3>4, TakenOff DEF f
      <4> QED
        BY <2>8, <3>1, <4>1
    <3> QED
      BY <3>3, <3>4
  \* While an upload is under way, only data of its own arrive.
  <2>10. ASSUME F!TakeAsData
         PROVE  /\ upload # F!Nothing /\ stage[1] = upload /\ f.kind = "data"
                /\ f.of = upload.of /\ F!SizeAsData(F!First) = f.size /\ misread' = misread
                /\ upload.of \in F!Commands /\ upload.left \in Nat \ {0}
                /\ stage[2] = IF f.size >= upload.left THEN F!Nothing
                              ELSE [of |-> upload.of, left |-> upload.left - f.size]
                /\ upload.of \notin refused =>
                      IF f.size >= upload.left THEN lacking[upload.of] = f.size
                      ELSE Brings(Tail(inbox), After(inbox, stage), 1,
                                    lacking[upload.of] - f.size)
    <3>1. upload # F!Nothing /\ f # F!KeepAlive /\ F!Misreads(f.kind # "data")
      BY <2>10 DEF F!TakeAsData, F!First, f
    <3>2. stage[1] = upload /\ f.kind = "data" /\ f.of = upload.of
      BY <2>3, <2>4, <2>5, <3>1
    <3>3. F!SizeAsData(F!First) = f.size
      BY <3>2 DEF F!SizeAsData, F!First, f
    <3>4. misread' = misread
      BY <1>1, <3>1, <3>2 DEF F!Misreads
    <3>5. stage[2] = IF f.size >= upload.left THEN F!Nothing
                     ELSE [of |-> upload.of, left |-> upload.left - f.size]
      BY <2>2, <3>2 DEF Leads
    <3>6. ASSUME upload.of \notin refused
          PROVE  IF f.size >= upload.left THEN lacking[upload.of] = f.size
                 ELSE Brings(Tail(inbox), After(inbox, stage), 1, lacking[upload.of] - f.size)
      <4>1. Brings(inbox, stage, 1, lacking[upload.of])
        BY <2>7, <3>1, <3>2, <3>6
      <4> QED
        BY <1>2, <3>1, <3>2, <4>1, BringsNow DEF f
    <3> QED
      BY <2>6, <3>1, <3>2, <3>3, <3>4, <3>5, <3>6
  \* An answer to upload u.
  <2>11. ASSUME NEW u \in F!Commands, NEW ok \in BOOLEAN, NEW lack, F!AnswerUpload(u, ok, lack),
                ok => lack = 0, misread' = misread
         PROVE  /\ Truths' /\ failed' = (failed \/ ~ok)
                /\ lacking' = [lacking EXCEPT ![u] = 0] /\ refused' = refused \ {u}
                /\ \A v \in F!Commands : v # u =>
                      lacking'[v] = lacking[v] /\ (v \in refused' <=> v \in refused)
    <3>1. /\ failed' = (failed \/ ~ok) /\ untrue' = (untrue \/ (ok /\ lack # 0 /\ ~misread'))
          /\ lacking' = [lacking EXCEPT ![u] = 0] /\ refused' = refused \ {u}
      BY <2>11 DEF F!AnswerUpload
    <3>2. ~untrue'
      BY <2>11, <3>1 DEF Truths
    <3>3. misread' => failed'
      BY <1>6, <2>11
    <3> QED
      BY <1>2, <3>1, <3>2, <3>3 DEF Truths
  <2>12. CASE F!TakeData
    <3>1. F!TakeAsData /\ upload.of \notin refused
      BY <2>12 DEF F!TakeData, F!WriteData
    <3>2. CASE f.size >= upload.left
      <4>1. PICK ok \in BOOLEAN : /\ upload' = F!Nothing
                                  /\ F!AnswerUpload(upload.of, ok, lacking[upload.of] - f.size)
        BY <2>10, <2>12, <3>1, <3>2 DEF F!TakeData, F!WriteData
      <4>2. lacking[upload.of] - f.size = 0 /\ stage[2] = F!Nothing
        BY <1>2, <2>3, <2>10, <3>1, <3>2
      <4>3. /\ Truths'
            /\ \A v \in F!Commands : v # upload.of =>
                  lacking'[v] = lacking[v] /\ (v \in refused' <=> v \in refused)
        BY <2>10, <2>11, <3>1, <4>1, <4>2
      <4>4. UploadsFollowed'
        BY <1>1, <2>1, <2>10, <3>1, <4>1, <4>2, <4>3, TakenOn
      <4> QED
        BY <4>3, <4>4
    <3>3. CASE ~(f.size >= upload.left)
      <4>1. /\ upload' = [upload EXCEPT !.left = @ - f.size]
            /\ UNCHANGED <<untrue, failed>>
            /\ \/ refused' = refused \cup {upload.of} /\ UNCHANGED lacking
               \/ /\ lacking' = [lacking EXCEPT ![upload.of] = lacking[upload.of] - f.size]
                  /\ UNCHANGED refused
        BY <2>10, <2>12, <3>1, <3>3 DEF F!TakeData, F!WriteData
      <4>2. upload \in [of: F!Commands, left: 1 .. MaxSize]
        BY <1>2, <2>10, <3>1 DEF Uploads
      <4>3. stage[2] = upload' /\ stage[2].of = upload.of
        BY <2>10, <3>1, <3>3, <4>1, <4>2
      <4>4. stage[2].of \notin refused' =>
               Brings(Tail(inbox), After(inbox, stage), 1, lacking'[stage[2].of])
        <5> SUFFICES ASSUME upload.of \notin refused'
                     PROVE  Brings(Tail(inbox), After(inbox, stage), 1, lacking'[upload.of])
          BY <4>3
        <5>1. lacking' = [lacking EXCEPT ![upload.of] = lacking[upload.of] - f.size]
          BY <4>1
        <5>2. lacking'[upload.of] = lacking[upload.of] - f.size
          BY <1>2, <2>10, <3>1, <5>1
        <5> QED
          BY <2>10, <3>1, <3>3, <5>2
      <4>5. \A v \in F!Commands : v # upload.of =>
               lacking'[v] = lacking[v] /\ (v \in refused' <=> v \in refused)
        BY <1>2, <4>1
      <4>6. UploadsFollowed'
        BY <1>1, <2>1, <2>10, <3>1, <4>3, <4>4, <4>5, TakenOn
      <4> QED
        BY <2>8, <2>10, <3>1, <4>1, <4>6
    <3> QED
      BY <3>2, <3>3
  <2>13. CASE F!TakeDataFails
    <3>1. F!TakeAsData /\ upload' = F!Nothing /\ F!AnswerUpload(upload.of, FALSE, 0)
      BY <2>13 DEF F!TakeDataFails
    <3>2. /\ Truths' /\ failed'
          /\ \A v \in F!Commands : v # upload.of =>
                lacking'[v] = lacking[v] /\ (v \in refused' <=> v \in refused)
      BY <2>10, <2>11, <3>1
    <3>3. UploadsFollowed'
      BY <1>1, <2>1, <2>10, <3>1, <3>2, TakenOn
    <3> QED
      BY <3>2, <3>3
  \* Without an upload a command is one, or else there was a failure.
  <2>14. ASSUME NEW kind \in {"list", "download", "upload", "other"}, F!TakeCommand(kind)
         PROVE  \/ misread' /\ failed
                \/ /\ stage[1] = F!Nothing /\ upload = F!Nothing /\ stage[1] = upload
                   /\ f.kind = kind /\ misread' = misread
    <3>1. /\ upload = F!Nothing /\ f.kind \in {kind, "data"} /\ misread' = (misread \/ f.kind = "data")
      BY <2>14 DEF F!TakeCommand, F!First, F!Misreads, f
    <3>2. CASE f.kind = "data"
      BY <2>4, <2>5, <3>1, <3>2
    <3>3. CASE f.kind # "data"
      <4>1. f.kind = kind /\ stage[1] = F!Nothing
        BY <2>4, <3>1, <3>3
      <4>2. misread' = misread
        BY <1>1, <3>1, <3>3
      <4> QED
        BY <3>1, <4>1, <4>2
    <3> QED
      BY <3>2, <3>3
  <2>15. CASE F!TakeList \/ F!TakeDownload \/ F!TakeOther
    <3>1. PICK kind \in {"list", "download", "other"} : F!TakeCommand(kind)
      BY <2>15 DEF F!TakeList, F!TakeDownload, F!TakeOther
    <3>2. UNCHANGED <<upload, lacking, refused, failed, untrue>>
      BY <2>15 DEF F!TakeList, F!TakeDownload, F!TakeOther
    <3>3. CASE misread' /\ failed
      BY <1>4, <3>3
    <3>4. CASE ~(misread' /\ failed)
      <4>1. stage[1] = F!Nothing /\ stage[1] = upload /\ f.kind = kind /\ misread' = misread
        BY <2>14, <3>1, <3>4
      <4>2. stage[2] = F!Nothing
        BY <2>2, <3>1, <4>1 DEF Leads
      <4>3. UploadsFollowed'
        BY <1>1, <2>1, <3>2, <4>1, <4>2, TakenOn
      <4> QED
        BY <2>8, <3>2, <4>1, <4>3
    <3> QED
      BY <3>3, <3>4
  <2>16. ASSUME F!TakeCommand("upload"), ~(misread' /\ failed)
         PROVE  /\ stage[1] = F!Nothing /\ stage[1] = upload /\ f.kind = "upload"
                /\ misread' = misread /\ f.of \in F!Commands
                /\ stage[2] = IF f.size > 0 THEN [of |-> f.of, left |-> f.size] ELSE F!Nothing
                /\ IF f.size > 0
                   THEN Brings(Tail(inbox), After(inbox, stage), 1, lacking[f.of])
                   ELSE lacking[f.of] = 0
    <3>1. stage[1] = F!Nothing /\ stage[1] = upload /\ f.kind = "upload" /\ misread' = misread
      BY <2>14, <2>16
    <3>2. /\ f.of \in F!Commands
          /\ stage[2] = IF f.size > 0 THEN [of |-> f.of, left |-> f.size] ELSE F!Nothing
      BY <2>2, <2>3, <3>1 DEF Leads
    <3>3. Len(inbox) \in Nat \ {0} /\ inbox[1] = f
      BY <1>2, StagesTail DEF f
    <3>4. 1 \in 1 .. Len(inbox) /\ 1 + 1 = 2
      BY <3>3
    <3>5. IF f.size > 0 THEN Brings(inbox, stage, 1 + 1, lacking[f.of])
          ELSE lacking[f.of] = 0
      BY <2>1, <3>1, <3>3, <3>4 DEF Followed, Lacks
    <3>6. f.size > 0 => Brings(Tail(inbox), After(inbox, stage), 1, lacking[f.of])
      BY <1>2, <3>4, <3>5, BringsLater
    <3> QED
      BY <3>1, <3>2, <3>5, <3>6
  <2>17. ASSUME NEW size \in 0 .. MaxSize, F!TakeUpload(size) PROVE Truths' /\ UploadsFollowed'
    <3>1. F!TakeCommand("upload") /\ (f.kind = "upload" => size = f.size)
      BY <2>17 DEF F!TakeUpload, F!First, f
    <3>2. CASE misread' /\ failed
      BY <1>4, <3>2
    <3>3. CASE ~(misread' /\ failed) /\ size = 0
      <4>1. PICK ok \in BOOLEAN : F!AnswerUpload(f.of, ok, lacking[f.of]) /\ UNCHANGED upload
        BY <2>17, <3>3 DEF F!TakeUpload, F!First, f
      <4>2. lacking[f.of] = 0 /\ stage[2] = F!Nothing
        BY <2>16, <3>1, <3>3
      <4>3. /\ Truths'
            /\ \A v \in F!Commands : v # f.of =>
                  lacking'[v] = lacking[v] /\ (v \in refused' <=> v \in refused)
        BY <2>11, <2>16, <3>1, <3>3, <4>1, <4>2
      <4>4. \A v \in F!Commands :
               v # upload.of /\ ~(Head(inbox).kind = "upload" /\ Head(inbox).of = v) =>
                  lacking'[v] = lacking[v] /\ (v \in refused' <=> v \in refused)
        BY <2>16, <3>1, <3>3, <4>3 DEF f
      <4>5. UploadsFollowed'
        BY <1>1, <2>1, <2>16, <3>1, <3>3, <4>1, <4>2, <4>4, TakenOn
      <4> QED
        BY <4>3, <4>5
    <3>4. CASE ~(misread' /\ failed) /\ size # 0
      <4>1. upload' = [of |-> f.of, left |-> size] /\ UNCHANGED <<lacking, refused, failed, untrue>>
        BY <2>17, <3>4 DEF F!TakeUpload, F!First, f
      <4>2. f.size > 0 /\ size = f.size
        BY <2>3, <2>16, <3>1, <3>4
      <4>3. stage[2] = upload' /\ stage[2].of = f.of
        BY <2>16, <3>1, <3>4, <4>1, <4>2
      <4>4. Brings(Tail(inbox), After(inbox, stage), 1, lacking'[stage[2].of])
        BY <2>16, <3>1, <3>4, <4>1, <4>2, <4>3
      <4>5. UploadsFollowed'
        BY <1>1, <2>1, <2>16, <3>1, <3>4, <4>1, <4>3, <4>4, TakenOn
      <4> QED
        BY <2>8, <2>16, <3>1, <3>4, <4>1, <4>5
    <3> QED
      BY <3>2, <3>3, <3>4
  <2>18. CASE F!TakeUploadFails
    <3>1. F!TakeCommand("upload") /\ F!AnswerUpload(f.of, FALSE, 0) /\ UNCHANGED upload
      BY <2>18 DEF F!TakeUploadFails, F!First, f
    <3>2. CASE misread' /\ failed
      BY <1>4, <3>2
    <3>3. CASE ~(misread' /\ failed)
      <4>1. /\ Truths' /\ failed'
            /\ \A v \in F!Commands : v # f.of =>
                  lacking'[v] = lacking[v] /\ (v \in refused' <=> v \in refused)
        BY <2>11, <2>16, <3>1, <3>3
      <4>2. \A v \in F!Commands :
               v # upload.of /\ ~(Head(inbox).kind = "upload" /\ Head(inbox).of = v) =>
                  lacking'[v] = lacking[v] /\ (v \in refused' <=> v \in refused)
        BY <2>16, <3>1, <3>3, <4>1 DEF f
      <4>3. upload' = F!Nothing
        BY <2>16, <3>1, <3>3
      <4>4. UploadsFollowed'
        BY <1>1, <2>1, <2>16, <3>1, <3>3, <4>1, <4>2, <4>3, TakenOn
      <4> QED
        BY <4>1, <4>4
    <3> QED
      BY <3>2, <3>3
  <2> QED
    BY <2>9, <2>12, <2>13, <2>15, <2>17, <2>18
<1> QED
  BY <1>5, <1>6

\* What the frames to the dashboard are made of.
LEMMA ToldFields ==
    ASSUME NEW f \in Told
    PROVE  /\ f.kind \in {"empty", "header", "chunk", "answer"}
           /\ f.kind = "empty" <=> f = F!KeepAlive
           /\ f.kind # "empty" => f.of \in F!Commands /\ f.of # 0
           /\ f.kind = "header" => f.size \in 1 .. MaxSize
           /\ f.kind = "chunk" => f.size = 1
<1>1. MaxSize \in Nat /\ MaxCommands \in Nat
  BY TaskRunAssumption DEF F!FileManagerAssumption
<1> QED
  BY <1>1 DEF Told, F!KeepAlive, F!Frame, F!None, F!Commands

\* A view has what is expected before and after each frame.
LEMMA ViewFields ==
    ASSUME NEW q \in Seq(Told), NEW first, NEW view \in Views(q, first)
    PROVE  /\ Len(q) \in Nat /\ view \in [1 .. Len(q) + 1 -> Uploads]
           /\ view[1] = first /\ first \in Uploads
           /\ \A i \in 1 .. Len(q) : Parses(view[i], q[i], view[i + 1]) /\ q[i] \in Told
           /\ view[Len(q) + 1] \in Uploads
<1>1. Len(q) \in Nat /\ \A i \in 1 .. Len(q) : q[i] \in Told
  BY LenProperties, ElementOfSeq
<1> QED
  BY <1>1 DEF Views

\* What is expected of the frames but for the first.
LEMMA ViewsLess ==
    ASSUME NEW q \in Seq(Told), q # <<>>, NEW first, NEW view \in Views(q, first)
    PROVE  /\ After(q, view) \in Views(Tail(q), view[2])
           /\ Parses(first, Head(q), view[2]) /\ Head(q) \in Told /\ Head(q) = q[1]
           /\ Len(q) \in Nat \ {0} /\ Len(Tail(q)) = Len(q) - 1
           /\ \A i \in 1 .. Len(q) : After(q, view)[i] = view[i + 1]
           /\ \A i \in 1 .. Len(Tail(q)) : Tail(q)[i] = q[i + 1]
<1>1. /\ Len(q) \in Nat /\ view \in [1 .. Len(q) + 1 -> Uploads] /\ view[1] = first
      /\ \A i \in 1 .. Len(q) : Parses(view[i], q[i], view[i + 1]) /\ q[i] \in Told
  BY ViewFields
<1>2. /\ Len(q) \in Nat \ {0} /\ Len(Tail(q)) = Len(q) - 1 /\ Head(q) = q[1]
      /\ \A i \in 1 .. Len(Tail(q)) : Tail(q)[i] = q[i + 1]
  BY <1>1, HeadTailProperties, EmptySeq
<1> DEFINE next == After(q, view)
<1>3. next \in [1 .. Len(q) -> Uploads] /\ \A i \in 1 .. Len(q) : next[i] = view[i + 1]
  BY <1>1 DEF After
<1> HIDE DEF next
<1>4. \A i \in 1 .. Len(Tail(q)) : Parses(next[i], Tail(q)[i], next[i + 1])
  BY <1>1, <1>2, <1>3
<1>5. next[1] = view[2]
  BY <1>2, <1>3
<1>6. next \in Views(Tail(q), view[2])
  BY <1>2, <1>3, <1>4, <1>5 DEF Views
<1> QED
  BY <1>1, <1>2, <1>3, <1>6 DEF next

\* What is expected with a frame more.
LEMMA ViewsMore ==
    ASSUME NEW q \in Seq(Told), NEW f \in Told, NEW first, NEW view \in Views(q, first),
           NEW new \in Uploads, Parses(view[Len(q) + 1], f, new)
    PROVE  /\ With(q, view, new) \in Views(Append(q, f), first)
           /\ \A i \in 1 .. Len(q) + 1 : With(q, view, new)[i] = view[i]
           /\ With(q, view, new)[Len(q) + 2] = new
           /\ Len(q) \in Nat /\ Len(Append(q, f)) = Len(q) + 1
           /\ \A i \in 1 .. Len(q) : Append(q, f)[i] = q[i]
           /\ Append(q, f)[Len(q) + 1] = f
<1>1. /\ Len(q) \in Nat /\ view \in [1 .. Len(q) + 1 -> Uploads] /\ view[1] = first
      /\ \A i \in 1 .. Len(q) : Parses(view[i], q[i], view[i + 1]) /\ q[i] \in Told
  BY ViewFields
<1>2. /\ Len(Append(q, f)) = Len(q) + 1 /\ Append(q, f)[Len(q) + 1] = f
      /\ \A i \in 1 .. Len(q) : Append(q, f)[i] = q[i]
  BY AppendProperties, LenProperties
<1> DEFINE next == With(q, view, new)
<1>3. /\ next \in [1 .. Len(q) + 2 -> Uploads] /\ next[Len(q) + 2] = new
      /\ \A i \in 1 .. Len(q) + 1 : next[i] = view[i]
  BY <1>1 DEF With
<1> HIDE DEF next
<1>4. ASSUME NEW i \in 1 .. Len(q) + 1 PROVE Parses(next[i], Append(q, f)[i], next[i + 1])
  <2>1. CASE i <= Len(q)
    BY <1>1, <1>2, <1>3, <2>1
  <2>2. CASE i = Len(q) + 1
    <3>1. next[i] = view[Len(q) + 1] /\ next[i + 1] = new /\ Append(q, f)[i] = f
      BY <1>1, <1>2, <1>3, <2>2
    <3> QED
      BY <3>1
  <2> QED
    BY <1>1, <2>1, <2>2
<1>5. next \in Views(Append(q, f), first)
  BY <1>1, <1>2, <1>3, <1>4 DEF Views
<1> QED
  BY <1>1, <1>2, <1>3, <1>5 DEF next

\* Empty frames leave it at what is expected first.
LEMMA ViewsSilent ==
    ASSUME NEW q \in Seq(Told), Silent(q), NEW first \in Uploads
    PROVE  [i \in 1 .. Len(q) + 1 |-> first] \in Views(q, first)
<1>1. Len(q) \in Nat
  BY LenProperties
<1> QED
  BY <1>1 DEF Silent, Views, Parses

\* What leaves the frames on their way, and what is expected of them, alone.
LEMMA StillApart ==
    ASSUME TransfersKnown, UNCHANGED <<outbox, cut, garbled>>,
           loop' = "done" => downloads' = {},
           clear' /\ ~cut => clear /\ parser' = parser,
           \A view \in Views(outbox, parser) : clear' /\ ~cut /\ Apart(view) => Apart(view)'
    PROVE  TransfersKnown'
<1> SUFFICES ASSUME clear', ~cut PROVE \E view \in Views(outbox, parser)' : Apart(view)'
  BY DEF TransfersKnown
<1>1. PICK view \in Views(outbox, parser) : Apart(view)
  BY DEF TransfersKnown
<1>2. view \in Views(outbox, parser)'
  BY <1>1
<1> QED
  BY <1>1, <1>2

\* The inbox with a frame less, or with one more that has no answer, asks for
\* nothing new.
LEMMA AskedStays ==
    ASSUME Typed, AskedOnce, UNCHANGED <<outbox, parser, unsent, upload, downloads, waiting>>,
           \/ inbox' = inbox \/ inbox' = <<>>
           \/ inbox # <<>> /\ inbox' = Tail(inbox)
           \/ \E f \in Asked : inbox' = Append(inbox, f) /\ ~Answerable(f)
    PROVE  AskedOnce'
<1>1. inbox \in Seq(Asked) /\ Len(inbox) \in Nat
  BY LenProperties DEF Typed, StreamTyped
<1>2. NotBegun' <=> NotBegun
  BY DEF NotBegun, Unanswered, AllSpent
<1>3. CASE inbox' = inbox
  BY <1>2, <1>3 DEF AskedOnce
<1>4. CASE inbox' = <<>>
  BY <1>4 DEF AskedOnce
<1>5. CASE inbox # <<>> /\ inbox' = Tail(inbox)
  <2>1. /\ Len(inbox') = Len(inbox) - 1
        /\ \A i \in 1 .. Len(inbox') : inbox'[i] = inbox[i + 1] /\ i + 1 \in 1 .. Len(inbox)
    BY <1>1, <1>5, HeadTailProperties
  <2> QED
    BY <1>1, <1>2, <2>1 DEF AskedOnce
<1>6. ASSUME NEW f \in Asked, inbox' = Append(inbox, f), ~Answerable(f) PROVE AskedOnce'
  <2>1. /\ Len(inbox') = Len(inbox) + 1 /\ inbox'[Len(inbox) + 1] = f
        /\ \A i \in 1 .. Len(inbox) : inbox'[i] = inbox[i]
    BY <1>1, <1>6, AppendProperties
  <2>2. \A i \in 1 .. Len(inbox') : Answerable(inbox'[i]) => i \in 1 .. Len(inbox)
    BY <1>1, <1>6, <2>1
  <2> QED
    BY <1>1, <1>2, <2>1, <2>2 DEF AskedOnce
<1> QED
  BY <1>3, <1>4, <1>5, <1>6

\* Nothing has changed but the inbox, which asks for nothing new.
LEMMA ApartStays ==
    ASSUME Typed, UNCHANGED <<outbox, parser, unsent, upload, downloads, waiting>>,
           NEW view, Apart(view),
           \/ inbox' = inbox \/ inbox' = <<>>
           \/ inbox # <<>> /\ inbox' = Tail(inbox)
           \/ \E f \in Asked : inbox' = Append(inbox, f) /\ ~Answerable(f)
    PROVE  Apart(view)'
<1>1. AskedOnce'
  BY AskedStays DEF Apart
<1>2. (NotBegun' <=> NotBegun) /\ (AllSpent' <=> AllSpent) /\ (Unanswered' <=> Unanswered)
  BY DEF NotBegun, Unanswered, AllSpent
<1>3. OneWaits' /\ UploadAwaited' /\ AnswerAwaited' /\ FramesAwaited'
  BY <1>2 DEF Apart, OneWaits, UploadAwaited, AnswerAwaited, FramesAwaited
<1>4. CompleteLast(view)'
  BY <1>2 DEF Apart, CompleteLast
<1>5. DownloadsAwaited(view[Len(outbox) + 1])'
  BY <1>2 DEF Apart, DownloadsAwaited, Continues
<1> QED
  BY <1>1, <1>3, <1>4, <1>5 DEF Apart

\* The dashboard asks only when it waits for nothing, as long as it can tell
\* the frames apart.
LEMMA CommandKnown ==
    ASSUME Typed, TransfersKnown,
           NEW kind \in {"list", "download", "other", "upload"}, NEW size \in 0 .. MaxSize,
           F!Command(kind, size)
    PROVE  TransfersKnown'
<1> DEFINE f == F!Frame(kind, issued + 1, size)
<1>1. /\ clear' = (clear /\ waiting = {})
      /\ clear' => parser' = parser
            /\ waiting' = IF kind = "other" THEN waiting ELSE waiting \cup {issued + 1}
      /\ inbox' = Append(inbox, f)
      /\ UNCHANGED <<cut, outbox, loop, unsent, upload, downloads, garbled>>
  BY DEF F!Command, F!Expects, F!Arrives
<1>2. f.kind = kind /\ f.of = issued + 1
  BY DEF F!Frame
<1>3. /\ inbox \in Seq(Asked) /\ Len(inbox) \in Nat
      /\ Len(inbox') = Len(inbox) + 1 /\ inbox'[Len(inbox) + 1] = f
      /\ \A i \in 1 .. Len(inbox) : inbox'[i] = inbox[i]
  BY <1>1, LenProperties, AppendProperties DEF Typed, StreamTyped
<1> HIDE DEF f
<1>4. ASSUME NEW view \in Views(outbox, parser), clear', ~cut, Apart(view) PROVE Apart(view)'
  <2>1. /\ waiting = {} /\ parser' = parser
        /\ waiting' = IF kind = "other" THEN {} ELSE {issued + 1}
    BY <1>1, <1>4
  <2>2. /\ Silent(outbox) /\ Silent(unsent) /\ parser = F!Nothing /\ upload = F!Nothing
        /\ AllSpent /\ \A i \in 1 .. Len(inbox) : ~Answerable(inbox[i])
    BY <1>4, <2>1
       DEF Apart, FramesAwaited, AnswerAwaited, UploadAwaited, AskedOnce, DownloadsAwaited,
           Silent, AllSpent
  <2>3. NotBegun' /\ Silent(unsent)' /\ Silent(outbox)' /\ AllSpent'
    BY <1>1, <2>1, <2>2 DEF NotBegun, Unanswered, AllSpent, Silent
  <2>4. OneWaits' /\ UploadAwaited' /\ AnswerAwaited' /\ FramesAwaited'
    BY <1>1, <2>1, <2>2, <2>3
       DEF OneWaits, UploadAwaited, AnswerAwaited, FramesAwaited, Silent
  <2>5. ASSUME NEW i \in 1 .. Len(inbox'), Answerable(inbox'[i])
        PROVE  i = Len(inbox) + 1 /\ inbox'[i].of \in waiting'
    <3>1. i = Len(inbox) + 1
      BY <1>3, <2>2, <2>5
    <3>2. kind # "other"
      BY <1>2, <1>3, <2>5, <3>1 DEF Answerable
    <3> QED
      BY <1>2, <1>3, <2>1, <3>1, <3>2
  <2>6. AskedOnce'
    BY <1>1, <2>2, <2>3, <2>5 DEF AskedOnce
  <2>7. CompleteLast(view)' /\ DownloadsAwaited(view[Len(outbox) + 1])'
    <3>1. \A i \in 1 .. Len(outbox) : ~Completes(outbox[i], view[i + 1])
      BY <2>2 DEF Silent, Completes
    <3> QED
      BY <1>1, <2>2, <3>1 DEF CompleteLast, DownloadsAwaited, AllSpent
  <2> QED
    BY <2>4, <2>6, <2>7 DEF Apart
<1>5. loop' = "done" => downloads' = {}
  BY <1>1 DEF TransfersKnown
<1> QED
  BY <1>1, <1>4, <1>5, StillApart

\* What else the dashboard sends asks for nothing, and an end takes away what
\* was asked.
LEMMA DashboardKnown == Typed /\ TransfersKnown /\ F!Dashboard /\ ~F!Reads => TransfersKnown'
<1> SUFFICES ASSUME Typed, TransfersKnown, F!Dashboard, ~F!Reads PROVE TransfersKnown'
  OBVIOUS
<1>1. MaxSize \in Nat /\ MaxCommands \in Nat
  BY TaskRunAssumption DEF F!FileManagerAssumption
<1>2. CASE \/ F!Command("list", 0) \/ F!Command("download", 0) \/ F!Command("other", 0)
           \/ \E size \in 0 .. MaxSize : F!Command("upload", size)
  BY <1>1, <1>2, CommandKnown
<1>3. ASSUME UNCHANGED <<cut, outbox, loop, unsent, upload, downloads, garbled, parser, waiting, clear>>,
             \/ inbox' = inbox \/ inbox' = <<>>
             \/ \E f \in Asked : inbox' = Append(inbox, f) /\ ~Answerable(f)
      PROVE  TransfersKnown'
  <2>1. \A view \in Views(outbox, parser) : Apart(view) => Apart(view)'
    BY <1>3, ApartStays
  <2>2. loop' = "done" => downloads' = {}
    BY <1>3 DEF TransfersKnown
  <2> QED
    BY <1>3, <2>1, <2>2, StillApart
<1>4. ASSUME NEW size \in 1 .. MaxSize, F!SendData(size) PROVE TransfersKnown'
  <2> DEFINE f == F!Frame("data", sending.of, size)
  <2>1. f \in Asked /\ ~Answerable(f)
    <3>1. sending.of \in F!Commands
      BY <1>4, UploadFields DEF Typed, DashboardTyped, F!SendData
    <3> QED
      BY <3>1 DEF Asked, F!Frame, Answerable
  <2>2. /\ inbox' = Append(inbox, f)
        /\ UNCHANGED <<cut, outbox, loop, unsent, upload, downloads, garbled, parser, waiting, clear>>
    BY <1>4 DEF F!SendData, F!Arrives, F!view
  <2> HIDE DEF f
  <2> QED
    BY <1>3, <2>1, <2>2
<1>5. CASE F!SendEmpty
  <2>1. F!KeepAlive \in Asked /\ ~Answerable(F!KeepAlive)
    BY DEF Asked, F!KeepAlive, F!Frame, Answerable
  <2>2. /\ inbox' = Append(inbox, F!KeepAlive)
        /\ UNCHANGED <<cut, outbox, loop, unsent, upload, downloads, garbled, parser, waiting, clear>>
    BY <1>5 DEF F!SendEmpty, F!Arrives, F!view
  <2> QED
    BY <1>3, <2>1, <2>2
<1>6. CASE F!Ends
  BY <1>3, <1>6 DEF F!Ends, F!agent, F!client, F!view
<1>7. CASE F!Cuts
  BY <1>7 DEF F!Cuts, F!agent, F!client, F!view, TransfersKnown
<1> QED
  BY <1>2, <1>4, <1>5, <1>6, <1>7 DEF F!Dashboard

\* A frame that the dashboard reads is what it expects; with the last frame of
\* an answer it waits for nothing.
LEMMA ReadsKnown == Typed /\ TransfersKnown /\ F!Reads => TransfersKnown'
<1> SUFFICES ASSUME Typed, TransfersKnown, F!Reads PROVE TransfersKnown'
  OBVIOUS
<1> DEFINE f == Head(outbox)
           part == f.kind \in {"chunk", "answer"} /\ f.of = parser.of
           left == IF f.kind = "chunk" THEN parser.left - f.size ELSE 0
           stray == f.kind = "chunk" \/ parser # F!Nothing
           goesOn == f.kind \in {"header", "empty"} \/ (part /\ left > 0)
           next == CASE f.kind = "header" -> [of |-> f.of, left |-> f.size]
                     [] part -> IF left > 0 THEN [parser EXCEPT !.left = left] ELSE F!Nothing
                     [] OTHER -> parser
<1>1. /\ outbox # <<>> /\ outbox' = Tail(outbox) /\ clear' = clear
      /\ garbled' = (garbled \/ (clear /\ f.kind # "empty" /\ ~part /\ stray))
      /\ clear => parser' = next /\ waiting' = IF goesOn THEN waiting ELSE waiting \ {f.of}
      /\ UNCHANGED <<inbox, cut, loop, unsent, upload, downloads>>
  BY DEF F!Reads, F!Expects, F!agent
<1>2. ~cut /\ ~garbled /\ (loop' = "done" => downloads' = {})
  BY <1>1 DEF TransfersKnown
<1> SUFFICES ASSUME clear
             PROVE  ~garbled' /\ \E v \in Views(outbox, parser)' : Apart(v)'
  BY <1>1, <1>2 DEF TransfersKnown
<1>3. PICK view \in Views(outbox, parser) : Apart(view)
  BY <1>2 DEF TransfersKnown
<1>3a. PICK rest : rest = After(outbox, view)
  OBVIOUS
<1>4. /\ rest \in Views(Tail(outbox), view[2]) /\ Parses(parser, f, view[2]) /\ f \in Told
      /\ f = outbox[1] /\ Len(outbox) \in Nat \ {0} /\ Len(outbox') = Len(outbox) - 1
      /\ \A i \in 1 .. Len(outbox) : rest[i] = view[i + 1]
      /\ \A i \in 1 .. Len(outbox') : outbox'[i] = outbox[i + 1] /\ i + 1 \in 1 .. Len(outbox)
      /\ view \in [1 .. Len(outbox) + 1 -> Uploads] /\ view[1] = parser /\ parser \in Uploads
  BY <1>1, <1>3a, ViewsLess, ViewFields DEF Typed, OutTyped
<1>5. /\ f.kind \in {"empty", "header", "chunk", "answer"}
      /\ f.kind # "empty" => f.of \in F!Commands /\ f.of # 0
      /\ f.kind = "header" => f.size \in 1 .. MaxSize
      /\ f.kind = "chunk" => f.size = 1
  BY <1>4, ToldFields
<1>6. /\ parser.left \in Nat /\ parser.of \in Nat /\ (parser # F!Nothing => parser.left >= 1)
      /\ parser = F!Nothing <=> parser.of = 0
      /\ parser = [of |-> parser.of, left |-> parser.left]
  <2>1. parser = [of |-> parser.of, left |-> parser.left]
    BY <1>4 DEF Uploads, F!Nothing
  <2> QED
    BY <1>4, <2>1, UploadFields
<1>7. ~garbled'
  BY <1>1, <1>2, <1>4, <1>5, <1>6 DEF Parses
<1>8. parser' = view[2]
  <2>1. parser' = next
    BY <1>1
  <2>2. CASE f.kind = "header"
    BY <1>4, <2>1, <2>2 DEF Parses
  <2>3. CASE f.kind = "empty"
    BY <1>4, <2>1, <2>3 DEF Parses
  <2>4. CASE f.kind = "answer"
    <3>1. view[2] = F!Nothing /\ (parser = F!Nothing \/ f.of = parser.of)
      BY <1>4, <2>4 DEF Parses
    <3> QED
      BY <2>1, <2>4, <3>1
  <2>5. CASE f.kind = "chunk"
    <3>1. /\ f.of = parser.of
          /\ view[2] = IF parser.left > 1 THEN [of |-> parser.of, left |-> parser.left - 1]
                       ELSE F!Nothing
      BY <1>4, <2>5 DEF Parses
    <3>2. part /\ left = parser.left - 1
      BY <1>5, <2>5, <3>1
    <3>3. [parser EXCEPT !.left = left] = [of |-> parser.of, left |-> left]
      BY <1>6
    <3>4. next = IF left > 0 THEN [of |-> parser.of, left |-> left] ELSE F!Nothing
      BY <2>5, <3>2, <3>3
    <3> QED
      BY <1>6, <2>1, <3>1, <3>2, <3>4
  <2> QED
    BY <1>5, <2>2, <2>3, <2>4, <2>5
<1>9. rest \in Views(outbox, parser)'
  BY <1>1, <1>4, <1>8
<1>10. Completes(f, view[2]) <=> ~goesOn
  <2>1. CASE f.kind = "chunk"
    <3>1. /\ parser # F!Nothing /\ f.of = parser.of
          /\ view[2] = IF parser.left > 1 THEN [of |-> parser.of, left |-> parser.left - 1]
                       ELSE F!Nothing
      BY <1>4, <2>1 DEF Parses
    <3>2. parser.left > 1 => view[2] # F!Nothing
      BY <1>6, <3>1 DEF F!Nothing, F!None
    <3>3. goesOn <=> parser.left > 1
      BY <1>5, <1>6, <2>1, <3>1
    <3> QED
      BY <2>1, <3>1, <3>2, <3>3 DEF Completes
  <2>2. CASE f.kind # "chunk"
    BY <1>5, <2>2 DEF Completes
  <2> QED
    BY <2>1, <2>2
<1> DEFINE on == goesOn
<1> HIDE DEF on, next
<1>11. AllSpent' <=> AllSpent
  BY <1>1 DEF AllSpent
<1>12. CASE Completes(f, view[2])
  <2>1. AllSpent /\ \A j \in 2 .. Len(outbox) : outbox[j].kind = "empty"
    BY <1>3, <1>4, <1>12 DEF Apart, CompleteLast
  <2>2. f.kind # "empty" /\ ~Silent(outbox)
    BY <1>4, <1>12 DEF Completes, Silent
  <2>3. waiting' = {}
    <3>1. waiting' = waiting \ {f.of} /\ f.of \in waiting
      BY <1>1, <1>3, <1>4, <1>10, <1>12, <2>2 DEF Apart, FramesAwaited
    <3> QED
      BY <1>3, <3>1 DEF Apart, OneWaits
  <2>4. ~NotBegun
    BY <2>2 DEF NotBegun, Unanswered
  <2>5. /\ upload = F!Nothing /\ Silent(unsent)
        /\ \A i \in 1 .. Len(inbox) : ~Answerable(inbox[i])
    BY <1>3, <2>4 DEF Apart, AskedOnce, UploadAwaited, AnswerAwaited
  <2>6. \A i \in 1 .. Len(outbox') : outbox'[i].kind = "empty"
    BY <1>4, <2>1
  <2>7. view[2] = F!Nothing
    BY <1>4, <1>12 DEF Completes, Parses
  <2>8. OneWaits' /\ AskedOnce' /\ UploadAwaited' /\ AnswerAwaited' /\ FramesAwaited'
    BY <1>1, <1>8, <2>3, <2>5, <2>6, <2>7
       DEF OneWaits, AskedOnce, UploadAwaited, AnswerAwaited, FramesAwaited
  <2>9. CompleteLast(rest)' /\ DownloadsAwaited(rest[Len(outbox) + 1])'
    BY <1>11, <2>1, <2>6 DEF CompleteLast, DownloadsAwaited, AllSpent, Completes
  <2>10. Apart(rest)'
    BY <2>8, <2>9 DEF Apart
  <2> QED
    BY <1>7, <1>9, <2>10
<1>13. CASE ~Completes(f, view[2])
  <2>1. waiting' = waiting
    BY <1>1, <1>10, <1>13
  <2>2. ASSUME Unanswered PROVE Unanswered' /\ f.kind = "empty"
    <3>1. f.kind = "empty" /\ Silent(outbox) /\ parser = F!Nothing
      BY <1>4, <2>2 DEF Unanswered, Silent
    <3>2. parser' = F!Nothing
      BY <1>4, <1>8, <3>1 DEF Parses
    <3>3. Silent(outbox)'
      BY <1>4, <3>1 DEF Silent
    <3> QED
      BY <3>1, <3>2, <3>3 DEF Unanswered
  <2>3. NotBegun => NotBegun'
    BY <1>11, <2>2 DEF NotBegun
  <2>4. OneWaits' /\ UploadAwaited' /\ AnswerAwaited'
    BY <1>1, <1>3, <2>1, <2>3 DEF Apart, OneWaits, UploadAwaited, AnswerAwaited
  <2>5. AskedOnce'
    BY <1>1, <1>3, <2>1, <2>3 DEF Apart, AskedOnce
  <2>6. FramesAwaited'
    <3>1. \A i \in 1 .. Len(outbox') : outbox'[i].kind # "empty" => outbox'[i].of \in waiting'
      BY <1>3, <1>4, <2>1 DEF Apart, FramesAwaited
    <3>2. view[2] # F!Nothing => view[2].of \in waiting
      <4>1. CASE f.kind = "empty"
        BY <1>3, <1>4, <4>1 DEF Apart, FramesAwaited, Parses
      <4>2. CASE f.kind # "empty"
        <5>1. f.of \in waiting
          BY <1>3, <1>4, <4>2 DEF Apart, FramesAwaited
        <5> QED
          BY <1>4, <1>5, <4>2, <5>1 DEF Parses
      <4> QED
        BY <4>1, <4>2
    <3> QED
      BY <1>8, <2>1, <3>1, <3>2 DEF FramesAwaited
  <2>7. CompleteLast(rest)'
    <3>1. ASSUME NEW i \in 1 .. Len(outbox'), Completes(outbox'[i], rest[i + 1])
          PROVE  AllSpent /\ \A j \in i + 1 .. Len(outbox') : outbox'[j].kind = "empty"
      <4>1. i + 1 \in 1 .. Len(outbox) /\ Completes(outbox[i + 1], view[i + 1 + 1])
        BY <1>4, <3>1
      <4>2. AllSpent /\ \A j \in i + 1 + 1 .. Len(outbox) : outbox[j].kind = "empty"
        BY <1>3, <4>1 DEF Apart, CompleteLast
      <4>3. ASSUME NEW j \in i + 1 .. Len(outbox') PROVE outbox'[j].kind = "empty"
        <5>1. j \in 1 .. Len(outbox') /\ j + 1 \in i + 1 + 1 .. Len(outbox)
          BY <1>4
        <5> QED
          BY <1>4, <4>2, <5>1
      <4> QED
        BY <4>2, <4>3
    <3> QED
      BY <1>11, <3>1 DEF CompleteLast
  <2>8. DownloadsAwaited(rest[Len(outbox) + 1])'
    <3>1. rest[Len(outbox') + 1] = view[Len(outbox) + 1]
      BY <1>4
    <3>2. \A d \in downloads : \A last : Continues(d, last) => Continues(d, last)'
      BY <2>2 DEF Continues
    <3> QED
      BY <1>1, <1>3, <2>1, <3>1, <3>2 DEF Apart, DownloadsAwaited
  <2>9. Apart(rest)'
    BY <2>4, <2>5, <2>6, <2>7, <2>8 DEF Apart
  <2> QED
    BY <1>7, <1>9, <2>9
<1> QED
  BY <1>12, <1>13

\* What the loop has answered, it has taken from the inbox or from the upload.
LEMMA AnswersApart ==
    ASSUME Typed, NEW view, Apart(view), NotBegun, Silent(unsent),
           UNCHANGED <<outbox, parser, waiting, downloads>>,
           NEW u \in waiting, unsent' = <<F!Frame("answer", u, 0)>>,
           upload' = F!Nothing, \A i \in 1 .. Len(inbox') : ~Answerable(inbox'[i])
    PROVE  Apart(view)'
<1>1. NotBegun' /\ (AllSpent' <=> AllSpent) /\ (Unanswered' <=> Unanswered)
  BY DEF NotBegun, Unanswered, AllSpent
<1>2. OneWaits' /\ AskedOnce' /\ UploadAwaited' /\ FramesAwaited'
  BY DEF Apart, OneWaits, AskedOnce, UploadAwaited, FramesAwaited
<1>3. AnswerAwaited'
  BY <1>1 DEF AnswerAwaited
<1>4. CompleteLast(view)'
  BY <1>1 DEF Apart, CompleteLast
<1>5. DownloadsAwaited(view[Len(outbox) + 1])'
  BY <1>1 DEF Apart, DownloadsAwaited, Continues
<1> QED
  BY <1>2, <1>3, <1>4, <1>5 DEF Apart

\* What the loop takes from the inbox is data of the upload that the dashboard
\* waits for, or the command that it waits for.
LEMMA TakenKnown ==
    ASSUME Typed, TransfersKnown,
           \/ F!TakeEmpty \/ F!TakeData \/ F!TakeDataFails \/ F!TakeList \/ F!TakeDownload
           \/ (\E size \in 0 .. MaxSize : F!TakeUpload(size)) \/ F!TakeUploadFails
           \/ F!TakeOther
    PROVE  TransfersKnown'
<1> DEFINE f == Head(inbox)
<1>1. /\ loop = "select" /\ inbox # <<>> /\ inbox' = Tail(inbox)
      /\ UNCHANGED <<cut, outbox, garbled>>
  BY DEF F!TakeEmpty, F!TakeData, F!WriteData, F!TakeDataFails, F!TakeAsData, F!TakeList, F!TakeDownload,
         F!TakeUpload, F!TakeUploadFails, F!TakeOther, F!TakeCommand, F!Taken, F!StreamKept
<1>2. /\ inbox \in Seq(Asked) /\ Len(inbox) \in Nat \ {0} /\ f = inbox[1] /\ f \in Asked
      /\ Len(inbox') = Len(inbox) - 1
      /\ \A i \in 1 .. Len(inbox') : inbox'[i] = inbox[i + 1] /\ i + 1 \in 1 .. Len(inbox)
  BY <1>1, HeadTailProperties, LenProperties, EmptySeq DEF Typed, StreamTyped
<1>3. loop' \in {"select", "sending"}
  BY <1>1 DEF F!TakeEmpty, F!TakeData, F!WriteData, F!TakeDataFails, F!TakeList, F!TakeDownload, F!agent,
         F!TakeUpload, F!TakeUploadFails, F!TakeOther, F!AnswerUpload, F!Answer, F!Goes
<1>4. SUFFICES ASSUME NEW view \in Views(outbox, parser), clear', ~cut, Apart(view),
                      clear' => clear /\ UNCHANGED <<parser, waiting>>
               PROVE  Apart(view)'
  <2>1. clear' => clear /\ UNCHANGED <<parser, waiting>>
    BY DEF F!TakeEmpty, F!TakeData, F!WriteData, F!TakeDataFails, F!TakeAsData, F!TakeList, F!TakeDownload,
         F!TakeUpload, F!TakeUploadFails, F!TakeOther, F!TakeCommand, F!Misreads, F!Expects, F!view
  <2> QED
    BY <1>1, <1>3, <1>4, <2>1, StillApart
<1>5. UNCHANGED <<parser, waiting>>
  BY <1>4
<1>6. CASE F!TakeEmpty \/ F!TakeOther
  BY <1>1, <1>4, <1>5, <1>6, ApartStays DEF F!TakeEmpty, F!TakeOther, F!agent, F!Goes
<1>7. CASE F!TakeData \/ F!TakeDataFails
  <2>1. /\ upload # F!Nothing /\ UNCHANGED downloads
        /\ \/ upload' = F!Nothing /\ unsent' = <<F!Frame("answer", upload.of, 0)>>
           \/ upload' = [upload EXCEPT !.left = @ - F!SizeAsData(f)] /\ UNCHANGED unsent
    BY <1>7 DEF F!TakeData, F!WriteData, F!TakeDataFails, F!TakeAsData, F!AnswerUpload, F!Answer, F!Goes,
                F!First
  <2>2. /\ upload.of \in waiting /\ NotBegun /\ Silent(unsent)
        /\ \A i \in 1 .. Len(inbox) : ~Answerable(inbox[i])
    BY <1>4, <2>1 DEF Apart, UploadAwaited, AskedOnce
  <2>3. \A i \in 1 .. Len(inbox') : ~Answerable(inbox'[i])
    BY <1>2, <2>2
  <2>4. CASE upload' = F!Nothing /\ unsent' = <<F!Frame("answer", upload.of, 0)>>
    BY <1>1, <1>4, <1>5, <2>1, <2>2, <2>3, <2>4, AnswersApart
  <2>5. CASE upload' = [upload EXCEPT !.left = @ - F!SizeAsData(f)] /\ UNCHANGED unsent
    <3>1. upload'.of = upload.of
      BY <2>5 DEF Typed, UploadTyped, Uploads, F!Nothing
    <3>2. NotBegun' /\ Silent(unsent)' /\ (AllSpent' <=> AllSpent) /\ (Unanswered' <=> Unanswered)
      BY <1>1, <1>5, <2>1, <2>2, <2>5 DEF NotBegun, Unanswered, AllSpent
    <3>3. OneWaits' /\ AskedOnce' /\ UploadAwaited' /\ AnswerAwaited' /\ FramesAwaited'
      BY <1>1, <1>4, <1>5, <2>2, <2>3, <3>1, <3>2
         DEF Apart, OneWaits, AskedOnce, UploadAwaited, AnswerAwaited, FramesAwaited
    <3>4. CompleteLast(view)'
      BY <1>1, <1>4, <3>2 DEF Apart, CompleteLast
    <3>5. DownloadsAwaited(view[Len(outbox) + 1])'
      BY <1>1, <1>4, <1>5, <2>1, <3>2 DEF Apart, DownloadsAwaited, Continues
    <3> QED
      BY <3>3, <3>4, <3>5 DEF Apart
  <2> QED
    BY <2>1, <2>4, <2>5
<1>8. ASSUME NEW kind \in {"list", "download", "upload"}, F!TakeCommand(kind)
      PROVE  /\ f.of \in waiting /\ NotBegun /\ Silent(unsent) /\ upload = F!Nothing
             /\ \A i \in 1 .. Len(inbox') : ~Answerable(inbox'[i])
  <2>1. f.kind = kind
    BY <1>4, <1>8 DEF F!TakeCommand, F!Misreads, F!Expects, F!First
  <2>2. Answerable(inbox[1])
    BY <1>2, <1>8, <2>1 DEF Answerable
  <2>3. /\ f.of \in waiting /\ NotBegun /\ Silent(unsent) /\ upload = F!Nothing
        /\ \A j \in 1 .. Len(inbox) : Answerable(inbox[j]) => j = 1
    BY <1>2, <1>4, <2>2 DEF Apart, AskedOnce
  <2> QED
    BY <1>2, <2>3
<1>9. CASE F!TakeList
  <2>1. unsent' = <<F!Frame("answer", f.of, 0)>> /\ UNCHANGED <<upload, downloads>>
    BY <1>9 DEF F!TakeList, F!Answer, F!First
  <2> QED
    BY <1>1, <1>4, <1>5, <1>8, <1>9, <2>1, AnswersApart DEF F!TakeList
<1>10. CASE F!TakeUploadFails
  <2>1. unsent' = <<F!Frame("answer", f.of, 0)>> /\ UNCHANGED <<upload, downloads>>
    BY <1>10 DEF F!TakeUploadFails, F!AnswerUpload, F!Answer, F!First
  <2> QED
    BY <1>1, <1>4, <1>5, <1>8, <1>10, <2>1, AnswersApart DEF F!TakeUploadFails
<1>11. ASSUME NEW size \in 0 .. MaxSize, F!TakeUpload(size) PROVE Apart(view)'
  <2>1. /\ f.of \in waiting /\ NotBegun /\ Silent(unsent) /\ upload = F!Nothing
        /\ \A i \in 1 .. Len(inbox') : ~Answerable(inbox'[i])
    BY <1>8, <1>11 DEF F!TakeUpload
  <2>2. /\ UNCHANGED downloads
        /\ \/ unsent' = <<F!Frame("answer", f.of, 0)>> /\ UNCHANGED upload
           \/ upload' = [of |-> f.of, left |-> size] /\ UNCHANGED unsent
    BY <1>11 DEF F!TakeUpload, F!AnswerUpload, F!Answer, F!Goes, F!First
  <2>3. CASE unsent' = <<F!Frame("answer", f.of, 0)>> /\ UNCHANGED upload
    BY <1>1, <1>4, <1>5, <2>1, <2>2, <2>3, AnswersApart
  <2>4. CASE upload' = [of |-> f.of, left |-> size] /\ UNCHANGED unsent
    <3>1. NotBegun' /\ Silent(unsent)' /\ (AllSpent' <=> AllSpent) /\ (Unanswered' <=> Unanswered)
      BY <1>1, <1>5, <2>1, <2>2, <2>4 DEF NotBegun, Unanswered, AllSpent
    <3>2. upload'.of \in waiting'
      BY <1>5, <2>1, <2>4
    <3>3. OneWaits' /\ AskedOnce' /\ UploadAwaited' /\ AnswerAwaited' /\ FramesAwaited'
      BY <1>1, <1>4, <1>5, <2>1, <3>1, <3>2
         DEF Apart, OneWaits, AskedOnce, UploadAwaited, AnswerAwaited, FramesAwaited
    <3>4. CompleteLast(view)'
      BY <1>1, <1>4, <3>1 DEF Apart, CompleteLast
    <3>5. DownloadsAwaited(view[Len(outbox) + 1])'
      BY <1>1, <1>4, <1>5, <2>2, <3>1 DEF Apart, DownloadsAwaited, Continues
    <3> QED
      BY <3>3, <3>4, <3>5 DEF Apart
  <2> QED
    BY <2>2, <2>3, <2>4
<1>12. CASE F!TakeDownload
  <2>1. /\ f.of \in waiting /\ NotBegun /\ Silent(unsent) /\ upload = F!Nothing
        /\ \A i \in 1 .. Len(inbox') : ~Answerable(inbox'[i])
    BY <1>8, <1>12 DEF F!TakeDownload
  <2>2. PICK d : d = [of |-> f.of, step |-> "open", out |-> <<>>, left |-> 0]
    OBVIOUS
  <2>3. UNCHANGED <<upload, unsent>> /\ downloads' = downloads \cup {d}
    BY <1>12, <2>2 DEF F!TakeDownload, F!Goes, F!First
  <2>4. d.of = f.of /\ d.step = "open" /\ d.left = 0
    BY <2>2
  <2>5. Unanswered' /\ Silent(outbox)
    BY <1>1, <1>5, <2>1 DEF NotBegun, Unanswered
  <2>6. OneWaits' /\ AskedOnce' /\ UploadAwaited' /\ AnswerAwaited' /\ FramesAwaited'
    BY <1>1, <1>4, <1>5, <2>1, <2>3
       DEF Apart, OneWaits, AskedOnce, UploadAwaited, AnswerAwaited, FramesAwaited
  <2>7. CompleteLast(view)'
    BY <1>1, <2>5 DEF CompleteLast, Completes, Silent
  <2>8. \A e \in downloads' : ~Spent(e) => e = d
    BY <2>1, <2>3 DEF NotBegun, AllSpent
  <2>9. d.of \in waiting' /\ Continues(d, view[Len(outbox) + 1])'
    BY <1>5, <2>1, <2>4, <2>5 DEF Continues
  <2>10. DownloadsAwaited(view[Len(outbox) + 1])'
    BY <2>8, <2>9 DEF DownloadsAwaited
  <2> QED
    BY <2>6, <2>7, <2>10 DEF Apart
<1> QED
  BY <1>6, <1>7, <1>9, <1>10, <1>11, <1>12

\* A frame that follows those on their way is expected after them, and comes
\* after no end of an answer unless it is empty.
LEMMA Follows ==
    ASSUME Typed, FramesAwaited, UNCHANGED <<parser, waiting>>,
           NEW view \in Views(outbox, parser), NEW f \in Told, NEW new \in Uploads,
           outbox' = Append(outbox, f), Parses(view[Len(outbox) + 1], f, new),
           f.kind # "empty" => f.of \in waiting,
           \/ f.kind = "empty" /\ CompleteLast(view) /\ (AllSpent => AllSpent')
           \/ \A i \in 1 .. Len(outbox) : ~Completes(outbox[i], view[i + 1]),
           Completes(f, new) => AllSpent'
    PROVE  \E next : /\ next \in Views(outbox, parser)' /\ next[Len(outbox') + 1] = new
                     /\ FramesAwaited' /\ CompleteLast(next)'
<1>1. PICK next : next = With(outbox, view, new)
  OBVIOUS
<1>2. /\ next \in Views(Append(outbox, f), parser)
      /\ \A i \in 1 .. Len(outbox) + 1 : next[i] = view[i]
      /\ next[Len(outbox) + 2] = new
      /\ Len(outbox) \in Nat /\ Len(outbox') = Len(outbox) + 1
      /\ \A i \in 1 .. Len(outbox) : outbox'[i] = outbox[i]
      /\ outbox'[Len(outbox) + 1] = f
  BY <1>1, ViewsMore DEF Typed, OutTyped
<1>3. next \in Views(outbox, parser)'
  BY <1>2
<1>4. FramesAwaited'
  <2>1. ASSUME NEW i \in 1 .. Len(outbox'), outbox'[i].kind # "empty"
        PROVE  outbox'[i].of \in waiting
    <3>1. CASE i \in 1 .. Len(outbox)
      BY <1>2, <2>1, <3>1 DEF FramesAwaited
    <3>2. CASE i = Len(outbox) + 1
      BY <1>2, <2>1, <3>2
    <3> QED
      BY <1>2, <3>1, <3>2
  <2> QED
    BY <2>1 DEF FramesAwaited
<1>5. CompleteLast(next)'
  <2>1. ASSUME NEW i \in 1 .. Len(outbox'), Completes(outbox'[i], next[i + 1])
        PROVE  AllSpent' /\ \A j \in i + 1 .. Len(outbox') : outbox'[j].kind = "empty"
    <3>1. CASE i \in 1 .. Len(outbox)
      <4>1. i + 1 \in 1 .. Len(outbox) + 1
        BY <1>2, <3>1
      <4>2. Completes(outbox[i], view[i + 1])
        BY <1>2, <2>1, <3>1, <4>1
      <4>3. f.kind = "empty" /\ CompleteLast(view) /\ (AllSpent => AllSpent')
        BY <3>1, <4>2
      <4>4. AllSpent' /\ \A j \in i + 1 .. Len(outbox) : outbox[j].kind = "empty"
        BY <3>1, <4>2, <4>3 DEF CompleteLast
      <4>5. ASSUME NEW j \in i + 1 .. Len(outbox') PROVE outbox'[j].kind = "empty"
        <5>1. CASE j = Len(outbox) + 1
          BY <1>2, <4>3, <5>1
        <5>2. CASE j # Len(outbox) + 1
          <6>1. Len(outbox) \in Nat /\ Len(outbox') = Len(outbox) + 1
            BY <1>2
          <6>2. j \in i + 1 .. Len(outbox) /\ j \in 1 .. Len(outbox)
            BY <3>1, <5>2, <6>1
          <6> QED
            BY <1>2, <4>4, <6>2
        <5> QED
          BY <5>1, <5>2
      <4> QED
        BY <4>4, <4>5
    <3>2. CASE i = Len(outbox) + 1
      <4>1. Completes(f, new)
        BY <1>2, <2>1, <3>2
      <4>2. i + 1 .. Len(outbox') = {}
        BY <1>2, <3>2
      <4> QED
        BY <4>1, <4>2
    <3> QED
      BY <1>2, <3>1, <3>2
  <2> QED
    BY <2>1 DEF CompleteLast
<1> QED
  BY <1>2, <1>3, <1>4, <1>5

\* As long as nothing is answered the dashboard expects nothing.
LEMMA Afresh ==
    ASSUME Typed, Unanswered
    PROVE  \E view \in Views(outbox, parser) :
              /\ view[Len(outbox) + 1] = F!Nothing
              /\ \A i \in 1 .. Len(outbox) : ~Completes(outbox[i], view[i + 1])
<1>1. outbox \in Seq(Told) /\ Len(outbox) \in Nat /\ Silent(outbox) /\ parser = F!Nothing
  BY LenProperties DEF Typed, OutTyped, Unanswered
<1>2. PICK view : view = [i \in 1 .. Len(outbox) + 1 |-> parser]
  OBVIOUS
<1>3. view \in Views(outbox, parser)
  BY <1>1, <1>2, NothingOf, ViewsSilent
<1>4. \A i \in 1 .. Len(outbox) : ~Completes(outbox[i], view[i + 1])
  BY <1>1 DEF Silent, Completes
<1>5. view[Len(outbox) + 1] = F!Nothing
  BY <1>1, <1>2
<1> QED
  BY <1>3, <1>4, <1>5

\* A frame of the loop is empty, or the answer that the dashboard waits for.
LEMMA SendKnown == Typed /\ TransfersKnown /\ F!Send => TransfersKnown'
<1> SUFFICES ASSUME Typed, TransfersKnown, F!Send PROVE TransfersKnown'
  OBVIOUS
<1>1. /\ ~cut /\ outbox' = outbox \o unsent /\ unsent' = <<>> /\ loop' \in {"select", "drain"}
      /\ UNCHANGED <<inbox, cut, upload, garbled, downloads, parser, waiting, clear>>
  BY DEF F!Send, F!FilesKept, F!view
<1>2. outbox \in Seq(Told) /\ unsent \in Seq(Told) /\ Len(unsent) <= 1
  BY DEF Typed, OutTyped
<1>3. SUFFICES ASSUME clear PROVE \E next \in Views(outbox, parser)' : Apart(next)'
  BY <1>1 DEF TransfersKnown
<1>4. PICK view \in Views(outbox, parser) : Apart(view)
  BY <1>1, <1>3 DEF TransfersKnown
<1>5. (AllSpent' <=> AllSpent) /\ Silent(unsent)'
  BY <1>1 DEF AllSpent, Silent
<1>6. CASE unsent = <<>>
  <2>1. outbox' = outbox /\ unsent' = unsent
    BY <1>1, <1>2, <1>6, ConcatEmptySeq
  <2>2. Apart(view)'
    BY <1>1, <1>4, <2>1, ApartStays
  <2>3. view \in Views(outbox, parser)'
    BY <1>1, <1>4, <2>1
  <2> QED
    BY <2>2, <2>3
<1>7. CASE unsent # <<>>
  <2>1. PICK f \in Told : unsent = <<f>>
    <3>1. Len(unsent) = 1 /\ unsent[1] \in Told
      <4>1. Len(unsent) \in Nat /\ Len(unsent) # 0
        BY <1>2, <1>7, LenProperties, EmptySeq
      <4>2. \A n \in Nat : n # 0 /\ n <= 1 => n = 1
        OBVIOUS
      <4>3. Len(unsent) = 1
        BY <1>2, <4>1, <4>2, Zenon
      <4> QED
        BY <1>2, <4>3, ElementOfSeq
    <3>2. unsent = <<unsent[1]>>
      BY <1>2, <3>1, SeqEqual, OneFrame
    <3> QED
      BY <3>1, <3>2
  <2>2. outbox' = Append(outbox, f)
    BY <1>1, <1>2, <2>1, AppendIsConcat
  <2>3. /\ Len(outbox) \in Nat /\ Len(outbox') = Len(outbox) + 1 /\ outbox'[Len(outbox) + 1] = f
        /\ \A i \in 1 .. Len(outbox) : outbox'[i] = outbox[i]
    BY <1>2, <2>2, LenProperties, AppendProperties
  <2>4. CASE f.kind = "empty"
    <3>1. view[Len(outbox) + 1] \in Uploads
      BY <1>2, <1>4, ViewFields
    <3>2. PICK last \in Uploads : last = view[Len(outbox) + 1]
      BY <3>1
    <3>3. Parses(view[Len(outbox) + 1], f, last) /\ ~Completes(f, last)
      BY <2>4, <3>2 DEF Parses, Completes
    <3>4. FramesAwaited /\ CompleteLast(view)
      BY <1>4 DEF Apart
    <3>5. PICK next : /\ next \in Views(outbox, parser)' /\ next[Len(outbox') + 1] = last
                      /\ FramesAwaited' /\ CompleteLast(next)'
      BY <1>1, <1>4, <1>5, <2>2, <2>4, <3>3, <3>4, Follows
    <3>6. (Unanswered => Unanswered') /\ (NotBegun => NotBegun')
      <4>1. Silent(outbox) => Silent(outbox)'
        BY <2>3, <2>4 DEF Silent
      <4> QED
        BY <1>1, <1>5, <4>1 DEF Unanswered, NotBegun
    <3>7. OneWaits' /\ UploadAwaited' /\ AnswerAwaited'
      BY <1>1, <1>4, <1>5, <3>6 DEF Apart, OneWaits, UploadAwaited, AnswerAwaited
    <3>8. AskedOnce'
      BY <1>1, <1>4, <1>5, <3>6 DEF Apart, AskedOnce
    <3>9. DownloadsAwaited(next[Len(outbox) + 1])'
      <4>1. \A d \in downloads : Continues(d, last) => Continues(d, last)'
        BY <3>6 DEF Continues
      <4> QED
        BY <1>1, <1>4, <3>2, <3>5, <4>1 DEF Apart, DownloadsAwaited
    <3>10. Apart(next)'
      BY <3>5, <3>7, <3>8, <3>9 DEF Apart
    <3> QED
      BY <3>5, <3>10
  <2>5. CASE f.kind # "empty"
    <3>1. ~Silent(unsent)
      BY <2>1, <2>5 DEF Silent
    <3>2. PICK u \in waiting : NotBegun /\ unsent = <<F!Frame("answer", u, 0)>>
      BY <1>4, <3>1 DEF Apart, AnswerAwaited
    <3>3. f.kind = "answer" /\ f.of = u
      BY <2>1, <3>2 DEF F!Frame
    <3>4. /\ AllSpent /\ Unanswered /\ upload = F!Nothing
          /\ \A i \in 1 .. Len(inbox) : ~Answerable(inbox[i])
      BY <1>4, <3>1, <3>2 DEF Apart, AskedOnce, UploadAwaited, NotBegun
    <3>5. PICK fresh \in Views(outbox, parser) :
              /\ fresh[Len(outbox) + 1] = F!Nothing
              /\ \A i \in 1 .. Len(outbox) : ~Completes(outbox[i], fresh[i + 1])
      BY <3>4, Afresh
    <3>6. Parses(fresh[Len(outbox) + 1], f, F!Nothing)
      BY <3>3, <3>5 DEF Parses
    <3>7. PICK next : /\ next \in Views(outbox, parser)' /\ next[Len(outbox') + 1] = F!Nothing
                      /\ FramesAwaited' /\ CompleteLast(next)'
      BY <1>1, <1>4, <1>5, <2>2, <3>3, <3>4, <3>5, <3>6, NothingOf, Follows DEF Apart
    <3>8. OneWaits' /\ UploadAwaited' /\ AnswerAwaited' /\ AskedOnce'
      BY <1>1, <1>4, <1>5, <3>4 DEF Apart, OneWaits, UploadAwaited, AnswerAwaited, AskedOnce
    <3>9. DownloadsAwaited(next[Len(outbox) + 1])'
      BY <1>5, <3>4 DEF AllSpent, DownloadsAwaited
    <3>10. Apart(next)'
      BY <3>7, <3>8, <3>9 DEF Apart
    <3> QED
      BY <3>7, <3>10
  <2> QED
    BY <2>4, <2>5
<1> QED
  BY <1>6, <1>7

\* The loop's other steps send nothing; at its end the upload that is under way
\* is what the dashboard waits for.
LEMMA OthersKnown ==
    Typed /\ TransfersKnown /\ (F!SendFails \/ F!Drained \/ F!KeepAliveDue \/ F!StreamEnds)
    => TransfersKnown'
<1> SUFFICES ASSUME Typed, TransfersKnown,
                    F!SendFails \/ F!Drained \/ F!KeepAliveDue \/ F!StreamEnds
             PROVE  TransfersKnown'
  OBVIOUS
<1>1. UNCHANGED <<inbox, cut, outbox, garbled, downloads, parser, waiting, clear>>
  BY DEF F!SendFails, F!Drained, F!Finishes, F!KeepAliveDue, F!StreamEnds, F!LoopKept, F!StreamKept,
         F!FilesKept, F!view
<1>2. CASE F!SendFails
  BY <1>1, <1>2 DEF F!SendFails, TransfersKnown
<1>3. CASE F!Drained
  <2>1. downloads = {} /\ UNCHANGED <<unsent, upload>>
    BY <1>3 DEF F!Drained, F!Finishes, F!Goes, F!FilesKept
  <2> QED
    BY <1>1, <2>1, ApartStays, StillApart
<1>4. CASE F!KeepAliveDue
  <2>1. loop' = "sending" /\ unsent' = <<F!KeepAlive>> /\ UNCHANGED upload
    BY <1>4 DEF F!KeepAliveDue, F!Answer
  <2>2. Silent(unsent)'
    BY <2>1 DEF Silent, F!KeepAlive, F!Frame
  <2>3. (NotBegun' <=> NotBegun) /\ (AllSpent' <=> AllSpent) /\ (Unanswered' <=> Unanswered)
    BY <1>1 DEF NotBegun, Unanswered, AllSpent
  <2>4. ASSUME NEW view, Apart(view) PROVE Apart(view)'
    <3>1. OneWaits' /\ UploadAwaited' /\ AnswerAwaited' /\ FramesAwaited'
      BY <1>1, <2>1, <2>2, <2>3, <2>4
         DEF Apart, OneWaits, UploadAwaited, AnswerAwaited, FramesAwaited
    <3>2. AskedOnce'
      BY <1>1, <2>1, <2>2, <2>3, <2>4 DEF Apart, AskedOnce
    <3>3. CompleteLast(view)' /\ DownloadsAwaited(view[Len(outbox) + 1])'
      BY <1>1, <2>3, <2>4 DEF Apart, CompleteLast, DownloadsAwaited, Continues
    <3> QED
      BY <3>1, <3>2, <3>3 DEF Apart
  <2> QED
    BY <1>1, <2>1, <2>4, StillApart
<1>5. CASE F!StreamEnds
  <2>1. /\ inbox = <<>> /\ loop' \in {"lastSend", "drain"} /\ upload' = F!Nothing
        /\ \/ UNCHANGED unsent
           \/ upload # F!Nothing /\ unsent' = <<F!Frame("answer", upload.of, 0)>>
    BY <1>5 DEF F!StreamEnds, F!Goes
  <2>2. (NotBegun' <=> NotBegun) /\ (AllSpent' <=> AllSpent) /\ (Unanswered' <=> Unanswered)
    BY <1>1 DEF NotBegun, Unanswered, AllSpent
  <2>3. Len(inbox) = 0 /\ Len(inbox') = 0
    BY <1>1, <2>1
  <2>4. ASSUME NEW view, Apart(view) PROVE Apart(view)'
    <3>1. CASE UNCHANGED unsent
      <4>1. OneWaits' /\ UploadAwaited' /\ AnswerAwaited' /\ FramesAwaited'
        BY <1>1, <2>1, <2>2, <2>4, <3>1
           DEF Apart, OneWaits, UploadAwaited, AnswerAwaited, FramesAwaited
      <4>2. AskedOnce'
        BY <2>3 DEF AskedOnce
      <4>3. CompleteLast(view)' /\ DownloadsAwaited(view[Len(outbox) + 1])'
        BY <1>1, <2>2, <2>4 DEF Apart, CompleteLast, DownloadsAwaited, Continues
      <4> QED
        BY <4>1, <4>2, <4>3 DEF Apart
    <3>2. CASE upload # F!Nothing /\ unsent' = <<F!Frame("answer", upload.of, 0)>>
      <4>1. upload.of \in waiting /\ NotBegun /\ Silent(unsent)
        BY <2>4, <3>2 DEF Apart, UploadAwaited
      <4>2. \A i \in 1 .. Len(inbox') : ~Answerable(inbox'[i])
        BY <2>3
      <4> QED
        BY <1>1, <2>1, <2>4, <3>2, <4>1, <4>2, AnswersApart
    <3> QED
      BY <2>1, <3>1, <3>2
  <2> QED
    BY <1>1, <2>1, <2>4, StillApart
<1> QED
  BY <1>2, <1>3, <1>4, <1>5

\* As long as a download is not spent, it is all that the dashboard waits for.
LEMMA DownloadAlone ==
    ASSUME NEW view, Apart(view), NEW d \in downloads, ~Spent(d)
    PROVE  /\ d.of \in waiting /\ Continues(d, view[Len(outbox) + 1])
           /\ upload = F!Nothing /\ Silent(unsent)
           /\ \A i \in 1 .. Len(inbox) : ~Answerable(inbox[i])
           /\ \A i \in 1 .. Len(outbox) : ~Completes(outbox[i], view[i + 1])
           /\ \A e \in downloads : e # d => Spent(e)
<1>1. ~AllSpent /\ ~NotBegun
  BY DEF AllSpent, NotBegun
<1>2. /\ upload = F!Nothing /\ Silent(unsent)
      /\ \A i \in 1 .. Len(inbox) : ~Answerable(inbox[i])
  BY <1>1 DEF Apart, AskedOnce, UploadAwaited, AnswerAwaited
<1>3. \A i \in 1 .. Len(outbox) : ~Completes(outbox[i], view[i + 1])
  BY <1>1 DEF Apart, CompleteLast
<1>4. /\ d.of \in waiting /\ Continues(d, view[Len(outbox) + 1])
      /\ \A e \in downloads : ~Spent(e) => e = d
  BY DEF Apart, DownloadsAwaited
<1> QED
  BY <1>2, <1>3, <1>4

\* It goes on, or is spent, or leaves.
LEMMA DownloadMoves ==
    ASSUME NEW view, Apart(view), NEW d \in downloads, ~Spent(d),
           UNCHANGED <<inbox, unsent, upload, waiting>>,
           NEW next, FramesAwaited', CompleteLast(next)',
           \/ downloads' = downloads \ {d}
           \/ \E e : /\ downloads' = (downloads \ {d}) \cup {e} /\ e.of = d.of
                     /\ Spent(e) \/ Continues(e, next[Len(outbox) + 1])'
    PROVE  Apart(next)'
<1>1. /\ d.of \in waiting /\ upload = F!Nothing /\ Silent(unsent)
      /\ \A i \in 1 .. Len(inbox) : ~Answerable(inbox[i])
      /\ \A e \in downloads : e # d => Spent(e)
  BY DownloadAlone
<1>2. OneWaits' /\ UploadAwaited' /\ AnswerAwaited' /\ AskedOnce'
  BY <1>1 DEF Apart, OneWaits, UploadAwaited, AnswerAwaited, AskedOnce
<1>3. DownloadsAwaited(next[Len(outbox) + 1])'
  BY <1>1 DEF DownloadsAwaited
<1> QED
  BY <1>2, <1>3 DEF Apart

\* With fewer downloads the same is known.
LEMMA DownloadsLess ==
    ASSUME NEW view, Apart(view), downloads' \subseteq downloads,
           UNCHANGED <<inbox, unsent, upload, waiting, outbox, parser>>
    PROVE  Apart(view)'
<1>1. (AllSpent => AllSpent') /\ (NotBegun => NotBegun') /\ (Unanswered' <=> Unanswered)
  BY DEF AllSpent, NotBegun, Unanswered
<1>2. OneWaits' /\ UploadAwaited' /\ AnswerAwaited' /\ FramesAwaited'
  BY <1>1 DEF Apart, OneWaits, UploadAwaited, AnswerAwaited, FramesAwaited
<1>3. AskedOnce'
  BY <1>1 DEF Apart, AskedOnce
<1>4. CompleteLast(view)'
  BY <1>1 DEF Apart, CompleteLast
<1>5. DownloadsAwaited(view[Len(outbox) + 1])'
  BY <1>1 DEF Apart, DownloadsAwaited, Continues
<1> QED
  BY <1>2, <1>3, <1>4, <1>5 DEF Apart

\* A frame that a download sends is the one that the dashboard expects.
LEMMA DownloadSendKnown ==
    ASSUME Typed, clear, ~cut, NEW view \in Views(outbox, parser), Apart(view),
           NEW d \in downloads, F!DownloadSends(d)
    PROVE  \E next \in Views(outbox, parser)' : Apart(next)'
<1>1. /\ d.step \in {"send", "failing"} /\ outbox' = outbox \o d.out
      /\ IF d.step = "send"
         THEN downloads' = (downloads \ {d}) \cup {[d EXCEPT !.out = <<>>, !.step = "read"]}
         ELSE downloads' = downloads \ {d}
      /\ UNCHANGED <<inbox, unsent, upload, waiting, parser>>
  BY DEF F!DownloadSends, F!Becomes, F!Leaves, F!DownloadKept, F!FilesKept, F!view
<1>2. d \in F!Download /\ d.out \in Seq(Told) /\ outbox \in Seq(Told)
  BY DEF Typed, DownloadsTyped, OutTyped
<1>3. ~Spent(d)
  BY <1>1 DEF Spent
<1>4. PICK last : last = view[Len(outbox) + 1]
  OBVIOUS
<1>5. /\ d.of \in waiting /\ Continues(d, last)
      /\ \A i \in 1 .. Len(outbox) : ~Completes(outbox[i], view[i + 1])
      /\ \A e \in downloads : e # d => Spent(e)
  BY <1>3, <1>4, DownloadAlone
<1>6. d.left \in Int /\ d.left >= 0 /\ last \in Uploads
  BY <1>2, <1>4, <1>5, ViewFields DEF F!Download, Continues
<1>7. ASSUME NEW f, d.out = <<f>> PROVE f \in Told /\ outbox' = Append(outbox, f)
  <2>1. d.out[1] = f /\ Len(d.out) = 1
    BY <1>7
  <2>2. f \in Told
    BY <1>2, <2>1, ElementOfSeq
  <2> QED
    BY <1>1, <1>2, <1>7, <2>2, AppendIsConcat
<1>8. Unanswered => \E v \in Views(outbox, parser) :
                       /\ v[Len(outbox) + 1] = F!Nothing
                       /\ \A i \in 1 .. Len(outbox) : ~Completes(outbox[i], v[i + 1])
  BY Afresh
<1>9. FramesAwaited
  BY DEF Apart
<1>10. CASE d.step = "send"
  <2>1. PICK e : e = [d EXCEPT !.out = <<>>, !.step = "read"]
    OBVIOUS
  <2>2. /\ e.of = d.of /\ e.left = d.left /\ e.step = "read"
        /\ downloads' = (downloads \ {d}) \cup {e}
    BY <1>1, <1>2, <1>10, <2>1 DEF F!Download
  <2>3. CASE d.out = <<F!Frame("header", d.of, d.left)>> /\ Unanswered /\ d.left > 0
    <3>1. PICK f : f = F!Frame("header", d.of, d.left)
      OBVIOUS
    <3>2. f.kind = "header" /\ f.of = d.of /\ f.size = d.left
      BY <3>1 DEF F!Frame
    <3>3. f \in Told /\ outbox' = Append(outbox, f)
      BY <1>7, <2>3, <3>1
    <3>4. PICK new : new = [of |-> d.of, left |-> d.left]
      OBVIOUS
    <3>5. new \in Uploads
      <4>1. f.of \in F!Commands /\ f.size \in 1 .. MaxSize
        BY <3>2, <3>3, ToldFields
      <4> QED
        BY <3>2, <3>4, <4>1 DEF Uploads
    <3>6. PICK fresh \in Views(outbox, parser) :
              /\ fresh[Len(outbox) + 1] = F!Nothing
              /\ \A i \in 1 .. Len(outbox) : ~Completes(outbox[i], fresh[i + 1])
      BY <1>8, <2>3
    <3>7. Parses(fresh[Len(outbox) + 1], f, new) /\ ~Completes(f, new)
      BY <3>2, <3>4, <3>6 DEF Parses, Completes
    <3>8. PICK next : /\ next \in Views(outbox, parser)' /\ next[Len(outbox') + 1] = new
                      /\ FramesAwaited' /\ CompleteLast(next)'
      BY <1>1, <1>5, <1>9, <3>2, <3>3, <3>5, <3>6, <3>7, Follows
    <3>9. Continues(e, next[Len(outbox) + 1])'
      BY <1>6, <2>2, <3>4, <3>8 DEF Continues
    <3>10. Apart(next)'
      BY <1>1, <1>3, <2>2, <3>8, <3>9, DownloadMoves
    <3> QED
      BY <3>8, <3>10
  <2>4. CASE d.out = <<F!Frame("chunk", d.of, 1)>> /\ last = [of |-> d.of, left |-> d.left + 1]
    <3>1. PICK f : f = F!Frame("chunk", d.of, 1)
      OBVIOUS
    <3>2. f.kind = "chunk" /\ f.of = d.of
      BY <3>1 DEF F!Frame
    <3>3. f \in Told /\ outbox' = Append(outbox, f)
      BY <1>7, <2>4, <3>1
    <3>4. /\ last.of = d.of /\ last.left = d.left + 1 /\ last.left >= 1
          /\ last # F!Nothing /\ last.of \in F!Commands /\ last.left \in 1 .. MaxSize
      <4>1. last.of = d.of /\ last.left = d.left + 1 /\ last.left >= 1
        BY <1>6, <2>4
      <4>2. last # F!Nothing
        BY <4>1, NothingOf
      <4> QED
        BY <1>6, <4>1, <4>2, UploadFields
    <3>5. PICK new : new = IF last.left > 1 THEN [of |-> d.of, left |-> d.left] ELSE F!Nothing
      OBVIOUS
    <3>6. new \in Uploads
      <4>1. CASE last.left > 1
        <5>1. MaxSize \in Nat
          BY TaskRunAssumption DEF F!FileManagerAssumption
        <5>2. d.left \in 1 .. MaxSize /\ d.of \in F!Commands
          BY <1>6, <3>4, <4>1, <5>1
        <5> QED
          BY <3>5, <4>1, <5>2 DEF Uploads
      <4>2. CASE ~(last.left > 1)
        BY <3>5, <4>2, NothingOf
      <4> QED
        BY <4>1, <4>2
    <3>7. Parses(last, f, new)
      <4>1. last.left - 1 = d.left
        BY <1>6, <3>4
      <4> QED
        BY <3>2, <3>4, <3>5, <4>1 DEF Parses
    <3>8. ASSUME ~(last.left > 1) PROVE Spent(e) /\ AllSpent'
      <4>1. d.left = 0
        BY <1>6, <3>4, <3>8
      <4>2. Spent(e)
        BY <2>2, <4>1 DEF Spent
      <4> QED
        BY <1>5, <2>2, <4>2 DEF AllSpent
    <3>9. Completes(f, new) => AllSpent'
      <4>1. last.left > 1 => new # F!Nothing
        <5>1. last.left > 1 => new.of = d.of
          BY <3>5
        <5> QED
          BY <3>4, <5>1, NothingOf DEF F!Commands
      <4> QED
        BY <3>2, <3>8, <4>1 DEF Completes
    <3>10. PICK next : /\ next \in Views(outbox, parser)' /\ next[Len(outbox') + 1] = new
                       /\ FramesAwaited' /\ CompleteLast(next)'
      BY <1>1, <1>4, <1>5, <1>9, <3>2, <3>3, <3>6, <3>7, <3>9, Follows
    <3>11. Spent(e) \/ Continues(e, next[Len(outbox) + 1])'
      BY <1>6, <2>2, <3>5, <3>8, <3>10 DEF Continues
    <3>12. Apart(next)'
      BY <1>1, <1>3, <2>2, <3>10, <3>11, DownloadMoves
    <3> QED
      BY <3>10, <3>12
  <2> QED
    BY <1>5, <1>10, <2>3, <2>4 DEF Continues
<1>11. CASE d.step = "failing"
  <2>1. PICK f : f = F!Frame("answer", d.of, 0)
    OBVIOUS
  <2>2. f.kind = "answer" /\ f.of = d.of
    BY <2>1 DEF F!Frame
  <2>3. /\ d.out = <<f>> /\ (Unanswered \/ (last # F!Nothing /\ last.of = d.of))
    BY <1>5, <1>11, <2>1 DEF Continues
  <2>4. f \in Told /\ outbox' = Append(outbox, f)
    BY <1>7, <2>3
  <2>5. downloads' = downloads \ {d}
    BY <1>1, <1>11
  <2>6. AllSpent'
    BY <1>5, <2>5 DEF AllSpent
  <2>7. PICK from \in Views(outbox, parser) :
              /\ Parses(from[Len(outbox) + 1], f, F!Nothing)
              /\ \A i \in 1 .. Len(outbox) : ~Completes(outbox[i], from[i + 1])
    <3>1. CASE Unanswered
      <4>1. PICK fresh \in Views(outbox, parser) :
              /\ fresh[Len(outbox) + 1] = F!Nothing
              /\ \A i \in 1 .. Len(outbox) : ~Completes(outbox[i], fresh[i + 1])
        BY <1>8, <3>1
      <4>2. Parses(fresh[Len(outbox) + 1], f, F!Nothing)
        BY <2>2, <4>1 DEF Parses
      <4> QED
        BY <4>1, <4>2
    <3>2. CASE last # F!Nothing /\ last.of = d.of
      <4>1. Parses(view[Len(outbox) + 1], f, F!Nothing)
        BY <1>4, <2>2, <3>2 DEF Parses
      <4> QED
        BY <1>5, <4>1
    <3> QED
      BY <2>3, <3>1, <3>2
  <2>8. PICK next : /\ next \in Views(outbox, parser)' /\ next[Len(outbox') + 1] = F!Nothing
                    /\ FramesAwaited' /\ CompleteLast(next)'
    BY <1>1, <1>5, <1>9, <2>2, <2>4, <2>6, <2>7, NothingOf, Follows
  <2>9. Apart(next)'
    BY <1>1, <1>3, <2>5, <2>8, DownloadMoves
  <2> QED
    BY <2>8, <2>9
<1> QED
  BY <1>1, <1>10, <1>11

\* What a download reads and sends is the rest of the file that it has begun.
LEMMA DownloadsKnown ==
    ASSUME Typed, TransfersKnown, NEW d \in downloads, F!DownloadStep(d)
    PROVE  TransfersKnown'
<1>1. /\ UNCHANGED <<inbox, cut, upload, garbled, loop, unsent>> /\ loop # "done"
      /\ clear' => clear /\ UNCHANGED <<parser, waiting>>
  <2>1. F!DownloadKept /\ (UNCHANGED F!view \/ \E odd : F!Unclear(odd))
    BY DEF F!DownloadStep, F!Open, F!OpenAs, F!DownloadFails, F!ReadChunk, F!ReadEnd, F!DownloadSends,
         F!DownloadSendFails, F!DownloadAborted
  <2>2. UNCHANGED <<inbox, cut, upload, garbled, loop, unsent>> /\ loop # "done"
    BY <2>1 DEF F!DownloadKept, F!FilesKept, TransfersKnown
  <2>3. clear' => clear /\ UNCHANGED <<parser, waiting>>
    BY <2>1 DEF F!Unclear, F!Expects, F!view
  <2> QED
    BY <2>2, <2>3
<1>2. cut => outbox' = <<>>
  BY DEF F!DownloadStep, F!Open, F!OpenAs, F!DownloadFails, F!ReadChunk, F!ReadEnd, F!DownloadSends,
         F!DownloadSendFails, F!DownloadAborted, TransfersKnown
<1>3. SUFFICES ASSUME clear', ~cut, UNCHANGED <<parser, waiting>>,
                      NEW view \in Views(outbox, parser), Apart(view)
               PROVE  \E next \in Views(outbox, parser)' : Apart(next)'
  BY <1>1, <1>2 DEF TransfersKnown
<1>4. d \in F!Download
  BY DEF Typed, DownloadsTyped
<1>5. ASSUME UNCHANGED outbox, Apart(view)' PROVE \E next \in Views(outbox, parser)' : Apart(next)'
  BY <1>3, <1>5
<1>6. ASSUME UNCHANGED outbox, ~Spent(d), NEW e,
             downloads' = (downloads \ {d}) \cup {e}, e.of = d.of,
             Continues(e, view[Len(outbox) + 1])'
      PROVE  Apart(view)'
  <2>1. FramesAwaited'
    BY <1>3, <1>6 DEF Apart, FramesAwaited
  <2>2. CompleteLast(view)'
    BY <1>3, <1>6, DownloadAlone DEF CompleteLast
  <2> QED
    BY <1>1, <1>3, <1>6, <2>1, <2>2, DownloadMoves
<1>7. ~Spent(d) => Continues(d, view[Len(outbox) + 1]) /\ d.left \in Int /\ d.left >= 0
  BY <1>3, <1>4, DownloadAlone DEF F!Download, Continues
<1>8. UNCHANGED outbox => (Unanswered' <=> Unanswered)
  BY <1>3 DEF Unanswered
<1>9. ASSUME NEW frame, NEW left, NEW step
      PROVE  /\ F!Holding(d, frame, left, step).of = d.of
             /\ F!Holding(d, frame, left, step).step = step
             /\ F!Holding(d, frame, left, step).left = left
             /\ F!Holding(d, frame, left, step).out = <<frame>>
  BY <1>4 DEF F!Holding, F!Download
<1>10. ASSUME NEW size \in 1 .. MaxSize, F!OpenAs(d, size, size)
       PROVE  \E next \in Views(outbox, parser)' : Apart(next)'
  <2>1. PICK e : e = F!Holding(d, F!Frame("header", d.of, size), size, "send")
    OBVIOUS
  <2>2. d.step = "open" /\ downloads' = (downloads \ {d}) \cup {e} /\ UNCHANGED outbox
    BY <1>10, <2>1 DEF F!OpenAs, F!Becomes
  <2>3. ~Spent(d) /\ Unanswered'
    BY <1>7, <1>8, <2>2 DEF Spent, Continues
  <2>4. Continues(e, view[Len(outbox) + 1])'
    BY <1>9, <2>1, <2>3 DEF Continues
  <2> QED
    BY <1>5, <1>6, <1>9, <2>1, <2>2, <2>3, <2>4
<1>11. CASE F!DownloadFails(d)
  <2>1. PICK e : e = F!Holding(d, F!Frame("answer", d.of, 0), d.left, "failing")
    OBVIOUS
  <2>2. /\ d.step \in {"open", "read"} /\ (d.step = "read" => ~(d.left <= 0))
        /\ downloads' = (downloads \ {d}) \cup {e} /\ UNCHANGED outbox
    BY <1>3, <1>11, <2>1 DEF F!DownloadFails, F!Becomes, F!Unclear, F!Expects
  <2>3. ~Spent(d)
    BY <2>2 DEF Spent
  <2>4. \/ Unanswered'
        \/ view[Len(outbox) + 1] # F!Nothing /\ view[Len(outbox) + 1].of = d.of
    <3>1. d.step = "open" => Unanswered'
      BY <1>7, <1>8, <2>2, <2>3 DEF Continues
    <3>2. d.step = "read" => view[Len(outbox) + 1] = [of |-> d.of, left |-> d.left] /\ d.left # 0
      BY <1>7, <2>2, <2>3 DEF Continues
    <3> QED
      BY <2>2, <3>1, <3>2, NothingOf
  <2>5. Continues(e, view[Len(outbox) + 1])'
    BY <1>7, <1>9, <2>1, <2>2, <2>3, <2>4 DEF Continues
  <2> QED
    BY <1>5, <1>6, <1>9, <2>1, <2>2, <2>3, <2>5
<1>12. CASE F!ReadChunk(d)
  <2>1. PICK e : e = F!Holding(d, F!Frame("chunk", d.of, 1), d.left - 1, "send")
    OBVIOUS
  <2>2. /\ d.step = "read" /\ d.left # 0
        /\ downloads' = (downloads \ {d}) \cup {e} /\ UNCHANGED outbox
    BY <1>3, <1>12, <2>1 DEF F!ReadChunk, F!Becomes, F!Unclear, F!Expects
  <2>3. ~Spent(d)
    BY <2>2 DEF Spent
  <2>4. view[Len(outbox) + 1] = [of |-> d.of, left |-> (d.left - 1) + 1] /\ d.left - 1 >= 0
    BY <1>7, <2>2, <2>3 DEF Continues
  <2>5. Continues(e, view[Len(outbox) + 1])'
    BY <1>9, <2>1, <2>2, <2>4 DEF Continues
  <2> QED
    BY <1>5, <1>6, <1>9, <2>1, <2>2, <2>3, <2>5
<1>13. CASE F!ReadEnd(d) \/ F!DownloadAborted(d)
  <2>1. downloads' \subseteq downloads /\ UNCHANGED outbox
    BY <1>13 DEF F!ReadEnd, F!DownloadAborted, F!Leaves
  <2> QED
    BY <1>1, <1>3, <1>5, <2>1, DownloadsLess
<1>14. CASE F!DownloadSends(d)
  BY <1>1, <1>3, <1>14, DownloadSendKnown
<1>15. CASE F!DownloadSendFails(d)
  BY <1>3, <1>15 DEF F!DownloadSendFails
<1> QED
  BY <1>10, <1>11, <1>12, <1>13, <1>14, <1>15 DEF F!DownloadStep, F!Open

\* The file manager's invariant, part by part.
LEMMA ManagerIs ==
    ManagerInductive <=> Typed /\ Truths /\ UploadsFollowed /\ TransfersKnown
  BY TypedIs DEF ManagerInductive, F!UploadsTrue, Truths

\* At first nothing is under way.
LEMMA ManagerInit == F!Init => ManagerInductive
<1> SUFFICES ASSUME F!Init PROVE ManagerInductive
  OBVIOUS
<1>1. MaxSize \in Nat /\ MaxCommands \in Nat /\ Capacity \in Nat
  BY TaskRunAssumption DEF F!FileManagerAssumption
<1>2. /\ inbox = <<>> /\ inbox \in Seq(Asked) /\ Len(inbox) = 0 /\ unsent \in Seq(Told)
      /\ outbox \in Seq(Told) /\ Len(outbox) = 0 /\ Len(unsent) = 0
  BY NoFrame DEF F!Init
<1>3. F!Nothing \in [of: F!Commands \cup {F!None}, left: 0 .. MaxSize] /\ F!Nothing.of = 0
  BY <1>1 DEF F!Nothing, F!None
<1>4. Typed
  <2>1. StreamTyped
    <3>1. ending = "open" /\ cut \in BOOLEAN
      BY DEF F!Init
    <3> QED
      BY <1>1, <1>2, <3>1 DEF StreamTyped
  <2>2. OutTyped
    <3>1. loop = "select"
      BY DEF F!Init
    <3> QED
      BY <1>1, <1>2, <3>1 DEF OutTyped
  <2>3. UploadTyped /\ TruthTyped /\ DownloadsTyped
    <3>1. /\ upload = F!Nothing /\ lacking = [u \in F!Commands |-> 0] /\ refused = {}
          /\ downloads = {}
      BY DEF F!Init
    <3>2. failed \in BOOLEAN /\ untrue \in BOOLEAN /\ misread \in BOOLEAN
      BY DEF F!Init
    <3> QED
      BY <3>1, <3>2, NothingOf DEF UploadTyped, TruthTyped, DownloadsTyped
  <2>4. DashboardTyped
    <3>1. issued = 0 /\ sending = F!Nothing /\ garbled \in BOOLEAN
      BY DEF F!Init
    <3> QED
      BY <1>1, <3>1, NothingOf DEF DashboardTyped
  <2>5. ViewTyped
    <3>1. parser = F!Nothing /\ waiting = {} /\ clear \in BOOLEAN
      BY DEF F!Init
    <3> QED
      BY <1>3, <3>1 DEF ViewTyped
  <2> QED
    BY <2>1, <2>2, <2>3, <2>4, <2>5 DEF Typed
<1>5. Truths
  BY DEF F!Init, Truths
<1>6. UploadsFollowed
  <2> DEFINE stage == [i \in 1 .. 1 |-> F!Nothing]
  <2>1. stage[1] = F!Nothing /\ stage \in [1 .. 1 -> Uploads]
    BY NothingOf
  <2>2. sending = F!Nothing /\ upload = F!Nothing /\ issued = 0 /\ refused = {}
        /\ \A u \in F!Commands : lacking[u] = 0
    BY DEF F!Init
  <2> HIDE DEF stage
  <2>3. stage \in Stages(inbox, sending)
    BY <1>2, <2>1, <2>2 DEF Stages
  <2>4. OwnNumbers(inbox, stage[1], issued)
    BY <1>2, <1>3, <2>1, <2>2 DEF OwnNumbers
  <2>5. Lacks(inbox, stage, issued, lacking, refused)
    BY <1>2, <2>1, <2>2 DEF Lacks
  <2>6. Followed(inbox, stage)
    BY <2>1, <2>2, <2>4, <2>5 DEF Followed
  <2> QED
    BY <2>3, <2>6 DEF UploadsFollowed
<1>7. TransfersKnown
  <2>1. PICK view \in Views(outbox, parser) :
           \A i \in 1 .. Len(outbox) : ~Completes(outbox[i], view[i + 1])
    <3>1. Unanswered
      BY <1>2 DEF F!Init, Unanswered, Silent
    <3> QED
      BY <1>4, <3>1, Afresh
  <2>2. Silent(unsent) /\ waiting = {} /\ downloads = {} /\ upload = F!Nothing /\ parser = F!Nothing
    BY <1>2 DEF F!Init, Silent
  <2>3. Apart(view)
    BY <1>2, <2>1, <2>2
       DEF Apart, OneWaits, AskedOnce, UploadAwaited, AnswerAwaited, FramesAwaited, CompleteLast,
           DownloadsAwaited
  <2> QED
    BY <2>2, <2>3 DEF F!Init, TransfersKnown
<1> QED
  BY <1>4, <1>5, <1>6, <1>7, ManagerIs

\* Every step of the file manager keeps its invariant.
LEMMA ManagerStep == ManagerInductive /\ F!Next => ManagerInductive'
<1> SUFFICES ASSUME ManagerInductive, F!Next PROVE ManagerInductive'
  OBVIOUS
<1>1. Typed /\ Truths /\ UploadsFollowed /\ TransfersKnown /\ Typed'
  BY ManagerIs, ManagerTypes
<1>2. Truths' /\ UploadsFollowed'
  <2>1. CASE F!Dashboard
    BY <1>1, <2>1, DashboardFollowed
  <2>2. CASE \/ F!TakeEmpty \/ F!TakeData \/ F!TakeDataFails \/ F!TakeList \/ F!TakeDownload
             \/ (\E size \in 0 .. MaxSize : F!TakeUpload(size)) \/ F!TakeUploadFails
             \/ F!TakeOther
    BY <1>1, <2>2, TakenFollowed
  <2>3. CASE \/ F!Send \/ F!SendFails \/ F!Drained \/ F!KeepAliveDue \/ F!StreamEnds
             \/ \E d \in downloads : F!DownloadStep(d)
    BY <1>1, <2>3, OthersFollowed
  <2> QED
    BY <2>1, <2>2, <2>3 DEF F!Next, F!Progress, F!Loop
<1>3. TransfersKnown'
  <2>1. CASE F!Dashboard
    BY <1>1, <2>1, DashboardKnown, ReadsKnown
  <2>2. CASE \/ F!TakeEmpty \/ F!TakeData \/ F!TakeDataFails \/ F!TakeList \/ F!TakeDownload
             \/ (\E size \in 0 .. MaxSize : F!TakeUpload(size)) \/ F!TakeUploadFails
             \/ F!TakeOther
    BY <1>1, <2>2, TakenKnown
  <2>3. CASE F!Send \/ F!SendFails \/ F!Drained \/ F!KeepAliveDue \/ F!StreamEnds
    BY <1>1, <2>3, SendKnown, OthersKnown
  <2>4. CASE \E d \in downloads : F!DownloadStep(d)
    BY <1>1, <2>4, DownloadsKnown
  <2> QED
    BY <2>1, <2>2, <2>3, <2>4 DEF F!Next, F!Progress, F!Loop
<1>4. (ManagerInductive <=> Typed /\ Truths /\ UploadsFollowed /\ TransfersKnown)'
  BY ManagerIs, PTL
<1> QED
  BY <1>1, <1>2, <1>3, <1>4

-----------------------------------------------------------------------------
(* The task *)

\* What is disabled, or is another type's, is not begun.
NoCommand ==
    "command" \in disabled \/ ~IsCommand =>
        process \in {"idle", "over"} /\ \A p \in C!Processes : life[p] = "none"

NoTransfer ==
    "command" \in disabled =>
        phase \in {"start", "early", "done"} /\ ~committed /\ ~T!Said("chunk")

NoProbe == "query" \in disabled => state \in {"idle", "over"} /\ sent = 0

\* The invariants of the parts, and that.
Inductive ==
    /\ CommandInductive /\ NoCommand
    /\ ProbeInductive /\ NoProbe
    /\ TransferInductive /\ NoTransfer
    /\ ReadInductive
    /\ ManagerInductive

\* What is UNCHANGED keeps the invariant of its part.
LEMMA PartsStay ==
    /\ CommandInductive /\ UNCHANGED commandVars => CommandInductive'
    /\ ProbeInductive /\ UNCHANGED probeVars => ProbeInductive'
    /\ TransferInductive /\ UNCHANGED transferVars => TransferInductive'
    /\ ReadInductive /\ UNCHANGED readVars => ReadInductive'
    /\ ManagerInductive /\ UNCHANGED managerVars => ManagerInductive'
<1>1. CommandInductive /\ UNCHANGED commandVars => CommandInductive'
  BY DEF commandVars, CommandInductive, C!TypeOK, C!CleansUp, C!ReplyTrue, CommandNotBegun, Holders,
         OwnExit, NothingSpilt, Collected, Shown, C!Runs, C!Streams, C!Processes,
         C!Group, C!Eof, C!Piped
<1>2. ProbeInductive /\ UNCHANGED probeVars => ProbeInductive'
  BY DEF probeVars, ProbeInductive, P!PingTrue, P!TypeOK, Answers, JoinedInTime, Counted,
         Requests
<1>3. TransferInductive /\ UNCHANGED transferVars => TransferInductive'
  <2> SUFFICES ASSUME TransferInductive, UNCHANGED transferVars PROVE TransferInductive'
    OBVIOUS
  <2>1. T!Sent' = T!Sent
    BY DEF T!Sent, transferVars
  <2>2. T!TypeOK'
    BY DEF TransferInductive, TransferSaid, T!TransferTrue, T!TypeOK, transferVars
  <2>3. TransferSaid'
    BY <2>1, <2>2, SaidSame DEF transferVars, TransferInductive, TransferSaid, T!TransferTrue,
           SaidInPhase, FinalTrue, SentSoFar
  <2>4. CallKnown' /\ UploadFed'
    BY <2>1 DEF transferVars, TransferInductive, CallKnown, UploadFed, Coming
  <2> QED
    BY <2>3, <2>4 DEF TransferInductive
<1>4. ReadInductive /\ UNCHANGED readVars => ReadInductive'
  <2> SUFFICES ASSUME ReadInductive, UNCHANGED readVars PROVE ReadInductive'
    OBVIOUS
  <2>1. /\ R!TypeOK /\ R!ReadTrue /\ R!ListTrue
        /\ HandleOpen /\ PartsJoin /\ ListGrows
    BY DEF ReadInductive, R!ReadsTrue
  <2>2. R!TypeOK' /\ HandleOpen'
    BY <2>1 DEF readVars, R!TypeOK, HandleOpen
  <2>3. R!ReadTrue' /\ PartsJoin'
    BY <2>1 DEF readVars, R!ReadTrue, PartsJoin
  <2>4. R!ListTrue'
    BY <2>1 DEF readVars, R!ListTrue
  <2>5. ListGrows'
    BY <2>1 DEF readVars, ListGrows, LookedAt
  <2> QED
    BY <2>2, <2>3, <2>4, <2>5 DEF ReadInductive, R!ReadsTrue
<1>5. ManagerInductive /\ UNCHANGED managerVars => ManagerInductive'
  <2> SUFFICES ASSUME ManagerInductive, UNCHANGED managerVars PROVE ManagerInductive'
    OBVIOUS
  <2>1. UploadsFollowed'
    BY FollowedStays DEF ManagerInductive, managerVars
  <2>2. F!TypeOK' /\ FramesTyped'
    BY DEF ManagerInductive, F!UploadsTrue, F!TypeOK, FramesTyped, managerVars
  <2>3. TransfersKnown'
    <3>1. Typed /\ TransfersKnown
      BY ManagerIs
    <3> QED
      BY <3>1, ApartStays, StillApart DEF managerVars, TransfersKnown
  <2> QED
    BY <2>1, <2>2, <2>3 DEF ManagerInductive, F!UploadsTrue, managerVars
<1> QED
  BY <1>1, <1>2, <1>3, <1>4, <1>5

\* A command that is refused has no process.
LEMMA CommandRefused ==
    ASSUME CommandInductive, process \in {"idle", "over"},
           \A p \in C!Processes : life[p] = "none",
           C!Next, reply' = "refused"
    PROVE  process' \in {"idle", "over"} /\ \A p \in C!Processes : life'[p] = "none"
<1>1. process # "over" => reply = "none"
  BY DEF CommandInductive, CommandNotBegun
<1>2. CASE C!ProcessStep
  BY <1>2 DEF C!ProcessStep, C!Fork, C!Write, C!Exit, C!Runs
<1>3. CASE C!ReaderStep
  BY <1>3 DEF C!ReaderStep, C!Read, C!ReadEnd, C!TaskKept, C!processes
<1>4. CASE C!Task
  BY <1>1, <1>4 DEF C!Task, C!Refuse, C!Start, C!Waited, C!Finish, C!TimesUp, C!Cancel, C!Dropped,
         C!Collect, C!GiveUp, C!Abort, C!Over, C!processes, C!Streams
<1> QED
  BY <1>2, <1>3, <1>4 DEF C!Next

\* A probe that is refused sends nothing.
LEMMA ProbeRefused ==
    ASSUME ProbeInductive, state \in {"idle", "over"}, sent = 0, P!Next, outcome' = "refused"
    PROVE  state' \in {"idle", "over"} /\ sent' = 0
<1>1. state = "idle" => outcome = "none"
  BY DEF ProbeInductive, Answers
<1> QED
  BY <1>1 DEF P!Next, P!Refuse, P!Start, P!Resolve, P!Connect, P!Respond, P!ReadBody, P!TimeOut, P!Send,
         P!Echoing, P!Reply, P!Join, P!JoinUntil, P!Expire, P!Tick, P!Cancel, P!Over, P!Goes, P!Idle,
         P!echoes, P!given

\* A transfer that is refused says no more than that, and leaves the file alone.
LEMMA TransferRefused ==
    ASSUME TransferInductive, phase \in {"start", "early", "done"}, ~committed, ~T!Said("chunk"),
           T!Next, phase' \in {"start", "early", "done"}
    PROVE  ~committed' /\ ~T!Said("chunk")'
<1>1. heard \in Seq(TransferFrames) /\ queue \in Seq(TransferFrames)
  BY DEF TransferInductive, TransferSaid, T!TransferTrue, T!TypeOK, TransferFrames
<1>2. phase = "start" => heard = <<>>
  BY DEF TransferInductive, TransferSaid, SaidInPhase
<1> USE DEF T!Moves, T!Results, T!RunKept, T!DashboardKept, T!WireKept
<1>3. ASSUME T!Sent' = T!Sent PROVE ~T!Said("chunk")'
  BY <1>3, SaidSame
<1>4. ASSUME UNCHANGED <<heard, queue>> PROVE ~T!Said("chunk")'
  BY <1>3, <1>4 DEF T!Sent
<1>5. ASSUME queue' = <<>>, UNCHANGED heard PROVE ~T!Said("chunk")'
  BY <1>1, <1>5, SaidLess
<1>6. CASE T!Hears
  <2>1. /\ queue # <<>> /\ heard' = Append(heard, Head(queue)) /\ queue' = Tail(queue)
        /\ UNCHANGED committed
    BY <1>6 DEF T!Hears
  <2>2. heard' \o queue' = heard \o queue
    BY <1>1, <2>1, Passes
  <2> QED
    BY <1>3, <2>1, <2>2 DEF T!Sent
<1>7. CASE T!Opens \/ (\E size \in 0 .. MaxData + 1 : T!Sends(size)) \/ T!HangsUp
  BY <1>4, <1>7 DEF T!Opens, T!Sends, T!HangsUp
<1>8. CASE T!Breaks
  BY <1>5, <1>8 DEF T!Breaks
<1>9. CASE T!EarlyError
  <2>1. queue' = <<"attach", "error">> /\ heard' = <<>> /\ UNCHANGED committed
    BY <1>2, <1>9 DEF T!EarlyError, T!Calls
  <2>2. <<"attach", "error">> \in Seq(TransferFrames)
    BY DEF TransferFrames
  <2>3. T!Sent' = <<"attach", "error">>
    BY <2>1, <2>2, ConcatEmptySeq DEF T!Sent
  <2> QED
    BY <2>1, <2>3 DEF T!Said
<1>10. CASE T!Refuses \/ T!EarlyEnds
  BY <1>4, <1>10 DEF T!Refuses, T!EarlyEnds
<1>11. CASE T!Stops
  BY <1>4, <1>5, <1>11 DEF T!Stops
<1>12. /\ \A size \in 0 .. MaxData : ~T!Header(size)
       /\ ~T!Opened /\ ~T!Receive /\ ~T!Missed /\ ~T!Commit /\ ~T!Chunk /\ ~T!SentAll
       /\ ~T!Tells /\ ~T!TellsNobody /\ ~T!Late /\ ~T!Drains /\ ~T!Fails /\ ~T!TimesOut
  BY DEF T!Header, T!Opened, T!Receive, T!Missed, T!Commit, T!Chunk, T!SentAll, T!Tells,
         T!TellsNobody, T!Late, T!Drains, T!Fails, T!TimesOut
<1> QED
  BY <1>6, <1>7, <1>8, <1>9, <1>10, <1>11, <1>12 DEF T!Next, T!Dashboard, T!Runs

\* A task begins with nothing done by any part.
LEMMA TaskInit == Init => Inductive
<1> SUFFICES ASSUME Init PROVE Inductive
  OBVIOUS
<1>1. C!Init /\ P!Init /\ T!Init /\ R!Init /\ F!Init
  BY DEF Init
<1>2. CommandInductive /\ ProbeInductive /\ TransferInductive /\ ReadInductive /\ ManagerInductive
  BY <1>1, CommandInit, ProbeInit, TransferInit, ReadInit, ManagerInit
<1>3. NoCommand /\ NoProbe
  BY <1>1 DEF C!Init, P!Init, NoCommand, NoProbe
<1>4. ~T!Said("chunk")
  <2>1. T!Sent = <<>>
    BY <1>1, ConcatEmptySeq, EmptySeq DEF T!Init, T!Sent
  <2> QED
    BY <2>1 DEF T!Said
<1>5. NoTransfer
  BY <1>1, <1>4 DEF T!Init, NoTransfer
<1> QED
  BY <1>2, <1>3, <1>5 DEF Inductive

\* Each part keeps its own invariant, and leaves the others'.
LEMMA TaskStep == Inductive /\ [Next]_vars => Inductive'
<1> SUFFICES ASSUME Inductive, [Next]_vars PROVE Inductive'
  OBVIOUS
<1>1. CommandInductive /\ ProbeInductive /\ TransferInductive /\ ReadInductive /\ ManagerInductive
      /\ NoCommand /\ NoProbe /\ NoTransfer
  BY DEF Inductive
<1>2. UNCHANGED commandVars => CommandInductive'
  BY <1>1, PartsStay
<1>3. UNCHANGED probeVars => ProbeInductive'
  BY <1>1, PartsStay
<1>4. UNCHANGED transferVars => TransferInductive'
  BY <1>1, PartsStay
<1>5. UNCHANGED readVars => ReadInductive'
  BY <1>1, PartsStay
<1>6. UNCHANGED <<type, disabled, commandVars>> => NoCommand'
  BY <1>1 DEF NoCommand, IsCommand, commandVars
<1>7. UNCHANGED <<disabled, probeVars>> => NoProbe'
  BY <1>1 DEF NoProbe, probeVars
<1>8. UNCHANGED <<disabled, transferVars>> => NoTransfer'
  <2> SUFFICES ASSUME UNCHANGED <<disabled, transferVars>> PROVE NoTransfer'
    OBVIOUS
  <2>1. T!Said("chunk")' <=> T!Said("chunk")
    BY DEF transferVars, T!Said, T!Sent
  <2> QED
    BY <1>1, <2>1 DEF NoTransfer, transferVars
<1>9. UNCHANGED managerVars => ManagerInductive'
  BY <1>1, PartsStay
<1>10. CASE RunCommand
  <2>1. /\ IsCommand /\ C!Next /\ ("command" \in disabled => reply' = "refused")
        /\ UNCHANGED <<type, disabled, probeVars, managerVars, transferVars, readVars>>
    BY <1>10 DEF RunCommand
  <2>2. CommandInductive'
    BY <1>1, <2>1, CommandStep
  <2>3. NoCommand'
    <3>1. CASE "command" \in disabled
      <4>1. process' \in {"idle", "over"} /\ \A p \in C!Processes : life'[p] = "none"
        BY <1>1, <2>1, <3>1, CommandRefused DEF NoCommand
      <4> QED
        BY <4>1 DEF NoCommand, C!Processes
    <3>2. CASE "command" \notin disabled
      BY <2>1, <3>2 DEF NoCommand, IsCommand
    <3> QED
      BY <3>1, <3>2
  <2> QED
    BY <1>3, <1>4, <1>5, <1>7, <1>8, <1>9, <2>1, <2>2, <2>3 DEF Inductive
<1>11. CASE RunProbe
  <2>1. /\ P!Next /\ ("query" \in disabled => outcome' = "refused")
        /\ UNCHANGED <<type, disabled, commandVars, managerVars, transferVars, readVars>>
    BY <1>11 DEF RunProbe
  <2>2. ProbeInductive'
    BY <1>1, <2>1, ProbeStep
  <2>3. NoProbe'
    BY <1>1, <2>1, ProbeRefused DEF NoProbe
  <2> QED
    BY <1>2, <1>4, <1>5, <1>6, <1>8, <1>9, <2>1, <2>2, <2>3 DEF Inductive
<1>12. CASE RunTransfer
  <2>1. /\ T!Next /\ ("command" \in disabled => phase' \in {"start", "early", "done"})
        /\ UNCHANGED <<type, disabled, commandVars, probeVars, managerVars, readVars>>
    BY <1>12 DEF RunTransfer
  <2>2. TransferInductive'
    BY <1>1, <2>1, TransferStep
  <2>3. NoTransfer'
    BY <1>1, <2>1, TransferRefused DEF NoTransfer
  <2> QED
    BY <1>2, <1>3, <1>5, <1>6, <1>7, <1>9, <2>1, <2>2, <2>3 DEF Inductive
<1>13. CASE RunRead
  <2>1. /\ R!Next
        /\ UNCHANGED <<type, disabled, commandVars, probeVars, managerVars, transferVars>>
    BY <1>13 DEF RunRead
  <2>2. ReadInductive'
    BY <1>1, <2>1, ReadStep
  <2> QED
    BY <1>2, <1>3, <1>4, <1>6, <1>7, <1>8, <1>9, <2>1, <2>2 DEF Inductive
<1>14. CASE RunManager
  <2>1. F!Next /\ UNCHANGED <<type, disabled, commandVars, probeVars, transferVars, readVars>>
    BY <1>14 DEF RunManager
  <2>2. ManagerInductive'
    BY <1>1, <2>1, ManagerStep
  <2> QED
    BY <1>2, <1>3, <1>4, <1>5, <1>6, <1>7, <1>8, <2>1, <2>2 DEF Inductive
<1>15. CASE RunOther \/ UNCHANGED vars
  <2>1. UNCHANGED <<type, disabled, commandVars, probeVars, managerVars, transferVars, readVars>>
    BY <1>15 DEF RunOther, vars
  <2> QED
    BY <1>2, <1>3, <1>4, <1>5, <1>6, <1>7, <1>8, <1>9, <2>1 DEF Inductive
<1> QED
  BY <1>10, <1>11, <1>12, <1>13, <1>14, <1>15 DEF Next

\* Of every task, of whatever type: its part's invariant holds, and what is
\* disabled is not begun.
THEOREM TaskInvariant == Spec => []Inductive
  BY TaskInit, TaskStep, PTL DEF Spec

\* Nothing of a command's process group outlives the task, however it ends,
\* and nothing is started where commands are disabled.
THEOREM TaskCleansUp == Spec => []CommandCleansUp
<1>1. Inductive => CommandCleansUp
  BY DEF Inductive, NoCommand, CommandCleansUp, CommandInductive
<1> QED
  BY <1>1, TaskInvariant, PTL

\* What the dashboard is told of a command's exit and output is true.
THEOREM TaskReplies == Spec => []CommandReplyTrue
<1>1. Inductive => CommandReplyTrue
  BY DEF Inductive, CommandReplyTrue, CommandInductive
<1> QED
  BY <1>1, TaskInvariant, PTL

\* A ping counts the replies that come in time, whatever their order.
THEOREM TaskPings == Spec => []PingTrue
<1>1. Inductive => PingTrue
  BY DEF Inductive, NoProbe, PingTrue, ProbeInductive
<1> QED
  BY <1>1, TaskInvariant, PTL

\* A transfer is told to have succeeded only if its file was committed or sent
\* whole, and to have failed only if it was not committed.
THEOREM TaskTransfers == Spec => []TransferTrue
<1>1. Inductive => TransferTrue
  BY DEF Inductive, NoTransfer, TransferTrue, TransferInductive, TransferSaid
<1> QED
  BY <1>1, TaskInvariant, PTL

\* Listings and reads are of what was opened, whatever others do to the names,
\* and whole when they say so.
THEOREM TaskReads == Spec => []ReadsTrue
<1>1. Inductive => ReadsTrue
  BY DEF Inductive, ReadsTrue, ReadInductive
<1> QED
  BY <1>1, TaskInvariant, PTL

\* Until the file manager has answered an upload with an error, its answers
\* to uploads are true, and nothing is misread.
THEOREM TaskUploads == Spec => []ManagerUploadsTrue
<1>1. Inductive => ManagerUploadsTrue
  BY DEF Inductive, ManagerUploadsTrue, ManagerInductive
<1> QED
  BY <1>1, TaskInvariant, PTL

\* As long as a command's task waits for its leader, a process that has filled
\* a pipe has a reader that goes on, whatever has been kept.
THEOREM TaskCommandFlows == Spec => []CommandFlows
<1>1. ASSUME CommandInductive PROVE C!NeverStalls
  BY <1>1, TaskRunAssumption
     DEF C!CommandsAssumption, CommandInductive, C!NeverStalls, C!Readable, C!TypeOK,
         C!CleansUp, C!ReplyTrue, CommandNotBegun, Holders, OwnExit, NothingSpilt, Collected,
         Shown, C!Runs, C!Streams, C!Processes, C!Group, C!Eof, C!Piped
<1>2. Inductive => CommandFlows
  BY <1>1 DEF Inductive, CommandFlows
<1> QED
  BY <1>2, TaskInvariant, PTL

\* A transfer whose dashboard does its part waits for no limit of time: the
\* call has been asked for, or what is asked for is on its way, or the channel
\* has room.
THEOREM TaskTransferFlows == Spec => []TransferFlows
<1>1. Inductive => TransferFlows
  BY TransferGoesOn DEF Inductive, TransferFlows
<1> QED
  BY <1>1, TaskInvariant, PTL

\* A dashboard that waits for each answer can tell what each data frame of the
\* old file manager belongs to.
THEOREM TaskTransfersApart == Spec => []ManagerTransfersApart
<1>1. Inductive => ManagerTransfersApart
  BY DEF Inductive, ManagerInductive, TransfersKnown, ManagerTransfersApart, F!TransfersApart
<1> QED
  BY <1>1, TaskInvariant, PTL

\* The end of the old file manager's stream ends its loop and its downloads,
\* but for a frame that waits for a dashboard that reads nothing.
THEOREM TaskEndDrains == Spec => []ManagerEndDrains
<1>1. ASSUME ManagerInductive PROVE F!EndDrains
  <2>1. /\ loop = "done" => downloads = {}
        /\ loop \in {"select", "sending", "lastSend", "drain", "done"}
        /\ Len(outbox) <= Capacity /\ Len(outbox) \in Nat /\ Capacity \in Nat
    BY <1>1, TaskRunAssumption, LenProperties
       DEF ManagerInductive, TransfersKnown, F!UploadsTrue, F!TypeOK, F!FileManagerAssumption
  <2> QED
    BY <2>1 DEF F!EndDrains, F!Busy, F!MaySend
<1>2. Inductive => ManagerEndDrains
  BY <1>1 DEF Inductive, ManagerEndDrains
<1> QED
  BY <1>2, TaskInvariant, PTL
=============================================================================
