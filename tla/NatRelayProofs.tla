--------------------------- MODULE NatRelayProofs ---------------------------
(***************************************************************************)
(* The relay keeps both directions in order, for any capacities and any    *)
(* amount of data.                                                         *)
(***************************************************************************)
EXTENDS NatRelay, RelayStreamProofs

-----------------------------------------------------------------------------
(* The inductive invariant *)

\* The sender is there until the end of the backend's direction, at which
\* nothing the backend wrote is left to be read.
TaskKnown ==
    /\ open => ~localEof
    /\ loop \in {"select", "write", "send"} => open \/ localEof
    /\ loop = "send" => held \in Nat
    /\ loop = "write" => held \in Nat \ {Keep}
    /\ loop = "send" => open
    /\ loop = "finish" => ~open /\ ~localEof /\ held = Eof /\ finished /\ tcpIn = <<>>
    /\ localEof => finished

BackendKnown ==
    /\ backend = "writing" => ~finished /\ written < MaxOut
    /\ backend = "gone" => finished
    /\ reset \/ loop = "done" => tcpIn = <<>>
    /\ reset => loop = "done" \/ backend = "gone"

\* The end is announced once and after everything the backend wrote.
EofKnown ==
    LET frames == got \o outbound IN
    /\ HasEof(frames) => localEof /\ (reset \/ Carries(frames, written))
    /\ loop = "send" /\ ~cut => InSequence(frames \o <<held>>)

\* The backend gets the first chunks, in order, and all of them by the time
\* the relay notes that the stream has ended.
InputReached ==
    LET frames == received \o tcpOut IN
    /\ exit = "end" => loop = "done"
    /\ ~reset /\ ending # "broken" /\ backend # "gone" =>
          /\ \A i \in DOMAIN frames : frames[i] = i
          /\ exit = "end" => Carries(frames, sent)

Inductive ==
    /\ TypeOK
    /\ OutputInOrder /\ InputInOrder
    /\ GotInOrder /\ OutboundInOrder
    /\ TaskKnown /\ BackendKnown /\ EofKnown /\ InputReached

-----------------------------------------------------------------------------
\* Every queue is one of frames.
LEMMA Queues ==
    ASSUME TypeOK
    PROVE  /\ got \in Seq(Frames) /\ outbound \in Seq(Frames) /\ tcpIn \in Seq(Frames)
           /\ received \in Seq(Frames) /\ tcpOut \in Seq(Frames)
           /\ remote \in Seq(Frames) /\ held \in Frames
           /\ got \o outbound \in Seq(Frames) /\ received \o tcpOut \in Seq(Frames)
           /\ written \in Nat /\ sent \in Nat
           /\ Holding(loop = "send", held) \in Seq(Frames)
           /\ Holding(loop = "write", held) \in Seq(Frames)
           /\ (got \o outbound) \o Holding(loop = "send", held) \in Seq(Frames)
           /\ (received \o tcpOut) \o Holding(loop = "write", held) \in Seq(Frames)
<1>1. /\ got \in Seq(Frames) /\ outbound \in Seq(Frames) /\ tcpIn \in Seq(Nat)
      /\ received \in Seq(Nat) /\ tcpOut \in Seq(Nat)
      /\ remote \in Seq(Nat) /\ held \in Frames
  BY DEF TypeOK, StreamTypeOK, Sized
<1>2. \A s \in Seq(Nat) : s \in Seq(Frames)
  BY FramesAreIntegers, SeqMonotonic
<1>3. written \in Nat /\ sent \in Nat
  BY NatAssumption, StreamAssumption DEF TypeOK, StreamTypeOK
<1>4. /\ Holding(loop = "send", held) \in Seq(Frames)
      /\ Holding(loop = "write", held) \in Seq(Frames)
  <2>1. <<>> \in Seq(Frames) /\ <<held>> \in Seq(Frames)
    BY <1>1, Single, EmptySeq
  <2> QED
    BY <2>1 DEF Holding
<1> QED
  BY <1>1, <1>2, <1>3, <1>4, Row

-----------------------------------------------------------------------------
(* The actions, by what they change *)

LoopEnds == ReceiveEnd \/ WriteFails \/ SendRefused \/ Drained \/ Cancelled

\* However the loop ends, it was running; by its limit only after the backend
\* has ended.
LEMMA Ends ==
    ASSUME LoopEnds
    PROVE  /\ loop # "done" /\ \E why \in {"end", "write", "cut", "drained", "cancelled"} : Done(why)
           /\ Drained => localEof
  BY DEF LoopEnds, ReceiveEnd, WriteFails, SendRefused, Drained, Drains, Cancelled

\* Every step is one of these, and those of the dashboard leave the rest of
\* the relay alone.
LEMMA Steps ==
    ASSUME Next
    PROVE  \/ (SendChunk /\ Others) \/ (SendOther /\ Others) \/ (Close /\ Others)
           \/ (CutOff /\ Others) \/ (ReadFrame /\ Others)
           \/ BackendReads \/ BackendSpeaks \/ BackendWrites \/ BackendWritesLate
           \/ BackendFinishes \/ BackendGoes
           \/ ReceiveChunk \/ ReceiveOther \/ WriteAll \/ ReadBackend \/ ReadEnd
           \/ KeepAlive \/ SendOutput \/ LoopEnds
  BY DEF Next, DashboardSends, DashboardReads, StreamTornDown, LoopStep, LoopEnds

\* Every step keeps the types, the capacities of the queues among them.
LEMMA TypePreserved ==
    ASSUME TypeOK, TaskKnown, BackendKnown, Next
    PROVE  TypeOK'
<1>1. /\ loop \in {"select", "write", "send", "finish", "done"}
      /\ exit \in {"none", "end", "write", "cut", "drained", "cancelled"}
      /\ held \in Frames
      /\ open \in BOOLEAN /\ localEof \in BOOLEAN
      /\ tcpIn \in Seq(Nat) /\ Len(tcpIn) <= TcpBuffer /\ Len(tcpIn) \in Nat
      /\ tcpOut \in Seq(Nat) /\ Len(tcpOut) <= TcpBuffer /\ Len(tcpOut) \in Nat
      /\ backend \in {"idle", "writing", "gone"}
      /\ finished \in BOOLEAN /\ reset \in BOOLEAN
      /\ received \in Seq(Nat) /\ written \in 0 .. MaxOut
      /\ TcpBuffer \in Nat \ {0} /\ MaxOut \in Nat
      /\ StreamTypeOK /\ remote \in Seq(Nat)
  BY NatAssumption, LenProperties DEF TypeOK, Sized, StreamTypeOK
<1>2. <<>> \in Seq(Nat) /\ Len(<<>>) = 0 /\ Keep \in Frames /\ Eof \in Frames
      /\ \A n \in Nat : n \in Frames
  BY EmptySeq, FramesAreIntegers
<1>3. ASSUME StreamTypeOK',
             loop' \in {"select", "write", "send", "finish", "done"},
             exit' \in {"none", "end", "write", "cut", "drained", "cancelled"},
             held' \in Frames,
             open' \in BOOLEAN, localEof' \in BOOLEAN, finished' \in BOOLEAN,
             reset' \in BOOLEAN, backend' \in {"idle", "writing", "gone"},
             tcpIn' \in Seq(Nat), Len(tcpIn') <= TcpBuffer,
             tcpOut' \in Seq(Nat), Len(tcpOut') <= TcpBuffer,
             received' \in Seq(Nat), written' \in 0 .. MaxOut
      PROVE  TypeOK'
  BY <1>3 DEF TypeOK, Sized
<1>4. UNCHANGED stream => StreamTypeOK'
  BY <1>1 DEF stream, StreamTypeOK
<1>5. ASSUME Others, SendChunk \/ SendOther \/ Close \/ CutOff \/ ReadFrame
      PROVE  TypeOK'
  <2>1. StreamTypeOK'
    BY <1>1, <1>5, StreamTypePreserved
  <2> QED
    BY <1>1, <1>3, <1>5, <2>1 DEF Others, task, peer
<1>6. CASE BackendReads
  <2>1. /\ Tail(tcpOut) \in Seq(Nat) /\ Len(Tail(tcpOut)) = Len(tcpOut) - 1
        /\ Append(received, Head(tcpOut)) \in Seq(Nat)
    BY <1>1, <1>6, HeadTailProperties, AppendProperties DEF BackendReads
  <2> QED
    BY <1>1, <1>3, <1>4, <1>6, <2>1 DEF BackendReads, task
<1>7. CASE BackendSpeaks
  BY <1>1, <1>3, <1>4, <1>7 DEF BackendSpeaks, task
<1>8. CASE BackendWrites
  <2>1. written + 1 \in Nat /\ written + 1 \in 0 .. MaxOut
    BY <1>1, <1>8 DEF BackendWrites, BackendKnown
  <2>2. /\ Append(tcpIn, written + 1) \in Seq(Nat)
        /\ Len(Append(tcpIn, written + 1)) = Len(tcpIn) + 1
    BY <1>1, <2>1, AppendProperties
  <2> QED
    BY <1>1, <1>3, <1>4, <1>8, <2>1, <2>2 DEF BackendWrites, task
<1>9. CASE BackendWritesLate
  <2>1. /\ tcpOut' = tcpOut \/ tcpOut' = <<>>
        /\ backend' = "idle" /\ reset' = TRUE
        /\ UNCHANGED <<loop, exit, held, open, localEof, stream, tcpIn, finished,
                       received, written>>
    BY <1>9 DEF BackendWritesLate, task
  <2>2. tcpOut' \in Seq(Nat) /\ Len(tcpOut') <= TcpBuffer
    BY <1>1, <2>1, EmptyQueue
  <2> QED
    BY <1>1, <1>3, <1>4, <2>1, <2>2
<1>10. CASE BackendFinishes
  BY <1>1, <1>3, <1>4, <1>10 DEF BackendFinishes, task
<1>11. CASE BackendGoes
  <2>1. /\ (tcpIn' = tcpIn /\ reset' = reset) \/ (tcpIn' = <<>> /\ reset' = TRUE)
        /\ tcpOut' = <<>> /\ backend' = "gone" /\ finished' = TRUE
        /\ UNCHANGED <<loop, exit, held, open, localEof, stream, received, written>>
    BY <1>11 DEF BackendGoes, task
  <2>2. /\ tcpIn' \in Seq(Nat) /\ Len(tcpIn') <= TcpBuffer
        /\ tcpOut' \in Seq(Nat) /\ Len(tcpOut') <= TcpBuffer
    BY <1>1, <2>1, EmptyQueue
  <2>3. reset' \in BOOLEAN
    BY <1>1, <2>1
  <2> QED
    BY <1>1, <1>3, <1>4, <2>1, <2>2, <2>3
<1>12. CASE ReceiveChunk \/ ReceiveOther
  <2>1. StreamTypeOK' /\ Head(remote) \in Nat
    BY <1>1, <1>12, StreamTypePreserved, HeadTailProperties
       DEF ReceiveChunk, ReceiveOther, TakeFrame
  <2> QED
    BY <1>1, <1>2, <1>3, <1>12, <2>1 DEF ReceiveChunk, ReceiveOther, At, Local, peer
<1>13. CASE WriteAll
  <2>1. held \in Nat
    BY <1>13 DEF WriteAll, TaskKnown
  <2>2. Append(tcpOut, held) \in Seq(Nat) /\ Len(Append(tcpOut, held)) = Len(tcpOut) + 1
    BY <1>1, <2>1, AppendProperties
  <2> QED
    BY <1>1, <1>2, <1>3, <1>4, <1>13, <2>2 DEF WriteAll, At, Local, peer
<1>14. CASE ReadBackend
  <2>1. /\ Head(tcpIn) \in Nat /\ Tail(tcpIn) \in Seq(Nat)
        /\ Len(Tail(tcpIn)) = Len(tcpIn) - 1
    BY <1>1, <1>14, HeadTailProperties DEF ReadBackend
  <2> QED
    BY <1>1, <1>2, <1>3, <1>4, <1>14, <2>1 DEF ReadBackend, At, Local, peer
<1>15. CASE ReadEnd
  BY <1>1, <1>2, <1>3, <1>4, <1>15 DEF ReadEnd, At, peer
<1>16. CASE KeepAlive
  BY <1>1, <1>2, <1>3, <1>4, <1>16 DEF KeepAlive, At, Local, peer
<1>17. CASE SendOutput
  <2>1. StreamTypeOK'
    BY <1>1, <1>17, StreamTypePreserved DEF SendOutput
  <2> QED
    BY <1>1, <1>2, <1>3, <1>17, <2>1 DEF SendOutput, At, peer
<1>18. CASE LoopEnds
  <2>1. PICK why \in {"end", "write", "cut", "drained", "cancelled"} : Done(why)
    BY <1>18, Ends
  <2>2. StreamTypeOK'
    BY <1>1, <2>1, StreamTypePreserved DEF Done
  <2>3. /\ loop' = "done" /\ exit' = why /\ held' = Keep /\ open' = FALSE
        /\ tcpIn' = <<>>
        /\ tcpOut' = tcpOut \/ tcpOut' = <<>>
        /\ reset' = reset \/ reset' = TRUE
        /\ UNCHANGED <<localEof, backend, finished, received, written>>
    BY <2>1 DEF Done, peer
  <2>4. /\ tcpIn' \in Seq(Nat) /\ Len(tcpIn') <= TcpBuffer
        /\ tcpOut' \in Seq(Nat) /\ Len(tcpOut') <= TcpBuffer
    BY <1>1, <2>3, EmptyQueue
  <2>5. reset' \in BOOLEAN
    BY <1>1, <2>3
  <2> QED
    BY <1>1, <1>2, <1>3, <2>2, <2>3, <2>4, <2>5
<1> QED
  BY <1>5, <1>6, <1>7, <1>8, <1>9, <1>10, <1>11, <1>12, <1>13, <1>14, <1>15, <1>16,
     <1>17, <1>18, Steps

\* The bookkeeping of the task and of the backend.
LEMMA KnownPreserved ==
    ASSUME TypeOK, TaskKnown, BackendKnown, Next
    PROVE  TaskKnown' /\ BackendKnown'
<1> USE DEF TaskKnown, BackendKnown
<1>1. /\ loop \in {"select", "write", "send", "finish", "done"}
      /\ open \in BOOLEAN /\ localEof \in BOOLEAN
      /\ finished \in BOOLEAN /\ reset \in BOOLEAN
      /\ backend \in {"idle", "writing", "gone"}
      /\ tcpIn \in Seq(Nat) /\ remote \in Seq(Nat) /\ Keep \in Nat
  BY DEF TypeOK, StreamTypeOK, Sized, Keep
<1>2. CASE Others
  BY <1>2 DEF Others, task, peer
<1>3. CASE BackendReads \/ BackendSpeaks \/ BackendFinishes
  BY <1>1, <1>3 DEF BackendReads, BackendSpeaks, BackendFinishes, task
<1>4. CASE BackendWrites
  <2>1. loop # "finish" /\ ~reset /\ ~finished
    BY <1>1, <1>4 DEF BackendWrites
  <2> QED
    BY <1>1, <1>4, <2>1 DEF BackendWrites, task
<1>5. CASE BackendWritesLate
  <2>1. /\ loop = "done" /\ backend = "writing" /\ backend' = "idle"
        /\ UNCHANGED <<loop, held, open, localEof, tcpIn, finished, written>>
    BY <1>5 DEF BackendWritesLate, task
  <2> QED
    BY <1>1, <2>1
<1>6. CASE BackendGoes
  BY <1>1, <1>6 DEF BackendGoes, task
<1>7. CASE ReceiveChunk \/ ReceiveOther
  <2>1. remote # <<>> => Head(remote) \in Nat
    BY <1>1, HeadTailProperties
  <2> QED
    BY <1>1, <1>7, <2>1 DEF ReceiveChunk, ReceiveOther, TakeFrame, At, Local, peer
<1>8. CASE WriteAll
  BY <1>1, <1>8 DEF WriteAll, At, Local, peer
<1>9. CASE ReadBackend
  <2>1. tcpIn # <<>> => Head(tcpIn) \in Nat
    BY <1>1, HeadTailProperties
  <2> QED
    BY <1>1, <1>9, <2>1 DEF ReadBackend, At, Local, peer
<1>10. CASE ReadEnd
  BY <1>1, <1>10 DEF ReadEnd, At, peer
<1>11. CASE KeepAlive
  BY <1>1, <1>11 DEF KeepAlive, At, Local, peer
<1>12. CASE SendOutput
  BY <1>1, <1>12 DEF SendOutput, At, peer
<1>13. CASE LoopEnds
  <2>1. PICK why \in {"end", "write", "cut", "drained", "cancelled"} : Done(why)
    BY <1>13, Ends
  <2> QED
    BY <1>1, <2>1 DEF Done, peer
<1> QED
  BY <1>2, <1>3, <1>4, <1>5, <1>6, <1>7, <1>8, <1>9, <1>10, <1>11, <1>12, <1>13, Steps

-----------------------------------------------------------------------------
(* To the dashboard *)

\* What moves towards the dashboard; the loop's frame between two queues.
Output == ((got \o outbound) \o Holding(loop = "send", held)) \o tcpIn

\* The loop's frame is between the two queues while the loop sends it.
LEMMA OutputHeld ==
    ASSUME TypeOK
    PROVE  Output = IF loop = "send" THEN ((got \o outbound) \o <<held>>) \o tcpIn
                                     ELSE (got \o outbound) \o tcpIn
<1>1. got \o outbound \in Seq(Frames) /\ held \in Frames
  BY Queues
<1>2. (got \o outbound) \o Holding(loop = "send", held) =
        IF loop = "send" THEN (got \o outbound) \o <<held>> ELSE got \o outbound
  BY <1>1, Held
<1> QED
  BY <1>2 DEF Output

\* Every step moves output along or adds to its end.
LEMMA OutputPreserved ==
    ASSUME TypeOK, TypeOK', TaskKnown, BackendKnown, GotInOrder, OutboundInOrder,
           OutputInOrder, Next
    PROVE  OutputInOrder'
<1> DEFINE frames == got \o outbound
<1>1. /\ frames \in Seq(Frames) /\ tcpIn \in Seq(Frames) /\ held \in Frames
      /\ got \in Seq(Frames) /\ outbound \in Seq(Frames)
      /\ written \in Nat /\ Keep \in Frames /\ Eof \in Frames /\ Keep <= 0 /\ Eof <= 0
  BY Queues, FramesAreIntegers
<1>2. SUFFICES ASSUME Relaying', ~cut' PROVE Carries(Output', written')
  BY DEF OutputInOrder, Output
<1>3. Output = IF loop = "send" THEN (frames \o <<held>>) \o tcpIn ELSE frames \o tcpIn
  BY OutputHeld
<1>4. (TypeOK => Output = IF loop = "send" THEN (frames \o <<held>>) \o tcpIn
                                           ELSE frames \o tcpIn)'
  BY OutputHeld, PTL
<1>5. Output' = IF loop' = "send" THEN ((got' \o outbound') \o <<held'>>) \o tcpIn'
                                  ELSE (got' \o outbound') \o tcpIn'
  BY <1>4
<1>6. ASSUME Relaying, ~cut PROVE Carries(Output, written)
  BY <1>6 DEF OutputInOrder, Output
<1>7. ASSUME UNCHANGED <<written, reset, cut>>, loop # "done",
             Carries(Output, written) => Carries(Output', written)
      PROVE  Carries(Output', written')
  BY <1>2, <1>6, <1>7 DEF Relaying
<1>8. CASE (SendChunk /\ Others) \/ (SendOther /\ Others) \/ (Close /\ Others)
           \/ BackendReads \/ BackendSpeaks \/ BackendFinishes
  <2>1. UNCHANGED <<loop, held, got, outbound, tcpIn, cut, reset, written>>
    BY <1>8 DEF SendChunk, SendOther, Close, Others, BackendReads, BackendSpeaks,
       BackendFinishes, task, peer, stream
  <2> QED
    BY <1>2, <1>7, <2>1 DEF Output, Relaying
<1>9. CASE CutOff /\ Others
  BY <1>2, <1>9 DEF CutOff
<1>10. CASE ReadFrame /\ Others
  <2>1. UNCHANGED <<loop, held, tcpIn, cut, reset, written>>
    BY <1>10 DEF ReadFrame, Others, task, peer
  <2>2. \A t \in Seq(Frames) :
          Carries(frames \o t, written) <=> Carries((got' \o outbound') \o t, written)
    BY <1>1, <1>10, ReadFrameKeeps DEF TypeOK
  <2> DEFINE h == Holding(loop = "send", held)
  <2>3. /\ h \in Seq(Frames) /\ Output = (frames \o h) \o tcpIn
        /\ Output' = ((got' \o outbound') \o h) \o tcpIn
    BY <2>1, Queues DEF Output
  <2>4. got' \in Seq(Frames) /\ outbound' \in Seq(Frames)
    BY DEF TypeOK, StreamTypeOK, Sized
  <2> HIDE DEF h
  <2>5. got' \o outbound' \in Seq(Frames) /\ h \o tcpIn \in Seq(Frames)
    BY <1>1, <2>3, <2>4, Row
  <2>6. \A s \in Seq(Frames) : (s \o h) \o tcpIn = s \o (h \o tcpIn)
    <3>1. h \in Seq(Frames) /\ tcpIn \in Seq(Frames)
      BY <1>1, <2>3
    <3> QED
      BY <3>1, Associative
  <2>7. /\ Output = frames \o (h \o tcpIn)
        /\ Output' = (got' \o outbound') \o (h \o tcpIn)
    BY <1>1, <2>3, <2>5, <2>6
  <2> QED
    BY <1>2, <1>7, <2>1, <2>2, <2>5, <2>7 DEF Relaying
<1>11. CASE BackendWrites
  <2>1. /\ tcpIn' = Append(tcpIn, written + 1) /\ written' = written + 1
        /\ UNCHANGED <<loop, held, got, outbound, cut, reset>>
    BY <1>11 DEF BackendWrites, task, stream
  <2>2. Carries(Output, written)
    BY <1>2, <1>6, <2>1 DEF Relaying
  <2>3. written + 1 \in Frames /\ frames \o Holding(loop = "send", held) \in Seq(Frames)
    BY <1>1, FramesAreIntegers, Queues
  <2>4. Output' = Output \o <<written + 1>> /\ Output \in Seq(Frames)
    BY <1>1, <2>1, <2>3, AppendLast, Row DEF Output
  <2> QED
    BY <1>1, <2>1, <2>2, <2>4, Extend
<1>12. CASE BackendWritesLate \/ LoopEnds
  <2>1. ~Relaying'
    BY <1>12, Ends DEF BackendWritesLate, Relaying, Done
  <2> QED
    BY <1>2, <2>1
<1>13. CASE BackendGoes
  <2>1. ~reset' => tcpIn' = tcpIn /\ reset' = reset
    BY <1>13 DEF BackendGoes
  <2>2. UNCHANGED <<loop, held, got, outbound, cut, written>>
    BY <1>13 DEF BackendGoes, task, stream
  <2> QED
    BY <1>2, <1>7, <2>1, <2>2 DEF Relaying, Output
<1>14. CASE ReceiveChunk \/ ReceiveOther \/ WriteAll
  <2>1. /\ loop # "send" /\ loop' # "send" /\ loop # "done"
        /\ UNCHANGED <<got, outbound, tcpIn, cut, reset, written>>
    BY <1>14 DEF ReceiveChunk, ReceiveOther, TakeFrame, WriteAll, At, Local, peer, stream
  <2>2. Output' = Output
    BY <1>3, <1>5, <2>1
  <2> QED
    BY <1>7, <2>1, <2>2
<1>15. CASE ReadBackend
  <2>1. /\ loop = "select" /\ loop' = "send" /\ tcpIn # <<>>
        /\ held' = Head(tcpIn) /\ tcpIn' = Tail(tcpIn)
        /\ UNCHANGED <<got, outbound, cut, reset, written>>
    BY <1>15 DEF ReadBackend, At, Local, peer, stream
  <2>2. frames \o tcpIn = (frames \o <<Head(tcpIn)>>) \o Tail(tcpIn)
    BY <1>1, <2>1, TakeFirst
  <2>3. Output' = Output
    BY <1>3, <1>5, <2>1, <2>2
  <2> QED
    BY <1>7, <2>1, <2>3
<1>16. CASE ReadEnd
  <2>1. /\ loop = "select" /\ loop' = "finish"
        /\ UNCHANGED <<got, outbound, tcpIn, cut, reset, written>>
    BY <1>16 DEF ReadEnd, At, peer, stream
  <2>2. Output' = Output
    BY <1>3, <1>5, <2>1
  <2> QED
    BY <1>7, <2>1, <2>2
<1>17. CASE KeepAlive
  <2>1. /\ loop = "select" /\ loop' = "send" /\ held' = Keep
        /\ UNCHANGED <<got, outbound, tcpIn, cut, reset, written>>
    BY <1>17 DEF KeepAlive, At, Local, peer, stream
  <2>2. Output = frames \o tcpIn /\ Output' = (frames \o <<Keep>>) \o tcpIn
    BY <1>3, <1>5, <2>1
  <2>3. Carries(Output, written) <=> Carries(Output', written)
    BY <1>1, <2>2, Silent
  <2> QED
    BY <1>7, <2>1, <2>3
<1>18. CASE SendOutput
  <2>1. /\ loop \in {"send", "finish"} /\ loop' = "select"
        /\ outbound' = Append(outbound, held) /\ got' = got
        /\ UNCHANGED <<tcpIn, cut, reset, written>>
    BY <1>18 DEF SendOutput, PutFrame, At, peer
  <2>2. got' \o outbound' = frames \o <<held>>
    BY <1>1, <2>1, AppendLast
  <2>3. Output' = (frames \o <<held>>) \o tcpIn
    BY <1>5, <2>1, <2>2
  <2>4. CASE loop = "send"
    BY <1>3, <1>7, <2>1, <2>3, <2>4
  <2>5. CASE loop = "finish"
    <3>1. held = Eof /\ Output = frames \o tcpIn
      BY <1>3, <2>5 DEF TaskKnown
    <3>2. Carries(Output, written) <=> Carries(Output', written)
      BY <1>1, <2>3, <3>1, Silent
    <3> QED
      BY <1>7, <2>1, <3>2
  <2> QED
    BY <2>1, <2>4, <2>5
<1> QED
  BY <1>8, <1>9, <1>10, <1>11, <1>12, <1>13, <1>14, <1>15, <1>16, <1>17, <1>18, Steps

-----------------------------------------------------------------------------
(* To the backend *)

Input == ((received \o tcpOut) \o Holding(loop = "write", held)) \o remote

\* The loop's frame is between the two queues while the loop writes it.
LEMMA InputHeld ==
    ASSUME TypeOK
    PROVE  Input = IF loop = "write" THEN ((received \o tcpOut) \o <<held>>) \o remote
                                     ELSE (received \o tcpOut) \o remote
<1>1. received \o tcpOut \in Seq(Frames) /\ held \in Frames
  BY Queues
<1>2. (received \o tcpOut) \o Holding(loop = "write", held) =
        IF loop = "write" THEN (received \o tcpOut) \o <<held>> ELSE received \o tcpOut
  BY <1>1, Held
<1> QED
  BY <1>2 DEF Input

\* Every step moves input along or adds to its end.
LEMMA InputPreserved ==
    ASSUME TypeOK, TypeOK', TaskKnown, BackendKnown, InputInOrder, Next
    PROVE  InputInOrder'
<1> DEFINE frames == received \o tcpOut
<1>1. /\ frames \in Seq(Frames) /\ remote \in Seq(Frames) /\ held \in Frames
      /\ received \in Seq(Frames) /\ tcpOut \in Seq(Frames)
      /\ sent \in Nat /\ Keep \in Frames /\ Keep <= 0
  BY Queues, FramesAreIntegers
<1>2. SUFFICES ASSUME Relaying', ending' # "broken", backend' # "gone"
               PROVE  Carries(Input', sent')
  BY DEF InputInOrder, Input
<1>3. Input = IF loop = "write" THEN (frames \o <<held>>) \o remote ELSE frames \o remote
  BY InputHeld
<1>4. (TypeOK => Input = IF loop = "write" THEN (frames \o <<held>>) \o remote
                                           ELSE frames \o remote)'
  BY InputHeld, PTL
<1>5. Input' = IF loop' = "write" THEN ((received' \o tcpOut') \o <<held'>>) \o remote'
                                  ELSE (received' \o tcpOut') \o remote'
  BY <1>4
<1>6. ASSUME Relaying, ending # "broken", backend # "gone" PROVE Carries(Input, sent)
  BY <1>6 DEF InputInOrder, Input
<1>7. ASSUME UNCHANGED <<sent, reset, ending>>, loop # "done", backend # "gone",
             Carries(Input, sent) => Carries(Input', sent)
      PROVE  Carries(Input', sent')
  BY <1>2, <1>6, <1>7 DEF Relaying
<1>8. CASE (CutOff /\ Others) \/ (ReadFrame /\ Others)
           \/ BackendSpeaks \/ BackendFinishes \/ BackendWrites
  <2>1. /\ UNCHANGED <<loop, held, received, tcpOut, remote, ending, reset, sent>>
        /\ backend' # "gone" => backend # "gone"
    BY <1>8 DEF CutOff, ReadFrame, Others, BackendSpeaks,
       BackendFinishes, BackendWrites, task, peer, stream
  <2> QED
    BY <1>2, <1>7, <2>1 DEF Input, Relaying
<1>9. CASE SendChunk /\ Others
  <2>1. /\ remote' = Append(remote, sent + 1) /\ sent' = sent + 1
        /\ UNCHANGED <<loop, held, received, tcpOut, ending, reset, backend>>
    BY <1>9 DEF SendChunk, Others, task, peer
  <2>2. Carries(Input, sent)
    BY <1>2, <1>6, <2>1 DEF Relaying
  <2>3. sent + 1 \in Frames /\ frames \o Holding(loop = "write", held) \in Seq(Frames)
    BY <1>1, FramesAreIntegers, Queues
  <2>4. Input' = Input \o <<sent + 1>> /\ Input \in Seq(Frames)
    BY <1>1, <2>1, <2>3, AppendLast, Row DEF Input
  <2> QED
    BY <1>1, <2>1, <2>2, <2>4, Extend
<1>10. CASE SendOther /\ Others
  <2>1. /\ remote' = Append(remote, Keep)
        /\ UNCHANGED <<loop, held, received, tcpOut, ending, reset, backend, sent>>
    BY <1>10 DEF SendOther, Others, task, peer
  <2>2. frames \o Holding(loop = "write", held) \in Seq(Frames)
    BY <1>1, Queues
  <2>3. Input' = Input \o <<Keep>> /\ Input \in Seq(Frames)
    BY <1>1, <2>1, <2>2, AppendLast, Row DEF Input
  <2>4. Carries(Input, sent) <=> Carries(Input', sent)
    BY <1>1, <2>3, SilentLast
  <2> QED
    BY <1>2, <1>7, <2>1, <2>4 DEF Relaying
<1>11. CASE Close /\ Others
  <2>1. /\ ending' = "end" /\ ending = "open"
        /\ UNCHANGED <<loop, held, received, tcpOut, remote, reset, backend, sent>>
    BY <1>2, <1>11 DEF Close, Others, task, peer
  <2>2. Carries(Input, sent) /\ Input' = Input
    BY <1>2, <1>6, <2>1 DEF Relaying, Input
  <2> QED
    BY <2>1, <2>2
<1>12. CASE BackendReads
  <2>1. /\ received' = Append(received, Head(tcpOut)) /\ tcpOut' = Tail(tcpOut)
        /\ tcpOut # <<>> /\ backend = "idle"
        /\ UNCHANGED <<loop, held, remote, ending, reset, sent>>
    BY <1>12 DEF BackendReads, task, stream
  <2>2. received' \o tcpOut' = frames
    BY <1>1, <2>1, PassOn
  <2> QED
    BY <1>2, <1>7, <2>1, <2>2 DEF Input, Relaying
<1>13. CASE BackendWritesLate \/ LoopEnds
  <2>1. ~Relaying'
    BY <1>13, Ends DEF BackendWritesLate, Relaying, Done
  <2> QED
    BY <1>2, <2>1
<1>14. CASE BackendGoes
  BY <1>2, <1>14 DEF BackendGoes
<1>15. CASE ReceiveChunk
  <2>1. /\ loop = "select" /\ loop' = "write" /\ remote # <<>>
        /\ held' = Head(remote) /\ remote' = Tail(remote)
        /\ UNCHANGED <<received, tcpOut, ending, reset, backend, sent>>
    BY <1>15 DEF ReceiveChunk, TakeFrame, At, Local, peer
  <2>2. frames \o remote = (frames \o <<Head(remote)>>) \o Tail(remote)
    BY <1>1, <2>1, TakeFirst
  <2>3. Input' = Input
    BY <1>3, <1>5, <2>1, <2>2
  <2> QED
    BY <1>2, <1>7, <2>1, <2>3
<1>16. CASE ReceiveOther
  <2>1. /\ loop = "select" /\ loop' = loop /\ remote # <<>>
        /\ Head(remote) = Keep /\ remote' = Tail(remote)
        /\ UNCHANGED <<received, tcpOut, ending, reset, backend, sent>>
    BY <1>16 DEF ReceiveOther, TakeFrame, Local, peer
  <2>2. /\ frames \o remote = (frames \o <<Keep>>) \o Tail(remote)
        /\ Tail(remote) \in Seq(Frames)
    BY <1>1, <2>1, TakeFirst
  <2>3. Input = (frames \o <<Keep>>) \o Tail(remote) /\ Input' = frames \o Tail(remote)
    BY <1>3, <1>5, <2>1, <2>2
  <2>4. Carries(Input, sent) <=> Carries(Input', sent)
    BY <1>1, <2>2, <2>3, Silent
  <2> QED
    BY <1>2, <1>7, <2>1, <2>4
<1>17. CASE WriteAll
  <2>1. /\ loop = "write" /\ loop' = "select"
        /\ tcpOut' = Append(tcpOut, held) /\ backend # "gone"
        /\ UNCHANGED <<received, remote, ending, reset, sent>>
    BY <1>17 DEF WriteAll, At, Local, peer, stream
  <2>2. received' \o tcpOut' = frames \o <<held>>
    BY <1>1, <2>1, AppendLast
  <2>3. Input' = Input
    BY <1>3, <1>5, <2>1, <2>2
  <2> QED
    BY <1>7, <2>1, <2>3
<1>18. CASE ReadBackend \/ ReadEnd \/ KeepAlive \/ SendOutput
  <2>1. /\ loop # "write" /\ loop' # "write" /\ loop # "done"
        /\ UNCHANGED <<received, tcpOut, remote, ending, reset, backend, sent>>
    BY <1>18 DEF ReadBackend, ReadEnd, KeepAlive, SendOutput, PutFrame, At, Local, peer, stream
  <2>2. Input' = Input
    BY <1>3, <1>5, <2>1
  <2> QED
    BY <1>2, <1>7, <2>1, <2>2
<1> QED
  BY <1>8, <1>9, <1>10, <1>11, <1>12, <1>13, <1>14, <1>15, <1>16, <1>17, <1>18, Steps

\* The dashboard sends nothing more once the relay is done.
LEMMA SentBefore ==
    ASSUME Next, loop = "done"
    PROVE  UNCHANGED <<sent, ending>>
<1>1. CASE LoopEnds
  BY <1>1, Ends
<1>2. ASSUME ~LoopEnds PROVE UNCHANGED <<sent, ending>>
  BY <1>2 DEF Next, DashboardSends, DashboardReads, StreamTornDown, CutOff, ReadFrame, BackendReads,
     BackendSpeaks, BackendWrites, BackendWritesLate, BackendFinishes, BackendGoes,
     ReceiveChunk, ReceiveOther, WriteAll, ReadBackend, ReadEnd, KeepAlive, SendOutput,
     LoopStep, LoopEnds, stream
<1> QED
  BY <1>1, <1>2

\* The backend is sent the next chunk, until it has them all.
LEMMA ReachedPreserved ==
    ASSUME Inductive, Next
    PROVE  InputReached'
<1> DEFINE frames == received \o tcpOut
<1>1. /\ frames \in Seq(Frames) /\ remote \in Seq(Frames) /\ held \in Frames
      /\ received \in Seq(Frames) /\ tcpOut \in Seq(Frames) /\ TypeOK
      /\ ending \in {"open", "end", "broken"} /\ InputInOrder /\ TaskKnown /\ BackendKnown
  BY Queues DEF Inductive, TypeOK, StreamTypeOK
<1>2. /\ exit = "end" => loop = "done"
      /\ ~reset /\ ending # "broken" /\ backend # "gone" =>
            /\ \A i \in DOMAIN frames : frames[i] = i
            /\ exit = "end" => Carries(frames, sent)
  BY DEF Inductive, InputReached
<1>3. ASSUME received' \o tcpOut' = frames, UNCHANGED exit,
             UNCHANGED loop \/ loop # "done",
             ~reset' => ~reset,
             ending' # "broken" => ending # "broken",
             backend' # "gone" => backend # "gone"
      PROVE  InputReached'
  <2>1. exit = "end" => UNCHANGED <<sent, loop>>
    BY <1>2, <1>3, SentBefore
  <2> QED
    BY <1>2, <1>3, <2>1 DEF InputReached
<1>4. Input = IF loop = "write" THEN (frames \o <<held>>) \o remote ELSE frames \o remote
  BY <1>1, InputHeld
<1>5. CASE (SendChunk /\ Others) \/ (SendOther /\ Others) \/ (Close /\ Others)
           \/ (CutOff /\ Others) \/ (ReadFrame /\ Others)
  <2>1. /\ UNCHANGED <<received, tcpOut, exit, loop, reset, backend>>
        /\ ending' # "broken" => ending # "broken"
    BY <1>5 DEF SendChunk, SendOther, Close, CutOff, ReadFrame, Others, task, peer
  <2> QED
    BY <1>3, <2>1
<1>6. CASE BackendSpeaks \/ BackendWrites \/ BackendFinishes
  <2>1. UNCHANGED <<received, tcpOut, exit, loop, reset, ending>> /\ backend # "gone"
    BY <1>6 DEF BackendSpeaks, BackendWrites, BackendFinishes, task, stream
  <2> QED
    BY <1>3, <2>1
<1>7. CASE BackendReads
  <2>1. /\ received' = Append(received, Head(tcpOut)) /\ tcpOut' = Tail(tcpOut)
        /\ tcpOut # <<>> /\ UNCHANGED <<exit, loop, reset, ending, backend>>
    BY <1>7 DEF BackendReads, task, stream
  <2>2. received' \o tcpOut' = frames
    BY <1>1, <2>1, PassOn
  <2> QED
    BY <1>3, <2>1, <2>2
<1>8. CASE BackendWritesLate \/ BackendGoes
  <2>1. (reset' \/ backend' = "gone") /\ UNCHANGED <<exit, loop>>
    BY <1>8 DEF BackendWritesLate, BackendGoes, task
  <2> QED
    BY <1>2, <2>1 DEF InputReached
<1>9. CASE ReceiveChunk \/ ReceiveOther \/ ReadBackend \/ ReadEnd \/ KeepAlive \/ SendOutput
  <2>1. /\ UNCHANGED <<received, tcpOut, exit, reset, backend, ending>> /\ loop # "done"
    BY <1>9 DEF ReceiveChunk, ReceiveOther, TakeFrame, ReadBackend, ReadEnd, KeepAlive,
       SendOutput, PutFrame, At, Local, peer, stream
  <2> QED
    BY <1>3, <2>1
<1>10. CASE WriteAll
  <2>1. /\ loop = "write" /\ tcpOut' = Append(tcpOut, held) /\ backend # "gone"
        /\ UNCHANGED <<received, exit, ending, reset, backend>>
    BY <1>10 DEF WriteAll, At, Local, peer, stream
  <2>2. received' \o tcpOut' = frames \o <<held>>
    BY <1>1, <2>1, AppendLast
  <2>3. held > 0 /\ exit # "end"
    BY <1>1, <1>2, <2>1 DEF TaskKnown, Keep
  <2>4. SUFFICES ASSUME ~reset, ending # "broken"
                 PROVE  \A i \in DOMAIN (frames \o <<held>>) : (frames \o <<held>>)[i] = i
    BY <2>1, <2>2, <2>3 DEF InputReached
  <2>5. InSequence((frames \o <<held>>) \o remote)
    <3>1. Carries(Input, sent)
      BY <1>1, <2>1, <2>4 DEF InputInOrder, Relaying, Input
    <3> QED
      BY <1>4, <2>1, <3>1 DEF Carries
  <2>6. \A i \in DOMAIN frames : frames[i] = i
    BY <1>2, <2>1, <2>4
  <2>7. held = Len(frames) + 1
    BY <1>1, <2>3, <2>5, <2>6, NextChunk
  <2>8. /\ DOMAIN (frames \o <<held>>) = 1 .. Len(frames) + 1 /\ Len(frames) \in Nat
        /\ DOMAIN frames = 1 .. Len(frames)
        /\ \A i \in 1 .. Len(frames) : (frames \o <<held>>)[i] = frames[i]
        /\ \A i \in 1 .. 1 : (frames \o <<held>>)[Len(frames) + i] = <<held>>[i]
    BY <1>1, Row, Single
  <2>9. (frames \o <<held>>)[Len(frames) + 1] = held
    BY <1>1, <2>8, Single
  <2> QED
    BY <2>6, <2>7, <2>8, <2>9
<1>11. CASE LoopEnds
  <2>1. PICK why \in {"end", "write", "cut", "drained", "cancelled"} : Done(why)
    BY <1>11, Ends
  <2>2. /\ loop' = "done" /\ exit' = why /\ UNCHANGED <<received, backend, sent, ending>>
        /\ ~reset' => UNCHANGED <<tcpOut, reset>>
    BY <2>1 DEF Done, DropStream, peer
  <2>3. SUFFICES ASSUME ~reset', ending # "broken", backend # "gone"
                 PROVE  exit' = "end" => Carries(frames, sent)
    BY <1>2, <2>2 DEF InputReached
  <2>4. ASSUME exit' = "end" PROVE Carries(frames, sent)
    <3>1. loop = "select" /\ remote = <<>>
      BY <1>11, <2>4 DEF LoopEnds, ReceiveEnd, WriteFails, SendRefused, Drained,
         Cancelled, Done, AtEnd
    <3>2. Input = frames
      BY <1>1, <1>4, <3>1, ConcatEmptySeq
    <3> QED
      BY <1>1, <2>2, <2>3, <3>1, <3>2 DEF InputInOrder, Relaying, Input
  <2> QED
    BY <2>4
<1> QED
  BY <1>5, <1>6, <1>7, <1>8, <1>9, <1>10, <1>11, Steps

-----------------------------------------------------------------------------
(* What the dashboard has received, and the invariant *)

\* What has reached the dashboard stays in order, and the end stays its last.
LEMMA DashboardPreserved ==
    ASSUME Inductive, TypeOK', Next
    PROVE  GotInOrder' /\ OutboundInOrder' /\ EofKnown'
<1> DEFINE frames == got \o outbound
<1>1. /\ frames \in Seq(Frames) /\ tcpIn \in Seq(Frames) /\ held \in Frames
      /\ written \in Nat /\ Keep \in Frames /\ Eof \in Frames /\ Keep <= 0 /\ Eof <= 0
      /\ TypeOK /\ StreamTypeOK /\ GotInOrder /\ OutboundInOrder
      /\ TaskKnown /\ BackendKnown /\ EofKnown
      /\ localEof \in BOOLEAN
  BY Queues, FramesAreIntegers DEF Inductive, TypeOK
<1>2. ASSUME Relaying, ~cut, loop # "send" PROVE Carries(frames \o tcpIn, written)
  <2>1. Output = frames \o tcpIn
    BY <1>1, <1>2, OutputHeld
  <2> QED
    BY <1>2, <2>1 DEF Inductive, OutputInOrder, Output
<1>3. HasEof(frames) => localEof /\ (reset \/ Carries(frames, written))
  BY <1>1 DEF EofKnown
<1>4. ASSUME loop = "send", ~cut PROVE InSequence(frames \o <<held>>)
  BY <1>1, <1>4 DEF EofKnown
<1>5. ~cut => InSequence(frames)
  BY <1>1 DEF OutboundInOrder
<1>6. ASSUME UNCHANGED <<got, outbound, cut>> PROVE GotInOrder' /\ OutboundInOrder'
  BY <1>1, <1>6 DEF GotInOrder, OutboundInOrder
<1>7. ASSUME UNCHANGED <<got, outbound, cut>>,
             HasEof(frames) => localEof' /\ (reset' \/ Carries(frames, written')),
             loop' = "send" /\ ~cut => InSequence(frames \o <<held'>>)
      PROVE  GotInOrder' /\ OutboundInOrder' /\ EofKnown'
  BY <1>6, <1>7 DEF EofKnown
<1>8. CASE (SendChunk /\ Others) \/ (SendOther /\ Others) \/ (Close /\ Others)
           \/ BackendReads \/ BackendSpeaks \/ BackendFinishes
  <2>1. UNCHANGED <<loop, held, got, outbound, cut, reset, written, localEof>>
    BY <1>8 DEF SendChunk, SendOther, Close, Others, BackendReads, BackendSpeaks,
       BackendFinishes, task, peer, stream
  <2> QED
    BY <1>3, <1>4, <1>7, <2>1
<1>9. CASE CutOff /\ Others
  <2>1. /\ GotInOrder' /\ OutboundInOrder'
        /\ HasEof(got' \o outbound') => got' \o outbound' = frames
    BY <1>1, <1>9, CutOffKeeps
  <2>2. cut' = TRUE /\ UNCHANGED <<reset, written, localEof>>
    BY <1>9 DEF CutOff, Others, task, peer
  <2> QED
    BY <1>3, <2>1, <2>2 DEF EofKnown
<1>10. CASE ReadFrame /\ Others
  <2>1. /\ GotInOrder' /\ OutboundInOrder'
        /\ HasEof(got' \o outbound') => HasEof(frames)
        /\ \A t \in Seq(Frames) :
             /\ InSequence(frames \o t) <=> InSequence((got' \o outbound') \o t)
             /\ \A n \in Nat : Carries(frames \o t, n)
                                 <=> Carries((got' \o outbound') \o t, n)
    BY <1>1, <1>10, ReadFrameKeeps
  <2>2. UNCHANGED <<loop, held, cut, reset, written, localEof>>
    BY <1>10 DEF ReadFrame, Others, task, peer
  <2>3. got' \o outbound' \in Seq(Frames)
    BY Row DEF TypeOK, StreamTypeOK, Sized
  <2>4. Carries(frames, written) <=> Carries(got' \o outbound', written)
    <3> DEFINE other == got' \o outbound'
    <3>1. frames \o <<>> = frames /\ other \o <<>> = other /\ <<>> \in Seq(Frames)
      BY <1>1, <2>3, ConcatEmptySeq, EmptySeq
    <3>2. Carries(frames \o <<>>, written) <=> Carries(other \o <<>>, written)
      BY <1>1, <2>1, <3>1
    <3> QED
      BY <3>1, <3>2
  <2>5. loop = "send" /\ ~cut => InSequence((got' \o outbound') \o <<held>>)
    BY <1>1, <1>4, <2>1, Single
  <2> QED
    BY <1>3, <2>1, <2>2, <2>4, <2>5 DEF EofKnown
<1>11. CASE BackendWrites
  <2>1. UNCHANGED <<loop, held, got, outbound, cut, reset, localEof>>
    BY <1>11 DEF BackendWrites, task, stream
  <2>2. ~localEof
    BY <1>1, <1>11 DEF BackendWrites, TaskKnown, BackendKnown
  <2> QED
    BY <1>3, <1>4, <1>7, <2>1, <2>2
<1>12. CASE BackendWritesLate \/ BackendGoes
  <2>1. /\ UNCHANGED <<loop, held, got, outbound, cut, written, localEof>>
        /\ reset' = reset \/ reset' = TRUE
    BY <1>12 DEF BackendWritesLate, BackendGoes, task, stream
  <2> QED
    BY <1>3, <1>4, <1>7, <2>1
<1>13. CASE LoopEnds
  <2>1. PICK why \in {"end", "write", "cut", "drained", "cancelled"} : Done(why)
    BY <1>13, Ends
  <2>2. /\ UNCHANGED <<got, outbound, cut, written, localEof>> /\ loop' = "done"
        /\ reset' = reset \/ reset' = TRUE
    BY <2>1 DEF Done, DropStream, peer
  <2> QED
    BY <1>3, <1>7, <2>2
<1>14. CASE ReceiveChunk \/ ReceiveOther \/ WriteAll \/ ReadEnd
  <2>1. /\ UNCHANGED <<got, outbound, cut, reset, written, localEof>> /\ loop' # "send"
    BY <1>14 DEF ReceiveChunk, ReceiveOther, TakeFrame, WriteAll, ReadEnd, At, Local,
       peer, stream
  <2> QED
    BY <1>3, <1>7, <2>1
<1>15. CASE ReadBackend
  <2>1. /\ UNCHANGED <<got, outbound, cut, reset, written, localEof>>
        /\ loop = "select" /\ tcpIn # <<>> /\ held' = Head(tcpIn)
    BY <1>15 DEF ReadBackend, At, Local, peer, stream
  <2>2. ASSUME ~cut PROVE InSequence(frames \o <<Head(tcpIn)>>)
    <3>1. Relaying
      BY <1>1, <2>1 DEF BackendKnown, Relaying
    <3>2. InSequence(frames \o tcpIn)
      BY <1>2, <2>1, <2>2, <3>1 DEF Carries
    <3>3. /\ Head(tcpIn) \in Frames /\ Tail(tcpIn) \in Seq(Frames)
          /\ frames \o tcpIn = (frames \o <<Head(tcpIn)>>) \o Tail(tcpIn)
      BY <1>1, <2>1, TakeFirst
    <3>4. frames \o <<Head(tcpIn)>> \in Seq(Frames)
      BY <1>1, <3>3, Single, Row
    <3> QED
      BY <3>2, <3>3, <3>4, Prefix
  <2> QED
    BY <1>3, <1>7, <2>1, <2>2
<1>16. CASE KeepAlive
  <2>1. UNCHANGED <<got, outbound, cut, reset, written, localEof>> /\ held' = Keep
    BY <1>16 DEF KeepAlive, At, Local, peer, stream
  <2>2. ~cut => InSequence(frames \o <<Keep>>)
    BY <1>1, <1>5, SilentLast
  <2> QED
    BY <1>3, <1>7, <2>1, <2>2
<1>17. CASE SendOutput
  <2>1. /\ loop \in {"send", "finish"} /\ loop' = "select" /\ PutFrame(held) /\ ~cut
        /\ localEof' = (localEof \/ loop = "finish") /\ UNCHANGED <<reset, written>>
    BY <1>17 DEF SendOutput, PutFrame, At, peer
  <2>2. ~localEof /\ ~HasEof(frames)
    BY <1>1, <1>3, <2>1 DEF TaskKnown
  <2>3. InSequence(frames \o <<held>>)
    <3>1. CASE loop = "send"
      BY <1>4, <2>1, <3>1
    <3>2. CASE loop = "finish"
      <4>1. held = Eof
        BY <1>1, <3>2 DEF TaskKnown
      <4> QED
        BY <1>1, <1>5, <2>1, <4>1, SilentLast
    <3> QED
      BY <2>1, <3>1, <3>2
  <2>4. /\ GotInOrder' /\ OutboundInOrder' /\ got' \o outbound' = frames \o <<held>>
        /\ HasEof(got' \o outbound') => held = Eof
    BY <1>1, <2>1, <2>2, <2>3, PutFrameKeeps
  <2>5. ASSUME held = Eof PROVE localEof' /\ (reset' \/ Carries(frames \o <<held>>, written'))
    <3>1. loop = "finish" /\ tcpIn = <<>>
      BY <1>1, <2>1, <2>5, FramesAreIntegers DEF TaskKnown
    <3>2. ASSUME ~reset PROVE Carries(frames, written)
      <4>1. Carries(frames \o tcpIn, written)
        BY <1>2, <2>1, <3>1, <3>2 DEF Relaying
      <4>2. frames \o tcpIn = frames
        BY <1>1, <3>1, ConcatEmptySeq
      <4> QED
        BY <4>1, <4>2
    <3>3. Carries(frames, written) => Carries(frames \o <<held>>, written)
      BY <1>1, <2>5, SilentLast
    <3> QED
      BY <2>1, <3>1, <3>2, <3>3
  <2> QED
    BY <2>1, <2>4, <2>5 DEF EofKnown
<1> QED
  BY <1>8, <1>9, <1>10, <1>11, <1>12, <1>13, <1>14, <1>15, <1>16, <1>17, Steps

\* A relay begins with empty queues.
LEMMA InductiveInitially == Init => Inductive
<1> SUFFICES ASSUME Init PROVE Inductive
  OBVIOUS
<1>1. /\ StreamTypeOK /\ GotInOrder /\ OutboundInOrder
      /\ Carries(<<>>, 0) /\ ~HasEof(<<>>)
  BY StreamInitially DEF Init
<1>2. /\ got = <<>> /\ outbound = <<>> /\ tcpIn = <<>> /\ received = <<>>
      /\ tcpOut = <<>> /\ remote = <<>> /\ written = 0 /\ sent = 0
      /\ loop = "select" /\ exit = "none" /\ held = Keep /\ backend = "idle"
  BY DEF Init, StreamInit
<1>3. /\ open \in BOOLEAN /\ localEof \in BOOLEAN /\ reset \in BOOLEAN
      /\ finished \in BOOLEAN
  BY DEF Init
<1>4. /\ tcpIn \in Seq(Nat) /\ Len(tcpIn) = 0
      /\ tcpOut \in Seq(Nat) /\ Len(tcpOut) = 0 /\ received \in Seq(Nat)
  BY <1>2, EmptyQueue
<1>5. TypeOK
  BY <1>1, <1>2, <1>3, <1>4, NatAssumption, FramesAreIntegers DEF TypeOK, Sized
<1>6. <<>> \o <<>> = <<>>
  BY EmptySeq, ConcatEmptySeq
<1>7. OutputInOrder /\ InputInOrder
  BY <1>1, <1>2, <1>6 DEF OutputInOrder, InputInOrder, Holding
<1>8. EofKnown
  BY <1>1, <1>2, <1>6 DEF EofKnown
<1>9. TaskKnown /\ BackendKnown
  BY DEF Init, TaskKnown, BackendKnown, Keep
<1>10. InputReached
  <2>1. DOMAIN <<>> = {}
    OBVIOUS
  <2> QED
    BY <1>2, <1>6, <2>1 DEF InputReached
<1> QED
  BY <1>1, <1>5, <1>7, <1>8, <1>9, <1>10 DEF Inductive

\* A stutter keeps the invariant.
LEMMA InductiveUnchanged ==
    ASSUME Inductive, UNCHANGED vars
    PROVE  Inductive'
  BY DEF Inductive, vars, task, stream, peer, TypeOK, StreamTypeOK, OutputInOrder,
     InputInOrder, GotInOrder, OutboundInOrder, TaskKnown, BackendKnown, EofKnown, Relaying,
     InputReached

\* What is told of the whole relay follows from the invariant in each state.
LEMMA InductiveGivesOrder == Inductive => InOrder
<1> SUFFICES ASSUME Inductive PROVE InOrder
  OBVIOUS
<1>1. /\ OutputInOrder /\ InputInOrder /\ GotInOrder /\ OutboundInOrder /\ StreamTypeOK
      /\ got \in Seq(Frames) /\ written \in Nat
  BY Queues DEF Inductive, TypeOK
<1>2. ASSUME NEW i \in DOMAIN got, got[i] = Eof
      PROVE  i = Len(got) /\ (reset \/ got = UpTo(written) \o <<Eof>>)
  <2>1. i = Len(got) /\ got \o outbound = got /\ HasEof(got)
    BY <1>1, <1>2, EofReceived
  <2>2. reset \/ Carries(got, written)
    BY <2>1 DEF Inductive, EofKnown
  <2>3. Carries(got, written) => got = UpTo(written) \o <<Eof>>
    BY <1>1, <2>1, Complete DEF GotInOrder
  <2> QED
    BY <2>1, <2>2, <2>3
<1> QED
  BY <1>1, <1>2 DEF InOrder, EofComesLast

-----------------------------------------------------------------------------
(* Theorems *)

\* The invariant of the relay: every chunk is in one queue, in order, and the
\* end of the backend's direction is announced after all of them.
THEOREM RelayInvariant == Spec => []Inductive
<1>1. Init => Inductive
  BY InductiveInitially
<1>2. Inductive /\ [Next]_vars => Inductive'
  <2> SUFFICES ASSUME Inductive, [Next]_vars PROVE Inductive'
    OBVIOUS
  <2>1. CASE Next
    <3>1. TypeOK'
      BY <2>1, TypePreserved DEF Inductive
    <3>2. TaskKnown' /\ BackendKnown'
      BY <2>1, KnownPreserved DEF Inductive
    <3>3. OutputInOrder'
      BY <2>1, <3>1, OutputPreserved DEF Inductive
    <3>4. InputInOrder'
      BY <2>1, <3>1, InputPreserved DEF Inductive
    <3>5. GotInOrder' /\ OutboundInOrder' /\ EofKnown'
      BY <2>1, <3>1, DashboardPreserved
    <3>6. InputReached'
      BY <2>1, ReachedPreserved
    <3> QED
      BY <3>1, <3>2, <3>3, <3>4, <3>5, <3>6 DEF Inductive
  <2>2. CASE UNCHANGED vars
    BY <2>2, InductiveUnchanged
  <2> QED
    BY <2>1, <2>2
<1> QED
  BY <1>1, <1>2, PTL DEF Spec

\* While a relay lasts it loses, doubles and reorders nothing in either
\* direction, and a dashboard that is told of the end has all of the output.
THEOREM RelayInOrder == Spec => []InOrder
  BY RelayInvariant, InductiveGivesOrder, PTL

\* A relay that cannot go on is done, or its backend or its dashboard does not
\* read.
LEMMA QuietEnds == Inductive => EndsNoticed
<1> SUFFICES ASSUME Inductive, ending # "open" \/ finished, Quiet
             PROVE  loop = "done" \/ BackendBlocks \/ DashboardBlocks
  BY DEF EndsNoticed
<1>1. /\ loop \in {"select", "write", "send", "finish", "done"}
      /\ backend \in {"idle", "writing", "gone"}
      /\ Len(tcpOut) \in Nat /\ Len(tcpOut) <= TcpBuffer /\ TcpBuffer \in Nat
      /\ Len(tcpIn) \in Nat /\ Len(tcpIn) <= TcpBuffer
      /\ Len(outbound) \in Nat /\ Len(outbound) <= Capacity /\ Capacity \in Nat
  BY NatAssumption, StreamAssumption, LenProperties
  DEF Inductive, TypeOK, StreamTypeOK, Sized
<1>2. ~LoopRuns /\ ~OthersRun
  BY DEF Quiet
<1>3. loop # "select"
  BY <1>2 DEF LoopRuns, Drains
<1>4. ASSUME loop \in {"send", "finish"} PROVE DashboardBlocks
  <2>1. ~cut /\ Len(outbound) = Capacity
    BY <1>1, <1>2, <1>4 DEF LoopRuns
  <2>2. ending = "open"
    BY <1>2, <2>1 DEF OthersRun
  <2> QED
    BY <1>4, <2>1, <2>2 DEF DashboardBlocks
<1>5. ASSUME loop = "write" PROVE BackendBlocks
  <2>1. backend # "gone" /\ Len(tcpOut) = TcpBuffer
    BY <1>1, <1>2, <1>5 DEF LoopRuns
  <2>2. backend = "writing" => Len(tcpIn) = TcpBuffer
    BY <1>1, <1>2 DEF OthersRun
  <2> QED
    BY <1>1, <1>5, <2>1, <2>2 DEF BackendBlocks
<1> QED
  BY <1>1, <1>3, <1>4, <1>5

\* What was sent by the end of the stream has reached the connection.
LEMMA EndReaches == Inductive => EndDelivers
<1> SUFFICES ASSUME Inductive, ending = "end", exit = "end", backend # "gone", ~reset
             PROVE  received \o tcpOut = UpTo(sent)
  BY DEF EndDelivers
<1> DEFINE frames == received \o tcpOut
<1>1. frames \in Seq(Frames) /\ sent \in Nat
  BY Queues DEF Inductive, TypeOK
<1>2. (\A i \in DOMAIN frames : frames[i] = i) /\ Carries(frames, sent)
  BY DEF Inductive, InputReached
<1> HIDE DEF frames
<1>3. frames = UpTo(sent)
  BY <1>1, <1>2, AllChunks
<1> QED
  BY <1>3 DEF frames

\* A relay whose stream or backend has ended comes to its end (lines 65 to 114),
\* unless its backend or its dashboard does not read.
THEOREM RelayEndsNoticed == Spec => []EndsNoticed
  BY RelayInvariant, QuietEnds, PTL

\* What was sent before the stream ended has reached the backend, or is there
\* for it to read (lines 65 to 73).
THEOREM RelayEndDelivers == Spec => []EndDelivers
  BY RelayInvariant, EndReaches, PTL
=============================================================================
