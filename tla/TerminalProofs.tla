--------------------------- MODULE TerminalProofs ---------------------------
(***************************************************************************)
(* The terminal keeps both directions in order through its queues, threads *)
(* and tasks, for any capacities and any amount of data.                   *)
(***************************************************************************)
EXTENDS Terminal, RelayStreamProofs

-----------------------------------------------------------------------------
(* The inductive invariant behind InOrder *)

\* What the task and the threads hold.
HoldersKnown ==
    /\ loop \in {"input", "output"} => held \in Nat
    /\ loop = "last" => held = Eof /\ outputs = <<>> /\ reader = "ended"
    /\ writer = "write" => writing \in Nat
    /\ reader = "send" => reading \in Nat
    /\ reader = "fail" => reading = Eof
    /\ child = "writing" => written < MaxOut

\* The reader fails once nothing will be written any more, and then tells
\* of the end as the last thing it does.
ReaderKnown ==
    /\ reader = "fail" \/ (reader = "ended" /\ ~Left) => ~SlaveOpen /\ ptyOut = <<>>
    /\ \A i \in DOMAIN outputs :
         outputs[i] = Eof => i = Len(outputs) /\ reader = "ended"

\* The loop ends with the end of the output, which follows all of it.
EofKnown ==
    HasEof(got \o outbound) =>
        ~Looping /\ ~SlaveOpen /\ Carries(got \o outbound, written)

\* Why the loop has ended, and what has ended with it.
EndKnown ==
    /\ Left => child = "dead"
    /\ Looping <=> exit = "none"
    /\ cut => ending # "open"
    /\ Looping /\ reader = "ended" => loop = "last" \/ HasEof(outputs)
    /\ exit = "eof" => cut \/ HasEof(got \o outbound)

Inductive ==
    /\ TypeOK
    /\ OutputInOrder /\ InputInOrder
    /\ GotInOrder /\ OutboundInOrder
    /\ HoldersKnown /\ ReaderKnown /\ EofKnown /\ EndKnown

-----------------------------------------------------------------------------
\* What is on its way to the dashboard, and what is on its way to the child.
ToDashboard == got \o outbound
LoopHolds == Holding(loop \in {"output", "last"}, held)
ReaderHolds == Holding(reader = "send", reading)
Output == (((ToDashboard \o LoopHolds) \o outputs) \o ReaderHolds) \o ptyOut

ToChild == consumed \o ptyIn
WriterHolds == Holding(writer = "write", writing)
InputHolds == Holding(loop = "input", held)
Input == (((ToChild \o WriterHolds) \o inputs) \o InputHolds) \o remote

\* Every queue is one of frames.
LEMMA Queues ==
    ASSUME TypeOK
    PROVE  /\ got \in Seq(Frames) /\ outbound \in Seq(Frames)
           /\ outputs \in Seq(Frames) /\ ptyOut \in Seq(Frames)
           /\ consumed \in Seq(Frames) /\ ptyIn \in Seq(Frames)
           /\ inputs \in Seq(Frames) /\ remote \in Seq(Frames)
           /\ held \in Frames /\ writing \in Frames /\ reading \in Frames
           /\ written \in Nat /\ sent \in Nat
           /\ ToDashboard \in Seq(Frames) /\ LoopHolds \in Seq(Frames)
           /\ ReaderHolds \in Seq(Frames)
           /\ ToChild \in Seq(Frames) /\ WriterHolds \in Seq(Frames)
           /\ InputHolds \in Seq(Frames)
<1>1. /\ got \in Seq(Frames) /\ outbound \in Seq(Frames)
      /\ outputs \in Seq(Frames) /\ ptyOut \in Seq(Nat)
      /\ consumed \in Seq(Nat) /\ ptyIn \in Seq(Nat)
      /\ inputs \in Seq(Nat) /\ remote \in Seq(Nat)
      /\ held \in Frames /\ writing \in Frames /\ reading \in Frames
  BY DEF TypeOK, StreamTypeOK, Sized
<1>2. \A s \in Seq(Nat) : s \in Seq(Frames)
  BY FramesAreIntegers, SeqMonotonic
<1>3. written \in Nat /\ sent \in Nat
  BY TerminalAssumption, StreamAssumption DEF TypeOK, StreamTypeOK
<1>4. /\ <<>> \in Seq(Frames) /\ <<held>> \in Seq(Frames)
      /\ <<writing>> \in Seq(Frames) /\ <<reading>> \in Seq(Frames)
  BY <1>1, Single, EmptySeq
<1>5. /\ LoopHolds \in Seq(Frames) /\ ReaderHolds \in Seq(Frames)
      /\ WriterHolds \in Seq(Frames) /\ InputHolds \in Seq(Frames)
  BY <1>4 DEF LoopHolds, ReaderHolds, WriterHolds, InputHolds, Holding
<1>6. ToDashboard \in Seq(Frames) /\ ToChild \in Seq(Frames)
  BY <1>1, <1>2, Row DEF ToDashboard, ToChild
<1> QED
  BY <1>1, <1>2, <1>3, <1>5, <1>6

\* Five queues in a row, the first apart.
LEMMA Rest ==
    ASSUME NEW s \in Seq(Frames), NEW t \in Seq(Frames), NEW u \in Seq(Frames),
           NEW v \in Seq(Frames)
    PROVE  ((s \o t) \o u) \o v = s \o ((t \o u) \o v)
           /\ (t \o u) \o v \in Seq(Frames)
<1>1. t \o u \in Seq(Frames) /\ (t \o u) \o v \in Seq(Frames)
  BY Row
<1>2. (s \o t) \o u = s \o (t \o u)
  BY Associative
<1>3. (s \o (t \o u)) \o v = s \o ((t \o u) \o v)
  BY <1>1, Associative
<1> QED
  BY <1>1, <1>2, <1>3

-----------------------------------------------------------------------------
(* The actions, by what they change *)

Aside == UNCHANGED <<loop, exit, held, threads, process>>

\* Every step is one of these, and those of the dashboard leave the terminal
\* alone.
LEMMA Steps ==
    ASSUME Next
    PROVE  \/ (SendChunk /\ Aside) \/ (SendOther /\ Aside) \/ (Close /\ Aside)
           \/ (CutOff /\ Aside) \/ (ReadFrame /\ Aside)
           \/ ReceiveChunk \/ ReceiveOther \/ (\E why \in {"end", "input", "cut"} : Looping /\ LeaveFor(why))
           \/ PassInput \/ ReceiveOutput \/ KeepAlive \/ SendOutput
           \/ Leave \/ Joined \/ Cancelled
           \/ WriterReceives \/ WriterWrites \/ WriterEnds
           \/ ReaderReads \/ ReaderFails \/ ReaderSends \/ ReaderEnds
           \/ ChildReads \/ ChildSpeaks \/ ChildWrites \/ ChildExits \/ OrphanEnds
  BY DEF Next, Aside, DashboardSends, DashboardReads, StreamTornDown, Message, LoopStep, WriterStep,
     ReaderStep, ReceiveEnd, InputRefused, OutputRefused, Looping

\* The task drops everything.
LEMMA Drops ==
    ASSUME Leave \/ Cancelled
    PROVE  /\ loop' \in {"joining", "done"} /\ exit' \in {exit, "cancelled"} /\ held' = Keep
           /\ outputs' = <<>> /\ DropStream
           /\ child' = "dead" /\ (orphan' = orphan \/ (child # "dead" /\ orphan' \in BOOLEAN))
           /\ UNCHANGED <<inputs, writer, writing, reader, reading, ptyIn, ptyOut,
                          consumed, written>>
  BY DEF Leave, Cancelled, DropAll

\* Every step keeps the types, the capacities of the queues among them.
LEMMA TypePreserved ==
    ASSUME TypeOK, HoldersKnown, Next
    PROVE  TypeOK'
<1>1. /\ loop \in {"select", "input", "output", "last", "left", "joining", "done"}
      /\ exit \in {"none", "eof", "end", "input", "resize", "cut", "cancelled"}
      /\ held \in Frames /\ writing \in Frames /\ reading \in Frames
      /\ StreamTypeOK /\ remote \in Seq(Nat)
      /\ inputs \in Seq(Nat) /\ Len(inputs) <= Capacity /\ Len(inputs) \in Nat
      /\ outputs \in Seq(Frames) /\ Len(outputs) <= Capacity /\ Len(outputs) \in Nat
      /\ ptyIn \in Seq(Nat) /\ Len(ptyIn) <= PtyBuffer /\ Len(ptyIn) \in Nat
      /\ ptyOut \in Seq(Nat) /\ Len(ptyOut) <= PtyBuffer /\ Len(ptyOut) \in Nat
      /\ consumed \in Seq(Nat) /\ written \in 0 .. MaxOut
      /\ writer \in {"receive", "write", "ended"}
      /\ reader \in {"read", "send", "fail", "ended"}
      /\ child \in {"idle", "writing", "dead"} /\ orphan \in BOOLEAN
      /\ Capacity \in Nat \ {0} /\ PtyBuffer \in Nat \ {0} /\ MaxOut \in Nat
  BY TerminalAssumption, StreamAssumption, LenProperties DEF TypeOK, Sized, StreamTypeOK
<1>2. Keep \in Frames /\ Eof \in Frames /\ \A n \in Nat : n \in Frames
  BY FramesAreIntegers
<1>3. ASSUME loop' \in {"select", "input", "output", "last", "left", "joining", "done"},
             exit' \in {"none", "eof", "end", "input", "resize", "cut", "cancelled"},
             held' \in Frames, writing' \in Frames, reading' \in Frames,
             StreamTypeOK',
             inputs' \in Seq(Nat), Len(inputs') <= Capacity,
             outputs' \in Seq(Frames), Len(outputs') <= Capacity,
             ptyIn' \in Seq(Nat), Len(ptyIn') <= PtyBuffer,
             ptyOut' \in Seq(Nat), Len(ptyOut') <= PtyBuffer,
             consumed' \in Seq(Nat), written' \in 0 .. MaxOut,
             writer' \in {"receive", "write", "ended"},
             reader' \in {"read", "send", "fail", "ended"},
             child' \in {"idle", "writing", "dead"}, orphan' \in BOOLEAN
      PROVE  TypeOK'
  BY <1>3 DEF TypeOK, Sized
<1>4. UNCHANGED stream => StreamTypeOK'
  BY <1>1 DEF stream, StreamTypeOK
<1>5. ASSUME Aside, SendChunk \/ SendOther \/ Close \/ CutOff \/ ReadFrame
      PROVE  TypeOK'
  <2>1. StreamTypeOK'
    BY <1>1, <1>5, StreamTypePreserved
  <2> QED
    BY <1>1, <1>3, <1>5, <2>1 DEF Aside, threads, process
<1>6. CASE ReceiveChunk \/ ReceiveOther
  <2>1. /\ StreamTypeOK' /\ Head(remote) \in Nat
    BY <1>1, <1>6, StreamTypePreserved, HeadTailProperties
       DEF ReceiveChunk, ReceiveOther, TakeRemote, TakeFrame
  <2> QED
    BY <1>1, <1>2, <1>3, <1>6, <2>1 DEF ReceiveChunk, ReceiveOther, TakeRemote, threads, process
<1>7. CASE \E why \in {"end", "input", "cut"} : Looping /\ LeaveFor(why)
  BY <1>1, <1>3, <1>4, <1>7 DEF LeaveFor, threads, process
<1>8. CASE PassInput
  <2>1. /\ Append(inputs, held) \in Seq(Nat) /\ Len(Append(inputs, held)) = Len(inputs) + 1
    BY <1>1, <1>8, AppendProperties DEF PassInput, HoldersKnown
  <2> QED
    BY <1>1, <1>2, <1>3, <1>4, <1>8, <2>1 DEF PassInput, process
<1>9. CASE ReceiveOutput
  <2>1. /\ Head(outputs) \in Frames /\ Tail(outputs) \in Seq(Frames)
        /\ Len(Tail(outputs)) = Len(outputs) - 1
    BY <1>1, <1>9, HeadTailProperties DEF ReceiveOutput
  <2> QED
    BY <1>1, <1>3, <1>4, <1>9, <2>1 DEF ReceiveOutput, TakeOutput, process
<1>10. CASE KeepAlive
  BY <1>1, <1>2, <1>3, <1>4, <1>10 DEF KeepAlive, threads, process
<1>11. CASE SendOutput
  <2>1. StreamTypeOK'
    BY <1>1, <1>11, StreamTypePreserved DEF SendOutput
  <2> QED
    BY <1>1, <1>2, <1>3, <1>11, <2>1 DEF SendOutput, threads, process
<1>12. CASE Leave \/ Cancelled
  <2>1. /\ loop' \in {"joining", "done"} /\ exit' \in {exit, "cancelled"} /\ held' = Keep
        /\ outputs' = <<>> /\ DropStream
        /\ child' = "dead" /\ (orphan' = orphan \/ (child # "dead" /\ orphan' \in BOOLEAN))
        /\ UNCHANGED <<inputs, writer, writing, reader, reading, ptyIn, ptyOut,
                       consumed, written>>
    BY <1>12, Drops
  <2>2. outputs' \in Seq(Frames) /\ Len(outputs') <= Capacity
    BY <1>1, <2>1, EmptyQueue
  <2>3. StreamTypeOK'
    BY <1>1, <2>1, StreamTypePreserved
  <2>4. orphan' \in BOOLEAN
    BY <1>1, <2>1
  <2> QED
    BY <1>1, <1>2, <1>3, <2>1, <2>2, <2>3, <2>4
<1>13. CASE Joined
  BY <1>1, <1>3, <1>4, <1>13 DEF Joined, threads, process
<1>14. CASE WriterReceives
  <2>1. /\ Head(inputs) \in Nat /\ Tail(inputs) \in Seq(Nat)
        /\ Len(Tail(inputs)) = Len(inputs) - 1
    BY <1>1, <1>14, HeadTailProperties DEF WriterReceives
  <2> QED
    BY <1>1, <1>2, <1>3, <1>4, <1>14, <2>1 DEF WriterReceives, WriterOnly
<1>15. CASE WriterWrites
  <2>1. /\ Append(ptyIn, writing) \in Seq(Nat) /\ Len(Append(ptyIn, writing)) = Len(ptyIn) + 1
    BY <1>1, <1>15, AppendProperties DEF WriterWrites, HoldersKnown
  <2> QED
    BY <1>1, <1>2, <1>3, <1>4, <1>15, <2>1 DEF WriterWrites, WriterOnly
<1>16. CASE WriterEnds
  <2>1. inputs' = <<>> /\ writer' = "ended" /\ writing' = Keep /\ ptyIn' = ptyIn /\ WriterOnly
    BY <1>16 DEF WriterEnds, WriterEndsByError, WriterEndsByClose
  <2>2. inputs' \in Seq(Nat) /\ Len(inputs') <= Capacity
    BY <1>1, <2>1, EmptyQueue
  <2> QED
    BY <1>1, <1>2, <1>3, <1>4, <2>1, <2>2 DEF WriterOnly
<1>17. CASE ReaderReads
  <2>1. /\ Head(ptyOut) \in Nat /\ Tail(ptyOut) \in Seq(Nat)
        /\ Len(Tail(ptyOut)) = Len(ptyOut) - 1
    BY <1>1, <1>17, HeadTailProperties DEF ReaderReads
  <2> QED
    BY <1>1, <1>2, <1>3, <1>4, <1>17, <2>1 DEF ReaderReads, ReaderOnly
<1>18. CASE ReaderFails \/ ReaderEnds
  BY <1>1, <1>2, <1>3, <1>4, <1>18 DEF ReaderFails, ReaderEnds, ReaderOnly
<1>19. CASE ReaderSends
  <2>1. /\ Append(outputs, reading) \in Seq(Frames)
        /\ Len(Append(outputs, reading)) = Len(outputs) + 1
    BY <1>1, AppendProperties
  <2> QED
    BY <1>1, <1>2, <1>3, <1>4, <1>19, <2>1 DEF ReaderSends, ReaderSendsTo, ReaderOnly
<1>20. CASE ChildReads
  <2>1. /\ Append(consumed, Head(ptyIn)) \in Seq(Nat) /\ Tail(ptyIn) \in Seq(Nat)
        /\ Len(Tail(ptyIn)) = Len(ptyIn) - 1
    BY <1>1, <1>20, HeadTailProperties, AppendProperties DEF ChildReads
  <2> QED
    BY <1>1, <1>3, <1>4, <1>20, <2>1 DEF ChildReads, ChildOnly, threads
<1>21. CASE ChildWrites
  <2>1. written + 1 \in Nat /\ written + 1 \in 0 .. MaxOut
    BY <1>1, <1>21 DEF ChildWrites, HoldersKnown
  <2>2. /\ Append(ptyOut, written + 1) \in Seq(Nat)
        /\ Len(Append(ptyOut, written + 1)) = Len(ptyOut) + 1
    BY <1>1, <2>1, AppendProperties
  <2> QED
    BY <1>1, <1>3, <1>4, <1>21, <2>1, <2>2 DEF ChildWrites, ChildOnly, threads
<1>22. CASE ChildSpeaks \/ ChildExits
  BY <1>1, <1>3, <1>4, <1>22 DEF ChildSpeaks, ChildExits, ChildOnly, threads
<1>23. CASE OrphanEnds
  <2>1. orphan' \in BOOLEAN
    BY <1>23 DEF OrphanEnds
  <2> QED
    BY <1>1, <1>3, <1>4, <1>23, <2>1 DEF OrphanEnds, ChildOnly, threads
<1> QED
  BY <1>5, <1>6, <1>7, <1>8, <1>9, <1>10, <1>11, <1>12, <1>13, <1>14, <1>15, <1>16,
     <1>17, <1>18, <1>19, <1>20, <1>21, <1>22, <1>23, Steps

\* What the task and the threads hold is what they hold it for.
LEMMA HoldersPreserved ==
    ASSUME TypeOK, HoldersKnown, ReaderKnown, Next
    PROVE  HoldersKnown'
<1>1. /\ loop \in {"select", "input", "output", "last", "left", "joining", "done"}
      /\ held \in Frames /\ writing \in Frames /\ reading \in Frames
      /\ inputs \in Seq(Nat) /\ outputs \in Seq(Frames) /\ ptyOut \in Seq(Nat)
      /\ remote \in Seq(Nat) /\ Keep \in Nat
      /\ reader \in {"read", "send", "fail", "ended"}
  BY DEF TypeOK, StreamTypeOK, Sized, Keep
<1>2. /\ loop \in {"input", "output"} => held \in Nat
      /\ loop = "last" => held = Eof /\ outputs = <<>> /\ reader = "ended"
      /\ writer = "write" => writing \in Nat
      /\ reader = "send" => reading \in Nat
      /\ reader = "fail" => reading = Eof
      /\ child = "writing" => written < MaxOut
  BY DEF HoldersKnown
<1>3. ASSUME loop' \in {"input", "output"} => held' \in Nat,
             loop' = "last" => held' = Eof /\ outputs' = <<>> /\ reader' = "ended",
             writer' = "write" => writing' \in Nat,
             reader' = "send" => reading' \in Nat,
             reader' = "fail" => reading' = Eof,
             child' = "writing" => written' < MaxOut
      PROVE  HoldersKnown'
  BY <1>3 DEF HoldersKnown
<1>4. CASE Aside
  BY <1>2, <1>3, <1>4 DEF Aside, threads, process
<1>5. CASE ReceiveChunk \/ ReceiveOther
  <2>1. remote # <<>> => Head(remote) \in Nat
    BY <1>1, HeadTailProperties
  <2> QED
    BY <1>1, <1>2, <1>3, <1>5, <2>1
       DEF ReceiveChunk, ReceiveOther, TakeRemote, threads, process
<1>6. CASE \E why \in {"end", "input", "cut"} : Looping /\ LeaveFor(why)
  BY <1>2, <1>3, <1>6 DEF LeaveFor, threads, process
<1>7. CASE PassInput
  BY <1>2, <1>3, <1>7 DEF PassInput, process
<1>8. CASE ReceiveOutput
  <2>1. /\ outputs # <<>> /\ held' = Head(outputs) /\ outputs' = Tail(outputs)
        /\ loop' = IF Head(outputs) = Eof THEN "last" ELSE "output"
        /\ UNCHANGED <<writer, writing, reader, reading, child, written>>
    BY <1>8 DEF ReceiveOutput, TakeOutput, process
  <2>2. /\ Head(outputs) = outputs[1] /\ 1 \in DOMAIN outputs /\ Head(outputs) \in Frames
        /\ Len(Tail(outputs)) = Len(outputs) - 1 /\ Tail(outputs) \in Seq(Frames)
    BY <1>1, <2>1, HeadTailProperties, LenProperties, EmptySeq
  <2>3. ASSUME Head(outputs) = Eof PROVE Tail(outputs) = <<>> /\ reader = "ended"
    <3>1. 1 = Len(outputs) /\ reader = "ended"
      BY <2>2, <2>3 DEF ReaderKnown
    <3> QED
      BY <1>1, <3>1, LastFrame
  <2>4. Head(outputs) # Eof => Head(outputs) \in Nat
    BY <2>2 DEF Frames
  <2> QED
    BY <1>2, <1>3, <2>1, <2>3, <2>4
<1>9. CASE KeepAlive
  BY <1>1, <1>2, <1>3, <1>9 DEF KeepAlive, threads, process
<1>10. CASE SendOutput
  BY <1>2, <1>3, <1>10 DEF SendOutput, threads, process
<1>11. CASE Leave \/ Cancelled
  <2>1. /\ loop' \in {"joining", "done"} /\ child' = "dead"
        /\ UNCHANGED <<writer, writing, reader, reading>>
    BY <1>11, Drops
  <2> QED
    BY <1>2, <1>3, <2>1
<1>12. CASE Joined
  BY <1>2, <1>3, <1>12 DEF Joined, threads, process
<1>13. CASE WriterReceives \/ WriterWrites \/ WriterEnds
  <2>1. inputs # <<>> => Head(inputs) \in Nat
    BY <1>1, HeadTailProperties
  <2> QED
    BY <1>2, <1>3, <1>13, <2>1
       DEF WriterReceives, WriterWrites, WriterEnds, WriterEndsByError, WriterEndsByClose, WriterOnly
<1>14. CASE ReaderReads \/ ReaderFails \/ ReaderSends \/ ReaderEnds
  <2>1. ptyOut # <<>> => Head(ptyOut) \in Nat
    BY <1>1, HeadTailProperties
  <2>2. reader # "ended" /\ UNCHANGED <<loop, held, writer, writing, child, written>>
    BY <1>14 DEF ReaderReads, ReaderFails, ReaderSends, ReaderSendsTo, ReaderEnds, ReaderOnly
  <2>3. /\ reader' = "send" => reading' \in Nat
        /\ reader' = "fail" => reading' = Eof
    BY <1>1, <1>14, <2>1 DEF ReaderReads, ReaderFails, ReaderSends, ReaderSendsTo, ReaderEnds
  <2> QED
    BY <1>2, <1>3, <2>2, <2>3
<1>15. CASE ChildReads \/ ChildSpeaks \/ ChildWrites \/ ChildExits \/ OrphanEnds
  <2>1. UNCHANGED <<loop, held, outputs, writer, writing, reader, reading>>
    BY <1>15 DEF ChildReads, ChildSpeaks, ChildWrites, ChildExits, OrphanEnds,
       ChildOnly, threads
  <2>2. child' = "writing" => written' < MaxOut
    BY <1>2, <1>15 DEF ChildReads, ChildSpeaks, ChildWrites, ChildExits, OrphanEnds
  <2> QED
    BY <1>2, <1>3, <2>1, <2>2
<1> QED
  BY <1>4, <1>5, <1>6, <1>7, <1>8, <1>9, <1>10, <1>11, <1>12, <1>13, <1>14, <1>15, Steps

\* The reader tells of the end when the terminal is closed and empty.
LEMMA ReaderPreserved ==
    ASSUME TypeOK, TypeOK', HoldersKnown, ReaderKnown, Next
    PROVE  ReaderKnown'
<1>1. /\ loop \in {"select", "input", "output", "last", "left", "joining", "done"}
      /\ outputs \in Seq(Frames) /\ reading \in Frames
      /\ reader \in {"read", "send", "fail", "ended"}
      /\ child \in {"idle", "writing", "dead"} /\ orphan \in BOOLEAN
  BY DEF TypeOK, Sized
<1>2. /\ reader = "fail" \/ (reader = "ended" /\ ~Left) => ~SlaveOpen /\ ptyOut = <<>>
      /\ \A i \in DOMAIN outputs : outputs[i] = Eof => i = Len(outputs) /\ reader = "ended"
  BY DEF ReaderKnown
<1>3. ASSUME reader' = reader, Left => Left', outputs' = outputs,
             ptyOut' = ptyOut \/ SlaveOpen, SlaveOpen' => SlaveOpen
      PROVE  ReaderKnown'
  BY <1>2, <1>3 DEF ReaderKnown
<1>4. CASE Aside
  BY <1>3, <1>4 DEF Aside, threads, process, Left, SlaveOpen
<1>5. CASE ReceiveChunk \/ ReceiveOther \/ KeepAlive \/ SendOutput \/ Joined
           \/ (\E why \in {"end", "input", "cut"} : Looping /\ LeaveFor(why))
  <2>1. UNCHANGED <<threads, process>> /\ (Left => Left')
    BY <1>5 DEF ReceiveChunk, ReceiveOther, TakeRemote, KeepAlive, SendOutput, Joined,
       LeaveFor, Looping, Left
  <2> QED
    BY <1>3, <2>1 DEF threads, process, SlaveOpen
<1>6. CASE PassInput
  BY <1>3, <1>6 DEF PassInput, process, SlaveOpen, Left
<1>7. CASE ReceiveOutput
  <2>1. /\ outputs # <<>> /\ outputs' = Tail(outputs) /\ ~Left
        /\ UNCHANGED <<reader, ptyOut, child, orphan>>
    BY <1>7 DEF ReceiveOutput, TakeOutput, process, Left
  <2>2. /\ Len(Tail(outputs)) = Len(outputs) - 1 /\ Len(outputs) \in Nat
        /\ DOMAIN Tail(outputs) = 1 .. Len(Tail(outputs)) /\ DOMAIN outputs = 1 .. Len(outputs)
        /\ \A i \in 1 .. Len(Tail(outputs)) : Tail(outputs)[i] = outputs[i + 1]
    BY <1>1, <2>1, HeadTailProperties, LenProperties
  <2>3. ASSUME NEW i \in DOMAIN outputs', outputs'[i] = Eof
        PROVE  i = Len(outputs') /\ reader' = "ended"
    <3>1. i + 1 \in DOMAIN outputs /\ outputs[i + 1] = Eof
      BY <2>1, <2>2, <2>3
    <3>2. i + 1 = Len(outputs) /\ reader = "ended"
      BY <1>2, <3>1
    <3> QED
      BY <2>1, <2>2, <2>3, <3>2
  <2>4. reader' = "fail" \/ (reader' = "ended" /\ ~Left') => ~SlaveOpen' /\ ptyOut' = <<>>
    BY <1>2, <2>1 DEF SlaveOpen
  <2> QED
    BY <2>3, <2>4 DEF ReaderKnown
<1>8. CASE Leave \/ Cancelled
  <2>1. /\ loop' \in {"joining", "done"} /\ outputs' = <<>> /\ child' = "dead"
        /\ (orphan' = orphan \/ (child # "dead" /\ orphan' \in BOOLEAN))
        /\ UNCHANGED <<reader, ptyOut>>
    BY <1>8, Drops
  <2>2. Left' /\ (SlaveOpen' => SlaveOpen)
    BY <1>1, <2>1 DEF Left, SlaveOpen
  <2>3. DOMAIN outputs' = {}
    <3>1. outputs' \in Seq(Frames) /\ Len(outputs') = 0
      BY <2>1, EmptyQueue
    <3>2. DOMAIN outputs' = 1 .. 0
      BY <3>1, LenProperties
    <3> QED
      BY <3>2
  <2> QED
    BY <1>2, <2>1, <2>2, <2>3 DEF ReaderKnown
<1>9. CASE WriterReceives \/ WriterWrites \/ WriterEnds
  <2>1. UNCHANGED <<loop, outputs, reader, ptyOut, child, orphan>>
    BY <1>9 DEF WriterReceives, WriterWrites, WriterEnds, WriterEndsByError, WriterEndsByClose, WriterOnly
  <2> QED
    BY <1>3, <2>1 DEF Left, SlaveOpen
<1>10. CASE ReaderReads \/ ReaderFails \/ ReaderEnds
  <2>1. /\ UNCHANGED <<loop, outputs, child, orphan>> /\ reader # "ended"
        /\ reader' = "fail" => ~SlaveOpen /\ ptyOut' = <<>>
        /\ reader' = "ended" => Left
    BY <1>10 DEF ReaderReads, ReaderFails, ReaderEnds, ReaderOnly
  <2> QED
    BY <1>2, <2>1 DEF ReaderKnown, Left, SlaveOpen
<1>11. CASE ReaderSends
  <2>1. /\ reader \in {"send", "fail"} /\ outputs' = Append(outputs, reading)
        /\ reader' = IF reader = "fail" THEN "ended" ELSE "read"
        /\ UNCHANGED <<loop, ptyOut, child, orphan>>
    BY <1>11 DEF ReaderSends, ReaderSendsTo, ReaderOnly
  <2>2. /\ Len(outputs') = Len(outputs) + 1 /\ Len(outputs) \in Nat
        /\ DOMAIN outputs' = 1 .. Len(outputs) + 1 /\ DOMAIN outputs = 1 .. Len(outputs)
        /\ \A i \in 1 .. Len(outputs) : outputs'[i] = outputs[i]
        /\ outputs'[Len(outputs) + 1] = reading
    BY <1>1, <2>1, AppendProperties, LenProperties
  <2>3. reading = Eof => reader = "fail"
    BY <2>1, FramesAreIntegers DEF HoldersKnown
  <2>4. ASSUME NEW i \in DOMAIN outputs', outputs'[i] = Eof
        PROVE  i = Len(outputs') /\ reader' = "ended"
    <3>1. i = Len(outputs) + 1
      BY <1>2, <2>1, <2>2, <2>4
    <3> QED
      BY <2>1, <2>2, <2>3, <2>4, <3>1
  <2>5. reader' = "fail" \/ (reader' = "ended" /\ ~Left') => ~SlaveOpen' /\ ptyOut' = <<>>
    BY <1>2, <2>1 DEF SlaveOpen
  <2> QED
    BY <2>4, <2>5 DEF ReaderKnown
<1>12. CASE ChildReads \/ ChildSpeaks \/ ChildWrites \/ ChildExits \/ OrphanEnds
  <2>1. UNCHANGED <<loop, outputs, reader>>
    BY <1>12 DEF ChildReads, ChildSpeaks, ChildWrites, ChildExits, OrphanEnds,
       ChildOnly, threads
  <2>2. /\ ptyOut' = ptyOut \/ SlaveOpen
        /\ SlaveOpen' => SlaveOpen
    BY <1>1, <1>12 DEF ChildReads, ChildSpeaks, ChildWrites, ChildExits, OrphanEnds, SlaveOpen
  <2> QED
    BY <1>3, <2>1, <2>2 DEF Left
<1> QED
  BY <1>4, <1>5, <1>6, <1>7, <1>8, <1>9, <1>10, <1>11, <1>12, Steps

-----------------------------------------------------------------------------
(* To the dashboard *)

\* Every step moves output along or adds to its end, until the terminal ends.
LEMMA OutputPreserved ==
    ASSUME TypeOK, TypeOK', HoldersKnown, ReaderKnown, GotInOrder, OutboundInOrder,
           OutputInOrder, Next
    PROVE  OutputInOrder'
<1>1. /\ ToDashboard \in Seq(Frames) /\ LoopHolds \in Seq(Frames)
      /\ outputs \in Seq(Frames) /\ ReaderHolds \in Seq(Frames) /\ ptyOut \in Seq(Frames)
      /\ got \in Seq(Frames) /\ outbound \in Seq(Frames)
      /\ held \in Frames /\ reading \in Frames /\ written \in Nat
      /\ Keep \in Frames /\ Eof \in Frames /\ Keep <= 0 /\ Eof <= 0
  BY Queues, FramesAreIntegers
<1>2. SUFFICES ASSUME Looping', ~cut' PROVE Carries(Output', written')
  BY DEF OutputInOrder, Output, ToDashboard, LoopHolds, ReaderHolds
<1>3. ASSUME Looping, ~cut PROVE Carries(Output, written)
  BY <1>3 DEF OutputInOrder, Output, ToDashboard, LoopHolds, ReaderHolds
<1>4. ASSUME UNCHANGED <<written, cut>>, Looping,
             Carries(Output, written) => Carries(Output', written)
      PROVE  Carries(Output', written')
  BY <1>2, <1>3, <1>4
<1>5. CASE (SendChunk /\ Aside) \/ (SendOther /\ Aside) \/ (Close /\ Aside)
           \/ ChildReads \/ ChildSpeaks \/ ChildExits \/ OrphanEnds
           \/ WriterReceives \/ WriterWrites \/ WriterEnds
  <2>1. UNCHANGED <<loop, held, got, outbound, cut, outputs, reader, reading, ptyOut, written>>
    BY <1>5 DEF SendChunk, SendOther, Close, Aside, ChildReads, ChildSpeaks, ChildExits,
       OrphanEnds, ChildOnly, WriterReceives, WriterWrites, WriterEnds, WriterEndsByError, WriterEndsByClose,
       WriterOnly, threads, process, stream
  <2> QED
    BY <1>2, <1>4, <2>1 DEF Output, ToDashboard, LoopHolds, ReaderHolds, Looping
<1>6. CASE CutOff /\ Aside
  BY <1>2, <1>6 DEF CutOff
<1>7. CASE ReadFrame /\ Aside
  <2>1. UNCHANGED <<loop, held, cut, outputs, reader, reading, ptyOut, written>>
    BY <1>7 DEF ReadFrame, Aside, threads, process
  <2>2. \A s \in Seq(Frames) :
          Carries(ToDashboard \o s, written) <=> Carries(ToDashboard' \o s, written)
    BY <1>1, <1>7, ReadFrameKeeps DEF TypeOK, ToDashboard
  <2>3. ToDashboard' \in Seq(Frames)
    BY Row DEF ToDashboard, TypeOK, StreamTypeOK, Sized
  <2> DEFINE rest == ((LoopHolds \o outputs) \o ReaderHolds) \o ptyOut
  <2>4. \A s \in Seq(Frames) :
          (((s \o LoopHolds) \o outputs) \o ReaderHolds) \o ptyOut = s \o rest
    <3> SUFFICES ASSUME NEW s \in Seq(Frames)
                 PROVE (((s \o LoopHolds) \o outputs) \o ReaderHolds) \o ptyOut = s \o rest
      OBVIOUS
    <3> DEFINE next == (LoopHolds \o outputs) \o ReaderHolds
    <3>1. /\ ((s \o LoopHolds) \o outputs) \o ReaderHolds = s \o next
          /\ next \in Seq(Frames)
      BY <1>1, Rest
    <3>2. ptyOut \in Seq(Frames)
      BY <1>1
    <3>3. rest = next \o ptyOut
      OBVIOUS
    <3> HIDE DEF next, rest
    <3>4. (s \o next) \o ptyOut = s \o (next \o ptyOut)
      BY <3>1, <3>2, Associative
    <3> QED
      BY <3>1, <3>3, <3>4
  <2>5. rest \in Seq(Frames)
    <3>1. (LoopHolds \o outputs) \o ReaderHolds \in Seq(Frames)
      BY <1>1, Rest
    <3> QED
      BY <1>1, <3>1, Row
  <2>6. Output = ToDashboard \o rest
    BY <1>1, <2>4 DEF Output
  <2>7. Output' = (((ToDashboard' \o LoopHolds) \o outputs) \o ReaderHolds) \o ptyOut
    BY <2>1 DEF Output, LoopHolds, ReaderHolds
  <2>8. Output' = ToDashboard' \o rest
    BY <2>3, <2>4, <2>7
  <2> HIDE DEF rest
  <2>9. Carries(Output, written) => Carries(Output', written)
    BY <2>2, <2>5, <2>6, <2>8
  <2> QED
    BY <1>2, <1>4, <2>1, <2>9 DEF Looping
<1>8. CASE ReceiveChunk \/ ReceiveOther \/ PassInput
  <2>1. /\ loop \in {"select", "input"} /\ loop' \notin {"output", "last"} /\ Looping
        /\ UNCHANGED <<got, outbound, cut, outputs, reader, reading, ptyOut, written>>
    BY <1>8 DEF ReceiveChunk, ReceiveOther, TakeRemote, TakeFrame, PassInput, threads,
       process, stream, Looping
  <2>2. LoopHolds = <<>> /\ LoopHolds' = <<>>
    BY <2>1 DEF LoopHolds, Holding
  <2>3. Output' = Output
    BY <2>1, <2>2 DEF Output, ToDashboard, ReaderHolds
  <2> QED
    BY <1>4, <2>1, <2>3
<1>9. CASE (\E why \in {"end", "input", "cut"} : Looping /\ LeaveFor(why))
           \/ Leave \/ Joined \/ Cancelled
  <2>1. ~Looping'
    BY <1>9, Drops DEF LeaveFor, Joined, Looping
  <2> QED
    BY <1>2, <2>1
<1>10. CASE ReceiveOutput
  <2>1. /\ loop = "select" /\ loop' \in {"output", "last"} /\ outputs # <<>>
        /\ held' = Head(outputs) /\ outputs' = Tail(outputs)
        /\ UNCHANGED <<got, outbound, cut, reader, reading, ptyOut, written>>
    BY <1>10 DEF ReceiveOutput, TakeOutput, process, stream
  <2>2. LoopHolds = <<>> /\ LoopHolds' = <<Head(outputs)>>
    BY <2>1 DEF LoopHolds, Holding
  <2>3. ToDashboard \o outputs = (ToDashboard \o <<Head(outputs)>>) \o Tail(outputs)
    BY <1>1, <2>1, TakeFirst
  <2>4. ToDashboard \o <<>> = ToDashboard
    BY <1>1, ConcatEmptySeq
  <2>5. Output' = (((ToDashboard \o <<Head(outputs)>>) \o Tail(outputs)) \o ReaderHolds) \o ptyOut
    BY <2>1, <2>2 DEF Output, ToDashboard, ReaderHolds
  <2>6. Output' = Output
    BY <2>2, <2>3, <2>4, <2>5 DEF Output
  <2> QED
    BY <1>4, <2>1, <2>6 DEF Looping
<1>11. CASE KeepAlive
  <2>1. /\ loop = "select" /\ loop' = "output" /\ held' = Keep
        /\ UNCHANGED <<got, outbound, cut, outputs, reader, reading, ptyOut, written>>
    BY <1>11 DEF KeepAlive, threads, process, stream
  <2>2. LoopHolds = <<>> /\ LoopHolds' = <<Keep>>
    BY <2>1 DEF LoopHolds, Holding
  <2>3. ToDashboard \o <<>> = ToDashboard /\ <<Keep>> \in Seq(Frames)
        /\ ToDashboard \o <<Keep>> \in Seq(Frames)
    BY <1>1, ConcatEmptySeq, Single, Row
  <2> DEFINE rest == (outputs \o ReaderHolds) \o ptyOut
  <2>8. /\ rest \in Seq(Frames)
        /\ \A s \in Seq(Frames) : ((s \o outputs) \o ReaderHolds) \o ptyOut = s \o rest
    <3>1. outputs \in Seq(Frames) /\ ReaderHolds \in Seq(Frames) /\ ptyOut \in Seq(Frames)
      BY <1>1
    <3>2. rest \in Seq(Frames)
      BY <3>1, Row
    <3>3. ASSUME NEW s \in Seq(Frames)
          PROVE  ((s \o outputs) \o ReaderHolds) \o ptyOut = s \o rest
      <4> DEFINE two == outputs \o ReaderHolds
      <4>1. two \in Seq(Frames)
        BY <3>1, Row
      <4>2. (s \o outputs) \o ReaderHolds = s \o two /\ rest = two \o ptyOut
        BY <3>1, Associative
      <4> HIDE DEF two, rest
      <4>3. (s \o two) \o ptyOut = s \o (two \o ptyOut)
        BY <3>1, <4>1, Associative
      <4> QED
        BY <4>2, <4>3
    <3> QED
      BY <3>2, <3>3
  <2>4. /\ rest \in Seq(Frames)
        /\ ((ToDashboard \o outputs) \o ReaderHolds) \o ptyOut = ToDashboard \o rest
        /\ (((ToDashboard \o <<Keep>>) \o outputs) \o ReaderHolds) \o ptyOut
             = (ToDashboard \o <<Keep>>) \o rest
    BY <1>1, <2>3, <2>8
  <2>5. Output = ToDashboard \o rest
    BY <2>2, <2>3, <2>4 DEF Output
  <2>6. Output' = (((ToDashboard \o <<Keep>>) \o outputs) \o ReaderHolds) \o ptyOut
    BY <2>1, <2>2 DEF Output, ToDashboard, ReaderHolds
  <2> HIDE DEF rest
  <2>7. Carries(ToDashboard \o rest, written)
          <=> Carries((ToDashboard \o <<Keep>>) \o rest, written)
    BY <1>1, <2>4, Silent
  <2> QED
    BY <1>4, <2>1, <2>4, <2>5, <2>6, <2>7 DEF Looping
<1>12. CASE SendOutput
  <2>1. /\ loop = "output" /\ loop' = "select"
        /\ outbound' = Append(outbound, held) /\ got' = got
        /\ UNCHANGED <<cut, outputs, reader, reading, ptyOut, written>>
    BY <1>2, <1>12 DEF SendOutput, PutFrame, threads, process, Looping
  <2>2. LoopHolds = <<held>> /\ LoopHolds' = <<>>
    BY <2>1 DEF LoopHolds, Holding
  <2>3. ToDashboard' = ToDashboard \o <<held>>
    BY <1>1, <2>1, AppendLast DEF ToDashboard
  <2>4. ToDashboard' \o <<>> = ToDashboard'
    BY <1>1, <2>3, Single, Row, ConcatEmptySeq
  <2>5. Output' = Output
    BY <2>1, <2>2, <2>3, <2>4 DEF Output, ReaderHolds
  <2> QED
    BY <1>4, <2>1, <2>5 DEF Looping
<1>13. CASE ReaderReads
  <2>1. /\ reader = "read" /\ reader' = "send" /\ ptyOut # <<>>
        /\ reading' = Head(ptyOut) /\ ptyOut' = Tail(ptyOut)
        /\ UNCHANGED <<loop, held, got, outbound, cut, outputs, written>>
    BY <1>13 DEF ReaderReads, ReaderOnly, stream
  <2>2. ReaderHolds = <<>> /\ ReaderHolds' = <<Head(ptyOut)>>
    BY <2>1 DEF ReaderHolds, Holding
  <2> DEFINE before == (ToDashboard \o LoopHolds) \o outputs
  <2>3. before \in Seq(Frames)
    BY <1>1, Rest
  <2>4. Output = (before \o <<>>) \o ptyOut
    BY <2>2 DEF Output
  <2>5. Output' = (before \o <<Head(ptyOut)>>) \o Tail(ptyOut)
    BY <2>1, <2>2 DEF Output, ToDashboard, LoopHolds
  <2> HIDE DEF before
  <2>6. before \o <<>> = before /\ before \o ptyOut = (before \o <<Head(ptyOut)>>) \o Tail(ptyOut)
    BY <1>1, <2>1, <2>3, TakeFirst, ConcatEmptySeq
  <2>7. Output' = Output
    BY <2>4, <2>5, <2>6
  <2> QED
    BY <1>2, <1>4, <2>1, <2>7 DEF Looping
<1>14. CASE ReaderFails \/ ReaderEnds
  <2>1. /\ UNCHANGED <<loop, held, got, outbound, cut, outputs, ptyOut, written>>
        /\ ReaderFails \/ ~Looping
    BY <1>14 DEF ReaderFails, ReaderEnds, ReaderOnly, stream, Looping, Left
  <2>2. reader = "read" /\ reader' = "fail"
    BY <1>2, <2>1 DEF ReaderFails, Looping
  <2>3. ReaderHolds = <<>> /\ ReaderHolds' = <<>>
    BY <2>2 DEF ReaderHolds, Holding
  <2>4. Output' = Output
    BY <2>1, <2>3 DEF Output, ToDashboard, LoopHolds
  <2> QED
    BY <1>2, <1>4, <2>1, <2>4 DEF Looping
<1>15. CASE ReaderSends
  <2>1. /\ reader \in {"send", "fail"} /\ outputs' = Append(outputs, reading)
        /\ reader' # "send"
        /\ UNCHANGED <<loop, held, got, outbound, cut, ptyOut, written>>
    BY <1>15 DEF ReaderSends, ReaderSendsTo, ReaderOnly, stream
  <2> DEFINE before == ToDashboard \o LoopHolds
             all == before \o outputs
  <2>2. before \in Seq(Frames) /\ all \in Seq(Frames)
    BY <1>1, Row
  <2>3. ReaderHolds' = <<>>
    BY <2>1 DEF ReaderHolds, Holding
  <2>4. Output = (all \o ReaderHolds) \o ptyOut
    BY DEF Output
  <2>5. Output' = ((before \o Append(outputs, reading)) \o <<>>) \o ptyOut
    BY <2>1, <2>3 DEF Output, ToDashboard, LoopHolds
  <2>0. all = before \o outputs
    OBVIOUS
  <2> HIDE DEF before, all
  <2>6. before \o Append(outputs, reading) = all \o <<reading>>
    BY <1>1, <2>0, <2>2, AppendLast
  <2>7. all \o <<reading>> \in Seq(Frames)
    BY <1>1, <2>2, Single, Row
  <2>8. (all \o <<reading>>) \o <<>> = all \o <<reading>> /\ all \o <<>> = all
    BY <2>2, <2>7, ConcatEmptySeq
  <2>9. Output' = (all \o <<reading>>) \o ptyOut
    BY <2>5, <2>6, <2>8
  <2>10. CASE reader = "send"
    <3>1. ReaderHolds = <<reading>>
      BY <2>10 DEF ReaderHolds, Holding
    <3> QED
      BY <1>2, <1>4, <2>1, <2>4, <2>9, <3>1 DEF Looping
  <2>11. CASE reader = "fail"
    <3>1. ReaderHolds = <<>> /\ reading = Eof
      BY <2>11 DEF ReaderHolds, Holding, HoldersKnown
    <3>2. Output = all \o ptyOut
      BY <2>4, <2>8, <3>1
    <3>3. Carries(all \o ptyOut, written) <=> Carries((all \o <<reading>>) \o ptyOut, written)
      BY <1>1, <2>2, <3>1, Silent
    <3> QED
      BY <1>2, <1>4, <2>1, <2>9, <3>2, <3>3 DEF Looping
  <2> QED
    BY <2>1, <2>10, <2>11
<1>16. CASE ChildWrites
  <2>1. /\ ptyOut' = Append(ptyOut, written + 1) /\ written' = written + 1
        /\ UNCHANGED <<loop, held, got, outbound, cut, outputs, reader, reading>>
    BY <1>16 DEF ChildWrites, ChildOnly, threads, stream
  <2>2. Carries(Output, written)
    BY <1>2, <1>3, <2>1 DEF Looping
  <2> DEFINE before == ((ToDashboard \o LoopHolds) \o outputs) \o ReaderHolds
  <2>3. before \in Seq(Frames)
    <3>1. (ToDashboard \o LoopHolds) \o outputs \in Seq(Frames)
      BY <1>1, Rest
    <3> QED
      BY <1>1, <3>1, Row
  <2>4. Output = before \o ptyOut /\ Output' = before \o Append(ptyOut, written + 1)
    BY <2>1 DEF Output, ToDashboard, LoopHolds, ReaderHolds
  <2> HIDE DEF before
  <2>5. written + 1 \in Frames
    BY <1>1, FramesAreIntegers
  <2>6. Output' = Output \o <<written + 1>> /\ Output \in Seq(Frames)
    BY <1>1, <2>3, <2>4, <2>5, AppendLast, Row
  <2> QED
    BY <1>1, <2>1, <2>2, <2>6, Extend
<1> QED
  BY <1>5, <1>6, <1>7, <1>8, <1>9, <1>10, <1>11, <1>12, <1>13, <1>14, <1>15, <1>16, Steps

-----------------------------------------------------------------------------
(* To the child *)

\* Every step moves input along or adds to its end, until the terminal ends.
LEMMA InputPreserved ==
    ASSUME TypeOK, HoldersKnown, InputInOrder, Next
    PROVE  InputInOrder'
<1>1. /\ ToChild \in Seq(Frames) /\ WriterHolds \in Seq(Frames)
      /\ inputs \in Seq(Frames) /\ InputHolds \in Seq(Frames) /\ remote \in Seq(Frames)
      /\ consumed \in Seq(Frames) /\ ptyIn \in Seq(Frames)
      /\ held \in Frames /\ writing \in Frames /\ sent \in Nat
      /\ Keep \in Frames /\ Keep <= 0
  BY Queues, FramesAreIntegers
<1> DEFINE before == ((ToChild \o WriterHolds) \o inputs) \o InputHolds
<1>2. /\ (ToChild \o WriterHolds) \o inputs \in Seq(Frames) /\ before \in Seq(Frames)
      /\ ToChild \o <<>> = ToChild
  <2>1. (ToChild \o WriterHolds) \o inputs \in Seq(Frames)
    BY <1>1, Rest
  <2> QED
    BY <1>1, <2>1, Row, ConcatEmptySeq
<1>3. SUFFICES ASSUME Looping', ending' = "open", writer' # "ended"
               PROVE  Carries(Input', sent')
  BY DEF InputInOrder, Input, ToChild, WriterHolds, InputHolds
<1>4. ASSUME Looping, ending = "open", writer # "ended" PROVE Carries(Input, sent)
  BY <1>4 DEF InputInOrder, Input, ToChild, WriterHolds, InputHolds
<1>5. ASSUME UNCHANGED <<sent, ending>>, Looping, writer # "ended",
             Carries(Input, sent) => Carries(Input', sent)
      PROVE  Carries(Input', sent')
  BY <1>3, <1>4, <1>5
<1>6. CASE (CutOff /\ Aside) \/ (ReadFrame /\ Aside)
           \/ ReaderReads \/ ReaderFails \/ ReaderSends \/ ReaderEnds
           \/ ChildSpeaks \/ ChildWrites \/ ChildExits \/ OrphanEnds
  <2>1. UNCHANGED <<loop, held, consumed, ptyIn, writer, writing, inputs, remote,
                    ending, sent>>
    BY <1>6 DEF CutOff, ReadFrame, Aside, ReaderReads, ReaderFails, ReaderSends,
       ReaderSendsTo, ReaderEnds, ReaderOnly, ChildSpeaks, ChildWrites, ChildExits,
       OrphanEnds, ChildOnly, threads, process, stream
  <2> QED
    BY <1>3, <1>5, <2>1 DEF Input, ToChild, WriterHolds, InputHolds, Looping
<1>7. CASE SendChunk /\ Aside
  <2>1. /\ remote' = Append(remote, sent + 1) /\ sent' = sent + 1
        /\ UNCHANGED <<loop, held, consumed, ptyIn, writer, writing, inputs, ending>>
    BY <1>7 DEF SendChunk, Aside, threads, process
  <2>2. Carries(Input, sent)
    BY <1>3, <1>4, <2>1 DEF Looping
  <2>3. Input = before \o remote /\ Input' = before \o Append(remote, sent + 1)
    BY <2>1 DEF Input, ToChild, WriterHolds, InputHolds
  <2> HIDE DEF before
  <2>4. sent + 1 \in Frames
    BY <1>1, FramesAreIntegers
  <2>5. Input' = Input \o <<sent + 1>> /\ Input \in Seq(Frames)
    BY <1>1, <1>2, <2>3, <2>4, AppendLast, Row
  <2> QED
    BY <1>1, <2>1, <2>2, <2>5, Extend
<1>8. CASE SendOther /\ Aside
  <2>1. /\ remote' = Append(remote, Keep)
        /\ UNCHANGED <<loop, held, consumed, ptyIn, writer, writing, inputs, ending, sent>>
    BY <1>8 DEF SendOther, Aside, threads, process
  <2>2. Input = before \o remote /\ Input' = before \o Append(remote, Keep)
    BY <2>1 DEF Input, ToChild, WriterHolds, InputHolds
  <2> HIDE DEF before
  <2>3. Input' = Input \o <<Keep>> /\ Input \in Seq(Frames)
    BY <1>1, <1>2, <2>2, AppendLast, Row
  <2>4. Carries(Input, sent) <=> Carries(Input \o <<Keep>>, sent)
    BY <1>1, <2>3, SilentLast
  <2> QED
    BY <1>3, <1>5, <2>1, <2>3, <2>4 DEF Looping
<1>9. CASE Close /\ Aside
  BY <1>3, <1>9 DEF Close
<1>10. CASE ReceiveChunk
  <2>1. /\ loop = "select" /\ loop' = "input" /\ remote # <<>>
        /\ held' = Head(remote) /\ remote' = Tail(remote)
        /\ UNCHANGED <<consumed, ptyIn, writer, writing, inputs, ending, sent>>
    BY <1>10 DEF ReceiveChunk, TakeRemote, TakeFrame, threads, process
  <2>2. InputHolds = <<>> /\ InputHolds' = <<Head(remote)>>
    BY <2>1 DEF InputHolds, Holding
  <2> DEFINE all == (ToChild \o WriterHolds) \o inputs
  <2>3. Input = (all \o <<>>) \o remote /\ Input' = (all \o <<Head(remote)>>) \o Tail(remote)
    BY <2>1, <2>2 DEF Input, ToChild, WriterHolds
  <2>4. all \in Seq(Frames)
    BY <1>2
  <2> HIDE DEF all
  <2>5. all \o <<>> = all /\ all \o remote = (all \o <<Head(remote)>>) \o Tail(remote)
    BY <1>1, <2>1, <2>4, TakeFirst, ConcatEmptySeq
  <2>6. Input' = Input
    BY <2>3, <2>5
  <2> QED
    BY <1>3, <1>5, <2>1, <2>6 DEF Looping
<1>11. CASE ReceiveOther
  <2>1. /\ loop = "select" /\ loop' = "select" /\ remote # <<>>
        /\ Head(remote) = Keep /\ remote' = Tail(remote)
        /\ UNCHANGED <<consumed, ptyIn, writer, writing, inputs, ending, sent>>
    BY <1>3, <1>11 DEF ReceiveOther, TakeRemote, TakeFrame, threads, process, Looping
  <2>2. InputHolds = <<>> /\ InputHolds' = <<>>
    BY <2>1 DEF InputHolds, Holding
  <2> DEFINE all == (ToChild \o WriterHolds) \o inputs
  <2>3. Input = (all \o <<>>) \o remote /\ Input' = (all \o <<>>) \o Tail(remote)
    BY <2>1, <2>2 DEF Input, ToChild, WriterHolds
  <2>4. all \in Seq(Frames)
    BY <1>2
  <2> HIDE DEF all
  <2>5. /\ all \o <<>> = all /\ all \o remote = (all \o <<Keep>>) \o Tail(remote)
        /\ Tail(remote) \in Seq(Frames)
    BY <1>1, <2>1, <2>4, TakeFirst, ConcatEmptySeq
  <2>6. Carries((all \o <<Keep>>) \o Tail(remote), sent) <=> Carries(all \o Tail(remote), sent)
    BY <1>1, <2>4, <2>5, Silent
  <2> QED
    BY <1>3, <1>5, <2>1, <2>3, <2>5, <2>6 DEF Looping
<1>12. CASE PassInput
  <2>1. /\ loop = "input" /\ loop' = "select" /\ inputs' = Append(inputs, held)
        /\ UNCHANGED <<remote, consumed, ptyIn, writer, writing, ending, sent>>
    BY <1>12 DEF PassInput, process, stream
  <2>2. InputHolds = <<held>> /\ InputHolds' = <<>>
    BY <2>1 DEF InputHolds, Holding
  <2> DEFINE first == ToChild \o WriterHolds
             all == first \o inputs
  <2>3. Input = (all \o <<held>>) \o remote
        /\ Input' = ((first \o Append(inputs, held)) \o <<>>) \o remote
    BY <2>1, <2>2 DEF Input, ToChild, WriterHolds
  <2>4. first \in Seq(Frames) /\ all \in Seq(Frames) /\ all = first \o inputs
    BY <1>1, <1>2, Row
  <2> HIDE DEF first, all
  <2>5. first \o Append(inputs, held) = all \o <<held>>
    BY <1>1, <2>4, AppendLast
  <2>6. (all \o <<held>>) \o <<>> = all \o <<held>>
    BY <1>1, <2>4, Single, Row, ConcatEmptySeq
  <2>7. Input' = Input
    BY <2>3, <2>5, <2>6
  <2> QED
    BY <1>3, <1>5, <2>1, <2>7 DEF Looping
<1>13. CASE ReceiveOutput \/ KeepAlive \/ SendOutput
  <2>1. /\ loop \in {"select", "output", "last"} /\ loop' # "input" /\ Looping
        /\ UNCHANGED <<remote, consumed, ptyIn, inputs, writer, writing, ending, sent>>
    BY <1>13 DEF ReceiveOutput, TakeOutput, KeepAlive, SendOutput, PutFrame, threads,
       process, stream, Looping
  <2>2. InputHolds = <<>> /\ InputHolds' = <<>>
    BY <2>1 DEF InputHolds, Holding
  <2>3. Input' = Input
    BY <2>1, <2>2 DEF Input, ToChild, WriterHolds
  <2> QED
    BY <1>3, <1>5, <2>1, <2>3
<1>14. CASE (\E why \in {"end", "input", "cut"} : Looping /\ LeaveFor(why))
            \/ Leave \/ Joined \/ Cancelled
  <2>1. ~Looping'
    BY <1>14, Drops DEF LeaveFor, Joined, Looping
  <2> QED
    BY <1>3, <2>1
<1>15. CASE WriterReceives
  <2>1. /\ writer = "receive" /\ writer' = "write" /\ inputs # <<>>
        /\ writing' = Head(inputs) /\ inputs' = Tail(inputs)
        /\ UNCHANGED <<loop, held, remote, consumed, ptyIn, ending, sent>>
    BY <1>15 DEF WriterReceives, WriterOnly, stream
  <2>2. WriterHolds = <<>> /\ WriterHolds' = <<Head(inputs)>>
    BY <2>1 DEF WriterHolds, Holding
  <2>3. ToChild \o inputs = (ToChild \o <<Head(inputs)>>) \o Tail(inputs)
    BY <1>1, <2>1, TakeFirst
  <2>4. Input' = (((ToChild \o <<Head(inputs)>>) \o Tail(inputs)) \o InputHolds) \o remote
    BY <2>1, <2>2 DEF Input, ToChild, InputHolds
  <2>5. Input' = Input
    BY <1>2, <2>2, <2>3, <2>4 DEF Input
  <2> QED
    BY <1>3, <1>5, <2>1, <2>5 DEF Looping
<1>16. CASE WriterWrites
  <2>1. /\ writer = "write" /\ writer' = "receive" /\ ptyIn' = Append(ptyIn, writing)
        /\ UNCHANGED <<loop, held, inputs, remote, consumed, ending, sent>>
    BY <1>16 DEF WriterWrites, WriterOnly, stream
  <2>2. WriterHolds = <<writing>> /\ WriterHolds' = <<>>
    BY <2>1 DEF WriterHolds, Holding
  <2>3. ToChild' = ToChild \o <<writing>>
    BY <1>1, <2>1, AppendLast DEF ToChild
  <2>4. ToChild' \o <<>> = ToChild'
    BY <1>1, <2>3, Single, Row, ConcatEmptySeq
  <2>5. Input' = Input
    BY <2>1, <2>2, <2>3, <2>4 DEF Input, InputHolds
  <2> QED
    BY <1>3, <1>5, <2>1, <2>5 DEF Looping
<1>17. CASE WriterEnds
  BY <1>3, <1>17 DEF WriterEnds, WriterEndsByError, WriterEndsByClose
<1>18. CASE ChildReads
  <2>1. /\ ptyIn # <<>>
        /\ consumed' = Append(consumed, Head(ptyIn)) /\ ptyIn' = Tail(ptyIn)
        /\ UNCHANGED <<loop, held, inputs, remote, writer, writing, ending, sent>>
    BY <1>18 DEF ChildReads, ChildOnly, threads, stream
  <2>2. ToChild' = ToChild
    BY <1>1, <2>1, PassOn DEF ToChild
  <2> QED
    BY <1>3, <1>5, <2>1, <2>2 DEF Input, WriterHolds, InputHolds, Looping
<1> QED
  BY <1>6, <1>7, <1>8, <1>9, <1>10, <1>11, <1>12, <1>13, <1>14, <1>15, <1>16, <1>17,
     <1>18, Steps

-----------------------------------------------------------------------------
(* What the dashboard has received, and the invariant *)

\* What has reached the dashboard stays in order, and the end stays its last.
LEMMA DashboardPreserved ==
    ASSUME Inductive, TypeOK', Next
    PROVE  GotInOrder' /\ OutboundInOrder' /\ EofKnown'
<1> DEFINE frames == got \o outbound
<1>1. /\ frames \in Seq(Frames) /\ held \in Frames
      /\ written \in Nat /\ Keep \in Frames /\ Eof \in Frames /\ Keep <= 0 /\ Eof <= 0
      /\ TypeOK /\ StreamTypeOK /\ GotInOrder /\ OutboundInOrder
      /\ HoldersKnown /\ ReaderKnown /\ EofKnown
      /\ child \in {"idle", "writing", "dead"} /\ orphan \in BOOLEAN
  BY Queues, FramesAreIntegers DEF Inductive, TypeOK, ToDashboard
<1>2. HasEof(frames) => ~Looping /\ ~SlaveOpen /\ Carries(frames, written)
  BY <1>1 DEF EofKnown
<1>3. ASSUME UNCHANGED <<got, outbound, cut>>, Looping' => Looping, SlaveOpen' => SlaveOpen,
             written' = written \/ SlaveOpen
      PROVE  GotInOrder' /\ OutboundInOrder' /\ EofKnown'
  <2>1. GotInOrder' /\ OutboundInOrder'
    BY <1>1, <1>3 DEF GotInOrder, OutboundInOrder
  <2> QED
    BY <1>2, <1>3, <2>1 DEF EofKnown
<1>4. CASE (SendChunk /\ Aside) \/ (SendOther /\ Aside) \/ (Close /\ Aside)
  <2>1. UNCHANGED <<got, outbound, cut, loop, child, orphan, written>>
    BY <1>4 DEF SendChunk, SendOther, Close, Aside, process
  <2> QED
    BY <1>3, <2>1 DEF Looping, SlaveOpen
<1>5. CASE CutOff /\ Aside
  <2>1. /\ GotInOrder' /\ OutboundInOrder'
        /\ HasEof(got' \o outbound') => got' \o outbound' = frames
    BY <1>1, <1>5, CutOffKeeps
  <2>2. UNCHANGED <<loop, child, orphan, written>>
    BY <1>5 DEF Aside, process
  <2> QED
    BY <1>2, <2>1, <2>2 DEF EofKnown, Looping, SlaveOpen
<1>6. CASE ReadFrame /\ Aside
  <2>1. /\ GotInOrder' /\ OutboundInOrder'
        /\ HasEof(got' \o outbound') => HasEof(frames)
        /\ \A t \in Seq(Frames) : \A n \in Nat :
             Carries(frames \o t, n) <=> Carries((got' \o outbound') \o t, n)
    BY <1>1, <1>6, ReadFrameKeeps
  <2>2. UNCHANGED <<loop, child, orphan, written>>
    BY <1>6 DEF Aside, process
  <2>3. got' \o outbound' \in Seq(Frames)
    BY Row DEF TypeOK, StreamTypeOK, Sized
  <2>4. Carries(frames, written) <=> Carries(got' \o outbound', written)
    <3> DEFINE other == got' \o outbound'
    <3>1. frames \o <<>> = frames /\ other \o <<>> = other /\ <<>> \in Seq(Frames)
      BY <1>1, <2>3, ConcatEmptySeq, EmptySeq
    <3>2. Carries(frames \o <<>>, written) <=> Carries(other \o <<>>, written)
      BY <1>1, <2>1, <3>1
    <3> QED
      BY <3>1, <3>2
  <2> QED
    BY <1>2, <2>1, <2>2, <2>4 DEF EofKnown, Looping, SlaveOpen
<1>7. CASE ReceiveChunk \/ ReceiveOther \/ PassInput \/ ReceiveOutput \/ KeepAlive \/ Joined
           \/ (\E why \in {"end", "input", "cut"} : Looping /\ LeaveFor(why))
  <2>1. /\ UNCHANGED <<got, outbound, cut, child, orphan, written>>
        /\ Looping \/ ~Looping'
    BY <1>7 DEF ReceiveChunk, ReceiveOther, TakeRemote, TakeFrame, PassInput,
       ReceiveOutput, TakeOutput, KeepAlive, Joined, LeaveFor, process, stream, Looping
  <2> QED
    BY <1>3, <2>1 DEF SlaveOpen
<1>8. CASE Leave \/ Cancelled
  <2>1. /\ loop' \in {"joining", "done"} /\ DropStream /\ child' = "dead"
        /\ (orphan' = orphan \/ (child # "dead" /\ orphan' \in BOOLEAN))
        /\ written' = written
    BY <1>8, Drops
  <2>2. SlaveOpen' => SlaveOpen
    BY <1>1, <2>1 DEF SlaveOpen
  <2> QED
    BY <1>3, <2>1, <2>2 DEF DropStream, Looping
<1>9. CASE WriterReceives \/ WriterWrites \/ WriterEnds
           \/ ReaderReads \/ ReaderFails \/ ReaderSends \/ ReaderEnds
  <2>1. UNCHANGED <<got, outbound, cut, loop, child, orphan, written>>
    BY <1>9 DEF WriterReceives, WriterWrites, WriterEnds, WriterEndsByError, WriterEndsByClose, WriterOnly,
       ReaderReads, ReaderFails, ReaderSends, ReaderSendsTo, ReaderEnds, ReaderOnly, stream
  <2> QED
    BY <1>3, <2>1 DEF Looping, SlaveOpen
<1>10. CASE ChildReads \/ ChildSpeaks \/ ChildWrites \/ ChildExits \/ OrphanEnds
  <2>1. UNCHANGED <<got, outbound, cut, loop>>
    BY <1>10 DEF ChildReads, ChildSpeaks, ChildWrites, ChildExits, OrphanEnds,
       ChildOnly, stream
  <2>2. (SlaveOpen' => SlaveOpen) /\ (written' = written \/ SlaveOpen)
    BY <1>1, <1>10 DEF ChildReads, ChildSpeaks, ChildWrites, ChildExits, OrphanEnds, SlaveOpen
  <2> QED
    BY <1>3, <2>1, <2>2 DEF Looping
<1>11. CASE SendOutput
  <2>1. /\ loop \in {"output", "last"} /\ PutFrame(held) /\ ~cut
        /\ loop' = IF loop = "last" THEN "left" ELSE "select"
        /\ UNCHANGED <<child, orphan, written>>
    BY <1>11 DEF SendOutput, PutFrame, process
  <2>2. Looping /\ ~HasEof(frames)
    BY <1>2, <2>1 DEF Looping
  <2>3. Carries(Output, written)
    BY <2>1, <2>2 DEF Inductive, OutputInOrder, Output, ToDashboard, LoopHolds, ReaderHolds
  <2>4. LoopHolds = <<held>> /\ ToDashboard = frames
    BY <2>1 DEF LoopHolds, Holding, ToDashboard
  <2> DEFINE rest == (outputs \o ReaderHolds) \o ptyOut
  <2>5. /\ frames \o <<held>> \in Seq(Frames) /\ rest \in Seq(Frames)
        /\ Output = (frames \o <<held>>) \o rest
    <3>1. frames \o <<held>> \in Seq(Frames)
      BY <1>1, Single, Row
    <3>2. outputs \in Seq(Frames) /\ ReaderHolds \in Seq(Frames) /\ ptyOut \in Seq(Frames)
      BY <1>1, Queues
    <3> DEFINE first == frames \o <<held>>
    <3>3. first \in Seq(Frames) /\ Output = ((first \o outputs) \o ReaderHolds) \o ptyOut
      BY <2>4, <3>1 DEF Output
    <3> HIDE DEF first
    <3>4. ((first \o outputs) \o ReaderHolds) \o ptyOut = first \o rest /\ rest \in Seq(Frames)
      BY <3>2, <3>3, Rest
    <3> QED
      BY <3>1, <3>3, <3>4 DEF first
  <2>6. InSequence(frames \o <<held>>)
    <3>1. InSequence((frames \o <<held>>) \o rest)
      BY <2>3, <2>5 DEF Carries
    <3> HIDE DEF rest
    <3> QED
      BY <2>5, <3>1, Prefix
  <2>7. /\ GotInOrder' /\ OutboundInOrder' /\ got' \o outbound' = frames \o <<held>>
        /\ HasEof(got' \o outbound') => held = Eof
    BY <1>1, <2>1, <2>2, <2>6, PutFrameKeeps
  <2>8. ASSUME held = Eof
        PROVE  ~Looping' /\ ~SlaveOpen' /\ Carries(frames \o <<held>>, written')
    <3>1. loop = "last" /\ outputs = <<>> /\ reader = "ended"
      BY <1>1, <2>1, <2>8, FramesAreIntegers DEF HoldersKnown
    <3>2. ~SlaveOpen /\ ptyOut = <<>>
      BY <1>1, <3>1 DEF ReaderKnown, Left
    <3>3. ReaderHolds = <<>>
      BY <3>1 DEF ReaderHolds, Holding
    <3>4. Output = (((frames \o <<held>>) \o <<>>) \o <<>>) \o <<>>
      BY <2>4, <3>1, <3>2, <3>3 DEF Output
    <3>5. (frames \o <<held>>) \o <<>> = frames \o <<held>>
      BY <2>5, ConcatEmptySeq
    <3>6. Output = frames \o <<held>>
      BY <3>4, <3>5
    <3> QED
      BY <2>1, <2>3, <3>1, <3>2, <3>6 DEF Looping, SlaveOpen
  <2> QED
    BY <2>7, <2>8 DEF EofKnown
<1> QED
  BY <1>4, <1>5, <1>6, <1>7, <1>8, <1>9, <1>10, <1>11, Steps

-----------------------------------------------------------------------------
(* The end, and rest *)

\* The loop leaves with the last frame or for a reason of its own, and the
\* child goes with it.
LEMMA EndPreserved ==
    ASSUME TypeOK, HoldersKnown, ReaderKnown, EndKnown, Next
    PROVE  EndKnown'
<1> DEFINE told == HasEof(got \o outbound)
<1>1. /\ loop \in {"select", "input", "output", "last", "left", "joining", "done"}
      /\ outputs \in Seq(Frames) /\ reading \in Frames /\ held \in Frames
      /\ StreamTypeOK /\ child \in {"idle", "writing", "dead"}
  BY DEF TypeOK, Sized
<1>2. /\ Left => child = "dead"
      /\ Looping <=> exit = "none"
      /\ cut => ending # "open"
      /\ Looping /\ reader = "ended" => loop = "last" \/ HasEof(outputs)
      /\ exit = "eof" => cut \/ told
  BY DEF EndKnown
<1>3. ASSUME UNCHANGED <<exit, ending, cut, outbound, got>>, Looping' <=> Looping, Left' <=> Left,
             child = "dead" => child' = "dead",
             Looping' /\ reader' = "ended" => loop' = "last" \/ HasEof(outputs')
      PROVE  EndKnown'
  BY <1>2, <1>3 DEF EndKnown
<1>4. ASSUME UNCHANGED <<loop, exit, outputs, reader, child>>,
             cut' => ending' # "open", exit = "eof" => cut' \/ told'
      PROVE  EndKnown'
  BY <1>2, <1>4 DEF EndKnown, Looping, Left
<1>5. CASE (SendChunk /\ Aside) \/ (SendOther /\ Aside) \/ (Close /\ Aside)
           \/ (CutOff /\ Aside) \/ (ReadFrame /\ Aside)
  <2>1. UNCHANGED <<loop, exit, outputs, reader, child>>
    BY <1>5 DEF Aside, threads, process
  <2>2. cut' => ending' # "open"
    BY <1>2, <1>5 DEF SendChunk, SendOther, Close, CutOff, ReadFrame
  <2>3. told => told' \/ cut'
    BY <1>1, <1>5, EofStays DEF SendChunk, SendOther, Close, CutOff
  <2>4. cut => cut'
    BY <1>5 DEF SendChunk, SendOther, Close, CutOff, ReadFrame
  <2> QED
    BY <1>2, <1>4, <2>1, <2>2, <2>3, <2>4
<1>6. CASE ReceiveChunk \/ ReceiveOther \/ PassInput \/ KeepAlive
  <2>1. /\ loop \in {"select", "input"} /\ UNCHANGED <<ending, cut, outbound, got>>
        /\ UNCHANGED <<outputs, reader, child>>
        /\ \/ loop' \in {"select", "input", "output"} /\ exit' = exit
           \/ loop' = "left" /\ exit' = "resize"
    BY <1>6 DEF ReceiveChunk, ReceiveOther, TakeRemote, TakeFrame, PassInput, KeepAlive,
       threads, process, stream
  <2> QED
    BY <1>2, <2>1 DEF EndKnown, Looping, Left
<1>7. CASE \E why \in {"end", "input", "cut"} : Looping /\ LeaveFor(why)
  <2>1. /\ loop' = "left" /\ exit' \in {"end", "input", "cut"} /\ UNCHANGED <<ending, cut>>
    BY <1>7 DEF LeaveFor, stream
  <2> QED
    BY <1>2, <2>1 DEF EndKnown, Looping, Left
<1>8. CASE ReceiveOutput
  <2>1. /\ loop = "select" /\ outputs # <<>> /\ outputs' = Tail(outputs) /\ exit' = exit
        /\ loop' = IF Head(outputs) = Eof THEN "last" ELSE "output"
        /\ UNCHANGED <<ending, cut, outbound, got, reader, child>>
    BY <1>8 DEF ReceiveOutput, TakeOutput, process, stream
  <2>2. /\ Head(outputs) = outputs[1] /\ Len(Tail(outputs)) = Len(outputs) - 1
        /\ Len(outputs) \in Nat /\ DOMAIN outputs = 1 .. Len(outputs)
        /\ Tail(outputs) \in Seq(Frames) /\ DOMAIN Tail(outputs) = 1 .. Len(Tail(outputs))
        /\ \A i \in 1 .. Len(Tail(outputs)) : Tail(outputs)[i] = outputs[i + 1]
    BY <1>1, <2>1, HeadTailProperties, LenProperties
  <2>3. ASSUME NEW i \in DOMAIN outputs, outputs[i] = Eof, Head(outputs) # Eof
        PROVE  HasEof(Tail(outputs))
    <3>1. i - 1 \in 1 .. Len(Tail(outputs)) /\ (i - 1) + 1 = i
      BY <2>2, <2>3
    <3>2. i - 1 \in DOMAIN Tail(outputs) /\ Tail(outputs)[i - 1] = Eof
      BY <2>2, <2>3, <3>1
    <3> QED
      BY <3>2 DEF HasEof
  <2>4. HasEof(outputs) => loop' = "last" \/ HasEof(outputs')
    BY <2>1, <2>3 DEF HasEof
  <2> QED
    BY <1>2, <1>3, <2>1, <2>4 DEF Looping, Left
<1>9. CASE SendOutput
  <2>1. /\ loop \in {"output", "last"} /\ PutFrame(held) /\ ~cut
        /\ UNCHANGED <<outputs, reader, child>> /\ UNCHANGED <<ending, cut>>
        /\ IF loop = "last" THEN loop' = "left" /\ exit' = "eof"
                            ELSE loop' = "select" /\ exit' = exit
    BY <1>9 DEF SendOutput, PutFrame, threads, process
  <2>2. loop = "last" => told'
    BY <1>1, <2>1, PutFrameEof DEF HoldersKnown
  <2> QED
    BY <1>2, <2>1, <2>2 DEF EndKnown, Looping, Left
<1>10. CASE Leave
  <2>1. /\ loop = "left" /\ loop' = "joining" /\ exit' = exit /\ child' = "dead"
        /\ UNCHANGED <<ending, cut, outbound, got>>
    BY <1>10 DEF Leave, DropAll, DropStream
  <2> QED
    BY <1>2, <2>1 DEF EndKnown, Looping, Left
<1>11. CASE Joined
  <2>1. /\ loop = "joining" /\ loop' = "done"
        /\ UNCHANGED <<exit, child, ending, cut, outbound, got>>
    BY <1>11 DEF Joined, stream, process
  <2> QED
    BY <1>2, <2>1 DEF EndKnown, Looping, Left
<1>12. CASE Cancelled
  <2>1. /\ loop' = "done" /\ exit' = "cancelled" /\ child' = "dead" /\ UNCHANGED <<ending, cut>>
    BY <1>12 DEF Cancelled, DropAll, DropStream
  <2> QED
    BY <1>2, <2>1 DEF EndKnown, Looping, Left
<1>13. CASE WriterReceives \/ WriterWrites \/ WriterEnds
  <2>1. UNCHANGED <<loop, exit, outputs, reader, child, ending, cut, outbound, got>>
    BY <1>13 DEF WriterReceives, WriterWrites, WriterEnds, WriterEndsByError,
       WriterEndsByClose, WriterOnly, stream
  <2> QED
    BY <1>2, <1>4, <2>1
<1>14. CASE ReaderReads \/ ReaderFails \/ ReaderEnds
  <2>1. /\ UNCHANGED <<loop, exit, outputs, child, ending, cut, outbound, got>>
        /\ reader' = "ended" => Left
    BY <1>14 DEF ReaderReads, ReaderFails, ReaderEnds, ReaderOnly, stream
  <2> QED
    BY <1>3, <2>1 DEF Looping, Left
<1>15. CASE ReaderSends
  <2>1. /\ UNCHANGED <<loop, exit, child, ending, cut, outbound, got>>
        /\ outputs' = Append(outputs, reading) /\ reader' = IF reader = "fail" THEN "ended" ELSE "read"
    BY <1>15 DEF ReaderSends, ReaderSendsTo, ReaderOnly, stream
  <2>2. /\ Len(outputs) \in Nat /\ DOMAIN outputs' = 1 .. Len(outputs) + 1
        /\ outputs'[Len(outputs) + 1] = reading
    BY <1>1, <2>1, AppendProperties, LenProperties
  <2>3. reader' = "ended" => reading = Eof
    BY <2>1 DEF HoldersKnown
  <2>4. reader' = "ended" => HasEof(outputs')
    BY <2>2, <2>3 DEF HasEof
  <2> QED
    BY <1>3, <2>1, <2>4 DEF Looping, Left
<1>16. CASE ChildReads \/ ChildSpeaks \/ ChildWrites \/ ChildExits \/ OrphanEnds
  <2>1. /\ UNCHANGED <<loop, exit, outputs, reader, ending, cut, outbound, got>>
        /\ child = "dead" => child' = "dead"
    BY <1>16 DEF ChildReads, ChildSpeaks, ChildWrites, ChildExits, OrphanEnds,
       ChildOnly, threads, stream
  <2> QED
    BY <1>2, <1>3, <2>1 DEF Looping, Left
<1> QED
  BY <1>5, <1>6, <1>7, <1>8, <1>9, <1>10, <1>11, <1>12, <1>13, <1>14, <1>15, <1>16, Steps

\* What the capacities and the types say of a terminal at rest.
LEMMA AtRest ==
    ASSUME Inductive, Quiet
    PROVE  /\ loop \in {"select", "input", "output", "last", "left", "joining", "done"}
           /\ writer \in {"receive", "write", "ended"}
           /\ reader \in {"read", "send", "fail", "ended"}
           /\ child \in {"idle", "writing", "dead"}
           /\ Len(inputs) < Capacity \/ (Len(inputs) = Capacity /\ inputs # <<>>)
           /\ Len(outputs) < Capacity \/ Len(outputs) = Capacity
           /\ Len(outbound) < Capacity \/ outbound # <<>>
           /\ Len(ptyIn) < PtyBuffer \/ (Len(ptyIn) = PtyBuffer /\ ptyIn # <<>>)
           /\ Len(ptyOut) < PtyBuffer \/ (Len(ptyOut) = PtyBuffer /\ ptyOut # <<>>)
           /\ outputs = <<>> => Len(outputs) < Capacity /\ ~HasEof(outputs)
           /\ ~LoopRuns /\ ~WriterRuns /\ ~ReaderRuns /\ ~OthersRun
<1>1. /\ inputs \in Seq(Nat) /\ outputs \in Seq(Frames) /\ outbound \in Seq(Frames)
      /\ ptyIn \in Seq(Nat) /\ ptyOut \in Seq(Nat)
      /\ Len(inputs) <= Capacity /\ Len(outputs) <= Capacity /\ Len(outbound) <= Capacity
      /\ Len(ptyIn) <= PtyBuffer /\ Len(ptyOut) <= PtyBuffer
      /\ Capacity \in Nat \ {0} /\ PtyBuffer \in Nat \ {0}
  BY TerminalAssumption, StreamAssumption DEF Inductive, TypeOK, StreamTypeOK, Sized
<1>2. /\ Len(inputs) \in Nat /\ Len(outputs) \in Nat /\ Len(outbound) \in Nat
      /\ Len(ptyIn) \in Nat /\ Len(ptyOut) \in Nat
      /\ inputs = <<>> => Len(inputs) = 0
      /\ outputs = <<>> => Len(outputs) = 0
      /\ outbound = <<>> => Len(outbound) = 0
      /\ ptyIn = <<>> => Len(ptyIn) = 0
      /\ ptyOut = <<>> => Len(ptyOut) = 0
  BY <1>1, LenProperties, EmptyQueue
<1>3. ~HasEof(<<>>)
  <2>1. <<>> \in Seq(Frames) /\ Len(<<>>) = 0
    BY EmptySeq
  <2>2. DOMAIN <<>> = {}
    BY <2>1, LenProperties
  <2> QED
    BY <2>2 DEF HasEof
<1>4. /\ loop \in {"select", "input", "output", "last", "left", "joining", "done"}
      /\ writer \in {"receive", "write", "ended"}
      /\ reader \in {"read", "send", "fail", "ended"}
      /\ child \in {"idle", "writing", "dead"}
  BY DEF Inductive, TypeOK
<1> QED
  BY <1>1, <1>2, <1>3, <1>4 DEF Quiet

\* A terminal at rest whose stream has ended is done, unless its input is blocked.
LEMMA QuietKills == Inductive => EndKills
<1> SUFFICES ASSUME Inductive, Quiet
             PROVE  /\ ending # "open" =>
                          \/ loop = "done" /\ child = "dead"
                          \/ InputBlocked /\ (child = "writing" => OutputBlocked)
                    /\ Left /\ ~SlaveOpen => writer = "ended" /\ reader = "ended"
  BY DEF EndKills
<1>1. ASSUME ending # "open" PROVE loop = "input" \/ loop = "done"
  BY <1>1, AtRest DEF LoopRuns, OthersRun
<1>2. loop = "done" => child = "dead"
  BY DEF Inductive, EndKnown, Left
<1>3. ASSUME loop = "input"
      PROVE  InputBlocked /\ (child = "writing" => OutputBlocked)
  <2>1. writer # "ended" /\ Len(inputs) = Capacity /\ inputs # <<>>
    BY <1>3, AtRest DEF LoopRuns
  <2>2. writer = "write" /\ SlaveOpen /\ Len(ptyIn) = PtyBuffer
    BY <2>1, AtRest DEF WriterRuns
  <2>3. InputBlocked
    BY <1>3, <2>1, <2>2 DEF InputBlocked
  <2>4. ASSUME child = "writing" PROVE OutputBlocked
    <3>1. Len(ptyOut) = PtyBuffer /\ ptyOut # <<>>
      BY <2>4, AtRest DEF OthersRun
    <3>2. reader \notin {"fail", "ended"}
      BY <1>3, <2>2 DEF Inductive, ReaderKnown, Left
    <3>3. reader = "send" /\ Len(outputs) = Capacity
      BY <3>1, <3>2, AtRest DEF ReaderRuns
    <3> QED
      BY <2>4, <3>1, <3>3 DEF OutputBlocked
  <2> QED
    BY <2>3, <2>4
<1>4. ASSUME Left, ~SlaveOpen PROVE writer = "ended" /\ reader = "ended"
  BY <1>4, AtRest DEF WriterRuns, ReaderRuns
<1> QED
  BY <1>1, <1>2, <1>3, <1>4

\* A terminal at rest whose child has exited has said so.
LEMMA QuietReports == Inductive => ExitReported
<1> SUFFICES ASSUME Inductive, Quiet, ~SlaveOpen, exit \in {"none", "eof"}, ending = "open",
                    outbound = <<>>
             PROVE  HasEof(got)
  BY DEF ExitReported, HasEof
<1>1. /\ Looping <=> exit = "none"
      /\ cut => ending # "open"
      /\ Looping /\ reader = "ended" => loop = "last" \/ HasEof(outputs)
      /\ exit = "eof" => cut \/ HasEof(got \o outbound)
  BY DEF Inductive, EndKnown
<1>2. ~cut /\ Len(outbound) < Capacity
  BY <1>1, AtRest
<1>3. loop = "select" \/ loop = "input" \/ loop = "done"
  BY <1>2, AtRest DEF LoopRuns
<1>4. loop # "select"
  <2>1. loop = "select" => outputs = <<>> /\ reader = "ended"
    BY AtRest DEF LoopRuns, ReaderRuns
  <2> QED
    BY <1>1, <2>1, AtRest DEF Looping
<1>5. loop # "input"
  BY AtRest DEF LoopRuns, WriterRuns
<1>6. exit = "eof"
  BY <1>1, <1>3, <1>4, <1>5 DEF Looping
<1>7. got \in Seq(Frames)
  BY Queues DEF Inductive
<1> QED
  BY <1>1, <1>2, <1>6, <1>7, ConcatEmptySeq

\* A terminal begins with empty queues.
LEMMA InductiveInitially == Init => Inductive
<1> SUFFICES ASSUME Init PROVE Inductive
  OBVIOUS
<1>1. /\ StreamTypeOK /\ GotInOrder /\ OutboundInOrder
      /\ Carries(<<>>, 0) /\ ~HasEof(<<>>)
  BY StreamInitially DEF Init
<1>2. /\ got = <<>> /\ outbound = <<>> /\ remote = <<>> /\ sent = 0
      /\ inputs = <<>> /\ outputs = <<>> /\ ptyIn = <<>> /\ ptyOut = <<>>
      /\ consumed = <<>> /\ written = 0
      /\ loop = "select" /\ exit = "none" /\ held = Keep
      /\ writer = "receive" /\ writing = Keep /\ reader = "read" /\ reading = Keep
      /\ child = "idle"
  BY DEF Init, StreamInit
<1>3. orphan \in BOOLEAN
  BY DEF Init
<1>4. /\ inputs \in Seq(Nat) /\ Len(inputs) = 0 /\ outputs \in Seq(Frames) /\ Len(outputs) = 0
      /\ ptyIn \in Seq(Nat) /\ Len(ptyIn) = 0 /\ ptyOut \in Seq(Nat) /\ Len(ptyOut) = 0
      /\ consumed \in Seq(Nat)
  BY <1>2, EmptyQueue
<1>5. TypeOK
  BY <1>1, <1>2, <1>3, <1>4, TerminalAssumption, StreamAssumption, FramesAreIntegers
     DEF TypeOK, Sized
<1>6. <<>> \o <<>> = <<>>
  BY EmptySeq, ConcatEmptySeq
<1>7. OutputInOrder /\ InputInOrder
  BY <1>1, <1>2, <1>6 DEF OutputInOrder, InputInOrder, Holding
<1>8. HoldersKnown
  BY <1>2 DEF HoldersKnown
<1>9. DOMAIN outputs = {}
  BY <1>4, LenProperties
<1>10. ReaderKnown
  BY <1>2, <1>9 DEF ReaderKnown
<1>11. EofKnown
  BY <1>1, <1>2, <1>6 DEF EofKnown
<1>12. EndKnown
  <2>1. ~cut
    BY DEF Init, StreamInit
  <2> QED
    BY <1>2, <2>1 DEF EndKnown, Looping, Left
<1> QED
  BY <1>1, <1>5, <1>7, <1>8, <1>10, <1>11, <1>12 DEF Inductive

\* A stutter keeps the invariant.
LEMMA InductiveUnchanged ==
    ASSUME Inductive, UNCHANGED vars
    PROVE  Inductive'
<1>1. /\ UNCHANGED <<loop, exit, held, remote, sent, ending, cut, outbound, got>>
      /\ UNCHANGED <<inputs, writer, writing, outputs, reader, reading>>
      /\ UNCHANGED <<ptyIn, ptyOut, child, orphan, consumed, written>>
  BY DEF vars, stream, threads, process
<1>2. TypeOK' /\ GotInOrder' /\ OutboundInOrder'
  BY <1>1 DEF Inductive, TypeOK, StreamTypeOK, GotInOrder, OutboundInOrder
<1>3. OutputInOrder' /\ InputInOrder'
  BY <1>1 DEF Inductive, OutputInOrder, InputInOrder, Looping
<1>4. HoldersKnown' /\ ReaderKnown' /\ EofKnown'
  BY <1>1 DEF Inductive, HoldersKnown, ReaderKnown, EofKnown, Looping, Left, SlaveOpen
<1>5. EndKnown'
  BY <1>1 DEF Inductive, EndKnown, Looping, Left
<1> QED
  BY <1>2, <1>3, <1>4, <1>5 DEF Inductive

\* What the dashboard is told follows from the invariant in each state.
LEMMA InductiveGivesOrder == Inductive => InOrder
<1> SUFFICES ASSUME Inductive PROVE InOrder
  OBVIOUS
<1>1. /\ OutputInOrder /\ InputInOrder /\ GotInOrder /\ OutboundInOrder /\ StreamTypeOK
      /\ got \in Seq(Frames) /\ written \in Nat
  BY Queues DEF Inductive, TypeOK
<1>2. ASSUME NEW i \in DOMAIN got, got[i] = Eof PROVE got = UpTo(written) \o <<Eof>>
  <2>1. got \o outbound = got /\ HasEof(got)
    BY <1>1, <1>2, EofReceived
  <2>2. Carries(got, written)
    BY <2>1 DEF Inductive, EofKnown
  <2> QED
    BY <1>1, <2>1, <2>2, Complete DEF GotInOrder
<1> QED
  BY <1>1, <1>2 DEF InOrder, EofComesLast

-----------------------------------------------------------------------------
(* Theorems *)

\* The invariant of the terminal: every chunk is in one queue or held by one
\* thread or by the task, in order, and the reader tells of the end as the
\* last thing it does, after everything was read.
THEOREM TerminalInvariant == Spec => []Inductive
<1>1. Init => Inductive
  BY InductiveInitially
<1>2. Inductive /\ [Next]_vars => Inductive'
  <2> SUFFICES ASSUME Inductive, [Next]_vars PROVE Inductive'
    OBVIOUS
  <2>1. CASE Next
    <3>1. TypeOK'
      BY <2>1, TypePreserved DEF Inductive
    <3>2. HoldersKnown'
      BY <2>1, HoldersPreserved DEF Inductive
    <3>3. ReaderKnown'
      BY <2>1, <3>1, ReaderPreserved DEF Inductive
    <3>4. OutputInOrder'
      BY <2>1, <3>1, OutputPreserved DEF Inductive
    <3>5. InputInOrder'
      BY <2>1, InputPreserved DEF Inductive
    <3>6. GotInOrder' /\ OutboundInOrder' /\ EofKnown'
      BY <2>1, <3>1, DashboardPreserved
    <3>7. EndKnown'
      BY <2>1, EndPreserved DEF Inductive
    <3> QED
      BY <3>1, <3>2, <3>3, <3>4, <3>5, <3>6, <3>7 DEF Inductive
  <2>2. CASE UNCHANGED vars
    BY <2>2, InductiveUnchanged
  <2> QED
    BY <2>1, <2>2
<1> QED
  BY <1>1, <1>2, PTL DEF Spec

\* As long as a terminal lasts it loses, doubles and reorders nothing in
\* either direction, and a dashboard that is told of the end has all of the
\* output.
THEOREM TerminalInOrder == Spec => []InOrder
  BY TerminalInvariant, InductiveGivesOrder, PTL

\* A terminal that has come to rest after its stream ended has killed its
\* child, unless its input is blocked, by a child that does not read or one
\* whose output is blocked as well; and no thread is left, once no process has
\* the terminal open.
THEOREM TerminalEndKills == Spec => []EndKills
  BY TerminalInvariant, QuietKills, PTL

\* When the child has exited the dashboard has been told, or it has yet to
\* read, or the agent has yet to act, or the terminal ended for another reason.
THEOREM TerminalExitReported == Spec => []ExitReported
  BY TerminalInvariant, QuietReports, PTL
=============================================================================
