---------------------------- MODULE RelayStream ----------------------------
(***************************************************************************)
(* An IO stream of the dashboard, as the terminal and the NAT relay see    *)
(* it: frames in two directions, and the ways in which it ends.  A chunk   *)
(* of data is its position, counted from 1, in what its sender has sent.   *)
(***************************************************************************)
EXTENDS Integers, Sequences

CONSTANTS
    Capacity,  \* frames between the two, and in each channel: 32
    MaxIn      \* bound: chunks the dashboard sends

ASSUME StreamAssumption == Capacity \in Nat \ {0} /\ MaxIn \in Nat

VARIABLES
    remote,    \* frames that arrived on the stream
    sent,      \* counts the chunks the dashboard has sent
    ending,    \* "open", "end" or "broken": the dashboard's direction
    cut,       \* the other direction is gone, too
    outbound,  \* frames on their way to the dashboard
    got        \* what the dashboard has received, without keep-alives

stream == <<remote, sent, ending, cut, outbound, got>>

Keep == 0      \* an empty frame: a keep-alive, or a change of the window size
Eof == -1      \* the frame that tells why there is no more data

Frames == Nat \cup {Eof}

\* The chunks among the frames are some first part of what was sent: each
\* once, in order and without a gap, ...
InSequence(frames) ==
    \A i \in DOMAIN frames :
        /\ \A j \in DOMAIN frames :
             i < j /\ frames[i] > 0 /\ frames[j] > 0 => frames[i] < frames[j]
        /\ \A n \in 1 .. frames[i] - 1 : \E j \in DOMAIN frames : frames[j] = n

\* ... and they are all of what was sent, the first n.
Carries(frames, n) ==
    /\ InSequence(frames)
    /\ \A i \in DOMAIN frames : frames[i] <= n
    /\ \A m \in 1 .. n : \E i \in DOMAIN frames : frames[i] = m

\* The first n chunks, in order.
UpTo(n) == [i \in 1 .. n |-> i]

\* What a step that holds f holds.
Holding(busy, f) == IF busy THEN <<f>> ELSE <<>>

Sized(queue, frames, size) == queue \in Seq(frames) /\ Len(queue) <= size

StreamTypeOK ==
    /\ Sized(remote, Nat, Capacity) /\ Sized(outbound, Frames, Capacity)
    /\ got \in Seq(Frames) /\ sent \in 0 .. MaxIn
    /\ ending \in {"open", "end", "broken"} /\ cut \in BOOLEAN

StreamInit ==
    /\ remote = <<>> /\ sent = 0 /\ ending = "open"
    /\ cut = FALSE /\ outbound = <<>> /\ got = <<>>

SendChunk ==
    /\ ending = "open" /\ sent < MaxIn /\ Len(remote) < Capacity
    /\ sent' = sent + 1
    /\ remote' = Append(remote, sent + 1)
    /\ UNCHANGED <<ending, cut, outbound, got>>

SendOther ==
    /\ ending = "open" /\ Len(remote) < Capacity
    /\ remote' = Append(remote, Keep)
    /\ UNCHANGED <<sent, ending, cut, outbound, got>>

\* An orderly end leaves the frames before it, a broken stream need not.
Close ==
    /\ ending = "open"
    /\ \/ ending' = "end" /\ UNCHANGED remote
       \/ ending' = "broken" /\ remote' = <<>>
    /\ UNCHANGED <<sent, cut, outbound, got>>

CutOff ==
    /\ ending # "open" /\ ~cut /\ cut' = TRUE
    /\ outbound' = <<>>
    /\ UNCHANGED <<remote, sent, ending, got>>

\* Keep-alives are passed over, but not after the end.
ReadFrame ==
    /\ outbound # <<>>
    /\ outbound' = Tail(outbound)
    /\ got' = IF Head(outbound) = Keep /\ \A i \in DOMAIN got : got[i] # Eof
              THEN got ELSE Append(got, Head(outbound))
    /\ UNCHANGED <<remote, sent, ending, cut>>

\* The stream of a message, and of a frame that is sent.
TakeFrame ==
    /\ remote # <<>> /\ remote' = Tail(remote)
    /\ UNCHANGED <<sent, ending, cut, outbound, got>>

PutFrame(f) ==
    /\ ~cut /\ outbound' = Append(outbound, f)
    /\ UNCHANGED <<remote, sent, ending, cut, got>>

DropStream == remote' = <<>> /\ UNCHANGED <<sent, ending, cut, outbound, got>>

AtEnd == ending # "open" /\ remote = <<>>
=============================================================================
