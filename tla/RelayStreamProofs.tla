------------------------- MODULE RelayStreamProofs -------------------------
(***************************************************************************)
(* What the relays rely on: chunks stay in order while frames move from    *)
(* one queue to the next and while empty frames come and go.               *)
(***************************************************************************)
EXTENDS RelayStream, SequenceTheorems, TLAPS

-----------------------------------------------------------------------------
(* What the invariants of both say of the stream *)

HasEof(frames) == \E i \in DOMAIN frames : frames[i] = Eof

\* The dashboard has nothing but the first chunks, in order, and the end.
GotInOrder ==
    \A i \in DOMAIN got : got[i] = i \/ (got[i] = Eof /\ i = Len(got))

\* What is on its way to it continues them, and the end is its last frame.
OutboundInOrder ==
    LET frames == got \o outbound IN
    /\ IF cut THEN outbound = <<>> ELSE InSequence(frames)
    /\ \A i \in DOMAIN frames : frames[i] = Eof => i = Len(frames)

-----------------------------------------------------------------------------
\* A frame is a number: a chunk's position, or one of two that are none.
LEMMA FramesAreIntegers ==
    /\ Frames \subseteq Int /\ Nat \subseteq Frames /\ Keep \in Frames /\ Eof \in Frames
    /\ Keep = 0 /\ Eof = -1
  BY DEF Frames, Eof, Keep

\* The frames of two queues in a row.
LEMMA Row ==
    ASSUME NEW s \in Seq(Frames), NEW t \in Seq(Frames)
    PROVE  /\ s \o t \in Seq(Frames) /\ Len(s) \in Nat /\ Len(t) \in Nat
           /\ DOMAIN (s \o t) = 1 .. Len(s) + Len(t)
           /\ DOMAIN s = 1 .. Len(s) /\ DOMAIN t = 1 .. Len(t)
           /\ \A i \in 1 .. Len(s) : (s \o t)[i] = s[i]
           /\ \A i \in 1 .. Len(t) : (s \o t)[Len(s) + i] = t[i]
  <1>1. /\ s \o t \in Seq(Frames) /\ Len(s \o t) = Len(s) + Len(t)
        /\ \A i \in 1 .. Len(s) + Len(t) :
             (s \o t)[i] = IF i <= Len(s) THEN s[i] ELSE t[i - Len(s)]
    BY ConcatProperties
  <1>2. Len(s) \in Nat /\ DOMAIN s = 1 .. Len(s) /\ Len(t) \in Nat /\ DOMAIN t = 1 .. Len(t)
    BY LenProperties
  <1>3. DOMAIN (s \o t) = 1 .. Len(s \o t)
    BY <1>1, LenProperties
  <1> QED
    BY <1>1, <1>2, <1>3

\* Queues one after the other, however they are grouped.
LEMMA Associative ==
    ASSUME NEW s \in Seq(Frames), NEW t \in Seq(Frames), NEW u \in Seq(Frames)
    PROVE  (s \o t) \o u = s \o (t \o u)
  BY ConcatAssociative

\* The empty queue is one of anything.
LEMMA EmptyQueue ==
    ASSUME NEW S, NEW s
    PROVE  s = <<>> => s \in Seq(S) /\ Len(s) = 0
  OBVIOUS

\* A queue of one frame.
LEMMA Single ==
    ASSUME NEW f \in Frames
    PROVE  <<f>> \in Seq(Frames) /\ Len(<<f>>) = 1 /\ <<f>>[1] = f
  OBVIOUS

\* A frame that is no chunk does not matter, wherever it is.
LEMMA Silent ==
    ASSUME NEW s \in Seq(Frames), NEW t \in Seq(Frames), NEW f \in Frames, f <= 0
    PROVE  /\ InSequence((s \o <<f>>) \o t) <=> InSequence(s \o t)
           /\ \A n \in Nat : Carries((s \o <<f>>) \o t, n) <=> Carries(s \o t, n)
<1> DEFINE u == (s \o <<f>>) \o t
           v == s \o t
           k == Len(s) + 1
           up(i) == IF i < k THEN i ELSE i + 1
           down(i) == IF i < k THEN i ELSE i - 1
<1>1. /\ s \o <<f>> \in Seq(Frames) /\ Len(s \o <<f>>) = k
      /\ \A i \in 1 .. Len(s) : (s \o <<f>>)[i] = s[i]
      /\ (s \o <<f>>)[k] = f
  <2>1. \A i \in 1 .. 1 : (s \o <<f>>)[Len(s) + i] = <<f>>[i]
    BY Row, Single
  <2> QED
    BY <2>1, Row, Single, LenProperties
<1>2. /\ u \in Seq(Frames) /\ v \in Seq(Frames) /\ k \in Nat \ {0} /\ Len(t) \in Nat
      /\ DOMAIN u = 1 .. k + Len(t) /\ DOMAIN v = 1 .. (k - 1) + Len(t)
      /\ u[k] = f /\ f \in Int /\ u[k] <= 0
  BY <1>1, Row, FramesAreIntegers
<1>3. \A i \in DOMAIN u : u[i] \in Int
  BY <1>2, FramesAreIntegers, ElementOfSeq, LenProperties
<1>4. \A i \in DOMAIN v : v[i] \in Int
  BY <1>2, FramesAreIntegers, ElementOfSeq, LenProperties
<1>5. ASSUME NEW i \in DOMAIN v PROVE up(i) \in DOMAIN u \ {k} /\ u[up(i)] = v[i]
  <2>1. CASE i < k
    BY <1>1, <1>2, <2>1, Row
  <2>2. CASE i >= k
    <3>1. i - Len(s) \in 1 .. Len(t) /\ i = Len(s) + (i - Len(s)) /\ i + 1 = k + (i - Len(s))
      BY <1>2, <2>2
    <3>2. v[i] = t[i - Len(s)]
      BY <3>1, Row
    <3>3. u[i + 1] = t[i - Len(s)]
      <4>1. u[Len(s \o <<f>>) + (i - Len(s))] = t[i - Len(s)]
        BY <1>1, <3>1, Row
      <4> QED
        BY <1>1, <3>1, <4>1
    <3> QED
      BY <1>2, <2>2, <3>2, <3>3
  <2> QED
    BY <1>2, <2>1, <2>2
<1>6. ASSUME NEW i \in DOMAIN u, i # k PROVE down(i) \in DOMAIN v /\ v[down(i)] = u[i]
  <2>1. down(i) \in DOMAIN v /\ up(down(i)) = i
    BY <1>2, <1>6
  <2> QED
    BY <2>1, <1>5
<1> HIDE DEF u, v, k
<1>7. InSequence(u) <=> InSequence(v)
  <2>1. ASSUME InSequence(u) PROVE InSequence(v)
    <3> SUFFICES ASSUME NEW i \in DOMAIN v
                 PROVE /\ \A j \in DOMAIN v : i < j /\ v[i] > 0 /\ v[j] > 0 => v[i] < v[j]
                       /\ \A n \in 1 .. v[i] - 1 : \E j \in DOMAIN v : v[j] = n
      BY DEF InSequence
    <3>1. ASSUME NEW j \in DOMAIN v, i < j, v[i] > 0, v[j] > 0 PROVE v[i] < v[j]
      <4>1. up(i) < up(j)
        BY <1>2, <3>1
      <4> QED
        BY <1>5, <2>1, <3>1, <4>1 DEF InSequence
    <3>2. ASSUME NEW n \in 1 .. v[i] - 1 PROVE \E j \in DOMAIN v : v[j] = n
      <4>1. PICK j \in DOMAIN u : u[j] = n
        BY <1>5, <2>1 DEF InSequence
      <4>2. j # k
        BY <1>2, <1>4, <4>1
      <4> QED
        BY <1>6, <4>1, <4>2
    <3> QED
      BY <3>1, <3>2
  <2>2. ASSUME InSequence(v) PROVE InSequence(u)
    <3> SUFFICES ASSUME NEW i \in DOMAIN u
                 PROVE /\ \A j \in DOMAIN u : i < j /\ u[i] > 0 /\ u[j] > 0 => u[i] < u[j]
                       /\ \A n \in 1 .. u[i] - 1 : \E j \in DOMAIN u : u[j] = n
      BY DEF InSequence
    <3>1. ASSUME NEW j \in DOMAIN u, i < j, u[i] > 0, u[j] > 0 PROVE u[i] < u[j]
      <4>1. i # k /\ j # k
        BY <1>2, <3>1
      <4>2. down(i) < down(j)
        BY <1>2, <3>1, <4>1
      <4> QED
        BY <1>6, <2>2, <3>1, <4>1, <4>2 DEF InSequence
    <3>2. ASSUME NEW n \in 1 .. u[i] - 1 PROVE \E j \in DOMAIN u : u[j] = n
      <4>1. i # k
        BY <1>2, <1>3, <3>2
      <4>2. PICK j \in DOMAIN v : v[j] = n
        BY <1>6, <2>2, <4>1 DEF InSequence
      <4> QED
        BY <1>5, <4>2
    <3> QED
      BY <3>1, <3>2
  <2> QED
    BY <2>1, <2>2
<1>8. ASSUME NEW n \in Nat PROVE Carries(u, n) <=> Carries(v, n)
  <2>1. (\A i \in DOMAIN u : u[i] <= n) <=> (\A i \in DOMAIN v : v[i] <= n)
    <3>1. ASSUME \A i \in DOMAIN u : u[i] <= n, NEW i \in DOMAIN v PROVE v[i] <= n
      BY <1>5, <3>1
    <3>2. ASSUME \A i \in DOMAIN v : v[i] <= n, NEW i \in DOMAIN u PROVE u[i] <= n
      <4>1. CASE i = k
        BY <1>2, <1>8, <4>1
      <4>2. CASE i # k
        BY <1>6, <3>2, <4>2
      <4> QED
        BY <4>1, <4>2
    <3> QED
      BY <3>1, <3>2
  <2>2. ASSUME NEW m \in 1 .. n
        PROVE  (\E i \in DOMAIN u : u[i] = m) <=> (\E i \in DOMAIN v : v[i] = m)
    <3>1. m # u[k]
      BY <1>2, <2>2
    <3> QED
      BY <1>5, <1>6, <3>1
  <2> QED
    BY <1>7, <2>1, <2>2 DEF Carries
<1> QED
  BY <1>7, <1>8 DEF u, v

\* The same at the end.
LEMMA SilentLast ==
    ASSUME NEW s \in Seq(Frames), NEW f \in Frames, f <= 0
    PROVE  /\ InSequence(s \o <<f>>) <=> InSequence(s)
           /\ \A n \in Nat : Carries(s \o <<f>>, n) <=> Carries(s, n)
  <1>1. <<>> \in Seq(Frames) /\ (s \o <<f>>) \o <<>> = s \o <<f>> /\ s \o <<>> = s
    BY Row, Single, EmptySeq, ConcatEmptySeq
  <1> QED
    BY <1>1, Silent

\* The next chunk.
LEMMA Extend ==
    ASSUME NEW s \in Seq(Frames), NEW n \in Nat, Carries(s, n)
    PROVE  Carries(s \o <<n + 1>>, n + 1)
<1> DEFINE u == s \o <<n + 1>>
           k == Len(s) + 1
<1>1. n + 1 \in Frames
  BY FramesAreIntegers
<1>2. /\ DOMAIN u = 1 .. k /\ Len(s) \in Nat /\ DOMAIN s = 1 .. Len(s)
      /\ \A i \in 1 .. Len(s) : u[i] = s[i]
  BY <1>1, Row, Single
<1>3. u[k] = n + 1
  <2>1. \A i \in 1 .. 1 : u[Len(s) + i] = <<n + 1>>[i]
    BY <1>1, Row, Single
  <2> QED
    BY <2>1, <1>1, Single
<1>4. \A i \in DOMAIN s : s[i] \in Int
  BY <1>2, FramesAreIntegers, ElementOfSeq
<1> HIDE DEF u
<1>5. InSequence(u)
  <2> SUFFICES ASSUME NEW i \in DOMAIN u
               PROVE /\ \A j \in DOMAIN u : i < j /\ u[i] > 0 /\ u[j] > 0 => u[i] < u[j]
                     /\ \A m \in 1 .. u[i] - 1 : \E j \in DOMAIN u : u[j] = m
    BY DEF InSequence
  <2>1. ASSUME NEW j \in DOMAIN u, i < j, u[i] > 0, u[j] > 0 PROVE u[i] < u[j]
    <3>1. i \in DOMAIN s /\ u[i] = s[i] /\ s[i] <= n
      BY <1>2, <2>1 DEF Carries
    <3>2. CASE j = k
      BY <1>3, <1>4, <3>1, <3>2
    <3>3. CASE j # k
      BY <1>2, <2>1, <3>1, <3>3 DEF Carries, InSequence
    <3> QED
      BY <3>2, <3>3
  <2>2. ASSUME NEW m \in 1 .. u[i] - 1 PROVE \E j \in DOMAIN u : u[j] = m
    <3>1. u[i] \in Int /\ u[i] - 1 <= n
      BY <1>2, <1>3, <1>4 DEF Carries
    <3>2. PICK j \in DOMAIN s : s[j] = m
      BY <3>1 DEF Carries
    <3> QED
      BY <1>2, <3>2
  <2> QED
    BY <2>1, <2>2
<1>6. \A i \in DOMAIN u : u[i] <= n + 1
  BY <1>2, <1>3, <1>4 DEF Carries
<1>7. \A m \in 1 .. n + 1 : \E i \in DOMAIN u : u[i] = m
  <2> SUFFICES ASSUME NEW m \in 1 .. n + 1 PROVE \E i \in DOMAIN u : u[i] = m
    OBVIOUS
  <2>1. CASE m = n + 1
    BY <1>2, <1>3, <2>1
  <2>2. CASE m # n + 1
    <3>1. PICK j \in DOMAIN s : s[j] = m
      BY <2>2 DEF Carries
    <3> QED
      BY <1>2, <3>1
  <2> QED
    BY <2>1, <2>2
<1> QED
  BY <1>5, <1>6, <1>7 DEF Carries, u

\* What has come first has come in order.
LEMMA Prefix ==
    ASSUME NEW s \in Seq(Frames), NEW t \in Seq(Frames), InSequence(s \o t)
    PROVE  InSequence(s)
<1> DEFINE u == s \o t
<1>1. /\ DOMAIN u = 1 .. Len(s) + Len(t) /\ DOMAIN s = 1 .. Len(s)
      /\ Len(s) \in Nat /\ Len(t) \in Nat
      /\ \A i \in 1 .. Len(s) : u[i] = s[i]
  BY Row
<1>2. \A i \in DOMAIN s : s[i] \in Int
  BY <1>1, FramesAreIntegers, ElementOfSeq
<1>3. InSequence(u)
  OBVIOUS
<1> HIDE DEF u
<1> SUFFICES ASSUME NEW i \in DOMAIN s
             PROVE /\ \A j \in DOMAIN s : i < j /\ s[i] > 0 /\ s[j] > 0 => s[i] < s[j]
                   /\ \A n \in 1 .. s[i] - 1 : \E j \in DOMAIN s : s[j] = n
  BY DEF InSequence
<1>4. \A j \in DOMAIN s : i < j /\ s[i] > 0 /\ s[j] > 0 => s[i] < s[j]
  BY <1>1, <1>3 DEF InSequence
<1>5. ASSUME NEW n \in 1 .. s[i] - 1 PROVE \E j \in DOMAIN s : s[j] = n
  <2>1. PICK j \in DOMAIN u : u[j] = n
    BY <1>1, <1>3 DEF InSequence
  <2>2. i \in DOMAIN u /\ u[i] = s[i] /\ n > 0 /\ n < u[i]
    BY <1>1, <1>2, <1>5
  <2>3. ~(i < j)
    <3>1. n \in Int /\ u[i] \in Int
      BY <1>2, <1>5, <2>2
    <3>2. i < j /\ u[i] > 0 /\ u[j] > 0 => u[i] < u[j]
      BY <1>3, <2>1, <2>2 DEF InSequence
    <3> QED
      BY <2>1, <2>2, <3>1, <3>2
  <2>4. j \in DOMAIN s
    BY <1>1, <2>3
  <2> QED
    BY <1>1, <2>1, <2>4
<1> QED
  BY <1>4, <1>5

\* A queue that carries all of what was sent has its chunks in order.
LEMMA CarriedInSequence ==
    ASSUME NEW s, NEW n, Carries(s, n)
    PROVE  InSequence(s)
  BY DEF Carries

-----------------------------------------------------------------------------
(* Frames move from one queue to the next *)

\* A frame that joins the second of two queues is the last of both.
LEMMA AppendLast ==
    ASSUME NEW s \in Seq(Frames), NEW t \in Seq(Frames), NEW f \in Frames
    PROVE  /\ Append(t, f) \in Seq(Frames)
           /\ s \o Append(t, f) = (s \o t) \o <<f>>
  BY Single, AppendProperties, AppendIsConcat, ConcatAssociative

\* The first frame of a queue is taken out and held.
LEMMA TakeFirst ==
    ASSUME NEW s \in Seq(Frames), NEW t \in Seq(Frames), t # <<>>
    PROVE  /\ Head(t) \in Frames /\ Tail(t) \in Seq(Frames)
           /\ s \o t = (s \o <<Head(t)>>) \o Tail(t)
<1>1. /\ Head(t) \in Frames /\ Tail(t) \in Seq(Frames) /\ Head(t) = t[1]
      /\ Len(Tail(t)) = Len(t) - 1 /\ Len(t) \in Nat \ {0}
      /\ \A i \in 1 .. Len(Tail(t)) : Tail(t)[i] = t[i + 1]
  BY HeadTailProperties, EmptySeq
<1>2. <<Head(t)>> \o Tail(t) = t
  <2> DEFINE u == <<Head(t)>> \o Tail(t)
  <2>1. /\ u \in Seq(Frames) /\ Len(u) = 1 + Len(Tail(t))
        /\ \A i \in 1 .. 1 + Len(Tail(t)) :
             u[i] = IF i <= 1 THEN <<Head(t)>>[i] ELSE Tail(t)[i - 1]
    BY <1>1, Single, ConcatProperties
  <2>2. ASSUME NEW i \in 1 .. Len(t) PROVE u[i] = t[i]
    <3>1. CASE i = 1
      BY <1>1, <2>1, <3>1, Single
    <3>2. CASE i # 1
      <4>1. i - 1 \in 1 .. Len(Tail(t)) /\ (i - 1) + 1 = i
        BY <1>1, <3>2
      <4> QED
        BY <1>1, <2>1, <3>2, <4>1
    <3> QED
      BY <3>1, <3>2
  <2> HIDE DEF u
  <2>3. u = t
    BY <1>1, <2>1, <2>2, SeqEqual
  <2> QED
    BY <2>3 DEF u
<1> QED
  BY <1>1, <1>2, Single, ConcatAssociative

\* A queue of one is empty when its frame has left.
LEMMA LastFrame ==
    ASSUME NEW s \in Seq(Frames), Len(s) = 1
    PROVE  Tail(s) = <<>>
<1>1. s # <<>>
  BY EmptySeq
<1>2. Tail(s) \in Seq(Frames) /\ Len(Tail(s)) = 0
  BY <1>1, HeadTailProperties
<1> QED
  BY <1>2, EmptySeq

\* ... or goes straight into the queue before it.
LEMMA PassOn ==
    ASSUME NEW s \in Seq(Frames), NEW t \in Seq(Frames), t # <<>>
    PROVE  /\ Append(s, Head(t)) \in Seq(Frames) /\ Tail(t) \in Seq(Frames)
           /\ Append(s, Head(t)) \o Tail(t) = s \o t
  BY TakeFirst, AppendIsConcat, AppendProperties

\* What a step holds, and what it does not.
LEMMA Held ==
    ASSUME NEW s \in Seq(Frames), NEW f \in Frames, NEW busy \in BOOLEAN
    PROVE  /\ s \o Holding(busy, f) = IF busy THEN s \o <<f>> ELSE s
           /\ Holding(busy, f) \in Seq(Frames)
           /\ s \o Holding(busy, f) \in Seq(Frames)
  BY Row, Single, EmptySeq, ConcatEmptySeq DEF Holding

-----------------------------------------------------------------------------
(* What the dashboard gets *)

\* After the first chunks comes the next.
LEMMA NextChunk ==
    ASSUME NEW s \in Seq(Frames), NEW t \in Seq(Frames), NEW f \in Frames, f > 0,
           \A i \in DOMAIN s : s[i] = i,
           InSequence((s \o <<f>>) \o t)
    PROVE  f = Len(s) + 1
<1> DEFINE u == s \o <<f>>
           k == Len(s) + 1
<1>1. /\ u \in Seq(Frames) /\ DOMAIN u = 1 .. k /\ Len(s) \in Nat /\ DOMAIN s = 1 .. Len(s)
      /\ \A i \in 1 .. Len(s) : u[i] = s[i]
  BY Row, Single
<1>2. u[k] = f /\ f \in Int
  <2>1. \A i \in 1 .. 1 : u[Len(s) + i] = <<f>>[i]
    BY Row, Single
  <2> QED
    BY <2>1, Single, FramesAreIntegers
<1>3. InSequence(u)
  BY <1>1, Prefix
<1> HIDE DEF u
<1>4. f >= k
  <2>1. CASE Len(s) = 0
    BY <1>2, <2>1
  <2>2. CASE Len(s) # 0
    <3>1. k - 1 \in DOMAIN u /\ k \in DOMAIN u /\ u[k - 1] = k - 1 /\ k - 1 > 0
      BY <1>1, <2>2
    <3>2. u[k - 1] < u[k]
      BY <1>1, <1>2, <1>3, <3>1 DEF InSequence
    <3> QED
      BY <1>1, <1>2, <3>1, <3>2
  <2> QED
    BY <2>1, <2>2
<1>5. ~(f > k)
  <2> SUFFICES ASSUME f > k PROVE FALSE
    OBVIOUS
  <2>1. k \in 1 .. u[k] - 1 /\ k \in DOMAIN u
    BY <1>1, <1>2
  <2>2. PICK j \in DOMAIN u : u[j] = k
    BY <1>3, <2>1 DEF InSequence
  <2> QED
    BY <1>1, <1>2, <2>2
<1> QED
  BY <1>1, <1>2, <1>4, <1>5

\* The first chunks and the end, if they carry everything, are everything.
LEMMA Complete ==
    ASSUME NEW s \in Seq(Frames), NEW n \in Nat, Carries(s, n), HasEof(s),
           \A i \in DOMAIN s : s[i] = i \/ (s[i] = Eof /\ i = Len(s))
    PROVE  s = UpTo(n) \o <<Eof>>
<1> DEFINE k == Len(s)
<1>1. DOMAIN s = 1 .. k /\ k \in Nat
  BY LenProperties
<1>2. k \in DOMAIN s /\ s[k] = Eof /\ k >= 1
  BY <1>1, FramesAreIntegers DEF HasEof
<1>0. k = Len(s)
  OBVIOUS
<1> HIDE DEF k
<1>3. \A i \in 1 .. k - 1 : i \in DOMAIN s /\ s[i] = i
  BY <1>1
<1>4. k - 1 <= n
  <2>1. CASE k = 1
    BY <2>1
  <2>2. CASE k > 1
    BY <1>1, <1>3, <2>2 DEF Carries
  <2> QED
    BY <1>1, <1>2, <2>1, <2>2
<1>5. n <= k - 1
  <2> SUFFICES ASSUME n > k - 1 PROVE FALSE
    BY <1>1
  <2>1. PICK i \in DOMAIN s : s[i] = n
    BY <1>1, <1>2 DEF Carries
  <2> QED
    BY <1>1, <1>2, <1>3, <2>1, FramesAreIntegers
<1>6. k = n + 1
  BY <1>1, <1>4, <1>5
<1>7. UpTo(n) \in Seq(Frames) /\ Len(UpTo(n)) = n /\ \A i \in 1 .. n : UpTo(n)[i] = i
  BY FramesAreIntegers DEF UpTo
<1>8. /\ UpTo(n) \o <<Eof>> \in Seq(Frames) /\ Len(UpTo(n) \o <<Eof>>) = n + 1
      /\ \A i \in 1 .. n + 1 : (UpTo(n) \o <<Eof>>)[i] = IF i <= n THEN i ELSE Eof
  <2>1. /\ UpTo(n) \o <<Eof>> \in Seq(Frames) /\ Len(UpTo(n) \o <<Eof>>) = n + 1
        /\ \A i \in 1 .. n + 1 : (UpTo(n) \o <<Eof>>)[i] =
             IF i <= n THEN UpTo(n)[i] ELSE <<Eof>>[i - n]
    BY <1>7, FramesAreIntegers, Single, ConcatProperties
  <2>2. \A i \in 1 .. n + 1 : ~(i <= n) => i - n = 1
    OBVIOUS
  <2> QED
    BY <1>7, <2>1, <2>2, FramesAreIntegers, Single
<1>9. \A i \in 1 .. Len(s) : s[i] = (UpTo(n) \o <<Eof>>)[i]
  BY <1>0, <1>1, <1>2, <1>3, <1>6, <1>8
<1> QED
  BY <1>0, <1>6, <1>8, <1>9, SeqEqual

\* Chunks that are all there, each in its place, are the first n.
LEMMA AllChunks ==
    ASSUME NEW s \in Seq(Frames), NEW n \in Nat, Carries(s, n),
           \A i \in DOMAIN s : s[i] = i
    PROVE  s = UpTo(n)
<1>1. DOMAIN s = 1 .. Len(s) /\ Len(s) \in Nat /\ s = [i \in 1 .. Len(s) |-> s[i]]
  BY LenProperties
<1>2. Len(s) <= n
  <2>1. CASE Len(s) = 0
    BY <2>1
  <2>2. CASE Len(s) > 0
    <3>1. Len(s) \in DOMAIN s /\ s[Len(s)] = Len(s)
      BY <1>1, <2>2
    <3> QED
      BY <3>1 DEF Carries
  <2> QED
    BY <1>1, <2>1, <2>2
<1>3. n <= Len(s)
  <2>1. CASE n = 0
    BY <1>1, <2>1
  <2>2. CASE n > 0
    <3>1. PICK i \in DOMAIN s : s[i] = n
      BY <2>2 DEF Carries
    <3> QED
      BY <1>1, <3>1
  <2> QED
    BY <2>1, <2>2
<1>4. Len(s) = n
  BY <1>1, <1>2, <1>3
<1> QED
  BY <1>1, <1>4 DEF UpTo

\* The dashboard reads a frame.
LEMMA ReadFrameKeeps ==
    ASSUME StreamTypeOK, GotInOrder, OutboundInOrder, ReadFrame
    PROVE  /\ GotInOrder' /\ OutboundInOrder'
           /\ HasEof(got' \o outbound') => HasEof(got \o outbound)
           /\ \A t \in Seq(Frames) :
                /\ InSequence((got \o outbound) \o t)
                     <=> InSequence((got' \o outbound') \o t)
                /\ \A n \in Nat : Carries((got \o outbound) \o t, n)
                                    <=> Carries((got' \o outbound') \o t, n)
<1> DEFINE f == Head(outbound)
           rest == Tail(outbound)
           frames == got \o outbound
<1>1. /\ got \in Seq(Frames) /\ outbound \in Seq(Frames) /\ outbound # <<>>
      /\ outbound' = rest /\ cut' = cut /\ ~cut
  BY DEF StreamTypeOK, Sized, ReadFrame, OutboundInOrder
<1>2. /\ f \in Frames /\ rest \in Seq(Frames) /\ frames = (got \o <<f>>) \o rest
      /\ Len(rest) = Len(outbound) - 1 /\ Len(outbound) \in Nat \ {0}
  BY <1>1, TakeFirst, HeadTailProperties, EmptySeq
<1>3. /\ frames \in Seq(Frames) /\ DOMAIN frames = 1 .. Len(got) + Len(outbound)
      /\ Len(frames) = Len(got) + Len(outbound) /\ Len(got) \in Nat
      /\ DOMAIN got = 1 .. Len(got)
      /\ \A i \in 1 .. Len(got) : frames[i] = got[i]
      /\ \A i \in 1 .. Len(outbound) : frames[Len(got) + i] = outbound[i]
  BY <1>1, Row, ConcatProperties
<1>4. InSequence(frames) /\ \A i \in DOMAIN frames : frames[i] = Eof => i = Len(frames)
  BY <1>1 DEF OutboundInOrder
<1>5. ASSUME NEW i \in DOMAIN got PROVE got[i] # Eof /\ got[i] = i
  BY <1>2, <1>3, <1>4 DEF GotInOrder
<1>8. /\ got' = IF f = Keep THEN got ELSE Append(got, f)
      /\ frames = got \o outbound
      /\ \A i \in 1 .. Len(rest) : rest[i] = outbound[i + 1]
  BY <1>1, <1>5, HeadTailProperties DEF ReadFrame
<1>9. Append(got, f) \o rest = frames
  BY <1>1, PassOn
<1> HIDE DEF f, rest, frames
<1>6. CASE f = Keep
  <2>1. got' = got
    BY <1>6, <1>8
  <2>2. ASSUME NEW t \in Seq(Frames)
        PROVE  /\ InSequence(frames \o t) <=> InSequence((got \o rest) \o t)
               /\ \A n \in Nat : Carries(frames \o t, n) <=> Carries((got \o rest) \o t, n)
    <3> DEFINE s == got \o <<f>>
               u == rest \o t
    <3>1. s \in Seq(Frames) /\ u \in Seq(Frames) /\ f <= 0
      BY <1>1, <1>2, <1>6, Row, Single, FramesAreIntegers
    <3>2. frames \o t = s \o u
      BY <1>2, <3>1, Associative
    <3>3. (got \o rest) \o t = got \o u
      BY <1>1, <1>2, Associative
    <3>4. /\ InSequence(s \o u) <=> InSequence(got \o u)
          /\ \A n \in Nat : Carries(s \o u, n) <=> Carries(got \o u, n)
      BY <1>1, <1>2, <3>1, Silent
    <3> QED
      BY <3>2, <3>3, <3>4
  <2>3. InSequence(got \o rest)
    BY <1>1, <1>2, <1>4, <1>6, Silent, FramesAreIntegers
  <2>4. ASSUME NEW i \in DOMAIN (got \o rest), (got \o rest)[i] = Eof
        PROVE  i = Len(got \o rest) /\ HasEof(frames)
    <3>1. /\ DOMAIN (got \o rest) = 1 .. Len(got) + Len(rest)
          /\ Len(got \o rest) = Len(got) + Len(rest)
          /\ \A j \in 1 .. Len(got) : (got \o rest)[j] = got[j]
          /\ \A j \in 1 .. Len(rest) : (got \o rest)[Len(got) + j] = rest[j]
      BY <1>1, <1>2, Row, ConcatProperties
    <3>2. i \notin 1 .. Len(got)
      BY <1>3, <1>5, <2>4, <3>1
    <3>3. /\ i - Len(got) \in 1 .. Len(rest) /\ i = Len(got) + (i - Len(got))
          /\ i + 1 = Len(got) + ((i - Len(got)) + 1)
          /\ (i - Len(got)) + 1 \in 1 .. Len(outbound)
      BY <1>2, <1>3, <3>1, <3>2
    <3>4. rest[i - Len(got)] = Eof
      BY <2>4, <3>1, <3>3
    <3>5. outbound[(i - Len(got)) + 1] = Eof
      BY <1>8, <3>3, <3>4
    <3>6. frames[i + 1] = Eof /\ i + 1 \in DOMAIN frames
      BY <1>3, <3>3, <3>5
    <3>7. HasEof(frames) /\ i + 1 = Len(frames)
      BY <1>4, <3>6 DEF HasEof
    <3>8. Len(got \o rest) = Len(frames) - 1 /\ Len(got \o rest) \in Nat
      BY <1>2, <1>3, <3>1
    <3> QED
      BY <3>1, <3>7, <3>8
  <2>5. GotInOrder'
    BY <2>1 DEF GotInOrder
  <2>6. OutboundInOrder'
    BY <1>1, <2>1, <2>3, <2>4 DEF OutboundInOrder
  <2>7. HasEof(got' \o outbound') => HasEof(frames)
    BY <1>1, <2>1, <2>4 DEF HasEof
  <2> QED
    BY <1>1, <1>8, <2>1, <2>2, <2>5, <2>6, <2>7
<1>7. CASE f # Keep
  <2>1. got' = Append(got, f)
    BY <1>7, <1>8
  <2>2. got' \o outbound' = frames
    BY <1>1, <1>9, <2>1
  <2>3. OutboundInOrder'
    BY <1>1, <1>4, <2>2 DEF OutboundInOrder
  <2>4. /\ Len(got') = Len(got) + 1 /\ DOMAIN got' = 1 .. Len(got) + 1
        /\ \A i \in 1 .. Len(got) : got'[i] = got[i]
        /\ got'[Len(got) + 1] = f
    BY <1>1, <1>2, <2>1, AppendProperties, LenProperties
  <2>5. f = Eof \/ f = Len(got) + 1
    <3>1. f = Eof \/ f > 0
      BY <1>2, <1>7 DEF Frames, Keep, Eof
    <3>2. CASE f > 0
      BY <1>1, <1>2, <1>4, <1>5, <3>2, NextChunk
    <3> QED
      BY <3>1, <3>2
  <2>6. GotInOrder'
    BY <1>3, <1>5, <2>4, <2>5 DEF GotInOrder
  <2> QED
    BY <1>8, <2>2, <2>3, <2>6
<1> QED
  BY <1>6, <1>7

\* A frame is sent to it.
LEMMA PutFrameKeeps ==
    ASSUME StreamTypeOK, GotInOrder, OutboundInOrder, NEW f \in Frames, PutFrame(f),
           ~HasEof(got \o outbound), InSequence((got \o outbound) \o <<f>>)
    PROVE  /\ GotInOrder' /\ OutboundInOrder'
           /\ got' \o outbound' = (got \o outbound) \o <<f>>
           /\ HasEof(got' \o outbound') => f = Eof
<1> DEFINE frames == got \o outbound
<1>1. /\ got \in Seq(Frames) /\ outbound \in Seq(Frames) /\ ~cut
      /\ outbound' = Append(outbound, f) /\ cut' = cut /\ got' = got
  BY DEF StreamTypeOK, Sized, PutFrame
<1>2. got' \o outbound' = frames \o <<f>>
  BY <1>1, AppendLast
<1>3. /\ frames \in Seq(Frames) /\ DOMAIN (frames \o <<f>>) = 1 .. Len(frames) + 1
      /\ Len(frames \o <<f>>) = Len(frames) + 1 /\ Len(frames) \in Nat
      /\ DOMAIN frames = 1 .. Len(frames)
      /\ \A i \in 1 .. Len(frames) : (frames \o <<f>>)[i] = frames[i]
      /\ \A i \in 1 .. 1 : (frames \o <<f>>)[Len(frames) + i] = <<f>>[i]
  BY <1>1, Row, Single, ConcatProperties
<1>4. ASSUME NEW i \in DOMAIN (frames \o <<f>>), (frames \o <<f>>)[i] = Eof
      PROVE  i = Len(frames \o <<f>>) /\ f = Eof
  <2>1. i \notin 1 .. Len(frames)
    BY <1>3, <1>4 DEF HasEof
  <2>2. i = Len(frames) + 1
    BY <1>3, <2>1
  <2> QED
    BY <1>3, <1>4, <2>2, Single
<1>5. GotInOrder'
  BY <1>1 DEF GotInOrder
<1>6. OutboundInOrder'
  BY <1>1, <1>2, <1>4 DEF OutboundInOrder
<1> QED
  BY <1>2, <1>4, <1>5, <1>6 DEF HasEof

\* The direction to the dashboard is gone.
LEMMA CutOffKeeps ==
    ASSUME StreamTypeOK, GotInOrder, OutboundInOrder, CutOff
    PROVE  /\ GotInOrder' /\ OutboundInOrder'
           /\ HasEof(got' \o outbound') => got' \o outbound' = got \o outbound
<1>1. /\ got \in Seq(Frames) /\ outbound \in Seq(Frames)
      /\ outbound' = <<>> /\ cut' = TRUE /\ got' = got
  BY DEF StreamTypeOK, Sized, CutOff
<1>2. got' \o outbound' = got
  BY <1>1, ConcatEmptySeq
<1>3. /\ DOMAIN (got \o outbound) = 1 .. Len(got) + Len(outbound)
      /\ Len(got \o outbound) = Len(got) + Len(outbound)
      /\ Len(got) \in Nat /\ Len(outbound) \in Nat /\ DOMAIN got = 1 .. Len(got)
      /\ \A i \in 1 .. Len(got) : (got \o outbound)[i] = got[i]
  BY <1>1, Row, ConcatProperties
<1>4. ASSUME NEW i \in DOMAIN got, got[i] = Eof PROVE i = Len(got) /\ outbound = <<>>
  <2>1. i = Len(got) + Len(outbound)
    BY <1>3, <1>4 DEF OutboundInOrder
  <2>2. Len(outbound) = 0
    BY <1>3, <1>4, <2>1
  <2> QED
    BY <1>1, <1>3, <2>1, <2>2, EmptySeq
<1>5. GotInOrder'
  BY <1>1 DEF GotInOrder
<1>6. OutboundInOrder'
  BY <1>1, <1>2, <1>4 DEF OutboundInOrder
<1>7. HasEof(got) => got \o outbound = got
  BY <1>1, <1>4, ConcatEmptySeq DEF HasEof
<1> QED
  BY <1>2, <1>5, <1>6, <1>7

\* A dashboard that has received the end has received all there was.
LEMMA EofReceived ==
    ASSUME StreamTypeOK, GotInOrder, OutboundInOrder, NEW i \in DOMAIN got, got[i] = Eof
    PROVE  i = Len(got) /\ got \o outbound = got /\ HasEof(got)
<1>1. got \in Seq(Frames) /\ outbound \in Seq(Frames)
  BY DEF StreamTypeOK, Sized
<1>2. /\ DOMAIN (got \o outbound) = 1 .. Len(got) + Len(outbound)
      /\ Len(got \o outbound) = Len(got) + Len(outbound)
      /\ Len(got) \in Nat /\ Len(outbound) \in Nat /\ DOMAIN got = 1 .. Len(got)
      /\ \A j \in 1 .. Len(got) : (got \o outbound)[j] = got[j]
  BY <1>1, Row, ConcatProperties
<1>3. i = Len(got)
  <2>1. i # got[i]
    BY <1>2, FramesAreIntegers
  <2> QED
    BY <2>1 DEF GotInOrder
<1>4. i \in DOMAIN (got \o outbound) /\ (got \o outbound)[i] = Eof
  BY <1>2
<1>5. i = Len(got) + Len(outbound)
  BY <1>2, <1>4 DEF OutboundInOrder
<1>6. Len(outbound) = 0
  BY <1>2, <1>3, <1>5
<1>7. outbound = <<>>
  BY <1>1, <1>6, EmptySeq
<1> QED
  BY <1>1, <1>3, <1>7, ConcatEmptySeq DEF HasEof

\* The end is in one of two queues in a row.
LEMMA EofInEither ==
    ASSUME NEW s \in Seq(Frames), NEW t \in Seq(Frames)
    PROVE  HasEof(s \o t) <=> HasEof(s) \/ HasEof(t)
<1>1. /\ DOMAIN (s \o t) = 1 .. Len(s) + Len(t)
      /\ DOMAIN s = 1 .. Len(s) /\ DOMAIN t = 1 .. Len(t)
      /\ Len(s) \in Nat /\ Len(t) \in Nat
      /\ \A i \in 1 .. Len(s) : (s \o t)[i] = s[i]
      /\ \A i \in 1 .. Len(t) : (s \o t)[Len(s) + i] = t[i]
  BY Row
<1>2. ASSUME NEW i \in DOMAIN (s \o t), (s \o t)[i] = Eof PROVE HasEof(s) \/ HasEof(t)
  <2>1. CASE i <= Len(s)
    BY <1>1, <1>2, <2>1 DEF HasEof
  <2>2. CASE i > Len(s)
    <3>1. i - Len(s) \in 1 .. Len(t) /\ i = Len(s) + (i - Len(s))
      BY <1>1, <2>2
    <3>2. t[i - Len(s)] = Eof
      BY <1>1, <1>2, <3>1
    <3> QED
      BY <1>1, <3>1, <3>2 DEF HasEof
  <2> QED
    BY <1>1, <2>1, <2>2
<1>3. ASSUME NEW i \in DOMAIN s, s[i] = Eof PROVE HasEof(s \o t)
  <2>1. i \in DOMAIN (s \o t) /\ (s \o t)[i] = Eof
    BY <1>1, <1>3
  <2> QED
    BY <2>1 DEF HasEof
<1>4. ASSUME NEW i \in DOMAIN t, t[i] = Eof PROVE HasEof(s \o t)
  <2>1. Len(s) + i \in DOMAIN (s \o t) /\ (s \o t)[Len(s) + i] = Eof
    BY <1>1, <1>4
  <2> QED
    BY <2>1 DEF HasEof
<1> QED
  BY <1>2, <1>3, <1>4 DEF HasEof

\* The dashboard drops a keep-alive, never the end.
LEMMA EofStays ==
    ASSUME StreamTypeOK, ReadFrame, HasEof(got \o outbound)
    PROVE  HasEof(got' \o outbound')
<1>1. /\ got \in Seq(Frames) /\ outbound \in Seq(Frames) /\ outbound # <<>>
      /\ outbound' = Tail(outbound)
      /\ \/ got' = Append(got, Head(outbound))
         \/ got' = got /\ Head(outbound) = Keep
  BY DEF StreamTypeOK, Sized, ReadFrame
<1>2. /\ Tail(outbound) \in Seq(Frames) /\ Head(outbound) = outbound[1]
      /\ Len(Tail(outbound)) = Len(outbound) - 1 /\ Len(outbound) \in Nat
      /\ DOMAIN outbound = 1 .. Len(outbound)
      /\ DOMAIN Tail(outbound) = 1 .. Len(Tail(outbound))
      /\ \A i \in 1 .. Len(Tail(outbound)) : Tail(outbound)[i] = outbound[i + 1]
  BY <1>1, HeadTailProperties, LenProperties
<1>3. CASE got' = Append(got, Head(outbound))
  BY <1>1, <1>3, PassOn
<1>4. CASE got' = got /\ Head(outbound) = Keep
  <2>1. HasEof(got) \/ HasEof(outbound)
    BY <1>1, EofInEither
  <2>2. ASSUME NEW i \in DOMAIN outbound, outbound[i] = Eof PROVE HasEof(Tail(outbound))
    <3>1. i # 1
      BY <1>2, <1>4, <2>2, FramesAreIntegers
    <3>2. i - 1 \in 1 .. Len(Tail(outbound)) /\ (i - 1) + 1 = i
      BY <1>2, <3>1
    <3>3. i - 1 \in DOMAIN Tail(outbound) /\ Tail(outbound)[i - 1] = Eof
      BY <1>2, <2>2, <3>2
    <3> QED
      BY <3>3 DEF HasEof
  <2>3. HasEof(got) \/ HasEof(Tail(outbound))
    BY <2>1, <2>2 DEF HasEof
  <2> QED
    BY <1>1, <1>2, <1>4, <2>3, EofInEither
<1> QED
  BY <1>1, <1>3, <1>4

\* A frame that is sent is behind what was sent before.
LEMMA PutFrameEof ==
    ASSUME StreamTypeOK, NEW f \in Frames, PutFrame(f), HasEof(got \o outbound) \/ f = Eof
    PROVE  HasEof(got' \o outbound')
<1>1. /\ got \in Seq(Frames) /\ outbound \in Seq(Frames)
      /\ got' = got /\ outbound' = Append(outbound, f)
  BY DEF StreamTypeOK, Sized, PutFrame
<1>2. got' \o outbound' = (got \o outbound) \o <<f>>
  BY <1>1, AppendLast
<1>3. f = Eof => HasEof(<<f>>)
  <2>1. 1 \in DOMAIN <<f>> /\ <<f>>[1] = f
    OBVIOUS
  <2> QED
    BY <2>1 DEF HasEof
<1>4. got \o outbound \in Seq(Frames) /\ <<f>> \in Seq(Frames)
  BY <1>1, Row, Single
<1> QED
  BY <1>2, <1>3, <1>4, EofInEither

\* What the stream does keeps its types.
LEMMA StreamTypePreserved ==
    ASSUME StreamTypeOK,
           \/ SendChunk \/ SendOther \/ Close \/ CutOff \/ ReadFrame \/ TakeFrame
           \/ DropStream
           \/ Len(outbound) < Capacity /\ \E f \in Frames : PutFrame(f)
    PROVE  StreamTypeOK'
<1>1. /\ remote \in Seq(Nat) /\ Len(remote) <= Capacity
      /\ outbound \in Seq(Frames) /\ Len(outbound) <= Capacity
      /\ got \in Seq(Frames) /\ sent \in 0 .. MaxIn
      /\ ending \in {"open", "end", "broken"} /\ cut \in BOOLEAN
      /\ Capacity \in Nat \ {0} /\ MaxIn \in Nat
      /\ Len(remote) \in Nat /\ Len(outbound) \in Nat
  BY StreamAssumption, LenProperties DEF StreamTypeOK, Sized
<1>2. <<>> \in Seq(Nat) /\ <<>> \in Seq(Frames) /\ Len(<<>>) = 0
  BY EmptySeq
<1>3. ASSUME remote' \in Seq(Nat), Len(remote') <= Capacity,
             outbound' \in Seq(Frames), Len(outbound') <= Capacity,
             got' \in Seq(Frames), sent' \in 0 .. MaxIn,
             ending' \in {"open", "end", "broken"}, cut' \in BOOLEAN
      PROVE  StreamTypeOK'
  BY <1>3 DEF StreamTypeOK, Sized
<1>4. CASE SendChunk
  <2>1. sent + 1 \in Nat /\ sent + 1 \in 0 .. MaxIn
    BY <1>1, <1>4 DEF SendChunk
  <2>2. Append(remote, sent + 1) \in Seq(Nat) /\ Len(Append(remote, sent + 1)) = Len(remote) + 1
    BY <1>1, <2>1, AppendProperties
  <2> QED
    BY <1>1, <1>3, <1>4, <2>1, <2>2 DEF SendChunk
<1>5. CASE SendOther
  <2>1. Append(remote, Keep) \in Seq(Nat) /\ Len(Append(remote, Keep)) = Len(remote) + 1
    BY <1>1, AppendProperties DEF Keep
  <2> QED
    BY <1>1, <1>3, <1>5, <2>1 DEF SendOther
<1>6. CASE Close
  <2>1. (ending' = "end" /\ remote' = remote) \/ (ending' = "broken" /\ remote' = <<>>)
    BY <1>6 DEF Close
  <2>2. UNCHANGED <<sent, cut, outbound, got>>
    BY <1>6 DEF Close
  <2>3. remote' \in Seq(Nat) /\ Len(remote') <= Capacity
    BY <1>1, <2>1, EmptyQueue
  <2> QED
    BY <1>1, <1>3, <2>1, <2>2, <2>3
<1>7. CASE CutOff
  BY <1>1, <1>2, <1>3, <1>7 DEF CutOff
<1>8. CASE ReadFrame
  <2>1. /\ Head(outbound) \in Frames /\ Tail(outbound) \in Seq(Frames)
        /\ Len(Tail(outbound)) = Len(outbound) - 1
        /\ Append(got, Head(outbound)) \in Seq(Frames)
    BY <1>1, <1>8, HeadTailProperties, AppendProperties DEF ReadFrame
  <2>2. /\ got' \in Seq(Frames) /\ outbound' = Tail(outbound)
        /\ UNCHANGED <<remote, sent, ending, cut>>
    BY <1>1, <1>8, <2>1 DEF ReadFrame
  <2> QED
    BY <1>1, <1>3, <2>1, <2>2
<1>9. CASE TakeFrame
  <2>1. Tail(remote) \in Seq(Nat) /\ Len(Tail(remote)) = Len(remote) - 1
    BY <1>1, <1>9, HeadTailProperties DEF TakeFrame
  <2> QED
    BY <1>1, <1>3, <1>9, <2>1 DEF TakeFrame
<1>10. CASE DropStream
  BY <1>1, <1>2, <1>3, <1>10 DEF DropStream
<1>11. ASSUME Len(outbound) < Capacity, NEW f \in Frames, PutFrame(f) PROVE StreamTypeOK'
  <2>1. Append(outbound, f) \in Seq(Frames) /\ Len(Append(outbound, f)) = Len(outbound) + 1
    BY <1>1, AppendProperties
  <2> QED
    BY <1>1, <1>3, <1>11, <2>1 DEF PutFrame
<1> QED
  BY <1>4, <1>5, <1>6, <1>7, <1>8, <1>9, <1>10, <1>11

\* A new stream.
LEMMA StreamInitially ==
    ASSUME StreamInit
    PROVE  /\ StreamTypeOK /\ GotInOrder /\ OutboundInOrder
           /\ Carries(<<>>, 0) /\ ~HasEof(<<>>)
<1>1. /\ remote = <<>> /\ outbound = <<>> /\ got = <<>>
      /\ sent = 0 /\ ending = "open" /\ cut \in BOOLEAN /\ ~cut
  BY DEF StreamInit
<1>2. /\ remote \in Seq(Nat) /\ Len(remote) = 0
      /\ outbound \in Seq(Frames) /\ Len(outbound) = 0 /\ got \in Seq(Frames)
  BY <1>1, EmptyQueue
<1>3. StreamTypeOK
  BY <1>1, <1>2, StreamAssumption DEF StreamTypeOK, Sized
<1>4. <<>> \o <<>> = <<>> /\ DOMAIN <<>> = {}
  <2>1. <<>> \in Seq(Frames) /\ Len(<<>>) = 0
    BY EmptySeq
  <2> QED
    BY <2>1, ConcatEmptySeq, LenProperties
<1>5. InSequence(<<>>) /\ Carries(<<>>, 0) /\ ~HasEof(<<>>)
  BY <1>4 DEF InSequence, Carries, HasEof
<1> QED
  BY <1>1, <1>3, <1>4, <1>5 DEF GotInOrder, OutboundInOrder
=============================================================================
