--------------------------- MODULE ServicesProofs ---------------------------
(***************************************************************************)
(* The event bus for any number of readers, sizes of queues and buffers,   *)
(* and reconnections; the router for every manifest, any number of runs    *)
(* and outages.                                                            *)
(*                                                                         *)
(* A reader's client, its response and the bus each hold a part of what it *)
(* is sent.  The invariant of the bus is about the line these make         *)
(* together, what it got first, which the pump does not change and which   *)
(* publishing, closing and replaying only extend at its end.               *)
(*                                                                         *)
(* The invariant of the router relates each breaker to what calls found of *)
(* its backend, and that to when the backend was down.                     *)
(***************************************************************************)
EXTENDS EventBus, Routing, Calculation, ProviderStream, ListTheorems

USE DEF EndMark

\* What is on its way to a reader: the queue its response is written from, then
\* the queue the bus fills.
Line(r) == streamed[r] \o subscribed[r]

\* What a reader has got and what is on its way to it.
All(r) == got[r] \o Line(r)

\* Events in order, and nothing after an end mark.
Climbs(s) == \A i, j \in 1..Len(s) : i < j => s[i] # EndMark /\ (s[j] = EndMark \/ s[i] < s[j])

\* No end mark in it.
Open(s) == \A i \in 1..Len(s) : s[i] # EndMark

\* No event later than the last one published.
AtMost(s, n) == \A i \in 1..Len(s) : s[i] <= n

\* It begins with the first n events.
Begun(s, n) == n <= Len(s) /\ \A i \in 1..n : s[i] = i

\* Every event is where it belongs, so none is missing in front of another.
Prefix(s) == \A i \in 1..Len(s) : s[i] = EndMark \/ s[i] = i

\* The values the variables take.
BTypes ==
    /\ sent \in 0..MaxEvents /\ phase \in {"open", "closed", "discarded"}
    /\ reading \in [Readers -> {"away", "reading", "fresh", "ended"}]
    /\ got \in [Readers -> Seq(Nat)]
    /\ streamed \in [Readers -> Seq(Nat)]
    /\ subscribed \in [Readers -> Seq(Nat)]
    /\ connects \in [Readers -> Nat]
    /\ replay \in Seq(Nat)
    /\ \A r \in Readers : Len(subscribed[r]) <= QueueSize /\ Len(streamed[r]) <= StreamSize

\* The replay buffer holds events of the past, in order (_RunChannel.publish).
Buffered == Climbs(replay) /\ Open(replay) /\ AtMost(replay, sent)

\* Of one reader: its line is in order; while the run is open no stream has ended;
\* who does not read has nothing queued; and who lost nothing has a line without
\* holes, which while it reads goes up to the last event (publish, subscribe).
InLine(r) ==
    /\ Climbs(All(r)) /\ AtMost(All(r), sent) /\ Open(got[r])
    /\ phase = "open" => Open(All(r)) /\ reading[r] # "ended"
    /\ reading[r] # "reading" => streamed[r] = <<>> /\ subscribed[r] = <<>>
    /\ r \notin gap =>
         /\ Prefix(All(r))
         /\ reading[r] \in {"reading", "ended"} => Begun(All(r), sent)

\* The inductive invariant of the bus.
BInv == BTypes /\ Buffered /\ \A r \in Readers : InLine(r)

\* Moving the head of a queue to the end of the one in front keeps the line (Pump).
LEMMA MoveHead ==
  ASSUME NEW S, NEW s \in Seq(S), NEW t \in Seq(S), t # <<>>
  PROVE  Append(s, Head(t)) \o Tail(t) = s \o t
<1> DEFINE h == Head(t)
           u == Tail(t)
<1>1. h \in S /\ u \in Seq(S) /\ <<h>> \in Seq(S) /\ t = <<h>> \o u
  OBVIOUS
<1> HIDE DEF h, u
<1>2. Append(s, h) = s \o <<h>>
  BY <1>1, AppendIsConcat
<1>3. (s \o <<h>>) \o u = s \o (<<h>> \o u)
  BY <1>1, ConcatAssociative
<1>4. Append(s, h) \o u = s \o t
  BY <1>1, <1>2, <1>3
<1> QED BY <1>4 DEF h, u

\* Where the elements of two queues are when one follows the other.
LEMMA Concat ==
  ASSUME NEW s \in Seq(Nat), NEW t \in Seq(Nat)
  PROVE  /\ s \o t \in Seq(Nat) /\ Len(s \o t) = Len(s) + Len(t) /\ Len(s) \in Nat /\ Len(t) \in Nat
         /\ \A i \in 1..Len(s) : (s \o t)[i] = s[i]
         /\ \A i \in 1..Len(t) : (s \o t)[Len(s) + i] = t[i]
         /\ \A i \in 1..Len(s \o t) : i \notin 1..Len(s) => i - Len(s) \in 1..Len(t) /\ (s \o t)[i] = t[i - Len(s)]
<1> DEFINE u == s \o t
<1>1. /\ u \in Seq(Nat) /\ Len(u) = Len(s) + Len(t) /\ Len(s) \in Nat /\ Len(t) \in Nat
      /\ \A i \in 1..(Len(s) + Len(t)) : u[i] = IF i <= Len(s) THEN s[i] ELSE t[i - Len(s)]
  BY ConcatProperties
<1> HIDE DEF u
<1>2. \A i \in 1..Len(s) : u[i] = s[i]
  BY <1>1
<1>3. ASSUME NEW i \in 1..Len(t) PROVE u[Len(s) + i] = t[i]
  <2>1. Len(s) + i \in 1..(Len(s) + Len(t)) /\ ~(Len(s) + i <= Len(s)) /\ Len(s) + i - Len(s) = i
    BY <1>1
  <2> QED BY <1>1, <2>1
<1>4. \A i \in 1..Len(u) : i \notin 1..Len(s) => i - Len(s) \in 1..Len(t) /\ u[i] = t[i - Len(s)]
  BY <1>1
<1> QED BY <1>1, <1>2, <1>3, <1>4 DEF u

-----------------------------------------------------------------------------
(***************************************************************************)
(* Lines of events.                                                        *)
(***************************************************************************)

\* Where the elements of a queue are after a put.
LEMMA AppendIs ==
  ASSUME NEW s \in Seq(Nat), NEW e \in Nat
  PROVE  /\ Append(s, e) \in Seq(Nat) /\ Len(s) \in Nat /\ Len(Append(s, e)) = Len(s) + 1
         /\ Append(s, e)[Len(s) + 1] = e
         /\ \A i \in 1..Len(s) : Append(s, e)[i] = s[i]
         /\ \A i \in 1..Len(Append(s, e)) : i \in 1..Len(s) \/ i = Len(s) + 1
<1>1. /\ Append(s, e) \in Seq(Nat) /\ Len(s) \in Nat /\ Len(Append(s, e)) = Len(s) + 1
      /\ Append(s, e)[Len(s) + 1] = e
      /\ \A i \in 1..Len(s) : Append(s, e)[i] = s[i]
  BY AppendProperties
<1> QED BY <1>1

\* What is put at the end of a line without an end mark: the mark, or a later event.
LEMMA AppendClimbs ==
  ASSUME NEW s \in Seq(Nat), NEW e \in Nat, Climbs(s), Open(s),
         e = EndMark \/ \A i \in 1..Len(s) : s[i] < e
  PROVE  Climbs(Append(s, e))
<1> DEFINE t == Append(s, e)
<1>1. /\ t \in Seq(Nat) /\ Len(s) \in Nat /\ Len(t) = Len(s) + 1 /\ t[Len(s) + 1] = e
      /\ \A i \in 1..Len(s) : t[i] = s[i]
      /\ \A i \in 1..Len(t) : i \in 1..Len(s) \/ i = Len(s) + 1
  BY AppendIs
<1> HIDE DEF t
<1>2. ASSUME NEW i \in 1..Len(t), NEW j \in 1..Len(t), i < j
      PROVE  t[i] # EndMark /\ (t[j] = EndMark \/ t[i] < t[j])
  <2>1. i \in 1..Len(s) /\ t[i] = s[i] /\ s[i] # EndMark
    BY <1>1, <1>2 DEF Open
  <2>2. CASE j \in 1..Len(s)
    BY <1>1, <1>2, <2>1, <2>2 DEF Climbs
  <2>3. CASE j = Len(s) + 1
    BY <1>1, <2>1, <2>3
  <2> QED BY <1>1, <2>1, <2>2, <2>3
<1> QED BY <1>2 DEF Climbs, t

\* A line that loses one event in the middle.
LEMMA DropOne ==
  ASSUME NEW p \in Seq(Nat), NEW t \in Seq(Nat), t # <<>>
  PROVE  LET s == p \o t
             d == p \o Tail(t)
         IN  /\ s \in Seq(Nat) /\ d \in Seq(Nat)
             /\ Climbs(s) => Climbs(d)
             /\ Open(s) => Open(d)
             /\ \A m \in Nat : AtMost(s, m) => AtMost(d, m)
<1> DEFINE s == p \o t
           u == Tail(t)
           d == p \o u
<1>1. u \in Seq(Nat) /\ Len(u) = Len(t) - 1 /\ \A i \in 1..Len(u) : u[i] = t[i + 1]
  OBVIOUS
<1> HIDE DEF u
<1>2. /\ s \in Seq(Nat) /\ Len(s) = Len(p) + Len(t) /\ Len(p) \in Nat /\ Len(t) \in Nat
      /\ \A i \in 1..Len(p) : s[i] = p[i]
      /\ \A i \in 1..Len(t) : s[Len(p) + i] = t[i]
  BY Concat
<1>3. /\ d \in Seq(Nat) /\ Len(d) = Len(p) + Len(u) /\ Len(u) \in Nat
      /\ \A i \in 1..Len(p) : d[i] = p[i]
      /\ \A i \in 1..Len(d) : i \notin 1..Len(p) => i - Len(p) \in 1..Len(u) /\ d[i] = u[i - Len(p)]
  BY <1>1, Concat
<1> HIDE DEF s, d
<1>4. ASSUME NEW i \in 1..Len(d)
      PROVE  \/ i \in 1..Len(p) /\ i \in 1..Len(s) /\ d[i] = s[i]
             \/ i \notin 1..Len(p) /\ i + 1 \in 1..Len(s) /\ d[i] = s[i + 1]
  <2>1. CASE i \in 1..Len(p)
    BY <1>2, <1>3, <2>1
  <2>2. CASE i \notin 1..Len(p)
    <3>1. PICK k \in 1..Len(u) : k = i - Len(p) /\ d[i] = u[k]
      BY <1>3, <2>2
    <3>2. u[k] = t[k + 1] /\ k + 1 \in 1..Len(t)
      <4>1. Len(t) \in Nat /\ Len(u) = Len(t) - 1
        BY <1>1, <1>2
      <4>2. k \in Nat /\ 1 <= k /\ k <= Len(u)
        BY <4>1
      <4>3. k + 1 \in 1..Len(t)
        BY <4>1, <4>2
      <4> QED BY <1>1, <4>3
    <3>3. s[Len(p) + (k + 1)] = t[k + 1]
      BY <1>2, <3>2
    <3>4. Len(p) + (k + 1) = i + 1 /\ i + 1 \in 1..Len(s)
      BY <1>2, <1>3, <3>1, <3>2
    <3> QED BY <2>2, <3>1, <3>2, <3>3, <3>4
  <2> QED BY <2>1, <2>2
<1>5. ASSUME Climbs(s) PROVE Climbs(d)
  <2> SUFFICES ASSUME NEW i \in 1..Len(d), NEW j \in 1..Len(d), i < j
               PROVE  d[i] # EndMark /\ (d[j] = EndMark \/ d[i] < d[j])
    BY DEF Climbs
  <2>1. PICK k \in 1..Len(s), l \in 1..Len(s) : k < l /\ d[i] = s[k] /\ d[j] = s[l]
    <3>1. CASE i \in 1..Len(p) /\ j \in 1..Len(p)
      BY <1>4, <3>1
    <3>2. CASE i \in 1..Len(p) /\ j \notin 1..Len(p)
      <4>1. i \in 1..Len(s) /\ d[i] = s[i] /\ j + 1 \in 1..Len(s) /\ d[j] = s[j + 1]
        BY <1>4, <3>2
      <4>2. i < j + 1
        BY <1>3
      <4> QED BY <4>1, <4>2
    <3>3. CASE i \notin 1..Len(p)
      <4>1. i + 1 \in 1..Len(s) /\ d[i] = s[i + 1] /\ j \notin 1..Len(p)
        BY <1>2, <1>4, <3>3
      <4>2. j + 1 \in 1..Len(s) /\ d[j] = s[j + 1] /\ i + 1 < j + 1
        BY <1>4, <4>1
      <4> QED BY <4>1, <4>2
    <3> QED BY <3>1, <3>2, <3>3
  <2> QED BY <1>5, <2>1 DEF Climbs
<1>6. Open(s) => Open(d)
  BY <1>4 DEF Open
<1>7. \A m \in Nat : AtMost(s, m) => AtMost(d, m)
  BY <1>4 DEF AtMost
<1> QED BY <1>2, <1>3, <1>5, <1>6, <1>7 DEF s, d, u

\* Of a line that climbs, what was read.
LEMMA FrontClimbs ==
  ASSUME NEW s \in Seq(Nat), NEW t \in Seq(Nat)
  PROVE  /\ Climbs(s \o t) => Climbs(s)
         /\ \A m \in Nat : AtMost(s \o t, m) => AtMost(s, m)
         /\ Prefix(s \o t) => Prefix(s)
<1> DEFINE u == s \o t
<1>1. /\ Len(u) = Len(s) + Len(t) /\ Len(s) \in Nat /\ Len(t) \in Nat
      /\ \A i \in 1..Len(s) : u[i] = s[i]
  BY Concat
<1> HIDE DEF u
<1>2. \A i \in 1..Len(s) : i \in 1..Len(u)
  BY <1>1
<1>3. Climbs(u) => Climbs(s)
  BY <1>1, <1>2 DEF Climbs
<1>4. (\A m \in Nat : AtMost(u, m) => AtMost(s, m)) /\ (Prefix(u) => Prefix(s))
  BY <1>1, <1>2 DEF AtMost, Prefix
<1> QED BY <1>3, <1>4 DEF u

\* An empty queue adds nothing to a line.
LEMMA WithNothing == ASSUME NEW s \in Seq(Nat) PROVE s \o <<>> = s /\ <<>> \o s = s
  BY ConcatEmptySeq

-----------------------------------------------------------------------------
(***************************************************************************)
(* Publishing.                                                             *)
(***************************************************************************)

\* The bounds of the bus are numbers (REPLAY_BUFFER_SIZE, SUBSCRIBER_QUEUE_SIZE).
LEMMA BusSizes == /\ ReplaySize \in Nat \ {0} /\ QueueSize \in Nat \ {0} /\ StreamSize \in Nat \ {0}
               /\ MaxEvents \in Nat /\ MaxConnects \in Nat
BY BusAssumption

\* A reader's queues are sequences of events, and so is its line.
LEMMA AllIs ==
  ASSUME BTypes, NEW r \in Readers
  PROVE  /\ got[r] \in Seq(Nat) /\ streamed[r] \in Seq(Nat) /\ subscribed[r] \in Seq(Nat)
         /\ Line(r) \in Seq(Nat) /\ All(r) \in Seq(Nat) /\ Len(All(r)) \in Nat /\ sent \in Nat
<1>1. got[r] \in Seq(Nat) /\ streamed[r] \in Seq(Nat) /\ subscribed[r] \in Seq(Nat)
  BY DEF BTypes
<1>2. Line(r) \in Seq(Nat)
  BY <1>1, Concat DEF Line
<1>3. All(r) \in Seq(Nat) /\ Len(All(r)) \in Nat
  BY <1>1, <1>2, Concat DEF All
<1> QED BY <1>1, <1>2, <1>3, BusSizes DEF BTypes

\* What is put at the end of a reader's queue is put at the end of its line.
LEMMA PutAtTheEnd ==
  ASSUME NEW g \in Seq(Nat), NEW s \in Seq(Nat), NEW q \in Seq(Nat), NEW e \in Nat
  PROVE  g \o (s \o Append(q, e)) = Append(g \o (s \o q), e)
<1>1. s \o Append(q, e) = Append(s \o q, e) /\ s \o q \in Seq(Nat)
  BY ConcatAppend
<1> DEFINE l == s \o q
<1>2. l \in Seq(Nat) /\ s \o Append(q, e) = Append(l, e)
  BY <1>1
<1> HIDE DEF l
<1>3. g \o Append(l, e) = Append(g \o l, e)
  BY <1>2, ConcatAppend
<1> QED BY <1>2, <1>3 DEF l

\* How a line is split does not matter.
LEMMA Regroup ==
  ASSUME NEW g \in Seq(Nat), NEW s \in Seq(Nat), NEW q \in Seq(Nat)
  PROVE  (g \o s) \o q = g \o (s \o q)
BY ConcatAssociative

\* A reader nothing happens to.
LEMMA QuietReader ==
  ASSUME NEW r \in Readers, InLine(r), sent' = sent,
         got'[r] = got[r], streamed'[r] = streamed[r], subscribed'[r] = subscribed[r],
         reading'[r] = reading[r] \/ ({reading[r], reading'[r]} \subseteq {"away", "fresh"}),
         phase' = "open" => phase = "open",
         r \notin gap' => r \notin gap
  PROVE  InLine(r)'
<1>1. All(r)' = All(r)
  BY DEF All, Line
<1> QED BY <1>1 DEF InLine

\* A channel starts with nothing published and nobody reading (_RunChannel).
LEMMA AtFirst == BusInit => BInv
<1> SUFFICES ASSUME BusInit PROVE BInv
  OBVIOUS
<1> USE DEF BusInit
<1>1. <<>> \in Seq(Nat) /\ Len(<<>>) = 0
  BY EmptySeq
<1>2. BTypes
  BY <1>1, BusSizes DEF BTypes
<1>3. Buffered
  BY <1>1 DEF Buffered, Climbs, Open, AtMost
<1>4. ASSUME NEW r \in Readers PROVE InLine(r)
  <2>1. All(r) = <<>> /\ got[r] = <<>>
    BY <1>1, WithNothing DEF All, Line
  <2> QED BY <1>1, <2>1 DEF InLine, Climbs, Open, AtMost, Prefix, Begun
<1> QED BY <1>2, <1>3, <1>4 DEF BInv

\* One more event at the end of a buffer, which may lose its oldest.
LEMMA Rolls ==
  ASSUME NEW s \in Seq(Nat), NEW n \in Nat, Climbs(s), Open(s), AtMost(s, n)
  PROVE  /\ Append(s, n + 1) \in Seq(Nat)
         /\ Climbs(Append(s, n + 1)) /\ Open(Append(s, n + 1)) /\ AtMost(Append(s, n + 1), n + 1)
<1> DEFINE t == Append(s, n + 1)
<1>1. /\ t \in Seq(Nat) /\ Len(s) \in Nat /\ Len(t) = Len(s) + 1 /\ t[Len(s) + 1] = n + 1
      /\ \A i \in 1..Len(s) : t[i] = s[i]
      /\ \A i \in 1..Len(t) : i \in 1..Len(s) \/ i = Len(s) + 1
  BY AppendIs
<1>2. \A i \in 1..Len(s) : s[i] \in Nat /\ s[i] < n + 1
  BY DEF AtMost
<1>3. Climbs(t)
  BY <1>2, AppendClimbs
<1> HIDE DEF t
<1>4. ASSUME NEW i \in 1..Len(t) PROVE t[i] # EndMark /\ t[i] <= n + 1
  <2>1. CASE i \in 1..Len(s)
    <3>1. t[i] = s[i] /\ s[i] # EndMark /\ s[i] \in Nat /\ s[i] < n + 1
      BY <1>1, <1>2, <2>1 DEF Open
    <3> QED BY <3>1
  <2>2. CASE i = Len(s) + 1
    BY <1>1, <2>2
  <2> QED BY <1>1, <2>1, <2>2
<1>5. Open(t) /\ AtMost(t, n + 1)
  BY <1>4 DEF Open, AtMost
<1> QED BY <1>1, <1>3, <1>5 DEF t

\* A full buffer that loses its oldest event stays in order (deque(maxlen)).
LEMMA Shorter ==
  ASSUME NEW s \in Seq(Nat), s # <<>>, NEW n \in Nat, Climbs(s), Open(s), AtMost(s, n)
  PROVE  Tail(s) \in Seq(Nat) /\ Climbs(Tail(s)) /\ Open(Tail(s)) /\ AtMost(Tail(s), n)
<1>1. <<>> \in Seq(Nat) /\ Tail(s) \in Seq(Nat)
  OBVIOUS
<1> DEFINE u == Tail(s)
<1>2. <<>> \o s = s /\ <<>> \o u = u
  BY <1>1, WithNothing
<1>3. Climbs(<<>> \o u) /\ Open(<<>> \o u) /\ AtMost(<<>> \o u, n)
  BY <1>1, <1>2, DropOne
<1> HIDE DEF u
<1>4. Climbs(u) /\ Open(u) /\ AtMost(u, n)
  BY <1>2, <1>3
<1> QED BY <1>1, <1>4 DEF u

\* Publishing keeps the queues within their sizes (publish).
LEMMA PublishTypes == ASSUME BInv, Publish PROVE BTypes'
<1> USE DEF BInv, BTypes, Publish
<1>1. sent + 1 \in Nat /\ sent' \in 0..MaxEvents /\ sent \in Nat
  BY BusSizes
<1>2. \A s \in Seq(Nat) : s # <<>> => Append(Tail(s), sent + 1) \in Seq(Nat) /\ Len(Append(Tail(s), sent + 1)) = Len(s)
  BY <1>1
<1>3. \A s \in Seq(Nat) : Append(s, sent + 1) \in Seq(Nat) /\ Len(Append(s, sent + 1)) = Len(s) + 1 /\ Len(s) \in Nat
  BY <1>1
<1>4. \A s \in Seq(Nat) : s = <<>> => Len(s) = 0
  OBVIOUS
<1>5. replay' \in Seq(Nat)
  BY <1>2, <1>3, <1>4, BusSizes
<1>6. \A r \in Readers : Put(subscribed[r], sent + 1) \in Seq(Nat) /\ Len(Put(subscribed[r], sent + 1)) <= QueueSize
  <2> SUFFICES ASSUME NEW r \in Readers
               PROVE  Put(subscribed[r], sent + 1) \in Seq(Nat) /\ Len(Put(subscribed[r], sent + 1)) <= QueueSize
    OBVIOUS
  <2>1. subscribed[r] \in Seq(Nat) /\ Len(subscribed[r]) <= QueueSize /\ Len(subscribed[r]) \in Nat
    OBVIOUS
  <2>2. CASE Len(subscribed[r]) < QueueSize
    BY <1>3, <2>1, <2>2, BusSizes DEF Put
  <2>3. CASE ~(Len(subscribed[r]) < QueueSize)
    BY <1>2, <1>4, <2>1, <2>3, BusSizes DEF Put
  <2> QED BY <2>2, <2>3
<1>7. /\ subscribed' \in [Readers -> Seq(Nat)]
      /\ \A r \in Readers : Len(subscribed'[r]) <= QueueSize
  BY <1>6
<1> QED BY <1>1, <1>5, <1>7

\* Publishing puts the next event at the end of the line of every subscriber, and a
\* subscriber whose queue was full has lost one (_RunChannel.publish).
LEMMA PublishStep == ASSUME BInv, Publish PROVE BInv'
<1>0. /\ BTypes /\ BTypes' /\ sent \in Nat /\ sent + 1 \in Nat /\ sent' = sent + 1 /\ phase = "open"
  BY PublishTypes, BusSizes DEF BInv, BTypes, Publish
<1>1. Buffered'
  <2>1. replay \in Seq(Nat) /\ Climbs(replay) /\ Open(replay) /\ AtMost(replay, sent)
    BY DEF BInv, BTypes, Buffered
  <2>2. CASE Len(replay) < ReplaySize
    <3>1. replay' = Append(replay, sent + 1)
      BY <2>2 DEF Publish
    <3> QED BY <1>0, <2>1, <3>1, Rolls DEF Buffered
  <2>3. CASE ~(Len(replay) < ReplaySize)
    <3>1. replay' = Append(Tail(replay), sent + 1) /\ replay # <<>>
      BY <2>1, <2>3, BusSizes DEF Publish
    <3> DEFINE u == Tail(replay)
    <3>2. u \in Seq(Nat) /\ Climbs(u) /\ Open(u) /\ AtMost(u, sent)
      BY <1>0, <2>1, <3>1, Shorter
    <3> HIDE DEF u
    <3>3. Climbs(Append(u, sent + 1)) /\ Open(Append(u, sent + 1)) /\ AtMost(Append(u, sent + 1), sent + 1)
      BY <1>0, <3>2, Rolls
    <3> QED BY <1>0, <3>1, <3>3 DEF Buffered, u
  <2> QED BY <2>2, <2>3
<1>2. ASSUME NEW r \in Readers PROVE InLine(r)'
  <2>0. /\ got'[r] = got[r] /\ streamed'[r] = streamed[r] /\ reading'[r] = reading[r]
        /\ subscribed'[r] = IF reading[r] = "reading" THEN Put(subscribed[r], sent + 1) ELSE subscribed[r]
        /\ (r \notin gap' => r \notin gap) /\ phase' = phase
        /\ reading[r] = "reading" /\ r \notin gap' => Len(subscribed[r]) # QueueSize
    BY <1>2 DEF Publish, Subscribers, BInv, BTypes
  <2>1. /\ InLine(r) /\ Open(All(r))
        /\ got[r] \in Seq(Nat) /\ streamed[r] \in Seq(Nat) /\ subscribed[r] \in Seq(Nat)
        /\ All(r) \in Seq(Nat) /\ Len(subscribed[r]) <= QueueSize /\ Len(subscribed[r]) \in Nat
    BY <1>0, AllIs DEF BInv, InLine, BTypes
  <2>2. CASE reading[r] # "reading"
    <3>1. All(r)' = All(r)
      BY <2>0, <2>2 DEF All, Line
    <3>2. All(r) = got[r]
      BY <2>1, <2>2, WithNothing DEF InLine, All, Line
    <3>3. AtMost(All(r), sent + 1)
      BY <1>0, <2>1 DEF InLine, AtMost
    <3>4. reading[r] # "ended"
      BY <1>0, <2>1 DEF InLine
    <3> QED BY <1>0, <2>0, <2>1, <2>2, <3>1, <3>3, <3>4 DEF InLine
  <2>3. CASE reading[r] = "reading" /\ Len(subscribed[r]) < QueueSize
    <3>1. subscribed'[r] = Append(subscribed[r], sent + 1)
      BY <2>0, <2>3 DEF Put
    <3>2. All(r)' = Append(All(r), sent + 1)
      <4>1. got[r] \o (streamed[r] \o Append(subscribed[r], sent + 1))
              = Append(got[r] \o (streamed[r] \o subscribed[r]), sent + 1)
        <5> DEFINE g == got[r]
                   l == streamed[r]
                   q == subscribed[r]
        <5>1. g \in Seq(Nat) /\ l \in Seq(Nat) /\ q \in Seq(Nat)
          BY <2>1
        <5> HIDE DEF g, l, q
        <5>2. g \o (l \o Append(q, sent + 1)) = Append(g \o (l \o q), sent + 1)
          BY <1>0, <5>1, PutAtTheEnd
        <5> QED BY <5>2 DEF g, l, q
      <4> QED BY <2>0, <3>1, <4>1 DEF All, Line
    <3>3. Climbs(All(r)') /\ Open(All(r)') /\ AtMost(All(r)', sent')
      BY <1>0, <2>1, <3>2, Rolls DEF InLine
    <3>4. ASSUME r \notin gap PROVE Prefix(All(r)') /\ Begun(All(r)', sent')
      <4> DEFINE s == All(r)
                 t == Append(s, sent + 1)
      <4>1. Prefix(s) /\ Begun(s, sent) /\ Open(s) /\ AtMost(s, sent) /\ s \in Seq(Nat) /\ Len(s) \in Nat
        BY <2>1, <2>3, <3>4 DEF InLine
      <4>2. /\ Len(t) = Len(s) + 1 /\ t[Len(s) + 1] = sent + 1
            /\ \A i \in 1..Len(s) : t[i] = s[i]
            /\ \A i \in 1..Len(t) : i \in 1..Len(s) \/ i = Len(s) + 1
        BY <1>0, <4>1, AppendIs
      <4> HIDE DEF s, t
      <4>3. \A i \in 1..Len(s) : s[i] = i /\ s[i] <= sent
        BY <4>1 DEF Prefix, Open, AtMost
      <4>4. Len(s) = sent
        <5>1. Len(s) \in 1..Len(s) => Len(s) <= sent
          BY <4>3
        <5> QED BY <1>0, <4>1, <5>1 DEF Begun
      <4>5. Prefix(t) /\ Begun(t, sent + 1)
        BY <1>0, <4>2, <4>3, <4>4 DEF Prefix, Begun
      <4> QED BY <1>0, <3>2, <4>5 DEF s, t
    <3> QED BY <2>0, <2>1, <2>3, <3>3, <3>4 DEF InLine
  <2>4. CASE reading[r] = "reading" /\ Len(subscribed[r]) = QueueSize
    <3> DEFINE u == Tail(subscribed[r])
               p == got[r] \o streamed[r]
               d == p \o u
    <3>1. subscribed'[r] = Append(u, sent + 1) /\ subscribed[r] # <<>> /\ u \in Seq(Nat) /\ r \in gap'
      BY <2>0, <2>1, <2>4, BusSizes DEF Put
    <3>2. /\ p \in Seq(Nat) /\ got[r] \o (streamed[r] \o subscribed[r]) = p \o subscribed[r]
          /\ got[r] \o (streamed[r] \o Append(u, sent + 1)) = Append(d, sent + 1)
      <4> DEFINE g == got[r]
                 l == streamed[r]
                 q == subscribed[r]
      <4>1. g \in Seq(Nat) /\ l \in Seq(Nat) /\ q \in Seq(Nat)
        BY <2>1
      <4> HIDE DEF g, l, q, u
      <4>2. g \o l \in Seq(Nat)
        BY <4>1, Concat
      <4>3. (g \o l) \o q = g \o (l \o q)
        BY <4>1, Regroup
      <4>5. u \in Seq(Nat)
        BY <3>1
      <4>6. (g \o l) \o u = g \o (l \o u)
        BY <4>1, <4>5, Regroup
      <4>4. g \o (l \o Append(u, sent + 1)) = Append(g \o (l \o u), sent + 1)
        BY <1>0, <3>1, <4>1, PutAtTheEnd
      <4> QED BY <4>2, <4>3, <4>4, <4>6 DEF g, l, q
    <3>3. All(r)' = Append(d, sent + 1) /\ All(r) = p \o subscribed[r]
      <4> HIDE DEF u, p, d
      <4> QED BY <2>0, <3>1, <3>2 DEF All, Line
    <3> HIDE DEF p
    <3>4. d \in Seq(Nat) /\ Climbs(d) /\ Open(d) /\ AtMost(d, sent)
      <4>1. Climbs(p \o subscribed[r]) /\ Open(p \o subscribed[r]) /\ AtMost(p \o subscribed[r], sent)
        BY <2>1, <3>3 DEF InLine
      <4> QED BY <1>0, <2>1, <3>1, <3>2, <4>1, DropOne
    <3> HIDE DEF d
    <3>5. Climbs(All(r)') /\ Open(All(r)') /\ AtMost(All(r)', sent')
      BY <1>0, <3>3, <3>4, Rolls
    <3> QED BY <2>0, <2>1, <2>4, <3>1, <3>5 DEF InLine
  <2> QED BY <2>1, <2>2, <2>3, <2>4, BusSizes
<1> QED BY <1>0, <1>1, <1>2 DEF BInv

-----------------------------------------------------------------------------
(***************************************************************************)
(* Closing, pumping, delivering and leaving.                               *)
(***************************************************************************)

\* The mark at the end of a line.
LEMMA Ends ==
  ASSUME NEW s \in Seq(Nat), NEW n \in Nat, Climbs(s), Open(s), AtMost(s, n)
  PROVE  /\ Append(s, EndMark) \in Seq(Nat) /\ Climbs(Append(s, EndMark)) /\ AtMost(Append(s, EndMark), n)
         /\ Prefix(s) => Prefix(Append(s, EndMark))
         /\ Begun(s, n) => Begun(Append(s, EndMark), n)
<1> DEFINE t == Append(s, EndMark)
<1>1. /\ t \in Seq(Nat) /\ Len(s) \in Nat /\ Len(t) = Len(s) + 1 /\ t[Len(s) + 1] = EndMark
      /\ \A i \in 1..Len(s) : t[i] = s[i]
      /\ \A i \in 1..Len(t) : i \in 1..Len(s) \/ i = Len(s) + 1
  BY AppendIs
<1>2. Climbs(t)
  BY AppendClimbs
<1> HIDE DEF t
<1>3. AtMost(t, n)
  BY <1>1 DEF AtMost
<1>4. Prefix(s) => Prefix(t)
  BY <1>1 DEF Prefix
<1>5. ASSUME Begun(s, n) PROVE Begun(t, n)
  <2>1. n <= Len(s) /\ \A i \in 1..n : s[i] = i
    BY <1>5 DEF Begun
  <2>2. \A i \in 1..n : i \in 1..Len(s)
    BY <1>1, <2>1
  <2>3. n <= Len(t) /\ \A i \in 1..n : t[i] = i
    BY <1>1, <2>1, <2>2
  <2> QED BY <2>3 DEF Begun
<1> QED BY <1>1, <1>2, <1>3, <1>4, <1>5 DEF t

\* Closing puts the end mark, where there is room, behind all events
\* (_RunChannel.close).
LEMMA CloseStep == ASSUME BInv, CloseRun PROVE BInv'
<1> DEFINE told == {r \in Subscribers : Len(subscribed[r]) < QueueSize}
<1>0. /\ phase = "open" /\ phase' = "closed" /\ UNCHANGED <<sent, replay, reading, streamed, got, connects, gap>>
      /\ subscribed' = [r \in Readers |-> IF r \in told THEN Append(subscribed[r], EndMark) ELSE subscribed[r]]
  BY DEF CloseRun
<1>1. \A r \in Readers : /\ subscribed[r] \in Seq(Nat) /\ Len(subscribed[r]) \in Nat
                         /\ Append(subscribed[r], EndMark) \in Seq(Nat)
                         /\ Len(Append(subscribed[r], EndMark)) = Len(subscribed[r]) + 1
  BY DEF BInv, BTypes
<1>2. \A r \in Readers : Len(subscribed'[r]) <= QueueSize
  BY <1>0, <1>1, BusSizes DEF BInv, BTypes
<1>3. BTypes'
  BY <1>0, <1>1, <1>2 DEF BInv, BTypes
<1>4. Buffered'
  BY <1>0 DEF BInv, Buffered
<1>5. ASSUME NEW r \in Readers PROVE InLine(r)'
  <2>1. /\ InLine(r) /\ Open(All(r)) /\ reading[r] # "ended" /\ All(r) \in Seq(Nat) /\ sent \in Nat
        /\ got[r] \in Seq(Nat) /\ streamed[r] \in Seq(Nat) /\ subscribed[r] \in Seq(Nat)
    BY <1>0, AllIs DEF BInv, InLine
  <2>2. CASE r \in told
    <3> DEFINE g == got[r]
               l == streamed[r]
               q == subscribed[r]
               s == All(r)
    <3>1. subscribed'[r] = Append(q, EndMark) /\ reading[r] = "reading"
      BY <1>0, <2>2 DEF Subscribers
    <3>2. g \in Seq(Nat) /\ l \in Seq(Nat) /\ q \in Seq(Nat) /\ EndMark \in Nat
      BY <2>1
    <3>3. s = g \o (l \o q) /\ All(r)' = g \o (l \o Append(q, EndMark))
      BY <1>0, <3>1 DEF All, Line
    <3> HIDE DEF g, l, q, s
    <3>4. g \o (l \o Append(q, EndMark)) = Append(g \o (l \o q), EndMark)
      BY <3>2, PutAtTheEnd
    <3>5. All(r)' = Append(s, EndMark)
      BY <3>3, <3>4
    <3>6. s \in Seq(Nat) /\ Climbs(s) /\ Open(s) /\ AtMost(s, sent)
      BY <2>1 DEF InLine, s
    <3>7. /\ Climbs(All(r)') /\ AtMost(All(r)', sent)
          /\ Prefix(s) => Prefix(All(r)')
          /\ Begun(s, sent) => Begun(All(r)', sent)
      BY <2>1, <3>5, <3>6, Ends
    <3> QED BY <1>0, <2>1, <3>1, <3>7 DEF InLine, s
  <2>3. CASE r \notin told
    <3>1. subscribed'[r] = subscribed[r]
      BY <1>0, <2>3
    <3> QED BY <1>0, <2>1, <3>1, QuietReader
  <2> QED BY <2>2, <2>3
<1> QED BY <1>3, <1>4, <1>5 DEF BInv

\* Discarding a closed run changes no queue (EventBus.discard).
LEMMA DiscardStep == ASSUME BInv, DiscardRun PROVE BInv'
<1>1. BTypes'
  BY DEF BInv, BTypes, DiscardRun
<1>2. Buffered'
  BY DEF BInv, Buffered, DiscardRun
<1>3. \A r \in Readers : InLine(r)'
  BY QuietReader DEF BInv, DiscardRun
<1> QED BY <1>1, <1>2, <1>3 DEF BInv

\* Who a step is not about.
LEMMA OtherReaders ==
  ASSUME BInv, NEW r \in Readers, sent' = sent, phase' = phase,
         \A u \in Readers : u # r =>
            /\ got'[u] = got[u] /\ streamed'[u] = streamed[u] /\ subscribed'[u] = subscribed[u]
            /\ reading'[u] = reading[u] /\ (u \notin gap' => u \notin gap),
         InLine(r)'
  PROVE  \A u \in Readers : InLine(u)'
<1>1. ASSUME NEW u \in Readers, u # r PROVE InLine(u)'
  BY <1>1, QuietReader DEF BInv
<1> QED BY <1>1

\* The pump moves an event from one queue of a reader to the other, which its line
\* does not show (event_stream).
LEMMA PumpStep == ASSUME BInv, NEW r \in Readers, Pump(r) PROVE BInv'
<1> DEFINE l == streamed[r]
           q == subscribed[r]
<1>0. /\ q # <<>> /\ Len(l) < StreamSize
      /\ streamed' = [streamed EXCEPT ![r] = Append(l, Head(q))]
      /\ subscribed' = [subscribed EXCEPT ![r] = Tail(q)]
      /\ UNCHANGED <<sent, replay, phase, reading, got, connects, gap>>
  BY DEF Pump
<1>1. BTypes /\ l \in Seq(Nat) /\ q \in Seq(Nat) /\ got[r] \in Seq(Nat) /\ Len(q) <= QueueSize
  BY DEF BInv, BTypes
<1>2. /\ streamed'[r] = Append(l, Head(q)) /\ subscribed'[r] = Tail(q)
      /\ \A u \in Readers : u # r => streamed'[u] = streamed[u] /\ subscribed'[u] = subscribed[u]
  BY <1>0, <1>1 DEF BTypes
<1> HIDE DEF l, q
<1>3. /\ Head(q) \in Nat /\ Tail(q) \in Seq(Nat) /\ Len(Tail(q)) = Len(q) - 1 /\ Len(q) \in Nat
      /\ Append(l, Head(q)) \in Seq(Nat) /\ Len(Append(l, Head(q))) = Len(l) + 1 /\ Len(l) \in Nat
  BY <1>0, <1>1
<1>4. BTypes'
  <2>1. streamed' \in [Readers -> Seq(Nat)] /\ subscribed' \in [Readers -> Seq(Nat)]
    BY <1>0, <1>1, <1>3 DEF BTypes
  <2>2. \A u \in Readers : Len(subscribed'[u]) <= QueueSize /\ Len(streamed'[u]) <= StreamSize
    <3>1. Len(subscribed'[r]) <= QueueSize
      BY <1>1, <1>2, <1>3, BusSizes
    <3>2. Len(streamed'[r]) <= StreamSize
      BY <1>0, <1>2, <1>3, BusSizes
    <3> QED BY <1>1, <1>2, <3>1, <3>2 DEF BTypes
  <2> QED BY <1>0, <1>1, <2>1, <2>2 DEF BTypes
<1>5. All(r)' = All(r)
  <2>1. Append(l, Head(q)) \o Tail(q) = l \o q
    BY <1>0, <1>1, MoveHead
  <2> QED BY <1>0, <1>2, <2>1 DEF All, Line, l, q
<1>6. InLine(r)'
  <2>1. InLine(r) /\ reading[r] = "reading"
    BY <1>0 DEF BInv, InLine, q
  <2> QED BY <1>0, <1>5, <2>1 DEF InLine
<1>7. Buffered'
  BY <1>0 DEF BInv, Buffered
<1>8. \A u \in Readers : InLine(u)'
  BY <1>0, <1>2, <1>6, OtherReaders
<1> QED BY <1>4, <1>7, <1>8 DEF BInv

\* What is delivered goes from the line to the client.
LEMMA TakeHead ==
  ASSUME NEW g \in Seq(Nat), NEW s \in Seq(Nat), NEW q \in Seq(Nat), s # <<>>
  PROVE  g \o (s \o q) = Append(g, Head(s)) \o (Tail(s) \o q)
<1> DEFINE h == Head(s)
           u == Tail(s)
<1>1. h \in Nat /\ u \in Seq(Nat) /\ <<h>> \in Seq(Nat) /\ s = <<h>> \o u
  OBVIOUS
<1> HIDE DEF h, u
<1>2. Append(g, h) = g \o <<h>> /\ Append(g, h) \in Seq(Nat)
  BY <1>1, AppendIsConcat
<1>3. (<<h>> \o u) \o q = <<h>> \o (u \o q)
  BY <1>1, Regroup
<1>4. u \o q \in Seq(Nat)
  BY <1>1, Concat
<1> DEFINE w == u \o q
           k == <<h>>
<1> HIDE DEF w, k
<1>5. (g \o k) \o w = g \o (k \o w)
  <2>1. w \in Seq(Nat) /\ k \in Seq(Nat)
    BY <1>1, <1>4 DEF w, k
  <2> QED BY <2>1, Regroup
<1>6. g \o (s \o q) = Append(g, h) \o w
  BY <1>1, <1>2, <1>3, <1>5 DEF w, k
<1> QED BY <1>6 DEF h, u, w

\* A delivered event is got, in the order of the line; the end mark is last, so a
\* stream that ended has nothing left to show (event_stream).
LEMMA DeliverStep == ASSUME BInv, NEW r \in Readers, Deliver(r) PROVE BInv'
<1> DEFINE g == got[r]
           l == streamed[r]
           q == subscribed[r]
           h == Head(l)
           u == Tail(l)
<1>0. /\ l # <<>> /\ streamed' = [streamed EXCEPT ![r] = u]
      /\ UNCHANGED <<sent, replay, phase, subscribed, connects, gap>>
      /\ \/ h = EndMark /\ reading' = [reading EXCEPT ![r] = "ended"] /\ UNCHANGED got
         \/ h # EndMark /\ got' = [got EXCEPT ![r] = Append(g, h)] /\ UNCHANGED reading
  BY DEF Deliver
<1>1. /\ BTypes /\ g \in Seq(Nat) /\ l \in Seq(Nat) /\ q \in Seq(Nat) /\ sent \in Nat
      /\ Len(l) <= StreamSize /\ InLine(r)
  BY AllIs DEF BInv, BTypes
<1>2. /\ streamed'[r] = u /\ subscribed'[r] = q
      /\ \A v \in Readers : v # r =>
           /\ streamed'[v] = streamed[v] /\ got'[v] = got[v] /\ reading'[v] = reading[v]
  BY <1>0, <1>1 DEF BTypes
<1>9. (h # EndMark => got'[r] = Append(g, h)) /\ (h = EndMark => reading'[r] = "ended" /\ got'[r] = g)
  BY <1>0, <1>1 DEF BTypes
<1>3. All(r) = g \o (l \o q) /\ All(r)' = got'[r] \o (u \o q)
  BY <1>0, <1>2 DEF All, Line
<1>4. /\ h \in Nat /\ u \in Seq(Nat) /\ Append(g, h) \in Seq(Nat)
      /\ g \o (l \o q) = Append(g, h) \o (u \o q)
      /\ Len(u) = Len(l) - 1 /\ Len(l) \in Nat
  <2> HIDE DEF g, l, q, h, u
  <2>1. /\ Head(l) \in Nat /\ Tail(l) \in Seq(Nat) /\ Append(g, Head(l)) \in Seq(Nat)
        /\ g \o (l \o q) = Append(g, Head(l)) \o (Tail(l) \o q)
    <3>1. l # <<>> /\ g \in Seq(Nat) /\ l \in Seq(Nat) /\ q \in Seq(Nat)
      BY <1>0, <1>1
    <3>2. Head(l) \in Nat /\ Tail(l) \in Seq(Nat) /\ Append(g, Head(l)) \in Seq(Nat)
      BY <3>1
    <3>3. g \o (l \o q) = Append(g, Head(l)) \o (Tail(l) \o q)
      BY <3>1, TakeHead
    <3> QED BY <3>2, <3>3
  <2>2. Len(Tail(l)) = Len(l) - 1 /\ Len(l) \in Nat
    BY <1>0, <1>1
  <2> QED BY <2>1, <2>2 DEF h, u
<1>5. BTypes'
  <2>1. streamed' \in [Readers -> Seq(Nat)] /\ got' \in [Readers -> Seq(Nat)]
    <3> HIDE DEF u, h
    <3> QED BY <1>0, <1>1, <1>4 DEF BTypes
  <2>2. \A v \in Readers : Len(streamed'[v]) <= StreamSize
    <3> HIDE DEF u
    <3>1. Len(streamed'[r]) <= StreamSize
      BY <1>1, <1>2, <1>4, BusSizes
    <3> QED BY <1>1, <1>2, <3>1 DEF BTypes
  <2>3. reading' \in [Readers -> {"away", "reading", "fresh", "ended"}]
    BY <1>0, <1>1 DEF BTypes
  <2> QED BY <1>0, <1>1, <2>1, <2>2, <2>3 DEF BTypes
<1>6. InLine(r)'
  <2>0. reading[r] = "reading"
    BY <1>0, <1>1 DEF InLine
  <2>1. CASE h # EndMark
    <3>1. All(r)' = All(r)
      BY <1>3, <1>4, <1>9, <2>1
    <3>2. Open(got[r])' /\ reading' = reading
      <4>1. Open(g)
        BY <1>1 DEF InLine
      <4> DEFINE t == Append(g, h)
      <4>2. /\ Len(t) = Len(g) + 1 /\ t[Len(g) + 1] = h
            /\ \A i \in 1..Len(g) : t[i] = g[i]
            /\ \A i \in 1..Len(t) : i \in 1..Len(g) \/ i = Len(g) + 1
        <5> HIDE DEF g, h
        <5> QED BY <1>1, <1>4, AppendIs
      <4>3. got'[r] = t
        BY <1>9, <2>1
      <4> HIDE DEF t, g, h
      <4>4. Open(t)
        BY <2>1, <4>1, <4>2 DEF Open
      <4> QED BY <1>0, <2>1, <4>3, <4>4
    <3> QED BY <1>0, <1>1, <2>0, <3>1, <3>2 DEF InLine
  <2>2. CASE h = EndMark
    <3> DEFINE w == u \o q
               a == Append(g, h)
               s == a \o w
    <3>1. /\ w \in Seq(Nat) /\ Len(w) = Len(u) + Len(q) /\ Len(u) \in Nat /\ Len(q) \in Nat
      <4> HIDE DEF u, q
      <4> QED BY <1>1, <1>4, Concat
    <3>2. a \in Seq(Nat) /\ Len(a) = Len(g) + 1 /\ a[Len(g) + 1] = h /\ Len(g) \in Nat
          /\ \A i \in 1..Len(g) : a[i] = g[i]
      <4> HIDE DEF g, h
      <4> QED BY <1>1, <1>4, AppendIs
    <3>3. s = All(r) /\ Climbs(s) /\ AtMost(s, sent)
      BY <1>1, <1>3, <1>4 DEF InLine
    <3> HIDE DEF w, a
    <3>4. /\ Len(s) = Len(a) + Len(w) /\ Len(w) \in Nat /\ \A i \in 1..Len(a) : s[i] = a[i]
      BY <3>1, <3>2, Concat
    <3> HIDE DEF s, g, h
    <3>5. Len(g) + 1 \in 1..Len(s) /\ s[Len(g) + 1] = EndMark
      BY <2>2, <3>2, <3>4
    <3>6. Len(s) = Len(g) + 1
      <4>1. Len(s) \in 1..Len(s) /\ ~(Len(g) + 1 < Len(s))
        BY <3>2, <3>3, <3>4, <3>5 DEF Climbs
      <4> QED BY <3>2, <3>4, <3>5, <4>1
    <3>7. Len(u) = 0 /\ Len(q) = 0
      <4> HIDE DEF u, q
      <4>1. Len(w) = 0
        BY <3>2, <3>4, <3>6
      <4>2. Len(w) = Len(u) + Len(q)
        BY <3>1, Zenon
      <4>3. Len(u) \in Nat
        BY <3>1, Zenon
      <4>4. Len(q) \in Nat
        BY <3>1, Zenon
      <4> QED BY <4>1, <4>2, <4>3, <4>4, SMTT(30)
    <3>8. u = <<>> /\ q = <<>>
      <4> HIDE DEF u, q
      <4> QED BY <1>1, <1>4, <3>7, EmptySeq
    <3>9. All(r)' = g /\ got'[r] = g
      <4>1. <<>> \o <<>> = <<>> /\ g \o <<>> = g /\ <<>> \in Seq(Nat)
        BY <1>1, WithNothing
      <4> QED BY <1>3, <1>9, <2>2, <3>8, <4>1
    <3>10. \A i \in 1..Len(g) : i \in 1..Len(s) /\ s[i] = g[i]
      BY <3>2, <3>4, <3>6
    <3>11. Climbs(g) /\ AtMost(g, sent) /\ (Prefix(s) => Prefix(g))
      BY <3>3, <3>10 DEF Climbs, AtMost, Prefix
    <3>12. Begun(s, sent) => Begun(g, sent)
      <4> SUFFICES ASSUME Begun(s, sent) PROVE Begun(g, sent)
        OBVIOUS
      <4>1. sent # Len(g) + 1
        BY <3>2, <3>5 DEF Begun
      <4>2. sent <= Len(g)
        BY <1>1, <3>2, <3>6, <4>1 DEF Begun
      <4>3. ASSUME NEW i \in 1..sent PROVE g[i] = i
        <5>1. i \in 1..Len(g)
          BY <1>1, <3>2, <4>2
        <5>2. s[i] = i
          BY DEF Begun
        <5> QED BY <3>10, <5>1, <5>2
      <4> QED BY <4>2, <4>3 DEF Begun
    <3>13. phase # "open"
      BY <1>1, <3>3, <3>5 DEF InLine, Open
    <3>14. Open(g) /\ (r \notin gap => Prefix(s) /\ Begun(s, sent))
      BY <1>1, <2>0, <3>3 DEF InLine, g
    <3>15. reading'[r] = "ended"
      BY <1>9, <2>2
    <3> QED BY <1>0, <1>2, <3>8, <3>9, <3>11, <3>12, <3>13, <3>14, <3>15 DEF InLine
  <2> QED BY <2>1, <2>2
<1>7. Buffered'
  BY <1>0 DEF BInv, Buffered
<1>8. \A v \in Readers : InLine(v)'
  BY <1>0, <1>2, <1>6, OtherReaders
<1> QED BY <1>5, <1>7, <1>8 DEF BInv

\* A client that leaves keeps what it got, and its queues are gone (event_stream).
LEMMA DisconnectStep == ASSUME BInv, NEW r \in Readers, Disconnect(r) PROVE BInv'
<1>0. /\ reading' = [reading EXCEPT ![r] = "away"]
      /\ subscribed' = [subscribed EXCEPT ![r] = <<>>]
      /\ streamed' = [streamed EXCEPT ![r] = <<>>]
      /\ UNCHANGED <<sent, replay, phase, got, connects, gap>>
  BY DEF Disconnect
<1>1. /\ BTypes /\ got[r] \in Seq(Nat) /\ Line(r) \in Seq(Nat) /\ sent \in Nat /\ InLine(r)
      /\ <<>> \in Seq(Nat) /\ Len(<<>>) = 0
  BY AllIs DEF BInv
<1>2. /\ streamed'[r] = <<>> /\ subscribed'[r] = <<>> /\ reading'[r] = "away" /\ got'[r] = got[r]
      /\ \A v \in Readers : v # r =>
           /\ streamed'[v] = streamed[v] /\ subscribed'[v] = subscribed[v] /\ reading'[v] = reading[v]
  BY <1>0, <1>1 DEF BTypes
<1>3. BTypes'
  BY <1>0, <1>1, <1>2, BusSizes DEF BTypes
<1>4. All(r)' = got[r]
  <2>1. <<>> \o <<>> = <<>> /\ got[r] \o <<>> = got[r]
    BY <1>1, WithNothing
  <2> QED BY <1>2, <2>1 DEF All, Line
<1>5. Climbs(got[r]) /\ AtMost(got[r], sent) /\ (Prefix(All(r)) => Prefix(got[r]))
  <2> DEFINE g == got[r]
             w == Line(r)
  <2>1. g \in Seq(Nat) /\ w \in Seq(Nat) /\ Climbs(g \o w) /\ AtMost(g \o w, sent) /\ All(r) = g \o w
    BY <1>1 DEF InLine, All
  <2> HIDE DEF g, w
  <2>2. Climbs(g) /\ AtMost(g, sent) /\ (Prefix(g \o w) => Prefix(g))
    BY <1>1, <2>1, FrontClimbs
  <2> QED BY <2>1, <2>2 DEF g
<1>6. InLine(r)'
  BY <1>0, <1>1, <1>2, <1>4, <1>5 DEF InLine
<1>7. Buffered'
  BY <1>0 DEF BInv, Buffered
<1>8. \A v \in Readers : InLine(v)'
  BY <1>0, <1>2, <1>6, OtherReaders
<1> QED BY <1>3, <1>7, <1>8 DEF BInv

\* A reader of a discarded run gets an empty channel (EventBus._channel).
LEMMA LateStep == ASSUME BInv, NEW r \in Readers, ConnectLate(r) PROVE BInv'
<1>0. /\ phase = "discarded" /\ reading[r] \in {"away", "ended"}
      /\ reading' = [reading EXCEPT ![r] = "fresh"] /\ connects' = [connects EXCEPT ![r] = @ + 1]
      /\ UNCHANGED <<sent, replay, phase, subscribed, streamed, got, gap>>
  BY DEF ConnectLate
<1>1. BTypes /\ InLine(r)
  BY DEF BInv
<1>2. reading'[r] = "fresh" /\ \A v \in Readers : v # r => reading'[v] = reading[v]
  BY <1>0, <1>1 DEF BTypes
<1>3. BTypes'
  BY <1>0, <1>1 DEF BTypes
<1>4. All(r)' = All(r)
  BY <1>0 DEF All, Line
<1>6. InLine(r)'
  BY <1>0, <1>1, <1>2, <1>4 DEF InLine
<1>7. Buffered'
  BY <1>0 DEF BInv, Buffered
<1>8. \A v \in Readers : InLine(v)'
  BY <1>0, <1>2, <1>6, OtherReaders
<1> QED BY <1>3, <1>7, <1>8 DEF BInv

-----------------------------------------------------------------------------
(***************************************************************************)
(* Connecting.                                                             *)
(***************************************************************************)

\* What the buffer still holds of what a client has not seen is in order, and later.
LEMMA MissedIs ==
  ASSUME BInv, NEW after \in Nat
  PROVE  /\ Missed(after) \in Seq(Nat)
         /\ Climbs(Missed(after)) /\ Open(Missed(after)) /\ AtMost(Missed(after), sent)
         /\ \A i \in 1..Len(Missed(after)) : Missed(after)[i] > after
<1> DEFINE A == {e \in Nat : e > after}
           K == Kept(replay, A)
<1>1. replay \in Seq(Nat) /\ Climbs(replay) /\ Open(replay) /\ AtMost(replay, sent)
  BY DEF BInv, BTypes, Buffered
<1>2. K \in Seq(Nat \cap A)
  BY <1>1, KeptType
<1>3. \A i \in 1..Len(K) : \E k \in 1..Len(replay) : K[i] = replay[k]
  <2> HIDE DEF A
  <2> QED BY <1>1, KeptInOrder
<1>4. ASSUME NEW i \in 1..Len(K), NEW j \in 1..Len(K), i < j
      PROVE  \E k, l \in 1..Len(replay) : k < l /\ K[i] = replay[k] /\ K[j] = replay[l]
  <2>1. \A m, n \in 1..Len(Kept(replay, A)) : m < n =>
           \E k, l \in 1..Len(replay) : k < l /\ Kept(replay, A)[m] = replay[k] /\ Kept(replay, A)[n] = replay[l]
    <3> HIDE DEF A
    <3> QED BY <1>1, KeptInOrder
  <2> QED BY <1>4, <2>1
<1>5. Missed(after) = K
  BY DEF Missed
<1> HIDE DEF K
<1>6. K \in Seq(Nat)
  BY <1>2, SeqMonotonic, Nat \cap A \subseteq Nat
<1>7. \A i \in 1..Len(K) : K[i] > after
  BY <1>2
<1>8. Climbs(K)
  <2> SUFFICES ASSUME NEW i \in 1..Len(K), NEW j \in 1..Len(K), i < j
               PROVE  K[i] # EndMark /\ (K[j] = EndMark \/ K[i] < K[j])
    BY DEF Climbs
  <2>1. PICK k \in 1..Len(replay), l \in 1..Len(replay) : k < l /\ K[i] = replay[k] /\ K[j] = replay[l]
    BY <1>4
  <2> QED BY <1>1, <2>1 DEF Climbs
<1>9. Open(K) /\ AtMost(K, sent)
  BY <1>1, <1>3 DEF Open, AtMost
<1> QED BY <1>5, <1>6, <1>7, <1>8, <1>9

\* A part from the beginning, as much as fits.
LEMMA TakenIs ==
  ASSUME NEW s \in Seq(Nat), NEW n \in Nat, NEW m \in Nat, Climbs(s), Open(s), AtMost(s, m)
  PROVE  LET t == SubSeq(s, 1, IF Len(s) < n THEN Len(s) ELSE n)
         IN  /\ t \in Seq(Nat) /\ Len(t) \in Nat /\ Len(t) <= n /\ Len(t) <= Len(s)
             /\ \A i \in 1..Len(t) : t[i] = s[i]
             /\ Climbs(t) /\ Open(t) /\ AtMost(t, m)
<1> DEFINE k == IF Len(s) < n THEN Len(s) ELSE n
           t == SubSeq(s, 1, k)
<1>1. k \in Nat /\ k <= n /\ k <= Len(s) /\ Len(s) \in Nat
  OBVIOUS
<1> HIDE DEF k
<1>2. \A i \in 1..k : s[i] \in Nat
  BY <1>1
<1>3. t \in Seq(Nat) /\ Len(t) = k /\ \A i \in 1..k : t[i] = s[i]
  BY <1>1, <1>2
<1> HIDE DEF t
<1>4. \A i \in 1..Len(t) : i \in 1..Len(s) /\ t[i] = s[i]
  BY <1>1, <1>3
<1>5. Climbs(t)
  BY <1>1, <1>3, <1>4 DEF Climbs
<1>6. Open(t) /\ AtMost(t, m)
  BY <1>1, <1>3, <1>4 DEF Open, AtMost
<1> QED BY <1>1, <1>3, <1>4, <1>5, <1>6 DEF t, k

\* Two parts of which the second comes later.
LEMMA JoinClimbs ==
  ASSUME NEW s \in Seq(Nat), NEW t \in Seq(Nat), NEW n \in Nat,
         Climbs(s), Open(s), AtMost(s, n), Climbs(t), Open(t), AtMost(t, n),
         \A i \in 1..Len(s) : \A j \in 1..Len(t) : s[i] < t[j]
  PROVE  Climbs(s \o t) /\ Open(s \o t) /\ AtMost(s \o t, n)
<1> DEFINE u == s \o t
<1>1. /\ Len(u) = Len(s) + Len(t) /\ Len(s) \in Nat /\ Len(t) \in Nat
      /\ \A i \in 1..Len(s) : u[i] = s[i]
      /\ \A i \in 1..Len(u) : i \notin 1..Len(s) => i - Len(s) \in 1..Len(t) /\ u[i] = t[i - Len(s)]
  BY Concat
<1> HIDE DEF u
<1>2. ASSUME NEW i \in 1..Len(u) PROVE u[i] # EndMark /\ u[i] <= n
  BY <1>1 DEF Open, AtMost
<1>3. ASSUME NEW i \in 1..Len(u), NEW j \in 1..Len(u), i < j PROVE u[i] < u[j]
  <2>1. CASE i \in 1..Len(s) /\ j \in 1..Len(s)
    <3>1. s[j] # EndMark
      BY <2>1 DEF Open
    <3> QED BY <1>1, <1>3, <2>1, <3>1 DEF Climbs
  <2>2. CASE i \in 1..Len(s) /\ j \notin 1..Len(s)
    BY <1>1, <2>2
  <2>3. CASE i \notin 1..Len(s)
    <3>1. PICK k \in 1..Len(t) : k = i - Len(s) /\ u[i] = t[k]
      BY <1>1, <2>3
    <3>2. j \notin 1..Len(s)
      BY <1>1, <1>3, <2>3
    <3>3. PICK l \in 1..Len(t) : l = j - Len(s) /\ u[j] = t[l]
      BY <1>1, <3>2
    <3>4. k < l /\ t[l] # EndMark
      BY <1>1, <1>3, <3>1, <3>3 DEF Open
    <3> QED BY <3>1, <3>3, <3>4 DEF Climbs
  <2> QED BY <2>1, <2>2, <2>3
<1>4. Climbs(u) /\ Open(u) /\ AtMost(u, n)
  BY <1>2, <1>3 DEF Climbs, Open, AtMost
<1> QED BY <1>4 DEF u

\* A client that has seen everything up to some event, and gets everything after it.
LEMMA JoinWhole ==
  ASSUME NEW s \in Seq(Nat), NEW n \in Nat, Len(s) <= n, \A i \in 1..Len(s) : s[i] = i,
         NEW t \in Seq(Nat), t = [k \in 1..(n - Len(s)) |-> Len(s) + k]
  PROVE  Prefix(s \o t) /\ Begun(s \o t, n)
<1> DEFINE u == s \o t
<1>1. /\ Len(u) = Len(s) + Len(t) /\ Len(s) \in Nat /\ Len(t) \in Nat
      /\ \A i \in 1..Len(s) : u[i] = s[i]
      /\ \A i \in 1..Len(u) : i \notin 1..Len(s) => i - Len(s) \in 1..Len(t) /\ u[i] = t[i - Len(s)]
  BY Concat
<1>2. Len(t) = n - Len(s)
  <2>1. DOMAIN t = 1..Len(t) /\ DOMAIN t = 1..(n - Len(s)) /\ n - Len(s) \in Nat
    BY <1>1
  <2> QED BY <1>1, <2>1
<1> HIDE DEF u
<1>3. ASSUME NEW i \in 1..Len(u) PROVE u[i] = i
  <2>1. CASE i \in 1..Len(s)
    BY <1>1, <2>1
  <2>2. CASE i \notin 1..Len(s)
    <3>1. PICK k \in 1..Len(t) : k = i - Len(s) /\ u[i] = t[k]
      BY <1>1, <2>2
    <3>2. t[k] = Len(s) + k
      BY <1>2
    <3> QED BY <1>1, <3>1, <3>2
  <2> QED BY <2>1, <2>2
<1>4. Prefix(u) /\ Begun(u, n)
  BY <1>1, <1>2, <1>3 DEF Prefix, Begun
<1> QED BY <1>4 DEF u

\* The last event a client got is the greatest it has.
LEMMA LastIs ==
  ASSUME BInv, NEW r \in Readers
  PROVE  /\ LastGot(r) \in Nat /\ LastGot(r) <= sent
         /\ \A i \in 1..Len(got[r]) : got[r][i] <= LastGot(r)
         /\ Climbs(got[r]) /\ AtMost(got[r], sent) /\ Open(got[r])
         /\ Prefix(got[r]) => LastGot(r) = Len(got[r]) /\ \A i \in 1..Len(got[r]) : got[r][i] = i
<1> DEFINE g == got[r]
           w == Line(r)
<1>1. g \in Seq(Nat) /\ w \in Seq(Nat) /\ sent \in Nat /\ Len(g) \in Nat /\ InLine(r)
  BY AllIs DEF BInv
<1>2. Climbs(g \o w) /\ AtMost(g \o w, sent) /\ Open(g)
  BY <1>1 DEF InLine, All
<1>3. LastGot(r) = IF g = <<>> THEN 0 ELSE g[Len(g)]
  BY <1>1 DEF LastGot, Last
<1> HIDE DEF g, w
<1>4. Climbs(g) /\ AtMost(g, sent)
  BY <1>1, <1>2, FrontClimbs
<1>5. CASE g = <<>>
  <2>1. Len(g) = 0 /\ LastGot(r) = 0
    BY <1>3, <1>5
  <2> QED BY <1>1, <1>2, <1>4, <2>1 DEF g
<1>6. CASE g # <<>>
  <2>1. Len(g) \in 1..Len(g) /\ LastGot(r) = g[Len(g)] /\ \A i \in 1..Len(g) : g[i] \in Nat
    BY <1>1, <1>3, <1>6, EmptySeq
  <2>2. LastGot(r) \in Nat /\ LastGot(r) <= sent /\ g[Len(g)] # EndMark
    BY <1>2, <1>4, <2>1 DEF AtMost, Open
  <2>3. ASSUME NEW i \in 1..Len(g) PROVE g[i] <= LastGot(r)
    <3>1. CASE i = Len(g)
      BY <2>1, <3>1
    <3>2. CASE i < Len(g)
      BY <1>4, <2>1, <2>2, <3>2 DEF Climbs
    <3> QED BY <1>1, <3>1, <3>2
  <2>4. Prefix(g) => LastGot(r) = Len(g) /\ \A i \in 1..Len(g) : g[i] = i
    BY <1>2, <2>1 DEF Prefix, Open
  <2> QED BY <1>2, <1>4, <2>2, <2>3, <2>4 DEF g
<1> QED BY <1>5, <1>6

\* A reconnecting client is given events later than its last one, in order; it is
\* in the gap unless they are all of those (_RunChannel.subscribe).
LEMMA ConnectStep == ASSUME BInv, NEW r \in Readers, Connect(r) PROVE BInv'
<1> DEFINE g == got[r]
           after == LastGot(r)
           missed == Missed(after)
           taken == SubSeq(missed, 1, IF Len(missed) < QueueSize THEN Len(missed) ELSE QueueSize)
           full == phase = "closed" /\ Len(taken) = QueueSize
           q == IF full THEN <<>>
                ELSE IF phase = "closed" THEN Append(taken, EndMark) ELSE taken
           l == IF full THEN <<EndMark>> ELSE <<>>
<1>0. /\ subscribed' = [subscribed EXCEPT ![r] = q] /\ streamed' = [streamed EXCEPT ![r] = l]
      /\ reading' = [reading EXCEPT ![r] = "reading"] /\ connects' = [connects EXCEPT ![r] = @ + 1]
      /\ gap' = IF full \/ taken # [n \in 1..(sent - after) |-> after + n]
                THEN gap \cup {r} ELSE gap
      /\ reading[r] \in {"away", "ended"} /\ phase # "discarded"
      /\ UNCHANGED <<sent, replay, phase, got>>
  BY Zenon DEF Connect
<1>1. /\ BTypes /\ g \in Seq(Nat) /\ Len(g) \in Nat /\ sent \in Nat /\ InLine(r) /\ QueueSize \in Nat
  BY AllIs, BusSizes DEF BInv
<1>2. /\ after \in Nat /\ after <= sent /\ (\A i \in 1..Len(g) : g[i] <= after)
      /\ Climbs(g) /\ AtMost(g, sent) /\ Open(g)
      /\ Prefix(g) => after = Len(g) /\ \A i \in 1..Len(g) : g[i] = i
  BY LastIs
<1> HIDE DEF after
<1>3. /\ missed \in Seq(Nat) /\ Climbs(missed) /\ Open(missed) /\ AtMost(missed, sent)
      /\ \A i \in 1..Len(missed) : missed[i] > after
  BY <1>2, MissedIs
<1> HIDE DEF missed
<1>4. /\ taken \in Seq(Nat) /\ Len(taken) \in Nat /\ Len(taken) <= QueueSize /\ Len(taken) <= Len(missed)
      /\ \A i \in 1..Len(taken) : taken[i] = missed[i]
      /\ Climbs(taken) /\ Open(taken) /\ AtMost(taken, sent)
  BY <1>1, <1>3, TakenIs
<1>5. \A i \in 1..Len(taken) : taken[i] > after
  <2>1. Len(missed) \in Nat
    BY <1>3
  <2> HIDE DEF taken
  <2> QED BY <1>3, <1>4, <2>1
<1> HIDE DEF taken
<1> DEFINE s == g \o taken
<1>6. s \in Seq(Nat) /\ Climbs(s) /\ Open(s) /\ AtMost(s, sent)
  <2>1. \A i \in 1..Len(g) : \A j \in 1..Len(taken) : g[i] < taken[j]
    <3>1. \A i \in 1..Len(g) : g[i] \in Nat
      BY <1>1
    <3>2. \A j \in 1..Len(taken) : taken[j] \in Nat
      BY <1>4
    <3> QED BY <1>2, <1>5, <3>1, <3>2
  <2> HIDE DEF g
  <2> QED BY <1>1, <1>2, <1>4, <2>1, JoinClimbs, Concat
<1>7. /\ streamed'[r] = l /\ subscribed'[r] = q /\ reading'[r] = "reading" /\ got'[r] = g
      /\ \A v \in Readers : v # r =>
           /\ streamed'[v] = streamed[v] /\ subscribed'[v] = subscribed[v] /\ reading'[v] = reading[v]
  <2> HIDE DEF q, l
  <2> QED BY <1>0, <1>1 DEF BTypes
<1>8. q \in Seq(Nat) /\ Len(q) <= QueueSize /\ l \in Seq(Nat) /\ Len(l) <= StreamSize
  <2>1. CASE full
    <3>1. q = <<>> /\ l = <<EndMark>> /\ Len(q) = 0 /\ Len(l) = 1 /\ q \in Seq(Nat) /\ l \in Seq(Nat)
      BY <2>1
    <3> QED BY <3>1, BusSizes
  <2>2. CASE ~full
    <3>1. l = <<>> /\ Len(l) = 0 /\ l \in Seq(Nat)
      BY <2>2
    <3>2. CASE phase = "closed"
      <4>1. q = Append(taken, EndMark) /\ Len(taken) < QueueSize
        BY <1>1, <1>4, <2>2, <3>2
      <4>2. q \in Seq(Nat) /\ Len(q) = Len(taken) + 1
        <5>1. Append(taken, EndMark) \in Seq(Nat) /\ Len(Append(taken, EndMark)) = Len(taken) + 1
          BY <1>4, AppendIs
        <5> QED BY <4>1, <5>1
      <4> HIDE DEF q, l
      <4> QED BY <1>1, <1>4, <3>1, <4>1, <4>2, BusSizes
    <3>3. CASE phase # "closed"
      <4>1. q = taken
        BY <2>2, <3>3
      <4> HIDE DEF q, l
      <4> QED BY <1>4, <3>1, <4>1, BusSizes
    <3> QED BY <3>2, <3>3
  <2> QED BY <2>1, <2>2
<1>9. BTypes'
  <2> HIDE DEF q, l
  <2>1. /\ streamed' \in [Readers -> Seq(Nat)] /\ subscribed' \in [Readers -> Seq(Nat)]
        /\ reading' \in [Readers -> {"away", "reading", "fresh", "ended"}]
        /\ connects' \in [Readers -> Nat]
    BY <1>0, <1>1, <1>8 DEF BTypes
  <2>2. \A v \in Readers : Len(subscribed'[v]) <= QueueSize /\ Len(streamed'[v]) <= StreamSize
    BY <1>1, <1>7, <1>8 DEF BTypes
  <2> QED BY <1>0, <1>1, <2>1, <2>2 DEF BTypes
<1>10. All(r)' = g \o (l \o q)
  BY <1>7 DEF All, Line
<1>11. InLine(r)'
  <2>0. EndMark \in Nat /\ <<>> \in Seq(Nat) /\ <<>> \o <<>> = <<>>
    BY WithNothing
  <2>1. CASE full
    <3>1. All(r)' = Append(g, EndMark)
      <4>1. <<EndMark>> \o <<>> = <<EndMark>>
        OBVIOUS
      <4>2. g \o <<EndMark>> = Append(g, EndMark)
        <5> HIDE DEF g
        <5> QED BY <1>1, <2>0, AppendIsConcat
      <4> QED BY <1>10, <2>1, <4>1, <4>2
    <3>2. Climbs(All(r)') /\ AtMost(All(r)', sent)
      <4>1. Climbs(Append(g, EndMark)) /\ AtMost(Append(g, EndMark), sent)
        <5> HIDE DEF g
        <5> QED BY <1>1, <1>2, Ends
      <4> QED BY <3>1, <4>1
    <3>3. r \in gap' /\ phase' = "closed"
      BY <1>0, <2>1
    <3> QED BY <1>0, <1>2, <1>7, <3>2, <3>3 DEF InLine
  <2>2. CASE ~full
    <3>1. l = <<>> /\ q = IF phase = "closed" THEN Append(taken, EndMark) ELSE taken
      BY <2>2
    <3>2. <<>> \o q = q
      <4> HIDE DEF q
      <4> QED BY <1>8, WithNothing
    <3>3. All(r)' = IF phase = "closed" THEN Append(s, EndMark) ELSE s
      <4>1. g \o Append(taken, EndMark) = Append(g \o taken, EndMark)
        <5> HIDE DEF g
        <5> QED BY <1>1, <1>4, <2>0, ConcatAppend
      <4>2. All(r)' = g \o q
        BY <1>10, <3>1, <3>2
      <4> QED BY <3>1, <4>1, <4>2
    <3>4. ASSUME r \notin gap' PROVE Prefix(s) /\ Begun(s, sent)
      <4>1. r \notin gap /\ taken = [n \in 1..(sent - after) |-> after + n]
        BY <1>0, <2>2, <3>4
      <4>2. Prefix(g)
        <5>1. All(r) = g
          <6>1. streamed[r] = <<>> /\ subscribed[r] = <<>>
            BY <1>0, <1>1 DEF InLine
          <6>2. g \o <<>> = g
            <7> HIDE DEF g
            <7> QED BY <1>1, WithNothing
          <6> QED BY <2>0, <6>1, <6>2 DEF All, Line
        <5> QED BY <1>1, <4>1, <5>1 DEF InLine
      <4>3. after = Len(g) /\ \A i \in 1..Len(g) : g[i] = i
        BY <1>2, <4>2
      <4> HIDE DEF g
      <4> QED BY <1>1, <1>2, <1>4, <4>1, <4>3, JoinWhole
    <3> HIDE DEF s
    <3>5. /\ Climbs(All(r)') /\ AtMost(All(r)', sent)
          /\ phase # "closed" => Open(All(r)')
          /\ Prefix(s) => Prefix(All(r)')
          /\ Begun(s, sent) => Begun(All(r)', sent)
      <4>1. /\ Climbs(Append(s, EndMark)) /\ AtMost(Append(s, EndMark), sent)
            /\ Prefix(s) => Prefix(Append(s, EndMark))
            /\ Begun(s, sent) => Begun(Append(s, EndMark), sent)
        BY <1>1, <1>6, Ends
      <4> QED BY <1>6, <3>3, <4>1
    <3> QED BY <1>0, <1>2, <1>7, <3>4, <3>5 DEF InLine
  <2> QED BY <2>1, <2>2
<1>12. Buffered'
  BY <1>0 DEF BInv, Buffered
<1>13. \A v \in Readers : InLine(v)'
  <2>1. \A v \in Readers : v # r => (v \notin gap' => v \notin gap)
    BY <1>0
  <2> QED BY <1>0, <1>7, <1>11, <2>1, OtherReaders
<1> QED BY <1>9, <1>12, <1>13 DEF BInv

-----------------------------------------------------------------------------
(***************************************************************************)
(* All steps of the bus, and what its invariant means.                     *)
(***************************************************************************)

\* Every step of the bus, its readers and their clients keeps the invariant.
LEMMA BusStep == BInv /\ [BusNext]_busVars => BInv'
<1> SUFFICES ASSUME BInv, [BusNext]_busVars PROVE BInv'
  OBVIOUS
<1>1. CASE Publish
  BY <1>1, PublishStep
<1>2. CASE CloseRun
  BY <1>2, CloseStep
<1>3. CASE DiscardRun
  BY <1>3, DiscardStep
<1>4. ASSUME NEW r \in Readers, Connect(r) \/ ConnectLate(r) \/ Pump(r) \/ Deliver(r) \/ Disconnect(r)
      PROVE  BInv'
  BY <1>4, ConnectStep, LateStep, PumpStep, DeliverStep, DisconnectStep
<1>5. CASE UNCHANGED busVars
  <2>1. BTypes' /\ Buffered'
    BY <1>5 DEF BInv, BTypes, Buffered, busVars
  <2>2. \A r \in Readers : InLine(r)'
    BY <1>5, QuietReader DEF BInv, busVars
  <2> QED BY <2>1, <2>2 DEF BInv
<1> QED BY <1>1, <1>2, <1>3, <1>4, <1>5 DEF BusNext

\* Without the mark, which only stands at the end.
LEMMA EventsAre ==
  ASSUME NEW g \in Seq(Nat), NEW q \in Seq(Nat), Open(g), Climbs(g \o q)
  PROVE  \/ Events(q) = q /\ Open(q)
         \/ \E f \in Seq(Nat) : Events(q) = f /\ Open(f) /\ q = Append(f, EndMark)
<1> DEFINE u == g \o q
           A == Nat \ {EndMark}
<1>1. /\ Len(u) = Len(g) + Len(q) /\ Len(g) \in Nat /\ Len(q) \in Nat
      /\ \A i \in 1..Len(q) : u[Len(g) + i] = q[i]
  BY Concat
<1> HIDE DEF u
<1>2. \A i \in 1..Len(q) : i < Len(q) => q[i] # EndMark
  <2> SUFFICES ASSUME NEW i \in 1..Len(q), i < Len(q) PROVE q[i] # EndMark
    OBVIOUS
  <2>1. Len(g) + i \in 1..Len(u) /\ Len(u) \in 1..Len(u) /\ Len(g) + i < Len(u)
    BY <1>1
  <2>2. u[Len(g) + i] # EndMark
    BY <2>1 DEF Climbs, u
  <2> QED BY <1>1, <2>2
<1>3. CASE Open(q)
  <2>1. \A i \in 1..Len(q) : q[i] \in A
    BY <1>3 DEF Open
  <2> HIDE DEF A
  <2>2. Kept(q, A) = q
    BY <2>1, KeptWhole
  <2> QED BY <1>3, <2>2 DEF Events, A
<1>4. CASE ~Open(q)
  <2>1. PICK k \in 1..Len(q) : q[k] = EndMark
    BY <1>4 DEF Open
  <2>2. k = Len(q) /\ q # <<>>
    BY <1>1, <1>2, <2>1
  <2> DEFINE f == SubSeq(q, 1, Len(q) - 1)
  <2>3. f \in Seq(Nat) /\ Len(f) = Len(q) - 1 /\ \A i \in 1..Len(f) : f[i] = q[i]
    BY <1>1, <2>2
  <2>4. q = Append(f, EndMark)
    <3>1. q = Append(f, q[Len(q)])
      BY <2>2, <1>1
    <3> QED BY <2>1, <2>2, <3>1
  <2> HIDE DEF f
  <2>5. \A i \in 1..Len(f) : f[i] # EndMark /\ f[i] \in A
    <3>1. Len(f) = Len(q) - 1 /\ Len(q) \in Nat
      BY <1>1, <2>3
    <3>2. \A i \in 1..Len(f) : i \in 1..Len(q) /\ i < Len(q)
      BY <3>1
    <3>3. \A i \in 1..Len(f) : f[i] \in Nat
      BY <2>3
    <3> QED BY <1>2, <2>3, <3>2, <3>3
  <2>6. EndMark \in Nat /\ EndMark \notin A
    OBVIOUS
  <2>7. Open(f)
    BY <2>5 DEF Open
  <2> HIDE DEF A
  <2>8. Kept(f, A) = f
    BY <2>3, <2>5, KeptWhole
  <2>9. Kept(Append(f, EndMark), A) = IF EndMark \in A THEN Append(Kept(f, A), EndMark) ELSE Kept(f, A)
    BY <2>3, <2>6, KeptAppend
  <2>10. Events(q) = f
    BY <2>4, <2>6, <2>8, <2>9 DEF Events, A
  <2> QED BY <2>3, <2>4, <2>7, <2>10
<1> QED BY <1>3, <1>4

\* A line of events in order, without holes, up to the last one.
LEMMA UpToIs ==
  ASSUME NEW s \in Seq(Nat), NEW n \in Nat, Climbs(s), Open(s), AtMost(s, n), Prefix(s), Begun(s, n)
  PROVE  s = UpTo(n)
<1>1. \A i \in 1..Len(s) : s[i] = i
  BY DEF Prefix, Open
<1>2. Len(s) = n
  <2>1. Len(s) \in Nat /\ n <= Len(s)
    BY DEF Begun
  <2>2. Len(s) \in 1..Len(s) => Len(s) <= n
    BY <1>1 DEF AtMost
  <2> QED BY <2>1, <2>2
<1>3. DOMAIN s = 1..n /\ s = [i \in DOMAIN s |-> s[i]]
  BY <1>2
<1> QED BY <1>1, <1>2, <1>3 DEF UpTo

\* The invariant says of every reader what ResumedWithoutLoss says.
LEMMA InLineMeans ==
  ASSUME BInv, NEW r \in Readers
  PROVE  LET all == got[r] \o Events(streamed[r] \o subscribed[r])
         IN  /\ \A i, j \in DOMAIN all : i < j => all[i] < all[j]
             /\ r \notin gap =>
                  /\ reading[r] = "reading" => all = UpTo(sent)
                  /\ reading[r] = "ended" => got[r] = UpTo(sent)
<1> DEFINE g == got[r]
           q == Line(r)
           e == Events(q)
           all == g \o e
<1>1. g \in Seq(Nat) /\ q \in Seq(Nat) /\ sent \in Nat /\ InLine(r)
  BY AllIs DEF BInv
<1>2. Climbs(g \o q) /\ AtMost(g \o q, sent) /\ Open(g)
  BY <1>1 DEF InLine, All
<1>3. r \notin gap => /\ Prefix(g \o q)
                      /\ reading[r] \in {"reading", "ended"} => Begun(g \o q, sent)
  BY <1>1 DEF InLine, All
<1>4. reading[r] = "ended" => q = <<>>
  <2>1. <<>> \in Seq(Nat) /\ <<>> \o <<>> = <<>>
    BY EmptySeq, WithNothing
  <2> QED BY <1>1, <2>1 DEF InLine, Line
<1> HIDE DEF g, q
<1>5. /\ all \in Seq(Nat) /\ Climbs(all) /\ Open(all) /\ AtMost(all, sent)
      /\ Prefix(g \o q) => Prefix(all)
      /\ Begun(g \o q, sent) => Begun(all, sent)
  <2>1. CASE Events(q) = q /\ Open(q)
    <3> DEFINE u == g \o q
    <3>1. /\ u \in Seq(Nat) /\ Len(u) = Len(g) + Len(q) /\ Len(g) \in Nat /\ Len(q) \in Nat
          /\ \A i \in 1..Len(g) : u[i] = g[i]
          /\ \A i \in 1..Len(u) : i \notin 1..Len(g) => i - Len(g) \in 1..Len(q) /\ u[i] = q[i - Len(g)]
      BY <1>1, Concat
    <3> HIDE DEF u
    <3>2. Open(u)
      <4>1. ASSUME NEW i \in 1..Len(u) PROVE u[i] # EndMark
        BY <1>2, <2>1, <3>1 DEF Open
      <4> QED BY <4>1 DEF Open
    <3> QED BY <1>2, <2>1, <3>1, <3>2 DEF u
  <2>2. ASSUME NEW f \in Seq(Nat), Events(q) = f, Open(f), q = Append(f, EndMark)
        PROVE  /\ all \in Seq(Nat) /\ Climbs(all) /\ Open(all) /\ AtMost(all, sent)
               /\ Prefix(g \o q) => Prefix(all)
               /\ Begun(g \o q, sent) => Begun(all, sent)
    <3> DEFINE v == g \o f
               u == g \o q
    <3>1. u = Append(v, EndMark) /\ v \in Seq(Nat)
      <4>1. EndMark \in Nat
        OBVIOUS
      <4> QED BY <1>1, <2>2, <4>1, ConcatAppend
    <3>2. /\ Len(v) = Len(g) + Len(f) /\ Len(g) \in Nat /\ Len(f) \in Nat
          /\ \A i \in 1..Len(g) : v[i] = g[i]
          /\ \A i \in 1..Len(v) : i \notin 1..Len(g) => i - Len(g) \in 1..Len(f) /\ v[i] = f[i - Len(g)]
      BY <1>1, Concat
    <3>3. all = v
      BY <2>2
    <3>4. Climbs(u) /\ AtMost(u, sent)
      BY <1>2
    <3> HIDE DEF v, u
    <3>5. /\ Len(v) \in Nat /\ Len(u) = Len(v) + 1 /\ u[Len(v) + 1] = EndMark
          /\ \A i \in 1..Len(v) : u[i] = v[i] /\ i \in 1..Len(u)
      <4> DEFINE x == Append(v, EndMark)
      <4>1. /\ Len(v) \in Nat /\ Len(x) = Len(v) + 1 /\ x[Len(v) + 1] = EndMark
            /\ \A i \in 1..Len(v) : x[i] = v[i]
        BY <3>1, AppendIs
      <4>2. u = x
        BY <3>1
      <4> HIDE DEF x
      <4> QED BY <4>1, <4>2
    <3>6. Open(v)
      <4>1. ASSUME NEW i \in 1..Len(v) PROVE v[i] # EndMark
        BY <1>2, <2>2, <3>2 DEF Open
      <4> QED BY <4>1 DEF Open
    <3>7. Climbs(v) /\ AtMost(v, sent) /\ (Prefix(u) => Prefix(v))
      BY <3>4, <3>5 DEF Climbs, AtMost, Prefix
    <3>8. Begun(u, sent) => Begun(v, sent)
      <4> SUFFICES ASSUME Begun(u, sent) PROVE Begun(v, sent)
        OBVIOUS
      <4>1. sent # Len(v) + 1
        BY <3>5 DEF Begun
      <4>2. sent <= Len(v)
        BY <1>1, <3>5, <4>1 DEF Begun
      <4>3. ASSUME NEW i \in 1..sent PROVE v[i] = i
        <5>1. i \in 1..Len(v)
          BY <1>1, <3>5, <4>2
        <5>2. u[i] = i
          BY DEF Begun
        <5> QED BY <3>5, <5>1, <5>2
      <4> QED BY <4>2, <4>3 DEF Begun
    <3> QED BY <3>1, <3>3, <3>6, <3>7, <3>8 DEF u
  <2>3. \/ Events(q) = q /\ Open(q)
        \/ \E f \in Seq(Nat) : Events(q) = f /\ Open(f) /\ q = Append(f, EndMark)
    BY <1>1, <1>2, EventsAre
  <2> QED BY <2>1, <2>2, <2>3
<1> HIDE DEF all
<1>6. ASSUME NEW i \in DOMAIN all, NEW j \in DOMAIN all, i < j PROVE all[i] < all[j]
  <2>1. i \in 1..Len(all) /\ j \in 1..Len(all)
    BY <1>5
  <2> QED BY <1>5, <1>6, <2>1 DEF Climbs, Open
<1>7. ASSUME r \notin gap, reading[r] \in {"reading", "ended"} PROVE all = UpTo(sent)
  BY <1>1, <1>3, <1>5, <1>7, UpToIs
<1>8. ASSUME r \notin gap, reading[r] = "ended" PROVE g = UpTo(sent)
  <2>1. Climbs(g \o q) /\ Prefix(g \o q) /\ Begun(g \o q, sent) /\ AtMost(g \o q, sent) /\ g \o q = g
    <3>1. g \o <<>> = g
      BY <1>1, WithNothing
    <3> QED BY <1>2, <1>3, <1>4, <1>8, <3>1
  <2> QED BY <1>1, <1>2, <2>1, UpToIs
<1> QED BY <1>6, <1>7, <1>8 DEF all, q, g, Line

\* Every client, over any number of reconnections and for buffers and queues of any
\* size, is sent the events of its run in order and without repeats; and unless its
\* queue overflowed or the buffer no longer held what it missed, without a hole, and
\* up to the last one when its stream ends (core/events.py, api/sse.py).
THEOREM ClientsResume == BusSpec => []ResumedWithoutLoss
<1>1. BusInit => BInv
  BY AtFirst
<1>2. BInv /\ [BusNext]_busVars => BInv'
  BY BusStep
<1>3. BInv => ResumedWithoutLoss
  <2> SUFFICES ASSUME BInv PROVE ResumedWithoutLoss
    OBVIOUS
  <2>1. BusTypeOK
    BY DEF BInv, BTypes, BusTypeOK
  <2> QED BY <2>1, InLineMeans DEF ResumedWithoutLoss
<1> QED BY <1>1, <1>2, <1>3, PTL DEF BusSpec

-----------------------------------------------------------------------------
(***************************************************************************)
(* Choosing a lane and a model.                                            *)
(***************************************************************************)

\* Of the elements of a sequence, each with a number, one has the greatest.
LEMMA Greatest ==
  ASSUME NEW S, NEW s \in Seq(S), s # <<>>, NEW f \in [S -> Nat]
  PROVE  \E x \in ToSet(s) : \A y \in ToSet(s) : f[y] <= f[x]
<1> DEFINE Top(q) == q = <<>> \/ \E x \in ToSet(q) : \A y \in ToSet(q) : f[y] <= f[x]
           P == {q \in Seq(S) : Top(q)}
<1>1. <<>> \in P
  OBVIOUS
<1>2. ASSUME NEW q \in Seq(S), NEW e \in S, q \in P PROVE Append(q, e) \in P
  <2>1. Append(q, e) \in Seq(S) /\ ToSet(Append(q, e)) = ToSet(q) \cup {e}
    BY SetAppend
  <2>2. \A y \in ToSet(q) : y \in S
    BY DEF ToSet
  <2>3. CASE q = <<>>
    <3>1. ToSet(q) = {}
      BY <2>3 DEF ToSet
    <3>2. ToSet(Append(q, e)) = {e} /\ f[e] \in Nat
      BY <2>1, <3>1
    <3>3. \A y \in ToSet(Append(q, e)) : f[y] <= f[e]
      BY <3>2
    <3> QED BY <2>1, <3>2, <3>3
  <2>4. CASE q # <<>>
    <3>1. PICK x \in ToSet(q) : \A y \in ToSet(q) : f[y] <= f[x]
      BY <1>2, <2>4
    <3>2. CASE f[e] <= f[x]
      <4>1. \A y \in ToSet(Append(q, e)) : f[y] <= f[x]
        BY <3>1, <3>2, <2>1
      <4> QED BY <4>1, <3>1, <2>1
    <3>3. CASE ~(f[e] <= f[x])
      <4>1. \A y \in ToSet(q) : f[y] <= f[e]
        BY <3>1, <3>3, <2>2
      <4>2. \A y \in ToSet(Append(q, e)) : f[y] <= f[e]
        BY <4>1, <2>1
      <4> QED BY <4>2, <2>1
    <3> QED BY <3>2, <3>3
  <2> QED BY <2>3, <2>4
<1> HIDE DEF P
<1>3. Seq(S) \subseteq P
  BY <1>1, <1>2, SeqInduction, Zenon
<1> QED BY <1>3 DEF P

\* The elements of a filtered sequence.
LEMMA FirstKept ==
  ASSUME NEW S, NEW s \in Seq(S), NEW A, NEW e \in ToSet(s), e \in A
  PROVE  Kept(s, A) # <<>> /\ Kept(s, A)[1] \in ToSet(s) \cap A
<1> DEFINE k == Kept(s, A)
<1>1. ToSet(k) = ToSet(s) \cap A
  BY SetKept
<1>2. k \in Seq(S \cap A)
  BY KeptType
<1> HIDE DEF k
<1>3. e \in ToSet(k)
  BY <1>1
<1>4. k # <<>> /\ k[1] \in ToSet(k)
  BY <1>2, <1>3 DEF ToSet
<1> QED BY <1>1, <1>4 DEF k

\* The best lane is one of the manifest (_stage1_decide).
LEMMA BestIs ==
  ASSUME NEW scores \in [DOMAIN Lanes -> Nat]
  PROVE  Best(scores) \in DOMAIN Lanes
<1> DEFINE top == {l \in DOMAIN scores : \A k \in DOMAIN scores : scores[k] <= scores[l]}
<1>1. LaneOrder \in Seq(DOMAIN Lanes) /\ ToSet(LaneOrder) = DOMAIN Lanes /\ LaneOrder # <<>>
  BY RoutingAssumption DEF ToSet
<1>2. \E x \in ToSet(LaneOrder) : \A y \in ToSet(LaneOrder) : scores[y] <= scores[x]
  BY <1>1, Greatest
<1>3. PICK x \in ToSet(LaneOrder) : x \in top
  BY <1>1, <1>2
<1> HIDE DEF top
<1>4. Kept(LaneOrder, top)[1] \in ToSet(LaneOrder) \cap top
  BY <1>1, <1>3, FirstKept
<1> QED BY <1>4, <1>1 DEF Best, top

\* Words never choose the vision lane for a request without an image.
LEMMA WordsDoNotSee ==
  ASSUME NEW scores \in [DOMAIN Lanes -> Nat]
  PROVE  Lexical(scores, FALSE) # {"vision"}
<1>1. "vision" \in DOMAIN Lanes
  BY RoutingAssumption
<1>2. CASE Best(scores) = "vision"
  <2> DEFINE heard == [scores EXCEPT !["vision"] = 0]
  <2>1. heard["vision"] = 0
    BY <1>1
  <2>2. Lexical(scores, FALSE) \subseteq {l \in {Best(heard)} : heard[l] > 0}
    BY <1>2 DEF Lexical
  <2> HIDE DEF heard
  <2>3. ASSUME Lexical(scores, FALSE) = {"vision"} PROVE FALSE
    <3>1. "vision" \in {l \in {Best(heard)} : heard[l] > 0}
      BY <2>2, <2>3
    <3> QED BY <2>1, <3>1
  <2> QED BY <2>3
<1>3. CASE Best(scores) # "vision"
  <2>1. Lexical(scores, FALSE) \subseteq {Best(scores)}
    BY <1>3 DEF Lexical
  <2> QED BY <1>3, <2>1
<1> QED BY <1>2, <1>3

\* The words of a request choose one lane or none.
LEMMA OneLane ==
  ASSUME NEW scores, NEW images, NEW l \in Lexical(scores, images)
  PROVE  Lexical(scores, images) = {l}
<1> DEFINE heard == IF Best(scores) = "vision" /\ ~images
                    THEN [scores EXCEPT !["vision"] = 0] ELSE scores
           best == Best(heard)
<1>1. Lexical(scores, images) = {best} \/ Lexical(scores, images) = {}
  BY DEF Lexical
<1> HIDE DEF best
<1> QED BY <1>1

\* The words of a request choose a lane of the manifest or none.
LEMMA LexicalIs ==
  ASSUME NEW scores \in [DOMAIN Lanes -> Nat], NEW images \in BOOLEAN
  PROVE  Lexical(scores, images) \subseteq DOMAIN Lanes
<1> DEFINE heard == IF Best(scores) = "vision" /\ ~images
                    THEN [scores EXCEPT !["vision"] = 0] ELSE scores
<1>1. heard \in [DOMAIN Lanes -> Nat]
  OBVIOUS
<1> HIDE DEF heard
<1>2. Best(heard) \in DOMAIN Lanes
  BY <1>1, BestIs
<1>3. Lexical(scores, images) \subseteq {Best(heard)}
  BY DEF Lexical, heard
<1> QED BY <1>2, <1>3

\* What a run asks for is one of its calls.
LEMMA RequestIs ==
  ASSUME NEW t \in Callers, turn[t] \in DOMAIN Asks[t]
  PROVE  /\ Request(t) \in ToSet(Asks[t])
         /\ Request(t).tokens \in Nat /\ Request(t).images \in BOOLEAN
         /\ Request(t).scores \in [DOMAIN Lanes -> Nat]
<1>1. Request(t) \in ToSet(Asks[t])
  BY DEF Request, ToSet
<1> QED BY <1>1, RoutingAssumption

\* Without an image the vision lane is given by a hint, by the intent, or where the
\* words leave it open (_stage0_decide, _stage1_decide, _stage2_decide).
LEMMA WhoGetsEyes ==
  ASSUME NEW t \in Callers, NEW r \in ToSet(Asks[t]), "vision" \in LanesFor(r), ~r.images
  PROVE  \/ r.hint = "vision"
         \/ r.intent \in DOMAIN IntentLane /\ IntentLane[r.intent] = "vision"
         \/ Ambiguous(r)
<1>1. r.tokens \in Nat /\ LongPrompt \in Nat /\ r.images = FALSE /\ r.scores \in [DOMAIN Lanes -> Nat]
  BY RoutingAssumption
<1>2. CASE r.hint \in DOMAIN Lanes
  BY <1>2 DEF LanesFor
<1>3. CASE r.hint \notin DOMAIN Lanes /\ r.intent \in DOMAIN IntentLane
  BY <1>1, <1>3 DEF LanesFor
<1>4. CASE r.hint \notin DOMAIN Lanes /\ r.intent \notin DOMAIN IntentLane
  <2>1. ~(r.tokens > LongPrompt)
    <3>1. r.tokens > LongPrompt => LanesFor(r) = {"long_ctx"}
      BY <1>1, <1>4 DEF LanesFor
    <3>2. "vision" # "long_ctx"
      OBVIOUS
    <3> QED BY <3>1, <3>2
  <2>2. ByWords(r)
    BY <1>1, <1>4, <2>1 DEF ByWords
  <2>3. Lexical(r.scores, FALSE) = {}
    <3>1. Lexical(r.scores, FALSE) # {} => "vision" \in Lexical(r.scores, FALSE)
      BY <1>1, <1>4, <2>1 DEF LanesFor
    <3>2. "vision" \notin Lexical(r.scores, FALSE)
      BY <1>1, OneLane, WordsDoNotSee
    <3> QED BY <3>1, <3>2
  <2> QED BY <2>2, <2>3 DEF Ambiguous
<1> QED BY <1>2, <1>3, <1>4

\* A request is given a lane of the manifest.
LEMMA LanesForAre ==
  ASSUME NEW t \in Callers, NEW r \in ToSet(Asks[t])
  PROVE  LanesFor(r) \subseteq DOMAIN Lanes
<1>1. r.tokens \in Nat /\ r.images \in BOOLEAN /\ r.scores \in [DOMAIN Lanes -> Nat]
  BY RoutingAssumption
<1>2. Lexical(r.scores, r.images) \subseteq DOMAIN Lanes
  BY <1>1, LexicalIs
<1>3. Classified \subseteq DOMAIN Lanes
  BY RoutingAssumption DEF Classified
<1>4. {"vision", "long_ctx"} \subseteq DOMAIN Lanes /\ \A l \in DOMAIN IntentLane : IntentLane[l] \in DOMAIN Lanes
  BY RoutingAssumption
<1> QED BY <1>2, <1>3, <1>4 DEF LanesFor

\* The candidates of a lane are of its models, and there are some if it lists any
\* (lane_candidates).
LEMMA CandidatesAre ==
  ASSUME NEW l \in DOMAIN Lanes
  PROVE  /\ Candidates(l) \in Seq(Models) /\ ToSet(Candidates(l)) \subseteq ToSet(Lanes[l])
         /\ Lanes[l] # <<>> => Candidates(l) # <<>>
<1>1. Lanes[l] \in Seq(Models)
  BY RoutingAssumption
<1> DEFINE k == Kept(Lanes[l], available)
<1>2. k \in Seq(Models \cap available) /\ ToSet(k) = ToSet(Lanes[l]) \cap available
  BY <1>1, KeptType, SetKept
<1>3. k \in Seq(Models)
  <2> HIDE DEF k
  <2> QED BY <1>2
<1> HIDE DEF k
<1>4. Candidates(l) = IF k = <<>> THEN Lanes[l] ELSE k
  BY DEF Candidates, k
<1> QED BY <1>1, <1>2, <1>3, <1>4

\* Who is eligible is a candidate with a closed breaker, and in the vision lane sees.
LEMMA EligibleAre ==
  ASSUME NEW l \in DOMAIN Lanes, NEW tokens \in Nat, NEW m \in Eligible(l, tokens)
  PROVE  m \in Models /\ m \in ToSet(Lanes[l]) /\ ~IsOpen(m) /\ (l = "vision" => m \in Sees)
<1>1. m \in ToSet(Candidates(l)) /\ ~IsOpen(m) /\ (l = "vision" => m \in Sees)
  BY DEF Eligible
<1>2. Candidates(l) \in Seq(Models) /\ ToSet(Candidates(l)) \subseteq ToSet(Lanes[l])
  BY CandidatesAre
<1>3. m \in Models
  BY <1>1, <1>2 DEF ToSet
<1> QED BY <1>1, <1>2, <1>3

\* When nobody is, the breaker of some candidate is open: of several that could serve
\* one has the widest window.
LEMMA NoneEligible ==
  ASSUME NEW l \in DOMAIN Lanes, NEW tokens \in Nat, Lanes[l] # <<>>, Eligible(l, tokens) = {}
  PROVE  \E m \in Models : IsOpen(m)
<1>1. /\ Candidates(l) \in Seq(Models) /\ Candidates(l) # <<>>
      /\ ToSet(Candidates(l)) \subseteq ToSet(Lanes[l])
  BY CandidatesAre
<1>2. l = "vision" => ToSet(Lanes[l]) \subseteq Sees
  BY RoutingAssumption
<1>3. WindowOf \in [Models -> Nat]
  BY RoutingAssumption
<1> DEFINE c == Candidates(l)
<1>4. \A m \in ToSet(c) : m \in Models
  BY <1>1 DEF ToSet
<1> SUFFICES ASSUME \A m \in Models : ~IsOpen(m) PROVE FALSE
  OBVIOUS
<1>5. PICK x \in ToSet(c) : \A y \in ToSet(c) : WindowOf[y] <= WindowOf[x]
  BY <1>1, <1>3, Greatest
<1>6. {m \in ToSet(c) : ~IsOpen(m) /\ (l = "vision" => m \in Sees)} = ToSet(c)
  BY <1>1, <1>2, <1>4
<1>7. x \in Eligible(l, tokens) \/ \E m \in ToSet(c) : m \in Eligible(l, tokens)
  BY <1>5, <1>6 DEF Eligible
<1> QED BY <1>7

-----------------------------------------------------------------------------
(***************************************************************************)
(* The steps of a run at the router.                                       *)
(***************************************************************************)

\* A model some lane lists.
Listed(m) == \E l \in DOMAIN Lanes : m \in ToSet(Lanes[l])

\* A model being called is listed, and sees if there is an image.
ChosenRight ==
    \A t \in Callers : at[t] = "call" =>
        /\ chosen[t] \in Models /\ Listed(chosen[t])
        /\ Request(t).images => chosen[t] \in Sees

\* Each model's breaker says what a call last found of its backend.
Remembered == \A m \in Models : opened[m] = missedAt[Backend[m]]

\* A backend that does not answer is down now, and a call found it missing at a time
\* when it was.
DownSeen ==
    \A b \in Backends :
        /\ b \notin up => downAt[b] = clock
        /\ downAt[b] # Never => downAt[b] <= clock
        /\ missedAt[b] # Never => downAt[b] # Never /\ missedAt[b] <= downAt[b]

\* So is the model first routed to, and the lane is one the request may be given.
DecisionRight ==
    \A t \in Callers : at[t] = "call" =>
        /\ routed[t] \in Models /\ Listed(routed[t])
        /\ Request(t).images => routed[t] \in Sees
        /\ laneGiven[t] \in LanesFor(Request(t))

\* The inductive invariant of the router.
RInv ==
    /\ RoutingTypeOK /\ missedAt \in [Backends -> Times]
    /\ turn \in [Callers -> Nat]
    /\ ChosenRight /\ DecisionRight /\ Remembered /\ DownSeen

\* Times are numbers, and Never comes after all of them.
LEMMA Clocks ==
  ASSUME RoutingTypeOK
  PROVE  /\ MaxTime \in Nat /\ clock \in Nat /\ Never \in Nat /\ clock < Never /\ clock <= MaxTime
         /\ clock \in Times /\ Never \in Times /\ 0 \in Times /\ Never # 0 /\ Cooldown \in Nat /\ 0 < Cooldown
         /\ \A x \in Times : x \in Nat
BY RoutingAssumption DEF RoutingTypeOK, Never, Times

\* Every run makes some call.
LEMMA AsksAre ==
  ASSUME NEW t \in Callers
  PROVE  Len(Asks[t]) \in Nat /\ DOMAIN Asks[t] = 1..Len(Asks[t]) /\ 1 \in DOMAIN Asks[t]
BY RoutingAssumption

\* The service has just probed its backends and no breaker is open.
LEMMA AtStart == RoutingInit => RInv
<1> SUFFICES ASSUME RoutingInit PROVE RInv
  OBVIOUS
<1>1. MaxTime \in Nat /\ MaxOutages \in Nat /\ Len(BackendOrder) \in Nat /\ Backend \in [Models -> Backends]
  BY RoutingAssumption
<1>2. RoutingTypeOK /\ turn \in [Callers -> Nat]
  BY <1>1, AsksAre DEF RoutingInit, RoutingTypeOK, Times, Never
<1>3. ChosenRight /\ DecisionRight /\ Remembered
  BY <1>1 DEF RoutingInit, ChosenRight, DecisionRight, Remembered
<1>4. DownSeen
  BY <1>1 DEF RoutingInit, DownSeen, Never
<1> QED BY <1>2, <1>3, <1>4 DEF RInv, RoutingTypeOK

\* Asking for a lane changes what a run does next (route).
LEMMA RouteKeeps == ASSUME RInv, NEW t \in Callers, Route(t) PROVE RInv'
<1>1. /\ at[t] = "route"
      /\ at' = [at EXCEPT ![t] = IF Stale THEN "probe" ELSE "select"]
      /\ UNCHANGED <<belief, turn, chosen, decision, askedAgain, probed, polled, world, missedAt>>
  BY DEF Route
<1>2. RoutingTypeOK'
  BY <1>1 DEF RInv, RoutingTypeOK, belief, decision, world, Times
<1>3. ChosenRight' /\ DecisionRight' /\ Remembered' /\ DownSeen'
  BY <1>1 DEF RInv, RoutingTypeOK, belief, decision, world, ChosenRight, DecisionRight, Remembered, DownSeen, Request
<1> QED BY <1>1, <1>2, <1>3 DEF RInv

\* A probe collects the models of one more backend (probe_availability).
LEMMA PollKeeps == ASSUME RInv, NEW t \in Callers, Poll(t) PROVE RInv'
<1> DEFINE found == {m \in Models : Backend[m] = BackendOrder[polled[t] + 1] /\ BackendOrder[polled[t] + 1] \in up}
<1>1. /\ at[t] = "probe" /\ polled[t] < Len(BackendOrder)
      /\ probed' = [probed EXCEPT ![t] = @ \cup found]
      /\ polled' = [polled EXCEPT ![t] = @ + 1]
      /\ UNCHANGED <<belief, at, turn, chosen, decision, askedAgain, world, missedAt>>
  BY DEF Poll
<1>2. found \subseteq Models /\ Len(BackendOrder) \in Nat
  BY RoutingAssumption
<1> HIDE DEF found
<1>3. RoutingTypeOK'
  BY <1>1, <1>2 DEF RInv, RoutingTypeOK, belief, decision, world, Times
<1>4. ChosenRight' /\ DecisionRight' /\ Remembered' /\ DownSeen'
  BY <1>1 DEF RInv, RoutingTypeOK, belief, decision, world, ChosenRight, DecisionRight, Remembered, DownSeen, Request
<1> QED BY <1>1, <1>3, <1>4 DEF RInv

\* The answer of a probe replaces what was believed (probe_availability).
LEMMA EndProbeKeeps == ASSUME RInv, NEW t \in Callers, EndProbe(t) PROVE RInv'
<1>1. /\ at[t] = "probe"
      /\ available' = probed[t] /\ probedAt' = clock
      /\ probed' = [probed EXCEPT ![t] = {}]
      /\ polled' = [polled EXCEPT ![t] = 0]
      /\ at' = [at EXCEPT ![t] = "select"]
      /\ UNCHANGED <<opened, turn, chosen, decision, askedAgain, world, missedAt>>
  BY DEF EndProbe
<1>2. Len(BackendOrder) \in Nat
  BY RoutingAssumption
<1>3. RoutingTypeOK'
  BY <1>1, <1>2 DEF RInv, RoutingTypeOK, decision, world, Times
<1>4. ChosenRight' /\ DecisionRight' /\ Remembered' /\ DownSeen'
  BY <1>1 DEF RInv, RoutingTypeOK, decision, world, ChosenRight, DecisionRight, Remembered, DownSeen, Request
<1> QED BY <1>1, <1>3, <1>4 DEF RInv

\* A request with an image is given the vision lane (_stage0_decide).
LEMMA RightLane ==
  ASSUME AsksServe, NEW t \in Callers, NEW r \in ToSet(Asks[t]), r.images
  PROVE  LanesFor(r) = {"vision"}
BY DEF AsksServe, LanesFor

\* The model selected is of the lane, and in the vision lane sees (select).
LEMMA SelectKeeps == ASSUME RInv, AsksServe, NEW t \in Callers, Select(t) PROVE RInv'
<1> DEFINE r == Request(t)
<1>1. PICK lane \in LanesFor(r) :
        \/ \E m \in Eligible(lane, r.tokens) :
             /\ chosen' = [chosen EXCEPT ![t] = m] /\ routed' = [routed EXCEPT ![t] = m]
             /\ laneGiven' = [laneGiven EXCEPT ![t] = lane]
             /\ at' = [at EXCEPT ![t] = "call"]
        \/ at' = [at EXCEPT ![t] = "dead"] /\ UNCHANGED <<chosen, decision>>
  BY DEF Select
<1>2. UNCHANGED <<belief, turn, askedAgain, probed, polled, world, missedAt>>
  BY DEF Select
<1>3. r \in ToSet(Asks[t]) /\ r.tokens \in Nat /\ lane \in DOMAIN Lanes
  BY RequestIs, LanesForAre DEF RInv, RoutingTypeOK
<1>4. ASSUME NEW m \in Eligible(lane, r.tokens),
             chosen' = [chosen EXCEPT ![t] = m], routed' = [routed EXCEPT ![t] = m],
             laneGiven' = [laneGiven EXCEPT ![t] = lane], at' = [at EXCEPT ![t] = "call"]
      PROVE  RInv'
  <2>1. m \in Models /\ Listed(m) /\ (lane = "vision" => m \in Sees)
    BY <1>3, EligibleAre DEF Listed
  <2>2. r.images => m \in Sees
    BY <1>3, <2>1, RightLane
  <2>3. RoutingTypeOK'
    BY <1>2, <1>3, <1>4, <2>1 DEF RInv, RoutingTypeOK, belief, world, Times
  <2>4. ChosenRight'
    BY <1>2, <1>4, <2>1, <2>2 DEF RInv, RoutingTypeOK, ChosenRight, Request
  <2>5. DecisionRight'
    BY <1>2, <1>4, <2>1, <2>2 DEF RInv, RoutingTypeOK, DecisionRight, Request
  <2>6. Remembered' /\ DownSeen'
    BY <1>2 DEF RInv, belief, world, Remembered, DownSeen
  <2> QED BY <1>2, <2>3, <2>4, <2>5, <2>6 DEF RInv
<1>5. CASE at' = [at EXCEPT ![t] = "dead"] /\ UNCHANGED <<chosen, decision>>
  <2>1. RoutingTypeOK'
    BY <1>2, <1>5 DEF RInv, RoutingTypeOK, belief, decision, world, Times
  <2>2. ChosenRight' /\ DecisionRight' /\ Remembered' /\ DownSeen'
    BY <1>2, <1>5 DEF RInv, RoutingTypeOK, belief, decision, world, ChosenRight, DecisionRight, Remembered, DownSeen, Request
  <2> QED BY <1>2, <2>1, <2>2 DEF RInv
<1> QED BY <1>1, <1>4, <1>5

\* A call that is answered lets the run make its next one (_generate).
LEMMA AnsweredKeeps == ASSUME RInv, NEW t \in Callers, Answered(t) PROVE RInv'
<1>1. /\ at[t] = "call"
      /\ Over(t) /\ askedAgain' = [askedAgain EXCEPT ![t] = FALSE]
      /\ UNCHANGED <<belief, probed, polled, world, missedAt>>
  BY DEF Answered
<1>2. \/ at' = [at EXCEPT ![t] = "done"] /\ turn' = turn
      \/ turn[t] # Len(Asks[t]) /\ at' = [at EXCEPT ![t] = "route"] /\ turn' = [turn EXCEPT ![t] = @ + 1]
  BY DEF Answered
<1>3. turn' \in [Callers -> Nat] /\ \A u \in Callers : turn'[u] \in DOMAIN Asks[u]
  BY <1>2, AsksAre DEF RInv, RoutingTypeOK
<1>4. at' \in [Callers -> {"route", "probe", "select", "call", "done", "dead"}] /\ at'[t] # "call"
  BY <1>2 DEF RInv, RoutingTypeOK
<1>5. \A u \in Callers : u # t => at'[u] = at[u] /\ turn'[u] = turn[u]
  BY <1>2 DEF RInv, RoutingTypeOK
<1>6. RoutingTypeOK'
  BY <1>1, <1>3, <1>4 DEF RInv, RoutingTypeOK, Over, belief, decision, world, Times
<1>7. ChosenRight' /\ DecisionRight'
  BY <1>1, <1>4, <1>5 DEF RInv, RoutingTypeOK, Over, ChosenRight, DecisionRight, Request
<1>8. Remembered' /\ DownSeen'
  BY <1>1 DEF RInv, belief, world, Remembered, DownSeen
<1> QED BY <1>1, <1>3, <1>6, <1>7, <1>8 DEF RInv

\* The planner's second call goes to the model first routed to (_plan).
LEMMA AskAgainKeeps == ASSUME RInv, NEW t \in Callers, AskAgain(t) PROVE RInv'
<1>1. /\ at[t] = "call"
      /\ askedAgain' = [askedAgain EXCEPT ![t] = TRUE]
      /\ chosen' = [chosen EXCEPT ![t] = routed[t]]
      /\ UNCHANGED <<belief, at, turn, decision, probed, polled, world, missedAt>>
  BY DEF AskAgain
<1>2. RoutingTypeOK'
  BY <1>1 DEF RInv, RoutingTypeOK, belief, decision, world, Times
<1>3. ChosenRight'
  BY <1>1 DEF RInv, RoutingTypeOK, ChosenRight, DecisionRight, Request
<1>4. DecisionRight' /\ Remembered' /\ DownSeen'
  BY <1>1 DEF RInv, RoutingTypeOK, belief, decision, world, DecisionRight, Remembered, DownSeen, Request
<1> QED BY <1>1, <1>2, <1>3, <1>4 DEF RInv

\* A stream that breaks fails the run and leaves the breakers (_synthesise).
LEMMA StreamBreaksKeeps == ASSUME RInv, NEW t \in Callers, StreamBreaks(t) PROVE RInv'
<1>1. /\ at' = [at EXCEPT ![t] = "dead"]
      /\ Over(t)
      /\ UNCHANGED <<belief, turn, askedAgain, probed, polled, world, missedAt>>
  BY DEF StreamBreaks
<1>2. RoutingTypeOK'
  BY <1>1 DEF RInv, RoutingTypeOK, Over, belief, decision, world, Times
<1>3. ChosenRight' /\ DecisionRight' /\ Remembered' /\ DownSeen'
  BY <1>1 DEF RInv, RoutingTypeOK, Over, belief, decision, world, ChosenRight, DecisionRight, Remembered, DownSeen, Request
<1> QED BY <1>1, <1>2, <1>3 DEF RInv

-----------------------------------------------------------------------------
(***************************************************************************)
(* Calls that are refused, and outages.                                    *)
(***************************************************************************)

\* Whoever stands in is a model of another backend, its breaker is closed, and it sees
\* if the one it replaces does (stand_in_for).
LEMMA StandInIs ==
  ASSUME ManifestServes, NEW m \in Models, Listed(m), StandIns(m) # <<>>
  PROVE  LET n == StandIns(m)[1]
         IN  /\ n \in Models /\ Listed(n) /\ ~IsOpen(n) /\ Backend[n] # Backend[m]
             /\ m \in Sees => n \in Sees
<1> DEFINE L == {l \in DOMAIN Lanes : Contains(Lanes[l], m)}
           lane == Kept(LaneOrder, L)[1]
           others == {n \in Models : Backend[n] # Backend[m] /\ ~IsOpen(n)}
           n == StandIns(m)[1]
<1>1. LaneOrder \in Seq(DOMAIN Lanes) /\ ToSet(LaneOrder) = DOMAIN Lanes
  BY RoutingAssumption
<1>2. \A l \in DOMAIN Lanes : l \in L <=> m \in ToSet(Lanes[l])
  <2>1. \A l \in DOMAIN Lanes : Lanes[l] \in Seq(Models)
    BY RoutingAssumption
  <2> QED BY <2>1 DEF Contains, ToSet
<1>3. PICK l \in ToSet(LaneOrder) : l \in L
  BY <1>1, <1>2 DEF Listed
<1> HIDE DEF L
<1>4. lane \in DOMAIN Lanes /\ lane \in L
  BY <1>1, <1>3, FirstKept
<1>5. StandIns(m) = Kept(Candidates(lane), others)
  BY DEF StandIns, L
<1> HIDE DEF lane
<1>6. Candidates(lane) \in Seq(Models) /\ ToSet(Candidates(lane)) \subseteq ToSet(Lanes[lane])
  BY <1>4, CandidatesAre
<1> HIDE DEF others
<1>7. /\ StandIns(m) \in Seq(Models \cap others)
      /\ ToSet(StandIns(m)) = ToSet(Candidates(lane)) \cap others
  BY <1>5, <1>6, KeptType, SetKept
<1>8. n \in ToSet(StandIns(m))
  BY <1>7 DEF ToSet
<1>9. n \in others /\ n \in ToSet(Lanes[lane])
  BY <1>6, <1>7, <1>8
<1>10. m \in ToSet(Lanes[lane])
  BY <1>2, <1>4
<1>11. m \in Sees => n \in Sees
  BY <1>4, <1>9, <1>10 DEF ManifestServes
<1> QED BY <1>4, <1>9, <1>11 DEF others, Listed

\* A refused connection opens the breakers of all models of the backend, at the time
\* of the call that found it missing (note_unreachable, _generate).
LEMMA UnreachableKeeps ==
  ASSUME RInv, ManifestServes, NEW t \in Callers, Unreachable(t)
  PROVE  RInv'
<1> DEFINE m == chosen[t]
           b == Backend[m]
           n == StandIns(m)[1]
<1>1. /\ at[t] = "call" /\ b \notin up
      /\ opened' = [k \in Models |-> IF Backend[k] = b THEN clock ELSE opened[k]]
      /\ missedAt' = [missedAt EXCEPT ![b] = clock]
      /\ UNCHANGED <<available, probedAt, turn, askedAgain, probed, polled, world>>
  BY DEF Unreachable, Trip
<1>2. \/ at' = [at EXCEPT ![t] = "dead"] /\ Over(t)
      \/ StandIns(m) # <<>> /\ chosen' = [chosen EXCEPT ![t] = n] /\ UNCHANGED <<at, decision>>
  BY DEF Unreachable
<1>3. m \in Models /\ Listed(m) /\ (Request(t).images => m \in Sees)
  BY <1>1 DEF RInv, ChosenRight
<1>4. b \in Backends
  BY <1>3, RoutingAssumption
<1>5. StandIns(m) # <<>> => n \in Models /\ Listed(n) /\ (m \in Sees => n \in Sees)
  BY <1>3, StandInIs
<1> HIDE DEF m, b, n
<1>6. opened' \in [Models -> Times] /\ missedAt' \in [Backends -> Times]
  BY <1>1, <1>4, Clocks DEF RInv, RoutingTypeOK
<1>7. /\ at' \in [Callers -> {"route", "probe", "select", "call", "done", "dead"}]
      /\ chosen' \in [Callers -> Models \cup {NoModel}]
      /\ laneGiven' \in [Callers -> DOMAIN Lanes \cup {"none"}]
      /\ routed' \in [Callers -> Models \cup {NoModel}]
  BY <1>2, <1>5 DEF RInv, RoutingTypeOK, Over, decision
<1>8. RoutingTypeOK'
  BY <1>1, <1>6, <1>7 DEF RInv, RoutingTypeOK, decision, world, Times, Never
<1>9. DecisionRight'
  BY <1>1, <1>2 DEF RInv, RoutingTypeOK, Over, decision, DecisionRight, Request
<1>12. ChosenRight'
  BY <1>1, <1>2, <1>3, <1>5 DEF RInv, RoutingTypeOK, Over, ChosenRight, Request, m
<1>10. Remembered'
  BY <1>1, <1>4, RoutingAssumption DEF RInv, RoutingTypeOK, Remembered
<1>11. DownSeen'
  <2>1. downAt[b] = clock /\ clock # Never
    BY <1>1, <1>4, Clocks DEF RInv, DownSeen
  <2>2. missedAt'[b] = clock /\ \A c \in Backends : c # b => missedAt'[c] = missedAt[c]
    BY <1>1, <1>4 DEF RInv
  <2>3. up' = up /\ downAt' = downAt /\ clock' = clock
    BY <1>1 DEF world
  <2>4. clock \in Nat
    BY Clocks DEF RInv
  <2> QED BY <2>1, <2>2, <2>3, <2>4 DEF RInv, DownSeen, Never
<1> QED BY <1>1, <1>6, <1>8, <1>9, <1>10, <1>11, <1>12 DEF RInv

\* A backend that stops is down now.
LEMMA StopsKeeps == ASSUME RInv, NEW b \in Backends, Stops(b) PROVE RInv'
<1>1. /\ up' = up \ {b} /\ outages < MaxOutages /\ outages' = outages + 1
      /\ downAt' = [downAt EXCEPT ![b] = clock]
      /\ UNCHANGED <<belief, runVars, clock, missedAt>>
  BY DEF Stops
<1>2. MaxOutages \in Nat /\ clock \in Times /\ clock # Never /\ clock \in Nat /\ \A x \in Times : x \in Nat
  BY Clocks, RoutingAssumption DEF RInv
<1>3. RoutingTypeOK'
  BY <1>1, <1>2 DEF RInv, RoutingTypeOK, belief, runVars, decision, Times, Never
<1>4. ChosenRight' /\ DecisionRight' /\ Remembered'
  BY <1>1 DEF RInv, belief, runVars, decision, ChosenRight, DecisionRight, Remembered, Request
<1>5. DownSeen'
  <2> SUFFICES ASSUME NEW c \in Backends
               PROVE  /\ c \notin up' => downAt'[c] = clock
                      /\ downAt'[c] # Never => downAt'[c] <= clock
                      /\ missedAt[c] # Never => downAt'[c] # Never /\ missedAt[c] <= downAt'[c]
    BY <1>1 DEF DownSeen, Never, belief, runVars
  <2>1. downAt[c] \in Nat /\ missedAt[c] \in Nat /\ Never \in Nat
    BY <1>2, Clocks DEF RInv, RoutingTypeOK
  <2>2. downAt'[c] = IF c = b THEN clock ELSE downAt[c]
    BY <1>1 DEF RInv, RoutingTypeOK
  <2>3. /\ c \notin up => downAt[c] = clock
        /\ downAt[c] # Never => downAt[c] <= clock
        /\ missedAt[c] # Never => downAt[c] # Never /\ missedAt[c] <= downAt[c]
    BY DEF RInv, DownSeen
  <2> QED BY <1>1, <1>2, <2>1, <2>2, <2>3
<1> QED BY <1>1, <1>3, <1>4, <1>5 DEF RInv, runVars

\* A backend that starts was down until now.
LEMMA StartsKeeps == ASSUME RInv, NEW b \in Backends, Starts(b) PROVE RInv'
<1>1. /\ up' = up \cup {b}
      /\ downAt' = [downAt EXCEPT ![b] = clock]
      /\ UNCHANGED <<belief, runVars, clock, outages, missedAt>>
  BY DEF Starts
<1>2. clock \in Times /\ clock # Never /\ clock \in Nat /\ \A x \in Times : x \in Nat
  BY Clocks DEF RInv
<1>3. RoutingTypeOK'
  BY <1>1, <1>2 DEF RInv, RoutingTypeOK, belief, runVars, decision, Times, Never
<1>4. ChosenRight' /\ DecisionRight' /\ Remembered'
  BY <1>1 DEF RInv, belief, runVars, decision, ChosenRight, DecisionRight, Remembered, Request
<1>5. DownSeen'
  <2> SUFFICES ASSUME NEW c \in Backends
               PROVE  /\ c \notin up' => downAt'[c] = clock
                      /\ downAt'[c] # Never => downAt'[c] <= clock
                      /\ missedAt[c] # Never => downAt'[c] # Never /\ missedAt[c] <= downAt'[c]
    BY <1>1 DEF DownSeen, Never, belief, runVars
  <2>1. downAt[c] \in Nat /\ missedAt[c] \in Nat /\ Never \in Nat
    BY <1>2, Clocks DEF RInv, RoutingTypeOK
  <2>2. downAt'[c] = IF c = b THEN clock ELSE downAt[c]
    BY <1>1 DEF RInv, RoutingTypeOK
  <2>3. /\ c \notin up => downAt[c] = clock
        /\ downAt[c] # Never => downAt[c] <= clock
        /\ missedAt[c] # Never => downAt[c] # Never /\ missedAt[c] <= downAt[c]
    BY DEF RInv, DownSeen
  <2> QED BY <1>1, <1>2, <2>1, <2>2, <2>3
<1> QED BY <1>1, <1>3, <1>4, <1>5 DEF RInv, runVars

\* Time passes: what is down stays down.
LEMMA TickKeeps == ASSUME RInv, Tick PROVE RInv'
<1>1. /\ clock < MaxTime /\ clock' = clock + 1
      /\ downAt' = [b \in Backends |-> IF b \in up THEN downAt[b] ELSE clock + 1]
      /\ UNCHANGED <<belief, runVars, up, outages, missedAt>>
  BY DEF Tick
<1>2. MaxTime \in Nat /\ clock \in Nat /\ \A x \in Times : x \in Nat
  BY Clocks DEF RInv
<1>3. clock + 1 \in 0..MaxTime /\ clock + 1 \in Times /\ clock + 1 # Never
  BY <1>1, <1>2 DEF Times, Never
<1>4. downAt' \in [Backends -> Times]
  BY <1>1, <1>3 DEF RInv, RoutingTypeOK
<1>5. RoutingTypeOK'
  BY <1>1, <1>3, <1>4 DEF RInv, RoutingTypeOK, belief, runVars, decision, Times, Never
<1>6. ChosenRight' /\ DecisionRight' /\ Remembered'
  BY <1>1 DEF RInv, belief, runVars, decision, ChosenRight, DecisionRight, Remembered, Request
<1>7. DownSeen'
  <2> SUFFICES ASSUME NEW b \in Backends
               PROVE  /\ b \notin up => downAt'[b] = clock + 1
                      /\ downAt'[b] # Never => downAt'[b] <= clock + 1
                      /\ missedAt[b] # Never => downAt'[b] # Never /\ missedAt[b] <= downAt'[b]
    BY <1>1 DEF DownSeen, Never
  <2>1. downAt[b] \in Nat /\ missedAt[b] \in Nat
    BY <1>2 DEF RInv, RoutingTypeOK
  <2>2. downAt'[b] = IF b \in up THEN downAt[b] ELSE clock + 1
    BY <1>1
  <2>3. /\ b \notin up => downAt[b] = clock
        /\ downAt[b] # Never => downAt[b] <= clock
        /\ missedAt[b] # Never => downAt[b] # Never /\ missedAt[b] <= downAt[b]
    BY DEF RInv, DownSeen
  <2> QED BY <1>2, <1>3, <2>1, <2>2, <2>3
<1> QED BY <1>1, <1>5, <1>6, <1>7 DEF RInv, runVars

-----------------------------------------------------------------------------
(***************************************************************************)
(* All steps of the router, and what they may do.                          *)
(***************************************************************************)

\* Every step of the router, the runs and the backends keeps the invariant.
LEMMA RoutingKeeps ==
  ASSUME RInv, ManifestServes, AsksServe, [RoutingNext]_routingVars
  PROVE  RInv'
<1>1. ASSUME NEW t \in Callers, RunStep(t) PROVE RInv'
  BY <1>1, RouteKeeps, PollKeeps, EndProbeKeeps, SelectKeeps, AnsweredKeeps, AskAgainKeeps, UnreachableKeeps,
     StreamBreaksKeeps DEF RunStep
<1>2. ASSUME NEW b \in Backends, Stops(b) \/ Starts(b) PROVE RInv'
  BY <1>2, StopsKeeps, StartsKeeps
<1>3. CASE Tick
  BY <1>3, TickKeeps
<1>4. CASE UNCHANGED routingVars
  BY <1>4 DEF routingVars, belief, runVars, decision, world, RInv, RoutingTypeOK, ChosenRight, DecisionRight, Remembered,
     DownSeen, Request, Times
<1> QED BY <1>1, <1>2, <1>3, <1>4 DEF RoutingNext

\* For every manifest that serves and all runs that ask as the program does, a request
\* with an image is only sent to a model that sees, stand-ins and the planner's second
\* call included; one without is given the vision lane only by a hint, by its intent, or
\* where its words decide nothing and the small model may choose (router.py, policy.py).
THEOREM RequestsAreServed ==
  ASSUME ManifestServes, AsksServe
  PROVE  RoutingSpec => []RoutingInv
<1>1. RoutingInit => RInv
  BY AtStart
<1>2. RInv /\ [RoutingNext]_routingVars => RInv'
  BY RoutingKeeps
<1>3. RInv => RoutingInv
  <2> SUFFICES ASSUME RInv, NEW t \in Callers, NEW r, r = Request(t), at[t] = "call"
               PROVE  /\ r.images => chosen[t] \in Sees
                      /\ ~r.images /\ laneGiven[t] = "vision" =>
                           \/ r.hint = "vision"
                           \/ r.intent \in DOMAIN IntentLane /\ IntentLane[r.intent] = "vision"
                           \/ Ambiguous(r)
    BY DEF RoutingInv, PicturesGoToEyes, RInv
  <2>1. r \in ToSet(Asks[t])
    BY RequestIs DEF RInv, RoutingTypeOK
  <2>2. (r.images => chosen[t] \in Sees) /\ laneGiven[t] \in LanesFor(r)
    BY DEF RInv, ChosenRight, DecisionRight
  <2> QED BY <2>1, <2>2, WhoGetsEyes
<1> QED BY <1>1, <1>2, <1>3, PTL DEF RoutingSpec

\* A closed breaker: no call has found the model's backend missing within a cooldown.
\* An open one: the backend was down within a cooldown.
LEMMA OpenMeansMissed ==
  ASSUME RInv, NEW m \in Models
  PROVE  /\ Backend[m] \in Backends
         /\ ~IsOpen(m) => \/ missedAt[Backend[m]] = Never
                          \/ clock >= missedAt[Backend[m]] + Cooldown
         /\ IsOpen(m) => /\ downAt[Backend[m]] # Never
                         /\ clock < downAt[Backend[m]] + Cooldown
<1> DEFINE b == Backend[m]
<1>1. b \in Backends /\ opened[m] = missedAt[b]
  BY RoutingAssumption DEF RInv, Remembered
<1>2. /\ clock \in Nat /\ Cooldown \in Nat /\ missedAt[b] \in Nat /\ downAt[b] \in Nat
  BY <1>1, Clocks DEF RInv, RoutingTypeOK
<1>3. missedAt[b] # Never => downAt[b] # Never /\ missedAt[b] <= downAt[b]
  BY <1>1 DEF RInv, DownSeen
<1> HIDE DEF b
<1>4. IsOpen(m) <=> missedAt[b] # Never /\ clock < missedAt[b] + Cooldown
  BY <1>1 DEF IsOpen
<1> QED BY <1>1, <1>2, <1>3, <1>4 DEF b

\* A backend that does not answer is down within any cooldown.
LEMMA DownNow ==
  ASSUME RInv, NEW b \in Backends, b \notin up
  PROVE  downAt[b] # Never /\ clock < downAt[b] + Cooldown
BY Clocks DEF RInv, DownSeen

\* A run is given no model of a backend found missing, and fails only if some breaker
\* is open (select).
LEMMA SelectAvoids ==
  ASSUME RInv, ManifestServes, AsksServe, NEW t \in Callers, Select(t), NEW u \in Callers
  PROVE  Avoided(u) /\ Forgotten(u)
<1> DEFINE r == Request(t)
<1>1. PICK lane \in LanesFor(r) :
        \/ \E m \in Eligible(lane, r.tokens) :
             chosen' = [chosen EXCEPT ![t] = m] /\ at' = [at EXCEPT ![t] = "call"]
        \/ Eligible(lane, r.tokens) = {} /\ at' = [at EXCEPT ![t] = "dead"] /\ UNCHANGED <<chosen, decision>>
  BY DEF Select
<1>2. at[t] = "select" /\ missedAt' = missedAt
  BY DEF Select
<1>3. /\ r \in ToSet(Asks[t]) /\ r.tokens \in Nat /\ lane \in DOMAIN Lanes
      /\ lane # "embedding" /\ Lanes[lane] # <<>>
  BY RequestIs, LanesForAre DEF RInv, RoutingTypeOK, AsksServe, ManifestServes
<1> HIDE DEF r
<1>4. ASSUME NEW m \in Eligible(lane, r.tokens),
             chosen' = [chosen EXCEPT ![t] = m], at' = [at EXCEPT ![t] = "call"]
      PROVE  Avoided(u) /\ Forgotten(u)
  <2>1. m \in Models /\ ~IsOpen(m)
    BY <1>3, EligibleAre
  <2>2. missedAt[Backend[m]] = Never \/ clock >= missedAt[Backend[m]] + Cooldown
    BY <2>1, OpenMeansMissed
  <2>3. CASE u = t
    <3>1. chosen'[t] = m /\ at'[t] = "call"
      BY <1>4 DEF RInv, RoutingTypeOK
    <3> QED BY <2>2, <2>3, <3>1, <1>2 DEF Avoided, Forgotten
  <2>4. CASE u # t
    <3>1. chosen'[u] = chosen[u] /\ at'[u] = at[u]
      BY <1>4, <2>4 DEF RInv, RoutingTypeOK
    <3> QED BY <3>1 DEF Avoided, Forgotten
  <2> QED BY <2>3, <2>4
<1>5. ASSUME Eligible(lane, r.tokens) = {}, at' = [at EXCEPT ![t] = "dead"], UNCHANGED chosen
      PROVE  Avoided(u) /\ Forgotten(u)
  <2>1. PICK m \in Models : IsOpen(m)
    BY <1>3, <1>5, NoneEligible
  <2>2. \E b \in Backends : downAt[b] # Never /\ clock < downAt[b] + Cooldown
    BY <2>1, OpenMeansMissed
  <2>3. at'[u] # "call" \/ at[u] = "call"
    BY <1>2, <1>5 DEF RInv, RoutingTypeOK
  <2>4. Avoided(u)
    BY <2>3, <1>5 DEF Avoided
  <2> QED BY <2>2, <2>4 DEF Forgotten
<1> QED BY <1>1, <1>4, <1>5

\* Nor by stand_in_for, and then it is because a backend is down.
LEMMA UnreachableAvoids ==
  ASSUME RInv, ManifestServes, NEW t \in Callers, Unreachable(t), NEW u \in Callers
  PROVE  Avoided(u) /\ Forgotten(u)
<1> DEFINE m == chosen[t]
           b == Backend[m]
           n == StandIns(m)[1]
<1>1. /\ at[t] = "call" /\ b \notin up /\ missedAt' = [missedAt EXCEPT ![b] = clock]
  BY DEF Unreachable, Over
<1>2. \/ at' = [at EXCEPT ![t] = "dead"] /\ chosen' = [chosen EXCEPT ![t] = NoModel]
      \/ StandIns(m) # <<>> /\ chosen' = [chosen EXCEPT ![t] = n] /\ UNCHANGED at
  BY DEF Unreachable, Over
<1>3. m \in Models /\ Listed(m)
  BY <1>1 DEF RInv, ChosenRight
<1>4. b \in Backends
  BY <1>3, RoutingAssumption
<1>5. StandIns(m) # <<>> => n \in Models /\ ~IsOpen(n) /\ Backend[n] # b
  BY <1>3, StandInIs
<1> HIDE DEF m, b, n
<1>6. Forgotten(u)
  BY <1>1, <1>4, DownNow DEF Forgotten
<1>7. CASE u # t
  <2>1. chosen'[u] = chosen[u] /\ at'[u] = at[u]
    BY <1>2, <1>7 DEF RInv, RoutingTypeOK
  <2> QED BY <2>1, <1>6 DEF Avoided
<1>8. CASE u = t /\ at' = [at EXCEPT ![t] = "dead"]
  <2>1. at'[t] = "dead"
    BY <1>8 DEF RInv, RoutingTypeOK
  <2> QED BY <2>1, <1>6, <1>8 DEF Avoided
<1>9. CASE u = t /\ StandIns(m) # <<>> /\ chosen' = [chosen EXCEPT ![t] = n]
  <2>1. chosen'[t] = n /\ n \in Models /\ ~IsOpen(n) /\ Backend[n] # b
    BY <1>5, <1>9 DEF RInv, RoutingTypeOK
  <2>2. missedAt[Backend[n]] = Never \/ clock >= missedAt[Backend[n]] + Cooldown
    BY <2>1, OpenMeansMissed
  <2>3. missedAt'[Backend[n]] = missedAt[Backend[n]]
    BY <2>1, <1>1, OpenMeansMissed DEF RInv
  <2> QED BY <2>1, <2>2, <2>3, <1>6, <1>9 DEF Avoided
<1> QED BY <1>2, <1>7, <1>8, <1>9

\* A stream breaks because its backend is down (_synthesise).
LEMMA BreaksAvoids ==
  ASSUME RInv, NEW t \in Callers, StreamBreaks(t), NEW u \in Callers
  PROVE  Avoided(u) /\ Forgotten(u)
<1>1. /\ at[t] = "call" /\ Backend[chosen[t]] \notin up
      /\ at' = [at EXCEPT ![t] = "dead"] /\ chosen' = [chosen EXCEPT ![t] = NoModel]
  BY DEF StreamBreaks, Over
<1>2. Backend[chosen[t]] \in Backends
  BY <1>1, RoutingAssumption DEF RInv, ChosenRight
<1>3. Forgotten(u)
  BY <1>1, <1>2, DownNow DEF Forgotten
<1>4. at'[u] # "call" \/ (at[u] = "call" /\ chosen'[u] = chosen[u])
  BY <1>1 DEF RInv, RoutingTypeOK
<1>5. Avoided(u)
  BY <1>4 DEF Avoided
<1> QED BY <1>3, <1>5

\* A step that neither turns a run to a model nor fails one.
LEMMA NothingTurns ==
  ASSUME NEW u \in Callers, at'[u] # "dead" \/ at[u] = "dead",
         at'[u] # "call" \/ (at[u] = "call" /\ chosen'[u] = chosen[u])
  PROVE  Avoided(u) /\ Forgotten(u)
BY DEF Avoided, Forgotten

\* No step turns a run to a backend found missing, or fails it without an outage.
LEMMA StepAvoids ==
  ASSUME RInv, ManifestServes, AsksServe, [RoutingNext]_routingVars, NEW u \in Callers
  PROVE  Avoided(u) /\ Forgotten(u)
<1>1. ASSUME NEW t \in Callers, Route(t) \/ Poll(t) \/ EndProbe(t) \/ Answered(t)
      PROVE  Avoided(u) /\ Forgotten(u)
  <2>1. CASE Route(t)
    BY <2>1, NothingTurns DEF Route, RInv, RoutingTypeOK
  <2>2. CASE Poll(t)
    BY <2>2, NothingTurns DEF Poll
  <2>3. CASE EndProbe(t)
    BY <2>3, NothingTurns DEF EndProbe, RInv, RoutingTypeOK
  <2>4. CASE Answered(t)
    BY <2>4, NothingTurns DEF Answered, Over, RInv, RoutingTypeOK
  <2> QED BY <1>1, <2>1, <2>2, <2>3, <2>4
<1>6. ASSUME NEW t \in Callers, AskAgain(t) PROVE Avoided(u) /\ Forgotten(u)
  <2>1. /\ at' = at /\ ~askedAgain[t] /\ askedAgain' = [askedAgain EXCEPT ![t] = TRUE]
        /\ chosen' = [chosen EXCEPT ![t] = routed[t]]
    BY <1>6 DEF AskAgain
  <2>2. u = t => askedAgain'[u] # askedAgain[u]
    BY <2>1 DEF RInv, RoutingTypeOK
  <2>3. u # t => chosen'[u] = chosen[u]
    BY <2>1 DEF RInv, RoutingTypeOK
  <2> QED BY <2>1, <2>2, <2>3 DEF Avoided, Forgotten
<1>2. ASSUME NEW t \in Callers, RunStep(t) PROVE Avoided(u) /\ Forgotten(u)
  BY <1>1, <1>2, <1>6, SelectAvoids, UnreachableAvoids, BreaksAvoids DEF RunStep
<1>3. ASSUME UNCHANGED runVars PROVE Avoided(u) /\ Forgotten(u)
  BY <1>3, NothingTurns DEF runVars
<1>4. ASSUME NEW b \in Backends, Stops(b) \/ Starts(b) PROVE UNCHANGED runVars
  BY <1>4 DEF Stops, Starts
<1>5. Tick \/ UNCHANGED routingVars => UNCHANGED runVars
  BY DEF Tick, routingVars
<1> QED BY <1>2, <1>3, <1>4, <1>5 DEF RoutingNext

\* For every manifest that serves, and any number of runs, models, backends and
\* outages: a backend found missing is avoided for one cooldown by every run that is
\* routed or looks for a stand-in (not by the second call of a planner, which is not
\* routed), and a run fails for want of a model only within one of an outage
\* (router.py, policy.py, _plan).
THEOREM OutagesAreRemembered ==
  ASSUME ManifestServes, AsksServe
  PROVE  RoutingSpec => OutageIsAvoidedThenForgotten
<1>1. RoutingInit => RInv
  BY AtStart
<1>2. RInv /\ [RoutingNext]_routingVars => RInv'
  BY RoutingKeeps
<1>3. RInv /\ [RoutingNext]_routingVars => [\A t \in Callers : Avoided(t) /\ Forgotten(t)]_routingVars
  BY StepAvoids
<1> QED BY <1>1, <1>2, <1>3, PTL DEF RoutingSpec, OutageIsAvoidedThenForgotten

-----------------------------------------------------------------------------
(***************************************************************************)
(* The calculator.                                                         *)
(***************************************************************************)

\* What a name stands for is one of the values given for it.
LEMMA CleanedValue ==
  ASSUME NEW call \in Given, NEW n \in DOMAIN Cleaned(call)
  PROVE  \E i \in DOMAIN call.inputs :
           Canonical(call.calculation, call.inputs[i][1]) = n /\ n # "ignored"
             /\ Cleaned(call)[n] = call.inputs[i]
<1> DEFINE names == [i \in DOMAIN call.inputs |-> Canonical(call.calculation, call.inputs[i][1])]
           spots == {i \in DOMAIN names : names[i] = n}
<1>1. n \in ToSet(names) \ {"ignored"} /\ Cleaned(call)[n] = call.inputs[Min(spots)]
  BY DEF Cleaned
<1>2. DOMAIN names = DOMAIN call.inputs /\ DOMAIN call.inputs = 1..Len(call.inputs)
  BY QuantitiesAreRead
<1>3. spots # {} /\ spots \in SUBSET Nat
  BY <1>1, <1>2 DEF ToSet
<1> HIDE DEF spots
<1>4. Min(spots) \in spots
  <2>1. \E x \in spots : \A y \in spots : x <= y
    BY <1>3, NatHasMin
  <2> QED BY <2>1 DEF Min
<1>5. Min(spots) \in DOMAIN call.inputs /\ Canonical(call.calculation, call.inputs[Min(spots)][1]) = n
  BY <1>2, <1>4 DEF spots
<1> QED BY <1>1, <1>5

\* A calculation that is carried out has all it requires, and as quantities.
LEMMA OkInputs ==
  ASSUME NEW call \in Given, Calculate(call).status = "ok"
  PROVE  /\ Parameters[call.calculation].required \subseteq DOMAIN Sizes(call)
         /\ \A n \in DOMAIN Sizes(call) : n # "location" => Sizes(call)[n] \in Int
         /\ call.calculation = "corrosion_rate" => SourceCheck(Sizes(call), Forms(call)) = "passed"
         /\ Calculate(call) = Handled(call.calculation, Sizes(call))
<1> DEFINE q == Sizes(call)
           form == Forms(call)
           missing == ~(Parameters[call.calculation].required \subseteq DOMAIN q)
           unreadable == \E n \in DOMAIN q : n # "location" /\ form[n] = "none"
           misfit == \E n \in DOMAIN q \ Dimensionless : n # "location" /\ form[n] # "fits"
           check == IF call.calculation = "corrosion_rate" THEN SourceCheck(q, form) ELSE "passed"
<1>1. Calculate(call) = IF missing \/ unreadable THEN Refuse
                        ELSE IF check = "failed" THEN Failure
                        ELSE IF check = "refused" \/ misfit THEN Refuse
                        ELSE Handled(call.calculation, q)
  BY DEF Calculate
<1>2. check \in {"failed", "refused", "passed"}
  BY DEF SourceCheck, Against
<1>3. Refuse.status # "ok" /\ Failure.status # "ok"
  BY DEF Refuse, Failure
<1> HIDE DEF missing, unreadable, check, misfit
<1>4. ~missing /\ check = "passed" /\ Calculate(call) = Handled(call.calculation, q)
  BY <1>1, <1>2, <1>3
<1>5. ASSUME NEW n \in DOMAIN q, n # "location" PROVE q[n] \in Int
  <2>1. n \in DOMAIN Cleaned(call) /\ q[n] = Cleaned(call)[n][2]
    BY DEF Sizes
  <2>2. PICK i \in DOMAIN call.inputs : Canonical(call.calculation, call.inputs[i][1]) = n
                 /\ n # "ignored" /\ Cleaned(call)[n] = call.inputs[i]
    BY <2>1, CleanedValue
  <2>3. call.inputs[i][2] \in Int
    BY <1>5, <2>2, QuantitiesAreRead
  <2> QED BY <2>1, <2>2, <2>3
<1> QED BY <1>4, <1>5 DEF missing, check

\* The numbers of a run's documents are numbers, and what the lines about a place
\* say is what is looked up for it, unless its name is part of another's.
LEMMA Recorded ==
  ASSUME lines = {} \/ lines \in Documents, NEW place, OwnName(place), NEW year
  PROVE  Read(year, place) = RecordedFor(year, place) /\ Read(year, place) \subseteq Int
<1>1. \A l \in lines : l.place \in l.names /\ l.numbers \subseteq Int
  BY QuantitiesAreRead
<1>2. {l \in lines : l.place = place /\ year \in l.years}
        = {l \in lines : year \in l.years /\ place \in l.names}
  BY <1>1 DEF OwnName
<1> QED BY <1>1, <1>2 DEF Read, RecordedFor

\* A reading that is not contradicted is near one that is recorded.
LEMMA NotContradicted ==
  ASSUME NEW q, NEW form, NEW thickness, NEW year, Against(q, form, thickness, year) = "passed",
         year \in DOMAIN q, form[year] = "fits", RecordedFor(q[year], q["location"]) # {}
  PROVE  \E n \in RecordedFor(q[year], q["location"]) : Near(q[thickness], n)
BY DEF Against

\* A rate is worked out of readings the documents do not contradict.
LEMMA RateFollows ==
  ASSUME lines = {} \/ lines \in Documents, NEW call \in Given,
         call.calculation = "corrosion_rate", Calculate(call).status = "ok",
         given = call, result = Calculate(call)
  PROVE  RateIsOfTheReadings
<1> DEFINE q == Sizes(call)
           form == Forms(call)
           Bare(year) == year \in DOMAIN q /\ form[year] = "fits"
           AsRecorded(thickness, year) ==
             Bare(year) /\ Read(q[year], q["location"]) # {}
               => \E n \in Read(q[year], q["location"]) : Near(q[thickness], n)
<1>1. /\ {"initial_thickness", "current_thickness", "interval", "location"} \subseteq DOMAIN q
      /\ \A n \in DOMAIN q : n # "location" => q[n] \in Int
      /\ SourceCheck(q, form) = "passed"
      /\ result = Handled("corrosion_rate", q) /\ result.status = "ok"
  BY OkInputs, ParametersAsListed
<1>2. result = CorrosionRate(q)
  BY <1>1 DEF Handled
<1> HIDE DEF q, form
<1>3. Against(q, form, "initial_thickness", "initial_year") = "passed"
      /\ Against(q, form, "current_thickness", "current_year") = "passed"
  BY <1>1 DEF SourceCheck
<1> SUFFICES ASSUME OwnName(q["location"])
             PROVE  /\ AsRecorded("initial_thickness", "initial_year")
                    /\ AsRecorded("current_thickness", "current_year")
                    /\ \A r, s \in UNION {l.numbers : l \in lines} :
                         /\ Bare("initial_year") /\ Bare("current_year")
                         /\ Read(q["initial_year"], q["location"]) = {r}
                         /\ Read(q["current_year"], q["location"]) = {s}
                         => /\ Span(q) > 0
                            /\ \E i \in Around(r), c \in Around(s) :
                                 result.value[1] * Span(q) = (i - c) * result.value[2]
  BY DEF RateIsOfTheReadings, q, form
<1>4. \A year : Read(year, q["location"]) = RecordedFor(year, q["location"])
                  /\ Read(year, q["location"]) \subseteq Int
  BY Recorded
<1>5. AsRecorded("initial_thickness", "initial_year")
  BY <1>3, <1>4, NotContradicted
<1>6. AsRecorded("current_thickness", "current_year")
  BY <1>3, <1>4, NotContradicted
<1>7. ASSUME NEW r, NEW s, Bare("initial_year"), Bare("current_year"),
             Read(q["initial_year"], q["location"]) = {r}, Read(q["current_year"], q["location"]) = {s}
      PROVE  Span(q) > 0 /\ \E i \in Around(r), c \in Around(s) :
                              result.value[1] * Span(q) = (i - c) * result.value[2]
  <2> DEFINE i == q["initial_thickness"]
             c == q["current_thickness"]
  <2>1. i \in Int /\ c \in Int /\ r \in Int /\ s \in Int
    BY <1>1, <1>4, <1>7
  <2>2. Near(i, r) /\ Near(c, s)
    BY <1>5, <1>6, <1>7
  <2>3. i \in Around(r) /\ c \in Around(s)
    <3> HIDE DEF i, c
    <3> QED BY <2>1, <2>2, QuantitiesAreRead DEF Near, Around
  <2>4. Span(q) \in Int /\ Dated(q)
    BY <1>1, <1>7 DEF Span, Dated
  <2>5. CorrosionRate(q) # Refuse
    BY <1>1, <1>2 DEF Refuse
  <2>6. Span(q) > 0 /\ CorrosionRate(q) = Ok(<<10 * (i - c), Interval(q)>>)
    BY <2>4, <2>5 DEF CorrosionRate
  <2>7. Interval(q) = 10 * Span(q)
    BY <2>4 DEF Interval
  <2>8. result.value[1] = 10 * (i - c) /\ result.value[2] = 10 * Span(q)
    BY <1>2, <2>6, <2>7 DEF Ok
  <2> DEFINE d == i - c
             n == Span(q)
  <2>9. d \in Int /\ n \in Int
    BY <2>1, <2>4
  <2> HIDE DEF d, n
  <2>10. (10 * d) * n = d * (10 * n)
    BY <2>9
  <2>11. result.value[1] * Span(q) = (i - c) * result.value[2]
    BY <2>8, <2>10 DEF d, n
  <2> QED BY <2>3, <2>6, <2>11
<1> QED BY <1>5, <1>6, <1>7

\* The shell of the thickness for a pressure may be worked at that pressure.
LEMMA ShellFollows ==
  ASSUME NEW call \in Given, call.calculation = "minimum_thickness_shell",
         Calculate(call).status = "ok", given = call, result = Calculate(call)
  PROVE  ShellFormulasAgree
<1> DEFINE q == Sizes(call)
<1>1. /\ {"design_pressure", "inside_radius", "allowable_stress"} \subseteq DOMAIN q
      /\ \A n \in DOMAIN q : n # "location" => q[n] \in Int
      /\ result = Handled("minimum_thickness_shell", q) /\ result.status = "ok"
  BY OkInputs, ParametersAsListed
<1>2. result = MinimumThickness(q)
  BY <1>1 DEF Handled
<1>3. given = call /\ Sizes(given) = q
  OBVIOUS
<1> HIDE DEF q
<1> DEFINE P == q["design_pressure"]
           R == q["inside_radius"]
           SE == q["allowable_stress"] * Efficiency(q)
           D == SE - 6 * P
<1>4. P \in Int /\ R \in Int /\ q["allowable_stress"] \in Int /\ Efficiency(q) \in Int
  BY <1>1 DEF Efficiency
<1>5. SE \in Int
  BY <1>4
<1>6. result = Ok(<<10 * P * R, D>>)
  <2>1. MinimumThickness(q) # Refuse
    BY <1>1, <1>2 DEF Refuse
  <2> QED BY <1>2, <2>1 DEF MinimumThickness
<1>7. result.value[1] = 10 * P * R /\ result.value[2] = D
  BY <1>6 DEF Ok
<1> DEFINE v == result.value
           below == 10 * R * v[2] + 6 * v[1]
           X == R * SE
<1>8. Mawp(q, v) = IF below = 0 THEN Refuse ELSE Ok(<<SE * v[1], below>>)
  BY DEF Mawp
<1>9. below = 10 * X /\ SE * v[1] = P * (10 * X) /\ X \in Int
  <2> HIDE DEF P, R, SE, v
  <2>1. 10 * R * D + 6 * (10 * P * R) = 10 * (R * SE)
    BY <1>4, <1>5, SMTT(30) DEF P, R
  <2>2. SE * (10 * P * R) = P * (10 * (R * SE))
    BY <1>4, <1>5, SMTT(30) DEF P, R
  <2>3. R * SE \in Int
    BY <1>4, <1>5 DEF R
  <2> QED BY <1>7, <2>1, <2>2, <2>3 DEF v
<1> HIDE DEF below, v, X, D
<1>10. ASSUME X # 0
       PROVE  Mawp(q, v).status = "ok" /\ Mawp(q, v).value[1] = P * Mawp(q, v).value[2]
  <2>1. below # 0
    BY <1>9, <1>10
  <2>2. Mawp(q, v) = Ok(<<SE * v[1], below>>)
    BY <1>8, <2>1
  <2> HIDE DEF SE, P
  <2> QED BY <1>9, <2>2 DEF Ok
<1> QED BY <1>3, <1>10 DEF ShellFormulasAgree, v, X

\* A call is answered by the calculation of what was retrieved before it.
CalcInv ==
  /\ lines = {} \/ lines \in Documents
  /\ \/ given = NoCall
     \/ given \in Given /\ result = Calculate(given)

\* It holds at the start ...
LEMMA CalcInvInit == CalcInit => CalcInv
BY DEF CalcInit, CalcInv

\* ... every step keeps it ...
LEMMA CalcInvStep == CalcInv /\ [CalcNext]_calcVars => CalcInv'
<1> SUFFICES ASSUME CalcInv, [CalcNext]_calcVars PROVE CalcInv'
  OBVIOUS
<1>1. CASE Retrieved
  BY <1>1 DEF CalcInv, Retrieved
<1>2. CASE Called
  <2>1. given' \in Given /\ result' = Calculate(given') /\ lines' = lines
    BY <1>2 DEF Called
  <2>2. Calculate(given)' = Calculate(given')
    BY <2>1 DEF Calculate, SourceCheck, Against, RecordedFor
  <2> QED BY <2>1, <2>2 DEF CalcInv
<1>3. CASE UNCHANGED calcVars
  BY <1>3 DEF CalcInv, calcVars, Calculate, SourceCheck, Against, RecordedFor
<1> QED BY <1>1, <1>2, <1>3 DEF CalcNext

\* ... and the property follows.
LEMMA CalcInvHolds == CalcInv => CalculationsHold
<1> SUFFICES ASSUME CalcInv PROVE CalculationsHold
  OBVIOUS
<1>1. CASE given = NoCall
  BY <1>1 DEF CalculationsHold, RateIsOfTheReadings, ShellFormulasAgree, NoCall
<1>2. CASE given \in Given /\ result = Calculate(given)
  <2>1. RateIsOfTheReadings
    <3>1. CASE given.calculation = "corrosion_rate" /\ result.status = "ok"
      BY <1>2, <3>1, RateFollows DEF CalcInv
    <3> QED BY <3>1 DEF RateIsOfTheReadings
  <2>2. ShellFormulasAgree
    <3>1. CASE given.calculation = "minimum_thickness_shell" /\ result.status = "ok"
      BY <1>2, <3>1, ShellFollows
    <3> QED BY <3>1 DEF ShellFormulasAgree
  <2> QED BY <2>1, <2>2 DEF CalculationsHold
<1> QED BY <1>1, <1>2 DEF CalcInv

\* A corrosion rate is one of the readings the documents have, and the shell formulas
\* are each other's inverse, for any documents, names and quantities (tools/calc.py).
THEOREM CalculatorTraceable == CalcSpec => []CalculationsHold
BY CalcInvInit, CalcInvStep, CalcInvHolds, PTL DEF CalcSpec

-----------------------------------------------------------------------------
(***************************************************************************)
(* Numbers in order.                                                       *)
(***************************************************************************)

Below(i, S) == {j \in S : j <= i}

\* The n-th of a set of numbers is the one with n up to it.
LEMMA NthIs ==
  ASSUME NEW S, IsFiniteSet(S), S \in SUBSET Nat
  PROVE  /\ Cardinality(S) \in Nat
         /\ \A k \in 1..Cardinality(S) : Nth(k, S) \in S /\ Cardinality(Below(Nth(k, S), S)) = k
         /\ \A i \in S : Cardinality(Below(i, S)) \in 1..Cardinality(S)
                           /\ Nth(Cardinality(Below(i, S)), S) = i
         /\ \A k, l \in 1..Cardinality(S) : k < l => Nth(k, S) < Nth(l, S)
<1> DEFINE n == Cardinality(S)
           rank == [r \in S |-> Cardinality(Below(r, S))]
<1>1. n \in Nat
  BY FS_CardinalityType
<1>2. ASSUME NEW r \in S
      PROVE  /\ IsFiniteSet(Below(r, S)) /\ Cardinality(Below(r, S)) \in Nat
             /\ Cardinality(Below(r, S)) <= n /\ Cardinality(Below(r, S)) # 0
  <2>1. Below(r, S) \in SUBSET S /\ r \in Below(r, S)
    BY DEF Below
  <2>2. IsFiniteSet(Below(r, S)) /\ Cardinality(Below(r, S)) <= n
    BY <2>1, FS_Subset
  <2> QED BY <2>1, <2>2, FS_CardinalityType, FS_EmptySet
<1>3. ASSUME NEW q \in S, NEW r \in S, q < r
      PROVE  Cardinality(Below(q, S)) < Cardinality(Below(r, S))
  <2>0. q \in Nat /\ r \in Nat /\ \A j \in S : j \in Nat
    OBVIOUS
  <2>1. \A j \in S : j <= q => j <= r
    BY <1>3, <2>0
  <2>3. r <= r /\ ~(r <= q)
    BY <1>3, <2>0
  <2>4. Below(q, S) \in SUBSET Below(r, S) /\ r \in Below(r, S) /\ r \notin Below(q, S)
    BY <2>1, <2>3 DEF Below
  <2>2. /\ Cardinality(Below(q, S)) <= Cardinality(Below(r, S))
        /\ Cardinality(Below(r, S)) # Cardinality(Below(q, S))
    BY <1>2, <2>4, FS_Subset
  <2> QED BY <1>2, <2>2
<1>4. rank \in [S -> 1..n]
  BY <1>1, <1>2
<1>5. \A q, r \in S : rank[q] = rank[r] => q = r
  <2> SUFFICES ASSUME NEW q \in S, NEW r \in S, q # r
               PROVE  Cardinality(Below(q, S)) # Cardinality(Below(r, S))
    OBVIOUS
  <2>1. q < r \/ r < q
    OBVIOUS
  <2> QED BY <1>2, <1>3, <2>1
<1>6. rank \in Injection(S, 1..n)
  BY <1>4, <1>5 DEF Injection, IsInjective
<1>7. IsFiniteSet(1..n) /\ Cardinality(1..n) = n
  BY <1>1, FS_Interval
<1>8. rank \in Surjection(S, 1..n)
  <2> HIDE DEF rank
  <2> QED BY <1>6, <1>7, FS_Injection
<1>9. \A i \in 1..n : \E r \in S : rank[r] = i
  <2> HIDE DEF rank
  <2> QED BY <1>8 DEF Surjection
<1>10. \A k \in 1..n : Nth(k, S) \in S /\ Cardinality(Below(Nth(k, S), S)) = k
  BY <1>9 DEF Nth, Below
<1>11. ASSUME NEW i \in S PROVE Nth(Cardinality(Below(i, S)), S) = i
  <2> DEFINE k == Cardinality(Below(i, S))
             m == Nth(k, S)
  <2>1. k \in 1..n
    BY <1>1, <1>2
  <2>2. m \in S /\ Cardinality(Below(m, S)) = k
    BY <1>10, <2>1
  <2> HIDE DEF m
  <2>3. rank[m] = rank[i]
    BY <2>2
  <2>4. m = i
    BY <1>5, <2>2, <2>3
  <2> QED BY <2>4 DEF m
<1>12. ASSUME NEW k \in 1..n, NEW l \in 1..n, k < l PROVE Nth(k, S) < Nth(l, S)
  <2>1. Nth(k, S) \in S /\ Nth(l, S) \in S
        /\ Cardinality(Below(Nth(k, S), S)) = k /\ Cardinality(Below(Nth(l, S), S)) = l
    BY <1>10
  <2>2. Nth(l, S) < Nth(k, S) => l < k
    BY <1>3, <2>1
  <2>3. Nth(l, S) # Nth(k, S)
    BY <1>12, <2>1
  <2>4. Nth(k, S) \in Nat /\ Nth(l, S) \in Nat
    BY <2>1
  <2> HIDE DEF n
  <2> QED BY <1>1, <1>12, <2>2, <2>3, <2>4
<1>13. \A i \in S : Cardinality(Below(i, S)) \in 1..n
  BY <1>1, <1>2
<1> QED BY <1>1, <1>10, <1>11, <1>12, <1>13

-----------------------------------------------------------------------------
(***************************************************************************)
(* The fragments of calls.                                                 *)
(***************************************************************************)

Frags == UNION {ToSet(line.fragments) : line \in Lines["openai"]}
Slot == [name : {f.name : f \in Frags} \cup {""}, arguments : Seq({f.arguments : f \in Frags})]

\* Calls by index.
Slots == {slots \in UNION {[D -> Slot] : D \in SUBSET Nat} : TRUE}

\* What it is to be one of them.
LEMMA SlotsAre == ASSUME NEW slots PROVE slots \in Slots <=> DOMAIN slots \in SUBSET Nat /\ slots \in [DOMAIN slots -> Slot]
BY DEF Slots

\* A fragment says which call it is of (index).
LEMMA FragsAre == \A f \in Frags : f.index \in Nat
BY LinesAreRead DEF Frags, Dialects

\* Before the first fragment.
LEMMA NoSlots == <<>> \in Slots
<1>1. DOMAIN <<>> = {} /\ <<>> \in [{} -> Slot]
  OBVIOUS
<1> QED BY <1>1, SlotsAre

\* One fragment more gives a call per index again (_accumulate_tool_calls).
LEMMA AccumulateType == ASSUME NEW slots \in Slots, NEW f \in Frags PROVE Accumulate(slots, f) \in Slots
<1> DEFINE slot == IF f.index \in DOMAIN slots THEN slots[f.index] ELSE NoSlot
           new == [name |-> Or(f.name, slot.name),
                   arguments |-> IF f.arguments = "" THEN slot.arguments
                                 ELSE Append(slot.arguments, f.arguments)]
           A == {g.arguments : g \in Frags}
<1>1. DOMAIN slots \in SUBSET Nat /\ slots \in [DOMAIN slots -> Slot]
  BY SlotsAre
<1>2. NoSlot \in Slot
  BY DEF NoSlot, Slot
<1>3. slot \in Slot
  BY <1>1, <1>2
<1> HIDE DEF slot
<1>4. new.arguments \in Seq(A)
  <2>1. slot.arguments \in Seq(A) /\ f.arguments \in A
    BY <1>3 DEF Slot
  <2> HIDE DEF A
  <2>2. Append(slot.arguments, f.arguments) \in Seq(A)
    BY <2>1, AppendProperties
  <2> QED BY <2>1, <2>2
<1>5. new \in Slot
  BY <1>3, <1>4 DEF Slot, Or
<1>6. Accumulate(slots, f) = [i \in DOMAIN slots \cup {f.index} |-> IF i # f.index THEN slots[i] ELSE new]
  BY DEF Accumulate, slot
<1> HIDE DEF new
<1>7. Accumulate(slots, f) \in [DOMAIN slots \cup {f.index} -> Slot]
  BY <1>1, <1>5, <1>6
<1> QED BY <1>1, <1>7, FragsAre, SlotsAre

Gathers(slots, fs, F) ==
  F = [i \in 0..Len(fs) |-> IF i = 0 THEN slots ELSE Accumulate(F[i - 1], fs[i])]

\* What the fragments of a line make.
LEMMA AccumulatedIs ==
  ASSUME NEW slots, NEW fs PROVE Accumulated(slots, fs) = (CHOOSE F : Gathers(slots, fs, F))[Len(fs)]
BY DEF Accumulated, Gathers

\* The values after each fragment.
After(slots, fs, F) ==
  /\ F \in [0..Len(fs) -> Slots] /\ Accumulated(slots, fs) = F[Len(fs)] /\ F[0] = slots
  /\ \A i \in 1..Len(fs) : F[i] = Accumulate(F[i - 1], fs[i])

\* They make something.
LEMMA Gathered == ASSUME NEW slots \in Slots, NEW fs \in Seq(Frags) PROVE \E F : After(slots, fs, F)
<1> DEFINE n == Len(fs)
           step == [p \in (1..n) \X Slots |-> Accumulate(p[2], fs[p[1]])]
<1>1. n \in Nat /\ \A i \in 1..n : fs[i] \in Frags
  OBVIOUS
<1>2. step \in [(1..n) \X Slots -> Slots] /\ \A i \in 1..n, s \in Slots : step[<<i, s>>] = Accumulate(s, fs[i])
  BY <1>1, AccumulateType
<1> HIDE DEF step
<1>3. PICK G : Steps(n, Slots, slots, step, G)
  <2>1. n \in Nat /\ slots \in Slots /\ step \in [(1..n) \X Slots -> Slots]
    BY <1>1, <1>2
  <2> HIDE DEF n
  <2> QED BY <2>1, StepsExist, Zenon
<1>4. G \in [0..n -> Slots] /\ G[0] = slots /\ \A i \in 1..n : G[i] = Accumulate(G[i - 1], fs[i])
  <2>1. \A i \in 1..n : i - 1 \in 0..n
    BY <1>1
  <2> QED BY <1>2, <1>3, <2>1 DEF Steps
<1>5. Gathers(slots, fs, G)
  <2>1. G = [i \in 0..n |-> G[i]] /\ \A i \in 0..n : i = 0 \/ i \in 1..n
    BY <1>1, <1>4
  <2>2. \A i \in 0..n : G[i] = IF i = 0 THEN slots ELSE Accumulate(G[i - 1], fs[i])
    BY <1>4, <2>1
  <2> QED BY <2>1, <2>2 DEF Gathers
<1> DEFINE F == CHOOSE F : Gathers(slots, fs, F)
<1>6. Gathers(slots, fs, F)
  BY <1>5
<1>7. Accumulated(slots, fs) = F[n]
  BY AccumulatedIs
<1> HIDE DEF F
<1>8. \A i \in 0..n : F[i] = IF i = 0 THEN slots ELSE Accumulate(F[i - 1], fs[i])
  BY <1>6, Zenon DEF Gathers
<1> DEFINE N == {k \in Nat : k <= n => F[k] = G[k]}
<1>9. 0 \in N
  BY <1>1, <1>4, <1>8
<1>10. ASSUME NEW k \in Nat, k \in N PROVE k + 1 \in N
  <2> SUFFICES ASSUME k + 1 <= n PROVE F[k + 1] = G[k + 1]
    OBVIOUS
  <2>1. k + 1 \in 1..n /\ k + 1 \in 0..n /\ k + 1 # 0 /\ (k + 1) - 1 = k /\ F[k] = G[k]
    BY <1>1, <1>10
  <2> QED BY <1>4, <1>8, <2>1
<1> HIDE DEF N
<1>11. n \in N
  BY <1>1, <1>9, <1>10, Induction
<1>12. F[n] = G[n]
  BY <1>1, <1>11 DEF N
<1> QED BY <1>4, <1>7, <1>12 DEF After

\* A line without fragments changes nothing.
LEMMA AccumulatedEmpty == ASSUME NEW slots \in Slots PROVE Accumulated(slots, <<>>) = slots
<1> DEFINE none == <<>>
<1>1. none \in Seq(Frags) /\ Len(none) = 0
  OBVIOUS
<1> HIDE DEF none
<1>2. Accumulated(slots, none) = slots
  <2>1. PICK F : After(slots, none, F)
    BY <1>1, Gathered
  <2>2. Accumulated(slots, none) = F[Len(none)] /\ F[0] = slots
    BY <2>1, Zenon DEF After
  <2> QED BY <1>1, <2>2
<1> QED BY <1>2 DEF none

\* One fragment more.
LEMMA AccumulatedAppend ==
  ASSUME NEW slots \in Slots, NEW fs \in Seq(Frags), NEW f \in Frags
  PROVE  Accumulated(slots, Append(fs, f)) = Accumulate(Accumulated(slots, fs), f)
<1> DEFINE gs == Append(fs, f)
           n == Len(fs)
<1>1. gs \in Seq(Frags) /\ n \in Nat /\ Len(gs) = n + 1 /\ gs[n + 1] = f /\ \A i \in 1..n : gs[i] = fs[i]
  OBVIOUS
<1> HIDE DEF gs
<1>2. PICK F : Accumulated(slots, fs) = F[n] /\ F[0] = slots /\ \A i \in 1..n : F[i] = Accumulate(F[i - 1], fs[i])
  BY Gathered DEF After
<1>3. PICK G : Accumulated(slots, gs) = G[n + 1] /\ G[0] = slots /\ \A i \in 1..(n + 1) : G[i] = Accumulate(G[i - 1], gs[i])
  BY <1>1, Gathered DEF After
<1> HIDE DEF n
<1> DEFINE N == {k \in Nat : k <= n => F[k] = G[k]}
<1>4. 0 \in N
  BY <1>2, <1>3
<1>5. ASSUME NEW k \in Nat, k \in N PROVE k + 1 \in N
  <2> SUFFICES ASSUME k + 1 <= n PROVE F[k + 1] = G[k + 1]
    OBVIOUS
  <2>1. k + 1 \in 1..n /\ k + 1 \in 1..(n + 1) /\ (k + 1) - 1 = k /\ F[k] = G[k]
    BY <1>1, <1>5
  <2> QED BY <1>1, <1>2, <1>3, <2>1
<1> HIDE DEF N
<1>6. n \in N
  BY <1>1, <1>4, <1>5, Induction
<1>7. F[n] = G[n] /\ n + 1 \in 1..(n + 1) /\ (n + 1) - 1 = n
  BY <1>1, <1>6 DEF N
<1>8. G[n + 1] = Accumulate(G[n], f)
  BY <1>1, <1>3, <1>7
<1> QED BY <1>2, <1>3, <1>7, <1>8 DEF gs

\* What has been put together stays in the range of what fragments can give.
LEMMA AccumulatedType ==
  ASSUME NEW slots \in Slots, NEW fs \in Seq(Frags) PROVE Accumulated(slots, fs) \in Slots
<1>1. Len(fs) \in 0..Len(fs)
  OBVIOUS
<1> QED BY <1>1, Gathered DEF After

\* Line after line is the same as all fragments at once.
LEMMA AccumulatedConcat ==
  ASSUME NEW slots \in Slots, NEW fs \in Seq(Frags), NEW gs \in Seq(Frags)
  PROVE  Accumulated(Accumulated(slots, fs), gs) = Accumulated(slots, fs \o gs)
<1> DEFINE P == {hs \in Seq(Frags) : Accumulated(Accumulated(slots, fs), hs) = Accumulated(slots, fs \o hs)}
<1>0. Accumulated(slots, fs) \in Slots
  BY AccumulatedType
<1>1. <<>> \in P
  <2>1. fs \o <<>> = fs /\ <<>> \in Seq(Frags)
    BY ConcatEmptySeq
  <2> QED BY <1>0, <2>1, AccumulatedEmpty
<1>2. ASSUME NEW hs \in Seq(Frags), NEW f \in Frags, hs \in P PROVE Append(hs, f) \in P
  <2>1. fs \o Append(hs, f) = Append(fs \o hs, f) /\ fs \o hs \in Seq(Frags) /\ Append(hs, f) \in Seq(Frags)
    BY ConcatAppend
  <2>2. Accumulated(slots, Append(fs \o hs, f)) = Accumulate(Accumulated(slots, fs \o hs), f)
    BY <2>1, AccumulatedAppend
  <2>3. Accumulated(Accumulated(slots, fs), Append(hs, f)) = Accumulate(Accumulated(Accumulated(slots, fs), hs), f)
    BY <1>0, AccumulatedAppend
  <2> QED BY <1>2, <2>1, <2>2, <2>3
<1> HIDE DEF P
<1>3. gs \in P
  BY <1>1, <1>2, SeqInduction
<1> QED BY <1>3 DEF P

ArgumentSet == {f.arguments : f \in Frags}
NameSet == {f.name : f \in Frags}

\* One fragment more adds to the arguments and the names of its own call only.
LEMMA PiecesAppend ==
  ASSUME NEW fs \in Seq(Frags), NEW f \in Frags, NEW i
  PROVE  /\ Arguments(fs, i) \in Seq(ArgumentSet) /\ NamesGiven(fs, i) \in Seq(NameSet)
         /\ Arguments(Append(fs, f), i)
              = Arguments(fs, i) \o (IF f.index = i THEN Sent(f.arguments) ELSE <<>>)
         /\ NamesGiven(Append(fs, f), i)
              = NamesGiven(fs, i) \o (IF f.index = i THEN Sent(f.name) ELSE <<>>)
<1> DEFINE gs == Append(fs, f)
           n == Len(fs)
           ua == [k \in 1..n |-> IF fs[k].index = i THEN Sent(fs[k].arguments) ELSE <<>>]
           va == [k \in 1..(n + 1) |-> IF gs[k].index = i THEN Sent(gs[k].arguments) ELSE <<>>]
           un == [k \in 1..n |-> IF fs[k].index = i THEN Sent(fs[k].name) ELSE <<>>]
           vn == [k \in 1..(n + 1) |-> IF gs[k].index = i THEN Sent(gs[k].name) ELSE <<>>]
<1>1. /\ n \in Nat /\ DOMAIN fs = 1..n /\ DOMAIN gs = 1..(n + 1)
      /\ gs[n + 1] = f /\ n + 1 \in 1..(n + 1) /\ \A k \in 1..n : gs[k] = fs[k] /\ k \in 1..(n + 1)
      /\ \A k \in 1..n : fs[k] \in Frags
      /\ \A k \in 1..(n + 1) : gs[k] \in Frags
  OBVIOUS
<1>2. /\ Arguments(fs, i) = FlattenSeq(ua) /\ Arguments(gs, i) = FlattenSeq(va)
      /\ NamesGiven(fs, i) = FlattenSeq(un) /\ NamesGiven(gs, i) = FlattenSeq(vn)
  <2> HIDE DEF gs, n
  <2> QED BY <1>1 DEF Arguments, NamesGiven
<1>3. \A g \in Frags : Sent(g.arguments) \in Seq(ArgumentSet) /\ Sent(g.name) \in Seq(NameSet)
  <2> SUFFICES ASSUME NEW g \in Frags PROVE Sent(g.arguments) \in Seq(ArgumentSet) /\ Sent(g.name) \in Seq(NameSet)
    OBVIOUS
  <2>1. g.arguments \in ArgumentSet /\ g.name \in NameSet
    BY DEF ArgumentSet, NameSet
  <2>2. <<g.arguments>> \in Seq(ArgumentSet) /\ <<g.name>> \in Seq(NameSet)
    BY <2>1
  <2>3. <<>> \in Seq(ArgumentSet) /\ <<>> \in Seq(NameSet)
    OBVIOUS
  <2> QED BY <2>2, <2>3, Zenon DEF Sent
<1>4. <<>> \in Seq(ArgumentSet) /\ <<>> \in Seq(NameSet)
  OBVIOUS
<1> HIDE DEF gs, n
<1>5. ua \in [1..n -> Seq(ArgumentSet)] /\ va \in [1..(n + 1) -> Seq(ArgumentSet)]
  BY <1>1, <1>3, <1>4
<1>6. un \in [1..n -> Seq(NameSet)] /\ vn \in [1..(n + 1) -> Seq(NameSet)]
  BY <1>1, <1>3, <1>4
<1>7. \A k \in 1..n : va[k] = ua[k] /\ vn[k] = un[k]
  BY <1>1
<1>8. va[n + 1] = (IF f.index = i THEN Sent(f.arguments) ELSE <<>>)
      /\ vn[n + 1] = (IF f.index = i THEN Sent(f.name) ELSE <<>>)
  BY <1>1
<1> HIDE DEF ua, va, un, vn
<1>9. FlattenSeq(va) = FlattenSeq(ua) \o va[n + 1] /\ FlattenSeq(ua) \in Seq(ArgumentSet)
  BY <1>1, <1>5, <1>7, FlattenExtend
<1>10. FlattenSeq(vn) = FlattenSeq(un) \o vn[n + 1] /\ FlattenSeq(un) \in Seq(NameSet)
  BY <1>1, <1>6, <1>7, FlattenExtend
<1> QED BY <1>2, <1>8, <1>9, <1>10 DEF gs

\* No fragments bring neither arguments nor names.
LEMMA PiecesEmpty == ASSUME NEW i PROVE Arguments(<<>>, i) = <<>> /\ NamesGiven(<<>>, i) = <<>>
<1> DEFINE g == <<>>
           ua == [k \in DOMAIN g |-> IF g[k].index = i THEN Sent(g[k].arguments) ELSE <<>>]
           un == [k \in DOMAIN g |-> IF g[k].index = i THEN Sent(g[k].name) ELSE <<>>]
<1>1. ua = <<>> /\ un = <<>>
  OBVIOUS
<1>2. Arguments(g, i) = FlattenSeq(ua) /\ NamesGiven(g, i) = FlattenSeq(un)
  BY Zenon DEF Arguments, NamesGiven
<1> QED BY <1>1, <1>2, FlattenEmpty

\* What a call is put together as.
LastName(fs, i) == IF NamesGiven(fs, i) = <<>> THEN "" ELSE Last(NamesGiven(fs, i))
AsGiven(fs, i) == [name |-> LastName(fs, i), arguments |-> Arguments(fs, i)]

Holds(fs) ==
  LET slots == Accumulated(<<>>, fs)
  IN  /\ DOMAIN slots = {f.index : f \in ToSet(fs)}
      /\ \A i : i \in DOMAIN slots => slots[i] = AsGiven(fs, i)
      /\ \A i : i \notin DOMAIN slots => Arguments(fs, i) = <<>> /\ NamesGiven(fs, i) = <<>>
      /\ \A i : NamesGiven(fs, i) # <<>> => Last(NamesGiven(fs, i)) # ""

\* However the fragments of several calls are mixed.
LEMMA AllHold == ASSUME NEW fs \in Seq(Frags) PROVE Holds(fs)
<1> DEFINE P == {gs \in Seq(Frags) : Holds(gs)}
<1>1. <<>> \in P
  <2>1. Accumulated(<<>>, <<>>) = <<>>
    BY NoSlots, AccumulatedEmpty
  <2>2. DOMAIN <<>> = {} /\ {f.index : f \in ToSet(<<>>)} = {}
    BY DEF ToSet
  <2>3. <<>> \in Seq(Frags)
    OBVIOUS
  <2> QED BY <2>1, <2>2, <2>3, PiecesEmpty DEF Holds
<1>2. ASSUME NEW gs \in Seq(Frags), NEW f \in Frags, gs \in P PROVE Append(gs, f) \in P
  <2> DEFINE hs == Append(gs, f)
             old == Accumulated(<<>>, gs)
             new == Accumulated(<<>>, hs)
             slot == IF f.index \in DOMAIN old THEN old[f.index] ELSE NoSlot
  <2>1. new = Accumulate(old, f)
    BY NoSlots, AccumulatedAppend
  <2>2. hs \in Seq(Frags) /\ ToSet(hs) = ToSet(gs) \cup {f}
    BY SetAppend
  <2>3. /\ DOMAIN old = {g.index : g \in ToSet(gs)}
        /\ \A i : i \in DOMAIN old => old[i] = AsGiven(gs, i)
        /\ \A i : i \notin DOMAIN old => Arguments(gs, i) = <<>> /\ NamesGiven(gs, i) = <<>>
        /\ \A i : NamesGiven(gs, i) # <<>> => Last(NamesGiven(gs, i)) # ""
    BY <1>2 DEF Holds
  <2>4. \A i : /\ Arguments(gs, i) \in Seq(ArgumentSet) /\ NamesGiven(gs, i) \in Seq(NameSet)
               /\ Arguments(hs, i) = Arguments(gs, i) \o (IF f.index = i THEN Sent(f.arguments) ELSE <<>>)
               /\ NamesGiven(hs, i) = NamesGiven(gs, i) \o (IF f.index = i THEN Sent(f.name) ELSE <<>>)
    BY PiecesAppend
  <2> HIDE DEF hs, new, old
  <2>5. DOMAIN new = DOMAIN old \cup {f.index}
    BY <2>1 DEF Accumulate
  <2>6. \A i : i # f.index => Arguments(hs, i) = Arguments(gs, i) /\ NamesGiven(hs, i) = NamesGiven(gs, i)
    <3> SUFFICES ASSUME NEW i, i # f.index
                 PROVE  Arguments(hs, i) = Arguments(gs, i) /\ NamesGiven(hs, i) = NamesGiven(gs, i)
      OBVIOUS
    <3>1. Arguments(hs, i) = Arguments(gs, i) \o <<>> /\ NamesGiven(hs, i) = NamesGiven(gs, i) \o <<>>
      BY <2>4
    <3> QED BY <2>4, <3>1, ConcatEmptySeq
  <2>7. slot = AsGiven(gs, f.index)
    BY <2>3 DEF AsGiven, LastName, NoSlot
  <2> DEFINE A == Arguments(gs, f.index)
             N == NamesGiven(gs, f.index)
  <2>8. Arguments(hs, f.index) = IF f.arguments = "" THEN A ELSE Append(A, f.arguments)
    <3>1. A \in Seq(ArgumentSet) /\ Arguments(hs, f.index) = A \o Sent(f.arguments) /\ f.arguments \in ArgumentSet
      BY <2>4 DEF ArgumentSet
    <3> HIDE DEF A
    <3>2. A \o <<>> = A /\ A \o <<f.arguments>> = Append(A, f.arguments)
      BY <3>1, ConcatEmptySeq, AppendIsConcat
    <3> QED BY <3>1, <3>2 DEF Sent
  <2>9. NamesGiven(hs, f.index) = IF f.name = "" THEN N ELSE Append(N, f.name)
    <3>1. N \in Seq(NameSet) /\ NamesGiven(hs, f.index) = N \o Sent(f.name) /\ f.name \in NameSet
      BY <2>4 DEF NameSet
    <3> HIDE DEF N
    <3>2. N \o <<>> = N /\ N \o <<f.name>> = Append(N, f.name)
      BY <3>1, ConcatEmptySeq, AppendIsConcat
    <3> QED BY <3>1, <3>2 DEF Sent
  <2>10. Append(N, f.name) # <<>> /\ Last(Append(N, f.name)) = f.name
    <3>1. N \in Seq(NameSet) /\ f.name \in NameSet
      BY <2>4 DEF NameSet
    <3> HIDE DEF N
    <3>2. LET M == Append(N, f.name) IN Len(M) = Len(N) + 1 /\ Len(N) \in Nat /\ M[Len(N) + 1] = f.name
      BY <3>1, AppendProperties
    <3>3. Len(<<>>) = 0
      OBVIOUS
    <3> QED BY <3>2, <3>3 DEF Last
  <2>11. new[f.index] = AsGiven(hs, f.index)
    <3>1. new[f.index] = [name |-> Or(f.name, slot.name),
                          arguments |-> IF f.arguments = "" THEN slot.arguments
                                        ELSE Append(slot.arguments, f.arguments)]
      BY <2>1 DEF Accumulate
    <3>2. slot.name = (IF N = <<>> THEN "" ELSE Last(N)) /\ slot.arguments = A
      <4> HIDE DEF slot
      <4> QED BY <2>7 DEF AsGiven, LastName
    <3> HIDE DEF slot, A, N
    <3>3. Or(f.name, slot.name) = IF NamesGiven(hs, f.index) = <<>> THEN "" ELSE Last(NamesGiven(hs, f.index))
      BY <2>9, <2>10, <3>2 DEF Or
    <3> QED BY <2>8, <3>1, <3>2, <3>3 DEF AsGiven, LastName
  <2>12. \A i : i \in DOMAIN new => new[i] = AsGiven(hs, i)
    <3> SUFFICES ASSUME NEW i, i \in DOMAIN new, i # f.index PROVE new[i] = AsGiven(hs, i)
      BY <2>11
    <3>1. i \in DOMAIN old /\ new[i] = old[i]
      BY <2>1, <2>5 DEF Accumulate
    <3> QED BY <2>3, <2>6, <3>1 DEF AsGiven, LastName
  <2>13. \A i : NamesGiven(hs, i) # <<>> => Last(NamesGiven(hs, i)) # ""
    BY <2>3, <2>6, <2>9, <2>10
  <2>14. \A i : i \notin DOMAIN new => Arguments(hs, i) = <<>> /\ NamesGiven(hs, i) = <<>>
    BY <2>3, <2>5, <2>6
  <2>15. DOMAIN new = {g.index : g \in ToSet(hs)}
    BY <2>2, <2>3, <2>5
  <2>16. Holds(hs)
    BY <2>12, <2>13, <2>14, <2>15 DEF Holds, new
  <2> QED BY <2>2, <2>16 DEF hs
<1> HIDE DEF P
<1>3. fs \in P
  BY <1>1, <1>2, SeqInduction
<1> QED BY <1>3 DEF P

\* The calls handed over are those of the fragments, in place and whole (_finalise_tool_calls).
LEMMA HandedInPlace == ASSUME NEW fs \in Seq(Frags) PROVE PutTogether(Finalised(Accumulated(<<>>, fs)), fs)
<1> DEFINE slots == Accumulated(<<>>, fs)
           indices == {f.index : f \in ToSet(fs)}
           named == {i \in indices : NamesGiven(fs, i) # <<>>}
           handed == Finalised(slots)
<1>1. /\ DOMAIN slots = indices
      /\ \A i : i \in DOMAIN slots => slots[i] = AsGiven(fs, i)
      /\ \A i : NamesGiven(fs, i) # <<>> => Last(NamesGiven(fs, i)) # ""
  BY AllHold DEF Holds
<1>2. indices \in SUBSET Nat /\ IsFiniteSet(indices)
  <2>1. indices = {fs[k].index : k \in 1..Len(fs)} /\ Len(fs) \in Nat
    BY DEF ToSet
  <2>2. IsFiniteSet(1..Len(fs))
    BY <2>1, FS_Interval
  <2>3. IsFiniteSet(indices)
    <3> DEFINE held == [k \in 1..Len(fs) |-> fs[k].index]
    <3>1. held \in Surjection(1..Len(fs), indices)
      BY <2>1 DEF Surjection
    <3> HIDE DEF held
    <3> QED BY <2>2, <3>1, FS_Surjection
  <2>4. \A k \in 1..Len(fs) : fs[k] \in Frags
    OBVIOUS
  <2> QED BY <2>1, <2>3, <2>4, FragsAre
<1> HIDE DEF slots, indices
<1>3. named \in SUBSET Nat /\ IsFiniteSet(named)
  BY <1>2, FS_Subset
<1>4. {i \in DOMAIN slots : slots[i].name # ""} = named
  <2>1. \A i \in indices : slots[i].name # "" <=> NamesGiven(fs, i) # <<>>
    <3> SUFFICES ASSUME NEW i \in indices PROVE slots[i].name # "" <=> NamesGiven(fs, i) # <<>>
      OBVIOUS
    <3>0. slots[i] = AsGiven(fs, i)
      BY <1>1
    <3>1. slots[i].name = LastName(fs, i)
      BY <3>0 DEF AsGiven
    <3> QED BY <1>1, <3>1, Zenon DEF LastName
  <2> QED BY <1>1, <2>1
<1>5. handed = [k \in 1..Cardinality(named) |-> slots[Nth(k, named)]]
  BY <1>4 DEF Finalised
<1> HIDE DEF handed
<1>6. named \in SUBSET indices
  OBVIOUS
<1>7. \A i \in named : NamesGiven(fs, i) # <<>>
  OBVIOUS
<1> HIDE DEF named
<1>8. Cardinality(named) \in Nat /\ Len(handed) = Cardinality(named)
  <2>1. Cardinality(named) \in Nat
    BY <1>3, FS_CardinalityType
  <2> QED BY <1>5, <2>1
<1>9. ASSUME NEW i \in named
      PROVE  handed[Cardinality({j \in named : j <= i})]
               = [name |-> Last(NamesGiven(fs, i)), arguments |-> Arguments(fs, i)]
  <2> DEFINE k == Cardinality(Below(i, named))
  <2>1. k \in 1..Cardinality(named) /\ Nth(k, named) = i
    BY <1>3, NthIs
  <2>2. handed[k] = slots[i]
    BY <1>5, <2>1
  <2>3. slots[i] = AsGiven(fs, i)
    BY <1>1, <1>6
  <2> QED BY <1>7, <2>2, <2>3 DEF AsGiven, LastName, Below
<1> QED BY <1>8, <1>9 DEF PutTogether, named, indices, handed, slots

-----------------------------------------------------------------------------
(***************************************************************************)
(* The lines of a reply, and what is handed over.                          *)
(***************************************************************************)

LinesOf(d) == Lines[d] \cup Replies[d]

\* One line more of a reply.
LEMMA ReplyAppend ==
  ASSUME NEW d \in Dialects, NEW list \in Seq(LinesOf(d)), NEW line \in LinesOf(d)
  PROVE  /\ TextOf(Append(list, line)) = TextOf(list) \o Sent(line.text)
         /\ ReasoningOf(Append(list, line)) = ReasoningOf(list) \o Sent(line.reasoning)
         /\ CallsOf(Append(list, line)) = CallsOf(list) \o line.calls
         /\ TextOf(list) \in Seq({l.text : l \in LinesOf(d)})
         /\ ReasoningOf(list) \in Seq({l.reasoning : l \in LinesOf(d)})
         /\ CallsOf(list) \in Seq(UNION {ToSet(l.calls) : l \in LinesOf(d)})
<1> DEFINE more == Append(list, line)
           n == Len(list)
           T == {l.text : l \in LinesOf(d)}
           R == {l.reasoning : l \in LinesOf(d)}
           C == UNION {ToSet(l.calls) : l \in LinesOf(d)}
           ut == [k \in 1..n |-> Sent(list[k].text)]
           vt == [k \in 1..(n + 1) |-> Sent(more[k].text)]
           ur == [k \in 1..n |-> Sent(list[k].reasoning)]
           vr == [k \in 1..(n + 1) |-> Sent(more[k].reasoning)]
           uc == [k \in 1..n |-> list[k].calls]
           vc == [k \in 1..(n + 1) |-> more[k].calls]
<1>1. /\ n \in Nat /\ DOMAIN list = 1..n /\ DOMAIN more = 1..(n + 1)
      /\ more[n + 1] = line /\ n + 1 \in 1..(n + 1) /\ \A k \in 1..n : more[k] = list[k] /\ k \in 1..(n + 1)
      /\ \A k \in 1..n : list[k] \in LinesOf(d)
      /\ \A k \in 1..(n + 1) : more[k] \in LinesOf(d)
  OBVIOUS
<1>2. \A l \in LinesOf(d) : Sent(l.text) \in Seq(T) /\ Sent(l.reasoning) \in Seq(R) /\ l.calls \in Seq(C)
  <2> SUFFICES ASSUME NEW l \in LinesOf(d)
               PROVE  Sent(l.text) \in Seq(T) /\ Sent(l.reasoning) \in Seq(R) /\ l.calls \in Seq(C)
    OBVIOUS
  <2>1. l.text \in T /\ l.reasoning \in R /\ ToSet(l.calls) \subseteq C
    OBVIOUS
  <2>2. l.calls \in Seq(ToSet(l.calls))
    BY LinesAreRead DEF LinesOf
  <2> HIDE DEF T, R, C
  <2>3. <<l.text>> \in Seq(T) /\ <<l.reasoning>> \in Seq(R) /\ <<>> \in Seq(T) /\ <<>> \in Seq(R)
    BY <2>1
  <2>4. l.calls \in Seq(C)
    BY <2>1, <2>2
  <2> QED BY <2>3, <2>4, Zenon DEF Sent
<1>3. /\ TextOf(list) = FlattenSeq(ut) /\ TextOf(more) = FlattenSeq(vt)
      /\ ReasoningOf(list) = FlattenSeq(ur) /\ ReasoningOf(more) = FlattenSeq(vr)
      /\ CallsOf(list) = FlattenSeq(uc) /\ CallsOf(more) = FlattenSeq(vc)
  <2> HIDE DEF more, n
  <2> QED BY <1>1 DEF TextOf, ReasoningOf, CallsOf
<1> HIDE DEF more, n, T, R, C
<1>4. ut \in [1..n -> Seq(T)] /\ vt \in [1..(n + 1) -> Seq(T)]
  BY <1>1, <1>2
<1>5. ur \in [1..n -> Seq(R)] /\ vr \in [1..(n + 1) -> Seq(R)]
  BY <1>1, <1>2
<1>6. uc \in [1..n -> Seq(C)] /\ vc \in [1..(n + 1) -> Seq(C)]
  BY <1>1, <1>2
<1>7. \A k \in 1..n : vt[k] = ut[k] /\ vr[k] = ur[k] /\ vc[k] = uc[k]
  BY <1>1
<1>8. vt[n + 1] = Sent(line.text) /\ vr[n + 1] = Sent(line.reasoning) /\ vc[n + 1] = line.calls
  BY <1>1
<1> HIDE DEF ut, vt, ur, vr, uc, vc
<1>9. FlattenSeq(vt) = FlattenSeq(ut) \o vt[n + 1] /\ FlattenSeq(ut) \in Seq(T)
  BY <1>1, <1>4, <1>7, FlattenExtend
<1>10. FlattenSeq(vr) = FlattenSeq(ur) \o vr[n + 1] /\ FlattenSeq(ur) \in Seq(R)
  BY <1>1, <1>5, <1>7, FlattenExtend
<1>11. FlattenSeq(vc) = FlattenSeq(uc) \o vc[n + 1] /\ FlattenSeq(uc) \in Seq(C)
  BY <1>1, <1>6, <1>7, FlattenExtend
<1> QED BY <1>3, <1>8, <1>9, <1>10, <1>11 DEF more, T, R, C

\* One line more of fragments.
LEMMA FragmentsAppend ==
  ASSUME NEW list \in Seq(Lines["openai"]), NEW line \in Lines["openai"]
  PROVE  /\ FragmentsOf(Append(list, line))
              = FragmentsOf(list) \o (IF line.kind = "delta" THEN line.fragments ELSE <<>>)
         /\ FragmentsOf(list) \in Seq(Frags) /\ line.fragments \in Seq(Frags)
<1> DEFINE more == Append(list, line)
           n == Len(list)
           uf == [k \in 1..n |-> IF list[k].kind = "delta" THEN list[k].fragments ELSE <<>>]
           vf == [k \in 1..(n + 1) |-> IF more[k].kind = "delta" THEN more[k].fragments ELSE <<>>]
<1>1. /\ n \in Nat /\ DOMAIN list = 1..n /\ DOMAIN more = 1..(n + 1)
      /\ more[n + 1] = line /\ n + 1 \in 1..(n + 1) /\ \A k \in 1..n : more[k] = list[k] /\ k \in 1..(n + 1)
      /\ \A k \in 1..n : list[k] \in Lines["openai"]
      /\ \A k \in 1..(n + 1) : more[k] \in Lines["openai"]
  OBVIOUS
<1>2. \A l \in Lines["openai"] : l.fragments \in Seq(Frags)
  <2> SUFFICES ASSUME NEW l \in Lines["openai"] PROVE l.fragments \in Seq(Frags)
    OBVIOUS
  <2>1. ToSet(l.fragments) \subseteq Frags
    BY DEF Frags
  <2>2. l.fragments \in Seq(ToSet(l.fragments))
    BY LinesAreRead DEF Dialects
  <2> QED BY <2>1, <2>2
<1>3. FragmentsOf(list) = FlattenSeq(uf) /\ FragmentsOf(more) = FlattenSeq(vf)
  <2> HIDE DEF more, n
  <2> QED BY <1>1 DEF FragmentsOf
<1>4. <<>> \in Seq(Frags)
  OBVIOUS
<1> HIDE DEF more, n
<1>5. uf \in [1..n -> Seq(Frags)] /\ vf \in [1..(n + 1) -> Seq(Frags)]
  BY <1>1, <1>2, <1>4
<1>6. (\A k \in 1..n : vf[k] = uf[k]) /\ vf[n + 1] = (IF line.kind = "delta" THEN line.fragments ELSE <<>>)
  BY <1>1
<1> HIDE DEF uf, vf
<1>7. FlattenSeq(vf) = FlattenSeq(uf) \o vf[n + 1] /\ FlattenSeq(uf) \in Seq(Frags)
  BY <1>1, <1>5, <1>6, FlattenExtend
<1> QED BY <1>2, <1>3, <1>6, <1>7 DEF more

\* One piece more handed over.
LEMMA HandAppend ==
  ASSUME NEW H, NEW handed \in Seq(H), NEW c \in H, NEW kind
  PROVE  /\ Pieces(Append(handed, c), kind)
              = Pieces(handed, kind) \o (IF c.kind = kind THEN <<c.what>> ELSE <<>>)
         /\ Pieces(handed, kind) \in Seq({g.what : g \in H})
<1> DEFINE more == Append(handed, c)
           n == Len(handed)
           W == {g.what : g \in H}
           u == [k \in 1..n |-> IF handed[k].kind = kind THEN <<handed[k].what>> ELSE <<>>]
           v == [k \in 1..(n + 1) |-> IF more[k].kind = kind THEN <<more[k].what>> ELSE <<>>]
<1>1. /\ n \in Nat /\ DOMAIN handed = 1..n /\ DOMAIN more = 1..(n + 1)
      /\ more[n + 1] = c /\ n + 1 \in 1..(n + 1) /\ \A k \in 1..n : more[k] = handed[k] /\ k \in 1..(n + 1)
      /\ \A k \in 1..n : handed[k] \in H
      /\ \A k \in 1..(n + 1) : more[k] \in H
  OBVIOUS
<1>2. \A g \in H : g.what \in W
  OBVIOUS
<1>3. Pieces(handed, kind) = FlattenSeq(u) /\ Pieces(more, kind) = FlattenSeq(v)
  <2> HIDE DEF more, n
  <2> QED BY <1>1 DEF Pieces
<1> HIDE DEF more, n, W
<1>4. \A g \in H : <<g.what>> \in Seq(W)
  BY <1>2
<1>5. <<>> \in Seq(W)
  OBVIOUS
<1>6. u \in [1..n -> Seq(W)] /\ v \in [1..(n + 1) -> Seq(W)]
  BY <1>1, <1>4, <1>5
<1>7. (\A k \in 1..n : v[k] = u[k]) /\ v[n + 1] = (IF c.kind = kind THEN <<c.what>> ELSE <<>>)
  BY <1>1
<1> HIDE DEF u, v
<1>8. FlattenSeq(v) = FlattenSeq(u) \o v[n + 1] /\ FlattenSeq(u) \in Seq(W)
  BY <1>1, <1>6, <1>7, FlattenExtend
<1> QED BY <1>3, <1>7, <1>8 DEF more, W

\* Before the first line, and before the first piece.
LEMMA NothingYet ==
  /\ TextOf(<<>>) = <<>> /\ ReasoningOf(<<>>) = <<>> /\ CallsOf(<<>>) = <<>>
  /\ FragmentsOf(<<>>) = <<>> /\ \A kind : Pieces(<<>>, kind) = <<>>
<1> DEFINE g == <<>>
<1>1. /\ [k \in DOMAIN g |-> Sent(g[k].text)] = <<>>
      /\ [k \in DOMAIN g |-> Sent(g[k].reasoning)] = <<>>
      /\ [k \in DOMAIN g |-> g[k].calls] = <<>>
      /\ [k \in DOMAIN g |-> IF g[k].kind = "delta" THEN g[k].fragments ELSE <<>>] = <<>>
      /\ \A kind : [k \in DOMAIN g |-> IF g[k].kind = kind THEN <<g[k].what>> ELSE <<>>] = <<>>
  OBVIOUS
<1> HIDE DEF g
<1>2. /\ TextOf(g) = <<>> /\ ReasoningOf(g) = <<>> /\ CallsOf(g) = <<>> /\ FragmentsOf(g) = <<>>
      /\ \A kind : Pieces(g, kind) = <<>>
  BY <1>1, FlattenEmpty DEF TextOf, ReasoningOf, CallsOf, FragmentsOf, Pieces
<1> QED BY <1>2 DEF g

\* The fragments of a reply, taken together.
LEMMA RepliedFragments ==
  ASSUME NEW list \in Seq(Lines["openai"]) PROVE FragmentsOf(list) \in Seq(Frags)
<1>1. CASE list = <<>>
  <2>1. <<>> \in Seq(Frags)
    OBVIOUS
  <2>2. FragmentsOf(list) = <<>>
    BY <1>1, NothingYet
  <2> QED BY <2>1, <2>2
<1>2. CASE list # <<>>
  <2>1. list[1] \in Lines["openai"]
    BY <1>2
  <2> QED BY <2>1, FragmentsAppend
<1> QED BY <1>1, <1>2

-----------------------------------------------------------------------------
IsList(s) == s \in Seq(ToSet(s))

\* A list with one more is a list.
LEMMA ListAppend ==
  ASSUME NEW s, IsList(s), NEW e
  PROVE  /\ IsList(Append(s, e)) /\ Len(Append(s, e)) = Len(s) + 1 /\ Len(s) \in Nat
         /\ DOMAIN s = 1..Len(s) /\ DOMAIN Append(s, e) = 1..(Len(s) + 1)
         /\ Append(s, e)[Len(s) + 1] = e /\ \A k \in 1..Len(s) : Append(s, e)[k] = s[k]
         /\ s \in Seq(ToSet(s) \cup {e})
<1> DEFINE H == ToSet(s) \cup {e}
<1>1. s \in Seq(H) /\ e \in H
  BY DEF IsList
<1> HIDE DEF H
<1>2. Append(s, e) \in Seq(H) /\ ToSet(Append(s, e)) = ToSet(s) \cup {e}
  BY <1>1, SetAppend
<1>3. IsList(Append(s, e))
  BY <1>2 DEF IsList, H
<1>4. /\ Len(Append(s, e)) = Len(s) + 1 /\ Len(s) \in Nat /\ DOMAIN s = 1..Len(s)
      /\ Append(s, e)[Len(s) + 1] = e /\ \A k \in 1..Len(s) : Append(s, e)[k] = s[k]
  BY <1>1, AppendProperties
<1>5. DOMAIN Append(s, e) = 1..(Len(s) + 1)
  BY <1>2, <1>4
<1> QED BY <1>1, <1>3, <1>4, <1>5 DEF H

Quoted(handed, list) ==
  Pieces(handed, "text") = TextOf(list) /\ Pieces(handed, "reasoning") = ReasoningOf(list)

Unended(handed) == IsList(handed) /\ \A k \in DOMAIN handed : handed[k].kind # "done"

\* One piece more, that is not the end.
LEMMA UnendedAppend ==
  ASSUME NEW s, Unended(s), NEW e, e.kind # "done" PROVE Unended(Append(s, e))
<1> DEFINE H == ToSet(s) \cup {e}
           t == Append(s, e)
           n == Len(s)
<1>1. IsList(s) /\ IsList(t)
  BY ListAppend DEF Unended
<1>2. s \in Seq(H) /\ e \in H
  BY <1>1 DEF IsList
<1> HIDE DEF H
<1>3. n \in Nat /\ DOMAIN s = 1..n /\ DOMAIN t = 1..(n + 1) /\ t[n + 1] = e /\ \A k \in 1..n : t[k] = s[k]
  BY <1>2
<1> HIDE DEF t, n
<1>4. \A k \in 1..(n + 1) : k \in 1..n \/ k = n + 1
  BY <1>3
<1>5. \A k \in DOMAIN t : t[k].kind # "done"
  BY <1>3, <1>4 DEF Unended
<1> QED BY <1>1, <1>5 DEF Unended, t

\* What is passed on of a line.
LEMMA PassedOn ==
  ASSUME NEW d \in Dialects, NEW list \in Seq(LinesOf(d)), NEW line \in LinesOf(d),
         NEW handed, Unended(handed), Quoted(handed, list)
  PROVE  Unended(Passed(line, handed)) /\ Quoted(Passed(line, handed), Append(list, line))
<1> DEFINE r == [kind |-> "reasoning", what |-> line.reasoning]
           t == [kind |-> "text", what |-> line.text]
           mid == IF line.reasoning = "" THEN handed ELSE Append(handed, r)
           out == IF line.text = "" THEN mid ELSE Append(mid, t)
           H == ToSet(handed) \cup {r}
           M == ToSet(mid) \cup {t}
<1>1. Passed(line, handed) = out
  BY DEF Passed
<1>2. /\ r.kind = "reasoning" /\ r.what = line.reasoning /\ r.kind # "text" /\ r.kind # "done"
      /\ t.kind = "text" /\ t.what = line.text /\ t.kind # "reasoning" /\ t.kind # "done"
  OBVIOUS
<1> HIDE DEF r, t, H, M
<1>3. handed \in Seq(H) /\ r \in H
  BY ListAppend DEF Unended, H
<1>4. /\ Pieces(Append(handed, r), "text") = Pieces(handed, "text") \o <<>>
      /\ Pieces(Append(handed, r), "reasoning") = Pieces(handed, "reasoning") \o <<line.reasoning>>
      /\ Pieces(handed, "text") \in Seq({g.what : g \in H})
      /\ Pieces(handed, "reasoning") \in Seq({g.what : g \in H})
  <2>1. \A kind : /\ Pieces(Append(handed, r), kind)
                        = Pieces(handed, kind) \o (IF r.kind = kind THEN <<r.what>> ELSE <<>>)
                   /\ Pieces(handed, kind) \in Seq({g.what : g \in H})
    BY <1>3, HandAppend
  <2>2. r.kind = "reasoning" /\ r.what = line.reasoning /\ "reasoning" # "text"
    BY <1>2
  <2> QED BY <2>1, <2>2
<1>5. /\ Pieces(mid, "text") = Pieces(handed, "text")
      /\ Pieces(mid, "reasoning") = Pieces(handed, "reasoning") \o Sent(line.reasoning)
  <2>1. /\ Pieces(handed, "text") \o <<>> = Pieces(handed, "text")
        /\ Pieces(handed, "reasoning") \o <<>> = Pieces(handed, "reasoning")
    BY <1>4, ConcatEmptySeq
  <2> QED BY <1>4, <2>1 DEF Sent
<1>6. Unended(Append(handed, r))
  BY <1>2, UnendedAppend
<1>7. Unended(mid)
  BY <1>6
<1> HIDE DEF mid
<1>8. mid \in Seq(M) /\ t \in M
  BY <1>7, ListAppend DEF Unended, M
<1>9. /\ Pieces(Append(mid, t), "reasoning") = Pieces(mid, "reasoning") \o <<>>
      /\ Pieces(Append(mid, t), "text") = Pieces(mid, "text") \o <<line.text>>
      /\ Pieces(mid, "text") \in Seq({g.what : g \in M})
      /\ Pieces(mid, "reasoning") \in Seq({g.what : g \in M})
  <2>1. \A kind : /\ Pieces(Append(mid, t), kind)
                        = Pieces(mid, kind) \o (IF t.kind = kind THEN <<t.what>> ELSE <<>>)
                   /\ Pieces(mid, kind) \in Seq({g.what : g \in M})
    BY <1>8, HandAppend
  <2>2. t.kind = "text" /\ t.what = line.text /\ "reasoning" # "text"
    BY <1>2
  <2> QED BY <2>1, <2>2
<1>10. /\ Pieces(out, "reasoning") = Pieces(mid, "reasoning")
       /\ Pieces(out, "text") = Pieces(mid, "text") \o Sent(line.text)
  <2>1. /\ Pieces(mid, "text") \o <<>> = Pieces(mid, "text")
        /\ Pieces(mid, "reasoning") \o <<>> = Pieces(mid, "reasoning")
    BY <1>9, ConcatEmptySeq
  <2> QED BY <1>9, <2>1 DEF Sent
<1>11. Unended(Append(mid, t))
  BY <1>2, <1>7, UnendedAppend
<1>12. Unended(out)
  BY <1>7, <1>11
<1>13. Quoted(out, Append(list, line))
  BY <1>5, <1>10, ReplyAppend DEF Quoted
<1> QED BY <1>1, <1>12, <1>13

\* A line with nothing in it.
LEMMA PassedOver ==
  ASSUME NEW d \in Dialects, NEW list \in Seq(LinesOf(d)), NEW line \in LinesOf(d),
         line.text = "" /\ line.reasoning = "" /\ line.calls = <<>>
  PROVE  /\ TextOf(Append(list, line)) = TextOf(list)
         /\ ReasoningOf(Append(list, line)) = ReasoningOf(list)
         /\ CallsOf(Append(list, line)) = CallsOf(list)
<1>1. Sent(line.text) = <<>> /\ Sent(line.reasoning) = <<>>
  BY DEF Sent
<1>2. /\ TextOf(list) \o <<>> = TextOf(list) /\ ReasoningOf(list) \o <<>> = ReasoningOf(list)
      /\ CallsOf(list) \o <<>> = CallsOf(list)
  BY ReplyAppend, ConcatEmptySeq
<1> QED BY <1>1, <1>2, ReplyAppend

\* The end of what is handed over.
LEMMA HandedOver ==
  ASSUME NEW handed, Unended(handed), NEW list, Quoted(handed, list), NEW c, c.kind = "done"
  PROVE  /\ Quoted(Append(handed, c), list) /\ IsList(Append(handed, c)) /\ Last(Append(handed, c)) = c
         /\ \A k \in DOMAIN Append(handed, c) : Append(handed, c)[k].kind = "done" <=> k = Len(Append(handed, c))
<1> DEFINE H == ToSet(handed) \cup {c}
           more == Append(handed, c)
           n == Len(handed)
<1>1. handed \in Seq(H) /\ c \in H
  BY ListAppend DEF Unended
<1>2. /\ IsList(more) /\ n \in Nat /\ Len(more) = n + 1 /\ DOMAIN more = 1..(n + 1) /\ more[n + 1] = c
      /\ \A k \in 1..n : more[k] = handed[k] /\ handed[k].kind # "done"
  BY ListAppend DEF Unended
<1> HIDE DEF H
<1>3. \A kind : kind # "done" =>
        /\ Pieces(more, kind) = Pieces(handed, kind) \o <<>>
        /\ Pieces(handed, kind) \in Seq({g.what : g \in H})
  <2>1. \A kind : /\ Pieces(more, kind) = Pieces(handed, kind) \o (IF c.kind = kind THEN <<c.what>> ELSE <<>>)
                   /\ Pieces(handed, kind) \in Seq({g.what : g \in H})
    BY <1>1, HandAppend
  <2> HIDE DEF more
  <2> QED BY <2>1
<1>4. Quoted(more, list)
  <2>1. \A kind : kind # "done" => Pieces(more, kind) = Pieces(handed, kind)
    BY <1>3, ConcatEmptySeq
  <2> QED BY <2>1 DEF Quoted
<1> HIDE DEF more, n
<1>5. \A k \in 1..(n + 1) : k \in 1..n \/ k = n + 1
  BY <1>2
<1>6. \A k \in DOMAIN more : more[k].kind = "done" <=> k = Len(more)
  BY <1>2, <1>5
<1> QED BY <1>2, <1>4, <1>6 DEF more, Last

-----------------------------------------------------------------------------
(***************************************************************************)
(* Batches of vectors.                                                     *)
(***************************************************************************)

\* As many ascending places as there are places are all of them, in order.
LEMMA AscendingWhole ==
  ASSUME NEW n \in Nat, NEW f \in [1..n -> 1..n], \A k, l \in 1..n : k < l => f[k] < f[l]
  PROVE  \A k \in 1..n : f[k] = k
<1> DEFINE Up == {k \in Nat : k + 1 <= n => f[k + 1] >= k + 1}
           Down == {j \in Nat : j + 1 <= n => f[n - j] <= n - j}
<1>1. 0 \in Up /\ 0 \in Down
  <2>1. 0 + 1 <= n => 0 + 1 \in 1..n /\ f[0 + 1] >= 0 + 1
    OBVIOUS
  <2>2. 0 + 1 <= n => n - 0 \in 1..n /\ f[n - 0] <= n - 0
    OBVIOUS
  <2> QED BY <2>1, <2>2
<1>2. ASSUME NEW k \in Nat, k \in Up PROVE k + 1 \in Up
  <2> SUFFICES ASSUME k + 2 <= n PROVE f[k + 2] >= k + 2
    OBVIOUS
  <2>1. k + 1 \in 1..n /\ k + 2 \in 1..n /\ k + 1 < k + 2
    OBVIOUS
  <2>2. f[k + 1] < f[k + 2] /\ f[k + 1] \in Int /\ f[k + 2] \in Int
    BY <2>1
  <2>3. f[k + 1] >= k + 1
    BY <1>2, <2>1
  <2> QED BY <2>2, <2>3
<1>3. ASSUME NEW j \in Nat, j \in Down PROVE j + 1 \in Down
  <2> SUFFICES ASSUME j + 2 <= n PROVE f[n - (j + 1)] <= n - (j + 1)
    OBVIOUS
  <2>1. n - (j + 1) \in 1..n /\ n - j \in 1..n /\ n - (j + 1) < n - j
    OBVIOUS
  <2>2. f[n - (j + 1)] < f[n - j] /\ f[n - (j + 1)] \in Int /\ f[n - j] \in Int
    BY <2>1
  <2>3. f[n - j] <= n - j
    BY <1>3, <2>1
  <2> QED BY <2>2, <2>3
<1> HIDE DEF Up, Down
<1>4. Nat \subseteq Up /\ Nat \subseteq Down
  BY <1>1, <1>2, <1>3, Induction
<1>5. ASSUME NEW k \in 1..n PROVE f[k] = k
  <2>1. k - 1 \in Up /\ n - k \in Down
    BY <1>4
  <2>2. (k - 1) + 1 = k /\ n - (n - k) = k /\ f[k] \in Int /\ (n - k) + 1 <= n
    OBVIOUS
  <2>3. f[k] >= k
    BY <2>1, <2>2 DEF Up
  <2>4. f[k] <= k
    BY <2>1, <2>2 DEF Down
  <2> QED BY <2>2, <2>3, <2>4
<1> QED BY <1>5

Rows == [of : Nat, fits : BOOLEAN]

\* Rows in the order of the texts, up to some text.
Ascends(list, m) ==
  /\ list \in Seq(Rows)
  /\ \A k \in 1..Len(list) : list[k].of \in 1..Texts /\ list[k].of <= m
  /\ \A k, l \in 1..Len(list) : k < l => list[k].of < list[l].of

\* The rows of a batch.
LEMMA BatchAscends ==
  ASSUME NEW m \in Nat, NEW there \in SUBSET {n \in (m + 1)..(m + BatchSize) : n <= Texts}, NEW bad,
         NEW list, Ascends(list, m)
  PROVE  Ascends(list \o [k \in 1..Cardinality(there) |-> VectorOf(Nth(k, there), bad)], m + BatchSize)
<1> DEFINE c == Cardinality(there)
           rows == [k \in 1..c |-> VectorOf(Nth(k, there), bad)]
           all == list \o rows
<1>0. BatchSize \in Nat /\ Texts \in Nat
  BY LinesAreRead
<1>1. IsFiniteSet(there) /\ there \in SUBSET Nat
  <2>1. m + 1 \in Int /\ m + BatchSize \in Int
    BY <1>0
  <2>2. IsFiniteSet((m + 1)..(m + BatchSize))
    BY <2>1, FS_Interval
  <2>3. there \in SUBSET ((m + 1)..(m + BatchSize))
    OBVIOUS
  <2>4. IsFiniteSet(there)
    BY <2>2, <2>3, FS_Subset
  <2>5. there \in SUBSET Nat
    BY <1>0, <2>3
  <2> QED BY <2>4, <2>5
<1>2. /\ c \in Nat /\ \A k \in 1..c : Nth(k, there) \in there
      /\ \A k, l \in 1..c : k < l => Nth(k, there) < Nth(l, there)
  BY <1>1, NthIs
<1> HIDE DEF c
<1>3. /\ rows \in Seq(Rows) /\ Len(rows) = c
      /\ \A k \in 1..c : rows[k].of = Nth(k, there)
  <2>1. \A k \in 1..c : VectorOf(Nth(k, there), bad) \in Rows /\ VectorOf(Nth(k, there), bad).of = Nth(k, there)
    BY <1>1, <1>2 DEF VectorOf, Rows
  <2> QED BY <1>2, <2>1
<1>4. \A n \in there : n \in 1..Texts /\ m < n /\ n <= m + BatchSize
  BY <1>0
<1> HIDE DEF rows
<1> DEFINE o == Len(list)
<1>5. /\ list \in Seq(Rows) /\ o \in Nat
      /\ \A k \in 1..o : list[k].of \in 1..Texts /\ list[k].of <= m
      /\ \A k, l \in 1..o : k < l => list[k].of < list[l].of
  BY DEF Ascends
<1>6. /\ all \in Seq(Rows) /\ Len(all) = o + c
      /\ \A k \in 1..(o + c) : all[k] = IF k <= o THEN list[k] ELSE rows[k - o]
  BY <1>2, <1>3, <1>5, ConcatProperties
<1> HIDE DEF all, o
<1>7. \A k \in 1..(o + c) : \/ k \in 1..o /\ all[k] = list[k]
                            \/ k - o \in 1..c /\ k > o /\ all[k] = rows[k - o]
  BY <1>2, <1>5, <1>6
<1>8. ASSUME NEW k \in 1..(o + c) PROVE all[k].of \in 1..Texts /\ all[k].of <= m + BatchSize
  <2>1. CASE k \in 1..o /\ all[k] = list[k]
    <3>1. list[k].of \in 1..Texts /\ list[k].of <= m
      BY <1>5, <2>1
    <3> QED BY <1>0, <2>1, <3>1
  <2>2. CASE k - o \in 1..c /\ all[k] = rows[k - o]
    BY <1>2, <1>3, <1>4, <2>2
  <2> QED BY <1>7, <2>1, <2>2
<1>9. ASSUME NEW k \in 1..(o + c), NEW l \in 1..(o + c), k < l PROVE all[k].of < all[l].of
  <2>1. CASE k \in 1..o /\ all[k] = list[k] /\ l \in 1..o /\ all[l] = list[l]
    BY <1>5, <1>9, <2>1
  <2>2. CASE k \in 1..o /\ all[k] = list[k] /\ l - o \in 1..c /\ all[l] = rows[l - o]
    <3>1. list[k].of \in 1..Texts /\ list[k].of <= m
      BY <1>5, <2>2
    <3>2. rows[l - o].of \in there
      BY <1>2, <1>3, <2>2
    <3>3. rows[l - o].of \in 1..Texts /\ m < rows[l - o].of
      BY <1>4, <3>2
    <3> QED BY <1>0, <2>2, <3>1, <3>3
  <2>3. CASE k - o \in 1..c /\ all[k] = rows[k - o] /\ l - o \in 1..c /\ all[l] = rows[l - o]
    <3>1. k - o < l - o
      BY <1>2, <1>5, <1>9
    <3> QED BY <1>2, <1>3, <2>3, <3>1
  <2>4. CASE k > o /\ l \in 1..o
    BY <1>2, <1>5, <1>9, <2>4
  <2> QED BY <1>7, <2>1, <2>2, <2>3, <2>4
<1> QED BY <1>6, <1>8, <1>9 DEF Ascends, all, rows, c

\* Rows that come in any order are the same set.
LEMMA AnyOrder ==
  ASSUME NEW S, IsFiniteSet(S), NEW rows \in SetToSeqs(S)
  PROVE  ToSet(rows) = S /\ DOMAIN rows = 1..Cardinality(S)
<1> DEFINE n == Cardinality(S)
<1>1. n \in Nat /\ Cardinality(1..n) = n /\ IsFiniteSet(1..n)
  BY FS_CardinalityType, FS_Interval
<1>2. rows \in [1..n -> S] /\ \A i, j \in 1..n : i # j => rows[i] # rows[j]
  BY DEF SetToSeqs
<1>3. rows \in Injection(1..n, S)
  BY <1>2 DEF Injection, IsInjective
<1>4. rows \in Surjection(1..n, S)
  BY <1>1, <1>3, FS_Injection
<1> QED BY <1>2, <1>4 DEF Surjection, ToSet

-----------------------------------------------------------------------------
(***************************************************************************)
(* The adapters.                                                           *)
(***************************************************************************)

Fresh ==
  request = "none" =>
    /\ replied = <<>> /\ yielded = <<>> /\ partial = <<>> /\ calls = <<>>
    /\ vectors = <<>> /\ ended = "no"

Answering ==
  request \in {"stream", "generate"} =>
    /\ replied \in Seq(LinesOf(dialect)) /\ IsList(yielded) /\ Quoted(yielded, replied)
    /\ ended # "done" => Unended(yielded)
    /\ ended = "done" =>
         /\ \A k \in DOMAIN yielded : yielded[k].kind = "done" <=> k = Len(yielded)
         /\ IF request = "stream" /\ dialect = "openai"
            THEN PutTogether(Last(yielded).what, FragmentsOf(replied))
            ELSE Last(yielded).what = CallsOf(replied)

\* What has been put together is what the fragments so far make.
Gathering ==
  Streaming =>
    /\ dialect = "openai" => /\ replied \in Seq(Lines["openai"])
                             /\ partial = Accumulated(<<>>, FragmentsOf(replied))
    /\ dialect = "ollama" => calls = CallsOf(replied)

\* The vectors so far belong to the texts in their places.
Joining ==
  /\ Embedding => Len(replied) \in Nat /\ replied \in Seq({"batch"}) /\ Ascends(vectors, Len(replied) * BatchSize)
  /\ VectorsAsAsked

ProviderInv == ProviderTypeOK /\ Fresh /\ Answering /\ Gathering /\ Joining

\* It holds before any request, and every step keeps it.
LEMMA ProviderInvInit == ProviderInit => ProviderInv
BY DEF ProviderInit, ProviderInv, ProviderTypeOK, Fresh, Answering, Gathering, Joining, Streaming,
       Embedding, VectorsAsAsked, Dialects, Errors

\* Nothing has been said, and nothing handed over.
LEMMA Silence ==
  /\ IsList(<<>>) /\ Unended(<<>>) /\ Quoted(<<>>, <<>>) /\ CallsOf(<<>>) = <<>>
  /\ Accumulated(<<>>, FragmentsOf(<<>>)) = <<>> /\ \A S : <<>> \in Seq(S)
<1>1. IsList(<<>>) /\ \A S : <<>> \in Seq(S)
  BY DEF IsList
<1>2. Unended(<<>>)
  BY <1>1 DEF Unended
<1> QED BY <1>1, <1>2, NothingYet, NoSlots, AccumulatedEmpty DEF Quoted

\* A stream is opened (stream).
LEMMA OpensKeeps == ProviderInv /\ Opens => ProviderInv'
<1> SUFFICES ASSUME ProviderInv, Opens PROVE ProviderInv'
  OBVIOUS
<1>1. /\ request' = "stream" /\ dialect' = dialect /\ dialect \in Dialects
      /\ replied' = <<>> /\ yielded' = <<>> /\ partial' = <<>> /\ calls' = <<>> /\ vectors' = <<>> /\ ended' = "no"
  BY DEF ProviderInv, Fresh, ProviderTypeOK, Opens, Idle
<1> QED BY <1>1, Silence DEF ProviderInv, ProviderTypeOK, Fresh, Answering, Gathering, Joining, Streaming,
                             Embedding, VectorsAsAsked, Errors

\* There is no answer, or an error (_raise_for_status).
LEMMA FailsKeeps == ASSUME NEW kind \in {"stream", "generate"} PROVE ProviderInv /\ Fails(kind) => ProviderInv'
<1> SUFFICES ASSUME ProviderInv, Fails(kind) PROVE ProviderInv'
  OBVIOUS
<1>1. /\ request' \in {"stream", "generate"} /\ dialect' = dialect /\ dialect \in Dialects
      /\ replied' = <<>> /\ yielded' = <<>> /\ ended' \in Errors
  BY DEF ProviderInv, Fresh, ProviderTypeOK, Fails, Idle, StatusErrors, Errors
<1>2. ended' # "done" /\ ended' # "no"
  BY <1>1 DEF Errors
<1> QED BY <1>1, <1>2, Silence DEF ProviderInv, ProviderTypeOK, Fresh, Answering, Gathering, Joining, Streaming,
                             Embedding, VectorsAsAsked

\* The stream ends (stream, the final piece).
LEMMA ClosesKeeps == ProviderInv /\ Closes => ProviderInv'
<1> SUFFICES ASSUME ProviderInv, Closes PROVE ProviderInv'
  OBVIOUS
<1> DEFINE c == [kind |-> "done", what |-> IF dialect = "openai" THEN Finalised(partial) ELSE calls, finish |-> finish]
<1>1. /\ request = "stream" /\ ended = "no" /\ request' = "stream" /\ ended' = "done" /\ dialect' = dialect
      /\ replied' = replied /\ yielded' = Append(yielded, c) /\ dialect \in Dialects
  BY DEF ProviderInv, ProviderTypeOK, Closes, Streaming, Final
<1>2. c.kind = "done" /\ c.what = IF dialect = "openai" THEN Finalised(partial) ELSE calls
  OBVIOUS
<1> HIDE DEF c
<1>3. replied \in Seq(LinesOf(dialect)) /\ Quoted(yielded, replied) /\ Unended(yielded)
  BY <1>1 DEF ProviderInv, Answering
<1>4. /\ Quoted(yielded', replied) /\ IsList(yielded') /\ Last(yielded') = c
      /\ \A k \in DOMAIN yielded' : yielded'[k].kind = "done" <=> k = Len(yielded')
  BY <1>1, <1>2, <1>3, HandedOver
<1>5. CASE dialect = "openai"
  <2>1. replied \in Seq(Lines["openai"]) /\ partial = Accumulated(<<>>, FragmentsOf(replied))
    BY <1>1, <1>5 DEF ProviderInv, Gathering, Streaming
  <2>2. FragmentsOf(replied) \in Seq(Frags)
    BY <2>1, RepliedFragments
  <2>3. PutTogether(c.what, FragmentsOf(replied))
    BY <1>2, <1>5, <2>1, <2>2, HandedInPlace
  <2>4. Answering'
    BY <1>1, <1>3, <1>4, <1>5, <2>3 DEF Answering
  <2> QED BY <1>1, <2>4 DEF ProviderInv, ProviderTypeOK, Fresh, Gathering, Joining, Streaming, Embedding, VectorsAsAsked
<1>6. CASE dialect = "ollama"
  <2>1. calls = CallsOf(replied)
    BY <1>1, <1>6 DEF ProviderInv, Gathering, Streaming
  <2>2. Answering'
    BY <1>1, <1>2, <1>3, <1>4, <1>6, <2>1 DEF Answering
  <2> QED BY <1>1, <2>2 DEF ProviderInv, ProviderTypeOK, Fresh, Gathering, Joining, Streaming, Embedding, VectorsAsAsked
<1> QED BY <1>1, <1>5, <1>6 DEF Dialects

\* The stream breaks off.
LEMMA BreaksKeeps == ProviderInv /\ Breaks => ProviderInv'
<1> SUFFICES ASSUME ProviderInv, Breaks PROVE ProviderInv'
  OBVIOUS
<1>1. /\ request = "stream" /\ ended = "no" /\ request' = "stream" /\ ended' \in {"timeout", "unavailable"}
      /\ dialect' = dialect /\ dialect \in Dialects /\ replied' = replied /\ yielded' = yielded
  BY DEF ProviderInv, ProviderTypeOK, Breaks, Streaming
<1>2. Answering'
  BY <1>1 DEF ProviderInv, Answering
<1> QED BY <1>1, <1>2 DEF ProviderInv, ProviderTypeOK, Fresh, Gathering, Joining, Streaming, Embedding, VectorsAsAsked, Errors

\* A line of the OpenAI protocol (openai_compat.py, stream).
LEMMA OpenAIKeeps == ASSUME NEW line \in Lines["openai"] PROVE ProviderInv /\ ReadOpenAI(line) => ProviderInv'
<1> SUFFICES ASSUME ProviderInv, ReadOpenAI(line) PROVE ProviderInv'
  OBVIOUS
<1>1. /\ dialect = "openai" /\ request = "stream" /\ ended = "no" /\ request' = "stream" /\ dialect' = "openai"
      /\ replied' = Append(replied, line) /\ dialect \in Dialects
  BY DEF ReadOpenAI, Hears, Streaming, Dialects
<1>2. /\ replied \in Seq(LinesOf(dialect)) /\ Quoted(yielded, replied) /\ Unended(yielded)
      /\ replied \in Seq(Lines["openai"]) /\ partial = Accumulated(<<>>, FragmentsOf(replied))
  BY <1>1 DEF ProviderInv, Answering, Gathering, Streaming
<1>3. line \in LinesOf(dialect)
  BY <1>1 DEF LinesOf
<1>4. replied' \in Seq(LinesOf(dialect)) /\ replied' \in Seq(Lines["openai"])
  BY <1>1, <1>2, <1>3
<1>5. /\ FragmentsOf(replied') = FragmentsOf(replied) \o (IF line.kind = "delta" THEN line.fragments ELSE <<>>)
      /\ FragmentsOf(replied) \in Seq(Frags) /\ line.fragments \in Seq(Frags)
  BY <1>1, <1>2, FragmentsAppend
<1>6. line.kind # "delta" => FragmentsOf(replied') = FragmentsOf(replied) /\ Quoted(yielded, replied')
  <2> SUFFICES ASSUME line.kind # "delta" PROVE FragmentsOf(replied') = FragmentsOf(replied) /\ Quoted(yielded, replied')
    OBVIOUS
  <2>1. FragmentsOf(replied') = FragmentsOf(replied) \o <<>>
    BY <1>5
  <2>2. FragmentsOf(replied') = FragmentsOf(replied)
    BY <1>5, <2>1, ConcatEmptySeq
  <2>3. line.text = "" /\ line.reasoning = "" /\ line.calls = <<>>
    BY LinesAreRead DEF Dialects
  <2>4. TextOf(replied') = TextOf(replied) /\ ReasoningOf(replied') = ReasoningOf(replied)
    BY <1>1, <1>2, <1>3, <2>3, PassedOver
  <2> QED BY <1>2, <2>2, <2>4 DEF Quoted
<1>7. CASE line.kind = "end" /\ Final(Finalised(partial), finish)
  <2> DEFINE c == [kind |-> "done", what |-> Finalised(partial), finish |-> finish]
  <2>1. yielded' = Append(yielded, c) /\ ended' = "done" /\ c.kind = "done" /\ c.what = Finalised(partial)
    BY <1>7 DEF Final
  <2> HIDE DEF c
  <2>2. /\ Quoted(yielded', replied') /\ IsList(yielded') /\ Last(yielded') = c
        /\ \A k \in DOMAIN yielded' : yielded'[k].kind = "done" <=> k = Len(yielded')
    BY <1>2, <1>6, <1>7, <2>1, HandedOver
  <2>3. PutTogether(c.what, FragmentsOf(replied'))
    BY <1>2, <1>5, <1>6, <1>7, <2>1, HandedInPlace
  <2>4. Answering'
    BY <1>1, <1>4, <2>1, <2>2, <2>3 DEF Answering
  <2> QED BY <1>1, <2>1, <2>4 DEF ProviderInv, ProviderTypeOK, Fresh, Gathering, Joining, Streaming, Embedding, VectorsAsAsked
<1>8. CASE line.kind = "delta" /\ partial' = Accumulated(partial, line.fragments)
           /\ yielded' = Passed(line, yielded) /\ ended' = ended
  <2>1. Unended(yielded') /\ Quoted(yielded', replied')
    BY <1>1, <1>2, <1>3, <1>8, PassedOn
  <2>2. partial' = Accumulated(<<>>, FragmentsOf(replied'))
    BY <1>2, <1>5, <1>8, NoSlots, AccumulatedConcat
  <2>3. Answering'
    BY <1>1, <1>4, <1>8, <2>1 DEF Answering, Unended
  <2>4. Gathering'
    BY <1>1, <1>4, <2>2 DEF Gathering
  <2> QED BY <1>1, <1>8, <2>3, <2>4 DEF ProviderInv, ProviderTypeOK, Fresh, Joining, Embedding, VectorsAsAsked, Errors
<1>9. CASE line.kind \in {"noise", "no_choices"} /\ UNCHANGED <<partial, finish, yielded, ended>>
  <2>1. Quoted(yielded', replied') /\ FragmentsOf(replied') = FragmentsOf(replied)
    BY <1>6, <1>9
  <2>2. Answering'
    BY <1>1, <1>2, <1>4, <1>9, <2>1 DEF Answering, Unended
  <2>3. Gathering'
    BY <1>1, <1>2, <1>4, <1>9, <2>1 DEF Gathering
  <2> QED BY <1>1, <1>9, <2>2, <2>3 DEF ProviderInv, ProviderTypeOK, Fresh, Joining, Embedding, VectorsAsAsked, Errors
<1> QED BY <1>7, <1>8, <1>9 DEF ReadOpenAI

\* A line of Ollama's (ollama.py, stream).
LEMMA OllamaKeeps == ASSUME NEW line \in Lines["ollama"] PROVE ProviderInv /\ ReadOllama(line) => ProviderInv'
<1> SUFFICES ASSUME ProviderInv, ReadOllama(line) PROVE ProviderInv'
  OBVIOUS
<1>1. /\ dialect = "ollama" /\ request = "stream" /\ ended = "no" /\ request' = "stream" /\ dialect' = "ollama"
      /\ replied' = Append(replied, line) /\ dialect \in Dialects /\ ended' = "no"
  BY DEF ReadOllama, Hears, Streaming, Dialects
<1>2. /\ replied \in Seq(LinesOf(dialect)) /\ Quoted(yielded, replied) /\ Unended(yielded)
      /\ calls = CallsOf(replied)
  BY <1>1 DEF ProviderInv, Answering, Gathering, Streaming
<1>3. line \in LinesOf(dialect)
  BY <1>1 DEF LinesOf
<1>4. replied' \in Seq(LinesOf(dialect))
  BY <1>1, <1>2, <1>3
<1>5. CASE calls' = calls \o line.calls /\ yielded' = Passed(line, yielded)
  <2>1. Unended(yielded') /\ Quoted(yielded', replied')
    BY <1>1, <1>2, <1>3, <1>5, PassedOn
  <2>2. calls' = CallsOf(replied')
    BY <1>1, <1>2, <1>3, <1>5, ReplyAppend
  <2>3. Answering'
    BY <1>1, <1>4, <2>1 DEF Answering, Unended
  <2>4. Gathering'
    BY <1>1, <2>2 DEF Gathering
  <2> QED BY <1>1, <2>3, <2>4 DEF ProviderInv, ProviderTypeOK, Fresh, Joining, Embedding, VectorsAsAsked, Errors
<1>6. CASE line.kind = "noise" /\ UNCHANGED <<calls, yielded, finish>>
  <2>1. line.text = "" /\ line.reasoning = "" /\ line.calls = <<>>
    BY <1>6, LinesAreRead DEF Dialects
  <2>2. /\ TextOf(replied') = TextOf(replied) /\ ReasoningOf(replied') = ReasoningOf(replied)
        /\ CallsOf(replied') = CallsOf(replied)
    BY <1>1, <1>2, <1>3, <2>1, PassedOver
  <2>3. Quoted(yielded', replied')
    BY <1>2, <1>6, <2>2 DEF Quoted
  <2>4. Answering'
    BY <1>1, <1>2, <1>4, <1>6, <2>3 DEF Answering, Unended
  <2>5. Gathering'
    BY <1>1, <1>2, <1>6, <2>2 DEF Gathering
  <2> QED BY <1>1, <2>4, <2>5 DEF ProviderInv, ProviderTypeOK, Fresh, Joining, Embedding, VectorsAsAsked, Errors
<1> QED BY <1>5, <1>6 DEF ReadOllama

\* A whole answer.
LEMMA WholeKeeps ==
  ASSUME ProviderInv, NEW reply \in Replies[dialect], Idle, request' = "generate", dialect' = dialect, Whole(reply)
  PROVE  ProviderInv'
<1> DEFINE c == [kind |-> "done", what |-> reply.calls, finish |-> Or(reply.finish, "stop")]
<1>1. /\ replied' = <<reply>> /\ yielded' = Append(Passed(reply, <<>>), c) /\ ended' = "done"
      /\ c.kind = "done" /\ c.what = reply.calls /\ dialect \in Dialects
  BY DEF Whole, ProviderInv, ProviderTypeOK
<1> HIDE DEF c
<1>2. reply \in LinesOf(dialect) /\ <<>> \in Seq(LinesOf(dialect)) /\ <<reply>> = Append(<<>>, reply)
  BY DEF LinesOf
<1>3. Unended(Passed(reply, <<>>)) /\ Quoted(Passed(reply, <<>>), <<reply>>)
  <2>1. Unended(Passed(reply, <<>>)) /\ Quoted(Passed(reply, <<>>), Append(<<>>, reply))
    BY <1>1, <1>2, Silence, PassedOn
  <2> QED BY <1>2, <2>1
<1>4. /\ Quoted(yielded', replied') /\ IsList(yielded') /\ Last(yielded') = c
      /\ \A k \in DOMAIN yielded' : yielded'[k].kind = "done" <=> k = Len(yielded')
  BY <1>1, <1>3, HandedOver
<1>5. CallsOf(replied') = reply.calls
  <2>1. CallsOf(<<reply>>) = <<>> \o reply.calls
    BY <1>1, <1>2, Silence, ReplyAppend
  <2>2. reply.calls \in Seq(ToSet(reply.calls))
    BY <1>1, LinesAreRead
  <2> QED BY <1>1, <2>1, <2>2, ConcatEmptySeq
<1>6. replied' \in Seq(LinesOf(dialect'))
  BY <1>1, <1>2
<1>7. Answering'
  BY <1>1, <1>4, <1>5, <1>6 DEF Answering
<1> QED BY <1>1, <1>7 DEF ProviderInv, ProviderTypeOK, Fresh, Gathering, Joining, Streaming, Embedding, VectorsAsAsked

\* A whole answer that cannot be read.
LEMMA UnreadableKeeps ==
  ASSUME ProviderInv, Idle, request' = "generate", dialect' = dialect, ended' = "response",
         UNCHANGED <<replied, yielded>>
  PROVE  ProviderInv'
<1>1. replied' = <<>> /\ yielded' = <<>> /\ dialect \in Dialects
  BY DEF ProviderInv, Fresh, Idle, ProviderTypeOK
<1> QED BY <1>1, Silence DEF ProviderInv, ProviderTypeOK, Fresh, Answering, Gathering, Joining, Streaming,
                             Embedding, VectorsAsAsked, Errors

\* A whole answer (generate).
LEMMA GenerateKeeps ==
  /\ \A reply \in Replies["openai"] : ProviderInv /\ GenerateOpenAI(reply) => ProviderInv'
  /\ \A reply \in Replies["ollama"] : ProviderInv /\ GenerateOllama(reply) => ProviderInv'
<1>1. ASSUME NEW reply \in Replies["openai"], ProviderInv, GenerateOpenAI(reply) PROVE ProviderInv'
  <2>1. dialect = "openai" /\ Idle /\ request' = "generate" /\ dialect' = dialect
        /\ (Whole(reply) \/ (ended' = "response" /\ UNCHANGED <<replied, yielded>>))
    BY <1>1 DEF GenerateOpenAI
  <2> QED BY <1>1, <2>1, WholeKeeps, UnreadableKeeps
<1>2. ASSUME NEW reply \in Replies["ollama"], ProviderInv, GenerateOllama(reply) PROVE ProviderInv'
  <2>1. dialect = "ollama" /\ Idle /\ request' = "generate" /\ dialect' = dialect
        /\ (Whole(reply) \/ (ended' = "response" /\ UNCHANGED <<replied, yielded>>))
    BY <1>2 DEF GenerateOllama
  <2> QED BY <1>2, <2>1, WholeKeeps, UnreadableKeeps
<1> QED BY <1>1, <1>2

\* An embedding begins (Embedder.embed).
LEMMA StartKeeps == ProviderInv /\ StartEmbedding => ProviderInv'
<1> SUFFICES ASSUME ProviderInv, StartEmbedding PROVE ProviderInv'
  OBVIOUS
<1>1. /\ request' = "embed" /\ ended' = "no" /\ replied' = <<>> /\ vectors' = <<>> /\ dialect' = dialect
      /\ dialect \in Dialects
  BY DEF ProviderInv, Fresh, ProviderTypeOK, StartEmbedding, Idle
<1>2. Ascends(<<>>, 0 * BatchSize) /\ Len(<<>>) = 0
  BY DEF Ascends
<1>3. <<>> \in Seq({"batch"})
  OBVIOUS
<1> QED BY <1>1, <1>2, <1>3 DEF ProviderInv, ProviderTypeOK, Fresh, Answering, Gathering, Joining, Streaming, Embedding,
                          VectorsAsAsked, Errors

\* A batch more.
LEMMA EmbedsKeeps ==
  ASSUME ProviderInv, Embedding, NEW there \in SUBSET NextBatch, NEW bad,
         Embeds([k \in 1..Cardinality(there) |-> VectorOf(Nth(k, there), bad)])
  PROVE  ProviderInv'
<1> DEFINE n == Len(replied)
           m == n * BatchSize
<1>0. BatchSize \in Nat
  BY LinesAreRead
<1>1. n \in Nat /\ replied \in Seq({"batch"}) /\ Ascends(vectors, m) /\ dialect \in Dialects
  BY DEF ProviderInv, Joining, ProviderTypeOK
<1>2. /\ request' = "embed" /\ ended' = "no" /\ dialect' = dialect
      /\ replied' = Append(replied, "batch")
      /\ vectors' = vectors \o [k \in 1..Cardinality(there) |-> VectorOf(Nth(k, there), bad)]
  BY DEF Embeds, Embedding
<1>3. Len(replied') = n + 1 /\ replied' \in Seq({"batch"}) /\ Len(replied') \in Nat
  BY <1>1, <1>2
<1>4. m \in Nat /\ (n + 1) * BatchSize = m + BatchSize
  BY <1>0, <1>1
<1>5. there \in SUBSET {i \in (m + 1)..(m + BatchSize) : i <= Texts}
  <2>1. NextBatch = {i \in (m + 1)..(m + 1 + BatchSize - 1) : i <= Texts}
    BY DEF NextBatch
  <2>2. m + 1 + BatchSize - 1 = m + BatchSize
    BY <1>0, <1>4
  <2> QED BY <2>1, <2>2
<1> HIDE DEF m
<1>6. Ascends(vectors', m + BatchSize)
  BY <1>1, <1>2, <1>4, <1>5, BatchAscends
<1> HIDE DEF n
<1>7. Joining'
  BY <1>2, <1>3, <1>4, <1>6 DEF Joining, VectorsAsAsked
<1> QED BY <1>1, <1>2, <1>7 DEF ProviderInv, ProviderTypeOK, Fresh, Answering, Gathering, Streaming, Errors

\* A batch of either protocol (embed).
LEMMA BatchKeeps == ProviderInv /\ (BatchOpenAI \/ BatchOllama) => ProviderInv'
<1> SUFFICES ASSUME ProviderInv, BatchOpenAI \/ BatchOllama PROVE ProviderInv'
  OBVIOUS
<1>1. CASE BatchOllama
  BY <1>1, EmbedsKeeps DEF BatchOllama
<1>2. CASE BatchOpenAI
  <2>1. Embedding
    BY <1>2 DEF BatchOpenAI
  <2>2. PICK there \in SUBSET NextBatch, bad \in SUBSET NextBatch : \E rows \in SetToSeqs(there) :
          Embeds([k \in DOMAIN rows |-> VectorOf(Nth(k, ToSet(rows)), bad)])
    BY <1>2 DEF BatchOpenAI
  <2>3. PICK rows \in SetToSeqs(there) : Embeds([k \in DOMAIN rows |-> VectorOf(Nth(k, ToSet(rows)), bad)])
    BY <2>2
  <2>4. IsFiniteSet(there)
    <3> DEFINE f == Len(replied) * BatchSize + 1
    <3>1. Len(replied) \in Nat
      BY <2>1 DEF ProviderInv, Joining
    <3>2. BatchSize \in Nat
      BY LinesAreRead
    <3>3. f \in Int
      BY <3>1, <3>2
    <3> HIDE DEF f
    <3>4. f + BatchSize - 1 \in Int
      BY <3>2, <3>3
    <3>5. IsFiniteSet(f..(f + BatchSize - 1))
      BY <3>3, <3>4, FS_Interval
    <3>6. NextBatch \in SUBSET (f..(f + BatchSize - 1))
      BY DEF NextBatch, f
    <3>7. there \in SUBSET (f..(f + BatchSize - 1))
      BY <3>6
    <3> QED BY <3>5, <3>7, FS_Subset
  <2>5. ToSet(rows) = there /\ DOMAIN rows = 1..Cardinality(there)
    BY <2>4, AnyOrder
  <2>6. Embeds([k \in 1..Cardinality(there) |-> VectorOf(Nth(k, there), bad)])
    BY <2>3, <2>5
  <2> QED BY <2>1, <2>6, EmbedsKeeps
<1> QED BY <1>1, <1>2

\* A batch without an answer.
LEMMA BatchFailsKeeps == ProviderInv /\ BatchFails => ProviderInv'
<1> SUFFICES ASSUME ProviderInv, BatchFails PROVE ProviderInv'
  OBVIOUS
<1>1. request' = "embed" /\ ended' \in Errors /\ dialect' = dialect /\ dialect \in Dialects
  BY DEF ProviderInv, ProviderTypeOK, BatchFails, Embedding
<1>2. ended' # "done" /\ ended' # "no"
  BY <1>1 DEF Errors
<1> QED BY <1>1, <1>2 DEF ProviderInv, ProviderTypeOK, Fresh, Answering, Gathering, Joining, Streaming, Embedding, VectorsAsAsked

\* The batches are joined (Embedder.embed, its checks).
LEMMA JoinedKeeps == ProviderInv /\ Joined => ProviderInv'
<1> SUFFICES ASSUME ProviderInv, Joined PROVE ProviderInv'
  OBVIOUS
<1>1. /\ request' = "embed" /\ dialect' = dialect /\ dialect \in Dialects /\ vectors' = vectors
      /\ ended' \in {"done", "refused"}
      /\ ended' = "done" => Len(vectors) = Texts /\ \A k \in DOMAIN vectors : vectors[k].fits
  BY DEF ProviderInv, ProviderTypeOK, Joined, Embedding
<1>2. PICK m : Ascends(vectors, m)
  BY DEF ProviderInv, Joining, Joined
<1>3. ASSUME ended' = "done" PROVE vectors = [n \in 1..Texts |-> [of |-> n, fits |-> TRUE]]
  <2> DEFINE f == [k \in 1..Texts |-> vectors[k].of]
  <2>1. /\ Len(vectors) = Texts /\ vectors \in Seq(Rows) /\ DOMAIN vectors = 1..Texts
        /\ \A k \in 1..Texts : vectors[k].fits /\ vectors[k].of \in 1..Texts /\ vectors[k] \in Rows
        /\ \A k, l \in 1..Texts : k < l => vectors[k].of < vectors[l].of
    BY <1>1, <1>2, <1>3 DEF Ascends
  <2>2. Texts \in Nat /\ f \in [1..Texts -> 1..Texts] /\ \A k, l \in 1..Texts : k < l => f[k] < f[l]
    BY <2>1, LinesAreRead
  <2>3. \A k \in 1..Texts : f[k] = k
    <3> HIDE DEF f
    <3> QED BY <2>2, AscendingWhole
  <2>4. \A k \in 1..Texts : vectors[k] = [of |-> k, fits |-> TRUE]
    <3> SUFFICES ASSUME NEW k \in 1..Texts PROVE vectors[k] = [of |-> k, fits |-> TRUE]
      OBVIOUS
    <3>1. vectors[k].of = k /\ vectors[k].fits /\ vectors[k] \in Rows
      BY <2>1, <2>3
    <3> QED BY <3>1 DEF Rows
  <2> QED BY <2>1, <2>4
<1>4. Joining'
  BY <1>1, <1>3 DEF Joining, Embedding, VectorsAsAsked
<1> QED BY <1>1, <1>4 DEF ProviderInv, ProviderTypeOK, Fresh, Answering, Gathering, Streaming

\* All the steps together.
LEMMA ProviderInvStep == ProviderInv /\ [ProviderNext]_providerVars => ProviderInv'
<1> SUFFICES ASSUME ProviderInv, [ProviderNext]_providerVars PROVE ProviderInv'
  OBVIOUS
<1>1. CASE UNCHANGED providerVars
  BY <1>1 DEF providerVars, ProviderInv, ProviderTypeOK, Fresh, Answering, Gathering, Joining, Streaming, Embedding, VectorsAsAsked
<1>2. CASE ProviderNext
  BY <1>2, OpensKeeps, FailsKeeps, ClosesKeeps, BreaksKeeps, OpenAIKeeps, OllamaKeeps, GenerateKeeps,
     StartKeeps, BatchKeeps, BatchFailsKeeps, JoinedKeeps DEF ProviderNext
<1> QED BY <1>1, <1>2

\* The property is a part of it.
LEMMA ProviderInvHolds == ProviderInv => BackendIsQuoted
<1> SUFFICES ASSUME ProviderInv PROVE AnswerAsSent
  BY DEF ProviderInv, Joining, BackendIsQuoted
<1> SUFFICES ASSUME request \in {"stream", "generate"}
             PROVE /\ Quoted(yielded, replied)
                   /\ \A k \in DOMAIN yielded : yielded[k].kind = "done" <=> (ended = "done" /\ k = Len(yielded))
                   /\ ended = "done" =>
                        IF request = "stream" /\ dialect = "openai"
                        THEN PutTogether(Last(yielded).what, FragmentsOf(replied))
                        ELSE Last(yielded).what = CallsOf(replied)
  BY Zenon DEF AnswerAsSent, Quoted
<1> QED BY DEF ProviderInv, Answering, Unended

\* What a backend sends reaches its caller whole and in place, for any lines, any
\* mixture of fragments and any batches (openai_compat.py, ollama.py, embedder.py).
THEOREM BackendQuoted == ProviderSpec => []BackendIsQuoted
BY ProviderInvInit, ProviderInvStep, ProviderInvHolds, PTL DEF ProviderSpec
=============================================================================
