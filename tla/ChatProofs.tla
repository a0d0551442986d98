----------------------------- MODULE ChatProofs -----------------------------
(***************************************************************************)
(* The pages that show runs, and the stream of a run as the server sends   *)
(* it.                                                                     *)
(*                                                                         *)
(* The inductive invariant of RunView says that a message which heard its  *)
(* run alone shows what replaying the events read so far makes of an empty *)
(* message, but for its text, which waits for fragments until there is an  *)
(* answer, and its status.  What is saved of a run is that list of events  *)
(* again.                                                                  *)
(*                                                                         *)
(* The one of RunStream has one part for each of what its two properties   *)
(* say: the frames under way, how many there can be, the finaliser, and    *)
(* the outcome it will record.                                             *)
(***************************************************************************)
EXTENDS RunStream, RunView, ListTheorems

-----------------------------------------------------------------------------
(***************************************************************************)
(* RunView: what is true of the page between two callbacks.                *)
(***************************************************************************)

\* The fields of a message's view (emptyAssistant).
IsView(v) ==
    v = [text |-> v.text, citations |-> v.citations, trace |-> v.trace, steps |-> v.steps,
         artifacts |-> v.artifacts, approval |-> v.approval, limitations |-> v.limitations,
         validation |-> v.validation, policy |-> v.policy, status |-> v.status,
         error |-> v.error]

\* Two views with the same content but for the text, the citations, the status and
\* the error.
Alike(v, w) ==
    /\ v.trace = w.trace /\ v.steps = w.steps /\ v.artifacts = w.artifacts
    /\ v.approval = w.approval /\ v.limitations = w.limitations
    /\ v.validation = w.validation /\ v.policy = w.policy

\* A run streams, and the page has not given it up.
Live(r) == stream[r] = "open" /\ r \notin loose

Turn(m) ==
    /\ m = [run |-> m.run, view |-> m.view, heard |-> m.heard]
    /\ m.run \in Runs /\ IsView(m.view) /\ m.heard \subseteq Runs

\* It shows how its run ended, or that the connection failed after that.
EndShown(v, what) ==
    \/ v.status = (IF what = "failed" THEN "error" ELSE "done") /\ v.error = "none"
    \/ v.status = "error" /\ v.error = "failed"

\* A view shows the events read of a run, while these fragments wait.
Shows(v, read, waiting) ==
    /\ Alike(v, Replayed(read))
    /\ HasKind(read, "answer") => v.text = <<"final">> /\ waiting = <<>>
    /\ \A i \in DOMAIN read : read[i].kind = "answer" => v.citations = read[i].what
    /\ \A i \in DOMAIN read : read[i].kind = "finished" => EndShown(v, read[i].what)

\* A message shows what was read of its run, and no error as long as it streams.
Faithful(m) ==
    /\ Shows(m.view, Read(m.run), buffer[m.run])
    /\ stream[m.run] = "open" => m.view.error = "none"

PageTypes ==
    /\ \A r \in Runs : script[r] \in Scripts[r]
    /\ stream \in [Runs -> {"none", "open", "over"}]
    /\ seen \in [Runs -> Nat] /\ \A r \in Runs : seen[r] <= Len(script[r])
    /\ buffer \in [Runs -> Seq({"fragment"})]
    /\ turns \in Seq(ToSet(turns)) /\ \A i \in DOMAIN turns : Turn(turns[i])
    /\ conv \in Runs \cup {Nowhere} /\ page \in Runs \cup {Nowhere}
    /\ ctl \in Runs \cup {Nowhere} /\ running \in BOOLEAN
    /\ asked \in Seq([run : Runs, conv : Runs])
    /\ DOMAIN saved = Runs /\ DOMAIN cache = Runs
    /\ loose \subseteq Runs /\ stopped \subseteq Runs

\* A run is saved when it is over, with the outcome it had.
Outcomes ==
    \A r \in Runs : saved[r] # NotSaved =>
      /\ stream[r] = "over"
      /\ saved[r].events \in 0..Len(script[r])
      /\ saved[r].status = IF saved[r].events < Len(script[r]) THEN "cancelled"
                           ELSE IF HasKind(script[r], "broken") THEN "failed"
                           ELSE Last(script[r]).what

\* What the query cache holds was rebuilt, and not heard.
Cached ==
    \A c \in Runs :
      /\ cache[c] \in Seq(ToSet(cache[c]))
      /\ \A m \in ToSet(cache[c]) : Turn(m) /\ m.heard = {} /\ stream[m.run] # "none"

\* Only what was sent streams, is on screen or in the records.
Recorded ==
    /\ Outcomes /\ Cached
    /\ \A r \in Runs : stream[r] # "none" => \E a \in ToSet(asked) : a.run = r
    /\ \A r \in Runs : stream[r] = "none" => seen[r] = 0 /\ r \notin loose
    /\ \A r \in Runs : buffer[r] # <<>> => stream[r] = "open"
    /\ ctl # Nowhere => stream[ctl] = "open"
    /\ \A i \in DOMAIN turns : stream[turns[i].run] # "none"

\* The run that streams is the one of the last message, and of no other.
OneIsLive ==
    /\ running <=> \E r \in Runs : Live(r)
    /\ \A q, r \in Runs : Live(q) /\ Live(r) => q = r
    /\ \A r \in Runs : Live(r) =>
         /\ turns # <<>>
         /\ \A i \in DOMAIN turns : turns[i].run = r <=> i = Len(turns)

Heard == \A i \in DOMAIN turns : turns[i].heard \subseteq {turns[i].run} \cup loose

Shown ==
    \A i \in DOMAIN turns :
        LET m == turns[i] IN
        /\ m.run \notin loose \cup stopped
        /\ m.heard = {m.run} \/ (m.heard = {} /\ Live(m.run))
        => Faithful(m)

PageInv == PageTypes /\ Recorded /\ OneIsLive /\ Heard /\ Shown
-----------------------------------------------------------------------------
(***************************************************************************)
(* What events make of a message.                                          *)
(***************************************************************************)

Replays(s, F) ==
  F = [i \in 0..Len(s) |-> IF i = 0 THEN EmptyView ELSE ApplyEvent(F[i - 1], s[i])]

\* A message is the last value of the function that applies one event at a time.
LEMMA ReplayedIs == ASSUME NEW s PROVE Replayed(s) = (CHOOSE F : Replays(s, F))[Len(s)]
BY Zenon DEF Replayed, Replays

\* That function exists for every sequence of events.
LEMMA ReplayExists ==
  ASSUME NEW s, Len(s) \in Nat
  PROVE  \E F : Replays(s, F)
<1> DEFINE Value(F, i) == IF i = 0 THEN EmptyView ELSE ApplyEvent(F[i - 1], s[i])
           Upto(n, F) == \A i \in 0..n : F[i] = Value(F, i)
           N == {n \in Nat : \E F : Upto(n, F)}
<1>1. 0 \in N
  <2>1. Upto(0, [i \in {0} |-> EmptyView])
    OBVIOUS
  <2> QED BY <2>1, Zenon
<1>2. ASSUME NEW n \in Nat, n \in N PROVE n + 1 \in N
  <2>1. PICK F : Upto(n, F)
    BY <1>2
  <2> DEFINE G == [i \in 0..(n + 1) |-> IF i = n + 1 THEN Value(F, i) ELSE F[i]]
  <2>2. \A i \in 0..n : G[i] = F[i]
    <3>1. \A i \in 0..n : i # n + 1 /\ i \in 0..(n + 1)
      OBVIOUS
    <3> QED BY <3>1, Zenon
  <2>3. G[n + 1] = Value(F, n + 1)
    <3>1. n + 1 \in 0..(n + 1)
      OBVIOUS
    <3> QED BY <3>1, Zenon
  <2>4. Value(F, n + 1) = Value(G, n + 1)
    BY <2>2, n + 1 # 0, n + 1 - 1 = n, n \in 0..n
  <2>5. ASSUME NEW i \in 0..n PROVE G[i] = Value(G, i)
    <3>1. i = 0 \/ i - 1 \in 0..n
      OBVIOUS
    <3>2. F[i] = Value(F, i)
      BY <2>1
    <3> QED BY <3>1, <3>2, <2>2
  <2>6. Upto(n + 1, G)
    <3> SUFFICES ASSUME NEW i \in 0..(n + 1) PROVE G[i] = Value(G, i)
      BY Zenon
    <3>1. i = n + 1 \/ i \in 0..n
      OBVIOUS
    <3> QED BY <3>1, <2>3, <2>4, <2>5
  <2>7. n + 1 \in Nat
    OBVIOUS
  <2> QED BY <2>6, <2>7, Zenon
<1>3. Len(s) \in N
  <2> HIDE DEF N
  <2> QED BY <1>1, <1>2, Induction
<1>4. PICK F : Upto(Len(s), F)
  BY <1>3
<1> DEFINE H == [i \in 0..Len(s) |-> F[i]]
<1>5. \A i \in 0..Len(s) : Value(H, i) = F[i]
  BY <1>4
<1>6. Replays(s, H)
  BY <1>5 DEF Replays
<1> QED BY <1>6

\* It is the only one, so a common beginning makes the same message.
LEMMA ReplaysAgree ==
  ASSUME NEW s, NEW t, NEW F, NEW G, NEW n \in Nat,
         Len(s) \in Nat, Len(t) \in Nat, n <= Len(s), n <= Len(t),
         \A i \in 1..n : s[i] = t[i], Replays(s, F), Replays(t, G)
  PROVE  F[n] = G[n]
<1> DEFINE N == {k \in Nat : k <= n => F[k] = G[k]}
<1>1. \A k \in 0..Len(s) : F[k] = IF k = 0 THEN EmptyView ELSE ApplyEvent(F[k - 1], s[k])
  BY Zenon DEF Replays
<1>2. \A k \in 0..Len(t) : G[k] = IF k = 0 THEN EmptyView ELSE ApplyEvent(G[k - 1], t[k])
  BY Zenon DEF Replays
<1>3. 0 \in N
  BY <1>1, <1>2
<1>4. ASSUME NEW k \in Nat, k \in N PROVE k + 1 \in N
  <2> SUFFICES ASSUME k + 1 <= n PROVE F[k + 1] = G[k + 1]
    OBVIOUS
  <2>1. k + 1 \in 1..n /\ k + 1 \in 0..Len(s) /\ k + 1 \in 0..Len(t) /\ k + 1 # 0 /\ k + 1 - 1 = k
    OBVIOUS
  <2>2. F[k] = G[k] /\ s[k + 1] = t[k + 1]
    BY <1>4, <2>1
  <2>3. F[k + 1] = ApplyEvent(F[k], s[k + 1])
    BY <1>1, <2>1
  <2>4. G[k + 1] = ApplyEvent(G[k], t[k + 1])
    BY <1>2, <2>1
  <2> QED BY <2>2, <2>3, <2>4
<1> HIDE DEF N
<1>5. n \in N
  BY <1>3, <1>4, Induction
<1> QED BY <1>5 DEF N

\* No event leaves the message empty.
LEMMA ReplayedEmpty == Replayed(<<>>) = EmptyView
<1> DEFINE F == CHOOSE F : Replays(<<>>, F)
<1>1. Replays(<<>>, F)
  BY ReplayExists
<1> HIDE DEF F
<1>2. F[0] = EmptyView
  BY <1>1 DEF Replays
<1> QED BY <1>2, ReplayedIs DEF F

\* One more event is applied to what the others made.
LEMMA ReplayedAppend ==
  ASSUME NEW S, NEW s \in Seq(S), NEW e \in S
  PROVE  Replayed(Append(s, e)) = ApplyEvent(Replayed(s), e)
<1> DEFINE t == Append(s, e)
           F == CHOOSE F : Replays(s, F)
           G == CHOOSE G : Replays(t, G)
<1>1. Len(s) \in Nat /\ Len(t) = Len(s) + 1 /\ t[Len(t)] = e /\ \A i \in 1..Len(s) : s[i] = t[i]
  OBVIOUS
<1> HIDE DEF t
<1>2. Len(t) \in Nat
  BY <1>1
<1>3. Replays(s, F)
  BY <1>1, ReplayExists, Zenon
<1>4. Replays(t, G)
  BY <1>2, ReplayExists, Zenon
<1>5. Replayed(s) = F[Len(s)] /\ Replayed(t) = G[Len(t)]
  BY ReplayedIs, Zenon
<1> HIDE DEF F, G
<1>6. F[Len(s)] = G[Len(s)]
  <2> DEFINE n == Len(s)
  <2>1. n \in Nat /\ Len(s) \in Nat /\ n <= Len(s) /\ n <= Len(t) /\ \A i \in 1..n : s[i] = t[i]
    BY <1>1
  <2> HIDE DEF n
  <2>2. F[n] = G[n]
    BY <1>2, <1>3, <1>4, <2>1, ReplaysAgree
  <2> QED BY <2>2 DEF n
<1>7. G[Len(t)] = ApplyEvent(G[Len(s)], e)
  <2>1. Len(t) \in 0..Len(t) /\ Len(t) # 0 /\ Len(t) - 1 = Len(s)
    BY <1>1
  <2>2. G[Len(t)] = IF Len(t) = 0 THEN EmptyView ELSE ApplyEvent(G[Len(t) - 1], t[Len(t)])
    BY <1>4, <2>1, Zenon DEF Replays
  <2> QED BY <1>1, <2>1, <2>2
<1> QED BY <1>5, <1>6, <1>7 DEF t

\* An event leaves the message one, and changes in it what its kind says.
LEMMA Applied ==
  ASSUME NEW v, IsView(v), NEW e
  PROVE  LET w == ApplyEvent(v, e) IN
         /\ IsView(w)
         /\ w.text = IF e.kind = "answer" THEN <<"final">> ELSE v.text
         /\ e.kind = "answer" => w.citations = e.what
         /\ e.kind \notin {"answer", "citation"} => w.citations = v.citations
         /\ w.status = IF e.kind = "finished"
                       THEN IF e.what = "failed" THEN "error" ELSE "done"
                       ELSE v.status
         /\ w.error = v.error
<1> DEFINE x == Reduced(v, e)
           w == ApplyEvent(v, e)
           Outcome(u) == IF e.kind = "finished" THEN IF e.what = "failed" THEN "error" ELSE "done"
                         ELSE u.status
<1>1. IsView(x)
  BY DEF Reduced, IsView
<1>2. x.text = IF e.kind = "answer" THEN <<"final">> ELSE v.text
  BY DEF Reduced, IsView
<1>3. /\ e.kind = "answer" => x.citations = e.what
      /\ e.kind \notin {"answer", "citation"} => x.citations = v.citations
  BY DEF Reduced, IsView
<1>4. x.status = Outcome(v)
  BY DEF Reduced, IsView
<1>5. x.error = v.error
  BY DEF Reduced, IsView
<1> HIDE DEF x
<1>6. /\ IsView(w) /\ w.text = x.text /\ w.citations = x.citations
      /\ w.status = x.status /\ w.error = x.error
  <2>1. w = x \/ w = [x EXCEPT !.trace = Append(@, <<e.kind, e.what>>)]
    BY Zenon DEF ApplyEvent, x
  <2> HIDE DEF w
  <2>2. CASE w = x
    BY <1>1, <2>2
  <2>3. CASE w = [x EXCEPT !.trace = Append(@, <<e.kind, e.what>>)]
    BY <1>1, <2>3 DEF IsView
  <2> QED BY <2>1, <2>2, <2>3
<1> HIDE DEF w
<1>7. /\ IsView(w)
      /\ w.text = IF e.kind = "answer" THEN <<"final">> ELSE v.text
      /\ e.kind = "answer" => w.citations = e.what
      /\ e.kind \notin {"answer", "citation"} => w.citations = v.citations
      /\ w.status = Outcome(v)
      /\ w.error = v.error
  BY <1>2, <1>3, <1>4, <1>5, <1>6, Zenon
<1> QED BY <1>7, Zenon DEF w

\* Fragments and the first event leave it as it is.
LEMMA Unapplied ==
  ASSUME NEW v, NEW e, e.kind \in {"token", "started"}
  PROVE  ApplyEvent(v, e) = v
BY DEF ApplyEvent, Reduced, Traced

\* The event that says the stream broke is only listed.
LEMMA Broken ==
  ASSUME NEW v, NEW e, e.kind = "broken"
  PROVE  ApplyEvent(v, e) = [v EXCEPT !.trace = Append(@, <<"broken", e.what>>)]
BY DEF ApplyEvent, Reduced, Traced

\* What an event does to the rest of a message depends on that rest alone.
LEMMA AppliedAlike ==
  ASSUME NEW v, NEW w, NEW e, IsView(v), IsView(w), Alike(v, w)
  PROVE  Alike(ApplyEvent(v, e), ApplyEvent(w, e))
BY DEF ApplyEvent, Reduced, Traced, IsView, Alike

\* What events make of a message is a message.
LEMMA ReplayedIsView ==
  ASSUME NEW S, NEW s \in Seq(S)
  PROVE  IsView(Replayed(s))
<1> DEFINE P == {t \in Seq(S) : IsView(Replayed(t))}
<1>1. <<>> \in P
  BY ReplayedEmpty DEF IsView, EmptyView
<1>2. ASSUME NEW t \in Seq(S), NEW e \in S, t \in P PROVE Append(t, e) \in P
  BY <1>2, ReplayedAppend, Applied
<1>3. s \in P
  <2> HIDE DEF P
  <2> QED BY <1>1, <1>2, SeqInduction
<1> QED BY <1>3

\* And has no error: that is only set by the page.
LEMMA ReplayedHasNoError ==
  ASSUME NEW S, NEW s \in Seq(S)
  PROVE  Replayed(s).error = "none"
<1> DEFINE P == {t \in Seq(S) : Replayed(t).error = "none"}
<1>1. <<>> \in P
  BY ReplayedEmpty DEF EmptyView
<1>2. ASSUME NEW t \in Seq(S), NEW e \in S, t \in P PROVE Append(t, e) \in P
  <2> DEFINE v == Replayed(t)
  <2>1. Replayed(Append(t, e)) = ApplyEvent(v, e)
    BY ReplayedAppend
  <2>2. IsView(v) /\ v.error = "none"
    BY <1>2, ReplayedIsView
  <2> HIDE DEF v
  <2>3. ApplyEvent(v, e).error = v.error
    BY <2>2, Applied, Zenon
  <2>4. Append(t, e) \in Seq(S)
    OBVIOUS
  <2> QED BY <2>1, <2>2, <2>3, <2>4
<1>3. s \in P
  <2> HIDE DEF P
  <2> QED BY <1>1, <1>2, SeqInduction
<1> QED BY <1>3

-----------------------------------------------------------------------------
(***************************************************************************)
(* A message that was streamed is the one that is reopened.                *)
(***************************************************************************)

\* Leaving fragments out of a trace leaves out nothing of the message.
LEMMA ReplayedKept ==
  ASSUME NEW S, NEW s \in Seq(S), NEW A,
         \A e \in S : e \in A <=> e.kind \notin {"token", "broken"},
         \A i \in DOMAIN s : s[i].kind # "broken"
  PROVE  Replayed(Kept(s, A)) = Replayed(s)
<1> DEFINE P == {t \in Seq(S) : (\A i \in DOMAIN t : t[i].kind # "broken")
                                   => Replayed(Kept(t, A)) = Replayed(t)}
<1>1. <<>> \in P
  BY KeptEmpty
<1>2. ASSUME NEW t \in Seq(S), NEW e \in S, t \in P PROVE Append(t, e) \in P
  <2> DEFINE u == Append(t, e)
  <2>1. u \in Seq(S) /\ DOMAIN u = 1..(Len(t) + 1) /\ DOMAIN t = 1..Len(t) /\ Len(t) \in Nat
        /\ u[Len(t) + 1] = e /\ \A i \in 1..Len(t) : u[i] = t[i]
    OBVIOUS
  <2>2. Replayed(u) = ApplyEvent(Replayed(t), e)
    BY ReplayedAppend
  <2>3. Kept(t, A) \in Seq(S)
    <3>1. Kept(t, A) \in Seq(S \cap A)
      BY KeptType
    <3> QED BY <3>1
  <2>4. e \in A => Replayed(Append(Kept(t, A), e)) = ApplyEvent(Replayed(Kept(t, A)), e)
    BY <2>3, ReplayedAppend
  <2>5. Kept(u, A) = IF e \in A THEN Append(Kept(t, A), e) ELSE Kept(t, A)
    BY KeptAppend
  <2> HIDE DEF u
  <2>6. SUFFICES ASSUME \A i \in DOMAIN u : u[i].kind # "broken"
                 PROVE  Replayed(Kept(u, A)) = Replayed(u)
    BY <2>1 DEF u
  <2>7. Len(t) + 1 \in DOMAIN u /\ \A i \in DOMAIN t : i \in DOMAIN u
    BY <2>1
  <2>8. e.kind # "broken" /\ Replayed(Kept(t, A)) = Replayed(t)
    BY <1>2, <2>1, <2>6, <2>7
  <2>9. CASE e \in A
    BY <2>2, <2>4, <2>5, <2>8, <2>9
  <2>10. CASE e \notin A
    <3>1. e.kind = "token"
      BY <2>8, <2>10
    <3>2. ApplyEvent(Replayed(t), e) = Replayed(t)
      BY <3>1, Unapplied
    <3> QED BY <2>2, <2>5, <2>8, <2>10, <3>2
  <2> QED BY <2>9, <2>10
<1>3. s \in P
  <2> HIDE DEF P
  <2> QED BY <1>1, <1>2, SeqInduction
<1> QED BY <1>3

\* What the page has read of a run is the beginning of what it sends.
LEMMA ReadIs ==
  ASSUME PageTypes, NEW r \in Runs
  PROVE  LET S == ToSet(script[r]) IN
         /\ InProtocol(script[r])
         /\ script[r] \in Seq(S) /\ Len(script[r]) \in Nat /\ DOMAIN script[r] = 1..Len(script[r])
         /\ seen[r] \in Nat /\ seen[r] <= Len(script[r])
         /\ Read(r) \in Seq(S) /\ Len(Read(r)) = seen[r] /\ DOMAIN Read(r) = 1..seen[r]
         /\ \A i \in 1..seen[r] : Read(r)[i] = script[r][i]
<1>1. script[r] \in Scripts[r] /\ seen[r] \in Nat /\ seen[r] <= Len(script[r])
  BY DEF PageTypes
<1>2. InProtocol(script[r])
  BY <1>1, ScriptsAssumption
<1> DEFINE s == script[r]
           n == seen[r]
<1>3. s \in Seq(ToSet(s))
  BY <1>2 DEF InProtocol
<1> HIDE DEF s
<1>4. Len(s) \in Nat /\ DOMAIN s = 1..Len(s) /\ n \in Nat /\ n <= Len(s)
  BY <1>1, <1>3 DEF s
<1> HIDE DEF n
<1>5. SubSeq(s, 1, n) \in Seq(ToSet(s)) /\ Len(SubSeq(s, 1, n)) = n
      /\ \A i \in 1..n : SubSeq(s, 1, n)[i] = s[i]
  <2>1. \A i \in 1..n : s[i] \in ToSet(s)
    BY <1>3, <1>4
  <2>2. n <= Len(s) /\ 1 \in 1..(n + 1)
    BY <1>4
  <2>3. \A i \in 1..n : i \in Nat /\ s[1 + i - 1] = s[i] /\ i \in DOMAIN s
    BY <1>4
  <2> QED BY <1>3, <1>4, <2>1, <2>3, SubSeqProperties
<1> QED BY <1>2, <1>3, <1>4, <1>5 DEF Read, s, n

\* Views that are alike and agree in text, citations, status and error are the same.
LEMMA AlikeIsSame ==
  ASSUME NEW v, NEW w, IsView(v), IsView(w), Alike(v, w)
  PROVE  /\ Shape(v) = Shape(w)
         /\ v.text = w.text /\ v.citations = w.citations /\ v.status = w.status
            /\ v.error = w.error => v = w
<1>1. Shape(v) = Shape(w)
  BY DEF IsView, Alike, Shape
<1>2. ASSUME v.text = w.text, v.citations = w.citations, v.status = w.status,
             v.error = w.error
      PROVE  v = w
  BY <1>2 DEF IsView, Alike
<1> QED BY <1>1, <1>2

\* A message with another status and error.
LEMMA Marked ==
  ASSUME NEW v, IsView(v), NEW state, NEW why
  PROVE  LET u == WentWrong(v, state, why) IN
         /\ IsView(u) /\ Alike(u, v) /\ u.citations = v.citations /\ u.text = v.text
         /\ u.status = state /\ u.error = why
<1> DEFINE x == [v EXCEPT !.status = state]
           y == [x EXCEPT !.error = why]
<1>1. IsView(x) /\ Alike(x, v) /\ x.citations = v.citations /\ x.text = v.text /\ x.status = state
  BY DEF IsView, Alike
<1> HIDE DEF x
<1>2. /\ IsView(y) /\ Alike(y, v) /\ y.citations = v.citations /\ y.text = v.text
      /\ y.status = state /\ y.error = why
  BY <1>1 DEF IsView, Alike
<1>3. WentWrong(v, state, why) = y
  BY DEF WentWrong, x
<1> QED BY <1>2, <1>3

\* Listing something more leaves the rest.
LEMMA Listed ==
  ASSUME NEW v, IsView(v), NEW l
  PROVE  LET x == [v EXCEPT !.trace = l] IN
         IsView(x) /\ Shape(v).trace = v.trace /\ Shape(x) = [Shape(v) EXCEPT !.trace = l]
<1> DEFINE x == [v EXCEPT !.trace = l]
           y == Shape(v)
<1>1. IsView(x) /\ x.trace = l
  BY DEF IsView
<1>2. y.trace = v.trace
  BY DEF IsView, Shape
<1>3. Shape(x) = [y EXCEPT !.trace = l]
  BY DEF IsView, Shape
<1> QED BY <1>1, <1>2, <1>3

\* What a message that nothing disturbed shows, and what is rebuilt of its run.
LEMMA SameAgain ==
  ASSUME PageInv, NEW i \in DOMAIN turns, Undisturbed(turns[i])
  PROVE  LET m == turns[i]
             reopened == Hydrated(m.run)
         IN  IF HasKind(Sent(m.run), "finished")
             THEN LET kept == [m.view EXCEPT !.citations = AsStored(@)]
                  IN  \/ kept = reopened
                      \/ kept = WentWrong(reopened, "error", "failed")
             ELSE IF HasKind(Sent(m.run), "broken")
             THEN Shape(m.view) =
                    [Shape(reopened) EXCEPT !.trace = Append(@, <<"broken", Last(Sent(m.run)).what>>)]
             ELSE Shape(m.view) = Shape(reopened)
<1> DEFINE m == turns[i]
           r == m.run
           read == Read(r)
           S == ToSet(script[r])
           A == {e \in ToSet(read) : e.kind \notin {"token", "broken"}}
           B == {e \in ToSet(read) : e.kind = "answer"}
           n == Len(read)
<1>1. r \in Runs /\ IsView(m.view) /\ m.heard = {r} /\ r \notin loose \cup stopped \cup later
      /\ HasTurn(r) /\ saved[r].events = seen[r]
  BY DEF PageInv, PageTypes, Turn, Undisturbed
<1>2. Sent(r) = read
  BY <1>1 DEF Sent, Read
<1>3. Faithful(m)
  BY <1>1 DEF PageInv, Shown
<1>4. /\ InProtocol(script[r]) /\ Len(script[r]) \in Nat /\ DOMAIN script[r] = 1..Len(script[r])
      /\ n = seen[r] /\ n \in Nat /\ n <= Len(script[r])
      /\ read \in Seq(S) /\ DOMAIN read = 1..n /\ \A j \in 1..n : read[j] = script[r][j]
  BY <1>1, ReadIs DEF PageInv
<1>5. /\ Alike(m.view, Replayed(read))
      /\ HasKind(read, "answer") => m.view.text = <<"final">>
      /\ \A j \in DOMAIN read : read[j].kind = "answer" => m.view.citations = read[j].what
      /\ \A j \in DOMAIN read : read[j].kind = "finished" => EndShown(m.view, read[j].what)
  BY <1>3 DEF Faithful, Shows
<1>6. /\ saved[r].status = IF saved[r].events < Len(script[r]) THEN "cancelled"
                           ELSE IF HasKind(script[r], "broken") THEN "failed"
                           ELSE Last(script[r]).what
      /\ HasKind(read, "answer") \/ HasKind(read, "broken") \/ saved[r].status = "cancelled"
  BY <1>1, <1>2 DEF PageInv, Recorded, Outcomes, HasTurn
<1>7. Hydrated(r) = [Replayed(Kept(read, A)) EXCEPT
            !.artifacts = @,
            !.text = IF Kept(read, B) = <<>> THEN <<>> ELSE <<"final">>,
            !.citations = IF Kept(read, B) = <<>> THEN {} ELSE AsStored(Last(Kept(read, B)).what),
            !.status = IF saved[r].status = "cancelled" THEN "interrupted"
                       ELSE IF saved[r].status = "failed" THEN "error" ELSE "done"]
  BY <1>1, <1>2 DEF Hydrated, Stored
<1> DEFINE w == Replayed(Kept(read, A))
           h == Hydrated(r)
<1> HIDE DEF m, read, A, B, S
<1>8. read \in Seq(ToSet(read))
  BY <1>4 DEF ToSet
<1>9. Kept(read, A) \in Seq(ToSet(read) \cap A)
  BY <1>8, KeptType
<1>10. IsView(w) /\ w.error = "none"
  BY <1>9, ReplayedIsView, ReplayedHasNoError
<1>11. /\ IsView(h) /\ Alike(h, w)
       /\ h.text = IF Kept(read, B) = <<>> THEN <<>> ELSE <<"final">>
       /\ h.citations = IF Kept(read, B) = <<>> THEN {} ELSE AsStored(Last(Kept(read, B)).what)
       /\ h.error = "none"
       /\ h.status = IF saved[r].status = "cancelled" THEN "interrupted"
                     ELSE IF saved[r].status = "failed" THEN "error" ELSE "done"
  <2> HIDE DEF w
  <2> QED BY <1>7, <1>10 DEF w, IsView, Alike
<1>12. IsView(Replayed(read))
  BY <1>8, ReplayedIsView
<1> HIDE DEF w, h
<1>13. CASE ~HasKind(read, "broken")
  <2>1. \A j \in DOMAIN read : read[j].kind # "broken"
    BY <1>13 DEF HasKind
  <2>2. \A e \in ToSet(read) : e \in A <=> e.kind \notin {"token", "broken"}
    BY DEF A
  <2>3. w = Replayed(read)
    BY <1>8, <2>1, <2>2, ReplayedKept DEF w
  <2>4. Alike(m.view, h)
    BY <1>5, <1>11, <2>3 DEF Alike
  <2>5. Shape(m.view) = Shape(h)
    BY <1>1, <1>11, <2>4, AlikeIsSame
  <2> DEFINE kept == [m.view EXCEPT !.citations = AsStored(@)]
             failed == WentWrong(h, "error", "failed")
  <2>6. ASSUME HasKind(read, "finished") PROVE kept = h \/ kept = failed
    <3>1. PICK j \in 1..n : read[j].kind = "finished"
      BY <1>4, <2>6 DEF HasKind
    <3>2. j = Len(script[r]) /\ script[r][j].kind = "finished" /\ script[r][j].what # "cancelled"
          /\ n = Len(script[r])
      BY <1>4, <3>1 DEF InProtocol
    <3>3. Last(script[r]).what = read[j].what
      BY <1>4, <3>1, <3>2 DEF Last
    <3>4. ~HasKind(script[r], "broken")
      BY <1>4, <3>2, <2>1 DEF HasKind
    <3>5. saved[r].status = read[j].what /\ saved[r].status # "cancelled"
      BY <1>1, <1>4, <1>6, <3>1, <3>2, <3>3, <3>4
    <3>6. HasKind(read, "answer")
      BY <1>6, <1>13, <3>5
    <3>7. PICK k \in 1..n : read[k].kind = "answer"
      BY <1>4, <3>6 DEF HasKind
    <3>8. read[k] \in B
      BY <1>4, <3>7 DEF B, ToSet
    <3>9. \E p \in 1..Len(Kept(read, B)) : Kept(read, B)[p] = read[k]
      <4>1. \A q \in 1..Len(read) : read[q] \in B =>
              \E p \in 1..Len(Kept(read, B)) : Kept(read, B)[p] = read[q]
        BY <1>8, KeptMembers
      <4> QED BY <3>7, <3>8, <4>1
    <3>10. Kept(read, B) \in Seq(ToSet(read) \cap B)
      BY <1>8, KeptType
    <3> DEFINE answers == Kept(read, B)
    <3> HIDE DEF answers
    <3>11. answers \in Seq(ToSet(read) \cap B) /\ answers # <<>>
      BY <3>9, <3>10 DEF answers
    <3>12. Last(answers) \in ToSet(read) \cap B
      BY <3>11 DEF Last
    <3>13. PICK q \in DOMAIN read : Last(answers) = read[q] /\ read[q].kind = "answer"
      BY <3>12 DEF B, ToSet
    <3>14. h.citations = AsStored(m.view.citations)
      BY <1>5, <1>11, <3>11, <3>13 DEF answers
    <3>15. h.text = m.view.text
      BY <1>5, <1>11, <3>6, <3>11 DEF answers
    <3>16. h.status = IF read[j].what = "failed" THEN "error" ELSE "done"
      BY <1>11, <3>5
    <3>17. EndShown(m.view, read[j].what)
      BY <1>4, <1>5, <3>1
    <3> DEFINE stored == AsStored(m.view.citations)
    <3> HIDE DEF stored
    <3>18. /\ IsView(kept) /\ Alike(kept, h) /\ kept.citations = stored
           /\ kept.text = m.view.text /\ kept.status = m.view.status /\ kept.error = m.view.error
      <4>1. kept = [m.view EXCEPT !.citations = stored]
        BY DEF stored
      <4> HIDE DEF kept
      <4> QED BY <1>1, <2>4, <4>1 DEF IsView, Alike
    <3>19. /\ IsView(failed) /\ Alike(kept, failed) /\ failed.citations = h.citations
           /\ failed.text = h.text /\ failed.status = "error" /\ failed.error = "failed"
      <4> HIDE DEF kept
      <4>1. /\ IsView(failed) /\ Alike(failed, h) /\ failed.citations = h.citations
            /\ failed.text = h.text /\ failed.status = "error" /\ failed.error = "failed"
        BY <1>11, Marked
      <4> QED BY <3>18, <4>1 DEF Alike
    <3> HIDE DEF kept, failed
    <3>20. CASE m.view.status = h.status /\ m.view.error = "none"
      <4>1. kept = h
        BY <1>11, <3>14, <3>15, <3>18, <3>20, AlikeIsSame DEF stored
      <4> QED BY <4>1
    <3>21. CASE m.view.status = "error" /\ m.view.error = "failed"
      <4>1. kept = failed
        BY <3>14, <3>15, <3>18, <3>19, <3>21, AlikeIsSame DEF stored
      <4> QED BY <4>1
    <3> QED BY <3>16, <3>17, <3>20, <3>21 DEF EndShown
  <2> QED BY <1>2, <1>13, <2>5, <2>6 DEF m, h
<1>14. CASE HasKind(read, "broken")
  <2>1. PICK j \in 1..n : read[j].kind = "broken"
    BY <1>4, <1>14 DEF HasKind
  <2>2. j = n /\ n >= 1 /\ \A k \in 1..n : read[k].kind \in {"finished", "broken"} => k = n
    <3>1. \A p, q \in 1..Len(script[r]) : script[r][p].kind \in {"finished", "broken"} => q <= p
      BY <1>4 DEF InProtocol
    <3>2. ASSUME NEW k \in 1..n, read[k].kind \in {"finished", "broken"} PROVE k = n
      <4>1. k \in 1..Len(script[r]) /\ Len(script[r]) \in 1..Len(script[r]) /\ script[r][k] = read[k]
        BY <1>4
      <4>2. Len(script[r]) <= k
        BY <3>1, <3>2, <4>1
      <4> QED BY <1>4, <4>1, <4>2
    <3> QED BY <1>4, <2>1, <3>2
  <2>3. ~HasKind(read, "finished")
    BY <1>4, <2>1, <2>2 DEF HasKind
  <2>4. PICK front \in Seq(ToSet(read)), b \in ToSet(read) : read = Append(front, b)
    <3>1. read # <<>>
      BY <1>4, <2>2
    <3> QED BY <1>8, <3>1, SequenceEmptyOrAppend
  <2>5. Len(front) = n - 1 /\ DOMAIN front = 1..(n - 1) /\ b = read[n]
        /\ \A k \in 1..(n - 1) : front[k] = read[k]
    BY <1>4, <2>4, AppendProperties
  <2>6. b.kind = "broken" /\ b = Last(read)
    BY <2>1, <2>2, <2>5 DEF Last
  <2>7. \A k \in DOMAIN front : front[k].kind # "broken"
    BY <1>4, <2>2, <2>5
  <2>8. \A e \in ToSet(read) : e \in A <=> e.kind \notin {"token", "broken"}
    BY DEF A
  <2>9. Kept(read, A) = Kept(front, A)
    BY <2>4, <2>6, <2>8, KeptAppend
  <2>10. w = Replayed(front)
    BY <2>4, <2>7, <2>8, <2>9, ReplayedKept DEF w
  <2>11. Replayed(read) = [w EXCEPT !.trace = Append(@, <<"broken", b.what>>)]
    BY <2>4, <2>6, <2>10, ReplayedAppend, Broken
  <2> DEFINE l == Append(h.trace, <<"broken", b.what>>)
             x == [h EXCEPT !.trace = l]
  <2>12. IsView(x) /\ Shape(x) = [Shape(h) EXCEPT !.trace = Append(@, <<"broken", b.what>>)]
    BY <1>11, Listed, Zenon
  <2>13. Replayed(read).trace = l
    BY <1>10, <1>11, <2>11 DEF IsView, Alike
  <2> HIDE DEF l
  <2>14. Alike(Replayed(read), x)
    BY <1>10, <1>11, <2>11, <2>13 DEF IsView, Alike
  <2>15. Alike(m.view, x)
    BY <1>5, <2>14 DEF Alike
  <2>16. Shape(m.view) = Shape(x)
    BY <1>1, <2>12, <2>15, AlikeIsSame
  <2> QED BY <1>2, <1>14, <2>3, <2>6, <2>12, <2>16 DEF m, h
<1> QED BY <1>13, <1>14

\* The invariant says all of what is checked.
LEMMA PageInvMeans == PageInv => ViewInv
<1> SUFFICES ASSUME PageInv PROVE ViewInv
  OBVIOUS
<1>1. ViewTypeOK
  BY ReadIs DEF PageInv, PageTypes, ViewTypeOK
<1>2. OnlyItsOwnRun
  BY DEF PageInv, OneIsLive, Heard, OnlyItsOwnRun, Live
<1>3. ReopenedLooksTheSame
  BY SameAgain DEF ReopenedLooksTheSame
<1> QED BY <1>1, <1>2, <1>3 DEF ViewInv

-----------------------------------------------------------------------------
(***************************************************************************)
(* One more event, or fragments, or a status.                              *)
(***************************************************************************)

\* Fragments go into the text before there is an answer.
LEMMA FlushedShows ==
  ASSUME NEW v, IsView(v), NEW read, NEW w, w # <<>>, Shows(v, read, w)
  PROVE  LET u == [v EXCEPT !.text = @ \o w] IN IsView(u) /\ Shows(u, read, <<>>)
<1> DEFINE t == v.text \o w
           u == [v EXCEPT !.text = t]
<1> HIDE DEF t
<1>1. IsView(u) /\ Alike(u, v) /\ u.citations = v.citations /\ u.status = v.status /\ u.error = v.error
  BY DEF IsView, Alike
<1> HIDE DEF u
<1>2. Shows(u, read, <<>>)
  BY <1>1 DEF Shows, Alike, EndShown
<1> QED BY <1>1, <1>2 DEF u, t

\* A status and an error are only set as long as the run has not said how it finished,
\* unless the connection failed.
LEMMA StatusShows ==
  ASSUME NEW v, IsView(v), NEW read, NEW w, Shows(v, read, w), NEW state, NEW why,
         ~HasKind(read, "finished") \/ (state = "error" /\ why = "failed")
  PROVE  LET u == WentWrong(v, state, why) IN IsView(u) /\ Shows(u, read, w)
<1> DEFINE u == WentWrong(v, state, why)
<1>1. /\ IsView(u) /\ Alike(u, v) /\ u.citations = v.citations /\ u.text = v.text
      /\ u.status = state /\ u.error = why
  BY Marked
<1> HIDE DEF u
<1>2. Shows(u, read, w)
  BY <1>1 DEF Shows, Alike, HasKind, EndShown
<1> QED BY <1>1, <1>2 DEF u

\* What the next event has to respect.
Follows(e, read) ==
    /\ ~HasKind(read, "finished")
    /\ HasKind(read, "answer") => e.kind \notin {"token", "citation", "answer"}

\* The next event of a run is applied to a message that shows the others.
LEMMA AppliedShows ==
  ASSUME NEW S, NEW read \in Seq(S), NEW e \in S, Follows(e, read),
         NEW v, IsView(v), v.error = "none", NEW w, Shows(v, read, w),
         NEW x, e.kind = "answer" => x = <<>>, w = <<>> => x = <<>> \/ e.kind = "token"
  PROVE  LET u == ApplyEvent(v, e)
         IN  IsView(u) /\ u.error = "none" /\ Shows(u, Append(read, e), x)
<1> DEFINE u == ApplyEvent(v, e)
           more == Append(read, e)
           n == Len(read)
<1>1. /\ IsView(u)
      /\ u.text = IF e.kind = "answer" THEN <<"final">> ELSE v.text
      /\ e.kind = "answer" => u.citations = e.what
      /\ e.kind \notin {"answer", "citation"} => u.citations = v.citations
      /\ u.status = IF e.kind = "finished"
                    THEN IF e.what = "failed" THEN "error" ELSE "done"
                    ELSE v.status
      /\ u.error = "none"
  BY Applied
<1>2. Alike(u, Replayed(more))
  <2>1. IsView(Replayed(read)) /\ Replayed(more) = ApplyEvent(Replayed(read), e)
    BY ReplayedIsView, ReplayedAppend
  <2> HIDE DEF more
  <2> QED BY <2>1, AppliedAlike DEF Shows
<1> HIDE DEF u
<1>3. n \in Nat /\ DOMAIN read = 1..n /\ DOMAIN more = 1..(n + 1) /\ more[n + 1] = e
      /\ \A i \in 1..n : more[i] = read[i]
  BY AppendProperties
<1> HIDE DEF more, n
<1>4. \A i \in 1..(n + 1) : i = n + 1 \/ i \in 1..n
  BY <1>3
<1>5. HasKind(more, "answer") => u.text = <<"final">> /\ x = <<>>
  <2>1. HasKind(more, "answer") => HasKind(read, "answer") \/ e.kind = "answer"
    BY <1>3, <1>4 DEF HasKind
  <2>2. HasKind(read, "answer") => v.text = <<"final">> /\ w = <<>> /\ e.kind \notin {"token", "answer"}
    BY DEF Shows, Follows
  <2> QED BY <1>1, <2>1, <2>2
<1>6. ASSUME NEW i \in DOMAIN more, more[i].kind = "answer" PROVE u.citations = more[i].what
  BY <1>1, <1>3, <1>4, <1>6 DEF Shows, HasKind, Follows
<1>7. ASSUME NEW i \in DOMAIN more, more[i].kind = "finished"
      PROVE  EndShown(u, more[i].what)
  BY <1>1, <1>3, <1>4, <1>7 DEF HasKind, Follows, EndShown
<1>8. Shows(u, more, x)
  BY <1>2, <1>5, <1>6, <1>7 DEF Shows
<1> QED BY <1>1, <1>8 DEF u, more

\* What is read next respects what was sent before.
LEMMA NextFollows ==
  ASSUME PageTypes, NEW r \in Runs, Reading(r), seen' = [seen EXCEPT ![r] = @ + 1], UNCHANGED script
  PROVE  /\ Next1(r) \in ToSet(script[r]) /\ Read(r) \in Seq(ToSet(script[r]))
         /\ Follows(Next1(r), Read(r))
         /\ Read(r)' = Append(Read(r), Next1(r))
         /\ seen' \in [Runs -> Nat] /\ seen'[r] <= Len(script[r])
         /\ \A q \in Runs : q # r => seen'[q] = seen[q]
<1> DEFINE s == script[r]
           n == seen[r]
           S == ToSet(s)
           e == Next1(r)
<1>1. /\ InProtocol(s) /\ s \in Seq(S) /\ Len(s) \in Nat /\ DOMAIN s = 1..Len(s)
      /\ n \in Nat /\ n < Len(s)
      /\ Read(r) \in Seq(S) /\ Len(Read(r)) = n /\ DOMAIN Read(r) = 1..n
      /\ \A i \in 1..n : Read(r)[i] = s[i]
  BY ReadIs DEF Reading
<1>3. seen' \in [Runs -> Nat] /\ seen'[r] = n + 1 /\ \A q \in Runs : q # r => seen'[q] = seen[q]
  BY <1>1 DEF PageTypes
<1>6. e = s[n + 1]
  BY DEF Next1
<1> HIDE DEF s, n, S, e
<1>2. n + 1 \in DOMAIN s /\ e = s[n + 1] /\ e \in S
  <2>1. n + 1 \in DOMAIN s
    BY <1>1
  <2> QED BY <1>6, <2>1 DEF ToSet, S
<1>4. Follows(e, Read(r))
  <2>1. ASSUME HasKind(Read(r), "finished") PROVE FALSE
    <3>1. PICK i \in 1..n : Read(r)[i].kind = "finished"
      BY <1>1, <2>1 DEF HasKind
    <3>2. i \in DOMAIN s /\ s[i].kind = "finished" /\ i < n + 1
      BY <1>1, <3>1
    <3>3. n + 1 <= i
      BY <1>1, <1>2, <3>2 DEF InProtocol
    <3> QED BY <1>1, <3>2, <3>3
  <2>2. ASSUME HasKind(Read(r), "answer") PROVE e.kind \notin {"token", "citation", "answer"}
    <3>1. PICK i \in 1..n : Read(r)[i].kind = "answer"
      BY <1>1, <2>2 DEF HasKind
    <3>2. i \in DOMAIN s /\ s[i].kind = "answer" /\ i < n + 1
      BY <1>1, <3>1
    <3> QED BY <1>1, <1>2, <3>2 DEF InProtocol
  <2> QED BY <2>1, <2>2 DEF Follows
<1>5. Read(r)' = Append(Read(r), e)
  <2>1. Read(r)' = SubSeq(s, 1, n + 1)
    BY <1>3 DEF Read, s
  <2>2. Read(r) = SubSeq(s, 1, n)
    BY DEF Read, s, n
  <2>3. SubSeq(s, 1, n + 1) = Append(SubSeq(s, 1, n), s[n + 1])
    BY <1>1, <1>2
  <2> QED BY <1>2, <2>1, <2>2, <2>3
<1> QED BY <1>1, <1>2, <1>3, <1>4, <1>5 DEF s, n, S, e

-----------------------------------------------------------------------------
(***************************************************************************)
(* The messages on screen.                                                 *)
(***************************************************************************)

Turns(list) == list \in Seq(ToSet(list)) /\ \A i \in DOMAIN list : Turn(list[i])

\* The messages are the same, but for what the last one shows.
LastChanged(p, list) ==
    /\ Turns(p) /\ Len(p) = Len(list)
    /\ list = <<>> <=> p = <<>>
    /\ \A i \in DOMAIN list : p[i].run = list[i].run /\ (i # Len(list) => p[i] = list[i])

\* The last message shows this, and was written to by these.
TopIs(p, view, heard) == p[Len(p)].view = view /\ p[Len(p)].heard = heard

\* A list of messages, and its last one.
LEMMA TurnsIs ==
  ASSUME NEW list, Turns(list)
  PROVE  /\ Len(list) \in Nat /\ DOMAIN list = 1..Len(list)
         /\ list # <<>> => Len(list) \in DOMAIN list /\ Turn(list[Len(list)])
BY DEF Turns

\* Changing the last message twice changes the last message.
LEMMA LastChangedTwice ==
  ASSUME NEW list, Turns(list), NEW p, LastChanged(p, list), NEW q, LastChanged(q, p)
  PROVE  LastChanged(q, list)
<1>1. DOMAIN p = DOMAIN list
  <2>1. Turns(p) /\ Len(p) = Len(list)
    BY DEF LastChanged
  <2> QED BY <2>1, TurnsIs
<1> QED BY <1>1 DEF LastChanged

\* patchLastMessage changes the last message only.
LEMMA Patched ==
  ASSUME NEW list, Turns(list), NEW by \in SUBSET Runs, NEW view, IsView(view)
  PROVE  LET p == PatchLast(list, by, view)
         IN  /\ LastChanged(p, list)
             /\ list # <<>> => TopIs(p, view, list[Len(list)].heard \cup by)
<1> DEFINE p == PatchLast(list, by, view)
           n == Len(list)
<1>1. n \in Nat /\ DOMAIN list = 1..n /\ \A i \in 1..n : Turn(list[i])
  BY TurnsIs DEF Turns
<1>2. CASE list = <<>>
  <2>1. p = list
    BY <1>2 DEF PatchLast
  <2> HIDE DEF p
  <2> QED BY <1>2, <2>1 DEF LastChanged, p
<1>3. CASE list # <<>>
  <2>1. n \in 1..n
    BY <1>1, <1>3 DEF Turns
  <2> DEFINE m == [list[n] EXCEPT !.view = view, !.heard = @ \cup by]
             U == ToSet(list) \cup {m}
  <2>2. Turn(m) /\ m.run = list[n].run /\ m.view = view /\ m.heard = list[n].heard \cup by
    <3> DEFINE l == list[n]
    <3>1. Turn(l)
      BY <1>1, <2>1
    <3>2. m = [l EXCEPT !.view = view, !.heard = @ \cup by]
      OBVIOUS
    <3> HIDE DEF l, m
    <3>3. m = [run |-> l.run, view |-> view, heard |-> l.heard \cup by]
      BY <3>1, <3>2 DEF Turn
    <3>4. Turn(m) /\ m.run = l.run /\ m.view = view /\ m.heard = l.heard \cup by
      BY <3>1, <3>3 DEF Turn
    <3> QED BY <3>4 DEF l
  <2>3. p = [list EXCEPT ![n] = m]
    <3>1. p = [list EXCEPT ![n].view = view, ![n].heard = @ \cup by]
      BY <1>3 DEF PatchLast
    <3>2. [list EXCEPT ![n].view = view, ![n].heard = @ \cup by] = [list EXCEPT ![n] = m]
      BY <1>1, <2>1 DEF Turn
    <3> QED BY <3>1, <3>2
  <2> HIDE DEF m
  <2>4. list \in Seq(U) /\ m \in U
    <3>1. list \in Seq(ToSet(list)) /\ ToSet(list) \subseteq U
      BY DEF Turns
    <3> QED BY <3>1, SeqMonotonic
  <2> HIDE DEF U
  <2>5. p \in Seq(U) /\ Len(p) = n /\ DOMAIN p = 1..n /\ p[n] = m
        /\ \A i \in 1..n : i # n => p[i] = list[i]
    BY <1>1, <2>1, <2>3, <2>4
  <2> HIDE DEF p
  <2>6. p \in Seq(ToSet(p))
    <3>1. p \in Seq(U)
      BY <2>5
    <3> QED BY <3>1 DEF ToSet
  <2>7. p # <<>>
    <3> HIDE DEF n
    <3>1. n # 0 /\ Len(p) = n
      BY <1>1, <2>1, <2>5
    <3> QED BY <3>1
  <2>8. \A i \in 1..n : Turn(p[i]) /\ p[i].run = list[i].run
    BY <1>1, <2>2, <2>5, Zenon
  <2>9. Turns(p)
    BY <2>5, <2>6, <2>8, Zenon DEF Turns
  <2>10. LastChanged(p, list)
    BY <1>1, <1>3, <2>5, <2>7, <2>8, <2>9, Zenon DEF LastChanged
  <2>11. TopIs(p, view, list[n].heard \cup by)
    BY <2>2, <2>5, Zenon DEF TopIs
  <2> QED BY <2>10, <2>11 DEF p
<1> QED BY <1>2, <1>3

\* What the last message shows.
LEMMA LastShows ==
  ASSUME NEW list, Turns(list)
  PROVE  /\ IsView(LastView(list))
         /\ list # <<>> => LastView(list) = list[Len(list)].view
<1>1. CASE list = <<>>
  BY <1>1 DEF LastView, IsView, EmptyView
<1>2. CASE list # <<>>
  <2>1. Len(list) \in DOMAIN list
    BY <1>2, TurnsIs DEF Turns
  <2> QED BY <1>2, <2>1 DEF LastView, Last, Turns, Turn
<1> QED BY <1>1, <1>2

\* The last message shows the fragments of r, and no other change.
TopFlushed(p, list, r) ==
    LET n == Len(list) IN
    /\ list[n].heard \subseteq p[n].heard
    /\ p[n].heard \subseteq list[n].heard \cup {r}
    /\ buffer[r] # <<>> => p[n].heard = list[n].heard \cup {r}
    /\ \A read : Shows(list[n].view, read, buffer[r]) => Shows(p[n].view, read, <<>>)
    /\ p[n].view.error = list[n].view.error

\* Putting the fragments of r on screen.
LEMMA FlushedIs ==
  ASSUME NEW list, Turns(list), NEW r \in Runs
  PROVE  /\ LastChanged(Flushed(list, r), list)
         /\ list # <<>> => TopFlushed(Flushed(list, r), list, r)
<1> DEFINE v == LastView(list)
           u == [v EXCEPT !.text = @ \o buffer[r]]
           p == Flushed(list, r)
           n == Len(list)
<1>1. IsView(v) /\ (list # <<>> => v = list[n].view)
  BY LastShows
<1>2. CASE buffer[r] = <<>>
  <2>1. p = list
    BY <1>2 DEF Flushed
  <2> HIDE DEF p
  <2> QED BY <1>2, <2>1 DEF LastChanged, TopFlushed, p
<1>3. CASE buffer[r] # <<>>
  <2>1. p = PatchLast(list, {r}, u)
    BY <1>3 DEF Flushed
  <2>2. IsView(u)
    <3> DEFINE t == v.text \o buffer[r]
               x == [v EXCEPT !.text = t]
    <3> HIDE DEF t, v
    <3>1. IsView(x)
      BY <1>1 DEF IsView
    <3> QED BY <3>1 DEF t
  <2>3. \A read : Shows(v, read, buffer[r]) => Shows(u, read, <<>>)
    BY <1>1, <1>3, FlushedShows
  <2>31. u.error = v.error
    <3> DEFINE t == v.text \o buffer[r]
               x == [v EXCEPT !.text = t]
    <3> HIDE DEF t, v
    <3>1. x.error = v.error
      BY <1>1 DEF IsView
    <3> QED BY <3>1 DEF t
  <2> HIDE DEF u, v, p
  <2>4. {r} \in SUBSET Runs
    OBVIOUS
  <2>5. LastChanged(p, list) /\ (list # <<>> => TopIs(p, u, list[n].heard \cup {r}))
    BY <2>1, <2>2, <2>4, Patched
  <2>6. Len(p) = n
    BY <2>5 DEF LastChanged
  <2>7. list # <<>> => TopFlushed(p, list, r)
    BY <1>1, <1>3, <2>3, <2>31, <2>5, <2>6 DEF TopIs, TopFlushed
  <2> QED BY <2>5, <2>7 DEF p
<1> QED BY <1>2, <1>3

-----------------------------------------------------------------------------
(***************************************************************************)
(* Each callback keeps the invariant.                                      *)
(***************************************************************************)

\* Types of the messages on screen.
LEMMA OnScreen == PageTypes => Turns(turns)
BY DEF PageTypes, Turns

\* A callback of r leaves the last message alone or has it hear r.  If r is live and
\* not stopped and the message is its own and was right, it then shows what was read.
TopIsRight(r) ==
    turns # <<>> =>
      LET n == Len(turns) IN
      /\ turns'[n] = turns[n] \/ turns'[n].heard = turns[n].heard \cup {r}
      /\ Live(r) /\ r \notin stopped' /\ turns[n].run = r /\ Faithful(turns[n])
           => /\ Shows(turns'[n].view, Read(r)', buffer'[r])
              /\ stream'[r] = "open" => turns'[n].view.error = "none"

\* A callback of a run that streams, which changes the last message only.
LEMMA HeardAndShown ==
  ASSUME PageInv, NEW r \in Runs, stream[r] = "open", LastChanged(turns', turns), TopIsRight(r),
         loose \subseteq loose', stopped \subseteq stopped', UNCHANGED script,
         \A q \in Runs : q # r => seen'[q] = seen[q] /\ buffer'[q] = buffer[q] /\ stream'[q] = stream[q]
  PROVE  Heard' /\ Shown'
<1> DEFINE n == Len(turns)
<1>1. n \in Nat /\ DOMAIN turns = 1..n /\ DOMAIN turns' = 1..n /\ (n \in 1..n => turns # <<>>)
  <2>1. Turns(turns)
    BY OnScreen DEF PageInv
  <2>2. n \in Nat /\ DOMAIN turns = 1..n
    BY <2>1, TurnsIs
  <2>3. Turns(turns') /\ Len(turns') = n
    BY DEF LastChanged
  <2>4. DOMAIN turns' = 1..n
    BY <2>3, TurnsIs
  <2> QED BY <2>2, <2>4
<1>2. \A i \in 1..n : turns'[i].run = turns[i].run /\ (i # n => turns'[i] = turns[i])
  BY <1>1, Zenon DEF LastChanged
<1>3. \A q \in Runs : Live(q) => turns # <<>> /\ \A i \in 1..n : turns[i].run = q <=> i = n
  BY <1>1, Zenon DEF PageInv, OneIsLive
<1>4. \A i \in 1..n : turns[i].heard \subseteq {turns[i].run} \cup loose /\ turns[i].run \in Runs
  BY <1>1 DEF PageInv, Heard, PageTypes, Turn
<1>5. turns # <<>> => /\ r \in loose \/ turns[n].run = r
                      /\ turns'[n] = turns[n] \/ turns'[n].heard = turns[n].heard \cup {r}
  <2>1. SUFFICES ASSUME turns # <<>> PROVE r \in loose \/ turns[n].run = r
    BY DEF TopIsRight
  <2>2. n \in 1..n
    BY <2>1, OnScreen, TurnsIs DEF PageInv
  <2> QED BY <1>3, <2>2 DEF Live
<1>6. turns # <<>> /\ Live(r) /\ r \notin stopped' /\ turns[n].run = r /\ Faithful(turns[n])
        => /\ Shows(turns'[n].view, Read(r)', buffer'[r])
           /\ stream'[r] = "open" => turns'[n].view.error = "none"
  BY DEF TopIsRight
<1> HIDE DEF n
<1>7. Heard'
  <2>1. ASSUME NEW i \in 1..n PROVE turns'[i].heard \subseteq {turns'[i].run} \cup loose'
    <3>1. CASE i # n
      BY <1>2, <1>4, <3>1
    <3>2. CASE i = n
      BY <1>1, <1>2, <1>4, <1>5, <3>2
    <3> QED BY <3>1, <3>2
  <2> QED BY <1>1, <2>1 DEF Heard
<1>8. Shown'
  <2>1. ASSUME NEW i \in 1..n, turns'[i].run \notin loose' \cup stopped',
               turns'[i].heard = {turns'[i].run} \/ (turns'[i].heard = {} /\ Live(turns[i].run)')
        PROVE  /\ Shows(turns'[i].view, Read(turns[i].run)', buffer'[turns'[i].run])
               /\ stream'[turns'[i].run] = "open" => turns'[i].view.error = "none"
    <3> DEFINE m == turns[i]
               q == m.run
    <3>1. q = turns'[i].run /\ q \in Runs /\ q \notin loose \cup stopped
      BY <1>2, <1>4, <2>1
    <3>2. Live(turns[i].run)' <=> stream'[q] = "open" /\ q \notin loose'
      BY <3>1 DEF Live
    <3>3. (stream'[q] = "open" /\ q \notin loose') /\ q # r => Live(q)
      BY <3>1 DEF Live
    <3>4. m.heard = {q} \/ (m.heard = {} /\ Live(q)) => Faithful(m)
      BY <1>1, <3>1 DEF PageInv, Shown
    <3>5. Read(turns[i].run)' = SubSeq(script[q], 1, seen'[q])
      BY <3>1 DEF Read
    <3>6. CASE q # r
      <4>1. turns'[i] = m
        BY <1>1, <1>2, <1>5, <2>1, <3>1, <3>6
      <4>2. Faithful(m)
        BY <2>1, <3>1, <3>2, <3>3, <3>4, <3>6, <4>1
      <4>3. seen'[q] = seen[q] /\ buffer'[q] = buffer[q] /\ stream'[q] = stream[q]
        BY <3>1, <3>6
      <4>4. /\ Shows(m.view, SubSeq(script[q], 1, seen[q]), buffer[q])
            /\ stream[q] = "open" => m.view.error = "none"
        BY <4>2 DEF Faithful, Read
      <4> QED BY <3>1, <3>5, <4>1, <4>3, <4>4
    <3>7. CASE q = r
      <4>1. Live(r)
        BY <3>1, <3>7 DEF Live
      <4>2. turns # <<>> /\ i = n
        BY <1>3, <3>7, <4>1
      <4>3. m.heard = {r} \/ m.heard = {}
        BY <1>5, <2>1, <3>1, <3>7, <4>2
      <4>4. Faithful(m)
        BY <3>4, <3>7, <4>1, <4>3
      <4>5. /\ Shows(turns'[n].view, Read(r)', buffer'[r])
            /\ stream'[r] = "open" => turns'[n].view.error = "none"
        BY <1>6, <2>1, <3>1, <3>7, <4>1, <4>2, <4>4
      <4>6. Read(r)' = SubSeq(script[r], 1, seen'[r])
        BY DEF Read
      <4> QED BY <3>1, <3>5, <3>7, <4>2, <4>5, <4>6
    <3> QED BY <3>6, <3>7
  <2>2. ASSUME NEW i \in 1..n, turns'[i].run \notin loose' \cup stopped',
               turns'[i].heard = {turns'[i].run} \/ (turns'[i].heard = {} /\ Live(turns[i].run)')
        PROVE  Faithful(turns[i])'
    BY <2>1, <2>2 DEF Faithful
  <2> QED BY <1>1, <2>2 DEF Shown
<1> QED BY <1>7, <1>8

\* While nobody starts or stops a run and the messages are of the same runs, the same
\* one is live.
LEMMA SameIsLive ==
  ASSUME PageInv, UNCHANGED <<running, stream, loose>>, LastChanged(turns', turns)
  PROVE  OneIsLive'
<1>1. \A q \in Runs : Live(q)' <=> Live(q)
  BY DEF Live
<1>2. DOMAIN turns = 1..Len(turns) /\ DOMAIN turns' = 1..Len(turns) /\ Len(turns') = Len(turns)
  <2>1. Turns(turns) /\ Turns(turns') /\ Len(turns') = Len(turns)
    BY OnScreen DEF PageInv, LastChanged
  <2> QED BY <2>1, TurnsIs
<1>3. /\ turns # <<>> => turns' # <<>>
      /\ \A i \in DOMAIN turns : turns'[i].run = turns[i].run
  BY DEF LastChanged
<1>4. OneIsLive
  BY DEF PageInv
<1>5. running' <=> \E r \in Runs : Live(r)'
  BY <1>1, <1>4 DEF OneIsLive
<1>6. \A q, r \in Runs : Live(q)' /\ Live(r)' => q = r
  BY <1>1, <1>4 DEF OneIsLive
<1>7. \A r \in Runs : Live(r)' =>
         /\ turns' # <<>>
         /\ \A i \in DOMAIN turns' : turns'[i].run = r <=> i = Len(turns')
  BY <1>1, <1>2, <1>3, <1>4 DEF OneIsLive
<1> QED BY <1>5, <1>6, <1>7 DEF OneIsLive

\* What the records and the cache depend on.
LEMMA OutcomesStay == Outcomes /\ UNCHANGED <<saved, stream, script>> => Outcomes'
BY DEF Outcomes, NotSaved, HasKind, Last

\* The cache is as good as it was while it and the streams stay.
LEMMA CachedStays == Cached /\ UNCHANGED <<cache, stream>> => Cached'
<1>1. SUFFICES ASSUME Cached, UNCHANGED <<cache, stream>> PROVE Cached'
  OBVIOUS
<1>2. \A c \in Runs :
        /\ cache'[c] \in Seq(ToSet(cache'[c]))
        /\ \A m \in ToSet(cache'[c]) : Turn(m) /\ m.heard = {} /\ stream'[m.run] # "none"
  BY <1>1 DEF Cached
<1> QED BY <1>2 DEF Cached, ToSet, Turn, IsView

\* What every callback of a run that streams does and does not do.
Callback(r) ==
    /\ stream[r] = "open"
    /\ LastChanged(turns', turns) /\ TopIsRight(r)
    /\ UNCHANGED <<script, asked, saved, cache>>
    /\ stream' \in {stream, [stream EXCEPT ![r] = "over"]}
    /\ seen' \in {seen, [seen EXCEPT ![r] = @ + 1]} /\ seen'[r] <= Len(script[r])
    /\ \E x \in Seq({"fragment"}) :
         buffer' = [buffer EXCEPT ![r] = x] /\ (stream'[r] = "over" => x = <<>>)
    /\ ctl' \in {ctl, Nowhere} /\ (ctl' = r => stream'[r] = "open")
    /\ conv' \in Runs \cup {Nowhere} /\ page' \in Runs \cup {Nowhere} /\ running' \in BOOLEAN
    /\ loose \subseteq loose' /\ loose' \subseteq loose \cup {q \in Runs : stream[q] = "open"}
    /\ stopped \subseteq stopped' /\ stopped' \subseteq Runs

\* One event of a run, shown by the callback of its stream (api.ts, useChat).
LEMMA CallbackKeeps ==
  ASSUME PageInv, NEW r \in Runs, Callback(r)
  PROVE  PageTypes' /\ Recorded' /\ Heard' /\ Shown'
<1>1. PageTypes /\ Recorded
  BY DEF PageInv
<1>2. /\ stream' \in [Runs -> {"none", "open", "over"}]
      /\ \A q \in Runs : q # r => stream'[q] = stream[q]
      /\ stream'[r] \in {"open", "over"}
  <2>1. stream \in [Runs -> {"none", "open", "over"}]
    BY <1>1 DEF PageTypes
  <2>2. stream[r] = "open" /\ (stream' = stream \/ stream' = [stream EXCEPT ![r] = "over"])
    BY DEF Callback
  <2> QED BY <2>1, <2>2
<1>3. /\ seen' \in [Runs -> Nat]
      /\ \A q \in Runs : q # r => seen'[q] = seen[q]
      /\ \A q \in Runs : seen'[q] <= Len(script[q])
  <2>1. seen \in [Runs -> Nat] /\ \A q \in Runs : seen[q] <= Len(script[q])
    BY <1>1 DEF PageTypes
  <2>2. (seen' = seen \/ seen' = [seen EXCEPT ![r] = @ + 1]) /\ seen'[r] <= Len(script[r])
    BY DEF Callback
  <2> QED BY <2>1, <2>2
<1>4. /\ buffer' \in [Runs -> Seq({"fragment"})]
      /\ \A q \in Runs : q # r => buffer'[q] = buffer[q]
      /\ stream'[r] = "over" => buffer'[r] = <<>>
  <2>1. PICK x \in Seq({"fragment"}) :
          buffer' = [buffer EXCEPT ![r] = x] /\ (stream'[r] = "over" => x = <<>>)
    BY DEF Callback
  <2> QED BY <1>1, <2>1 DEF PageTypes
<1>5. UNCHANGED <<script, asked, saved, cache>> /\ LastChanged(turns', turns) /\ stream[r] = "open"
  BY DEF Callback
<1>6. Turns(turns') /\ DOMAIN turns' = DOMAIN turns /\ \A i \in DOMAIN turns : turns'[i].run = turns[i].run
  <2>1. Turns(turns') /\ Len(turns') = Len(turns) /\ Turns(turns)
    BY <1>1, <1>5, OnScreen DEF LastChanged
  <2>2. DOMAIN turns' = DOMAIN turns
    BY <2>1, TurnsIs
  <2> QED BY <1>5, <2>1, <2>2 DEF LastChanged
<1>7. PageTypes'
  <2>1. turns' \in Seq(ToSet(turns')) /\ \A i \in DOMAIN turns' : Turn(turns'[i])
    BY <1>6 DEF Turns
  <2>2. /\ conv' \in Runs \cup {Nowhere} /\ page' \in Runs \cup {Nowhere}
        /\ ctl' \in Runs \cup {Nowhere} /\ running' \in BOOLEAN
        /\ loose' \subseteq Runs /\ stopped' \subseteq Runs
    BY <1>1 DEF Callback, PageTypes
  <2> QED BY <1>1, <1>2, <1>3, <1>4, <1>5, <2>1, <2>2 DEF PageTypes, Turn, IsView
<1>8. Recorded'
  <2>1. \A q \in Runs : stream'[q] # "none" => \E a \in ToSet(asked') : a.run = q
    BY <1>1, <1>2, <1>5 DEF Recorded
  <2>2. Outcomes'
    <3>1. Outcomes
      BY <1>1 DEF Recorded
    <3> QED BY <1>2, <1>5, <3>1 DEF Outcomes, NotSaved, HasKind, Last
  <2>3. \A q \in Runs : stream'[q] = "none" => seen'[q] = 0 /\ q \notin loose'
    BY <1>1, <1>2, <1>3, <1>5 DEF Recorded, Callback
  <2>4. \A q \in Runs : buffer'[q] # <<>> => stream'[q] = "open"
    BY <1>1, <1>2, <1>4 DEF Recorded
  <2>5. ctl' # Nowhere => stream'[ctl'] = "open"
    BY <1>1, <1>2 DEF Recorded, Callback, PageTypes
  <2>6. \A i \in DOMAIN turns' : stream'[turns'[i].run] # "none"
    <3>1. \A i \in DOMAIN turns : turns[i].run \in Runs
      BY <1>1 DEF PageTypes, Turn
    <3> QED BY <1>1, <1>2, <1>6, <3>1 DEF Recorded
  <2>7. Cached'
    <3>1. \A m : Turn(m) /\ stream[m.run] # "none" => stream'[m.run] # "none"
      BY <1>2 DEF Turn
    <3>2. Cached
      BY <1>1 DEF Recorded
    <3>3. \A c \in Runs :
            /\ cache'[c] \in Seq(ToSet(cache'[c]))
            /\ \A m \in ToSet(cache'[c]) : Turn(m) /\ m.heard = {} /\ stream'[m.run] # "none"
      BY <1>5, <3>1, <3>2 DEF Cached
    <3> QED BY <3>3 DEF Cached, ToSet, Turn, IsView
  <2> QED BY <2>1, <2>2, <2>3, <2>4, <2>5, <2>6, <2>7 DEF Recorded, ToSet
<1>9. Heard' /\ Shown'
  BY <1>2, <1>3, <1>4, <1>5, HeardAndShown DEF Callback
<1> QED BY <1>7, <1>8, <1>9

\* Nothing changed is at most the last message changed.
LEMMA Unchanged == ASSUME NEW list, Turns(list) PROVE LastChanged(list, list)
BY DEF LastChanged

\* The next event is read while the messages stay as they are.
LEMMA OnlyRead ==
  ASSUME PageInv, NEW r \in Runs, Reading(r), UNCHANGED <<turns, script>>,
         seen' = [seen EXCEPT ![r] = @ + 1],
         \/ Next1(r).kind = "started" /\ buffer' = buffer
         \/ Next1(r).kind = "token"
  PROVE  /\ LastChanged(turns', turns) /\ TopIsRight(r)
         /\ seen'[r] <= Len(script[r])
<1>1. PageTypes /\ Turns(turns)
  BY OnScreen DEF PageInv
<1> DEFINE n == Len(turns)
           e == Next1(r)
<1>2. /\ e \in ToSet(script[r]) /\ Read(r) \in Seq(ToSet(script[r]))
      /\ Follows(e, Read(r)) /\ Read(r)' = Append(Read(r), e)
      /\ seen'[r] <= Len(script[r])
  BY <1>1, NextFollows
<1>3. LastChanged(turns', turns)
  BY <1>1, Unchanged
<1>4. ASSUME turns # <<>>, turns[n].run = r, Faithful(turns[n])
      PROVE  Shows(turns[n].view, Read(r)', buffer'[r]) /\ turns[n].view.error = "none"
  <2> DEFINE v == turns[n].view
  <2>1. IsView(v)
    BY <1>1, <1>4, TurnsIs DEF Turn
  <2>2. Shows(v, Read(r), buffer[r]) /\ v.error = "none"
    BY <1>4 DEF Faithful, Reading
  <2>3. e.kind # "answer" /\ (buffer[r] = <<>> => buffer'[r] = <<>> \/ e.kind = "token")
        /\ e.kind \in {"token", "started"}
    OBVIOUS
  <2> HIDE DEF v, e
  <2>4. Shows(ApplyEvent(v, e), Append(Read(r), e), buffer'[r])
    BY <1>2, <2>1, <2>2, <2>3, AppliedShows
  <2>5. ApplyEvent(v, e) = v
    BY <2>3, Unapplied
  <2> QED BY <1>2, <2>2, <2>4, <2>5 DEF v
<1> QED BY <1>2, <1>3, <1>4 DEF TopIsRight

\* A token has arrived.
LEMMA ReceiveTokenKeeps ==
  ASSUME PageInv, NEW r \in Runs, ReceiveToken(r)
  PROVE  PageInv'
<1>1. PageTypes
  BY DEF PageInv
<1>2. /\ Reading(r) /\ Next1(r).kind = "token"
      /\ buffer' = [buffer EXCEPT ![r] = Append(@, "fragment")]
      /\ seen' = [seen EXCEPT ![r] = @ + 1]
      /\ UNCHANGED <<turns, conv, running, page, ctl, script, stream, asked, saved, cache, loose, stopped>>
  BY DEF ReceiveToken, screen, server
<1>3. LastChanged(turns', turns) /\ TopIsRight(r) /\ seen'[r] <= Len(script[r])
  BY <1>2, OnlyRead
<1>4. stream[r] = "open" /\ Append(buffer[r], "fragment") \in Seq({"fragment"})
  BY <1>1, <1>2 DEF Reading, PageTypes
<1>5. ctl \in {ctl, Nowhere} /\ (ctl = r => stream[r] = "open")
  BY <1>4
<1>6. Callback(r)
  BY <1>1, <1>2, <1>3, <1>4, <1>5 DEF Callback, PageTypes
<1>7. PageTypes' /\ Recorded' /\ Heard' /\ Shown'
  BY <1>6, CallbackKeeps
<1>8. OneIsLive'
  BY <1>2, <1>3, SameIsLive
<1> QED BY <1>7, <1>8 DEF PageInv

\* The members of a list.
LEMMA MembersOf == ASSUME NEW S, NEW s \in Seq(S) PROVE ToSet(s) \subseteq S
<1>1. \A i \in DOMAIN s : s[i] \in S
  OBVIOUS
<1> QED BY <1>1 DEF ToSet

\* The conversation that a run was sent in.
LEMMA AskedInIs ==
  ASSUME PageTypes, Recorded, NEW r \in Runs, stream[r] # "none"
  PROVE  AskedIn(r) \in Runs
<1>1. PICK sending \in ToSet(asked) : sending.run = r
  BY DEF Recorded
<1>2. (CHOOSE a \in ToSet(asked) : a.run = r) \in ToSet(asked)
  BY <1>1
<1>3. \A a \in ToSet(asked) : a.conv \in Runs
  <2>1. asked \in Seq([run : Runs, conv : Runs])
    BY DEF PageTypes
  <2>2. ToSet(asked) \subseteq [run : Runs, conv : Runs]
    BY <2>1, MembersOf
  <2> QED BY <2>2
<1> QED BY <1>2, <1>3 DEF AskedIn

\* A run has started.
LEMMA ReceiveStartedKeeps ==
  ASSUME PageInv, NEW r \in Runs, ReceiveStarted(r)
  PROVE  PageInv'
<1>1. PageTypes /\ Recorded
  BY DEF PageInv
<1>2. /\ Reading(r) /\ Next1(r).kind = "started"
      /\ buffer' = buffer
      /\ seen' = [seen EXCEPT ![r] = @ + 1]
      /\ conv' = AskedIn(r)
      /\ (page' = AskedIn(r) /\ ctl' = Nowhere) \/ (page' = page /\ ctl' = ctl)
      /\ UNCHANGED <<turns, running, script, stream, asked, saved, cache, loose, stopped>>
  BY DEF ReceiveStarted, server
<1>3. LastChanged(turns', turns) /\ TopIsRight(r) /\ seen'[r] <= Len(script[r])
  BY <1>2, OnlyRead
<1>4. stream[r] = "open"
  BY <1>2 DEF Reading
<1>5. AskedIn(r) \in Runs
  BY <1>1, <1>4, AskedInIs
<1>6. /\ ctl' \in {ctl, Nowhere} /\ (ctl' = r => stream'[r] = "open")
      /\ conv' \in Runs \cup {Nowhere} /\ page' \in Runs \cup {Nowhere}
  BY <1>1, <1>2, <1>4, <1>5 DEF PageTypes
<1>7. buffer[r] \in Seq({"fragment"}) /\ buffer' = [buffer EXCEPT ![r] = buffer[r]]
  BY <1>1, <1>2 DEF PageTypes
<1>8. Callback(r)
  BY <1>1, <1>2, <1>3, <1>4, <1>6, <1>7 DEF Callback, PageTypes
<1>9. PageTypes' /\ Recorded' /\ Heard' /\ Shown'
  BY <1>8, CallbackKeeps
<1>10. OneIsLive'
  BY <1>2, <1>3, SameIsLive
<1> QED BY <1>9, <1>10 DEF PageInv

\* The animation frame.
LEMMA FlushKeeps ==
  ASSUME PageInv, NEW r \in Runs, Flush(r)
  PROVE  PageInv'
<1>1. PageTypes /\ Recorded /\ Turns(turns)
  BY OnScreen DEF PageInv
<1>2. /\ buffer[r] # <<>> /\ turns' = Flushed(turns, r)
      /\ buffer' = [buffer EXCEPT ![r] = <<>>]
      /\ UNCHANGED <<conv, running, page, ctl, script, stream, seen, asked, saved, cache, loose, stopped>>
  BY DEF Flush, server
<1>3. stream[r] = "open"
  BY <1>1, <1>2 DEF Recorded
<1>4. LastChanged(turns', turns) /\ (turns # <<>> => TopFlushed(turns', turns, r))
  BY <1>1, <1>2, FlushedIs
<1>5. TopIsRight(r)
  <2> DEFINE n == Len(turns)
  <2>1. ASSUME turns # <<>> PROVE turns'[n].heard = turns[n].heard \cup {r}
    BY <1>2, <1>4, <2>1 DEF TopFlushed
  <2>2. ASSUME turns # <<>>, turns[n].run = r, Faithful(turns[n])
        PROVE  Shows(turns'[n].view, Read(r)', buffer'[r]) /\ turns'[n].view.error = "none"
    <3>1. Shows(turns[n].view, Read(r), buffer[r]) /\ turns[n].view.error = "none"
      BY <1>3, <2>2 DEF Faithful
    <3>2. Shows(turns'[n].view, Read(r), <<>>) /\ turns'[n].view.error = "none"
      BY <1>4, <2>2, <3>1 DEF TopFlushed
    <3>3. Read(r)' = Read(r) /\ buffer'[r] = <<>>
      BY <1>1, <1>2 DEF Read, PageTypes
    <3> QED BY <3>2, <3>3
  <2> QED BY <2>1, <2>2 DEF TopIsRight
<1>6. <<>> \in Seq({"fragment"})
  OBVIOUS
<1>7. seen'[r] <= Len(script[r]) /\ (ctl' = r => stream'[r] = "open")
  BY <1>1, <1>2, <1>3 DEF PageTypes
<1>8. Callback(r)
  BY <1>1, <1>2, <1>3, <1>4, <1>5, <1>6, <1>7 DEF Callback, PageTypes
<1>9. PageTypes' /\ Recorded' /\ Heard' /\ Shown'
  BY <1>8, CallbackKeeps
<1>10. OneIsLive'
  BY <1>2, <1>4, SameIsLive
<1> QED BY <1>9, <1>10 DEF PageInv

\* Any other event.  An answer, and how the run finished, take the fragments with them.
LEMMA ReceiveKeeps ==
  ASSUME PageInv, NEW r \in Runs, Receive(r)
  PROVE  PageInv'
<1> DEFINE e == Next1(r)
           flushing == e.kind \in {"answer", "finished"}
           list == IF flushing THEN Flushed(turns, r) ELSE turns
           v == LastView(list)
           u == ApplyEvent(v, e)
           w == IF flushing THEN <<>> ELSE buffer[r]
           n == Len(turns)
<1>1. PageTypes /\ Recorded /\ Turns(turns)
  BY OnScreen DEF PageInv
<1>2. /\ Reading(r) /\ e.kind \notin {"token", "started"}
      /\ turns' = PatchLast(list, {r}, u)
      /\ buffer' = IF flushing THEN [buffer EXCEPT ![r] = <<>>] ELSE buffer
      /\ seen' = [seen EXCEPT ![r] = @ + 1]
      /\ UNCHANGED <<conv, running, page, ctl, script, stream, asked, saved, cache, loose, stopped>>
  BY DEF Receive, server
<1>3. stream[r] = "open" /\ buffer[r] \in Seq({"fragment"})
  BY <1>1, <1>2 DEF Reading, PageTypes
<1>4. /\ e \in ToSet(script[r]) /\ Read(r) \in Seq(ToSet(script[r]))
      /\ Follows(e, Read(r)) /\ Read(r)' = Append(Read(r), e)
      /\ seen'[r] <= Len(script[r])
  BY <1>1, <1>2, NextFollows
<1>5. /\ LastChanged(list, turns)
      /\ turns # <<>> => /\ turns[n].heard \subseteq list[n].heard
                         /\ list[n].heard \subseteq turns[n].heard \cup {r}
                         /\ \A read : Shows(turns[n].view, read, buffer[r]) => Shows(list[n].view, read, w)
                         /\ list[n].view.error = turns[n].view.error
  BY <1>1, FlushedIs, Unchanged DEF TopFlushed
<1>6. buffer'[r] = w /\ buffer' = [buffer EXCEPT ![r] = w] /\ w \in Seq({"fragment"})
  <2>1. buffer \in [Runs -> Seq({"fragment"})] /\ <<>> \in Seq({"fragment"})
    BY <1>1 DEF PageTypes
  <2>2. flushing => buffer' = [buffer EXCEPT ![r] = <<>>] /\ w = <<>>
    BY <1>2
  <2>3. ~flushing => buffer' = buffer /\ w = buffer[r]
    BY <1>2
  <2> HIDE DEF flushing, w
  <2> QED BY <1>3, <2>1, <2>2, <2>3
<1>7. e.kind = "answer" => w = <<>>
  OBVIOUS
<1>71. buffer[r] = <<>> => w = <<>>
  OBVIOUS
<1> HIDE DEF list, w, flushing
<1>8. Turns(list) /\ Len(list) = n /\ (turns # <<>> => list # <<>>)
  BY <1>5 DEF LastChanged
<1>9. IsView(v) /\ (turns # <<>> => v = list[n].view)
  BY <1>8, LastShows
<1> HIDE DEF v, e
<1>10. IsView(u)
  BY <1>9, Applied
<1>11. {r} \in SUBSET Runs
  OBVIOUS
<1>12. LastChanged(turns', list) /\ (list # <<>> => TopIs(turns', u, list[Len(list)].heard \cup {r}))
  <2> HIDE DEF u
  <2> QED BY <1>2, <1>8, <1>10, <1>11, Patched
<1>13. LastChanged(turns', turns)
  BY <1>1, <1>5, <1>12, LastChangedTwice
<1>14. Len(turns') = n
  BY <1>13 DEF LastChanged
<1>15. ASSUME turns # <<>> PROVE turns'[n].view = u /\ turns'[n].heard = turns[n].heard \cup {r}
  BY <1>5, <1>8, <1>12, <1>14, <1>15 DEF TopIs
<1>16. ASSUME turns # <<>>, Faithful(turns[n]), turns[n].run = r
       PROVE  Shows(u, Read(r)', buffer'[r]) /\ u.error = "none"
  <2>1. Shows(turns[n].view, Read(r), buffer[r]) /\ turns[n].view.error = "none"
    BY <1>3, <1>16 DEF Faithful
  <2>2. Shows(v, Read(r), w) /\ v.error = "none"
    BY <1>5, <1>9, <1>16, <2>1
  <2>3. w = <<>> => w = <<>> \/ e.kind = "token"
    OBVIOUS
  <2>4. Shows(u, Append(Read(r), e), w) /\ u.error = "none"
    BY <1>4, <1>7, <1>9, <2>2, <2>3, AppliedShows
  <2> QED BY <1>4, <1>6, <2>4
<1>17. TopIsRight(r)
  BY <1>15, <1>16 DEF TopIsRight
<1>18. Callback(r)
  BY <1>1, <1>2, <1>3, <1>4, <1>6, <1>13, <1>17 DEF Callback, PageTypes
<1>19. PageTypes' /\ Recorded' /\ Heard' /\ Shown'
  BY <1>18, CallbackKeeps
<1>20. OneIsLive'
  BY <1>2, <1>13, SameIsLive
<1> QED BY <1>19, <1>20 DEF PageInv

\* The last message was left alone, or patched by r, and if it is r's own and r goes on
\* living it still shows what was read.
TopWasRight(list, r) ==
    turns # <<>> =>
      LET n == Len(turns) IN
      /\ turns[n].heard \subseteq list[n].heard /\ list[n].heard \subseteq turns[n].heard \cup {r}
      /\ Live(r) /\ r \notin stopped' /\ turns[n].run = r /\ Faithful(turns[n])
           => Shows(list[n].view, Read(r), buffer[r])

\* The request of r is over, and nothing is live any more.
LEMMA UnwindKeeps ==
  ASSUME PageInv, NEW r \in Runs, stream[r] = "open", NEW list, Unwind(r, list),
         LastChanged(list, turns), TopWasRight(list, r),
         stopped \subseteq stopped', stopped' \subseteq Runs
  PROVE  PageInv'
<1> DEFINE flushed == Flushed(list, r)
           view == LastView(flushed)
           u == Ended(view, r)
           n == Len(turns)
<1>1. PageTypes /\ Recorded /\ Turns(turns)
  BY OnScreen DEF PageInv
<1>2. /\ turns' = PatchLast(flushed, {r}, u)
      /\ buffer' = [buffer EXCEPT ![r] = <<>>]
      /\ stream' = [stream EXCEPT ![r] = "over"]
      /\ running' = FALSE
      /\ ctl' \in {ctl, Nowhere} /\ ctl' # r
      /\ loose' = loose \cup {q \in Runs \ {r} : stream[q] = "open"}
      /\ UNCHANGED <<conv, page, script, seen, asked, saved, cache>>
  <2>1. r # Nowhere
    BY ScriptsAssumption
  <2> QED BY <2>1 DEF Unwind, server
<1>3. Turns(list) /\ Len(list) = n /\ (turns # <<>> => list # <<>>)
  BY DEF LastChanged
<1>4. LastChanged(flushed, list) /\ (list # <<>> => TopFlushed(flushed, list, r))
  BY <1>3, FlushedIs
<1> HIDE DEF flushed
<1>5. Turns(flushed) /\ Len(flushed) = n /\ (turns # <<>> => flushed # <<>>)
  BY <1>3, <1>4 DEF LastChanged
<1>6. IsView(view) /\ (turns # <<>> => view = flushed[n].view)
  BY <1>5, LastShows
<1> HIDE DEF view
<1>7. IsView(u)
  <2>1. IsView(WentWrong(view, "interrupted", "cut"))
    BY <1>6, Marked
  <2>2. IsView([view EXCEPT !.status = "done"])
    BY <1>6 DEF IsView
  <2> QED BY <1>6, <2>1, <2>2 DEF Ended
<1>8. {r} \in SUBSET Runs
  OBVIOUS
<1>9. LastChanged(turns', flushed)
      /\ (flushed # <<>> => TopIs(turns', u, flushed[Len(flushed)].heard \cup {r}))
  <2> HIDE DEF u
  <2> QED BY <1>2, <1>5, <1>7, <1>8, Patched
<1>10. LastChanged(turns', turns)
  <2>1. LastChanged(flushed, turns)
    BY <1>1, <1>4, LastChangedTwice
  <2> QED BY <1>1, <1>9, <2>1, LastChangedTwice
<1>11. Len(turns') = n
  BY <1>10 DEF LastChanged
<1>12. ASSUME turns # <<>> PROVE turns'[n].view = u /\ turns'[n].heard = turns[n].heard \cup {r}
  <2>1. turns'[n].view = u /\ turns'[n].heard = flushed[n].heard \cup {r}
    BY <1>5, <1>9, <1>11, <1>12 DEF TopIs
  <2>2. list[n].heard \subseteq flushed[n].heard /\ flushed[n].heard \subseteq list[n].heard \cup {r}
    BY <1>3, <1>4, <1>12 DEF TopFlushed
  <2>3. turns[n].heard \subseteq list[n].heard /\ list[n].heard \subseteq turns[n].heard \cup {r}
    BY <1>12 DEF TopWasRight
  <2> QED BY <2>1, <2>2, <2>3
<1>13. ASSUME turns # <<>>, Live(r), r \notin stopped', turns[n].run = r, Faithful(turns[n])
       PROVE  Shows(u, Read(r)', buffer'[r])
  <2>1. Shows(list[n].view, Read(r), buffer[r])
    BY <1>13 DEF TopWasRight
  <2>2. Shows(view, Read(r), <<>>)
    BY <1>3, <1>4, <1>6, <1>13, <2>1 DEF TopFlushed
  <2>3. Shows(u, Read(r), <<>>)
    <3>1. CASE view.status # "streaming"
      BY <2>2, <3>1 DEF Ended
    <3>2. CASE view.status = "streaming"
      <4>1. ~HasKind(Read(r), "finished")
        BY <2>2, <3>2 DEF Shows, HasKind, EndShown
      <4>2. Shows(WentWrong(view, "interrupted", "cut"), Read(r), <<>>)
        BY <1>6, <2>2, <4>1, StatusShows
      <4> QED BY <3>2, <4>1, <4>2 DEF Ended
    <3> QED BY <3>1, <3>2
  <2>4. Read(r)' = Read(r) /\ buffer'[r] = <<>>
    BY <1>1, <1>2 DEF Read, PageTypes
  <2> QED BY <2>3, <2>4
<1>14. TopIsRight(r)
  <2>1. stream'[r] # "open"
    BY <1>1, <1>2 DEF PageTypes
  <2> QED BY <1>12, <1>13, <2>1 DEF TopIsRight
<1>15. <<>> \in Seq({"fragment"}) /\ seen'[r] <= Len(script[r])
  BY <1>1, <1>2 DEF PageTypes
<1>16. loose \subseteq loose' /\ loose' \subseteq loose \cup {q \in Runs : stream[q] = "open"}
  BY <1>2
<1>17. Callback(r)
  BY <1>1, <1>2, <1>10, <1>14, <1>15, <1>16 DEF Callback, PageTypes
<1>18. PageTypes' /\ Recorded' /\ Heard' /\ Shown'
  BY <1>17, CallbackKeeps
<1>19. \A q \in Runs : ~Live(q)'
  BY <1>1, <1>2 DEF Live, PageTypes
<1>20. OneIsLive'
  BY <1>2, <1>19 DEF OneIsLive
<1> QED BY <1>18, <1>20 DEF PageInv

\* The end of the response.
LEMMA StreamFinishesKeeps ==
  ASSUME PageInv, NEW r \in Runs, StreamFinishes(r)
  PROVE  PageInv'
<1>1. stream[r] = "open" /\ Unwind(r, turns) /\ stopped' = stopped
  BY DEF StreamFinishes
<1>2. LastChanged(turns, turns) /\ stopped \subseteq Runs
  BY OnScreen, Unchanged DEF PageInv, PageTypes
<1>3. TopWasRight(turns, r)
  BY DEF TopWasRight, Faithful
<1> QED BY <1>1, <1>2, <1>3, UnwindKeeps

\* A connection that fails makes the message an error, whatever the run had said.
LEMMA ConnectionLostKeeps ==
  ASSUME PageInv, NEW r \in Runs, ConnectionLost(r)
  PROVE  PageInv'
<1> DEFINE n == Len(turns)
           v == LastView(turns)
           u == WentWrong(v, "error", "failed")
           list == PatchLast(turns, {r}, u)
<1>1. /\ stream[r] = "open" /\ stopped' = stopped
      /\ Unwind(r, turns) \/ Unwind(r, list)
  BY DEF ConnectionLost
<1>2. PageTypes /\ Turns(turns) /\ LastChanged(turns, turns) /\ stopped \subseteq Runs
  BY OnScreen, Unchanged DEF PageInv, PageTypes
<1>3. CASE Unwind(r, turns)
  <2>1. TopWasRight(turns, r)
    BY DEF TopWasRight, Faithful
  <2> QED BY <1>1, <1>2, <1>3, <2>1, UnwindKeeps
<1>4. CASE Unwind(r, list)
  <2>1. IsView(v) /\ (turns # <<>> => v = turns[n].view)
    BY <1>2, LastShows
  <2> HIDE DEF v
  <2>2. IsView(u)
    BY <2>1, Marked
  <2>3. LastChanged(list, turns) /\ (turns # <<>> => TopIs(list, u, turns[n].heard \cup {r}))
    <3> HIDE DEF u
    <3>1. {r} \in SUBSET Runs
      OBVIOUS
    <3> QED BY <1>2, <2>2, <3>1, Patched
  <2>5. ASSUME turns # <<>>, Faithful(turns[n]), turns[n].run = r
        PROVE  Shows(u, Read(r), buffer[r])
    <3>1. Shows(v, Read(r), buffer[r])
      BY <2>1, <2>5 DEF Faithful
    <3> QED BY <2>1, <3>1, StatusShows
  <2> HIDE DEF list, u
  <2>6. Len(list) = n
    BY <2>3 DEF LastChanged
  <2>7. TopWasRight(list, r)
    BY <2>3, <2>5, <2>6 DEF TopWasRight, TopIs
  <2> QED BY <1>1, <1>2, <1>4, <2>3, <2>7, UnwindKeeps
<1> QED BY <1>1, <1>3, <1>4

\* The stop button.
LEMMA StopKeeps ==
  ASSUME PageInv, Stop
  PROVE  PageInv'
<1> DEFINE n == Len(turns)
           v == LastView(turns)
           u == [v EXCEPT !.status = "cancelled"]
           list == PatchLast(turns, {}, u)
           of == {r \in Runs : stream[r] = "open"} \ loose
<1>1. /\ running /\ stopped' = stopped \cup of
      /\ IF ctl # Nowhere THEN Unwind(ctl, list)
         ELSE /\ turns' = list /\ running' = FALSE
              /\ loose' = loose \cup of
              /\ UNCHANGED <<conv, page, ctl, script, stream, seen, buffer, asked, saved, cache>>
  BY DEF Stop, streams, server
<1>2. PageTypes /\ Recorded /\ Turns(turns)
  BY OnScreen DEF PageInv
<1>3. IsView(v) /\ (turns # <<>> => v = turns[n].view)
  BY <1>2, LastShows
<1> HIDE DEF v
<1>4. IsView(u)
  BY <1>3 DEF IsView
<1>5. LastChanged(list, turns) /\ (turns # <<>> => TopIs(list, u, turns[n].heard \cup {}))
  <2> HIDE DEF u
  <2>1. {} \in SUBSET Runs
    OBVIOUS
  <2> QED BY <1>2, <1>4, <2>1, Patched
<1> HIDE DEF list, u
<1>6. Turns(list) /\ Len(list) = n
  BY <1>5 DEF LastChanged
<1>7. \A q \in Runs : q \in of <=> Live(q)
  BY DEF Live
<1>8. stopped \subseteq stopped' /\ stopped' \subseteq Runs
  BY <1>1, <1>2 DEF PageTypes
<1> HIDE DEF of
<1>9. CASE ctl # Nowhere
  <2>1. ctl \in Runs /\ stream[ctl] = "open"
    BY <1>2, <1>9 DEF PageTypes, Recorded
  <2>2. TopWasRight(list, ctl)
    BY <1>1, <1>5, <1>6, <1>7, <2>1 DEF TopWasRight, TopIs
  <2> QED BY <1>1, <1>5, <1>8, <1>9, <2>1, <2>2, UnwindKeeps
<1>10. CASE ctl = Nowhere
  <2>1. /\ turns' = list /\ running' = FALSE /\ loose' = loose \cup of
        /\ UNCHANGED <<conv, page, ctl, script, stream, seen, buffer, asked, saved, cache>>
    BY <1>1, <1>10
  <2>2. DOMAIN turns = 1..n /\ DOMAIN turns' = 1..n /\ n \in Nat /\ Len(turns') = n
        /\ Turns(turns') /\ (turns # <<>> => turns' # <<>>)
    BY <1>2, <1>5, <1>6, <2>1, TurnsIs DEF LastChanged
  <2>3. \A i \in 1..n : turns'[i].run = turns[i].run /\ turns'[i].heard = turns[i].heard
                        /\ turns[i].run \in Runs /\ (i # n => turns'[i] = turns[i])
    <3>1. \A i \in 1..n : turns'[i].run = turns[i].run /\ (i # n => turns'[i] = turns[i])
      BY <1>5, <2>1, <2>2, Zenon DEF LastChanged
    <3>2. n \in 1..n => turns'[n].heard = turns[n].heard
      <4>1. n \in 1..n => turns # <<>>
        BY <2>2
      <4> QED BY <1>5, <1>6, <2>1, <4>1 DEF TopIs
    <3>3. \A i \in 1..n : turns[i].run \in Runs
      BY <1>2, <2>2 DEF PageTypes, Turn
    <3> QED BY <3>1, <3>2, <3>3
  <2>4. PageTypes'
    <3>1. turns' \in Seq(ToSet(turns')) /\ \A i \in DOMAIN turns' : Turn(turns'[i])
      BY <2>2 DEF Turns
    <3>2. loose' \subseteq Runs
      BY <1>2, <1>7, <2>1 DEF PageTypes, of
    <3> QED BY <1>2, <1>8, <2>1, <3>1, <3>2 DEF PageTypes, Turn, IsView
  <2>5. Recorded'
    <3>1. \A i \in DOMAIN turns' : stream'[turns'[i].run] # "none"
      <4>1. \A i \in 1..n : stream[turns[i].run] # "none"
        BY <1>2, <2>2 DEF Recorded
      <4> QED BY <2>1, <2>2, <2>3, <4>1
    <3>2. \A r \in Runs : stream'[r] = "none" => seen'[r] = 0 /\ r \notin loose'
      BY <1>2, <1>7, <2>1 DEF Recorded, Live
    <3>3. Outcomes' /\ Cached'
      BY <1>2, <2>1, OutcomesStay, CachedStays DEF Recorded
    <3> QED BY <1>2, <2>1, <3>1, <3>2, <3>3 DEF Recorded, ToSet
  <2>6. \A q \in Runs : ~Live(q)'
    BY <1>7, <2>1 DEF Live
  <2>7. OneIsLive'
    BY <2>1, <2>6 DEF OneIsLive
  <2>8. Heard'
    <3>1. \A i \in 1..n : turns[i].heard \subseteq {turns[i].run} \cup loose
      BY <2>2 DEF PageInv, Heard
    <3>2. \A i \in 1..n : turns'[i].heard \subseteq {turns'[i].run} \cup loose'
      BY <2>1, <2>3, <3>1
    <3> QED BY <2>2, <3>2 DEF Heard
  <2>9. PICK q \in Runs : Live(q)
    BY <1>1 DEF PageInv, OneIsLive
  <2>10. \A i \in 1..n : turns[i].run = q <=> i = n
    BY <2>2, <2>9, Zenon DEF PageInv, OneIsLive
  <2>11. Shown'
    <3>1. ASSUME NEW i \in 1..n, turns'[i].run \notin loose' \cup stopped',
                 turns'[i].heard = {turns'[i].run} \/ (turns'[i].heard = {} /\ Live(turns[i].run)')
          PROVE  Faithful(turns[i])'
      <4>1. i # n
        BY <1>1, <1>7, <2>3, <2>9, <2>10, <3>1
      <4>2. turns'[i] = turns[i] /\ turns[i].run \in Runs
        BY <2>3, <4>1
      <4>3. ~Live(turns[i].run)'
        BY <2>1, <2>6, <4>2 DEF Live
      <4>4. Faithful(turns[i])
        BY <1>8, <2>1, <2>2, <3>1, <4>2, <4>3 DEF PageInv, Shown
      <4>5. Faithful(turns[i])' <=> Faithful(turns[i])
        BY <2>1, <4>2 DEF Faithful, Read
      <4> QED BY <4>4, <4>5
    <3> QED BY <2>2, <3>1 DEF Shown
  <2> QED BY <2>4, <2>5, <2>7, <2>8, <2>11 DEF PageInv
<1> QED BY <1>9, <1>10

\* What is not done by a run that streams, and leaves the messages alone.
LEMMA QuietKeeps ==
  ASSUME PageInv, UNCHANGED <<turns, running, script, stream, seen, buffer, asked, loose, stopped>>,
         ctl' \in {ctl, Nowhere}, conv' \in Runs \cup {Nowhere}, page' \in Runs \cup {Nowhere},
         DOMAIN saved' = Runs, DOMAIN cache' = Runs, Outcomes', Cached'
  PROVE  PageInv'
<1>1. PageTypes /\ Recorded /\ Turns(turns) /\ LastChanged(turns', turns)
  BY OnScreen, Unchanged DEF PageInv
<1>2. PageTypes'
  BY <1>1 DEF PageTypes, Turn, IsView, ToSet
<1>3. Recorded'
  BY <1>1 DEF Recorded, ToSet
<1>4. OneIsLive'
  BY <1>1, SameIsLive
<1>5. Heard'
  BY DEF PageInv, Heard
<1>6. Shown'
  <2>1. ASSUME NEW i \in DOMAIN turns, turns'[i].run \notin loose' \cup stopped',
               turns'[i].heard = {turns'[i].run} \/ (turns'[i].heard = {} /\ Live(turns[i].run)')
        PROVE  Faithful(turns[i])'
    <3>1. Live(turns[i].run)' <=> Live(turns[i].run)
      BY DEF Live
    <3>2. Faithful(turns[i])
      BY <2>1, <3>1 DEF PageInv, Shown
    <3>3. Faithful(turns[i])' <=> Faithful(turns[i])
      BY DEF Faithful, Read
    <3> QED BY <3>2, <3>3
  <2> QED BY <2>1 DEF Shown
<1> QED BY <1>2, <1>3, <1>4, <1>5, <1>6 DEF PageInv

\* The run has been recorded by the server.
LEMMA SaveRunKeeps ==
  ASSUME PageInv, NEW r \in Runs, SaveRun(r)
  PROVE  PageInv'
<1>1. PageTypes /\ Recorded
  BY DEF PageInv
<1>2. PICK n \in seen[r]..Len(script[r]) :
        saved' = [saved EXCEPT ![r] = [events |-> n, status |->
            IF n < Len(script[r]) THEN "cancelled"
            ELSE IF HasKind(script[r], "broken") THEN "failed" ELSE Last(script[r]).what]]
  BY DEF SaveRun
<1>3. /\ stream[r] = "over"
      /\ UNCHANGED <<turns, conv, running, page, ctl, script, stream, seen, buffer, asked, cache, loose, stopped>>
  BY DEF SaveRun, screen, streams
<1>4. n \in 0..Len(script[r])
  BY <1>1, <1>2, ReadIs
<1> DEFINE state == IF n < Len(script[r]) THEN "cancelled"
                     ELSE IF HasKind(script[r], "broken") THEN "failed" ELSE Last(script[r]).what
<1>5. /\ DOMAIN saved' = Runs
      /\ \A q \in Runs : q # r => saved'[q] = saved[q]
      /\ saved'[r].events = n /\ saved'[r].status = state
  BY <1>1, <1>2 DEF PageTypes
<1>6. Outcomes'
  <2>1. ASSUME NEW q \in Runs, saved'[q] # NotSaved
        PROVE  /\ stream'[q] = "over"
               /\ saved'[q].events \in 0..Len(script'[q])
               /\ saved'[q].status = IF saved'[q].events < Len(script'[q]) THEN "cancelled"
                                     ELSE IF HasKind(script[q], "broken") THEN "failed"
                                     ELSE Last(script[q]).what
    <3>1. CASE q # r
      BY <1>1, <1>3, <1>5, <2>1, <3>1 DEF Recorded, Outcomes
    <3>2. CASE q = r
      BY <1>3, <1>4, <1>5, <3>2
    <3> QED BY <3>1, <3>2
  <2> QED BY <1>3, <2>1 DEF Outcomes, NotSaved, HasKind, Last
<1>7. Cached'
  BY <1>1, <1>3, CachedStays DEF Recorded
<1>8. /\ ctl' \in {ctl, Nowhere} /\ conv' \in Runs \cup {Nowhere} /\ page' \in Runs \cup {Nowhere}
      /\ DOMAIN cache' = Runs
  BY <1>1, <1>3 DEF PageTypes
<1> QED BY <1>3, <1>5, <1>6, <1>7, <1>8, QuietKeeps

\* An action was approved after the run had ended.
LEMMA ApprovedLaterKeeps ==
  ASSUME PageInv, NEW r \in Runs, ApprovedLater(r)
  PROVE  PageInv'
<1>1. PageTypes /\ Recorded
  BY DEF PageInv
<1>2. UNCHANGED <<turns, conv, running, page, ctl, script, stream, seen, buffer, asked, saved, cache, loose, stopped>>
  BY DEF ApprovedLater, screen, streams
<1>3. Outcomes' /\ Cached'
  BY <1>1, <1>2, OutcomesStay, CachedStays DEF Recorded
<1>4. /\ ctl' \in {ctl, Nowhere} /\ conv' \in Runs \cup {Nowhere} /\ page' \in Runs \cup {Nowhere}
      /\ DOMAIN cache' = Runs /\ DOMAIN saved' = Runs
  BY <1>1, <1>2 DEF PageTypes
<1> QED BY <1>2, <1>3, <1>4, QuietKeeps

\* Another conversation is opened.
LEMMA VisitKeeps ==
  ASSUME PageInv, NEW c \in Runs, Visit(c)
  PROVE  PageInv'
<1>1. PageTypes /\ Recorded
  BY DEF PageInv
<1>2. /\ page' = c /\ ctl' = Nowhere
      /\ UNCHANGED <<turns, conv, running, script, stream, seen, buffer, asked, saved, cache, loose, stopped>>
  BY DEF Visit, streams, server
<1>3. Outcomes' /\ Cached'
  BY <1>1, <1>2, OutcomesStay, CachedStays DEF Recorded
<1>4. /\ ctl' \in {ctl, Nowhere} /\ conv' \in Runs \cup {Nowhere} /\ page' \in Runs \cup {Nowhere}
      /\ DOMAIN cache' = Runs /\ DOMAIN saved' = Runs
  BY <1>1, <1>2 DEF PageTypes
<1> QED BY <1>2, <1>3, <1>4, QuietKeeps

\* Messages that were rebuilt from the records.
Rebuilt(list) ==
    /\ list \in Seq(ToSet(list))
    /\ \A m \in ToSet(list) : Turn(m) /\ m.heard = {} /\ stream[m.run] # "none"

\* Nothing is a list rebuilt from records.
LEMMA NothingRebuilt == Rebuilt(<<>>)
BY DEF Rebuilt, ToSet

\* The cache holds such messages, and does so with others in the place of some.
LEMMA CachedWith ==
  ASSUME PageTypes, Cached, NEW c \in Runs, NEW list, Rebuilt(list),
         cache' = [cache EXCEPT ![c] = list], UNCHANGED stream
  PROVE  DOMAIN cache' = Runs /\ Cached'
<1>1. DOMAIN cache' = Runs /\ cache'[c] = list /\ \A d \in Runs : d # c => cache'[d] = cache[d]
  BY DEF PageTypes
<1>2. \A d \in Runs :
        /\ cache'[d] \in Seq(ToSet(cache'[d]))
        /\ \A m \in ToSet(cache'[d]) : Turn(m) /\ m.heard = {} /\ stream'[m.run] # "none"
  BY <1>1 DEF Cached, Rebuilt
<1> QED BY <1>1, <1>2 DEF Cached, ToSet, Turn, IsView

\* The cache drops a conversation.
LEMMA ForgetKeeps ==
  ASSUME PageInv, NEW c \in Runs, Forget(c)
  PROVE  PageInv'
<1>1. PageTypes /\ Recorded
  BY DEF PageInv
<1>2. /\ cache' = [cache EXCEPT ![c] = <<>>]
      /\ UNCHANGED <<turns, conv, running, page, ctl, script, stream, seen, buffer, asked, saved, loose, stopped>>
  BY DEF Forget, screen, streams, server
<1>3. Outcomes' /\ Cached' /\ DOMAIN cache' = Runs
  BY <1>1, <1>2, OutcomesStay, CachedWith, NothingRebuilt DEF Recorded
<1>4. /\ ctl' \in {ctl, Nowhere} /\ conv' \in Runs \cup {Nowhere} /\ page' \in Runs \cup {Nowhere}
      /\ DOMAIN saved' = Runs
  BY <1>1, <1>2 DEF PageTypes
<1> QED BY <1>2, <1>3, <1>4, QuietKeeps

\* The page shows messages that were rebuilt, or none, and no run is live.
LEMMA RebuiltKeeps ==
  ASSUME PageInv, Rebuilt(turns'), running' = FALSE,
         UNCHANGED <<script, stream, seen, buffer, asked, saved, stopped>>,
         loose \subseteq loose', \A r \in Runs : stream[r] = "open" => r \in loose',
         loose' \subseteq loose \cup {r \in Runs : stream[r] = "open"},
         ctl' \in {ctl, Nowhere}, conv' \in Runs \cup {Nowhere}, page' \in Runs \cup {Nowhere},
         DOMAIN cache' = Runs, Cached'
  PROVE  PageInv'
<1>1. PageTypes /\ Recorded
  BY DEF PageInv
<1>2. /\ turns' \in Seq(ToSet(turns'))
      /\ \A i \in DOMAIN turns' :
           Turn(turns'[i]) /\ turns'[i].heard = {} /\ stream[turns'[i].run] # "none"
  BY DEF Rebuilt, ToSet
<1>3. PageTypes'
  BY <1>1, <1>2 DEF PageTypes, Turn, IsView
<1>4. Recorded'
  <2>1. Outcomes'
    BY <1>1, OutcomesStay DEF Recorded
  <2>2. \A r \in Runs : stream'[r] = "none" => seen'[r] = 0 /\ r \notin loose'
    BY <1>1 DEF Recorded
  <2> QED BY <1>1, <1>2, <2>1, <2>2 DEF Recorded, ToSet
<1>5. \A r \in Runs : ~Live(r)'
  BY DEF Live
<1>6. OneIsLive'
  BY <1>5 DEF OneIsLive
<1>7. Heard'
  BY <1>2 DEF Heard
<1>8. Shown'
  <2>1. ASSUME NEW i \in DOMAIN turns' PROVE turns'[i].heard = {} /\ ~Live(turns[i].run)'
    BY <1>2, <2>1 DEF Turn, Live
  <2> QED BY <2>1 DEF Shown
<1> QED BY <1>3, <1>4, <1>6, <1>7, <1>8 DEF PageInv

\* What is rebuilt of a saved run is a message.
LEMMA HydratedIs ==
  ASSUME PageTypes, Recorded, NEW r \in Runs, saved[r] # NotSaved
  PROVE  IsView(Hydrated(r))
<1> DEFINE S == ToSet(script[r])
           A == {e \in ToSet(Sent(r)) : e.kind \notin {"token", "broken"}}
           v == Replayed(Stored(r))
           answers == Kept(Sent(r), {e \in ToSet(Sent(r)) : e.kind = "answer"})
           artifacts == IF r \in later THEN AddNew(v.artifacts, "deferred") ELSE v.artifacts
           text == IF answers = <<>> THEN <<>> ELSE <<"final">>
           citations == IF answers = <<>> THEN {} ELSE AsStored(Last(answers).what)
           state == IF saved[r].status = "cancelled" THEN "interrupted"
                     ELSE IF saved[r].status = "failed" THEN "error" ELSE "done"
<1>1. script[r] \in Seq(S) /\ Len(script[r]) \in Nat /\ saved[r].events \in 0..Len(script[r])
  BY ReadIs DEF Recorded, Outcomes
<1>2. Sent(r) \in Seq(S)
  <2> DEFINE k == saved[r].events
             s == script[r]
  <2>1. Sent(r) = SubSeq(s, 1, k)
    BY DEF Sent
  <2> HIDE DEF S, k, s
  <2> QED BY <1>1, <2>1 DEF k, s
<1>3. Stored(r) \in Seq(S)
  <2>1. Kept(Sent(r), A) \in Seq(S \cap A)
    BY <1>2, KeptType
  <2>2. Stored(r) = Kept(Sent(r), A)
    BY DEF Stored
  <2> HIDE DEF A, S
  <2> QED BY <2>1, <2>2, SeqMonotonic
<1>4. IsView(v)
  BY <1>3, ReplayedIsView
<1>5. Hydrated(r) = [v EXCEPT !.artifacts = artifacts, !.text = text, !.citations = citations,
                              !.status = state]
  BY DEF Hydrated
<1> HIDE DEF v, artifacts, text, citations, state
<1> QED BY <1>4, <1>5 DEF IsView

\* What a saved conversation is turned into.
LEMMA SavedTurnsAre ==
  ASSUME PageTypes, Recorded, NEW c
  PROVE  Rebuilt(SavedTurns(c))
<1> DEFINE A == {a \in ToSet(asked) : a.conv = c /\ HasTurn(a.run)}
           R == [run : Runs, conv : Runs]
           own == Kept(asked, A)
           Message(a) == [run |-> a.run, view |-> Hydrated(a.run), heard |-> {}]
           list == [i \in DOMAIN own |-> Message(own[i])]
<1>1. SavedTurns(c) = list
  BY DEF SavedTurns
<1>2. own \in Seq(R \cap A)
  BY KeptType DEF PageTypes
<1>3. \A a \in R \cap A : a.run \in Runs /\ saved[a.run] # NotSaved
  BY DEF HasTurn
<1> HIDE DEF own, A, R
<1>4. \A a \in R \cap A :
        /\ Turn(Message(a)) /\ Message(a).heard = {} /\ stream[Message(a).run] # "none"
  <2>1. ASSUME NEW a \in R \cap A
        PROVE  IsView(Hydrated(a.run)) /\ stream[a.run] = "over" /\ a.run \in Runs
    BY <1>3, HydratedIs DEF Recorded, Outcomes
  <2> QED BY <2>1 DEF Turn
<1> HIDE DEF Message
<1>5. DOMAIN own = 1..Len(own) /\ Len(own) \in Nat /\ \A i \in DOMAIN own : own[i] \in R \cap A
  BY <1>2
<1>6. list \in Seq(ToSet(list)) /\ DOMAIN list = DOMAIN own
  <2>1. DOMAIN list = 1..Len(own) /\ \A i \in 1..Len(own) : list[i] \in ToSet(list)
    BY <1>5 DEF ToSet
  <2>2. list \in [1..Len(own) -> ToSet(list)]
    BY <1>5, <2>1
  <2> QED BY <1>5, <2>1, <2>2 
<1>7. \A m \in ToSet(list) : \E a \in R \cap A : m = Message(a)
  BY <1>5 DEF ToSet
<1> HIDE DEF list
<1> QED BY <1>1, <1>4, <1>6, <1>7 DEF Rebuilt

\* A conversation is rebuilt from what is recorded.
LEMMA LoadKeeps ==
  ASSUME PageInv, Load
  PROVE  PageInv'
<1> DEFINE found == IF cache[page] # <<>> THEN cache[page] ELSE SavedTurns(page)
<1>1. PageTypes /\ Recorded
  BY DEF PageInv
<1>2. /\ page # Nowhere /\ ~running
      /\ turns' = found /\ cache' = [cache EXCEPT ![page] = found] /\ conv' = page
      /\ UNCHANGED <<running, page, ctl, script, stream, seen, buffer, asked, saved, loose, stopped>>
  BY DEF Load, streams, server
<1>3. page \in Runs /\ Cached
  BY <1>1, <1>2 DEF PageTypes, Recorded
<1>4. Rebuilt(found)
  BY <1>1, <1>3, SavedTurnsAre DEF Cached, Rebuilt
<1> HIDE DEF found
<1>5. DOMAIN cache' = Runs /\ Cached'
  BY <1>1, <1>2, <1>3, <1>4, CachedWith
<1>6. Rebuilt(turns')
  BY <1>2, <1>4
<1>7. running' = FALSE /\ \A r \in Runs : stream[r] = "open" => r \in loose'
  BY <1>1, <1>2 DEF PageInv, OneIsLive, Live, PageTypes
<1>8. /\ ctl' \in {ctl, Nowhere} /\ conv' \in Runs \cup {Nowhere} /\ page' \in Runs \cup {Nowhere}
      /\ loose \subseteq loose' /\ loose' \subseteq loose \cup {r \in Runs : stream[r] = "open"}
  BY <1>1, <1>2, <1>3
<1> QED BY <1>2, <1>5, <1>6, <1>7, <1>8, RebuiltKeeps

\* A new conversation is opened.
LEMMA NewChatKeeps ==
  ASSUME PageInv, NewChat
  PROVE  PageInv'
<1>1. PageTypes /\ Recorded
  BY DEF PageInv
<1>2. /\ ~running /\ turns' = <<>> /\ conv' = Nowhere /\ running' = FALSE
      /\ page' = Nowhere /\ ctl' = Nowhere
      /\ UNCHANGED <<script, stream, seen, buffer, asked, saved, cache, loose, stopped>>
  BY DEF NewChat, Reset, streams, server
<1>3. Rebuilt(turns')
  BY <1>2, NothingRebuilt
<1>4. DOMAIN cache' = Runs /\ Cached'
  BY <1>1, <1>2, CachedStays DEF Recorded, PageTypes
<1>5. \A r \in Runs : stream[r] = "open" => r \in loose'
  BY <1>1, <1>2 DEF PageInv, OneIsLive, Live
<1>6. /\ ctl' \in {ctl, Nowhere} /\ conv' \in Runs \cup {Nowhere} /\ page' \in Runs \cup {Nowhere}
      /\ loose \subseteq loose' /\ loose' \subseteq loose \cup {r \in Runs : stream[r] = "open"}
  BY <1>2
<1> QED BY <1>2, <1>3, <1>4, <1>5, <1>6, RebuiltKeeps

\* A conversation is archived.
LEMMA ArchiveKeeps ==
  ASSUME PageInv, Archive
  PROVE  PageInv'
<1>1. PageTypes /\ Recorded
  BY DEF PageInv
<1>2. /\ turns' = <<>> /\ conv' = Nowhere /\ running' = FALSE
      /\ page' = Nowhere /\ ctl' = Nowhere
      /\ loose' = loose \cup {r \in Runs : stream[r] = "open"}
      /\ UNCHANGED <<script, stream, seen, buffer, asked, saved, cache, stopped>>
  BY DEF Archive, Reset, streams
<1>3. Rebuilt(turns')
  BY <1>2, NothingRebuilt
<1>4. DOMAIN cache' = Runs /\ Cached'
  BY <1>1, <1>2, CachedStays DEF Recorded, PageTypes
<1>5. /\ \A r \in Runs : stream[r] = "open" => r \in loose'
      /\ ctl' \in {ctl, Nowhere} /\ conv' \in Runs \cup {Nowhere} /\ page' \in Runs \cup {Nowhere}
      /\ loose \subseteq loose' /\ loose' \subseteq loose \cup {r \in Runs : stream[r] = "open"}
  BY <1>2
<1> QED BY <1>2, <1>3, <1>4, <1>5, RebuiltKeeps

\* A new message, of a run that is live from then on.
LEMMA SendKeeps ==
  ASSUME PageInv, NEW r \in Runs, Send(r)
  PROVE  PageInv'
<1> DEFINE n == Len(turns)
           m == [run |-> r, view |-> EmptyView, heard |-> {}]
           a == [run |-> r, conv |-> IF conv = Nowhere THEN r ELSE conv]
<1>1. PageTypes /\ Recorded /\ Turns(turns)
  BY OnScreen DEF PageInv
<1>2. /\ ~running /\ stream[r] = "none"
      /\ turns' = Append(turns, m)
      /\ running' = TRUE /\ ctl' = r
      /\ stream' = [stream EXCEPT ![r] = "open"]
      /\ asked' = Append(asked, a)
      /\ UNCHANGED <<conv, page, script, seen, buffer, saved, cache, loose, stopped>>
  BY DEF Send
<1>3. /\ stream' \in [Runs -> {"none", "open", "over"}] /\ stream'[r] = "open"
      /\ \A q \in Runs : q # r => stream'[q] = stream[q]
  BY <1>1, <1>2 DEF PageTypes
<1>4. seen[r] = 0 /\ r \notin loose /\ buffer[r] = <<>>
  BY <1>1, <1>2 DEF Recorded
<1>5. Turn(m) /\ m.run = r /\ m.view = EmptyView /\ m.heard = {}
  BY DEF Turn, IsView, EmptyView
<1>6. n \in Nat /\ DOMAIN turns = 1..n /\ \A i \in 1..n : Turn(turns[i])
  BY <1>1, TurnsIs DEF Turns
<1> HIDE DEF m
<1>7. /\ turns' \in Seq(ToSet(turns'))
      /\ Len(turns') = n + 1 /\ DOMAIN turns' = 1..(n + 1) /\ turns'[n + 1] = m
      /\ \A i \in 1..n : turns'[i] = turns[i]
  <2> DEFINE U == ToSet(turns) \cup {m}
  <2>1. turns \in Seq(U) /\ m \in U
    <3>1. turns \in Seq(ToSet(turns)) /\ ToSet(turns) \subseteq U
      BY <1>1 DEF Turns
    <3> QED BY <3>1, SeqMonotonic
  <2> HIDE DEF U
  <2>2. /\ turns' \in Seq(U)
        /\ Len(turns') = n + 1 /\ DOMAIN turns' = 1..(n + 1) /\ turns'[n + 1] = m
        /\ \A i \in 1..n : turns'[i] = turns[i]
    BY <1>2, <2>1, AppendProperties
  <2>3. turns' \in Seq(ToSet(turns'))
    <3>1. turns' \in Seq(U)
      BY <2>2
    <3> QED BY <3>1 DEF ToSet
  <2> QED BY <2>2, <2>3
<1>8. \A i \in 1..n : turns[i].run \in Runs /\ turns[i].run # r
  BY <1>1, <1>2, <1>6 DEF Recorded, Turn
<1> HIDE DEF n
<1>9. \A i \in 1..(n + 1) : i = n + 1 \/ i \in 1..n
  BY <1>6
<1>10. a \in [run : Runs, conv : Runs] /\ a.run = r
  BY <1>1 DEF PageTypes
<1> HIDE DEF a
<1>11. asked' \in Seq([run : Runs, conv : Runs]) /\ ToSet(asked') = ToSet(asked) \cup {a}
  <2> DEFINE R == [run : Runs, conv : Runs]
  <2>1. asked \in Seq(R) /\ a \in R
    BY <1>1, <1>10 DEF PageTypes
  <2> HIDE DEF R
  <2>2. ToSet(Append(asked, a)) = ToSet(asked) \cup {a}
    BY <2>1, SetAppend
  <2>3. Append(asked, a) \in Seq(R)
    BY <2>1, AppendProperties
  <2> QED BY <1>2, <2>2, <2>3 DEF R
<1>12. PageTypes'
  <2>1. \A i \in DOMAIN turns' : Turn(turns'[i])
    BY <1>5, <1>6, <1>7, <1>9
  <2>2. /\ ctl' \in Runs \cup {Nowhere} /\ running' \in BOOLEAN
        /\ \A q \in Runs : seen'[q] <= Len(script[q])
    BY <1>1, <1>2 DEF PageTypes
  <2> QED BY <1>1, <1>2, <1>3, <1>7, <1>11, <2>1, <2>2 DEF PageTypes, Turn, IsView
<1>13. Recorded'
  <2>1. Outcomes'
    <3>1. Outcomes
      BY <1>1 DEF Recorded
    <3> QED BY <1>2, <1>3, <3>1 DEF Outcomes, NotSaved, HasKind, Last
  <2>2. Cached'
    <3>1. \A c \in Runs :
            /\ cache'[c] \in Seq(ToSet(cache'[c]))
            /\ \A x \in ToSet(cache'[c]) : Turn(x) /\ x.heard = {} /\ stream'[x.run] # "none"
      <4>1. \A x : Turn(x) /\ stream[x.run] # "none" => stream'[x.run] # "none"
        BY <1>3 DEF Turn
      <4>2. Cached
        BY <1>1 DEF Recorded
      <4> QED BY <1>2, <4>1, <4>2 DEF Cached
    <3> QED BY <3>1 DEF Cached, ToSet, Turn, IsView
  <2>3. \A q \in Runs : stream'[q] # "none" => \E b \in ToSet(asked') : b.run = q
    BY <1>1, <1>3, <1>10, <1>11 DEF Recorded
  <2>4. \A q \in Runs : stream'[q] = "none" => seen'[q] = 0 /\ q \notin loose'
    BY <1>1, <1>2, <1>3 DEF Recorded
  <2>5. \A q \in Runs : buffer'[q] # <<>> => stream'[q] = "open"
    BY <1>1, <1>2, <1>3 DEF Recorded
  <2>6. ctl' # Nowhere => stream'[ctl'] = "open"
    BY <1>2, <1>3
  <2>7. \A i \in DOMAIN turns' : stream'[turns'[i].run] # "none"
    <3>1. \A i \in 1..n : stream[turns[i].run] # "none"
      BY <1>1, <1>6 DEF Recorded
    <3> QED BY <1>3, <1>5, <1>7, <1>8, <1>9, <3>1
  <2> QED BY <2>1, <2>2, <2>3, <2>4, <2>5, <2>6, <2>7 DEF Recorded, ToSet
<1>14. \A q \in Runs : Live(q)' <=> q = r
  <2>1. \A q \in Runs : ~Live(q)
    BY <1>2 DEF PageInv, OneIsLive
  <2>2. \A q \in Runs : Live(q)' <=> stream'[q] = "open" /\ q \notin loose
    BY <1>2 DEF Live
  <2> QED BY <1>3, <1>4, <2>1, <2>2 DEF Live
<1>15. OneIsLive'
  <2>1. turns' # <<>>
    BY <1>6, <1>7
  <2>2. \A i \in DOMAIN turns' : turns'[i].run = r <=> i = Len(turns')
    BY <1>5, <1>6, <1>7, <1>8, <1>9
  <2> QED BY <1>2, <1>14, <2>1, <2>2 DEF OneIsLive
<1>16. Heard'
  <2>1. \A i \in 1..n : turns[i].heard \subseteq {turns[i].run} \cup loose
    BY <1>6 DEF PageInv, Heard
  <2>2. \A i \in 1..(n + 1) : turns'[i].heard \subseteq {turns'[i].run} \cup loose'
    BY <1>2, <1>5, <1>7, <1>9, <2>1
  <2> QED BY <1>7, <2>2 DEF Heard
<1>17. Shown'
  <2>1. ASSUME NEW i \in 1..(n + 1), turns'[i].run \notin loose' \cup stopped',
               turns'[i].heard = {turns'[i].run} \/ (turns'[i].heard = {} /\ Live(turns[i].run)')
        PROVE  /\ Shows(turns'[i].view, Read(turns[i].run)', buffer'[turns'[i].run])
               /\ stream'[turns'[i].run] = "open" => turns'[i].view.error = "none"
    <3> DEFINE q == turns'[i].run
    <3>1. Read(turns[i].run)' = SubSeq(script[q], 1, seen[q])
      BY <1>2 DEF Read
    <3>2. CASE i = n + 1
      <4>1. q = r /\ turns'[i].view = EmptyView
        BY <1>5, <1>7, <3>2
      <4>2. SubSeq(script[r], 1, 0) = <<>>
        OBVIOUS
      <4>3. Shows(EmptyView, <<>>, <<>>) /\ EmptyView.error = "none"
        BY ReplayedEmpty DEF Shows, Alike, HasKind, EmptyView
      <4> QED BY <1>2, <1>4, <3>1, <4>1, <4>2, <4>3
    <3>3. CASE i \in 1..n
      <4>1. turns'[i] = turns[i] /\ q \in Runs /\ q # r
        BY <1>7, <1>8, <3>3
      <4>2. ~Live(turns[i].run)'
        BY <1>14, <4>1 DEF Live
      <4>3. Faithful(turns[i])
        BY <1>2, <1>6, <2>1, <3>3, <4>1, <4>2 DEF PageInv, Shown
      <4>4. /\ Shows(turns[i].view, SubSeq(script[q], 1, seen[q]), buffer[q])
            /\ stream[q] = "open" => turns[i].view.error = "none"
        BY <4>1, <4>3 DEF Faithful, Read
      <4> QED BY <1>2, <1>3, <3>1, <4>1, <4>4
    <3> QED BY <1>9, <3>2, <3>3
  <2>2. ASSUME NEW i \in 1..(n + 1), turns'[i].run \notin loose' \cup stopped',
               turns'[i].heard = {turns'[i].run} \/ (turns'[i].heard = {} /\ Live(turns[i].run)')
        PROVE  Faithful(turns[i])'
    BY <2>1, <2>2 DEF Faithful
  <2> QED BY <1>7, <2>2 DEF Shown
<1> QED BY <1>12, <1>13, <1>15, <1>16, <1>17 DEF PageInv

\* A page that has just been loaded.
LEMMA ViewInitially == ViewInit => PageInv
<1>1. SUFFICES ASSUME ViewInit PROVE PageInv
  OBVIOUS
<1>2. /\ \A r \in Runs : script[r] \in Scripts[r]
      /\ stream = [r \in Runs |-> "none"] /\ seen = [r \in Runs |-> 0]
      /\ buffer = [r \in Runs |-> <<>>]
      /\ turns = <<>> /\ conv = Nowhere /\ running = FALSE
      /\ page = Nowhere /\ ctl = Nowhere
      /\ asked = <<>> /\ saved = [r \in Runs |-> NotSaved]
      /\ cache = [c \in Runs |-> <<>>] /\ loose = {} /\ stopped = {}
  BY <1>1 DEF ViewInit
<1>3. PageTypes
  <2>1. \A r \in Runs : Len(script[r]) \in Nat
    BY <1>2, ScriptsAssumption DEF InProtocol
  <2>2. <<>> \in Seq({"fragment"}) /\ <<>> \in Seq([run : Runs, conv : Runs])
        /\ <<>> \in Seq(ToSet(<<>>))
    OBVIOUS
  <2>3. seen \in [Runs -> Nat] /\ \A r \in Runs : seen[r] <= Len(script[r])
    BY <1>2, <2>1
  <2>4. turns \in Seq(ToSet(turns)) /\ \A i \in DOMAIN turns : Turn(turns[i])
    BY <1>2, <2>2
  <2> QED BY <1>2, <2>2, <2>3, <2>4 DEF PageTypes
<1>4. Outcomes /\ Cached
  <2>1. <<>> \in Seq(ToSet(<<>>)) /\ ToSet(<<>>) = {}
    BY DEF ToSet
  <2> QED BY <1>2, <2>1 DEF Outcomes, Cached
<1>5. Recorded
  BY <1>2, <1>4 DEF Recorded
<1>6. OneIsLive /\ Heard /\ Shown
  BY <1>2 DEF OneIsLive, Live, Heard, Shown
<1> QED BY <1>3, <1>5, <1>6 DEF PageInv

\* Nothing happens on it.
LEMMA ViewStutters == PageInv /\ UNCHANGED viewVars => PageInv'
<1>1. SUFFICES ASSUME PageInv, UNCHANGED viewVars PROVE PageInv'
  OBVIOUS
<1>2. UNCHANGED <<turns, conv, running, page, ctl, script, stream, seen, buffer, asked, saved, cache, loose, stopped>>
  BY <1>1 DEF viewVars, screen, streams, server
<1>3. Outcomes' /\ Cached'
  BY <1>1, <1>2, OutcomesStay, CachedStays DEF PageInv, Recorded
<1>4. /\ ctl' \in {ctl, Nowhere} /\ conv' \in Runs \cup {Nowhere} /\ page' \in Runs \cup {Nowhere}
      /\ DOMAIN cache' = Runs /\ DOMAIN saved' = Runs
  BY <1>1, <1>2 DEF PageInv, PageTypes
<1> QED BY <1>1, <1>2, <1>3, <1>4, QuietKeeps

\* Every step of the page keeps its invariant.
LEMMA ViewStep == PageInv /\ [ViewNext]_viewVars => PageInv'
<1>1. SUFFICES ASSUME PageInv, [ViewNext]_viewVars PROVE PageInv'
  OBVIOUS
<1>2. ASSUME NEW r \in Runs, Send(r) PROVE PageInv'
  BY <1>1, <1>2, SendKeeps
<1>3. ASSUME NEW r \in Runs, ReceiveToken(r) PROVE PageInv'
  BY <1>1, <1>3, ReceiveTokenKeeps
<1>4. ASSUME NEW r \in Runs, Flush(r) PROVE PageInv'
  BY <1>1, <1>4, FlushKeeps
<1>5. ASSUME NEW r \in Runs, ReceiveStarted(r) PROVE PageInv'
  BY <1>1, <1>5, ReceiveStartedKeeps
<1>6. ASSUME NEW r \in Runs, Receive(r) PROVE PageInv'
  BY <1>1, <1>6, ReceiveKeeps
<1>7. ASSUME NEW r \in Runs, StreamFinishes(r) PROVE PageInv'
  BY <1>1, <1>7, StreamFinishesKeeps
<1>8. ASSUME NEW r \in Runs, ConnectionLost(r) PROVE PageInv'
  BY <1>1, <1>8, ConnectionLostKeeps
<1>9. ASSUME NEW r \in Runs, SaveRun(r) PROVE PageInv'
  BY <1>1, <1>9, SaveRunKeeps
<1>10. ASSUME NEW r \in Runs, ApprovedLater(r) PROVE PageInv'
  BY <1>1, <1>10, ApprovedLaterKeeps
<1>11. ASSUME NEW r \in Runs, Visit(r) PROVE PageInv'
  BY <1>1, <1>11, VisitKeeps
<1>12. ASSUME NEW r \in Runs, Forget(r) PROVE PageInv'
  BY <1>1, <1>12, ForgetKeeps
<1>13. CASE Stop
  BY <1>1, <1>13, StopKeeps
<1>14. CASE Load
  BY <1>1, <1>14, LoadKeeps
<1>15. CASE NewChat
  BY <1>1, <1>15, NewChatKeeps
<1>16. CASE Archive
  BY <1>1, <1>16, ArchiveKeeps
<1>17. CASE UNCHANGED viewVars
  BY <1>1, <1>17, ViewStutters
<1> QED
  BY <1>1, <1>2, <1>3, <1>4, <1>5, <1>6, <1>7, <1>8, <1>9, <1>10, <1>11, <1>12, <1>13, <1>14,
     <1>15, <1>16, <1>17 DEF ViewNext

\* For any number of runs, whatever they send: only its own run writes to a message
\* (hooks/useAgentStream.ts), and a run that came to its end is shown again as it was
\* when its conversation is opened again, but for the two fields of a citation that
\* are not stored and for a connection that failed after that end, which the page
\* had shown as an error: the invariant that the run of RunView checks.
THEOREM PageShowsItsRuns == ViewSpec => []ViewInv
<1>1. ViewSpec => []PageInv
  BY ViewInitially, ViewStep, PTL DEF ViewSpec
<1> QED BY <1>1, PageInvMeans, PTL

-----------------------------------------------------------------------------
(***************************************************************************)
(* RunStream: what is true between two steps of the request.               *)
(***************************************************************************)

\* While the generator can make a frame that is not its last.
Making == pc \in {"idle", "working"} \/ (pc = "put" /\ ~last)

\* The queue ends with the pump's None.
EndQueued == queue # <<>> /\ queue[Len(queue)] = End

Waiting == IF pc = "put" THEN 1 ELSE 0

\* What a client that is there was sent, and what is queued, is numbered through;
\* the end comes last, from a pump that is done.
NumberedThrough ==
    client = "here" =>
        /\ \A i \in 1..Len(delivered) : delivered[i] = i
        /\ \A i \in 1..Len(queue) :
             \/ queue[i] = Len(delivered) + i
             \/ queue[i] = End /\ i = Len(queue) /\ pc = "done"
        /\ Len(delivered) + Len(queue) + Waiting = emitted + (IF EndQueued THEN 1 ELSE 0)

\* Frames past the bound: the answer, a failure, and the last one.
FramesBounded ==
    /\ Making => emitted <= MaxFrames + (IF agent = "succeeded" THEN 1
                                         ELSE IF agent = "failed" THEN 2 ELSE 0)
    /\ pc \in {"idle", "refusing", "refusedTurn", "refusedClose"} =>
         emitted = 0 /\ queue = <<>>

Finalising ==
    /\ finals <= 1
    /\ finals = 1 => pc \in {"end", "done"}
    /\ final # "none" => (finals = 1 \/ crashes > 0) /\ pc \in {"end", "done"}

Succeeded == (finished /\ agent = "succeeded") \/ cutAtPut

\* What the finaliser will find, from the moment it cannot change any more.
Outcome ==
    /\ Making => status = "succeeded"
    /\ status = "failed" => agent = "failed" \/ failure
    /\ status = "cancelled" => client = "gone"
    /\ (final = "close" \/ (pc = "put" /\ last)) /\ status = "succeeded" => Succeeded
    /\ pc = "cut" => cutAtPut
    /\ cutAtPut => client = "gone"
    /\ row \in {"succeeded", "failed"} => pc \in {"end", "done"}
    /\ reaper = "selected" => old

\* The type invariant in three parts.
Flags ==
    /\ {turn, audited, old, failure, answered, last} \subseteq BOOLEAN
    /\ {up, finished, cutAtPut, lost} \subseteq BOOLEAN

Stages ==
    /\ row \in {"none", "running"} \cup Closed
    /\ pc \in {"idle", "working", "put", "end", "cut", "done",
               "refusing", "refusedTurn", "refusedClose"}
    /\ agent \in {"running", "awaiting_approval", "succeeded", "failed"}
    /\ status \in Closed
    /\ final \in {"none", "close", "turn", "audit", "done"}
    /\ client \in {"here", "gone"}
    /\ reaper \in {"idle", "selected"}

Sizes ==
    /\ queue \in Seq(Nat) /\ Len(queue) <= Capacity
    /\ delivered \in Seq(Nat)
    /\ crashes \in 0..MaxCrashes /\ boots \in 0..MaxBoots
    /\ emitted \in 0..(MaxFrames + 3) /\ finals \in Nat

IInv == TypeOK /\ NumberedThrough /\ FramesBounded /\ Finalising /\ Outcome /\ RecordedOutcome

USE CapacityAssumption, FramesAssumption, SwitchesAssumption, FaultsAssumption

-----------------------------------------------------------------------------
\* The type invariant, in parts that different steps disturb.
LEMMA TypeParts == TypeOK <=> Flags /\ Stages /\ Sizes
BY DEF TypeOK, Flags, Stages, Sizes

\* Before the stream is opened.
LEMMA Started == Init => IInv
<1> SUFFICES ASSUME Init PROVE IInv
  OBVIOUS
<1> USE DEF Init
<1>1. Flags
  BY Zenon DEF Flags
<1>2. Stages
  BY DEF Stages, Closed
<1>3. Sizes
  BY DEF Sizes
<1>4. NumberedThrough
  BY DEF NumberedThrough, EndQueued, Waiting
<1>5. FramesBounded /\ Finalising /\ Outcome /\ RecordedOutcome
  BY DEF FramesBounded, Finalising, Outcome, RecordedOutcome, Making
<1> QED BY <1>1, <1>2, <1>3, <1>4, <1>5, TypeParts DEF IInv

\* A step is one of these.
LEMMA StepIsAction ==
  ASSUME Next
  PROVE  \/ Open
         \/ Event
         \/ Unanswered
         \/ Synthesise
         \/ AgentFails
         \/ RunFinished
         \/ StreamFails
         \/ PutResumes
         \/ PutsEnd
         \/ Collect
         \/ Deliver
         \/ Disconnect
         \/ CloseRun
         \/ SaveTurn
         \/ RecordFinish
         \/ Refusing
         \/ RefusedTurn
         \/ RefusedClose
         \/ TimePasses
         \/ Crash
         \/ Restart
         \/ OtherBoots
         \/ ReapWrite
BY DEF Next, Generator, Pump, Finaliser, Refused

-----------------------------------------------------------------------------
(* Types.                                                                  *)

\* No step leaves the values flags have.
LEMMA FlagsStep == Flags /\ [Next]_vars => Flags'
<1> SUFFICES ASSUME Flags, [Next]_vars PROVE Flags'
  OBVIOUS
<1> USE DEF Flags
<1>1. CASE Open
  BY <1>1, Zenon DEF Open, Write, database, agentVars, conn, procs
<1>2. CASE Event
  BY <1>2, Zenon
     DEF Event, Frame, Enqueue, Finalise, NoFinalise, Room, database, agentVars,
         conn, procs
<1>3. CASE Unanswered
  BY <1>3, Zenon
     DEF Unanswered, Frame, Enqueue, Finalise, NoFinalise, Room, database,
         agentVars, conn, procs
<1>4. CASE Synthesise
  BY <1>4, Zenon
     DEF Synthesise, Frame, Enqueue, Finalise, NoFinalise, Room, database,
         agentVars, conn, procs
<1>5. CASE AgentFails
  BY <1>5, Zenon
     DEF AgentFails, Frame, Enqueue, Finalise, NoFinalise, Room, database,
         agentVars, conn, procs
<1>6. CASE RunFinished
  BY <1>6, Zenon
     DEF RunFinished, Frame, Enqueue, Finalise, NoFinalise, Room, database,
         agentVars, conn, procs
<1>7. CASE StreamFails
  BY <1>7, Zenon
     DEF StreamFails, Frame, Enqueue, Finalise, NoFinalise, Room, database,
         agentVars, conn, procs
<1>8. CASE PutResumes
  BY <1>8, Zenon
     DEF PutResumes, Enqueue, Finalise, NoFinalise, Room, database, agentVars, conn,
         procs
<1>9. CASE PutsEnd
  BY <1>9, Zenon DEF PutsEnd, Room, End, database, agentVars, conn, procs
<1>10. CASE Collect
  BY <1>10, Zenon DEF Collect, Finalise, database, agentVars, conn, procs
<1>11. CASE Deliver
  BY <1>11, Zenon DEF Deliver, End, database, agentVars, conn, procs
<1>12. CASE Disconnect
  BY <1>12, Zenon
     DEF Disconnect, HangUp, Finalise, NoFinalise, database, agentVars, conn, procs
<1>13. CASE CloseRun
  BY <1>13, Zenon DEF CloseRun, Write, database, agentVars, conn, procs
<1>14. CASE SaveTurn
  BY <1>14, Zenon DEF SaveTurn, Write, database, agentVars, conn, procs
<1>15. CASE RecordFinish
  BY <1>15, Zenon DEF RecordFinish, Write, database, agentVars, conn, procs
<1>16. CASE Refusing
  BY <1>16, Zenon DEF Refusing, database, agentVars, conn, procs
<1>17. CASE RefusedTurn
  BY <1>17, Zenon DEF RefusedTurn, Write, database, agentVars, conn, procs
<1>18. CASE RefusedClose
  BY <1>18, Zenon DEF RefusedClose, Write, database, agentVars, conn, procs
<1>19. CASE TimePasses
  BY <1>19, Zenon DEF TimePasses, database, agentVars, conn, procs
<1>20. CASE Crash
  BY <1>20, Zenon DEF Crash, database, agentVars, conn, procs
<1>21. CASE Restart
  BY <1>21, Zenon DEF Restart, Reaps, database, agentVars, conn, procs
<1>22. CASE OtherBoots
  BY <1>22, Zenon DEF OtherBoots, Reaps, database, agentVars, conn, procs
<1>23. CASE ReapWrite
  BY <1>23, Zenon DEF ReapWrite, Write, database, agentVars, conn, procs
<1>24. CASE UNCHANGED vars
  BY <1>24, Zenon DEF vars, database, agentVars, conn, procs
<1> QED BY <1>1, <1>2, <1>3, <1>4, <1>5, <1>6, <1>7, <1>8, <1>9, <1>10, <1>11,
           <1>12, <1>13, <1>14, <1>15, <1>16, <1>17, <1>18, <1>19, <1>20, <1>21, <1>22, <1>23,
           <1>24, StepIsAction

\* No step leaves the stages there are.
LEMMA StagesStep == Stages /\ [Next]_vars => Stages'
<1> SUFFICES ASSUME Stages, [Next]_vars PROVE Stages'
  OBVIOUS
<1> USE DEF Stages, Closed
<1>1. CASE Open
  BY <1>1 DEF Open, Write, database, agentVars, conn, procs
<1>2. CASE Event
  BY <1>2
     DEF Event, Frame, Enqueue, Finalise, NoFinalise, Room, database, agentVars,
         conn, procs
<1>3. CASE Unanswered
  BY <1>3
     DEF Unanswered, Frame, Enqueue, Finalise, NoFinalise, Room, database,
         agentVars, conn, procs
<1>4. CASE Synthesise
  BY <1>4
     DEF Synthesise, Frame, Enqueue, Finalise, NoFinalise, Room, database,
         agentVars, conn, procs
<1>5. CASE AgentFails
  BY <1>5
     DEF AgentFails, Frame, Enqueue, Finalise, NoFinalise, Room, database,
         agentVars, conn, procs
<1>6. CASE RunFinished
  BY <1>6
     DEF RunFinished, Frame, Enqueue, Finalise, NoFinalise, Room, database,
         agentVars, conn, procs
<1>7. CASE StreamFails
  BY <1>7
     DEF StreamFails, Frame, Enqueue, Finalise, NoFinalise, Room, database,
         agentVars, conn, procs
<1>8. CASE PutResumes
  BY <1>8
     DEF PutResumes, Enqueue, Finalise, NoFinalise, Room, database, agentVars, conn,
         procs
<1>9. CASE PutsEnd
  BY <1>9 DEF PutsEnd, Room, End, database, agentVars, conn, procs
<1>10. CASE Collect
  BY <1>10 DEF Collect, Finalise, database, agentVars, conn, procs
<1>11. CASE Deliver
  BY <1>11 DEF Deliver, End, database, agentVars, conn, procs
<1>12. CASE Disconnect
  BY <1>12
     DEF Disconnect, HangUp, Finalise, NoFinalise, database, agentVars, conn, procs
<1>13. CASE CloseRun
  BY <1>13 DEF CloseRun, Write, database, agentVars, conn, procs
<1>14. CASE SaveTurn
  BY <1>14 DEF SaveTurn, Write, database, agentVars, conn, procs
<1>15. CASE RecordFinish
  BY <1>15 DEF RecordFinish, Write, database, agentVars, conn, procs
<1>16. CASE Refusing
  BY <1>16 DEF Refusing, database, agentVars, conn, procs
<1>17. CASE RefusedTurn
  BY <1>17 DEF RefusedTurn, Write, database, agentVars, conn, procs
<1>18. CASE RefusedClose
  BY <1>18 DEF RefusedClose, Write, database, agentVars, conn, procs
<1>19. CASE TimePasses
  BY <1>19 DEF TimePasses, database, agentVars, conn, procs
<1>20. CASE Crash
  BY <1>20 DEF Crash, database, agentVars, conn, procs
<1>21. CASE Restart
  BY <1>21 DEF Restart, Reaps, database, agentVars, conn, procs
<1>22. CASE OtherBoots
  BY <1>22 DEF OtherBoots, Reaps, database, agentVars, conn, procs
<1>23. CASE ReapWrite
  BY <1>23 DEF ReapWrite, Write, database, agentVars, conn, procs
<1>24. CASE UNCHANGED vars
  BY <1>24 DEF vars, database, agentVars, conn, procs
<1> QED BY <1>1, <1>2, <1>3, <1>4, <1>5, <1>6, <1>7, <1>8, <1>9, <1>10, <1>11,
           <1>12, <1>13, <1>14, <1>15, <1>16, <1>17, <1>18, <1>19, <1>20, <1>21, <1>22, <1>23,
           <1>24, StepIsAction

\* A frame that is made is within the bound, and goes into the queue if there is room.
LEMMA FrameSizes ==
  ASSUME Sizes, FramesBounded, NEW isLast, Frame(isLast)
  PROVE  Sizes'
<1>1. pc = "working" /\ emitted \in 0..(MaxFrames + 2)
  BY DEF Sizes, FramesBounded, Making, Frame
<1>2. emitted' \in 0..(MaxFrames + 3)
  BY <1>1 DEF Frame
<1>3. queue' \in Seq(Nat) /\ Len(queue') <= Capacity
  <2>1. CASE Room
    <3>1. queue' = Append(queue, emitted + 1)
      BY <2>1 DEF Frame, Enqueue
    <3> QED BY <1>1, <2>1, <3>1 DEF Sizes, Room
  <2>2. CASE ~Room
    BY <2>2 DEF Sizes, Frame
  <2> QED BY <2>1, <2>2
<1>4. UNCHANGED <<delivered, crashes, boots>> /\ finals' \in Nat
  BY DEF Sizes, Frame, Enqueue, Finalise, NoFinalise, conn, procs
<1> QED BY <1>2, <1>3, <1>4 DEF Sizes

\* No step leaves a queue or a counter without its type.
LEMMA SizesStep == Sizes /\ FramesBounded /\ [Next]_vars => Sizes'
<1> SUFFICES ASSUME Sizes /\ FramesBounded, [Next]_vars PROVE Sizes'
  OBVIOUS
<1> USE DEF Sizes
<1>1. CASE Open
  BY <1>1 DEF Open, Write, database, agentVars, conn, procs
<1>2. CASE Event
  BY <1>2, FrameSizes DEF Event
<1>3. CASE Unanswered
  BY <1>3, FrameSizes DEF Unanswered
<1>4. CASE Synthesise
  BY <1>4, FrameSizes DEF Synthesise
<1>5. CASE AgentFails
  BY <1>5, FrameSizes DEF AgentFails
<1>6. CASE RunFinished
  BY <1>6, FrameSizes DEF RunFinished
<1>7. CASE StreamFails
  BY <1>7, FrameSizes DEF StreamFails
<1>8. CASE PutResumes
  BY <1>8
     DEF PutResumes, Enqueue, Finalise, NoFinalise, Room, database, agentVars, conn,
         procs
<1>9. CASE PutsEnd
  BY <1>9 DEF PutsEnd, Room, End, database, agentVars, conn, procs
<1>10. CASE Collect
  BY <1>10 DEF Collect, Finalise, database, agentVars, conn, procs
<1>11. CASE Deliver
  BY <1>11 DEF Deliver, End, database, agentVars, conn, procs
<1>12. CASE Disconnect
  BY <1>12
     DEF Disconnect, HangUp, Finalise, NoFinalise, database, agentVars, conn, procs
<1>13. CASE CloseRun
  BY <1>13 DEF CloseRun, Write, database, agentVars, conn, procs
<1>14. CASE SaveTurn
  BY <1>14 DEF SaveTurn, Write, database, agentVars, conn, procs
<1>15. CASE RecordFinish
  BY <1>15 DEF RecordFinish, Write, database, agentVars, conn, procs
<1>16. CASE Refusing
  BY <1>16 DEF Refusing, database, agentVars, conn, procs
<1>17. CASE RefusedTurn
  BY <1>17 DEF RefusedTurn, Write, database, agentVars, conn, procs
<1>18. CASE RefusedClose
  BY <1>18 DEF RefusedClose, Write, database, agentVars, conn, procs
<1>19. CASE TimePasses
  BY <1>19 DEF TimePasses, database, agentVars, conn, procs
<1>20. CASE Crash
  BY <1>20 DEF Crash, database, agentVars, conn, procs
<1>21. CASE Restart
  BY <1>21 DEF Restart, Reaps, database, agentVars, conn, procs
<1>22. CASE OtherBoots
  BY <1>22 DEF OtherBoots, Reaps, database, agentVars, conn, procs
<1>23. CASE ReapWrite
  BY <1>23 DEF ReapWrite, Write, database, agentVars, conn, procs
<1>24. CASE UNCHANGED vars
  BY <1>24 DEF vars, database, agentVars, conn, procs
<1> QED BY <1>1, <1>2, <1>3, <1>4, <1>5, <1>6, <1>7, <1>8, <1>9, <1>10, <1>11,
           <1>12, <1>13, <1>14, <1>15, <1>16, <1>17, <1>18, <1>19, <1>20, <1>21, <1>22, <1>23,
           <1>24, StepIsAction

\* No step leaves the types.
LEMMA TypeStep == TypeOK /\ FramesBounded /\ [Next]_vars => TypeOK'
BY TypeParts, FlagsStep, StagesStep, SizesStep DEF TypeOK, Flags, Stages, Sizes

-----------------------------------------------------------------------------
(* The frames under way.                                                   *)

\* A queue of numbered frames does not end.
LEMMA NotEnded ==
  ASSUME queue \in Seq(Nat), Len(delivered) \in Nat,
         \A i \in 1..Len(queue) : queue[i] = Len(delivered) + i
  PROVE  ~EndQueued
<1> SUFFICES ASSUME queue # <<>> PROVE queue[Len(queue)] # End
  BY DEF EndQueued
<1>1. Len(queue) \in 1..Len(queue)
  OBVIOUS
<1>2. queue[Len(queue)] = Len(delivered) + Len(queue)
  BY <1>1
<1> QED BY <1>1, <1>2 DEF End

\* A frame put into the queue.
LEMMA FrameQueued ==
  ASSUME Sizes, NumberedThrough, client = "here", pc # "done", UNCHANGED delivered,
         queue' = Append(queue, Len(delivered) + Len(queue) + 1)
  PROVE  /\ ~EndQueued /\ ~EndQueued' /\ Len(queue') = Len(queue) + 1
         /\ \A i \in 1..Len(queue') : queue'[i] = Len(delivered) + i
<1>1. /\ queue \in Seq(Nat) /\ delivered \in Seq(Nat)
      /\ \A i \in 1..Len(queue) : queue[i] = Len(delivered) + i
  BY DEF Sizes, NumberedThrough
<1> DEFINE f == Len(delivered) + Len(queue) + 1
<1>2. f \in Nat /\ Len(queue) \in Nat /\ Len(delivered) \in Nat /\ queue' = Append(queue, f)
  BY <1>1
<1> HIDE DEF f
<1>3. /\ Len(queue') = Len(queue) + 1 /\ queue' # <<>>
      /\ queue'[Len(queue) + 1] = f
      /\ \A i \in 1..Len(queue) : queue'[i] = queue[i]
  BY <1>1, <1>2, AppendProperties
<1>4. \A i \in 1..Len(queue') : queue'[i] = Len(delivered) + i
  <2> SUFFICES ASSUME NEW i \in 1..Len(queue') PROVE queue'[i] = Len(delivered) + i
    OBVIOUS
  <2>1. CASE i \in 1..Len(queue)
    BY <1>1, <1>3, <2>1
  <2>2. CASE i \notin 1..Len(queue)
    <3>1. i = Len(queue) + 1
      BY <1>2, <1>3, <2>2
    <3>2. f = Len(delivered) + (Len(queue) + 1)
      BY <1>2 DEF f
    <3> QED BY <1>3, <3>1, <3>2
  <2> QED BY <2>1, <2>2
<1>5. ~EndQueued
  BY <1>1, <1>2, NotEnded
<1>6. ~EndQueued'
  <2>1. queue'[Len(queue')] = Len(delivered) + Len(queue) + 1
    BY <1>2, <1>3 DEF f
  <2> QED BY <1>2, <2>1 DEF EndQueued, End
<1> QED BY <1>3, <1>4, <1>5, <1>6

\* A frame that is sent carries the next number.
LEMMA FrameNumbered ==
  ASSUME Sizes, NumberedThrough, NEW isLast, Frame(isLast)
  PROVE  NumberedThrough'
<1> SUFFICES ASSUME client = "here"
             PROVE  NumberedThrough'
  BY DEF NumberedThrough, Frame, conn
<1>1. pc = "working" /\ UNCHANGED <<client, delivered>> /\ emitted' = emitted + 1
  BY DEF Frame, conn
<1>2. /\ queue \in Seq(Nat) /\ delivered \in Seq(Nat) /\ emitted \in Nat
      /\ \A i \in 1..Len(queue) : queue[i] = Len(delivered) + i
      /\ \A i \in 1..Len(delivered) : delivered[i] = i
  BY <1>1 DEF Sizes, NumberedThrough
<1>3. ~EndQueued /\ Len(delivered) + Len(queue) = emitted
  <2>1. ~EndQueued
    BY <1>2, NotEnded
  <2>2. Len(delivered) + Len(queue) + Waiting = emitted + (IF EndQueued THEN 1 ELSE 0)
    BY DEF NumberedThrough
  <2> QED BY <1>1, <1>2, <2>1, <2>2 DEF Waiting
<1>4. CASE Room
  <2>1. queue' = Append(queue, Len(delivered) + Len(queue) + 1) /\ pc' # "put"
    BY <1>3, <1>4 DEF Frame, Enqueue
  <2>2. /\ ~EndQueued' /\ Len(queue') = Len(queue) + 1
        /\ \A i \in 1..Len(queue') : queue'[i] = Len(delivered) + i
    BY <1>1, <2>1, FrameQueued
  <2>3. /\ \A i \in 1..Len(delivered') : delivered'[i] = i
        /\ \A i \in 1..Len(queue') : queue'[i] = Len(delivered') + i
    BY <1>1, <1>2, <2>2
  <2>4. Len(delivered') + Len(queue') + Waiting' = emitted' + (IF EndQueued' THEN 1 ELSE 0)
    <3>1. /\ Len(queue) \in Nat /\ Len(delivered') = Len(delivered) /\ Len(delivered) \in Nat
          /\ Waiting' = 0 /\ Len(queue') = Len(queue) + 1
      BY <1>1, <1>2, <2>1, <2>2 DEF Waiting
    <3> QED BY <1>1, <1>3, <2>2, <3>1
  <2> QED BY <2>3, <2>4 DEF NumberedThrough
<1>5. CASE ~Room
  <2>1. UNCHANGED queue /\ pc' = "put"
    BY <1>5 DEF Frame
  <2> QED BY <1>1, <1>2, <1>3, <2>1 DEF NumberedThrough, Waiting, EndQueued
<1> QED BY <1>4, <1>5

\* No step skips a number or sends one twice.
LEMMA NumberedStep ==
  Sizes /\ NumberedThrough /\ FramesBounded /\ Outcome /\ [Next]_vars => NumberedThrough'
<1> SUFFICES ASSUME Sizes, NumberedThrough, FramesBounded, Outcome, [Next]_vars PROVE NumberedThrough'
  OBVIOUS
<1>1. CASE Open
  BY <1>1 DEF Open, Write, conn, NumberedThrough, EndQueued, Waiting
<1>2. CASE Event
  BY <1>2, FrameNumbered DEF Event
<1>3. CASE Unanswered
  BY <1>3, FrameNumbered DEF Unanswered
<1>4. CASE Synthesise
  BY <1>4, FrameNumbered DEF Synthesise
<1>5. CASE AgentFails
  BY <1>5, FrameNumbered DEF AgentFails
<1>6. CASE RunFinished
  BY <1>6, FrameNumbered DEF RunFinished
<1>7. CASE StreamFails
  BY <1>7, FrameNumbered DEF StreamFails
<1>8. CASE PutResumes
  <2> SUFFICES ASSUME client = "here" PROVE NumberedThrough'
    BY <1>8 DEF PutResumes, conn, NumberedThrough
  <2>1. pc = "put" /\ UNCHANGED <<client, delivered, emitted>>
    BY <1>8 DEF PutResumes, conn
  <2>2. /\ queue \in Seq(Nat) /\ delivered \in Seq(Nat) /\ emitted \in Nat
        /\ \A i \in 1..Len(queue) : queue[i] = Len(delivered) + i
        /\ \A i \in 1..Len(delivered) : delivered[i] = i
    BY <2>1 DEF Sizes, NumberedThrough
  <2>3. ~EndQueued /\ Len(delivered) + Len(queue) + 1 = emitted
    BY <2>1, <2>2 DEF NumberedThrough, EndQueued, End, Waiting
  <2>4. queue' = Append(queue, Len(delivered) + Len(queue) + 1) /\ pc' # "put"
    BY <1>8, <2>3 DEF PutResumes, Enqueue
  <2>5. /\ ~EndQueued' /\ Len(queue') = Len(queue) + 1
        /\ \A i \in 1..Len(queue') : queue'[i] = Len(delivered) + i
    BY <2>1, <2>4, FrameQueued
  <2> QED BY <2>1, <2>2, <2>3, <2>4, <2>5 DEF NumberedThrough, Waiting
<1>9. CASE PutsEnd
  <2> SUFFICES ASSUME client = "here" PROVE NumberedThrough'
    BY <1>9 DEF PutsEnd, conn, NumberedThrough
  <2>1. /\ pc = "end" /\ pc' = "done" /\ queue' = Append(queue, End)
        /\ UNCHANGED <<client, delivered, emitted>>
    BY <1>9 DEF PutsEnd, conn
  <2>2. /\ queue \in Seq(Nat) /\ delivered \in Seq(Nat) /\ emitted \in Nat
        /\ \A i \in 1..Len(queue) : queue[i] = Len(delivered) + i
        /\ \A i \in 1..Len(delivered) : delivered[i] = i
    BY <2>1 DEF Sizes, NumberedThrough
  <2>3. ~EndQueued /\ Len(delivered) + Len(queue) = emitted
    BY <2>1, <2>2 DEF NumberedThrough, EndQueued, End, Waiting
  <2>4. /\ Len(queue') = Len(queue) + 1 /\ queue' # <<>>
        /\ queue'[Len(queue) + 1] = End
        /\ \A i \in 1..Len(queue) : queue'[i] = queue[i]
    <3>1. End \in Nat
      BY DEF End
    <3>2. /\ Len(queue') = Len(queue) + 1 /\ queue'[Len(queue) + 1] = End
          /\ \A i \in 1..Len(queue) : queue'[i] = queue[i]
      BY <2>1, <2>2, <3>1, AppendProperties
    <3>3. queue' # <<>>
      BY <2>2, <3>2
    <3> QED BY <3>2, <3>3
  <2>5. EndQueued'
    BY <2>4 DEF EndQueued
  <2>6. \A i \in 1..Len(delivered') : delivered'[i] = i
    BY <2>1, <2>2
  <2>7. \A i \in 1..Len(queue') :
           \/ queue'[i] = Len(delivered') + i
           \/ queue'[i] = End /\ i = Len(queue') /\ pc' = "done"
    <3> SUFFICES ASSUME NEW i \in 1..Len(queue')
                 PROVE  \/ queue'[i] = Len(delivered') + i
                        \/ queue'[i] = End /\ i = Len(queue') /\ pc' = "done"
      OBVIOUS
    <3>1. i \in 1..Len(queue) \/ i = Len(queue) + 1
      BY <2>2, <2>4
    <3> QED BY <2>1, <2>2, <2>4, <3>1
  <2>8. Len(delivered') + Len(queue') + Waiting' = emitted' + (IF EndQueued' THEN 1 ELSE 0)
    BY <2>1, <2>2, <2>3, <2>4, <2>5 DEF Waiting
  <2> QED BY <2>6, <2>7, <2>8 DEF NumberedThrough
<1>10. CASE Collect
  BY <1>10 DEF Outcome, Collect, conn, NumberedThrough
<1>11. CASE Deliver
  <2>1. /\ client = "here" /\ queue # <<>> /\ Head(queue) # End
        /\ delivered' = Append(delivered, Head(queue)) /\ queue' = Tail(queue)
        /\ UNCHANGED <<client, pc, emitted>>
    BY <1>11 DEF Deliver
  <2>2. queue \in Seq(Nat) /\ delivered \in Seq(Nat) /\ emitted \in Nat
    BY DEF Sizes
  <2>3. /\ Head(queue) = queue[1] /\ Len(queue') = Len(queue) - 1 /\ Len(queue) >= 1
        /\ \A i \in 1..Len(queue') : queue'[i] = queue[i + 1]
    BY <2>1, <2>2
  <2>4. /\ Len(delivered') = Len(delivered) + 1
        /\ \A i \in 1..Len(delivered) : delivered'[i] = delivered[i]
        /\ delivered'[Len(delivered) + 1] = queue[1]
    BY <2>1, <2>2, <2>3
  <2>10. /\ \A i \in 1..Len(delivered) : delivered[i] = i
         /\ \A i \in 1..Len(queue) :
              \/ queue[i] = Len(delivered) + i
              \/ queue[i] = End /\ i = Len(queue) /\ pc = "done"
         /\ Len(delivered) + Len(queue) + Waiting = emitted + (IF EndQueued THEN 1 ELSE 0)
    BY <2>1 DEF NumberedThrough
  <2>11. Len(queue) \in Nat /\ Len(delivered) \in Nat
    BY <2>2
  <2>5. queue[1] = Len(delivered) + 1
    <3>1. 1 \in 1..Len(queue) /\ queue[1] # End
      BY <2>1, <2>3, <2>11
    <3> QED BY <2>10, <3>1
  <2>6. EndQueued <=> EndQueued'
    <3>1. CASE Len(queue) = 1
      BY <2>1, <2>2, <2>3, <3>1 DEF EndQueued
    <3>2. CASE Len(queue) > 1
      <4>1. queue' # <<>> /\ Len(queue') \in 1..Len(queue')
        <5>1. Len(queue') \in Nat /\ Len(queue') >= 1
          BY <2>3, <2>11, <3>2
        <5> QED BY <5>1
      <4>2. queue'[Len(queue')] = queue[Len(queue)]
        BY <2>3, <2>11, <4>1
      <4> QED BY <2>1, <4>1, <4>2 DEF EndQueued
    <3> QED BY <2>3, <2>11, <3>1, <3>2
  <2>7. \A i \in 1..Len(delivered') : delivered'[i] = i
    <3> SUFFICES ASSUME NEW i \in 1..Len(delivered') PROVE delivered'[i] = i
      OBVIOUS
    <3>1. i \in 1..Len(delivered) \/ i = Len(delivered) + 1
      BY <2>4, <2>11
    <3> QED BY <2>4, <2>5, <2>10, <3>1
  <2>8. \A i \in 1..Len(queue') :
           \/ queue'[i] = Len(delivered') + i
           \/ queue'[i] = End /\ i = Len(queue') /\ pc' = "done"
    <3> SUFFICES ASSUME NEW i \in 1..Len(queue')
                 PROVE  \/ queue'[i] = Len(delivered') + i
                        \/ queue'[i] = End /\ i = Len(queue') /\ pc' = "done"
      OBVIOUS
    <3>1. i + 1 \in 1..Len(queue) /\ queue'[i] = queue[i + 1]
      BY <2>3, <2>11
    <3>2. \/ queue[i + 1] = Len(delivered) + (i + 1)
          \/ queue[i + 1] = End /\ i + 1 = Len(queue) /\ pc = "done"
      BY <2>10, <3>1
    <3>3. Len(delivered) + (i + 1) = Len(delivered') + i /\ (i + 1 = Len(queue) => i = Len(queue'))
      BY <2>3, <2>4, <2>11
    <3> QED BY <2>1, <3>1, <3>2, <3>3
  <2>9. Len(delivered') + Len(queue') + Waiting' = emitted' + (IF EndQueued' THEN 1 ELSE 0)
    <3>1. Waiting' = Waiting /\ Waiting \in {0, 1} /\ emitted' = emitted
      BY <2>1 DEF Waiting
    <3>2. Len(delivered') + Len(queue') = Len(delivered) + Len(queue)
      BY <2>3, <2>4, <2>11
    <3>3. Len(delivered') \in Nat /\ Len(queue') \in Nat
      BY <2>3, <2>4, <2>11
    <3> QED BY <2>6, <2>10, <2>11, <3>1, <3>2, <3>3
  <2> QED BY <2>7, <2>8, <2>9 DEF NumberedThrough
<1>12. CASE Disconnect
  BY <1>12 DEF Disconnect, HangUp, NumberedThrough
<1>13. CASE CloseRun
  BY <1>13 DEF CloseRun, Write, conn, NumberedThrough, EndQueued, Waiting
<1>14. CASE SaveTurn
  BY <1>14 DEF SaveTurn, Write, conn, NumberedThrough, EndQueued, Waiting
<1>15. CASE RecordFinish
  BY <1>15 DEF RecordFinish, Write, conn, NumberedThrough, EndQueued, Waiting
<1>16. CASE Refusing
  BY <1>16 DEF Refusing, conn, NumberedThrough, EndQueued, Waiting
<1>17. CASE RefusedTurn
  BY <1>17 DEF RefusedTurn, Write, conn, NumberedThrough, EndQueued, Waiting
<1>18. CASE RefusedClose
  BY <1>18 DEF RefusedClose, Write, conn, NumberedThrough, EndQueued, Waiting
<1>19. CASE TimePasses
  BY <1>19 DEF TimePasses, conn, NumberedThrough, EndQueued, Waiting
<1>20. CASE Crash
  BY <1>20 DEF Crash, NumberedThrough
<1>21. CASE Restart
  BY <1>21 DEF Restart, Reaps, conn, NumberedThrough, EndQueued, Waiting
<1>22. CASE OtherBoots
  BY <1>22 DEF OtherBoots, Reaps, conn, NumberedThrough, EndQueued, Waiting
<1>23. CASE ReapWrite
  BY <1>23 DEF ReapWrite, Write, conn, NumberedThrough, EndQueued, Waiting
<1>24. CASE UNCHANGED vars
  BY <1>24 DEF vars, conn, NumberedThrough, EndQueued, Waiting
<1> QED BY <1>1, <1>2, <1>3, <1>4, <1>5, <1>6, <1>7, <1>8, <1>9, <1>10, <1>11,
           <1>12, <1>13, <1>14, <1>15, <1>16, <1>17, <1>18, <1>19, <1>20, <1>21, <1>22, <1>23,
           <1>24, StepIsAction

\* What is delivered and what is in flight are the frames made.
LEMMA InOrder ==
  ASSUME Sizes, NumberedThrough, client = "here"
  PROVE  delivered \o InFlight = Frames(emitted)
<1> DEFINE A == Nat \ {End}
           P == IF pc = "put" THEN <<emitted>> ELSE <<>>
<1>1. /\ queue \in Seq(Nat) /\ delivered \in Seq(Nat) /\ emitted \in Nat
      /\ Len(queue) \in Nat /\ Len(delivered) \in Nat
  BY DEF Sizes
<1>2. \A i \in 1..Len(delivered) : delivered[i] = i
  BY DEF NumberedThrough
<1>3. PICK F \in Seq(Nat) : queue = IF EndQueued THEN Append(F, End) ELSE F
  <2>1. CASE EndQueued
    <3>1. PICK F \in Seq(Nat), e \in Nat : queue = Append(F, e)
      BY <1>1, <2>1, SequenceEmptyOrAppend DEF EndQueued
    <3>2. e = End
      BY <2>1, <3>1 DEF EndQueued
    <3> QED BY <2>1, <3>1, <3>2
  <2>2. CASE ~EndQueued
    BY <1>1, <2>2
  <2> QED BY <2>1, <2>2
<1>4. /\ Len(F) = Len(queue) - (IF EndQueued THEN 1 ELSE 0)
      /\ \A i \in 1..Len(F) : F[i] = Len(delivered) + i
  <2>1. \A i \in 1..Len(queue) :
           \/ queue[i] = Len(delivered) + i
           \/ queue[i] = End /\ i = Len(queue)
    BY DEF NumberedThrough
  <2>2. Len(F) \in Nat
    BY <1>3
  <2>3. CASE EndQueued
    <3>1. End \in Nat /\ queue = Append(F, End)
      BY <1>3, <2>3 DEF End
    <3>2. Len(queue) = Len(F) + 1 /\ \A i \in 1..Len(F) : queue[i] = F[i]
      BY <3>1, AppendProperties
    <3> QED BY <2>1, <2>2, <2>3, <3>2
  <2>4. CASE ~EndQueued
    <3>1. \A i \in 1..Len(queue) : i = Len(queue) => queue[i] # End
      BY <1>1, <2>4 DEF EndQueued
    <3> QED BY <1>3, <2>1, <2>2, <2>4, <3>1
  <2> QED BY <2>3, <2>4
<1>5. Kept(F, A) = F
  <2>1. ASSUME NEW i \in 1..Len(F) PROVE F[i] \in A
    <3>1. Len(F) \in Nat /\ Len(delivered) \in Nat /\ F[i] = Len(delivered) + i
      BY <1>1, <1>3, <1>4
    <3>2. F[i] \in Nat /\ F[i] # End
      BY <3>1 DEF End
    <3> QED BY <3>2
  <2> HIDE DEF A
  <2> QED BY <1>3, <2>1, KeptWhole
<1>6. Kept(queue, A) = F
  <2>1. CASE EndQueued
    <3>1. Kept(Append(F, End), A) = IF End \in A THEN Append(Kept(F, A), End) ELSE Kept(F, A)
      <4>1. End \in Nat
        BY DEF End
      <4> HIDE DEF A
      <4> QED BY <1>3, <4>1, KeptAppend
    <3> QED BY <1>3, <1>5, <2>1, <3>1 DEF End
  <2>2. CASE ~EndQueued
    BY <1>3, <1>5, <2>2
  <2> QED BY <2>1, <2>2
<1>7. InFlight = F \o P
  BY <1>6 DEF InFlight
<1>8. P \in Seq(Nat) /\ Len(P) = Waiting /\ (pc = "put" => P[1] = emitted)
  BY <1>1 DEF Waiting
<1> HIDE DEF P
<1>9. Len(delivered) + Len(F) + Len(P) = emitted
  <2>1. Len(delivered) + Len(queue) + Waiting = emitted + (IF EndQueued THEN 1 ELSE 0)
    BY DEF NumberedThrough
  <2>2. Waiting \in {0, 1} /\ Len(F) \in Nat
    BY <1>3 DEF Waiting
  <2>3. CASE EndQueued
    BY <1>1, <1>4, <1>8, <2>1, <2>2, <2>3
  <2>4. CASE ~EndQueued
    BY <1>1, <1>4, <1>8, <2>1, <2>2, <2>4
  <2> QED BY <2>3, <2>4
<1>10. (pc = "put" <=> Len(P) = 1) /\ Len(P) \in {0, 1}
  BY <1>8 DEF Waiting
<1>11. /\ F \o P \in Seq(Nat) /\ Len(F \o P) = Len(F) + Len(P)
       /\ \A i \in 1..Len(F \o P) : (F \o P)[i] = Len(delivered) + i
  <2>1. /\ F \o P \in Seq(Nat) /\ Len(F \o P) = Len(F) + Len(P)
        /\ \A i \in 1..(Len(F) + Len(P)) :
             (F \o P)[i] = IF i <= Len(F) THEN F[i] ELSE P[i - Len(F)]
    BY <1>3, <1>8, ConcatProperties
  <2>2. Len(F) \in Nat /\ Len(P) \in Nat
    BY <1>3, <1>8
  <2>3. ASSUME NEW i \in 1..(Len(F) + Len(P)) PROVE (F \o P)[i] = Len(delivered) + i
    <3>1. CASE i <= Len(F)
      BY <1>4, <2>1, <2>2, <3>1
    <3>2. CASE i > Len(F)
      <4>1. i = Len(F) + 1 /\ pc = "put" /\ i - Len(F) = 1
        <5>1. Len(P) = 1
          BY <1>10, <2>2, <3>2
        <5> QED BY <1>10, <2>2, <3>2, <5>1
      <4>2. (F \o P)[i] = P[1]
        BY <2>1, <2>2, <3>2, <4>1
      <4> QED BY <1>1, <1>8, <1>9, <1>10, <2>2, <4>1, <4>2
    <3> QED BY <2>2, <3>1, <3>2
  <2> QED BY <2>1, <2>3
<1> DEFINE Q == F \o P
<1> HIDE DEF Q
<1>12. /\ Q \in Seq(Nat) /\ Len(delivered) + Len(Q) = emitted
       /\ \A i \in 1..Len(Q) : Q[i] = Len(delivered) + i
  BY <1>1, <1>9, <1>11 DEF Q
<1>13. /\ delivered \o Q \in Seq(Nat) /\ Len(delivered \o Q) = emitted
       /\ \A i \in 1..emitted : (delivered \o Q)[i] = i
  <2>1. /\ delivered \o Q \in Seq(Nat) /\ Len(delivered \o Q) = Len(delivered) + Len(Q)
        /\ \A i \in 1..(Len(delivered) + Len(Q)) :
             (delivered \o Q)[i] = IF i <= Len(delivered) THEN delivered[i]
                                   ELSE Q[i - Len(delivered)]
    BY <1>1, <1>12, ConcatProperties
  <2>2. Len(Q) \in Nat
    BY <1>12
  <2>3. ASSUME NEW i \in 1..emitted PROVE (delivered \o Q)[i] = i
    <3>1. CASE i <= Len(delivered)
      <4>1. i \in 1..Len(delivered) /\ i \in 1..(Len(delivered) + Len(Q))
        BY <1>1, <1>12, <2>2, <3>1
      <4>2. (delivered \o Q)[i] = delivered[i]
        BY <2>1, <3>1, <4>1
      <4> QED BY <1>2, <4>1, <4>2
    <3>2. CASE i > Len(delivered)
      <4> DEFINE j == i - Len(delivered)
      <4>1. j \in 1..Len(Q) /\ Len(delivered) + j = i
        BY <1>1, <1>12, <2>2, <3>2
      <4>2. (delivered \o Q)[i] = Q[j]
        BY <1>1, <1>12, <2>1, <3>2
      <4> HIDE DEF j
      <4>3. Q[j] = Len(delivered) + j
        BY <1>12, <4>1
      <4> QED BY <4>1, <4>2, <4>3, Zenon
    <3>3. i <= Len(delivered) \/ i > Len(delivered)
      BY <1>1
    <3> QED BY <3>1, <3>2, <3>3, Zenon
  <2> QED BY <1>12, <2>1, <2>3
<1>14. Frames(emitted) \in Seq(Nat) /\ Len(Frames(emitted)) = emitted
  BY <1>1 DEF Frames
<1>15. \A i \in 1..emitted : Frames(emitted)[i] = i
  BY DEF Frames
<1>16. delivered \o Q = Frames(emitted)
  BY <1>13, <1>14, <1>15, SeqEqual
<1> QED BY <1>7, <1>16 DEF Q

-----------------------------------------------------------------------------
(* The bound, the finaliser and the outcome.                               *)

\* No step sends more frames than there are events.
LEMMA BoundStep == IInv /\ [Next]_vars => FramesBounded'
<1> SUFFICES ASSUME IInv, [Next]_vars PROVE FramesBounded'
  OBVIOUS
<1> USE DEF IInv, TypeOK, FramesBounded, Making
<1>1. CASE Open
  BY <1>1 DEF Open, Write, database, agentVars, conn, procs
<1>2. CASE Event
  BY <1>2
     DEF Event, Frame, Enqueue, Finalise, NoFinalise, Room, database, agentVars,
         conn, procs
<1>3. CASE Unanswered
  BY <1>3
     DEF Unanswered, Frame, Enqueue, Finalise, NoFinalise, Room, database,
         agentVars, conn, procs
<1>4. CASE Synthesise
  BY <1>4
     DEF Synthesise, Frame, Enqueue, Finalise, NoFinalise, Room, database,
         agentVars, conn, procs
<1>5. CASE AgentFails
  BY <1>5
     DEF AgentFails, Frame, Enqueue, Finalise, NoFinalise, Room, database,
         agentVars, conn, procs
<1>6. CASE RunFinished
  BY <1>6
     DEF RunFinished, Frame, Enqueue, Finalise, NoFinalise, Room, database,
         agentVars, conn, procs
<1>7. CASE StreamFails
  BY <1>7
     DEF StreamFails, Frame, Enqueue, Finalise, NoFinalise, Room, database,
         agentVars, conn, procs
<1>8. CASE PutResumes
  BY <1>8
     DEF PutResumes, Enqueue, Finalise, NoFinalise, Room, database, agentVars, conn,
         procs
<1>9. CASE PutsEnd
  BY <1>9 DEF PutsEnd, Room, End, database, agentVars, conn, procs
<1>10. CASE Collect
  BY <1>10 DEF Collect, Finalise, database, agentVars, conn, procs
<1>11. CASE Deliver
  BY <1>11 DEF Deliver, End, database, agentVars, conn, procs
<1>12. CASE Disconnect
  BY <1>12
     DEF Disconnect, HangUp, Finalise, NoFinalise, database, agentVars, conn, procs
<1>13. CASE CloseRun
  BY <1>13 DEF CloseRun, Write, database, agentVars, conn, procs
<1>14. CASE SaveTurn
  BY <1>14 DEF SaveTurn, Write, database, agentVars, conn, procs
<1>15. CASE RecordFinish
  BY <1>15 DEF RecordFinish, Write, database, agentVars, conn, procs
<1>16. CASE Refusing
  BY <1>16 DEF Refusing, database, agentVars, conn, procs
<1>17. CASE RefusedTurn
  BY <1>17 DEF RefusedTurn, Write, database, agentVars, conn, procs
<1>18. CASE RefusedClose
  BY <1>18 DEF RefusedClose, Write, database, agentVars, conn, procs
<1>19. CASE TimePasses
  BY <1>19 DEF TimePasses, database, agentVars, conn, procs
<1>20. CASE Crash
  BY <1>20 DEF Crash, database, agentVars, conn, procs
<1>21. CASE Restart
  BY <1>21 DEF Restart, Reaps, database, agentVars, conn, procs
<1>22. CASE OtherBoots
  BY <1>22 DEF OtherBoots, Reaps, database, agentVars, conn, procs
<1>23. CASE ReapWrite
  BY <1>23 DEF ReapWrite, Write, database, agentVars, conn, procs
<1>24. CASE UNCHANGED vars
  BY <1>24 DEF vars, database, agentVars, conn, procs
<1> QED BY <1>1, <1>2, <1>3, <1>4, <1>5, <1>6, <1>7, <1>8, <1>9, <1>10, <1>11,
           <1>12, <1>13, <1>14, <1>15, <1>16, <1>17, <1>18, <1>19, <1>20, <1>21, <1>22, <1>23,
           <1>24, StepIsAction

\* No step finalises a run twice.
LEMMA FinalStep == IInv /\ [Next]_vars => Finalising'
<1> SUFFICES ASSUME IInv, [Next]_vars PROVE Finalising'
  OBVIOUS
<1> USE DEF IInv, TypeOK, Finalising
<1>1. CASE Open
  BY <1>1 DEF Open, Write, database, agentVars, conn, procs
<1>2. CASE Event
  BY <1>2
     DEF Event, Frame, Enqueue, Finalise, NoFinalise, Room, database, agentVars,
         conn, procs
<1>3. CASE Unanswered
  BY <1>3
     DEF Unanswered, Frame, Enqueue, Finalise, NoFinalise, Room, database,
         agentVars, conn, procs
<1>4. CASE Synthesise
  BY <1>4
     DEF Synthesise, Frame, Enqueue, Finalise, NoFinalise, Room, database,
         agentVars, conn, procs
<1>5. CASE AgentFails
  BY <1>5
     DEF AgentFails, Frame, Enqueue, Finalise, NoFinalise, Room, database,
         agentVars, conn, procs
<1>6. CASE RunFinished
  BY <1>6
     DEF RunFinished, Frame, Enqueue, Finalise, NoFinalise, Room, database,
         agentVars, conn, procs
<1>7. CASE StreamFails
  BY <1>7
     DEF StreamFails, Frame, Enqueue, Finalise, NoFinalise, Room, database,
         agentVars, conn, procs
<1>8. CASE PutResumes
  BY <1>8
     DEF PutResumes, Enqueue, Finalise, NoFinalise, Room, database, agentVars, conn,
         procs
<1>9. CASE PutsEnd
  BY <1>9 DEF PutsEnd, Room, End, database, agentVars, conn, procs
<1>10. CASE Collect
  BY <1>10 DEF Collect, Finalise, database, agentVars, conn, procs
<1>11. CASE Deliver
  BY <1>11 DEF Deliver, End, database, agentVars, conn, procs
<1>12. CASE Disconnect
  BY <1>12
     DEF Disconnect, HangUp, Finalise, NoFinalise, database, agentVars, conn, procs
<1>13. CASE CloseRun
  BY <1>13 DEF CloseRun, Write, database, agentVars, conn, procs
<1>14. CASE SaveTurn
  BY <1>14 DEF SaveTurn, Write, database, agentVars, conn, procs
<1>15. CASE RecordFinish
  BY <1>15 DEF RecordFinish, Write, database, agentVars, conn, procs
<1>16. CASE Refusing
  BY <1>16 DEF Refusing, database, agentVars, conn, procs
<1>17. CASE RefusedTurn
  BY <1>17 DEF RefusedTurn, Write, database, agentVars, conn, procs
<1>18. CASE RefusedClose
  BY <1>18 DEF RefusedClose, Write, database, agentVars, conn, procs
<1>19. CASE TimePasses
  BY <1>19 DEF TimePasses, database, agentVars, conn, procs
<1>20. CASE Crash
  BY <1>20 DEF Crash, database, agentVars, conn, procs
<1>21. CASE Restart
  BY <1>21 DEF Restart, Reaps, database, agentVars, conn, procs
<1>22. CASE OtherBoots
  BY <1>22 DEF OtherBoots, Reaps, database, agentVars, conn, procs
<1>23. CASE ReapWrite
  BY <1>23 DEF ReapWrite, Write, database, agentVars, conn, procs
<1>24. CASE UNCHANGED vars
  BY <1>24 DEF vars, database, agentVars, conn, procs
<1> QED BY <1>1, <1>2, <1>3, <1>4, <1>5, <1>6, <1>7, <1>8, <1>9, <1>10, <1>11,
           <1>12, <1>13, <1>14, <1>15, <1>16, <1>17, <1>18, <1>19, <1>20, <1>21, <1>22, <1>23,
           <1>24, StepIsAction

\* No step ends a run otherwise than its agent, the client or a failed write does.
LEMMA OutcomeStep == IInv /\ [Next]_vars => Outcome'
<1> SUFFICES ASSUME IInv, [Next]_vars PROVE Outcome'
  OBVIOUS
<1> USE DEF IInv, TypeOK, Outcome, Finalising, Making, Succeeded, Closed
<1>1. CASE Open
  BY <1>1 DEF Open, Write, database, agentVars, conn, procs
<1>2. CASE Event
  BY <1>2
     DEF Event, Frame, Enqueue, Finalise, NoFinalise, Room, database, agentVars,
         conn, procs
<1>3. CASE Unanswered
  BY <1>3
     DEF Unanswered, Frame, Enqueue, Finalise, NoFinalise, Room, database,
         agentVars, conn, procs
<1>4. CASE Synthesise
  BY <1>4
     DEF Synthesise, Frame, Enqueue, Finalise, NoFinalise, Room, database,
         agentVars, conn, procs
<1>5. CASE AgentFails
  BY <1>5
     DEF AgentFails, Frame, Enqueue, Finalise, NoFinalise, Room, database,
         agentVars, conn, procs
<1>6. CASE RunFinished
  BY <1>6
     DEF RunFinished, Frame, Enqueue, Finalise, NoFinalise, Room, database,
         agentVars, conn, procs
<1>7. CASE StreamFails
  BY <1>7
     DEF StreamFails, Frame, Enqueue, Finalise, NoFinalise, Room, database,
         agentVars, conn, procs
<1>8. CASE PutResumes
  BY <1>8
     DEF PutResumes, Enqueue, Finalise, NoFinalise, Room, database, agentVars, conn,
         procs
<1>9. CASE PutsEnd
  BY <1>9 DEF PutsEnd, Room, End, database, agentVars, conn, procs
<1>10. CASE Collect
  BY <1>10 DEF Collect, Finalise, database, agentVars, conn, procs
<1>11. CASE Deliver
  BY <1>11 DEF Deliver, End, database, agentVars, conn, procs
<1>12. CASE Disconnect
  BY <1>12
     DEF Disconnect, HangUp, Finalise, NoFinalise, database, agentVars, conn, procs
<1>13. CASE CloseRun
  BY <1>13 DEF CloseRun, Write, database, agentVars, conn, procs
<1>14. CASE SaveTurn
  BY <1>14 DEF SaveTurn, Write, database, agentVars, conn, procs
<1>15. CASE RecordFinish
  BY <1>15 DEF RecordFinish, Write, database, agentVars, conn, procs
<1>16. CASE Refusing
  BY <1>16 DEF Refusing, database, agentVars, conn, procs
<1>17. CASE RefusedTurn
  BY <1>17 DEF RefusedTurn, Write, database, agentVars, conn, procs
<1>18. CASE RefusedClose
  BY <1>18 DEF RefusedClose, Write, database, agentVars, conn, procs
<1>19. CASE TimePasses
  BY <1>19 DEF TimePasses, database, agentVars, conn, procs
<1>20. CASE Crash
  BY <1>20 DEF Crash, database, agentVars, conn, procs
<1>21. CASE Restart
  BY <1>21 DEF Restart, Reaps, database, agentVars, conn, procs
<1>22. CASE OtherBoots
  BY <1>22 DEF OtherBoots, Reaps, database, agentVars, conn, procs
<1>23. CASE ReapWrite
  BY <1>23 DEF ReapWrite, Write, database, agentVars, conn, procs
<1>24. CASE UNCHANGED vars
  BY <1>24 DEF vars, database, agentVars, conn, procs
<1> QED BY <1>1, <1>2, <1>3, <1>4, <1>5, <1>6, <1>7, <1>8, <1>9, <1>10, <1>11,
           <1>12, <1>13, <1>14, <1>15, <1>16, <1>17, <1>18, <1>19, <1>20, <1>21, <1>22, <1>23,
           <1>24, StepIsAction

\* And none records an end that the run did not have.
LEMMA RecordStep == IInv /\ [Next]_vars => RecordedOutcome'
<1> SUFFICES ASSUME IInv, [Next]_vars PROVE RecordedOutcome'
  OBVIOUS
<1> USE DEF IInv, TypeOK, RecordedOutcome, Outcome, Finalising, FramesBounded, Making, Succeeded, Closed
<1>1. CASE Open
  BY <1>1 DEF Open, Write, database, agentVars, conn, procs
<1>2. CASE Event
  BY <1>2
     DEF Event, Frame, Enqueue, Finalise, NoFinalise, Room, database, agentVars,
         conn, procs
<1>3. CASE Unanswered
  BY <1>3
     DEF Unanswered, Frame, Enqueue, Finalise, NoFinalise, Room, database,
         agentVars, conn, procs
<1>4. CASE Synthesise
  BY <1>4
     DEF Synthesise, Frame, Enqueue, Finalise, NoFinalise, Room, database,
         agentVars, conn, procs
<1>5. CASE AgentFails
  BY <1>5
     DEF AgentFails, Frame, Enqueue, Finalise, NoFinalise, Room, database,
         agentVars, conn, procs
<1>6. CASE RunFinished
  BY <1>6
     DEF RunFinished, Frame, Enqueue, Finalise, NoFinalise, Room, database,
         agentVars, conn, procs
<1>7. CASE StreamFails
  BY <1>7
     DEF StreamFails, Frame, Enqueue, Finalise, NoFinalise, Room, database,
         agentVars, conn, procs
<1>8. CASE PutResumes
  BY <1>8
     DEF PutResumes, Enqueue, Finalise, NoFinalise, Room, database, agentVars, conn,
         procs
<1>9. CASE PutsEnd
  BY <1>9 DEF PutsEnd, Room, End, database, agentVars, conn, procs
<1>10. CASE Collect
  BY <1>10 DEF Collect, Finalise, database, agentVars, conn, procs
<1>11. CASE Deliver
  BY <1>11 DEF Deliver, End, database, agentVars, conn, procs
<1>12. CASE Disconnect
  BY <1>12
     DEF Disconnect, HangUp, Finalise, NoFinalise, database, agentVars, conn, procs
<1>13. CASE CloseRun
  BY <1>13 DEF CloseRun, Write, database, agentVars, conn, procs
<1>14. CASE SaveTurn
  BY <1>14 DEF SaveTurn, Write, database, agentVars, conn, procs
<1>15. CASE RecordFinish
  BY <1>15 DEF RecordFinish, Write, database, agentVars, conn, procs
<1>16. CASE Refusing
  BY <1>16 DEF Refusing, database, agentVars, conn, procs
<1>17. CASE RefusedTurn
  BY <1>17 DEF RefusedTurn, Write, database, agentVars, conn, procs
<1>18. CASE RefusedClose
  BY <1>18 DEF RefusedClose, Write, database, agentVars, conn, procs
<1>19. CASE TimePasses
  BY <1>19 DEF TimePasses, database, agentVars, conn, procs
<1>20. CASE Crash
  BY <1>20 DEF Crash, database, agentVars, conn, procs
<1>21. CASE Restart
  BY <1>21 DEF Restart, Reaps, database, agentVars, conn, procs
<1>22. CASE OtherBoots
  BY <1>22 DEF OtherBoots, Reaps, database, agentVars, conn, procs
<1>23. CASE ReapWrite
  BY <1>23 DEF ReapWrite, Write, database, agentVars, conn, procs
<1>24. CASE UNCHANGED vars
  BY <1>24 DEF vars, database, agentVars, conn, procs
<1> QED BY <1>1, <1>2, <1>3, <1>4, <1>5, <1>6, <1>7, <1>8, <1>9, <1>10, <1>11,
           <1>12, <1>13, <1>14, <1>15, <1>16, <1>17, <1>18, <1>19, <1>20, <1>21, <1>22, <1>23,
           <1>24, StepIsAction

\* No step breaks the inductive invariant.
LEMMA Invariance == IInv /\ [Next]_vars => IInv'
BY TypeParts, TypeStep, NumberedStep, BoundStep, FinalStep, OutcomeStep, RecordStep
   DEF IInv

-----------------------------------------------------------------------------
\* It is an invariant of the stream.
LEMMA AlwaysIInv == Spec => []IInv
BY Started, Invariance, PTL DEF Spec

\* Nothing of a run is lost or swapped on its way to a client that is there, and
\* its finaliser is scheduled once, whatever fails (with_heartbeat, chat_stream).
THEOREM StreamIsKept == Spec => []StreamInv
<1>1. IInv => StreamInv
  BY TypeParts, InOrder
     DEF IInv, StreamInv, NothingLostOnTheWay, FinalisedOnce, Finalising
<1> QED BY <1>1, AlwaysIInv, PTL

\* What the database says of a run is what became of it (_finalise, close_run and
\* reap_orphans).
THEOREM OutcomeIsTheRuns == Spec => []RecordedOutcome
<1>1. IInv => RecordedOutcome
  BY DEF IInv
<1> QED BY <1>1, AlwaysIInv, PTL
=============================================================================
