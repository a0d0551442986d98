-------------------------- MODULE AgentLoopProofs --------------------------
(***************************************************************************)
(* AgentLoop for any tools, requests, replies and limits: what bounds a    *)
(* run, what a plan looks like whatever the planner replied, and that it   *)
(* is carried out step by step until the answer.                           *)
(***************************************************************************)
EXTENDS AgentLoop, ListTheorems, FiniteSetTheorems, TLAPS

\* A call is only prepared while there is one left; and a search is paid for by the
\* step it belongs to or by the counter of the run's extra searches.
Counters ==
  /\ toolCalls \in Nat /\ done \in Nat /\ loops \in Nat /\ searches \in Nat
  /\ pc \in {"plan", "replan", "execute", "search", "judge", "rewrite", "bind",
             "gate", "tool", "rebind", "retool", "answer", "finished"}

\* What prepares a call is only reached with one left.
CallLeft == pc \in {"bind", "gate", "tool", "rebind"} => toolCalls < MaxToolCalls

\* No step is done before there is a plan.
NotStarted == pc \in {"plan", "replan"} => done = 0

\* A search belongs to a retrieve step, and the extra ones are limited.
Retrieving ==
  /\ pc \in {"search", "judge", "rewrite"} => Step.intent = "retrieve"
  /\ loops <= MaxRetrieveLoops - 1
  /\ pc = "judge" => loops < MaxRetrieveLoops - 1

\* Each search was the first of a step that is done or one of the extra ones.
SearchesPaidFor ==
  /\ pc \notin {"judge", "finished"} => searches <= RetrievalsDone + loops
  /\ pc = "judge" => searches <= RetrievalsDone + loops + 1
  /\ SearchesBounded

\* The inductive invariant behind the bounds of a run.
BoundsInv ==
  Counters /\ BudgetKept /\ CallLeft /\ NotStarted /\ Retrieving /\ SearchesPaidFor

-----------------------------------------------------------------------------
(* Counting the retrieve steps that are done.                              *)

\* They are a number, and none at first.
LEMMA RetrievalsType ==
  ASSUME done \in Nat
  PROVE  RetrievalsDone \in Nat /\ (done = 0 => RetrievalsDone = 0)
<1> DEFINE R == {i \in 1 .. done : steps[i].intent = "retrieve"}
<1>1. IsFiniteSet(1 .. done)
  BY FS_Interval
<1>2. IsFiniteSet(R)
  BY <1>1, FS_Subset
<1>3. Cardinality(R) \in Nat
  BY <1>2, FS_CardinalityType
<1>4. done = 0 => R = {}
  BY SMT
<1>5. done = 0 => Cardinality(R) = 0
  BY <1>4, FS_EmptySet
<1> QED BY <1>3, <1>5 DEF RetrievalsDone

\* A step that is finished is one retrieval more if it is one.
LEMMA RetrievalsGrow ==
  ASSUME done \in Nat, done' = done + 1, UNCHANGED steps
  PROVE  /\ RetrievalsDone' \in Nat
         /\ RetrievalsDone' >= RetrievalsDone
         /\ Step.intent = "retrieve" => RetrievalsDone' = RetrievalsDone + 1
<1> DEFINE R == {i \in 1 .. done : steps[i].intent = "retrieve"}
           More == {i \in 1 .. done + 1 : steps[i].intent = "retrieve"}
<1>0. IsFiniteSet(1 .. done) /\ R \in SUBSET (1 .. done)
  BY FS_Interval
<1>1. IsFiniteSet(R)
  BY <1>0, FS_Subset
<1>2. RetrievalsDone = Cardinality(R) /\ RetrievalsDone' = Cardinality(More)
  BY DEF RetrievalsDone
<1>3. Cardinality(R) \in Nat
  BY <1>1, FS_CardinalityType
<1>4. CASE Step.intent = "retrieve"
  <2>1. More = R \cup {done + 1} /\ done + 1 \notin R
    BY <1>4, SMT DEF Step
  <2>2. Cardinality(R \cup {done + 1}) = Cardinality(R) + 1
    BY <1>1, <2>1, FS_AddElement
  <2> HIDE DEF R, More
  <2> QED BY <1>2, <1>3, <1>4, <2>1, <2>2
<1>5. CASE Step.intent # "retrieve"
  <2>1. More = R
    BY <1>5, SMT DEF Step
  <2> QED BY <1>2, <1>3, <1>5, <2>1
<1> QED BY <1>4, <1>5

\* Where the plan and its progress stay, so does their number.
LEMMA RetrievalsKept ==
  ASSUME UNCHANGED planned
  PROVE  RetrievalsDone' = RetrievalsDone
BY DEF RetrievalsDone, planned

\* Retrieving more leaves as many searches paid for.
LEMMA StillPaidFor ==
  ASSUME NEW r \in Nat, NEW more \in Nat, NEW s \in Nat, NEW l \in Nat,
         more >= r, s <= r + l, l <= MaxRetrieveLoops - 1
  PROVE  s <= more + l /\ s <= more + MaxRetrieveLoops - 1
BY AgentAssumption

-----------------------------------------------------------------------------
\* A run starts within its bounds.
THEOREM BoundsInit == Init => BoundsInv
<1> SUFFICES ASSUME Init PROVE BoundsInv
  OBVIOUS
<1>1. Counters /\ BudgetKept /\ CallLeft /\ NotStarted /\ Retrieving
  BY AgentAssumption DEF Init, Counters, BudgetKept, CallLeft, NotStarted, Retrieving
<1>2. RetrievalsDone = 0
  BY RetrievalsType DEF Init
<1>3. SearchesPaidFor
  BY <1>2, AgentAssumption DEF Init, SearchesPaidFor, SearchesBounded
<1> QED BY <1>1, <1>3 DEF BoundsInv

\* A plan is made before anything is done.
LEMMA PlanStepKeeps ==
  ASSUME BoundsInv, Plan
  PROVE  BoundsInv'
<1> USE DEF BoundsInv, Counters, NotStarted
<1>1. pc \in {"plan", "replan"} /\ pc' \in {"replan", "execute"}
      /\ done = 0 /\ UNCHANGED <<done, loops, toolCalls, searches>>
  BY Zenon DEF Plan
<1>2. RetrievalsDone = 0
  BY <1>1, RetrievalsType
<1>3. RetrievalsDone' = 0
  <2>1. 1 .. done' = {}
    BY <1>1
  <2>2. {i \in 1 .. done' : steps'[i].intent = "retrieve"} = {}
    BY <2>1
  <2> QED BY <2>2, FS_EmptySet DEF RetrievalsDone
<1>4. Counters' /\ BudgetKept' /\ CallLeft' /\ NotStarted'
  BY <1>1 DEF BudgetKept, CallLeft
<1>5. Retrieving'
  BY <1>1 DEF Retrieving
<1>6. SearchesPaidFor'
  BY <1>1, <1>2, <1>3 DEF SearchesPaidFor, SearchesBounded
<1> QED BY <1>4, <1>5, <1>6

\* What is not finished is not counted, and what is, is.
LEMMA NextStepKeeps ==
  ASSUME BoundsInv, NextStep
  PROVE  BoundsInv'
<1> USE AgentAssumption DEF BoundsInv, Counters
<1>1. /\ pc = "execute" /\ pc' \in {"answer", "search", "bind", "execute"}
      /\ UNCHANGED <<steps, loops, toolCalls, searches>>
      /\ pc' \in {"search", "bind"} => ~ Exhausted
      /\ pc' = "search" => Step.intent = "retrieve" /\ Step' = Step
      /\ UNCHANGED done \/ (done' = done + 1 /\ pc' = "execute")
  BY DEF NextStep, StopEarly, FinishStep, Step
<1>2. RetrievalsDone' \in Nat /\ RetrievalsDone' >= RetrievalsDone
  BY <1>1, RetrievalsKept, RetrievalsGrow, RetrievalsType DEF planned
<1>3. Counters' /\ BudgetKept' /\ CallLeft' /\ NotStarted'
  BY <1>1 DEF BudgetKept, CallLeft, NotStarted, Exhausted
<1>4. Retrieving'
  BY <1>1 DEF Retrieving
<1>5. SearchesPaidFor'
  <2>1. RetrievalsDone \in Nat /\ MaxRetrieveLoops \in Nat
    BY RetrievalsType
  <2>2. searches <= RetrievalsDone + loops /\ loops <= MaxRetrieveLoops - 1
    BY <1>1 DEF SearchesPaidFor, Retrieving
  <2>3. searches' = searches /\ loops' = loops
    BY <1>1
  <2>4. searches \in Nat /\ loops \in Nat
    OBVIOUS
  <2>5. searches' <= RetrievalsDone' + loops' /\ searches' <= RetrievalsDone' + MaxRetrieveLoops - 1
    BY <1>2, <2>1, <2>2, <2>3, <2>4, StillPaidFor
  <2> QED BY <1>1, <2>5 DEF SearchesPaidFor, SearchesBounded
<1> QED BY <1>3, <1>4, <1>5

-----------------------------------------------------------------------------
(* Retrieving.                                                             *)

\* A search that ends its step is that step's; another must be judged.
LEMMA SearchKeeps ==
  ASSUME BoundsInv, Search
  PROVE  BoundsInv'
<1> USE AgentAssumption DEF BoundsInv, Counters
<1>1. /\ pc = "search" /\ searches' = searches + 1
      /\ UNCHANGED <<steps, loops, toolCalls>>
      /\ \/ pc' = "execute" /\ done' = done + 1
         \/ pc' = "judge" /\ UNCHANGED done /\ loops < MaxRetrieveLoops - 1
  BY DEF Search, FinishStep
<1>2. Counters' /\ BudgetKept' /\ CallLeft' /\ NotStarted'
  BY <1>1 DEF BudgetKept, CallLeft, NotStarted
<1>3. Retrieving'
  BY <1>1 DEF Retrieving, Step
<1>4. CASE pc' = "execute"
  BY <1>1, <1>4, RetrievalsGrow, RetrievalsType, <1>2, <1>3
     DEF SearchesPaidFor, SearchesBounded, Retrieving
<1>5. CASE pc' = "judge"
  BY <1>1, <1>5, RetrievalsKept, RetrievalsType, <1>2, <1>3
     DEF SearchesPaidFor, SearchesBounded, Retrieving, planned
<1> QED BY <1>1, <1>4, <1>5

\* Going round once more is counted by the run.
LEMMA JudgeKeeps ==
  ASSUME BoundsInv, Judge
  PROVE  BoundsInv'
<1> USE AgentAssumption DEF BoundsInv, Counters
<1>1. /\ pc = "judge"
      /\ UNCHANGED <<steps, searches, toolCalls>>
      /\ \/ pc' = "execute" /\ done' = done + 1 /\ UNCHANGED loops
         \/ pc' = "rewrite" /\ UNCHANGED done /\ loops' = loops + 1
  BY DEF Judge, FinishStep
<1>2. Counters' /\ BudgetKept' /\ CallLeft' /\ NotStarted'
  BY <1>1 DEF BudgetKept, CallLeft, NotStarted
<1>3. Retrieving'
  BY <1>1 DEF Retrieving, Step
<1>4. CASE pc' = "execute"
  BY <1>1, <1>4, RetrievalsGrow, RetrievalsType, <1>2, <1>3
     DEF SearchesPaidFor, SearchesBounded, Retrieving
<1>5. CASE pc' = "rewrite"
  BY <1>1, <1>5, RetrievalsKept, RetrievalsType, <1>2, <1>3
     DEF SearchesPaidFor, SearchesBounded, Retrieving, planned
<1> QED BY <1>1, <1>4, <1>5

\* A rewritten query is searched for, or the step ends.
LEMMA RewriteKeeps ==
  ASSUME BoundsInv, Rewrite
  PROVE  BoundsInv'
<1> USE AgentAssumption DEF BoundsInv, Counters
<1>1. /\ pc = "rewrite"
      /\ UNCHANGED <<steps, searches, toolCalls, loops>>
      /\ \/ pc' = "execute" /\ done' = done + 1
         \/ pc' = "search" /\ UNCHANGED done
  BY DEF Rewrite, FinishStep
<1>2. Counters' /\ BudgetKept' /\ CallLeft' /\ NotStarted'
  BY <1>1 DEF BudgetKept, CallLeft, NotStarted
<1>3. Retrieving'
  BY <1>1 DEF Retrieving, Step
<1>4. RetrievalsDone' >= RetrievalsDone /\ RetrievalsDone' \in Nat
  BY <1>1, RetrievalsGrow, RetrievalsKept, RetrievalsType DEF planned
<1>5. SearchesPaidFor'
  <2>1. RetrievalsDone \in Nat /\ MaxRetrieveLoops \in Nat
    BY RetrievalsType
  <2>2. searches <= RetrievalsDone + loops /\ loops <= MaxRetrieveLoops - 1
    BY <1>1 DEF SearchesPaidFor, Retrieving
  <2>3. searches' = searches /\ loops' = loops
    BY <1>1
  <2>4. searches \in Nat /\ loops \in Nat
    OBVIOUS
  <2>5. searches' <= RetrievalsDone' + loops' /\ searches' <= RetrievalsDone' + MaxRetrieveLoops - 1
    BY <1>4, <2>1, <2>2, <2>3, <2>4, StillPaidFor
  <2> QED BY <1>1, <2>5 DEF SearchesPaidFor, SearchesBounded
<1> QED BY <1>2, <1>3, <1>5

-----------------------------------------------------------------------------
(* Acting and ending.                                                      *)

\* What acting does to the counters: it searches nothing, takes a call if one is
\* left, and goes on where it may only with another.
LEMMA ActingKeeps ==
  ASSUME BoundsInv, Bind \/ Gate \/ Dispatch \/ Rebind \/ Redispatch
  PROVE  BoundsInv'
<1> USE AgentAssumption DEF BoundsInv, Counters
<1>1. /\ pc \in {"bind", "gate", "tool", "rebind", "retool"}
      /\ UNCHANGED <<steps, searches, loops>>
      /\ \/ pc' = "execute" /\ done' = done + 1
         \/ pc' \in {"gate", "tool", "rebind", "retool", "finished"} /\ UNCHANGED done
      /\ UNCHANGED toolCalls \/ (toolCalls' = toolCalls + 1 /\ pc # "retool")
      /\ pc' \in {"gate", "tool", "rebind"} => toolCalls' < MaxToolCalls
  <2>1. CASE Bind
    BY <2>1 DEF Bind, FinishStep, CallLeft
  <2>2. CASE Gate
    BY <2>2 DEF Gate, FinishStep, CallLeft
  <2>3. CASE Dispatch
    BY <2>3 DEF Dispatch, FinishStep, CallLeft, TakesUpRefusal, Compacted
  <2>4. CASE Rebind
    BY <2>4 DEF Rebind, FinishStep, CallLeft
  <2>5. CASE Redispatch
    BY <2>5 DEF Redispatch, FinishStep, CallLeft, Compacted
  <2> QED BY <2>1, <2>2, <2>3, <2>4, <2>5
<1>2. Counters' /\ BudgetKept' /\ CallLeft' /\ NotStarted'
  BY <1>1 DEF BudgetKept, CallLeft, NotStarted
<1>3. Retrieving'
  BY <1>1 DEF Retrieving
<1>4. RetrievalsDone' >= RetrievalsDone /\ RetrievalsDone' \in Nat
  BY <1>1, RetrievalsGrow, RetrievalsKept, RetrievalsType DEF planned
<1>5. SearchesPaidFor'
  <2>1. RetrievalsDone \in Nat /\ MaxRetrieveLoops \in Nat
    BY RetrievalsType
  <2>2. searches <= RetrievalsDone + loops /\ loops <= MaxRetrieveLoops - 1
    BY <1>1 DEF SearchesPaidFor, Retrieving
  <2>3. searches' = searches /\ loops' = loops
    BY <1>1
  <2>4. searches \in Nat /\ loops \in Nat
    OBVIOUS
  <2>5. searches' <= RetrievalsDone' + loops' /\ searches' <= RetrievalsDone' + MaxRetrieveLoops - 1
    BY <1>4, <2>1, <2>2, <2>3, <2>4, StillPaidFor
  <2> QED BY <1>1, <2>5 DEF SearchesPaidFor, SearchesBounded
<1> QED BY <1>2, <1>3, <1>5

\* Ending a run spends nothing.
LEMMA EndingKeeps ==
  ASSUME BoundsInv, Answer \/ Fail \/ UNCHANGED vars
  PROVE  BoundsInv'
<1> USE AgentAssumption DEF BoundsInv, Counters
<1>1. /\ UNCHANGED <<planned, searches, loops, toolCalls>>
      /\ pc' = "finished" \/ UNCHANGED pc
  BY DEF Answer, Fail, vars
<1>2. RetrievalsDone' = RetrievalsDone
  BY <1>1, RetrievalsKept
<1>3. Counters' /\ BudgetKept' /\ CallLeft' /\ NotStarted'
  BY <1>1 DEF BudgetKept, CallLeft, NotStarted, planned
<1>4. Retrieving'
  BY <1>1 DEF Retrieving, Step, planned
<1>5. SearchesPaidFor'
  BY <1>1, <1>2 DEF SearchesPaidFor, SearchesBounded
<1> QED BY <1>3, <1>4, <1>5

-----------------------------------------------------------------------------
\* Every run stays within its bounds.
THEOREM BoundsInvariant == Spec => []BoundsInv
<1>1. Init => BoundsInv
  BY BoundsInit
<1>2. BoundsInv /\ [Next]_vars => BoundsInv'
  BY PlanStepKeeps, NextStepKeeps, SearchKeeps, JudgeKeeps, RewriteKeeps,
     ActingKeeps, EndingKeeps, Zenon DEF Next
<1> QED BY <1>1, <1>2, PTL DEF Spec

\* No run makes more tool calls than its budget allows, nor more searches than its
\* finished retrieve steps and the extra ones of the run, whatever the planner asks
\* for and however often a call is refused and made again (_execute, _act).
THEOREM RunIsBounded == Spec => [](BudgetKept /\ SearchesBounded)
<1>1. BoundsInv => BudgetKept /\ SearchesBounded
  BY DEF BoundsInv, SearchesPaidFor
<1> QED BY <1>1, BoundsInvariant, PTL

-----------------------------------------------------------------------------
(* Numbers, sequences and requests, as planning uses them.                 *)

\* The least and the greatest of some numbers.
LEMMA Lowest ==
  ASSUME NEW T \in SUBSET Nat, T # {}
  PROVE  Min(T) \in T /\ \A x \in T : Min(T) <= x
BY NatHasMin DEF Min

\* The greatest of some numbers up to n is one of them.
LEMMA Highest ==
  ASSUME NEW n \in Nat, NEW T \in SUBSET (0 .. n), T # {}
  PROVE  Max(T) \in T
<1> DEFINE U == {n - x : x \in T}
<1>0. \A x \in T : x \in Nat /\ n - x \in Nat
  OBVIOUS
<1>1. U \in SUBSET Nat /\ U # {}
  BY <1>0
<1>2. PICK u \in U : \A y \in U : u <= y
  BY <1>1, NatHasMin
<1>3. PICK m \in T : u = n - m
  BY <1>2
<1>4. \A x \in T : n - m <= n - x
  BY <1>2, <1>3
<1>5. \A x \in T : x \in Nat /\ m >= x
  BY <1>0, <1>3, <1>4
<1> QED BY <1>3, <1>5 DEF Max

\* A step put into a plan: it is there, and the others are those of the plan.
LEMMA InsertedIs ==
  ASSUME NEW S, NEW s \in Seq(S), NEW p \in 1 .. Len(s) + 1, NEW e \in S
  PROVE  /\ InsertAt(s, p, e) \in Seq(S)
         /\ e \in ToSet(InsertAt(s, p, e))
         /\ ToSet(InsertAt(s, p, e)) \subseteq ToSet(s) \cup {e}
<1> DEFINE a == SubSeq(s, 1, p - 1)
           b == SubSeq(s, p, Len(s))
           m == <<e>>
<1>0. Len(s) \in Nat /\ p \in Int /\ 1 <= p /\ p <= Len(s) + 1
  OBVIOUS
<1>1. a \in Seq(S) /\ \A i \in 1 .. Len(a) : a[i] \in ToSet(s)
  BY <1>0 DEF ToSet
<1>2. b \in Seq(S) /\ \A i \in 1 .. Len(b) : b[i] \in ToSet(s)
  BY <1>0 DEF ToSet
<1>3. m \in Seq(S) /\ ToSet(m) = {e}
  BY DEF ToSet
<1>4. InsertAt(s, p, e) = (a \o m) \o b
  BY DEF InsertAt
<1> HIDE DEF a, b, m
<1>5. ToSet(a) \subseteq ToSet(s) /\ ToSet(b) \subseteq ToSet(s)
  <2>1. \A x \in ToSet(a) : \E i \in 1 .. Len(a) : x = a[i]
    BY <1>1 DEF ToSet
  <2>2. \A x \in ToSet(b) : \E i \in 1 .. Len(b) : x = b[i]
    BY <1>2 DEF ToSet
  <2> QED BY <1>1, <1>2, <2>1, <2>2
<1>6. a \o m \in Seq(S) /\ ToSet(a \o m) = ToSet(a) \cup {e}
  BY <1>1, <1>3, SetConcat
<1> DEFINE c == a \o m
<1> HIDE DEF c
<1>7. c \in Seq(S) /\ ToSet(c) = ToSet(a) \cup {e}
  BY <1>6 DEF c
<1>8. c \o b \in Seq(S) /\ ToSet(c \o b) = ToSet(c) \cup ToSet(b)
  BY <1>2, <1>7, SetConcat
<1> QED BY <1>4, <1>5, <1>7, <1>8 DEF c

\* The request asks for a format or for none (detect_format).
LEMMA FormatIs ==
  ASSUME NEW words
  PROVE  DetectFormat(words) \in Formats \cup {NoTool}
<1> DEFINE asked == {k \in DOMAIN Preference : AsksFor(words, Preference[k])}
<1>1. Preference \in Seq(Formats) /\ Preference # <<>>
  BY PlanningAssumption
<1>2. asked \in SUBSET Nat /\ \A k \in asked : Preference[k] \in Formats
  BY <1>1
<1>3. Preference[Len(Preference)] \in Formats
  BY <1>1
<1> HIDE DEF asked
<1>4. asked # {} => Preference[Min(asked)] \in Formats
  BY <1>2, Lowest
<1>5. DetectFormat(words) = IF asked # {} THEN Preference[Min(asked)]
        ELSE IF AsksFor(words, "summary") THEN Preference[Len(Preference)] ELSE NoTool
  BY DEF DetectFormat, asked
<1> QED BY <1>3, <1>4, <1>5

\* What is read of a reply: steps of a plan, of which those with a tool are actions.
LEMMA StepsOfAre ==
  ASSUME NEW reply, reply.steps \in Seq(RawStep), NEW may \in SUBSET Tools
  PROVE  /\ StepsOf(reply, may) \in Seq(PlanStep)
         /\ \A i \in 1 .. Len(StepsOf(reply, may)) :
               StepsOf(reply, may)[i].tool # NoTool => IsAction(StepsOf(reply, may)[i])
<1> DEFINE R == {raw \in RawStep : Readable(raw)}
           C == {raw \in RawStep : CanRun(Labelled(raw), may)}
           u == Understood(reply)
           k == Kept(u, C)
<1>1. u \in Seq(RawStep \cap R)
  BY KeptType DEF Understood
<1> HIDE DEF u, R
<1>2. k \in Seq((RawStep \cap R) \cap C)
  BY <1>1, KeptType
<1>3. StepsOf(reply, may) = [i \in DOMAIN k |-> Labelled(k[i])]
  BY DEF StepsOf, u
<1> HIDE DEF k, C
<1>4. ASSUME NEW raw \in R
      PROVE  Labelled(raw) \in PlanStep /\ (Labelled(raw).tool # NoTool => IsAction(Labelled(raw)))
  <2>1. raw \in RawStep /\ raw.intent \in Intents
    BY DEF R, Readable
  <2>2. CASE raw.tool # NoTool /\ raw.intent # "retrieve"
    BY <2>1, <2>2 DEF Labelled, Produce, PlanStep, RawStep, Intents, IsAction
  <2>3. CASE ~(raw.tool # NoTool /\ raw.intent # "retrieve")
    <3>1. Labelled(raw) = raw
      BY <2>3 DEF Labelled
    <3> QED BY <2>1, <2>3, <3>1 DEF PlanStep, RawStep, Intents, IsAction
  <2> QED BY <2>2, <2>3
<1>5. Len(k) \in Nat /\ DOMAIN k = 1 .. Len(k) /\ \A i \in 1 .. Len(k) : k[i] \in R
  BY <1>2
<1>6. \A i \in 1 .. Len(k) : /\ Labelled(k[i]) \in PlanStep
                             /\ Labelled(k[i]).tool # NoTool => IsAction(Labelled(k[i]))
  BY <1>4, <1>5
<1> DEFINE L(i) == Labelled(k[i])
<1>7. \A i \in 1 .. Len(k) : L(i) \in PlanStep /\ (L(i).tool # NoTool => IsAction(L(i)))
  BY <1>6
<1> HIDE DEF L
<1>8. [i \in 1 .. Len(k) |-> L(i)] \in Seq(PlanStep)
  BY <1>5, <1>7
<1>9. StepsOf(reply, may) = [i \in 1 .. Len(k) |-> L(i)]
  BY <1>3, <1>5 DEF L
<1>10. Len([i \in 1 .. Len(k) |-> L(i)]) = Len(k)
  BY <1>5
<1> QED BY <1>7, <1>8, <1>9, <1>10

\* The repaired plan holds the document that was asked for (_ensure_requested_artifact).
LEMMA EnsuredIs ==
  ASSUME NEW s \in Seq(PlanStep), NEW asked \in Formats \cup {NoTool}, NEW may \in SUBSET Tools,
         \A i \in 1 .. Len(s) : s[i].tool # NoTool => IsAction(s[i])
  PROVE  LET e == EnsureRequestedArtifact(s, asked, may)
         IN  /\ e \in Seq(PlanStep)
             /\ \A x \in ToSet(e) : x.tool # NoTool => IsAction(x)
             /\ asked \in may => \E x \in ToSet(e) : x.tool = asked
<1> DEFINE e == EnsureRequestedArtifact(s, asked, may)
           wanted == RequestedArtifact(asked, may)
           T == {0} \cup {i \in DOMAIN s : IsAction(s[i])}
           insertAt == 1 + Max(T)
<1>1. NoTool \notin Tools /\ Formats \subseteq Tools
  BY PlanningAssumption
<1>2. wanted = IF asked \in may THEN asked ELSE NoTool
  BY DEF RequestedArtifact
<1>3. \A x \in ToSet(s) : x.tool # NoTool => IsAction(x)
  BY DEF ToSet
<1>4. CASE wanted = NoTool \/ \E i \in DOMAIN s : s[i].tool = wanted
  <2>1. e = s
    BY <1>4 DEF EnsureRequestedArtifact
  <2>2. asked \in may => \E x \in ToSet(s) : x.tool = asked
    BY <1>1, <1>2, <1>4 DEF ToSet
  <2> QED BY <1>3, <2>1, <2>2
<1>5. CASE ~(wanted = NoTool \/ \E i \in DOMAIN s : s[i].tool = wanted)
  <2>1. e = InsertAt(s, insertAt, Produce(wanted))
    BY <1>5 DEF EnsureRequestedArtifact
  <2>2. Len(s) \in Nat /\ T \in SUBSET (0 .. Len(s)) /\ T # {}
    OBVIOUS
  <2> HIDE DEF T
  <2>3. Max(T) \in 0 .. Len(s)
    BY <2>2, Highest
  <2>4. insertAt \in 1 .. Len(s) + 1
    BY <2>2, <2>3
  <2>5. wanted = asked /\ asked \in may /\ asked \in Tools
    BY <1>2, <1>5
  <2>6. /\ Produce(wanted) \in PlanStep /\ Produce(wanted).tool = asked /\ IsAction(Produce(wanted))
    BY <2>5 DEF Produce, PlanStep, Intents, IsAction
  <2> HIDE DEF insertAt, wanted
  <2>7. /\ e \in Seq(PlanStep) /\ Produce(wanted) \in ToSet(e)
        /\ ToSet(e) \subseteq ToSet(s) \cup {Produce(wanted)}
    BY <2>1, <2>4, <2>6, InsertedIs
  <2> QED BY <1>3, <2>6, <2>7
<1> QED BY <1>4, <1>5

-----------------------------------------------------------------------------
(* A plan, as it is repaired and cut.                                      *)

\* Of the steps that name a document tool one is left for each tool, and no others go
\* (_synthesis_last).
LEMMA OneOfEachIs ==
  ASSUME NEW s \in Seq(PlanStep)
  PROVE  LET o == OneOfEachFormat(s)
         IN  /\ o \in Seq(PlanStep)
             /\ \A k \in 1 .. Len(o) : o[k] \in ToSet(s)
             /\ \A k, l \in 1 .. Len(o) : k < l /\ o[l].tool \in Formats => o[k].tool # o[l].tool
             /\ \A x \in ToSet(s) : x.tool \in Formats => \E k \in 1 .. Len(o) : o[k].tool = x.tool
<1> DEFINE id == [i \in DOMAIN s |-> i]
           A == {i \in DOMAIN s : ~ Repeats(s, i)}
           p == Kept(id, A)
           o == OneOfEachFormat(s)
           D == 1 .. Len(s)
<1>1. Len(s) \in Nat /\ DOMAIN s = D /\ \A i \in D : s[i] \in PlanStep
  OBVIOUS
<1>2. id \in Seq(D) /\ Len(id) = Len(s) /\ \A i \in D : id[i] = i
  BY <1>1
<1>3. \A i \in D : i \in A <=> ~ Repeats(s, i)
  BY <1>1
<1> HIDE DEF id, A
<1>4. p \in Seq(D \cap A)
  BY <1>2, KeptType
<1>5. \A i \in D : i \in A => \E k \in 1 .. Len(p) : p[k] = i
  <2>1. \A i \in 1 .. Len(id) : id[i] \in A => \E k \in 1 .. Len(p) : p[k] = id[i]
    BY <1>2, KeptMembers
  <2> HIDE DEF p
  <2> QED BY <1>2, <2>1
<1>6. \A k, l \in 1 .. Len(p) : k < l => \E i, j \in D : i < j /\ p[k] = id[i] /\ p[l] = id[j]
  BY <1>2, KeptInOrder
<1>7. o = [k \in DOMAIN p |-> s[p[k]]]
  BY DEF OneOfEachFormat, id, A
<1> HIDE DEF p, o
<1>8. Len(p) \in Nat /\ DOMAIN p = 1 .. Len(p) /\ \A k \in 1 .. Len(p) : p[k] \in D /\ p[k] \in A
  BY <1>4
<1> DEFINE V(k) == s[p[k]]
<1>9. \A k \in 1 .. Len(p) : V(k) \in PlanStep
  BY <1>1, <1>8
<1> HIDE DEF V
<1>10. [k \in 1 .. Len(p) |-> V(k)] \in Seq(PlanStep) /\ Len([k \in 1 .. Len(p) |-> V(k)]) = Len(p)
  BY <1>8, <1>9
<1>11. o = [k \in 1 .. Len(p) |-> V(k)]
  BY <1>7, <1>8 DEF V
<1>12. o \in Seq(PlanStep) /\ Len(o) = Len(p)
  BY <1>10, <1>11
<1>13. \A k \in 1 .. Len(p) : o[k] = s[p[k]]
  BY <1>11 DEF V
<1>14. \A k \in 1 .. Len(o) : o[k] \in ToSet(s)
  BY <1>1, <1>8, <1>12, <1>13 DEF ToSet
<1>15. ASSUME NEW k \in 1 .. Len(o), NEW l \in 1 .. Len(o), k < l, o[l].tool \in Formats
       PROVE  o[k].tool # o[l].tool
  <2>0. k \in 1 .. Len(p) /\ l \in 1 .. Len(p)
    BY <1>12
  <2>1. p[k] \in D /\ p[l] \in D /\ p[k] < p[l]
    <3>1. PICK i \in D, j \in D : i < j /\ p[k] = id[i] /\ p[l] = id[j]
      BY <1>6, <1>15, <2>0
    <3> QED BY <1>2, <3>1
  <2>2. ~ Repeats(s, p[l])
    BY <1>3, <1>8, <1>12
  <2>3. p[k] \in 1 .. p[l] - 1
    BY <2>1
  <2>4. o[k] = s[p[k]] /\ o[l] = s[p[l]]
    BY <1>12, <1>13
  <2> QED BY <1>15, <2>2, <2>3, <2>4 DEF Repeats
<1>16. ASSUME NEW x \in ToSet(s), x.tool \in Formats
       PROVE  \E k \in 1 .. Len(o) : o[k].tool = x.tool
  <2> DEFINE T == {i \in D : s[i].tool = x.tool}
  <2>1. T \in SUBSET Nat /\ T # {}
    BY <1>1 DEF ToSet
  <2>2. PICK m \in T : \A y \in T : m <= y
    BY <2>1, NatHasMin
  <2>3. m \in D /\ s[m].tool = x.tool /\ \A j \in D : s[j].tool = x.tool => m <= j
    BY <2>2
  <2>4. \A j \in 1 .. m - 1 : j \in D /\ j < m
    BY <1>1, <2>3
  <2>5. ~ Repeats(s, m)
    BY <2>3, <2>4 DEF Repeats
  <2>6. PICK k \in 1 .. Len(p) : p[k] = m
    BY <1>3, <1>5, <2>3, <2>5
  <2> QED BY <1>12, <1>13, <2>3, <2>6
<1> QED BY <1>12, <1>14, <1>15, <1>16 DEF o

\* The answer and what comes before it: actions only, and each format once.
Shape(s) ==
  /\ s \in Seq(PlanStep)
  /\ \A i, j \in 1 .. Len(s) : i < j /\ IsAction(s[j]) => IsAction(s[i])
  /\ \A i, j \in 1 .. Len(s) : i < j /\ s[j].tool \in Formats => s[i].tool # s[j].tool
  /\ \A i \in 1 .. Len(s) : s[i].tool \in Formats => IsAction(s[i])

\* A plan with its answer moved to the end has this shape and loses no document
\* (_synthesis_last).
LEMMA SynthesisIsLast ==
  ASSUME NEW e \in Seq(PlanStep), \A x \in ToSet(e) : x.tool # NoTool => IsAction(x)
  PROVE  LET s == SynthesisLast(e)
         IN  /\ Shape(s)
             /\ \A x \in ToSet(e) : x.tool \in Formats => \E k \in 1 .. Len(s) : s[k].tool = x.tool
<1> DEFINE A == {x \in PlanStep : IsAction(x)}
           a == Kept(e, A)
           o == OneOfEachFormat(a)
           s == SynthesisLast(e)
<1>0. NoTool \notin Formats /\ TheAnswer \in PlanStep /\ TheAnswer.tool = NoTool
  BY PlanningAssumption DEF TheAnswer, PlanStep, Intents
<1>1. a \in Seq(PlanStep \cap A) /\ ToSet(a) = ToSet(e) \cap A
  BY KeptType, SetKept
<1>2. \A x \in ToSet(a) : IsAction(x)
  BY <1>1
<1>3. \A x \in ToSet(e) : x \in PlanStep
  BY DEF ToSet
<1>4. a \in Seq(PlanStep)
  <2> HIDE DEF a, A
  <2> QED BY <1>1
<1>5. s = Append(o, TheAnswer)
  BY DEF SynthesisLast
<1>6. \A x \in ToSet(e) : x.tool \in Formats => x \in ToSet(a)
  BY <1>0, <1>1, <1>3
<1> HIDE DEF a, A
<1>7. /\ o \in Seq(PlanStep)
      /\ \A k \in 1 .. Len(o) : o[k] \in ToSet(a)
      /\ \A k, l \in 1 .. Len(o) : k < l /\ o[l].tool \in Formats => o[k].tool # o[l].tool
      /\ \A x \in ToSet(a) : x.tool \in Formats => \E k \in 1 .. Len(o) : o[k].tool = x.tool
  BY <1>4, OneOfEachIs
<1> HIDE DEF o, s
<1>8. \A k \in 1 .. Len(o) : IsAction(o[k])
  BY <1>2, <1>7
<1>9. /\ Len(o) \in Nat /\ s \in Seq(PlanStep) /\ Len(s) = Len(o) + 1 /\ s[Len(o) + 1] = TheAnswer
      /\ \A k \in 1 .. Len(o) : s[k] = o[k]
      /\ \A k \in 1 .. Len(s) : k \in 1 .. Len(o) \/ k = Len(o) + 1
  BY <1>0, <1>5, <1>7
<1>10. \A i, j \in 1 .. Len(s) : i < j => i \in 1 .. Len(o) /\ IsAction(s[i])
  BY <1>8, <1>9
<1>11. \A i, j \in 1 .. Len(s) : i < j /\ s[j].tool \in Formats => s[i].tool # s[j].tool
  BY <1>0, <1>7, <1>9
<1>14. \A i \in 1 .. Len(s) : s[i].tool \in Formats => IsAction(s[i])
  BY <1>0, <1>8, <1>9
<1>12. Shape(s)
  BY <1>9, <1>10, <1>11, <1>14 DEF Shape
<1>13. \A x \in ToSet(e) : x.tool \in Formats => \E k \in 1 .. Len(s) : s[k].tool = x.tool
  BY <1>6, <1>7, <1>9
<1> QED BY <1>12, <1>13 DEF s

\* Cutting a plan keeps its shape, and a plan that is short enough stays as it is.
LEMMA CutIs ==
  ASSUME NEW s, Shape(s)
  PROVE  /\ Shape(Cut(s)) /\ Len(Cut(s)) <= PlanLength
         /\ Len(Cut(s)) < PlanLength => Cut(s) = s
<1> DEFINE n == Min({Len(s), PlanLength})
           c == Cut(s)
<1>1. s \in Seq(PlanStep) /\ Len(s) \in Nat /\ PlanLength \in Nat
  BY PlanningAssumption DEF Shape
<1>2. n \in {Len(s), PlanLength} /\ n <= Len(s) /\ n <= PlanLength
  BY <1>1, Lowest
<1>3. c = SubSeq(s, 1, n)
  BY DEF Cut
<1> HIDE DEF n, c
<1>4. /\ c \in Seq(PlanStep) /\ Len(c) = n /\ \A i \in 1 .. Len(c) : c[i] = s[i] /\ i \in 1 .. Len(s)
  BY <1>1, <1>2, <1>3
<1>5. Shape(c)
  BY <1>4 DEF Shape
<1>6. n = Len(s) => c = s
  BY <1>1, <1>3
<1> QED BY <1>1, <1>2, <1>4, <1>5, <1>6 DEF c

\* The plan of a reply that says nothing usable: retrieve, then answer.
LEMMA FallbackIs == Shape(Fallback) /\ Len(Fallback) = 2
<1> DEFINE r == [intent |-> "retrieve", tool |-> NoTool]
<1>1. r \in PlanStep /\ TheAnswer \in PlanStep /\ r.tool = NoTool /\ TheAnswer.tool = NoTool /\ IsAction(r)
  BY DEF PlanStep, TheAnswer, Intents, IsAction
<1>2. Fallback = <<r, TheAnswer>>
  BY DEF Fallback
<1>3. NoTool \notin Formats
  BY PlanningAssumption
<1> HIDE DEF r
<1> DEFINE f == <<r, TheAnswer>>
<1>4. f \in Seq(PlanStep) /\ Len(f) = 2 /\ f[1] = r /\ f[2] = TheAnswer
  BY <1>1
<1> HIDE DEF f
<1>5. \A i, j \in 1 .. Len(f) : i < j => i = 1 /\ j = 2
  BY <1>4
<1>6. Shape(f)
  BY <1>1, <1>3, <1>4, <1>5 DEF Shape
<1> QED BY <1>2, <1>4, <1>6 DEF f

\* A plan calls the tool that is asked for, or retrieves under its name.
Wanted(s, tool) ==
  \/ \E i \in DOMAIN s : s[i] = Produce(tool)
  \/ \E i \in DOMAIN s : s[i].intent = "retrieve" /\ s[i].tool = tool

\* A step that names it does either.
LEMMA NamedIsWanted ==
  ASSUME NEW s, Shape(s), NEW tool \in Formats, NEW k \in 1 .. Len(s), s[k].tool = tool
  PROVE  Wanted(s, tool)
<1>1. s[k] \in PlanStep /\ IsAction(s[k]) /\ k \in DOMAIN s
  BY DEF Shape
<1>2. s[k].intent = "retrieve" \/ s[k].intent = "tool"
  BY <1>1 DEF PlanStep, Intents, IsAction
<1>3. s[k].intent = "tool" => s[k] = Produce(tool)
  BY <1>1 DEF PlanStep, Produce
<1> QED BY <1>1, <1>2, <1>3 DEF Wanted

\* Whatever the planner replies, and whoever asks for whatever (_parse_plan).
LEMMA PlanIs ==
  ASSUME NEW reply, reply.steps \in Seq(RawStep),
         NEW asked \in Formats \cup {NoTool}, NEW may \in SUBSET Tools
  PROVE  LET s == ParsePlan(reply, asked, may)
         IN  /\ Shape(s) /\ Len(s) <= PlanLength
             /\ s # Fallback /\ Len(s) < PlanLength /\ asked # NoTool =>
                  IF asked \in may THEN Wanted(s, asked)
                  ELSE Declines(reply, asked, may)
<1> DEFINE s == ParsePlan(reply, asked, may)
           t == StepsOf(reply, may)
           e == EnsureRequestedArtifact(t, asked, may)
           l == SynthesisLast(e)
<1>1. CASE FallsBack(reply, may)
  <2>1. s = Fallback
    BY <1>1 DEF ParsePlan
  <2>2. 2 <= PlanLength
    BY PlanningAssumption
  <2> QED BY <2>1, <2>2, FallbackIs
<1>2. CASE ~ FallsBack(reply, may)
  <2>1. s = Cut(l)
    BY <1>2 DEF ParsePlan, Repaired
  <2>2. /\ t \in Seq(PlanStep)
        /\ \A i \in 1 .. Len(t) : t[i].tool # NoTool => IsAction(t[i])
    BY StepsOfAre
  <2> HIDE DEF t
  <2>3. /\ e \in Seq(PlanStep)
        /\ \A x \in ToSet(e) : x.tool # NoTool => IsAction(x)
        /\ asked \in may => \E x \in ToSet(e) : x.tool = asked
    BY <2>2, EnsuredIs
  <2> HIDE DEF e
  <2>4. /\ Shape(l)
        /\ \A x \in ToSet(e) : x.tool \in Formats => \E k \in 1 .. Len(l) : l[k].tool = x.tool
    BY <2>3, SynthesisIsLast
  <2> HIDE DEF l
  <2>5. Shape(s) /\ Len(s) <= PlanLength /\ (Len(s) < PlanLength => s = l)
    BY <2>1, <2>4, CutIs
  <2>6. asked # NoTool /\ asked \in may => \E k \in 1 .. Len(l) : l[k].tool = asked
    BY <2>3, <2>4
  <2>7. asked # NoTool /\ asked \notin may => Declines(reply, asked, may)
    BY <1>2 DEF Declines
  <2>8. asked # NoTool /\ asked \in may => Wanted(l, asked)
    BY <2>4, <2>6, NamedIsWanted
  <2> HIDE DEF s
  <2> QED BY <2>5, <2>7, <2>8 DEF s
<1> QED BY <1>1, <1>2

-----------------------------------------------------------------------------
(* Where a run is in its plan.                                             *)

\* What a run waits for in a retrieve step, and in a tool step.
Retrieves == {"search", "judge", "rewrite"}
Calls == {"bind", "gate", "tool", "rebind", "retool"}

\* The plan from some step on asks for nothing.
NothingLeft(n) == \A i \in n + 1 .. Len(steps) : ~ IsAction(steps[i])

\* Where a run is in its plan: nothing is done before there is one, what is being
\* done is its first step that is not done, and it is left for the answer when no
\* action is left or the user was told of the budget.
Placed ==
  /\ pc \in {"plan", "replan"} => (steps = <<>> /\ done = 0)
  /\ pc \in Retrieves => (done < Len(steps) /\ Step.intent = "retrieve")
  /\ pc \in Calls => (done < Len(steps) /\ Step.intent = "tool")
  /\ pc # "finished" => final = "none"
  /\ (pc = "answer" \/ final = "answer") => ("budget_exhausted" \in told \/ NothingLeft(done))

\* A step is done, or the one whose result made the run fail.
Taken(i, last, at) == i \in 1 .. last \/ (at = "finished" /\ i = last + 1)

\* A document was made by such a step, or is left for another process to make.
MadeOnce ==
  \A f \in Formats :
    /\ made[f] = 0 \/ (made[f] = 1 /\ \E i \in 1 .. Len(steps) : Taken(i, done, pc) /\ steps[i].tool = f)
    /\ elsewhere[f] = "later" =>
         made[f] = 0 /\ \E i \in 1 .. Len(steps) : Taken(i, done, pc) /\ steps[i].tool = f

\* The inductive invariant behind what a run does with its plan.
PlanInv ==
  /\ TypeOK /\ Shape(steps) /\ Placed /\ MadeOnce
  /\ AskedForIsPlannedOrDeclined /\ EveryCallIsShownInTime

\* A run starts without a plan.
LEMMA PlanAtFirst == Init => PlanInv
<1> SUFFICES ASSUME Init PROVE PlanInv
  OBVIOUS
<1>1. steps = <<>> /\ steps \in Seq(PlanStep) /\ Len(steps) = 0 /\ PlanLength \in Nat /\ done = 0
  BY PlanningAssumption DEF Init
<1>2. ask \in Formats \cup {NoTool}
  BY FormatIs DEF Init
<1>3. available \subseteq Tools
  BY DEF Init
<1>4. TypeOK
  <2>1. /\ steps \in Seq(PlanStep) /\ Len(steps) <= PlanLength /\ done \in 0 .. Len(steps)
    BY <1>1
  <2>2. /\ made \in [Formats -> Nat] /\ shown \subseteq 1 .. PlanLength
        /\ elsewhere \in [Formats -> {"no", "later", "lost"}]
        /\ limits \subseteq Limitations /\ told \subseteq Limitations
    BY DEF Init
  <2>3. /\ loops \in Nat /\ toolCalls \in Nat /\ searches \in Nat
        /\ found \in BOOLEAN /\ tokensOut \in BOOLEAN /\ late \in BOOLEAN /\ computed \in BOOLEAN
        /\ searchable \in BOOLEAN
    BY DEF Init
  <2>4. /\ pc = "plan" /\ status = "running" /\ final = "none"
    BY DEF Init
  <2> QED BY <1>2, <1>3, <2>1, <2>2, <2>3, <2>4 DEF TypeOK
<1>5. Shape(steps)
  BY <1>1 DEF Shape
<1>6. Placed /\ MadeOnce
  BY <1>1 DEF Init, Placed, MadeOnce, Retrieves, Calls
<1>7. AskedForIsPlannedOrDeclined /\ EveryCallIsShownInTime
  BY <1>1 DEF Init, AskedForIsPlannedOrDeclined, EveryCallIsShownInTime
<1> QED BY <1>4, <1>5, <1>6, <1>7 DEF PlanInv

\* A plan has the steps PlanIs says, or the planner is asked once more (_plan).
LEMMA PlanKeeps == ASSUME PlanInv, Plan PROVE PlanInv'
<1>1. PICK reply \in Replies :
        /\ Generate(IF Declines(reply, ask, available) THEN {"artifact_not_permitted"} ELSE {})
        /\ \/ pc' = "replan" /\ UNCHANGED <<steps, told>>
           \/ pc' = "execute" /\ steps' = ParsePlan(reply, ask, available) /\ told' = told \cup limits'
  BY DEF Plan
<1>2. /\ pc \in {"plan", "replan"}
      /\ UNCHANGED <<request, done, loops, found, toolCalls, results, ending, searches>>
  BY DEF Plan
<1>3. reply.steps \in Seq(RawStep) /\ ask \in Formats \cup {NoTool} /\ available \in SUBSET Tools
  BY AgentAssumption DEF PlanInv, TypeOK
<1>4. /\ late' \in {late, TRUE} /\ tokensOut' \in {tokensOut, TRUE}
      /\ limits \subseteq limits' /\ limits' \subseteq Limitations
      /\ Declines(reply, ask, available) => "artifact_not_permitted" \in limits'
  BY <1>1 DEF Generate, TimePasses, Limitations, PlanInv, TypeOK
<1>5. steps = <<>> /\ done = 0 /\ final = "none"
  BY <1>2 DEF PlanInv, Placed
<1>6. CASE pc' = "replan" /\ UNCHANGED <<steps, told>>
  <2>1. TypeOK'
    BY <1>2, <1>4, <1>6 DEF PlanInv, TypeOK, request, results, ending
  <2>2. Shape(steps)' /\ Placed' /\ MadeOnce'
    BY <1>2, <1>5, <1>6 DEF PlanInv, Placed, MadeOnce, Taken, results, ending, Retrieves, Calls
  <2>3. AskedForIsPlannedOrDeclined' /\ EveryCallIsShownInTime'
    BY <1>2, <1>5, <1>6 DEF AskedForIsPlannedOrDeclined, EveryCallIsShownInTime
  <2> QED BY <2>1, <2>2, <2>3 DEF PlanInv
<1>7. CASE pc' = "execute" /\ steps' = ParsePlan(reply, ask, available) /\ told' = told \cup limits'
  <2>1. /\ Shape(steps') /\ Len(steps') <= PlanLength
        /\ steps' # Fallback /\ Len(steps') < PlanLength /\ ask # NoTool =>
             IF ask \in available THEN Wanted(steps', ask)
             ELSE Declines(reply, ask, available)
    BY <1>3, <1>7, PlanIs
  <2>2. steps' \in Seq(PlanStep) /\ Len(steps') \in Nat /\ DOMAIN steps' = 1 .. Len(steps')
    BY <2>1 DEF Shape
  <2>3. TypeOK'
    <3>1. steps' \in Seq(PlanStep) /\ Len(steps') <= PlanLength /\ done' \in 0 .. Len(steps')
      BY <1>2, <1>5, <2>1, <2>2
    <3>2. /\ limits' \subseteq Limitations /\ told' \subseteq Limitations
          /\ tokensOut' \in BOOLEAN /\ late' \in BOOLEAN
      BY <1>4, <1>7 DEF PlanInv, TypeOK
    <3>3. /\ ask' \in Formats \cup {NoTool} /\ available' \subseteq Tools /\ searchable' \in BOOLEAN
          /\ made' \in [Formats -> Nat] /\ computed' \in BOOLEAN /\ shown' \subseteq 1 .. PlanLength
          /\ elsewhere' \in [Formats -> {"no", "later", "lost"}]
      BY <1>2 DEF PlanInv, TypeOK, request, results
    <3>4. /\ loops' \in Nat /\ found' \in BOOLEAN /\ toolCalls' \in Nat /\ searches' \in Nat
          /\ status' \in {"running", "awaiting_approval", "succeeded", "failed"}
          /\ final' \in {"none", "answer", "failure"}
      BY <1>2 DEF PlanInv, TypeOK, ending
    <3> QED BY <1>7, <3>1, <3>2, <3>3, <3>4 DEF TypeOK
  <2>4. Placed'
    BY <1>2, <1>5, <1>7 DEF Placed, ending, Retrieves, Calls
  <2>5. MadeOnce'
    <3>1. \A f \in Formats : made'[f] = 0 /\ elsewhere'[f] # "later"
      BY <1>2, <1>5 DEF PlanInv, MadeOnce, Taken, results
    <3> QED BY <3>1 DEF MadeOnce
  <2>6. AskedForIsPlannedOrDeclined'
    BY <1>2, <1>4, <1>7, <2>1, <2>2 DEF AskedForIsPlannedOrDeclined, request, Wanted
  <2>7. EveryCallIsShownInTime'
    BY <1>2, <1>5 DEF EveryCallIsShownInTime
  <2> QED BY <2>1, <2>3, <2>4, <2>5, <2>6, <2>7 DEF PlanInv
<1> QED BY <1>1, <1>6, <1>7

-----------------------------------------------------------------------------
(* A step after planning.                                                  *)

\* What any step of the run after planning does to what the invariant speaks of.
Typed ==
  /\ tokensOut' \in BOOLEAN /\ late' \in {late, TRUE}
  /\ limits' \subseteq Limitations /\ told \subseteq told' /\ told' \subseteq Limitations
  /\ loops' \in Nat /\ found' \in BOOLEAN /\ toolCalls' \in Nat /\ searches' \in Nat
  /\ computed' \in BOOLEAN
  /\ status' \in {"running", "awaiting_approval", "succeeded", "failed"}

\* Where it goes: on with the plan, to the answer, or to the end.
Moved ==
  /\ pc # "finished"
  /\ pc' \in {"execute", "answer", "finished"} \cup Retrieves \cup Calls
  /\ pc' \in Retrieves => (done' = done /\ done < Len(steps) /\ Step.intent = "retrieve")
  /\ pc' \in Calls => (done' = done /\ done < Len(steps) /\ Step.intent = "tool")
  /\ pc' = "answer" => ("budget_exhausted" \in told' \/ (done' = done /\ NothingLeft(done)))
  /\ \/ final' = final
     \/ pc' = "finished" /\ final' = "failure"
     \/ pc' = "finished" /\ final' = "answer" /\ pc = "answer" /\ done' = done

\* What the step it is at made, itself or elsewhere.
MadeHere ==
  \/ made' = made /\ elsewhere' = elsewhere
  \/ made' = made /\ MadeElsewhere("later")
  \/ elsewhere' = elsewhere /\ Step.tool \in Formats /\ made' = [made EXCEPT ![Step.tool] = @ + 1]

\* It goes on with the step it is at, which another process may have carried out; or
\* finishes it, with what that made and showed; or fails after it.
Finished ==
  \/ /\ done' = done /\ UNCHANGED <<made, shown>>
     /\ UNCHANGED elsewhere \/ MadeElsewhere("lost")
  \/ /\ done' = done + 1 /\ done < Len(steps)
     /\ shown' \in {shown, shown \cup {done + 1}}
     /\ Step.intent = "tool" => (late' \/ shown' = shown \cup {done + 1})
     /\ MadeHere
  \/ /\ done' = done /\ done < Len(steps) /\ pc' = "finished"
     /\ shown' = shown \cup {done + 1}
     /\ MadeHere

\* All of it.
StepTaken == UNCHANGED <<request, steps>> /\ Typed /\ Moved /\ Finished

\* Such a step keeps the invariant.
LEMMA StepTakenKeeps == ASSUME PlanInv, StepTaken PROVE PlanInv'
<1>1. /\ steps \in Seq(PlanStep) /\ Len(steps) \in Nat /\ Len(steps) <= PlanLength
      /\ done \in Nat /\ done <= Len(steps) /\ PlanLength \in Nat
  BY PlanningAssumption DEF PlanInv, TypeOK
<1>2. /\ steps' = steps /\ ask' = ask /\ available' = available /\ searchable' = searchable
  BY DEF StepTaken, request
<1>3. /\ done' \in Nat /\ done <= done' /\ done' <= done + 1 /\ done' <= Len(steps)
      /\ done' # done => done < Len(steps)
  BY <1>1 DEF StepTaken, Finished
<1>4. shown' \subseteq 1 .. PlanLength /\ shown \subseteq shown'
  <2>1. shown' = shown \/ (done < Len(steps) /\ shown' = shown \cup {done + 1})
    BY DEF StepTaken, Finished
  <2>2. shown \subseteq 1 .. PlanLength
    BY DEF PlanInv, TypeOK
  <2>3. done < Len(steps) => done + 1 \in 1 .. PlanLength
    BY <1>1
  <2> QED BY <2>1, <2>2, <2>3
<1>5. /\ made \in [Formats -> Nat] /\ made' \in [Formats -> Nat]
      /\ elsewhere' \in [Formats -> {"no", "later", "lost"}]
  <2>1. made \in [Formats -> Nat] /\ elsewhere \in [Formats -> {"no", "later", "lost"}]
    BY DEF PlanInv, TypeOK
  <2>2. made' = made \/ (Step.tool \in Formats /\ made' = [made EXCEPT ![Step.tool] = @ + 1])
    BY DEF StepTaken, Finished, MadeHere
  <2>3. elsewhere' = elsewhere \/ MadeElsewhere("later") \/ MadeElsewhere("lost")
    BY DEF StepTaken, Finished, MadeHere
  <2>4. made' \in [Formats -> Nat]
    BY <2>1, <2>2
  <2> QED BY <2>1, <2>3, <2>4 DEF MadeElsewhere
<1>6. TypeOK'
  <2>1. steps' \in Seq(PlanStep) /\ Len(steps') <= PlanLength /\ done' \in 0 .. Len(steps')
    BY <1>1, <1>2, <1>3
  <2>2. /\ limits' \subseteq Limitations /\ told' \subseteq Limitations
        /\ tokensOut' \in BOOLEAN /\ late' \in BOOLEAN /\ computed' \in BOOLEAN
    BY DEF StepTaken, Typed, PlanInv, TypeOK
  <2>3. ask' \in Formats \cup {NoTool} /\ available' \subseteq Tools /\ searchable' \in BOOLEAN
    BY <1>2 DEF PlanInv, TypeOK
  <2>4. /\ loops' \in Nat /\ found' \in BOOLEAN /\ toolCalls' \in Nat /\ searches' \in Nat
        /\ status' \in {"running", "awaiting_approval", "succeeded", "failed"}
    BY DEF StepTaken, Typed
  <2>5. final' \in {"none", "answer", "failure"}
    BY DEF StepTaken, Moved, PlanInv, TypeOK
  <2>6. pc' \in {"plan", "replan", "execute", "search", "judge", "rewrite", "bind",
             "gate", "tool", "rebind", "retool", "answer", "finished"}
    BY DEF StepTaken, Moved, Retrieves, Calls
  <2> QED BY <1>4, <1>5, <2>1, <2>2, <2>3, <2>4, <2>5, <2>6 DEF TypeOK
<1>7. Shape(steps')
  BY <1>2 DEF PlanInv
<1>8. Placed'
  <2>1. final = "none" /\ pc # "finished"
    BY DEF PlanInv, Placed, StepTaken, Moved
  <2>2. told \subseteq told'
    BY DEF StepTaken, Typed
  <2>3. Step' = Step \/ done' # done
    BY <1>2 DEF Step
  <2>4. done' = done => NothingLeft(done)' = NothingLeft(done)
    BY <1>2 DEF NothingLeft
  <2>5. pc = "answer" => ("budget_exhausted" \in told \/ NothingLeft(done))
    BY DEF PlanInv, Placed
  <2>6. pc' \notin {"plan", "replan"} /\ (pc' # "finished" => final' = "none")
    BY <2>1 DEF StepTaken, Moved, Retrieves, Calls
  <2>7. /\ pc' \in Retrieves => (done' < Len(steps') /\ Step'.intent = "retrieve")
        /\ pc' \in Calls => (done' < Len(steps') /\ Step'.intent = "tool")
    BY <1>2, <2>3 DEF StepTaken, Moved
  <2>8. (pc' = "answer" \/ final' = "answer") => ("budget_exhausted" \in told' \/ NothingLeft(done)')
    BY <2>1, <2>2, <2>4, <2>5 DEF StepTaken, Moved
  <2> QED BY <2>6, <2>7, <2>8 DEF Placed
<1>9. MadeOnce'
  <2>0. pc # "finished"
    BY DEF StepTaken, Moved
  <2> SUFFICES ASSUME NEW f \in Formats
               PROVE  /\ \/ made'[f] = 0
                         \/ made'[f] = 1 /\ \E i \in 1 .. Len(steps) : Taken(i, done', pc') /\ steps[i].tool = f
                      /\ elsewhere'[f] = "later" =>
                           made'[f] = 0 /\ \E i \in 1 .. Len(steps) : Taken(i, done', pc') /\ steps[i].tool = f
    BY <1>2 DEF MadeOnce
  <2>1. /\ made[f] = 0 \/ (made[f] = 1 /\ \E i \in 1 .. Len(steps) : Taken(i, done, pc) /\ steps[i].tool = f)
        /\ elsewhere[f] = "later" =>
             made[f] = 0 /\ \E i \in 1 .. Len(steps) : Taken(i, done, pc) /\ steps[i].tool = f
    BY DEF PlanInv, MadeOnce
  <2>2. ASSUME NEW i \in 1 .. Len(steps), Taken(i, done, pc)
        PROVE  Taken(i, done', pc') /\ i <= done
    <3>1. i \in 1 .. done
      BY <2>0, <2>2 DEF Taken
    <3>2. i \in 1 .. done'
      BY <1>1, <1>3, <3>1
    <3> QED BY <1>1, <3>1, <3>2 DEF Taken
  <2>3. CASE made'[f] = made[f] /\ (elsewhere'[f] = elsewhere[f] \/ elsewhere'[f] = "lost")
    BY <2>1, <2>2, <2>3
  <2>4. CASE ~(made'[f] = made[f] /\ (elsewhere'[f] = elsewhere[f] \/ elsewhere'[f] = "lost"))
    <3>0. MadeHere /\ done < Len(steps) /\ (done' = done + 1 \/ (done' = done /\ pc' = "finished"))
      BY <2>4 DEF StepTaken, Finished, MadeElsewhere
    <3>1. /\ Step.tool = f
          /\ \/ made'[f] = made[f] + 1 /\ elsewhere'[f] = elsewhere[f]
             \/ made'[f] = made[f] /\ elsewhere'[f] = "later"
      BY <1>5, <2>4, <3>0 DEF MadeHere, MadeElsewhere
    <3>2. done + 1 \in 1 .. Len(steps) /\ steps[done + 1].tool = f
      BY <1>1, <3>0, <3>1 DEF Step
    <3>3. \A i \in 1 .. Len(steps) : i <= done => steps[i].tool # f
      BY <1>1, <3>2 DEF PlanInv, Shape
    <3>4. made[f] = 0 /\ elsewhere[f] # "later"
      BY <2>1, <2>2, <3>3
    <3>5. Taken(done + 1, done', pc')
      BY <1>1, <1>2, <3>0, <3>2 DEF Taken
    <3> QED BY <3>1, <3>2, <3>4, <3>5
  <2> QED BY <2>3, <2>4
<1>10. AskedForIsPlannedOrDeclined'
  <2>1. told \subseteq told' /\ pc' \notin {"plan", "replan"}
    BY DEF StepTaken, Typed, Moved, Retrieves, Calls
  <2>2. final = "none"
    BY DEF PlanInv, Placed, StepTaken, Moved
  <2>3. pc \in {"plan", "replan"} => steps = <<>>
    BY DEF PlanInv, Placed
  <2>4. AskedForIsPlannedOrDeclined
    BY DEF PlanInv
  <2> QED BY <1>2, <2>1, <2>2, <2>3, <2>4 DEF AskedForIsPlannedOrDeclined
<1>11. EveryCallIsShownInTime'
  <2> SUFFICES ASSUME ~ late', NEW i \in 1 .. done', steps[i].intent = "tool"
               PROVE  i \in shown'
    BY <1>2 DEF EveryCallIsShownInTime, CalledATool
  <2>1. ~ late
    BY DEF StepTaken, Typed, PlanInv, TypeOK
  <2>2. CASE i \in 1 .. done
    BY <1>4, <2>1, <2>2 DEF PlanInv, EveryCallIsShownInTime, CalledATool
  <2>3. CASE i \notin 1 .. done
    <3>1. i = done + 1 /\ done' = done + 1
      BY <1>1, <1>3, <2>3
    <3>2. Step.intent = "tool"
      BY <3>1 DEF Step
    <3> QED BY <1>1, <3>1, <3>2 DEF StepTaken, Finished
  <2> QED BY <2>2, <2>3
<1> QED BY <1>6, <1>7, <1>8, <1>9, <1>10, <1>11 DEF PlanInv

-----------------------------------------------------------------------------
(* The actions are such steps.                                             *)

\* The types of what a step leaves alone, or adds to.
Left ==
  /\ tokensOut \in BOOLEAN /\ late \in BOOLEAN
  /\ limits \subseteq Limitations /\ told \subseteq Limitations
  /\ loops \in Nat /\ found \in BOOLEAN /\ toolCalls \in Nat /\ searches \in Nat
  /\ computed \in BOOLEAN
  /\ status \in {"running", "awaiting_approval", "succeeded", "failed"}
  /\ done \in Nat /\ Len(steps) \in Nat /\ done <= Len(steps)

\* They hold of a run.
LEMMA LeftIs == PlanInv => Left
BY DEF PlanInv, TypeOK, Left

\* A model call spends time and tokens and may add a limitation (_generate).
LEMMA GeneratedIs ==
  ASSUME Left, Generate({})
  PROVE  late' \in {late, TRUE} /\ tokensOut' \in BOOLEAN /\ limits' \subseteq Limitations
BY DEF Left, Generate, TimePasses, Limitations

\* The step that is not done, if any, is taken or passed over (_next_step, _execute).
LEMMA NextStepTaken == ASSUME PlanInv, NextStep PROVE StepTaken
<1> USE DEF Retrieves, Calls
<1>1. Left
  BY LeftIs
<1>2. /\ pc = "execute"
      /\ UNCHANGED <<request, steps, loops, found, toolCalls, spent, limits, results, ending, searches>>
  BY DEF NextStep
<1>3. \/ /\ done = Len(steps) \/ ~ IsAction(Step)
         /\ pc' = "answer" /\ UNCHANGED <<done, told>>
      \/ pc' = "answer" /\ told' = told \cup {"budget_exhausted"} /\ UNCHANGED done
      \/ done # Len(steps) /\ pc' = "search" /\ Step.intent = "retrieve" /\ UNCHANGED <<done, told>>
      \/ done # Len(steps) /\ pc' = "bind" /\ Step.intent = "tool" /\ UNCHANGED <<done, told>>
      \/ done # Len(steps) /\ Step.intent # "tool" /\ FinishStep /\ UNCHANGED told
  BY DEF NextStep, StopEarly
<1>4. Typed
  BY <1>1, <1>2, <1>3 DEF Typed, Left, spent, results, ending, Limitations
<1>5. done = Len(steps) \/ ~ IsAction(Step) => NothingLeft(done)
  <2>1. done = Len(steps) => NothingLeft(done)
    BY <1>1 DEF Left, NothingLeft
  <2>2. \A i \in 1 .. Len(steps), j \in 1 .. Len(steps) :
          i < j /\ IsAction(steps[j]) => IsAction(steps[i])
    BY DEF PlanInv, Shape
  <2>3. done # Len(steps) => done + 1 \in 1 .. Len(steps)
    BY <1>1 DEF Left
  <2>4. \A i \in done + 1 .. Len(steps) : i \in 1 .. Len(steps) /\ (i = done + 1 \/ done + 1 < i)
    BY <1>1 DEF Left
  <2>5. done # Len(steps) /\ ~ IsAction(Step) => NothingLeft(done)
    BY <2>2, <2>3, <2>4 DEF Step, NothingLeft
  <2> QED BY <2>1, <2>5
<1>6. Moved
  BY <1>1, <1>2, <1>3, <1>5 DEF Moved, Left, ending, FinishStep
<1>7. Finished
  BY <1>1, <1>2, <1>3 DEF Finished, MadeHere, Left, results, FinishStep
<1> QED BY <1>2, <1>4, <1>6, <1>7 DEF StepTaken

\* Retrieving: search, judge, rewrite (_retrieve).
LEMMA RetrievingTaken == ASSUME PlanInv, Search \/ Judge \/ Rewrite PROVE StepTaken
<1> USE DEF Retrieves, Calls
<1>1. Left
  BY LeftIs
<1>2. /\ pc \in Retrieves /\ UNCHANGED <<request, steps, told, toolCalls, results, ending>>
      /\ \/ FinishStep
         \/ pc' \in Retrieves /\ UNCHANGED done
  BY DEF Search, Judge, Rewrite, notes
<1>3. /\ late' \in {late, TRUE} /\ tokensOut' \in BOOLEAN /\ limits' \subseteq Limitations
  <2>1. CASE Search
    BY <1>1, <2>1 DEF Left, Search, TimePasses, notes
  <2>2. CASE Judge
    BY <1>1, <2>2, GeneratedIs DEF Judge
  <2>3. CASE Rewrite
    BY <1>1, <2>3, GeneratedIs DEF Rewrite
  <2> QED BY <2>1, <2>2, <2>3
<1>4. loops' \in Nat /\ found' \in BOOLEAN /\ searches' \in Nat
  <2>1. loops' \in {loops, loops + 1} /\ found' \in {found, TRUE} /\ searches' \in {searches, searches + 1}
    <3>1. CASE Search
      BY <3>1 DEF Search
    <3>2. CASE Judge
      BY <3>2 DEF Judge
    <3>3. CASE Rewrite
      BY <3>3 DEF Rewrite
    <3> QED BY <3>1, <3>2, <3>3
  <2>2. found \in BOOLEAN /\ loops \in Nat /\ searches \in Nat
    BY <1>1 DEF Left
  <2>3. found' \in BOOLEAN
    <3>1. found' \in {found, TRUE}
      BY <2>1
    <3> QED BY <2>2, <3>1, Zenon
  <2> QED BY <2>1, <2>2, <2>3
<1>5. Typed
  BY <1>1, <1>2, <1>3, <1>4 DEF Typed, Left, results, ending
<1>6. done < Len(steps) /\ Step.intent = "retrieve"
  BY <1>2 DEF PlanInv, Placed
<1>7. Moved
  BY <1>2, <1>6 DEF Moved, ending, FinishStep
<1>8. Finished
  BY <1>2, <1>6 DEF Finished, MadeHere, results, FinishStep
<1> QED BY <1>2, <1>5, <1>7, <1>8 DEF StepTaken

\* What a call makes.
LEMMA ProducedIs ==
  ASSUME Left, Produced(Step.tool)
  PROVE  /\ computed' \in BOOLEAN
         /\ made' = made \/ (Step.tool \in Formats /\ made' = [made EXCEPT ![Step.tool] = @ + 1])
BY DEF Left, Produced

\* Acting: the arguments, the gate, the call and its retry (_act).
LEMMA ActingTaken ==
  ASSUME PlanInv, Bind \/ Gate \/ Dispatch \/ Rebind \/ Redispatch PROVE StepTaken
<1> USE DEF Retrieves, Calls
<1>1. Left
  BY LeftIs
<1>2. /\ pc \in Calls /\ UNCHANGED <<request, steps, told, loops, found, searches>>
      /\ final' = final \/ (pc' = "finished" /\ final' = "failure")
  BY DEF Bind, Gate, Dispatch, Rebind, Redispatch, Compacted, notes, ending
<1>3. done < Len(steps) /\ Step.intent = "tool"
  BY <1>2 DEF PlanInv, Placed
<1>4. late' \in {late, TRUE} /\ tokensOut' \in BOOLEAN /\ limits' \subseteq Limitations
  <2>1. UNCHANGED <<tokensOut, late, limits>> \/ Generate({})
        \/ (TimePasses /\ UNCHANGED <<tokensOut, limits>>)
    BY DEF Bind, Gate, Dispatch, Rebind, Redispatch, notes
  <2>2. tokensOut \in BOOLEAN /\ limits \subseteq Limitations
    BY <1>1 DEF Left
  <2>3. CASE Generate({})
    BY <1>1, <2>3, GeneratedIs
  <2>4. CASE UNCHANGED <<tokensOut, limits>> /\ (UNCHANGED late \/ TimePasses)
    BY <2>2, <2>4, Zenon DEF TimePasses
  <2> QED BY <2>1, <2>3, <2>4
<1>5. toolCalls' \in Nat
  <2>1. toolCalls' \in {toolCalls, toolCalls + 1}
    BY DEF Bind, Gate, Dispatch, Rebind, Redispatch
  <2> QED BY <1>1, <2>1 DEF Left
<1>6. status' \in {"running", "awaiting_approval", "succeeded", "failed"}
  <2>1. status' \in {status, "running", "awaiting_approval", "failed"}
    BY DEF Bind, Gate, Dispatch, Rebind, Redispatch, Compacted, ending
  <2> QED BY <1>1, <2>1 DEF Left
<1>7. \/ /\ pc' \in Calls /\ UNCHANGED <<done, made, computed, shown>>
         /\ UNCHANGED elsewhere \/ MadeElsewhere("lost")
      \/ /\ FinishStep /\ (Shown \/ (late /\ shown' = shown /\ FinishStep))
         /\ \/ Produced(Step.tool) /\ UNCHANGED elsewhere
            \/ UNCHANGED <<made, computed>> /\ (UNCHANGED elsewhere \/ MadeElsewhere("later"))
      \/ /\ pc' = "finished" /\ UNCHANGED <<done, elsewhere>> /\ final' = "failure"
         /\ Shown /\ Produced(Step.tool)
  <2>1. CASE Bind
    BY <2>1 DEF Bind
  <2>2. CASE Gate
    BY <2>2 DEF Gate
  <2>3. CASE Dispatch
    BY <2>3 DEF Dispatch, Skipped, Compacted
  <2>4. CASE Rebind
    BY <2>4 DEF Rebind
  <2>5. CASE Redispatch
    BY <2>5 DEF Redispatch, Skipped, KeepsRefusal, Compacted
  <2> QED BY <2>1, <2>2, <2>3, <2>4, <2>5
<1>8. /\ computed' \in BOOLEAN
      /\ made' = made \/ (Step.tool \in Formats /\ made' = [made EXCEPT ![Step.tool] = @ + 1])
  BY <1>1, <1>7, ProducedIs DEF Left
<1>9. Typed
  BY <1>1, <1>2, <1>4, <1>8, <1>5, <1>6 DEF Typed, Left
<1>10. Moved
  BY <1>2, <1>3, <1>7 DEF Moved, FinishStep
<1>11. Finished
  <2>1. CASE /\ pc' \in Calls /\ UNCHANGED <<done, made, computed, shown>>
             /\ UNCHANGED elsewhere \/ MadeElsewhere("lost")
    BY <2>1 DEF Finished
  <2>2. CASE /\ FinishStep /\ (Shown \/ (late /\ shown' = shown /\ FinishStep))
             /\ \/ Produced(Step.tool) /\ UNCHANGED elsewhere
                \/ UNCHANGED <<made, computed>> /\ (UNCHANGED elsewhere \/ MadeElsewhere("later"))
    <3>1. done' = done + 1 /\ shown' \in {shown, shown \cup {done + 1}}
      BY <2>2 DEF FinishStep, Shown
    <3>2. late => late'
      BY <1>4, Zenon
    <3>3. late' \/ shown' = shown \cup {done + 1}
      BY <2>2, <3>2, Zenon DEF Shown
    <3>4. MadeHere
      BY <1>8, <2>2 DEF MadeHere, Produced
    <3> QED BY <1>3, <3>1, <3>3, <3>4 DEF Finished
  <2>3. CASE /\ pc' = "finished" /\ UNCHANGED <<done, elsewhere>> /\ final' = "failure"
             /\ Shown /\ Produced(Step.tool)
    <3>1. MadeHere
      BY <1>8, <2>3 DEF MadeHere
    <3> QED BY <1>3, <2>3, <3>1 DEF Finished, Shown
  <2> QED BY <1>7, <2>1, <2>2, <2>3
<1> QED BY <1>2, <1>9, <1>10, <1>11 DEF StepTaken

\* The answer, and what is raised on the way to it (run).
LEMMA EndingTaken == ASSUME PlanInv, Answer \/ Fail PROVE StepTaken
<1> USE DEF Retrieves, Calls
<1>1. Left
  BY LeftIs
<1>2. /\ pc' = "finished" /\ pc # "finished" /\ late' \in {late, TRUE}
      /\ UNCHANGED <<request, planned, loops, found, toolCalls, results, searches>>
      /\ \/ final' = "answer" /\ pc = "answer" /\ status' = "succeeded"
         \/ final' = "failure" /\ status' = "failed"
  BY DEF Answer, Fail, TimePasses
<1>3. tokensOut' \in BOOLEAN
  BY <1>1 DEF Left, Answer, Fail
<1>4. limits' \subseteq Limitations /\ told \subseteq told' /\ told' \subseteq Limitations
  BY <1>1 DEF Left, Answer, Fail, Limitations, notes
<1>5. Typed
  BY <1>1, <1>2, <1>3, <1>4 DEF Typed, Left, results
<1>6. Moved /\ Finished
  BY <1>2 DEF Moved, Finished, planned, results
<1> QED BY <1>2, <1>5, <1>6 DEF StepTaken, planned

\* A stutter changes nothing.
LEMMA NothingKeeps == ASSUME PlanInv, UNCHANGED vars PROVE PlanInv'
<1>1. /\ UNCHANGED <<ask, available, searchable, pc, steps, done, loops, found, toolCalls>>
      /\ UNCHANGED <<tokensOut, late, limits, told, made, computed, shown, elsewhere, status, final, searches>>
  BY DEF vars, request, planned, spent, notes, results, ending
<1>2. TypeOK'
  BY <1>1 DEF PlanInv, TypeOK
<1>3. Shape(steps') /\ Placed' /\ MadeOnce'
  BY <1>1 DEF PlanInv, Placed, MadeOnce, Taken, NothingLeft, Step
<1>4. AskedForIsPlannedOrDeclined' /\ EveryCallIsShownInTime'
  BY <1>1 DEF PlanInv, AskedForIsPlannedOrDeclined, EveryCallIsShownInTime, CalledATool
<1> QED BY <1>2, <1>3, <1>4 DEF PlanInv

\* Every run keeps to its plan.
THEOREM PlanInvariant == Spec => []PlanInv
<1>1. PlanInv /\ [Next]_vars => PlanInv'
  BY PlanKeeps, NextStepTaken, RetrievingTaken, ActingTaken, EndingTaken, StepTakenKeeps,
     NothingKeeps, Zenon DEF Next
<1> QED BY <1>1, PlanAtFirst, PTL DEF Spec

\* Whatever fails, a run that answers has taken each step of its plan, or said that
\* the budget ended it (_execute, _synthesise).
THEOREM EachStepBeforeTheAnswer == Spec => []AnswerComesLast
<1>1. PlanInv => AnswerComesLast
  BY DEF PlanInv, Placed, NothingLeft, AnswerComesLast
<1> QED BY <1>1, PlanInvariant, PTL

\* A document that is asked for is planned as a call of its tool or declined aloud,
\* unless the planner gave the name to a retrieval, nothing of its reply was usable or
\* the plan was cut; and it is made once, unless another process made it for the run
\* and was late to say so (_ensure_requested_artifact, _synthesis_last, _act).
THEOREM NothingAskedForIsLost == Spec => []DocumentsAsAsked
<1>1. MadeOnce /\ TypeOK => OneDocumentPerFormat
  BY DEF MadeOnce, TypeOK, OneDocumentPerFormat
<1>2. PlanInv => DocumentsAsAsked
  BY <1>1 DEF PlanInv, DocumentsAsAsked
<1> QED BY <1>2, PlanInvariant, PTL

\* While a run is within its time each finished call has shown a result, also when it
\* was refused, corrected and refused again (_act).
THEOREM EachCallIsShown == Spec => []EveryCallIsShownInTime
<1>1. PlanInv => EveryCallIsShownInTime
  BY DEF PlanInv
<1> QED BY <1>1, PlanInvariant, PTL

\* What a run holds is of its kind, and what bounds it bounds it.
THEOREM AgentInvariant == Spec => []AgentInv
<1>1. PlanInv /\ BoundsInv => AgentInv
  BY DEF PlanInv, BoundsInv, SearchesPaidFor, AgentInv
<1> QED BY <1>1, PlanInvariant, BoundsInvariant, PTL
=============================================================================
