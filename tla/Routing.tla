------------------------------ MODULE Routing ------------------------------
(***************************************************************************)
(* The model router (router/router.py), its selection and its circuit      *)
(* breaker (router/policy.py), what the registry believes to be installed  *)
(* (providers/registry.py), and the model calls of runs that use them      *)
(* (AgentRunner._generate and the stream of _synthesise).  Backends stop   *)
(* and start under it.                                                     *)
(*                                                                         *)
(* Time is a clock of a few ticks.  The score of a candidate depends on    *)
(* what is resident, so any eligible candidate may win.  The breaker opens *)
(* by trip alone: nothing in the program calls fallback_after_failure.     *)
(* Of the capabilities only vision is kept: every model config/models.yaml *)
(* lists in a lane but embedding has chat and json, and no call of route   *)
(* asks for tools.                                                         *)
(***************************************************************************)
EXTENDS Integers, Sequences, SequencesExt, Lists

CONSTANTS
    Models,         \* logical names of config/models.yaml
    Backend,        \* the provider of each
    Sees,           \* those with the vision capability
    WindowOf,       \* the context window of each
    Lanes,          \* lane -> its models in order
    LaneOrder,      \* the lanes as the manifest lists them
    BackendOrder,   \* the providers as the manifest lists them
    IntentLane,     \* stage0.node_intent_map of config/router.yaml
    LongPrompt,     \* stage0.long_ctx_token_threshold
    Margin,         \* stage1.margin_threshold
    Fallback,       \* stage2.fallback_lane
    Callers,
    Asks,           \* per run: its model calls in order, what each asks of route
    Cooldown,       \* ticks a breaker stays open
    Ttl,            \* ticks an availability probe is good for
    MaxTime,        \* bound: the clock
    MaxOutages,     \* bound: times a backend stops
    NoModel

Backends == ToSet(BackendOrder)
Never == MaxTime + 1

\* What loading the manifest checks (ModelRegistry._validate), and what a call of
\* route gives (RouteRequest, extract_features).
ASSUME RoutingAssumption ==
    /\ BackendOrder \in Seq(Backends) /\ Backend \in [Models -> Backends]
    /\ Sees \subseteq Models /\ WindowOf \in [Models -> Nat] /\ NoModel \notin Models
    /\ \A l \in DOMAIN Lanes : Lanes[l] \in Seq(Models)
    /\ LaneOrder \in Seq(DOMAIN Lanes) /\ ToSet(LaneOrder) = DOMAIN Lanes
    /\ {"vision", "long_ctx", Fallback} \subseteq DOMAIN Lanes
    /\ \A l \in DOMAIN IntentLane : IntentLane[l] \in DOMAIN Lanes
    /\ ToSet(Lanes["vision"]) \subseteq Sees
    /\ \A t \in Callers :
         /\ Asks[t] # <<>>
         /\ Asks[t] \in Seq(ToSet(Asks[t]))
         /\ \A r \in ToSet(Asks[t]) :
              /\ r.tokens \in Nat /\ r.images \in BOOLEAN /\ r.insists \in BOOLEAN
              /\ r.scores \in [DOMAIN Lanes -> Nat]
    /\ {LongPrompt, Margin, Ttl, MaxTime, MaxOutages} \subseteq Nat /\ Cooldown \in Nat \ {0}

-----------------------------------------------------------------------------
(***************************************************************************)
(* Choosing a lane: ModelRouter._stage0_decide, _stage1_decide and         *)
(* _stage2_decide.                                                         *)
(***************************************************************************)

Best(scores) ==
    LET top == {l \in DOMAIN scores : \A k \in DOMAIN scores : scores[k] <= scores[l]}
    IN  Kept(LaneOrder, top)[1]

\* The lane whose words score best, unless another is within the margin.  Words
\* about drawings count for nothing when there is no image to look at.
Lexical(scores, images) ==
    LET heard == IF Best(scores) = "vision" /\ ~images
                 THEN [scores EXCEPT !["vision"] = 0] ELSE scores
        lane == Best(heard)
        clear == \A k \in DOMAIN heard \ {lane} : heard[k] + Margin <= heard[lane]
    IN  IF heard[lane] > 0 /\ clear THEN {lane} ELSE {}

\* The small model may name any lane but embedding; when it fails, the fallback.
Classified == (DOMAIN Lanes \ {"embedding"}) \cup {Fallback}

\* The lanes a request may be given.  Only an ambiguous text leaves a choice.
LanesFor(r) ==
    IF r.hint \in DOMAIN Lanes THEN {r.hint}
    ELSE IF r.images THEN {"vision"}
    ELSE IF r.intent \in DOMAIN IntentLane THEN {IntentLane[r.intent]}
    ELSE IF r.tokens > LongPrompt THEN {"long_ctx"}
    ELSE IF Lexical(r.scores, r.images) # {} THEN Lexical(r.scores, r.images)
    ELSE Classified

-----------------------------------------------------------------------------
VARIABLES
    up,         \* backends that answer
    available,  \* models the last probe found
    probedAt,   \* when it ended
    opened,     \* per model: when its breaker was tripped
    clock,
    at,         \* per run: "route", "probe", "select", "call", "done", "dead"
    turn,       \* per run: which of its calls it is at
    chosen,     \* per run: the model it calls
    laneGiven,  \* per run: the lane of its RouteDecision
    routed,     \* per run: the model of its RouteDecision
    askedAgain, \* per run: the planner is asked for the second time
    probed,     \* per run: what its probe has found so far
    polled,     \* per run: how many backends its probe has asked
    outages,
    downAt,     \* history: when each backend was last down
    missedAt    \* history: when a model call last found it missing

belief == <<available, probedAt, opened>>
decision == <<laneGiven, routed>>
runVars == <<at, turn, chosen, decision, askedAgain, probed, polled>>
world == <<up, clock, outages, downAt>>
routingVars == <<belief, runVars, world, missedAt>>

Times == 0..Never

RoutingTypeOK ==
    /\ up \subseteq Backends /\ available \subseteq Models
    /\ probedAt \in 0..MaxTime /\ clock \in 0..MaxTime
    /\ opened \in [Models -> Times]
    /\ at \in [Callers -> {"route", "probe", "select", "call", "done", "dead"}]
    /\ \A t \in Callers : turn[t] \in DOMAIN Asks[t]
    /\ chosen \in [Callers -> Models \cup {NoModel}]
    /\ laneGiven \in [Callers -> DOMAIN Lanes \cup {"none"}]
    /\ routed \in [Callers -> Models \cup {NoModel}]
    /\ askedAgain \in [Callers -> BOOLEAN]
    /\ probed \in [Callers -> SUBSET Models]
    /\ polled \in [Callers -> 0..Len(BackendOrder)]
    /\ outages \in 0..MaxOutages
    /\ downAt \in [Backends -> Times] /\ missedAt \in [Backends -> Times]

\* The service probes its backends when it starts.
RoutingInit ==
    /\ up \in SUBSET Backends
    /\ available = {m \in Models : Backend[m] \in up}
    /\ probedAt = 0 /\ clock = 0
    /\ opened = [m \in Models |-> Never]
    /\ at = [t \in Callers |-> "route"]
    /\ turn = [t \in Callers |-> 1]
    /\ chosen = [t \in Callers |-> NoModel]
    /\ laneGiven = [t \in Callers |-> "none"]
    /\ routed = [t \in Callers |-> NoModel]
    /\ askedAgain = [t \in Callers |-> FALSE]
    /\ probed = [t \in Callers |-> {}]
    /\ polled = [t \in Callers |-> 0]
    /\ outages = 0
    /\ downAt = [b \in Backends |-> IF b \in up THEN Never ELSE 0]
    /\ missedAt = [b \in Backends |-> Never]

-----------------------------------------------------------------------------
(***************************************************************************)
(* Choosing a model.                                                       *)
(***************************************************************************)

\* CircuitBreaker.is_open.  A state that has cooled down counts as a new one.
IsOpen(m) == opened[m] # Never /\ clock < opened[m] + Cooldown

\* lane_candidates: those installed, or all of them when none is.
Candidates(lane) ==
    LET present == Kept(Lanes[lane], available)
    IN  IF present = <<>> THEN Lanes[lane] ELSE present

Fits(m, tokens) == tokens + (tokens \div 4) <= WindowOf[m]

\* SelectionPolicy.select: those that fit, or the widest when none does.
Eligible(lane, tokens) ==
    LET able == {m \in ToSet(Candidates(lane)) :
                    ~IsOpen(m) /\ (lane = "vision" => m \in Sees)}
        fitting == {m \in able : Fits(m, tokens)}
    IN  IF fitting # {} THEN fitting
        ELSE {m \in able : \A n \in able : WindowOf[n] <= WindowOf[m]}

Request(t) == Asks[t][turn[t]]

\* ModelRegistry.stale: only while something is marked missing.
Stale == available # Models /\ clock >= probedAt + Ttl

Route(t) ==
    /\ at[t] = "route"
    /\ at' = [at EXCEPT ![t] = IF Stale THEN "probe" ELSE "select"]
    /\ UNCHANGED <<belief, turn, chosen, decision, askedAgain, probed, polled, world, missedAt>>

\* probe_availability asks one backend after the other ...
Poll(t) ==
    /\ at[t] = "probe" /\ polled[t] < Len(BackendOrder)
    /\ LET b == BackendOrder[polled[t] + 1]
       IN  probed' = [probed EXCEPT ![t] = @ \cup {m \in Models : Backend[m] = b /\ b \in up}]
    /\ polled' = [polled EXCEPT ![t] = @ + 1]
    /\ UNCHANGED <<belief, at, turn, chosen, decision, askedAgain, world, missedAt>>

\* ... and replaces what was believed.
EndProbe(t) ==
    /\ at[t] = "probe" /\ polled[t] = Len(BackendOrder)
    /\ available' = probed[t]
    /\ probedAt' = clock
    /\ probed' = [probed EXCEPT ![t] = {}]
    /\ polled' = [polled EXCEPT ![t] = 0]
    /\ at' = [at EXCEPT ![t] = "select"]
    /\ UNCHANGED <<opened, turn, chosen, decision, askedAgain, world, missedAt>>

Select(t) ==
    /\ at[t] = "select"
    /\ \E lane \in LanesFor(Request(t)) :
         LET eligible == Eligible(lane, Request(t).tokens)
         IN  \/ \E m \in eligible :
                  /\ chosen' = [chosen EXCEPT ![t] = m]
                  /\ laneGiven' = [laneGiven EXCEPT ![t] = lane]
                  /\ routed' = [routed EXCEPT ![t] = m]
                  /\ at' = [at EXCEPT ![t] = "call"]
             \/ /\ eligible = {}
                /\ at' = [at EXCEPT ![t] = "dead"]
                /\ UNCHANGED <<chosen, decision>>
    /\ UNCHANGED <<belief, turn, askedAgain, probed, polled, world, missedAt>>

-----------------------------------------------------------------------------
(***************************************************************************)
(* Calling it.                                                             *)
(***************************************************************************)

\* A call is over, and with it the decision it was made by.
Over(t) ==
    /\ chosen' = [chosen EXCEPT ![t] = NoModel]
    /\ laneGiven' = [laneGiven EXCEPT ![t] = "none"]
    /\ routed' = [routed EXCEPT ![t] = NoModel]

Answered(t) ==
    /\ at[t] = "call" /\ Backend[chosen[t]] \in up
    /\ IF turn[t] = Len(Asks[t])
       THEN at' = [at EXCEPT ![t] = "done"] /\ UNCHANGED turn
       ELSE at' = [at EXCEPT ![t] = "route"] /\ turn' = [turn EXCEPT ![t] = @ + 1]
    /\ Over(t)
    /\ askedAgain' = [askedAgain EXCEPT ![t] = FALSE]
    /\ UNCHANGED <<belief, probed, polled, world, missedAt>>

\* _plan: the reply is no JSON, and the model of the decision is asked once more.  That
\* is the one first routed to, if a stand-in answered for it or its breaker is open.
AskAgain(t) ==
    /\ at[t] = "call" /\ Backend[chosen[t]] \in up
    /\ Request(t).insists /\ ~askedAgain[t]
    /\ askedAgain' = [askedAgain EXCEPT ![t] = TRUE]
    /\ chosen' = [chosen EXCEPT ![t] = routed[t]]
    /\ UNCHANGED <<belief, at, turn, decision, probed, polled, world, missedAt>>

\* A fault: a stand-in from whatever lane.
StandInOfAnyLane(m) ==
    SetToSeq({n \in available : Backend[n] # Backend[m] /\ ~IsOpen(n)})

\* stand_in_for: in the first lane that lists the model, another backend's.
StandIns(m) ==
    LET lane == Kept(LaneOrder, {l \in DOMAIN Lanes : Contains(Lanes[l], m)})[1]
    IN  Kept(Candidates(lane), {n \in Models : Backend[n] # Backend[m] /\ ~IsOpen(n)})

\* A fault: the one model that failed taken out and not its siblings.
TripOne(m) == opened' = [opened EXCEPT ![m] = clock]

\* note_unreachable: every model of the backend is taken out.
Trip(m) ==
    opened' = [n \in Models |-> IF Backend[n] = Backend[m] THEN clock ELSE opened[n]]

\* _generate: the connection is refused, and the lane is asked for a stand-in.
Unreachable(t) ==
    /\ at[t] = "call" /\ Backend[chosen[t]] \notin up /\ ~Request(t).streams
    /\ Trip(chosen[t])
    /\ missedAt' = [missedAt EXCEPT ![Backend[chosen[t]]] = clock]
    /\ IF StandIns(chosen[t]) = <<>>
       THEN at' = [at EXCEPT ![t] = "dead"] /\ Over(t)
       ELSE chosen' = [chosen EXCEPT ![t] = StandIns(chosen[t])[1]] /\ UNCHANGED <<at, decision>>
    /\ UNCHANGED <<available, probedAt, turn, askedAgain, probed, polled, world>>

\* _synthesise has no stand-in and tells the breaker nothing.
StreamBreaks(t) ==
    /\ at[t] = "call" /\ Backend[chosen[t]] \notin up /\ Request(t).streams
    /\ at' = [at EXCEPT ![t] = "dead"]
    /\ Over(t)
    /\ UNCHANGED <<belief, turn, askedAgain, probed, polled, world, missedAt>>

-----------------------------------------------------------------------------
Stops(b) ==
    /\ b \in up /\ outages < MaxOutages
    /\ up' = up \ {b}
    /\ outages' = outages + 1
    /\ downAt' = [downAt EXCEPT ![b] = clock]
    /\ UNCHANGED <<belief, runVars, clock, missedAt>>

Starts(b) ==
    /\ b \notin up
    /\ up' = up \cup {b}
    /\ downAt' = [downAt EXCEPT ![b] = clock]
    /\ UNCHANGED <<belief, runVars, clock, outages, missedAt>>

Tick ==
    /\ clock < MaxTime
    /\ clock' = clock + 1
    /\ downAt' = [b \in Backends |-> IF b \in up THEN downAt[b] ELSE clock + 1]
    /\ UNCHANGED <<belief, runVars, up, outages, missedAt>>

RunStep(t) == Route(t) \/ Poll(t) \/ EndProbe(t) \/ Select(t)
                \/ Answered(t) \/ AskAgain(t) \/ Unreachable(t) \/ StreamBreaks(t)

RoutingNext ==
    \/ \E t \in Callers : RunStep(t)
    \/ \E b \in Backends : Stops(b) \/ Starts(b)
    \/ Tick

RoutingSpec == RoutingInit /\ [][RoutingNext]_routingVars

-----------------------------------------------------------------------------
(***************************************************************************)
(* Properties.                                                             *)
(***************************************************************************)

\* What loading does not check and config/models.yaml keeps to: a lane that may be
\* routed to lists some model, and one with a model that sees lists no other.
ManifestServes ==
    /\ \A l \in DOMAIN Lanes \ {"embedding"} : Lanes[l] # <<>>
    /\ \A l \in DOMAIN Lanes : ToSet(Lanes[l]) \cap Sees = {} \/ ToSet(Lanes[l]) \subseteq Sees

\* What the program asks of the router: never for the embedding lane, and for no lane
\* but vision by a hint when there is an image (AgentRunner._route, _synthesise).
AsksServe ==
    \A t \in Callers : \A r \in ToSet(Asks[t]) :
        /\ "embedding" \notin LanesFor(r)
        /\ r.images => r.hint \notin DOMAIN Lanes \ {"vision"}

\* Nothing but the words of a request can decide its lane ...
ByWords(r) ==
    /\ r.hint \notin DOMAIN Lanes /\ r.intent \notin DOMAIN IntentLane
    /\ ~r.images /\ r.tokens <= LongPrompt

\* ... and they do not either.
Ambiguous(r) == ByWords(r) /\ Lexical(r.scores, FALSE) = {}

\* A request with an image is only ever sent to a model that sees: the one routed to,
\* every stand-in, and the one asked again.  One without an image is given the vision
\* lane only by a hint or by its intent, never for the words in it (_stage0_decide,
\* _stage1_decide, stand_in_for).  Exception: an ambiguous text, which the small model
\* may give to the vision lane without an image to look at (_stage2_decide).
PicturesGoToEyes ==
    \A t \in Callers : at[t] = "call" =>
        LET r == Request(t)
        IN  /\ r.images => chosen[t] \in Sees
            /\ ~r.images /\ laneGiven[t] = "vision" =>
                 \/ r.hint = "vision"
                 \/ r.intent \in DOMAIN IntentLane /\ IntentLane[r.intent] = "vision"
                 \/ Ambiguous(r)

RoutingInv == RoutingTypeOK /\ PicturesGoToEyes

\* A run that turns to a model does not turn to a backend that a call of any run
\* found missing, until the breaker has cooled down.  Exception: the planner's second
\* call, which is not routed and goes back to the model its first one was routed to,
\* though that call itself may have found its backend missing (_plan).
Avoided(t) ==
    LET b == Backend[chosen'[t]]
        turns == at'[t] = "call" /\ (at[t] = "select" \/ chosen'[t] # chosen[t])
    IN  turns /\ askedAgain'[t] = askedAgain[t]
          => missedAt'[b] = Never \/ clock >= missedAt'[b] + Cooldown

\* A run that fails for want of a model does so while some backend is down, or was
\* within the last cooldown.
Forgotten(t) ==
    (at[t] # "dead" /\ at'[t] = "dead")
      => \E b \in Backends : downAt[b] # Never /\ clock < downAt[b] + Cooldown

\* An outage is remembered as long as the breaker is open, by every run that is routed
\* or looks for a stand-in, whatever lane it asks for, and not longer, whatever is still
\* believed of the backends (note_unreachable, is_open, lane_candidates).
OutageIsAvoidedThenForgotten ==
    [][\A t \in Callers : Avoided(t) /\ Forgotten(t)]_routingVars
=============================================================================
