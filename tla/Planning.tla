------------------------------ MODULE Planning ------------------------------
(***************************************************************************)
(* How the planner's reply becomes a plan: _parse_plan, the repairs it     *)
(* makes and the cut at its end (agent/runner.py), with the reading of the *)
(* request that the repairs rest on (agent/artifact_intent.py).            *)
(*                                                                         *)
(* A step is what the executor looks at: its intent and the tool it names. *)
(* A reply is "json" with its raw steps, "garbled" (json.loads fails) or   *)
(* "odd": JSON that is not an object of steps, on which payload.get or     *)
(* raw_step.get raises.                                                    *)
(***************************************************************************)
EXTENDS Sequences, SequencesExt, FiniteSetsExt, Integers, Lists

CONSTANTS
  Tools,      \* the names of the registered tools
  Formats,    \* those that produce a document: the names "artifact.*"
  Preference, \* their order in _FORMATS, the most specific wording first
  Span,       \* how many words may stand between the verb and the document
  NoTool,     \* a step that names no tool; a request that asks for no document
  PlanLength  \* the length a plan is cut to: 6 in the code

ASSUME PlanningAssumption ==
  /\ Formats \subseteq Tools
  /\ Preference \in Seq(Formats) /\ Preference # <<>>
  /\ Span \in Nat
  /\ NoTool \notin Tools
  /\ PlanLength \in Nat \ {0, 1}

-----------------------------------------------------------------------------
(* Steps                                                                   *)

Intents == {"retrieve", "tool", "synthesize"}

PlanStep == [intent : Intents, tool : Tools \cup {NoTool}]

\* What a planner writes as an intent may be no intent at all.
RawStep == [intent : Intents \cup {"unknown"}, tool : Tools \cup {NoTool}]

IsAction(step) == step.intent # "synthesize"

TheAnswer == [intent |-> "synthesize", tool |-> NoTool]

Produce(tool) == [intent |-> "tool", tool |-> tool]

Fallback == <<[intent |-> "retrieve", tool |-> NoTool], TheAnswer>>

-----------------------------------------------------------------------------
(* Reading the request                                                     *)

\* A request is its words, as far as they matter: a verb that asks for
\* something to be made ("produce"), a word for one of the formats, a word for
\* some document ("summary"), any other.
AsksFor(words, object) ==
  \E i, j \in DOMAIN words :
    /\ words[i] = "produce" /\ words[j] = object
    /\ i < j /\ j - i - 1 <= Span

\* artifact_intent.detect_format: the first format in order of preference, not
\* of the sentence; a document of no format is a Word file, the last of them.
DetectFormat(words) ==
  LET asked == {k \in DOMAIN Preference : AsksFor(words, Preference[k])}
  IN  IF asked # {} THEN Preference[Min(asked)]
      ELSE IF AsksFor(words, "summary") THEN Preference[Len(Preference)]
      ELSE NoTool

\* artifact_intent.requested_artifact: the same, if the caller may produce it.
RequestedArtifact(ask, available) == IF ask \in available THEN ask ELSE NoTool

-----------------------------------------------------------------------------
(* Reading the reply                                                       *)

\* A step that names a tool is a tool step, whatever the planner called it,
\* unless it called it a retrieval.
Labelled(raw) ==
  IF raw.tool # NoTool /\ raw.intent # "retrieve" /\ raw.intent \in Intents
  THEN Produce(raw.tool)
  ELSE raw

\* An unknown intent skips the step without a word.
Readable(raw) == raw.intent \in Intents

CanRun(step, available) == step.intent = "tool" => step.tool \in available

Understood(reply) == Kept(reply.steps, {raw \in RawStep : Readable(raw)})

StepsOf(reply, available) ==
  LET kept == Kept(Understood(reply), {raw \in RawStep : CanRun(Labelled(raw), available)})
  IN  [i \in DOMAIN kept |-> Labelled(kept[i])]

\* state["errors"] of node "plan": the reply was not JSON, or a step was
\* dropped because its tool is not available.
HasProblem(reply, available) ==
  \/ reply.form = "garbled"
  \/ \E i \in DOMAIN Understood(reply) :
       ~ CanRun(Labelled(Understood(reply)[i]), available)

FallsBack(reply, available) ==
  reply.form = "garbled" \/ StepsOf(reply, available) = <<>>

-----------------------------------------------------------------------------
(* Repairing the plan                                                      *)

\* The request was understood and is declined: a limitation is recorded. This
\* is reached by a reply with a usable step only.
Declines(reply, ask, available) ==
  /\ ~ FallsBack(reply, available)
  /\ ask # NoTool
  /\ ask \notin available

EnsureRequestedArtifact(steps, ask, available) ==
  LET wanted   == RequestedArtifact(ask, available)
      insertAt == 1 + Max({0} \cup {i \in DOMAIN steps : IsAction(steps[i])})
  IN  IF wanted = NoTool \/ \E i \in DOMAIN steps : steps[i].tool = wanted
      THEN steps
      ELSE InsertAt(steps, insertAt, Produce(wanted))

\* Of the steps that name one document tool only the first stays.
Repeats(actions, i) ==
  actions[i].tool \in Formats /\ \E j \in 1 .. i - 1 : actions[j].tool = actions[i].tool

OneOfEachFormat(actions) ==
  LET places == Kept([i \in DOMAIN actions |-> i], {i \in DOMAIN actions : ~ Repeats(actions, i)})
  IN  [k \in DOMAIN places |-> actions[places[k]]]

\* All synthesize steps are alike here: none of them names a tool.
SynthesisLast(steps) ==
  Append(OneOfEachFormat(Kept(steps, {s \in PlanStep : IsAction(s)})), TheAnswer)

Cut(steps) == SubSeq(steps, 1, Min({Len(steps), PlanLength}))

\* Faults: the planner's order kept; the request not looked at.
RepairedInPlannersOrder(reply, ask, available) ==
  EnsureRequestedArtifact(StepsOf(reply, available), ask, available)

RepairedWithoutTheRequest(reply, ask, available) ==
  SynthesisLast(StepsOf(reply, available))

Repaired(reply, ask, available) ==
  SynthesisLast(EnsureRequestedArtifact(StepsOf(reply, available), ask, available))

ParsePlan(reply, ask, available) ==
  IF FallsBack(reply, available)
  THEN Fallback
  ELSE Cut(Repaired(reply, ask, available))
=============================================================================
