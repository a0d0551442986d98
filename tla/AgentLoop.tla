----------------------------- MODULE AgentLoop -----------------------------
(***************************************************************************)
(* One run of the agent loop (AgentRunner.run, agent/runner.py): plan, ask *)
(* the planner once more if something was wrong with its reply, execute    *)
(* the steps while the budget lasts, answer, and end, whatever happened.   *)
(*                                                                         *)
(* An action is the code between two awaits on something outside the run:  *)
(* a model call, a search, a tool, a person. What these return is chosen   *)
(* from the outcomes the code tells apart. Every one of them may raise.    *)
(***************************************************************************)
EXTENDS Planning

CONSTANTS
  Requests,        \* what users ask, as their words
  Replies,         \* the planner's replies
  Gated,           \* the tools that need a person's approval
  MaxToolCalls,    \* Budget.max_tool_calls: 12
  MaxRetrieveLoops \* 3

ASSUME AgentAssumption ==
  /\ Gated \subseteq Tools
  /\ \A reply \in Replies : reply.steps \in Seq(RawStep)
  /\ MaxToolCalls \in Nat \ {0}
  /\ MaxRetrieveLoops \in Nat \ {0}

VARIABLES
  ask,        \* the document format the request asks for, or NoTool
  available,  \* the tools this principal may use
  searchable, \* the run has a retriever
  pc,         \* what the run is waiting for
  steps,      \* state["plan"]
  done,       \* how many of its steps are done: always the first ones
  loops,      \* state["loops"]["retrieve"]
  found,      \* state["evidence"] is not empty
  toolCalls,  \* budget.tool_calls_used
  tokensOut,  \* budget.tokens_used has reached its limit
  late,       \* the wall clock has reached its limit
  limits,     \* the kinds in state["limitations"]
  told,       \* the kinds sent as LIMITATION events
  made,       \* documents the run produced or took over, by format
  elsewhere,  \* history, by format: whether another process makes a document of the run
  computed,   \* a calculation is among state["tool_results"]
  shown,      \* the steps for which a TOOL_RESULT event was sent
  status,     \* state["status"]
  final,      \* what state["final"] holds
  searches    \* history: how often the retriever was asked

request == <<ask, available, searchable>>
planned == <<steps, done>>
spent == <<tokensOut, late>>
notes == <<limits, told>>
results == <<made, computed, shown, elsewhere>>
ending == <<status, final>>
vars == <<request, pc, planned, loops, found, toolCalls, spent, notes, results,
          ending, searches>>

Limitations == {"artifact_not_permitted", "provider_unreachable",
                "budget_exhausted", "calculation_overridden"}

TypeOK ==
  /\ ask \in Formats \cup {NoTool}
  /\ available \subseteq Tools
  /\ searchable \in BOOLEAN
  /\ pc \in {"plan", "replan", "execute", "search", "judge", "rewrite", "bind",
             "gate", "tool", "rebind", "retool", "answer", "finished"}
  /\ steps \in Seq(PlanStep) /\ Len(steps) <= PlanLength
  /\ done \in 0 .. Len(steps)
  /\ loops \in Nat /\ found \in BOOLEAN
  /\ toolCalls \in Nat
  /\ tokensOut \in BOOLEAN /\ late \in BOOLEAN
  /\ limits \subseteq Limitations /\ told \subseteq Limitations
  /\ made \in [Formats -> Nat] /\ computed \in BOOLEAN
  /\ elsewhere \in [Formats -> {"no", "later", "lost"}]
  /\ shown \subseteq 1 .. PlanLength
  /\ status \in {"running", "awaiting_approval", "succeeded", "failed"}
  /\ final \in {"none", "answer", "failure"}
  /\ searches \in Nat

Init ==
  /\ ask \in {DetectFormat(words) : words \in Requests}
  /\ available \in {Tools, Tools \ Formats}
  /\ searchable \in BOOLEAN
  /\ pc = "plan"
  /\ steps = <<>> /\ done = 0
  /\ loops = 0 /\ found = FALSE
  /\ toolCalls = 0 /\ tokensOut = FALSE /\ late = FALSE
  /\ limits = {} /\ told = {}
  /\ made = [f \in Formats |-> 0] /\ computed = FALSE /\ shown = {}
  /\ elsewhere = [f \in Formats |-> "no"]
  /\ status = "running" /\ final = "none"
  /\ searches = 0

-----------------------------------------------------------------------------
(* Budget and model calls                                                  *)

Exhausted == toolCalls >= MaxToolCalls \/ tokensOut \/ late

\* Time passes at every await, and a run may pass its limit at any of them.
TimePasses == late' \in {late, TRUE}

\* _generate: tokens are spent, and where the backend is unreachable a stand-in
\* on another one answers, which is recorded as a limitation but not sent.
Generate(recorded) ==
  /\ TimePasses
  /\ tokensOut' \in {tokensOut, TRUE}
  /\ \E standIn \in {{}, {"provider_unreachable"}} :
       limits' = limits \cup recorded \cup standIn

Step == steps[done + 1]

FinishStep ==
  /\ done' = done + 1
  /\ pc' = "execute"

Shown == shown' = shown \cup {done + 1}

-----------------------------------------------------------------------------
(* Planning                                                                *)

\* The planner answers for the first or, with state["errors"] cleared of the
\* plan's, the second time. The first plan is forgotten; what parsing it appended
\* to the limitations is not. A reply that is not an object
\* raises.
Plan ==
  /\ pc \in {"plan", "replan"}
  /\ \E reply \in {r \in Replies : r.form # "odd"} :
       /\ IF pc = "plan" /\ HasProblem(reply, available)
          THEN pc' = "replan" /\ UNCHANGED steps
          ELSE pc' = "execute" /\ steps' = ParsePlan(reply, ask, available)
       /\ Generate(IF Declines(reply, ask, available)
                   THEN {"artifact_not_permitted"} ELSE {})
       /\ told' = IF pc' = "replan" THEN told ELSE told \cup limits'
  /\ UNCHANGED <<request, done, loops, found, toolCalls, results, ending, searches>>

-----------------------------------------------------------------------------
(* Faults: variants of the definitions below that are not the code.        *)

\* The exhausted budget is reported and the loop goes on.
GoOn == UNCHANGED pc

\* A refusal is taken up without a look at the calls left.
TakesUpEveryRefusal == Step.tool \notin Gated

\* A retry that raises has cleared the events of the refusal.
LosesRefusal == UNCHANGED shown

-----------------------------------------------------------------------------
(* Executing                                                               *)

\* The budget ends the loop, not the run: the answer uses what there is.
StopEarly == pc' = "answer"

\* The first step that is not done; none left, or the answer, ends the loop.
NextStep ==
  /\ pc = "execute"
  /\ IF done = Len(steps) \/ ~ IsAction(Step)
     THEN pc' = "answer" /\ UNCHANGED <<done, told>>
     ELSE IF Exhausted
     THEN StopEarly /\ told' = told \cup {"budget_exhausted"} /\ UNCHANGED done
     ELSE /\ UNCHANGED told
          /\ IF Step.intent = "retrieve" /\ searchable
             THEN pc' = "search" /\ UNCHANGED done
             ELSE IF Step.intent = "tool"
             THEN pc' = "bind" /\ UNCHANGED done
             ELSE FinishStep
  /\ UNCHANGED <<request, steps, loops, found, toolCalls, spent, limits, results,
                 ending, searches>>

\* retriever.search and merge_evidence. The loop counter is the run's, not the
\* step's.
Search ==
  /\ pc = "search"
  /\ searches' = searches + 1
  /\ found' \in {found, TRUE}
  /\ IF loops >= MaxRetrieveLoops - 1
     THEN FinishStep
     ELSE pc' = "judge" /\ UNCHANGED done
  /\ TimePasses
  /\ UNCHANGED <<request, steps, loops, toolCalls, tokensOut, notes, results, ending>>

\* _sufficient. Without evidence a rewritten query is not tried.
Judge ==
  /\ pc = "judge"
  /\ Generate({})
  /\ \E sufficient \in BOOLEAN :
       IF sufficient \/ ~ found
       THEN FinishStep /\ UNCHANGED loops
       ELSE /\ loops' = loops + 1
            /\ pc' = "rewrite" /\ UNCHANGED done
  /\ UNCHANGED <<request, steps, found, toolCalls, told, results, ending, searches>>

\* _rewrite: no usable query ends the step.
Rewrite ==
  /\ pc = "rewrite"
  /\ Generate({})
  /\ \/ pc' = "search" /\ UNCHANGED done
     \/ FinishStep
  /\ UNCHANGED <<request, steps, loops, found, toolCalls, told, results, ending, searches>>

-----------------------------------------------------------------------------
(* Acting                                                                  *)

\* _bind_args. The planner's arguments fit, or a model writes them; what it
\* writes may be late, cut off, no JSON or short of an input, and then the step
\* ends with that as its result.
Bind ==
  /\ pc = "bind"
  /\ \/ UNCHANGED <<tokensOut, late, limits>>
     \/ Generate({})
  /\ \/ /\ pc' = IF Step.tool \in Gated THEN "gate" ELSE "tool"
        /\ UNCHANGED <<done, shown>>
     \/ FinishStep /\ Shown
  /\ UNCHANGED <<request, steps, loops, found, toolCalls, told, made, computed, elsewhere,
                 ending, searches>>

\* A document, or a calculation, among the results of the step.
Produced(tool) ==
  /\ made' = IF tool \in Formats THEN [made EXCEPT ![tool] = @ + 1] ELSE made
  /\ computed' = (computed \/ tool \notin Gated)

MadeElsewhere(how) ==
  elsewhere' = [f \in Formats |-> IF f = Step.tool THEN how ELSE elsewhere[f]]

\* _await_approval and execute_approved: nobody has decided in time, and whoever does
\* later produces the document without this run; a person refuses; the action was
\* carried out and its result is taken; or there is no result, and the run dispatches
\* the tool itself, whether or not another process carried the action out and is late
\* to say so.
Gate ==
  /\ pc = "gate"
  /\ TimePasses
  /\ \/ /\ status' = "awaiting_approval"
        /\ FinishStep /\ Shown
        /\ MadeElsewhere("later")
        /\ UNCHANGED <<toolCalls, made, computed>>
     \/ /\ status' = "running"
        /\ FinishStep /\ Shown
        /\ UNCHANGED <<toolCalls, made, computed, elsewhere>>
     \/ /\ toolCalls' = toolCalls + 1
        /\ FinishStep /\ Shown
        /\ \/ Produced(Step.tool)
           \/ UNCHANGED <<made, computed>>
        /\ UNCHANGED <<status, elsewhere>>
     \/ /\ pc' = "tool"
        /\ MadeElsewhere("lost") \/ UNCHANGED elsewhere
        /\ UNCHANGED <<done, toolCalls, made, computed, shown, status>>
  /\ UNCHANGED <<request, steps, loops, found, tokensOut, notes, final, searches>>

\* The dispatcher says nothing of a call it skips because the run's deadline
\* has passed: it returns a failure before its first trace event.
Skipped == late

\* A refusal is taken up only for a tool without a gate and with a call left;
\* its events are held back until the correction is settled.
TakesUpRefusal == Step.tool \notin Gated /\ toolCalls + 1 < MaxToolCalls

\* _compact: of a result longer than 2000 characters the first 2000 are read as JSON,
\* which raises, and nothing catches that before run.
Compacted ==
  \/ FinishStep /\ UNCHANGED ending
  \/ pc' = "finished" /\ final' = "failure" /\ status' = "failed" /\ UNCHANGED done

Dispatch ==
  /\ pc = "tool"
  /\ \/ /\ FinishStep /\ Shown                       \* raised: not counted
        /\ UNCHANGED <<toolCalls, made, computed, ending>>
     \/ /\ toolCalls' = toolCalls + 1
        /\ \/ /\ Skipped /\ FinishStep               \* no events
              /\ UNCHANGED <<made, computed, shown, ending>>
           \/ /\ ~ Skipped /\ Shown                  \* worked
              /\ Produced(Step.tool) /\ Compacted
           \/ /\ ~ Skipped /\ FinishStep /\ Shown     \* failed, or refused for good
              /\ UNCHANGED <<made, computed, ending>>
           \/ /\ ~ Skipped /\ TakesUpRefusal         \* refused
              /\ pc' = "rebind"
              /\ UNCHANGED <<done, made, computed, shown, ending>>
  /\ TimePasses
  /\ UNCHANGED <<request, steps, loops, found, tokensOut, notes, elsewhere, searches>>

\* The arguments are written once more. If they are not usable or not new, the
\* refusal stands and its events are sent.
Rebind ==
  /\ pc = "rebind"
  /\ Generate({})
  /\ \/ /\ pc' = "retool"
        /\ toolCalls' = toolCalls + 1
        /\ UNCHANGED <<done, shown>>
     \/ /\ FinishStep /\ Shown
        /\ UNCHANGED toolCalls
  /\ UNCHANGED <<request, steps, loops, found, told, made, computed, elsewhere, ending, searches>>

\* A retry that raises leaves the refusal and its events.
KeepsRefusal == Shown

\* A retry that returns replaces both, also when it was skipped and has no events of its own.
Redispatch ==
  /\ pc = "retool"
  /\ \/ ~ Skipped /\ Produced(Step.tool) /\ Shown /\ Compacted
     \/ /\ FinishStep
        /\ \/ Skipped /\ UNCHANGED shown
           \/ ~ Skipped /\ Shown
           \/ KeepsRefusal
        /\ UNCHANGED <<made, computed, ending>>
  /\ TimePasses
  /\ UNCHANGED <<request, steps, loops, found, toolCalls, tokensOut, notes, elsewhere, searches>>

-----------------------------------------------------------------------------
(* Ending                                                                  *)

\* The answer is streamed and judged. That it does not use a calculation of the
\* run can only be known and said after it.
Answer ==
  /\ pc = "answer"
  /\ final' = "answer"
  /\ status' = "succeeded"
  /\ \E overridden \in {{}} \cup (IF computed THEN {{"calculation_overridden"}} ELSE {}) :
       /\ limits' = limits \cup overridden
       /\ told' = told \cup overridden
  /\ pc' = "finished"
  /\ TimePasses
  /\ tokensOut' \in {tokensOut, TRUE}
  /\ UNCHANGED <<request, planned, loops, found, toolCalls, results, searches>>

\* Routing, generating, searching, asking for approval and streaming may raise,
\* and none of them is caught before run.  What a dispatch raises is; what is done
\* with its result is not, see Compacted.
Fail ==
  /\ pc \in {"plan", "replan", "search", "judge", "rewrite", "bind", "gate", "rebind", "answer"}
  /\ final' = "failure"
  /\ status' = "failed"
  /\ pc' = "finished"
  /\ TimePasses
  /\ UNCHANGED <<request, planned, loops, found, toolCalls, tokensOut, notes, results, searches>>

Next ==
  \/ Plan \/ NextStep
  \/ Search \/ Judge \/ Rewrite
  \/ Bind \/ Gate \/ Dispatch \/ Rebind \/ Redispatch
  \/ Answer \/ Fail

\* Whatever the run waits for ends: searches and tools return, the binder and
\* the approver are waited for with a limit, model calls time out.
Spec == Init /\ [][Next]_vars /\ WF_vars(Next)

-----------------------------------------------------------------------------
(* Properties                                                              *)

\* A run never makes more tool calls than its budget allows: the retry of a
\* refused call counts, and the gate and the dispatcher are only reached with a
\* call left.
BudgetKept == toolCalls <= MaxToolCalls

RetrievalsDone == Cardinality({i \in 1 .. done : steps[i].intent = "retrieve"})

\* The retriever is asked once for a retrieve step, and MaxRetrieveLoops - 1
\* times more in the whole run, however many such steps the plan has.
SearchesBounded == searches <= RetrievalsDone + MaxRetrieveLoops - 1

\* The answer comes after everything else: when a run has answered, each step
\* of its plan was taken, or the user was told that the budget ended it.
AnswerComesLast ==
  final = "answer" =>
    \/ "budget_exhausted" \in told
    \/ \A i \in done + 1 .. Len(steps) : ~ IsAction(steps[i])

\* One document per request and format, however often the planner names it, counting
\* the one another process makes or may still make for an approval the run stopped
\* waiting for.  Exception: an approved action that another process carried out without
\* its result being there in time, which the run does a second time (execute_approved).
OneDocumentPerFormat ==
  \A f \in Formats :
    /\ made[f] <= 1
    /\ elsewhere[f] = "later" => made[f] = 0

\* What is asked for as a document is a step that calls its tool, or is declined aloud.
\* Exceptions: a reply of which nothing can be used, for which the fallback stands and
\* asks for no document; a plan that was cut to its length; and a retrieve step to which
\* the planner gave the name of the tool, which counts as the document and makes none
\* (_parse_plan, _ensure_requested_artifact).
AskedForIsPlannedOrDeclined ==
  (pc \notin {"plan", "replan"} /\ steps # Fallback /\ steps # <<>>
     /\ Len(steps) < PlanLength /\ ask # NoTool) =>
    IF ask \in available
    THEN \/ \E i \in DOMAIN steps : steps[i] = Produce(ask)
         \/ \E i \in DOMAIN steps : steps[i].intent = "retrieve" /\ steps[i].tool = ask
    ELSE "artifact_not_permitted" \in told \/ final = "failure"

\* Both, with their exceptions: what is asked for as a document is not forgotten by
\* repairing the plan, and carrying the plan out makes it once.
DocumentsAsAsked == OneDocumentPerFormat /\ AskedForIsPlannedOrDeclined

CalledATool(i) == steps[i].intent = "tool"

\* While the run is within its time, each finished tool step has shown a
\* result: a refusal that could not be corrected is not lost with the events
\* that were held back.
EveryCallIsShownInTime ==
  ~ late => \A i \in 1 .. done : CalledATool(i) => i \in shown

\* The run ends: the retrieval loop, the retry and the plan are all bounded.
EveryRunFinishes == <>(pc = "finished")

\* What bounds a run, together with its types.
AgentInv == TypeOK /\ BudgetKept /\ SearchesBounded
=============================================================================
