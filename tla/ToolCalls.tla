----------------------------- MODULE ToolCalls -----------------------------
(***************************************************************************)
(* ToolRegistry.dispatch (tools/registry.py) of the one tool that runs     *)
(* code, code.run_python (tools/code.py), and the Docker sandbox under it  *)
(* (sandbox/docker_backend.py), whose work goes on in a thread.            *)
(*                                                                         *)
(* Two semaphores of the same size stand in the way of a call: dispatch    *)
(* takes the tool's before its timeout starts to run, execute takes the    *)
(* sandbox's.  A cancelled call gives both back; its thread and its        *)
(* container are not cancelled.                                            *)
(***************************************************************************)
EXTENDS Naturals, FiniteSets

CONSTANTS
    Calls,          \* dispatched calls, of any runs
    Permits,        \* max_concurrency of the tool, max_concurrent of the sandbox
    MaxCrashes      \* bound: times the process dies

VARIABLES
    pc,             \* per call, see Stages
    thread,         \* per call: "none", "setup", "waiting", "cleanup", "ended"
    container,      \* per call: "none", "running", "stopped"
    outcome,        \* per call: what the agent is told, "none" so far
    shown,          \* per call: the trace events sent
    stuck,          \* calls whose container Docker refused to remove, or to list,
                    \* when it was last asked
    crashes,
    alive           \* the process is up and has reaped

toolVars == <<pc, thread, container, outcome, shown, stuck, crashes, alive>>

Stages == {"new", "queued", "running", "boxed", "raised", "answered", "left"}
Statuses == {"ok", "timeout", "memory", "error", "policy"}

\* Who holds the two semaphores: they are released wherever the call ends.
Slots == {c \in Calls : pc[c] \in {"running", "boxed"}}
Boxes == {c \in Calls : pc[c] = "boxed"}

Containers == {c \in Calls : container[c] = "running"}

ToolInit ==
    /\ pc = [c \in Calls |-> "new"]
    /\ thread = [c \in Calls |-> "none"]
    /\ container = [c \in Calls |-> "none"]
    /\ outcome = [c \in Calls |-> "none"]
    /\ shown = [c \in Calls |-> {}]
    /\ stuck = {} /\ crashes = 0 /\ alive = TRUE

-----------------------------------------------------------------------------
(***************************************************************************)
(* dispatch.                                                               *)
(***************************************************************************)

\* A call that is answered: the result is shown, and the semaphores are free.
AnswerCall(c, told) ==
    /\ pc' = [pc EXCEPT ![c] = "answered"]
    /\ outcome' = [outcome EXCEPT ![c] = told]
    /\ shown' = [shown EXCEPT ![c] = @ \cup {"tool_result"}]

Raise(c) ==
    /\ pc' = [pc EXCEPT ![c] = "raised"]
    /\ UNCHANGED <<outcome, shown>>

\* Unknown tool, missing permission, arguments that do not fit.
Refused(c) ==
    /\ pc[c] = "new" /\ alive
    /\ Raise(c)
    /\ UNCHANGED <<thread, container, stuck, crashes, alive>>

\* No time left in the run's budget: a failure that is not shown.
Skipped(c) ==
    /\ pc[c] = "new" /\ alive
    /\ pc' = [pc EXCEPT ![c] = "answered"]
    /\ outcome' = [outcome EXCEPT ![c] = "failure"]
    /\ UNCHANGED <<thread, container, shown, stuck, crashes, alive>>

Begin(c) ==
    /\ pc[c] = "new" /\ alive
    /\ pc' = [pc EXCEPT ![c] = "queued"]
    /\ shown' = [shown EXCEPT ![c] = {"tool_call"}]
    /\ UNCHANGED <<thread, container, outcome, stuck, crashes, alive>>

\* The tool's semaphore; from here on the timeout runs.
TakeSlot(c) ==
    /\ pc[c] = "queued" /\ Cardinality(Slots) < Permits
    /\ pc' = [pc EXCEPT ![c] = "running"]
    /\ UNCHANGED <<thread, container, outcome, shown, stuck, crashes, alive>>

\* The static check names what it found, and nothing is started.
Policy(c) ==
    /\ pc[c] = "running"
    /\ AnswerCall(c, "policy")
    /\ UNCHANGED <<thread, container, stuck, crashes, alive>>

\* The sandbox's semaphore; the rest is done in a thread.
TakeBox(c) ==
    /\ pc[c] = "running" /\ Cardinality(Boxes) < Permits
    /\ pc' = [pc EXCEPT ![c] = "boxed"]
    /\ thread' = [thread EXCEPT ![c] = "setup"]
    /\ UNCHANGED <<container, outcome, shown, stuck, crashes, alive>>

\* wait_for cancels the tool, not its thread.
TimesOut(c) ==
    /\ pc[c] \in {"running", "boxed"}
    /\ AnswerCall(c, "failure")
    /\ UNCHANGED <<thread, container, stuck, crashes, alive>>

\* The run is cancelled, by its client or its budget.
Leave(c) ==
    /\ pc[c] \in {"queued", "running", "boxed"}
    /\ pc' = [pc EXCEPT ![c] = "left"]
    /\ UNCHANGED <<thread, container, outcome, shown, stuck, crashes, alive>>

\* The tool itself raises a ToolError: its call is shown and no result.
ToolRaises(c) ==
    /\ pc[c] = "running"
    /\ Raise(c)
    /\ UNCHANGED <<thread, container, stuck, crashes, alive>>

-----------------------------------------------------------------------------
(***************************************************************************)
(* DockerSandbox._run.                                                     *)
(***************************************************************************)

\* What the thread returns reaches whoever still waits for it.
Returns(c, status) ==
    IF pc[c] = "boxed" THEN AnswerCall(c, status) ELSE UNCHANGED <<pc, outcome, shown>>

StartBox(c) ==
    /\ thread[c] = "setup"
    /\ thread' = [thread EXCEPT ![c] = "waiting"]
    /\ container' = [container EXCEPT ![c] = "running"]
    /\ UNCHANGED <<pc, outcome, shown, stuck, crashes, alive>>

\* The image is not built, or the container cannot be made, or it is made and
\* does not start: then nobody has a handle to remove it by.
StartFails(c) ==
    /\ thread[c] = "setup"
    /\ thread' = [thread EXCEPT ![c] = "ended"]
    /\ container' \in {container, [container EXCEPT ![c] = "stopped"]}
    /\ Returns(c, "error")
    /\ UNCHANGED <<stuck, crashes, alive>>

\* The code ends, or is killed at the job's own timeout.
Exits(c) ==
    /\ thread[c] = "waiting"
    /\ container' = [container EXCEPT ![c] = "stopped"]
    /\ thread' = [thread EXCEPT ![c] = "cleanup"]
    /\ UNCHANGED <<pc, outcome, shown, stuck, crashes, alive>>

\* A fault: a container removed only for a call that is still waited for.
CleanupIfAwaited(c) ==
    /\ thread[c] = "cleanup"
    /\ thread' = [thread EXCEPT ![c] = "ended"]
    /\ container' = IF pc[c] = "boxed" THEN [container EXCEPT ![c] = "none"] ELSE container
    /\ \E status \in Statuses \ {"policy"} : Returns(c, status)
    /\ UNCHANGED <<stuck, crashes, alive>>

\* The finally of _run: the container is removed, if Docker can, whoever waits.
Cleanup(c) ==
    /\ thread[c] = "cleanup"
    /\ thread' = [thread EXCEPT ![c] = "ended"]
    /\ \/ container' = [container EXCEPT ![c] = "none"] /\ UNCHANGED stuck
       \/ stuck' = stuck \cup {c} /\ UNCHANGED container
    /\ \E status \in Statuses \ {"policy"} : Returns(c, status)
    /\ UNCHANGED <<crashes, alive>>

-----------------------------------------------------------------------------
\* The process dies: its calls and threads are gone, its containers are not.
Die ==
    /\ alive /\ crashes < MaxCrashes
    /\ alive' = FALSE
    /\ crashes' = crashes + 1
    /\ pc' = [c \in Calls |-> IF pc[c] \in {"queued", "running", "boxed"} THEN "left" ELSE pc[c]]
    /\ thread' = [c \in Calls |-> IF thread[c] = "none" THEN "none" ELSE "ended"]
    /\ UNCHANGED <<container, outcome, shown, stuck>>

Left == {c \in Calls : container[c] # "none"}

\* A start removes what an earlier process left: nothing when Docker does not list
\* its containers, and otherwise all but those whose removal it refuses.
Reap ==
    /\ ~alive
    /\ alive' = TRUE
    /\ \E listed \in {{}, Left} : \E refused \in SUBSET listed :
         /\ container' = [c \in Calls |-> IF c \in listed \ refused THEN "none" ELSE container[c]]
         /\ stuck' = (Left \ listed) \cup refused
    /\ UNCHANGED <<pc, thread, outcome, shown, crashes>>

Dispatch(c) ==
    Refused(c) \/ Skipped(c) \/ Begin(c) \/ TakeSlot(c) \/ Policy(c) \/ TakeBox(c)
      \/ TimesOut(c) \/ ToolRaises(c) \/ Leave(c)

Thread(c) == StartBox(c) \/ StartFails(c) \/ Exits(c) \/ Cleanup(c)

ToolNext ==
    \/ \E c \in Calls : Dispatch(c) \/ Thread(c)
    \/ Die \/ Reap

\* A call runs its next step, timeouts fire, threads run, a semaphore is first
\* come first served, and a process that died is started again.
ToolFairness ==
    /\ \A c \in Calls : /\ SF_toolVars(TakeSlot(c))
                        /\ WF_toolVars(TimesOut(c)) /\ WF_toolVars(Thread(c))
    /\ WF_toolVars(Reap)

-----------------------------------------------------------------------------
(***************************************************************************)
(* Properties.                                                             *)
(***************************************************************************)

\* A call whose start was shown comes to an end, whoever holds the semaphores in
\* front of it, and unless it raised or its run was cancelled the end is shown.
EveryCallEnds ==
    \A c \in Calls : ("tool_call" \in shown[c]) ~>
        (pc[c] \in {"raised", "left"} \/ "tool_result" \in shown[c])

\* No container outlives its job for ever: not one whose call timed out, whose run
\* was cancelled or whose process died.  Exception: Docker refused when it was last
\* asked, to remove this container or, at a start, to list the containers at all.
EveryContainerGoes ==
    \A c \in Calls : (container[c] = "running") ~> (container[c] = "none" \/ c \in stuck)

\* A tool call and the container under it both come to an end, each without
\* waiting for the other.
CallsAndContainersEnd == EveryCallEnds /\ EveryContainerGoes
=============================================================================
