------------------------------ MODULE RunStream ------------------------------
(***************************************************************************)
(* One chat request: its row in agent_runs, the generator that streams the *)
(* agent's trace, the pump and bounded queue between that generator and    *)
(* the connection (api/sse.py), the detached finaliser (api/v1/chat.py),   *)
(* and the reaping of rows a dead process left behind (api/v1/runs.py).    *)
(*                                                                         *)
(* Frames are numbered in the order the generator makes them.  An action   *)
(* runs from one suspension point of its coroutine to the next.            *)
(***************************************************************************)
EXTENDS Lists

CONSTANTS
    Capacity,       \* maxsize of the queue in with_heartbeat (256)
    MaxFrames,      \* frames an agent run makes before it answers or fails
    MayDisconnect,  \* may the client go away?
    DbFails,        \* may a best-effort write be lost?
    MayAge,         \* may the run's age pass the reaper's window (900 s)?
    MaxCrashes,     \* crashes of the process serving the run
    MaxBoots        \* other processes that start while it runs

ASSUME CapacityAssumption == Capacity \in Nat \ {0}
ASSUME FramesAssumption == MaxFrames \in Nat
ASSUME SwitchesAssumption == {MayDisconnect, DbFails, MayAge} \subseteq BOOLEAN
ASSUME FaultsAssumption == MaxCrashes \in Nat /\ MaxBoots \in Nat

VARIABLES
    \* The database.
    row,        \* AgentRun.status, "none" while there is no row
    turn,       \* the assistant's message is saved
    audited,    \* the audit log has its run_finish record
    old,        \* the row is older than the reaper's window
    \* The request.
    pc,         \* where the generator and its pump are
    agent,      \* AgentState.status
    status,     \* the generator's status
    failure,    \* its failure is set
    answered,   \* its answer_text is set
    last,       \* it ends after the frame it is putting
    final,      \* where the finaliser is
    queue,
    \* The connection.
    client,
    delivered,  \* frames the client was sent
    \* Processes.
    crashes,
    up,         \* the process serving the run is alive
    boots,
    reaper,     \* a starting process selected the row
    \* History, read by properties only.
    emitted,    \* frames made
    finals,     \* finalisers scheduled
    finished,   \* the agent's last event was processed
    cutAtPut,   \* the pump was cancelled in queue.put
    lost        \* a write was lost

database == <<row, turn, audited, old>>
agentVars == <<agent, status, failure, answered>>
conn == <<client, delivered>>
procs == <<crashes, up, boots, reaper>>
vars == <<database, pc, agentVars, last, final, queue, conn, procs,
          emitted, finals, finished, cutAtPut, lost>>

End == 0          \* the pump's None

Closed == {"succeeded", "failed", "cancelled"}

TypeOK ==
    /\ row \in {"none", "running"} \cup Closed
    /\ pc \in {"idle", "working", "put", "end", "cut", "done",
               "refusing", "refusedTurn", "refusedClose"}
    /\ agent \in {"running", "awaiting_approval", "succeeded", "failed"}
    /\ status \in Closed
    /\ final \in {"none", "close", "turn", "audit", "done"}
    /\ queue \in Seq(Nat) /\ Len(queue) <= Capacity
    /\ delivered \in Seq(Nat)
    /\ client \in {"here", "gone"}
    /\ reaper \in {"idle", "selected"}
    /\ crashes \in 0..MaxCrashes /\ boots \in 0..MaxBoots
    /\ emitted \in 0..(MaxFrames + 3) /\ finals \in Nat
    /\ {turn, audited, old, failure, answered, last} \subseteq BOOLEAN
    /\ {up, finished, cutAtPut, lost} \subseteq BOOLEAN

Init ==
    /\ row = "none" /\ turn = FALSE /\ audited = FALSE /\ old = FALSE
    /\ pc = "idle" /\ last = FALSE /\ final = "none" /\ queue = <<>>
    /\ agent = "running" /\ status = "succeeded" /\ failure = FALSE /\ answered = FALSE
    /\ client = "here" /\ delivered = <<>>
    /\ crashes = 0 /\ up = TRUE /\ boots = 0 /\ reaper = "idle"
    /\ emitted = 0 /\ finals = 0
    /\ finished = FALSE /\ cutAtPut = FALSE /\ lost = FALSE

\* A best-effort write: it happens, or it fails and is logged.
Write(ok, failed) ==
    \/ ok /\ UNCHANGED lost
    \/ DbFails /\ failed /\ lost' = TRUE

\* _finalise_in_background.
Finalise == final' = "close" /\ finals' = finals + 1
NoFinalise == UNCHANGED <<final, finals>>

Room == Len(queue) < Capacity

-----------------------------------------------------------------------------
\* with_heartbeat is torn down and cancels the pump.
HangUp(finalises, cancels) ==
    /\ MayDisconnect
    /\ client = "here" /\ pc # "idle" /\ queue # <<End>>
    /\ client' = "gone"
    /\ IF finalises THEN Finalise ELSE NoFinalise
    /\ IF cancels THEN status' = "cancelled" /\ failure' = TRUE
                  ELSE UNCHANGED <<status, failure>>
    /\ pc' = IF pc = "put" THEN "cut" ELSE "done"
    /\ cutAtPut' = (pc = "put")
    /\ queue' = <<>>
    /\ UNCHANGED <<database, agent, answered, last, delivered, procs, emitted,
                   finished, lost>>

(***************************************************************************)
(* Faults that a property must be able to tell.                            *)
(***************************************************************************)

\* The closing writes awaited in the cancelled task: none of them runs.
DisconnectInline == HangUp(FALSE, pc = "working")

\* CancelledError not caught: only finally runs.
DisconnectUncaught == HangUp(pc = "working", FALSE)

\* A heartbeat that times out with a frame in hand.
DeliverLosesFrame ==
    /\ client = "here" /\ queue # <<>> /\ Head(queue) # End
    /\ delivered' \in {delivered, Append(delivered, Head(queue))}
    /\ queue' = Tail(queue)
    /\ UNCHANGED <<database, pc, agentVars, last, final, client, procs,
                   emitted, finals, finished, cutAtPut, lost>>

\* The end left out when there is no room.
PutsEndIfRoom ==
    /\ pc = "end"
    /\ queue' = IF Room THEN Append(queue, End) ELSE queue
    /\ pc' = "done"
    /\ UNCHANGED <<database, agentVars, last, final, conn, procs, emitted,
                   finals, finished, cutAtPut, lost>>

\* The age comparison of the reaper turned round.
ReapsYoung == reaper' = IF row = "running" /\ ~old THEN "selected" ELSE "idle"

-----------------------------------------------------------------------------
(***************************************************************************)
(* The request: chat_stream opens the run, refused or not.                 *)
(***************************************************************************)

Open ==
    /\ pc = "idle"
    /\ Write(row' = "running", UNCHANGED row)
    /\ pc' \in {"working", "refusing"}
    /\ UNCHANGED <<turn, audited, old, agentVars, last, final, queue, conn,
                   procs, emitted, finals, finished, cutAtPut>>

-----------------------------------------------------------------------------
(***************************************************************************)
(* The generator and its pump.                                             *)
(***************************************************************************)

\* The pump's put of a frame, and the generator's next step after it: it ends,
\* or works on.
Enqueue(frame, isLast) ==
    /\ queue' = Append(queue, frame)
    /\ IF isLast THEN pc' = "end" /\ Finalise ELSE pc' = "working" /\ NoFinalise

\* The generator makes a frame.  With no room in the queue the pump is suspended
\* in put, and the agent with it.
Frame(isLast) ==
    /\ pc = "working"
    /\ emitted' = emitted + 1
    /\ last' = isLast
    /\ IF Room THEN Enqueue(emitted + 1, isLast)
               ELSE pc' = "put" /\ NoFinalise /\ UNCHANGED queue
    /\ UNCHANGED <<database, conn, procs, cutAtPut, lost>>

\* Any event of the plan or its execution.
Event ==
    /\ emitted < MaxFrames /\ agent \in {"running", "awaiting_approval"}
    /\ Frame(FALSE)
    /\ UNCHANGED <<agentVars, finished>>

\* approval_wait_s ran out.
Unanswered ==
    /\ emitted < MaxFrames /\ agent = "running"
    /\ agent' = "awaiting_approval"
    /\ Frame(FALSE)
    /\ UNCHANGED <<status, failure, answered, finished>>

Synthesise ==
    /\ agent \in {"running", "awaiting_approval"}
    /\ agent' = "succeeded"
    /\ answered' = TRUE
    /\ Frame(FALSE)
    /\ UNCHANGED <<status, failure, finished>>

\* An exception inside the agent: the run says so and finishes.
AgentFails ==
    /\ agent # "failed"
    /\ agent' = "failed"
    /\ Frame(FALSE)
    /\ UNCHANGED <<status, failure, answered, finished>>

RunFinished ==
    /\ agent \in {"succeeded", "failed"}
    /\ status' = agent
    /\ finished' = TRUE
    /\ Frame(TRUE)
    /\ UNCHANGED <<agent, failure, answered>>

\* An exception in the generator itself: its last frame is an error.
StreamFails ==
    /\ status' = "failed"
    /\ failure' = TRUE
    /\ Frame(TRUE)
    /\ UNCHANGED <<agent, answered, finished>>

PutResumes ==
    /\ pc = "put" /\ Room
    /\ Enqueue(emitted, last)
    /\ UNCHANGED <<database, agentVars, last, conn, procs, emitted, finished,
                   cutAtPut, lost>>

PutsEnd ==
    /\ pc = "end" /\ Room
    /\ queue' = Append(queue, End)
    /\ pc' = "done"
    /\ UNCHANGED <<database, agentVars, last, final, conn, procs, emitted,
                   finals, finished, cutAtPut, lost>>

\* The generator a cancelled pump left suspended at its yield is closed when the
\* garbage collector finds it.  GeneratorExit is neither CancelledError nor an
\* Exception, so only finally runs, with the status there is.
Collect ==
    /\ pc = "cut"
    /\ pc' = "done"
    /\ Finalise
    /\ UNCHANGED <<database, agentVars, last, queue, conn, procs, emitted,
                   finished, cutAtPut, lost>>

-----------------------------------------------------------------------------
(***************************************************************************)
(* The connection.                                                         *)
(***************************************************************************)

Deliver ==
    /\ client = "here" /\ queue # <<>> /\ Head(queue) # End
    /\ delivered' = Append(delivered, Head(queue))
    /\ queue' = Tail(queue)
    /\ UNCHANGED <<database, pc, agentVars, last, final, client, procs,
                   emitted, finals, finished, cutAtPut, lost>>

\* Inside the agent CancelledError reaches the generator, inside put it does not,
\* and past both there is nothing left to cancel.  A refused request has no pump
\* and no finaliser.
Disconnect == HangUp(pc = "working", pc = "working")

-----------------------------------------------------------------------------
(***************************************************************************)
(* The finaliser, a task of its own.                                       *)
(***************************************************************************)

CloseRun ==
    /\ final = "close"
    /\ Write(row' = IF row = "none" THEN "none" ELSE status, UNCHANGED row)
    /\ final' = "turn"
    /\ UNCHANGED <<turn, audited, old, pc, agentVars, last, queue, conn, procs,
                   emitted, finals, finished, cutAtPut>>

SaveTurn ==
    /\ final = "turn"
    /\ Write(turn' = (answered \/ failure), UNCHANGED turn)
    /\ final' = "audit"
    /\ UNCHANGED <<row, audited, old, pc, agentVars, last, queue, conn, procs,
                   emitted, finals, finished, cutAtPut>>

RecordFinish ==
    /\ final = "audit"
    /\ Write(audited' = TRUE, UNCHANGED audited)
    /\ final' = "done"
    /\ UNCHANGED <<row, turn, old, pc, agentVars, last, queue, conn, procs,
                   emitted, finals, finished, cutAtPut>>

-----------------------------------------------------------------------------
(***************************************************************************)
(* _refused: a fixed trace, the turn and the closing of the run, all       *)
(* awaited in the generator.                                               *)
(***************************************************************************)

Refusing ==
    /\ pc = "refusing"
    /\ pc' = "refusedTurn"
    /\ UNCHANGED <<database, agentVars, last, final, queue, conn, procs,
                   emitted, finals, finished, cutAtPut, lost>>

RefusedTurn ==
    /\ pc = "refusedTurn"
    /\ Write(turn' = TRUE, UNCHANGED turn)
    /\ pc' = "refusedClose"
    /\ UNCHANGED <<row, audited, old, agentVars, last, final, queue, conn,
                   procs, emitted, finals, finished, cutAtPut>>

RefusedClose ==
    /\ pc = "refusedClose"
    /\ Write(row' = IF row = "none" THEN "none" ELSE "succeeded", UNCHANGED row)
    /\ pc' = "done"
    /\ UNCHANGED <<turn, audited, old, agentVars, last, final, queue, conn,
                   procs, emitted, finals, finished, cutAtPut>>

-----------------------------------------------------------------------------
(***************************************************************************)
(* Processes dying and starting.                                           *)
(***************************************************************************)

TimePasses ==
    /\ MayAge /\ row = "running" /\ ~old
    /\ old' = TRUE
    /\ UNCHANGED <<row, turn, audited, pc, agentVars, last, final, queue, conn,
                   procs, emitted, finals, finished, cutAtPut,
                   lost>>

Crash ==
    /\ up /\ crashes < MaxCrashes
    /\ up' = FALSE
    /\ crashes' = crashes + 1
    /\ client' = "gone"
    /\ pc' = "done" /\ final' = "done" /\ queue' = <<>>
    /\ UNCHANGED <<database, agentVars, last, delivered, boots, reaper,
                   emitted, finals, finished, cutAtPut, lost>>

\* reap_orphans selects what is running and older than its window ...
Reaps == reaper' = IF row = "running" /\ old THEN "selected" ELSE "idle"

Restart ==
    /\ ~up /\ reaper = "idle"
    /\ up' = TRUE
    /\ Reaps
    /\ UNCHANGED <<database, pc, agentVars, last, final, queue, conn, crashes,
                   boots, emitted, finals, finished, cutAtPut,
                   lost>>

OtherBoots ==
    /\ boots < MaxBoots /\ reaper = "idle"
    /\ boots' = boots + 1
    /\ Reaps
    /\ UNCHANGED <<database, pc, agentVars, last, final, queue, conn, crashes,
                   up, emitted, finals, finished, cutAtPut, lost>>

\* ... and closes what it selected.
ReapWrite ==
    /\ reaper = "selected"
    /\ Write(row' = "cancelled", UNCHANGED row)
    /\ reaper' = "idle"
    /\ UNCHANGED <<turn, audited, old, pc, agentVars, last, final, queue, conn,
                   crashes, up, boots, emitted, finals, finished, cutAtPut>>

-----------------------------------------------------------------------------
Generator == Event \/ Unanswered \/ Synthesise \/ AgentFails \/ RunFinished \/ StreamFails
Pump == PutResumes \/ PutsEnd
Finaliser == CloseRun \/ SaveTurn \/ RecordFinish
Refused == Refusing \/ RefusedTurn \/ RefusedClose

Next ==
    \/ Open \/ Generator \/ Pump \/ Collect \/ Deliver \/ Disconnect
    \/ Finaliser \/ Refused
    \/ TimePasses \/ Crash \/ Restart \/ OtherBoots \/ ReapWrite

Spec == Init /\ [][Next]_vars

\* The event loop runs every task that can run, the agent's budget ends every
\* run, the client reads what it is sent, an abandoned generator is collected,
\* and a process that died is started again.
Fairness ==
    /\ WF_vars(Generator) /\ WF_vars(Pump) /\ WF_vars(Collect) /\ WF_vars(Deliver)
    /\ WF_vars(Finaliser) /\ WF_vars(Refused)
    /\ WF_vars(Restart) /\ WF_vars(ReapWrite) /\ WF_vars(TimePasses)

FairSpec == Spec /\ Fairness

-----------------------------------------------------------------------------
(***************************************************************************)
(* Properties.                                                             *)
(***************************************************************************)

Frames(n) == [i \in 1..n |-> i]

\* The frames on their way: in the queue, and in a put that waits for room.
InFlight ==
    Kept(queue, Nat \ {End}) \o (IF pc = "put" THEN <<emitted>> ELSE <<>>)

\* While the client is there, what it was sent and what is on its way are all the
\* frames made, in order: a heartbeat that times out, a full queue and a
\* suspended pump lose none and swap none (with_heartbeat).
NothingLostOnTheWay == client = "here" => delivered \o InFlight = Frames(emitted)

\* However the generator ends, by itself, cancelled in the agent, cancelled in the
\* pump or collected, its finaliser is scheduled once, and not while it can still
\* make frames.
FinalisedOnce ==
    /\ finals <= 1
    /\ finals = 1 => pc \in {"end", "done"}
    /\ final # "none" /\ up => finals = 1 \/ crashes > 0

\* Nothing of a run is lost or done twice on its way to the client and the database.
StreamInv == TypeOK /\ NothingLostOnTheWay /\ FinalisedOnce

\* The recorded outcome is the run's own: success only of an agent that got to its
\* end, failure only of one that failed, cancelled only with the client gone or by
\* a reaper.  Exception: a pump that was cancelled while it waited for room.
RecordedOutcome ==
    /\ row = "succeeded" /\ emitted > 0 => (finished /\ agent = "succeeded") \/ cutAtPut
    /\ row = "failed" => agent = "failed" \/ failure
    /\ row = "cancelled" => client = "gone" \/ old

\* A run that is not refused is closed and its end recorded in the audit log,
\* wherever the client leaves, unless a write is lost or the process dies.  A
\* refused run is closed too, as long as its client stays.
RunIsClosed ==
    /\ (row = "running" /\ pc \in {"working", "put", "end", "cut"})
           ~> ((row # "running" /\ audited) \/ lost \/ crashes > 0)
    /\ (row = "running" /\ pc \in {"refusing", "refusedTurn", "refusedClose"})
           ~> (row # "running" \/ lost \/ client = "gone")

\* A client that stays sees every frame up to the last, and then the end.
ClientSeesTheEnd ==
    (pc = "working") ~>
        \/ queue = <<End>> /\ delivered = Frames(emitted) /\ emitted > 0
        \/ client = "gone"

\* What a dead process left running for longer than the window is closed by the
\* next process that starts.
OldOrphanIsReaped == (~up /\ row = "running" /\ old) ~> (row # "running" \/ lost)

\* A run whose client went away before the agent's end is not recorded as a
\* success.
CutIsNotSuccess == row = "succeeded" /\ emitted > 0 => finished
=============================================================================
