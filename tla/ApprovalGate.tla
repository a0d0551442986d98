---------------------------- MODULE ApprovalGate ----------------------------
(***************************************************************************)
(* One request for human approval, from the moment a run asks for it to    *)
(* the document it authorises.  Requests are rows of one table and never   *)
(* touch each other, so one row stands for all of them.                    *)
(*                                                                         *)
(* The actors are the run that asked (agent/runner.py), any number of      *)
(* POST /approvals/{id}/decide calls (api/v1/approvals.py), and the sweep  *)
(* that expires what nobody decided (agent/approval.py).  A process is cut *)
(* into actions at its database transactions: between two of them the      *)
(* event loop may run anyone else.                                         *)
(***************************************************************************)
EXTENDS Naturals, FiniteSets

CONSTANTS
    Users,           \* accounts that may call the decide endpoint
    Requester,       \* the account whose run asked for approval
    Calls,           \* the decide calls made, one process each
    Run,             \* the run that asked
    Sweeper,         \* the process running expire_stale
    NoUser,          \* decided_by before anyone decided
    SweepScheduled,  \* does anything call expire_stale?  In src/, nothing does
    MayDisconnect,   \* may the requester's client go away while the run waits?
    MayCrash         \* may the API process die?

ASSUME ActorsAssumption ==
    /\ Requester \in Users
    /\ NoUser \notin Users
    /\ Run \notin Calls
    /\ Sweeper \notin Calls
    /\ Run # Sweeper

ASSUME SwitchesAssumption ==
    {SweepScheduled, MayDisconnect, MayCrash} \subseteq BOOLEAN

VARIABLES
    \* The row of table approvals.
    status,       \* "none" until the run inserts the row
    decidedBy,
    executedAt,   \* TRUE once executed_at is set: the claim
    result,       \* execution_result; "none" is the empty JSON object
    overdue,      \* expires_at has passed
    \* Elsewhere in the database and the artifact store.
    active,       \* the requester's account is active
    files,        \* documents generated into the store
    rows,         \* those of them table artifacts has a row for
    \* The processes.
    pc,           \* where each one is
    caller,       \* which account made a decide call
    verdict,      \* what that call decides
    named,        \* the approver a process will name in the document
    outcome,      \* what the tool call of a process came to
    \* History, read by properties only.
    signedOff,    \* accounts whose approval was ever committed
    overwritten   \* a decision was ever written over another decision

row == <<status, decidedBy, executedAt, result, overdue>>
store == <<files, rows>>
call == <<caller, verdict>>
history == <<signedOff, overwritten>>
vars == <<row, active, store, pc, call, named, outcome, history>>

-----------------------------------------------------------------------------
Statuses == {"none", "pending", "approved", "rejected", "expired"}
Verdicts == {"approved", "rejected"}
Procs == Calls \cup {Run, Sweeper}
Executors == Calls \cup {Run}      \* who may call execute_approved

\* A document in the store: made by whom, on the deferred path or by the run's
\* own dispatch, and naming which approver on its provenance page.
Files == [via : {"deferred", "direct"}, by : Executors, approver : Users]

\* execute_approved after its claim went through.
OwnerStages == {"claimed", "unavailable", "dispatch", "persist", "record"}
Owns(p) == pc[p] \in OwnerStages

CallStages == {"idle", "deciding", "expiring"}
ExecStages == {"exec", "claim", "waiting"} \cup OwnerStages
RunStages == {"idle", "polling", "direct", "emit", "refused", "unanswered"}
Ended == {"done", "gone", "refused", "unanswered"}
InFlight(p) == pc[p] \notin Ended \cup {"idle"}

TypeOK ==
    /\ status \in Statuses
    /\ decidedBy \in Users \cup {NoUser}
    /\ executedAt \in BOOLEAN
    /\ result \in {"none", "ok", "failed", "unavailable"}
    /\ overdue \in BOOLEAN
    /\ active \in BOOLEAN
    /\ files \subseteq Files
    /\ rows \subseteq files
    /\ pc \in [Procs -> CallStages \cup ExecStages \cup RunStages
                          \cup {"sweeping"} \cup Ended]
    /\ caller \in [Calls -> Users \cup {NoUser}]
    /\ verdict \in [Calls -> Verdicts \cup {"none"}]
    /\ named \in [Executors -> Users \cup {NoUser}]
    /\ outcome \in [Executors -> {"none", "ok", "failed"}]
    /\ signedOff \subseteq Users
    /\ overwritten \in BOOLEAN

Init ==
    /\ status = "none"
    /\ decidedBy = NoUser
    /\ executedAt = FALSE
    /\ result = "none"
    /\ overdue = FALSE
    /\ active = TRUE
    /\ files = {}
    /\ rows = {}
    /\ pc = [p \in Procs |-> "idle"]
    /\ caller = [c \in Calls |-> NoUser]
    /\ verdict = [c \in Calls |-> "none"]
    /\ named = [p \in Executors |-> NoUser]
    /\ outcome = [p \in Executors |-> "none"]
    /\ signedOff = {}
    /\ overwritten = FALSE

Goto(p, stage) == pc' = [pc EXCEPT ![p] = stage]

\* Any UPDATE of status by primary key alone: what the row holds by now is not
\* looked at.
WriteStatus(s) ==
    /\ status' = s
    /\ overwritten' = (overwritten \/ status # "pending")

\* {} tells a decide call there is nothing left to do; to the run it means
\* that its own dispatch is still to be made.
Nothing(p) == Goto(p, IF p = Run THEN "direct" ELSE "done")

\* A result in hand: the run passes its artifacts on to the stream.
Take(p, r) == Goto(p, IF p = Run /\ r = "ok" THEN "emit" ELSE "done")

-----------------------------------------------------------------------------
(***************************************************************************)
(* Faults: what a change to the code could make of an action below.  No    *)
(* specification uses them; each shows that a property can tell.           *)
(***************************************************************************)

\* decide without its separation-of-duties check.
RefusesDecidedOnly(u) == status # "pending"

\* The endpoint leaves the approved action to the run, which may be gone.
DecideOnlyRecords(c) ==
    /\ pc[c] = "deciding"
    /\ WriteStatus(verdict[c])
    /\ decidedBy' = caller[c]
    /\ signedOff' = signedOff \cup
            (IF verdict[c] = "approved" THEN {caller[c]} ELSE {})
    /\ Goto(c, "done")
    /\ UNCHANGED <<executedAt, result, overdue, active, store, call, named, outcome>>

\* execute_approved builds the document from a context written before the
\* decision: approved_by stays null.
ExecReadForgetsApprover(p) ==
    /\ pc[p] = "exec"
    /\ \/ status # "approved" /\ Nothing(p)
       \/ /\ status = "approved" /\ executedAt
          /\ IF result # "none" THEN Take(p, result) ELSE Goto(p, "waiting")
       \/ status = "approved" /\ ~executedAt /\ Goto(p, "claim")
    /\ named' = [named EXCEPT ![p] = NoUser]
    /\ UNCHANGED <<row, active, store, call, outcome, history>>

\* Checking executed_at and then writing it, instead of a conditional UPDATE.
ClaimUnconditionally(p) ==
    /\ pc[p] = "claim"
    /\ executedAt' = TRUE
    /\ Goto(p, "claimed")
    /\ UNCHANGED <<status, decidedBy, result, overdue, active, store, call, named,
                   outcome, history>>

\* A summary without "ok" counts as a success.
RecordAssumesOk(p) ==
    /\ pc[p] = "record"
    /\ result' = "ok"
    /\ Take(p, "ok")
    /\ UNCHANGED <<status, decidedBy, executedAt, overdue, active, store, call,
                   named, outcome, history>>

\* A loser that gets {} after its wait, "nothing to do here".
AwaitTimeoutEmpty(p) ==
    /\ pc[p] = "waiting"
    /\ Nothing(p)
    /\ UNCHANGED <<row, active, store, call, named, outcome, history>>

\* A wait for the winner without a deadline.
AwaitForever(p) ==
    /\ pc[p] = "waiting"
    /\ UNCHANGED vars

\* A wait that ends without an answer reported as a refusal.
SilenceIsRefusal ==
    /\ pc[Run] = "polling"
    /\ Goto(Run, "refused")
    /\ UNCHANGED <<row, active, store, call, named, outcome, history>>

-----------------------------------------------------------------------------
(***************************************************************************)
(* The gate: request, decide, expire.                                      *)
(***************************************************************************)

\* The run inserts the row and starts polling.
Request ==
    /\ pc[Run] = "idle"
    /\ status' = "pending"
    /\ Goto(Run, "polling")
    /\ UNCHANGED <<decidedBy, executedAt, result, overdue, active, store, call,
                   named, outcome, history>>

\* What decide answers from the row it reads, without deciding anything:
\* no such request, already decided, or the caller's own request.
Refuses(u) == status # "pending" \/ u = Requester

\* decide reads the row and runs its checks.  It takes no lock, and its UPDATE
\* is a transaction's commit away.
DecideRead(c, u, v) ==
    /\ pc[c] = "idle"
    /\ caller' = [caller EXCEPT ![c] = u]
    /\ verdict' = [verdict EXCEPT ![c] = v]
    /\ \/ Refuses(u) /\ Goto(c, "done")
       \/ ~Refuses(u) /\ overdue /\ Goto(c, "expiring")
       \/ ~Refuses(u) /\ ~overdue /\ Goto(c, "deciding")
    /\ UNCHANGED <<row, active, store, named, outcome, history>>

\* decide commits.  An approval goes on to execute_approved, a refusal returns.
DecideWrite(c) ==
    /\ pc[c] = "deciding"
    /\ WriteStatus(verdict[c])
    /\ decidedBy' = caller[c]
    /\ signedOff' = signedOff \cup
            (IF verdict[c] = "approved" THEN {caller[c]} ELSE {})
    /\ Goto(c, IF verdict[c] = "approved" THEN "exec" ELSE "done")
    /\ UNCHANGED <<executedAt, result, overdue, active, store, call, named, outcome>>

\* decide found the request past its expiry: it marks it so and answers 409.
DecideExpires(c) ==
    /\ pc[c] = "expiring"
    /\ WriteStatus("expired")
    /\ Goto(c, "done")
    /\ UNCHANGED <<decidedBy, executedAt, result, overdue, active, store, call,
                   named, outcome, signedOff>>

\* expire_stale selects what is pending and past its expiry ...
SweepRead ==
    /\ SweepScheduled
    /\ pc[Sweeper] = "idle"
    /\ status = "pending" /\ overdue
    /\ Goto(Sweeper, "sweeping")
    /\ UNCHANGED <<row, active, store, call, named, outcome, history>>

\* ... and marks what it selected.
SweepWrite ==
    /\ pc[Sweeper] = "sweeping"
    /\ WriteStatus("expired")
    /\ Goto(Sweeper, "idle")
    /\ UNCHANGED <<decidedBy, executedAt, result, overdue, active, store, call,
                   named, outcome, signedOff>>

-----------------------------------------------------------------------------
(***************************************************************************)
(* execute_approved, called by a decide call that approved and by the run  *)
(* that saw the approval.                                                  *)
(***************************************************************************)

\* The first transaction: is it approved, has someone claimed it, what came of it?
ExecRead(p) ==
    /\ pc[p] = "exec"
    /\ \/ /\ status # "approved"
          /\ Nothing(p)
          /\ UNCHANGED named
       \/ /\ status = "approved" /\ executedAt
          /\ IF result # "none" THEN Take(p, result) ELSE Goto(p, "waiting")
          /\ UNCHANGED named
       \/ /\ status = "approved" /\ ~executedAt
          /\ named' = [named EXCEPT ![p] = decidedBy]
          /\ Goto(p, "claim")
    /\ UNCHANGED <<row, active, store, call, outcome, history>>

\* UPDATE ... WHERE executed_at IS NULL AND status = 'approved': one statement,
\* so the test and the write are one step.
Claim(p) ==
    /\ pc[p] = "claim"
    /\ IF ~executedAt /\ status = "approved"
       THEN executedAt' = TRUE /\ Goto(p, "claimed")
       ELSE Goto(p, "waiting") /\ UNCHANGED executedAt
    /\ UNCHANGED <<status, decidedBy, result, overdue, active, store, call, named,
                   outcome, history>>

\* The tool runs under the requester's authority, if that account still has any.
LoadRequester(p) ==
    /\ pc[p] = "claimed"
    /\ Goto(p, IF active THEN "dispatch" ELSE "unavailable")
    /\ UNCHANGED <<row, active, store, call, named, outcome, history>>

RecordUnavailable(p) ==
    /\ pc[p] = "unavailable"
    /\ result' = "unavailable"
    /\ Take(p, "unavailable")
    /\ UNCHANGED <<status, decidedBy, executedAt, overdue, active, store, call,
                   named, outcome, history>>

\* tools.dispatch.  A tool that raises, refuses or runs out of time may already
\* have written its file.
Dispatch(p) ==
    LET file == [via |-> "deferred", by |-> p, approver |-> named[p]] IN
    /\ pc[p] = "dispatch"
    /\ \/ /\ files' = files \cup {file}
          /\ outcome' = [outcome EXCEPT ![p] = "ok"]
          /\ Goto(p, "persist")
       \/ /\ files' \in {files, files \cup {file}}
          /\ outcome' = [outcome EXCEPT ![p] = "failed"]
          /\ Goto(p, "record")
    /\ UNCHANGED <<row, active, rows, call, named, history>>

\* persist_artifact logs a database error and returns as if nothing had happened.
ExecPersist(p) ==
    /\ pc[p] = "persist"
    /\ rows' \in {rows, rows \cup {f \in files : f.by = p}}
    /\ Goto(p, "record")
    /\ UNCHANGED <<row, active, files, call, named, outcome, history>>

\* The last transaction of the claim's owner.
Record(p) ==
    /\ pc[p] = "record"
    /\ result' = outcome[p]
    /\ Take(p, outcome[p])
    /\ UNCHANGED <<status, decidedBy, executedAt, overdue, active, store, call,
                   named, outcome, history>>

\* _await_winner polls for a result ...
AwaitWinner(p) ==
    /\ pc[p] = "waiting"
    /\ result # "none"
    /\ Take(p, result)
    /\ UNCHANGED <<row, active, store, call, named, outcome, history>>

\* ... for 30 seconds, then reports that someone else is at it.
AwaitTimeout(p) ==
    /\ pc[p] = "waiting"
    /\ Goto(p, "done")
    /\ UNCHANGED <<row, active, store, call, named, outcome, history>>

-----------------------------------------------------------------------------
(***************************************************************************)
(* The waiting run.                                                        *)
(***************************************************************************)

\* A poll that finds a decision.  What it finds names the approver in a document
\* the run makes itself.
RunSees ==
    /\ pc[Run] = "polling"
    /\ status # "pending"
    /\ named' = [named EXCEPT ![Run] = decidedBy]
    /\ Goto(Run, IF status = "approved" THEN "exec" ELSE "refused")
    /\ UNCHANGED <<row, active, store, call, outcome, history>>

\* approval_wait_s passed: "still waiting for an approver".
RunStopsWaiting ==
    /\ pc[Run] = "polling"
    /\ Goto(Run, "unanswered")
    /\ UNCHANGED <<row, active, store, call, named, outcome, history>>

\* execute_approved had nothing for it: the run dispatches the tool itself.
DirectDispatch ==
    LET file == [via |-> "direct", by |-> Run, approver |-> named[Run]] IN
    /\ pc[Run] = "direct"
    /\ \/ files' = files \cup {file} /\ Goto(Run, "emit")
       \/ files' \in {files, files \cup {file}} /\ Goto(Run, "done")
    /\ UNCHANGED <<row, active, rows, call, named, outcome, history>>

\* What the run announces: its own document, or the one in the result it took.
Announced ==
    LET own == {f \in files : f.via = "direct"}
    IN  IF own # {} THEN own
        ELSE {f \in files : f.via = "deferred" /\ outcome[f.by] = "ok"}

\* The chat stream calls persist_artifact for what the run announces.
StreamPersists ==
    /\ pc[Run] = "emit"
    /\ rows' \in {rows, rows \cup Announced}
    /\ Goto(Run, "done")
    /\ UNCHANGED <<row, active, files, call, named, outcome, history>>

-----------------------------------------------------------------------------
(***************************************************************************)
(* The environment.                                                        *)
(***************************************************************************)

\* expires_at passes.
TimePasses ==
    /\ status = "pending"
    /\ ~overdue
    /\ overdue' = TRUE
    /\ UNCHANGED <<status, decidedBy, executedAt, result, active, store, pc, call,
                   named, outcome, history>>

\* An administrator closes the requester's account.
Deactivate ==
    /\ active
    /\ active' = FALSE
    /\ UNCHANGED <<row, store, pc, call, named, outcome, history>>

\* The requester's client goes away; the run's task is cancelled at its await,
\* and CancelledError passes every `except Exception` of execute_approved.
Disconnect ==
    /\ MayDisconnect
    /\ InFlight(Run)
    /\ Goto(Run, "gone")
    /\ UNCHANGED <<row, active, store, call, named, outcome, history>>

\* The API process dies with everything it was running.  Nothing resumes it.
Crash ==
    /\ MayCrash
    /\ \E p \in Procs : InFlight(p)
    /\ pc' = [p \in Procs |-> IF ~InFlight(p) THEN pc[p]
                              ELSE IF p = Sweeper THEN "idle" ELSE "gone"]
    /\ UNCHANGED <<row, active, store, call, named, outcome, history>>

-----------------------------------------------------------------------------
Decide(c) == DecideWrite(c) \/ DecideExpires(c)

ExecuteApproved(p) ==
    \/ ExecRead(p) \/ Claim(p) \/ LoadRequester(p) \/ RecordUnavailable(p)
    \/ Dispatch(p) \/ ExecPersist(p) \/ Record(p)
    \/ AwaitWinner(p) \/ AwaitTimeout(p)

Await == RunSees \/ RunStopsWaiting

Next ==
    \/ Request
    \/ \E c \in Calls, u \in Users, v \in Verdicts : DecideRead(c, u, v)
    \/ \E c \in Calls : Decide(c)
    \/ \E p \in Executors : ExecuteApproved(p)
    \/ SweepRead \/ SweepWrite
    \/ Await \/ DirectDispatch \/ StreamPersists
    \/ TimePasses \/ Deactivate \/ Disconnect \/ Crash

Spec == Init /\ [][Next]_vars

\* A coroutine that can go on does: the event loop is fair, and every wait of
\* this code has a deadline.  Nobody is obliged to decide, to disconnect or to
\* crash; time passes.
FairSpec ==
    /\ Spec
    /\ \A c \in Calls : WF_vars(Decide(c))
    /\ \A p \in Executors : WF_vars(ExecuteApproved(p))
    /\ WF_vars(Await) /\ WF_vars(DirectDispatch) /\ WF_vars(StreamPersists)
    /\ WF_vars(SweepRead) /\ WF_vars(SweepWrite)
    /\ WF_vars(TimePasses)

-----------------------------------------------------------------------------
(***************************************************************************)
(* The inductive invariant behind the safety properties, part by part.     *)
(***************************************************************************)

\* The row exists from the moment the run starts waiting, and nobody is half way
\* through writing a decision into a row that does not exist.
RowExists ==
    /\ status = "none" <=> pc[Run] = "idle"
    /\ status = "none" =>
          /\ signedOff = {}
          /\ pc[Sweeper] # "sweeping"
          /\ \A c \in Calls : pc[c] \notin {"deciding", "expiring"}
    /\ pc[Run] \notin {"deciding", "expiring"}

\* Every approval is somebody else's, from the check to the document.
SecondPerson ==
    /\ Requester \notin signedOff
    /\ \A c \in Calls : pc[c] = "deciding" =>
          caller[c] \in Users \ {Requester} /\ verdict[c] \in Verdicts
    /\ status = "approved" => decidedBy \in signedOff
    /\ \A p \in Executors : pc[p] = "claim" \/ Owns(p) => named[p] \in signedOff
    /\ pc[Run] \in {"exec", "direct"} => named[Run] \in signedOff
    /\ \A f \in files : f.approver \in signedOff

Deferred == {f \in files : f.via = "deferred"}

\* The claim has one owner, and what it has produced follows its progress.
OneOwner ==
    /\ \A p, q \in Executors : Owns(p) /\ Owns(q) => p = q
    /\ \A p \in Executors : Owns(p) => executedAt /\ result = "none"
    /\ \A p \in Executors :
          pc[p] \in {"claimed", "unavailable", "dispatch"} => Deferred = {}
    /\ \A p \in Executors : pc[p] = "persist" => outcome[p] = "ok"
    /\ \A p \in Executors : pc[p] \in {"persist", "record"} =>
          /\ outcome[p] \in {"ok", "failed"}
          /\ outcome[p] = "ok" => \E f \in Deferred : f.by = p
    /\ ~executedAt => result = "none" /\ Deferred = {}
    /\ \A f, g \in Deferred : f = g
    /\ result = "ok" => \E f \in Deferred : outcome[f.by] = "ok"
    /\ result = "unavailable" => Deferred = {}

\* While no decision is overwritten, the row says what was decided and the run
\* never dispatches on its own.
NotOverwritten ==
    ~overwritten =>
        /\ signedOff # {} => status = "approved"
        /\ pc[Run] = "exec" => status = "approved"
        /\ pc[Run] = "refused" => status \in {"rejected", "expired"}
        /\ pc[Run] # "direct"
        /\ \A f \in files : f.via = "deferred"

GateInv == TypeOK /\ RowExists /\ SecondPerson /\ OneOwner /\ NotOverwritten

-----------------------------------------------------------------------------
(***************************************************************************)
(* Properties.                                                             *)
(***************************************************************************)

\* A document exists only if somebody other than the requester approved, and it
\* names as its approver somebody who did: whatever decisions overwrite each
\* other and whoever dies half way, deferred.py and the run's own dispatch never
\* get ahead of the sign-off, and never name a person who did not give it.
NamesWhoSignedOff ==
    /\ Requester \notin signedOff
    /\ \A f \in files : f.approver \in signedOff

\* The claim of execute_approved: never two owners, and so never two documents
\* on the deferred path, for any number of callers, crashes and overwritten
\* decisions.
AtMostOnce ==
    /\ \A p, q \in Executors : Owns(p) /\ Owns(q) => p = q
    /\ \A f, g \in files : f.via = "deferred" /\ g.via = "deferred" => f = g

\* "Generated once" for the whole program, the run's own dispatch included: it
\* holds as long as no decision is written over another decision.
OneDocumentUnlessOverwritten ==
    ~overwritten => \A f, g \in files : f = g

\* A run that told its user the request was refused, or expired, is right: no
\* document comes of it later, unless a decision was overwritten.
RefusalIsFinal ==
    ~overwritten /\ pc[Run] = "refused" => files = {} /\ signedOff = {}

\* The recorded result tells the truth: "ok" means the owner's document is in the
\* store, "unavailable" that nothing was generated.
ResultIsTruthful ==
    /\ result = "ok" => \E f \in files : f.via = "deferred" /\ outcome[f.by] = "ok"
    /\ result = "unavailable" => \A f \in files : f.via = "direct"

\* Once recorded a result is never replaced, and a claim never given back: those
\* who read it at different times read the same thing.
ResultIsStable ==
    [][ /\ executedAt => executedAt'
        /\ result # "none" => result' = result ]_vars

\* Nobody waits for ever: a caller of execute_approved returns, even when the
\* winner it waits for died with the result unrecorded.
EveryCallReturns ==
    \A p \in Executors : (pc[p] \in ExecStages) ~> (pc[p] \notin ExecStages)

\* An approval is carried out, whether or not the run is still there to do it:
\* it comes to nothing only if the decision is overwritten, or if a decide call
\* dies, or the run dies after it saw the approval.
ApprovedIsCarriedOut ==
    (status = "approved") ~>
        \/ result # "none"
        \/ overwritten
        \/ \E c \in Calls : pc[c] = "gone"
        \/ pc[Run] = "gone" /\ named[Run] # NoUser

\* "Exactly-once is the property that matters" (deferred.py): one approval, one
\* document, with no condition.
OneDocument == \A f, g \in files : f = g

-----------------------------------------------------------------------------
\* The deferred action is the one SignOff promises: executed_at takes it up,
\* execution_result closes it.
Promise == INSTANCE SignOff WITH
    Documents <- Files,
    documents <- Deferred,
    stage <- IF result # "none" THEN "closed"
             ELSE IF executedAt THEN "taken" ELSE "open"

\* Every step of the gate, its callers, its crashes and its overwritten decisions
\* included, is a step SignOff allows or none.
ImplementsSignOff == Promise!Spec
=============================================================================
