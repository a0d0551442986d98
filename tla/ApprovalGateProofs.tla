------------------------- MODULE ApprovalGateProofs -------------------------
(***************************************************************************)
(* The safety properties of ApprovalGate, for any accounts, any number of  *)
(* decide calls, and every setting of the switches.  They follow from the  *)
(* inductive invariant GateInv; each of its parts has a step lemma, with   *)
(* one case per action.                                                    *)
(***************************************************************************)
EXTENDS ApprovalGate, TLAPS

\* Before anybody has been asked for an approval.
LEMMA GateInvInit == Init => GateInv
<1> SUFFICES ASSUME Init PROVE GateInv
    OBVIOUS
<1> USE ActorsAssumption DEF Init, Procs, Executors, Owns, OwnerStages
<1>1. TypeOK
    BY DEF TypeOK, Statuses, Verdicts, CallStages, RunStages
<1>2. RowExists /\ SecondPerson /\ NotOverwritten
    BY DEF RowExists, SecondPerson, NotOverwritten
<1>3. OneOwner
    BY DEF OneOwner, Deferred
<1> QED
    BY <1>1, <1>2, <1>3 DEF GateInv

\* Types rest on SecondPerson: what a document names as its approver is an
\* account only because named was copied from the decision of a signed row.
LEMMA TypeStep ==
  TypeOK /\ SecondPerson /\ [Next]_vars => TypeOK'
<1> SUFFICES ASSUME TypeOK /\ SecondPerson, [Next]_vars PROVE TypeOK'
    OBVIOUS
<1> USE ActorsAssumption DEF row, store, call, history, Goto, Procs, Executors, TypeOK, SecondPerson,
           Owns, Statuses, Verdicts, Files, CallStages, ExecStages, OwnerStages,
           RunStages, Ended
<1>1. CASE Request
    BY <1>1 DEF Request
<1>2. CASE SweepRead
    BY <1>2 DEF SweepRead
<1>3. CASE SweepWrite
    BY <1>3 DEF SweepWrite, WriteStatus
<1>4. CASE RunSees
    BY <1>4 DEF RunSees
<1>5. CASE RunStopsWaiting
    BY <1>5 DEF RunStopsWaiting
<1>6. CASE DirectDispatch
    BY <1>6 DEF DirectDispatch
<1>7. CASE StreamPersists
    BY <1>7 DEF StreamPersists, Announced
<1>8. CASE TimePasses
    BY <1>8 DEF TimePasses
<1>9. CASE Deactivate
    BY <1>9 DEF Deactivate
<1>10. CASE Disconnect
    BY <1>10 DEF Disconnect, InFlight
<1>11. CASE Crash
    BY <1>11 DEF Crash, InFlight
<1>12. ASSUME NEW c \in Calls, NEW u \in Users, NEW v \in Verdicts, DecideRead(c, u, v)
      PROVE  TypeOK'
    BY <1>12 DEF DecideRead, Refuses
<1>13. ASSUME NEW c \in Calls, DecideWrite(c) PROVE TypeOK'
    BY <1>13 DEF DecideWrite, WriteStatus
<1>14. ASSUME NEW c \in Calls, DecideExpires(c) PROVE TypeOK'
    BY <1>14 DEF DecideExpires, WriteStatus
<1>15. ASSUME NEW p \in Executors, ExecRead(p) PROVE TypeOK'
    BY <1>15 DEF ExecRead, Nothing, Take
<1>16. ASSUME NEW p \in Executors, Claim(p) PROVE TypeOK'
    BY <1>16 DEF Claim
<1>17. ASSUME NEW p \in Executors, LoadRequester(p) PROVE TypeOK'
    BY <1>17 DEF LoadRequester
<1>18. ASSUME NEW p \in Executors, RecordUnavailable(p) PROVE TypeOK'
    BY <1>18 DEF RecordUnavailable, Take
<1>19. ASSUME NEW p \in Executors, Dispatch(p) PROVE TypeOK'
    <2> DEFINE file == [via |-> "deferred", by |-> p, approver |-> named[p]]
    <2>1. named[p] \in Users
        BY <1>19 DEF Dispatch
    <2>2. file \in Files
        BY <2>1
    <2>3. files' \subseteq files \cup {file} /\ rows' = rows /\ files \subseteq files'
        BY <1>19 DEF Dispatch
    <2>4. files' \subseteq Files /\ rows' \subseteq files'
        BY <2>2, <2>3
    <2> QED
        BY <1>19, <2>4 DEF Dispatch
<1>20. ASSUME NEW p \in Executors, ExecPersist(p) PROVE TypeOK'
    BY <1>20 DEF ExecPersist
<1>21. ASSUME NEW p \in Executors, Record(p) PROVE TypeOK'
    BY <1>21 DEF Record, Take
<1>22. ASSUME NEW p \in Executors, AwaitWinner(p) PROVE TypeOK'
    BY <1>22 DEF AwaitWinner, Take
<1>23. ASSUME NEW p \in Executors, AwaitTimeout(p) PROVE TypeOK'
    BY <1>23 DEF AwaitTimeout
<1>24. CASE UNCHANGED vars
    BY <1>24 DEF vars
<1> QED
    BY <1>1, <1>2, <1>3, <1>4, <1>5, <1>6, <1>7, <1>8, <1>9, <1>10, <1>11, <1>12, <1>13, <1>14, <1>15, <1>16, <1>17, <1>18, <1>19, <1>20, <1>21, <1>22, <1>23, <1>24
       DEF Next, Decide, ExecuteApproved, Await

\* The row is inserted once, and nothing decides it before.
LEMMA RowExistsStep ==
  TypeOK /\ RowExists /\ SecondPerson /\ [Next]_vars => RowExists'
<1> SUFFICES ASSUME TypeOK /\ RowExists /\ SecondPerson, [Next]_vars PROVE RowExists'
    OBVIOUS
<1> USE ActorsAssumption DEF row, store, call, history, Goto, Procs, Executors, TypeOK, RowExists,
           SecondPerson, Verdicts
<1>1. CASE Request
    BY <1>1 DEF Request
<1>2. CASE SweepRead
    BY <1>2 DEF SweepRead
<1>3. CASE SweepWrite
    BY <1>3 DEF SweepWrite, WriteStatus
<1>4. CASE RunSees
    BY <1>4 DEF RunSees
<1>5. CASE RunStopsWaiting
    BY <1>5 DEF RunStopsWaiting
<1>6. CASE DirectDispatch
    BY <1>6 DEF DirectDispatch
<1>7. CASE StreamPersists
    BY <1>7 DEF StreamPersists, Announced
<1>8. CASE TimePasses
    BY <1>8 DEF TimePasses
<1>9. CASE Deactivate
    BY <1>9 DEF Deactivate
<1>10. CASE Disconnect
    BY <1>10 DEF Disconnect, InFlight
<1>11. CASE Crash
    BY <1>11 DEF Crash, InFlight
<1>12. ASSUME NEW c \in Calls, NEW u \in Users, NEW v \in Verdicts, DecideRead(c, u, v)
      PROVE  RowExists'
    BY <1>12 DEF DecideRead, Refuses
<1>13. ASSUME NEW c \in Calls, DecideWrite(c) PROVE RowExists'
    BY <1>13 DEF DecideWrite, WriteStatus
<1>14. ASSUME NEW c \in Calls, DecideExpires(c) PROVE RowExists'
    BY <1>14 DEF DecideExpires, WriteStatus
<1>15. ASSUME NEW p \in Executors, ExecRead(p) PROVE RowExists'
    BY <1>15 DEF ExecRead, Nothing, Take
<1>16. ASSUME NEW p \in Executors, Claim(p) PROVE RowExists'
    BY <1>16 DEF Claim
<1>17. ASSUME NEW p \in Executors, LoadRequester(p) PROVE RowExists'
    BY <1>17 DEF LoadRequester
<1>18. ASSUME NEW p \in Executors, RecordUnavailable(p) PROVE RowExists'
    BY <1>18 DEF RecordUnavailable, Take
<1>19. ASSUME NEW p \in Executors, Dispatch(p) PROVE RowExists'
    BY <1>19 DEF Dispatch
<1>20. ASSUME NEW p \in Executors, ExecPersist(p) PROVE RowExists'
    BY <1>20 DEF ExecPersist
<1>21. ASSUME NEW p \in Executors, Record(p) PROVE RowExists'
    BY <1>21 DEF Record, Take
<1>22. ASSUME NEW p \in Executors, AwaitWinner(p) PROVE RowExists'
    BY <1>22 DEF AwaitWinner, Take
<1>23. ASSUME NEW p \in Executors, AwaitTimeout(p) PROVE RowExists'
    BY <1>23 DEF AwaitTimeout
<1>24. CASE UNCHANGED vars
    BY <1>24 DEF vars
<1> QED
    BY <1>1, <1>2, <1>3, <1>4, <1>5, <1>6, <1>7, <1>8, <1>9, <1>10, <1>11, <1>12, <1>13, <1>14, <1>15, <1>16, <1>17, <1>18, <1>19, <1>20, <1>21, <1>22, <1>23, <1>24
       DEF Next, Decide, ExecuteApproved, Await

\* The self-approval check of decide carries through to every document.
LEMMA SecondPersonStep ==
  TypeOK /\ RowExists /\ SecondPerson /\ [Next]_vars => SecondPerson'
<1> SUFFICES ASSUME TypeOK /\ RowExists /\ SecondPerson, [Next]_vars PROVE SecondPerson'
    OBVIOUS
<1> USE ActorsAssumption DEF row, store, call, history, Goto, Procs, Executors, TypeOK, RowExists,
           SecondPerson, Verdicts, Owns, OwnerStages, Files
<1>1. CASE Request
    BY <1>1 DEF Request
<1>2. CASE SweepRead
    BY <1>2 DEF SweepRead
<1>3. CASE SweepWrite
    BY <1>3 DEF SweepWrite, WriteStatus
<1>4. CASE RunSees
    BY <1>4 DEF RunSees
<1>5. CASE RunStopsWaiting
    BY <1>5 DEF RunStopsWaiting
<1>6. CASE DirectDispatch
    BY <1>6 DEF DirectDispatch
<1>7. CASE StreamPersists
    BY <1>7 DEF StreamPersists, Announced
<1>8. CASE TimePasses
    BY <1>8 DEF TimePasses
<1>9. CASE Deactivate
    BY <1>9 DEF Deactivate
<1>10. CASE Disconnect
    BY <1>10 DEF Disconnect, InFlight
<1>11. CASE Crash
    BY <1>11 DEF Crash, InFlight
<1>12. ASSUME NEW c \in Calls, NEW u \in Users, NEW v \in Verdicts, DecideRead(c, u, v)
      PROVE  SecondPerson'
    BY <1>12 DEF DecideRead, Refuses
<1>13. ASSUME NEW c \in Calls, DecideWrite(c) PROVE SecondPerson'
    BY <1>13 DEF DecideWrite, WriteStatus
<1>14. ASSUME NEW c \in Calls, DecideExpires(c) PROVE SecondPerson'
    BY <1>14 DEF DecideExpires, WriteStatus
<1>15. ASSUME NEW p \in Executors, ExecRead(p) PROVE SecondPerson'
    BY <1>15 DEF ExecRead, Nothing, Take
<1>16. ASSUME NEW p \in Executors, Claim(p) PROVE SecondPerson'
    BY <1>16 DEF Claim
<1>17. ASSUME NEW p \in Executors, LoadRequester(p) PROVE SecondPerson'
    BY <1>17 DEF LoadRequester
<1>18. ASSUME NEW p \in Executors, RecordUnavailable(p) PROVE SecondPerson'
    BY <1>18 DEF RecordUnavailable, Take
<1>19. ASSUME NEW p \in Executors, Dispatch(p) PROVE SecondPerson'
    BY <1>19 DEF Dispatch
<1>20. ASSUME NEW p \in Executors, ExecPersist(p) PROVE SecondPerson'
    BY <1>20 DEF ExecPersist
<1>21. ASSUME NEW p \in Executors, Record(p) PROVE SecondPerson'
    BY <1>21 DEF Record, Take
<1>22. ASSUME NEW p \in Executors, AwaitWinner(p) PROVE SecondPerson'
    BY <1>22 DEF AwaitWinner, Take
<1>23. ASSUME NEW p \in Executors, AwaitTimeout(p) PROVE SecondPerson'
    BY <1>23 DEF AwaitTimeout
<1>24. CASE UNCHANGED vars
    BY <1>24 DEF vars
<1> QED
    BY <1>1, <1>2, <1>3, <1>4, <1>5, <1>6, <1>7, <1>8, <1>9, <1>10, <1>11, <1>12, <1>13, <1>14, <1>15, <1>16, <1>17, <1>18, <1>19, <1>20, <1>21, <1>22, <1>23, <1>24
       DEF Next, Decide, ExecuteApproved, Await

\* The condition in the claim's WHERE admits one owner.
LEMMA OneOwnerStep ==
  TypeOK /\ OneOwner /\ [Next]_vars => OneOwner'
<1> SUFFICES ASSUME TypeOK /\ OneOwner, [Next]_vars PROVE OneOwner'
    OBVIOUS
<1> USE ActorsAssumption DEF row, store, call, history, Goto, Procs, Executors, TypeOK, OneOwner, Owns,
           OwnerStages, Deferred, Files
<1>1. CASE Request
    BY <1>1 DEF Request
<1>2. CASE SweepRead
    BY <1>2 DEF SweepRead
<1>3. CASE SweepWrite
    BY <1>3 DEF SweepWrite, WriteStatus
<1>4. CASE RunSees
    BY <1>4 DEF RunSees
<1>5. CASE RunStopsWaiting
    BY <1>5 DEF RunStopsWaiting
<1>6. CASE DirectDispatch
    BY <1>6 DEF DirectDispatch
<1>7. CASE StreamPersists
    BY <1>7 DEF StreamPersists, Announced
<1>8. CASE TimePasses
    BY <1>8 DEF TimePasses
<1>9. CASE Deactivate
    BY <1>9 DEF Deactivate
<1>10. CASE Disconnect
    BY <1>10 DEF Disconnect, InFlight
<1>11. CASE Crash
    BY <1>11 DEF Crash, InFlight
<1>12. ASSUME NEW c \in Calls, NEW u \in Users, NEW v \in Verdicts, DecideRead(c, u, v)
      PROVE  OneOwner'
    BY <1>12 DEF DecideRead, Refuses
<1>13. ASSUME NEW c \in Calls, DecideWrite(c) PROVE OneOwner'
    BY <1>13 DEF DecideWrite, WriteStatus
<1>14. ASSUME NEW c \in Calls, DecideExpires(c) PROVE OneOwner'
    BY <1>14 DEF DecideExpires, WriteStatus
<1>15. ASSUME NEW p \in Executors, ExecRead(p) PROVE OneOwner'
    BY <1>15 DEF ExecRead, Nothing, Take
<1>16. ASSUME NEW p \in Executors, Claim(p) PROVE OneOwner'
    BY <1>16 DEF Claim
<1>17. ASSUME NEW p \in Executors, LoadRequester(p) PROVE OneOwner'
    BY <1>17 DEF LoadRequester
<1>18. ASSUME NEW p \in Executors, RecordUnavailable(p) PROVE OneOwner'
    BY <1>18 DEF RecordUnavailable, Take
<1>19. ASSUME NEW p \in Executors, Dispatch(p) PROVE OneOwner'
    <2> DEFINE file == [via |-> "deferred", by |-> p, approver |-> named[p]]
    <2>1. /\ Deferred = {} /\ executedAt /\ result = "none"
          /\ \A q \in Executors : Owns(q) => q = p
        BY <1>19 DEF Dispatch
    <2>2. /\ \A q \in Executors : q # p => pc'[q] = pc[q] /\ outcome'[q] = outcome[q]
          /\ executedAt' = executedAt /\ result' = result
        BY <1>19 DEF Dispatch
    <2>3. Deferred' \subseteq {file}
        BY <1>19, <2>1 DEF Dispatch
    <2>4. \/ pc'[p] = "persist" /\ outcome'[p] = "ok" /\ file \in Deferred'
          \/ pc'[p] = "record" /\ outcome'[p] = "failed"
        BY <1>19 DEF Dispatch
    <2>5. \A q \in Executors : Owns(q)' => q = p
        BY <2>1, <2>2
    <2>6. \A q \in Executors :
            pc'[q] \in {"claimed", "unavailable", "dispatch", "persist", "record"} => q = p
        BY <2>5
    <2> QED
        BY <2>1, <2>2, <2>3, <2>4, <2>5, <2>6
<1>20. ASSUME NEW p \in Executors, ExecPersist(p) PROVE OneOwner'
    BY <1>20 DEF ExecPersist
<1>21. ASSUME NEW p \in Executors, Record(p) PROVE OneOwner'
    BY <1>21 DEF Record, Take
<1>22. ASSUME NEW p \in Executors, AwaitWinner(p) PROVE OneOwner'
    BY <1>22 DEF AwaitWinner, Take
<1>23. ASSUME NEW p \in Executors, AwaitTimeout(p) PROVE OneOwner'
    BY <1>23 DEF AwaitTimeout
<1>24. CASE UNCHANGED vars
    BY <1>24 DEF vars
<1> QED
    BY <1>1, <1>2, <1>3, <1>4, <1>5, <1>6, <1>7, <1>8, <1>9, <1>10, <1>11, <1>12, <1>13, <1>14, <1>15, <1>16, <1>17, <1>18, <1>19, <1>20, <1>21, <1>22, <1>23, <1>24
       DEF Next, Decide, ExecuteApproved, Await

\* Without an overwritten decision the run never gets {} from execute_approved.
LEMMA NotOverwrittenStep ==
  TypeOK /\ RowExists /\ SecondPerson /\ NotOverwritten /\ [Next]_vars => NotOverwritten'
<1> SUFFICES ASSUME TypeOK /\ RowExists /\ SecondPerson /\ NotOverwritten, [Next]_vars PROVE NotOverwritten'
    OBVIOUS
<1> USE ActorsAssumption DEF row, store, call, history, Goto, Procs, Executors, TypeOK, RowExists,
           SecondPerson, NotOverwritten, Files, Statuses
<1>1. CASE Request
    BY <1>1 DEF Request
<1>2. CASE SweepRead
    BY <1>2 DEF SweepRead
<1>3. CASE SweepWrite
    BY <1>3 DEF SweepWrite, WriteStatus
<1>4. CASE RunSees
    BY <1>4 DEF RunSees
<1>5. CASE RunStopsWaiting
    BY <1>5 DEF RunStopsWaiting
<1>6. CASE DirectDispatch
    BY <1>6 DEF DirectDispatch
<1>7. CASE StreamPersists
    BY <1>7 DEF StreamPersists, Announced
<1>8. CASE TimePasses
    BY <1>8 DEF TimePasses
<1>9. CASE Deactivate
    BY <1>9 DEF Deactivate
<1>10. CASE Disconnect
    BY <1>10 DEF Disconnect, InFlight
<1>11. CASE Crash
    BY <1>11 DEF Crash, InFlight
<1>12. ASSUME NEW c \in Calls, NEW u \in Users, NEW v \in Verdicts, DecideRead(c, u, v)
      PROVE  NotOverwritten'
    BY <1>12 DEF DecideRead, Refuses
<1>13. ASSUME NEW c \in Calls, DecideWrite(c) PROVE NotOverwritten'
    BY <1>13 DEF DecideWrite, WriteStatus
<1>14. ASSUME NEW c \in Calls, DecideExpires(c) PROVE NotOverwritten'
    BY <1>14 DEF DecideExpires, WriteStatus
<1>15. ASSUME NEW p \in Executors, ExecRead(p) PROVE NotOverwritten'
    BY <1>15 DEF ExecRead, Nothing, Take
<1>16. ASSUME NEW p \in Executors, Claim(p) PROVE NotOverwritten'
    BY <1>16 DEF Claim
<1>17. ASSUME NEW p \in Executors, LoadRequester(p) PROVE NotOverwritten'
    BY <1>17 DEF LoadRequester
<1>18. ASSUME NEW p \in Executors, RecordUnavailable(p) PROVE NotOverwritten'
    BY <1>18 DEF RecordUnavailable, Take
<1>19. ASSUME NEW p \in Executors, Dispatch(p) PROVE NotOverwritten'
    BY <1>19 DEF Dispatch
<1>20. ASSUME NEW p \in Executors, ExecPersist(p) PROVE NotOverwritten'
    BY <1>20 DEF ExecPersist
<1>21. ASSUME NEW p \in Executors, Record(p) PROVE NotOverwritten'
    BY <1>21 DEF Record, Take
<1>22. ASSUME NEW p \in Executors, AwaitWinner(p) PROVE NotOverwritten'
    BY <1>22 DEF AwaitWinner, Take
<1>23. ASSUME NEW p \in Executors, AwaitTimeout(p) PROVE NotOverwritten'
    BY <1>23 DEF AwaitTimeout
<1>24. CASE UNCHANGED vars
    BY <1>24 DEF vars
<1> QED
    BY <1>1, <1>2, <1>3, <1>4, <1>5, <1>6, <1>7, <1>8, <1>9, <1>10, <1>11, <1>12, <1>13, <1>14, <1>15, <1>16, <1>17, <1>18, <1>19, <1>20, <1>21, <1>22, <1>23, <1>24
       DEF Next, Decide, ExecuteApproved, Await

-----------------------------------------------------------------------------
\* The invariant behind the rest: it holds in every reachable state of the gate.
THEOREM GateInvariant == Spec => []GateInv
<1>1. GateInv /\ [Next]_vars => GateInv'
    BY TypeStep, RowExistsStep, SecondPersonStep, OneOwnerStep, NotOverwrittenStep
       DEF GateInv
<1> QED
    BY GateInvInit, <1>1, PTL DEF Spec

\* Every variable of the gate keeps its type.
THEOREM TypeCorrect == Spec => []TypeOK
<1>1. GateInv => TypeOK
    BY DEF GateInv
<1> QED
    BY GateInvariant, <1>1, PTL

\* Every document names an approver who signed, and the requester never did:
\* the separation of duties of decide reaches the document (approval.py, deferred.py).
THEOREM SignedOffTheorem == Spec => []NamesWhoSignedOff
<1>1. GateInv => NamesWhoSignedOff
    BY DEF GateInv, SecondPerson, NamesWhoSignedOff
<1> QED
    BY GateInvariant, <1>1, PTL

\* execute_approved carries the action out at most once, for any number of callers.
THEOREM AtMostOnceTheorem == Spec => []AtMostOnce
<1>1. GateInv => AtMostOnce
    BY DEF GateInv, OneOwner, AtMostOnce, Deferred
<1> QED
    BY GateInvariant, <1>1, PTL

\* A second document needs a decision written over another one.
THEOREM OneDocumentTheorem == Spec => []OneDocumentUnlessOverwritten
<1>1. GateInv => OneDocumentUnlessOverwritten
    BY DEF GateInv, OneOwner, NotOverwritten, OneDocumentUnlessOverwritten, Deferred
<1> QED
    BY GateInvariant, <1>1, PTL

\* A run that reported a refusal is never contradicted by a later document.
THEOREM RefusalTheorem == Spec => []RefusalIsFinal
<1>1. GateInv => RefusalIsFinal
    BY DEF GateInv, SecondPerson, NotOverwritten, RefusalIsFinal
<1> QED
    BY GateInvariant, <1>1, PTL

\* What execution_result says happened did happen.
THEOREM TruthTheorem == Spec => []ResultIsTruthful
<1>1. GateInv => ResultIsTruthful
    BY DEF GateInv, TypeOK, Files, OneOwner, ResultIsTruthful, Deferred
<1> QED
    BY GateInvariant, <1>1, PTL

-----------------------------------------------------------------------------
\* The steps that the abstract specification sees, each as what it is there.

\* A decision signs off, unless another was there first (store.decide).
LEMMA DecideWriteSigns ==
  ASSUME GateInv, NEW c \in Calls, DecideWrite(c)
  PROVE  Promise!Sign \/ UNCHANGED <<signedOff, executedAt, result, files>>
<1>1. caller[c] \in Users \ {Requester}
    BY DEF GateInv, SecondPerson, DecideWrite
<1>2. UNCHANGED <<executedAt, result, files>>
    BY DEF DecideWrite, store
<1>3. CASE verdict[c] = "approved"
    <2>1. signedOff' = signedOff \cup {caller[c]}
        BY <1>3 DEF DecideWrite
    <2> QED
        BY <1>1, <1>2, <2>1 DEF Promise!Sign, Deferred
<1>4. CASE verdict[c] # "approved"
    BY <1>2, <1>4 DEF DecideWrite
<1> QED
    BY <1>3, <1>4

\* Claiming an approved action takes it up.
LEMMA ClaimTakesUp ==
  ASSUME GateInv, NEW p \in Executors, Claim(p)
  PROVE  Promise!TakeUp \/ UNCHANGED <<signedOff, executedAt, result, files>>
<1>1. UNCHANGED <<signedOff, result, files>>
    BY DEF Claim, store, history
<1>2. CASE ~executedAt /\ status = "approved"
    <2>1. signedOff # {} /\ result = "none"
        BY <1>2 DEF GateInv, SecondPerson, OneOwner
    <2>2. executedAt' = TRUE
        BY <1>2 DEF Claim
    <2> QED
        BY <1>1, <1>2, <2>1, <2>2 DEF Promise!TakeUp, Deferred
<1>3. CASE ~(~executedAt /\ status = "approved")
    BY <1>1, <1>3 DEF Claim
<1> QED
    BY <1>2, <1>3

\* Running it produces its file.
LEMMA DispatchProduces ==
  ASSUME GateInv, NEW p \in Executors, Dispatch(p)
  PROVE  Promise!Produce \/ UNCHANGED <<signedOff, executedAt, result, files>>
<1> DEFINE file == [via |-> "deferred", by |-> p, approver |-> named[p]]
<1>1. UNCHANGED <<signedOff, executedAt, result>>
    BY DEF Dispatch, row, history
<1>2. Owns(p)
    BY DEF Dispatch, Owns, OwnerStages
<1>3. executedAt /\ result = "none" /\ Deferred = {} /\ named[p] \in signedOff
    BY <1>2 DEF GateInv, OneOwner, SecondPerson, Dispatch
<1>4. signedOff \subseteq Users
    BY DEF GateInv, TypeOK
<1>5. file \in Files
    BY <1>3, <1>4 DEF Files
<1>6. CASE files' = files \cup {file}
    <2>1. Deferred' = {file}
        BY <1>3, <1>6 DEF Deferred
    <2> QED
        BY <1>1, <1>3, <1>5, <2>1 DEF Promise!Produce
<1>7. CASE files' = files
    BY <1>1, <1>7
<1> QED
    BY <1>6, <1>7 DEF Dispatch

\* Recording how it went closes it.
LEMMA RecordCloses ==
  ASSUME GateInv, NEW p \in Executors, Record(p) \/ RecordUnavailable(p)
  PROVE  Promise!Close
<1>1. UNCHANGED <<signedOff, executedAt, files>>
    BY DEF Record, RecordUnavailable, store, history
<1>2. Owns(p)
    BY DEF Record, RecordUnavailable, Owns, OwnerStages
<1>3. executedAt /\ result = "none"
    BY <1>2 DEF GateInv, OneOwner
<1>4. result' # "none"
    BY DEF GateInv, OneOwner, Record, RecordUnavailable
<1> QED
    BY <1>1, <1>3, <1>4 DEF Promise!Close, Deferred

\* Everything else is invisible there.
LEMMA OtherStepsStutter ==
  ASSUME [Next]_vars,
         \A c \in Calls : ~DecideWrite(c),
         \A p \in Executors : ~Claim(p) /\ ~Dispatch(p) /\ ~Record(p) /\ ~RecordUnavailable(p)
  PROVE  UNCHANGED <<signedOff, executedAt, result, Deferred>>
<1> USE DEF row, store, call, history, Deferred
<1>1. CASE Request \/ SweepRead \/ SweepWrite \/ RunSees \/ RunStopsWaiting
           \/ StreamPersists \/ TimePasses \/ Deactivate \/ Disconnect \/ Crash
    BY <1>1 DEF Request, SweepRead, SweepWrite, RunSees, RunStopsWaiting,
                StreamPersists, TimePasses, Deactivate, Disconnect, Crash, WriteStatus
<1>2. CASE DirectDispatch
    BY <1>2 DEF DirectDispatch
<1>3. ASSUME NEW c \in Calls, NEW u \in Users, NEW v \in Verdicts,
             DecideRead(c, u, v)
      PROVE  UNCHANGED <<signedOff, executedAt, result, Deferred>>
    BY <1>3 DEF DecideRead
<1>4. ASSUME NEW c \in Calls, DecideExpires(c)
      PROVE  UNCHANGED <<signedOff, executedAt, result, Deferred>>
    BY <1>4 DEF DecideExpires
<1>5. ASSUME NEW p \in Executors,
             ExecRead(p) \/ LoadRequester(p) \/ ExecPersist(p)
                \/ AwaitWinner(p) \/ AwaitTimeout(p)
      PROVE  UNCHANGED <<signedOff, executedAt, result, Deferred>>
    BY <1>5 DEF ExecRead, LoadRequester, ExecPersist, AwaitWinner, AwaitTimeout
<1>6. CASE UNCHANGED vars
    BY <1>6 DEF vars
<1> QED
    BY <1>1, <1>2, <1>3, <1>4, <1>5, <1>6 DEF Next, Decide, ExecuteApproved, Await

\* The deferred action is carried out as SignOff promises: taken up once, after a
\* second person signed, for one document naming that person, and closed for good.
THEOREM RefinementTheorem == Spec => ImplementsSignOff
<1>1. Init => Promise!Init
    BY DEF Init, Promise!Init, Deferred
<1>2. GateInv /\ [Next]_vars =>
        [Promise!Next]_<<signedOff,
                         IF result # "none" THEN "closed"
                         ELSE IF executedAt THEN "taken" ELSE "open",
                         Deferred>>
    <2> SUFFICES ASSUME GateInv, [Next]_vars
                 PROVE  Promise!Next \/ UNCHANGED <<signedOff, executedAt, result, Deferred>>
        OBVIOUS
    <2> USE DEF Promise!Next
    <2>1. CASE \E c \in Calls : DecideWrite(c)
        BY <2>1, DecideWriteSigns DEF Deferred
    <2>2. CASE \E p \in Executors : Claim(p)
        BY <2>2, ClaimTakesUp DEF Deferred
    <2>3. CASE \E p \in Executors : Dispatch(p)
        BY <2>3, DispatchProduces DEF Deferred
    <2>4. CASE \E p \in Executors : Record(p) \/ RecordUnavailable(p)
        BY <2>4, RecordCloses
    <2> QED
        BY <2>1, <2>2, <2>3, <2>4, OtherStepsStutter
<1> QED
    BY <1>1, <1>2, GateInvariant, PTL DEF Spec, ImplementsSignOff, Promise!Spec

\* Claim and result, once written, stay: a result is written by the one owner of
\* the claim, which is still without one.
THEOREM StableTheorem == Spec => ResultIsStable
<1>1. GateInv /\ [Next]_vars =>
        [ /\ executedAt => executedAt'
          /\ result # "none" => result' = result ]_vars
    <2> SUFFICES ASSUME GateInv, [Next]_vars
                 PROVE  /\ executedAt => executedAt'
                        /\ result # "none" => result' = result
        OBVIOUS
    <2>1. ASSUME NEW p \in Executors, Claim(p)
          PROVE  (executedAt => executedAt') /\ result' = result
        BY <2>1 DEF Claim
    <2>2. ASSUME NEW p \in Executors, Dispatch(p)
          PROVE  executedAt' = executedAt /\ result' = result
        BY <2>2 DEF Dispatch, row
    <2>3. ASSUME NEW c \in Calls, DecideWrite(c)
          PROVE  executedAt' = executedAt /\ result' = result
        BY <2>3 DEF DecideWrite
    <2>4. ASSUME NEW p \in Executors, Record(p) \/ RecordUnavailable(p)
          PROVE  executedAt' = executedAt /\ result = "none"
        BY <2>4 DEF GateInv, OneOwner, Owns, OwnerStages, Record, RecordUnavailable
    <2> QED
        BY <2>1, <2>2, <2>3, <2>4, OtherStepsStutter
<1> QED
    BY <1>1, GateInvariant, PTL DEF Spec, ResultIsStable
=============================================================================
