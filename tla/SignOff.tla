------------------------------- MODULE SignOff -------------------------------
(***************************************************************************)
(* What the approval gate promises of the action it defers: people other   *)
(* than the requester sign; after that the action is taken up, once; it    *)
(* yields at most one document, which names somebody who signed; and       *)
(* whatever came of it is closed for good.  Nothing here obliges anybody   *)
(* to take the action up, or to finish it.                                 *)
(***************************************************************************)
CONSTANTS Users, Requester, Documents

VARIABLES signedOff, stage, documents

Init ==
    /\ signedOff = {}
    /\ stage = "open"
    /\ documents = {}

Sign ==
    /\ \E u \in Users \ {Requester} : signedOff' = signedOff \cup {u}
    /\ UNCHANGED <<stage, documents>>

TakeUp ==
    /\ stage = "open"
    /\ signedOff # {}
    /\ stage' = "taken"
    /\ UNCHANGED <<signedOff, documents>>

Produce ==
    /\ stage = "taken"
    /\ documents = {}
    /\ \E d \in Documents : d.approver \in signedOff /\ documents' = {d}
    /\ UNCHANGED <<signedOff, stage>>

Close ==
    /\ stage = "taken"
    /\ stage' = "closed"
    /\ UNCHANGED <<signedOff, documents>>

Next == Sign \/ TakeUp \/ Produce \/ Close

Spec == Init /\ [][Next]_<<signedOff, stage, documents>>
=============================================================================
