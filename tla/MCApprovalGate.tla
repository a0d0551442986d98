--------------------------- MODULE MCApprovalGate ---------------------------
(***************************************************************************)
(* Instances of ApprovalGate for TLC.                                      *)
(***************************************************************************)
EXTENDS ApprovalGate

CONSTANTS alice, bob, carol, c1, c2

MCUsers3 == {alice, bob, carol}
TwoCalls == {c1, c2}

\* The two calls are alike and so are the two approvers: c1 comes first, and when an
\* approver makes it, bob does.
InOrder ==
    /\ pc'[c1] = "idle" => pc'[c2] = "idle"
    /\ caller'[c1] # carol
=============================================================================
