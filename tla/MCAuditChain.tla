---------------------------- MODULE MCAuditChain ----------------------------
(* Bounds for AuditChain: which transactions there are, and how many rows each
   may write (MaxRows, in the .cfg). *)
EXTENDS AuditChain, TLC

CONSTANTS w1, w2, w3

TwoWriters == {w1, w2}
ThreeWriters == {w1, w2, w3}

\* Transactions differ in nothing but their name.
WriterSymmetry == Permutations(Writers)
=============================================================================
