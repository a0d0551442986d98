------------------------------- MODULE Lists -------------------------------
(***************************************************************************)
(* The filter that queues, ledgers and logs are put through, an order      *)
(* given to a set, and a sum. SelectSeq, SetToSortSeq and FoldLeft do the  *)
(* same, by an operator no proof can expand.                               *)
(***************************************************************************)
EXTENDS Integers, Sequences, FiniteSets

\* s without what is not in A, in its order.
Kept(s, A) ==
    LET F[i \in 0..Len(s)] ==
            IF i = 0 THEN <<>>
            ELSE IF s[i] \in A THEN Append(F[i - 1], s[i]) ELSE F[i - 1]
    IN  F[Len(s)]

\* The n-th of S in the order R, a set of pairs.
InPlace(n, S, R) == CHOOSE x \in S : Cardinality({y \in S : <<y, x>> \in R}) = n

\* What the numbers of s come to.
Summed(s) ==
    LET F[i \in 0..Len(s)] == IF i = 0 THEN 0 ELSE F[i - 1] + s[i]
    IN  F[Len(s)]
=============================================================================
