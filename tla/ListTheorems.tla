---------------------------- MODULE ListTheorems ----------------------------
(***************************************************************************)
(* What the operators of Lists return, for every list. Kept is the filter  *)
(* that queues (api/v1/chat.py), ledgers (providers/residency.py), logs    *)
(* (core/events.py), plans (agent/runner.py) and pages (ingest/pipeline.py)*)
(* are put through; InPlace is how results and blocks are put in order,    *)
(* and Summed how words are counted. With them, what folds and             *)
(* FlattenSeq make of a list. All of it is proved by induction over sets,  *)
(* the form that needs no operator as a parameter.                         *)
(***************************************************************************)
EXTENDS Lists, SequencesExt, TLAPS, WellFoundedInduction, NaturalsInduction, SequenceTheorems,
        FiniteSetTheorems

\* Every set of natural numbers that is not empty has a least element.
LEMMA NatHasMin == ASSUME NEW T \in SUBSET Nat, T # {} PROVE \E x \in T : \A y \in T : x <= y
<1>1. IsWellFoundedOn(OpToRel(<, Nat), Nat)
  BY NatLessThanWellFounded, Zenon
<1>2. PICK x \in T : \A y \in T : ~ (<<y, x>> \in OpToRel(<, Nat))
  BY <1>1, WFMin, Zenon
<1>3. \A y \in T : ~ (y < x)
  BY <1>2, Zenon DEF OpToRel
<1> QED BY <1>3

\* Induction over a set of numbers, stated without an operator parameter: what the
\* lemmas about the model's filter (Lists.Kept) rest on.
THEOREM Induction == ASSUME NEW S, 0 \in S, \A n \in Nat : n \in S => n + 1 \in S PROVE Nat \subseteq S
<1> SUFFICES ASSUME NEW k \in Nat, k \notin S PROVE FALSE
  OBVIOUS
<1>1. PICK x \in Nat \ S : \A y \in Nat \ S : x <= y
  BY NatHasMin
<1>2. x # 0 /\ x - 1 \in Nat /\ x - 1 \in S
  BY <1>1
<1> QED BY <1>1, <1>2

Filters(s, A, F) ==
  F = [i \in 0..Len(s) |-> IF i = 0 THEN <<>>
            ELSE IF s[i] \in A THEN Append(F[i - 1], s[i]) ELSE F[i - 1]]

\* Kept is the last value of the function that filters one element at a time.
LEMMA KeptIs == ASSUME NEW s, NEW A PROVE Kept(s, A) = (CHOOSE F : Filters(s, A, F))[Len(s)]
BY Zenon DEF Kept, Filters

\* That function exists for every sequence.
LEMMA FilterExists ==
  ASSUME NEW s, NEW A, Len(s) \in Nat
  PROVE  \E F : Filters(s, A, F)
<1> DEFINE Value(F, i) == IF i = 0 THEN <<>>
                          ELSE IF s[i] \in A THEN Append(F[i - 1], s[i]) ELSE F[i - 1]
           Upto(n, F) == \A i \in 0..n : F[i] = Value(F, i)
           N == {n \in Nat : \E F : Upto(n, F)}
<1>1. 0 \in N
  <2>1. Upto(0, [i \in {0} |-> <<>>])
    OBVIOUS
  <2> QED BY <2>1, Zenon
<1>2. ASSUME NEW n \in Nat, n \in N PROVE n + 1 \in N
  <2>1. PICK F : Upto(n, F)
    BY <1>2
  <2> DEFINE G == [i \in 0..(n + 1) |-> IF i = n + 1 THEN Value(F, i) ELSE F[i]]
  <2>2. \A i \in 0..n : G[i] = F[i]
    <3>1. \A i \in 0..n : i # n + 1 /\ i \in 0..(n + 1)
      OBVIOUS
    <3> QED BY <3>1, Zenon
  <2>3. G[n + 1] = Value(F, n + 1)
    <3>1. n + 1 \in 0..(n + 1)
      OBVIOUS
    <3> QED BY <3>1, Zenon
  <2>4. Value(F, n + 1) = Value(G, n + 1)
    BY <2>2, n + 1 # 0, n + 1 - 1 = n, n \in 0..n
  <2>5. ASSUME NEW i \in 0..n PROVE G[i] = Value(G, i)
    <3>1. i = 0 \/ i - 1 \in 0..n
      OBVIOUS
    <3>2. F[i] = Value(F, i)
      BY <2>1
    <3> QED BY <3>1, <3>2, <2>2
  <2>6. Upto(n + 1, G)
    <3> SUFFICES ASSUME NEW i \in 0..(n + 1) PROVE G[i] = Value(G, i)
      BY Zenon
    <3>1. i = n + 1 \/ i \in 0..n
      OBVIOUS
    <3> QED BY <3>1, <2>3, <2>4, <2>5
  <2>7. n + 1 \in Nat
    OBVIOUS
  <2> QED BY <2>6, <2>7, Zenon
<1>3. Len(s) \in N
  <2> HIDE DEF N
  <2> QED BY <1>1, <1>2, Induction
<1>4. PICK F : Upto(Len(s), F)
  BY <1>3
<1> DEFINE H == [i \in 0..Len(s) |-> F[i]]
<1>5. \A i \in 0..Len(s) : Value(H, i) = F[i]
  BY <1>4
<1>6. Filters(s, A, H)
  BY <1>5 DEF Filters
<1> QED BY <1>6

\* On a common beginning two such functions agree.
LEMMA FiltersAgree ==
  ASSUME NEW s, NEW t, NEW A, NEW F, NEW G, NEW n \in Nat,
         Len(s) \in Nat, Len(t) \in Nat, n <= Len(s), n <= Len(t),
         \A i \in 1..n : s[i] = t[i], Filters(s, A, F), Filters(t, A, G)
  PROVE  F[n] = G[n]
<1> DEFINE N == {k \in Nat : k <= n => F[k] = G[k]}
<1>1. \A k \in 0..Len(s) : F[k] = IF k = 0 THEN <<>>
            ELSE IF s[k] \in A THEN Append(F[k - 1], s[k]) ELSE F[k - 1]
  BY Zenon DEF Filters
<1>2. \A k \in 0..Len(t) : G[k] = IF k = 0 THEN <<>>
            ELSE IF t[k] \in A THEN Append(G[k - 1], t[k]) ELSE G[k - 1]
  BY Zenon DEF Filters
<1>3. 0 \in N
  BY <1>1, <1>2
<1>4. ASSUME NEW k \in Nat, k \in N PROVE k + 1 \in N
  <2> SUFFICES ASSUME k + 1 <= n PROVE F[k + 1] = G[k + 1]
    OBVIOUS
  <2>1. k + 1 \in 1..n /\ k + 1 \in 0..Len(s) /\ k + 1 \in 0..Len(t) /\ k + 1 # 0 /\ k + 1 - 1 = k
    OBVIOUS
  <2>2. F[k] = G[k] /\ s[k + 1] = t[k + 1]
    BY <1>4, <2>1
  <2>3. F[k + 1] = IF s[k + 1] \in A THEN Append(F[k], s[k + 1]) ELSE F[k]
    BY <1>1, <2>1
  <2>4. G[k + 1] = IF t[k + 1] \in A THEN Append(G[k], t[k + 1]) ELSE G[k]
    BY <1>2, <2>1
  <2> QED BY <2>2, <2>3, <2>4
<1> HIDE DEF N
<1>5. n \in N
  BY <1>3, <1>4, Induction
<1> QED BY <1>5 DEF N

\* Nothing is kept of nothing: queues and ledgers start empty.
THEOREM KeptEmpty == ASSUME NEW A PROVE Kept(<<>>, A) = <<>>
<1> DEFINE F == CHOOSE F : Filters(<<>>, A, F)
<1>1. Filters(<<>>, A, F)
  BY FilterExists
<1> HIDE DEF F
<1>2. F[0] = <<>>
  BY <1>1 DEF Filters
<1> QED BY <1>2, KeptIs DEF F

\* What is put at the end is kept or not by itself: publishing to a queue, using an
\* entry of the ledger.
THEOREM KeptAppend ==
  ASSUME NEW S, NEW s \in Seq(S), NEW e \in S, NEW A
  PROVE  Kept(Append(s, e), A) = IF e \in A THEN Append(Kept(s, A), e) ELSE Kept(s, A)
<1> DEFINE t == Append(s, e)
           F == CHOOSE F : Filters(s, A, F)
           G == CHOOSE G : Filters(t, A, G)
<1>1. Len(s) \in Nat /\ Len(t) = Len(s) + 1 /\ t[Len(t)] = e /\ \A i \in 1..Len(s) : s[i] = t[i]
  OBVIOUS
<1> HIDE DEF t
<1>2. Len(t) \in Nat
  BY <1>1
<1>3. Filters(s, A, F)
  BY <1>1, FilterExists, Zenon
<1>4. Filters(t, A, G)
  BY <1>2, FilterExists, Zenon
<1>5. Kept(s, A) = F[Len(s)] /\ Kept(t, A) = G[Len(t)]
  BY KeptIs, Zenon
<1> HIDE DEF F, G
<1>6. F[Len(s)] = G[Len(s)]
  <2>1. Len(s) <= Len(s) /\ Len(s) <= Len(t)
    BY <1>1
  <2>2. Len(s) \in Nat /\ \A i \in 1..Len(s) : s[i] = t[i]
    BY <1>1
  <2> DEFINE n == Len(s)
  <2>3. n \in Nat /\ Len(s) \in Nat /\ n <= Len(s) /\ n <= Len(t) /\ \A i \in 1..n : s[i] = t[i]
    BY <2>1, <2>2
  <2> HIDE DEF n
  <2>4. F[n] = G[n]
    BY <1>2, <1>3, <1>4, <2>3, FiltersAgree
  <2> QED BY <2>4 DEF n
<1>7. G[Len(t)] = IF e \in A THEN Append(G[Len(s)], e) ELSE G[Len(s)]
  <2>1. Len(t) \in 0..Len(t) /\ Len(t) # 0 /\ Len(t) - 1 = Len(s)
    BY <1>1
  <2>2. G[Len(t)] = IF Len(t) = 0 THEN <<>>
            ELSE IF t[Len(t)] \in A THEN Append(G[Len(t) - 1], t[Len(t)]) ELSE G[Len(t) - 1]
    BY <1>4, <2>1, Zenon DEF Filters
  <2> QED BY <1>1, <2>1, <2>2
<1> QED BY <1>5, <1>6, <1>7 DEF t

\* Induction over sequences, again for a set: a queue is built one element at a time.
THEOREM SeqInduction ==
  ASSUME NEW S, NEW P, <<>> \in P, \A s \in Seq(S) : \A e \in S : s \in P => Append(s, e) \in P
  PROVE  Seq(S) \subseteq P
<1> DEFINE N == {n \in Nat : \A s \in Seq(S) : Len(s) = n => s \in P}
<1>1. 0 \in N
  OBVIOUS
<1>2. ASSUME NEW n \in Nat, n \in N PROVE n + 1 \in N
  <2> SUFFICES ASSUME NEW s \in Seq(S), Len(s) = n + 1 PROVE s \in P
    OBVIOUS
  <2>1. PICK t \in Seq(S), e \in S : s = Append(t, e)
    BY SequenceEmptyOrAppend
  <2>2. Len(t) = n
    BY <2>1
  <2> QED BY <1>2, <2>1, <2>2
<1> HIDE DEF N
<1>3. Nat \subseteq N
  BY <1>1, <1>2, Induction
<1> QED BY <1>3 DEF N

\* A filtered queue or ledger holds what it held and is no longer than it was.
THEOREM KeptType ==
  ASSUME NEW S, NEW s \in Seq(S), NEW A
  PROVE  Kept(s, A) \in Seq(S \cap A) /\ Len(Kept(s, A)) <= Len(s)
<1> DEFINE P == {q \in Seq(S) : Kept(q, A) \in Seq(S \cap A) /\ Len(Kept(q, A)) <= Len(q)}
<1>1. <<>> \in P
  <2>1. Kept(<<>>, A) = <<>>
    BY KeptEmpty
  <2>2. <<>> \in Seq(S) /\ <<>> \in Seq(S \cap A) /\ Len(<<>>) <= Len(<<>>)
    OBVIOUS
  <2> QED BY <2>1, <2>2
<1>2. ASSUME NEW q \in Seq(S), NEW e \in S, q \in P PROVE Append(q, e) \in P
  <2>1. Kept(Append(q, e), A) = IF e \in A THEN Append(Kept(q, A), e) ELSE Kept(q, A)
    BY KeptAppend
  <2>2. Append(q, e) \in Seq(S) /\ Len(Append(q, e)) = Len(q) + 1 /\ Len(q) \in Nat
    OBVIOUS
  <2> DEFINE K == Kept(q, A)
             M == Kept(Append(q, e), A)
  <2>3. K \in Seq(S \cap A) /\ Len(K) <= Len(q)
    BY <1>2
  <2>4. M = IF e \in A THEN Append(K, e) ELSE K
    BY <2>1
  <2> HIDE DEF K, M
  <2>5. M \in Seq(S \cap A) /\ Len(M) <= Len(q) + 1
    <3>1. CASE e \in A
      <4>1. e \in S \cap A
        BY <3>1
      <4>2. Append(K, e) \in Seq(S \cap A) /\ Len(Append(K, e)) = Len(K) + 1
        BY <2>3, <4>1, AppendProperties
      <4> QED BY <2>3, <2>4, <3>1, <4>2, <2>2
    <3>2. CASE e \notin A
      BY <2>2, <2>3, <2>4, <3>2
    <3> QED BY <3>1, <3>2
  <2> QED BY <2>2, <2>5 DEF M
<1> HIDE DEF P
<1>3. Seq(S) \subseteq P
  BY <1>1, <1>2, SeqInduction
<1> QED BY <1>3 DEF P

\* Whatever is in both is still there, and nothing else.
THEOREM KeptMembers ==
  ASSUME NEW S, NEW s \in Seq(S), NEW A
  PROVE  \A i \in 1..Len(s) : s[i] \in A => \E j \in 1..Len(Kept(s, A)) : Kept(s, A)[j] = s[i]
<1> DEFINE Good(q) == \A i \in 1..Len(q) : q[i] \in A => \E j \in 1..Len(Kept(q, A)) : Kept(q, A)[j] = q[i]
           P == {q \in Seq(S) : Good(q)}
<1>1. <<>> \in P
  OBVIOUS
<1>2. ASSUME NEW q \in Seq(S), NEW e \in S, q \in P PROVE Append(q, e) \in P
  <2> DEFINE r == Append(q, e)
             K == Kept(q, A)
             M == Kept(r, A)
  <2>1. M = IF e \in A THEN Append(K, e) ELSE K
    BY KeptAppend
  <2>2. K \in Seq(S \cap A)
    BY KeptType
  <2>3. Good(q)
    BY <1>2
  <2>4. r \in Seq(S) /\ Len(r) = Len(q) + 1 /\ r[Len(q) + 1] = e /\ \A i \in 1..Len(q) : r[i] = q[i]
    OBVIOUS
  <2> HIDE DEF r, K, M
  <2>5. ASSUME NEW i \in 1..Len(r), r[i] \in A PROVE \E j \in 1..Len(M) : M[j] = r[i]
    <3>1. CASE i = Len(q) + 1
      <4>1. M = Append(K, e) /\ r[i] = e
        BY <2>1, <2>4, <2>5, <3>1
      <4>2. Len(K) + 1 \in 1..Len(M) /\ M[Len(K) + 1] = e
        BY <2>2, <4>1
      <4> QED BY <4>1, <4>2
    <3>2. CASE i \in 1..Len(q)
      <4>1. PICK j \in 1..Len(K) : K[j] = q[i]
        BY <2>3, <2>4, <2>5, <3>2 DEF K
      <4>2. j \in 1..Len(M) /\ M[j] = K[j]
        BY <2>1, <2>2
      <4> QED BY <2>4, <3>2, <4>1, <4>2
    <3> QED BY <2>4, <3>1, <3>2
  <2>6. Good(r)
    BY <2>5 DEF M
  <2> QED BY <2>4, <2>6 DEF r
<1> HIDE DEF P
<1>3. s \in P
  BY <1>1, <1>2, SeqInduction
<1> QED BY <1>3 DEF P

\* The order is that of s: each element and each two of them are found there.
THEOREM KeptInOrder ==
  ASSUME NEW S, NEW s \in Seq(S), NEW A
  PROVE  /\ \A i \in 1..Len(Kept(s, A)) : \E k \in 1..Len(s) : Kept(s, A)[i] = s[k]
         /\ \A i, j \in 1..Len(Kept(s, A)) : i < j =>
              \E k, l \in 1..Len(s) : k < l /\ Kept(s, A)[i] = s[k] /\ Kept(s, A)[j] = s[l]
<1> DEFINE Single(q) == \A i \in 1..Len(Kept(q, A)) : \E k \in 1..Len(q) : Kept(q, A)[i] = q[k]
           Both(q) == \A i, j \in 1..Len(Kept(q, A)) : i < j =>
              \E k, l \in 1..Len(q) : k < l /\ Kept(q, A)[i] = q[k] /\ Kept(q, A)[j] = q[l]
           P == {q \in Seq(S) : Single(q) /\ Both(q)}
<1>1. <<>> \in P
  BY KeptEmpty
<1>2. ASSUME NEW q \in Seq(S), NEW e \in S, q \in P PROVE Append(q, e) \in P
  <2> DEFINE r == Append(q, e)
             K == Kept(q, A)
             M == Kept(r, A)
  <2>1. M = IF e \in A THEN Append(K, e) ELSE K
    BY KeptAppend
  <2>2. K \in Seq(S \cap A)
    BY KeptType
  <2>3. /\ \A i \in 1..Len(K) : \E k \in 1..Len(q) : K[i] = q[k]
        /\ \A i, j \in 1..Len(K) : i < j => \E k, l \in 1..Len(q) : k < l /\ K[i] = q[k] /\ K[j] = q[l]
    BY <1>2
  <2>4. r \in Seq(S) /\ Len(r) = Len(q) + 1 /\ r[Len(q) + 1] = e /\ \A i \in 1..Len(q) : r[i] = q[i]
    OBVIOUS
  <2> HIDE DEF r, K, M
  <2>5. Len(q) \in Nat /\ Len(K) \in Nat /\ Len(M) \in Nat /\ \A i \in 1..Len(K) : M[i] = K[i]
    BY <2>1, <2>2
  <2>6. ASSUME NEW i \in 1..Len(M), i \notin 1..Len(K) PROVE i = Len(K) + 1 /\ M[i] = e
    BY <2>1, <2>2, <2>6
  <2>7. ASSUME NEW i \in 1..Len(M) PROVE \E k \in 1..Len(r) : M[i] = r[k]
    <3>1. CASE i \in 1..Len(K)
      <4>1. PICK k \in 1..Len(q) : K[i] = q[k]
        BY <2>3, <3>1
      <4>2. k \in 1..Len(r) /\ M[i] = r[k]
        BY <2>4, <2>5, <3>1, <4>1
      <4> QED BY <4>2
    <3>2. CASE i \notin 1..Len(K)
      <4>1. Len(q) + 1 \in 1..Len(r) /\ M[i] = r[Len(q) + 1]
        BY <2>4, <2>5, <2>6, <3>2
      <4> QED BY <4>1
    <3> QED BY <3>1, <3>2
  <2>8. ASSUME NEW i \in 1..Len(M), NEW j \in 1..Len(M), i < j
        PROVE  \E k, l \in 1..Len(r) : k < l /\ M[i] = r[k] /\ M[j] = r[l]
    <3>1. i \in 1..Len(K) 
      BY <2>5, <2>6, <2>8
    <3>2. PICK k \in 1..Len(q) : K[i] = q[k]
      BY <2>3, <3>1
    <3>3. CASE j \in 1..Len(K)
      <4>1. PICK k1 \in 1..Len(q), l1 \in 1..Len(q) : k1 < l1 /\ K[i] = q[k1] /\ K[j] = q[l1]
        BY <2>3, <2>8, <3>1, <3>3
      <4>2. k1 \in 1..Len(r) /\ l1 \in 1..Len(r) /\ M[i] = r[k1] /\ M[j] = r[l1]
        BY <2>4, <2>5, <3>1, <3>3, <4>1
      <4> QED BY <4>1, <4>2
    <3>4. CASE j \notin 1..Len(K)
      <4>1. M[j] = r[Len(q) + 1] /\ M[i] = r[k]
        BY <2>4, <2>5, <2>6, <3>1, <3>2, <3>4
      <4>2. k < Len(q) + 1 /\ k \in 1..Len(r) /\ Len(q) + 1 \in 1..Len(r)
        BY <2>4, <2>5
      <4> QED BY <4>1, <4>2
    <3> QED BY <3>3, <3>4
  <2> QED BY <2>4, <2>7, <2>8 DEF r, M
<1> HIDE DEF P
<1>3. s \in P
  BY <1>1, <1>2, SeqInduction
<1> QED BY <1>3 DEF P

\* Appending to the second of two sequences appends to the whole.
LEMMA ConcatAppend ==
  ASSUME NEW S, NEW s \in Seq(S), NEW t \in Seq(S), NEW e \in S
  PROVE  /\ s \o Append(t, e) = Append(s \o t, e)
         /\ s \o t \in Seq(S) /\ Append(t, e) \in Seq(S)
<1>1. <<e>> \in Seq(S) /\ Append(t, e) = t \o <<e>>
  BY AppendIsConcat
<1>2. s \o t \in Seq(S) /\ Append(s \o t, e) = (s \o t) \o <<e>>
  BY AppendIsConcat
<1>3. (s \o t) \o <<e>> = s \o (t \o <<e>>)
  BY <1>1, ConcatAssociative
<1>4. Append(t, e) \in Seq(S)
  OBVIOUS
<1> QED BY <1>1, <1>2, <1>3, <1>4

\* A filter that everything passes changes nothing.
THEOREM KeptWhole ==
  ASSUME NEW S, NEW s \in Seq(S), NEW A, \A i \in 1..Len(s) : s[i] \in A
  PROVE  Kept(s, A) = s
<1> DEFINE P == {q \in Seq(S) : (\A i \in 1..Len(q) : q[i] \in A) => Kept(q, A) = q}
<1>1. <<>> \in P
  BY KeptEmpty
<1>2. ASSUME NEW q \in Seq(S), NEW e \in S, q \in P PROVE Append(q, e) \in P
  <2> DEFINE r == Append(q, e)
  <2>1. Kept(r, A) = IF e \in A THEN Append(Kept(q, A), e) ELSE Kept(q, A)
    BY KeptAppend
  <2>2. r \in Seq(S) /\ Len(r) = Len(q) + 1 /\ r[Len(q) + 1] = e /\ \A i \in 1..Len(q) : r[i] = q[i]
    OBVIOUS
  <2>3. Len(q) \in Nat /\ r = Append(q, e)
    OBVIOUS
  <2> HIDE DEF r
  <2>4. ASSUME \A i \in 1..Len(r) : r[i] \in A PROVE Kept(r, A) = r
    <3>1. e \in A
      BY <2>2, <2>3, <2>4
    <3>2. \A i \in 1..Len(q) : q[i] \in A
      BY <2>2, <2>3, <2>4
    <3>3. Kept(q, A) = q
      BY <1>2, <3>2
    <3> QED BY <2>1, <2>3, <3>1, <3>3
  <2> QED BY <2>2, <2>3, <2>4
<1> HIDE DEF P
<1>3. s \in P
  BY <1>1, <1>2, SeqInduction
<1> QED BY <1>3 DEF P

-----------------------------------------------------------------------------
(***************************************************************************)
(* Sequences as the sets of their elements.                                *)
(***************************************************************************)

\* A filtered ledger holds what of it was to be kept ...
LEMMA SetKept ==
  ASSUME NEW S, NEW s \in Seq(S), NEW A
  PROVE  ToSet(Kept(s, A)) = ToSet(s) \cap A
<1> DEFINE K == Kept(s, A)
<1>1. K \in Seq(S \cap A)
  BY KeptType
<1>2. \A i \in 1..Len(s) : s[i] \in A => \E j \in 1..Len(K) : K[j] = s[i]
  BY KeptMembers
<1>3. \A i \in 1..Len(K) : \E k \in 1..Len(s) : K[i] = s[k]
  BY KeptInOrder
<1> HIDE DEF K
<1>4. DOMAIN s = 1..Len(s) /\ DOMAIN K = 1..Len(K) /\ \A i \in 1..Len(K) : K[i] \in A
  BY <1>1
<1>5. ToSet(K) \subseteq ToSet(s) \cap A
  BY <1>3, <1>4 DEF ToSet
<1>6. ToSet(s) \cap A \subseteq ToSet(K)
  BY <1>2, <1>4 DEF ToSet
<1> QED BY <1>5, <1>6 DEF K

\* ... each once, if it held each once.
LEMMA InjectiveKept ==
  ASSUME NEW S, NEW s \in Seq(S), NEW A
  PROVE  IsInjective(s) => IsInjective(Kept(s, A))
<1>1. \A i, j \in 1..Len(Kept(s, A)) : i < j =>
         \E k, l \in 1..Len(s) : k < l /\ Kept(s, A)[i] = s[k] /\ Kept(s, A)[j] = s[l]
  BY KeptInOrder
<1> DEFINE K == Kept(s, A)
<1>2. K \in Seq(S \cap A)
  BY KeptType
<1> HIDE DEF K
<1> HAVE IsInjective(s)
<1>3. DOMAIN s = 1..Len(s) /\ DOMAIN K = 1..Len(K) /\ Len(s) \in Nat /\ Len(K) \in Nat
  BY <1>2
<1>4. ASSUME NEW i \in 1..Len(K), NEW j \in 1..Len(K), i < j PROVE K[i] # K[j]
  <2>1. PICK k \in 1..Len(s), l \in 1..Len(s) : k < l /\ K[i] = s[k] /\ K[j] = s[l]
    BY <1>1, <1>4 DEF K
  <2>2. s[k] # s[l]
    BY <1>3, <2>1 DEF IsInjective
  <2> QED BY <2>1, <2>2
<1>5. ASSUME NEW i \in 1..Len(K), NEW j \in 1..Len(K), K[i] = K[j] PROVE i = j
  <2>1. i < j \/ j < i \/ i = j
    OBVIOUS
  <2> QED BY <1>4, <1>5, <2>1
<1>6. IsInjective(K)
  BY <1>3, <1>5 DEF IsInjective
<1> QED BY <1>6 DEF K

\* An entry put at the end of a ledger is in it once if it was not in it before.
LEMMA SetAppend ==
  ASSUME NEW S, NEW s \in Seq(S), NEW e \in S
  PROVE  /\ ToSet(Append(s, e)) = ToSet(s) \cup {e}
         /\ IsInjective(s) /\ e \notin ToSet(s) => IsInjective(Append(s, e))
<1> DEFINE t == Append(s, e)
<1>1. /\ t \in Seq(S) /\ Len(t) = Len(s) + 1 /\ Len(s) \in Nat
      /\ t[Len(s) + 1] = e /\ \A i \in 1..Len(s) : t[i] = s[i]
  BY AppendProperties
<1> HIDE DEF t
<1>2. DOMAIN s = 1..Len(s) /\ DOMAIN t = 1..Len(s) + 1
  BY <1>1
<1>3. \A i \in 1..Len(s) + 1 : i \in 1..Len(s) \/ i = Len(s) + 1
  BY <1>1
<1>4. Len(s) + 1 \in 1..Len(s) + 1 /\ \A i \in 1..Len(s) : i \in 1..Len(s) + 1
  BY <1>1
<1>5. ToSet(t) = ToSet(s) \cup {e}
  BY <1>1, <1>2, <1>3, <1>4 DEF ToSet
<1>6. IsInjective(s) /\ e \notin ToSet(s) => IsInjective(t)
  BY <1>1, <1>2, <1>3, <1>4 DEF ToSet, IsInjective
<1> QED BY <1>5, <1>6 DEF t

\* Two ledgers with nothing in common make one that holds the entries of both, once each.
LEMMA SetConcat ==
  ASSUME NEW S, NEW s \in Seq(S), NEW t \in Seq(S)
  PROVE  /\ ToSet(s \o t) = ToSet(s) \cup ToSet(t)
         /\ IsInjective(s) /\ IsInjective(t) /\ ToSet(s) \cap ToSet(t) = {}
              => IsInjective(s \o t)
<1> DEFINE u == s \o t
<1>1. /\ u \in Seq(S) /\ Len(u) = Len(s) + Len(t) /\ Len(s) \in Nat /\ Len(t) \in Nat
      /\ \A i \in 1..(Len(s) + Len(t)) : u[i] = IF i <= Len(s) THEN s[i] ELSE t[i - Len(s)]
  BY ConcatProperties
<1> HIDE DEF u
<1>2. DOMAIN s = 1..Len(s) /\ DOMAIN t = 1..Len(t) /\ DOMAIN u = 1..(Len(s) + Len(t))
  BY <1>1
<1>3. \A i \in DOMAIN u : \/ i \in DOMAIN s /\ u[i] = s[i]
                          \/ i - Len(s) \in DOMAIN t /\ u[i] = t[i - Len(s)]
  BY <1>1, <1>2
<1>4. \A i \in DOMAIN s : i \in DOMAIN u /\ u[i] = s[i]
  BY <1>1, <1>2
<1>5. \A i \in DOMAIN t : i + Len(s) \in DOMAIN u /\ u[i + Len(s)] = t[i]
  BY <1>1, <1>2
<1>6. ToSet(u) \subseteq ToSet(s) \cup ToSet(t)
  BY <1>3 DEF ToSet
<1>7. ToSet(s) \cup ToSet(t) \subseteq ToSet(u)
  BY <1>4, <1>5 DEF ToSet
<1>8. ASSUME IsInjective(s), IsInjective(t), ToSet(s) \cap ToSet(t) = {}
      PROVE  IsInjective(u)
  <2> SUFFICES ASSUME NEW a \in DOMAIN u, NEW b \in DOMAIN u, u[a] = u[b] PROVE a = b
    BY DEF IsInjective
  <2>0. a \in Int /\ b \in Int
    BY <1>2
  <2>1. CASE a \in DOMAIN s /\ u[a] = s[a] /\ b \in DOMAIN s /\ u[b] = s[b]
    BY <1>8, <2>1 DEF IsInjective
  <2>2. CASE a \in DOMAIN s /\ u[a] = s[a] /\ b - Len(s) \in DOMAIN t /\ u[b] = t[b - Len(s)]
    BY <1>8, <2>2 DEF ToSet
  <2>3. CASE b \in DOMAIN s /\ u[b] = s[b] /\ a - Len(s) \in DOMAIN t /\ u[a] = t[a - Len(s)]
    BY <1>8, <2>3 DEF ToSet
  <2>4. CASE a - Len(s) \in DOMAIN t /\ u[a] = t[a - Len(s)] /\ b - Len(s) \in DOMAIN t /\ u[b] = t[b - Len(s)]
    <3>1. a - Len(s) = b - Len(s)
      BY <1>8, <2>4 DEF IsInjective
    <3> QED BY <1>1, <2>0, <3>1
  <2> QED BY <1>3, <2>1, <2>2, <2>3, <2>4
<1> QED BY <1>6, <1>7, <1>8 DEF u

\* A finite set put in some order is that set, each element once.
LEMMA Enumeration ==
  ASSUME NEW S, IsFiniteSet(S)
  PROVE  SetToSeq(S) \in Seq(S) /\ IsInjective(SetToSeq(S)) /\ ToSet(SetToSeq(S)) = S
<1> DEFINE n == Cardinality(S)
           f == SetToSeq(S)
<1>1. n \in Nat /\ ExistsBijection(1..n, S)
  BY FS_CardinalityType
<1>2. \E g \in [1..n -> S] : IsInjective(g)
  BY <1>1 DEF ExistsBijection, Bijection, Injection
<1>3. f \in [1..n -> S] /\ IsInjective(f)
  BY <1>2 DEF SetToSeq
<1> HIDE DEF f
<1>4. f \in Injection(1..n, S)
  BY <1>3 DEF Injection
<1>5. Cardinality(1..n) = n
  <2>1. Cardinality(1..n) = IF 1 > n THEN 0 ELSE n - 1 + 1
    BY <1>1, FS_Interval
  <2> QED BY <1>1, <2>1
<1>6. f \in Surjection(1..n, S)
  BY <1>4, <1>5, FS_Injection
<1>7. f \in Seq(S) /\ DOMAIN f = 1..n
  BY <1>1, <1>3
<1>8. ToSet(f) = S
  BY <1>3, <1>6, <1>7 DEF ToSet, Surjection
<1> QED BY <1>3, <1>7, <1>8 DEF f

-----------------------------------------------------------------------------
(***************************************************************************)
(* Recursive functions: what the folds of the models compute.  A step is a *)
(* function, since an operator cannot be handed to a lemma.                *)
(***************************************************************************)

\* The values after each of n steps from a base.
Steps(n, A, base, step, F) ==
  F \in [0..n -> A] /\ F[0] = base /\ \A i \in 1..n : F[i] = step[<<i, F[i - 1]>>]

\* Going on one step at a time from a base gives a value for each number of steps.
THEOREM StepsExist ==
  ASSUME NEW n \in Nat, NEW A, NEW base \in A, NEW step \in [(1..n) \X A -> A]
  PROVE  \E F : Steps(n, A, base, step, F)
<1> DEFINE Upto(k, F) == F[0] = base /\ \A i \in 1..k : F[i] = step[<<i, F[i - 1]>>]
           N == {k \in Nat : k <= n => \E F \in [0..k -> A] : Upto(k, F)}
<1>1. 0 \in N
  <2> DEFINE F == [i \in 0..0 |-> base]
  <2>1. F \in [0..0 -> A] /\ Upto(0, F)
    OBVIOUS
  <2> QED BY <2>1, Zenon
<1>2. ASSUME NEW k \in Nat, k \in N PROVE k + 1 \in N
  <2> SUFFICES ASSUME k + 1 <= n PROVE \E F \in [0..(k + 1) -> A] : Upto(k + 1, F)
    OBVIOUS
  <2>1. PICK F \in [0..k -> A] : Upto(k, F)
    BY <1>2
  <2> DEFINE G == [i \in 0..(k + 1) |-> IF i = k + 1 THEN step[<<k + 1, F[k]>>] ELSE F[i]]
  <2>2. k + 1 \in 1..n /\ k \in 0..k /\ F[k] \in A
    OBVIOUS
  <2>3. <<k + 1, F[k]>> \in (1..n) \X A
    BY <2>2
  <2>4. step[<<k + 1, F[k]>>] \in A
    BY <2>3
  <2>5. G \in [0..(k + 1) -> A]
    BY <2>4
  <2>6. G[k + 1] = step[<<k + 1, F[k]>>] /\ \A i \in 0..k : G[i] = F[i]
    OBVIOUS
  <2> HIDE DEF G
  <2>7. \A i \in 1..k : G[i] = step[<<i, G[i - 1]>>]
    <3> SUFFICES ASSUME NEW i \in 1..k PROVE G[i] = step[<<i, G[i - 1]>>]
      OBVIOUS
    <3>1. i \in 0..k /\ i - 1 \in 0..k
      OBVIOUS
    <3> QED BY <2>1, <2>6, <3>1
  <2>8. \A i \in 1..(k + 1) : i \in 1..k \/ (i = k + 1 /\ i - 1 = k)
    OBVIOUS
  <2>9. G[0] = base
    BY <2>1, <2>6, 0 \in 0..k
  <2>10. ASSUME NEW i \in 1..(k + 1) PROVE G[i] = step[<<i, G[i - 1]>>]
    <3>1. CASE i \in 1..k
      BY <2>7, <3>1
    <3>2. CASE i = k + 1 /\ i - 1 = k
      BY <2>2, <2>6, <3>2
    <3> QED BY <2>8, <3>1, <3>2
  <2> QED BY <2>5, <2>9, <2>10
<1>3. n \in N
  <2> HIDE DEF N
  <2> QED BY <1>1, <1>2, Induction
<1> QED BY <1>3 DEF Steps

-----------------------------------------------------------------------------
(***************************************************************************)
(* Several lists made into one.                                            *)
(***************************************************************************)

Flattens(ss, F) == F = [i \in 1..Len(ss) |-> IF i = 1 THEN ss[i] ELSE F[i - 1] \o ss[i]]

\* What it is the last value of.
LEMMA FlattenIs ==
  ASSUME NEW ss PROVE FlattenSeq(ss) = IF Len(ss) = 0 THEN ss ELSE (CHOOSE F : Flattens(ss, F))[Len(ss)]
BY DEF FlattenSeq, Flattens

\* There are such values.
LEMMA FlattensExist ==
  ASSUME NEW S, NEW ss \in Seq(Seq(S))
  PROVE  \E F : Flattens(ss, F)
<1> DEFINE n == Len(ss)
           A == Seq(S)
           step == [p \in (1..n) \X A |-> p[2] \o ss[p[1]]]
<1>1. n \in Nat /\ <<>> \in A /\ \A i \in 1..n : ss[i] \in A
  OBVIOUS
<1>2. ASSUME NEW p \in (1..n) \X A PROVE p[2] \o ss[p[1]] \in A
  <2>1. p[2] \in Seq(S) /\ ss[p[1]] \in Seq(S)
    OBVIOUS
  <2> QED BY <2>1
<1>3. step \in [(1..n) \X A -> A] /\ \A i \in 1..n, a \in A : step[<<i, a>>] = a \o ss[i]
  BY <1>2
<1> HIDE DEF n, A, step
<1>4. PICK F : Steps(n, A, <<>>, step, F)
  <2>1. n \in Nat /\ <<>> \in A /\ step \in [(1..n) \X A -> A]
    BY <1>1, <1>3
  <2> QED BY <2>1, StepsExist, Zenon
<1>5. F[0] = <<>> /\ \A i \in 1..n : F[i] = F[i - 1] \o ss[i]
  <2>1. \A i \in 1..n : i - 1 \in 0..n
    BY <1>1
  <2> QED BY <1>3, <1>4, <2>1 DEF Steps
<1> DEFINE H == [i \in 1..n |-> F[i]]
<1>6. \A i \in 1..n : H[i] = IF i = 1 THEN ss[i] ELSE H[i - 1] \o ss[i]
  <2> SUFFICES ASSUME NEW i \in 1..n PROVE H[i] = IF i = 1 THEN ss[i] ELSE H[i - 1] \o ss[i]
    OBVIOUS
  <2>1. H[i] = F[i - 1] \o ss[i]
    BY <1>5
  <2>2. CASE i = 1
    <3>1. <<>> \o ss[1] = ss[1]
      <4>1. ss[1] \in Seq(S)
        BY <1>1, <2>2 DEF A
      <4> QED BY <4>1, ConcatEmptySeq
    <3>2. F[i - 1] = <<>>
      BY <1>5, <2>2
    <3> QED BY <2>1, <2>2, <3>1, <3>2
  <2>3. CASE i # 1
    <3>1. i - 1 \in 1..n /\ H[i - 1] = F[i - 1]
      BY <1>1, <2>3
    <3> QED BY <2>1, <2>3, <3>1
  <2> QED BY <2>2, <2>3
<1>7. H = [i \in 1..n |-> IF i = 1 THEN ss[i] ELSE H[i - 1] \o ss[i]]
  BY <1>6
<1> QED BY <1>7 DEF Flattens, n

\* Nothing is made of no lists.
THEOREM FlattenEmpty == FlattenSeq(<<>>) = <<>>
BY FlattenIs

\* A list after the others comes last in the one made of all.
THEOREM FlattenAppend ==
  ASSUME NEW S, NEW ss \in Seq(Seq(S)), NEW s \in Seq(S)
  PROVE  FlattenSeq(Append(ss, s)) = FlattenSeq(ss) \o s
<1> DEFINE tt == Append(ss, s)
           n == Len(ss)
           F == CHOOSE F : Flattens(ss, F)
           G == CHOOSE G : Flattens(tt, G)
<1>1. /\ tt \in Seq(Seq(S)) /\ n \in Nat /\ Len(tt) = n + 1 /\ tt[n + 1] = s
      /\ \A i \in 1..n : tt[i] = ss[i] /\ ss[i] \in Seq(S)
  OBVIOUS
<1>2. Flattens(ss, F) /\ Flattens(tt, G)
  <2> HIDE DEF tt
  <2> QED BY <1>1, FlattensExist
<1>3. FlattenSeq(tt) = G[n + 1] /\ FlattenSeq(ss) = IF n = 0 THEN ss ELSE F[n]
  <2> HIDE DEF tt
  <2> QED BY <1>1, FlattenIs
<1> HIDE DEF tt, n, F, G
<1>4. /\ \A i \in 1..n : F[i] = IF i = 1 THEN ss[i] ELSE F[i - 1] \o ss[i]
      /\ \A i \in 1..(n + 1) : G[i] = IF i = 1 THEN tt[i] ELSE G[i - 1] \o tt[i]
  <2>1. F = [i \in 1..n |-> IF i = 1 THEN ss[i] ELSE F[i - 1] \o ss[i]]
    BY <1>2 DEF Flattens, n
  <2>2. G = [i \in 1..(n + 1) |-> IF i = 1 THEN tt[i] ELSE G[i - 1] \o tt[i]]
    BY <1>1, <1>2 DEF Flattens
  <2> QED BY <2>1, <2>2
<1>5. CASE n = 0
  <2>1. G[n + 1] = s
    BY <1>1, <1>4, <1>5
  <2>2. ss = <<>>
    BY <1>5 DEF n
  <2>3. <<>> \o s = s
    BY ConcatEmptySeq
  <2> QED BY <1>3, <1>5, <2>1, <2>2, <2>3 DEF tt
<1>6. CASE n # 0
  <2>0. n \in Nat /\ n - 1 \in Nat
    <3>1. n \in Nat
      BY <1>1
    <3> QED BY <1>6, <3>1
  <2> DEFINE N == {k \in Nat : k + 1 <= n => F[k + 1] = G[k + 1]}
  <2>1. 0 \in N
    BY <1>1, <1>4, <1>6
  <2>2. ASSUME NEW k \in Nat, k \in N PROVE k + 1 \in N
    <3> SUFFICES ASSUME k + 2 <= n PROVE F[k + 2] = G[k + 2]
      OBVIOUS
    <3>1. k + 2 \in 1..n /\ k + 2 \in 1..(n + 1) /\ k + 2 # 1 /\ (k + 2) - 1 = k + 1 /\ F[k + 1] = G[k + 1]
      BY <1>1, <2>2
    <3>2. F[k + 2] = F[k + 1] \o ss[k + 2] /\ G[k + 2] = G[k + 1] \o tt[k + 2]
      BY <1>4, <3>1
    <3> QED BY <1>1, <3>1, <3>2
  <2> HIDE DEF N
  <2>3. n - 1 \in N
    BY <2>0, <2>1, <2>2, Induction
  <2>4. F[n] = G[n]
    BY <2>0, <2>3 DEF N
  <2>5. n + 1 \in 1..(n + 1) /\ n + 1 # 1 /\ (n + 1) - 1 = n
    BY <1>6, <2>0
  <2>6. G[n + 1] = G[n] \o s
    BY <1>1, <1>4, <2>5
  <2> QED BY <1>3, <1>6, <2>4, <2>6 DEF tt
<1> QED BY <1>5, <1>6

\* What is made of lists of one kind is a list of that kind.
THEOREM FlattenType ==
  ASSUME NEW S, NEW ss \in Seq(Seq(S))
  PROVE  FlattenSeq(ss) \in Seq(S)
<1> DEFINE P == {tt \in Seq(Seq(S)) : FlattenSeq(tt) \in Seq(S)}
<1>1. <<>> \in P
  <2>1. <<>> \in Seq(Seq(S)) /\ <<>> \in Seq(S)
    OBVIOUS
  <2> QED BY <2>1, FlattenEmpty
<1>2. ASSUME NEW tt \in Seq(Seq(S)), NEW s \in Seq(S), tt \in P PROVE Append(tt, s) \in P
  <2>1. FlattenSeq(Append(tt, s)) = FlattenSeq(tt) \o s
    BY FlattenAppend
  <2>2. FlattenSeq(tt) \in Seq(S)
    BY <1>2
  <2>3. FlattenSeq(tt) \o s \in Seq(S)
    BY <2>2, ConcatProperties
  <2>4. Append(tt, s) \in Seq(Seq(S))
    OBVIOUS
  <2> QED BY <2>1, <2>3, <2>4
<1> HIDE DEF P
<1>3. ss \in P
  BY <1>1, <1>2, SeqInduction
<1> QED BY <1>3 DEF P

\* One list more in what is joined.
THEOREM FlattenExtend ==
  ASSUME NEW S, NEW n \in Nat, NEW u \in [1..n -> Seq(S)], NEW v \in [1..(n + 1) -> Seq(S)],
         \A k \in 1..n : v[k] = u[k]
  PROVE  /\ FlattenSeq(v) = FlattenSeq(u) \o v[n + 1]
         /\ FlattenSeq(u) \in Seq(S) /\ FlattenSeq(v) \in Seq(S)
<1> DEFINE L == Seq(S)
<1>1. u \in Seq(L) /\ v \in Seq(L) /\ v[n + 1] \in L /\ Len(u) = n /\ Len(v) = n + 1
  <2>1. v[n + 1] \in L /\ u \in [1..n -> L] /\ v \in [1..(n + 1) -> L]
    OBVIOUS
  <2> HIDE DEF L
  <2> QED BY <2>1
<1>2. v = Append(u, v[n + 1])
  <2> HIDE DEF L
  <2>1. \A k \in 1..(n + 1) : k \in 1..n \/ k = n + 1
    OBVIOUS
  <2> QED BY <1>1, <2>1
<1>3. FlattenSeq(Append(u, v[n + 1])) = FlattenSeq(u) \o v[n + 1]
  BY <1>1, FlattenAppend
<1> QED BY <1>1, <1>2, <1>3, FlattenType

-----------------------------------------------------------------------------
\* F and G start alike and go on alike.
GoAlike(n, F, G) == F[0] = G[0] /\ \A i \in 1..n : F[i - 1] = G[i - 1] => F[i] = G[i]

\* What goes on from the same base in the same way is the same.
THEOREM StepsAgree == ASSUME NEW n \in Nat, NEW F, NEW G, GoAlike(n, F, G) PROVE F[n] = G[n]
<1> DEFINE N == {k \in Nat : k <= n => F[k] = G[k]}
<1>1. 0 \in N
  BY DEF GoAlike
<1>2. ASSUME NEW k \in Nat, k \in N PROVE k + 1 \in N
  <2> SUFFICES ASSUME k + 1 <= n PROVE F[k + 1] = G[k + 1]
    OBVIOUS
  <2>1. k + 1 \in 1..n /\ (k + 1) - 1 = k /\ F[k] = G[k]
    BY <1>2
  <2> QED BY <2>1 DEF GoAlike
<1> HIDE DEF N
<1>3. Nat \subseteq N
  BY <1>1, <1>2, Induction
<1> QED BY <1>3 DEF N

\* What goes on in that way, as far as it stays in A.
Goes(n, A, base, step, G) == G[0] = base /\ \A i \in 1..n : G[i - 1] \in A => G[i] = step[<<i, G[i - 1]>>]

\* Whatever goes on in that way has those values.
THEOREM StepsOnly ==
  ASSUME NEW n \in Nat, NEW A, NEW base, NEW step, NEW F, Steps(n, A, base, step, F),
         NEW G, Goes(n, A, base, step, G)
  PROVE  G[n] = F[n]
<1>1. F \in [0..n -> A] /\ F[0] = base /\ \A i \in 1..n : F[i] = step[<<i, F[i - 1]>>]
  BY Zenon DEF Steps
<1>2. \A i \in 1..n : i - 1 \in 0..n
  OBVIOUS
<1>3. ASSUME NEW i \in 1..n, G[i - 1] = F[i - 1] PROVE G[i] = F[i]
  <2>1. F[i - 1] \in A
    BY <1>1, <1>2
  <2> QED BY <1>1, <1>3, <2>1 DEF Goes
<1>4. G[0] = F[0]
  BY <1>1 DEF Goes
<1>5. GoAlike(n, G, F)
  BY <1>3, <1>4 DEF GoAlike
<1> QED BY <1>5, StepsAgree

-----------------------------------------------------------------------------
(***************************************************************************)
(* What goes through a list with a function of what there was and what     *)
(* comes next.                                                             *)
(***************************************************************************)

\* A list of members of E, what there is before it, and what it does with that.
CanFold(A, E, a, s, next) == a \in A /\ s \in Seq(E) /\ next \in [A \X E -> A]

\* F is what there is after each element of s.
Folds(A, a, s, next, F) ==
  F \in [0..Len(s) -> A] /\ F[0] = a /\ \A i \in 1..Len(s) : F[i] = next[<<F[i - 1], s[i]>>]

\* What there is at the end of s.
FoldOf(A, a, s, next) == (CHOOSE F : Folds(A, a, s, next, F))[Len(s)]

\* There is such a function.
LEMMA FoldExists ==
  ASSUME NEW A, NEW E, NEW a, NEW s, NEW next, CanFold(A, E, a, s, next)
  PROVE  \E F : Folds(A, a, s, next, F)
<1> DEFINE n == Len(s)
           step == [p \in (1..n) \X A |-> next[<<p[2], s[p[1]]>>]]
<1> USE DEF CanFold
<1>1. n \in Nat /\ (\A i \in 1..n : s[i] \in E) /\ (\A i \in 1..n : i - 1 \in 0..n)
  OBVIOUS
<1>2. step \in [(1..n) \X A -> A] /\ \A i \in 1..n, x \in A : step[<<i, x>>] = next[<<x, s[i]>>]
  BY <1>1
<1> HIDE DEF step
<1>3. PICK G : Steps(n, A, a, step, G)
  <2> HIDE DEF n
  <2> QED BY <1>1, <1>2, StepsExist, Zenon
<1>4. G \in [0..n -> A] /\ G[0] = a /\ \A i \in 1..n : G[i] = next[<<G[i - 1], s[i]>>]
  BY <1>1, <1>2, <1>3 DEF Steps
<1> QED BY <1>4 DEF Folds

\* G starts and goes on like that, as far as it stays in A.
GoesThrough(A, a, s, next, G) ==
  G[0] = a /\ \A i \in 1..Len(s) : G[i - 1] \in A => G[i] = next[<<G[i - 1], s[i]>>]

\* Whatever goes through s like that ends the same.
THEOREM FoldOnly ==
  ASSUME NEW A, NEW E, NEW a, NEW s, NEW next, CanFold(A, E, a, s, next),
         NEW G, GoesThrough(A, a, s, next, G)
  PROVE  G[Len(s)] = FoldOf(A, a, s, next)
<1> DEFINE F == CHOOSE F : Folds(A, a, s, next, F)
           n == Len(s)
<1>1. Folds(A, a, s, next, F)
  BY FoldExists
<1>2. FoldOf(A, a, s, next) = F[n]
  BY DEF FoldOf
<1> HIDE DEF F
<1>3. n \in Nat /\ F \in [0..n -> A] /\ F[0] = a /\ \A i \in 1..n : F[i] = next[<<F[i - 1], s[i]>>]
  BY <1>1 DEF Folds, CanFold
<1>4. G[0] = a /\ \A i \in 1..n : G[i - 1] \in A => G[i] = next[<<G[i - 1], s[i]>>]
  BY DEF GoesThrough
<1> HIDE DEF n
<1>5. ASSUME NEW i \in 1..n, F[i - 1] = G[i - 1] PROVE F[i] = G[i]
  <2>1. i - 1 \in 0..n
    BY <1>3
  <2>2. G[i - 1] \in A
    BY <1>3, <1>5, <2>1
  <2> QED BY <1>3, <1>4, <1>5, <2>2
<1>6. GoAlike(n, F, G)
  BY <1>3, <1>4, <1>5 DEF GoAlike
<1>7. F[n] = G[n]
  BY <1>3, <1>6, StepsAgree
<1> QED BY <1>2, <1>7 DEF n

\* The end of a longer list is a step from the end of the shorter.
THEOREM FoldAppend ==
  ASSUME NEW A, NEW E, NEW a, NEW s, NEW e \in E, NEW next, CanFold(A, E, a, s, next)
  PROVE  /\ FoldOf(A, a, Append(s, e), next) = next[<<FoldOf(A, a, s, next), e>>]
         /\ FoldOf(A, a, s, next) \in A
<1> DEFINE t == Append(s, e)
           n == Len(s)
           G == CHOOSE G : Folds(A, a, t, next, G)
<1>1. /\ t \in Seq(E) /\ n \in Nat /\ Len(t) = n + 1 /\ t[n + 1] = e /\ \A i \in 1..n : t[i] = s[i]
      /\ n \in 0..(n + 1) /\ n + 1 \in 1..(n + 1) /\ (n + 1) - 1 = n
      /\ CanFold(A, E, a, t, next) /\ \A i \in 1..n : i \in 1..(n + 1)
  BY DEF CanFold
<1>2. FoldOf(A, a, t, next) = G[Len(t)]
  BY DEF FoldOf
<1> HIDE DEF t
<1>3. Folds(A, a, t, next, G)
  BY <1>1, FoldExists
<1> HIDE DEF G
<1>4. /\ G \in [0..(n + 1) -> A] /\ G[0] = a
      /\ \A i \in 1..(n + 1) : G[i] = next[<<G[i - 1], t[i]>>]
  BY <1>1, <1>3 DEF Folds
<1>5. GoesThrough(A, a, s, next, G)
  BY <1>1, <1>4 DEF GoesThrough
<1>6. G[n] = FoldOf(A, a, s, next)
  BY <1>5, FoldOnly
<1> HIDE DEF n
<1>7. G[n + 1] = next[<<G[n], e>>] /\ G[n] \in A
  BY <1>1, <1>4
<1> QED BY <1>1, <1>2, <1>6, <1>7 DEF t

\* It is of the kind of what there was.
THEOREM FoldType ==
  ASSUME NEW A, NEW E, NEW a, NEW s, NEW next, CanFold(A, E, a, s, next) PROVE FoldOf(A, a, s, next) \in A
<1> DEFINE G == CHOOSE G : Folds(A, a, s, next, G)
<1>2. Folds(A, a, s, next, G)
  BY FoldExists
<1> HIDE DEF G
<1>3. Len(s) \in 0..Len(s)
  BY DEF CanFold
<1> QED BY <1>2, <1>3 DEF FoldOf, Folds, G

\* Without elements there is what there was.
THEOREM FoldNone ==
  ASSUME NEW A, NEW E, NEW a, NEW next, CanFold(A, E, a, <<>>, next) PROVE FoldOf(A, a, <<>>, next) = a
<1> DEFINE none == <<>>
           G == CHOOSE G : Folds(A, a, none, next, G)
<1>1. CanFold(A, E, a, none, next) /\ Len(none) = 0
  OBVIOUS
<1> HIDE DEF none
<1>2. Folds(A, a, none, next, G)
  BY <1>1, FoldExists
<1>3. FoldOf(A, a, none, next) = G[Len(none)]
  BY DEF FoldOf
<1> HIDE DEF G
<1> QED BY <1>1, <1>2, <1>3 DEF Folds, none

-----------------------------------------------------------------------------
(***************************************************************************)
(* A set put in order.                                                     *)
(***************************************************************************)

\* R puts the members of S in one order.
Orders(R, S) ==
  /\ \A x \in S : <<x, x>> \in R
  /\ \A x, y \in S : <<x, y>> \in R \/ <<y, x>> \in R
  /\ \A x, y \in S : <<x, y>> \in R /\ <<y, x>> \in R => x = y
  /\ \A x, y, z \in S : <<x, y>> \in R /\ <<y, z>> \in R => <<x, z>> \in R

\* The members of S up to one of them.
NoLater(x, S, R) == {y \in S : <<y, x>> \in R}

\* Every place has one member, every member one place, and they are in order.
THEOREM PlacesAre ==
  ASSUME NEW S, IsFiniteSet(S), NEW R, Orders(R, S)
  PROVE  /\ Cardinality(S) \in Nat
         /\ \A k \in 1..Cardinality(S) : InPlace(k, S, R) \in S /\ Cardinality(NoLater(InPlace(k, S, R), S, R)) = k
         /\ \A x \in S : Cardinality(NoLater(x, S, R)) \in 1..Cardinality(S)
                           /\ InPlace(Cardinality(NoLater(x, S, R)), S, R) = x
         /\ \A k, l \in 1..Cardinality(S) : k < l =>
              InPlace(k, S, R) # InPlace(l, S, R) /\ <<InPlace(k, S, R), InPlace(l, S, R)>> \in R
<1> DEFINE n == Cardinality(S)
           C(x) == Cardinality(NoLater(x, S, R))
           P(k) == InPlace(k, S, R)
           rank == [x \in S |-> C(x)]
<1>1. n \in Nat
  BY FS_CardinalityType
<1>2. ASSUME NEW x \in S PROVE IsFiniteSet(NoLater(x, S, R)) /\ C(x) \in Nat /\ C(x) <= n /\ C(x) # 0
  <2>1. NoLater(x, S, R) \in SUBSET S /\ x \in NoLater(x, S, R)
    BY DEF NoLater, Orders
  <2>2. IsFiniteSet(NoLater(x, S, R)) /\ C(x) <= n
    BY <2>1, FS_Subset
  <2> QED BY <2>1, <2>2, FS_CardinalityType, FS_EmptySet
<1>3. ASSUME NEW x \in S, NEW y \in S, x # y, <<x, y>> \in R PROVE C(x) < C(y)
  <2>1. NoLater(x, S, R) \in SUBSET NoLater(y, S, R)
    BY <1>3 DEF NoLater, Orders
  <2>2. y \in NoLater(y, S, R) /\ y \notin NoLater(x, S, R)
    BY <1>3 DEF NoLater, Orders
  <2>3. C(x) <= C(y) /\ C(x) # C(y)
    BY <1>2, <2>1, <2>2, FS_Subset
  <2> QED BY <1>2, <2>3
<1>4. rank \in [S -> 1..n]
  <2>1. \A x \in S : C(x) \in 1..n
    <3> HIDE DEF C, n
    <3> QED BY <1>1, <1>2
  <2> QED BY <2>1
<1> HIDE DEF C
<1>5. \A x, y \in S : C(x) = C(y) => x = y
  <2> SUFFICES ASSUME NEW x \in S, NEW y \in S, x # y PROVE C(x) # C(y)
    OBVIOUS
  <2>1. <<x, y>> \in R \/ <<y, x>> \in R
    BY DEF Orders
  <2> QED BY <1>2, <1>3, <2>1
<1>6. rank \in Injection(S, 1..n)
  BY <1>4, <1>5 DEF Injection, IsInjective
<1>7. IsFiniteSet(1..n) /\ Cardinality(1..n) = n
  BY <1>1, FS_Interval
<1>8. rank \in Surjection(S, 1..n)
  <2> HIDE DEF rank
  <2> QED BY <1>6, <1>7, FS_Injection
<1>9. \A k \in 1..n : \E x \in S : rank[x] = k
  <2> HIDE DEF rank
  <2> QED BY <1>8 DEF Surjection
<1>10. \A k \in 1..n : P(k) \in S /\ C(P(k)) = k
  BY <1>9 DEF InPlace, NoLater, C
<1> HIDE DEF P
<1>11. \A x \in S : C(x) \in 1..n /\ P(C(x)) = x
  <2> SUFFICES ASSUME NEW x \in S PROVE C(x) \in 1..n /\ P(C(x)) = x
    OBVIOUS
  <2>1. C(x) \in 1..n
    BY <1>1, <1>2
  <2>2. P(C(x)) \in S /\ C(P(C(x))) = C(x)
    BY <1>10, <2>1
  <2> QED BY <1>5, <2>1, <2>2
<1>12. ASSUME NEW k \in 1..n, NEW l \in 1..n, k < l PROVE P(k) # P(l) /\ <<P(k), P(l)>> \in R
  <2>1. P(k) \in S /\ P(l) \in S /\ C(P(k)) = k /\ C(P(l)) = l
    BY <1>10
  <2>2. P(k) # P(l)
    BY <1>12, <2>1
  <2>3. <<P(l), P(k)>> \in R => l < k
    BY <1>3, <2>1, <2>2
  <2>4. <<P(k), P(l)>> \in R \/ <<P(l), P(k)>> \in R
    BY <2>1 DEF Orders
  <2> HIDE DEF n
  <2> QED BY <1>1, <1>12, <2>2, <2>3, <2>4
<1> QED BY <1>1, <1>10, <1>11, <1>12 DEF C, P

\* Two filters that agree on the members of a list keep the same of it.
THEOREM KeptSame ==
  ASSUME NEW S, NEW s \in Seq(S), NEW A, NEW B, ToSet(s) \cap A = ToSet(s) \cap B
  PROVE  Kept(s, A) = Kept(s, B)
<1> DEFINE P == {q \in Seq(S) : ToSet(q) \cap A = ToSet(q) \cap B => Kept(q, A) = Kept(q, B)}
<1>1. <<>> \in P
  <2>1. Kept(<<>>, A) = Kept(<<>>, B)
    BY KeptEmpty
  <2> QED BY <2>1
<1>2. ASSUME NEW q \in Seq(S), NEW e \in S, q \in P PROVE Append(q, e) \in P
  <2> DEFINE t == Append(q, e)
  <2>1. Kept(t, A) = (IF e \in A THEN Append(Kept(q, A), e) ELSE Kept(q, A))
        /\ Kept(t, B) = (IF e \in B THEN Append(Kept(q, B), e) ELSE Kept(q, B))
    BY KeptAppend
  <2>2. t \in Seq(S)
    OBVIOUS
  <2>3. ToSet(t) = ToSet(q) \cup {e}
    BY SetAppend
  <2> HIDE DEF t
  <2>4. ASSUME ToSet(t) \cap A = ToSet(t) \cap B PROVE Kept(t, A) = Kept(t, B)
    <3>1. ToSet(q) \cap A = ToSet(q) \cap B /\ (e \in A <=> e \in B)
      BY <2>3, <2>4
    <3> QED BY <1>2, <2>1, <3>1
  <2> QED BY <2>2, <2>4 DEF t
<1> HIDE DEF P
<1>3. Seq(S) \subseteq P
  BY <1>1, <1>2, SeqInduction
<1> QED BY <1>3 DEF P

-----------------------------------------------------------------------------
SumIs(s, F) == F = [i \in 0..Len(s) |-> IF i = 0 THEN 0 ELSE F[i - 1] + s[i]]

SumNext == [p \in Nat \X Nat |-> p[1] + p[2]]

\* The words of a page are counted one block at a time (Page.word_count).
LEMMA SummedFolds ==
  ASSUME NEW s \in Seq(Nat)
  PROVE  CanFold(Nat, Nat, 0, s, SumNext) /\ Summed(s) = FoldOf(Nat, 0, s, SumNext)
<1> DEFINE next == SumNext
           n == Len(s)
           F == CHOOSE F : SumIs(s, F)
<1>1. n \in Nat /\ (\A i \in 1..n : s[i] \in Nat /\ i - 1 \in 0..n /\ i \in 0..n /\ i # 0) /\ 0 \in 0..n
  OBVIOUS
<1>2. CanFold(Nat, Nat, 0, s, next) /\ \A x \in Nat, e \in Nat : next[<<x, e>>] = x + e
  <2>1. next \in [Nat \X Nat -> Nat]
    BY DEF SumNext
  <2> QED BY <2>1 DEF SumNext, CanFold
<1> HIDE DEF next
<1>3. PICK G : Folds(Nat, 0, s, next, G)
  BY <1>2, FoldExists
<1>4. G \in [0..n -> Nat] /\ G[0] = 0 /\ \A i \in 1..n : G[i] = G[i - 1] + s[i]
  BY <1>1, <1>2, <1>3 DEF Folds
<1>5. SumIs(s, G)
  <2>1. G = [i \in 0..n |-> G[i]] /\ \A i \in 0..n : i = 0 \/ i \in 1..n
    BY <1>1, <1>4
  <2>2. \A i \in 0..n : G[i] = IF i = 0 THEN 0 ELSE G[i - 1] + s[i]
    BY <1>4, <2>1
  <2> QED BY <2>1, <2>2 DEF SumIs
<1>6. SumIs(s, F) /\ Summed(s) = F[n]
  BY <1>5 DEF Summed, SumIs
<1> HIDE DEF F
<1>7. \A i \in 0..n : F[i] = IF i = 0 THEN 0 ELSE F[i - 1] + s[i]
  BY <1>6, Zenon DEF SumIs
<1>8. GoesThrough(Nat, 0, s, next, F)
  BY <1>1, <1>2, <1>7 DEF GoesThrough
<1>9. F[Len(s)] = FoldOf(Nat, 0, s, next)
  BY <1>2, <1>8, FoldOnly
<1> QED BY <1>2, <1>6, <1>9 DEF next

\* One block more.
LEMMA SummedAppend ==
  ASSUME NEW s \in Seq(Nat), NEW e \in Nat
  PROVE  Summed(Append(s, e)) = Summed(s) + e /\ Summed(s) \in Nat
<1> DEFINE next == SumNext
           t == Append(s, e)
<1>1. CanFold(Nat, Nat, 0, s, next) /\ Summed(s) = FoldOf(Nat, 0, s, next)
  BY SummedFolds
<1>2. Summed(t) = FoldOf(Nat, 0, t, next)
  <2>1. t \in Seq(Nat)
    OBVIOUS
  <2> HIDE DEF t
  <2> QED BY <2>1, SummedFolds
<1> HIDE DEF next
<1>3. FoldOf(Nat, 0, t, next) = next[<<FoldOf(Nat, 0, s, next), e>>] /\ FoldOf(Nat, 0, s, next) \in Nat
  BY <1>1, FoldAppend
<1>4. \A x \in Nat : next[<<x, e>>] = x + e
  BY DEF next, SumNext
<1> QED BY <1>1, <1>2, <1>3, <1>4 DEF t

\* No block at all.
LEMMA SummedNone == Summed(<<>>) = 0
<1> DEFINE next == SumNext
           none == <<>>
<1>1. none \in Seq(Nat)
  OBVIOUS
<1> HIDE DEF none
<1>2. CanFold(Nat, Nat, 0, none, next) /\ Summed(none) = FoldOf(Nat, 0, none, next)
  BY <1>1, SummedFolds
<1> HIDE DEF next
<1> QED BY <1>2, FoldNone DEF none

\* A sum is nothing if all its parts are.
LEMMA SummedIs ==
  ASSUME NEW s \in Seq(Nat)
  PROVE  Summed(s) \in Nat /\ (Summed(s) = 0 <=> \A i \in 1..Len(s) : s[i] = 0)
<1> DEFINE Good(q) == Summed(q) \in Nat /\ (Summed(q) = 0 <=> \A i \in 1..Len(q) : q[i] = 0)
           P == {q \in Seq(Nat) : Good(q)}
<1>1. <<>> \in P
  BY SummedNone
<1>2. ASSUME NEW q \in Seq(Nat), NEW e \in Nat, q \in P PROVE Append(q, e) \in P
  <2> DEFINE t == Append(q, e)
  <2>1. Summed(t) = Summed(q) + e /\ Summed(q) \in Nat
    BY SummedAppend
  <2>2. t \in Seq(Nat) /\ Len(t) = Len(q) + 1 /\ Len(q) \in Nat /\ t[Len(q) + 1] = e /\ \A i \in 1..Len(q) : t[i] = q[i]
    OBVIOUS
  <2>3. \A i \in 1..Len(q) : q[i] \in Nat
    OBVIOUS
  <2>4. Good(q)
    BY <1>2
  <2> HIDE DEF t
  <2>5. Summed(t) = 0 <=> Summed(q) = 0 /\ e = 0
    BY <2>1
  <2>6. (\A i \in 1..Len(t) : t[i] = 0) <=> (\A i \in 1..Len(q) : q[i] = 0) /\ e = 0
    <3>1. \A i \in 1..Len(t) : i \in 1..Len(q) \/ i = Len(q) + 1
      BY <2>2
    <3>2. Len(q) + 1 \in 1..Len(t) /\ \A i \in 1..Len(q) : i \in 1..Len(t)
      BY <2>2
    <3> QED BY <2>2, <3>1, <3>2
  <2>7. Summed(t) \in Nat
    BY <2>1
  <2>8. Good(t)
    BY <2>4, <2>5, <2>6, <2>7
  <2> QED BY <2>2, <2>8 DEF t
<1> HIDE DEF P
<1>3. s \in P
  BY <1>1, <1>2, SeqInduction
<1> QED BY <1>3 DEF P

-----------------------------------------------------------------------------
\* What f makes of each of s.
Through(f, s) == [i \in DOMAIN s |-> f[s[i]]]

\* f is a function from S to T: a name for it, so that T can be found.
Maps(f, S, T) == f \in [S -> T]

\* One more, or none, of what f is applied to.
LEMMA ThroughAppend ==
  ASSUME NEW S, NEW T, NEW f, Maps(f, S, T), NEW s \in Seq(S), NEW e \in S
  PROVE  /\ Through(f, s) \in Seq(T) /\ Len(Through(f, s)) = Len(s) /\ f[e] \in T
         /\ Through(f, Append(s, e)) = Append(Through(f, s), f[e])
         /\ Through(f, <<>>) = <<>>
<1>0. f[e] \in T
  BY DEF Maps
<1>1. Through(f, s) \in Seq(T) /\ Len(Through(f, s)) = Len(s) /\ DOMAIN Through(f, s) = 1..Len(s)
  BY DEF Through, Maps
<1>2. Through(f, Append(s, e)) = Append(Through(f, s), f[e])
  <2> DEFINE t == Append(s, e)
  <2>1. t \in Seq(S) /\ Len(t) = Len(s) + 1 /\ t[Len(s) + 1] = e /\ \A i \in 1..Len(s) : t[i] = s[i]
    OBVIOUS
  <2>2. DOMAIN t = 1..(Len(s) + 1) /\ \A i \in 1..(Len(s) + 1) : i \in 1..Len(s) \/ i = Len(s) + 1
    BY <2>1
  <2>3. Through(f, t) \in Seq(T) /\ Len(Through(f, t)) = Len(s) + 1
    BY <2>1 DEF Through, Maps
  <2>4. \A i \in 1..(Len(s) + 1) : Through(f, t)[i] = Append(Through(f, s), f[e])[i]
    BY <1>1, <2>1, <2>2 DEF Through, Maps
  <2>5. Append(Through(f, s), f[e]) \in Seq(T) /\ Len(Append(Through(f, s), f[e])) = Len(s) + 1
    BY <1>0, <1>1
  <2> HIDE DEF t
  <2>6. Through(f, t) = Append(Through(f, s), f[e])
    BY <2>3, <2>4, <2>5, SeqEqual
  <2> QED BY <2>6 DEF t
<1>3. Through(f, <<>>) = <<>>
  BY DEF Through, Maps
<1> QED BY <1>0, <1>1, <1>2, <1>3

\* What f makes of two lists joined.
LEMMA ThroughConcat ==
  ASSUME NEW S, NEW T, NEW f, Maps(f, S, T), NEW s \in Seq(S), NEW t \in Seq(S)
  PROVE  Through(f, s \o t) = Through(f, s) \o Through(f, t) /\ Through(f, s \o t) \in Seq(T)
<1>1. Through(f, s) \in Seq(T) /\ Len(Through(f, s)) = Len(s) /\ \A i \in 1..Len(s) : Through(f, s)[i] = f[s[i]]
  BY DEF Through, Maps
<1>2. Through(f, t) \in Seq(T) /\ Len(Through(f, t)) = Len(t) /\ \A i \in 1..Len(t) : Through(f, t)[i] = f[t[i]]
  BY DEF Through, Maps
<1> DEFINE u == s \o t
           v == Through(f, s) \o Through(f, t)
           n == Len(s) + Len(t)
<1>3. /\ u \in Seq(S) /\ Len(u) = n /\ n \in Nat
      /\ (\A i \in 1..Len(s) : u[i] = s[i]) /\ \A i \in 1..n : i > Len(s) => u[i] = t[i - Len(s)]
  OBVIOUS
<1>4. /\ v \in Seq(T) /\ Len(v) = n /\ (\A i \in 1..Len(s) : v[i] = Through(f, s)[i])
      /\ \A i \in 1..n : i > Len(s) => v[i] = Through(f, t)[i - Len(s)]
  <2> DEFINE p == Through(f, s)
             q == Through(f, t)
  <2>1. p \in Seq(T) /\ q \in Seq(T) /\ Len(p) = Len(s) /\ Len(q) = Len(t)
    BY <1>1, <1>2
  <2> HIDE DEF p, q
  <2>2. /\ p \o q \in Seq(T) /\ Len(p \o q) = Len(p) + Len(q)
        /\ \A i \in 1..(Len(p) + Len(q)) : (p \o q)[i] = IF i <= Len(p) THEN p[i] ELSE q[i - Len(p)]
    BY <2>1, ConcatProperties, Zenon
  <2>3. \A i \in 1..Len(s) : i \in 1..n /\ i <= Len(s)
    OBVIOUS
  <2>4. \A i \in 1..n : i > Len(s) => ~(i <= Len(s))
    OBVIOUS
  <2> QED BY <2>1, <2>2, <2>3, <2>4 DEF p, q
<1> HIDE DEF u, v
<1>5. Through(f, u) \in Seq(T) /\ Len(Through(f, u)) = n /\ \A i \in 1..n : Through(f, u)[i] = f[u[i]]
  BY <1>3 DEF Through, Maps
<1>6. \A i \in 1..n : Through(f, u)[i] = v[i]
  <2> TAKE i \in 1..n
  <2>1. CASE i \in 1..Len(s)
    BY <1>1, <1>3, <1>4, <1>5, <2>1
  <2>2. CASE i > Len(s)
    <3>1. i - Len(s) \in 1..Len(t)
      BY <2>2
    <3>2. Through(f, u)[i] = f[u[i]]
      BY <1>5
    <3>3. u[i] = t[i - Len(s)]
      BY <1>3, <2>2
    <3>4. v[i] = Through(f, t)[i - Len(s)]
      BY <1>4, <2>2
    <3>5. Through(f, t)[i - Len(s)] = f[t[i - Len(s)]]
      BY <1>2, <3>1
    <3> QED BY <3>2, <3>3, <3>4, <3>5
  <2> QED BY <2>1, <2>2
<1>7. Through(f, u) = v
  BY <1>4, <1>5, <1>6, SeqEqual
<1> QED BY <1>4, <1>7 DEF u, v

\* Joining two lists of lists.
LEMMA FlattenConcat ==
  ASSUME NEW S, NEW ss \in Seq(Seq(S)), NEW tt \in Seq(Seq(S))
  PROVE  FlattenSeq(ss \o tt) = FlattenSeq(ss) \o FlattenSeq(tt)
<1> DEFINE L == Seq(S)
           P == {uu \in Seq(L) : FlattenSeq(ss \o uu) = FlattenSeq(ss) \o FlattenSeq(uu)}
<1>0. ss \in Seq(L) /\ tt \in Seq(L) /\ FlattenSeq(ss) \in L
  BY FlattenType
<1>1. <<>> \in P
  <2>1. FlattenSeq(ss) \o <<>> = FlattenSeq(ss)
    BY <1>0
  <2>2. <<>> \in Seq(L) /\ ss \o <<>> = ss
    <3> HIDE DEF L
    <3> QED BY <1>0
  <2> QED BY <2>1, <2>2, FlattenEmpty
<1>2. ASSUME NEW uu \in Seq(L), NEW s \in L, uu \in P PROVE Append(uu, s) \in P
  <2>1. ss \o Append(uu, s) = Append(ss \o uu, s) /\ ss \o uu \in Seq(L) /\ Append(uu, s) \in Seq(L)
    <3> HIDE DEF L
    <3> QED BY <1>0, ConcatAppend
  <2>2. FlattenSeq(Append(ss \o uu, s)) = FlattenSeq(ss \o uu) \o s
    BY <2>1, FlattenAppend
  <2>3. FlattenSeq(Append(uu, s)) = FlattenSeq(uu) \o s /\ FlattenSeq(uu) \in L
    BY FlattenAppend, FlattenType
  <2>4. (FlattenSeq(ss) \o FlattenSeq(uu)) \o s = FlattenSeq(ss) \o (FlattenSeq(uu) \o s)
    <3>1. FlattenSeq(ss) \in Seq(S) /\ FlattenSeq(uu) \in Seq(S) /\ s \in Seq(S)
      BY <1>0, <2>3
    <3> HIDE DEF L, P
    <3> QED BY <3>1, ConcatAssociative
  <2>5. FlattenSeq(ss \o uu) = FlattenSeq(ss) \o FlattenSeq(uu)
    BY <1>2
  <2> QED BY <2>1, <2>2, <2>3, <2>4, <2>5
<1>3. tt \in P
  <2> HIDE DEF P, L
  <2> QED BY <1>0, <1>1, <1>2, SeqInduction
<1> QED BY <1>3

\* One list is itself.
LEMMA FlattenOne == ASSUME NEW S, NEW s \in Seq(S) PROVE FlattenSeq(<<s>>) = s
<1> DEFINE L == Seq(S)
<1>1. <<>> \in Seq(L) /\ Append(<<>>, s) = <<s>>
  OBVIOUS
<1>2. FlattenSeq(Append(<<>>, s)) = FlattenSeq(<<>>) \o s
  BY <1>1, FlattenAppend
<1>3. <<>> \o s = s
  OBVIOUS
<1> QED BY <1>1, <1>2, <1>3, FlattenEmpty

\* Joined lists are empty if each of them is.
LEMMA FlattenNothing ==
  ASSUME NEW S, NEW ss \in Seq(Seq(S))
  PROVE  FlattenSeq(ss) = <<>> <=> \A k \in 1..Len(ss) : ss[k] = <<>>
<1> DEFINE L == Seq(S)
           P == {uu \in Seq(L) : FlattenSeq(uu) = <<>> <=> \A k \in 1..Len(uu) : uu[k] = <<>>}
<1>1. <<>> \in P
  <2>1. <<>> \in Seq(L) /\ 1..Len(<<>>) = {}
    OBVIOUS
  <2> QED BY <2>1, FlattenEmpty
<1>2. ASSUME NEW uu \in Seq(L), NEW s \in L, uu \in P PROVE Append(uu, s) \in P
  <2>1. FlattenSeq(Append(uu, s)) = FlattenSeq(uu) \o s /\ FlattenSeq(uu) \in L
    BY FlattenAppend, FlattenType
  <2>2. FlattenSeq(uu) \o s = <<>> <=> FlattenSeq(uu) = <<>> /\ s = <<>>
    <3> DEFINE w == FlattenSeq(uu)
    <3>1. w \in Seq(S) /\ s \in Seq(S)
      BY <2>1
    <3> HIDE DEF w
    <3>2. Len(w \o s) = Len(w) + Len(s) /\ (Len(w) = 0 <=> w = <<>>) /\ (Len(s) = 0 <=> s = <<>>)
      BY <3>1
    <3>3. w \o s = <<>> => Len(w \o s) = 0
      OBVIOUS
    <3>4. Len(w) \in Nat /\ Len(s) \in Nat /\ (w = <<>> /\ s = <<>> => w \o s = <<>>)
      BY <3>1
    <3> QED BY <3>2, <3>3, <3>4 DEF w
  <2>3. /\ Append(uu, s) \in Seq(L) /\ Len(Append(uu, s)) = Len(uu) + 1 /\ Append(uu, s)[Len(uu) + 1] = s
        /\ \A k \in 1..Len(uu) : Append(uu, s)[k] = uu[k]
    <3> HIDE DEF L
    <3> QED OBVIOUS
  <2>4. \A k \in 1..(Len(uu) + 1) : k \in 1..Len(uu) \/ k = Len(uu) + 1
    OBVIOUS
  <2>5. Len(uu) \in Nat /\ \A k \in 1..Len(uu) : k \in 1..(Len(uu) + 1)
    OBVIOUS
  <2>6. Len(uu) + 1 \in 1..(Len(uu) + 1)
    BY <2>5
  <2>7. FlattenSeq(uu) = <<>> <=> \A k \in 1..Len(uu) : uu[k] = <<>>
    BY <1>2
  <2>8. (\A k \in 1..Len(Append(uu, s)) : Append(uu, s)[k] = <<>>) <=> (\A k \in 1..Len(uu) : uu[k] = <<>>) /\ s = <<>>
    <3> HIDE DEF P, L
    <3> QED BY <2>3, <2>4, <2>5, <2>6
  <2> QED BY <2>1, <2>2, <2>3, <2>7, <2>8
<1>3. ss \in P
  <2> HIDE DEF P, L
  <2>1. ss \in Seq(L)
    BY DEF L
  <2> QED BY <1>1, <1>2, <2>1, SeqInduction
<1> QED BY <1>3

\* g does to lists what f does to their elements; g joins, or filters, lists.
Lifts(g, f, S) == \A s \in Seq(S) : g[s] = Through(f, s)
Joins(g, S) == \A ss \in Seq(Seq(S)) : g[ss] = FlattenSeq(ss)
Filtering(g, S, A) == \A s \in Seq(S) : g[s] = Kept(s, A)

\* What f makes of lists that are joined.
LEMMA ThroughFlatten ==
  ASSUME NEW S, NEW T, NEW f, Maps(f, S, T), NEW ss \in Seq(Seq(S)),
         NEW g, Maps(g, Seq(S), Seq(T)), Lifts(g, f, S)
  PROVE  Through(f, FlattenSeq(ss)) = FlattenSeq(Through(g, ss))
<1> DEFINE L == Seq(S)
           M == Seq(T)
           P == {uu \in Seq(L) : Through(f, FlattenSeq(uu)) = FlattenSeq(Through(g, uu))}
<1>1. <<>> \in P
  <2>1. <<>> \in Seq(L) /\ Through(f, <<>>) = <<>> /\ Through(g, <<>>) = <<>>
    BY DEF Through, Maps
  <2> QED BY <2>1, FlattenEmpty
<1>2. ASSUME NEW uu \in Seq(L), NEW s \in L, uu \in P PROVE Append(uu, s) \in P
  <2>1. FlattenSeq(Append(uu, s)) = FlattenSeq(uu) \o s /\ FlattenSeq(uu) \in L
    BY FlattenAppend, FlattenType
  <2>2. Through(f, FlattenSeq(uu) \o s) = Through(f, FlattenSeq(uu)) \o Through(f, s)
    <3>1. FlattenSeq(uu) \in Seq(S) /\ s \in Seq(S)
      BY <2>1
    <3> HIDE DEF L, M, P
    <3> QED BY <3>1, ThroughConcat
  <2>3. Through(g, Append(uu, s)) = Append(Through(g, uu), g[s]) /\ Through(g, uu) \in Seq(M) /\ g[s] \in M
    <3>1. Maps(g, L, M)
      OBVIOUS
    <3> HIDE DEF L, M, P
    <3> QED BY <3>1, ThroughAppend
  <2>4. FlattenSeq(Append(Through(g, uu), g[s])) = FlattenSeq(Through(g, uu)) \o g[s]
    BY <2>3, FlattenAppend
  <2>5. Append(uu, s) \in Seq(L)
    <3> HIDE DEF L
    <3> QED OBVIOUS
  <2>6. Through(f, FlattenSeq(uu)) = FlattenSeq(Through(g, uu)) /\ g[s] = Through(f, s)
    BY <1>2 DEF Lifts
  <2> QED BY <2>1, <2>2, <2>3, <2>4, <2>5, <2>6
<1>3. ss \in P
  <2>1. ss \in Seq(L)
    OBVIOUS
  <2> HIDE DEF P, L
  <2> QED BY <1>1, <1>2, <2>1, SeqInduction
<1> QED BY <1>3

\* Joining lists of lists, inner lists first or last.
LEMMA FlattenTwice ==
  ASSUME NEW S, NEW sss \in Seq(Seq(Seq(S))),
         NEW g, Maps(g, Seq(Seq(S)), Seq(S)), Joins(g, S)
  PROVE  FlattenSeq(FlattenSeq(sss)) = FlattenSeq(Through(g, sss)) /\ FlattenSeq(sss) \in Seq(Seq(S))
<1> DEFINE L == Seq(S)
           M == Seq(L)
           P == {uu \in Seq(M) : FlattenSeq(FlattenSeq(uu)) = FlattenSeq(Through(g, uu))}
<1>1. <<>> \in P
  <2>1. <<>> \in Seq(M) /\ Through(g, <<>>) = <<>>
    BY DEF Through, Maps
  <2> QED BY <2>1, FlattenEmpty
<1>2. ASSUME NEW uu \in Seq(M), NEW s \in M, uu \in P PROVE Append(uu, s) \in P
  <2>1. FlattenSeq(Append(uu, s)) = FlattenSeq(uu) \o s /\ FlattenSeq(uu) \in M
    <3> HIDE DEF L
    <3> QED BY FlattenAppend, FlattenType
  <2>2. FlattenSeq(FlattenSeq(uu) \o s) = FlattenSeq(FlattenSeq(uu)) \o FlattenSeq(s)
    BY <2>1, FlattenConcat
  <2>3. Through(g, Append(uu, s)) = Append(Through(g, uu), g[s]) /\ Through(g, uu) \in Seq(L) /\ g[s] \in L
    <3>1. Maps(g, M, L)
      OBVIOUS
    <3> HIDE DEF L, M, P
    <3> QED BY <3>1, ThroughAppend
  <2>4. FlattenSeq(Append(Through(g, uu), g[s])) = FlattenSeq(Through(g, uu)) \o g[s]
    BY <2>3, FlattenAppend
  <2>5. Append(uu, s) \in Seq(M)
    <3> HIDE DEF M
    <3> QED OBVIOUS
  <2>6. FlattenSeq(FlattenSeq(uu)) = FlattenSeq(Through(g, uu)) /\ g[s] = FlattenSeq(s)
    BY <1>2 DEF Joins
  <2> QED BY <2>1, <2>2, <2>3, <2>4, <2>5, <2>6
<1>3. sss \in P
  <2>1. sss \in Seq(M)
    OBVIOUS
  <2> HIDE DEF P, M
  <2> QED BY <1>1, <1>2, <2>1, SeqInduction
<1>4. FlattenSeq(sss) \in M
  <2>1. sss \in Seq(Seq(L))
    OBVIOUS
  <2> HIDE DEF L
  <2> QED BY <2>1, FlattenType
<1> QED BY <1>3, <1>4

\* Filtering two lists joined.
LEMMA KeptConcat ==
  ASSUME NEW S, NEW s \in Seq(S), NEW t \in Seq(S), NEW A
  PROVE  Kept(s \o t, A) = Kept(s, A) \o Kept(t, A)
<1> DEFINE P == {u \in Seq(S) : Kept(s \o u, A) = Kept(s, A) \o Kept(u, A)}
<1>0. Kept(s, A) \in Seq(S \cap A)
  BY KeptType
<1>1. <<>> \in P
  <2>1. s \o <<>> = s /\ <<>> \in Seq(S) /\ Kept(s, A) \o <<>> = Kept(s, A)
    BY <1>0
  <2> QED BY <2>1, KeptEmpty
<1>2. ASSUME NEW u \in Seq(S), NEW e \in S, u \in P PROVE Append(u, e) \in P
  <2>1. s \o Append(u, e) = Append(s \o u, e) /\ s \o u \in Seq(S) /\ Append(u, e) \in Seq(S)
    BY ConcatAppend
  <2>2. Kept(Append(s \o u, e), A) = IF e \in A THEN Append(Kept(s \o u, A), e) ELSE Kept(s \o u, A)
    BY <2>1, KeptAppend
  <2>3. Kept(Append(u, e), A) = IF e \in A THEN Append(Kept(u, A), e) ELSE Kept(u, A)
    BY KeptAppend
  <2>4. Kept(u, A) \in Seq(S \cap A)
    BY KeptType
  <2>5. e \in A => Kept(s, A) \o Append(Kept(u, A), e) = Append(Kept(s, A) \o Kept(u, A), e)
    BY <1>0, <2>4, ConcatAppend
  <2>6. Kept(s \o u, A) = Kept(s, A) \o Kept(u, A)
    BY <1>2
  <2> QED BY <2>1, <2>2, <2>3, <2>5, <2>6
<1>3. t \in P
  <2> HIDE DEF P
  <2> QED BY <1>1, <1>2, SeqInduction
<1> QED BY <1>3

\* Filtering lists that are joined.
LEMMA KeptFlatten ==
  ASSUME NEW S, NEW ss \in Seq(Seq(S)), NEW A,
         NEW g, Maps(g, Seq(S), Seq(S)), Filtering(g, S, A)
  PROVE  Kept(FlattenSeq(ss), A) = FlattenSeq(Through(g, ss))
<1> DEFINE L == Seq(S)
           P == {uu \in Seq(L) : Kept(FlattenSeq(uu), A) = FlattenSeq(Through(g, uu))}
<1>1. <<>> \in P
  <2>1. <<>> \in Seq(L) /\ Through(g, <<>>) = <<>>
    BY DEF Through, Maps
  <2> QED BY <2>1, FlattenEmpty, KeptEmpty
<1>2. ASSUME NEW uu \in Seq(L), NEW s \in L, uu \in P PROVE Append(uu, s) \in P
  <2>1. FlattenSeq(Append(uu, s)) = FlattenSeq(uu) \o s /\ FlattenSeq(uu) \in L
    BY FlattenAppend, FlattenType
  <2>2. Kept(FlattenSeq(uu) \o s, A) = Kept(FlattenSeq(uu), A) \o Kept(s, A)
    <3>1. FlattenSeq(uu) \in Seq(S) /\ s \in Seq(S)
      BY <2>1
    <3> HIDE DEF L, P
    <3> QED BY <3>1, KeptConcat
  <2>3. Through(g, Append(uu, s)) = Append(Through(g, uu), g[s]) /\ Through(g, uu) \in Seq(L) /\ g[s] \in L
    <3>1. Maps(g, L, L)
      OBVIOUS
    <3> HIDE DEF L, P
    <3> QED BY <3>1, ThroughAppend
  <2>4. FlattenSeq(Append(Through(g, uu), g[s])) = FlattenSeq(Through(g, uu)) \o g[s]
    BY <2>3, FlattenAppend
  <2>5. Append(uu, s) \in Seq(L)
    <3> HIDE DEF L
    <3> QED OBVIOUS
  <2>6. Kept(FlattenSeq(uu), A) = FlattenSeq(Through(g, uu)) /\ g[s] = Kept(s, A)
    BY <1>2 DEF Filtering
  <2> QED BY <2>1, <2>2, <2>3, <2>4, <2>5, <2>6
<1>3. ss \in P
  <2>1. ss \in Seq(L)
    OBVIOUS
  <2> HIDE DEF P, L
  <2> QED BY <1>1, <1>2, <2>1, SeqInduction
<1> QED BY <1>3

\* What is kept and what is not make up the whole.
LEMMA KeptAndLeft ==
  ASSUME NEW S, NEW s \in Seq(S), NEW A
  PROVE  /\ Len(Kept(s, A)) \in Nat /\ Len(Kept(s, ToSet(s) \ A)) \in Nat
         /\ Len(Kept(s, A)) + Len(Kept(s, ToSet(s) \ A)) = Len(s)
<1> DEFINE P == {u \in Seq(S) : Len(Kept(u, A)) + Len(Kept(u, S \ A)) = Len(u)}
<1>0. ASSUME NEW u \in Seq(S), NEW B PROVE Kept(u, B) \in Seq(S) /\ Len(Kept(u, B)) \in Nat
  <2>1. Kept(u, B) \in Seq(S \cap B)
    BY KeptType
  <2> QED BY <2>1
<1>1. <<>> \in P
  BY KeptEmpty
<1>2. ASSUME NEW u \in Seq(S), NEW e \in S, u \in P PROVE Append(u, e) \in P
  <2>1. /\ Kept(Append(u, e), A) = IF e \in A THEN Append(Kept(u, A), e) ELSE Kept(u, A)
        /\ Kept(Append(u, e), S \ A) = IF e \in S \ A THEN Append(Kept(u, S \ A), e) ELSE Kept(u, S \ A)
    BY KeptAppend
  <2>2. Kept(u, A) \in Seq(S) /\ Kept(u, S \ A) \in Seq(S)
    BY <1>0
  <2>3. Len(Kept(u, A)) + Len(Kept(u, S \ A)) = Len(u)
    BY <1>2
  <2> QED BY <2>1, <2>2, <2>3
<1>3. s \in P
  <2> HIDE DEF P
  <2> QED BY <1>1, <1>2, SeqInduction
<1>4. ToSet(s) \cap (ToSet(s) \ A) = ToSet(s) \cap (S \ A)
  BY DEF ToSet
<1>5. Kept(s, ToSet(s) \ A) = Kept(s, S \ A)
  BY <1>4, KeptSame
<1> QED BY <1>0, <1>3, <1>5
=============================================================================
