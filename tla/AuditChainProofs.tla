-------------------------- MODULE AuditChainProofs --------------------------
(***************************************************************************)
(* AuditChain for any number of transactions and of rows: the inductive    *)
(* invariant ChainInv, what follows from it, and that verify_chain is      *)
(* right about every log these transactions can write.                     *)
(***************************************************************************)
EXTENDS AuditChain, ListTheorems, FiniteSetTheorems, TLAPS

-----------------------------------------------------------------------------
(***************************************************************************)
(* Lemmas about sets of rows.                                              *)
(***************************************************************************)

\* PreviousHash takes its digest from a row that no other row comes after.
LEMMA PreviousHashIsLast ==
    ASSUME NEW S, S # {}, HasLast(S)
    PROVE  \E r \in S : IsLast(r, S) /\ PreviousHash(S) = r.hash
<1>1. \E r \in S : IsLast(r, S)
    BY DEF HasLast
<1>2. IsLast(CHOOSE r \in S : IsLast(r, S), S)
    BY <1>1
<1> QED BY <1>2 DEF PreviousHash, IsLast

\* Two sets with a last row have one together.
LEMMA LastOfUnion ==
    ASSUME NEW S, NEW T, HasLast(S), HasLast(T),
           \A r \in S \cup T : r.seq \in Nat
    PROVE  HasLast(S \cup T)
<1>1. CASE S = {} \/ T = {}
    BY <1>1, S \cup {} = S, {} \cup T = T DEF HasLast
<1>2. CASE S # {} /\ T # {}
    <2>1. PICK s \in S : IsLast(s, S)
        BY <1>2 DEF HasLast
    <2>2. PICK t \in T : IsLast(t, T)
        BY <1>2 DEF HasLast
    <2>3. CASE s.seq <= t.seq
        <3>1. IsLast(t, S \cup T)
            BY <2>1, <2>2, <2>3 DEF IsLast
        <3> QED BY <3>1 DEF HasLast
    <2>4. CASE ~(s.seq <= t.seq)
        <3>1. IsLast(s, S \cup T)
            BY <2>1, <2>2, <2>4 DEF IsLast
        <3> QED BY <3>1 DEF HasLast
    <2> QED BY <2>3, <2>4
<1> QED BY <1>1, <1>2

\* A row that comes after all the others leaves their links as they were, and
\* links back itself when it carries the digest of the last of them.
LEMMA LinkedWithNext ==
    ASSUME NEW S, NEW r, Linked(S),
           r.seq \in Nat, \A q \in S : q.seq \in Nat /\ q.seq < r.seq,
           r.prev = PreviousHash(S)
    PROVE  Linked(S \cup {r})
<1> SUFFICES ASSUME NEW x \in S \cup {r} PROVE LinksBack(x, S \cup {r})
    BY DEF Linked
<1>1. CASE x \in S
    <2>1. {q \in S \cup {r} : q.seq < x.seq} = {q \in S : q.seq < x.seq}
        BY <1>1
    <2> QED BY <1>1, <2>1 DEF Linked, LinksBack
<1>2. CASE x = r
    <2>1. {q \in S \cup {r} : q.seq < x.seq} = S
        BY <1>2
    <2> QED BY <1>2, <2>1 DEF LinksBack
<1> QED BY <1>1, <1>2

-----------------------------------------------------------------------------
(***************************************************************************)
(* The invariant.                                                          *)
(***************************************************************************)

\* An empty log is a chain.
LEMMA ChainInvInit == Init => ChainInv
<1> SUFFICES ASSUME Init PROVE ChainInv
    OBVIOUS
<1> USE DEF Init, AllPending, Visible
<1>0. log \cup AllPending = {}
    OBVIOUS
<1>1. TypeOK
    <2>1. overlapped \in BOOLEAN
        BY Zenon
    <2>2. nextSeq \in Nat \ {0}
        OBVIOUS
    <2> QED BY <1>0, <2>1, <2>2 DEF TypeOK
<1>2. HolderIsLast
    BY DEF HolderIsLast
<1>3. LastRows
    BY DEF LastRows, HasLast
<1>4. Resolves
    BY DEF Resolves
<1>5. Intact
    BY DEF Intact, Linked
<1>6. OneNumberEach
    BY <1>0 DEF OneNumberEach
<1> QED BY <1>1, <1>2, <1>3, <1>4, <1>5, <1>6 DEF ChainInv

\* Taking the lock and a number leaves the rows as they are.
LEMMA ReserveKeeps ==
    ASSUME ChainInv, NEW w \in Writers, Reserve(w)
    PROVE  ChainInv'
<1> USE WritersAssumption
<1>1. TypeOK'
    BY DEF ChainInv, TypeOK, Reserve, AllPending
<1>2. HolderIsLast'
    <2> SUFFICES ASSUME NEW v \in Writers, stage'[v] = "locked"
                 PROVE  /\ lock' = v
                        /\ reserved'[v] = nextSeq' - 1 /\ reserved'[v] >= 1
                        /\ \A r \in (log \cup AllPending)' : r.seq < reserved'[v]
        BY DEF HolderIsLast
    <2>1. v = w
        BY DEF ChainInv, TypeOK, HolderIsLast, Reserve
    <2>2. (log \cup AllPending)' = log \cup AllPending
        BY DEF Reserve, AllPending
    <2>3. nextSeq \in Nat /\ nextSeq >= 1
        BY DEF ChainInv, TypeOK
    <2> QED BY <2>1, <2>2, <2>3 DEF ChainInv, TypeOK, Reserve
<1>3. LastRows'
    BY DEF ChainInv, LastRows, HasLast, Reserve
<1>4. Resolves'
    BY DEF ChainInv, Resolves, Visible, Reserve
<1>5. Intact'
    BY DEF ChainInv, Intact, Visible, Linked, Reserve
<1>6. OneNumberEach'
    BY DEF ChainInv, OneNumberEach, AllPending, Reserve
<1> QED BY <1>1, <1>2, <1>3, <1>4, <1>5, <1>6 DEF ChainInv

\* The new row has the highest number and links to the last row its transaction sees.
LEMMA AppendRowKeeps ==
    ASSUME ChainInv, NEW w \in Writers, AppendRow(w)
    PROVE  ChainInv'
<1> USE WritersAssumption
<1> DEFINE new == Row(reserved[w], PreviousHash(Visible(w)))
<1>1. pending' = [pending EXCEPT ![w] = @ \cup {new}] /\ log' = log
    BY DEF AppendRow
<1>2. pending'[w] = pending[w] \cup {new}
      /\ \A v \in Writers \ {w} : pending'[v] = pending[v]
    BY <1>1 DEF ChainInv, TypeOK
<1>3. /\ new.seq = reserved[w] /\ new.prev = PreviousHash(Visible(w))
      /\ new = Row(new.seq, new.prev)
    BY DEF Row
<1>4. /\ reserved[w] \in 1..(nextSeq - 1) /\ nextSeq \in Nat /\ nextSeq' = nextSeq
      /\ \A r \in log \cup AllPending : r.seq \in Nat /\ r.seq < reserved[w]
    BY DEF ChainInv, TypeOK, HolderIsLast, AppendRow
<1>5. (log \cup AllPending)' = (log \cup AllPending) \cup {new}
    BY <1>1, <1>2 DEF AllPending
<1>6. Visible(w) \subseteq log \cup AllPending /\ pending[w] \subseteq log \cup AllPending
    BY DEF Visible, AllPending
<1>7. Visible(w)' = Visible(w) \cup {new}
      /\ \A v \in Writers \ {w} : Visible(v)' = Visible(v)
    BY <1>1, <1>2 DEF Visible
<1> HIDE DEF new
<1>a. TypeOK'
    <2>1. pending' = [v \in Writers |-> pending'[v]]
        BY <1>1 DEF ChainInv, TypeOK
    <2>2. \A r \in (log \cup AllPending)' :
              r = Row(r.seq, r.prev) /\ r.seq \in 1..(nextSeq' - 1)
        BY <1>3, <1>4, <1>5 DEF ChainInv, TypeOK
    <2> QED BY <2>1, <2>2 DEF ChainInv, TypeOK, AppendRow
<1>b. HolderIsLast'
    BY DEF ChainInv, TypeOK, HolderIsLast, AppendRow
<1>c. LastRows'
    <2>1. IsLast(new, pending'[w])
        BY <1>2, <1>3, <1>4, <1>6 DEF IsLast
    <2> QED BY <1>1, <1>2, <2>1 DEF ChainInv, LastRows, HasLast
<1>d. Resolves'
    <2>1. \A r \in log' : ResolvesIn(r, log')
        BY <1>1 DEF ChainInv, Resolves
    <2>2. ASSUME NEW v \in Writers, NEW r \in pending'[v], v # w
          PROVE  ResolvesIn(r, Visible(v)')
        BY <1>2, <1>7, <2>2 DEF ChainInv, Resolves
    <2>3. ASSUME NEW r \in pending[w]
          PROVE  ResolvesIn(r, Visible(w)')
        BY <1>7 DEF ChainInv, Resolves, ResolvesIn
    <2>4. ResolvesIn(new, Visible(w)')
        <3>1. CASE Visible(w) = {}
            BY <1>3, <3>1 DEF PreviousHash, ResolvesIn
        <3>2. CASE Visible(w) # {}
            <4>1. HasLast(Visible(w))
                BY <1>4, <1>6, LastOfUnion DEF Visible, ChainInv, LastRows
            <4>2. \E q \in Visible(w) : q.hash = new.prev /\ q.seq < new.seq
                BY <1>3, <1>4, <1>6, <3>2, <4>1, PreviousHashIsLast
            <4> QED BY <4>2, <1>7 DEF ResolvesIn
        <3> QED BY <3>1, <3>2
    <2> QED BY <1>2, <2>1, <2>2, <2>3, <2>4 DEF Resolves
<1>e. Intact'
    <2> SUFFICES ASSUME ~overlapped'
                 PROVE  /\ \A v, u \in Writers :
                              v = u \/ pending'[v] = {} \/ pending'[u] = {}
                        /\ Linked(log')
                        /\ \A v \in Writers : Linked(Visible(v)')
                        /\ \A v \in Writers : \A r \in log', q \in pending'[v] :
                              r.seq < q.seq
        BY DEF Intact
    <2>1. ~overlapped /\ \A v \in Writers \ {w} : pending[v] = {}
        BY DEF AppendRow
    <2>2. \A v, u \in Writers : v = u \/ pending'[v] = {} \/ pending'[u] = {}
        BY <1>2, <2>1
    <2>3. Linked(log')
        BY <1>1, <2>1 DEF ChainInv, Intact
    <2>4. Linked(Visible(w)')
        BY <1>3, <1>4, <1>6, <1>7, <2>1, LinkedWithNext DEF ChainInv, Intact
    <2>5. \A v \in Writers : Linked(Visible(v)')
        BY <1>7, <2>1, <2>4 DEF ChainInv, Intact
    <2>6. \A v \in Writers : \A r \in log', q \in pending'[v] : r.seq < q.seq
        BY <1>1, <1>2, <1>3, <1>4, <2>1 DEF ChainInv, Intact
    <2> QED BY <2>2, <2>3, <2>5, <2>6
<1>f. OneNumberEach'
    BY <1>3, <1>4, <1>5 DEF ChainInv, OneNumberEach
<1> QED BY <1>a, <1>b, <1>c, <1>d, <1>e, <1>f DEF ChainInv

\* What both ends of a transaction come to: w has nothing pending any more, and
\* its rows have either joined the log or are gone.
LEMMA EndKeeps ==
    ASSUME ChainInv, NEW w \in Writers,
           log' = log \/ log' = Visible(w),
           pending' = [pending EXCEPT ![w] = {}],
           stage' = [stage EXCEPT ![w] = "ended"],
           lock' \in Writers \cup {Free},
           \A v \in Writers : v # w /\ lock = v => lock' = v,
           UNCHANGED <<reserved, nextSeq, overlapped>>
    PROVE  ChainInv'
<1> USE WritersAssumption
<1>1. /\ pending'[w] = {}
      /\ \A v \in Writers \ {w} : pending'[v] = pending[v]
    BY DEF ChainInv, TypeOK
<1>2. /\ (log \cup AllPending)' \subseteq log \cup AllPending
      /\ log \subseteq log'
    BY <1>1 DEF AllPending, Visible
<1>3. /\ Visible(w)' = log'
      /\ \A v \in Writers \ {w} : Visible(v)' = log' \cup pending[v]
    BY <1>1 DEF Visible
<1>4. nextSeq \in Nat /\ \A r \in log \cup AllPending : r.seq \in Nat
    BY DEF ChainInv, TypeOK
<1>5. \A v \in Writers : pending[v] \subseteq log \cup AllPending
    BY DEF AllPending
<1>a. TypeOK'
    <2>1. pending' = [v \in Writers |-> pending'[v]]
        BY DEF ChainInv, TypeOK
    <2>2. \A r \in (log \cup AllPending)' :
              r = Row(r.seq, r.prev) /\ r.seq \in 1..(nextSeq' - 1)
        BY <1>2 DEF ChainInv, TypeOK
    <2> QED BY <2>1, <2>2 DEF ChainInv, TypeOK
<1>b. HolderIsLast'
    <2> SUFFICES ASSUME NEW v \in Writers, stage'[v] = "locked"
                 PROVE  /\ lock' = v
                        /\ reserved'[v] = nextSeq' - 1 /\ reserved'[v] >= 1
                        /\ \A r \in (log \cup AllPending)' : r.seq < reserved'[v]
        BY DEF HolderIsLast
    <2>1. v # w /\ stage[v] = "locked"
        BY DEF ChainInv, TypeOK
    <2> QED BY <1>2, <2>1 DEF ChainInv, HolderIsLast
<1>c. LastRows'
    <2>1. HasLast(log')
        <3>1. HasLast(Visible(w))
            BY <1>4, <1>5, LastOfUnion DEF ChainInv, LastRows, Visible
        <3> QED BY <3>1 DEF ChainInv, LastRows
    <2>2. \A v \in Writers : HasLast(pending'[v])
        BY <1>1 DEF ChainInv, LastRows, HasLast
    <2> QED BY <2>1, <2>2 DEF LastRows
<1>d. Resolves'
    <2>1. \A r \in log' : ResolvesIn(r, log')
        BY <1>2 DEF ChainInv, Resolves, Visible, ResolvesIn
    <2>2. ASSUME NEW v \in Writers, NEW r \in pending'[v]
          PROVE  ResolvesIn(r, Visible(v)')
        <3>1. v # w /\ r \in pending[v] /\ Visible(v) \subseteq Visible(v)'
            BY <1>1, <1>2, <1>3 DEF Visible
        <3> QED BY <3>1 DEF ChainInv, Resolves, ResolvesIn
    <2> QED BY <2>1, <2>2 DEF Resolves
<1>e. Intact'
    <2> SUFFICES ASSUME ~overlapped
                 PROVE  /\ \A v, u \in Writers :
                              v = u \/ pending'[v] = {} \/ pending'[u] = {}
                        /\ Linked(log')
                        /\ \A v \in Writers : Linked(Visible(v)')
                        /\ \A v \in Writers : \A r \in log', q \in pending'[v] :
                              r.seq < q.seq
        BY DEF Intact
    <2>1. \A v, u \in Writers : v = u \/ pending[v] = {} \/ pending[u] = {}
        BY DEF ChainInv, Intact
    <2>2. Linked(log')
        BY DEF ChainInv, Intact
    <2>3. \A v \in Writers \ {w} : pending[v] = {} \/ log' = log
        BY <2>1 DEF Visible
    <2>4. \A v \in Writers : Linked(Visible(v)')
        <3> SUFFICES ASSUME NEW v \in Writers PROVE Linked(Visible(v)')
            OBVIOUS
        <3>1. Visible(v)' = log' \/ Visible(v)' = Visible(v)
            BY <1>3, <2>3 DEF Visible
        <3> QED BY <2>2, <3>1 DEF ChainInv, Intact
    <2>5. \A v \in Writers : \A r \in log', q \in pending'[v] : r.seq < q.seq
        BY <1>1, <2>3 DEF ChainInv, Intact
    <2> QED BY <1>1, <2>1, <2>2, <2>4, <2>5
<1>f. OneNumberEach'
    BY <1>2 DEF ChainInv, OneNumberEach
<1> QED BY <1>a, <1>b, <1>c, <1>d, <1>e, <1>f DEF ChainInv

\* Every step keeps the invariant.
LEMMA ChainInvStep == ChainInv /\ [Next]_vars => ChainInv'
<1> SUFFICES ASSUME ChainInv, [Next]_vars PROVE ChainInv'
    OBVIOUS
<1>1. ASSUME NEW w \in Writers, Reserve(w) PROVE ChainInv'
    BY <1>1, ReserveKeeps
<1>2. ASSUME NEW w \in Writers, AppendRow(w) PROVE ChainInv'
    BY <1>2, AppendRowKeeps
<1>3. ASSUME NEW w \in Writers, Commit(w) PROVE ChainInv'
    <2>1. lock \in Writers \cup {Free}
        BY DEF ChainInv, TypeOK
    <2> QED BY <1>3, <2>1, EndKeeps DEF Commit, Visible
<1>4. ASSUME NEW w \in Writers, Rollback(w) PROVE ChainInv'
    <2>1. lock \in Writers \cup {Free}
        BY DEF ChainInv, TypeOK
    <2> QED BY <1>4, <2>1, EndKeeps DEF Rollback
<1>5. CASE UNCHANGED vars
    BY <1>5 DEF vars, ChainInv, TypeOK, HolderIsLast, LastRows, HasLast, Resolves,
               ResolvesIn, Intact, Linked, LinksBack, Visible, AllPending, OneNumberEach
<1> QED BY <1>1, <1>2, <1>3, <1>4, <1>5 DEF Next

\* ChainInv holds of every reachable state (security/audit.py, log).
THEOREM ChainInvariant == Spec => []ChainInv
<1> QED BY ChainInvInit, ChainInvStep, PTL DEF Spec

-----------------------------------------------------------------------------
(***************************************************************************)
(* What it says.                                                           *)
(***************************************************************************)

\* Every row of the log is as log wrote it, with a number the sequence gave out.
THEOREM RowsTyped == Spec => []TypeOK
<1>1. ChainInv => TypeOK
    BY DEF ChainInv
<1> QED BY <1>1, ChainInvariant, PTL

\* No committed row links to a row that was rolled back, however many
\* transactions overlap (_previous_hash).
THEOREM LinksResolve == Spec => []EveryLinkResolves
<1>1. ChainInv => EveryLinkResolves
    BY DEF ChainInv, Resolves, EveryLinkResolves
<1> QED BY <1>1, ChainInvariant, PTL

\* Every committed row links to the committed row before it as long as no two
\* transactions held uncommitted rows at once: that overlap is the only way to
\* break an untouched chain.
THEOREM OverlapIsTheOnlyBreak == Spec => []IntactUnlessOverlapped
<1>1. ChainInv => IntactUnlessOverlapped
    BY DEF ChainInv, Intact, IntactUnlessOverlapped
<1> QED BY <1>1, ChainInvariant, PTL

-----------------------------------------------------------------------------
(***************************************************************************)
(* A table of rows in the order of their numbers.                          *)
(***************************************************************************)

\* Rows of a table whose key is the number.
Table(S) ==
    /\ IsFiniteSet(S)
    /\ \A r \in S : r.seq \in Nat \ {0}
    /\ \A q, r \in S : q.seq = r.seq => q = r

\* The rows up to some row, and those before it.
UpTo(r, S) == {q \in S : q.seq <= r.seq}
Below(r, S) == {q \in S : q.seq < r.seq}

\* The place of a row in the order of numbers.
LEMMA RankIs ==
    ASSUME NEW S, Table(S)
    PROVE  /\ Cardinality(S) \in Nat
           /\ \A r \in S : Cardinality(UpTo(r, S)) \in 1..Cardinality(S)
           /\ \A q, r \in S : q.seq < r.seq => Cardinality(UpTo(q, S)) < Cardinality(UpTo(r, S))
           /\ \A i \in 1..Cardinality(S) : \E r \in S : Cardinality(UpTo(r, S)) = i
<1> DEFINE n == Cardinality(S)
           rank == [r \in S |-> Cardinality(UpTo(r, S))]
<1>1. IsFiniteSet(S) /\ n \in Nat
    BY FS_CardinalityType DEF Table
<1>2. ASSUME NEW r \in S
      PROVE  /\ IsFiniteSet(UpTo(r, S)) /\ Cardinality(UpTo(r, S)) \in Nat
             /\ Cardinality(UpTo(r, S)) <= n /\ Cardinality(UpTo(r, S)) # 0
    <2>1. UpTo(r, S) \in SUBSET S /\ r \in UpTo(r, S)
        BY DEF UpTo, Table
    <2>2. IsFiniteSet(UpTo(r, S)) /\ Cardinality(UpTo(r, S)) <= n
        BY <1>1, <2>1, FS_Subset
    <2> QED BY <2>1, <2>2, FS_CardinalityType, FS_EmptySet
<1>3. ASSUME NEW q \in S, NEW r \in S, q.seq < r.seq
      PROVE  Cardinality(UpTo(q, S)) < Cardinality(UpTo(r, S))
    <2>1. UpTo(q, S) \in SUBSET UpTo(r, S) /\ r \in UpTo(r, S) /\ r \notin UpTo(q, S)
        BY <1>3 DEF UpTo, Table
    <2>2. /\ Cardinality(UpTo(q, S)) <= Cardinality(UpTo(r, S))
          /\ Cardinality(UpTo(r, S)) # Cardinality(UpTo(q, S))
        BY <1>2, <2>1, FS_Subset
    <2> QED BY <1>2, <2>2
<1>4. rank \in [S -> 1..n]
    BY <1>1, <1>2
<1>5. \A q, r \in S : rank[q] = rank[r] => q = r
    <2> SUFFICES ASSUME NEW q \in S, NEW r \in S, q # r
                 PROVE  Cardinality(UpTo(q, S)) # Cardinality(UpTo(r, S))
        OBVIOUS
    <2>1. q.seq < r.seq \/ r.seq < q.seq
        BY DEF Table
    <2> QED BY <1>2, <1>3, <2>1
<1>6. rank \in Injection(S, 1..n)
    BY <1>4, <1>5 DEF Injection, IsInjective
<1>7. IsFiniteSet(1..n) /\ Cardinality(1..n) = n
    BY <1>1, FS_Interval
<1>8. rank \in Surjection(S, 1..n)
    <2> HIDE DEF rank
    <2> QED BY <1>6, <1>7, FS_Injection
<1>9. \A i \in 1..n : \E r \in S : rank[r] = i
    <2> HIDE DEF rank
    <2> QED BY <1>8 DEF Surjection
<1>10. \A i \in 1..n : \E r \in S : Cardinality(UpTo(r, S)) = i
    BY <1>9
<1> QED BY <1>1, <1>2, <1>3, <1>10

\* A table in order: every row once, and each before those with higher numbers.
LEMMA InOrderIs ==
    ASSUME NEW S, Table(S)
    PROVE  LET e == InOrder(S)
           IN  /\ e \in Seq(S) /\ Len(e) = Cardinality(S) /\ Len(e) \in Nat
               /\ \A i \in 1..Len(e) : e[i] \in S /\ Cardinality(UpTo(e[i], S)) = i
               /\ \A r \in S : \E i \in 1..Len(e) : e[i] = r
               /\ \A i, j \in 1..Len(e) : i < j => e[i].seq < e[j].seq
<1> DEFINE n == Cardinality(S)
           V(i) == CHOOSE r \in S : Cardinality(UpTo(r, S)) = i
           e == InOrder(S)
<1>1. n \in Nat
    BY RankIs
<1>2. \A i \in 1..n : V(i) \in S /\ Cardinality(UpTo(V(i), S)) = i
    BY RankIs
<1>3. e = [i \in 1..n |-> V(i)]
    BY DEF InOrder, UpTo
<1> HIDE DEF V
<1>4. e \in Seq(S) /\ Len(e) = n /\ \A i \in 1..n : e[i] = V(i)
    BY <1>1, <1>2, <1>3
<1> HIDE DEF e
<1>5. \A i \in 1..n : e[i] \in S /\ Cardinality(UpTo(e[i], S)) = i
    BY <1>2, <1>4
<1>6. ASSUME NEW i \in 1..n, NEW j \in 1..n, i < j PROVE e[i].seq < e[j].seq
    <2>1. e[i] # e[j]
        BY <1>5, <1>6
    <2>2. e[i].seq < e[j].seq \/ e[j].seq < e[i].seq
        BY <1>5, <2>1 DEF Table
    <2>3. CASE e[j].seq < e[i].seq
        <3>1. Cardinality(UpTo(e[j], S)) < Cardinality(UpTo(e[i], S))
            BY <1>5, <2>3, RankIs
        <3> QED BY <1>5, <1>6, <3>1
    <2> QED BY <2>2, <2>3
<1>7. ASSUME NEW r \in S PROVE \E i \in 1..n : e[i] = r
    <2>1. PICK i \in 1..n : Cardinality(UpTo(r, S)) = i
        BY RankIs
    <2>2. e[i] \in S /\ Cardinality(UpTo(e[i], S)) = i
        BY <1>5
    <2>3. CASE e[i].seq < r.seq
        BY <2>1, <2>2, <2>3, RankIs
    <2>4. CASE r.seq < e[i].seq
        BY <2>1, <2>2, <2>4, RankIs
    <2>5. e[i].seq = r.seq \/ e[i].seq < r.seq \/ r.seq < e[i].seq
        BY <2>2 DEF Table
    <2> QED BY <2>2, <2>3, <2>4, <2>5 DEF Table
<1> QED BY <1>1, <1>4, <1>5, <1>6, <1>7 DEF e

\* A table that is not empty has a last row.
LEMMA TableHasLast ==
    ASSUME NEW S, Table(S), S # {}
    PROVE  \E r \in S : IsLast(r, S)
<1> DEFINE e == InOrder(S)
           n == Len(e)
<1>1. /\ n \in Nat
      /\ \A i \in 1..n : e[i] \in S
      /\ \A r \in S : \E i \in 1..n : e[i] = r
      /\ \A i, j \in 1..n : i < j => e[i].seq < e[j].seq
    BY InOrderIs
<1> HIDE DEF e, n
<1>2. n \in 1..n
    BY <1>1
<1>3. \A i \in 1..n : i = n \/ i < n
    BY <1>1
<1>4. \A r \in S : r.seq \in Nat
    BY DEF Table
<1>5. \A r \in S : r.seq <= e[n].seq
    BY <1>1, <1>2, <1>3, <1>4
<1> QED BY <1>1, <1>2, <1>5 DEF IsLast

\* So is each part of a table.
LEMMA PartIsTable ==
    ASSUME NEW S, Table(S), NEW T \in SUBSET S
    PROVE  Table(T)
BY FS_Subset DEF Table

\* The digest at the end of a set of rows is that of its last row.
LEMMA LastIs ==
    ASSUME NEW S, Table(S), NEW r, IsLast(r, S)
    PROVE  PreviousHash(S) = r.hash
<1>1. \A q \in S : IsLast(q, S) => q = r
    BY DEF IsLast, Table
<1>2. (CHOOSE q \in S : IsLast(q, S)) = r
    BY <1>1 DEF IsLast
<1> QED BY <1>2 DEF PreviousHash, IsLast

-----------------------------------------------------------------------------
(***************************************************************************)
(* What verify_chain says of a table.                                      *)
(***************************************************************************)

\* A row that does not follow the row before it in the table, or was changed.
Wrong(r, S) == Broken(r, PreviousHash(Below(r, S)))

\* The rows verify_chain may look at.
Later(S, start) == {r \in S : r.seq > start}

\* What verifying says of rows of which these are wrong: 0, or the number of the first.
Says(v, W) ==
    IF W = {} THEN v = 0 ELSE \E r \in W : v = r.seq /\ \A q \in W : v <= q.seq

\* How many rows verify_chain looks at.
Reach(all, limit) == IF limit > 0 /\ limit < Len(all) THEN limit ELSE Len(all)

\* What the loop expects of a row is the digest of the row before it in the table,
\* also where that lies before the window.
LEMMA ExpectedIs ==
    ASSUME NEW S, Table(S), NEW start \in Nat, NEW i \in 1..Len(InOrder(Later(S, start)))
    PROVE  LET e == InOrder(Later(S, start))
           IN  PreviousHash(Below(e[i], S)) =
                   IF i > 1 THEN e[i - 1].hash
                   ELSE IF start > 0 THEN ExpectedBefore(S, start) ELSE Genesis
<1> DEFINE T == Later(S, start)
           e == InOrder(T)
           n == Len(e)
           B == Below(e[i], S)
<1>1. Table(T) /\ Table(B)
    BY PartIsTable DEF Later, Below
<1>2. /\ n \in Nat
      /\ \A j \in 1..n : e[j] \in T
      /\ \A r \in T : \E j \in 1..n : e[j] = r
      /\ \A j, k \in 1..n : j < k => e[j].seq < e[k].seq
    BY <1>1, InOrderIs
<1>3. \A r \in S : r.seq \in Nat /\ r.seq > 0 /\ (r \in T <=> r.seq > start)
    BY DEF Table, Later
<1>4. \A r \in T : r \in S
    BY DEF Later
<1>5. \A r : r \in B <=> r \in S /\ r.seq < e[i].seq
    BY DEF Below
<1> HIDE DEF T, e, n, B
<1>6. i \in 1..n /\ e[i] \in S /\ e[i].seq > start
    BY <1>2, <1>3, <1>4 DEF e, n, T
<1>7. CASE i > 1
    <2>1. i - 1 \in 1..n /\ i - 1 < i
        BY <1>2, <1>6, <1>7
    <2>2. e[i - 1] \in B /\ e[i - 1].seq > start
        BY <1>2, <1>3, <1>4, <1>5, <1>6, <2>1
    <2>3. ASSUME NEW q \in B PROVE q.seq <= e[i - 1].seq
        <3>1. q \in S /\ q.seq < e[i].seq
            BY <1>5
        <3>2. CASE q.seq > start
            <4>1. PICK k \in 1..n : e[k] = q
                BY <1>2, <1>3, <3>1, <3>2
            <4>2. k # i /\ ~(i < k)
                <5>1. i < k => e[i].seq < e[k].seq
                    BY <1>2, <1>6
                <5> QED BY <1>3, <1>6, <3>1, <4>1, <5>1
            <4>3. k = i - 1 \/ k < i - 1
                BY <1>6, <4>2
            <4>4. k < i - 1 => e[k].seq < e[i - 1].seq
                BY <1>2, <2>1
            <4>5. e[k].seq \in Nat /\ e[i - 1].seq \in Nat
                BY <1>2, <1>3, <1>4, <2>1
            <4> QED BY <4>1, <4>3, <4>4, <4>5
        <3>3. CASE ~(q.seq > start)
            <4>1. e[i - 1].seq \in Nat /\ q.seq \in Nat
                BY <1>3, <1>5, <2>2
            <4> QED BY <2>2, <3>3, <4>1
        <3> QED BY <3>2, <3>3
    <2>4. IsLast(e[i - 1], B)
        BY <2>2, <2>3 DEF IsLast
    <2>5. PreviousHash(B) = e[i - 1].hash
        BY <1>1, <2>4, LastIs
    <2> QED BY <1>7, <2>5 DEF B, e, T
<1>8. CASE ~(i > 1)
    <2>1. i = 1
        BY <1>6, <1>8
    <2>2. ASSUME NEW q \in B PROVE q.seq <= start
        <3>1. q \in S /\ q.seq < e[i].seq
            BY <1>5
        <3>2. CASE q.seq > start
            <4>1. PICK k \in 1..n : e[k] = q
                BY <1>2, <1>3, <3>1, <3>2
            <4>2. k = i \/ i < k
                BY <1>6, <2>1
            <4>3. i < k => e[i].seq < e[k].seq
                BY <1>2, <1>6
            <4> QED BY <1>3, <1>6, <3>1, <4>1, <4>2, <4>3
        <3> QED BY <1>3, <3>1, <3>2
    <2>3. CASE start > 0
        <3>1. B = {r \in S : r.seq <= start}
            <4>1. ASSUME NEW r \in S, r.seq <= start PROVE r.seq < e[i].seq
                BY <1>3, <1>6, <4>1
            <4> QED BY <1>5, <2>2, <4>1
        <3> QED BY <1>8, <2>3, <3>1 DEF ExpectedBefore, B, e, T
    <2>4. CASE ~(start > 0)
        <3>1. B = {}
            BY <1>3, <1>5, <2>2, <2>4
        <3>2. PreviousHash(B) = Genesis
            BY <3>1 DEF PreviousHash
        <3> QED BY <1>8, <2>4, <3>2 DEF B, e, T
    <2> QED BY <2>3, <2>4
<1> QED BY <1>7, <1>8

\* verify_chain names the first wrong row among those it looks at.
LEMMA FirstInvalidIs ==
    ASSUME NEW S, Table(S), NEW start \in Nat, NEW limit \in Nat
    PROVE  LET all == InOrder(Later(S, start))
           IN  Says(FirstInvalid(S, start, limit),
                    {r \in S : Wrong(r, S) /\ \E i \in 1..Reach(all, limit) : all[i] = r})
<1> DEFINE all == InOrder(Later(S, start))
           n == Reach(all, limit)
           events == Window(S, start, limit)
           expected(i) == IF i > 1 THEN events[i - 1].hash
                          ELSE IF start > 0 THEN ExpectedBefore(S, start) ELSE Genesis
           bad == {i \in DOMAIN events : Broken(events[i], expected(i))}
           W == {r \in S : Wrong(r, S) /\ \E i \in 1..n : all[i] = r}
           v == FirstInvalid(S, start, limit)
<1>1. Table(Later(S, start)) /\ Later(S, start) \subseteq S
    BY PartIsTable DEF Later
<1>2. /\ all \in Seq(Later(S, start)) /\ Len(all) \in Nat
      /\ \A i \in 1..Len(all) : all[i] \in Later(S, start)
      /\ \A i, j \in 1..Len(all) : i < j => all[i].seq < all[j].seq
    BY <1>1, InOrderIs
<1>3. n \in Nat /\ n <= Len(all)
    BY <1>2 DEF Reach
<1>4. events = SubSeq(all, 1, n)
    BY DEF Window, Reach, Later
<1>5. \A i \in 1..Len(all) : PreviousHash(Below(all[i], S)) =
                   IF i > 1 THEN all[i - 1].hash
                   ELSE IF start > 0 THEN ExpectedBefore(S, start) ELSE Genesis
    BY ExpectedIs
<1>6. v = IF bad = {} THEN 0 ELSE events[CHOOSE i \in bad : \A j \in bad : i <= j].seq
    BY DEF FirstInvalid
<1> HIDE DEF all, n, v
<1>7. Len(events) = n /\ DOMAIN events = 1..n /\ \A i \in 1..n : events[i] = all[i]
    BY <1>2, <1>3, <1>4
<1> HIDE DEF events
<1>8. \A i \in 1..n : Broken(events[i], expected(i)) <=> Wrong(all[i], S)
    <2> SUFFICES ASSUME NEW i \in 1..n PROVE expected(i) = PreviousHash(Below(all[i], S))
        BY <1>7 DEF Wrong
    <2>1. i \in 1..Len(all) /\ (i > 1 => i - 1 \in 1..n)
        BY <1>2, <1>3
    <2> QED BY <1>5, <1>7, <2>1
<1>9. bad \subseteq 1..n /\ \A i \in 1..n : i \in bad <=> Wrong(all[i], S)
    BY <1>7, <1>8
<1> HIDE DEF bad
<1>10. \A i \in 1..n : i \in 1..Len(all) /\ all[i] \in S /\ all[i].seq \in Nat
    BY <1>1, <1>2, <1>3 DEF Table
<1>11. W = {all[i] : i \in bad}
    BY <1>9, <1>10
<1> HIDE DEF W
<1>12. bad = {} => Says(v, W)
    BY <1>6, <1>11 DEF Says
<1>13. ASSUME bad # {} PROVE Says(v, W)
    <2>1. \E i \in bad : \A j \in bad : i <= j
        <3>1. bad \in SUBSET Nat
            BY <1>3, <1>9
        <3> QED BY <1>13, <3>1, NatHasMin
    <2> DEFINE m == CHOOSE i \in bad : \A j \in bad : i <= j
    <2>2. m \in bad /\ \A j \in bad : m <= j
        BY <2>1
    <2>3. v = events[m].seq
        BY <1>6, <1>13
    <2> HIDE DEF m
    <2>4. m \in 1..n /\ v = all[m].seq
        BY <1>7, <1>9, <2>2, <2>3
    <2>5. ASSUME NEW j \in bad PROVE v <= all[j].seq
        <3>1. m = j \/ m < j
            BY <1>9, <2>2
        <3>2. m < j => all[m].seq < all[j].seq
            BY <1>2, <1>9, <1>10, <2>4
        <3>3. all[m].seq \in Nat /\ all[j].seq \in Nat
            BY <1>9, <1>10, <2>4
        <3> QED BY <2>4, <3>1, <3>2, <3>3
    <2>6. W # {} /\ all[m] \in W /\ v = all[m].seq /\ \A q \in W : v <= q.seq
        BY <1>11, <2>2, <2>4, <2>5
    <2> QED BY <2>6 DEF Says
<1>14. Says(v, W)
    BY <1>12, <1>13
<1> QED BY <1>14 DEF W, v, n, all

\* Without a limit all rows after start are looked at.
LEMMA WholeIs ==
    ASSUME NEW S, Table(S), NEW start \in Nat
    PROVE  Says(FirstInvalid(S, start, 0), {r \in S : Wrong(r, S) /\ r.seq > start})
<1> DEFINE all == InOrder(Later(S, start))
           W == {r \in S : Wrong(r, S) /\ \E i \in 1..Reach(all, 0) : all[i] = r}
<1>1. Table(Later(S, start))
    BY PartIsTable DEF Later
<1>2. /\ Len(all) \in Nat
      /\ \A i \in 1..Len(all) : all[i] \in Later(S, start)
      /\ \A r \in Later(S, start) : \E i \in 1..Len(all) : all[i] = r
    BY <1>1, InOrderIs
<1>3. Says(FirstInvalid(S, start, 0), W)
    BY FirstInvalidIs
<1>4. Reach(all, 0) = Len(all)
    BY DEF Reach
<1> HIDE DEF all
<1>5. \A r \in S : r.seq > start <=> \E i \in 1..Len(all) : all[i] = r
    BY <1>2 DEF Later
<1>6. W = {r \in S : Wrong(r, S) /\ r.seq > start}
    BY <1>4, <1>5
<1> QED BY <1>3, <1>6 DEF all

\* A limit of as many rows as there are up to some row ends at that row.
LEMMA HeadIs ==
    ASSUME NEW S, Table(S), NEW last \in S
    PROVE  Says(FirstInvalid(S, 0, Cardinality(UpTo(last, S))),
                {r \in S : Wrong(r, S) /\ r.seq <= last.seq})
<1> DEFINE all == InOrder(Later(S, 0))
           size == Cardinality(UpTo(last, S))
           W == {r \in S : Wrong(r, S) /\ \E i \in 1..Reach(all, size) : all[i] = r}
<1>1. Later(S, 0) = S
    BY DEF Later, Table
<1>2. /\ Len(all) \in Nat /\ Len(all) = Cardinality(S)
      /\ \A i \in 1..Len(all) : all[i] \in S /\ Cardinality(UpTo(all[i], S)) = i
      /\ \A r \in S : \E i \in 1..Len(all) : all[i] = r
      /\ \A i, j \in 1..Len(all) : i < j => all[i].seq < all[j].seq
    BY <1>1, InOrderIs
<1>3. size \in 1..Len(all)
    BY <1>2, RankIs
<1>4. Says(FirstInvalid(S, 0, size), W)
    BY <1>2, <1>3, FirstInvalidIs
<1> HIDE DEF all
<1>5. all[size] = last
    BY <1>2
<1> HIDE DEF size
<1>6. Reach(all, size) = size
    BY <1>2, <1>3 DEF Reach
<1>7. ASSUME NEW r \in S PROVE r.seq <= last.seq <=> \E i \in 1..size : all[i] = r
    <2>1. PICK k \in 1..Len(all) : all[k] = r
        BY <1>2
    <2>2. r.seq \in Nat /\ last.seq \in Nat
        BY DEF Table
    <2>3. k <= size => r.seq <= last.seq
        <3>1. k = size => r.seq = last.seq
            BY <1>5, <2>1
        <3>2. k < size => r.seq < last.seq
            BY <1>2, <1>3, <1>5, <2>1
        <3> QED BY <1>3, <2>2, <3>1, <3>2
    <2>4. ~(k <= size) => last.seq < r.seq
        BY <1>2, <1>3, <1>5, <2>1
    <2>5. \A i \in 1..size : all[i] = r => i = k
        <3>1. ASSUME NEW i \in 1..size, all[i] = r PROVE i = k
            <4>1. i \in 1..Len(all)
                BY <1>2, <1>3
            <4>2. Cardinality(UpTo(r, S)) = i /\ Cardinality(UpTo(r, S)) = k
                BY <1>2, <2>1, <3>1, <4>1
            <4> QED BY <4>2
        <3> QED BY <3>1
    <2>6. k <= size => k \in 1..size
        BY <1>3
    <2>7. (\E i \in 1..size : all[i] = r) => k <= size
        BY <1>3, <2>5
    <2> QED BY <2>1, <2>2, <2>3, <2>4, <2>6, <2>7
<1>8. W = {r \in S : Wrong(r, S) /\ r.seq <= last.seq}
    BY <1>6, <1>7
<1> QED BY <1>4, <1>8 DEF all, size

\* What the log is: a table of rows as log wrote them.
LogIsTable == Table(log) /\ \A r \in log : r = Row(r.seq, r.prev)

\* The rows of a log are such a table: finitely many, under numbers of their own.
LEMMA LogIs == ChainInv => LogIsTable
<1> SUFFICES ASSUME ChainInv PROVE LogIsTable
    OBVIOUS
<1>1. /\ \A r \in log : r = Row(r.seq, r.prev) /\ r.seq \in 1..(nextSeq - 1)
      /\ nextSeq \in Nat
      /\ \A q, r \in log : q.seq = r.seq => q = r
    BY DEF ChainInv, TypeOK, OneNumberEach
<1> DEFINE n == nextSeq - 1
           number == [r \in log |-> r.seq]
<1>2. number \in [log -> 1..n] /\ \A q, r \in log : number[q] = number[r] => q = r
    BY <1>1
<1>3. number \in Injection(log, 1..n)
    BY <1>2 DEF Injection, IsInjective
<1>4. IsFiniteSet(1..n)
    BY <1>1, FS_Interval
<1>5. IsFiniteSet(log)
    <2> HIDE DEF number
    <2> QED BY <1>3, <1>4, FS_Injection
<1>6. \A r \in log : r.seq \in Nat \ {0}
    BY <1>1
<1> QED BY <1>1, <1>5, <1>6 DEF LogIsTable, Table

\* The digests the properties speak of.
LEMMA DigestIs ==
    ASSUME NEW r, r = Row(r.seq, r.prev)
    PROVE  r.body = "written" /\ r.hash = Hash(r.seq, r.body, r.prev)
BY DEF Row

\* verify_chain finds the first row that does not link back.
LEMMA FindsFirstBreak == LogIsTable => VerifyFindsFirstBreak
<1> SUFFICES ASSUME LogIsTable PROVE VerifyFindsFirstBreak
    OBVIOUS
<1> DEFINE U == {r \in log : ~LinksBack(r, log)}
           v == FirstInvalidOfAll(log)
<1>1. Table(log) /\ \A r \in log : r = Row(r.seq, r.prev)
    BY DEF LogIsTable
<1>2. Says(v, {r \in log : Wrong(r, log) /\ r.seq > 0})
    BY <1>1, WholeIs DEF FirstInvalidOfAll
<1>3. \A r \in log : Wrong(r, log) <=> ~LinksBack(r, log)
    BY <1>1, DigestIs DEF Wrong, Broken, LinksBack, Below
<1>4. \A r \in log : r.seq > 0
    BY <1>1 DEF Table
<1>5. {r \in log : Wrong(r, log) /\ r.seq > 0} = U
    BY <1>3, <1>4
<1>6. Says(v, U)
    BY <1>2, <1>5
<1> HIDE DEF U, v
<1>7. U = {} => v = 0
    BY <1>6 DEF Says
<1>8. U # {} => (\E r \in U : r.seq = v) /\ \A r \in U : v <= r.seq
    BY <1>6 DEF Says
<1> QED BY <1>7, <1>8 DEF VerifyFindsFirstBreak, U, v

\* It says in two pieces what it says in one.
LEMMA SaysInPieces == LogIsTable => VerifyInPieces
<1> SUFFICES ASSUME LogIsTable, NEW cut \in log
             PROVE  FirstInvalidOfAll(log) =
                        IF FirstInvalid(log, 0, Cardinality(UpTo(cut, log))) # 0
                        THEN FirstInvalid(log, 0, Cardinality(UpTo(cut, log)))
                        ELSE FirstInvalid(log, cut.seq, 0)
    BY DEF VerifyInPieces, UpTo
<1> DEFINE whole == FirstInvalidOfAll(log)
           head == FirstInvalid(log, 0, Cardinality(UpTo(cut, log)))
           tail == FirstInvalid(log, cut.seq, 0)
           A == {r \in log : Wrong(r, log) /\ r.seq > 0}
           H == {r \in log : Wrong(r, log) /\ r.seq <= cut.seq}
           T == {r \in log : Wrong(r, log) /\ r.seq > cut.seq}
<1>1. Table(log) /\ cut.seq \in Nat
    BY DEF LogIsTable, Table
<1>2. Says(whole, A)
    BY <1>1, WholeIs DEF FirstInvalidOfAll
<1>3. Says(head, H)
    BY <1>1, HeadIs
<1>4. Says(tail, T)
    BY <1>1, WholeIs
<1>5. \A r \in log : r.seq \in Nat /\ r.seq > 0
    BY <1>1 DEF Table
<1>6. \A r \in A : r.seq \in Nat /\ r.seq # 0
    BY <1>5
<1>7. A = H \cup T /\ \A q \in H, r \in T : q.seq < r.seq
    BY <1>1, <1>5
<1> HIDE DEF whole, head, tail, A, H, T
<1>8. CASE H = {}
    <2>1. A = T /\ head = 0
        BY <1>3, <1>7, <1>8 DEF Says
    <2>2. CASE T = {}
        BY <1>2, <1>4, <2>1, <2>2 DEF Says, whole, head, tail
    <2>3. CASE T # {}
        <3>1. PICK q \in T : whole = q.seq /\ \A x \in T : whole <= x.seq
            BY <1>2, <2>1, <2>3 DEF Says
        <3>2. PICK r \in T : tail = r.seq /\ \A x \in T : tail <= x.seq
            BY <1>4, <2>3 DEF Says
        <3>3. whole = tail
            BY <1>6, <2>1, <3>1, <3>2
        <3> QED BY <2>1, <3>3 DEF whole, head, tail
    <2> QED BY <2>2, <2>3
<1>9. CASE H # {}
    <2>1. PICK r \in H : head = r.seq /\ \A x \in H : head <= x.seq
        BY <1>3, <1>9 DEF Says
    <2>2. r \in A /\ A # {}
        BY <1>7, <2>1
    <2>3. PICK q \in A : whole = q.seq /\ \A x \in A : whole <= x.seq
        BY <1>2, <2>2 DEF Says
    <2>4. whole <= head
        BY <2>1, <2>2, <2>3
    <2>5. q \in H
        BY <1>6, <1>7, <2>1, <2>2, <2>3, <2>4
    <2>6. head <= whole
        BY <2>1, <2>3, <2>5
    <2>7. whole = head /\ head # 0
        BY <1>6, <2>1, <2>2, <2>3, <2>4, <2>6
    <2> QED BY <2>7 DEF whole, head, tail
<1> QED BY <1>8, <1>9

-----------------------------------------------------------------------------
(***************************************************************************)
(* What verify_chain says of a damaged log.                                *)
(***************************************************************************)

\* In a log that verifies no row is wrong.
LEMMA NothingWrong ==
    ASSUME Table(log), FirstInvalidOfAll(log) = 0
    PROVE  \A q \in log : ~Wrong(q, log)
<1> DEFINE A == {q \in log : Wrong(q, log) /\ q.seq > 0}
<1>1. Says(0, A)
    BY WholeIs DEF FirstInvalidOfAll
<1>2. \A q \in log : q.seq \in Nat \ {0}
    BY DEF Table
<1>3. \A q \in A : q.seq # 0
    BY <1>2
<1>4. \A q \in log : q.seq > 0
    BY <1>2
<1> HIDE DEF A
<1>5. A = {}
    BY <1>1, <1>3 DEF Says
<1> QED BY <1>4, <1>5 DEF A

\* An altered row is the first that is wrong.
LEMMA FindsAltered ==
    ASSUME LogIsTable, FirstInvalidOfAll(log) = 0, NEW r \in log
    PROVE  FirstInvalidOfAll((log \ {r}) \cup {[r EXCEPT !.body = "altered"]}) = r.seq
<1> DEFINE x == [r EXCEPT !.body = "altered"]
           S == (log \ {r}) \cup {x}
           W == {q \in S : Wrong(q, S) /\ q.seq > 0}
<1>1. Table(log) /\ \A q \in log : q = Row(q.seq, q.prev)
    BY DEF LogIsTable
<1>2. /\ x.seq = r.seq /\ x.prev = r.prev /\ x.hash = r.hash
      /\ x.body = "altered"
    <2>1. r = Row(r.seq, r.prev)
        BY <1>1
    <2> QED BY <2>1 DEF Row
<1>3. r.body = "written" /\ r.hash = Hash(r.seq, r.body, r.prev) /\ r.seq \in Nat \ {0}
    BY <1>1, DigestIs DEF Table
<1> HIDE DEF x
<1>4. Table(S)
    <2>1. IsFiniteSet(log \ {r})
        BY <1>1, FS_RemoveElement DEF Table
    <2>2. IsFiniteSet(S)
        BY <2>1, FS_AddElement
    <2>3. \A q \in S : q = x \/ (q \in log /\ q # r)
        OBVIOUS
    <2>4. \A q \in S : q.seq \in Nat \ {0}
        BY <1>1, <1>2, <1>3, <2>3 DEF Table
    <2>5. \A p, q \in S : p.seq = q.seq => p = q
        BY <1>1, <1>2, <2>3 DEF Table
    <2> QED BY <2>2, <2>4, <2>5 DEF Table
<1>5. \A q \in log : ~Wrong(q, log)
    BY <1>1, NothingWrong
<1>6. Wrong(x, S)
    BY <1>2, <1>3 DEF Wrong, Broken, Hash
<1>7. ASSUME NEW y \in log, y # r PROVE ~Wrong(y, S)
    <2> DEFINE B == Below(y, log)
               C == Below(y, S)
    <2>1. Table(B) /\ Table(C)
        BY <1>1, <1>4, PartIsTable DEF Below
    <2>2. \A q : q \in C <=> (q \in B /\ q # r) \/ (q = x /\ r.seq < y.seq)
        BY <1>2 DEF Below
    <2>3. r \in B <=> r.seq < y.seq
        BY DEF Below
    <2> HIDE DEF B, C
    <2>4. PreviousHash(C) = PreviousHash(B)
        <3>1. CASE r \notin B
            <4>1. C = B
                BY <2>2, <2>3, <3>1
            <4> QED BY <4>1
        <3>2. CASE r \in B
            <4>1. PICK l \in B : IsLast(l, B)
                BY <2>1, <3>2, TableHasLast
            <4>2. PreviousHash(B) = l.hash
                BY <2>1, <4>1, LastIs
            <4>3. CASE l = r
                <5>1. IsLast(x, C)
                    BY <1>2, <2>2, <2>3, <3>2, <4>1, <4>3 DEF IsLast, Table
                <5> QED BY <1>2, <2>1, <4>2, <4>3, <5>1, LastIs
            <4>4. CASE l # r
                <5>1. IsLast(l, C)
                    BY <1>2, <2>2, <2>3, <3>2, <4>1, <4>4 DEF IsLast
                <5> QED BY <2>1, <4>2, <5>1, LastIs
            <4> QED BY <4>3, <4>4
        <3> QED BY <3>1, <3>2
    <2> QED BY <1>5, <1>7, <2>4 DEF Wrong, B, C
<1>8. W = {x}
    BY <1>2, <1>3, <1>6, <1>7
<1>9. Says(FirstInvalidOfAll(S), W)
    BY <1>4, WholeIs DEF FirstInvalidOfAll
<1> DEFINE v == FirstInvalidOfAll(S)
<1> HIDE DEF S, W, v
<1>10. v = r.seq
    BY <1>2, <1>8, <1>9 DEF Says, v
<1> QED BY <1>10 DEF v, S, x

\* A removed row shows at the first row after it.
LEMMA FindsRemoved ==
    ASSUME LogIsTable, FirstInvalidOfAll(log) = 0, NEW r \in log,
           NEW b \in log, b.seq > r.seq
    PROVE  LET v == FirstInvalidOfAll(log \ {r})
           IN  /\ \E q \in log : q.seq > r.seq /\ v = q.seq
               /\ \A q \in log : q.seq > r.seq => v <= q.seq
<1> DEFINE S == log \ {r}
           v == FirstInvalidOfAll(S)
           W == {q \in S : Wrong(q, S) /\ q.seq > 0}
           After == {q \in log : q.seq > r.seq}
<1>1. Table(log) /\ \A q \in log : q = Row(q.seq, q.prev)
    BY DEF LogIsTable
<1>2. Table(S)
    BY <1>1, PartIsTable
<1>3. \A q \in log : q.seq \in Nat /\ q.seq > 0
    BY <1>1 DEF Table
<1>4. \A q \in log : ~Wrong(q, log)
    BY <1>1, NothingWrong
<1>5. Says(v, W)
    BY <1>2, WholeIs DEF FirstInvalidOfAll
<1>6. ASSUME NEW y \in S, Wrong(y, S) PROVE y.seq > r.seq
    <2> SUFFICES ASSUME ~(y.seq > r.seq) PROVE FALSE
        OBVIOUS
    <2>1. Below(y, S) = Below(y, log)
        BY <1>3 DEF Below
    <2> QED BY <1>4, <1>6, <2>1 DEF Wrong
<1>7. PICK n \in After : \A q \in After : n.seq <= q.seq
    <2> DEFINE N == {q.seq : q \in After}
    <2>1. N \in SUBSET Nat /\ N # {}
        BY <1>3
    <2>2. PICK m \in N : \A k \in N : m <= k
        BY <2>1, NatHasMin
    <2> QED BY <2>2
<1>8. Wrong(n, S)
    <2>1. n \in log /\ n # r /\ n.seq > r.seq /\ n \in S
        BY <1>3
    <2>2. ASSUME NEW q \in Below(n, log) PROVE q.seq <= r.seq
        BY <1>3, <1>7 DEF Below
    <2>3. IsLast(r, Below(n, log))
        BY <1>3, <2>1, <2>2 DEF IsLast, Below
    <2>4. Table(Below(n, log)) /\ Table(Below(n, S))
        BY <1>1, <1>2, PartIsTable DEF Below
    <2>5. n.prev = r.hash
        <3>1. PreviousHash(Below(n, log)) = r.hash
            BY <2>3, <2>4, LastIs
        <3> QED BY <1>4, <2>1, <3>1 DEF Wrong, Broken
    <2>6. r.hash = Hash(r.seq, "written", r.prev)
        BY <1>1, DigestIs
    <2>7. PreviousHash(Below(n, S)) # r.hash
        <3>1. CASE Below(n, S) = {}
            BY <2>6, <3>1 DEF PreviousHash, Genesis, Hash
        <3>2. CASE Below(n, S) # {}
            <4>1. PICK l : IsLast(l, Below(n, S))
                BY <2>4, <3>2, TableHasLast
            <4>2. PreviousHash(Below(n, S)) = l.hash
                BY <2>4, <4>1, LastIs
            <4>3. l \in log /\ l # r
                BY <4>1 DEF IsLast, Below
            <4>4. l.hash = Hash(l.seq, "written", l.prev) /\ l.seq # r.seq
                BY <1>1, <4>3, DigestIs DEF Table
            <4> QED BY <2>6, <4>2, <4>4 DEF Hash
        <3> QED BY <3>1, <3>2
    <2> QED BY <2>5, <2>7 DEF Wrong, Broken
<1>9. n \in W /\ n \in log
    BY <1>3, <1>8
<1> HIDE DEF v, After
<1>10. PICK q \in W : v = q.seq /\ \A x \in W : v <= x.seq
    <2> HIDE DEF W
    <2> QED BY <1>5, <1>9 DEF Says
<1>11. q \in log /\ q.seq > r.seq /\ v = q.seq
    BY <1>6, <1>10
<1>12. \A x \in log : x.seq > r.seq => v <= x.seq
    <2> SUFFICES ASSUME NEW x \in log, x.seq > r.seq PROVE v <= x.seq
        OBVIOUS
    <2>1. v <= n.seq
        BY <1>9, <1>10
    <2>2. n.seq <= x.seq
        BY <1>7 DEF After
    <2>3. v \in Nat /\ n.seq \in Nat /\ x.seq \in Nat
        BY <1>3, <1>9, <1>11
    <2> QED BY <2>1, <2>2, <2>3
<1> QED BY <1>11, <1>12 DEF v

\* Either way the damage is found.
LEMMA FindsDamage == LogIsTable => VerifyFindsDamage
<1> SUFFICES ASSUME LogIsTable, FirstInvalidOfAll(log) = 0, NEW r \in log
             PROVE  LET after == {q.seq : q \in {q \in log : q.seq > r.seq}}
                    IN  /\ FirstInvalidOfAll((log \ {r}) \cup {[r EXCEPT !.body = "altered"]}) = r.seq
                        /\ after # {} => FirstInvalidOfAll(log \ {r}) \in after
                        /\ after # {} =>
                             \A s \in after : FirstInvalidOfAll(log \ {r}) <= s
    BY DEF VerifyFindsDamage
<1> DEFINE after == {q.seq : q \in {q \in log : q.seq > r.seq}}
           v == FirstInvalidOfAll(log \ {r})
<1>1. FirstInvalidOfAll((log \ {r}) \cup {[r EXCEPT !.body = "altered"]}) = r.seq
    BY FindsAltered
<1>2. ASSUME NEW b \in log, b.seq > r.seq
      PROVE  /\ \E q \in log : q.seq > r.seq /\ v = q.seq
             /\ \A q \in log : q.seq > r.seq => v <= q.seq
    BY <1>2, FindsRemoved
<1> HIDE DEF v
<1>3. after # {} => v \in after /\ \A s \in after : v <= s
    BY <1>2
<1> QED BY <1>1, <1>3 DEF v

\* Of every log these transactions can write, with whatever overlap and gaps,
\* verify_chain names the first row that does not link back and nothing else, says in
\* two pieces what it says in one, and finds any row altered, or removed but the last.
THEOREM VerificationIsSound == Spec => []VerifyIsSound
<1>1. ChainInv => VerifyIsSound
    BY LogIs, FindsFirstBreak, FindsDamage, SaysInPieces DEF VerifyIsSound
<1> QED BY <1>1, ChainInvariant, PTL
=============================================================================
