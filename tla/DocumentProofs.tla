--------------------------- MODULE DocumentProofs ---------------------------
(***************************************************************************)
(* Documents, for any number of them. How they are stored and found        *)
(* (DocumentStore: the inductive invariant DocumentInv, and what follows   *)
(* from it), how an answer leads back to them (Answers: AnswerInv, and     *)
(* what retrieval, the references and the figures come to, by induction    *)
(* over the marks and the paragraphs of a draft), and how their pages are  *)
(* read (PageReading: ReadInv, and what the extractors, the recognition    *)
(* and the vision model leave on a page).  Last, the documents a run makes *)
(* itself (Artifacts: what becomes of the sections of a report, of the     *)
(* entries of a deck and of the rows of a workbook).                       *)
(***************************************************************************)
EXTENDS DocumentStore, Answers, PageReading, Artifacts, ListTheorems

-----------------------------------------------------------------------------
(* Uploading. *)

\* A request that begins: it holds no hash and has no row.
LEMMA UploadReadStep ==
    ASSUME DocumentInv, NEW u \in Uploads, NEW f \in Files, UploadRead(u, f)
    PROVE  DocumentInv'
<1> USE ProcessesAssumption DEF DocumentInv, TypeOK, UploadRead, stores, Goto, Procs
<1>1. TypeOK'
    BY DEF UploadStages, DeleteStages, Ended, InTransaction
<1>2. OneHolder'
    BY DEF OneHolder, Progress, InTransaction
<1>3. OneRow'
    BY DEF OneRow, OneHolder, Progress, InTransaction
<1>4. Progress'
    BY DEF Progress, InTransaction
<1>5. ChunksFollowRows'
    BY DEF ChunksFollowRows, Progress
<1>6. Deletion'
    BY DEF Deletion, Progress
<1>7. StoresAgree'
    BY DEF StoresAgree, ChunksFollowRows, Progress, Deletion
<1>8. DeletedIsNotFound'
    BY DEF DeletedIsNotFound, ChunksFollowRows, Progress, Deletion
<1> QED BY <1>1, <1>2, <1>3, <1>4, <1>5, <1>6, <1>7, <1>8

\* Extraction touches neither store.
LEMMA IngestStep ==
    ASSUME DocumentInv, NEW u \in Uploads, Ingest(u)
    PROVE  DocumentInv'
<1> USE ProcessesAssumption DEF DocumentInv, TypeOK, Ingest, stores, Goto, Procs
<1>1. TypeOK'
    BY DEF UploadStages, DeleteStages, Ended, InTransaction
<1>2. OneHolder'
    BY DEF OneHolder, Progress, InTransaction
<1>3. OneRow'
    BY DEF OneRow, OneHolder, Progress, InTransaction
<1>4. Progress'
    BY DEF Progress, InTransaction
<1>5. ChunksFollowRows'
    BY DEF ChunksFollowRows, Progress
<1>6. Deletion'
    BY DEF Deletion, Progress
<1>7. StoresAgree'
    BY DEF StoresAgree, ChunksFollowRows, Progress, Deletion
<1>8. DeletedIsNotFound'
    BY DEF DeletedIsNotFound, ChunksFollowRows, Progress, Deletion
<1> QED BY <1>1, <1>2, <1>3, <1>4, <1>5, <1>6, <1>7, <1>8

\* The insert waits for the hash, and takes it only if no committed row has it.
LEMMA InsertStep ==
    ASSUME DocumentInv, NEW u \in Uploads, Insert(u)
    PROVE  DocumentInv'
<1> USE ProcessesAssumption DEF DocumentInv, TypeOK, Insert, stores, Goto, Procs
<1>1. TypeOK'
    BY DEF UploadStages, DeleteStages, Ended, InTransaction
<1>2. OneHolder'
    BY DEF OneHolder, Progress, InTransaction, RowOf
<1>3. OneRow'
    BY DEF OneRow, OneHolder, Progress, InTransaction
<1>4. Progress'
    BY DEF Progress, InTransaction
<1>5. ChunksFollowRows'
    BY DEF ChunksFollowRows, Progress
<1>6. Deletion'
    BY DEF Deletion, Progress
<1>7. StoresAgree'
    BY DEF StoresAgree, ChunksFollowRows, Progress, Deletion
<1>8. DeletedIsNotFound'
    BY DEF DeletedIsNotFound, ChunksFollowRows, Progress, Deletion
<1> QED BY <1>1, <1>2, <1>3, <1>4, <1>5, <1>6, <1>7, <1>8

\* Embedding touches neither store.
LEMMA EmbedStep ==
    ASSUME DocumentInv, NEW u \in Uploads, Embed(u)
    PROVE  DocumentInv'
<1> USE ProcessesAssumption DEF DocumentInv, TypeOK, Embed, stores, Goto, Procs
<1>1. TypeOK'
    BY DEF UploadStages, DeleteStages, Ended, InTransaction
<1>2. OneHolder'
    BY DEF OneHolder, Progress, InTransaction
<1>3. OneRow'
    BY DEF OneRow, OneHolder, Progress, InTransaction
<1>4. Progress'
    BY DEF Progress, InTransaction
<1>5. ChunksFollowRows'
    BY DEF ChunksFollowRows, Progress
<1>6. Deletion'
    BY DEF Deletion, Progress
<1>7. StoresAgree'
    BY DEF StoresAgree, ChunksFollowRows, Progress, Deletion
<1>8. DeletedIsNotFound'
    BY DEF DeletedIsNotFound, ChunksFollowRows, Progress, Deletion
<1> QED BY <1>1, <1>2, <1>3, <1>4, <1>5, <1>6, <1>7, <1>8

\* The vectors of an upload that holds the hash and has no row yet.
LEMMA UpsertStep ==
    ASSUME DocumentInv, NEW u \in Uploads, Upsert(u)
    PROVE  DocumentInv'
<1> USE ProcessesAssumption DEF DocumentInv, TypeOK, Upsert, stores, Goto, Procs
<1>1. TypeOK'
    BY DEF UploadStages, DeleteStages, Ended, InTransaction
<1>2. OneHolder'
    BY DEF OneHolder, Progress, InTransaction
<1>3. OneRow'
    BY DEF OneRow, OneHolder, Progress, InTransaction
<1>4. Progress'
    BY DEF Progress, InTransaction
<1>5. ChunksFollowRows'
    BY DEF ChunksFollowRows, Progress
<1>6. Deletion'
    BY DEF Deletion, Progress
<1>7. StoresAgree'
    BY DEF StoresAgree, ChunksFollowRows, Progress, Deletion
<1>8. DeletedIsNotFound'
    BY DEF DeletedIsNotFound, ChunksFollowRows, Progress, Deletion
<1> QED BY <1>1, <1>2, <1>3, <1>4, <1>5, <1>6, <1>7, <1>8

\* The row of an upload that holds the hash and has its vectors.
LEMMA CommitStep ==
    ASSUME DocumentInv, NEW u \in Uploads, Commit(u)
    PROVE  DocumentInv'
<1> USE ProcessesAssumption DEF DocumentInv, TypeOK, Commit, stores, Goto, Procs
<1>1. TypeOK'
    BY DEF UploadStages, DeleteStages, Ended, InTransaction
<1>2. OneHolder'
    BY DEF OneHolder, Progress, InTransaction
<1>3. OneRow'
    BY DEF OneRow, OneHolder, Progress, InTransaction
<1>4. Progress'
    BY DEF Progress, InTransaction
<1>5. ChunksFollowRows'
    BY DEF ChunksFollowRows, Progress
<1>6. Deletion'
    BY DEF Deletion, Progress
<1>7. StoresAgree'
    BY DEF StoresAgree, ChunksFollowRows, Progress, Deletion
<1>8. DeletedIsNotFound'
    BY DEF DeletedIsNotFound, ChunksFollowRows, Progress, Deletion
<1> QED BY <1>1, <1>2, <1>3, <1>4, <1>5, <1>6, <1>7, <1>8

-----------------------------------------------------------------------------
(* Deleting. *)

\* A deletion is about a document with a row.
LEMMA DeleteReadStep ==
    ASSUME DocumentInv, NEW d \in Deletes, NEW u \in Uploads, DeleteRead(d, u)
    PROVE  DocumentInv'
<1> USE ProcessesAssumption DEF DocumentInv, TypeOK, DeleteRead, stores, Goto, Procs
<1>1. TypeOK'
    BY DEF UploadStages, DeleteStages, Ended, InTransaction
<1>2. OneHolder'
    BY DEF OneHolder, Progress, InTransaction
<1>3. OneRow'
    BY DEF OneRow, OneHolder, Progress, InTransaction
<1>4. Progress'
    BY DEF Progress, InTransaction
<1>5. ChunksFollowRows'
    BY DEF ChunksFollowRows, Progress
<1>6. Deletion'
    BY DEF Deletion, Progress
<1>7. StoresAgree'
    BY DEF StoresAgree, ChunksFollowRows, Progress, Deletion
<1>8. DeletedIsNotFound'
    BY DEF DeletedIsNotFound, ChunksFollowRows, Progress, Deletion
<1> QED BY <1>1, <1>2, <1>3, <1>4, <1>5, <1>6, <1>7, <1>8

\* What a deletion purges has a row, so no upload in flight loses its vectors.
LEMMA PurgeStep ==
    ASSUME DocumentInv, NEW d \in Deletes, Purge(d)
    PROVE  DocumentInv'
<1> USE ProcessesAssumption DEF DocumentInv, TypeOK, Purge, stores, Goto, Procs
<1>1. TypeOK'
    BY DEF UploadStages, DeleteStages, Ended, InTransaction
<1>2. OneHolder'
    BY DEF OneHolder, Progress, InTransaction
<1>3. OneRow'
    BY DEF OneRow, OneHolder, Progress, InTransaction
<1>4. Progress'
    BY DEF Progress, InTransaction, Deletion
<1>5. ChunksFollowRows'
    BY DEF ChunksFollowRows, Progress
<1>6. Deletion'
    BY DEF Deletion, Progress
<1>7. StoresAgree'
    BY DEF StoresAgree, ChunksFollowRows, Progress, Deletion
<1>8. DeletedIsNotFound'
    BY DEF DeletedIsNotFound, ChunksFollowRows, Progress, Deletion
<1> QED BY <1>1, <1>2, <1>3, <1>4, <1>5, <1>6, <1>7, <1>8

\* What a deletion marks was purged, or could not be.
LEMMA MarkStep ==
    ASSUME DocumentInv, NEW d \in Deletes, Mark(d)
    PROVE  DocumentInv'
<1> USE ProcessesAssumption DEF DocumentInv, TypeOK, Mark, stores, Goto, Procs
<1>1. TypeOK'
    BY DEF UploadStages, DeleteStages, Ended, InTransaction
<1>2. OneHolder'
    BY DEF OneHolder, Progress, InTransaction, Deletion
<1>3. OneRow'
    BY DEF OneRow, OneHolder, Progress, InTransaction, Deletion
<1>4. Progress'
    BY DEF Progress, InTransaction, Deletion
<1>5. ChunksFollowRows'
    BY DEF ChunksFollowRows, Progress
<1>6. Deletion'
    BY DEF Deletion, Progress
<1>7. StoresAgree'
    BY DEF StoresAgree, ChunksFollowRows, Progress, Deletion
<1>8. DeletedIsNotFound'
    BY DEF DeletedIsNotFound, ChunksFollowRows, Progress, Deletion
<1> QED BY <1>1, <1>2, <1>3, <1>4, <1>5, <1>6, <1>7, <1>8

-----------------------------------------------------------------------------
(* Being cut short. *)

\* Whatever requests in flight are cut short, and whatever their calls did.
LEMMA StopStep ==
    ASSUME DocumentInv, NEW P \in SUBSET {p \in Procs : InFlight(p)}, Stop(P), attached' \in BOOLEAN
    PROVE  DocumentInv'
<1> USE ProcessesAssumption DEF DocumentInv, TypeOK, Stop, stores, Goto, Procs, InFlight, Ended
<1>1. TypeOK'
    BY DEF UploadStages, DeleteStages, InTransaction
<1>2. OneHolder'
    BY DEF OneHolder, Progress, InTransaction
<1>3. OneRow'
    BY DEF OneRow, OneHolder, Progress, InTransaction
<1>4. Progress'
    BY DEF Progress, InTransaction, Deletion
<1>5. ChunksFollowRows'
    BY DEF ChunksFollowRows, Progress
<1>6. Deletion'
    BY DEF Deletion, Progress
<1>7. StoresAgree'
    BY DEF StoresAgree, ChunksFollowRows, Progress, Deletion
<1>8. DeletedIsNotFound'
    BY DEF DeletedIsNotFound, ChunksFollowRows, Progress, Deletion
<1> QED BY <1>1, <1>2, <1>3, <1>4, <1>5, <1>6, <1>7, <1>8

\* Nothing changes.
LEMMA StutterStep ==
    ASSUME DocumentInv, UNCHANGED vars
    PROVE  DocumentInv'
BY DEF vars, stores, DocumentInv, TypeOK, OneHolder, OneRow, Progress, ChunksFollowRows,
       Deletion, StoresAgree, DeletedIsNotFound

-----------------------------------------------------------------------------
(***************************************************************************)
(* The invariant.                                                          *)
(***************************************************************************)

\* Both stores are empty.
LEMMA DocumentInvInit == Init => DocumentInv
<1> SUFFICES ASSUME Init PROVE DocumentInv
    OBVIOUS
<1> USE ProcessesAssumption DEF Init, Procs
<1>1. TypeOK
    BY DEF TypeOK, UploadStages, DeleteStages
<1>2. OneHolder /\ Deletion
    BY DEF OneHolder, Deletion, InTransaction
<1>3. OneRow /\ Progress /\ ChunksFollowRows
    BY DEF OneRow, Progress, ChunksFollowRows
<1>4. StoresAgree /\ DeletedIsNotFound
    BY DEF StoresAgree, DeletedIsNotFound
<1> QED BY <1>1, <1>2, <1>3, <1>4 DEF DocumentInv

\* Every step keeps it.
LEMMA DocumentInvStep == DocumentInv /\ [Next]_vars => DocumentInv'
<1> SUFFICES ASSUME DocumentInv, [Next]_vars PROVE DocumentInv'
    OBVIOUS
<1>1. ASSUME NEW u \in Uploads, Upload(u) PROVE DocumentInv'
    BY <1>1, IngestStep, InsertStep, EmbedStep, UpsertStep, CommitStep DEF Upload
<1>2. ASSUME NEW u \in Uploads, Disconnect(u) PROVE DocumentInv'
    <2>1. {u} \in SUBSET {p \in Procs : InFlight(p)}
        BY <1>2 DEF Disconnect, Procs
    <2>2. Stop({u}) /\ attached' \in BOOLEAN
        BY <1>2 DEF Disconnect, DocumentInv, TypeOK
    <2> QED BY <2>1, <2>2, StopStep
<1>3. ASSUME NEW u \in Uploads, NEW f \in Files, UploadRead(u, f) PROVE DocumentInv'
    BY <1>3, UploadReadStep
<1>4. ASSUME NEW d \in Deletes, Delete(d) PROVE DocumentInv'
    BY <1>4, PurgeStep, MarkStep DEF Delete
<1>5. ASSUME NEW d \in Deletes, NEW u \in Uploads, DeleteRead(d, u) PROVE DocumentInv'
    BY <1>5, DeleteReadStep
<1>6. CASE Restart
    BY <1>6, StopStep DEF Restart
<1>7. CASE UNCHANGED vars
    BY <1>7, StutterStep
<1> QED BY <1>1, <1>2, <1>3, <1>4, <1>5, <1>6, <1>7 DEF Next

\* DocumentInv holds of every reachable state of the two stores.
THEOREM DocumentInvariant == Spec => []DocumentInv
<1> QED BY DocumentInvInit, DocumentInvStep, PTL DEF Spec

-----------------------------------------------------------------------------
(***************************************************************************)
(* What it says.                                                           *)
(***************************************************************************)

\* The states of rows and requests are those the code can be in.
THEOREM DocumentTypes == Spec => []TypeOK
<1>1. DocumentInv => TypeOK
    BY DEF DocumentInv
<1> QED BY <1>1, DocumentInvariant, PTL

\* A listed document has its vectors unless a deletion of it was cut short, and
\* vectors without a row are those of an upload that was (indexer.index).
THEOREM TwoStoresAgree == Spec => []StoresAgree
<1>1. DocumentInv => StoresAgree
    BY DEF DocumentInv
<1> QED BY <1>1, DocumentInvariant, PTL

\* Uploads of one file at the same time leave one copy to be found, through the
\* unique hash and the order of the two writes (indexer.index).
THEOREM OneCopyIsFound == Spec => []OneCopyFound
<1>1. ASSUME DocumentInv PROVE OneCopyFound
    <2> SUFFICES ASSUME NEW u \in vectors, NEW v \in vectors, u # v, file[u] = file[v],
                        pc[u] \notin {"torn", "gone"}, pc[v] \notin {"torn", "gone"}
                 PROVE  FALSE
        BY DEF OneCopyFound
    <2>1. u \in Uploads /\ v \in Uploads
        BY <1>1 DEF DocumentInv, TypeOK
    <2>2. pc[u] \in {"commit", "done"} /\ pc[v] \in {"commit", "done"}
        BY <1>1, <2>1 DEF DocumentInv, Progress
    <2>3. CASE pc[u] = "done" /\ pc[v] = "done"
        BY <1>1, <2>1, <2>3 DEF DocumentInv, Progress, OneRow
    <2>4. CASE pc[u] = "commit" \/ pc[v] = "commit"
        BY <1>1, <2>1, <2>2, <2>4 DEF DocumentInv, Progress, OneHolder, InTransaction
    <2> QED BY <2>2, <2>3, <2>4
<1> QED BY <1>1, DocumentInvariant, PTL

\* A deleted document is found by neither search unless the process that deleted
\* it had no vector store (delete_document).
THEOREM DeletedStaysUnfound == Spec => []DeletedIsNotFound
<1>1. DocumentInv => DeletedIsNotFound
    BY DEF DocumentInv
<1> QED BY <1>1, DocumentInvariant, PTL

-----------------------------------------------------------------------------
(***************************************************************************)
(* Answers and what they lead back to.                                     *)
(***************************************************************************)

\* The members of a list are finitely many.
LEMMA MembersFinite == ASSUME NEW S, NEW s \in Seq(S) PROVE IsFiniteSet(ToSet(s)) /\ ToSet(s) \subseteq S
<1> DEFINE f == [i \in 1..Len(s) |-> s[i]]
<1>1. Len(s) \in Nat /\ DOMAIN s = 1..Len(s) /\ \A i \in 1..Len(s) : s[i] \in S
  OBVIOUS
<1>2. f \in Surjection(1..Len(s), ToSet(s))
  BY <1>1 DEF Surjection, ToSet
<1>3. IsFiniteSet(1..Len(s))
  BY <1>1, FS_Interval
<1> HIDE DEF f
<1>4. IsFiniteSet(ToSet(s))
  BY <1>2, <1>3, FS_Surjection
<1> QED BY <1>1, <1>4 DEF ToSet

-----------------------------------------------------------------------------
(***************************************************************************)
(* Retrieval.                                                              *)
(***************************************************************************)

Products(position, F) ==
  F = [p \in 0..Depth |-> IF p = 0 THEN 1
                          ELSE IF p = position THEN F[p - 1] ELSE F[p - 1] * (RrfK + p)]

\* The share of a position is a number (reciprocal_rank_fusion).
LEMMA ShareIsNumber == ASSUME NEW position PROVE Share(position) \in Int
<1> DEFINE step == [q \in (1..Depth) \X Int |-> IF q[1] = position THEN q[2] ELSE q[2] * (RrfK + q[1])]
<1>1. Depth \in Nat /\ RrfK \in Nat
  BY IndexIsRead
<1>2. \A i \in 1..Depth, x \in Int : x * (RrfK + i) \in Int
  BY <1>1
<1>3. step \in [(1..Depth) \X Int -> Int]
        /\ \A i \in 1..Depth, x \in Int : step[<<i, x>>] = IF i = position THEN x ELSE x * (RrfK + i)
  BY <1>2
<1> HIDE DEF step
<1>4. PICK G : Steps(Depth, Int, 1, step, G)
  <2>1. 1 \in Int
    OBVIOUS
  <2> QED BY <1>1, <1>3, <2>1, StepsExist, Zenon
<1>5. /\ G \in [0..Depth -> Int] /\ G[0] = 1
      /\ \A i \in 1..Depth : G[i] = IF i = position THEN G[i - 1] ELSE G[i - 1] * (RrfK + i)
  <2>1. \A i \in 1..Depth : i - 1 \in 0..Depth
    BY <1>1
  <2> QED BY <1>3, <1>4, <2>1 DEF Steps
<1>6. Products(position, G)
  <2>1. G = [i \in 0..Depth |-> G[i]] /\ \A i \in 0..Depth : i = 0 \/ i \in 1..Depth
    BY <1>1, <1>5
  <2>2. \A i \in 0..Depth : G[i] = IF i = 0 THEN 1
                                    ELSE IF i = position THEN G[i - 1] ELSE G[i - 1] * (RrfK + i)
    BY <1>5, <2>1
  <2> QED BY <2>1, <2>2 DEF Products
<1> DEFINE F == CHOOSE F : Products(position, F)
<1>7. Products(position, F) /\ Share(position) = F[Depth]
  BY <1>6 DEF Share, Products
<1> HIDE DEF F
<1>8. \A i \in 0..Depth : F[i] = IF i = 0 THEN 1
                                  ELSE IF i = position THEN F[i - 1] ELSE F[i - 1] * (RrfK + i)
  BY <1>7, Zenon DEF Products
<1>9. Goes(Depth, Int, 1, step, F)
  <2>1. 0 \in 0..Depth /\ \A i \in 1..Depth : i \in 0..Depth /\ i # 0
    BY <1>1
  <2> QED BY <1>3, <1>8, <2>1 DEF Goes
<1>10. F[Depth] = G[Depth]
  BY <1>1, <1>4, <1>9, StepsOnly
<1> QED BY <1>1, <1>5, <1>7, <1>10

\* So is a score.
LEMMA ScoreIsNumber == ASSUME NEW dense, NEW sparse, NEW c \in Chunks PROVE Score(dense, sparse, c) \in Int
<1>1. Weighted(5, dense, c) \in Int /\ Weighted(4, sparse, c) \in Int
  <2>1. \A position : Share(position) \in Int
    BY ShareIsNumber
  <2> QED BY <2>1 DEF Weighted
<1>2. Confidence[c] \in Int
  BY IndexIsRead
<1>3. Weighted(5, dense, c) + Weighted(4, sparse, c) \in Int
  BY <1>1
<1>4. \A x \in Int : Penalised(x, c) \in Int
  BY <1>2 DEF Penalised
<1> QED BY <1>3, <1>4 DEF Score

\* A finite set can be put in the order of a number each of its members has.
LEMMA CanBeRanked ==
  ASSUME NEW S, IsFiniteSet(S), NEW score \in [S -> Int]
  PROVE  \E s \in SetToSeqs(S) : \A i, j \in DOMAIN s : i < j => score[s[i]] >= score[s[j]]
<1> DEFINE g == SetToSeq(S)
           n == Cardinality(S)
<1>1. g \in Seq(S) /\ IsInjective(g) /\ ToSet(g) = S
  BY Enumeration
<1> HIDE DEF g
<1> DEFINE at(x) == CHOOSE i \in DOMAIN g : g[i] = x
           R == {p \in S \X S : \/ score[p[1]] > score[p[2]]
                                \/ score[p[1]] = score[p[2]] /\ at(p[1]) <= at(p[2])}
<1>2. \A x \in S : at(x) \in DOMAIN g /\ g[at(x)] = x
  BY <1>1 DEF ToSet
<1>3. DOMAIN g \subseteq Int
  BY <1>1
<1> HIDE DEF at
<1>4. \A x, y \in S : <<x, y>> \in R <=> (score[x] > score[y] \/ (score[x] = score[y] /\ at(x) <= at(y)))
  OBVIOUS
<1>5. \A x \in S : score[x] \in Int /\ at(x) \in Int
  BY <1>2, <1>3
<1> HIDE DEF R
<1>6. Orders(R, S)
  <2>1. \A x, y \in S : at(x) = at(y) => x = y
    BY <1>2
  <2>2. \A x \in S : <<x, x>> \in R
    BY <1>4, <1>5
  <2>3. \A x, y \in S : <<x, y>> \in R \/ <<y, x>> \in R
    <3> SUFFICES ASSUME NEW x \in S, NEW y \in S PROVE <<x, y>> \in R \/ <<y, x>> \in R
      OBVIOUS
    <3>1. score[x] \in Int /\ score[y] \in Int /\ at(x) \in Int /\ at(y) \in Int
      BY <1>5
    <3>2. score[x] > score[y] \/ score[y] > score[x] \/ score[x] = score[y]
      BY <3>1
    <3>3. at(x) <= at(y) \/ at(y) <= at(x)
      BY <3>1
    <3> QED BY <1>4, <3>2, <3>3
  <2>4. \A x, y \in S : <<x, y>> \in R /\ <<y, x>> \in R => x = y
    <3>1. \A x, y \in S : <<x, y>> \in R /\ <<y, x>> \in R => at(x) = at(y)
      BY <1>4, <1>5
    <3> QED BY <2>1, <3>1
  <2>5. \A x, y, z \in S : <<x, y>> \in R /\ <<y, z>> \in R => <<x, z>> \in R
    BY <1>4, <1>5
  <2> QED BY <2>2, <2>3, <2>4, <2>5 DEF Orders
<1> DEFINE s == [k \in 1..n |-> InPlace(k, S, R)]
<1>7. /\ n \in Nat /\ \A k \in 1..n : InPlace(k, S, R) \in S
      /\ \A k, l \in 1..n : k < l => InPlace(k, S, R) # InPlace(l, S, R) /\ <<InPlace(k, S, R), InPlace(l, S, R)>> \in R
  BY <1>6, PlacesAre
<1>8. /\ s \in [1..n -> S] /\ DOMAIN s = 1..n
      /\ \A k, l \in 1..n : k < l => s[k] # s[l] /\ <<s[k], s[l]>> \in R
  BY <1>7
<1> HIDE DEF s
<1>9. \A k, l \in 1..n : k # l => s[k] # s[l]
  <2> SUFFICES ASSUME NEW k \in 1..n, NEW l \in 1..n, k # l PROVE s[k] # s[l]
    OBVIOUS
  <2>1. k < l \/ l < k
    BY <1>7
  <2> QED BY <1>8, <2>1
<1>10. s \in SetToSeqs(S)
  BY <1>8, <1>9 DEF SetToSeqs
<1>11. \A i, j \in DOMAIN s : i < j => score[s[i]] >= score[s[j]]
  <2> SUFFICES ASSUME NEW i \in 1..n, NEW j \in 1..n, i < j PROVE score[s[i]] >= score[s[j]]
    BY <1>8
  <2>1. s[i] \in S /\ s[j] \in S /\ <<s[i], s[j]>> \in R
    BY <1>8
  <2> QED BY <1>4, <1>5, <2>1
<1> QED BY <1>10, <1>11

Items == [chunk : Allowed, score : Int]

\* A search returns passages this person may see, with their scores (search).
LEMMA FusedAre ==
  ASSUME NEW dense \in Seq(Allowed), NEW sparse \in Seq(Allowed)
  PROVE  Fused(dense, sparse) \in Seq(Items)
<1> DEFINE found == ToSet(dense) \cup ToSet(sparse)
           hit == [c \in found |-> [chunk |-> c, score |-> Score(dense, sparse, c)]]
           hits == {[chunk |-> c, score |-> Score(dense, sparse, c)] : c \in found}
           Ranked(s) == \A i, j \in DOMAIN s : i < j => s[i].score >= s[j].score
           ranking == CHOOSE s \in SetToSeqs(hits) : Ranked(s)
           m == IF Len(ranking) < FinalK THEN Len(ranking) ELSE FinalK
<1>1. IsFiniteSet(found) /\ found \subseteq Allowed
  BY MembersFinite, FS_Union
<1>2. \A c \in found : [chunk |-> c, score |-> Score(dense, sparse, c)] \in Items
  BY <1>1, IndexIsRead, ScoreIsNumber DEF Items
<1>3. hit \in Surjection(found, hits)
  BY DEF Surjection
<1>4. IsFiniteSet(hits) /\ hits \subseteq Items
  <2>1. hits \subseteq Items
    BY <1>2
  <2> HIDE DEF hit, hits, found
  <2> QED BY <1>1, <1>3, <2>1, FS_Surjection
<1> HIDE DEF hit, hits
<1>5. \E s \in SetToSeqs(hits) : Ranked(s)
  <2> DEFINE score == [h \in hits |-> h.score]
  <2>1. score \in [hits -> Int]
    BY <1>4 DEF Items
  <2>2. \A h \in hits : score[h] = h.score
    OBVIOUS
  <2> HIDE DEF score
  <2>3. PICK s \in SetToSeqs(hits) : \A i, j \in DOMAIN s : i < j => score[s[i]] >= score[s[j]]
    BY <1>4, <2>1, CanBeRanked
  <2>4. \A i \in DOMAIN s : s[i] \in hits
    BY <2>3 DEF SetToSeqs
  <2>5. Ranked(s)
    BY <2>2, <2>3, <2>4
  <2> QED BY <2>5
<1>6. ranking \in SetToSeqs(hits)
  <2> HIDE DEF Ranked
  <2> QED BY <1>5
<1> HIDE DEF ranking
<1>7. ranking \in Seq(Items)
  <2>1. Cardinality(hits) \in Nat
    BY <1>4, FS_CardinalityType
  <2>2. ranking \in [1..Cardinality(hits) -> Items]
    BY <1>4, <1>6 DEF SetToSeqs
  <2> QED BY <2>1, <2>2
<1>8. m \in Nat /\ m <= Len(ranking) /\ SubSeq(ranking, 1, m) \in Seq(Items)
  <2>1. Len(ranking) \in Nat /\ FinalK \in Nat
    BY <1>7, IndexIsRead
  <2>2. m \in Nat /\ m <= Len(ranking)
    BY <2>1
  <2> HIDE DEF m
  <2>3. \A i \in 1..m : i \in 1..Len(ranking)
    BY <2>1, <2>2
  <2> QED BY <1>7, <2>1, <2>2, <2>3, SubSeqProperties
<1>9. Fused(dense, sparse) = SubSeq(ranking, 1, m)
  BY DEF Fused, ranking, hits, found
<1> QED BY <1>8, <1>9

-----------------------------------------------------------------------------
\* Each passage is in a list once.
Once(list) == \A i, j \in DOMAIN list : i # j => list[i].chunk # list[j].chunk

\* What a run may have gathered.
Gatherings == {list \in Seq(Items) : Once(list)}

\* One passage more (merge_evidence).
LEMMA BestOfType == ASSUME NEW list \in Gatherings, NEW item \in Items PROVE BestOf(list, item) \in Gatherings
<1> DEFINE same == {i \in DOMAIN list : list[i].chunk = item.chunk}
           better == [i \in DOMAIN list |-> IF i \in same /\ item.score > list[i].score THEN item ELSE list[i]]
           n == Len(list)
<1>1. list \in Seq(Items) /\ Once(list) /\ n \in Nat /\ DOMAIN list = 1..n
  BY DEF Gatherings
<1>2. CASE same = {}
  <2> DEFINE more == Append(list, item)
  <2>1. BestOf(list, item) = more
    BY <1>2 DEF BestOf
  <2>2. /\ more \in Seq(Items) /\ Len(more) = n + 1 /\ more[n + 1] = item /\ DOMAIN more = 1..(n + 1)
        /\ \A i \in 1..n : more[i] = list[i]
    BY <1>1
  <2> HIDE DEF more, n
  <2>3. \A i \in 1..(n + 1) : i \in 1..n \/ i = n + 1
    BY <1>1
  <2>4. \A i \in 1..n : list[i].chunk # item.chunk
    BY <1>1, <1>2
  <2>5. Once(more)
    BY <1>1, <2>2, <2>3, <2>4 DEF Once
  <2> QED BY <2>1, <2>2, <2>5 DEF Gatherings
<1>3. CASE same # {}
  <2>1. BestOf(list, item) = better
    BY <1>3 DEF BestOf
  <2>2. \A i \in 1..n : list[i] \in Items
    BY <1>1
  <2>3. better \in [1..n -> Items]
    BY <1>1, <2>2
  <2>4. \A i \in 1..n : better[i].chunk = list[i].chunk
    BY <1>1
  <2>5. DOMAIN better = 1..n
    BY <1>1
  <2> HIDE DEF better, n
  <2>6. Once(better)
    BY <1>1, <2>4, <2>5 DEF Once
  <2>7. better \in Seq(Items)
    BY <1>1, <2>3
  <2> QED BY <2>1, <2>6, <2>7 DEF Gatherings
<1> QED BY <1>2, <1>3

Pools(a, s, F) == F = [n \in 0..Len(s) |-> IF n = 0 THEN a ELSE BestOf(F[n - 1], s[n])]

PooledNext == [p \in Gatherings \X Items |-> BestOf(p[1], p[2])]

\* What is gathered from a search is a step for each passage.
LEMMA PooledFolds ==
  ASSUME NEW a \in Gatherings, NEW s \in Seq(Items)
  PROVE  CanFold(Gatherings, Items, a, s, PooledNext) /\ Pooled(a, s) = FoldOf(Gatherings, a, s, PooledNext)
<1> DEFINE next == PooledNext
           n == Len(s)
           F == CHOOSE F : Pools(a, s, F)
<1>1. n \in Nat /\ (\A i \in 1..n : s[i] \in Items /\ i - 1 \in 0..n /\ i \in 0..n /\ i # 0) /\ 0 \in 0..n
  OBVIOUS
<1>2. CanFold(Gatherings, Items, a, s, next) /\ \A x \in Gatherings, e \in Items : next[<<x, e>>] = BestOf(x, e)
  BY BestOfType DEF PooledNext, CanFold
<1> HIDE DEF next
<1>3. PICK G : Folds(Gatherings, a, s, next, G)
  BY <1>2, FoldExists
<1>4. G \in [0..n -> Gatherings] /\ G[0] = a /\ \A i \in 1..n : G[i] = BestOf(G[i - 1], s[i])
  BY <1>1, <1>2, <1>3 DEF Folds
<1>5. Pools(a, s, G)
  <2>1. G = [i \in 0..n |-> G[i]] /\ \A i \in 0..n : i = 0 \/ i \in 1..n
    BY <1>1, <1>4
  <2>2. \A i \in 0..n : G[i] = IF i = 0 THEN a ELSE BestOf(G[i - 1], s[i])
    BY <1>4, <2>1
  <2> QED BY <2>1, <2>2 DEF Pools
<1>6. Pools(a, s, F) /\ Pooled(a, s) = F[n]
  BY <1>5 DEF Pooled, Pools
<1> HIDE DEF F
<1>7. \A i \in 0..n : F[i] = IF i = 0 THEN a ELSE BestOf(F[i - 1], s[i])
  BY <1>6, Zenon DEF Pools
<1>8. GoesThrough(Gatherings, a, s, next, F)
  BY <1>1, <1>2, <1>7 DEF GoesThrough
<1>9. F[Len(s)] = FoldOf(Gatherings, a, s, next)
  BY <1>2, <1>8, FoldOnly
<1> QED BY <1>2, <1>6, <1>9 DEF next

\* One passage more.
LEMMA PooledAppend ==
  ASSUME NEW a \in Gatherings, NEW s \in Seq(Items), NEW e \in Items
  PROVE  Pooled(a, Append(s, e)) = BestOf(Pooled(a, s), e) /\ Pooled(a, s) \in Gatherings
<1> DEFINE next == PooledNext
           t == Append(s, e)
<1>1. CanFold(Gatherings, Items, a, s, next) /\ Pooled(a, s) = FoldOf(Gatherings, a, s, next)
  BY PooledFolds
<1>2. Pooled(a, t) = FoldOf(Gatherings, a, t, next)
  <2>1. t \in Seq(Items)
    OBVIOUS
  <2> HIDE DEF t
  <2> QED BY <2>1, PooledFolds
<1> HIDE DEF next
<1>3. FoldOf(Gatherings, a, t, next) = next[<<FoldOf(Gatherings, a, s, next), e>>] /\ FoldOf(Gatherings, a, s, next) \in Gatherings
  BY <1>1, FoldAppend
<1>4. \A x \in Gatherings : next[<<x, e>>] = BestOf(x, e)
  BY DEF next, PooledNext
<1> QED BY <1>1, <1>2, <1>3, <1>4 DEF t

\* And without any.
LEMMA PooledNone == ASSUME NEW a \in Gatherings PROVE Pooled(a, <<>>) = a
<1> DEFINE next == PooledNext
           none == <<>>
<1>1. none \in Seq(Items)
  OBVIOUS
<1> HIDE DEF none
<1>2. CanFold(Gatherings, Items, a, none, next) /\ Pooled(a, none) = FoldOf(Gatherings, a, none, next)
  BY <1>1, PooledFolds
<1> HIDE DEF next
<1> QED BY <1>2, FoldNone DEF none

\* What is gathered from a search has each passage once.
LEMMA PooledType ==
  ASSUME NEW old \in Gatherings, NEW new \in Seq(Items) PROVE Pooled(old, new) \in Gatherings
<1>1. CanFold(Gatherings, Items, old, new, PooledNext) /\ Pooled(old, new) = FoldOf(Gatherings, old, new, PooledNext)
  BY PooledFolds
<1> QED BY <1>1, FoldType

\* So has the evidence, put in ranking (merge_evidence).
LEMMA MergedType ==
  ASSUME NEW old \in Gatherings, NEW new \in Seq(Items) PROVE Merged(old, new) \in Gatherings
<1> DEFINE all == Pooled(old, new)
           n == Len(all)
           D == DOMAIN all
           R == {p \in D \X D : \/ all[p[1]].score > all[p[2]].score
                                \/ all[p[1]].score = all[p[2]].score /\ p[1] <= p[2]}
           out == [k \in D |-> all[InPlace(k, D, R)]]
<1>1. all \in Seq(Items) /\ Once(all)
  BY PooledType DEF Gatherings
<1>2. Merged(old, new) = out
  BY DEF Merged
<1> HIDE DEF all
<1>3. n \in Nat /\ D = 1..n /\ \A i \in D : all[i] \in Items /\ all[i].score \in Int /\ i \in Int
  <2>1. n \in Nat /\ D = 1..n /\ \A i \in D : all[i] \in Items /\ i \in Int
    BY <1>1
  <2>2. \A x \in Items : x.score \in Int
    BY DEF Items
  <2> QED BY <2>1, <2>2
<1> HIDE DEF n, D
<1>4. \A i, j \in D : <<i, j>> \in R <=> (all[i].score > all[j].score \/ (all[i].score = all[j].score /\ i <= j))
  OBVIOUS
<1> HIDE DEF R
<1>5. Orders(R, D)
  <2>1. \A x \in D : <<x, x>> \in R
    BY <1>3, <1>4
  <2>2. \A x, y \in D : <<x, y>> \in R \/ <<y, x>> \in R
    <3> SUFFICES ASSUME NEW x \in D, NEW y \in D PROVE <<x, y>> \in R \/ <<y, x>> \in R
      OBVIOUS
    <3>1. all[x].score \in Int /\ all[y].score \in Int /\ x \in Int /\ y \in Int
      BY <1>3
    <3>2. all[x].score > all[y].score \/ all[y].score > all[x].score \/ all[x].score = all[y].score
      BY <3>1
    <3>3. x <= y \/ y <= x
      BY <3>1
    <3> QED BY <1>4, <3>2, <3>3
  <2>3. \A x, y \in D : <<x, y>> \in R /\ <<y, x>> \in R => x = y
    BY <1>3, <1>4
  <2>4. \A x, y, z \in D : <<x, y>> \in R /\ <<y, z>> \in R => <<x, z>> \in R
    BY <1>3, <1>4
  <2> QED BY <2>1, <2>2, <2>3, <2>4 DEF Orders
<1>6. IsFiniteSet(D) /\ Cardinality(D) = n
  BY <1>3, FS_Interval
<1>7. /\ \A k \in D : InPlace(k, D, R) \in D
      /\ \A k, l \in D : k < l => InPlace(k, D, R) # InPlace(l, D, R)
  BY <1>3, <1>5, <1>6, PlacesAre
<1>8. out \in [1..n -> Items] /\ DOMAIN out = D /\ \A k \in D : out[k] = all[InPlace(k, D, R)]
  BY <1>3, <1>7
<1> HIDE DEF out
<1>9. \A k, l \in D : k # l => out[k].chunk # out[l].chunk
  <2> SUFFICES ASSUME NEW k \in D, NEW l \in D, k # l PROVE out[k].chunk # out[l].chunk
    OBVIOUS
  <2>1. k < l \/ l < k
    BY <1>3
  <2>2. InPlace(k, D, R) # InPlace(l, D, R)
    BY <1>7, <2>1
  <2> QED BY <1>1, <1>7, <1>8, <2>2 DEF Once, D
<1>10. out \in Seq(Items)
  BY <1>3, <1>8
<1> QED BY <1>2, <1>8, <1>9, <1>10 DEF Gatherings, Once

(***************************************************************************)
(* References.                                                             *)
(***************************************************************************)

Paras == UNION {ToSet(text) : text \in Drafts}

Marks == UNION {ToSet(p.marks) : p \in Paras}

\* The paragraphs of a draft and their marks are such.
LEMMA DraftsAre ==
  /\ Drafts \subseteq Seq(Paras)
  /\ \A p \in Paras : p.marks \in Seq(Marks)
  /\ \A m \in Marks : m = <<m[1], m[2]>> /\ m[1] \in {"id", "at"} /\ (m[1] = "at" => m[2] \in Nat)
<1>1. ASSUME NEW text \in Drafts PROVE text \in Seq(Paras)
  <2>1. text \in Seq(ToSet(text))
    BY DraftsAreRead
  <2>2. ToSet(text) \subseteq Paras
    BY DEF Paras
  <2> QED BY <2>1, <2>2
<1>2. ASSUME NEW p \in Paras PROVE p.marks \in Seq(Marks)
  <2>1. p.marks \in Seq(ToSet(p.marks))
    BY DraftsAreRead DEF Paras
  <2>2. ToSet(p.marks) \subseteq Marks
    BY DEF Marks
  <2> QED BY <2>1, <2>2
<1>3. ASSUME NEW m \in Marks
      PROVE  m = <<m[1], m[2]>> /\ m[1] \in {"id", "at"} /\ (m[1] = "at" => m[2] \in Nat)
  <2>1. PICK p \in Paras : m \in ToSet(p.marks)
    BY DEF Marks
  <2>2. PICK text \in Drafts : p \in ToSet(text)
    BY DEF Paras
  <2> QED BY <2>1, <2>2, DraftsAreRead, Zenon
<1> QED BY <1>1, <1>2, <1>3

\* What a mark points at in a list.
ShownIn(shown, mark) ==
  {c \in Chunks : \E i \in DOMAIN shown :
      shown[i].chunk = c /\ mark \in {<<"id", c>>, <<"at", i>>}}

\* A mark is read as the one passage it points at, or as none (resolve_markers).
LEMMA MeantIsShown ==
  ASSUME NEW shown \in Gatherings, NEW mark \in Marks
  PROVE  /\ Meant(shown, mark) = NoPassage => ShownIn(shown, mark) = {}
         /\ Meant(shown, mark) # NoPassage =>
              Meant(shown, mark) \in Allowed /\ ShownIn(shown, mark) = {Meant(shown, mark)}
<1>1. mark = <<mark[1], mark[2]>> /\ mark[1] \in {"id", "at"} /\ (mark[1] = "at" => mark[2] \in Nat)
  BY DraftsAre
<1>2. \A i \in DOMAIN shown : shown[i].chunk \in Allowed /\ shown[i].chunk \in Chunks /\ shown[i].chunk # NoPassage
  <2>1. \A i \in DOMAIN shown : shown[i] \in Items
    BY DEF Gatherings
  <2>2. \A x \in Items : x.chunk \in Allowed
    BY DEF Items
  <2> QED BY <2>1, <2>2, IndexIsRead
<1>3. CASE mark[1] = "id"
  <2> DEFINE c == mark[2]
  <2>1. \A d, i : mark \in {<<"id", d>>, <<"at", i>>} <=> d = c
    BY <1>1, <1>3
  <2>2. ShownIn(shown, mark) = {d \in Chunks : d = c /\ \E i \in DOMAIN shown : shown[i].chunk = d}
    BY <2>1 DEF ShownIn
  <2>3. CASE \E i \in DOMAIN shown : shown[i].chunk = c
    <3>1. Meant(shown, mark) = c /\ c \in Allowed /\ c \in Chunks /\ c # NoPassage
      BY <1>2, <1>3, <2>3 DEF Meant
    <3> HIDE DEF c
    <3> QED BY <2>2, <2>3, <3>1
  <2>4. CASE ~\E i \in DOMAIN shown : shown[i].chunk = c
    <3>1. Meant(shown, mark) = NoPassage
      BY <1>3, <2>4 DEF Meant
    <3> QED BY <2>2, <2>4, <3>1
  <2> QED BY <2>3, <2>4
<1>4. CASE mark[1] = "at"
  <2> DEFINE n == mark[2]
  <2>1. \A d, i : mark \in {<<"id", d>>, <<"at", i>>} <=> i = n
    BY <1>1, <1>4
  <2>2. ShownIn(shown, mark) = {d \in Chunks : n \in DOMAIN shown /\ shown[n].chunk = d}
    BY <2>1 DEF ShownIn
  <2>3. Meant(shown, mark) = IF n \in DOMAIN shown THEN shown[n].chunk ELSE NoPassage
    BY <1>4 DEF Meant
  <2> HIDE DEF n
  <2> QED BY <1>2, <2>2, <2>3
<1> QED BY <1>1, <1>3, <1>4

\* Lists of passages, each once: what an answer cites.
Bibliographies == {list \in Seq(Allowed) : IsInjective(list)}

\* A paragraph of an answer, and an answer on its way.
Written == [kind : {p.kind : p \in Paras}, refs : Seq(Nat), figures : {p.figures : p \in Paras}]

Accs == [cited : Bibliographies, lost : Seq(Marks), refs : Seq(Nat), text : Seq(Written)]

\* A longer bibliography keeps the numbers of a shorter one.
Extends(short, long) == Len(short) <= Len(long) /\ \A i \in 1..Len(short) : long[i] = short[i]

\* A passage is given its number, which is a new one only if it has none.
LEMMA NumberedIs ==
  ASSUME NEW cited \in Bibliographies, NEW chunk \in Allowed
  PROVE  /\ Numbered(cited, chunk) \in Bibliographies
         /\ Extends(cited, Numbered(cited, chunk))
         /\ Position(Numbered(cited, chunk), chunk) \in 1..Len(Numbered(cited, chunk))
         /\ Numbered(cited, chunk)[Position(Numbered(cited, chunk), chunk)] = chunk
         /\ \/ Len(Numbered(cited, chunk)) = Len(cited)
            \/ /\ Len(Numbered(cited, chunk)) = Len(cited) + 1
               /\ Position(Numbered(cited, chunk), chunk) = Len(cited) + 1
<1> DEFINE d == Numbered(cited, chunk)
           n == Len(cited)
<1>1. cited \in Seq(Allowed) /\ IsInjective(cited) /\ n \in Nat /\ DOMAIN cited = 1..n
  BY DEF Bibliographies
<1>2. Contains(cited, chunk) <=> chunk \in ToSet(cited)
  BY <1>1 DEF Contains, ToSet
<1>3. CASE Contains(cited, chunk)
  <2>1. d = cited
    BY <1>3 DEF Numbered
  <2>2. \E i \in DOMAIN cited : cited[i] = chunk
    BY <1>2, <1>3 DEF ToSet
  <2>3. Position(cited, chunk) \in DOMAIN cited /\ cited[Position(cited, chunk)] = chunk
    BY <2>2 DEF Position
  <2> HIDE DEF d
  <2> QED BY <1>1, <2>1, <2>3 DEF Extends, d
<1>4. CASE ~Contains(cited, chunk)
  <2>1. d = Append(cited, chunk)
    BY <1>4 DEF Numbered
  <2> HIDE DEF d
  <2>2. d \in Seq(Allowed) /\ Len(d) = n + 1 /\ d[n + 1] = chunk /\ DOMAIN d = 1..(n + 1) /\ \A i \in 1..n : d[i] = cited[i]
    BY <1>1, <2>1
  <2>3. IsInjective(d)
    BY <1>1, <1>2, <1>4, <2>1, SetAppend
  <2>4. Position(d, chunk) = n + 1
    <3>1. \A i \in 1..(n + 1) : i \in 1..n \/ i = n + 1
      BY <1>1
    <3>2. \A i \in 1..n : cited[i] # chunk
      BY <1>1, <1>2, <1>4 DEF ToSet
    <3>3. n + 1 \in DOMAIN d
      BY <1>1, <2>2
    <3>4. \A i \in DOMAIN d : d[i] = chunk => i = n + 1
      BY <2>2, <3>1, <3>2
    <3> HIDE DEF n
    <3> QED BY <2>2, <3>3, <3>4 DEF Position
  <2>5. n + 1 \in 1..(n + 1) /\ n <= n + 1
    BY <1>1
  <2>6. d \in Bibliographies /\ Extends(cited, d)
    BY <2>2, <2>3, <2>5 DEF Bibliographies, Extends
  <2> HIDE DEF n
  <2> QED BY <2>2, <2>4, <2>5, <2>6 DEF d, n
<1> QED BY <1>3, <1>4

\* The marks that point at something, and those of a paragraph that do not.
Live(shown) == {m \in Marks : ShownIn(shown, m) # {}}

Unmet(shown, marks) == {m \in ToSet(marks) : ShownIn(shown, m) = {}}

\* What a mark that points at nothing leaves of an answer, and one that points at c.
LeavesLost(acc, mark, q) ==
  q.cited = acc.cited /\ q.refs = acc.refs /\ q.text = acc.text /\ q.lost = Append(acc.lost, mark)

LeavesRef(acc, c, q) ==
  /\ q.cited = Numbered(acc.cited, c)
  /\ q.refs = Append(acc.refs, Position(Numbered(acc.cited, c), c))
  /\ q.text = acc.text /\ q.lost = acc.lost

\* One mark (resolve_markers).
LEMMA ReplaceIs ==
  ASSUME NEW shown \in Gatherings, NEW acc \in Accs, NEW mark \in Marks
  PROVE  /\ Replace(shown, acc, mark) \in Accs
         /\ ShownIn(shown, mark) = {} => LeavesLost(acc, mark, Replace(shown, acc, mark))
         /\ ShownIn(shown, mark) # {} =>
              \E c \in Allowed :
                ShownIn(shown, mark) = {c} /\ LeavesRef(acc, c, Replace(shown, acc, mark))
<1> DEFINE c == Meant(shown, mark)
<1>1. /\ acc.cited \in Bibliographies /\ acc.lost \in Seq(Marks) /\ acc.refs \in Seq(Nat)
      /\ acc.text \in Seq(Written)
      /\ acc = [cited |-> acc.cited, lost |-> acc.lost, refs |-> acc.refs, text |-> acc.text]
  BY DEF Accs
<1>2. CASE c = NoPassage
  <2> DEFINE lost == Append(acc.lost, mark)
             q == [acc EXCEPT !.lost = lost]
  <2>1. ShownIn(shown, mark) = {}
    BY <1>2, MeantIsShown
  <2>2. Replace(shown, acc, mark) = q
    BY <1>2 DEF Replace
  <2>3. lost \in Seq(Marks)
    BY <1>1
  <2> HIDE DEF lost
  <2>4. q \in Accs /\ q.cited = acc.cited /\ q.refs = acc.refs /\ q.text = acc.text /\ q.lost = lost
    BY <1>1, <2>3 DEF Accs
  <2> HIDE DEF q
  <2> QED BY <2>1, <2>2, <2>4 DEF LeavesLost, lost
<1>3. CASE c # NoPassage
  <2>1. c \in Allowed /\ ShownIn(shown, mark) = {c}
    BY <1>3, MeantIsShown
  <2> DEFINE d == Numbered(acc.cited, c)
             refs == Append(acc.refs, Position(d, c))
             q == [acc EXCEPT !.cited = d, !.refs = refs]
  <2>2. Replace(shown, acc, mark) = q
    BY <1>3 DEF Replace
  <2>3. d \in Bibliographies /\ Position(d, c) \in 1..Len(d)
    BY <1>1, <2>1, NumberedIs
  <2>4. Position(d, c) \in Nat
    BY <2>3
  <2>5. refs \in Seq(Nat)
    BY <1>1, <2>4
  <2> HIDE DEF c, d, refs
  <2>6. q \in Accs /\ q.cited = d /\ q.refs = refs /\ q.text = acc.text /\ q.lost = acc.lost
    BY <1>1, <2>3, <2>5 DEF Accs
  <2> HIDE DEF q
  <2>7. LeavesRef(acc, c, q)
    BY <2>6 DEF LeavesRef, d, refs
  <2> QED BY <2>1, <2>2, <2>6, <2>7
<1> QED BY <1>2, <1>3

Replaces(shown, a, s, F) == F = [n \in 0..Len(s) |-> IF n = 0 THEN a ELSE Replace(shown, F[n - 1], s[n])]

ReplacedNext(shown) == [p \in Accs \X Marks |-> Replace(shown, p[1], p[2])]

\* The marks of a paragraph are taken one at a time (resolve_markers).
LEMMA ReplacedFolds ==
  ASSUME NEW shown \in Gatherings, NEW a \in Accs, NEW s \in Seq(Marks)
  PROVE  CanFold(Accs, Marks, a, s, ReplacedNext(shown)) /\ Replaced(shown, a, s) = FoldOf(Accs, a, s, ReplacedNext(shown))
<1> DEFINE next == ReplacedNext(shown)
           n == Len(s)
           F == CHOOSE F : Replaces(shown, a, s, F)
<1>1. n \in Nat /\ (\A i \in 1..n : s[i] \in Marks /\ i - 1 \in 0..n /\ i \in 0..n /\ i # 0) /\ 0 \in 0..n
  OBVIOUS
<1>2. CanFold(Accs, Marks, a, s, next) /\ \A x \in Accs, e \in Marks : next[<<x, e>>] = Replace(shown, x, e)
  BY ReplaceIs DEF ReplacedNext, CanFold
<1> HIDE DEF next
<1>3. PICK G : Folds(Accs, a, s, next, G)
  BY <1>2, FoldExists
<1>4. G \in [0..n -> Accs] /\ G[0] = a /\ \A i \in 1..n : G[i] = Replace(shown, G[i - 1], s[i])
  BY <1>1, <1>2, <1>3 DEF Folds
<1>5. Replaces(shown, a, s, G)
  <2>1. G = [i \in 0..n |-> G[i]] /\ \A i \in 0..n : i = 0 \/ i \in 1..n
    BY <1>1, <1>4
  <2>2. \A i \in 0..n : G[i] = IF i = 0 THEN a ELSE Replace(shown, G[i - 1], s[i])
    BY <1>4, <2>1
  <2> QED BY <2>1, <2>2 DEF Replaces
<1>6. Replaces(shown, a, s, F) /\ Replaced(shown, a, s) = F[n]
  BY <1>5 DEF Replaced, Replaces
<1> HIDE DEF F
<1>7. \A i \in 0..n : F[i] = IF i = 0 THEN a ELSE Replace(shown, F[i - 1], s[i])
  BY <1>6, Zenon DEF Replaces
<1>8. GoesThrough(Accs, a, s, next, F)
  BY <1>1, <1>2, <1>7 DEF GoesThrough
<1>9. F[Len(s)] = FoldOf(Accs, a, s, next)
  BY <1>2, <1>8, FoldOnly
<1> QED BY <1>2, <1>6, <1>9 DEF next

\* One mark more.
LEMMA ReplacedAppend ==
  ASSUME NEW shown \in Gatherings, NEW a \in Accs, NEW s \in Seq(Marks), NEW e \in Marks
  PROVE  Replaced(shown, a, Append(s, e)) = Replace(shown, Replaced(shown, a, s), e) /\ Replaced(shown, a, s) \in Accs
<1> DEFINE next == ReplacedNext(shown)
           t == Append(s, e)
<1>1. CanFold(Accs, Marks, a, s, next) /\ Replaced(shown, a, s) = FoldOf(Accs, a, s, next)
  BY ReplacedFolds
<1>2. Replaced(shown, a, t) = FoldOf(Accs, a, t, next)
  <2>1. t \in Seq(Marks)
    OBVIOUS
  <2> HIDE DEF t
  <2> QED BY <2>1, ReplacedFolds
<1> HIDE DEF next
<1>3. FoldOf(Accs, a, t, next) = next[<<FoldOf(Accs, a, s, next), e>>] /\ FoldOf(Accs, a, s, next) \in Accs
  BY <1>1, FoldAppend
<1>4. \A x \in Accs : next[<<x, e>>] = Replace(shown, x, e)
  BY DEF next, ReplacedNext
<1> QED BY <1>1, <1>2, <1>3, <1>4 DEF t

\* And without any.
LEMMA ReplacedNone == ASSUME NEW shown \in Gatherings, NEW a \in Accs PROVE Replaced(shown, a, <<>>) = a
<1> DEFINE next == ReplacedNext(shown)
           none == <<>>
<1>1. none \in Seq(Marks)
  OBVIOUS
<1> HIDE DEF none
<1>2. CanFold(Accs, Marks, a, none, next) /\ Replaced(shown, a, none) = FoldOf(Accs, a, none, next)
  BY <1>1, ReplacedFolds
<1> HIDE DEF next
<1> QED BY <1>2, FoldNone DEF none

\* References and the marks they stand for, in the bibliography.
Matches(shown, refs, marks, cited) ==
  LET live == Kept(marks, Live(shown))
  IN  /\ Len(refs) = Len(live)
      /\ \A k \in 1..Len(live) : refs[k] \in 1..Len(cited) /\ ShownIn(shown, live[k]) = {cited[refs[k]]}

\* Numbers are given as they are needed, and each is used.
Numbers(refs, cited) == ToSet(refs) = 1..Len(cited) /\ FirstMet(refs)

\* What a paragraph leaves of an answer that had come to base.
OfMarks(shown, base, pre, marks, r) ==
  /\ r \in Accs /\ r.text = base.text /\ Extends(base.cited, r.cited)
  /\ Matches(shown, r.refs, marks, r.cited)
  /\ Numbers(pre \o r.refs, r.cited)
  /\ ToSet(r.lost) = ToSet(base.lost) \cup Unmet(shown, marks)

\* What matches a bibliography matches a longer one.
LEMMA MatchesLonger ==
  ASSUME NEW shown, NEW refs, NEW marks, NEW cited \in Bibliographies, NEW more \in Bibliographies,
         Extends(cited, more), Matches(shown, refs, marks, cited)
  PROVE  Matches(shown, refs, marks, more)
<1>1. Len(cited) \in Nat /\ Len(more) \in Nat /\ Len(cited) <= Len(more)
  BY DEF Bibliographies, Extends
<1>2. \A n \in 1..Len(cited) : n \in 1..Len(more) /\ more[n] = cited[n]
  BY <1>1 DEF Extends
<1> QED BY <1>2 DEF Matches

\* A number that is used again, or the next one, keeps the numbers in order.
LEMMA NumbersAppend ==
  ASSUME NEW refs \in Seq(Nat), NEW cited \in Bibliographies, NEW more \in Bibliographies, NEW n \in 1..Len(more),
         Numbers(refs, cited), Len(more) = Len(cited) \/ (Len(more) = Len(cited) + 1 /\ n = Len(cited) + 1)
  PROVE  Numbers(Append(refs, n), more)
<1> DEFINE t == Append(refs, n)
           l == Len(refs)
           size == Len(cited)
<1>1. size \in Nat /\ Len(more) \in Nat /\ l \in Nat /\ n \in Nat /\ DOMAIN refs = 1..l
  BY DEF Bibliographies
<1>2. t \in Seq(Nat) /\ Len(t) = l + 1 /\ DOMAIN t = 1..(l + 1) /\ t[l + 1] = n /\ \A i \in 1..l : t[i] = refs[i]
  BY <1>1
<1>3. ToSet(t) = ToSet(refs) \cup {n}
  BY <1>1, SetAppend
<1> HIDE DEF t
<1>4. ToSet(t) = 1..Len(more)
  <2>1. ToSet(refs) = 1..size
    BY DEF Numbers
  <2>2. (1..size) \cup {n} = 1..Len(more)
    BY <1>1
  <2> QED BY <1>3, <2>1, <2>2
<1>5. ASSUME NEW k \in 1..(l + 1) PROVE t[k] <= 1 + Cardinality({t[m] : m \in 1..(k - 1)})
  <2>1. CASE k \in 1..l
    <3>1. \A m \in 1..(k - 1) : m \in 1..l /\ t[m] = refs[m]
      BY <1>1, <1>2, <2>1
    <3>2. {t[m] : m \in 1..(k - 1)} = {refs[m] : m \in 1..(k - 1)}
      BY <3>1
    <3>3. refs[k] <= 1 + Cardinality({refs[m] : m \in 1..(k - 1)})
      BY <1>1, <2>1 DEF Numbers, FirstMet
    <3> QED BY <1>2, <2>1, <3>2, <3>3
  <2>2. CASE k = l + 1
    <3>1. k - 1 = l /\ t[k] = n
      BY <1>1, <1>2, <2>2
    <3>2. {t[m] : m \in 1..l} = ToSet(refs)
      BY <1>1, <1>2 DEF ToSet
    <3>3. ToSet(refs) = 1..size
      BY DEF Numbers
    <3>5. Cardinality(1..size) = size
      <4> HIDE DEF size
      <4> QED BY <1>1, FS_Interval
    <3>4. n <= 1 + size
      BY <1>1
    <3> HIDE DEF size
    <3> QED BY <3>1, <3>2, <3>3, <3>4, <3>5
  <2> QED BY <1>1, <2>1, <2>2
<1>6. FirstMet(t)
  BY <1>2, <1>5 DEF FirstMet
<1> QED BY <1>4, <1>6 DEF Numbers, t

\* One mark more.
LEMMA OneMark ==
  ASSUME NEW shown \in Gatherings, NEW base, NEW pre \in Seq(Nat), NEW marks \in Seq(Marks),
         NEW r, OfMarks(shown, base, pre, marks, r), NEW mark \in Marks,
         base.cited \in Bibliographies, base.lost \in Seq(Marks)
  PROVE  OfMarks(shown, base, pre, Append(marks, mark), Replace(shown, r, mark))
<1> DEFINE more == Append(marks, mark)
           live == Kept(marks, Live(shown))
           then == Kept(more, Live(shown))
           q == Replace(shown, r, mark)
<1>1. /\ r \in Accs /\ r.text = base.text /\ Extends(base.cited, r.cited)
      /\ Matches(shown, r.refs, marks, r.cited)
      /\ Numbers(pre \o r.refs, r.cited)
      /\ ToSet(r.lost) = ToSet(base.lost) \cup Unmet(shown, marks)
  BY DEF OfMarks
<1>2. r.cited \in Bibliographies /\ r.lost \in Seq(Marks) /\ r.refs \in Seq(Nat)
  BY <1>1 DEF Accs
<1>3. q \in Accs
  BY <1>1, ReplaceIs
<1>4. then = IF mark \in Live(shown) THEN Append(live, mark) ELSE live
  BY KeptAppend
<1>5. live \in Seq(Marks)
  <2>1. live \in Seq(Marks \cap Live(shown))
    BY KeptType
  <2> HIDE DEF live
  <2> QED BY <2>1
<1>6. ToSet(more) = ToSet(marks) \cup {mark}
  BY SetAppend
<1>7. CASE ShownIn(shown, mark) = {}
  <2>1. LeavesLost(r, mark, q)
    BY <1>1, <1>7, ReplaceIs
  <2> HIDE DEF q
  <2>2. q.cited = r.cited /\ q.refs = r.refs /\ q.text = r.text /\ q.lost = Append(r.lost, mark)
    BY <2>1 DEF LeavesLost
  <2>3. then = live
    BY <1>4, <1>7 DEF Live
  <2>4. Unmet(shown, more) = Unmet(shown, marks) \cup {mark}
    BY <1>6, <1>7 DEF Unmet
  <2>5. ToSet(q.lost) = ToSet(r.lost) \cup {mark}
    BY <1>2, <2>2, SetAppend
  <2>6. Matches(shown, r.refs, more, r.cited)
    BY <1>1, <2>3 DEF Matches
  <2> HIDE DEF more
  <2> QED BY <1>1, <1>3, <2>2, <2>4, <2>5, <2>6 DEF OfMarks, more, q
<1>8. CASE ShownIn(shown, mark) # {}
  <2>1. PICK c \in Allowed : ShownIn(shown, mark) = {c} /\ LeavesRef(r, c, q)
    BY <1>1, <1>8, ReplaceIs
  <2> DEFINE d == Numbered(r.cited, c)
             n == Position(d, c)
  <2> HIDE DEF q
  <2>2. q.cited = d /\ q.refs = Append(r.refs, n) /\ q.text = r.text /\ q.lost = r.lost
    BY <2>1 DEF LeavesRef
  <2>3. /\ d \in Bibliographies /\ Extends(r.cited, d) /\ n \in 1..Len(d) /\ d[n] = c
        /\ Len(d) = Len(r.cited) \/ (Len(d) = Len(r.cited) + 1 /\ n = Len(r.cited) + 1)
    BY <1>2, NumberedIs
  <2> HIDE DEF d, n
  <2>4. then = Append(live, mark)
    BY <1>4, <1>8 DEF Live
  <2>5. Unmet(shown, more) = Unmet(shown, marks)
    BY <1>6, <1>8 DEF Unmet
  <2>6. Extends(base.cited, d)
    <3>1. Len(base.cited) \in Nat /\ Len(r.cited) \in Nat /\ Len(d) \in Nat
      BY <1>2, <2>3 DEF Bibliographies
    <3>2. \A i \in 1..Len(base.cited) : i \in 1..Len(r.cited)
      BY <1>1, <3>1 DEF Extends
    <3> QED BY <1>1, <2>3, <3>1, <3>2 DEF Extends
  <2>7. Matches(shown, r.refs, marks, d)
    BY <1>1, <1>2, <2>3, MatchesLonger
  <2>8. Matches(shown, q.refs, more, d)
    <3> DEFINE l == Len(live)
               refs == q.refs
    <3>1. /\ Len(r.refs) = l /\ l \in Nat
          /\ \A k \in 1..l : r.refs[k] \in 1..Len(d) /\ ShownIn(shown, live[k]) = {d[r.refs[k]]}
      <4>1. l \in Nat
        <5> HIDE DEF live
        <5> QED BY <1>5
      <4> QED BY <2>7, <4>1, Zenon DEF Matches
    <3>2. n \in Nat
      BY <2>3
    <3>3. Len(refs) = l + 1 /\ refs[l + 1] = n /\ \A k \in 1..l : refs[k] = r.refs[k]
      BY <1>2, <2>2, <3>1, <3>2
    <3> HIDE DEF live, then
    <3>4. Len(then) = l + 1 /\ then[l + 1] = mark /\ \A k \in 1..l : then[k] = live[k]
      BY <1>5, <2>4
    <3> HIDE DEF l, refs
    <3>5. \A k \in 1..(l + 1) : k \in 1..l \/ k = l + 1
      BY <3>1
    <3>6. \A k \in 1..(l + 1) : refs[k] \in 1..Len(d) /\ ShownIn(shown, then[k]) = {d[refs[k]]}
      BY <2>1, <2>3, <3>1, <3>3, <3>4, <3>5
    <3> QED BY <3>3, <3>4, <3>6 DEF Matches, refs, then
  <2>9. Numbers(pre \o q.refs, d)
    <3>1. n \in Nat
      BY <2>3
    <3>2. pre \o Append(r.refs, n) = Append(pre \o r.refs, n) /\ pre \o r.refs \in Seq(Nat)
      <4>1. \A t \in Seq(Nat) : pre \o Append(t, n) = Append(pre \o t, n) /\ pre \o t \in Seq(Nat)
        BY <3>1, ConcatAppend
      <4> QED BY <1>2, <4>1
    <3>3. Numbers(Append(pre \o r.refs, n), d)
      BY <1>1, <1>2, <2>3, <3>2, NumbersAppend
    <3> QED BY <2>2, <3>2, <3>3
  <2> HIDE DEF more
  <2> QED BY <1>1, <1>3, <2>2, <2>5, <2>6, <2>8, <2>9 DEF OfMarks, more, q
<1> QED BY <1>7, <1>8

\* The marks of a paragraph, all of them (resolve_markers).
LEMMA MarksResolved ==
  ASSUME NEW shown \in Gatherings, NEW base \in Accs, base.refs = <<>>, NEW pre \in Seq(Nat),
         Numbers(pre, base.cited), NEW marks \in Seq(Marks)
  PROVE  OfMarks(shown, base, pre, marks, Replaced(shown, base, marks))
<1> DEFINE T == {s \in Seq(Marks) : OfMarks(shown, base, pre, s, Replaced(shown, base, s))}
<1>1. base.cited \in Bibliographies /\ base.lost \in Seq(Marks) /\ base.refs \in Seq(Nat)
  BY DEF Accs
<1>2. <<>> \in T
  <2> DEFINE none == <<>>
  <2>1. Replaced(shown, base, none) = base
    BY ReplacedNone
  <2>2. Kept(none, Live(shown)) = none
    BY KeptEmpty
  <2>3. ToSet(none) = {} /\ Len(none) = 0 /\ none \in Seq(Marks) /\ pre \o none = pre /\ base.refs = none
    BY DEF ToSet
  <2> HIDE DEF none
  <2>4. Extends(base.cited, base.cited)
    BY <1>1 DEF Extends, Bibliographies
  <2>5. Matches(shown, base.refs, none, base.cited)
    BY <2>2, <2>3 DEF Matches
  <2>6. Unmet(shown, none) = {}
    BY <2>3 DEF Unmet
  <2>7. OfMarks(shown, base, pre, none, base)
    BY <2>3, <2>4, <2>5, <2>6 DEF OfMarks
  <2> QED BY <2>1, <2>3, <2>7 DEF none
<1>3. ASSUME NEW s \in Seq(Marks), NEW m \in Marks, s \in T PROVE Append(s, m) \in T
  <2> DEFINE t == Append(s, m)
  <2>1. Replaced(shown, base, t) = Replace(shown, Replaced(shown, base, s), m)
    BY ReplacedAppend
  <2>2. OfMarks(shown, base, pre, t, Replace(shown, Replaced(shown, base, s), m))
    BY <1>1, <1>3, OneMark
  <2>3. t \in Seq(Marks)
    OBVIOUS
  <2> HIDE DEF t
  <2>4. t \in T
    BY <2>1, <2>2, <2>3
  <2> QED BY <2>4 DEF t
<1> HIDE DEF T
<1>4. Seq(Marks) \subseteq T
  BY <1>2, <1>3, SeqInduction
<1> QED BY <1>4 DEF T

\* A paragraph can always be rewritten.
LEMMA RewriteIs ==
  ASSUME NEW shown \in Gatherings, NEW acc \in Accs, NEW p \in Paras
  PROVE  LET base == [acc EXCEPT !.refs = <<>>]
             done == Replaced(shown, base, p.marks)
         IN  /\ base \in Accs /\ base.refs = <<>> /\ base.cited = acc.cited /\ base.lost = acc.lost
             /\ base.text = acc.text /\ done \in Accs /\ p.marks \in Seq(Marks)
             /\ [kind |-> p.kind, refs |-> done.refs, figures |-> p.figures] \in Written
             /\ Rewrite(shown, acc, p) =
                  [done EXCEPT !.text = Append(done.text, [kind |-> p.kind, refs |-> done.refs,
                                                          figures |-> p.figures])]
             /\ Rewrite(shown, acc, p) \in Accs
<1> DEFINE base == [acc EXCEPT !.refs = <<>>]
           done == Replaced(shown, base, p.marks)
           more == [kind |-> p.kind, refs |-> done.refs, figures |-> p.figures]
           text == Append(done.text, more)
<1>1. base \in Accs /\ base.refs = <<>> /\ base.cited = acc.cited /\ base.lost = acc.lost /\ base.text = acc.text
  <2>1. <<>> \in Seq(Nat)
    OBVIOUS
  <2> QED BY <2>1 DEF Accs
<1>2. p.marks \in Seq(Marks)
  BY DraftsAre
<1> HIDE DEF base
<1>3. done \in Accs
  BY <1>1, <1>2, ReplacedAppend, ReplacedFolds, FoldType
<1>4. Rewrite(shown, acc, p) = [done EXCEPT !.text = text]
  BY DEF Rewrite, base
<1> HIDE DEF done
<1>5. more \in Written
  BY <1>3 DEF Accs, Written
<1>6. text \in Seq(Written)
  <2>1. done.text \in Seq(Written)
    BY <1>3 DEF Accs
  <2> HIDE DEF more
  <2> QED BY <1>5, <2>1
<1>7. [done EXCEPT !.text = text] \in Accs
  <2> HIDE DEF text
  <2> QED BY <1>3, <1>6 DEF Accs
<1> QED BY <1>1, <1>2, <1>3, <1>4, <1>5, <1>7 DEF base, done

\* An answer starts with nothing.
LEMMA NoTextType == NoText \in Accs
<1>1. <<>> \in Seq(Allowed) /\ <<>> \in Seq(Marks) /\ <<>> \in Seq(Nat) /\ <<>> \in Seq(Written) /\ IsInjective(<<>>)
  BY DEF IsInjective
<1> QED BY <1>1 DEF NoText, Accs, Bibliographies

Resolves(shown, s, F) == F = [n \in 0..Len(s) |-> IF n = 0 THEN NoText ELSE Rewrite(shown, F[n - 1], s[n])]

ResolvedNext(shown) == [p \in Accs \X Paras |-> Rewrite(shown, p[1], p[2])]

\* The paragraphs of an answer are taken one at a time (resolve_markers).
LEMMA ResolvedFolds ==
  ASSUME NEW shown \in Gatherings, NEW s \in Seq(Paras)
  PROVE  CanFold(Accs, Paras, NoText, s, ResolvedNext(shown)) /\ Resolved(shown, s) = FoldOf(Accs, NoText, s, ResolvedNext(shown))
<1> DEFINE next == ResolvedNext(shown)
           n == Len(s)
           F == CHOOSE F : Resolves(shown, s, F)
<1>1. n \in Nat /\ (\A i \in 1..n : s[i] \in Paras /\ i - 1 \in 0..n /\ i \in 0..n /\ i # 0) /\ 0 \in 0..n
  OBVIOUS
<1>2. CanFold(Accs, Paras, NoText, s, next) /\ \A x \in Accs, e \in Paras : next[<<x, e>>] = Rewrite(shown, x, e)
  BY NoTextType, RewriteIs DEF ResolvedNext, CanFold
<1> HIDE DEF next
<1>3. PICK G : Folds(Accs, NoText, s, next, G)
  BY <1>2, FoldExists
<1>4. G \in [0..n -> Accs] /\ G[0] = NoText /\ \A i \in 1..n : G[i] = Rewrite(shown, G[i - 1], s[i])
  BY <1>1, <1>2, <1>3 DEF Folds
<1>5. Resolves(shown, s, G)
  <2>1. G = [i \in 0..n |-> G[i]] /\ \A i \in 0..n : i = 0 \/ i \in 1..n
    BY <1>1, <1>4
  <2>2. \A i \in 0..n : G[i] = IF i = 0 THEN NoText ELSE Rewrite(shown, G[i - 1], s[i])
    BY <1>4, <2>1
  <2> QED BY <2>1, <2>2 DEF Resolves
<1>6. Resolves(shown, s, F) /\ Resolved(shown, s) = F[n]
  BY <1>5 DEF Resolved, Resolves
<1> HIDE DEF F
<1>7. \A i \in 0..n : F[i] = IF i = 0 THEN NoText ELSE Rewrite(shown, F[i - 1], s[i])
  BY <1>6, Zenon DEF Resolves
<1>8. GoesThrough(Accs, NoText, s, next, F)
  BY <1>1, <1>2, <1>7 DEF GoesThrough
<1>9. F[Len(s)] = FoldOf(Accs, NoText, s, next)
  BY <1>2, <1>8, FoldOnly
<1> QED BY <1>2, <1>6, <1>9 DEF next

\* One paragraph more.
LEMMA ResolvedAppend ==
  ASSUME NEW shown \in Gatherings, NEW s \in Seq(Paras), NEW e \in Paras
  PROVE  Resolved(shown, Append(s, e)) = Rewrite(shown, Resolved(shown, s), e) /\ Resolved(shown, s) \in Accs
<1> DEFINE next == ResolvedNext(shown)
           t == Append(s, e)
<1>1. CanFold(Accs, Paras, NoText, s, next) /\ Resolved(shown, s) = FoldOf(Accs, NoText, s, next)
  BY ResolvedFolds
<1>2. Resolved(shown, t) = FoldOf(Accs, NoText, t, next)
  <2>1. t \in Seq(Paras)
    OBVIOUS
  <2> HIDE DEF t
  <2> QED BY <2>1, ResolvedFolds
<1> HIDE DEF next
<1>3. FoldOf(Accs, NoText, t, next) = next[<<FoldOf(Accs, NoText, s, next), e>>] /\ FoldOf(Accs, NoText, s, next) \in Accs
  BY <1>1, FoldAppend
<1>4. \A x \in Accs : next[<<x, e>>] = Rewrite(shown, x, e)
  BY DEF next, ResolvedNext
<1> QED BY <1>1, <1>2, <1>3, <1>4 DEF t

\* And without any.
LEMMA ResolvedNone == ASSUME NEW shown \in Gatherings PROVE Resolved(shown, <<>>) = NoText
<1> DEFINE next == ResolvedNext(shown)
           none == <<>>
<1>1. none \in Seq(Paras)
  OBVIOUS
<1> HIDE DEF none
<1>2. CanFold(Accs, Paras, NoText, none, next) /\ Resolved(shown, none) = FoldOf(Accs, NoText, none, next)
  BY <1>1, ResolvedFolds
<1> HIDE DEF next
<1> QED BY <1>2, FoldNone DEF none

RefsOf(text) == [i \in DOMAIN text |-> text[i].refs]

\* What has become of a draft.
WellResolved(shown, text, r) ==
  /\ r \in Accs /\ Len(r.text) = Len(text)
  /\ \A i \in 1..Len(text) : Matches(shown, r.text[i].refs, text[i].marks, r.cited)
  /\ Numbers(FlattenSeq(RefsOf(r.text)), r.cited)
  /\ \A n \in 1..Len(r.cited) : \E i \in 1..Len(text) : n \in ToSet(r.text[i].refs)
  /\ ToSet(r.lost) = UNION {Unmet(shown, text[i].marks) : i \in 1..Len(text)}

\* One paragraph more.
LEMMA OneParagraph ==
  ASSUME NEW shown \in Gatherings, NEW text \in Seq(Paras), NEW r, WellResolved(shown, text, r),
         NEW p \in Paras
  PROVE  WellResolved(shown, Append(text, p), Rewrite(shown, r, p))
<1> DEFINE base == [r EXCEPT !.refs = <<>>]
           done == Replaced(shown, base, p.marks)
           para == [kind |-> p.kind, refs |-> done.refs, figures |-> p.figures]
           q == Rewrite(shown, r, p)
           more == Append(text, p)
           written == Append(r.text, para)
           pre == FlattenSeq(RefsOf(r.text))
           l == Len(text)
<1>1. /\ r \in Accs /\ Len(r.text) = l
      /\ \A i \in 1..l : Matches(shown, r.text[i].refs, text[i].marks, r.cited)
      /\ Numbers(pre, r.cited)
      /\ \A n \in 1..Len(r.cited) : \E i \in 1..l : n \in ToSet(r.text[i].refs)
      /\ ToSet(r.lost) = UNION {Unmet(shown, text[i].marks) : i \in 1..l}
  BY DEF WellResolved
<1>2. /\ base \in Accs /\ base.refs = <<>> /\ base.cited = r.cited /\ base.lost = r.lost
      /\ base.text = r.text /\ done \in Accs /\ p.marks \in Seq(Marks) /\ para \in Written
      /\ q = [done EXCEPT !.text = Append(done.text, para)] /\ q \in Accs
  BY <1>1, RewriteIs
<1> HIDE DEF base, q, pre
<1>3. r.text \in Seq(Written) /\ r.cited \in Bibliographies /\ done.cited \in Bibliographies /\ done.refs \in Seq(Nat)
  BY <1>1, <1>2 DEF Accs
<1>4. l \in Nat /\ DOMAIN r.text = 1..l /\ \A i \in 1..l : r.text[i] \in Written /\ r.text[i].refs \in Seq(Nat)
  <2>1. l \in Nat /\ DOMAIN r.text = 1..l /\ \A i \in 1..l : r.text[i] \in Written
    BY <1>1, <1>3
  <2>2. \A x \in Written : x.refs \in Seq(Nat)
    BY DEF Written
  <2> QED BY <2>1, <2>2
<1>5. /\ Len(written) = l + 1 /\ DOMAIN written = 1..(l + 1) /\ written[l + 1] = para
      /\ \A i \in 1..l : written[i] = r.text[i]
  <2> HIDE DEF para, l
  <2> QED BY <1>1, <1>2, <1>3
<1>6. Len(more) = l + 1 /\ more[l + 1] = p /\ \A i \in 1..l : more[i] = text[i]
  OBVIOUS
<1> HIDE DEF written, more, l
<1>7. (\A i \in 1..(l + 1) : i \in 1..l \/ i = l + 1) /\ l + 1 \in 1..(l + 1) /\ \A i \in 1..l : i \in 1..(l + 1)
  BY <1>4
<1>8. FlattenSeq(RefsOf(written)) = pre \o done.refs /\ pre \in Seq(Nat)
  <2> DEFINE u == RefsOf(r.text)
             v == RefsOf(written)
  <2>1. u \in [1..l -> Seq(Nat)] /\ \A i \in 1..l : u[i] = r.text[i].refs
    BY <1>4 DEF RefsOf
  <2>2. v \in [1..(l + 1) -> Seq(Nat)] /\ v[l + 1] = done.refs /\ \A i \in 1..l : v[i] = r.text[i].refs
    <3>1. para.refs = done.refs
      OBVIOUS
    <3> HIDE DEF para
    <3>2. \A i \in 1..(l + 1) : written[i].refs \in Seq(Nat)
      BY <1>3, <1>4, <1>5, <1>7, <3>1
    <3> QED BY <1>5, <1>7, <3>1, <3>2 DEF RefsOf
  <2>3. \A k \in 1..l : v[k] = u[k]
    BY <2>1, <2>2
  <2> HIDE DEF u, v
  <2>4. FlattenSeq(v) = FlattenSeq(u) \o v[l + 1] /\ FlattenSeq(u) \in Seq(Nat)
    BY <1>4, <2>1, <2>2, <2>3, FlattenExtend
  <2> QED BY <2>2, <2>4 DEF u, v, pre
<1>9. OfMarks(shown, base, pre, p.marks, done)
  <2>1. Numbers(pre, base.cited)
    BY <1>1, <1>2
  <2> QED BY <1>2, <1>8, <2>1, MarksResolved
<1> HIDE DEF done
<1>10. /\ done.text = r.text /\ Extends(r.cited, done.cited)
       /\ Matches(shown, done.refs, p.marks, done.cited)
       /\ Numbers(pre \o done.refs, done.cited)
       /\ ToSet(done.lost) = ToSet(r.lost) \cup Unmet(shown, p.marks)
  BY <1>2, <1>9 DEF OfMarks
<1>11. q.text = written /\ q.cited = done.cited /\ q.lost = done.lost
  <2> HIDE DEF para
  <2> QED BY <1>2, <1>10 DEF Accs, written
<1>12. para.refs = done.refs
  OBVIOUS
<1> HIDE DEF para
<1>13. \A i \in 1..(l + 1) : Matches(shown, written[i].refs, more[i].marks, done.cited)
  <2>1. ASSUME NEW i \in 1..l PROVE Matches(shown, written[i].refs, more[i].marks, done.cited)
    <3>1. Matches(shown, r.text[i].refs, text[i].marks, done.cited)
      BY <1>1, <1>3, <1>10, MatchesLonger
    <3> QED BY <1>5, <1>6, <3>1
  <2>2. Matches(shown, written[l + 1].refs, more[l + 1].marks, done.cited)
    BY <1>5, <1>6, <1>10, <1>12
  <2> QED BY <1>7, <2>1, <2>2
<1>14. \A n \in 1..Len(done.cited) : \E i \in 1..(l + 1) : n \in ToSet(written[i].refs)
  <2> SUFFICES ASSUME NEW n \in 1..Len(done.cited) PROVE \E i \in 1..(l + 1) : n \in ToSet(written[i].refs)
    OBVIOUS
  <2>1. ToSet(pre \o done.refs) = ToSet(pre) \cup ToSet(done.refs)
    BY <1>3, <1>8, SetConcat
  <2>2. n \in ToSet(pre) \/ n \in ToSet(done.refs)
    BY <1>10, <2>1 DEF Numbers
  <2>3. CASE n \in ToSet(done.refs)
    BY <1>5, <1>7, <1>12, <2>3
  <2>4. CASE n \in ToSet(pre)
    <3>1. n \in 1..Len(r.cited)
      BY <1>1, <2>4 DEF Numbers
    <3>2. PICK i \in 1..l : n \in ToSet(r.text[i].refs)
      BY <1>1, <3>1
    <3> QED BY <1>5, <1>7, <3>2
  <2> QED BY <2>2, <2>3, <2>4
<1>15. ToSet(done.lost) = UNION {Unmet(shown, more[i].marks) : i \in 1..(l + 1)}
  <2>1. \A m : m \in UNION {Unmet(shown, more[i].marks) : i \in 1..(l + 1)}
                 <=> \E i \in 1..(l + 1) : m \in Unmet(shown, more[i].marks)
    OBVIOUS
  <2>2. \A m : m \in UNION {Unmet(shown, text[i].marks) : i \in 1..l}
                 <=> \E i \in 1..l : m \in Unmet(shown, text[i].marks)
    OBVIOUS
  <2>3. \A m : (\E i \in 1..(l + 1) : m \in Unmet(shown, more[i].marks))
                 <=> (\E i \in 1..l : m \in Unmet(shown, text[i].marks)) \/ m \in Unmet(shown, p.marks)
    BY <1>6, <1>7
  <2> QED BY <1>1, <1>10, <2>1, <2>2, <2>3
<1> QED BY <1>2, <1>5, <1>6, <1>8, <1>10, <1>11, <1>13, <1>14, <1>15 DEF WellResolved, more, q

\* A whole draft (resolve_markers).
LEMMA TextResolved ==
  ASSUME NEW shown \in Gatherings, NEW text \in Seq(Paras)
  PROVE  WellResolved(shown, text, Resolved(shown, text))
<1> DEFINE T == {s \in Seq(Paras) : WellResolved(shown, s, Resolved(shown, s))}
<1>1. <<>> \in T
  <2> DEFINE none == <<>>
  <2>1. Resolved(shown, none) = NoText
    BY ResolvedNone
  <2>2. NoText.text = none /\ NoText.cited = none /\ NoText.lost = none
    BY DEF NoText
  <2>3. ToSet(none) = {} /\ Len(none) = 0 /\ none \in Seq(Paras) /\ DOMAIN none = {} /\ RefsOf(none) = none
    BY DEF ToSet, RefsOf
  <2>4. FlattenSeq(none) = none
    BY FlattenEmpty
  <2> HIDE DEF none
  <2>5. Numbers(none, none)
    BY <2>3 DEF Numbers, FirstMet
  <2>6. WellResolved(shown, none, NoText)
    BY <2>2, <2>3, <2>4, <2>5, NoTextType DEF WellResolved
  <2> QED BY <2>1, <2>3, <2>6 DEF none
<1>2. ASSUME NEW s \in Seq(Paras), NEW p \in Paras, s \in T PROVE Append(s, p) \in T
  <2> DEFINE t == Append(s, p)
  <2>1. Resolved(shown, t) = Rewrite(shown, Resolved(shown, s), p)
    BY ResolvedAppend
  <2>2. WellResolved(shown, t, Rewrite(shown, Resolved(shown, s), p))
    BY <1>2, OneParagraph
  <2>3. t \in Seq(Paras)
    OBVIOUS
  <2> HIDE DEF t
  <2>4. t \in T
    BY <2>1, <2>2, <2>3
  <2> QED BY <2>4 DEF t
<1> HIDE DEF T
<1>3. Seq(Paras) \subseteq T
  BY <1>1, <1>2, SeqInduction
<1> QED BY <1>3 DEF T

-----------------------------------------------------------------------------
(***************************************************************************)
(* An answer leads back.                                                   *)
(***************************************************************************)

\* What a run has gathered, and what has become of its draft.
AnswerInv ==
  /\ asking \in {"gather", "judge", "done"} /\ searches \in 0..MaxSearches
  /\ evidence \in Gatherings
  /\ asking = "gather" => answer = <<>> /\ citations = <<>> /\ unresolved = <<>>
  /\ asking # "gather" =>
       /\ draft \in Drafts /\ answer = Resolved(evidence, draft).text
       /\ citations = Resolved(evidence, draft).cited /\ unresolved = Resolved(evidence, draft).lost
  /\ asking = "done" => verdict.figures = Figures

\* It holds when a run starts.
LEMMA AnswerInvStarts == AnswerInit => AnswerInv
<1> SUFFICES ASSUME AnswerInit PROVE AnswerInv
  OBVIOUS
<1>1. 0 \in 0..MaxSearches
  BY IndexIsRead
<1>2. <<>> \in Gatherings
  <2>1. <<>> \in Seq(Items) /\ DOMAIN <<>> = {}
    OBVIOUS
  <2> QED BY <2>1 DEF Gatherings, Once
<1> QED BY <1>1, <1>2 DEF AnswerInit, AnswerInv

\* What a search adds to the evidence.
LEMMA SearchGathers ==
  ASSUME evidence \in Gatherings, NEW d \in Rankings \cup {<<>>}, NEW s \in Rankings \cup {<<>>}
  PROVE  Merged(evidence, Fused(Dense(d), Sparse(s))) \in Gatherings
<1>1. ASSUME NEW r \in Rankings \cup {<<>>} PROVE Kept(r, Allowed) \in Seq(Allowed)
  <2>1. r \in Seq(Chunks)
    <3>1. <<>> \in Seq(Chunks) /\ \A x \in Rankings : x \in Seq(Chunks)
      BY IndexIsRead
    <3> QED BY <3>1
  <2>2. Kept(r, Allowed) \in Seq(Chunks \cap Allowed) /\ Chunks \cap Allowed = Allowed
    BY <2>1, KeptType, IndexIsRead
  <2> QED BY <2>2
<1>2. Dense(d) \in Seq(Allowed) /\ Sparse(s) \in Seq(Allowed)
  BY <1>1 DEF Dense, Sparse
<1>3. Fused(Dense(d), Sparse(s)) \in Seq(Items)
  BY <1>2, FusedAre
<1> QED BY <1>3, MergedType

\* And every step keeps it.
LEMMA AnswerInvHolds == AnswerInv /\ [AnswerNext]_answerVars => AnswerInv'
<1> SUFFICES ASSUME AnswerInv, [AnswerNext]_answerVars PROVE AnswerInv'
  OBVIOUS
<1>1. CASE Search
  <2>1. searches' \in 0..MaxSearches
    BY <1>1, IndexIsRead DEF Search, AnswerInv
  <2>2. evidence' \in Gatherings
    BY <1>1, SearchGathers DEF Search, AnswerInv
  <2> QED BY <1>1, <2>1, <2>2 DEF Search, AnswerInv
<1>2. CASE Calculated
  BY <1>2 DEF Calculated, AnswerInv
<1>3. CASE Synthesise
  <2> DEFINE resolved == Resolved(evidence, draft')
  <2>1. draft' \in Drafts /\ answer' = resolved.text /\ citations' = resolved.cited
        /\ unresolved' = resolved.lost /\ asking' = "judge" /\ evidence' = evidence /\ searches' = searches
    BY <1>3 DEF Synthesise
  <2>2. resolved = Resolved(evidence', draft')
    BY <2>1
  <2> HIDE DEF resolved
  <2> QED BY <2>1, <2>2 DEF AnswerInv
<1>4. CASE Judge
  <2>1. /\ asking = "judge" /\ asking' = "done" /\ verdict'.figures = Figures
        /\ UNCHANGED <<searches, evidence, results, draft, answer, citations, unresolved>>
    BY <1>4 DEF Judge
  <2>2. Figures' = Figures
    BY <2>1 DEF Figures, CitedText
  <2> QED BY <2>1, <2>2 DEF AnswerInv
<1>5. CASE UNCHANGED answerVars
  <2>1. Figures' = Figures
    BY <1>5 DEF Figures, CitedText, answerVars
  <2> QED BY <1>5, <2>1 DEF AnswerInv, answerVars
<1> QED BY <1>1, <1>2, <1>3, <1>4, <1>5 DEF AnswerNext

\* It says that references and figures lead back.
LEMMA AnswerInvSays == AnswerInv => AnswerLeadsBack
<1> SUFFICES ASSUME AnswerInv PROVE AnswerLeadsBack
  OBVIOUS
<1> DEFINE r == Resolved(evidence, draft)
<1>1. /\ evidence \in Seq(Items) /\ Once(evidence)
      /\ \A i \in DOMAIN evidence : evidence[i].chunk \in Allowed
  <2>1. evidence \in Seq(Items) /\ Once(evidence)
    BY DEF AnswerInv, Gatherings
  <2>2. \A x \in Items : x.chunk \in Allowed
    BY DEF Items
  <2> QED BY <2>1, <2>2
<1>2. \A m : Shown(m) = ShownIn(evidence, m)
  BY DEF Shown, ShownIn
<1>3. asking # "gather" =>
        /\ draft \in Seq(Paras) /\ WellResolved(evidence, draft, r)
        /\ answer = r.text /\ citations = r.cited /\ unresolved = r.lost
  BY DraftsAre, TextResolved DEF AnswerInv
<1> HIDE DEF r
<1>4. ASSUME asking # "gather"
      PROVE
        /\ draft \in Seq(Paras) /\ citations \in Seq(Allowed) /\ answer \in Seq(Written)
        /\ Len(answer) = Len(draft) /\ Len(draft) \in Nat
        /\ DOMAIN answer = 1..Len(draft) /\ DOMAIN draft = 1..Len(draft) /\ DOMAIN citations = 1..Len(citations)
        /\ \A i \in 1..Len(draft) : Matches(evidence, answer[i].refs, draft[i].marks, citations)
        /\ Numbers(FlattenSeq(RefsOf(answer)), citations)
        /\ \A n \in 1..Len(citations) : \E i \in 1..Len(draft) : n \in ToSet(answer[i].refs)
        /\ ToSet(unresolved) = UNION {Unmet(evidence, draft[i].marks) : i \in 1..Len(draft)}
  <2>1. r \in Accs /\ r.text \in Seq(Written) /\ r.cited \in Seq(Allowed)
    BY <1>3, <1>4 DEF WellResolved, Accs, Bibliographies
  <2>2. /\ draft \in Seq(Paras) /\ Len(answer) = Len(draft) /\ Len(draft) \in Nat
        /\ DOMAIN answer = 1..Len(answer) /\ DOMAIN draft = 1..Len(draft) /\ DOMAIN citations = 1..Len(citations)
    BY <1>3, <1>4, <2>1 DEF WellResolved
  <2>3. /\ \A i \in 1..Len(draft) : Matches(evidence, answer[i].refs, draft[i].marks, citations)
        /\ Numbers(FlattenSeq(RefsOf(answer)), citations)
        /\ \A n \in 1..Len(citations) : \E i \in 1..Len(draft) : n \in ToSet(answer[i].refs)
        /\ ToSet(unresolved) = UNION {Unmet(evidence, draft[i].marks) : i \in 1..Len(draft)}
    BY <1>3, <1>4, Zenon DEF WellResolved
  <2> QED BY <1>3, <1>4, <2>1, <2>2, <2>3
<1>5. ASSUME asking # "gather", NEW i \in 1..Len(draft)
      PROVE  /\ draft[i].marks \in Seq(Marks) /\ answer[i].refs \in Seq(Nat)
             /\ Kept(draft[i].marks, {m \in ToSet(draft[i].marks) : Shown(m) # {}})
                  = Kept(draft[i].marks, Live(evidence))
  <2>1. draft[i].marks \in Seq(Marks) /\ answer[i].refs \in Seq(Nat)
    <3>1. draft[i] \in Paras /\ answer[i] \in Written
      BY <1>4, <1>5
    <3> QED BY <3>1, DraftsAre DEF Written
  <2>2. ToSet(draft[i].marks) \subseteq Marks
    BY <2>1, MembersFinite
  <2>3. ToSet(draft[i].marks) \cap {m \in ToSet(draft[i].marks) : Shown(m) # {}}
          = ToSet(draft[i].marks) \cap Live(evidence)
    BY <1>2, <2>2 DEF Live
  <2> QED BY <2>1, <2>3, KeptSame
<1>6. CitesWhatWasShown
  <2>1. AnswerTypeOK
    <3>1. ASSUME NEW i \in DOMAIN answer, NEW k \in DOMAIN answer[i].refs
          PROVE  answer[i].refs[k] \in DOMAIN citations
      <4>1. asking # "gather"
        BY DEF AnswerInv
      <4>2. i \in 1..Len(draft)
        BY <1>4, <4>1
      <4>3. answer[i].refs \in Seq(Nat) /\ Matches(evidence, answer[i].refs, draft[i].marks, citations)
        BY <1>4, <1>5, <4>1, <4>2
      <4>4. k \in 1..Len(answer[i].refs)
        BY <4>3
      <4>5. answer[i].refs[k] \in 1..Len(citations)
        BY <4>3, <4>4 DEF Matches
      <4> QED BY <1>4, <4>1, <4>5
    <3> QED BY <3>1 DEF AnswerTypeOK, AnswerInv
  <2>2. ASSUME asking # "gather"
        PROVE  /\ \A i \in DOMAIN answer :
                    LET marks == Kept(draft[i].marks, {m \in ToSet(draft[i].marks) : Shown(m) # {}})
                    IN  /\ Len(answer[i].refs) = Len(marks)
                        /\ \A k \in DOMAIN marks : Shown(marks[k]) = {citations[answer[i].refs[k]]}
               /\ FirstMet(FlattenSeq([i \in DOMAIN answer |-> answer[i].refs]))
               /\ ToSet(unresolved) = UNION {{m \in ToSet(draft[i].marks) : Shown(m) = {}} :
                                                i \in DOMAIN draft}
    <3>1. ASSUME NEW i \in DOMAIN answer
          PROVE  LET marks == Kept(draft[i].marks, {m \in ToSet(draft[i].marks) : Shown(m) # {}})
                 IN  /\ Len(answer[i].refs) = Len(marks)
                     /\ \A k \in DOMAIN marks : Shown(marks[k]) = {citations[answer[i].refs[k]]}
      <4> DEFINE live == Kept(draft[i].marks, Live(evidence))
      <4>1. i \in 1..Len(draft)
        BY <1>4, <2>2
      <4>2. /\ draft[i].marks \in Seq(Marks)
            /\ Kept(draft[i].marks, {m \in ToSet(draft[i].marks) : Shown(m) # {}}) = live
        BY <1>5, <2>2, <4>1
      <4>3. live \in Seq(Marks \cap Live(evidence))
        BY <4>2, KeptType
      <4>4. /\ Len(answer[i].refs) = Len(live)
            /\ \A k \in 1..Len(live) : ShownIn(evidence, live[k]) = {citations[answer[i].refs[k]]}
        BY <1>4, <2>2, <4>1 DEF Matches
      <4> HIDE DEF live
      <4>5. DOMAIN live = 1..Len(live)
        BY <4>3
      <4> QED BY <1>2, <4>2, <4>4, <4>5
    <3>2. FirstMet(FlattenSeq([i \in DOMAIN answer |-> answer[i].refs]))
      BY <1>4, <2>2 DEF Numbers, RefsOf
    <3>3. ToSet(unresolved) = UNION {{m \in ToSet(draft[i].marks) : Shown(m) = {}} : i \in DOMAIN draft}
      <4>1. \A i : Unmet(evidence, draft[i].marks) = {m \in ToSet(draft[i].marks) : Shown(m) = {}}
        BY <1>2 DEF Unmet
      <4> QED BY <1>4, <2>2, <4>1
    <3> QED BY <3>1, <3>2, <3>3
  <2>3. \A i, j \in DOMAIN evidence : i # j => evidence[i].chunk # evidence[j].chunk
    BY <1>1 DEF Once
  <2> QED BY <1>1, <2>1, <2>2, <2>3 DEF CitesWhatWasShown
<1>7. FiguresAreAccountedFor
  <2> SUFFICES ASSUME asking = "done", NEW f \in verdict.figures
               PROVE  /\ \A n \in f.sources :
                           /\ \E i \in DOMAIN answer : Contains(answer[i].refs, n)
                           /\ citations[n] \in Allowed /\ f.value \in Passage[citations[n]]
                      /\ f.computed => results.ok /\ f.value \in {results.value} \cup results.working
    BY DEF FiguresAreAccountedFor
  <2>1. f \in Figures /\ asking # "gather"
    BY DEF AnswerInv
  <2>2. PICK v : /\ f.value = v /\ f.sources = {n \in DOMAIN citations : v \in CitedText(n)}
                 /\ f.computed => v \in Derived(results)
    BY <2>1 DEF Figures
  <2>3. ASSUME NEW n \in f.sources
        PROVE  /\ \E i \in DOMAIN answer : Contains(answer[i].refs, n)
               /\ citations[n] \in Allowed /\ f.value \in Passage[citations[n]]
    <3>1. n \in 1..Len(citations) /\ f.value \in Passage[citations[n]] /\ citations[n] \in Allowed
      BY <1>4, <2>1, <2>2 DEF CitedText
    <3>2. PICK i \in 1..Len(draft) : n \in ToSet(answer[i].refs)
      BY <1>4, <2>1, <3>1
    <3>3. answer[i].refs \in Seq(Nat)
      BY <1>5, <2>1
    <3>4. Contains(answer[i].refs, n)
      BY <3>2, <3>3 DEF Contains, ToSet
    <3> QED BY <1>4, <2>1, <3>1, <3>4
  <2>4. f.computed => results.ok /\ f.value \in {results.value} \cup results.working
    BY <2>2 DEF Derived
  <2> QED BY <2>3, <2>4
<1> QED BY <1>6, <1>7 DEF AnswerLeadsBack

\* In every run, what a person reads in an answer leads back to what was retrieved for
\* them: each reference to the passage its mark pointed at in the list the model was
\* shown, each figure said to be accounted for to a passage referred to or to a
\* calculation (search, merge_evidence, resolve_markers, verify).
THEOREM AnswersLeadBack == AnswerSpec => []AnswerLeadsBack
<1>1. AnswerInit => AnswerInv
  BY AnswerInvStarts
<1>2. AnswerInv /\ [AnswerNext]_answerVars => AnswerInv'
  BY AnswerInvHolds
<1>3. AnswerInv => AnswerLeadsBack
  BY AnswerInvSays
<1> QED BY <1>1, <1>2, <1>3, PTL DEF AnswerSpec

-----------------------------------------------------------------------------
(***************************************************************************)
(* Pages and how they were read.                                           *)
(***************************************************************************)

\* What a block may be: in the file, and once it is taken from it or read.
BlockTypes ==
  {b.type : b \in UNION {UNION {ToSet(p.layer) : p \in ToSet(u.pages)} : u \in UploadedFiles}}
     \cup {"heading", "table", "sampled", "paragraph"}

FileBlocks == [type : BlockTypes, words : Nat, y : Int]

ReadBlocks == [type : BlockTypes, words : Nat, y : Int, source : {"native", "office", "ocr", "vlm"},
               confidence : Nat, order : Nat]

\* What is kept of blocks are those with a text, all of them, in their order.
LEMMA FilledIs ==
  ASSUME NEW S, NEW s \in Seq(S)
  PROVE  /\ Filled(s) \in Seq(S)
         /\ \A i \in 1..Len(Filled(s)) : Filled(s)[i].words > 0 /\ \E j \in 1..Len(s) : Filled(s)[i] = s[j]
         /\ \A j \in 1..Len(s) : s[j].words > 0 => \E i \in 1..Len(Filled(s)) : Filled(s)[i] = s[j]
<1> DEFINE A == {b \in ToSet(s) : b.words > 0}
           K == Kept(s, A)
<1>1. K \in Seq(S \cap A) /\ \A j \in 1..Len(s) : s[j] \in A => \E i \in 1..Len(K) : K[i] = s[j]
  BY KeptType, KeptMembers
<1>2. \A i \in 1..Len(K) : \E j \in 1..Len(s) : K[i] = s[j]
  <2> HIDE DEF A
  <2> QED BY KeptInOrder
<1>3. \A j \in 1..Len(s) : s[j].words > 0 => s[j] \in A
  BY DEF ToSet
<1>4. Filled(s) = K
  BY DEF Filled
<1> HIDE DEF K
<1>5. K \in Seq(S) /\ \A i \in 1..Len(K) : K[i] \in A
  BY <1>1
<1>6. \A i \in 1..Len(K) : K[i].words > 0
  BY <1>5
<1> QED BY <1>1, <1>2, <1>3, <1>4, <1>5, <1>6

\* The order blocks are read in.
Reading(kept) ==
  {p \in (DOMAIN kept) \X (DOMAIN kept) :
      \/ Precedes(kept[p[1]], kept[p[2]])
      \/ ~Precedes(kept[p[2]], kept[p[1]]) /\ p[1] <= p[2]}

\* It is an order: of two blocks in one place the first one taken comes first.
LEMMA ReadingOrders ==
  ASSUME NEW kept \in Seq(ReadBlocks)
  PROVE  /\ Orders(Reading(kept), DOMAIN kept)
         /\ \A a, b \in DOMAIN kept : <<a, b>> \in Reading(kept) => kept[a].y <= kept[b].y
<1> DEFINE D == DOMAIN kept
           R == Reading(kept)
           y(a) == kept[a].y
           o(a) == kept[a].order
           B(a, b) == y(a) < y(b) \/ (y(a) = y(b) /\ o(a) < o(b))
<1>1. \A a \in D : a \in Nat /\ y(a) \in Int /\ o(a) \in Nat
  <2>1. \A a \in D : a \in Nat /\ kept[a] \in ReadBlocks
    OBVIOUS
  <2>2. \A x \in ReadBlocks : x.y \in Int /\ x.order \in Nat
    BY DEF ReadBlocks
  <2> QED BY <2>1, <2>2
<1>2. \A a, b \in D : <<a, b>> \in R <=> B(a, b) \/ (~B(b, a) /\ a <= b)
  BY DEF Reading, Precedes
<1> HIDE DEF D, R, y, o
<1>3. \A a \in D : <<a, a>> \in R
  BY <1>1, <1>2
<1>4. \A a, b \in D : <<a, b>> \in R \/ <<b, a>> \in R
  <2> SUFFICES ASSUME NEW a \in D, NEW b \in D PROVE <<a, b>> \in R \/ <<b, a>> \in R
    OBVIOUS
  <2>1. a <= b \/ b <= a
    BY <1>1
  <2>2. (B(a, b) \/ (~B(b, a) /\ a <= b)) \/ (B(b, a) \/ (~B(a, b) /\ b <= a))
    BY <2>1
  <2> QED BY <1>2, <2>2
<1>5. \A a, b \in D : <<a, b>> \in R /\ <<b, a>> \in R => a = b
  BY <1>1, <1>2
<1>6. ASSUME NEW a \in D, NEW b \in D, NEW c \in D, <<a, b>> \in R, <<b, c>> \in R
      PROVE  <<a, c>> \in R
  <2>1. y(a) <= y(b) /\ y(b) <= y(c)
    BY <1>1, <1>2, <1>6
  <2>2. CASE y(a) < y(b) \/ y(b) < y(c)
    <3>1. y(a) < y(c)
      BY <1>1, <2>1, <2>2
    <3> QED BY <1>2, <3>1
  <2>3. CASE y(a) = y(b) /\ y(b) = y(c)
    <3>1. o(a) < o(b) \/ (o(a) = o(b) /\ a <= b)
      BY <1>1, <1>2, <1>6, <2>3
    <3>2. o(b) < o(c) \/ (o(b) = o(c) /\ b <= c)
      BY <1>1, <1>2, <1>6, <2>3
    <3>3. o(a) < o(c) \/ (o(a) = o(c) /\ a <= c)
      BY <1>1, <3>1, <3>2
    <3>4. B(a, c) \/ (~B(c, a) /\ a <= c)
      BY <1>1, <2>3, <3>3
    <3> QED BY <1>2, <3>4
  <2> QED BY <1>1, <2>1, <2>2, <2>3
<1>7. Orders(R, D)
  BY <1>3, <1>4, <1>5, <1>6, Zenon DEF Orders
<1>8. \A a, b \in D : <<a, b>> \in R => y(a) <= y(b)
  BY <1>1, <1>2
<1> QED BY <1>7, <1>8 DEF D, R, y

\* Two blocks that say the same of a text: what it is, where it stands, who read it
\* and how surely.
SameText(a, b) ==
  a.words = b.words /\ a.y = b.y /\ a.source = b.source /\ a.confidence = b.confidence

\* A page after its blocks have been put in order.
InOrderOf(done, blocks) ==
  /\ done \in Seq(ReadBlocks)
  /\ \A k \in 1..Len(done) : done[k].order = k /\ (k > 1 => done[k - 1].y <= done[k].y)
  /\ \A k \in 1..Len(done) : \E j \in 1..Len(blocks) : blocks[j].words > 0 /\ SameText(done[k], blocks[j])
  /\ \A j \in 1..Len(blocks) : blocks[j].words > 0 => \E k \in 1..Len(done) : SameText(done[k], blocks[j])

\* Each text of a page comes once it is normalised, in the order of its place, and
\* nothing else does (_normalise).
LEMMA NormalisedIs ==
  ASSUME NEW blocks \in Seq(ReadBlocks)
  PROVE  InOrderOf(Normalised(blocks), blocks)
<1> DEFINE kept == Filled(blocks)
           D == DOMAIN kept
           R == Reading(kept)
           n == Len(kept)
           At(k) == InPlace(k, D, R)
           done == Normalised(blocks)
<1>1. /\ kept \in Seq(ReadBlocks)
      /\ \A i \in 1..n : kept[i].words > 0 /\ \E j \in 1..Len(blocks) : kept[i] = blocks[j]
      /\ \A j \in 1..Len(blocks) : blocks[j].words > 0 => \E i \in 1..n : kept[i] = blocks[j]
  BY FilledIs
<1>2. done = [k \in D |-> [kept[At(k)] EXCEPT !.order = k]]
  BY Zenon DEF Normalised, Reading
<1> HIDE DEF kept, done
<1>3. n \in Nat /\ D = 1..n /\ IsFiniteSet(D) /\ Cardinality(D) = n
  <2>1. n \in Nat /\ D = 1..n
    BY <1>1
  <2>2. IsFiniteSet(1..n) /\ Cardinality(1..n) = n
    <3>1. IsFiniteSet(1..n) /\ Cardinality(1..n) = IF 1 > n THEN 0 ELSE n - 1 + 1
      <4>1. 1 \in Int /\ n \in Int
        BY <2>1
      <4> HIDE DEF n
      <4> QED BY <4>1, FS_Interval
    <3> QED BY <2>1, <3>1
  <2> QED BY <2>1, <2>2
<1>4. Orders(R, D) /\ \A a, b \in D : <<a, b>> \in R => kept[a].y <= kept[b].y
  BY <1>1, ReadingOrders
<1> HIDE DEF R, D, n
<1>5. /\ \A k \in 1..n : At(k) \in D
      /\ \A x \in D : Cardinality(NoLater(x, D, R)) \in 1..n /\ At(Cardinality(NoLater(x, D, R))) = x
      /\ \A k, l \in 1..n : k < l => <<At(k), At(l)>> \in R
  BY <1>3, <1>4, PlacesAre
<1> HIDE DEF At
<1>6. ASSUME NEW k \in 1..n
      PROVE  done[k] \in ReadBlocks /\ done[k].order = k /\ SameText(done[k], kept[At(k)])
  <2>1. kept[At(k)] \in ReadBlocks /\ k \in Nat
    <3>1. At(k) \in 1..n /\ k \in Nat
      BY <1>3, <1>5
    <3> QED BY <1>1, <3>1 DEF n
  <2>2. done[k] = [kept[At(k)] EXCEPT !.order = k]
    BY <1>2, <1>3
  <2>3. \A x \in ReadBlocks : [x EXCEPT !.order = k] \in ReadBlocks /\ [x EXCEPT !.order = k].order = k
                               /\ SameText([x EXCEPT !.order = k], x)
    BY <2>1 DEF ReadBlocks, SameText
  <2> QED BY <2>1, <2>2, <2>3
<1>7. done \in Seq(ReadBlocks) /\ Len(done) = n
  <2>1. DOMAIN done = 1..n /\ \A k \in 1..n : done[k] \in ReadBlocks
    BY <1>2, <1>3, <1>6
  <2>2. done = [k \in 1..n |-> done[k]]
    BY <1>2, <1>3
  <2>3. done \in [1..n -> ReadBlocks]
    BY <2>1, <2>2
  <2> QED BY <1>3, <2>3
<1>8. ASSUME NEW k \in 1..n, k > 1 PROVE done[k - 1].y <= done[k].y
  <2>1. k - 1 \in 1..n /\ k - 1 < k
    BY <1>3, <1>8
  <2>2. At(k - 1) \in D /\ At(k) \in D /\ <<At(k - 1), At(k)>> \in R
    BY <1>5, <2>1
  <2>3. kept[At(k - 1)].y <= kept[At(k)].y
    BY <1>4, <2>2
  <2> QED BY <1>6, <2>1, <2>3 DEF SameText
<1>9. ASSUME NEW k \in 1..n PROVE \E j \in 1..Len(blocks) : blocks[j].words > 0 /\ SameText(done[k], blocks[j])
  <2>1. At(k) \in 1..n
    BY <1>3, <1>5
  <2>2. kept[At(k)].words > 0 /\ \E j \in 1..Len(blocks) : kept[At(k)] = blocks[j]
    BY <1>1, <2>1
  <2> QED BY <1>6, <2>2
<1>10. ASSUME NEW j \in 1..Len(blocks), blocks[j].words > 0
       PROVE  \E k \in 1..n : SameText(done[k], blocks[j])
  <2>1. PICK i \in 1..n : kept[i] = blocks[j]
    BY <1>1, <1>10
  <2>2. Cardinality(NoLater(i, D, R)) \in 1..n /\ At(Cardinality(NoLater(i, D, R))) = i
    BY <1>3, <1>5
  <2> QED BY <1>6, <2>1, <2>2
<1> QED BY <1>6, <1>7, <1>8, <1>9, <1>10 DEF InOrderOf, done

\* Blocks that come of a text layer.
LayerBlocks == {b \in ReadBlocks : b.source \in {"native", "office"}}

\* What a text layer holds, by the way files are read.
LEMMA LayersAre ==
  ASSUME NEW u \in UploadedFiles, NEW p \in ToSet(u.pages)
  PROVE  p.layer \in Seq(FileBlocks)
<1>1. p.layer \in Seq(ToSet(p.layer))
  BY FilesAreRead
<1>2. \A b \in ToSet(p.layer) : b \in FileBlocks
  <2> SUFFICES ASSUME NEW b \in ToSet(p.layer) PROVE b \in FileBlocks
    OBVIOUS
  <2>1. b = [type |-> b.type, words |-> b.words, y |-> b.y] /\ b.words \in Nat /\ b.y \in Int
    BY FilesAreRead
  <2>2. b.type \in BlockTypes
    BY DEF BlockTypes
  <2> QED BY <2>1, <2>2 DEF FileBlocks
<1>3. \A i \in 1..Len(p.layer) : p.layer[i] \in FileBlocks
  BY <1>1, <1>2
<1> QED BY <1>1, <1>3

\* The words of blocks are a number, and that is none if no block has any.
LEMMA WordsAre ==
  ASSUME NEW S, \A b \in S : b.words \in Nat, NEW blocks \in Seq(S)
  PROVE  /\ WordsOf(blocks) \in Nat
         /\ WordsOf(blocks) = 0 <=> \A i \in 1..Len(blocks) : ~(blocks[i].words > 0)
<1> DEFINE counts == [i \in DOMAIN blocks |-> blocks[i].words]
<1>1. /\ DOMAIN blocks = 1..Len(blocks) /\ Len(blocks) \in Nat
      /\ \A i \in 1..Len(blocks) : blocks[i].words \in Nat
  OBVIOUS
<1>2. counts \in Seq(Nat) /\ Len(counts) = Len(blocks) /\ \A i \in 1..Len(blocks) : counts[i] = blocks[i].words
  BY <1>1
<1>3. WordsOf(blocks) = Summed(counts)
  BY DEF WordsOf
<1> HIDE DEF counts
<1>4. Summed(counts) \in Nat /\ (Summed(counts) = 0 <=> \A i \in 1..Len(counts) : counts[i] = 0)
  BY <1>2, SummedIs
<1> QED BY <1>1, <1>2, <1>3, <1>4

\* Some of the blocks of a file, in one place or another, are blocks of it.
LEMMA PartsAre ==
  ASSUME NEW s \in Seq(FileBlocks), NEW type
  PROVE  /\ Filled(s) \in Seq(FileBlocks) /\ Unplaced(s) \in Seq(FileBlocks)
         /\ OfType(s, type) \in Seq(FileBlocks) /\ AllBut(s, type) \in Seq(FileBlocks)
<1>1. Filled(s) \in Seq(FileBlocks)
  BY FilledIs
<1>2. \A A : Kept(s, A) \in Seq(FileBlocks)
  <2> SUFFICES ASSUME NEW A PROVE Kept(s, A) \in Seq(FileBlocks)
    OBVIOUS
  <2>1. Kept(s, A) \in Seq(FileBlocks \cap A)
    BY KeptType
  <2> QED BY <2>1
<1>3. OfType(s, type) \in Seq(FileBlocks) /\ AllBut(s, type) \in Seq(FileBlocks)
  BY <1>2 DEF OfType, AllBut
<1>4. Unplaced(s) \in Seq(FileBlocks)
  <2>1. DOMAIN s = 1..Len(s) /\ Len(s) \in Nat /\ \A i \in 1..Len(s) : s[i] \in FileBlocks
    OBVIOUS
  <2>2. \A b \in FileBlocks : [b EXCEPT !.y = 0] \in FileBlocks
    BY DEF FileBlocks
  <2>3. [i \in 1..Len(s) |-> [s[i] EXCEPT !.y = 0]] \in [1..Len(s) -> FileBlocks]
    BY <2>1, <2>2
  <2> QED BY <2>1, <2>3 DEF Unplaced
<1> QED BY <1>1, <1>3, <1>4

\* Taken from a file, blocks say that they are.
LEMMA TakenAre ==
  ASSUME NEW s \in Seq(FileBlocks), NEW source \in {"native", "office"}
  PROVE  Taken(s, source) \in Seq(LayerBlocks)
<1> DEFINE taken(i) == [type |-> s[i].type, words |-> s[i].words, y |-> s[i].y,
                        source |-> source, confidence |-> 100, order |-> i]
<1>1. DOMAIN s = 1..Len(s) /\ Len(s) \in Nat /\ \A i \in 1..Len(s) : s[i] \in FileBlocks /\ i \in Nat
  OBVIOUS
<1>2. \A i \in 1..Len(s) : taken(i) \in LayerBlocks
  <2> SUFFICES ASSUME NEW i \in 1..Len(s) PROVE taken(i) \in LayerBlocks
    OBVIOUS
  <2>1. s[i].type \in BlockTypes /\ s[i].words \in Nat /\ s[i].y \in Int
    BY <1>1 DEF FileBlocks
  <2> QED BY <1>1, <2>1 DEF LayerBlocks, ReadBlocks
<1>3. [i \in 1..Len(s) |-> taken(i)] \in [1..Len(s) -> LayerBlocks]
  BY <1>2
<1> HIDE DEF taken
<1>4. Taken(s, source) = [i \in 1..Len(s) |-> taken(i)]
  BY <1>1, Zenon DEF Taken, taken
<1> QED BY <1>1, <1>3, <1>4

\* A page is read from its text layer in one of these ways.
LEMMA PagesAre ==
  ASSUME NEW p, p.layer \in Seq(FileBlocks)
  PROVE  /\ PdfPage(p) \in Seq(LayerBlocks) /\ WordPage(p) \in Seq(LayerBlocks)
         /\ SlidePage(p) \in Seq(LayerBlocks) /\ SheetPage(p) \in Seq(LayerBlocks)
         /\ TextPage(p) \in Seq(LayerBlocks)
<1> DEFINE kept == Filled(p.layer)
           S == Seq(FileBlocks)
<1>1. kept \in S
  BY PartsAre
<1>2. PdfPage(p) \in Seq(LayerBlocks)
  <2>1. Taken(kept, "native") \in Seq(LayerBlocks)
    BY <1>1, TakenAre
  <2>2. <<>> \in Seq(LayerBlocks)
    OBVIOUS
  <2> QED BY <2>1, <2>2 DEF PdfPage
<1> HIDE DEF kept
<1>3. OfType(kept, "table") \in S /\ AllBut(kept, "table") \in S /\ OfType(kept, "notes") \in S
      /\ AllBut(kept, "notes") \in S /\ Unplaced(kept) \in S
  BY <1>1, PartsAre
<1>4. \A a, b \in S : a \o b \in S /\ Unplaced(a) \in S
  BY PartsAre, ConcatProperties
<1>5. WordPage(p) \in Seq(LayerBlocks)
  <2>1. Unplaced(AllBut(kept, "table") \o OfType(kept, "table")) \in S
    BY <1>3, <1>4
  <2>2. Taken(Unplaced(AllBut(kept, "table") \o OfType(kept, "table")), "office") \in Seq(LayerBlocks)
    BY <2>1, TakenAre
  <2> QED BY <2>2 DEF WordPage, kept
<1>6. SlidePage(p) \in Seq(LayerBlocks)
  <2>1. AllBut(kept, "notes") \o Unplaced(OfType(kept, "notes")) \in S
    BY <1>3, <1>4
  <2>2. Taken(AllBut(kept, "notes") \o Unplaced(OfType(kept, "notes")), "office") \in Seq(LayerBlocks)
    BY <2>1, TakenAre
  <2> QED BY <2>2 DEF SlidePage, kept
<1>7. TextPage(p) \in Seq(LayerBlocks)
  <2>1. Taken(Unplaced(kept), "native") \in Seq(LayerBlocks)
    BY <1>3, TakenAre
  <2> QED BY <2>1 DEF TextPage, kept
<1>8. SheetPage(p) \in Seq(LayerBlocks)
  <2> DEFINE rows == Len(p.layer)
             m == Min({SampleRows, rows})
             sample == SubSeq(p.layer, 1, m)
             Piece(type, words) == [type |-> type, words |-> words, y |-> 0]
             start == <<Piece("heading", 1), Piece("table", WordsOf(sample) + 1)>>
             more == IF rows > SampleRows THEN <<Piece("sampled", 1)>> ELSE <<>>
  <2>1. m \in Nat /\ m <= rows /\ rows \in Nat
    <3>1. SampleRows \in Nat /\ rows \in Nat
      BY ReadingsAreRead
    <3>2. \E x \in {SampleRows, rows} : \A y \in {SampleRows, rows} : x <= y
      BY <3>1
    <3>3. m \in {SampleRows, rows} /\ \A y \in {SampleRows, rows} : m <= y
      BY <3>2 DEF Min
    <3> QED BY <3>1, <3>3
  <2>2. sample \in S
    <3> HIDE DEF m
    <3>1. 1 \in 1..(Len(p.layer) + 1) /\ m \in (1 - 1)..Len(p.layer)
      BY <2>1
    <3> QED BY <3>1, SubSeqProperties
  <2> HIDE DEF sample, m
  <2>3. WordsOf(sample) + 1 \in Nat
    <3>1. \A b \in FileBlocks : b.words \in Nat
      BY DEF FileBlocks
    <3>2. WordsOf(sample) \in Nat
      BY <2>2, <3>1, WordsAre
    <3> QED BY <3>2
  <2>4. Piece("heading", 1) \in FileBlocks /\ Piece("table", WordsOf(sample) + 1) \in FileBlocks
        /\ Piece("sampled", 1) \in FileBlocks
    BY <2>3 DEF FileBlocks, BlockTypes
  <2> HIDE DEF Piece
  <2>5. start \in S /\ more \in S
    BY <2>4
  <2>6. start \o more \in S
    <3> HIDE DEF start, more
    <3> QED BY <1>4, <2>5
  <2>7. Taken(start \o more, "office") \in Seq(LayerBlocks)
    <3> HIDE DEF start, more
    <3> QED BY <2>6, TakenAre
  <2>8. SheetPage(p) = Taken(start \o more, "office")
    BY DEF SheetPage, Piece, sample, m
  <2> QED BY <2>7, <2>8
<1> QED BY <1>2, <1>5, <1>6, <1>7, <1>8

\* A file is read to pages of such blocks.
LEMMA ExtractedAre ==
  ASSUME NEW u \in UploadedFiles, Detected(u) \in AllowedKinds
  PROVE  Extracted(u) \in Seq(Seq(LayerBlocks))
<1> DEFINE L == Seq(LayerBlocks)
           n == Len(u.pages)
           filled == Kept(u.pages, {p \in ToSet(u.pages) : p.layer # <<>>})
<1>1. u.pages \in Seq(ToSet(u.pages)) /\ n \in Nat /\ DOMAIN u.pages = 1..n
      /\ \A i \in 1..n : u.pages[i] \in ToSet(u.pages)
  <2>1. u.pages \in Seq(ToSet(u.pages))
    BY FilesAreRead
  <2> QED BY <2>1
<1>2. \A p \in ToSet(u.pages) : PdfPage(p) \in L /\ WordPage(p) \in L /\ SlidePage(p) \in L
                                /\ SheetPage(p) \in L /\ TextPage(p) \in L
  BY LayersAre, PagesAre
<1>3. filled \in Seq(ToSet(u.pages))
  <2> DEFINE A == {p \in ToSet(u.pages) : p.layer # <<>>}
  <2>1. filled \in Seq(ToSet(u.pages) \cap A)
    BY <1>1, KeptType
  <2> QED BY <2>1
<1> HIDE DEF filled
<1>4. <<>> \in L
  OBVIOUS
<1> HIDE DEF L
<1>5. CASE Detected(u) = "pdf"
  <2>1. [i \in 1..n |-> PdfPage(u.pages[i])] \in Seq(L)
    BY <1>1, <1>2
  <2> QED BY <1>1, <1>5, <2>1 DEF Extracted, L
<1>6. CASE Detected(u) = "image"
  <2>1. <<(<<>>)>> \in Seq(L)
    BY <1>4
  <2> QED BY <1>6, <2>1 DEF Extracted, L
<1>7. CASE Detected(u) = "word"
  <2>1. 1 \in 1..n
    <3>1. u.kind = "word"
      BY <1>7 DEF Detected
    <3>2. u.pages # <<>>
      BY <3>1, FilesAreRead
    <3> QED BY <1>1, <3>2
  <2>2. <<WordPage(u.pages[1])>> \in Seq(L)
    BY <1>1, <1>2, <2>1
  <2> QED BY <1>7, <2>2 DEF Extracted, L
<1>8. CASE Detected(u) = "slides"
  <2>1. [i \in 1..n |-> SlidePage(u.pages[i])] \in Seq(L)
    BY <1>1, <1>2
  <2> QED BY <1>1, <1>8, <2>1 DEF Extracted, L
<1>9. CASE Detected(u) \in {"sheet", "csv"}
  <2>1. DOMAIN filled = 1..Len(filled) /\ Len(filled) \in Nat /\ \A i \in 1..Len(filled) : filled[i] \in ToSet(u.pages)
    BY <1>3
  <2>2. [i \in 1..Len(filled) |-> SheetPage(filled[i])] \in Seq(L)
    BY <1>2, <2>1
  <2>3. [i \in DOMAIN filled |-> SheetPage(filled[i])] \in Seq(L)
    BY <2>1, <2>2
  <2>4. Extracted(u) = [i \in DOMAIN filled |-> SheetPage(filled[i])]
    BY <1>9 DEF Extracted, filled
  <2> QED BY <2>3, <2>4 DEF L
<1>10. CASE Detected(u) \in {"text", "email"}
  <2>1. 1 \in 1..n
    <3>1. u.kind \in {"word", "csv", "text", "email"}
      BY <1>10 DEF Detected
    <3>2. u.pages # <<>>
      BY <3>1, FilesAreRead
    <3> QED BY <1>1, <3>2
  <2>2. <<TextPage(u.pages[1])>> \in Seq(L)
    BY <1>1, <1>2, <2>1
  <2>3. Extracted(u) = <<TextPage(u.pages[1])>>
    BY <1>10 DEF Extracted
  <2> QED BY <2>2, <2>3 DEF L
<1> QED BY <1>5, <1>6, <1>7, <1>8, <1>9, <1>10 DEF AllowedKinds

\* Blocks that the recognition and the vision model have read.
OcrBlocks == {b \in ReadBlocks : b.source = "ocr"}

VlmBlocks == {b \in ReadBlocks : b.source = "vlm" /\ b.words > 0 /\ b.confidence <= 75}

\* What was recognised on a page is blocks that say so (_run_ocr).
LEMMA LinesAre ==
  ASSUME NEW r \in Recognitions
  PROVE  LineBlocks(r) \in Seq(OcrBlocks) /\ WordsOf(r.lines) \in Nat
<1> DEFINE n == Len(r.lines)
           Line(k) == [type |-> "paragraph", words |-> r.lines[k].words, y |-> r.lines[k].y,
                       source |-> "ocr", confidence |-> r.lines[k].confidence, order |-> k]
<1>1. r.lines \in Seq(ToSet(r.lines)) /\ \A l \in ToSet(r.lines) : l.words \in Nat /\ l.confidence \in Nat /\ l.y \in Int
  BY ReadingsAreRead
<1>2. n \in Nat /\ DOMAIN r.lines = 1..n /\ \A k \in 1..n : r.lines[k] \in ToSet(r.lines) /\ k \in Nat
  BY <1>1
<1>3. \A k \in 1..n : Line(k) \in OcrBlocks
  <2> SUFFICES ASSUME NEW k \in 1..n PROVE Line(k) \in OcrBlocks
    OBVIOUS
  <2>1. r.lines[k].words \in Nat /\ r.lines[k].confidence \in Nat /\ r.lines[k].y \in Int /\ k \in Nat
    BY <1>1, <1>2
  <2> QED BY <2>1 DEF OcrBlocks, ReadBlocks, BlockTypes
<1>4. [k \in 1..n |-> Line(k)] \in [1..n -> OcrBlocks]
  BY <1>3
<1> HIDE DEF Line
<1>5. LineBlocks(r) = [k \in 1..n |-> Line(k)]
  BY <1>2, Zenon DEF LineBlocks, Line
<1> HIDE DEF n
<1>6. LineBlocks(r) \in Seq(OcrBlocks)
  BY <1>2, <1>4, <1>5
<1>7. WordsOf(r.lines) \in Nat
  BY <1>1, WordsAre
<1> QED BY <1>6, <1>7

\* What the vision model has read says so too, and none of it passes for exact
\* (transcribe_page).
LEMMA TranscribedAre ==
  ASSUME NEW t \in Transcripts
  PROVE  Transcribed(t) \in Seq(VlmBlocks) /\ (t # <<>> => Transcribed(t) # <<>>)
<1> DEFINE n == Len(t)
           Para(k) == [type |-> "paragraph", words |-> t[k].words, y |-> 0, source |-> "vlm",
                       confidence |-> IF t[k].illegible THEN 52 ELSE 75, order |-> k]
<1>1. t \in Seq(ToSet(t)) /\ \A p \in ToSet(t) : p.words \in Nat /\ p.words # 0
  BY ReadingsAreRead
<1>2. n \in Nat /\ DOMAIN t = 1..n /\ (t # <<>> => n # 0) /\ \A k \in 1..n : t[k] \in ToSet(t) /\ k \in Nat
  BY <1>1
<1>3. \A k \in 1..n : Para(k) \in VlmBlocks
  <2> SUFFICES ASSUME NEW k \in 1..n PROVE Para(k) \in VlmBlocks
    OBVIOUS
  <2>1. t[k].words \in Nat /\ t[k].words > 0 /\ k \in Nat
    BY <1>1, <1>2
  <2>2. (IF t[k].illegible THEN 52 ELSE 75) \in Nat /\ (IF t[k].illegible THEN 52 ELSE 75) <= 75
    OBVIOUS
  <2> QED BY <2>1, <2>2 DEF VlmBlocks, ReadBlocks, BlockTypes
<1>4. [k \in 1..n |-> Para(k)] \in [1..n -> VlmBlocks]
  BY <1>3
<1> HIDE DEF Para
<1>5. Transcribed(t) = [k \in 1..n |-> Para(k)]
  BY <1>2, Zenon DEF Transcribed, Para
<1> HIDE DEF n
<1> QED BY <1>2, <1>4, <1>5

\* A page that was recognised: each of its lines with a text is there, and what says
\* that it was recognised is one of them.
HoldsLines(blocks, lines) ==
  /\ blocks \in Seq(OcrBlocks \cup VlmBlocks)
  /\ \A j \in 1..Len(lines) : lines[j].words > 0 => \E k \in 1..Len(blocks) : blocks[k] = lines[j]
  /\ \A k \in 1..Len(blocks) : blocks[k].source = "ocr" => \E j \in 1..Len(lines) : lines[j] = blocks[k]

\* The lines themselves hold themselves.
LEMMA LinesHold ==
  ASSUME NEW lines \in Seq(OcrBlocks)
  PROVE  HoldsLines(lines, lines) /\ \A k \in 1..Len(lines) : lines[k].source = "ocr"
BY DEF HoldsLines, OcrBlocks

\* A second reading takes nothing from them (_run_vision).
LEMMA MergedHolds ==
  ASSUME NEW lines \in Seq(OcrBlocks), NEW added \in Seq(VlmBlocks), added # <<>>
  PROVE  /\ HoldsLines(MergedWith(lines, added), lines)
         /\ \E k \in 1..Len(MergedWith(lines, added)) :
                MergedWith(lines, added)[k].source = "vlm" /\ MergedWith(lines, added)[k].words > 0
<1> DEFINE S == OcrBlocks \cup VlmBlocks
           n == Len(lines)
           merged == MergedWith(lines, added)
           Moved(k) == [added[k] EXCEPT !.order = n + k]
           moved == [k \in DOMAIN added |-> Moved(k)]
<1>1. /\ n \in Nat /\ \A j \in 1..n : lines[j] \in OcrBlocks
      /\ Len(added) \in Nat /\ Len(added) # 0 /\ DOMAIN added = 1..Len(added)
      /\ \A k \in 1..Len(added) : added[k] \in VlmBlocks
  OBVIOUS
<1>2. WordsOf(lines) = 0 <=> \A j \in 1..n : ~(lines[j].words > 0)
  <2>1. \A b \in OcrBlocks : b.words \in Nat
    BY DEF OcrBlocks, ReadBlocks
  <2> QED BY <2>1, WordsAre
<1>3. CASE WordsOf(lines) = 0
  <2>1. merged = added
    BY <1>3 DEF MergedWith
  <2>2. \A j \in 1..n : ~(lines[j].words > 0)
    BY <1>2, <1>3
  <2>3. added \in Seq(S) /\ \A k \in 1..Len(added) : added[k].source = "vlm" /\ added[k].words > 0
    BY <1>1 DEF VlmBlocks
  <2>4. HoldsLines(added, lines)
    BY <2>2, <2>3 DEF HoldsLines
  <2>5. 1 \in 1..Len(added)
    BY <1>1
  <2> QED BY <2>1, <2>3, <2>4, <2>5
<1>4. CASE WordsOf(lines) # 0
  <2>1. merged = lines \o moved
    BY <1>4 DEF MergedWith
  <2>2. \A k \in 1..Len(added) : Moved(k) \in VlmBlocks
    <3> SUFFICES ASSUME NEW k \in 1..Len(added) PROVE Moved(k) \in VlmBlocks
      OBVIOUS
    <3>1. added[k] \in VlmBlocks /\ n + k \in Nat
      BY <1>1
    <3>2. \A b \in VlmBlocks : [b EXCEPT !.order = n + k] \in VlmBlocks
      BY <3>1 DEF VlmBlocks, ReadBlocks
    <3> QED BY <3>1, <3>2
  <2>3. moved = [k \in 1..Len(added) |-> Moved(k)]
    BY <1>1
  <2>4. moved \in [1..Len(added) -> VlmBlocks]
    BY <2>2, <2>3
  <2> HIDE DEF moved, merged, n
  <2>5. moved \in Seq(VlmBlocks) /\ Len(moved) = Len(added)
    BY <1>1, <2>4
  <2>6. lines \in Seq(S) /\ moved \in Seq(S)
    BY <2>5
  <2>7. /\ lines \o moved \in Seq(S) /\ Len(lines \o moved) = n + Len(moved)
        /\ \A k \in 1..(n + Len(moved)) : (lines \o moved)[k] = IF k <= n THEN lines[k] ELSE moved[k - n]
    <3> HIDE DEF S
    <3>1. \A T : \A a, b \in Seq(T) :
             /\ a \o b \in Seq(T) /\ Len(a \o b) = Len(a) + Len(b)
             /\ \A k \in 1..(Len(a) + Len(b)) : (a \o b)[k] = IF k <= Len(a) THEN a[k] ELSE b[k - Len(a)]
      BY ConcatProperties
    <3> QED BY <2>6, <3>1 DEF n
  <2>8. \A k \in 1..Len(moved) : moved[k].source = "vlm" /\ moved[k].words > 0
    BY <2>5 DEF VlmBlocks
  <2>9. \A k \in 1..Len(merged) : (k \in 1..n /\ merged[k] = lines[k])
                                  \/ (k - n \in 1..Len(moved) /\ merged[k] = moved[k - n])
    BY <1>1, <2>1, <2>5, <2>7
  <2>10. \A j \in 1..n : j \in 1..Len(merged) /\ merged[j] = lines[j]
    BY <1>1, <2>1, <2>5, <2>7
  <2>11. n + 1 \in 1..Len(merged) /\ merged[n + 1] = moved[1] /\ 1 \in 1..Len(moved)
    BY <1>1, <2>1, <2>5, <2>7
  <2>12. \A k \in 1..Len(merged) : merged[k].source = "ocr" => k \in 1..n
    BY <2>8, <2>9
  <2>13. HoldsLines(merged, lines)
    BY <2>1, <2>7, <2>10, <2>12 DEF HoldsLines, n
  <2>14. merged[n + 1].source = "vlm" /\ merged[n + 1].words > 0
    BY <2>8, <2>11
  <2> QED BY <2>11, <2>13, <2>14 DEF merged
<1> QED BY <1>3, <1>4

\* Those of some blocks that come of one source.
ComeFrom(K, s, source) == K = Kept(s, {b \in ToSet(s) : b.source = source})

\* What they are.
LEMMA FromIs ==
  ASSUME NEW S, NEW s \in Seq(S), NEW source, NEW K, ComeFrom(K, s, source)
  PROVE  /\ K \in Seq(S)
         /\ \A i \in 1..Len(K) : \E k \in 1..Len(s) : K[i] = s[k] /\ s[k].source = source
         /\ \A k \in 1..Len(s) : s[k].source = source => \E i \in 1..Len(K) : K[i] = s[k]
         /\ K # <<>> <=> \E k \in 1..Len(s) : s[k].source = source
<1> DEFINE A == {b \in ToSet(s) : b.source = source}
<1>1. K = Kept(s, A) /\ (\A x \in A : x.source = source)
      /\ \A k \in 1..Len(s) : s[k].source = source => s[k] \in A
  BY DEF ComeFrom, ToSet
<1> HIDE DEF A
<1>2. \A i \in 1..Len(K) : \E k \in 1..Len(s) : K[i] = s[k]
  BY <1>1, KeptInOrder
<1>3. K \in Seq(S \cap A) /\ \A k \in 1..Len(s) : s[k] \in A => \E i \in 1..Len(K) : K[i] = s[k]
  BY <1>1, KeptType, KeptMembers
<1>4. K \in Seq(S) /\ \A i \in 1..Len(K) : K[i] \in A
  BY <1>3
<1>5. \A i \in 1..Len(K) : K[i].source = source
  BY <1>1, <1>4
<1>6. \A i \in 1..Len(K) : \E k \in 1..Len(s) : K[i] = s[k] /\ s[k].source = source
  BY <1>2, <1>5
<1>7. \A k \in 1..Len(s) : s[k].source = source => \E i \in 1..Len(K) : K[i] = s[k]
  BY <1>1, <1>3
<1>8. K # <<>> <=> 1 \in 1..Len(K)
  BY <1>4
<1>9. (\E i \in 1..Len(K) : TRUE) => 1 \in 1..Len(K)
  BY <1>4
<1> QED BY <1>4, <1>6, <1>7, <1>8, <1>9

\* What is compared of the blocks of a page.
LEMMA PlainIs ==
  ASSUME NEW S, NEW s \in Seq(S)
  PROVE  ToSet(Plain(s)) = {<<s[k].words, s[k].y, s[k].confidence>> : k \in 1..Len(s)}
<1>1. DOMAIN s = 1..Len(s) /\ Plain(s) = [k \in 1..Len(s) |-> <<s[k].words, s[k].y, s[k].confidence>>]
  BY DEF Plain
<1> QED BY <1>1 DEF ToSet

\* Put in order, a page still holds each line that was recognised, and no other.
LEMMA LinesAreKept ==
  ASSUME NEW lines \in Seq(OcrBlocks), NEW blocks, HoldsLines(blocks, lines),
         NEW done, InOrderOf(done, blocks),
         NEW K, ComeFrom(K, done, "ocr")
  PROVE  ToSet(Plain(K)) = ToSet(Plain(Filled(lines)))
<1> DEFINE F == Filled(lines)
           P(b) == <<b.words, b.y, b.confidence>>
<1>1. /\ F \in Seq(OcrBlocks)
      /\ \A i \in 1..Len(F) : F[i].words > 0 /\ \E j \in 1..Len(lines) : F[i] = lines[j]
      /\ \A j \in 1..Len(lines) : lines[j].words > 0 => \E i \in 1..Len(F) : F[i] = lines[j]
  BY FilledIs
<1>2. /\ done \in Seq(ReadBlocks)
      /\ \A k \in 1..Len(done) : \E j \in 1..Len(blocks) : blocks[j].words > 0 /\ SameText(done[k], blocks[j])
      /\ \A j \in 1..Len(blocks) : blocks[j].words > 0 => \E k \in 1..Len(done) : SameText(done[k], blocks[j])
  BY DEF InOrderOf
<1>3. /\ K \in Seq(ReadBlocks)
      /\ \A i \in 1..Len(K) : \E k \in 1..Len(done) : K[i] = done[k] /\ done[k].source = "ocr"
      /\ \A k \in 1..Len(done) : done[k].source = "ocr" => \E i \in 1..Len(K) : K[i] = done[k]
  BY <1>2, FromIs
<1>4. /\ \A j \in 1..Len(lines) : lines[j].words > 0 => \E k \in 1..Len(blocks) : blocks[k] = lines[j]
      /\ \A k \in 1..Len(blocks) : blocks[k].source = "ocr" => \E j \in 1..Len(lines) : lines[j] = blocks[k]
      /\ \A j \in 1..Len(lines) : lines[j].source = "ocr"
  <2>1. \A j \in 1..Len(lines) : lines[j] \in OcrBlocks
    OBVIOUS
  <2> QED BY <2>1 DEF HoldsLines, OcrBlocks
<1> HIDE DEF F
<1>5. ASSUME NEW i \in 1..Len(K) PROVE \E j \in 1..Len(F) : P(K[i]) = P(F[j])
  <2>1. PICK k \in 1..Len(done) : K[i] = done[k] /\ done[k].source = "ocr"
    BY <1>3
  <2>2. PICK j \in 1..Len(blocks) : blocks[j].words > 0 /\ SameText(done[k], blocks[j])
    BY <1>2
  <2>3. PICK l \in 1..Len(lines) : lines[l] = blocks[j]
    BY <1>4, <2>1, <2>2 DEF SameText
  <2>4. PICK m \in 1..Len(F) : F[m] = lines[l]
    BY <1>1, <2>2, <2>3
  <2>5. P(K[i]) = P(F[m])
    BY <2>1, <2>2, <2>3, <2>4 DEF SameText
  <2> QED BY <2>5
<1>6. ASSUME NEW j \in 1..Len(F) PROVE \E i \in 1..Len(K) : P(K[i]) = P(F[j])
  <2>1. PICK l \in 1..Len(lines) : F[j] = lines[l] /\ lines[l].words > 0
    BY <1>1
  <2>2. PICK k \in 1..Len(blocks) : blocks[k] = lines[l]
    BY <1>4, <2>1
  <2>3. PICK m \in 1..Len(done) : SameText(done[m], blocks[k])
    BY <1>2, <2>1, <2>2
  <2>4. PICK i \in 1..Len(K) : K[i] = done[m]
    <3>1. done[m].source = "ocr"
      BY <1>4, <2>2, <2>3 DEF SameText
    <3> QED BY <1>3, <3>1
  <2>5. P(K[i]) = P(F[j])
    BY <2>1, <2>2, <2>3, <2>4 DEF SameText
  <2> QED BY <2>5
<1>7. ToSet(Plain(K)) = {P(K[i]) : i \in 1..Len(K)}
  <2>1. K \in Seq(ReadBlocks)
    BY <1>3
  <2> QED BY <2>1, PlainIs
<1>8. ToSet(Plain(F)) = {P(F[j]) : j \in 1..Len(F)}
  BY <1>1, PlainIs
<1> HIDE DEF P
<1>9. {P(K[i]) : i \in 1..Len(K)} = {P(F[j]) : j \in 1..Len(F)}
  <2>1. \A x \in {P(K[i]) : i \in 1..Len(K)} : x \in {P(F[j]) : j \in 1..Len(F)}
    BY <1>5
  <2>2. \A x \in {P(F[j]) : j \in 1..Len(F)} : x \in {P(K[i]) : i \in 1..Len(K)}
    BY <1>6
  <2> QED BY <2>1, <2>2
<1> QED BY <1>7, <1>8, <1>9 DEF F

\* What can have been read on a page before it is put in order.
CanHaveRead(i) ==
  IF i \notin DOMAIN recognised THEN {Extracted(upload)[i]}
  ELSE IF i \notin reread THEN {LineBlocks(recognised[i])}
  ELSE {MergedWith(LineBlocks(recognised[i]), Transcribed(t)) : t \in Transcripts \ {<<>>}}

\* Of a page the gate was shown, a suspect one was read again or there is a warning,
\* and no other was read again.
Judged(i) ==
  /\ Suspect(recognised[i]) => i \in reread \/ warnings # {}
  /\ i \in reread => Suspect(recognised[i])

\* A recognised page had no text.
PagesRead ==
  /\ upload \in UploadedFiles /\ Detected(upload) \in AllowedKinds
  /\ DOMAIN pages = DOMAIN Extracted(upload)
  /\ DOMAIN recognised \subseteq DOMAIN pages /\ reread \subseteq DOMAIN recognised
  /\ \A i \in DOMAIN recognised :
        recognised[i] \in Recognitions /\ WordsOf(Extracted(upload)[i]) = 0

\* What holds between any two steps, by the stage a file is in.
ReadInv ==
  /\ progress \in {"new", "extract", "ocr", "vision", "finish", "done", "refused", "failed"}
  /\ progress \in {"new", "extract"} => recognised = <<>> /\ reread = {} /\ visited = {}
  /\ progress = "extract" => upload \in UploadedFiles /\ Detected(upload) \in AllowedKinds
  /\ progress \in {"ocr", "vision", "finish"} =>
        PagesRead /\ \A i \in DOMAIN pages : pages[i] \in CanHaveRead(i)
  /\ progress \in {"ocr", "vision"} => visited \subseteq DOMAIN pages /\ visited # DOMAIN pages
  /\ progress = "ocr" => reread = {} /\ DOMAIN recognised \subseteq visited
  /\ progress = "vision" => reread \subseteq visited /\ \A i \in visited \cap DOMAIN recognised : Judged(i)
  /\ progress \in {"finish", "done"} => \A i \in DOMAIN recognised : Judged(i)
  /\ progress = "done" =>
        /\ PagesRead /\ \A i \in DOMAIN pages : \E b \in CanHaveRead(i) : pages[i] = Normalised(b)
        /\ report.ocr = Cardinality(DOMAIN recognised) /\ report.vlm = Cardinality(reread)
        /\ warnings # {} => report.degraded

\* What has been read on a page has a kind.
LEMMA InvPages ==
  ASSUME upload \in UploadedFiles, Detected(upload) \in AllowedKinds
  PROVE  /\ Extracted(upload) \in Seq(Seq(LayerBlocks))
         /\ DOMAIN Extracted(upload) \in SUBSET (Nat \ {0})
         /\ \A i \in DOMAIN Extracted(upload) : Extracted(upload)[i] \in Seq(LayerBlocks)
<1>1. Extracted(upload) \in Seq(Seq(LayerBlocks))
  BY ExtractedAre
<1> DEFINE L == Seq(LayerBlocks)
           E == Extracted(upload)
<1>2. E \in Seq(L)
  BY <1>1
<1> HIDE DEF L, E
<1>3. DOMAIN E \in SUBSET (Nat \ {0}) /\ \A i \in DOMAIN E : E[i] \in L
  BY <1>2
<1> QED BY <1>1, <1>3 DEF L, E

\* The stages go through the pages one at a time, each once (_run_ocr, _run_vision).
LEMMA OnePage ==
  ASSUME DOMAIN pages \in SUBSET Nat, visited \subseteq DOMAIN pages, visited # DOMAIN pages
  PROVE  /\ PageNow \in DOMAIN pages /\ PageNow \notin visited
         /\ \A next : PageDone(next) =>
              \/ visited \cup {PageNow} = DOMAIN pages /\ visited' = {} /\ progress' = next
              \/ /\ visited \cup {PageNow} # DOMAIN pages /\ progress' = progress
                 /\ visited' = visited \cup {PageNow}
<1> DEFINE T == DOMAIN pages \ visited
<1>1. T \in SUBSET Nat /\ T # {}
  OBVIOUS
<1>2. PICK x \in T : \A y \in T : x <= y
  BY <1>1, NatHasMin
<1>3. PageNow \in T
  BY <1>2 DEF PageNow, Min
<1>4. ASSUME NEW next, PageDone(next)
      PROVE  \/ visited \cup {PageNow} = DOMAIN pages /\ visited' = {} /\ progress' = next
             \/ /\ visited \cup {PageNow} # DOMAIN pages /\ progress' = progress
                /\ visited' = visited \cup {PageNow}
  <2> HIDE DEF T
  <2> QED BY <1>4 DEF PageDone
<1> QED BY <1>3, <1>4

\* A page more has been recognised, or passed over.
LEMMA OcrStep ==
  ASSUME ReadInv, progress = "ocr", PageDone("vision"), UNCHANGED <<reread, warnings>>,
         PagesRead', (\A i \in DOMAIN pages : pages[i] \in CanHaveRead(i))',
         DOMAIN pages' = DOMAIN pages, DOMAIN recognised' \subseteq DOMAIN recognised \cup {PageNow}
  PROVE  ReadInv'
<1>1. PagesRead /\ visited \subseteq DOMAIN pages /\ visited # DOMAIN pages /\ reread = {}
      /\ DOMAIN recognised \subseteq visited
  BY DEF ReadInv
<1>2. DOMAIN pages \in SUBSET Nat
  BY <1>1, InvPages DEF PagesRead
<1>3. PageNow \in DOMAIN pages /\ PageNow \notin visited
  BY <1>1, <1>2, OnePage
<1>4. CASE visited' = {} /\ progress' = "vision"
  BY <1>1, <1>3, <1>4 DEF ReadInv
<1>5. CASE /\ visited \cup {PageNow} # DOMAIN pages /\ progress' = "ocr"
           /\ visited' = visited \cup {PageNow}
  BY <1>1, <1>3, <1>5 DEF ReadInv
<1>6. \/ visited \cup {PageNow} = DOMAIN pages /\ visited' = {} /\ progress' = "vision"
      \/ /\ visited \cup {PageNow} # DOMAIN pages /\ progress' = progress
         /\ visited' = visited \cup {PageNow}
  BY <1>1, <1>2, OnePage
<1> QED BY <1>4, <1>5, <1>6

\* A page more has been through the gate.
LEMMA GateStep ==
  ASSUME NEW page, page = PageNow, ReadInv, progress = "vision", PageDone("finish"), UNCHANGED recognised,
         PagesRead', (\A i \in DOMAIN pages : pages[i] \in CanHaveRead(i))',
         DOMAIN pages' = DOMAIN pages, reread \subseteq reread', reread' \subseteq reread \cup {PageNow},
         warnings \subseteq warnings', page \in DOMAIN recognised => Judged(page)'
  PROVE  ReadInv'
<1>1. PagesRead /\ visited \subseteq DOMAIN pages /\ visited # DOMAIN pages /\ reread \subseteq visited
      /\ \A i \in visited \cap DOMAIN recognised : Judged(i)
  BY DEF ReadInv
<1>2. DOMAIN pages \in SUBSET Nat
  BY <1>1, InvPages DEF PagesRead
<1>3. PageNow \in DOMAIN pages /\ PageNow \notin visited
  BY <1>1, <1>2, OnePage
<1>4. \A i \in DOMAIN recognised : i \in visited \cup {PageNow} => Judged(i)'
  <2>1. \A i \in DOMAIN recognised : Judged(i) => Judged(i)'
    BY DEF Judged
  <2> QED BY <1>1, <2>1
<1>5. CASE visited \cup {PageNow} = DOMAIN pages /\ progress' = "finish"
  <2>1. DOMAIN recognised \subseteq visited \cup {PageNow}
    BY <1>1, <1>5 DEF PagesRead
  <2> QED BY <1>4, <1>5, <2>1 DEF ReadInv
<1>6. CASE /\ visited \cup {PageNow} # DOMAIN pages /\ progress' = "vision"
           /\ visited' = visited \cup {PageNow}
  BY <1>1, <1>3, <1>4, <1>6 DEF ReadInv
<1>7. \/ visited \cup {PageNow} = DOMAIN pages /\ visited' = {} /\ progress' = "finish"
      \/ /\ visited \cup {PageNow} # DOMAIN pages /\ progress' = progress
         /\ visited' = visited \cup {PageNow}
  BY <1>1, <1>2, OnePage
<1> QED BY <1>5, <1>6, <1>7

\* A file nobody has looked at.
LEMMA ReadStarts == ReadInit => ReadInv
BY DEF ReadInit, ReadInv

\* What is decided of it, and what is found in it (sniff, Extractor.extract).
LEMMA IdentifyStep == ASSUME ReadInv, NEW u \in UploadedFiles, Identify(u) PROVE ReadInv'
<1>1. progress = "new" /\ upload' = u /\ recognised = <<>> /\ reread = {} /\ visited = {}
      /\ UNCHANGED <<recognised, reread, visited>>
      /\ ((Detected(u) \in AllowedKinds /\ progress' = "extract") \/ progress' = "refused")
  BY DEF Identify, ReadInv
<1> QED BY <1>1 DEF ReadInv

\* What is found in it is what its pages hold, and nothing has been recognised yet.
LEMMA ExtractStep == ASSUME ReadInv, Extract PROVE ReadInv'
<1> DEFINE found == Extracted(upload)
<1>1. /\ progress = "extract" /\ recognised = <<>> /\ reread = {} /\ visited = {}
      /\ upload \in UploadedFiles /\ Detected(upload) \in AllowedKinds
      /\ UNCHANGED <<upload, recognised, reread, visited>>
      /\ \/ pages' = found /\ progress' = IF found = <<>> THEN "finish" ELSE "ocr"
         \/ progress' = "failed"
  BY DEF Extract, ReadInv
<1>2. found \in Seq(Seq(LayerBlocks))
  BY <1>1, InvPages
<1>3. found # <<>> => DOMAIN found # {}
  <2> DEFINE L == Seq(LayerBlocks)
  <2>1. found \in Seq(L)
    BY <1>2
  <2> HIDE DEF L, found
  <2>2. DOMAIN found = 1..Len(found) /\ Len(found) \in Nat
    BY <2>1
  <2>3. Len(found) = 0 => found = <<>>
    BY <2>1
  <2> QED BY <2>2, <2>3
<1>4. CASE progress' = "failed"
  BY <1>4 DEF ReadInv
<1>5. CASE pages' = found /\ progress' = IF found = <<>> THEN "finish" ELSE "ocr"
  <2>1. DOMAIN recognised' = {}
    BY <1>1
  <2>2. PagesRead'
    BY <1>1, <1>5, <2>1 DEF PagesRead
  <2>3. ASSUME NEW i \in DOMAIN pages' PROVE CanHaveRead(i)' = {found[i]}
    BY <1>1, <2>1 DEF CanHaveRead
  <2>4. \A i \in DOMAIN pages' : pages'[i] \in CanHaveRead(i)'
    BY <1>5, <2>3
  <2>5. CASE found = <<>>
    BY <1>1, <1>5, <2>1, <2>2, <2>4, <2>5 DEF ReadInv
  <2>6. CASE found # <<>>
    <3>1. visited' \subseteq DOMAIN pages' /\ visited' # DOMAIN pages' /\ progress' = "ocr"
      BY <1>1, <1>3, <1>5, <2>6
    <3> QED BY <1>1, <2>1, <2>2, <2>4, <3>1 DEF ReadInv
  <2> QED BY <2>5, <2>6
<1> QED BY <1>1, <1>4, <1>5

\* Where the stage that goes through the pages stands.
LEMMA AtPage ==
  ASSUME ReadInv, progress \in {"ocr", "vision"}, NEW p, p = PageNow
  PROVE  /\ PagesRead /\ p \in DOMAIN pages /\ p \notin visited
         /\ \A i \in DOMAIN pages : pages[i] \in CanHaveRead(i)
<1>1. PagesRead /\ visited \subseteq DOMAIN pages /\ visited # DOMAIN pages
      /\ \A i \in DOMAIN pages : pages[i] \in CanHaveRead(i)
  BY DEF ReadInv
<1>2. DOMAIN pages \in SUBSET Nat
  BY <1>1, InvPages DEF PagesRead
<1> QED BY <1>1, <1>2, OnePage

\* A page without a text is recognised (_run_ocr).
LEMMA RecogniseStep == ASSUME ReadInv, Recognise PROVE ReadInv'
<1> DEFINE p == PageNow
<1>1. /\ progress = "ocr" /\ NeedsOcr(p) /\ PageDone("vision")
      /\ UNCHANGED <<upload, reread, warnings, report>>
  BY DEF Recognise
<1>2. PICK result \in Recognitions :
        /\ recognised' = [k \in DOMAIN recognised \cup {p} |-> IF k = p THEN result ELSE recognised[k]]
        /\ pages' = [pages EXCEPT ![p] = LineBlocks(result)]
  BY DEF Recognise
<1>3. /\ PagesRead /\ p \in DOMAIN pages /\ p \notin visited
      /\ \A i \in DOMAIN pages : pages[i] \in CanHaveRead(i)
  BY <1>1, AtPage
<1>4. reread = {} /\ p \notin DOMAIN recognised
  BY <1>1, <1>3 DEF ReadInv
<1>5. pages[p] = Extracted(upload)[p] /\ WordsOf(Extracted(upload)[p]) = 0
  <2>1. pages[p] \in CanHaveRead(p)
    BY <1>3
  <2>2. CanHaveRead(p) = {Extracted(upload)[p]}
    BY <1>4 DEF CanHaveRead
  <2> QED BY <1>1, <2>1, <2>2 DEF NeedsOcr
<1> HIDE DEF p
<1>6. /\ DOMAIN recognised' = DOMAIN recognised \cup {p} /\ recognised'[p] = result
      /\ \A k \in DOMAIN recognised : k # p /\ recognised'[k] = recognised[k]
      /\ DOMAIN pages' = DOMAIN pages /\ pages'[p] = LineBlocks(result)
      /\ \A k \in DOMAIN pages : k # p => pages'[k] = pages[k]
  BY <1>2, <1>3, <1>4
<1>7. PagesRead'
  BY <1>1, <1>3, <1>4, <1>5, <1>6 DEF PagesRead
<1>8. ASSUME NEW i \in DOMAIN pages' PROVE pages'[i] \in CanHaveRead(i)'
  <2>1. CASE i = p
    <3>1. CanHaveRead(i)' = {LineBlocks(recognised'[i])}
      BY <1>1, <1>4, <1>6, <2>1 DEF CanHaveRead
    <3> QED BY <1>6, <2>1, <3>1
  <2>2. CASE i # p
    <3>1. CanHaveRead(i)' = CanHaveRead(i)
      BY <1>1, <1>4, <1>6, <2>2 DEF CanHaveRead
    <3> QED BY <1>3, <1>6, <2>2, <3>1
  <2> QED BY <2>1, <2>2
<1> QED BY <1>1, <1>6, <1>7, <1>8, OcrStep DEF p

\* A page that is passed over stays as it was extracted.
LEMMA PassOverStep == ASSUME ReadInv, PassOver PROVE ReadInv'
<1>1. /\ progress = "ocr" /\ PageDone("vision")
      /\ UNCHANGED <<upload, pages, recognised, reread, warnings, report>>
  BY DEF PassOver
<1>2. PagesRead /\ \A i \in DOMAIN pages : pages[i] \in CanHaveRead(i)
  BY <1>1, AtPage
<1>3. PagesRead'
  BY <1>1, <1>2 DEF PagesRead
<1>4. ASSUME NEW i \in DOMAIN pages' PROVE pages'[i] \in CanHaveRead(i)'
  <2>1. CanHaveRead(i)' = CanHaveRead(i)
    BY <1>1 DEF CanHaveRead
  <2> QED BY <1>1, <1>2, <2>1
<1> QED BY <1>1, <1>3, <1>4, OcrStep

\* Only a page that was recognised, and is suspect, is read again.
LEMMA EscalatesIs ==
  ASSUME NEW p
  PROVE  /\ Escalates(p) => p \in DOMAIN recognised /\ Suspect(recognised[p])
         /\ ~Escalates(p) /\ p \in DOMAIN recognised /\ recognised[p] \in Recognitions
               => ~Suspect(recognised[p])
<1>1. WordsOf(<<>>) = 0
  <2> DEFINE none == <<>>
  <2>1. none \in Seq({}) /\ Len(none) = 0 /\ \A b \in {} : b.words \in Nat
    OBVIOUS
  <2> HIDE DEF none
  <2>2. WordsOf(none) = 0 <=> \A i \in 1..Len(none) : ~(none[i].words > 0)
    BY <2>1, WordsAre
  <2> QED BY <2>1, <2>2 DEF none
<1>2. ASSUME Escalates(p), p \notin DOMAIN recognised PROVE FALSE
  <2>1. WordsOf(pages[p]) = 0 /\ Rejected(p)
    BY <1>2 DEF Escalates
  <2>2. ~(WordsOf(pages[p]) = 0 /\ WordsOf(NoResultYet.lines) = 0)
    BY <1>2, <2>1 DEF Rejected
  <2> QED BY <1>1, <2>1, <2>2 DEF NoResultYet
<1>3. ASSUME ~Escalates(p), p \in DOMAIN recognised, recognised[p] \in Recognitions
      PROVE  ~Suspect(recognised[p])
  <2> DEFINE lines == recognised[p].lines
  <2>1. ~Rejected(p)
    BY <1>3 DEF Escalates
  <2>2. ~(WordsOf(lines) < MinWords) /\ Surer(lines, 72) /\ ~recognised[p].garbled
    BY <1>3, <2>1 DEF Rejected
  <2>3. WordsOf(lines) \in Nat /\ MinWords \in Nat \ {0}
    BY <1>3, LinesAre, ReadingsAreRead
  <2>4. WordsOf(lines) # 0
    <3> DEFINE w == WordsOf(lines)
    <3>1. w \in Nat /\ ~(w < MinWords) /\ MinWords \in Nat \ {0}
      BY <2>2, <2>3
    <3> HIDE DEF w
    <3>2. w # 0
      BY <3>1
    <3> QED BY <3>2 DEF w
  <2> QED BY <2>2, <2>4 DEF Suspect
<1>4. ASSUME Escalates(p), p \in DOMAIN recognised PROVE Suspect(recognised[p])
  <2>1. Rejected(p)
    BY <1>4 DEF Escalates
  <2>2. \/ WordsOf(recognised[p].lines) < MinWords
        \/ ~Surer(recognised[p].lines, 72) \/ recognised[p].garbled
    BY <1>4, <2>1 DEF Rejected
  <2> QED BY <2>2 DEF Suspect
<1> QED BY <1>2, <1>3, <1>4

\* A page the gate rejects is read again: it was recognised, and not read again before.
LEMMA RereadStep == ASSUME ReadInv, Reread PROVE ReadInv'
<1>0. PICK p : p = PageNow
  OBVIOUS
<1>1. /\ progress = "vision" /\ Escalates(p) /\ PageDone("finish")
      /\ UNCHANGED <<upload, recognised, warnings, report>> /\ reread' = reread \cup {p}
  BY <1>0 DEF Reread
<1>2. PICK t \in Transcripts \ {<<>>} : pages' = [pages EXCEPT ![p] = MergedWith(@, Transcribed(t))]
  BY <1>0 DEF Reread
<1>3. /\ PagesRead /\ p \in DOMAIN pages /\ p \notin visited
      /\ \A i \in DOMAIN pages : pages[i] \in CanHaveRead(i)
  BY <1>1, <1>0, AtPage
<1>4. p \in DOMAIN recognised /\ p \notin reread
  BY <1>1, <1>3, EscalatesIs DEF ReadInv
<1>5. pages[p] = LineBlocks(recognised[p])
  <2>1. pages[p] \in CanHaveRead(p)
    BY <1>3
  <2>2. CanHaveRead(p) = {LineBlocks(recognised[p])}
    BY <1>4 DEF CanHaveRead
  <2> QED BY <2>1, <2>2
<1>6. /\ DOMAIN pages' = DOMAIN pages
      /\ pages'[p] = MergedWith(LineBlocks(recognised[p]), Transcribed(t))
      /\ \A k \in DOMAIN pages : k # p => pages'[k] = pages[k]
  BY <1>2, <1>3, <1>5
<1>7. PagesRead'
  BY <1>1, <1>3, <1>4, <1>6 DEF PagesRead
<1>8. ASSUME NEW i \in DOMAIN pages' PROVE pages'[i] \in CanHaveRead(i)'
  <2>1. CASE i = p
    <3>1. CanHaveRead(i)' = {MergedWith(LineBlocks(recognised[i]), Transcribed(s)) : s \in Transcripts \ {<<>>}}
      BY <1>1, <1>4, <2>1 DEF CanHaveRead
    <3> QED BY <1>6, <2>1, <3>1
  <2>2. CASE i # p
    <3>1. CanHaveRead(i)' = CanHaveRead(i)
      BY <1>1, <2>2 DEF CanHaveRead
    <3> QED BY <1>3, <1>6, <2>2, <3>1
  <2> QED BY <2>1, <2>2
<1>9. Judged(p)'
  <2>1. Suspect(recognised'[p])
    BY <1>1, EscalatesIs
  <2>2. Suspect(recognised'[p]) <=> Suspect(recognised[p])'
    BY <1>1 DEF Suspect
  <2> QED BY <1>1, <2>1 DEF Judged
<1> QED BY <1>1, <1>6, <1>7, <1>8, <1>9, <1>0, GateStep

\* Nothing but the gate's verdict on the page has changed.
LEMMA SamePages ==
  ASSUME ReadInv, progress = "vision", PageDone("finish"),
         UNCHANGED <<upload, pages, recognised, reread, report>>, warnings \subseteq warnings',
         NEW p, p = PageNow, p \in DOMAIN recognised => Judged(p)'
  PROVE  ReadInv'
<1>2. PagesRead /\ \A i \in DOMAIN pages : pages[i] \in CanHaveRead(i)
  BY AtPage
<1>3. PagesRead'
  BY <1>2 DEF PagesRead
<1>4. ASSUME NEW i \in DOMAIN pages' PROVE pages'[i] \in CanHaveRead(i)'
  <2>1. CanHaveRead(i)' = CanHaveRead(i)
    BY DEF CanHaveRead
  <2> QED BY <1>2, <2>1
<1> QED BY <1>3, <1>4, GateStep

\* If nothing comes of that, there is a warning.
LEMMA RereadFailsStep == ASSUME ReadInv, RereadFails PROVE ReadInv'
<1>1. PICK p : p = PageNow
  OBVIOUS
<1>2. warnings' # {} /\ warnings \subseteq warnings'
  BY DEF RereadFails
<1>3. Escalates(p) /\ UNCHANGED <<recognised, reread>>
  BY <1>1 DEF RereadFails
<1>4. Suspect(recognised'[p])
  BY <1>3, EscalatesIs
<1>5. Judged(p)'
  BY <1>2, <1>4 DEF Judged
<1> QED BY <1>1, <1>2, <1>5, SamePages DEF RereadFails

\* A page the gate lets pass is not suspect, and has not been read again.
LEMMA AcceptedStep == ASSUME ReadInv, Accepted PROVE ReadInv'
<1>1. PICK p : p = PageNow
  OBVIOUS
<1>2. progress = "vision" /\ ~Escalates(p) /\ UNCHANGED <<recognised, reread>>
  BY <1>1 DEF Accepted
<1>3. ASSUME p \in DOMAIN recognised PROVE Judged(p)'
  <2>1. recognised[p] \in Recognitions
    BY <1>1, <1>2, <1>3, AtPage DEF PagesRead
  <2>2. ~Suspect(recognised'[p])
    BY <1>2, <1>3, <2>1, EscalatesIs
  <2>3. p \notin reread'
    <3>1. p \notin visited
      BY <1>1, <1>2, AtPage
    <3> QED BY <1>2, <3>1 DEF ReadInv
  <2> QED BY <2>2, <2>3 DEF Judged
<1> QED BY <1>1, <1>2, <1>3, SamePages DEF Accepted

\* The blocks of every page are put in order, and the report counts the pages (run).
LEMMA FinishStep == ASSUME ReadInv, Finish PROVE ReadInv'
<1>1. /\ progress = "finish" /\ progress' = "done" /\ UNCHANGED <<upload, recognised, reread, visited, warnings>>
      /\ pages' = [i \in DOMAIN pages |-> Normalised(pages[i])]
      /\ report'.ocr = Cardinality(DOMAIN recognised) /\ report'.vlm = Cardinality(reread)
      /\ (warnings # {} => report'.degraded)
  BY DEF Finish
<1>2. PagesRead /\ (\A i \in DOMAIN pages : pages[i] \in CanHaveRead(i)) /\ \A i \in DOMAIN recognised : Judged(i)
  BY <1>1 DEF ReadInv
<1>3. PagesRead'
  BY <1>1, <1>2 DEF PagesRead
<1>4. ASSUME NEW i \in DOMAIN pages' PROVE \E b \in CanHaveRead(i)' : pages'[i] = Normalised(b)
  <2>1. CanHaveRead(i)' = CanHaveRead(i)
    BY <1>1 DEF CanHaveRead
  <2>2. pages[i] \in CanHaveRead(i) /\ pages'[i] = Normalised(pages[i])
    BY <1>1, <1>2
  <2> QED BY <2>1, <2>2
<1>5. ASSUME NEW i \in DOMAIN recognised PROVE Judged(i)'
  BY <1>1, <1>2 DEF Judged
<1>6. DOMAIN recognised' = DOMAIN recognised
  BY <1>1
<1> QED BY <1>1, <1>3, <1>4, <1>5, <1>6 DEF ReadInv

\* ReadInv is an invariant of the reading of a file.
THEOREM ReadInvariant == ReadSpec => []ReadInv
<1>1. ReadInv /\ [ReadNext]_readVars => ReadInv'
  <2> SUFFICES ASSUME ReadInv, [ReadNext]_readVars PROVE ReadInv'
    OBVIOUS
  <2>1. CASE UNCHANGED readVars
    BY <2>1 DEF ReadInv, readVars, PagesRead, CanHaveRead, Judged
  <2>2. ASSUME PictureFails PROVE ReadInv'
    BY <2>2 DEF PictureFails, ReadInv
  <2> QED BY <2>1, <2>2, IdentifyStep, ExtractStep, RecogniseStep, PassOverStep, RereadStep,
             RereadFailsStep, AcceptedStep, FinishStep DEF ReadNext
<1> QED BY <1>1, ReadStarts, PTL DEF ReadSpec

\* A page with a text, or with none, that was only extracted.
LEMMA OnlyExtracted ==
  ASSUME NEW blocks \in Seq(LayerBlocks), NEW done, InOrderOf(done, blocks)
  PROVE  /\ \A k \in 1..Len(done) : done[k].source \notin {"ocr", "vlm"}
         /\ \A K : ComeFrom(K, done, "vlm") => K = <<>>
<1>1. done \in Seq(ReadBlocks)
  BY DEF InOrderOf
<1>2. \A j \in 1..Len(blocks) : blocks[j].source \notin {"ocr", "vlm"}
  <2>1. \A j \in 1..Len(blocks) : blocks[j] \in LayerBlocks
    OBVIOUS
  <2> QED BY <2>1 DEF LayerBlocks
<1>3. \A k \in 1..Len(done) : done[k].source \notin {"ocr", "vlm"}
  <2> SUFFICES ASSUME NEW k \in 1..Len(done) PROVE done[k].source \notin {"ocr", "vlm"}
    OBVIOUS
  <2>1. PICK j \in 1..Len(blocks) : SameText(done[k], blocks[j])
    BY DEF InOrderOf
  <2> QED BY <1>2, <2>1 DEF SameText
<1>4. ASSUME NEW K, ComeFrom(K, done, "vlm") PROVE K = <<>>
  BY <1>1, <1>3, <1>4, FromIs
<1> QED BY <1>3, <1>4

\* A page without a text stays one.
LEMMA NothingThere ==
  ASSUME NEW S, NEW blocks \in Seq(S), S \subseteq ReadBlocks, WordsOf(blocks) = 0
  PROVE  Normalised(blocks) = <<>>
<1>1. blocks \in Seq(ReadBlocks) /\ \A b \in ReadBlocks : b.words \in Nat
  <2>1. \A b \in ReadBlocks : b.words \in Nat
    BY DEF ReadBlocks
  <2> QED BY <2>1
<1>2. \A j \in 1..Len(blocks) : ~(blocks[j].words > 0)
  BY <1>1, WordsAre
<1>3. InOrderOf(Normalised(blocks), blocks)
  BY <1>1, NormalisedIs
<1> DEFINE done == Normalised(blocks)
<1> HIDE DEF done
<1>4. done \in Seq(ReadBlocks) /\ \A k \in 1..Len(done) : FALSE
  BY <1>2, <1>3 DEF InOrderOf, done
<1>5. Len(done) \in Nat /\ (Len(done) = 0 => done = <<>>)
  BY <1>4
<1> QED BY <1>4, <1>5 DEF done

\* A recognised page, whether or not it was read again.
LEMMA RecognisedPage ==
  ASSUME NEW lines \in Seq(OcrBlocks), NEW blocks, HoldsLines(blocks, lines),
         NEW done, InOrderOf(done, blocks)
  PROVE  /\ \A k \in 1..Len(done) : /\ done[k].source \in {"ocr", "vlm"}
                                    /\ done[k].source = "vlm" => done[k].confidence <= 75
         /\ \A K : ComeFrom(K, done, "vlm") =>
              /\ (\A k \in 1..Len(blocks) : blocks[k].source = "ocr") => K = <<>>
              /\ (\E k \in 1..Len(blocks) : blocks[k].source = "vlm" /\ blocks[k].words > 0) => K # <<>>
<1>1. done \in Seq(ReadBlocks)
  BY DEF InOrderOf
<1>2. \A j \in 1..Len(blocks) : blocks[j].source \in {"ocr", "vlm"} /\ (blocks[j].source = "vlm" => blocks[j].confidence <= 75)
  <2>1. \A j \in 1..Len(blocks) : blocks[j] \in OcrBlocks \cup VlmBlocks
    BY DEF HoldsLines
  <2> QED BY <2>1 DEF OcrBlocks, VlmBlocks
<1>3. \A k \in 1..Len(done) : \E j \in 1..Len(blocks) : SameText(done[k], blocks[j])
  BY DEF InOrderOf
<1>4. \A j \in 1..Len(blocks) : blocks[j].words > 0 => \E k \in 1..Len(done) : SameText(done[k], blocks[j])
  BY DEF InOrderOf
<1>5. \A k \in 1..Len(done) : done[k].source \in {"ocr", "vlm"} /\ (done[k].source = "vlm" => done[k].confidence <= 75)
  BY <1>2, <1>3 DEF SameText
<1>6. ASSUME NEW K, ComeFrom(K, done, "vlm")
      PROVE  /\ (\A k \in 1..Len(blocks) : blocks[k].source = "ocr") => K = <<>>
             /\ (\E k \in 1..Len(blocks) : blocks[k].source = "vlm" /\ blocks[k].words > 0) => K # <<>>
  <2>1. K # <<>> <=> \E k \in 1..Len(done) : done[k].source = "vlm"
    BY <1>1, <1>6, FromIs
  <2>2. (\A k \in 1..Len(blocks) : blocks[k].source = "ocr") => \A k \in 1..Len(done) : done[k].source = "ocr"
    BY <1>3 DEF SameText
  <2>3. (\E k \in 1..Len(blocks) : blocks[k].source = "vlm" /\ blocks[k].words > 0)
           => \E k \in 1..Len(done) : done[k].source = "vlm"
    BY <1>4 DEF SameText
  <2> QED BY <2>1, <2>2, <2>3
<1> QED BY <1>5, <1>6

\* What is said of one page in the end.
PageSaysHow(i) ==
  /\ TextLayer(i) # <<>> => pages[i] = TextLayer(i) /\ i \notin DOMAIN recognised \cup reread
  /\ TextLayer(i) = <<>> => \A k \in DOMAIN pages[i] : pages[i][k].source \in {"ocr", "vlm"}
  /\ i \in DOMAIN recognised =>
        /\ ToSet(Plain(From(i, "ocr"))) =
              ToSet(Plain(Filled(LineBlocks(recognised[i]))))
        /\ (i \in reread) <=> From(i, "vlm") # <<>>
        /\ Suspect(recognised[i]) => i \in reread \/ report.degraded
  /\ i \in reread => i \in DOMAIN recognised /\ Suspect(recognised[i])
  /\ \A k \in DOMAIN pages[i] :
        /\ pages[i][k].source = "vlm" => pages[i][k].confidence <= 75
        /\ pages[i][k].order = k
        /\ k > 1 => pages[i][k - 1].y <= pages[i][k].y

\* That holds of every page, whether it was extracted, recognised or read again.
LEMMA EveryPageSaysHow ==
  ASSUME ReadInv, progress = "done", NEW i \in DOMAIN pages
  PROVE  PageSaysHow(i) /\ (i \in reread <=> From(i, "vlm") # <<>>)
<1> DEFINE done == pages[i]
           layer == Extracted(upload)[i]
<1>1. PagesRead /\ (\E b \in CanHaveRead(i) : done = Normalised(b)) /\ (warnings # {} => report.degraded)
      /\ \A j \in DOMAIN recognised : Judged(j)
  BY DEF ReadInv
<1>2. layer \in Seq(LayerBlocks)
  BY <1>1, InvPages DEF PagesRead
<1>3. PICK blocks \in CanHaveRead(i) : done = Normalised(blocks)
  BY <1>1
<1>4. ComeFrom(From(i, "vlm"), done, "vlm") /\ ComeFrom(From(i, "ocr"), done, "ocr") /\ TextLayer(i) = Normalised(layer)
  BY DEF From, ComeFrom, TextLayer
<1> HIDE DEF done, layer
<1>5. \A blocks_1 \in Seq(ReadBlocks) : InOrderOf(Normalised(blocks_1), blocks_1)
  BY NormalisedIs
<1>6. ASSUME InOrderOf(done, blocks)
      PROVE  /\ DOMAIN done = 1..Len(done)
             /\ \A k \in DOMAIN done : done[k].order = k /\ (k > 1 => done[k - 1].y <= done[k].y)
  <2>1. done \in Seq(ReadBlocks) /\ \A k \in 1..Len(done) : done[k].order = k /\ (k > 1 => done[k - 1].y <= done[k].y)
    BY <1>6 DEF InOrderOf
  <2>2. DOMAIN done = 1..Len(done)
    BY <2>1
  <2> QED BY <2>1, <2>2
<1>7. CASE i \notin DOMAIN recognised
  <2>1. blocks = layer
    BY <1>3, <1>7 DEF CanHaveRead, layer
  <2>2. blocks \in Seq(ReadBlocks)
    <3>1. LayerBlocks \subseteq ReadBlocks
      BY DEF LayerBlocks
    <3> QED BY <1>2, <2>1, <3>1
  <2>3. InOrderOf(done, blocks)
    BY <1>3, <1>5, <2>2
  <2>4. (\A k \in 1..Len(done) : done[k].source \notin {"ocr", "vlm"}) /\ From(i, "vlm") = <<>>
    BY <1>2, <1>4, <2>1, <2>3, OnlyExtracted
  <2>5. i \notin reread
    BY <1>1, <1>7 DEF PagesRead
  <2>6. done = TextLayer(i)
    BY <1>3, <1>4, <2>1
  <2>7. TextLayer(i) = <<>> => DOMAIN done = {}
    BY <2>6
  <2> QED BY <1>6, <1>7, <2>3, <2>4, <2>5, <2>6, <2>7 DEF PageSaysHow, done
<1>8. CASE i \in DOMAIN recognised
  <2> DEFINE lines == LineBlocks(recognised[i])
  <2>1. recognised[i] \in Recognitions /\ WordsOf(layer) = 0 /\ Judged(i)
    BY <1>1, <1>8 DEF PagesRead, layer
  <2>2. lines \in Seq(OcrBlocks) /\ WordsOf(recognised[i].lines) \in Nat
    BY <2>1, LinesAre
  <2>3. TextLayer(i) = <<>>
    <3>1. LayerBlocks \subseteq ReadBlocks
      BY DEF LayerBlocks
    <3> QED BY <1>2, <1>4, <2>1, <3>1, NothingThere
  <2>4. /\ HoldsLines(blocks, lines)
        /\ i \in reread => \E k \in 1..Len(blocks) : blocks[k].source = "vlm" /\ blocks[k].words > 0
        /\ i \notin reread => \A k \in 1..Len(blocks) : blocks[k].source = "ocr"
    <3>1. CASE i \notin reread
      <4>1. blocks = lines
        BY <1>3, <1>8, <3>1 DEF CanHaveRead
      <4> HIDE DEF lines
      <4> QED BY <2>2, <3>1, <4>1, LinesHold
    <3>2. CASE i \in reread
      <4>1. PICK t \in Transcripts \ {<<>>} : blocks = MergedWith(lines, Transcribed(t))
        BY <1>3, <1>8, <3>2 DEF CanHaveRead
      <4>2. Transcribed(t) \in Seq(VlmBlocks) /\ Transcribed(t) # <<>>
        BY TranscribedAre
      <4> HIDE DEF lines
      <4> QED BY <2>2, <3>2, <4>1, <4>2, MergedHolds
    <3> QED BY <3>1, <3>2
  <2> HIDE DEF lines
  <2>5. blocks \in Seq(ReadBlocks)
    <3>1. OcrBlocks \cup VlmBlocks \subseteq ReadBlocks
      BY DEF OcrBlocks, VlmBlocks
    <3>2. blocks \in Seq(OcrBlocks \cup VlmBlocks)
      BY <2>4 DEF HoldsLines
    <3> QED BY <3>1, <3>2
  <2>6. InOrderOf(done, blocks)
    BY <1>3, <1>5, <2>5
  <2>7. /\ \A k \in 1..Len(done) : /\ done[k].source \in {"ocr", "vlm"}
                                   /\ done[k].source = "vlm" => done[k].confidence <= 75
        /\ i \in reread <=> From(i, "vlm") # <<>>
    BY <1>4, <2>2, <2>4, <2>6, RecognisedPage
  <2>8. ToSet(Plain(From(i, "ocr"))) = ToSet(Plain(Filled(lines)))
    BY <1>4, <2>2, <2>4, <2>6, LinesAreKept
  <2>9. /\ Suspect(recognised[i]) => i \in reread \/ report.degraded
        /\ i \in reread => Suspect(recognised[i])
    BY <1>1, <2>1 DEF Judged
  <2> QED BY <1>6, <1>8, <2>3, <2>6, <2>7, <2>8, <2>9 DEF PageSaysHow, done, lines
<1> QED BY <1>7, <1>8

\* However a page was read, its text says where it came from and how surely it was
\* read, and the suspect pages, and no others, are read again or reported, whatever
\* the files are, the engine recognises and the vision model answers:
\* the property of the run, by the kinds of blocks each reading produces and the
\* order they are put in (ingest/pipeline.py).
THEOREM PagesSayHowRead == ReadSpec => []PagesSayHowTheyWereRead
<1>1. ReadInv => PagesSayHowTheyWereRead
  <2> SUFFICES ASSUME ReadInv, progress = "done" PROVE PagesSayHowTheyWereRead
    BY DEF PagesSayHowTheyWereRead
  <2>1. \A i \in DOMAIN pages : PageSaysHow(i) /\ (i \in reread <=> From(i, "vlm") # <<>>)
    BY EveryPageSaysHow
  <2>2. PagesRead /\ report.ocr = Cardinality(DOMAIN recognised) /\ report.vlm = Cardinality(reread)
    BY DEF ReadInv
  <2>3. DOMAIN recognised = {j \in DOMAIN pages : j \in DOMAIN recognised}
    BY <2>2 DEF PagesRead
  <2>4. reread = {j \in DOMAIN pages : From(j, "vlm") # <<>>}
    BY <2>1, <2>2 DEF PagesRead
  <2>5. report.ocr = Cardinality({j \in DOMAIN pages : j \in DOMAIN recognised})
    BY <2>2, <2>3
  <2>6. report.vlm = Cardinality({j \in DOMAIN pages : From(j, "vlm") # <<>>})
    BY <2>2, <2>4
  <2> QED BY <2>1, <2>5, <2>6, Zenon DEF PagesSayHowTheyWereRead, PageSaysHow
<1> QED BY <1>1, ReadInvariant, PTL

-----------------------------------------------------------------------------
(***************************************************************************)
(* Documents a run makes.                                                  *)
(***************************************************************************)

\* What a report is made of, and what is looked at in it, as functions.
BlockKinds == {"heading", "paragraph", "bullets", "table"}
Titles == STRING \cup {"as stated in the answer"}
ReportBlocks == [kind : BlockKinds, heading : Seq(Titles), texts : Seq(Wordings), caption : Seq(Nat)]
BlockTexts == [b \in ReportBlocks |-> b.texts]
TextMarks == [t \in Wordings |-> t.marks]
TextSays == [t \in Wordings |-> t.says]
TextCleaned == [t \in Wordings |-> TextChecked(t)]

\* A text with other marks is a text, and says what it said.
LEMMA WordingIs ==
  ASSUME NEW t \in Wordings, NEW m \in Seq(Nat)
  PROVE  /\ t.says \in STRING /\ t.marks \in Seq(Nat)
         /\ [t EXCEPT !.marks = m] \in Wordings
         /\ [t EXCEPT !.marks = m].says = t.says /\ [t EXCEPT !.marks = m].marks = m
BY DEF Wordings

LEMMA CheckedText ==
  ASSUME NEW t \in Wordings
  PROVE  /\ TextChecked(t) \in Wordings /\ TextChecked(t).says = t.says
         /\ TextChecked(t).marks = Kept(t.marks, Staying) /\ Kept(t.marks, Staying) \in Seq(Nat)
<1>1. t.marks \in Seq(Nat)
  BY DEF Wordings
<1>2. Kept(t.marks, Staying) \in Seq(Nat \cap Staying)
  BY <1>1, KeptType
<1>3. Kept(t.marks, Staying) \in Seq(Nat)
  BY <1>2
<1>4. TextChecked(t) = [t EXCEPT !.marks = Kept(t.marks, Staying)]
  BY DEF TextChecked
<1> QED BY <1>3, <1>4, WordingIs

\* These are functions.
LEMMA TheseMap ==
  /\ Maps(BlockTexts, ReportBlocks, Seq(Wordings)) /\ Maps(TextMarks, Wordings, Seq(Nat))
  /\ Maps(TextSays, Wordings, STRING) /\ Maps(TextCleaned, Wordings, Wordings)
<1>1. Maps(BlockTexts, ReportBlocks, Seq(Wordings))
  <2>1. \A b \in ReportBlocks : b.texts \in Seq(Wordings)
    BY DEF ReportBlocks
  <2> QED BY <2>1 DEF Maps, BlockTexts
<1>2. Maps(TextMarks, Wordings, Seq(Nat)) /\ Maps(TextSays, Wordings, STRING)
  <2>1. \A t \in Wordings : t.marks \in Seq(Nat) /\ t.says \in STRING
    BY DEF Wordings
  <2> QED BY <2>1 DEF Maps, TextMarks, TextSays
<1>3. Maps(TextCleaned, Wordings, Wordings)
  BY CheckedText DEF Maps, TextCleaned
<1> QED BY <1>1, <1>2, <1>3

\* What the operators of the model are in these terms.
LEMMA MarksInIs ==
  ASSUME NEW texts \in Seq(Wordings)
  PROVE  /\ MarksIn(texts) = FlattenSeq(Through(TextMarks, texts))
         /\ Through(TextMarks, texts) \in Seq(Seq(Nat)) /\ MarksIn(texts) \in Seq(Nat)
<1>1. DOMAIN texts = 1..Len(texts) /\ \A i \in 1..Len(texts) : texts[i] \in Wordings
  OBVIOUS
<1>2. [i \in DOMAIN texts |-> texts[i].marks] = Through(TextMarks, texts)
  BY <1>1 DEF Through, TextMarks
<1>3. Through(TextMarks, texts) \in Seq(Seq(Nat))
  <2>1. \A i \in 1..Len(texts) : texts[i].marks \in Seq(Nat)
    BY <1>1 DEF Wordings
  <2> DEFINE m == [i \in DOMAIN texts |-> texts[i].marks]
  <2>2. m \in Seq(Seq(Nat))
    BY <1>1, <2>1
  <2> QED BY <1>2, <2>2
<1> QED BY <1>2, <1>3, FlattenType DEF MarksIn

LEMMA TextsOfIs ==
  ASSUME NEW blocks \in Seq(ReportBlocks)
  PROVE  /\ TextsOf(blocks) = FlattenSeq(Through(BlockTexts, blocks))
         /\ Through(BlockTexts, blocks) \in Seq(Seq(Wordings)) /\ TextsOf(blocks) \in Seq(Wordings)
<1>1. DOMAIN blocks = 1..Len(blocks) /\ \A i \in 1..Len(blocks) : blocks[i] \in ReportBlocks
  OBVIOUS
<1>2. [i \in DOMAIN blocks |-> blocks[i].texts] = Through(BlockTexts, blocks)
  BY <1>1 DEF Through, BlockTexts
<1>3. Through(BlockTexts, blocks) \in Seq(Seq(Wordings))
  <2> DEFINE W == Seq(Wordings)
  <2>1. \A i \in 1..Len(blocks) : blocks[i].texts \in W
    BY <1>1 DEF ReportBlocks
  <2> DEFINE m == [i \in DOMAIN blocks |-> blocks[i].texts]
  <2>2. m \in Seq(W)
    <3> HIDE DEF W
    <3> QED BY <1>1, <2>1
  <2> QED BY <1>2, <2>2
<1> QED BY <1>2, <1>3, FlattenType DEF TextsOf

LEMMA SaysIs ==
  ASSUME NEW texts \in Seq(Wordings)
  PROVE  Says(texts) = Through(TextSays, texts) /\ Says(texts) \in Seq(STRING) /\ Len(Says(texts)) = Len(texts)
<1>1. DOMAIN texts = 1..Len(texts) /\ \A i \in 1..Len(texts) : texts[i] \in Wordings
  OBVIOUS
<1>2. [i \in DOMAIN texts |-> texts[i].says] = Through(TextSays, texts)
  BY <1>1 DEF Through, TextSays
<1>3. \A i \in 1..Len(texts) : texts[i].says \in STRING
  BY <1>1 DEF Wordings
<1>4. Says(texts) \in Seq(STRING) /\ Len(Says(texts)) = Len(texts)
  BY <1>1, <1>3 DEF Says
<1> QED BY <1>2, <1>4 DEF Says

\* Two lists of texts or blocks, one after the other.
LEMMA TextsJoined ==
  ASSUME NEW s \in Seq(Wordings), NEW t \in Seq(Wordings)
  PROVE  /\ s \o t \in Seq(Wordings)
         /\ MarksIn(s \o t) = MarksIn(s) \o MarksIn(t)
         /\ Says(s \o t) = Says(s) \o Says(t)
<1>1. s \o t \in Seq(Wordings)
  BY ConcatProperties
<1>2. Through(TextMarks, s \o t) = Through(TextMarks, s) \o Through(TextMarks, t)
  <2>1. Maps(TextMarks, Wordings, Seq(Nat))
    BY TheseMap
  <2> QED BY <2>1, ThroughConcat
<1>3. Through(TextSays, s \o t) = Through(TextSays, s) \o Through(TextSays, t)
  <2>1. Maps(TextSays, Wordings, STRING)
    BY TheseMap
  <2> QED BY <2>1, ThroughConcat
<1>4. FlattenSeq(Through(TextMarks, s) \o Through(TextMarks, t))
        = FlattenSeq(Through(TextMarks, s)) \o FlattenSeq(Through(TextMarks, t))
  BY MarksInIs, FlattenConcat
<1> QED BY <1>1, <1>2, <1>3, <1>4, MarksInIs, SaysIs

LEMMA BlocksJoined ==
  ASSUME NEW s \in Seq(ReportBlocks), NEW t \in Seq(ReportBlocks)
  PROVE  s \o t \in Seq(ReportBlocks) /\ TextsOf(s \o t) = TextsOf(s) \o TextsOf(t)
<1>1. s \o t \in Seq(ReportBlocks)
  BY ConcatProperties
<1>2. Through(BlockTexts, s \o t) = Through(BlockTexts, s) \o Through(BlockTexts, t)
  BY TheseMap, ThroughConcat
<1>3. FlattenSeq(Through(BlockTexts, s) \o Through(BlockTexts, t))
        = FlattenSeq(Through(BlockTexts, s)) \o FlattenSeq(Through(BlockTexts, t))
  BY TextsOfIs, FlattenConcat
<1> QED BY <1>1, <1>2, <1>3, TextsOfIs

\* No texts, no blocks, one block.
LEMMA NothingIsSaid == TextsOf(<<>>) = <<>> /\ MarksIn(<<>>) = <<>> /\ Says(<<>>) = <<>>
<1>1. /\ <<>> \in Seq(ReportBlocks) /\ <<>> \in Seq(Wordings)
      /\ Through(BlockTexts, <<>>) = <<>> /\ Through(TextMarks, <<>>) = <<>> /\ Through(TextSays, <<>>) = <<>>
  BY DEF Through
<1> QED BY <1>1, TextsOfIs, MarksInIs, SaysIs, FlattenEmpty

LEMMA OneBlock ==
  ASSUME NEW b \in ReportBlocks
  PROVE  <<b>> \in Seq(ReportBlocks) /\ TextsOf(<<b>>) = b.texts
<1> DEFINE W == Seq(Wordings)
<1>1. <<b>> \in Seq(ReportBlocks) /\ b.texts \in W
  BY DEF ReportBlocks
<1>2. [i \in DOMAIN <<b>> |-> <<b>>[i].texts] = <<b.texts>>
  OBVIOUS
<1>3. FlattenSeq(<<b.texts>>) = b.texts
  BY <1>1, FlattenOne
<1> QED BY <1>1, <1>2, <1>3 DEF TextsOf

\* What several lists say is what each of them says.
LEMMA SaysFlatten ==
  ASSUME NEW tt \in Seq(Seq(Wordings))
  PROVE  Says(FlattenSeq(tt)) = FlattenSeq([k \in DOMAIN tt |-> Says(tt[k])])
<1> DEFINE W == Seq(Wordings)
           g == [s \in Seq(Wordings) |-> Through(TextSays, s)]
<1>1. Maps(g, Seq(Wordings), Seq(STRING)) /\ Lifts(g, TextSays, Wordings)
  <2>1. \A s \in Seq(Wordings) : Through(TextSays, s) \in Seq(STRING)
    BY SaysIs
  <2> QED BY <2>1 DEF Maps, Lifts
<1>2. DOMAIN tt = 1..Len(tt) /\ \A k \in 1..Len(tt) : tt[k] \in W
  <2> HIDE DEF W
  <2>1. tt \in Seq(W)
    BY DEF W
  <2> QED BY <2>1
<1>3. \A k \in 1..Len(tt) : g[tt[k]] = Says(tt[k])
  BY <1>2, SaysIs
<1>4. Through(g, tt) = [k \in DOMAIN tt |-> Says(tt[k])]
  <2> HIDE DEF g
  <2> QED BY <1>2, <1>3 DEF Through
<1>5. FlattenSeq(tt) \in Seq(Wordings)
  BY FlattenType
<1> HIDE DEF g
<1>6. Through(TextSays, FlattenSeq(tt)) = FlattenSeq(Through(g, tt))
  BY <1>1, TheseMap, ThroughFlatten
<1> QED BY <1>4, <1>5, <1>6, SaysIs

\* The texts of several lists of blocks are those of each of them.
LEMMA TextsFlatten ==
  ASSUME NEW bb \in Seq(Seq(ReportBlocks))
  PROVE  TextsOf(FlattenSeq(bb)) = FlattenSeq([k \in DOMAIN bb |-> TextsOf(bb[k])])
<1> DEFINE W == Seq(Wordings)
           B == Seq(ReportBlocks)
           g == [s \in B |-> Through(BlockTexts, s)]
           h == [ss \in Seq(W) |-> FlattenSeq(ss)]
           tt == Through(g, bb)
<1>1. Maps(g, B, Seq(W)) /\ Lifts(g, BlockTexts, ReportBlocks)
  <2>1. \A s \in B : Through(BlockTexts, s) \in Seq(W)
    BY TextsOfIs
  <2> QED BY <2>1 DEF Maps, Lifts
<1>2. Maps(h, Seq(W), W) /\ Joins(h, Wordings)
  <2>1. \A ss \in Seq(W) : FlattenSeq(ss) \in W
    BY FlattenType
  <2> QED BY <2>1 DEF Maps, Joins
<1>3. DOMAIN bb = 1..Len(bb) /\ Len(bb) \in Nat /\ \A k \in 1..Len(bb) : bb[k] \in B
  <2> HIDE DEF B
  <2>1. bb \in Seq(B)
    BY DEF B
  <2> QED BY <2>1
<1>4. Through(BlockTexts, FlattenSeq(bb)) = FlattenSeq(tt)
  <2> HIDE DEF g
  <2> QED BY <1>1, TheseMap, ThroughFlatten
<1>5. tt \in Seq(Seq(W)) /\ DOMAIN tt = DOMAIN bb /\ \A k \in DOMAIN bb : tt[k] = Through(BlockTexts, bb[k])
  <2>1. \A k \in 1..Len(bb) : g[bb[k]] = Through(BlockTexts, bb[k]) /\ g[bb[k]] \in Seq(W)
    BY <1>1, <1>3 DEF Maps
  <2>2. DOMAIN tt = DOMAIN bb /\ tt = [k \in 1..Len(bb) |-> tt[k]] /\ \A k \in 1..Len(bb) : tt[k] = g[bb[k]]
    BY <1>3 DEF Through
  <2> HIDE DEF g, B, W, tt
  <2>3. tt \in Seq(Seq(W))
    <3> DEFINE V == Seq(W)
    <3>1. \A k \in 1..Len(bb) : tt[k] \in V
      BY <2>1, <2>2
    <3> HIDE DEF V
    <3>2. tt \in Seq(V)
      BY <1>3, <2>2, <3>1
    <3> QED BY <3>2 DEF V
  <2> QED BY <1>3, <2>1, <2>2, <2>3
<1> HIDE DEF tt
<1>6. FlattenSeq(FlattenSeq(tt)) = FlattenSeq(Through(h, tt))
  <2> HIDE DEF h
  <2>1. tt \in Seq(Seq(Seq(Wordings)))
    BY <1>5
  <2> QED BY <1>2, <2>1, FlattenTwice
<1>7. Through(h, tt) = [k \in DOMAIN bb |-> TextsOf(bb[k])]
  <2>1. \A k \in DOMAIN bb : h[tt[k]] = TextsOf(bb[k])
    <3> TAKE k \in DOMAIN bb
    <3>1. bb[k] \in Seq(ReportBlocks) /\ tt[k] = Through(BlockTexts, bb[k])
      BY <1>3, <1>5
    <3>2. TextsOf(bb[k]) = FlattenSeq(Through(BlockTexts, bb[k])) /\ Through(BlockTexts, bb[k]) \in Seq(Seq(Wordings))
      BY <3>1, TextsOfIs
    <3> QED BY <3>1, <3>2
  <2> HIDE DEF h
  <2> QED BY <1>5, <2>1 DEF Through
<1>8. FlattenSeq(bb) \in Seq(ReportBlocks)
  BY FlattenType
<1>9. TextsOf(FlattenSeq(bb)) = FlattenSeq(Through(BlockTexts, FlattenSeq(bb)))
  BY <1>8, TextsOfIs
<1> QED BY <1>4, <1>6, <1>7, <1>9

\* What the check of the marks leaves of texts (_validate_markers).
LEMMA CheckedTexts ==
  ASSUME NEW texts \in Seq(Wordings)
  PROVE  /\ Through(TextCleaned, texts) \in Seq(Wordings)
         /\ MarksIn(Through(TextCleaned, texts)) = Kept(MarksIn(texts), Staying)
         /\ Says(Through(TextCleaned, texts)) = Says(texts)
<1> DEFINE t == Through(TextCleaned, texts)
           m == Through(TextMarks, texts)
           h == [s \in Seq(Nat) |-> Kept(s, Staying)]
<1>1. DOMAIN texts = 1..Len(texts) /\ \A i \in 1..Len(texts) : texts[i] \in Wordings
  OBVIOUS
<1>2. t \in Seq(Wordings) /\ DOMAIN t = DOMAIN texts /\ \A i \in DOMAIN texts : t[i] = TextChecked(texts[i])
  BY <1>1, CheckedText DEF Through, TextCleaned
<1> HIDE DEF t
<1>3. Says(t) = Says(texts)
  <2>1. \A i \in DOMAIN texts : t[i].says = texts[i].says
    BY <1>1, <1>2, CheckedText
  <2> QED BY <1>2, <2>1 DEF Says
<1>4. Maps(h, Seq(Nat), Seq(Nat)) /\ Filtering(h, Nat, Staying)
  <2>1. \A s \in Seq(Nat) : Kept(s, Staying) \in Seq(Nat)
    <3> TAKE s \in Seq(Nat)
    <3>1. Kept(s, Staying) \in Seq(Nat \cap Staying)
      BY KeptType
    <3> QED BY <3>1
  <2> QED BY <2>1 DEF Maps, Filtering
<1>5. Through(TextMarks, t) = Through(h, m)
  <2>1. \A i \in DOMAIN texts : TextMarks[t[i]] = h[TextMarks[texts[i]]]
    <3> TAKE i \in DOMAIN texts
    <3>1. t[i] \in Wordings /\ texts[i] \in Wordings /\ t[i].marks = Kept(texts[i].marks, Staying) /\ texts[i].marks \in Seq(Nat)
      BY <1>1, <1>2, CheckedText DEF Wordings
    <3> QED BY <3>1 DEF TextMarks
  <2> HIDE DEF h
  <2> QED BY <1>2, <2>1 DEF Through
<1> HIDE DEF h
<1>6. Kept(FlattenSeq(m), Staying) = FlattenSeq(Through(h, m))
  BY <1>4, MarksInIs, KeptFlatten
<1> QED BY <1>2, <1>3, <1>5, <1>6, MarksInIs DEF t

LEMMA CheckedBlocks ==
  ASSUME NEW blocks \in Seq(ReportBlocks)
  PROVE  /\ MarksChecked(blocks) \in Seq(ReportBlocks) /\ Len(MarksChecked(blocks)) = Len(blocks)
         /\ \A b \in DOMAIN blocks : MarksChecked(blocks)[b] =
                                       [blocks[b] EXCEPT !.texts = Through(TextCleaned, blocks[b].texts)]
         /\ TextsOf(MarksChecked(blocks)) = Through(TextCleaned, TextsOf(blocks))
<1> DEFINE c == MarksChecked(blocks)
           W == Seq(Wordings)
           g == [s \in W |-> Through(TextCleaned, s)]
           m == Through(BlockTexts, blocks)
<1>1. DOMAIN blocks = 1..Len(blocks) /\ Len(blocks) \in Nat /\ \A i \in 1..Len(blocks) : blocks[i] \in ReportBlocks
  OBVIOUS
<1>2. ASSUME NEW b \in DOMAIN blocks
      PROVE  /\ c[b] = [blocks[b] EXCEPT !.texts = Through(TextCleaned, blocks[b].texts)]
             /\ c[b] \in ReportBlocks /\ c[b].texts = Through(TextCleaned, blocks[b].texts)
  <2>1. blocks[b] \in ReportBlocks /\ blocks[b].texts \in Seq(Wordings)
    BY <1>1 DEF ReportBlocks
  <2>2. [i \in DOMAIN blocks[b].texts |-> TextChecked(blocks[b].texts[i])] = Through(TextCleaned, blocks[b].texts)
    <3>1. \A i \in DOMAIN blocks[b].texts : blocks[b].texts[i] \in Wordings
      BY <2>1
    <3> QED BY <3>1 DEF Through, TextCleaned
  <2>3. c[b] = [blocks[b] EXCEPT !.texts = [i \in DOMAIN blocks[b].texts |-> TextChecked(blocks[b].texts[i])]]
    BY DEF MarksChecked
  <2>4. Through(TextCleaned, blocks[b].texts) \in Seq(Wordings)
    BY <2>1, CheckedTexts
  <2> QED BY <2>1, <2>2, <2>3, <2>4 DEF ReportBlocks
<1>3. c \in Seq(ReportBlocks) /\ Len(c) = Len(blocks) /\ DOMAIN c = DOMAIN blocks
  <2>1. DOMAIN c = DOMAIN blocks /\ c = [b \in DOMAIN blocks |-> c[b]]
    BY DEF MarksChecked
  <2> HIDE DEF c
  <2> QED BY <1>1, <1>2, <2>1
<1> HIDE DEF c
<1>4. Maps(g, W, W) /\ Lifts(g, TextCleaned, Wordings)
  <2>1. \A s \in W : Through(TextCleaned, s) \in W
    BY CheckedTexts
  <2> QED BY <2>1 DEF Maps, Lifts
<1>5. Through(BlockTexts, c) = Through(g, m)
  <2>1. \A b \in DOMAIN blocks : BlockTexts[c[b]] = g[BlockTexts[blocks[b]]]
    <3> TAKE b \in DOMAIN blocks
    <3>1. blocks[b] \in ReportBlocks /\ blocks[b].texts \in W
      BY <1>1 DEF ReportBlocks
    <3> QED BY <1>2, <3>1 DEF BlockTexts
  <2> HIDE DEF g
  <2> QED BY <1>3, <2>1 DEF Through
<1> HIDE DEF g
<1>6. m \in Seq(W)
  BY TextsOfIs
<1>7. Through(TextCleaned, FlattenSeq(m)) = FlattenSeq(Through(g, m))
  BY <1>4, <1>6, TheseMap, ThroughFlatten
<1>8. TextsOf(c) = FlattenSeq(Through(BlockTexts, c)) /\ TextsOf(blocks) = FlattenSeq(m)
  BY <1>3, TextsOfIs
<1>9. TextsOf(c) = Through(TextCleaned, TextsOf(blocks))
  BY <1>5, <1>7, <1>8
<1> QED BY <1>2, <1>3, <1>9 DEF c

\* A finite set of numbers, put in order.
LEMMA SortedIs ==
  ASSUME NEW S \in SUBSET Nat, IsFiniteSet(S)
  PROVE  Sorted(S) \in Seq(Nat) /\ ToSet(Sorted(S)) = S /\ Rises(Sorted(S))
<1> DEFINE R == {p \in S \X S : p[1] <= p[2]}
           n == Cardinality(S)
           t == Sorted(S)
<1>1. \A x, y \in S : <<x, y>> \in R <=> x <= y
  OBVIOUS
<1>2. \A x, y \in S : x \in Int /\ y \in Int
  OBVIOUS
<1>3. Orders(R, S)
  <2> HIDE DEF R
  <2>1. \A x \in S : <<x, x>> \in R
    BY <1>1, <1>2
  <2>2. \A x, y \in S : <<x, y>> \in R \/ <<y, x>> \in R
    <3>1. \A x, y \in S : x <= y \/ y <= x
      BY <1>2
    <3> QED BY <1>1, <3>1, Zenon
  <2>3. \A x, y \in S : <<x, y>> \in R /\ <<y, x>> \in R => x = y
    BY <1>1, <1>2
  <2>4. \A x, y, z \in S : <<x, y>> \in R /\ <<y, z>> \in R => <<x, z>> \in R
    BY <1>1, <1>2
  <2> QED BY <2>1, <2>2, <2>3, <2>4 DEF Orders
<1>4. t = [k \in 1..n |-> InPlace(k, S, R)]
  BY DEF Sorted
<1> HIDE DEF R, t
<1>5. /\ n \in Nat /\ \A k \in 1..n : InPlace(k, S, R) \in S
      /\ \A x \in S : \E k \in 1..n : InPlace(k, S, R) = x
      /\ \A k, l \in 1..n : k < l => InPlace(k, S, R) # InPlace(l, S, R) /\ <<InPlace(k, S, R), InPlace(l, S, R)>> \in R
  <2>1. /\ n \in Nat /\ \A k \in 1..n : InPlace(k, S, R) \in S
        /\ \A x \in S : Cardinality(NoLater(x, S, R)) \in 1..n /\ InPlace(Cardinality(NoLater(x, S, R)), S, R) = x
        /\ \A k, l \in 1..n : k < l => InPlace(k, S, R) # InPlace(l, S, R) /\ <<InPlace(k, S, R), InPlace(l, S, R)>> \in R
    BY <1>3, PlacesAre
  <2> HIDE DEF n
  <2> QED BY <2>1
<1>6. t \in Seq(Nat) /\ DOMAIN t = 1..n /\ \A k \in 1..n : t[k] = InPlace(k, S, R)
  <2> HIDE DEF n
  <2>1. n \in Nat /\ \A k \in 1..n : InPlace(k, S, R) \in Nat
    BY <1>5
  <2> DEFINE u == [k \in 1..n |-> InPlace(k, S, R)]
  <2>2. u \in Seq(Nat) /\ DOMAIN u = 1..n /\ \A k \in 1..n : u[k] = InPlace(k, S, R)
    BY <2>1
  <2> QED BY <1>4, <2>2
<1>7. ToSet(t) = S
  <2>1. ToSet(t) = {t[k] : k \in 1..n}
    BY <1>6 DEF ToSet
  <2>2. \A k \in 1..n : t[k] \in S
    BY <1>5, <1>6
  <2>3. \A x \in S : \E k \in 1..n : t[k] = x
    BY <1>5, <1>6
  <2> QED BY <2>1, <2>2, <2>3, Zenon
<1>8. Rises(t)
  <2>1. \A k, l \in 1..n : k < l => t[k] \in Int /\ t[l] \in Int /\ t[k] # t[l] /\ t[k] <= t[l]
    BY <1>1, <1>2, <1>5, <1>6
  <2> QED BY <1>6, <2>1 DEF Rises
<1> QED BY <1>6, <1>7, <1>8 DEF t

\* What is kept of marks that rise, rises.
LEMMA KeptRises ==
  ASSUME NEW s \in Seq(Nat), Rises(s), NEW A
  PROVE  Kept(s, A) \in Seq(Nat) /\ Rises(Kept(s, A))
<1> DEFINE K == Kept(s, A)
<1>1. K \in Seq(Nat \cap A)
  BY KeptType
<1>2. \A i, j \in 1..Len(K) : i < j => \E k, l \in 1..Len(s) : k < l /\ K[i] = s[k] /\ K[j] = s[l]
  BY KeptInOrder
<1> HIDE DEF K
<1>3. \A k, l \in 1..Len(s) : k < l => s[k] < s[l]
  BY DEF Rises
<1>4. DOMAIN K = 1..Len(K) /\ K \in Seq(Nat)
  BY <1>1
<1>5. Rises(K)
  <2>1. ASSUME NEW i \in 1..Len(K), NEW j \in 1..Len(K), i < j PROVE K[i] < K[j]
    <3>1. PICK k \in 1..Len(s), l \in 1..Len(s) : k < l /\ K[i] = s[k] /\ K[j] = s[l]
      BY <1>2, <2>1
    <3> QED BY <1>3, <3>1
  <2> QED BY <1>4, <2>1 DEF Rises
<1> QED BY <1>4, <1>5 DEF K

\* The lines of a body, as texts.
LinesOf(body) == [i \in DOMAIN body |-> body[i].text]

\* The table of a section: a header with rows under it.
HasTable(s) == s.header # <<>> /\ s.rows # <<>>
TableTexts(s) == IF HasTable(s) THEN s.header \o RowTexts(s) ELSE <<>>

\* A section whose table was recovered is a section.
LEMMA SalvagedIs ==
  ASSUME NEW s \in ReportSections
  PROVE  Salvaged(s) \in ReportSections /\ Salvaged(s).sources = s.sources /\ Salvaged(s).heading = s.heading
<1>1. s.leak.header \in Seq(Wordings) /\ s.leak.rows \in Seq(Seq(Wordings)) /\ s.header \in Seq(Wordings) /\ s.rows \in Seq(Seq(Wordings))
  BY DEF ReportSections, LeakedTables
<1> DEFINE h == IF s.header = <<>> THEN s.leak.header ELSE s.header
           r == IF s.rows = <<>> THEN s.leak.rows ELSE s.rows
<1>2. h \in Seq(Wordings) /\ r \in Seq(Seq(Wordings)) /\ Salvaged(s) = [s EXCEPT !.header = h, !.rows = r]
  BY <1>1 DEF Salvaged
<1> HIDE DEF h, r
<1> QED BY <1>2 DEF ReportSections

\* The texts of a section.
LEMMA SectionIs ==
  ASSUME NEW s \in ReportSections
  PROVE  /\ LinesOf(s.body) \in Seq(Wordings) /\ s.bullets \in Seq(Wordings) /\ s.body \in Seq(BodyLines)
         /\ RowTexts(s) \in Seq(Wordings) /\ (s.rows = <<>> => RowTexts(s) = <<>>)
         /\ SectionTexts(s) = LinesOf(s.body) \o s.bullets \o RowTexts(s) /\ SectionTexts(s) \in Seq(Wordings)
         /\ s.heading \in Wordings /\ s.header \o RowTexts(s) \in Seq(Wordings) /\ TableTexts(s) \in Seq(Wordings)
         /\ Substance(s) = LinesOf(s.body) \o s.bullets \o TableTexts(s) /\ Substance(s) \in Seq(Wordings)
         /\ Promised(s) = <<s.heading>> \o Substance(s) /\ <<s.heading>> \in Seq(Wordings)
<1>1. /\ s.body \in Seq(BodyLines) /\ s.bullets \in Seq(Wordings) /\ s.rows \in Seq(Seq(Wordings))
      /\ s.heading \in Wordings /\ s.header \in Seq(Wordings)
      /\ \A l \in BodyLines : l.text \in Wordings
  BY DEF ReportSections, BodyLines
<1>2. LinesOf(s.body) \in Seq(Wordings)
  <2> DEFINE b == s.body
  <2>1. b \in Seq(BodyLines)
    BY <1>1
  <2> HIDE DEF b
  <2>2. DOMAIN b = 1..Len(b) /\ Len(b) \in Nat /\ \A i \in 1..Len(b) : b[i].text \in Wordings
    BY <1>1, <2>1
  <2>3. [i \in DOMAIN b |-> b[i].text] \in Seq(Wordings)
    BY <2>2
  <2> QED BY <2>3 DEF LinesOf, b
<1>3. RowTexts(s) \in Seq(Wordings) /\ (s.rows = <<>> => RowTexts(s) = <<>>)
  BY <1>1, FlattenType, FlattenEmpty DEF RowTexts
<1>4. LinesOf(s.body) \o s.bullets \in Seq(Wordings)
  BY <1>1, <1>2, ConcatProperties
<1>5. SectionTexts(s) = LinesOf(s.body) \o s.bullets \o RowTexts(s)
  BY DEF SectionTexts, LinesOf
<1>6. /\ Substance(s) = LinesOf(s.body) \o s.bullets \o TableTexts(s)
      /\ Promised(s) = <<s.heading>> \o Substance(s)
  BY DEF Promised, Substance, LinesOf, TableTexts, HasTable
<1>7. s.header \o RowTexts(s) \in Seq(Wordings) /\ TableTexts(s) \in Seq(Wordings)
  <2>1. s.header \o RowTexts(s) \in Seq(Wordings)
    BY <1>1, <1>3, ConcatProperties
  <2>2. <<>> \in Seq(Wordings)
    OBVIOUS
  <2> QED BY <2>1, <2>2 DEF TableTexts
<1>8. SectionTexts(s) \in Seq(Wordings)
  BY <1>3, <1>4, <1>5, ConcatProperties
<1>9. Substance(s) \in Seq(Wordings)
  BY <1>4, <1>6, <1>7, ConcatProperties
<1>10. <<s.heading>> \in Seq(Wordings)
  BY <1>1
<1> QED BY <1>1, <1>2, <1>3, <1>5, <1>6, <1>7, <1>8, <1>9, <1>10

\* The trail rises, and is the declared sources where nothing is marked.
LEMMA TrailIs ==
  ASSUME NEW s \in ReportSections, IsFiniteSet(s.sources)
  PROVE  /\ Trail(s) \in Seq(Nat) /\ Rises(Trail(s))
         /\ MarksIn(SectionTexts(s)) = <<>> => ToSet(Trail(s)) = {n \in s.sources : n > 0}
<1> DEFINE S == {n \in s.sources : n > 0}
<1>1. s.sources \in SUBSET Int
  BY DEF ReportSections
<1>2. S \in SUBSET Nat /\ IsFiniteSet(S)
  <2>1. S \subseteq s.sources
    OBVIOUS
  <2>2. IsFiniteSet(S)
    BY <2>1, FS_Subset
  <2> QED BY <1>1, <2>2
<1>3. Sorted(S) \in Seq(Nat) /\ ToSet(Sorted(S)) = S /\ Rises(Sorted(S))
  <2> HIDE DEF S
  <2> QED BY <1>2, SortedIs
<1>5. <<>> \in Seq(Nat) /\ Rises(<<>>)
  BY DEF Rises
<1>6. MarksIn(SectionTexts(s)) = <<>> => Kept(MarksIn(SectionTexts(s)), Matched) = <<>>
  BY KeptEmpty
<1> QED BY <1>3, <1>5, <1>6 DEF Trail

\* s without its last element, and with another.
Opening(s) == SubSeq(s, 1, Len(s) - 1)
Ending(s, x) == [s EXCEPT ![Len(s)] = x]

\* A list is some elements and a last one, which may be another.
LastMayBe(S, s, x) ==
    /\ Len(s) \in 1..Len(s) /\ s[Len(s)] \in S /\ Last(s) = s[Len(s)]
    /\ Ending(s, x) \in Seq(S) /\ Len(Ending(s, x)) = Len(s)
    /\ Opening(s) \in Seq(S) /\ s = Opening(s) \o <<s[Len(s)]>> /\ Ending(s, x) = Opening(s) \o <<x>>

LEMMA LastChanged ==
  ASSUME NEW S, NEW s \in Seq(S), s # <<>>, NEW x \in S
  PROVE  LastMayBe(S, s, x)
<1> DEFINE n == Len(s)
           f == SubSeq(s, 1, n - 1)
           t == [s EXCEPT ![n] = x]
<1>1. n \in Nat /\ n > 0 /\ n \in 1..n /\ s[n] \in S
  OBVIOUS
<1>2. f \in Seq(S) /\ Len(f) = n - 1 /\ \A i \in 1..(n - 1) : f[i] = s[i]
  <2>1. 1 \in Int /\ n - 1 \in Int /\ \A i \in 1..(n - 1) : s[i] \in S
    BY <1>1
  <2>2. /\ f \in Seq(S) /\ Len(f) = IF 1 <= n - 1 THEN (n - 1) - 1 + 1 ELSE 0
        /\ \A i \in 1..((n - 1) - 1 + 1) : f[i] = s[1 + i - 1]
    BY <2>1, SubSeqProperties
  <2> HIDE DEF f, n
  <2> QED BY <1>1, <2>2
<1>3. t \in Seq(S) /\ Len(t) = n /\ t[n] = x /\ \A i \in 1..(n - 1) : t[i] = s[i]
  BY <1>1
<1> HIDE DEF f, t
<1>4. \A y \in S : f \o <<y>> \in Seq(S) /\ Len(f \o <<y>>) = n /\ (f \o <<y>>)[n] = y /\ \A i \in 1..(n - 1) : (f \o <<y>>)[i] = f[i]
  <2> TAKE y \in S
  <2>1. <<y>> \in Seq(S) /\ Len(<<y>>) = 1 /\ <<y>>[1] = y
    OBVIOUS
  <2>2. /\ f \o <<y>> \in Seq(S) /\ Len(f \o <<y>>) = n - 1 + 1
        /\ \A i \in 1..(n - 1 + 1) : (f \o <<y>>)[i] = IF i <= n - 1 THEN f[i] ELSE <<y>>[i - (n - 1)]
    BY <1>2, <2>1, ConcatProperties
  <2> HIDE DEF n
  <2> QED BY <1>1, <2>1, <2>2
<1>5. \A i \in 1..n : i \in 1..(n - 1) \/ i = n
  BY <1>1
<1> HIDE DEF n
<1>6. s = f \o <<s[n]>>
  <2>1. \A i \in 1..n : s[i] = (f \o <<s[n]>>)[i]
    BY <1>1, <1>2, <1>4, <1>5
  <2> QED BY <1>1, <1>4, <2>1, SeqEqual DEF n
<1>7. t = f \o <<x>>
  <2>1. \A i \in 1..n : t[i] = (f \o <<x>>)[i]
    BY <1>2, <1>3, <1>4, <1>5
  <2> QED BY <1>3, <1>4, <2>1, SeqEqual
<1> QED BY <1>1, <1>2, <1>3, <1>6, <1>7 DEF Last, n, t, f, Ending, Opening, LastMayBe

\* Blocks of a body: they have no heading, and each says something.
Bodies == {bs \in Seq(ReportBlocks) : \A i \in 1..Len(bs) : bs[i].texts # <<>> /\ bs[i].heading = <<>>}

\* A block of texts.
LEMMA ParagraphsAre ==
  ASSUME NEW kind \in BlockKinds, NEW texts \in Seq(Wordings)
  PROVE  /\ Paragraphs(kind, texts) \in ReportBlocks
         /\ Paragraphs(kind, texts).texts = texts /\ Paragraphs(kind, texts).heading = <<>>
         /\ Paragraphs(kind, texts).caption = <<>>
<1>1. <<>> \in Seq(Titles) /\ <<>> \in Seq(Nat)
  OBVIOUS
<1> QED BY <1>1 DEF Paragraphs, ReportBlocks

\* Block b with other texts.
LEMMA BlockIs ==
  ASSUME NEW b \in ReportBlocks, NEW texts \in Seq(Wordings)
  PROVE  /\ b.texts \in Seq(Wordings) /\ b.caption \in Seq(Nat)
         /\ [b EXCEPT !.texts = texts] \in ReportBlocks /\ [b EXCEPT !.texts = texts].texts = texts
         /\ [b EXCEPT !.texts = texts].heading = b.heading /\ [b EXCEPT !.texts = texts].caption = b.caption
BY DEF ReportBlocks

\* One line more is one text more, in a block of its own or in the last one.
LEMMA WithLineIs ==
  ASSUME NEW blocks \in Bodies, NEW line \in BodyLines
  PROVE  /\ WithLine(blocks, line) \in Bodies /\ WithLine(blocks, line) # <<>>
         /\ TextsOf(WithLine(blocks, line)) = Append(TextsOf(blocks), line.text)
         /\ line.text \in Wordings
<1>1. blocks \in Seq(ReportBlocks) /\ \A i \in 1..Len(blocks) : blocks[i].texts # <<>> /\ blocks[i].heading = <<>>
  BY DEF Bodies
<1>2. line.text \in Wordings
  BY DEF BodyLines
<1>3. TextsOf(blocks) \in Seq(Wordings)
  BY <1>1, TextsOfIs
<1>4. \A s \in Seq(Wordings) : s \o <<line.text>> = Append(s, line.text)
  BY <1>2
<1>5. CASE line.item /\ blocks # <<>> /\ Last(blocks).kind = "bullets"
  <2> DEFINE n == Len(blocks)
             b == blocks[n]
             texts == Append(b.texts, line.text)
             c == [b EXCEPT !.texts = texts]
             w == [blocks EXCEPT ![n] = c]
  <2>1. b \in ReportBlocks /\ n \in 1..n /\ n \in Nat
    <3>1. \A z \in ReportBlocks : LastMayBe(ReportBlocks, blocks, z)
      BY <1>1, <1>5, LastChanged
    <3>2. blocks[Len(blocks)] \in ReportBlocks
      BY <1>1, <1>5
    <3> QED BY <3>1, <3>2 DEF LastMayBe
  <2>2. b.texts \in Seq(Wordings) /\ texts \in Seq(Wordings) /\ texts # <<>>
    <3>1. b.texts \in Seq(Wordings)
      BY <2>1 DEF ReportBlocks
    <3> QED BY <1>2, <3>1
  <2>3. c \in ReportBlocks /\ c.texts = texts /\ c.heading = b.heading
    <3> HIDE DEF b, texts
    <3> QED BY <2>1, <2>2, BlockIs
  <2>4. WithLine(blocks, line) = w
    <3>1. w = [blocks EXCEPT ![Len(blocks)].texts = Append(@, line.text)]
      OBVIOUS
    <3> QED BY <1>5, <3>1 DEF WithLine
  <2> HIDE DEF c, b
  <2> DEFINE f == Opening(blocks)
  <2>5. /\ w \in Seq(ReportBlocks) /\ Len(w) = n /\ f \in Seq(ReportBlocks)
        /\ blocks = f \o <<b>> /\ w = f \o <<c>>
    <3>1. blocks # <<>> /\ c \in ReportBlocks /\ blocks \in Seq(ReportBlocks) /\ w = Ending(blocks, c)
      BY <1>1, <1>5, <2>3 DEF Ending
    <3> HIDE DEF w
    <3>2. LastMayBe(ReportBlocks, blocks, c)
      BY <3>1, LastChanged
    <3> QED BY <3>1, <3>2 DEF b, LastMayBe
  <2>6. w = f \o <<c>> /\ f \in Seq(ReportBlocks) /\ blocks = f \o <<b>>
    BY <2>5
  <2>7. \A i \in 1..n : w[i] = IF i = n THEN c ELSE blocks[i]
    BY <1>1, <2>1
  <2> HIDE DEF w, f
  <2>8. w # <<>>
    BY <2>1, <2>5
  <2>9. w \in Bodies
    <3>1. \A i \in 1..n : w[i].texts # <<>> /\ w[i].heading = <<>>
      <4> TAKE i \in 1..n
      <4>1. blocks[i].texts # <<>> /\ blocks[i].heading = <<>> /\ b.heading = <<>>
        BY <1>1, <2>1 DEF b
      <4>2. w[i] = IF i = n THEN c ELSE blocks[i]
        BY <2>7
      <4> HIDE DEF texts
      <4> QED BY <2>2, <2>3, <4>1, <4>2
    <3> QED BY <2>5, <3>1 DEF Bodies
  <2>10. TextsOf(blocks) = TextsOf(f) \o b.texts /\ TextsOf(w) = TextsOf(f) \o texts /\ TextsOf(f) \in Seq(Wordings)
    <3> HIDE DEF texts
    <3>1. <<b>> \in Seq(ReportBlocks) /\ <<c>> \in Seq(ReportBlocks) /\ TextsOf(<<b>>) = b.texts /\ TextsOf(<<c>>) = texts
      BY <2>1, <2>3, OneBlock
    <3>2. TextsOf(f \o <<b>>) = TextsOf(f) \o TextsOf(<<b>>)
      BY <2>6, <3>1, BlocksJoined
    <3>3. TextsOf(f \o <<c>>) = TextsOf(f) \o TextsOf(<<c>>)
      BY <2>6, <3>1, BlocksJoined
    <3> QED BY <2>6, <3>1, <3>2, <3>3, TextsOfIs
  <2>11. TextsOf(f) \o Append(b.texts, line.text) = Append(TextsOf(f) \o b.texts, line.text)
    BY <1>2, <2>2, <2>10, ConcatAppend
  <2> QED BY <1>2, <2>4, <2>8, <2>9, <2>10, <2>11
<1>6. CASE ~(line.item /\ blocks # <<>> /\ Last(blocks).kind = "bullets")
  <2> DEFINE kind == IF line.item THEN "bullets" ELSE "paragraph"
             p == Paragraphs(kind, <<line.text>>)
             w == Append(blocks, p)
  <2>1. p \in ReportBlocks /\ p.texts = <<line.text>> /\ p.heading = <<>>
    <3>1. kind \in BlockKinds /\ <<line.text>> \in Seq(Wordings)
      BY <1>2 DEF BlockKinds
    <3> HIDE DEF kind
    <3> QED BY <3>1, ParagraphsAre
  <2>2. WithLine(blocks, line) = w
    BY <1>6 DEF WithLine
  <2> HIDE DEF p
  <2>3. w \in Seq(ReportBlocks) /\ w # <<>> /\ w = blocks \o <<p>> /\ Len(w) = Len(blocks) + 1
    BY <1>1, <2>1, AppendProperties, AppendIsConcat
  <2>4. w \in Bodies
    <3>1. \A i \in 1..(Len(blocks) + 1) : (i \in 1..Len(blocks) /\ w[i] = blocks[i]) \/ w[i] = p
      BY <1>1, <2>1
    <3>2. p.texts # <<>>
      BY <2>1
    <3> HIDE DEF w
    <3>3. \A i \in 1..Len(w) : w[i].texts # <<>> /\ w[i].heading = <<>>
      BY <1>1, <2>1, <2>3, <3>1, <3>2
    <3> QED BY <2>3, <3>3 DEF Bodies
  <2>5. TextsOf(w) = Append(TextsOf(blocks), line.text)
    <3>1. <<p>> \in Seq(ReportBlocks) /\ TextsOf(<<p>>) = <<line.text>>
      BY <2>1, OneBlock
    <3>2. TextsOf(blocks \o <<p>>) = TextsOf(blocks) \o TextsOf(<<p>>)
      BY <1>1, <3>1, BlocksJoined
    <3> QED BY <1>3, <1>4, <2>3, <3>1, <3>2
  <2> QED BY <1>2, <2>2, <2>3, <2>4, <2>5
<1> QED BY <1>5, <1>6

\* The body is put together a line at a time (_body_blocks).
Builds(body, F) == F = [n \in 0..Len(body) |-> IF n = 0 THEN <<>> ELSE WithLine(F[n - 1], body[n])]

BodyNext == [p \in Bodies \X BodyLines |-> WithLine(p[1], p[2])]

LEMMA BodyFolds ==
  ASSUME NEW s \in Seq(BodyLines)
  PROVE  CanFold(Bodies, BodyLines, <<>>, s, BodyNext) /\ BodyBlocks(s) = FoldOf(Bodies, <<>>, s, BodyNext)
<1> DEFINE next == BodyNext
           n == Len(s)
           F == CHOOSE F : Builds(s, F)
<1>1. n \in Nat /\ (\A i \in 1..n : s[i] \in BodyLines /\ i - 1 \in 0..n /\ i \in 0..n /\ i # 0) /\ 0 \in 0..n
  OBVIOUS
<1>2. CanFold(Bodies, BodyLines, <<>>, s, next) /\ \A x \in Bodies, e \in BodyLines : next[<<x, e>>] = WithLine(x, e)
  <2>1. <<>> \in Bodies
    BY DEF Bodies
  <2> QED BY <2>1, WithLineIs DEF BodyNext, CanFold
<1> HIDE DEF next
<1>3. PICK G : Folds(Bodies, <<>>, s, next, G)
  BY <1>2, FoldExists
<1>4. G \in [0..n -> Bodies] /\ G[0] = <<>> /\ \A i \in 1..n : G[i] = WithLine(G[i - 1], s[i])
  BY <1>1, <1>2, <1>3 DEF Folds
<1>5. Builds(s, G)
  <2>1. G = [i \in 0..n |-> G[i]] /\ \A i \in 0..n : i = 0 \/ i \in 1..n
    BY <1>1, <1>4
  <2>2. \A i \in 0..n : G[i] = IF i = 0 THEN <<>> ELSE WithLine(G[i - 1], s[i])
    BY <1>4, <2>1
  <2> QED BY <2>1, <2>2 DEF Builds
<1>6. Builds(s, F) /\ BodyBlocks(s) = F[n]
  BY <1>5 DEF BodyBlocks, Builds
<1> HIDE DEF F
<1>7. \A i \in 0..n : F[i] = IF i = 0 THEN <<>> ELSE WithLine(F[i - 1], s[i])
  BY <1>6, Zenon DEF Builds
<1>8. GoesThrough(Bodies, <<>>, s, next, F)
  BY <1>1, <1>2, <1>7 DEF GoesThrough
<1>9. F[Len(s)] = FoldOf(Bodies, <<>>, s, next)
  BY <1>2, <1>8, FoldOnly
<1> QED BY <1>2, <1>6, <1>9 DEF next

\* One line more, and none.
LEMMA BodyAppend ==
  ASSUME NEW s \in Seq(BodyLines), NEW e \in BodyLines
  PROVE  BodyBlocks(Append(s, e)) = WithLine(BodyBlocks(s), e) /\ BodyBlocks(s) \in Bodies
<1> DEFINE next == BodyNext
           t == Append(s, e)
<1>1. CanFold(Bodies, BodyLines, <<>>, s, next) /\ BodyBlocks(s) = FoldOf(Bodies, <<>>, s, next)
  BY BodyFolds
<1>2. BodyBlocks(t) = FoldOf(Bodies, <<>>, t, next)
  <2>1. t \in Seq(BodyLines)
    OBVIOUS
  <2> HIDE DEF t
  <2> QED BY <2>1, BodyFolds
<1> HIDE DEF next
<1>3. FoldOf(Bodies, <<>>, Append(s, e), next) = next[<<FoldOf(Bodies, <<>>, s, next), e>>] /\ FoldOf(Bodies, <<>>, s, next) \in Bodies
  BY <1>1, FoldAppend
<1>4. \A x \in Bodies : next[<<x, e>>] = WithLine(x, e)
  BY DEF next, BodyNext
<1> QED BY <1>1, <1>2, <1>3, <1>4 DEF t

LEMMA BodyNone == BodyBlocks(<<>>) = <<>>
<1> DEFINE next == BodyNext
           none == <<>>
<1>1. none \in Seq(BodyLines)
  OBVIOUS
<1> HIDE DEF none
<1>2. CanFold(Bodies, BodyLines, <<>>, none, next) /\ BodyBlocks(none) = FoldOf(Bodies, <<>>, none, next)
  BY <1>1, BodyFolds
<1> HIDE DEF next
<1> QED BY <1>2, FoldNone DEF none

\* The blocks of a body say its lines, in their order.
LEMMA BodyIs ==
  ASSUME NEW body \in Seq(BodyLines)
  PROVE  BodyBlocks(body) \in Bodies /\ TextsOf(BodyBlocks(body)) = LinesOf(body)
<1> DEFINE P == {b \in Seq(BodyLines) : BodyBlocks(b) \in Bodies /\ TextsOf(BodyBlocks(b)) = LinesOf(b)}
<1>1. <<>> \in P
  <2>1. <<>> \in Bodies /\ <<>> \in Seq(BodyLines) /\ LinesOf(<<>>) = <<>>
    BY DEF Bodies, LinesOf
  <2> QED BY <2>1, BodyNone, NothingIsSaid
<1>2. ASSUME NEW b \in Seq(BodyLines), NEW e \in BodyLines, b \in P PROVE Append(b, e) \in P
  <2>1. BodyBlocks(Append(b, e)) = WithLine(BodyBlocks(b), e) /\ BodyBlocks(b) \in Bodies /\ TextsOf(BodyBlocks(b)) = LinesOf(b)
    BY <1>2, BodyAppend
  <2>2. WithLine(BodyBlocks(b), e) \in Bodies /\ TextsOf(WithLine(BodyBlocks(b), e)) = Append(LinesOf(b), e.text) /\ e.text \in Wordings
    BY <2>1, WithLineIs
  <2>3. LinesOf(Append(b, e)) = Append(LinesOf(b), e.text)
    <3> DEFINE f == [l \in BodyLines |-> l.text]
    <3>1. Maps(f, BodyLines, Wordings)
      BY DEF Maps, BodyLines
    <3>2. \A c \in Seq(BodyLines) : LinesOf(c) = Through(f, c)
      BY DEF LinesOf, Through
    <3>3. f[e] = e.text
      OBVIOUS
    <3> HIDE DEF f
    <3>4. Through(f, Append(b, e)) = Append(Through(f, b), f[e])
      BY <3>1, ThroughAppend
    <3>5. Append(b, e) \in Seq(BodyLines)
      OBVIOUS
    <3> QED BY <3>2, <3>3, <3>4, <3>5
  <2>4. Append(b, e) \in Seq(BodyLines)
    OBVIOUS
  <2> QED BY <2>1, <2>2, <2>3, <2>4
<1>3. body \in P
  <2> HIDE DEF P
  <2> QED BY <1>1, <1>2, SeqInduction
<1> QED BY <1>3

\* The texts with the trail after the last of them.
LEMMA SignedIs ==
  ASSUME NEW texts \in Seq(Wordings), NEW trail \in Seq(Nat)
  PROVE  /\ Signed(texts, trail) \in Seq(Wordings) /\ Len(Signed(texts, trail)) = Len(texts)
         /\ Says(Signed(texts, trail)) = Says(texts)
         /\ trail = <<>> => Signed(texts, trail) = texts
         /\ texts # <<>> => Last(Signed(texts, trail)).marks = texts[Len(texts)].marks \o trail
<1> DEFINE n == Len(texts)
           t == texts[n]
           m == t.marks \o trail
           u == [t EXCEPT !.marks = m]
           w == [texts EXCEPT ![n] = u]
<1>1. CASE texts = <<>>
  BY <1>1 DEF Signed
<1>2. CASE texts # <<>>
  <2>1. n \in Nat /\ n \in 1..n /\ t \in Wordings
    BY <1>2
  <2>2. t.marks \in Seq(Nat) /\ m \in Seq(Nat) /\ (trail = <<>> => m = t.marks)
    <3>1. t.marks \in Seq(Nat)
      BY <2>1 DEF Wordings
    <3> QED BY <3>1, ConcatProperties
  <2>3. Signed(texts, trail) = w
    BY <1>2 DEF Signed
  <2>4. u \in Wordings /\ u.marks = m /\ u.says = t.says
    <3> HIDE DEF t, m
    <3> QED BY <2>1, <2>2, WordingIs
  <2>5. m = t.marks => u = t
    <3> HIDE DEF m
    <3> QED BY <2>1 DEF Wordings
  <2> HIDE DEF u
  <2>6. w \in Seq(Wordings) /\ Len(w) = n /\ w[n] = u /\ DOMAIN w = DOMAIN texts /\ \A i \in DOMAIN texts : w[i] = IF i = n THEN u ELSE texts[i]
    BY <2>1, <2>4
  <2>7. u = t => w = texts
    <3>1. u = t => \A i \in 1..n : w[i] = texts[i]
      BY <2>6
    <3> HIDE DEF w, n, t
    <3> QED BY <2>6, <3>1, SeqEqual DEF n
  <2> HIDE DEF w
  <2>8. Says(w) = Says(texts)
    BY <2>4, <2>6 DEF Says
  <2> QED BY <1>2, <2>2, <2>3, <2>4, <2>5, <2>6, <2>7, <2>8 DEF Last
<1> QED BY <1>1, <1>2

\* The parts of a section, as _to_docx_spec puts them one after the other.
HeadingBlock(s) == [Paragraphs("heading", <<s.heading>>) EXCEPT !.heading = TitleOf(s.heading)]
LastSigned(body, trail) == [body EXCEPT ![Len(body)].texts = Signed(@, trail)]
BodyPart(s) ==
    IF HasTable(s) \/ s.bullets # <<>> \/ BodyBlocks(s.body) = <<>> THEN BodyBlocks(s.body)
    ELSE LastSigned(BodyBlocks(s.body), Trail(s))
BulletTexts(s) == IF HasTable(s) THEN s.bullets ELSE Signed(s.bullets, Trail(s))
BulletPart(s) == IF s.bullets = <<>> THEN <<>> ELSE <<Paragraphs("bullets", BulletTexts(s))>>
TableBlock(s) == [Paragraphs("table", s.header \o RowTexts(s)) EXCEPT !.caption = Trail(s)]
TablePart(s) == IF ~HasTable(s) THEN <<>> ELSE <<TableBlock(s)>>

LEMMA SectionParts ==
  ASSUME NEW raw
  PROVE  SectionBlocks(raw) = <<HeadingBlock(Salvaged(raw))>> \o BodyPart(Salvaged(raw))
                              \o BulletPart(Salvaged(raw)) \o TablePart(Salvaged(raw))
BY DEF SectionBlocks, HeadingBlock, BodyPart, BulletPart, BulletTexts, TablePart, TableBlock, HasTable, LastSigned

\* A list of one, and of two.
LEMMA OneOf == ASSUME NEW S, NEW x \in S PROVE <<x>> \in Seq(S) /\ <<x>> \o <<>> = <<x>> /\ Len(<<x>>) = 1
OBVIOUS

LEMMA TwoOf ==
  ASSUME NEW S, NEW x \in S, NEW y \in S
  PROVE  <<x>> \o <<y>> \in Seq(S) /\ \A z : <<x>> \o <<y>> # <<z>>
<1>1. <<x>> \in Seq(S) /\ <<y>> \in Seq(S) /\ Len(<<x>>) = 1 /\ Len(<<y>>) = 1
  OBVIOUS
<1>2. <<x>> \o <<y>> \in Seq(S) /\ Len(<<x>> \o <<y>>) = 2
  BY <1>1, ConcatProperties
<1>3. \A z : Len(<<z>>) = 1
  OBVIOUS
<1> QED BY <1>2, <1>3

\* The heading is no reserved one.
LEMMA HeadingIs ==
  ASSUME NEW h \in STRING
  PROVE  SafeHeading(h) \in Seq(Titles) /\ \A r \in ReservedHeadings : SafeHeading(h) # <<r>>
<1> DEFINE more == "as stated in the answer"
<1>1. h \in Titles /\ more \in Titles
  BY DEF Titles
<1>2. CASE h \in ReservedHeadings
  <2>1. SafeHeading(h) = <<h>> \o <<more>>
    BY <1>2 DEF SafeHeading
  <2> HIDE DEF more
  <2> QED BY <1>1, <2>1, TwoOf
<1>3. CASE h \notin ReservedHeadings
  <2>1. SafeHeading(h) = <<h>> \o <<>>
    BY <1>3 DEF SafeHeading
  <2>2. SafeHeading(h) = <<h>> /\ <<h>> \in Seq(Titles)
    BY <1>1, <2>1, OneOf
  <2>3. \A r : <<h>> = <<r>> => h = r
    <3> TAKE r
    <3>1. <<h>>[1] = h /\ <<r>>[1] = r
      OBVIOUS
    <3> QED BY <3>1
  <2> QED BY <1>3, <2>2, <2>3
<1> QED BY <1>2, <1>3

\* Nor is it where it is not marked.
LEMMA TitleIs ==
  ASSUME NEW w \in Wordings
  PROVE  /\ TitleOf(w) \in Seq(Titles)
         /\ w.marks = <<>> => \A r \in ReservedHeadings : TitleOf(w) # <<r>>
<1>1. w.says \in STRING
  BY DEF Wordings
<1>2. SafeHeading(w.says) \in Seq(Titles) /\ \A r \in ReservedHeadings : SafeHeading(w.says) # <<r>>
  BY <1>1, HeadingIs
<1>3. w.says \in Titles
  BY <1>1 DEF Titles
<1>4. <<w.says>> \in Seq(Titles)
  BY <1>3, OneOf
<1> QED BY <1>2, <1>4 DEF TitleOf

\* A part of the blocks of a section and the texts it was made of; the section is bare
\* when no mark is in its heading.
Heads(blocks) == \A i \in 1..Len(blocks) : \A h \in ReservedHeadings : blocks[i].heading # <<h>>
PartIs(trail, bare, blocks, texts) ==
    /\ blocks \in Seq(ReportBlocks) /\ texts \in Seq(Wordings)
    /\ bare => Heads(blocks)
    /\ TextsOf(blocks) \in Seq(Wordings) /\ Says(TextsOf(blocks)) = Says(texts)
    /\ trail = <<>> => TextsOf(blocks) = texts

LEMMA PartsJoined ==
  ASSUME NEW trail, NEW bare \in BOOLEAN, NEW b1, NEW t1, PartIs(trail, bare, b1, t1),
         NEW b2, NEW t2, PartIs(trail, bare, b2, t2)
  PROVE  PartIs(trail, bare, b1 \o b2, t1 \o t2)
<1>1. /\ b1 \in Seq(ReportBlocks) /\ b2 \in Seq(ReportBlocks) /\ t1 \in Seq(Wordings) /\ t2 \in Seq(Wordings)
      /\ TextsOf(b1) \in Seq(Wordings) /\ TextsOf(b2) \in Seq(Wordings)
  BY DEF PartIs
<1>2. b1 \o b2 \in Seq(ReportBlocks) /\ TextsOf(b1 \o b2) = TextsOf(b1) \o TextsOf(b2)
  BY <1>1, BlocksJoined
<1>3. t1 \o t2 \in Seq(Wordings) /\ Says(t1 \o t2) = Says(t1) \o Says(t2)
  BY <1>1, TextsJoined
<1>4. /\ TextsOf(b1) \o TextsOf(b2) \in Seq(Wordings)
      /\ Says(TextsOf(b1) \o TextsOf(b2)) = Says(TextsOf(b1)) \o Says(TextsOf(b2))
  BY <1>1, TextsJoined
<1>5. ASSUME bare PROVE Heads(b1 \o b2)
  <2> DEFINE b == b1 \o b2
  <2>1. /\ Len(b) = Len(b1) + Len(b2)
        /\ \A i \in 1..(Len(b1) + Len(b2)) : b[i] = IF i <= Len(b1) THEN b1[i] ELSE b2[i - Len(b1)]
    BY <1>1, ConcatProperties
  <2> HIDE DEF b
  <2>2. Len(b1) \in Nat /\ Len(b2) \in Nat
    BY <1>1
  <2>3. Heads(b1) /\ Heads(b2)
    BY <1>5 DEF PartIs
  <2>4. ASSUME NEW i \in 1..(Len(b1) + Len(b2)), NEW h \in ReservedHeadings PROVE b[i].heading # <<h>>
    <3>1. CASE i <= Len(b1)
      <4>1. i \in 1..Len(b1) /\ b[i] = b1[i]
        BY <2>1, <2>2, <3>1
      <4> QED BY <2>3, <4>1 DEF Heads
    <3>2. CASE ~(i <= Len(b1))
      <4>1. i - Len(b1) \in 1..Len(b2) /\ b[i] = b2[i - Len(b1)]
        BY <2>1, <2>2, <3>2
      <4> QED BY <2>3, <4>1 DEF Heads
    <3> QED BY <3>1, <3>2
  <2> QED BY <2>1, <2>4 DEF Heads, b
<1> QED BY <1>2, <1>3, <1>4, <1>5 DEF PartIs

\* Nothing, and a block of its own.
LEMMA PartNone == ASSUME NEW trail, NEW bare \in BOOLEAN PROVE PartIs(trail, bare, <<>>, <<>>)
<1>1. <<>> \in Seq(ReportBlocks) /\ <<>> \in Seq(Wordings) /\ 1..Len(<<>>) = {}
  OBVIOUS
<1> QED BY <1>1, NothingIsSaid DEF PartIs, Heads

LEMMA PartOne ==
  ASSUME NEW trail, NEW bare \in BOOLEAN, NEW b \in ReportBlocks, NEW texts \in Seq(Wordings),
         bare => \A h \in ReservedHeadings : b.heading # <<h>>,
         Says(b.texts) = Says(texts), trail = <<>> => b.texts = texts
  PROVE  PartIs(trail, bare, <<b>>, texts)
<1>1. <<b>> \in Seq(ReportBlocks) /\ TextsOf(<<b>>) = b.texts
  BY OneBlock
<1>2. b.texts \in Seq(Wordings)
  BY DEF ReportBlocks
<1>3. bare => Heads(<<b>>)
  <2>1. \A i \in 1..Len(<<b>>) : <<b>>[i] = b
    OBVIOUS
  <2> QED BY <2>1 DEF Heads
<1> QED BY <1>1, <1>2, <1>3 DEF PartIs

\* Each part of a section is made of what the section has for it.
LEMMA HeadPartIs ==
  ASSUME NEW s \in ReportSections, NEW trail
  PROVE  PartIs(trail, s.heading.marks = <<>>, <<HeadingBlock(s)>>, <<s.heading>>)
<1> DEFINE texts == <<s.heading>>
           p == Paragraphs("heading", texts)
           title == TitleOf(s.heading)
           bare == s.heading.marks = <<>>
           b == [p EXCEPT !.heading = title]
<1>1. s.heading \in Wordings /\ texts \in Seq(Wordings)
  BY SectionIs
<1>2. title \in Seq(Titles) /\ (bare => \A r \in ReservedHeadings : title # <<r>>)
  BY <1>1, TitleIs
<1> HIDE DEF texts
<1>3. p \in ReportBlocks /\ p.texts = texts
  <2>1. "heading" \in BlockKinds
    BY DEF BlockKinds
  <2> QED BY <1>1, <2>1, ParagraphsAre
<1> HIDE DEF p, title
<1>4. b \in ReportBlocks /\ b.heading = title /\ b.texts = texts
  BY <1>2, <1>3 DEF ReportBlocks
<1>5. HeadingBlock(s) = b
  BY DEF HeadingBlock, p, title, texts
<1> HIDE DEF b
<1>6. bare \in BOOLEAN
  OBVIOUS
<1> HIDE DEF bare
<1>7. bare => \A h \in ReservedHeadings : b.heading # <<h>>
  BY <1>2, <1>4
<1>8. PartIs(trail, bare, <<b>>, texts)
  BY <1>1, <1>4, <1>6, <1>7, PartOne
<1> QED BY <1>5, <1>8 DEF bare, texts

LEMMA BulletPartIs ==
  ASSUME NEW s \in ReportSections, Trail(s) \in Seq(Nat), NEW bare \in BOOLEAN
  PROVE  /\ PartIs(Trail(s), bare, BulletPart(s), s.bullets)
         /\ BulletTexts(s) \in Seq(Wordings)
<1> DEFINE trail == Trail(s)
           texts == BulletTexts(s)
           b == Paragraphs("bullets", texts)
<1>1. s.bullets \in Seq(Wordings)
  BY DEF ReportSections
<1>2. /\ Signed(s.bullets, trail) \in Seq(Wordings) /\ Says(Signed(s.bullets, trail)) = Says(s.bullets)
      /\ trail = <<>> => Signed(s.bullets, trail) = s.bullets
  BY <1>1, SignedIs
<1>3. texts \in Seq(Wordings) /\ Says(texts) = Says(s.bullets) /\ (trail = <<>> => texts = s.bullets)
  BY <1>1, <1>2 DEF BulletTexts
<1> HIDE DEF texts, trail
<1>4. b \in ReportBlocks /\ b.texts = texts /\ b.heading = <<>>
  BY <1>3, ParagraphsAre DEF BlockKinds
<1> HIDE DEF b
<1>5. \A h \in ReservedHeadings : b.heading # <<h>>
  <2>1. \A h : <<>> # <<h>>
    OBVIOUS
  <2> QED BY <1>4, <2>1
<1>6. PartIs(trail, bare, <<b>>, s.bullets)
  BY <1>1, <1>3, <1>4, <1>5, PartOne
<1>7. BulletPart(s) = IF s.bullets = <<>> THEN <<>> ELSE <<b>>
  BY DEF BulletPart, b, texts
<1>8. s.bullets = <<>> => PartIs(trail, bare, <<>>, s.bullets)
  BY PartNone
<1>9. PartIs(trail, bare, BulletPart(s), s.bullets)
  BY <1>6, <1>7, <1>8
<1> QED BY <1>3, <1>9 DEF trail, texts

LEMMA TableBlockIs ==
  ASSUME NEW s \in ReportSections, Trail(s) \in Seq(Nat)
  PROVE  /\ TableBlock(s) \in ReportBlocks /\ TableBlock(s).texts = s.header \o RowTexts(s)
         /\ TableBlock(s).heading = <<>> /\ TableBlock(s).caption = Trail(s)
         /\ s.header \o RowTexts(s) \in Seq(Wordings)
<1> DEFINE texts == s.header \o RowTexts(s)
           p == Paragraphs("table", texts)
<1>1. texts \in Seq(Wordings)
  BY SectionIs
<1> HIDE DEF texts
<1>2. p \in ReportBlocks /\ p.texts = texts /\ p.heading = <<>>
  BY <1>1, ParagraphsAre DEF BlockKinds
<1>3. TableBlock(s) = [p EXCEPT !.caption = Trail(s)]
  BY DEF TableBlock, texts
<1> HIDE DEF p
<1>4. TableBlock(s) \in ReportBlocks /\ TableBlock(s).texts = texts /\ TableBlock(s).heading = <<>> /\ TableBlock(s).caption = Trail(s)
  BY <1>2, <1>3 DEF ReportBlocks
<1> QED BY <1>1, <1>4 DEF texts

LEMMA TablePartIs ==
  ASSUME NEW s \in ReportSections, Trail(s) \in Seq(Nat), NEW bare \in BOOLEAN
  PROVE  PartIs(Trail(s), bare, TablePart(s), TableTexts(s))
<1> DEFINE b == TableBlock(s)
           trail == Trail(s)
           texts == s.header \o RowTexts(s)
<1>1. b \in ReportBlocks /\ b.texts = texts /\ b.heading = <<>> /\ texts \in Seq(Wordings)
  BY TableBlockIs
<1> HIDE DEF b, trail, texts
<1>2. \A h \in ReservedHeadings : b.heading # <<h>>
  <2>1. \A h : <<>> # <<h>>
    OBVIOUS
  <2> QED BY <1>1, <2>1
<1>3. PartIs(trail, bare, <<b>>, texts)
  BY <1>1, <1>2, PartOne
<1>4. TableTexts(s) = IF HasTable(s) THEN texts ELSE <<>>
  BY DEF TableTexts, texts
<1>5. TablePart(s) = IF ~HasTable(s) THEN <<>> ELSE <<b>>
  BY DEF TablePart, b
<1>6. PartIs(trail, bare, <<>>, <<>>)
  BY PartNone
<1>7. PartIs(trail, bare, TablePart(s), TableTexts(s))
  BY <1>3, <1>4, <1>5, <1>6
<1> QED BY <1>7 DEF trail

\* Texts without marks are texts each without marks; and a list without elements is one of none.
LEMMA Unmarked ==
  ASSUME NEW texts \in Seq(Wordings), MarksIn(texts) = <<>>
  PROVE  \A i \in 1..Len(texts) : texts[i].marks = <<>>
<1> DEFINE m == Through(TextMarks, texts)
<1>1. m \in Seq(Seq(Nat)) /\ FlattenSeq(m) = <<>>
  BY MarksInIs
<1>2. \A i \in 1..Len(texts) : texts[i] \in Wordings
  OBVIOUS
<1>3. Len(m) = Len(texts) /\ \A i \in 1..Len(texts) : m[i] = texts[i].marks
  BY <1>1, <1>2 DEF Through, TextMarks
<1> HIDE DEF m
<1>4. \A k \in 1..Len(m) : m[k] = <<>>
  BY <1>1, FlattenNothing
<1> QED BY <1>3, <1>4

LEMMA NoneJoined ==
  ASSUME NEW S, NEW s \in Seq(S), NEW t \in Seq(S), s \o t = <<>>
  PROVE  s = <<>> /\ t = <<>>
<1>1. Len(s \o t) = Len(s) + Len(t) /\ Len(s) \in Nat /\ Len(t) \in Nat
  BY ConcatProperties
<1>2. Len(s \o t) = 0
  OBVIOUS
<1>3. Len(s) = 0 /\ Len(t) = 0
  BY <1>1, <1>2
<1> QED BY <1>3

LEMMA UnmarkedParts ==
  ASSUME NEW s \in Seq(Wordings), NEW t \in Seq(Wordings), MarksIn(s \o t) = <<>>
  PROVE  MarksIn(s) = <<>> /\ MarksIn(t) = <<>>
<1>1. MarksIn(s) \in Seq(Nat) /\ MarksIn(t) \in Seq(Nat) /\ MarksIn(s) \o MarksIn(t) = <<>>
  BY MarksInIs, TextsJoined
<1> QED BY <1>1, NoneJoined

\* One element put after a list.
LEMMA OneAfter ==
  ASSUME NEW S, NEW f \in Seq(S), NEW x \in S
  PROVE  /\ f \o <<x>> \in Seq(S) /\ f \o <<x>> # <<>> /\ Last(f \o <<x>>) = x
         /\ Len(f \o <<x>>) = Len(f) + 1 /\ \A i \in 1..Len(f) : (f \o <<x>>)[i] = f[i]
<1> DEFINE w == f \o <<x>>
<1>1. <<x>> \in Seq(S) /\ Len(<<x>>) = 1 /\ <<x>>[1] = x /\ Len(f) \in Nat
  OBVIOUS
<1>2. /\ w \in Seq(S) /\ Len(w) = Len(f) + 1
      /\ \A i \in 1..(Len(f) + 1) : w[i] = IF i <= Len(f) THEN f[i] ELSE <<x>>[i - Len(f)]
  BY <1>1, ConcatProperties
<1> HIDE DEF w
<1>3. w[Len(f) + 1] = x /\ \A i \in 1..Len(f) : w[i] = f[i]
  BY <1>1, <1>2
<1>4. w # <<>> /\ Last(w) = x
  BY <1>1, <1>2, <1>3 DEF Last
<1> QED BY <1>2, <1>3, <1>4 DEF w

\* A body whose last text is signed says what it said, and ends in the trail.
LEMMA LastSignedIs ==
  ASSUME NEW body \in Bodies, body # <<>>, NEW trail \in Seq(Nat), NEW bare \in BOOLEAN
  PROVE  /\ PartIs(trail, bare, LastSigned(body, trail), TextsOf(body))
         /\ LastSigned(body, trail) # <<>> /\ Last(LastSigned(body, trail)).texts # <<>>
         /\ MarksIn(TextsOf(body)) = <<>> => Last(Last(LastSigned(body, trail)).texts).marks = trail
<1> DEFINE n == Len(body)
           b == body[n]
           texts == b.texts
           signed == Signed(texts, trail)
           c == [b EXCEPT !.texts = signed]
           f == Opening(body)
           w == LastSigned(body, trail)
<1>1. body \in Seq(ReportBlocks) /\ \A i \in 1..n : body[i].texts # <<>> /\ body[i].heading = <<>>
  BY DEF Bodies
<1>2. n \in 1..n /\ b \in ReportBlocks
  BY <1>1
<1>3. texts \in Seq(Wordings) /\ texts # <<>> /\ b.heading = <<>>
  <2>1. texts # <<>> /\ b.heading = <<>>
    BY <1>1, <1>2
  <2>2. texts \in Seq(Wordings)
    BY <1>2 DEF ReportBlocks
  <2> QED BY <2>1, <2>2
<1>4. w = Ending(body, c)
  BY DEF LastSigned, Ending
<1> HIDE DEF b, w, n, texts
<1>5. /\ signed \in Seq(Wordings) /\ Len(signed) = Len(texts) /\ Says(signed) = Says(texts)
      /\ (trail = <<>> => signed = texts) /\ Last(signed).marks = texts[Len(texts)].marks \o trail
  BY <1>3, SignedIs
<1> HIDE DEF signed
<1>6. c \in ReportBlocks /\ c.texts = signed /\ c.heading = <<>>
  BY <1>2, <1>3, <1>5, BlockIs
<1> HIDE DEF c
<1>7. LastMayBe(ReportBlocks, body, c)
  BY <1>1, <1>6, LastChanged
<1>8. f \in Seq(ReportBlocks) /\ body = f \o <<b>> /\ w = f \o <<c>>
  BY <1>4, <1>7 DEF LastMayBe, b, n
<1> HIDE DEF f
<1>9. w # <<>> /\ Last(w) = c
  BY <1>6, <1>8, OneAfter
<1>10. PartIs(trail, bare, f, TextsOf(f))
  <2>1. Heads(f)
    <3>1. /\ Len(body) = Len(f) + 1 /\ Len(f) \in Nat
          /\ \A i \in 1..Len(f) : body[i] = f[i]
      BY <1>2, <1>8, OneAfter
    <3>2. \A i \in 1..Len(f) : i \in 1..n /\ f[i].heading = <<>>
      BY <1>1, <3>1 DEF n
    <3>3. \A h : <<>> # <<h>>
      OBVIOUS
    <3> QED BY <3>2, <3>3 DEF Heads
  <2> QED BY <1>8, <2>1, TextsOfIs DEF PartIs
<1>11. PartIs(trail, bare, <<c>>, texts)
  <2>1. \A h \in ReservedHeadings : c.heading # <<h>>
    <3>1. \A h : <<>> # <<h>>
      OBVIOUS
    <3> QED BY <1>6, <3>1
  <2> QED BY <1>3, <1>5, <1>6, <2>1, PartOne
<1>12. TextsOf(body) = TextsOf(f) \o texts /\ TextsOf(f) \in Seq(Wordings)
  <2>1. <<b>> \in Seq(ReportBlocks) /\ TextsOf(<<b>>) = texts
    BY <1>2, OneBlock DEF texts
  <2> QED BY <1>8, <2>1, BlocksJoined, TextsOfIs
<1>13. PartIs(trail, bare, w, TextsOf(body))
  BY <1>8, <1>10, <1>11, <1>12, PartsJoined
<1>14. signed # <<>>
  BY <1>3, <1>5
<1>15. MarksIn(TextsOf(body)) = <<>> => Last(signed).marks = trail
  <2>1. SUFFICES ASSUME MarksIn(TextsOf(body)) = <<>> PROVE Last(signed).marks = trail
    OBVIOUS
  <2>2. MarksIn(texts) = <<>>
    BY <1>3, <1>12, <2>1, UnmarkedParts
  <2>3. texts[Len(texts)].marks = <<>>
    <3>1. Len(texts) \in 1..Len(texts)
      BY <1>3
    <3> QED BY <1>3, <2>2, <3>1, Unmarked
  <2> QED BY <1>5, <2>3
<1> QED BY <1>6, <1>9, <1>13, <1>14, <1>15 DEF w

LEMMA BodyPartIs ==
  ASSUME NEW s \in ReportSections, Trail(s) \in Seq(Nat), NEW bare \in BOOLEAN
  PROVE  PartIs(Trail(s), bare, BodyPart(s), LinesOf(s.body))
<1> DEFINE body == BodyBlocks(s.body)
           trail == Trail(s)
<1>1. s.body \in Seq(BodyLines)
  BY DEF ReportSections
<1>2. body \in Bodies /\ TextsOf(body) = LinesOf(s.body)
  BY <1>1, BodyIs
<1> HIDE DEF body, trail
<1>3. PartIs(trail, bare, body, LinesOf(s.body))
  <2>1. body \in Seq(ReportBlocks) /\ \A i \in 1..Len(body) : body[i].heading = <<>>
    BY <1>2 DEF Bodies
  <2>2. Heads(body)
    <3>1. \A h : <<>> # <<h>>
      OBVIOUS
    <3> QED BY <2>1, <3>1 DEF Heads
  <2>3. LinesOf(s.body) \in Seq(Wordings)
    BY SectionIs
  <2> QED BY <1>2, <2>1, <2>2, <2>3 DEF PartIs
<1>4. body # <<>> => PartIs(trail, bare, LastSigned(body, trail), LinesOf(s.body))
  BY <1>2, LastSignedIs DEF trail
<1>5. BodyPart(s) = body \/ (body # <<>> /\ BodyPart(s) = LastSigned(body, trail))
  BY DEF BodyPart, body, trail
<1> QED BY <1>3, <1>4, <1>5 DEF trail

\* The blocks of a section are blocks, under no reserved heading unless it is marked,
\* that say what the section has to say; and where it has no trail, mark what it marks.
LEMMA SectionHolds ==
  ASSUME NEW raw \in ReportSections, IsFiniteSet(raw.sources)
  PROVE  /\ Salvaged(raw) \in ReportSections /\ Salvaged(raw).sources = raw.sources
         /\ PartIs(Trail(Salvaged(raw)), Salvaged(raw).heading.marks = <<>>, SectionBlocks(raw),
                   Promised(Salvaged(raw)))
<1> DEFINE s == Salvaged(raw)
<1>1. s \in ReportSections /\ s.sources = raw.sources
  BY SalvagedIs
<1> HIDE DEF s
<1> DEFINE trail == Trail(s)
           bare == s.heading.marks = <<>>
           head == <<s.heading>>
           lines == LinesOf(s.body)
           table == TableTexts(s)
           bullets == s.bullets
           hl == head \o lines
           hlb == hl \o bullets
           lb == lines \o bullets
           substance == Substance(s)
<1>2. trail \in Seq(Nat) /\ bare \in BOOLEAN
  BY <1>1, TrailIs
<1>3. /\ head \in Seq(Wordings) /\ lines \in Seq(Wordings) /\ bullets \in Seq(Wordings)
      /\ table \in Seq(Wordings) /\ Promised(s) = head \o substance /\ substance = lb \o table
  BY <1>1, SectionIs
<1>4. PartIs(trail, bare, <<HeadingBlock(s)>>, head)
  BY <1>1, HeadPartIs
<1>5. /\ PartIs(trail, bare, BodyPart(s), lines)
      /\ PartIs(trail, bare, BulletPart(s), bullets) /\ PartIs(trail, bare, TablePart(s), table)
  <2> HIDE DEF bare
  <2> QED BY <1>1, <1>2, BodyPartIs, BulletPartIs, TablePartIs
<1> HIDE DEF trail, bare, head, lines, table, bullets, substance
<1>6. PartIs(trail, bare, <<HeadingBlock(s)>> \o BodyPart(s), hl)
  BY <1>2, <1>4, <1>5, PartsJoined
<1> DEFINE b1 == <<HeadingBlock(s)>> \o BodyPart(s)
           b2 == b1 \o BulletPart(s)
<1> HIDE DEF hl, b1
<1>7. PartIs(trail, bare, b2, hlb)
  BY <1>2, <1>5, <1>6, PartsJoined DEF b1
<1> HIDE DEF hlb, b2
<1>8. PartIs(trail, bare, b2 \o TablePart(s), hlb \o table)
  BY <1>2, <1>5, <1>7, PartsJoined
<1> HIDE DEF lb
<1>9. hlb \o table = head \o substance
  <2>1. /\ head \in Seq(Wordings) /\ lines \in Seq(Wordings) /\ bullets \in Seq(Wordings)
        /\ table \in Seq(Wordings)
    BY <1>3
  <2>2. lb \in Seq(Wordings)
    BY <2>1, ConcatProperties DEF lb
  <2>3. (head \o lines) \o bullets = head \o (lines \o bullets)
    BY <2>1, ConcatAssociative
  <2>4. (head \o lb) \o table = head \o (lb \o table)
    BY <2>1, <2>2, ConcatAssociative
  <2>5. hlb = head \o lb
    BY <2>3 DEF hlb, hl, lb
  <2> QED BY <1>3, <2>4, <2>5
<1>10. SectionBlocks(raw) = b2 \o TablePart(s)
  BY SectionParts DEF s, b1, b2
<1> QED BY <1>1, <1>3, <1>8, <1>9, <1>10 DEF s, trail, bare

\* Where nothing of a section is marked, what comes last of it has the trail.
TrailEnds(l, trail) == l.caption = trail \/ (l.texts # <<>> /\ Last(l.texts).marks = trail)

LEMMA SectionEnds ==
  ASSUME NEW raw \in ReportSections, IsFiniteSet(raw.sources),
         MarksIn(SectionTexts(Salvaged(raw))) = <<>>, Substance(Salvaged(raw)) # <<>>
  PROVE  /\ SectionBlocks(raw) \in Seq(ReportBlocks) /\ SectionBlocks(raw) # <<>>
         /\ TrailEnds(Last(SectionBlocks(raw)), Trail(Salvaged(raw)))
<1> DEFINE s == Salvaged(raw)
           trail == Trail(s)
<1>1. s \in ReportSections /\ s.sources = raw.sources /\ SectionBlocks(raw) \in Seq(ReportBlocks)
  BY SectionHolds DEF PartIs
<1>2. SectionBlocks(raw) = <<HeadingBlock(s)>> \o BodyPart(s) \o BulletPart(s) \o TablePart(s)
  BY SectionParts
<1>3. MarksIn(SectionTexts(s)) = <<>> /\ Substance(s) # <<>>
  OBVIOUS
<1> HIDE DEF s
<1>4. trail \in Seq(Nat)
  BY <1>1, TrailIs
<1>5. /\ LinesOf(s.body) \in Seq(Wordings) /\ s.bullets \in Seq(Wordings) /\ RowTexts(s) \in Seq(Wordings)
      /\ s.body \in Seq(BodyLines)
      /\ SectionTexts(s) = LinesOf(s.body) \o s.bullets \o RowTexts(s)
  BY <1>1, SectionIs
<1>6. MarksIn(LinesOf(s.body)) = <<>> /\ MarksIn(s.bullets) = <<>>
  <2>1. LinesOf(s.body) \o s.bullets \in Seq(Wordings)
    BY <1>5, ConcatProperties
  <2>2. MarksIn(LinesOf(s.body) \o s.bullets) = <<>>
    BY <1>3, <1>5, <2>1, UnmarkedParts
  <2> QED BY <1>5, <2>2, UnmarkedParts
<1>7. /\ <<HeadingBlock(s)>> \in Seq(ReportBlocks) /\ BodyPart(s) \in Seq(ReportBlocks)
      /\ BulletPart(s) \in Seq(ReportBlocks) /\ TablePart(s) \in Seq(ReportBlocks)
  <2>1. Trail(s) \in Seq(Nat) /\ TRUE \in BOOLEAN
    BY <1>4
  <2>2. PartIs(Trail(s), s.heading.marks = <<>>, <<HeadingBlock(s)>>, <<s.heading>>)
    BY <1>1, HeadPartIs
  <2>3. /\ PartIs(Trail(s), TRUE, BodyPart(s), LinesOf(s.body))
        /\ PartIs(Trail(s), TRUE, BulletPart(s), s.bullets) /\ PartIs(Trail(s), TRUE, TablePart(s), TableTexts(s))
    BY <1>1, <2>1, BodyPartIs, BulletPartIs, TablePartIs
  <2> QED BY <2>2, <2>3 DEF PartIs
<1> DEFINE h == <<HeadingBlock(s)>> \o BodyPart(s)
           hb == h \o BulletPart(s)
<1>8. h \in Seq(ReportBlocks) /\ hb \in Seq(ReportBlocks) /\ SectionBlocks(raw) = hb \o TablePart(s)
  BY <1>2, <1>7, ConcatProperties
<1> HIDE DEF hb
<1>9. CASE HasTable(s)
  <2>1. TablePart(s) = <<TableBlock(s)>>
    BY <1>9 DEF TablePart
  <2>2. TableBlock(s) \in ReportBlocks /\ TableBlock(s).caption = trail
    BY <1>1, <1>4, TableBlockIs
  <2>3. SectionBlocks(raw) # <<>> /\ Last(SectionBlocks(raw)) = TableBlock(s)
    BY <1>8, <2>1, <2>2, OneAfter
  <2> QED BY <1>1, <2>2, <2>3 DEF TrailEnds, s
<1>10. CASE ~HasTable(s) /\ s.bullets # <<>>
  <2> DEFINE texts == Signed(s.bullets, trail)
             b == Paragraphs("bullets", texts)
  <2>1. BulletPart(s) = <<b>> /\ TablePart(s) = <<>>
    BY <1>10 DEF BulletPart, TablePart, BulletTexts
  <2>2. /\ texts \in Seq(Wordings) /\ Len(texts) = Len(s.bullets)
        /\ Last(texts).marks = s.bullets[Len(s.bullets)].marks \o trail
    BY <1>4, <1>5, <1>10, SignedIs
  <2>3. s.bullets[Len(s.bullets)].marks = <<>>
    <3>1. Len(s.bullets) \in 1..Len(s.bullets)
      BY <1>5, <1>10
    <3> QED BY <1>5, <1>6, <3>1, Unmarked
  <2>4. texts # <<>> /\ Last(texts).marks = trail
    <3>1. <<>> \o trail = trail
      BY <1>4, ConcatEmptySeq
    <3>2. Len(s.bullets) # 0
      BY <1>5, <1>10
    <3> HIDE DEF texts
    <3> QED BY <2>2, <2>3, <3>1, <3>2
  <2> HIDE DEF texts
  <2>5. b \in ReportBlocks /\ b.texts = texts
    BY <2>2, ParagraphsAre DEF BlockKinds
  <2> HIDE DEF b
  <2>6. hb # <<>> /\ Last(hb) = b
    BY <1>8, <2>1, <2>5, OneAfter DEF hb
  <2>7. SectionBlocks(raw) = hb
    BY <1>8, <2>1, ConcatEmptySeq
  <2> QED BY <1>1, <2>4, <2>5, <2>6, <2>7 DEF TrailEnds, s
<1>11. CASE ~HasTable(s) /\ s.bullets = <<>>
  <2> DEFINE body == BodyBlocks(s.body)
             w == LastSigned(body, trail)
  <2>1. BulletPart(s) = <<>> /\ TablePart(s) = <<>>
    BY <1>11 DEF BulletPart, TablePart
  <2>2. body \in Bodies /\ TextsOf(body) = LinesOf(s.body)
    BY <1>5, BodyIs
  <2>3. body # <<>>
    <3>1. TableTexts(s) = <<>>
      BY <1>11 DEF TableTexts
    <3>2. Substance(s) = LinesOf(s.body) \o s.bullets \o TableTexts(s)
      BY <1>1, SectionIs
    <3>3. Substance(s) = LinesOf(s.body)
      BY <1>5, <1>11, <3>1, <3>2, ConcatEmptySeq
    <3> HIDE DEF body
    <3> QED BY <1>3, <2>2, <3>3, NothingIsSaid
  <2>4. BodyPart(s) = w
    BY <1>11, <2>3 DEF BodyPart
  <2> HIDE DEF body
  <2>5. w # <<>> /\ Last(w).texts # <<>> /\ Last(Last(w).texts).marks = trail
    BY <1>4, <1>6, <2>2, <2>3, LastSignedIs
  <2> HIDE DEF w
  <2>6. w \in Seq(ReportBlocks)
    BY <1>7, <2>4
  <2>7. SectionBlocks(raw) = <<HeadingBlock(s)>> \o w
    BY <1>8, <2>1, <2>4, ConcatEmptySeq DEF hb
  <2>8. SectionBlocks(raw) # <<>> /\ Last(SectionBlocks(raw)) = Last(w)
    <3> DEFINE v == <<HeadingBlock(s)>>
    <3>1. v \in Seq(ReportBlocks) /\ Len(v) \in Nat
      BY <1>7
    <3> HIDE DEF v
    <3>2. /\ Len(v \o w) = Len(v) + Len(w) /\ v \o w \in Seq(ReportBlocks)
          /\ \A i \in 1..(Len(v) + Len(w)) : (v \o w)[i] = IF i <= Len(v) THEN v[i] ELSE w[i - Len(v)]
      BY <2>6, <3>1, ConcatProperties
    <3>3. Len(w) \in Nat /\ Len(w) > 0
      BY <2>5, <2>6
    <3> DEFINE u == v \o w
    <3> HIDE DEF u
    <3>4. u[Len(u)] = w[Len(w)] /\ Len(u) # 0
      <4>1. Len(v) + Len(w) \in 1..(Len(v) + Len(w)) /\ ~(Len(v) + Len(w) <= Len(v)) /\ Len(v) + Len(w) - Len(v) = Len(w)
        BY <3>1, <3>3
      <4>2. Len(u) = Len(v) + Len(w) /\ u[Len(v) + Len(w)] = w[Len(w)]
        BY <3>2, <4>1 DEF u
      <4> QED BY <4>1, <4>2, <3>1, <3>3
    <3>5. u # <<>>
      BY <3>4
    <3> QED BY <2>7, <3>4, <3>5 DEF Last, u, v
  <2> QED BY <1>1, <2>5, <2>8 DEF TrailEnds, s
<1> QED BY <1>9, <1>10, <1>11

\* What is left of the marks at the end of a block leads to the same sources.
EndsIn(b, sources) ==
    \E end \in {b.caption, IF b.texts = <<>> THEN <<>> ELSE Last(b.texts).marks} :
        ToSet(Kept(end, Leading)) = sources \cap Leading /\ Rises(end)

LEMMA CheckedEnds ==
  ASSUME NEW blocks \in Seq(ReportBlocks), blocks # <<>>, NEW trail \in Seq(Nat), Rises(trail),
         TrailEnds(Last(blocks), trail), NEW sources, ToSet(trail) \cap Leading = sources \cap Leading
  PROVE  EndsIn(Last(MarksChecked(blocks)), sources)
<1> DEFINE c == MarksChecked(blocks)
           n == Len(blocks)
           l == blocks[n]
           texts == Through(TextCleaned, l.texts)
<1>1. n \in 1..n /\ l \in ReportBlocks /\ Last(blocks) = l /\ n \in DOMAIN blocks
  BY DEF Last
<1>2. Len(c) = n /\ c[n] = [l EXCEPT !.texts = texts]
  BY <1>1, CheckedBlocks
<1> HIDE DEF c, n, l
<1>3. Last(c) = c[n]
  BY <1>2 DEF Last
<1>4. l.texts \in Seq(Wordings) /\ l.caption \in Seq(Nat)
  BY <1>1 DEF ReportBlocks
<1>5. texts \in Seq(Wordings) /\ Len(texts) = Len(l.texts) /\ \A i \in 1..Len(l.texts) : texts[i] = TextChecked(l.texts[i])
  <2>1. \A i \in 1..Len(l.texts) : l.texts[i] \in Wordings
    BY <1>4
  <2>2. texts \in Seq(Wordings)
    BY <1>4, CheckedTexts
  <2> QED BY <1>4, <2>1, <2>2 DEF Through, TextCleaned
<1> HIDE DEF texts
<1>6. c[n].caption = l.caption /\ c[n].texts = texts
  BY <1>1, <1>2 DEF ReportBlocks
<1>7. ToSet(Kept(trail, Leading)) = sources \cap Leading
  BY SetKept
<1>10. Leading \subseteq Staying
  BY DEF Staying
<1>8. CASE l.caption = trail
  BY <1>3, <1>6, <1>7, <1>8 DEF EndsIn, c
<1>9. CASE l.texts # <<>> /\ Last(l.texts).marks = trail
  <2> DEFINE k == Len(l.texts)
             end == Kept(trail, Staying)
  <2>1. k \in 1..k /\ l.texts[k] \in Wordings /\ Last(l.texts) = l.texts[k]
    BY <1>4, <1>9 DEF Last
  <2>2. texts # <<>> /\ Last(texts) = TextChecked(l.texts[k])
    <3>1. Len(texts) # 0
      BY <1>5, <2>1
    <3> QED BY <1>5, <2>1, <3>1 DEF Last
  <2>3. Last(texts).marks = end
    BY <1>9, <2>1, <2>2, CheckedText
  <2>4. end \in Seq(Nat) /\ Rises(end)
    BY KeptRises
  <2>5. ToSet(Kept(end, Leading)) = sources \cap Leading
    <3>1. ToSet(end) = ToSet(trail) \cap Staying
      BY SetKept
    <3> HIDE DEF end
    <3>2. ToSet(Kept(end, Leading)) = ToSet(end) \cap Leading
      BY <2>4, SetKept
    <3> QED BY <1>10, <3>1, <3>2
  <2> HIDE DEF end
  <2> QED BY <1>3, <1>6, <2>2, <2>3, <2>4, <2>5 DEF EndsIn, c
<1> QED BY <1>1, <1>8, <1>9 DEF TrailEnds

\* Blocks under no reserved heading.
Unreserved == {b \in ReportBlocks : \A h \in ReservedHeadings : b.heading # <<h>>}

\* What a call asks a report to be made of.
Calls == {input \in Seq(ReportSections) : \A s \in ToSet(input) : IsFiniteSet(s.sources)}
BlocksFor(input) == [k \in DOMAIN input |-> SectionBlocks(input[k])]
SectionsOf(input) == [k \in DOMAIN input |-> Salvaged(input[k])]
TextsFor(input) == [k \in DOMAIN input |-> Promised(Salvaged(input[k]))]
Bare(input) == \A k \in DOMAIN input : Salvaged(input[k]).heading.marks = <<>>

LEMMA CallIs ==
  ASSUME NEW input \in Calls
  PROVE  /\ DOMAIN input = 1..Len(input) /\ Len(input) \in Nat
         /\ \A k \in DOMAIN input : input[k] \in ReportSections /\ IsFiniteSet(input[k].sources)
         /\ BlocksFor(input) \in Seq(Seq(ReportBlocks)) /\ (Bare(input) => BlocksFor(input) \in Seq(Seq(Unreserved)))
         /\ TextsFor(input) \in Seq(Seq(Wordings))
<1>1. input \in Seq(ReportSections) /\ \A s \in ToSet(input) : IsFiniteSet(s.sources)
  BY DEF Calls
<1>2. DOMAIN input = 1..Len(input) /\ Len(input) \in Nat /\ \A k \in 1..Len(input) : input[k] \in ReportSections
  BY <1>1
<1>3. \A k \in DOMAIN input : input[k] \in ReportSections /\ IsFiniteSet(input[k].sources)
  <2>1. \A k \in DOMAIN input : input[k] \in ToSet(input)
    BY DEF ToSet
  <2> QED BY <1>1, <1>2, <2>1
<1> DEFINE B == Seq(ReportBlocks)
           U == Seq(Unreserved)
           W == Seq(Wordings)
<1>4. \A k \in DOMAIN input : /\ SectionBlocks(input[k]) \in B /\ Promised(Salvaged(input[k])) \in W
                              /\ Bare(input) => SectionBlocks(input[k]) \in U
  <2> TAKE k \in DOMAIN input
  <2>1. PartIs(Trail(Salvaged(input[k])), Salvaged(input[k]).heading.marks = <<>>, SectionBlocks(input[k]),
               Promised(Salvaged(input[k])))
    BY <1>3, SectionHolds
  <2> DEFINE b == SectionBlocks(input[k])
  <2> HIDE DEF b
  <2>2. b \in B /\ Promised(Salvaged(input[k])) \in W
    BY <2>1 DEF PartIs, b
  <2>3. Bare(input) => Heads(b)
    BY <2>1 DEF PartIs, Bare, b
  <2>4. ASSUME Bare(input) PROVE b \in U
    <3>1. Heads(b)
      BY <2>3, <2>4
    <3>2. \A i \in 1..Len(b) : b[i] \in Unreserved
      BY <2>2, <3>1 DEF Heads, Unreserved
    <3> QED BY <2>2, <3>2
  <2> QED BY <2>2, <2>4 DEF b
<1> HIDE DEF B, U, W
<1>5. BlocksFor(input) \in Seq(B) /\ TextsFor(input) \in Seq(W)
  BY <1>2, <1>4 DEF BlocksFor, TextsFor
<1>6. Bare(input) => BlocksFor(input) \in Seq(U)
  BY <1>2, <1>4 DEF BlocksFor
<1> QED BY <1>2, <1>3, <1>5, <1>6 DEF B, U, W

\* The blocks of a report, before its marks are checked.
LEMMA BlocksAre ==
  ASSUME NEW input \in Calls
  PROVE  /\ FlattenSeq(BlocksFor(input)) \in Seq(ReportBlocks)
         /\ Bare(input) => \A b \in DOMAIN FlattenSeq(BlocksFor(input)) : \A h \in ReservedHeadings :
              FlattenSeq(BlocksFor(input))[b].heading # <<h>>
         /\ FlattenSeq(TextsFor(input)) \in Seq(Wordings)
         /\ TextsOf(FlattenSeq(BlocksFor(input))) \in Seq(Wordings)
         /\ Says(TextsOf(FlattenSeq(BlocksFor(input)))) = Says(FlattenSeq(TextsFor(input)))
         /\ (\A k \in DOMAIN input : Trail(Salvaged(input[k])) = <<>>) =>
              TextsOf(FlattenSeq(BlocksFor(input))) = FlattenSeq(TextsFor(input))
<1> DEFINE bb == BlocksFor(input)
           tt == TextsFor(input)
           ww == [k \in DOMAIN bb |-> TextsOf(bb[k])]
           blocks == FlattenSeq(bb)
<1>1. bb \in Seq(Seq(ReportBlocks)) /\ tt \in Seq(Seq(Wordings))
  BY CallIs
<1>2. blocks \in Seq(ReportBlocks) /\ FlattenSeq(tt) \in Seq(Wordings)
  BY <1>1, FlattenType
<1>3. ASSUME Bare(input) PROVE \A b \in DOMAIN blocks : \A h \in ReservedHeadings : blocks[b].heading # <<h>>
  <2>1. \A b \in DOMAIN blocks : blocks[b] \in Unreserved
    <3>1. bb \in Seq(Seq(Unreserved))
      BY <1>3, CallIs
    <3>2. blocks \in Seq(Unreserved)
      BY <3>1, FlattenType
    <3> QED BY <3>2
  <2> QED BY <2>1 DEF Unreserved
<1>4. /\ DOMAIN bb = DOMAIN input /\ DOMAIN tt = DOMAIN input /\ DOMAIN input = 1..Len(input) /\ Len(input) \in Nat
      /\ \A k \in DOMAIN input : bb[k] = SectionBlocks(input[k]) /\ tt[k] = Promised(Salvaged(input[k]))
  BY CallIs DEF BlocksFor, TextsFor
<1> HIDE DEF bb, tt
<1>5. \A k \in DOMAIN input : PartIs(Trail(Salvaged(input[k])), Salvaged(input[k]).heading.marks = <<>>, bb[k], tt[k])
  BY <1>4, CallIs, SectionHolds
<1>6. TextsOf(blocks) = FlattenSeq(ww) /\ TextsOf(blocks) \in Seq(Wordings)
  BY <1>1, <1>2, TextsFlatten, TextsOfIs
<1>7. ww \in Seq(Seq(Wordings)) /\ DOMAIN ww = DOMAIN input
  <2> DEFINE W == Seq(Wordings)
  <2>1. \A k \in 1..Len(input) : TextsOf(bb[k]) \in W
    BY <1>4, <1>5 DEF PartIs
  <2> HIDE DEF W
  <2>2. ww \in Seq(W)
    BY <1>4, <2>1
  <2> QED BY <1>4, <2>2 DEF W
<1>8. Says(FlattenSeq(ww)) = FlattenSeq([k \in DOMAIN ww |-> Says(ww[k])])
  BY <1>7, SaysFlatten
<1>9. Says(FlattenSeq(tt)) = FlattenSeq([k \in DOMAIN tt |-> Says(tt[k])])
  BY <1>1, SaysFlatten
<1>10. [k \in DOMAIN ww |-> Says(ww[k])] = [k \in DOMAIN tt |-> Says(tt[k])]
  <2>1. \A k \in DOMAIN input : Says(ww[k]) = Says(tt[k])
    BY <1>4, <1>5 DEF PartIs
  <2> HIDE DEF ww
  <2> QED BY <1>4, <1>7, <2>1
<1>11. ASSUME \A k \in DOMAIN input : Trail(Salvaged(input[k])) = <<>> PROVE ww = tt
  <2>1. \A k \in 1..Len(input) : ww[k] = tt[k]
    BY <1>4, <1>5, <1>11 DEF PartIs
  <2>2. Len(ww) = Len(input) /\ Len(tt) = Len(input)
    BY <1>1, <1>4, <1>7
  <2> HIDE DEF ww
  <2> QED BY <1>1, <1>7, <2>1, <2>2, SeqEqual
<1> QED BY <1>2, <1>3, <1>6, <1>8, <1>9, <1>10, <1>11 DEF bb, tt

\* The passages are passages, as they are stored.
PassageDocs == {c.doc : c \in ToSet(Passages)}
Citations == [doc : PassageDocs, confidence : Nat]

LEMMA StorableIs == ASSUME NEW deferred PROVE \A c \in Nat : Storable(c, deferred) \in Nat
<1> TAKE c \in Nat
<1>1. ((c + 5) \div 10) \in Nat
  OBVIOUS
<1>2. ((c + 5) \div 10) * 10 \in Nat
  BY <1>1
<1> QED BY <1>2 DEF Storable

LEMMA PassageIs ==
  ASSUME NEW deferred \in BOOLEAN
  PROVE  /\ DOMAIN Passages = Leading /\ Len(Passages) \in Nat
         /\ Cites(deferred) \in Seq(Citations) /\ Len(Cites(deferred)) = Len(Passages)
         /\ DOMAIN Cites(deferred) = Leading
         /\ \A n \in Leading :
              /\ Cites(deferred)[n].doc = Passages[n].doc
              /\ Cites(deferred)[n].confidence = Storable(Passages[n].confidence, deferred)
<1>1. Passages \in Seq(Citations)
  BY PassagesAreNumbered DEF PassageDocs, Citations
<1>2. DOMAIN Passages = Leading /\ Len(Passages) \in Nat /\ \A n \in Leading : Passages[n] \in Citations
  BY <1>1 DEF Leading
<1>3. ASSUME NEW n \in Leading
      PROVE  /\ Cites(deferred)[n].doc = Passages[n].doc /\ Cites(deferred)[n] \in Citations
             /\ Cites(deferred)[n].confidence = Storable(Passages[n].confidence, deferred)
  <2> DEFINE p == Passages[n]
             t == Storable(p.confidence, deferred)
  <2>1. Cites(deferred)[n] = [p EXCEPT !.confidence = t]
    BY <1>2 DEF Cites
  <2>2. p \in Citations
    BY <1>2
  <2> HIDE DEF p
  <2>3. p.confidence \in Nat
    BY <2>2 DEF Citations
  <2>4. t \in Nat
    <3>1. \A c \in Nat : Storable(c, deferred) \in Nat
      BY StorableIs
    <3> QED BY <2>3, <3>1
  <2> HIDE DEF t
  <2>5. /\ [p EXCEPT !.confidence = t].doc = p.doc /\ [p EXCEPT !.confidence = t].confidence = t
        /\ [p EXCEPT !.confidence = t] \in Citations
    BY <2>2, <2>4 DEF Citations
  <2> QED BY <2>1, <2>5 DEF p, t
<1>4. DOMAIN Cites(deferred) = Leading
  BY <1>2 DEF Cites
<1> DEFINE w == Cites(deferred)
<1>5. w \in Seq(Citations) /\ Len(w) = Len(Passages)
  <2>1. w = [n \in 1..Len(Passages) |-> w[n]]
    BY <1>2 DEF Cites, Leading
  <2>2. \A n \in 1..Len(Passages) : w[n] \in Citations
    BY <1>3 DEF Leading
  <2> HIDE DEF w
  <2> QED BY <1>2, <2>1, <2>2
<1> QED BY <1>2, <1>3, <1>4, <1>5

\* Reports, of any sections.
LEMMA ReportIs ==
  ASSUME NEW input \in Calls, NEW deferred \in BOOLEAN,
         order = [kind |-> "docx", input |-> input, deferred |-> deferred], document = ReportOf(input, deferred)
  PROVE  ReportHolds /\ document.kind = "docx" /\ document.warned = Uncertain(Cites(deferred))
<1> DEFINE blocks == FlattenSeq(BlocksFor(input))
           texts == TextsOf(blocks)
           marks == MarksIn(texts)
           left == Kept(marks, Staying)
           promised == FlattenSeq(TextsFor(input))
           cited == ToSet(marks) \cap Leading \cap Matched
           cites == Cites(deferred)
<1>1. order.input = input /\ order.deferred = deferred
  OBVIOUS
<1>2. /\ document.kind = "docx" /\ document.warned = Uncertain(cites)
      /\ document.blocks = MarksChecked(blocks) 
      /\ document.removed = IF cites = <<>> THEN 0 ELSE Len(Kept(marks, ToSet(marks) \ Staying))
      /\ document.sources = [n \in DOMAIN cites |->
             [doc |-> cites[n].doc, notCited |-> n \notin cited, warned |-> cites[n].confidence < Threshold]]
  BY DEF ReportOf, BlocksFor, BlockMarks
<1> HIDE DEF blocks, cites
<1>3. /\ blocks \in Seq(ReportBlocks) /\ promised \in Seq(Wordings) /\ texts \in Seq(Wordings)
      /\ Says(texts) = Says(promised)
      /\ Bare(input) => \A b \in DOMAIN blocks : \A h \in ReservedHeadings : blocks[b].heading # <<h>>
  BY BlocksAre DEF blocks
<1>4. (\A k \in DOMAIN input : Trail(Salvaged(input[k])) = <<>>) => texts = promised
  BY BlocksAre DEF blocks
<1>5. /\ TextsOf(document.blocks) = Through(TextCleaned, texts)
      /\ Len(document.blocks) = Len(blocks) /\ document.blocks \in Seq(ReportBlocks)
      /\ \A b \in DOMAIN blocks : document.blocks[b] = [blocks[b] EXCEPT !.texts = Through(TextCleaned, blocks[b].texts)]
  BY <1>2, <1>3, CheckedBlocks
<1> HIDE DEF texts, promised
<1>6. BlockMarks(document.blocks) = left /\ Says(TextsOf(document.blocks)) = Says(promised)
  BY <1>3, <1>5, CheckedTexts DEF BlockMarks
<1>7. marks \in Seq(Nat) /\ ToSet(left) \cap Matched = cited
  <2>1. marks \in Seq(Nat)
    BY <1>3, MarksInIs
  <2> HIDE DEF marks
  <2>2. ToSet(left) = ToSet(marks) \cap Staying
    BY <2>1, SetKept
  <2> QED BY <2>1, <2>2 DEF Staying
<1>8. /\ DOMAIN document.sources = Leading
      /\ \A n \in Leading : /\ document.sources[n].notCited <=> n \notin cited
                            /\ document.sources[n].warned <=> Storable(Passages[n].confidence, deferred) < Threshold
  <2>1. DOMAIN cites = Leading /\ \A n \in Leading : cites[n].confidence = Storable(Passages[n].confidence, deferred)
    BY PassageIs DEF cites
  <2> HIDE DEF cited
  <2>2. DOMAIN document.sources = Leading
    BY <1>2, <2>1
  <2>3. ASSUME NEW n \in Leading
        PROVE  /\ document.sources[n].notCited <=> n \notin cited
               /\ document.sources[n].warned <=> cites[n].confidence < Threshold
    <3> DEFINE d == cites[n].doc
               c == n \notin cited
               w == cites[n].confidence < Threshold
    <3>1. document.sources[n] = [doc |-> d, notCited |-> c, warned |-> w]
      BY <1>2, <2>1
    <3> HIDE DEF d, c, w
    <3>2. document.sources[n].notCited = c /\ document.sources[n].warned = w
      BY <3>1
    <3> QED BY <3>2 DEF c, w
  <2> QED BY <2>1, <2>2, <2>3
<1>9. Passages # <<>> => Len(left) + document.removed = Len(marks)
  <2> HIDE DEF marks
  <2>1. Passages # <<>> => cites # <<>>
    <3>1. Len(Cites(deferred)) = Len(Passages) /\ Passages \in Seq(Citations)
      BY PassageIs, PassagesAreNumbered DEF PassageDocs, Citations
    <3> QED BY <3>1 DEF cites
  <2>2. Len(left) + Len(Kept(marks, ToSet(marks) \ Staying)) = Len(marks)
    BY <1>7, KeptAndLeft
  <2> QED BY <1>2, <2>1, <2>2
<1>10. Bare(input) => \A b \in DOMAIN document.blocks : \A h \in ReservedHeadings : document.blocks[b].heading # <<h>>
  <2>1. DOMAIN document.blocks = DOMAIN blocks
    BY <1>3, <1>5
  <2>2. ASSUME NEW b \in DOMAIN blocks PROVE document.blocks[b].heading = blocks[b].heading
    <3> DEFINE t == Through(TextCleaned, blocks[b].texts)
    <3>1. blocks[b] \in ReportBlocks /\ document.blocks[b] = [blocks[b] EXCEPT !.texts = t]
      BY <1>3, <1>5
    <3> HIDE DEF t
    <3> QED BY <3>1 DEF ReportBlocks
  <2> QED BY <1>3, <2>1, <2>2
<1>11. ASSUME NEW k \in DOMAIN input,
              MarksIn(SectionTexts(Salvaged(input[k]))) = <<>>, Substance(Salvaged(input[k])) # <<>>
       PROVE  EndsIn(Last(MarksChecked(SectionBlocks(input[k]))), Salvaged(input[k]).sources)
  <2> DEFINE raw == input[k]
             s == Salvaged(raw)
             trail == Trail(s)
  <2>1. raw \in ReportSections /\ IsFiniteSet(raw.sources)
    BY CallIs
  <2>2. /\ SectionBlocks(raw) \in Seq(ReportBlocks) /\ SectionBlocks(raw) # <<>>
        /\ TrailEnds(Last(SectionBlocks(raw)), trail)
    BY <1>11, <2>1, SectionEnds
  <2>3. s \in ReportSections /\ IsFiniteSet(s.sources) /\ s.sources = raw.sources
    BY <2>1, SalvagedIs
  <2>4. trail \in Seq(Nat) /\ Rises(trail) /\ ToSet(trail) = {n \in s.sources : n > 0}
    BY <1>11, <2>3, TrailIs
  <2>5. ToSet(trail) \cap Leading = s.sources \cap Leading
    <3>1. \A n \in Leading : n > 0
      BY DEF Leading
    <3> QED BY <2>4, <3>1
  <2> HIDE DEF raw, s, trail
  <2>6. EndsIn(Last(MarksChecked(SectionBlocks(raw))), s.sources)
    BY <2>2, <2>4, <2>5, CheckedEnds
  <2> QED BY <2>6 DEF raw, s
<1>12. DOMAIN SectionsOf(input) = DOMAIN input /\ \A k \in DOMAIN input : SectionsOf(input)[k] = Salvaged(input[k])
  BY DEF SectionsOf
<1>13. TextsFor(input) = [k \in DOMAIN SectionsOf(input) |-> Promised(SectionsOf(input)[k])]
  BY <1>12 DEF TextsFor
<1> DEFINE sections == SectionsOf(input)
<1>14. Passages # <<>> /\ (\A k \in DOMAIN sections : Trail(sections[k]) = <<>>) => Len(left) + document.removed = Len(MarksIn(promised))
  BY <1>4, <1>9, <1>12
<1>15. \A k \in DOMAIN sections : MarksIn(SectionTexts(sections[k])) = <<>> /\ Substance(sections[k]) # <<>>
          => EndsIn(Last(MarksChecked(SectionBlocks(input[k]))), sections[k].sources)
  BY <1>11, <1>12
<1>16. ToSet(left) \cap Matched \subseteq DOMAIN document.sources
  BY <1>7, <1>8
<1>20. (\A k \in DOMAIN sections : sections[k].heading.marks = <<>>) => Bare(input)
  BY <1>12 DEF Bare
<1>17. sections = [k \in DOMAIN order.input |-> Salvaged(order.input[k])]
  BY <1>1 DEF SectionsOf
<1>18. promised = FlattenSeq([k \in DOMAIN sections |-> Promised(sections[k])])
  BY <1>13 DEF promised
<1> HIDE DEF left, promised, sections, cited
<1>19. ReportHolds
  BY <1>1, <1>6, <1>7, <1>8, <1>10, <1>14, <1>15, <1>16, <1>17, <1>18, <1>20 DEF ReportHolds, EndsIn
<1> QED BY <1>2, <1>19 DEF cites

\* The list of documents is put together a citation at a time (Provenance.sources).
DocSteps(cites, F) ==
    F = [n \in 0..Len(cites) |-> IF n = 0 THEN <<>> ELSE Counted(F[n - 1], cites[n])]

DocLists == Seq(Citations)
DocNext == [p \in DocLists \X Citations |-> Counted(p[1], p[2])]

\* What one citation does to the list: its document is added, or its confidence lowered.
LEMMA CountedIs ==
  ASSUME NEW listed \in DocLists, NEW c \in Citations
  PROVE  /\ Counted(listed, c) \in DocLists
         /\ \/ /\ \A i \in 1..Len(listed) : listed[i].doc # c.doc
               /\ Counted(listed, c) = Append(listed, c)
            \/ /\ \E i \in 1..Len(listed) : listed[i].doc = c.doc
               /\ Len(Counted(listed, c)) = Len(listed)
               /\ \A i \in 1..Len(listed) : Counted(listed, c)[i] =
                    IF listed[i].doc = c.doc /\ c.confidence < listed[i].confidence THEN c ELSE listed[i]
<1>1. DOMAIN listed = 1..Len(listed) /\ Len(listed) \in Nat /\ \A i \in 1..Len(listed) : listed[i] \in Citations
  BY DEF DocLists
<1>2. CASE \E i \in DOMAIN listed : listed[i].doc = c.doc
  <2> DEFINE d == [i \in DOMAIN listed |-> IF listed[i].doc = c.doc /\ c.confidence < listed[i].confidence THEN c ELSE listed[i]]
  <2>1. Counted(listed, c) = d
    BY <1>2 DEF Counted
  <2>2. /\ \A i \in 1..Len(listed) : d[i] \in Citations
        /\ d = [i \in 1..Len(listed) |-> d[i]]
        /\ \A i \in 1..Len(listed) : d[i] =
             IF listed[i].doc = c.doc /\ c.confidence < listed[i].confidence THEN c ELSE listed[i]
    BY <1>1
  <2> HIDE DEF d
  <2>3. d \in DocLists /\ Len(d) = Len(listed)
    BY <1>1, <2>2 DEF DocLists
  <2> QED BY <1>1, <1>2, <2>1, <2>2, <2>3
<1>3. CASE ~\E i \in DOMAIN listed : listed[i].doc = c.doc
  <2>1. Counted(listed, c) = Append(listed, c)
    BY <1>3 DEF Counted
  <2>2. Append(listed, c) \in DocLists
    BY DEF DocLists
  <2> QED BY <1>1, <1>3, <2>1, <2>2
<1> QED BY <1>2, <1>3

LEMMA DocFolds ==
  ASSUME NEW s \in Seq(Citations)
  PROVE  CanFold(DocLists, Citations, <<>>, s, DocNext) /\ SourceDocs(s) = FoldOf(DocLists, <<>>, s, DocNext)
<1> DEFINE next == DocNext
           n == Len(s)
           F == CHOOSE F : DocSteps(s, F)
<1>1. n \in Nat /\ (\A i \in 1..n : s[i] \in Citations /\ i - 1 \in 0..n /\ i \in 0..n /\ i # 0) /\ 0 \in 0..n
  OBVIOUS
<1>2. CanFold(DocLists, Citations, <<>>, s, next) /\ \A x \in DocLists, e \in Citations : next[<<x, e>>] = Counted(x, e)
  <2>1. <<>> \in DocLists
    BY DEF DocLists
  <2> QED BY <2>1, CountedIs DEF DocNext, CanFold
<1> HIDE DEF next
<1>3. PICK G : Folds(DocLists, <<>>, s, next, G)
  BY <1>2, FoldExists
<1>4. G \in [0..n -> DocLists] /\ G[0] = <<>> /\ \A i \in 1..n : G[i] = Counted(G[i - 1], s[i])
  BY <1>1, <1>2, <1>3 DEF Folds
<1>5. DocSteps(s, G)
  <2>1. G = [i \in 0..n |-> G[i]] /\ \A i \in 0..n : i = 0 \/ i \in 1..n
    BY <1>1, <1>4
  <2>2. \A i \in 0..n : G[i] = IF i = 0 THEN <<>> ELSE Counted(G[i - 1], s[i])
    BY <1>4, <2>1
  <2> QED BY <2>1, <2>2 DEF DocSteps
<1>6. DocSteps(s, F) /\ SourceDocs(s) = F[n]
  BY <1>5 DEF SourceDocs, DocSteps
<1> HIDE DEF F
<1>7. \A i \in 0..n : F[i] = IF i = 0 THEN <<>> ELSE Counted(F[i - 1], s[i])
  BY <1>6, Zenon DEF DocSteps
<1>8. GoesThrough(DocLists, <<>>, s, next, F)
  BY <1>1, <1>2, <1>7 DEF GoesThrough
<1>9. F[Len(s)] = FoldOf(DocLists, <<>>, s, next)
  BY <1>2, <1>8, FoldOnly
<1> QED BY <1>2, <1>6, <1>9 DEF next

\* One citation more, and none.
LEMMA DocAppend ==
  ASSUME NEW s \in Seq(Citations), NEW e \in Citations
  PROVE  SourceDocs(Append(s, e)) = Counted(SourceDocs(s), e) /\ SourceDocs(s) \in DocLists
<1> DEFINE next == DocNext
           t == Append(s, e)
<1>1. CanFold(DocLists, Citations, <<>>, s, next) /\ SourceDocs(s) = FoldOf(DocLists, <<>>, s, next)
  BY DocFolds
<1>2. SourceDocs(t) = FoldOf(DocLists, <<>>, t, next)
  <2>1. t \in Seq(Citations)
    OBVIOUS
  <2> HIDE DEF t
  <2> QED BY <2>1, DocFolds
<1> HIDE DEF next
<1>3. /\ FoldOf(DocLists, <<>>, Append(s, e), next) = next[<<FoldOf(DocLists, <<>>, s, next), e>>]
      /\ FoldOf(DocLists, <<>>, s, next) \in DocLists
  BY <1>1, FoldAppend
<1>4. \A x \in DocLists : next[<<x, e>>] = Counted(x, e)
  BY DEF next, DocNext
<1> QED BY <1>1, <1>2, <1>3, <1>4 DEF t

LEMMA DocNone == SourceDocs(<<>>) = <<>>
<1> DEFINE next == DocNext
           none == <<>>
<1>1. none \in Seq(Citations)
  OBVIOUS
<1> HIDE DEF none
<1>2. CanFold(DocLists, Citations, <<>>, none, next) /\ SourceDocs(none) = FoldOf(DocLists, <<>>, none, next)
  BY <1>1, DocFolds
<1> HIDE DEF next
<1> QED BY <1>2, FoldNone DEF none

\* The documents are those of the citations, each once, at the least of its confidences.
DocsAre(cites, listed) ==
    /\ listed \in Seq(Citations)
    /\ \A i, j \in 1..Len(listed) : listed[i].doc = listed[j].doc => i = j
    /\ \A i \in 1..Len(listed) : \E n \in 1..Len(cites) : cites[n] = listed[i]
    /\ \A n \in 1..Len(cites) : \E i \in 1..Len(listed) :
         listed[i].doc = cites[n].doc /\ listed[i].confidence <= cites[n].confidence

LEMMA DocsGrow ==
  ASSUME NEW s \in Seq(Citations), NEW listed, DocsAre(s, listed), NEW e \in Citations
  PROVE  DocsAre(Append(s, e), Counted(listed, e))
<1> DEFINE t == Append(s, e)
           d == Counted(listed, e)
           n == Len(s)
           m == Len(listed)
<1>1. /\ t \in Seq(Citations) /\ Len(t) = n + 1 /\ n \in Nat /\ t[n + 1] = e /\ (\A i \in 1..n : t[i] = s[i])
      /\ \A i \in 1..(n + 1) : i \in 1..n \/ i = n + 1
  OBVIOUS
<1>2. /\ listed \in DocLists /\ listed \in Seq(Citations) /\ m \in Nat
      /\ \A i, j \in 1..m : listed[i].doc = listed[j].doc => i = j
      /\ \A i \in 1..m : \E k \in 1..n : s[k] = listed[i]
      /\ \A k \in 1..n : \E i \in 1..m : listed[i].doc = s[k].doc /\ listed[i].confidence <= s[k].confidence
      /\ (\A i \in 1..m : listed[i] \in Citations) /\ \A k \in 1..n : s[k] \in Citations
  BY DEF DocsAre, DocLists
<1>3. d \in Seq(Citations)
  BY <1>2, CountedIs DEF DocLists
<1>4. e.confidence \in Nat /\ \A c \in Citations : c.confidence \in Nat
  BY DEF Citations
<1>5. CASE (\A i \in 1..m : listed[i].doc # e.doc) /\ d = Append(listed, e)
  <2>1. /\ Len(d) = m + 1 /\ d[m + 1] = e /\ (\A i \in 1..m : d[i] = listed[i])
        /\ \A i \in 1..(m + 1) : i \in 1..m \/ i = m + 1
    BY <1>2, <1>5
  <2> HIDE DEF d, t, n, m
  <2>2. \A i, j \in 1..Len(d) : d[i].doc = d[j].doc => i = j
    <3> TAKE i, j \in 1..Len(d)
    <3>1. (i \in 1..m \/ i = m + 1) /\ (j \in 1..m \/ j = m + 1)
      BY <2>1
    <3>2. CASE i \in 1..m /\ j \in 1..m
      BY <1>2, <2>1, <3>2
    <3>3. CASE i \in 1..m /\ j = m + 1
      BY <1>5, <2>1, <3>3
    <3>4. CASE i = m + 1 /\ j \in 1..m
      BY <1>5, <2>1, <3>4
    <3> QED BY <3>1, <3>2, <3>3, <3>4
  <2>3. \A i \in 1..Len(d) : \E k \in 1..Len(t) : t[k] = d[i]
    <3> TAKE i \in 1..Len(d)
    <3>1. CASE i \in 1..m
      <4>1. PICK k \in 1..n : s[k] = listed[i]
        BY <1>2, <3>1
      <4>2. k \in 1..Len(t) /\ t[k] = d[i]
        BY <1>1, <2>1, <3>1, <4>1
      <4> QED BY <4>2
    <3>2. CASE i = m + 1
      <4>1. n + 1 \in 1..Len(t) /\ t[n + 1] = d[i]
        BY <1>1, <2>1, <3>2
      <4> QED BY <4>1
    <3> QED BY <2>1, <3>1, <3>2
  <2>4. \A k \in 1..Len(t) : \E i \in 1..Len(d) : d[i].doc = t[k].doc /\ d[i].confidence <= t[k].confidence
    <3> TAKE k \in 1..Len(t)
    <3>1. CASE k \in 1..n
      <4>1. PICK i \in 1..m : listed[i].doc = s[k].doc /\ listed[i].confidence <= s[k].confidence
        BY <1>2, <3>1
      <4>2. i \in 1..Len(d) /\ d[i] = listed[i] /\ t[k] = s[k]
        BY <1>1, <1>2, <2>1, <3>1
      <4> QED BY <4>1, <4>2
    <3>2. CASE k = n + 1
      <4>1. m + 1 \in 1..Len(d) /\ d[m + 1] = t[k] /\ e.confidence <= e.confidence
        BY <1>1, <1>2, <1>4, <2>1, <3>2
      <4> QED BY <1>1, <2>1, <3>2, <4>1
    <3> QED BY <1>1, <3>1, <3>2
  <2> QED BY <1>3, <2>2, <2>3, <2>4 DEF DocsAre, d, t
<1>6. CASE /\ \E i \in 1..m : listed[i].doc = e.doc
           /\ Len(d) = m
           /\ \A i \in 1..m : d[i] = IF listed[i].doc = e.doc /\ e.confidence < listed[i].confidence THEN e ELSE listed[i]
  <2> HIDE DEF d, t, n, m
  <2>1. \A i \in 1..m : d[i].doc = listed[i].doc
    BY <1>6
  <2>2. \A i, j \in 1..Len(d) : d[i].doc = d[j].doc => i = j
    BY <1>2, <1>6, <2>1
  <2>3. \A i \in 1..Len(d) : \E k \in 1..Len(t) : t[k] = d[i]
    <3> TAKE i \in 1..Len(d)
    <3>1. CASE d[i] = listed[i]
      <4>1. PICK k \in 1..n : s[k] = listed[i]
        BY <1>2, <1>6
      <4>2. k \in 1..Len(t) /\ t[k] = d[i]
        BY <1>1, <3>1, <4>1
      <4> QED BY <4>2
    <3>2. CASE d[i] = e
      <4>1. n + 1 \in 1..Len(t) /\ t[n + 1] = d[i]
        BY <1>1, <3>2
      <4> QED BY <4>1
    <3> QED BY <1>6, <3>1, <3>2
  <2>4. \A k \in 1..Len(t) : \E i \in 1..Len(d) : d[i].doc = t[k].doc /\ d[i].confidence <= t[k].confidence
    <3> TAKE k \in 1..Len(t)
    <3>1. CASE k \in 1..n
      <4>1. PICK i \in 1..m : listed[i].doc = s[k].doc /\ listed[i].confidence <= s[k].confidence
        BY <1>2, <3>1
      <4>2. listed[i].confidence \in Nat /\ s[k].confidence \in Nat
        BY <1>2, <1>4, <3>1
      <4>3. d[i].confidence <= s[k].confidence
        BY <1>4, <1>6, <4>1, <4>2
      <4>4. i \in 1..Len(d) /\ t[k] = s[k]
        BY <1>1, <1>6, <3>1
      <4> QED BY <2>1, <4>1, <4>3, <4>4
    <3>2. CASE k = n + 1
      <4>1. PICK i \in 1..m : listed[i].doc = e.doc
        BY <1>6
      <4>2. listed[i].confidence \in Nat
        BY <1>2, <1>4
      <4>3. d[i].confidence <= e.confidence
        BY <1>4, <1>6, <4>1, <4>2
      <4> QED BY <1>1, <1>6, <2>1, <3>2, <4>1, <4>3
    <3> QED BY <1>1, <3>1, <3>2
  <2> QED BY <1>3, <2>2, <2>3, <2>4 DEF DocsAre, d, t
<1> QED BY <1>2, <1>5, <1>6, CountedIs

LEMMA SourcesAre == ASSUME NEW s \in Seq(Citations) PROVE DocsAre(s, SourceDocs(s))
<1> DEFINE P == {c \in Seq(Citations) : DocsAre(c, SourceDocs(c))}
<1>1. <<>> \in P
  <2>1. <<>> \in Seq(Citations) /\ 1..Len(<<>>) = {}
    OBVIOUS
  <2> QED BY <2>1, DocNone DEF DocsAre
<1>2. ASSUME NEW c \in Seq(Citations), NEW e \in Citations, c \in P PROVE Append(c, e) \in P
  <2>1. DocsAre(Append(c, e), Counted(SourceDocs(c), e))
    BY <1>2, DocsGrow
  <2>2. Append(c, e) \in Seq(Citations)
    OBVIOUS
  <2> QED BY <2>1, <2>2, DocAppend
<1>3. s \in P
  <2> HIDE DEF P
  <2> QED BY <1>1, <1>2, SeqInduction
<1> QED BY <1>3

\* A document is warned of when one of its sources is uncertain.
LEMMA WarningIs ==
  ASSUME NEW deferred \in BOOLEAN, order.deferred = deferred
  PROVE  /\ Uncertain(Cites(deferred)) <=> \E n \in DOMAIN Passages : WarnedOf(Passages[n].doc)
         /\ \A i \in 1..Len(SourceDocs(Cites(deferred))) :
              SourceDocs(Cites(deferred))[i].confidence < Threshold <=> WarnedOf(SourceDocs(Cites(deferred))[i].doc)
<1> DEFINE s == Cites(deferred)
           listed == SourceDocs(s)
<1>1. /\ s \in Seq(Citations) /\ Len(s) \in Nat /\ DOMAIN Passages = 1..Len(s)
      /\ \A n \in 1..Len(s) : s[n].doc = Passages[n].doc /\ s[n].confidence = Storable(Passages[n].confidence, deferred)
  BY PassageIs DEF Leading
<1> HIDE DEF s
<1>2. /\ listed \in Seq(Citations)
      /\ \A i, j \in 1..Len(listed) : listed[i].doc = listed[j].doc => i = j
      /\ \A i \in 1..Len(listed) : \E n \in 1..Len(s) : s[n] = listed[i]
      /\ \A n \in 1..Len(s) : \E i \in 1..Len(listed) : listed[i].doc = s[n].doc /\ listed[i].confidence <= s[n].confidence
  BY <1>1, SourcesAre DEF DocsAre
<1>3. Uncertain(s) <=> \E i \in 1..Len(listed) : listed[i].confidence < Threshold
  <2> HIDE DEF listed
  <2>1. DOMAIN listed = 1..Len(listed)
    BY <1>2
  <2> QED BY <2>1 DEF Uncertain, listed
<1> HIDE DEF listed
<1>4. /\ \A i \in 1..Len(listed) : listed[i].confidence \in Nat
      /\ \A n \in 1..Len(s) : s[n].confidence \in Nat
  <2>1. \A c \in Citations : c.confidence \in Nat
    BY DEF Citations
  <2> QED BY <1>1, <1>2, <2>1
<1>5. \A d : WarnedOf(d) <=> \E n \in 1..Len(s) : s[n].doc = d /\ s[n].confidence < Threshold
  BY <1>1 DEF WarnedOf
<1>6. ASSUME NEW i \in 1..Len(listed), listed[i].confidence < Threshold PROVE WarnedOf(listed[i].doc)
  BY <1>2, <1>5, <1>6
<1>7. ASSUME NEW n \in 1..Len(s), s[n].confidence < Threshold
      PROVE  \E i \in 1..Len(listed) : listed[i].doc = s[n].doc /\ listed[i].confidence < Threshold
  <2>1. PICK i \in 1..Len(listed) : listed[i].doc = s[n].doc /\ listed[i].confidence <= s[n].confidence
    BY <1>2
  <2>2. listed[i].confidence < Threshold
    BY <1>4, <1>7, <2>1 DEF Threshold
  <2> QED BY <2>1, <2>2
<1>8. ASSUME NEW i \in 1..Len(listed), WarnedOf(listed[i].doc) PROVE listed[i].confidence < Threshold
  <2>1. PICK n \in 1..Len(s) : s[n].doc = listed[i].doc /\ s[n].confidence < Threshold
    BY <1>5, <1>8
  <2>2. PICK j \in 1..Len(listed) : listed[j].doc = s[n].doc /\ listed[j].confidence < Threshold
    BY <1>7, <2>1
  <2>3. i = j
    BY <1>2, <2>1, <2>2
  <2> QED BY <2>2, <2>3
<1>9. Uncertain(s) <=> \E n \in DOMAIN Passages : WarnedOf(Passages[n].doc)
  <2>1. ASSUME Uncertain(s) PROVE \E n \in DOMAIN Passages : WarnedOf(Passages[n].doc)
    <3>1. PICK i \in 1..Len(listed) : listed[i].confidence < Threshold
      BY <1>3, <2>1
    <3>2. PICK n \in 1..Len(s) : s[n] = listed[i]
      BY <1>2
    <3> QED BY <1>1, <1>6, <3>1, <3>2
  <2>2. ASSUME NEW n \in DOMAIN Passages, WarnedOf(Passages[n].doc) PROVE Uncertain(s)
    <3>1. PICK m \in 1..Len(s) : s[m].confidence < Threshold
      BY <1>5, <2>2
    <3> QED BY <1>3, <1>7, <3>1
  <2> QED BY <2>1, <2>2
<1> QED BY <1>6, <1>8, <1>9 DEF s, listed

LEMMA MinIs == ASSUME NEW a \in Int, NEW b \in Int PROVE Min({a, b}) = IF a <= b THEN a ELSE b
<1> DEFINE m == IF a <= b THEN a ELSE b
<1>1. m \in {a, b} /\ \A y \in {a, b} : m <= y
  OBVIOUS
<1>2. \A x \in {a, b} : (\A y \in {a, b} : x <= y) => x = m
  OBVIOUS
<1> HIDE DEF m
<1>3. (CHOOSE x \in {a, b} : \A y \in {a, b} : x <= y) = m
  BY <1>1, <1>2
<1> QED BY <1>3 DEF Min, m

\* e says where a list of length n is cut into k pieces.
Cuts(k, n, e) == e \in [0..k -> 0..n] /\ e[0] = 0 /\ \A p \in 1..k : e[p - 1] <= e[p]

PiecesOf(items, k, e) == [p \in 1..k |-> SubSeq(items, e[p - 1] + 1, e[p])]

\* The pieces, one after the other, are the list up to the last cut.
LEMMA PiecesJoin ==
  ASSUME NEW S, NEW items \in Seq(S), NEW k \in Nat, NEW e, Cuts(k, Len(items), e)
  PROVE  /\ PiecesOf(items, k, e) \in Seq(Seq(S))
         /\ FlattenSeq(PiecesOf(items, k, e)) = SubSeq(items, 1, e[k])
         /\ \A p \in 1..k : Len(PiecesOf(items, k, e)[p]) = e[p] - e[p - 1]
<1> DEFINE n == Len(items)
           L == Seq(S)
           piece(p) == SubSeq(items, e[p - 1] + 1, e[p])
           P == {j \in Nat : j <= k => FlattenSeq([p \in 1..j |-> piece(p)]) = SubSeq(items, 1, e[j])}
<1>1. /\ n \in Nat /\ e \in [0..k -> 0..n] /\ e[0] = 0
      /\ \A p \in 1..k : e[p - 1] <= e[p] /\ p \in 0..k /\ p - 1 \in 0..k /\ e[p] \in 0..n /\ e[p - 1] \in 0..n
  BY DEF Cuts
<1>2. \A p \in 1..k : piece(p) \in L /\ Len(piece(p)) = e[p] - e[p - 1]
  <2> TAKE p \in 1..k
  <2> DEFINE a == e[p - 1]
             b == e[p]
  <2>1. a \in Nat /\ b \in Nat /\ a <= b /\ b <= n
    BY <1>1
  <2> HIDE DEF a, b
  <2>2. a + 1 \in Int /\ b \in Int /\ \A i \in (a + 1)..b : items[i] \in S
    BY <1>1, <2>1
  <2>3. SubSeq(items, a + 1, b) \in L /\ Len(SubSeq(items, a + 1, b)) = IF a + 1 <= b THEN b - (a + 1) + 1 ELSE 0
    BY <2>2, SubSeqProperties
  <2>4. Len(SubSeq(items, a + 1, b)) = b - a
    BY <2>1, <2>3
  <2> QED BY <2>3, <2>4 DEF a, b
<1> HIDE DEF piece, L
<1>3. \A j \in Nat : j <= k => [p \in 1..j |-> piece(p)] \in [1..j -> L]
  BY <1>2
<1>4. 0 \in P
  <2>1. [p \in 1..0 |-> piece(p)] = <<>>
    OBVIOUS
  <2>2. SubSeq(items, 1, e[0]) = <<>>
    BY <1>1, SubSeqEmpty
  <2> QED BY <2>1, <2>2, FlattenEmpty
<1>5. ASSUME NEW j \in Nat, j \in P PROVE j + 1 \in P
  <2>1. SUFFICES ASSUME j + 1 <= k
                 PROVE  FlattenSeq([p \in 1..(j + 1) |-> piece(p)]) = SubSeq(items, 1, e[j + 1])
    OBVIOUS
  <2> DEFINE u == [p \in 1..j |-> piece(p)]
             v == [p \in 1..(j + 1) |-> piece(p)]
  <2>2. u \in [1..j -> Seq(S)] /\ v \in [1..(j + 1) -> Seq(S)] /\ (\A i \in 1..j : v[i] = u[i]) /\ v[j + 1] = piece(j + 1)
    <3>1. u \in [1..j -> L] /\ v \in [1..(j + 1) -> L]
      BY <1>3, <2>1
    <3>2. (\A i \in 1..j : v[i] = u[i]) /\ v[j + 1] = piece(j + 1)
      OBVIOUS
    <3> QED BY <3>1, <3>2 DEF L
  <2>3. FlattenSeq(u) = SubSeq(items, 1, e[j])
    BY <1>5, <2>1
  <2> HIDE DEF u, v
  <2>4. FlattenSeq(v) = FlattenSeq(u) \o piece(j + 1)
    BY <2>2, FlattenExtend
  <2>5. piece(j + 1) = SubSeq(items, e[j] + 1, e[j + 1])
    <3>1. (j + 1) - 1 = j
      OBVIOUS
    <3> QED BY <3>1 DEF piece
  <2>6. SubSeq(items, 1, e[j]) \o SubSeq(items, e[j] + 1, e[j + 1]) = SubSeq(items, 1, e[j + 1])
    <3> DEFINE a == e[j]
               b == e[j + 1]
    <3>1. a \in Nat /\ b \in Nat /\ a <= b /\ b <= n
      <4>1. j + 1 \in 1..k /\ (j + 1) - 1 = j
        BY <2>1
      <4> QED BY <1>1, <4>1
    <3> HIDE DEF a, b
    <3>2. 1 \in 1..(Len(items) + 1) /\ a \in (1 - 1)..Len(items) /\ b \in a..Len(items)
      BY <1>1, <3>1
    <3>3. SubSeq(items, 1, a) \o SubSeq(items, a + 1, b) = SubSeq(items, 1, b)
      BY <3>2, ConcatAdjacentSubSeq
    <3> QED BY <3>3 DEF a, b
  <2> QED BY <2>3, <2>4, <2>5, <2>6 DEF v
<1>6. k \in P
  <2> HIDE DEF P
  <2>1. Nat \subseteq P
    BY <1>4, <1>5, Induction
  <2> QED BY <2>1
<1>7. PiecesOf(items, k, e) = [p \in 1..k |-> piece(p)]
  BY DEF PiecesOf, piece
<1>8. [p \in 1..k |-> piece(p)] \in Seq(L)
  BY <1>2
<1> QED BY <1>2, <1>6, <1>7, <1>8 DEF L

\* How many pages there are.
LEMMA PageCount ==
  ASSUME NEW L \in Nat, NEW n \in Nat \ {0}
  PROVE  \E k \in Nat :
           /\ k <= L /\ L <= k * n
           /\ {p \in 1..L : (p - 1) * n < L} = 1..k
           /\ \A j \in 0..(k - 1) : j * n < L
<1> DEFINE T == {j \in Nat : L <= j * n}
<1>1. \A a, b \in Nat : a * n \in Nat /\ (a <= b => a * n <= b * n)
  <2> TAKE a, b \in Nat
  <2>1. a * n \in Nat
    OBVIOUS
  <2>2. ASSUME a <= b PROVE a * n <= b * n
    <3>1. b - a \in Nat /\ (b - a) * n \in Nat
      BY <2>2
    <3>2. b * n = a * n + (b - a) * n
      OBVIOUS
    <3> QED BY <2>1, <3>1, <3>2
  <2> QED BY <2>1, <2>2
<1>2. L \in T
  <2>1. (n - 1) \in Nat /\ L * (n - 1) \in Nat
    OBVIOUS
  <2>2. L * n = L + L * (n - 1)
    OBVIOUS
  <2>3. L <= L * n
    BY <2>1, <2>2
  <2> QED BY <2>3
<1>3. PICK k \in T : \A y \in T : k <= y
  <2>1. T \in SUBSET Nat /\ T # {}
    BY <1>2
  <2> HIDE DEF T
  <2> QED BY <2>1, NatHasMin
<1>4. k \in Nat /\ k <= L /\ L <= k * n
  BY <1>2, <1>3
<1>5. \A j \in Nat : j * n < L <=> j < k
  <2> TAKE j \in Nat
  <2>1. CASE j < k
    <3>1. j \notin T
      BY <1>3, <1>4, <2>1
    <3>2. j * n \in Nat
      BY <1>1
    <3> QED BY <2>1, <3>1, <3>2
  <2>2. CASE k <= j
    <3>1. k * n <= j * n /\ k * n \in Nat /\ j * n \in Nat
      BY <1>1, <1>4, <2>2
    <3> QED BY <1>4, <2>2, <3>1
  <2> QED BY <1>4, <2>1, <2>2
<1>6. {p \in 1..L : (p - 1) * n < L} = 1..k
  <2>1. \A p \in 1..L : p - 1 \in Nat /\ ((p - 1) * n < L <=> p - 1 < k)
    BY <1>5
  <2>2. \A p \in 1..L : p \in 1..k <=> p - 1 < k
    BY <1>4
  <2>3. \A p \in 1..k : p \in 1..L
    BY <1>4
  <2> QED BY <2>1, <2>2, <2>3
<1>7. \A j \in 0..(k - 1) : j * n < L
  <2>1. \A j \in 0..(k - 1) : j \in Nat /\ j < k
    BY <1>4
  <2> QED BY <1>5, <2>1
<1> QED BY <1>4, <1>6, <1>7

\* Pages of at most n, with all that was to be on them, in its order.
PagesHold(items, n, laid) ==
    /\ FlattenSeq(laid) = items
    /\ \A p \in DOMAIN laid : Len(laid[p]) <= n
    /\ Len(laid) \in Nat /\ DOMAIN laid = 1..Len(laid) /\ (items # <<>> => laid # <<>>)

LEMMA PagesCover ==
  ASSUME NEW S, NEW items \in Seq(S), NEW n \in Nat \ {0}
  PROVE  Pages(items, n) \in Seq(Seq(S)) /\ PagesHold(items, n, Pages(items, n))
<1> DEFINE L == Len(items)
<1>1. L \in Nat
  OBVIOUS
<1>2. PICK k \in Nat : /\ k <= L /\ L <= k * n
                       /\ {p \in 1..L : (p - 1) * n < L} = 1..k
                       /\ \A j \in 0..(k - 1) : j * n < L
  <2> HIDE DEF L
  <2> QED BY <1>1, PageCount
<1> DEFINE e == [j \in 0..k |-> IF j = k THEN L ELSE j * n]
           laid == PiecesOf(items, k, e)
<1>3. \A j \in Nat : j * n \in Nat /\ (j + 1) * n = j * n + n
  OBVIOUS
<1>4. ASSUME NEW p \in 1..k
      PROVE  /\ p - 1 \in 0..(k - 1) /\ p - 1 \in Nat /\ e[p - 1] = (p - 1) * n /\ (p - 1) * n < L
             /\ e[p] = Min({p * n, L}) /\ p * n = (p - 1) * n + n /\ e[p] \in Nat /\ e[p] <= L /\ e[p] <= p * n
             /\ e[p - 1] <= e[p] /\ (p - 1) * n \in Nat /\ p * n \in Nat
  <2>1. p - 1 \in 0..(k - 1) /\ p - 1 \in Nat /\ p \in Nat /\ p \in 0..k /\ p - 1 # k /\ p - 1 \in 0..k
    BY <1>2
  <2>2. (p - 1) * n < L /\ (p - 1) * n \in Nat /\ p * n \in Nat /\ p * n = (p - 1) * n + n
    <3>1. ((p - 1) + 1) * n = (p - 1) * n + n /\ (p - 1) * n \in Nat /\ p * n \in Nat
      BY <1>3, <2>1
    <3>2. (p - 1) + 1 = p
      BY <2>1
    <3> QED BY <1>2, <2>1, <3>1, <3>2
  <2>3. e[p - 1] = (p - 1) * n /\ e[p] = IF p = k THEN L ELSE p * n
    BY <2>1
  <2>4. Min({p * n, L}) = IF p * n <= L THEN p * n ELSE L
    <3> HIDE DEF L
    <3> QED BY <1>1, <2>2, MinIs
  <2>5. p # k => p * n < L
    <3>1. p # k => p \in 0..(k - 1)
      BY <1>2, <2>1
    <3> QED BY <1>2, <3>1
  <2>6. p = k => L <= p * n
    BY <1>2
  <2> HIDE DEF e, L
  <2>7. e[p] = Min({p * n, L}) /\ e[p] \in Nat /\ e[p] <= L /\ e[p] <= p * n
    BY <1>1, <2>2, <2>3, <2>4, <2>5, <2>6
  <2>8. e[p - 1] <= e[p]
    BY <1>1, <2>2, <2>3, <2>5
  <2> QED BY <2>1, <2>2, <2>3, <2>7, <2>8
<1>5. e[k] = L /\ e[0] = 0
  <2>1. k = 0 => L = 0
    <3>1. 0 * n = 0
      OBVIOUS
    <3> HIDE DEF L
    <3> QED BY <1>1, <1>2, <3>1
  <2>2. 0 \in 0..k /\ k \in 0..k /\ 0 * n = 0
    BY <1>2
  <2> QED BY <2>1, <2>2
<1>6. \A j \in 0..k : e[j] \in 0..L
  <2> TAKE j \in 0..k
  <2>1. CASE j = 0
    BY <1>1, <1>5, <2>1
  <2>2. CASE j \in 1..k
    <3> HIDE DEF e, L
    <3>1. e[j] \in Nat /\ e[j] <= L
      BY <1>4, <2>2
    <3> QED BY <1>1, <3>1
  <2> QED BY <1>2, <2>1, <2>2
<1>7. Cuts(k, L, e)
  <2>1. e = [j \in 0..k |-> e[j]]
    OBVIOUS
  <2> HIDE DEF e, L
  <2>2. e \in [0..k -> 0..L]
    BY <1>6, <2>1
  <2> QED BY <1>4, <1>5, <2>2 DEF Cuts
<1>8. Pages(items, n) = laid
  <2>1. \A p \in 1..k : SubSeq(items, (p - 1) * n + 1, Min({p * n, L})) = SubSeq(items, e[p - 1] + 1, e[p])
    BY <1>4
  <2> HIDE DEF e
  <2>2. [p \in 1..k |-> SubSeq(items, (p - 1) * n + 1, Min({p * n, L}))] = laid
    BY <2>1 DEF PiecesOf
  <2> QED BY <1>2, <2>2 DEF Pages
<1> HIDE DEF e
<1>9. /\ laid \in Seq(Seq(S)) /\ FlattenSeq(laid) = SubSeq(items, 1, e[k])
      /\ \A p \in 1..k : Len(laid[p]) = e[p] - e[p - 1]
  BY <1>2, <1>7, PiecesJoin
<1>10. FlattenSeq(laid) = items
  <2>1. SubSeq(items, 1, Len(items)) = items
    BY SubSeqFull
  <2> QED BY <1>5, <1>9, <2>1
<1>11. DOMAIN laid = 1..k
  BY DEF PiecesOf
<1>12. Len(laid) = k
  <2> HIDE DEF laid
  <2>1. laid \in Seq(Seq(S))
    BY <1>9
  <2> QED BY <1>2, <1>11, <2>1
<1> HIDE DEF laid
<1>13. \A p \in DOMAIN laid : Len(laid[p]) <= n
  <2> TAKE p \in DOMAIN laid
  <2>1. p \in 1..k
    BY <1>11
  <2>2. Len(laid[p]) = e[p] - e[p - 1] /\ e[p - 1] = (p - 1) * n /\ e[p] <= p * n /\ p * n = (p - 1) * n + n
    BY <1>4, <1>9, <2>1
  <2>3. e[p] \in Nat /\ (p - 1) * n \in Nat /\ p * n \in Nat
    BY <1>4, <2>1
  <2> QED BY <2>2, <2>3
<1>14. items # <<>> => laid # <<>>
  BY <1>10, FlattenEmpty
<1> QED BY <1>2, <1>8, <1>9, <1>10, <1>11, <1>12, <1>13, <1>14 DEF PagesHold

LEMMA SlideIs ==
  ASSUME NEW title, NEW shows, NEW foot, NEW omitted
  PROVE  /\ Slide(title, shows, foot, omitted).shows = shows
         /\ Slide(title, shows, foot, omitted).foot = foot
         /\ Slide(title, shows, foot, omitted).omitted = omitted
BY DEF Slide

\* An entry of a deck, as far as it is looked at here.
Entry(e) == e.bullets \in Seq(ToSet(e.bullets)) /\ e.rows \in Seq(ToSet(e.rows))

\* Slides that show a list, none more than there is room for, the last with the footnote.
ListSlides(e, slides) ==
    /\ slides \in Seq(ToSet(slides)) /\ Len(slides) \in Nat
    /\ FlattenSeq([p \in DOMAIN slides |-> slides[p].shows]) = e.bullets
    /\ \A p \in DOMAIN slides : Len(slides[p].shows) <= MaxBullets
    /\ slides # <<>> => Last(slides).foot = e.footnote

LEMMA BulletSlidesAre ==
  ASSUME NEW e, Entry(e), e.bullets # <<>>
  PROVE  ListSlides(e, BulletSlides(e)) /\ BulletSlides(e) # <<>>
<1> DEFINE laid == Pages(e.bullets, MaxBullets)
           title == SafeHeading(e.heading)
           slides == BulletSlides(e)
           n == Len(laid)
<1>1. MaxBullets \in Nat \ {0}
  BY PassagesAreNumbered
<1>2. PagesHold(e.bullets, MaxBullets, laid)
  BY <1>1, PagesCover DEF Entry
<1>3. /\ FlattenSeq(laid) = e.bullets /\ (\A p \in DOMAIN laid : Len(laid[p]) <= MaxBullets)
      /\ n \in Nat /\ DOMAIN laid = 1..n /\ laid # <<>>
  BY <1>2 DEF PagesHold
<1>4. slides = [p \in 1..n |-> Slide(IF p = 1 THEN title ELSE title \o <<"cont.">>, laid[p],
                                     IF p = n THEN e.footnote ELSE "", 0)]
  BY <1>3 DEF BulletSlides
<1> HIDE DEF laid, title, slides
<1>5. DOMAIN slides = 1..n /\ \A p \in 1..n : /\ slides[p].shows = laid[p]
                                              /\ slides[p].foot = IF p = n THEN e.footnote ELSE ""
  <2>1. DOMAIN slides = 1..n
    BY <1>4
  <2>2. ASSUME NEW p \in 1..n
        PROVE  slides[p].shows = laid[p] /\ slides[p].foot = IF p = n THEN e.footnote ELSE ""
    <3> DEFINE t == IF p = 1 THEN title ELSE title \o <<"cont.">>
               f == IF p = n THEN e.footnote ELSE ""
               q == laid[p]
    <3>1. slides[p] = Slide(t, q, f, 0)
      BY <1>4
    <3> HIDE DEF t, f, q
    <3>2. slides[p].shows = q /\ slides[p].foot = f
      BY <3>1, SlideIs
    <3> QED BY <3>2 DEF f, q
  <2> QED BY <2>1, <2>2
<1>6. slides \in Seq(ToSet(slides)) /\ Len(slides) = n
  <2>1. slides = [p \in 1..n |-> slides[p]] /\ \A p \in 1..n : slides[p] \in ToSet(slides)
    BY <1>4, <1>5 DEF ToSet
  <2> QED BY <1>3, <2>1
<1>7. [p \in DOMAIN slides |-> slides[p].shows] = laid
  <2>1. laid \in Seq(Seq(ToSet(e.bullets)))
    BY <1>1, PagesCover DEF Entry, laid
  <2>2. laid = [p \in 1..n |-> laid[p]]
    BY <1>3, <2>1
  <2> QED BY <1>5, <2>2
<1>8. n > 0
  <2>1. laid \in Seq(Seq(ToSet(e.bullets)))
    BY <1>1, PagesCover DEF Entry, laid
  <2> QED BY <1>3, <2>1
<1>9. slides # <<>> /\ Last(slides).foot = e.footnote
  <2>1. slides # <<>>
    BY <1>3, <1>6, <1>8
  <2>2. slides[n].foot = e.footnote
    <3>1. n \in 1..n
      BY <1>3, <1>8
    <3> QED BY <1>5, <3>1
  <2> QED BY <1>6, <2>1, <2>2 DEF Last
<1> QED BY <1>3, <1>5, <1>6, <1>7, <1>9 DEF ListSlides, slides

\* A table is shown from its beginning, and what is not shown is counted.
LEMMA TableSlideIs ==
  ASSUME NEW e, Entry(e)
  PROVE  /\ TableSlide(e).foot = e.footnote
         /\ TableSlide(e).shows = SubSeq(e.rows, 1, Len(TableSlide(e).shows))
         /\ Len(TableSlide(e).shows) + TableSlide(e).omitted = Len(e.rows)
<1> DEFINE n == Len(e.rows)
           m == Min({TableRows, n})
           title == SafeHeading(e.heading)
           name == IF e.bullets = <<>> THEN title ELSE title \o <<"data">>
           shown == SubSeq(e.rows, 1, m)
<1>1. TableRows \in Nat /\ e.rows \in Seq(ToSet(e.rows)) /\ n \in Nat
  BY PassagesAreNumbered DEF Entry
<1>2. TableSlide(e) = Slide(name, shown, e.footnote, n - m)
  BY DEF TableSlide
<1>3. m \in Nat /\ m <= n
  <2>1. m = IF TableRows <= n THEN TableRows ELSE n
    <3> HIDE DEF n
    <3> QED BY <1>1, MinIs
  <2> QED BY <1>1, <2>1
<1> HIDE DEF m
<1>4. Len(shown) = m
  <2>1. m \in Int /\ \A i \in 1..m : e.rows[i] \in ToSet(e.rows)
    BY <1>1, <1>3
  <2>2. Len(SubSeq(e.rows, 1, m)) = IF 1 <= m THEN m - 1 + 1 ELSE 0
    BY <2>1, SubSeqProperties
  <2> QED BY <1>3, <2>2
<1> DEFINE omitted == n - m
<1>5. TableSlide(e).foot = e.footnote /\ TableSlide(e).shows = shown /\ TableSlide(e).omitted = omitted
  <2>1. TableSlide(e) = Slide(name, shown, e.footnote, omitted)
    BY <1>2
  <2> HIDE DEF name, shown, omitted
  <2> QED BY <2>1, SlideIs
<1>6. Len(TableSlide(e).shows) = m /\ TableSlide(e).shows = SubSeq(e.rows, 1, Len(TableSlide(e).shows))
  <2> HIDE DEF shown
  <2>1. Len(TableSlide(e).shows) = m
    BY <1>4, <1>5
  <2> QED BY <1>5, <2>1 DEF shown
<1>7. m + omitted = n
  BY <1>1, <1>3
<1> HIDE DEF n, omitted, shown
<1> QED BY <1>5, <1>6, <1>7 DEF n

\* What becomes of an entry.
EntryHolds(e, own) ==
    LET lists == SubSeq(own, 1, Len(own) - (IF e.rows = <<>> THEN 0 ELSE 1))
    IN  /\ FlattenSeq([p \in DOMAIN lists |-> lists[p].shows]) = e.bullets
        /\ \A p \in DOMAIN lists : Len(lists[p].shows) <= MaxBullets
        /\ own # <<>> /\ Last(own).foot = e.footnote
        /\ e.rows # <<>> =>
              /\ Last(own).shows = SubSeq(e.rows, 1, Len(Last(own).shows))
              /\ Len(Last(own).shows) + Last(own).omitted = Len(e.rows)

LEMMA EntryIs == ASSUME NEW e, Entry(e) PROVE EntryHolds(e, EntrySlides(e))
<1> DEFINE own == EntrySlides(e)
           lists == SubSeq(own, 1, Len(own) - (IF e.rows = <<>> THEN 0 ELSE 1))
           b == IF e.bullets = <<>> THEN <<>> ELSE BulletSlides(e)
           t == TableSlide(e)
           s == Slide(SafeHeading(e.heading), <<>>, e.footnote, 0)
<1>1. own = b \o (IF e.rows = <<>> THEN <<>> ELSE <<t>>) \o (IF e.bullets = <<>> /\ e.rows = <<>> THEN <<s>> ELSE <<>>)
  BY DEF EntrySlides
<1>2. ListSlides(e, b)
  <2>1. CASE e.bullets = <<>>
    <3>1. b = <<>> /\ <<>> \in Seq(ToSet(<<>>)) /\ Len(<<>>) \in Nat /\ DOMAIN <<>> = {} /\ [p \in DOMAIN <<>> |-> <<>>[p].shows] = <<>>
      BY <2>1
    <3> QED BY <2>1, <3>1, FlattenEmpty DEF ListSlides
  <2>2. CASE e.bullets # <<>>
    BY <2>2, BulletSlidesAre
  <2> QED BY <2>1, <2>2
<1>3. b = <<>> <=> e.bullets = <<>>
  BY BulletSlidesAre
<1> HIDE DEF own, b, t, s
<1> DEFINE S == ToSet(b) \cup {t, s}
<1>4. b \in Seq(S) /\ t \in S /\ s \in S /\ Len(b) \in Nat
  <2>1. b \in Seq(ToSet(b)) /\ Len(b) \in Nat
    BY <1>2 DEF ListSlides
  <2> QED BY <2>1
<1> HIDE DEF S
<1>5. s.shows = <<>> /\ s.foot = e.footnote
  BY SlideIs DEF s
<1>6. t.foot = e.footnote /\ t.shows = SubSeq(e.rows, 1, Len(t.shows)) /\ Len(t.shows) + t.omitted = Len(e.rows)
  BY TableSlideIs DEF t
<1>7. MaxBullets \in Nat
  BY PassagesAreNumbered
<1>8. CASE e.rows # <<>>
  <2>1. own = b \o <<t>>
    <3>1. own = b \o <<t>> \o <<>>
      BY <1>1, <1>8
    <3>2. b \o <<t>> \in Seq(S)
      BY <1>4, OneAfter
    <3> QED BY <3>1, <3>2, ConcatEmptySeq
  <2>2. own \in Seq(S) /\ own # <<>> /\ Last(own) = t /\ Len(own) = Len(b) + 1 /\ \A i \in 1..Len(b) : own[i] = b[i]
    BY <1>4, <2>1, OneAfter
  <2>3. lists = b
    <3>1. Len(own) - 1 = Len(b)
      BY <1>4, <2>2
    <3>2. lists = SubSeq(own, 1, Len(b))
      BY <1>8, <3>1
    <3> DEFINE m == Len(b)
    <3>3. m \in Int /\ \A i \in 1..m : own[i] \in S
      BY <1>4, <2>2
    <3> HIDE DEF m
    <3>4. /\ SubSeq(own, 1, m) \in Seq(S) /\ Len(SubSeq(own, 1, m)) = (IF 1 <= m THEN m - 1 + 1 ELSE 0)
          /\ \A i \in 1..(m - 1 + 1) : SubSeq(own, 1, m)[i] = own[1 + i - 1]
      BY <3>3, SubSeqProperties
    <3>5. Len(SubSeq(own, 1, m)) = m /\ \A i \in 1..m : SubSeq(own, 1, m)[i] = b[i]
      BY <1>4, <2>2, <3>4 DEF m
    <3>6. SubSeq(own, 1, m) = b
      BY <1>4, <3>4, <3>5, SeqEqual DEF m
    <3> QED BY <3>2, <3>6 DEF m
  <2> HIDE DEF lists
  <2> QED BY <1>2, <1>6, <2>2, <2>3 DEF EntryHolds, ListSlides, own, lists
<1>9. CASE e.rows = <<>> /\ e.bullets # <<>>
  <2>1. own = b
    <3>1. own = b \o <<>> \o <<>>
      BY <1>1, <1>9
    <3> QED BY <1>4, <3>1, ConcatEmptySeq
  <2>2. lists = b
    <3>1. lists = SubSeq(b, 1, Len(b))
      BY <1>4, <1>9, <2>1
    <3> QED BY <1>4, <3>1, SubSeqFull
  <2>3. own # <<>> /\ Last(own).foot = e.footnote
    BY <1>2, <1>3, <1>9, <2>1 DEF ListSlides
  <2> HIDE DEF lists
  <2> QED BY <1>2, <1>9, <2>2, <2>3 DEF EntryHolds, ListSlides, own, lists
<1>10. CASE e.rows = <<>> /\ e.bullets = <<>>
  <2>1. own = <<s>>
    <3>1. own = <<>> \o <<>> \o <<s>>
      BY <1>1, <1>3, <1>10
    <3>2. <<s>> \in Seq(S)
      BY <1>4
    <3>3. <<>> \in Seq(S)
      OBVIOUS
    <3>4. <<>> \o <<>> = <<>> /\ <<>> \o <<s>> = <<s>>
      BY <3>2, <3>3, ConcatEmptySeq
    <3> QED BY <3>1, <3>4
  <2>2. own \in Seq(S) /\ Len(own) = 1 /\ own # <<>> /\ Last(own) = s
    BY <1>4, <2>1 DEF Last
  <2>3. lists = <<s>>
    <3>1. lists = SubSeq(own, 1, Len(own))
      BY <1>10, <2>2
    <3> QED BY <2>1, <2>2, <3>1, SubSeqFull
  <2> HIDE DEF lists
  <2>4. DOMAIN lists = {1} /\ lists[1] = s
    BY <2>3
  <2>5. [p \in DOMAIN lists |-> lists[p].shows] = << <<>> >>
    BY <1>5, <2>4
  <2>6. FlattenSeq(<< <<>> >>) = <<>>
    <3>1. <<>> \in Seq({})
      OBVIOUS
    <3> QED BY <3>1, FlattenOne
  <2>7. \A p \in DOMAIN lists : Len(lists[p].shows) <= MaxBullets
    <3>1. Len(<<>>) = 0
      OBVIOUS
    <3> QED BY <1>5, <1>7, <2>4, <3>1
  <2> QED BY <1>5, <1>10, <2>2, <2>5, <2>6, <2>7 DEF EntryHolds, own, lists
<1> QED BY <1>8, <1>9, <1>10 DEF own

Lines == [doc : PassageDocs, warned : BOOLEAN]

LEMMA SourceLinesAre ==
  ASSUME NEW deferred \in BOOLEAN, order.deferred = deferred
  PROVE  SourceLines(Cites(deferred)) \in Seq(Lines) /\ SourcesListed(SourceLines(Cites(deferred)))
<1> DEFINE s == Cites(deferred)
           listed == SourceDocs(s)
           lines == SourceLines(s)
<1>1. /\ s \in Seq(Citations) /\ DOMAIN Passages = 1..Len(s) /\ \A n \in 1..Len(s) : s[n].doc = Passages[n].doc
  BY PassageIs DEF Leading
<1>2. \A i \in 1..Len(listed) : listed[i].confidence < Threshold <=> WarnedOf(listed[i].doc)
  BY WarningIs
<1> HIDE DEF s
<1>3. /\ listed \in Seq(Citations)
      /\ \A i, j \in 1..Len(listed) : listed[i].doc = listed[j].doc => i = j
      /\ \A i \in 1..Len(listed) : \E n \in 1..Len(s) : s[n] = listed[i]
      /\ \A n \in 1..Len(s) : \E i \in 1..Len(listed) : listed[i].doc = s[n].doc
  BY <1>1, SourcesAre DEF DocsAre
<1>4. lines = [i \in DOMAIN listed |-> [doc |-> listed[i].doc, warned |-> listed[i].confidence < Threshold]]
  BY DEF SourceLines
<1> HIDE DEF listed, lines
<1>5. DOMAIN listed = 1..Len(listed) /\ Len(listed) \in Nat /\ \A i \in 1..Len(listed) : listed[i] \in Citations
  BY <1>3
<1>6. DOMAIN lines = 1..Len(listed)
  BY <1>4, <1>5
<1>7. ASSUME NEW i \in 1..Len(listed)
      PROVE  lines[i] \in Lines /\ lines[i].doc = listed[i].doc /\ (lines[i].warned <=> WarnedOf(listed[i].doc))
  <2> DEFINE d == listed[i].doc
             w == listed[i].confidence < Threshold
  <2>1. lines[i] = [doc |-> d, warned |-> w]
    BY <1>4, <1>5
  <2>2. d \in PassageDocs
    BY <1>5 DEF Citations
  <2>3. w \in BOOLEAN
    OBVIOUS
  <2>4. w <=> WarnedOf(d)
    BY <1>2
  <2> HIDE DEF d, w
  <2>5. lines[i].doc = d /\ lines[i].warned = w /\ lines[i] \in Lines
    BY <2>1, <2>2, <2>3 DEF Lines
  <2> QED BY <2>4, <2>5 DEF d
<1>8. lines \in Seq(Lines)
  <2>1. lines = [i \in 1..Len(listed) |-> lines[i]]
    BY <1>4, <1>6
  <2>2. \A i \in 1..Len(listed) : lines[i] \in Lines
    BY <1>7
  <2> QED BY <1>5, <2>1, <2>2
<1>9. {lines[i].doc : i \in DOMAIN lines} = {Passages[n].doc : n \in DOMAIN Passages}
  <2>1. ASSUME NEW i \in DOMAIN lines PROVE \E n \in DOMAIN Passages : Passages[n].doc = lines[i].doc
    <3>1. PICK n \in 1..Len(s) : s[n] = listed[i]
      BY <1>3, <1>6, <2>1
    <3> QED BY <1>1, <1>6, <1>7, <2>1, <3>1
  <2>2. ASSUME NEW n \in DOMAIN Passages PROVE \E i \in DOMAIN lines : lines[i].doc = Passages[n].doc
    <3>1. PICK i \in 1..Len(listed) : listed[i].doc = s[n].doc
      BY <1>1, <1>3, <2>2
    <3> QED BY <1>1, <1>6, <1>7, <2>2, <3>1
  <2> QED BY <2>1, <2>2
<1>10. \A i, j \in DOMAIN lines : lines[i].doc = lines[j].doc => i = j
  BY <1>3, <1>6, <1>7
<1>11. \A i \in DOMAIN lines : lines[i].warned <=> WarnedOf(lines[i].doc)
  BY <1>6, <1>7
<1>12. SourcesListed(lines)
  BY <1>9, <1>10, <1>11 DEF SourcesListed
<1> QED BY <1>8, <1>12 DEF lines, s

\* Decks, of any entries.
LEMMA DeckIs ==
  ASSUME NEW input \in Decks, NEW deferred \in BOOLEAN,
         order = [kind |-> "pptx", input |-> input, deferred |-> deferred], document = DeckOf(input, deferred)
  PROVE  DeckHolds /\ document.kind = "pptx" /\ document.warned = Uncertain(Cites(deferred))
<1> DEFINE lines == SourceLines(Cites(deferred))
           slides == [k \in DOMAIN input |-> EntrySlides(input[k])]
           laid == Pages(lines, SourcesPerSlide)
           doubted == Uncertain(Cites(deferred))
<1>1. order.input = input /\ order.deferred = deferred
  OBVIOUS
<1>2. lines \in Seq(Lines) /\ SourcesListed(lines)
  BY <1>1, SourceLinesAre
<1>3. SourcesPerSlide \in Nat \ {0}
  BY PassagesAreNumbered
<1> HIDE DEF lines
<1>4. FlattenSeq(laid) = lines /\ \A p \in DOMAIN laid : Len(laid[p]) <= SourcesPerSlide
  BY <1>2, <1>3, PagesCover DEF PagesHold
<1>5. document = [kind |-> "pptx", slides |-> slides, warned |-> doubted, sources |-> laid]
  BY DEF DeckOf, lines
<1>6. \A k \in DOMAIN input : Entry(input[k])
  <2> TAKE k \in DOMAIN input
  <2>1. input \in Seq(ToSet(input)) /\ input[k] \in ToSet(input)
    BY CallsAreParsed DEF ToSet
  <2> QED BY <2>1, CallsAreParsed DEF Entry
<1>7. \A k \in DOMAIN input : EntryHolds(input[k], slides[k])
  <2> TAKE k \in DOMAIN input
  <2>1. EntryHolds(input[k], EntrySlides(input[k]))
    BY <1>6, EntryIs
  <2> QED BY <2>1
<1> HIDE DEF slides, laid, doubted
<1>8. document.kind = "pptx" /\ document.slides = slides /\ document.warned = doubted /\ document.sources = laid
  BY <1>5
<1>9. \A k \in DOMAIN order.input : EntryHolds(order.input[k], document.slides[k])
  BY <1>1, <1>7, <1>8
<1>10. FlattenSeq(document.sources) = lines /\ \A p \in DOMAIN document.sources : Len(document.sources[p]) <= SourcesPerSlide
  BY <1>4, <1>8
<1>11. DeckHolds
  <2> DEFINE found == FlattenSeq(document.sources)
  <2>1. SourcesListed(found)
    BY <1>2, <1>10
  <2> HIDE DEF found
  <2> QED BY <1>9, <1>10, <2>1, Zenon DEF DeckHolds, EntryHolds, found
<1> QED BY <1>8, <1>11 DEF doubted

\* A workbook, as it is asked for.
Book(b) ==
    /\ b.headers \in Seq(STRING) /\ b.chart \in Seq(STRING) /\ b.notes \in Seq(ToSet(b.notes))
    /\ b.formulas \in Seq(STRING \X SUBSET Nat)
    /\ b.rows \in Seq(ToSet(b.rows)) /\ \A row \in ToSet(b.rows) : row \in Seq(ToSet(row))

\* The parts of its sheet.
ColumnsOf(b) == b.headers \o [f \in DOMAIN b.formulas |-> b.formulas[f][1]]
RowsOf(b) == [r \in DOMAIN b.rows |-> Extended(b.rows[r], b.formulas)]
ContentOf(b, r, c) ==
    IF c \notin DOMAIN RowsOf(b)[r] THEN <<"empty">>
    ELSE IF c > Len(b.headers) /\ RowsOf(b)[r][c][1] = "formula"
    THEN <<"formula", {<<column, ExcelRow(r - 1)>> : column \in RowsOf(b)[r][c][2]}>>
    ELSE RowsOf(b)[r][c]
PlacesOf(b) == {<<ExcelRow(r - 1), c>> : r \in DOMAIN RowsOf(b), c \in DOMAIN ColumnsOf(b)}
ChartOf(b) ==
    [i \in {i \in DOMAIN b.chart : Contains(ColumnsOf(b), b.chart[i]) /\ RowsOf(b) # <<>>} |->
        [column |-> Min({c \in DOMAIN ColumnsOf(b) : ColumnsOf(b)[c] = b.chart[i]}),
         first |-> 2, last |-> Len(RowsOf(b)) + 1]]

LEMMA ListIs ==
  ASSUME NEW n \in Nat, NEW f, DOMAIN f = 1..n, f = [i \in 1..n |-> f[i]]
  PROVE  f \in Seq(ToSet(f)) /\ Len(f) = n
<1>1. \A i \in 1..n : f[i] \in ToSet(f)
  BY DEF ToSet
<1> DEFINE S == ToSet(f)
<1> HIDE DEF S
<1>2. f \in [1..n -> S]
  BY <1>1 DEF S
<1> QED BY <1>2 DEF S

LEMMA Joined ==
  ASSUME NEW S, NEW a \in Seq(S), NEW b \in Seq(S)
  PROVE  /\ a \o b \in Seq(S) /\ Len(a \o b) = Len(a) + Len(b) /\ DOMAIN (a \o b) = 1..(Len(a) + Len(b))
         /\ \A i \in 1..Len(a) : (a \o b)[i] = a[i]
         /\ \A i \in 1..Len(b) : (a \o b)[Len(a) + i] = b[i]
OBVIOUS

LEMMA BookShape ==
  ASSUME NEW b, Book(b)
  PROVE  /\ ColumnsOf(b) \in Seq(STRING) /\ Len(ColumnsOf(b)) = Len(b.headers) + Len(b.formulas)
         /\ DOMAIN b.rows = 1..Len(b.rows) /\ Len(b.rows) \in Nat /\ Len(b.headers) \in Nat
         /\ DOMAIN b.formulas = 1..Len(b.formulas) /\ Len(b.formulas) \in Nat
         /\ DOMAIN b.notes = 1..Len(b.notes) /\ Len(b.notes) \in Nat
         /\ DOMAIN ColumnsOf(b) = 1..(Len(b.headers) + Len(b.formulas))
         /\ DOMAIN RowsOf(b) = 1..Len(b.rows) /\ Len(RowsOf(b)) = Len(b.rows) /\ (RowsOf(b) = <<>> => b.rows = <<>>)
<1> DEFINE names == [f \in DOMAIN b.formulas |-> b.formulas[f][1]]
<1>1. /\ b.headers \in Seq(STRING) /\ b.formulas \in Seq(STRING \X SUBSET Nat) /\ b.rows \in Seq(ToSet(b.rows))
      /\ b.notes \in Seq(ToSet(b.notes))
  BY DEF Book
<1>2. names \in Seq(STRING) /\ Len(names) = Len(b.formulas)
  <2>1. \A f \in 1..Len(b.formulas) : b.formulas[f][1] \in STRING
    <3>1. \A f \in 1..Len(b.formulas) : b.formulas[f] \in STRING \X SUBSET Nat
      BY <1>1
    <3> QED BY <3>1
  <2>2. DOMAIN b.formulas = 1..Len(b.formulas) /\ Len(b.formulas) \in Nat
    BY <1>1
  <2>3. \A f \in 1..Len(b.formulas) : names[f] \in STRING
    BY <2>1, <2>2
  <2>4. names = [f \in 1..Len(b.formulas) |-> names[f]]
    BY <2>2
  <2> HIDE DEF names
  <2> QED BY <2>2, <2>3, <2>4
<1>3. ColumnsOf(b) = b.headers \o names
  BY DEF ColumnsOf
<1> HIDE DEF names
<1>4. ColumnsOf(b) \in Seq(STRING) /\ Len(ColumnsOf(b)) = Len(b.headers) + Len(b.formulas)
  <2> DEFINE heads == b.headers
  <2>1. heads \in Seq(STRING)
    BY <1>1
  <2> HIDE DEF heads
  <2>2. heads \o names \in Seq(STRING) /\ Len(heads \o names) = Len(heads) + Len(names)
    BY <1>2, <2>1, Joined
  <2> QED BY <1>2, <1>3, <2>2 DEF heads
<1>5. DOMAIN RowsOf(b) = 1..Len(b.rows) /\ RowsOf(b) \in Seq(ToSet(RowsOf(b))) /\ Len(RowsOf(b)) = Len(b.rows)
  <2> DEFINE rows == RowsOf(b)
             n == Len(b.rows)
  <2>1. n \in Nat /\ DOMAIN b.rows = 1..n
    BY <1>1
  <2>2. DOMAIN rows = 1..n /\ rows = [r \in 1..n |-> rows[r]]
    BY <2>1 DEF RowsOf
  <2> HIDE DEF rows, n
  <2>3. rows \in Seq(ToSet(rows)) /\ Len(rows) = n
    BY <2>1, <2>2, ListIs
  <2> QED BY <2>2, <2>3 DEF rows, n
<1>6. RowsOf(b) = <<>> => b.rows = <<>>
  <2>1. RowsOf(b) = <<>> => Len(b.rows) = 0
    <3>1. RowsOf(b) = <<>> => Len(RowsOf(b)) = 0
      OBVIOUS
    <3> QED BY <1>5, <3>1
  <2> QED BY <1>1, <2>1
<1> QED BY <1>1, <1>4, <1>5, <1>6

\* A row that fits the headers: its readings in their columns, then the formulas.
LEMMA RowIs ==
  ASSUME NEW b, Book(b), NEW r \in DOMAIN b.rows, Len(b.rows[r]) = Len(b.headers)
  PROVE  /\ \A c \in 1..Len(b.headers) : ContentOf(b, r, c) = <<"value", b.rows[r][c]>>
         /\ \A f \in DOMAIN b.formulas :
              ContentOf(b, r, Len(b.headers) + f) =
                <<"formula", {<<column, ExcelRow(r - 1)>> : column \in b.formulas[f][2]}>>
<1> DEFINE row == b.rows[r]
           w == Len(b.headers)
           k == Len(b.formulas)
           values == [i \in DOMAIN row |-> <<"value", row[i]>>]
           forms == [f \in DOMAIN b.formulas |-> <<"formula", b.formulas[f][2]>>]
           all == values \o forms
<1>1. row \in Seq(ToSet(row)) /\ w \in Nat /\ Len(row) = w /\ DOMAIN b.formulas = 1..k /\ k \in Nat
  <2>1. row \in ToSet(b.rows)
    BY DEF ToSet
  <2> QED BY <2>1, BookShape DEF Book
<1>2. DOMAIN row = 1..w
  BY <1>1
<1>3. RowsOf(b)[r] = all
  BY DEF RowsOf, Extended
<1>4. values \in Seq(ToSet(values)) /\ Len(values) = w /\ DOMAIN values = 1..w /\ \A c \in 1..w : values[c] = <<"value", row[c]>>
  <2>1. DOMAIN values = 1..w /\ values = [c \in 1..w |-> values[c]] /\ \A c \in 1..w : values[c] = <<"value", row[c]>>
    BY <1>2
  <2> HIDE DEF values
  <2> QED BY <1>1, <2>1, ListIs
<1>5. forms \in Seq(ToSet(forms)) /\ Len(forms) = k /\ DOMAIN forms = 1..k /\ \A f \in 1..k : forms[f] = <<"formula", b.formulas[f][2]>>
  <2>1. DOMAIN forms = 1..k /\ forms = [f \in 1..k |-> forms[f]] /\ \A f \in 1..k : forms[f] = <<"formula", b.formulas[f][2]>>
    BY <1>1
  <2> HIDE DEF forms
  <2> QED BY <1>1, <2>1, ListIs
<1> HIDE DEF values, forms
<1>6. /\ DOMAIN all = 1..(w + k)
      /\ \A c \in 1..w : all[c] = values[c]
      /\ \A f \in 1..k : all[w + f] = forms[f]
  <2> DEFINE S == ToSet(values) \cup ToSet(forms)
  <2>1. values \in Seq(S) /\ forms \in Seq(S)
    BY <1>4, <1>5
  <2> HIDE DEF S
  <2> HIDE DEF w, k
  <2>2. /\ DOMAIN (values \o forms) = 1..(Len(values) + Len(forms))
        /\ \A i \in 1..Len(values) : (values \o forms)[i] = values[i]
        /\ \A i \in 1..Len(forms) : (values \o forms)[Len(values) + i] = forms[i]
    BY <2>1, Joined
  <2> QED BY <1>4, <1>5, <2>2
<1> HIDE DEF all
<1>7. ASSUME NEW c \in 1..w PROVE ContentOf(b, r, c) = <<"value", row[c]>>
  <2>1. c \in DOMAIN RowsOf(b)[r] /\ ~(c > w)
    <3> HIDE DEF w, k
    <3>1. c \in Nat /\ 1 <= c /\ c <= w /\ c \in 1..(w + k)
      BY <1>1
    <3> HIDE DEF row
    <3> QED BY <1>1, <1>3, <1>6, <3>1
  <2>2. RowsOf(b)[r][c] = <<"value", row[c]>>
    BY <1>3, <1>4, <1>6
  <2>3. ContentOf(b, r, c) = RowsOf(b)[r][c]
    BY <2>1 DEF ContentOf
  <2> QED BY <2>2, <2>3
<1>8. ASSUME NEW f \in DOMAIN b.formulas
      PROVE  ContentOf(b, r, w + f) = <<"formula", {<<column, ExcelRow(r - 1)>> : column \in b.formulas[f][2]}>>
  <2> DEFINE c == w + f
             terms == b.formulas[f][2]
             cell == RowsOf(b)[r][c]
  <2>1. c \in DOMAIN RowsOf(b)[r] /\ c > w
    <3> HIDE DEF w, k
    <3>1. f \in 1..k
      BY <1>1
    <3>2. c \in 1..(w + k) /\ c > w
      BY <1>1, <3>1
    <3> HIDE DEF c
    <3> QED BY <1>3, <1>6, <3>2
  <2>2. cell = <<"formula", terms>>
    BY <1>1, <1>3, <1>5, <1>6, <1>8
  <2>3. ContentOf(b, r, c) = IF c \notin DOMAIN RowsOf(b)[r] THEN <<"empty">>
                            ELSE IF c > w /\ cell[1] = "formula"
                            THEN <<"formula", {<<column, ExcelRow(r - 1)>> : column \in cell[2]}>>
                            ELSE cell
    BY DEF ContentOf
  <2> HIDE DEF c, terms, cell
  <2>4. cell[1] = "formula" /\ cell[2] = terms
    BY <2>2
  <2>5. ContentOf(b, r, c) = <<"formula", {<<column, ExcelRow(r - 1)>> : column \in cell[2]}>>
    BY <2>1, <2>3, <2>4, Zenon
  <2> QED BY <2>4, <2>5 DEF c, terms
<1> QED BY <1>7, <1>8 DEF row

\* A chart is over the first column of the name it was given.
LEMMA ChartIs ==
  ASSUME NEW b, Book(b), NEW i \in DOMAIN ChartOf(b)
  PROVE  /\ ColumnsOf(b)[ChartOf(b)[i].column] = b.chart[i]
         /\ ChartOf(b)[i].first = 2 /\ ChartOf(b)[i].last = Len(b.rows) + 1
         /\ DOMAIN ColumnsOf(b) # {} /\ DOMAIN b.rows # {}
<1> DEFINE T == {c \in DOMAIN ColumnsOf(b) : ColumnsOf(b)[c] = b.chart[i]}
           m == Min(T)
           l == Len(RowsOf(b)) + 1
<1>1. /\ i \in DOMAIN b.chart /\ Contains(ColumnsOf(b), b.chart[i]) /\ RowsOf(b) # <<>>
      /\ ChartOf(b)[i] = [column |-> m, first |-> 2, last |-> l]
  BY DEF ChartOf
<1>2. T # {} /\ T \in SUBSET Nat
  BY <1>1, BookShape DEF Contains
<1>3. m \in T
  <2> HIDE DEF T
  <2>1. \E x \in T : \A y \in T : x <= y
    BY <1>2, NatHasMin
  <2> QED BY <2>1 DEF Min
<1>4. l = Len(b.rows) + 1
  BY BookShape
<1>5. DOMAIN b.rows # {}
  <2>1. b.rows \in Seq(ToSet(b.rows)) /\ DOMAIN b.rows = DOMAIN RowsOf(b)
    BY BookShape DEF Book
  <2>2. DOMAIN RowsOf(b) # {}
    <3>1. RowsOf(b) = [r \in DOMAIN b.rows |-> Extended(b.rows[r], b.formulas)]
      BY DEF RowsOf
    <3> QED BY <1>1, <3>1
  <2> QED BY <2>1, <2>2
<1> HIDE DEF m, l
<1>6. ChartOf(b)[i].column = m /\ ChartOf(b)[i].first = 2 /\ ChartOf(b)[i].last = l
  BY <1>1
<1> QED BY <1>3, <1>4, <1>5, <1>6

\* Workbooks, of any readings.
LEMMA BookIs ==
  ASSUME NEW b \in Books, NEW deferred \in BOOLEAN,
         order = [kind |-> "xlsx", input |-> b, deferred |-> deferred], document = BookOf(b, deferred)
  PROVE  BookHolds /\ document.kind = "xlsx"
<1> DEFINE columns == ColumnsOf(b)
           cells == [at \in PlacesOf(b) |-> ContentOf(b, at[1] - ExcelRow(0) + 1, at[2])]
           chart == ChartOf(b)
           notes == [n \in DOMAIN b.notes |-> Len(RowsOf(b)) + 2 + n]
           lines == SourceLines(Cites(deferred))
           w == Len(b.headers)
<1>1. order.input = b /\ Book(b) /\ order.deferred = deferred
  BY CallsAreParsed DEF Book
<1>2. document = [kind |-> "xlsx", columns |-> columns, cells |-> cells, chart |-> chart, notes |-> notes,
                  sources |-> lines]
  BY DEF BookOf, ColumnsOf, RowsOf, PlacesOf, ContentOf, ChartOf
<1>3. /\ DOMAIN b.rows = 1..Len(b.rows) /\ Len(b.rows) \in Nat /\ DOMAIN RowsOf(b) = DOMAIN b.rows
      /\ DOMAIN columns = 1..(w + Len(b.formulas)) /\ w \in Nat /\ Len(b.formulas) \in Nat
      /\ DOMAIN b.formulas = 1..Len(b.formulas) /\ DOMAIN b.notes = 1..Len(b.notes)
      /\ Len(RowsOf(b)) = Len(b.rows)
  BY <1>1, BookShape
<1>4. \A at : at \in PlacesOf(b) <=> \E r \in DOMAIN b.rows, c \in DOMAIN columns : at = <<ExcelRow(r - 1), c>>
  <2> DEFINE R == DOMAIN b.rows
             C == DOMAIN columns
  <2>1. PlacesOf(b) = {<<ExcelRow(r - 1), c>> : r \in R, c \in C}
    <3>1. DOMAIN RowsOf(b) = R
      BY <1>3
    <3> HIDE DEF R
    <3> QED BY <3>1 DEF PlacesOf
  <2> HIDE DEF R, C
  <2>2. \A at : at \in PlacesOf(b) <=> \E r \in R, c \in C : at = <<ExcelRow(r - 1), c>>
    BY <2>1
  <2> QED BY <2>2 DEF R, C
<1>5. \A r \in DOMAIN b.rows, c \in DOMAIN columns : <<r + 1, c>> \in PlacesOf(b) /\ cells[<<r + 1, c>>] = ContentOf(b, r, c)
  <2> TAKE r \in DOMAIN b.rows, c \in DOMAIN columns
  <2>1. ExcelRow(r - 1) = r + 1 /\ (r + 1) - ExcelRow(0) + 1 = r
    BY <1>3 DEF ExcelRow
  <2>2. <<ExcelRow(r - 1), c>> \in PlacesOf(b)
    BY <1>4
  <2> DEFINE at == <<r + 1, c>>
  <2>3. at \in PlacesOf(b) /\ at[1] = r + 1 /\ at[2] = c
    BY <2>1, <2>2
  <2> HIDE DEF at
  <2>4. cells[at] = ContentOf(b, at[1] - ExcelRow(0) + 1, at[2])
    BY <2>3
  <2> QED BY <2>1, <2>3, <2>4 DEF at
<1>6. \A at \in PlacesOf(b) : \E r \in DOMAIN b.rows, c \in DOMAIN columns : at = <<r + 1, c>>
  <2> TAKE at \in PlacesOf(b)
  <2>1. PICK r \in DOMAIN b.rows, c \in DOMAIN columns : at = <<ExcelRow(r - 1), c>>
    BY <1>4
  <2>2. ExcelRow(r - 1) = r + 1
    BY <1>3 DEF ExcelRow
  <2> QED BY <2>1, <2>2
<1>7. DOMAIN cells = PlacesOf(b)
  OBVIOUS
<1>13. SourcesListed(lines)
  BY <1>1, SourceLinesAre
<1> HIDE DEF columns, cells, chart, notes, lines
<1>8. /\ document.kind = "xlsx" /\ document.columns = columns /\ document.cells = cells /\ document.chart = chart
      /\ document.notes = notes /\ document.sources = lines
  BY <1>2
<1>9. ASSUME NEW r \in DOMAIN b.rows, Len(b.rows[r]) = w
      PROVE  /\ \A c \in 1..w : cells[<<r + 1, c>>] = <<"value", b.rows[r][c]>>
             /\ \A f \in DOMAIN b.formulas :
                  cells[<<r + 1, w + f>>] = <<"formula", {<<column, r + 1>> : column \in b.formulas[f][2]}>>
  <2>1. ExcelRow(r - 1) = r + 1
    BY <1>3 DEF ExcelRow
  <2>2. /\ \A c \in 1..w : ContentOf(b, r, c) = <<"value", b.rows[r][c]>>
        /\ \A f \in DOMAIN b.formulas :
             ContentOf(b, r, w + f) = <<"formula", {<<column, r + 1>> : column \in b.formulas[f][2]}>>
    BY <1>1, <1>9, <2>1, RowIs
  <2> DEFINE k == Len(b.formulas)
  <2>3. w \in Nat /\ k \in Nat /\ DOMAIN columns = 1..(w + k) /\ DOMAIN b.formulas = 1..k
    BY <1>3
  <2> HIDE DEF w, k
  <2>4. (\A c \in 1..w : c \in DOMAIN columns) /\ \A f \in DOMAIN b.formulas : w + f \in DOMAIN columns
    BY <2>3
  <2> USE DEF w
  <2> QED BY <1>5, <2>2, <2>4
<1>10. \A n \in DOMAIN notes : \A at \in DOMAIN cells : notes[n] > at[1]
  <2> TAKE n \in DOMAIN notes
  <2> TAKE at \in DOMAIN cells
  <2>1. n \in 1..Len(b.notes) /\ notes[n] = Len(b.rows) + 2 + n
    BY <1>3 DEF notes
  <2>2. PICK r \in DOMAIN b.rows, c \in DOMAIN columns : at = <<r + 1, c>>
    BY <1>6, <1>7
  <2>3. at[1] = r + 1 /\ r <= Len(b.rows) /\ r \in Nat /\ n \in Nat
    BY <1>3, <2>1, <2>2
  <2> QED BY <1>3, <2>1, <2>3
<1>11. ASSUME NEW i \in DOMAIN chart
       PROVE  /\ columns[chart[i].column] = b.chart[i]
              /\ {at[1] : at \in DOMAIN cells} = chart[i].first..chart[i].last
  <2>1. /\ columns[chart[i].column] = b.chart[i] /\ chart[i].first = 2 /\ chart[i].last = Len(b.rows) + 1
        /\ DOMAIN columns # {} /\ DOMAIN b.rows # {}
    BY <1>1, ChartIs DEF chart, columns
  <2>2. ASSUME NEW at \in DOMAIN cells PROVE at[1] \in 2..(Len(b.rows) + 1)
    <3>1. PICK r \in DOMAIN b.rows, c \in DOMAIN columns : at = <<r + 1, c>>
      BY <1>6, <1>7
    <3> QED BY <1>3, <3>1
  <2>3. ASSUME NEW q \in 2..(Len(b.rows) + 1) PROVE \E at \in DOMAIN cells : at[1] = q
    <3>1. PICK c \in DOMAIN columns : TRUE
      BY <2>1
    <3>2. q - 1 \in DOMAIN b.rows /\ (q - 1) + 1 = q
      BY <1>3
    <3>3. <<q, c>> \in PlacesOf(b)
      BY <1>5, <3>2
    <3> QED BY <1>7, <3>3
  <2>4. {at[1] : at \in DOMAIN cells} = 2..(Len(b.rows) + 1)
    BY <2>2, <2>3
  <2> QED BY <2>1, <2>4
<1>12. BookHolds
  BY <1>1, <1>8, <1>9, <1>10, <1>11, <1>13 DEF BookHolds
<1> QED BY <1>8, <1>12

\* What was delivered is what is made of what was asked for.
Delivered ==
    \/ order = NoOrder /\ document = NoDocument
    \/ \E deferred \in BOOLEAN :
         \/ \E input \in Reports : /\ order = [kind |-> "docx", input |-> input, deferred |-> deferred]
                                   /\ document = ReportOf(input, deferred)
         \/ \E input \in Decks : /\ order = [kind |-> "pptx", input |-> input, deferred |-> deferred]
                                 /\ document = DeckOf(input, deferred)
         \/ \E input \in Books : /\ order = [kind |-> "xlsx", input |-> input, deferred |-> deferred]
                                 /\ document = BookOf(input, deferred)

LEMMA DeliveredInit == ArtifactInit => Delivered
BY DEF ArtifactInit, Delivered

LEMMA DeliveredStep == Delivered /\ [ArtifactNext]_artifactVars => Delivered'
<1> SUFFICES ASSUME Delivered, [ArtifactNext]_artifactVars PROVE Delivered'
  OBVIOUS
<1>1. ASSUME NEW deferred \in BOOLEAN, NEW input \in Reports, MakeReport(input, deferred) PROVE Delivered'
  <2>1. order' = [kind |-> "docx", input |-> input, deferred |-> deferred] /\ document' = ReportOf(input, deferred)
    BY <1>1 DEF MakeReport, Ordered
  <2> QED BY <2>1 DEF Delivered
<1>2. ASSUME NEW deferred \in BOOLEAN, NEW input \in Decks, MakeDeck(input, deferred) PROVE Delivered'
  <2>1. order' = [kind |-> "pptx", input |-> input, deferred |-> deferred] /\ document' = DeckOf(input, deferred)
    BY <1>2 DEF MakeDeck, Ordered
  <2> QED BY <2>1 DEF Delivered
<1>3. ASSUME NEW deferred \in BOOLEAN, NEW input \in Books, MakeBook(input, deferred) PROVE Delivered'
  <2>1. order' = [kind |-> "xlsx", input |-> input, deferred |-> deferred] /\ document' = BookOf(input, deferred)
    BY <1>3 DEF MakeBook, Ordered
  <2> QED BY <2>1 DEF Delivered
<1>4. CASE UNCHANGED artifactVars
  BY <1>4 DEF artifactVars, Delivered
<1> QED BY <1>1, <1>2, <1>3, <1>4 DEF ArtifactNext

LEMMA DeliveredChecked == Delivered => DocumentsCanBeChecked
<1> SUFFICES ASSUME Delivered PROVE DocumentsCanBeChecked
  OBVIOUS
<1>1. CASE order = NoOrder /\ document = NoDocument
  BY <1>1 DEF NoOrder, NoDocument, DocumentsCanBeChecked
<1>2. ASSUME NEW deferred \in BOOLEAN, NEW input \in Reports,
             order = [kind |-> "docx", input |-> input, deferred |-> deferred], document = ReportOf(input, deferred)
      PROVE  DocumentsCanBeChecked
  <2>1. input \in Calls
    BY CallsAreParsed DEF Calls
  <2>2. ReportHolds /\ document.kind = "docx" /\ document.warned = Uncertain(Cites(deferred))
    BY <1>2, <2>1, ReportIs
  <2>3. order.kind = "docx" /\ order.deferred = deferred
    BY <1>2
  <2>4. Uncertain(Cites(deferred)) <=> \E n \in DOMAIN Passages : WarnedOf(Passages[n].doc)
    BY <2>3, WarningIs
  <2> QED BY <2>2, <2>3, <2>4 DEF DocumentsCanBeChecked
<1>3. ASSUME NEW deferred \in BOOLEAN, NEW input \in Decks,
             order = [kind |-> "pptx", input |-> input, deferred |-> deferred], document = DeckOf(input, deferred)
      PROVE  DocumentsCanBeChecked
  <2>1. DeckHolds /\ document.kind = "pptx" /\ document.warned = Uncertain(Cites(deferred))
    BY <1>3, DeckIs
  <2>2. order.kind = "pptx" /\ order.deferred = deferred
    BY <1>3
  <2>3. Uncertain(Cites(deferred)) <=> \E n \in DOMAIN Passages : WarnedOf(Passages[n].doc)
    BY <2>2, WarningIs
  <2> QED BY <2>1, <2>2, <2>3 DEF DocumentsCanBeChecked
<1>4. ASSUME NEW deferred \in BOOLEAN, NEW input \in Books,
             order = [kind |-> "xlsx", input |-> input, deferred |-> deferred], document = BookOf(input, deferred)
      PROVE  DocumentsCanBeChecked
  <2>1. BookHolds /\ document.kind = "xlsx"
    BY <1>4, BookIs
  <2>2. order.kind = "xlsx"
    BY <1>4
  <2> QED BY <2>1, <2>2 DEF DocumentsCanBeChecked
<1> QED BY <1>1, <1>2, <1>3, <1>4 DEF Delivered

\* A document says all it was asked to say, the marks in its text lead to its sources
\* and what was cut or read badly is said in it, with the exceptions ReportHolds names:
\* reports, decks and workbooks, of any passages, of none, and of any sections, entries
\* and rows (tools/artifacts.py, artifacts/).
THEOREM DocumentsChecked == ArtifactSpec => []DocumentsCanBeChecked
<1>1. ArtifactSpec => []Delivered
  BY DeliveredInit, DeliveredStep, PTL DEF ArtifactSpec
<1> QED BY <1>1, DeliveredChecked, PTL
=============================================================================
