------------------------------- MODULE Answers -------------------------------
(***************************************************************************)
(* From a question to a checked answer: retrieval (rag/retriever.py,       *)
(* rag/fusion.py), the evidence a run gathers (agent/state.py), the        *)
(* references of the answer (rag/citations.py), its figures                *)
(* (agent/numerics.py), whether it declines (agent/refusal.py) and the     *)
(* verdict on it (_synthesise and _validate of agent/runner.py).           *)
(*                                                                         *)
(* A passage is the set of the numbers in it.  A draft is a sequence of    *)
(* paragraphs of one sentence, [kind, marks, figures].  Kinds: "claim",    *)
(* "declines", "turns" (declines, then asserts), "rule" (a heading or a    *)
(* table row), "marks" (nothing but references).  A mark is an id or the   *)
(* number of a source, <<"id", chunk>> or <<"at", n>>.                     *)
(***************************************************************************)
EXTENDS Integers, Sequences, SequencesExt, FiniteSets, FiniteSetsExt, Lists

CONSTANTS
    Chunks,         \* passages in the index
    Allowed,        \* those the access filter lets this person see
    Passage,        \* per chunk: the numbers in it
    Confidence,     \* per chunk: mean recognition confidence, in tenths
    Rankings,       \* what a search engine may answer, as sequences of chunks
    Depth,          \* dense_k and sparse_k: the most it does answer
    RrfK,           \* the constant of the fusion
    FinalK,         \* passages a search returns
    MaxSearches,    \* bound: retrieval steps of the run
    Results,        \* tool results a run may have, see NoResult
    Drafts          \* what the model may write

\* What no mark refers to.
NoPassage == "nothing"

ASSUME IndexIsRead ==
    /\ Allowed \subseteq Chunks /\ NoPassage \notin Chunks
    /\ {Depth, RrfK, FinalK, MaxSearches} \subseteq Nat /\ Confidence \in [Chunks -> 0..10]
    /\ \A r \in Rankings : r \in Seq(Chunks) /\ Len(r) <= Depth

ASSUME DraftsAreRead ==
    \A text \in Drafts :
        /\ text \in Seq(ToSet(text))
        /\ \A p \in ToSet(text) :
             /\ p.marks \in Seq(ToSet(p.marks))
             /\ \A m \in ToSet(p.marks) :
                  m = <<m[1], m[2]>> /\ m[1] \in {"id", "at"} /\ (m[1] = "at" => m[2] \in Nat)

VARIABLES
    asking,         \* "gather", "judge", "done"
    searches,
    evidence,       \* [chunk, score] in the order shown to the model
    results,        \* the results of calculations
    draft,
    answer,         \* the paragraphs, with numbers for marks
    citations,      \* the chunk behind each number
    unresolved,     \* marks that refer to nothing
    verdict,        \* the validation report
    warned          \* results the answer does not use

answerVars == <<asking, searches, evidence, results, draft, answer, citations,
                unresolved, verdict, warned>>

\* A calculation: its value, the results of its working, and what it was given.
NoResult == [ok |-> FALSE, value |-> 0, working |-> {}, given |-> {}]

NoVerdict == [figures |-> {}, refusal |-> FALSE, claims |-> 0, cited |-> 0]

AnswerInit ==
    /\ asking = "gather" /\ searches = 0 /\ evidence = <<>>
    /\ results = NoResult /\ draft = <<>> /\ answer = <<>>
    /\ citations = <<>> /\ unresolved = <<>> /\ verdict = NoVerdict /\ warned = FALSE

-----------------------------------------------------------------------------
(***************************************************************************)
(* Retrieval.                                                              *)
(***************************************************************************)

\* Scores are multiples of one over the product of all denominators.
Share(position) ==
    LET Product[p \in 0..Depth] ==
            IF p = 0 THEN 1
            ELSE IF p = position THEN Product[p - 1] ELSE Product[p - 1] * (RrfK + p)
    IN  Product[Depth]

Weighted(weight, ranking, c) ==
    LET places == {p \in DOMAIN ranking : ranking[p] = c}
    IN  IF places = {} THEN 0 ELSE weight * Share(Min(places))

\* apply_confidence_penalty, in 160ths: below 0.8, at most 0.15 off.
Penalised(score, c) ==
    score * (IF Confidence[c] < 8 THEN 136 + 3 * Confidence[c] ELSE 160)

Score(dense, sparse, c) == Penalised(Weighted(5, dense, c) + Weighted(4, sparse, c), c)

\* search: what either half found, the best first.
Fused(dense, sparse) ==
    LET hits == {[chunk |-> c, score |-> Score(dense, sparse, c)] :
                     c \in ToSet(dense) \cup ToSet(sparse)}
        order == CHOOSE s \in SetToSeqs(hits) :
                     \A i, j \in DOMAIN s : i < j => s[i].score >= s[j].score
    IN  SubSeq(order, 1, IF Len(order) < FinalK THEN Len(order) ELSE FinalK)

\* merge_evidence, for one passage: each is kept once, with its best score ...
BestOf(list, item) ==
    LET same == {i \in DOMAIN list : list[i].chunk = item.chunk}
    IN  IF same = {} THEN Append(list, item)
        ELSE [i \in DOMAIN list |-> IF i \in same /\ item.score > list[i].score
                                    THEN item ELSE list[i]]

\* ... for those of a search ...
Pooled(old, new) ==
    LET F[n \in 0..Len(new)] == IF n = 0 THEN old ELSE BestOf(F[n - 1], new[n])
    IN  F[Len(new)]

\* ... and the best first.
Merged(old, new) ==
    LET all == Pooled(old, new)
        Places == DOMAIN all
        AtLeast == {p \in Places \X Places :
                       \/ all[p[1]].score > all[p[2]].score
                       \/ all[p[1]].score = all[p[2]].score /\ p[1] <= p[2]}
    IN  [n \in Places |-> all[InPlace(n, Places, AtLeast)]]

\* Both engines are given the same clause, and rank what it leaves.
Sparse(ranking) == Kept(ranking, Allowed)

Dense(ranking) == Kept(ranking, Allowed)

\* One retrieval.  A half that fails finds nothing.
Search ==
    /\ asking = "gather" /\ searches < MaxSearches
    /\ \E d, s \in Rankings \cup {<<>>} :
         evidence' = Merged(evidence, Fused(Dense(d), Sparse(s)))
    /\ searches' = searches + 1
    /\ UNCHANGED <<asking, results, draft, answer, citations, unresolved, verdict, warned>>

Calculated ==
    /\ asking = "gather" /\ results = NoResult
    /\ results' \in Results
    /\ UNCHANGED <<asking, searches, evidence, draft, answer, citations, unresolved, verdict, warned>>

-----------------------------------------------------------------------------
(***************************************************************************)
(* resolve_markers: in one pass, numbers in the order of first appearance. *)
(***************************************************************************)

\* The passage a mark refers to, among those shown.
Meant(shown, mark) ==
    IF mark[1] = "id"
    THEN IF \E i \in DOMAIN shown : shown[i].chunk = mark[2] THEN mark[2] ELSE NoPassage
    ELSE IF mark[2] \in DOMAIN shown THEN shown[mark[2]].chunk ELSE NoPassage

Position(list, item) == CHOOSE n \in DOMAIN list : list[n] = item

Numbered(cited, chunk) == IF Contains(cited, chunk) THEN cited ELSE Append(cited, chunk)

\* A fault: a second pass for the ordinals, which reads the numbers of the first.
ReplaceTwice(shown, acc, mark) ==
    LET first == Meant(shown, mark)
        cited == IF first = NoPassage THEN acc.cited ELSE Numbered(acc.cited, first)
        n == IF first = NoPassage THEN 0 ELSE Position(cited, first)
        again == IF mark[1] = "id" /\ n \in DOMAIN shown THEN shown[n].chunk ELSE first
    IN  IF first = NoPassage THEN [acc EXCEPT !.lost = Append(@, mark)]
        ELSE [acc EXCEPT !.cited = Numbered(acc.cited, again),
                         !.refs = Append(@, Position(Numbered(acc.cited, again), again))]

\* One mark ...
Replace(shown, acc, mark) ==
    LET chunk == Meant(shown, mark)
        cited == Numbered(acc.cited, chunk)
    IN  IF chunk = NoPassage THEN [acc EXCEPT !.lost = Append(@, mark)]
        ELSE [acc EXCEPT !.cited = cited, !.refs = Append(@, Position(cited, chunk))]

\* ... and those of a paragraph.
Replaced(shown, acc, marks) ==
    LET F[n \in 0..Len(marks)] == IF n = 0 THEN acc ELSE Replace(shown, F[n - 1], marks[n])
    IN  F[Len(marks)]

\* A paragraph after another; its references are numbered on from there.
Rewrite(shown, acc, paragraph) ==
    LET done == Replaced(shown, [acc EXCEPT !.refs = <<>>], paragraph.marks)
    IN  [done EXCEPT !.text = Append(@, [kind |-> paragraph.kind, refs |-> done.refs,
                                         figures |-> paragraph.figures])]

NoText == [cited |-> <<>>, lost |-> <<>>, refs |-> <<>>, text |-> <<>>]

Resolved(shown, text) ==
    LET F[n \in 0..Len(text)] == IF n = 0 THEN NoText ELSE Rewrite(shown, F[n - 1], text[n])
    IN  F[Len(text)]

Synthesise ==
    /\ asking = "gather"
    /\ draft' \in Drafts
    /\ LET resolved == Resolved(evidence, draft')
       IN  /\ answer' = resolved.text
           /\ citations' = resolved.cited
           /\ unresolved' = resolved.lost
    /\ asking' = "judge"
    /\ UNCHANGED <<searches, evidence, results, verdict, warned>>

-----------------------------------------------------------------------------
(***************************************************************************)
(* _validate.                                                              *)
(***************************************************************************)

\* calculated: only what came out of a calculation that succeeded.
Derived(r) == IF r.ok THEN {r.value} \cup r.working ELSE {}

\* _cited_text: the whole passage behind a reference.
CitedText(n) == Passage[citations[n]]

\* verify: each figure once, where it was found, or whether it was computed.
Figures ==
    LET written == UNION {answer[i].figures : i \in DOMAIN answer}
    IN  {[value |-> f,
          sources |-> {n \in DOMAIN citations : f \in CitedText(n)},
          computed |-> /\ \A n \in DOMAIN citations : f \notin CitedText(n)
                       /\ f \in Derived(results)] : f \in written}

\* is_refusal: the first of the leading sentences that declines decides, unless a
\* sentence before it asserts something with a reference of its own.
LeadingSentences == 3

IsRefusal ==
    LET prose == SelectSeq(answer, LAMBDA p : p.kind \in {"claim", "declines", "turns"})
        leading == SubSeq(prose, 1, IF Len(prose) < LeadingSentences THEN Len(prose)
                                    ELSE LeadingSentences)
        declining == {i \in DOMAIN leading : leading[i].kind = "declines"}
    IN  /\ declining # {}
        /\ ~\E i \in 1..Min(declining) - 1 : leading[i].kind = "claim" /\ leading[i].refs # <<>>

\* _coverage: a paragraph of nothing but references belongs to the one before it.
Claims == {i \in DOMAIN answer : answer[i].kind \in {"claim", "declines", "turns"}}

IsCited(i) ==
    \E j \in i..Len(answer) :
        /\ answer[j].refs # <<>>
        /\ \A k \in (i + 1)..j : answer[k].kind = "marks"

Judge ==
    /\ asking = "judge"
    /\ verdict' = [figures |-> Figures, refusal |-> IsRefusal,
                   claims |-> IF IsRefusal THEN 0 ELSE Cardinality(Claims),
                   cited |-> IF IsRefusal THEN 0 ELSE Cardinality({i \in Claims : IsCited(i)})]
    \* _calculation_overridden: the answer has no figure that is the result.
    /\ warned' = (results.ok /\ \A i \in DOMAIN answer : results.value \notin answer[i].figures)
    /\ asking' = "done"
    /\ UNCHANGED <<searches, evidence, results, draft, answer, citations, unresolved>>

AnswerNext == Search \/ Calculated \/ Synthesise \/ Judge

AnswerSpec == AnswerInit /\ [][AnswerNext]_answerVars

-----------------------------------------------------------------------------
(***************************************************************************)
(* Properties.                                                             *)
(***************************************************************************)

AnswerTypeOK ==
    /\ asking \in {"gather", "judge", "done"} /\ searches \in 0..MaxSearches
    /\ \A i \in DOMAIN answer : \A k \in DOMAIN answer[i].refs :
          answer[i].refs[k] \in DOMAIN citations

\* What a mark of the draft points at, in the list the model was shown.
Shown(mark) ==
    {c \in Chunks : \E i \in DOMAIN evidence :
        evidence[i].chunk = c /\ mark \in {<<"id", c>>, <<"at", i>>}}

\* Numbers in the order in which they are first met.
FirstMet(refs) == \A k \in DOMAIN refs : refs[k] <= 1 + Cardinality({refs[m] : m \in 1..(k - 1)})

\* The references of each paragraph lead to the passages its marks pointed at in
\* the list the model was shown, one reference to a passage and in the order in
\* which they are first met; a mark that points at nothing is reported, and never
\* lent another's passage; and every passage is one this person may see, listed
\* once whatever the number of searches (search, merge_evidence, resolve_markers).
CitesWhatWasShown ==
    /\ AnswerTypeOK
    /\ \A i, j \in DOMAIN evidence : i # j => evidence[i].chunk # evidence[j].chunk
    /\ \A i \in DOMAIN evidence : evidence[i].chunk \in Allowed
    /\ asking # "gather" =>
        /\ \A i \in DOMAIN answer :
             LET marks == Kept(draft[i].marks, {m \in ToSet(draft[i].marks) : Shown(m) # {}})
             IN  /\ Len(answer[i].refs) = Len(marks)
                 /\ \A k \in DOMAIN marks : Shown(marks[k]) = {citations[answer[i].refs[k]]}
        /\ FirstMet(FlattenSeq([i \in DOMAIN answer |-> answer[i].refs]))
        /\ ToSet(unresolved) = UNION {{m \in ToSet(draft[i].marks) : Shown(m) = {}} :
                                          i \in DOMAIN draft}

\* A figure the reader is told is accounted for is in a passage that was retrieved
\* for this person and that the answer refers to by that number, or came out of a
\* calculation of the run; having been put into one counts for nothing (verify,
\* calculated, _cited_text).
FiguresAreAccountedFor ==
    asking = "done" =>
        \A f \in verdict.figures :
            /\ \A n \in f.sources :
                 /\ \E i \in DOMAIN answer : Contains(answer[i].refs, n)
                 /\ citations[n] \in Allowed /\ f.value \in Passage[citations[n]]
            /\ f.computed => results.ok /\ f.value \in {results.value} \cup results.working

\* What a person reads in an answer leads back to what was retrieved for them: its
\* references, and every figure said to be accounted for.
AnswerLeadsBack == CitesWhatWasShown /\ FiguresAreAccountedFor
=============================================================================
