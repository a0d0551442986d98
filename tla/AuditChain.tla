----------------------------- MODULE AuditChain -----------------------------
(***************************************************************************)
(* The hash-chained audit log (security/audit.py): transactions of one     *)
(* process appending rows, each committing or rolling back later, and      *)
(* verify_chain reading what is committed.                                 *)
(***************************************************************************)
EXTENDS Integers, FiniteSets, Sequences

CONSTANTS
    Writers,   \* database transactions that write audit rows
    Free,      \* no holder of _chain_lock
    MaxRows    \* rows one transaction writes; the code has no such bound

ASSUME WritersAssumption == Free \notin Writers
ASSUME MaxRowsAssumption == MaxRows \in Nat

VARIABLES
    log,         \* committed rows of audit_events
    pending,     \* rows a transaction has flushed and not yet committed
    stage,       \* where each transaction is
    lock,        \* holder of _chain_lock
    reserved,    \* the sequence number a transaction took under the lock
    nextSeq,     \* audit_events_seq_seq
    overlapped   \* history: a row was ever linked while another transaction
                 \* still had rows of its own to commit

vars == <<log, pending, stage, lock, reserved, nextSeq, overlapped>>

-----------------------------------------------------------------------------
(***************************************************************************)
(* Rows and their digests.  SHA-256 is a free constructor: equal digests   *)
(* come of equal contents and equal predecessors only.  Of the contents    *)
(* all that matters is whether they are as written.                        *)
(***************************************************************************)

Genesis == <<>>
Hash(seq, body, prev) == <<seq, body, prev>>

Row(seq, prev) ==
    [seq |-> seq, body |-> "written", prev |-> prev, hash |-> Hash(seq, "written", prev)]

IsLast(r, S) == r \in S /\ \A q \in S : q.seq <= r.seq

\* READ COMMITTED: what is committed, and what the transaction wrote itself.
Visible(w) == log \cup pending[w]

AllPending == UNION {pending[w] : w \in Writers}

-----------------------------------------------------------------------------
TypeOK ==
    /\ stage \in [Writers -> {"open", "locked", "ended"}]
    /\ lock \in Writers \cup {Free}
    /\ reserved \in [Writers -> Nat]
    /\ nextSeq \in Nat \ {0}
    /\ overlapped \in BOOLEAN
    /\ pending = [w \in Writers |-> pending[w]]
    /\ \A r \in log \cup AllPending :
          r = Row(r.seq, r.prev) /\ r.seq \in 1..(nextSeq - 1)

Init ==
    /\ log = {}
    /\ pending = [w \in Writers |-> {}]
    /\ stage = [w \in Writers |-> "open"]
    /\ lock = Free
    /\ reserved = [w \in Writers |-> 0]
    /\ nextSeq = 1
    /\ overlapped = FALSE

-----------------------------------------------------------------------------
(***************************************************************************)
(* Faults that a property must be able to tell.                            *)
(***************************************************************************)

\* The end of the chain remembered in the process instead of read back.
PreviousHashRemembered(S) ==
    IF S \cup AllPending = {} THEN Genesis
    ELSE (CHOOSE r \in S \cup AllPending : IsLast(r, S \cup AllPending)).hash

\* log without its lock.
ReserveUnlocked(w) ==
    /\ stage[w] = "open"
    /\ Cardinality(pending[w]) < MaxRows
    /\ lock' = w
    /\ reserved' = [reserved EXCEPT ![w] = nextSeq]
    /\ nextSeq' = nextSeq + 1
    /\ stage' = [stage EXCEPT ![w] = "locked"]
    /\ UNCHANGED <<log, pending, overlapped>>

\* The next number computed from the rows instead of drawn from the sequence.
ReserveFromRows(w) ==
    /\ stage[w] = "open"
    /\ Cardinality(pending[w]) < MaxRows
    /\ lock = Free
    /\ lock' = w
    /\ reserved' = [reserved EXCEPT ![w] = Cardinality(Visible(w)) + 1]
    /\ stage' = [stage EXCEPT ![w] = "locked"]
    /\ UNCHANGED <<log, pending, nextSeq, overlapped>>

\* verify_chain that recomputes digests but does not follow the links.
BrokenDigestOnly(r, expected) == r.hash # Hash(r.seq, r.body, r.prev)

-----------------------------------------------------------------------------
\* The digest at the end of what a transaction can see.
PreviousHash(S) ==
    IF S = {} THEN Genesis ELSE (CHOOSE r \in S : IsLast(r, S)).hash

(***************************************************************************)
(* AuditLogger.log and the transaction around it.                          *)
(***************************************************************************)

\* log takes _chain_lock and a sequence number.
Reserve(w) ==
    /\ stage[w] = "open"
    /\ Cardinality(pending[w]) < MaxRows
    /\ lock = Free
    /\ lock' = w
    /\ reserved' = [reserved EXCEPT ![w] = nextSeq]
    /\ nextSeq' = nextSeq + 1
    /\ stage' = [stage EXCEPT ![w] = "locked"]
    /\ UNCHANGED <<log, pending, overlapped>>

\* It reads the last digest, flushes its row and releases the lock.  The
\* transaction stays open: log_durable commits next, a request may go on for long.
AppendRow(w) ==
    /\ stage[w] = "locked"
    /\ pending' = [pending EXCEPT
                     ![w] = @ \cup {Row(reserved[w], PreviousHash(Visible(w)))}]
    /\ overlapped' = (overlapped \/ \E v \in Writers \ {w} : pending[v] # {})
    /\ lock' = Free
    /\ stage' = [stage EXCEPT ![w] = "open"]
    /\ UNCHANGED <<log, reserved, nextSeq>>

Commit(w) ==
    /\ stage[w] = "open"
    /\ log' = log \cup pending[w]
    /\ pending' = [pending EXCEPT ![w] = {}]
    /\ stage' = [stage EXCEPT ![w] = "ended"]
    /\ UNCHANGED <<lock, reserved, nextSeq, overlapped>>

\* A raising endpoint, a cancelled task or a crash.  A sequence number once taken
\* is not given back.
Rollback(w) ==
    /\ stage[w] # "ended"
    /\ pending' = [pending EXCEPT ![w] = {}]
    /\ lock' = IF lock = w THEN Free ELSE lock
    /\ stage' = [stage EXCEPT ![w] = "ended"]
    /\ UNCHANGED <<log, reserved, nextSeq, overlapped>>

Next == \E w \in Writers : Reserve(w) \/ AppendRow(w) \/ Commit(w) \/ Rollback(w)

Spec == Init /\ [][Next]_vars

-----------------------------------------------------------------------------
(***************************************************************************)
(* verify_chain(start_seq, limit) over a set of rows.                      *)
(***************************************************************************)

\* What the first row after start should link to.
ExpectedBefore(S, start) == PreviousHash({r \in S : r.seq <= start})

\* A row that does not link to the one before it, or does not hash to its digest.
Broken(r, expected) == r.prev # expected \/ r.hash # Hash(r.seq, r.body, r.prev)

\* Rows in the order of their numbers.
InOrder(S) ==
    [i \in 1..Cardinality(S) |->
        CHOOSE r \in S : Cardinality({q \in S : q.seq <= r.seq}) = i]

\* Rows after start in order, at most limit of them; limit 0 is no limit.
Window(S, start, limit) ==
    LET all == InOrder({r \in S : r.seq > start})
    IN  SubSeq(all, 1, IF limit > 0 /\ limit < Len(all) THEN limit ELSE Len(all))

\* The sequence number verify_chain reports, 0 for a valid chain.
FirstInvalid(S, start, limit) ==
    LET events == Window(S, start, limit)
        expected(i) == IF i > 1 THEN events[i - 1].hash
                       ELSE IF start > 0 THEN ExpectedBefore(S, start) ELSE Genesis
        bad == {i \in DOMAIN events : Broken(events[i], expected(i))}
    IN  IF bad = {} THEN 0
        ELSE events[CHOOSE i \in bad : \A j \in bad : i <= j].seq

FirstInvalidOfAll(S) == FirstInvalid(S, 0, 0)

-----------------------------------------------------------------------------
LinksBack(r, S) == r.prev = PreviousHash({q \in S : q.seq < r.seq})
Linked(S) == \A r \in S : LinksBack(r, S)

ResolvesIn(r, S) ==
    \/ r.prev = Genesis
    \/ \E q \in S : q.hash = r.prev /\ q.seq < r.seq

(***************************************************************************)
(* What makes the chain's invariants inductive.                            *)
(***************************************************************************)

\* Whoever holds the lock has the highest number there is.
HolderIsLast ==
    \A w \in Writers : stage[w] = "locked" =>
        /\ lock = w
        /\ reserved[w] = nextSeq - 1 /\ reserved[w] >= 1
        /\ \A r \in log \cup AllPending : r.seq < reserved[w]

HasLast(S) == S # {} => \E r \in S : IsLast(r, S)

LastRows == HasLast(log) /\ \A w \in Writers : HasLast(pending[w])

\* Links resolve in what each transaction sees, so they do once it commits.
Resolves ==
    /\ \A r \in log : ResolvesIn(r, log)
    /\ \A w \in Writers : \A r \in pending[w] : ResolvesIn(r, Visible(w))

\* Without overlap one transaction at a time extends the log.
Intact ==
    ~overlapped =>
        /\ \A v, w \in Writers : v = w \/ pending[v] = {} \/ pending[w] = {}
        /\ Linked(log)
        /\ \A w \in Writers : Linked(Visible(w))
        /\ \A w \in Writers : \A r \in log, q \in pending[w] : r.seq < q.seq

\* No number was given out twice.
OneNumberEach == \A q, r \in log \cup AllPending : q.seq = r.seq => q = r

ChainInv == TypeOK /\ HolderIsLast /\ LastRows /\ Resolves /\ Intact /\ OneNumberEach

(***************************************************************************)
(* Properties.                                                             *)
(***************************************************************************)

\* No committed row links to one that was rolled back: every link ends at the
\* genesis digest or at a committed row with a smaller number, whatever overlaps
\* and whatever is rolled back (_previous_hash reads inside the transaction).
EveryLinkResolves == \A r \in log : ResolvesIn(r, log)

\* While no two transactions have uncommitted audit rows at the same time, every
\* committed row links to the committed row before it, across the gaps that
\* rolled back rows leave (AuditLogger.log).
IntactUnlessOverlapped == ~overlapped => Linked(log)

\* verify_chain accepts exactly the logs whose rows all link to the one before,
\* and of the others names the first row that does not.
VerifyFindsFirstBreak ==
    LET unlinked == {r \in log : ~LinksBack(r, log)}
        found == FirstInvalidOfAll(log)
    IN  /\ unlinked = {} => found = 0
        /\ unlinked # {} => /\ \E r \in unlinked : r.seq = found
                            /\ \A r \in unlinked : found <= r.seq

\* A valid log in which one row is altered or removed fails to verify, at that
\* row, or at its successor.  The last row can be removed without a trace.
VerifyFindsDamage ==
    FirstInvalidOfAll(log) = 0 =>
        \A r \in log :
            LET after == {q.seq : q \in {q \in log : q.seq > r.seq}}
            IN  /\ FirstInvalidOfAll((log \ {r}) \cup {[r EXCEPT !.body = "altered"]}) = r.seq
                /\ after # {} => FirstInvalidOfAll(log \ {r}) \in after
                /\ after # {} =>
                     \A s \in after : FirstInvalidOfAll(log \ {r}) <= s

\* Verifying in two pieces, with limit and then start_seq, reports what verifying
\* the whole log reports.
VerifyInPieces ==
    \A cut \in log :
        LET size == Cardinality({r \in log : r.seq <= cut.seq})
            head == FirstInvalid(log, 0, size)
        IN  FirstInvalidOfAll(log) =
                IF head # 0 THEN head
                ELSE FirstInvalid(log, cut.seq, 0)

\* verify_chain names the first row that does not link back, finds any one row altered
\* or removed but the last, and says in two pieces what it says in one.
VerifyIsSound == VerifyFindsFirstBreak /\ VerifyFindsDamage /\ VerifyInPieces

\* An untouched log verifies.
ChainIntact == Linked(log)
=============================================================================
