------------------------------ MODULE Residency ------------------------------
(***************************************************************************)
(* Which models are in memory (providers/residency.py): requests that      *)
(* acquire a model before they use it, the ledger of what is resident, the *)
(* eviction that makes room, and reconciliation with the backends.         *)
(*                                                                         *)
(* Several logical models may be names of the same weights: loading and    *)
(* unloading act on weights, the ledger is kept by logical name.           *)
(***************************************************************************)
EXTENDS SequencesExt, Lists

CONSTANTS
    Tasks,          \* requests in progress, each using one model after another
    Models,         \* logical names in the manifest
    Weights,        \* physical_id of each
    Backend,        \* provider of each
    Size,           \* approx_ram_gb of each
    Pinned,         \* names marked pinned in the manifest
    SmallSize,      \* SMALL_MODEL_GB
    MaxResident,    \* max_resident_gb
    AllowSwap,      \* allow_swap
    MaxSyncs,       \* how often may sync_from_providers run?
    MayIdle,        \* may a backend unload a model by itself?
    MayFail,        \* may a load or an unload fail?
    NoTask          \* nobody holds _activation_lock

ASSUME ManifestAssumption ==
    /\ IsFiniteSet(Models) /\ Models # {}
    /\ DOMAIN Weights = Models /\ DOMAIN Backend = Models
    /\ Size \in [Models -> Nat]
    /\ Pinned \subseteq Models
    /\ SmallSize \in Nat /\ MaxResident \in Nat
    /\ {AllowSwap, MayIdle, MayFail} \subseteq BOOLEAN
    /\ NoTask \notin Tasks
    /\ MaxSyncs \in Nat

VARIABLES
    entries,   \* names in the ledger, least recently used first
    pinned,    \* those of them pinned
    loaded,    \* weights in memory
    lock,      \* holder of _activation_lock
    pc,        \* where each task is
    want,      \* the model it acquires
    victims,   \* what it may still evict, chosen when it began
    retried,   \* it has forgotten and reacquired its model once
    syncing,   \* a reconciliation is under way,
    unpolled,  \* the backends it has still to poll
    reported,  \* and what those it has polled hold
    synced,    \* history: a reconciliation has changed the ledger
    syncs      \* how many have begun

tasks == <<pc, want, victims, retried>>
sync == <<syncing, unpolled, reported, synced, syncs>>
vars == <<entries, pinned, loaded, lock, tasks, sync>>

Resident(m) == Contains(entries, m)
Backends == {Backend[m] : m \in Models}

TypeOK ==
    /\ entries \in Seq(Models) /\ IsInjective(entries)
    /\ pinned \subseteq ToSet(entries)
    /\ loaded \subseteq {Weights[m] : m \in Models}
    /\ lock \in Tasks \cup {NoTask}
    /\ pc \in [Tasks -> {"idle", "lock", "unload", "load", "use"}]
    /\ want \in [Tasks -> Models]
    /\ victims \in [Tasks -> Seq(Models)]
    /\ retried \in [Tasks -> BOOLEAN]
    /\ syncing \in BOOLEAN /\ synced \in BOOLEAN /\ syncs \in 0 .. MaxSyncs
    /\ unpolled \subseteq Backends
    /\ reported \subseteq {Weights[m] : m \in Models}

\* warm_pinned has run.
Init ==
    /\ entries = SetToSeq(Pinned)
    /\ pinned = Pinned
    /\ loaded = {Weights[m] : m \in Pinned}
    /\ lock = NoTask
    /\ pc = [t \in Tasks |-> "idle"]
    /\ want = [t \in Tasks |-> CHOOSE m \in Models : TRUE]
    /\ victims = [t \in Tasks |-> <<>>]
    /\ retried = [t \in Tasks |-> FALSE]
    /\ syncing = FALSE /\ unpolled = {} /\ reported = {} /\ synced = FALSE /\ syncs = 0

-----------------------------------------------------------------------------
(***************************************************************************)
(* The ledger.                                                             *)
(***************************************************************************)

\* resident_gb: each physical model once, at its largest estimate.
Units(m) == {Weights[m]} \X (1 .. Size[m])

ResidentGB(S) == Cardinality(UNION {Units(m) : m \in S})

Fits(S, m) == ResidentGB(S) + Size[m] <= MaxResident

Small(m) == Size[m] <= SmallSize

\* An entry used now, recorded if it was not.
Without(s, m) == Kept(s, Models \ {m})

Used(s, m) == Append(Without(s, m), m)

Touch(m) == entries' = Used(entries, m)

\* What release does to the weights, whichever other names they have ...
Unloads(w) ==
    \/ loaded' = loaded \ {w}
    \/ MayFail /\ UNCHANGED loaded

\* ... and what _load does.
Loads(w) ==
    \/ loaded' = loaded \cup {w}
    \/ MayFail /\ UNCHANGED loaded

-----------------------------------------------------------------------------
(***************************************************************************)
(* acquire.                                                                *)
(***************************************************************************)

Go(t, stage) == pc' = [pc EXCEPT ![t] = stage]

\* A task that is done wants nothing: which model it wanted last says nothing.
AnyModel == CHOOSE m \in Models : TRUE

Rest(t) ==
    /\ Go(t, "idle")
    /\ want' = [want EXCEPT ![t] = AnyModel]
    /\ retried' = [retried EXCEPT ![t] = FALSE]

\* Fault: every model loaded as a small one is.
AcquireUnlocked(t, m) ==
    IF Resident(m)
    THEN Go(t, "use") /\ Touch(m)
    ELSE Go(t, "load") /\ UNCHANGED entries

\* A request asks for a model: it is there, or it is small, or it needs the lock.
Acquire(t, m) ==
    IF Resident(m)
    THEN Go(t, "use") /\ Touch(m)
    ELSE Go(t, IF Small(m) THEN "load" ELSE "lock") /\ UNCHANGED entries

Request(t, m) ==
    /\ pc[t] = "idle"
    /\ want' = [want EXCEPT ![t] = m]
    /\ Acquire(t, m)
    /\ UNCHANGED <<pinned, loaded, lock, victims, retried, sync>>

\* _make_room_for from one unload to the next: stop when the model fits or
\* nothing is left to evict, else release the next victim that is still there.
MakeRoom(t, ledger, candidates) ==
    LET live == Kept(candidates, ToSet(ledger) \ pinned)
    IN  IF Fits(ToSet(ledger), want[t]) \/ live = <<>>
        THEN Go(t, "load") /\ victims' = [victims EXCEPT ![t] = <<>>]
        ELSE Go(t, "unload") /\ victims' = [victims EXCEPT ![t] = live]

\* Faults: not looking again once the lock is free, and a failed load that keeps it.
TakeLockBlindly(t) ==
    /\ pc[t] = "lock"
    /\ lock = NoTask
    /\ lock' = t
    /\ MakeRoom(t, entries, IF AllowSwap THEN entries ELSE <<>>)
    /\ UNCHANGED <<entries, pinned, loaded, want, retried, sync>>

LoadKeepsLock(t) ==
    /\ pc[t] = "load"
    /\ Touch(want[t])
    /\ Go(t, "use")
    /\ \/ loaded' = loaded \cup {Weights[want[t]]} /\ lock' = NoTask
       \/ MayFail /\ UNCHANGED <<loaded, lock>>
    /\ UNCHANGED <<pinned, want, victims, retried, sync>>

\* The lock is free.  Someone else may have loaded the model meanwhile.
TakeLock(t) ==
    /\ pc[t] = "lock"
    /\ lock = NoTask
    /\ \/ /\ Resident(want[t])
          /\ Go(t, "use") /\ Touch(want[t])
          /\ UNCHANGED <<lock, victims>>
       \/ /\ ~Resident(want[t])
          /\ lock' = t
          /\ MakeRoom(t, entries, IF AllowSwap THEN entries ELSE <<>>)
          /\ UNCHANGED entries
    /\ UNCHANGED <<pinned, loaded, want, retried, sync>>

\* provider.unload returns.
Evict(t) ==
    LET v == Head(victims[t]) IN
    /\ pc[t] = "unload"
    /\ Unloads(Weights[v])
    /\ entries' = Without(entries, v)
    /\ pinned' = pinned \ {v}
    /\ MakeRoom(t, Without(entries, v), Tail(victims[t]))
    /\ UNCHANGED <<lock, want, retried, sync>>

\* provider.ensure_loaded returns.  A load that failed is recorded like any other.
Load(t) ==
    /\ pc[t] = "load"
    /\ Loads(Weights[want[t]])
    /\ Touch(want[t])
    /\ pinned' = IF ~Resident(want[t]) /\ want[t] \in Pinned
                 THEN pinned \cup {want[t]} ELSE pinned
    /\ lock' = IF lock = t THEN NoTask ELSE lock
    /\ Go(t, "use")
    /\ UNCHANGED <<want, victims, retried, sync>>

-----------------------------------------------------------------------------
(***************************************************************************)
(* Using the model, and what the backend does by itself.                   *)
(***************************************************************************)

\* A backend that finds the weights missing loads them, as Ollama does.
Use(t) ==
    /\ pc[t] = "use"
    /\ loaded' = loaded \cup {Weights[want[t]]}
    /\ Rest(t)
    /\ UNCHANGED <<entries, pinned, lock, victims, sync>>

\* Or answers "Model unloaded", as LM Studio does: the runner forgets the entry
\* and acquires the model once more, then gives up.
UnloadedUnderneath(t) ==
    LET m == want[t] IN
    /\ pc[t] = "use"
    /\ Weights[m] \notin loaded
    /\ IF retried[t]
       THEN Rest(t) /\ UNCHANGED <<entries, pinned>>
       ELSE /\ retried' = [retried EXCEPT ![t] = TRUE] /\ UNCHANGED want
            /\ entries' = Without(entries, m)
            /\ pinned' = pinned \ {m}
            /\ Go(t, IF Small(m) THEN "load" ELSE "lock")
    /\ UNCHANGED <<loaded, lock, victims, sync>>

\* The caller gives up, as the generation of arguments does when its time is over.
\* What it awaited may have been done or not: the lock is free again, a victim that
\* was being unloaded is still in the ledger, a model that was being loaded is not.
TimedOut(t) ==
    /\ pc[t] # "idle"
    /\ \/ UNCHANGED loaded
       \/ pc[t] = "unload" /\ loaded' = loaded \ {Weights[Head(victims[t])]}
       \/ pc[t] \in {"load", "use"} /\ loaded' = loaded \cup {Weights[want[t]]}
    /\ lock' = IF lock = t THEN NoTask ELSE lock
    /\ victims' = [victims EXCEPT ![t] = <<>>]
    /\ Rest(t)
    /\ UNCHANGED <<entries, pinned, sync>>

IdleUnload(w) ==
    /\ MayIdle
    /\ w \in loaded
    /\ loaded' = loaded \ {w}
    /\ UNCHANGED <<entries, pinned, lock, tasks, sync>>

-----------------------------------------------------------------------------
(***************************************************************************)
(* sync_from_providers: it polls one backend after the other and corrects  *)
(* the ledger when all have answered.  A backend that does not answer, or  *)
(* reports nothing, is left alone.                                         *)
(***************************************************************************)

SyncBegin ==
    /\ syncs < MaxSyncs
    /\ ~syncing
    /\ syncs' = syncs + 1 /\ syncing' = TRUE /\ unpolled' = Backends /\ reported' = {}
    /\ UNCHANGED <<entries, pinned, loaded, lock, tasks, synced>>

SyncPoll(b) ==
    /\ b \in unpolled
    /\ unpolled' = unpolled \ {b}
    /\ \/ reported' = reported \cup
             (loaded \cap {Weights[m] : m \in {n \in Models : Backend[n] = b}})
       \/ MayFail /\ UNCHANGED reported
    /\ UNCHANGED <<entries, pinned, loaded, lock, tasks, syncing, synced, syncs>>

\* Fault: drift corrected in one direction only.
SyncOnlyDrops ==
    LET there == {m \in Models : Weights[m] \in reported}
        answered == {Backend[m] : m \in there}
    IN  /\ syncing /\ unpolled = {}
        /\ entries' = Kept(entries, {m \in Models : Backend[m] \in answered => m \in there})
        /\ pinned' = pinned \cap ToSet(entries')
        /\ syncing' = FALSE /\ reported' = {}
        /\ synced' = (synced \/ entries' # entries)
        /\ UNCHANGED <<loaded, lock, tasks, unpolled, syncs>>

SyncApply ==
    LET there == {m \in Models : Weights[m] \in reported}
        answered == {Backend[m] : m \in there}
        gone == {m \in ToSet(entries) : Backend[m] \in answered /\ m \notin there}
    IN  /\ syncing /\ unpolled = {}
        /\ entries' = Kept(entries, Models \ gone) \o SetToSeq(there \ ToSet(entries))
        /\ pinned' = pinned \ gone
        /\ syncing' = FALSE /\ reported' = {}
        /\ synced' = (synced \/ entries' # entries)
        /\ UNCHANGED <<loaded, lock, tasks, unpolled, syncs>>

-----------------------------------------------------------------------------
Step(t) ==
    TakeLock(t) \/ Evict(t) \/ Load(t) \/ Use(t) \/ UnloadedUnderneath(t) \/ TimedOut(t)

Next ==
    \/ \E t \in Tasks : Step(t) \/ \E m \in Models : Request(t, m)
    \/ \E w \in loaded : IdleUnload(w)
    \/ SyncBegin \/ SyncApply \/ \E b \in Backends : SyncPoll(b)

Spec == Init /\ [][Next]_vars

\* Loads and unloads return (they have timeouts), and asyncio.Lock serves its
\* waiters in order.
FairSpec ==
    /\ Spec
    /\ \A t \in Tasks : WF_vars(Evict(t) \/ Load(t) \/ Use(t)) /\ SF_vars(TakeLock(t))

-----------------------------------------------------------------------------
(***************************************************************************)
(* Properties.                                                             *)
(***************************************************************************)

Large == {m \in Models : ~Small(m)}

\* A manifest in which room can be made for every large model, by evicting whatever is
\* not pinned: config/models.yaml is one.
ManifestFits ==
    /\ AllowSwap
    /\ \A m \in Large : ResidentGB((Pinned \cap Large) \cup {m}) <= MaxResident

\* Large models alone never fill more than the budget, whoever acquires what at
\* the same time: the lock makes each one see what the others loaded. Only a
\* reconciliation may find more than that, loaded by somebody else or twice.
LargeWithinBudget ==
    ~synced => ResidentGB(ToSet(entries) \cap Large) <= MaxResident

\* Two requests that need different large models serialise, whatever the backends
\* and the reconciliation do in the meantime.
OneActivation ==
    \A t \in Tasks : pc[t] \in {"unload", "load"} /\ ~Small(want[t]) => lock = t

\* A large model that was waited for is not loaded a second time by who waited.
LoadedOnce ==
    \A t \in Tasks : pc[t] \in {"unload", "load"} /\ ~Small(want[t]) =>
        ~Resident(want[t])

\* Only a large model makes others go, and a pinned name is never a victim.
PinnedIsNotAVictim ==
    \A t \in Tasks : pc[t] = "unload" => Head(victims[t]) \notin pinned

\* The ledger in order, with what waiting and evicting must not do to it. A
\* reconciliation may put a model back, or unpin one, behind a task's back.
ResidencyInv ==
    TypeOK /\ LargeWithinBudget /\ (~synced => LoadedOnce /\ PinnedIsNotAVictim)

\* Whoever asks for a model gets to use it, whatever fails and whoever else gives up
\* while holding the lock; the exception is one who gives up, and is idle again.
AcquireReturns ==
    \A t \in Tasks : (pc[t] \in {"lock", "unload", "load"}) ~> (pc[t] \in {"use", "idle"})

\* When what was polled is still what is in memory, the ledger agrees with it in
\* both directions on every backend that holds something.
SyncCorrects ==
    [][SyncApply /\ reported = loaded =>
        \A m \in Models :
            (\E n \in Models : Backend[n] = Backend[m] /\ Weights[n] \in loaded) =>
                (m \in ToSet(entries') <=> Weights[m] \in loaded)]_vars

\* What the manifest pins stays in memory: no eviction unloads its weights.
PinnedStaysLoaded == \A m \in Pinned : Weights[m] \in loaded
=============================================================================
