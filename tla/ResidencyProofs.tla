-------------------------- MODULE ResidencyProofs --------------------------
(***************************************************************************)
(* The ledger of resident models for every manifest and any number of      *)
(* requests. The invariant has three parts: who makes room or loads a      *)
(* large model holds _activation_lock (Sound), which makes what it saw in  *)
(* the ledger stay so (Ordered), and therefore what it counted stay within *)
(* max_resident_gb (Budget). The last two hold until a reconciliation      *)
(* changes the ledger, the first always.                                   *)
(***************************************************************************)
EXTENDS Residency, ListTheorems

(***************************************************************************)
(* The memory a set of models takes.                                       *)
(***************************************************************************)

\* A model takes as many units of memory as its size says (resident_gb).
LEMMA UnitsAre ==
  ASSUME NEW m \in Models
  PROVE  IsFiniteSet(Units(m)) /\ Cardinality(Units(m)) = Size[m]
<1>1. Size[m] \in Nat
  BY ManifestAssumption
<1>2. IsFiniteSet({Weights[m]}) /\ Cardinality({Weights[m]}) = 1
  BY FS_Singleton
<1>3. IsFiniteSet(1..Size[m]) /\ Cardinality(1..Size[m]) = Size[m]
  <2>1. /\ IsFiniteSet(1..Size[m])
        /\ Cardinality(1..Size[m]) = IF 1 > Size[m] THEN 0 ELSE Size[m] - 1 + 1
    BY <1>1, FS_Interval
  <2> QED BY <1>1, <2>1
<1>4. /\ IsFiniteSet({Weights[m]} \X (1..Size[m]))
      /\ Cardinality({Weights[m]} \X (1..Size[m])) =
           Cardinality({Weights[m]}) * Cardinality(1..Size[m])
  BY <1>2, <1>3, FS_Product
<1> QED BY <1>1, <1>2, <1>3, <1>4 DEF Units

\* What any set of models takes together is finite.
LEMMA ResidentFinite ==
  ASSUME NEW S \in SUBSET Models
  PROVE  IsFiniteSet(UNION {Units(m) : m \in S})
<1> DEFINE U == {Units(m) : m \in S}
           f == [m \in S |-> Units(m)]
<1>1. IsFiniteSet(S)
  BY FS_Subset, ManifestAssumption
<1>2. f \in Surjection(S, U)
  BY DEF Surjection
<1>3. IsFiniteSet(U)
  BY <1>1, <1>2, FS_Surjection
<1>4. \A T \in U : IsFiniteSet(T)
  BY UnitsAre
<1> HIDE DEF U
<1> QED BY <1>3, <1>4, FS_UNION DEF U

\* More models need no less memory ...
LEMMA ResidentMonotonic ==
  ASSUME NEW S \in SUBSET Models, NEW T \in SUBSET S
  PROVE  ResidentGB(T) \in Nat /\ ResidentGB(S) \in Nat /\ ResidentGB(T) <= ResidentGB(S)
<1> DEFINE US == UNION {Units(m) : m \in S}
           UT == UNION {Units(m) : m \in T}
<1>1. IsFiniteSet(US) /\ UT \in SUBSET US
  BY ResidentFinite
<1> HIDE DEF US, UT
<1>2. IsFiniteSet(UT) /\ Cardinality(UT) <= Cardinality(US)
  BY <1>1, FS_Subset
<1>3. Cardinality(UT) \in Nat /\ Cardinality(US) \in Nat
  BY <1>1, <1>2, FS_CardinalityType
<1> QED BY <1>2, <1>3 DEF ResidentGB, US, UT

\* ... and one more at most its own size more.
LEMMA ResidentPlusOne ==
  ASSUME NEW S \in SUBSET Models, NEW m \in Models
  PROVE  ResidentGB(S \cup {m}) <= ResidentGB(S) + Size[m]
<1> DEFINE US == UNION {Units(n) : n \in S}
           UM == UNION {Units(n) : n \in S \cup {m}}
           V == Units(m)
<1>1. IsFiniteSet(US)
  BY ResidentFinite
<1>2. IsFiniteSet(V) /\ Cardinality(V) = Size[m]
  BY UnitsAre
<1>3. UM = US \cup V
  OBVIOUS
<1> HIDE DEF US, UM, V
<1>4. Cardinality(US \cup V) = Cardinality(US) + Cardinality(V) - Cardinality(US \cap V)
  BY <1>1, <1>2, FS_Union
<1>5. IsFiniteSet(US \cap V)
  BY <1>1, FS_Subset
<1>6. Cardinality(US) \in Nat /\ Cardinality(V) \in Nat /\ Cardinality(US \cap V) \in Nat
  BY <1>1, <1>2, <1>5, FS_CardinalityType
<1>7. Cardinality(UM) <= Cardinality(US) + Size[m]
  BY <1>2, <1>3, <1>4, <1>6
<1> QED BY <1>7 DEF ResidentGB, US, UM

-----------------------------------------------------------------------------
(***************************************************************************)
(* The invariant, part one: the ledger is sound, and who makes room holds  *)
(* the lock.                                                               *)
(***************************************************************************)

\* The lock and the budget are for large models, and who evicts has someone to evict.
LargeWaits == \A t \in Tasks : pc[t] \in {"lock", "unload"} => ~Small(want[t])

HasVictim == \A t \in Tasks : pc[t] = "unload" => victims[t] # <<>>

Sound == TypeOK /\ LargeWaits /\ HasVictim /\ OneActivation /\ pinned \subseteq Pinned

\* The ledger holds names of the manifest.
LEMMA SetOfEntries ==
  ASSUME NEW s \in Seq(Models)
  PROVE  ToSet(s) \subseteq Models
BY DEF ToSet

\* Being in the ledger is being one of its entries.
LEMMA ResidentIs ==
  ASSUME TypeOK, NEW m
  PROVE  Resident(m) <=> m \in ToSet(entries)
BY DEF TypeOK, Resident, Contains, ToSet

\* Forgetting a name takes that name out of the ledger and no other.
LEMMA WithoutIs ==
  ASSUME NEW s \in Seq(Models), IsInjective(s), NEW m \in Models
  PROVE  /\ Without(s, m) \in Seq(Models) /\ IsInjective(Without(s, m))
         /\ ToSet(Without(s, m)) = ToSet(s) \ {m}
<1>1. Kept(s, Models \ {m}) \in Seq(Models \cap (Models \ {m}))
  BY KeptType
<1>2. Kept(s, Models \ {m}) \in Seq(Models)
  BY <1>1, SeqMonotonic, Models \cap (Models \ {m}) \subseteq Models
<1>3. IsInjective(Kept(s, Models \ {m}))
  BY InjectiveKept
<1>4. ToSet(Kept(s, Models \ {m})) = ToSet(s) \cap (Models \ {m})
  BY SetKept
<1>5. ToSet(s) \subseteq Models
  BY SetOfEntries
<1> QED BY <1>2, <1>3, <1>4, <1>5 DEF Without

\* An entry that is used, or recorded, is in the ledger once.
LEMMA UsedIs ==
  ASSUME NEW s \in Seq(Models), IsInjective(s), NEW m \in Models
  PROVE  /\ Used(s, m) \in Seq(Models) /\ IsInjective(Used(s, m))
         /\ ToSet(Used(s, m)) = ToSet(s) \cup {m}
<1> DEFINE w == Without(s, m)
<1>1. w \in Seq(Models) /\ IsInjective(w) /\ ToSet(w) = ToSet(s) \ {m}
  BY WithoutIs
<1> HIDE DEF w
<1>2. Append(w, m) \in Seq(Models)
  BY <1>1
<1>3. ToSet(Append(w, m)) = ToSet(w) \cup {m} /\ IsInjective(Append(w, m))
  BY <1>1, SetAppend
<1> QED BY <1>1, <1>2, <1>3 DEF Used, w

\* What MakeRoom decides: the victims are those that are still there and not pinned.
LEMMA MakesRoom ==
  ASSUME TypeOK, NEW t \in Tasks, NEW ledger \in Seq(Models), NEW candidates \in Seq(Models),
         MakeRoom(t, ledger, candidates)
  PROVE  LET L == ToSet(candidates) \cap (ToSet(ledger) \ pinned) IN
         /\ pc' \in [Tasks -> {"idle", "lock", "unload", "load", "use"}]
         /\ victims' \in [Tasks -> Seq(Models)]
         /\ \A u \in Tasks : u # t => pc'[u] = pc[u] /\ victims'[u] = victims[u]
         /\ \/ pc'[t] = "load" /\ (Fits(ToSet(ledger), want[t]) \/ L = {})
            \/ pc'[t] = "unload" /\ victims'[t] # <<>> /\ ToSet(victims'[t]) = L
<1> DEFINE L == ToSet(candidates) \cap (ToSet(ledger) \ pinned)
           live == Kept(candidates, ToSet(ledger) \ pinned)
<1>1. live \in Seq(Models) /\ ToSet(live) = L
  <2>1. live \in Seq(Models \cap (ToSet(ledger) \ pinned))
    BY KeptType
  <2>2. live \in Seq(Models)
    BY <2>1, SeqMonotonic, Models \cap (ToSet(ledger) \ pinned) \subseteq Models
  <2>3. ToSet(live) = L
    BY SetKept
  <2> QED BY <2>2, <2>3
<1>2. \/ /\ Fits(ToSet(ledger), want[t]) \/ live = <<>>
         /\ pc' = [pc EXCEPT ![t] = "load"] /\ victims' = [victims EXCEPT ![t] = <<>>]
      \/ /\ live # <<>>
         /\ pc' = [pc EXCEPT ![t] = "unload"] /\ victims' = [victims EXCEPT ![t] = live]
  BY DEF MakeRoom, Go
<1>3. live = <<>> => L = {}
  BY <1>1 DEF ToSet
<1> HIDE DEF L, live
<1>4. CASE /\ Fits(ToSet(ledger), want[t]) \/ live = <<>>
           /\ pc' = [pc EXCEPT ![t] = "load"] /\ victims' = [victims EXCEPT ![t] = <<>>]
  <2>1. victims' \in [Tasks -> Seq(Models)]
    BY <1>4 DEF TypeOK
  <2>2. pc' \in [Tasks -> {"idle", "lock", "unload", "load", "use"}] /\ pc'[t] = "load"
    BY <1>4 DEF TypeOK
  <2>3. \A u \in Tasks : u # t => pc'[u] = pc[u] /\ victims'[u] = victims[u]
    BY <1>4 DEF TypeOK
  <2> QED BY <1>3, <1>4, <2>1, <2>2, <2>3 DEF L
<1>5. CASE /\ live # <<>>
           /\ pc' = [pc EXCEPT ![t] = "unload"] /\ victims' = [victims EXCEPT ![t] = live]
  <2>1. victims' \in [Tasks -> Seq(Models)] /\ victims'[t] = live
    BY <1>1, <1>5 DEF TypeOK
  <2>2. pc' \in [Tasks -> {"idle", "lock", "unload", "load", "use"}] /\ pc'[t] = "unload"
    BY <1>5 DEF TypeOK
  <2>3. \A u \in Tasks : u # t => pc'[u] = pc[u] /\ victims'[u] = victims[u]
    BY <1>5 DEF TypeOK
  <2> QED BY <1>1, <1>5, <2>1, <2>2, <2>3 DEF L
<1> QED BY <1>2, <1>4, <1>5

-----------------------------------------------------------------------------
(***************************************************************************)
(* It is kept by every step, a reconciliation included.                    *)
(***************************************************************************)

\* After warm_pinned the ledger is sound.
LEMMA SoundAtFirst == Init => Sound
<1> SUFFICES ASSUME Init PROVE Sound
  OBVIOUS
<1>1. IsFiniteSet(Pinned) /\ AnyModel \in Models /\ Pinned \subseteq Models
  BY ManifestAssumption, FS_Subset DEF AnyModel
<1>2. entries \in Seq(Pinned) /\ IsInjective(entries) /\ ToSet(entries) = Pinned
  BY <1>1, Enumeration DEF Init
<1>3. entries \in Seq(Models)
  BY <1>1, <1>2, SeqMonotonic
<1>4. want \in [Tasks -> Models]
  BY <1>1 DEF Init, AnyModel
<1>5. victims \in [Tasks -> Seq(Models)] /\ pinned \subseteq ToSet(entries)
  BY <1>2 DEF Init
<1>6. loaded \subseteq {Weights[m] : m \in Models}
  BY <1>1 DEF Init
<1>8. /\ pc \in [Tasks -> {"idle", "lock", "unload", "load", "use"}]
      /\ retried \in [Tasks -> BOOLEAN] /\ lock = NoTask
  BY DEF Init
<1>9. syncing = FALSE /\ synced = FALSE /\ syncs = 0 /\ unpolled = {} /\ reported = {}
  BY DEF Init
<1>10. syncs \in 0..MaxSyncs
  BY <1>9, ManifestAssumption
<1>7. TypeOK
  BY <1>2, <1>3, <1>4, <1>5, <1>6, <1>8, <1>9, <1>10 DEF TypeOK
<1> QED BY <1>7 DEF Init, Sound, LargeWaits, HasVictim, OneActivation

\* Touching a model leaves the other entries.
LEMMA TouchIs ==
  ASSUME TypeOK, NEW m \in Models, Touch(m)
  PROVE  entries' \in Seq(Models) /\ IsInjective(entries)' /\ ToSet(entries)' = ToSet(entries) \cup {m}
BY UsedIs DEF TypeOK, Touch

\* Asking for a model keeps the ledger sound.
LEMMA RequestSound ==
  ASSUME Sound, NEW t \in Tasks, NEW m \in Models, Request(t, m)
  PROVE  Sound'
<1> USE DEF Sound, TypeOK, LargeWaits, HasVictim, OneActivation
<1>0. UNCHANGED <<pinned, loaded, lock, victims, retried, sync>> /\ want' = [want EXCEPT ![t] = m]
  BY DEF Request
<1>1. CASE Resident(m)
  <2>1. pc' = [pc EXCEPT ![t] = "use"] /\ Touch(m)
    BY <1>1 DEF Request, Acquire, Go
  <2>2. entries' \in Seq(Models) /\ IsInjective(entries)' /\ ToSet(entries)' = ToSet(entries) \cup {m}
    BY <2>1, TouchIs
  <2>3. TypeOK'
    BY <1>0, <2>1, <2>2 DEF sync
  <2> QED BY <1>0, <2>1, <2>3
<1>2. CASE ~Resident(m)
  <2>1. pc' = [pc EXCEPT ![t] = IF Small(m) THEN "load" ELSE "lock"] /\ UNCHANGED entries
    BY <1>2 DEF Request, Acquire, Go
  <2>2. TypeOK'
    BY <1>0, <2>1 DEF sync
  <2> QED BY <1>0, <2>1, <2>2
<1> QED BY <1>1, <1>2

\* Taking _activation_lock does: it was free, so nobody else had it.
LEMMA TakeLockSound ==
  ASSUME Sound, NEW t \in Tasks, TakeLock(t)
  PROVE  Sound'
<1> USE DEF Sound, TypeOK, LargeWaits, HasVictim, OneActivation
<1>0. pc[t] = "lock" /\ lock = NoTask /\ UNCHANGED <<pinned, loaded, want, retried, sync>>
  BY DEF TakeLock
<1>1. CASE Resident(want[t]) /\ Go(t, "use") /\ Touch(want[t]) /\ UNCHANGED <<lock, victims>>
  <2>1. entries' \in Seq(Models) /\ IsInjective(entries)' /\ ToSet(entries)' = ToSet(entries) \cup {want[t]}
    BY <1>1, TouchIs
  <2>2. TypeOK'
    BY <1>0, <1>1, <2>1 DEF sync, Go
  <2> QED BY <1>0, <1>1, <2>2 DEF Go
<1>2. CASE /\ lock' = t /\ UNCHANGED entries
           /\ MakeRoom(t, entries, IF AllowSwap THEN entries ELSE <<>>)
  <2> DEFINE c == IF AllowSwap THEN entries ELSE <<>>
  <2>1. c \in Seq(Models)
    OBVIOUS
  <2> HIDE DEF c
  <2>2. MakeRoom(t, entries, c)
    BY <1>2 DEF c
  <2>3. /\ pc' \in [Tasks -> {"idle", "lock", "unload", "load", "use"}]
        /\ victims' \in [Tasks -> Seq(Models)]
        /\ \A u \in Tasks : u # t => pc'[u] = pc[u] /\ victims'[u] = victims[u]
        /\ pc'[t] = "load" \/ (pc'[t] = "unload" /\ victims'[t] # <<>>)
    BY <2>1, <2>2, MakesRoom
  <2>4. TypeOK'
    BY <1>0, <1>2, <2>3 DEF sync
  <2> QED BY <1>0, <1>2, <2>3, <2>4, ManifestAssumption
<1> QED BY <1>1, <1>2 DEF TakeLock

\* Evicting does.
LEMMA EvictSound ==
  ASSUME Sound, NEW t \in Tasks, Evict(t)
  PROVE  Sound'
<1> USE DEF Sound, TypeOK, LargeWaits, HasVictim, OneActivation
<1> DEFINE v == Head(victims[t])
           w == Without(entries, v)
           c == Tail(victims[t])
<1>1. /\ pc[t] = "unload" /\ Unloads(Weights[v]) /\ entries' = w /\ pinned' = pinned \ {v}
      /\ MakeRoom(t, w, c) /\ UNCHANGED <<lock, want, retried, sync>>
  BY DEF Evict
<1>2. v \in Models /\ c \in Seq(Models)
  BY <1>1
<1>3. w \in Seq(Models) /\ IsInjective(w) /\ ToSet(w) = ToSet(entries) \ {v}
  BY <1>2, WithoutIs
<1> HIDE DEF v, w, c
<1>4. /\ pc' \in [Tasks -> {"idle", "lock", "unload", "load", "use"}]
      /\ victims' \in [Tasks -> Seq(Models)]
      /\ \A u \in Tasks : u # t => pc'[u] = pc[u] /\ victims'[u] = victims[u]
      /\ pc'[t] = "load" \/ (pc'[t] = "unload" /\ victims'[t] # <<>>)
  BY <1>1, <1>2, <1>3, MakesRoom
<1>5. TypeOK'
  BY <1>1, <1>3, <1>4 DEF sync, Unloads
<1> QED BY <1>1, <1>4, <1>5

\* Loading does, and gives back only a lock of its own.
LEMMA LoadSound ==
  ASSUME Sound, NEW t \in Tasks, Load(t)
  PROVE  Sound'
<1> USE DEF Sound, TypeOK, LargeWaits, HasVictim, OneActivation
<1>1. entries' \in Seq(Models) /\ IsInjective(entries)' /\ ToSet(entries)' = ToSet(entries) \cup {want[t]}
  BY TouchIs DEF Load
<1>2. pinned' \subseteq ToSet(entries)' /\ pinned' \subseteq Pinned
  BY <1>1 DEF Load
<1>3. TypeOK'
  BY <1>1, <1>2 DEF Load, Loads, Go, sync
<1>4. \A u \in Tasks : u # t => pc'[u] = pc[u] /\ (lock = u => lock' = u)
  BY DEF Load, Go
<1> QED BY <1>2, <1>3, <1>4 DEF Load, Go

\* Using a model does.
LEMMA UseSound ==
  ASSUME Sound, NEW t \in Tasks, Use(t)
  PROVE  Sound'
<1> USE DEF Sound, TypeOK, LargeWaits, HasVictim, OneActivation
<1>1. AnyModel \in Models
  BY ManifestAssumption DEF AnyModel
<1>2. TypeOK'
  BY <1>1 DEF Use, Rest, Go, sync
<1> QED BY <1>2 DEF Use, Rest, Go

\* Finding a model gone does: a large one is waited for again.
LEMMA UnloadedSound ==
  ASSUME Sound, NEW t \in Tasks, UnloadedUnderneath(t)
  PROVE  Sound'
<1> USE DEF Sound, TypeOK, LargeWaits, HasVictim, OneActivation
<1>1. AnyModel \in Models
  BY ManifestAssumption DEF AnyModel
<1>2. /\ Without(entries, want[t]) \in Seq(Models) /\ IsInjective(Without(entries, want[t]))
      /\ ToSet(Without(entries, want[t])) = ToSet(entries) \ {want[t]}
  BY WithoutIs
<1>3. CASE retried[t]
  <2>1. TypeOK'
    BY <1>1, <1>3 DEF UnloadedUnderneath, Rest, Go, sync
  <2> QED BY <1>3, <2>1 DEF UnloadedUnderneath, Rest, Go
<1>4. CASE ~retried[t]
  <2>1. /\ retried' = [retried EXCEPT ![t] = TRUE] /\ pinned' = pinned \ {want[t]}
        /\ entries' = Without(entries, want[t])
        /\ pc' = [pc EXCEPT ![t] = IF Small(want[t]) THEN "load" ELSE "lock"]
        /\ UNCHANGED <<want, loaded, lock, victims, sync>>
    BY <1>4 DEF UnloadedUnderneath, Go
  <2>2. TypeOK'
    BY <1>2, <2>1 DEF sync
  <2> QED BY <2>1, <2>2
<1> QED BY <1>3, <1>4

\* Giving up does: the lock goes to nobody, and who had it has no errand left.
LEMMA TimedOutSound ==
  ASSUME Sound, NEW t \in Tasks, TimedOut(t)
  PROVE  Sound'
<1> USE DEF Sound, TypeOK, LargeWaits, HasVictim, OneActivation
<1>1. AnyModel \in Models /\ <<>> \in Seq(Models)
  BY ManifestAssumption DEF AnyModel
<1>2. /\ UNCHANGED <<entries, pinned, sync>> /\ pc' = [pc EXCEPT ![t] = "idle"]
      /\ want' = [want EXCEPT ![t] = AnyModel] /\ retried' = [retried EXCEPT ![t] = FALSE]
      /\ victims' = [victims EXCEPT ![t] = <<>>]
      /\ lock' = IF lock = t THEN NoTask ELSE lock
  BY DEF TimedOut, Rest, Go
<1>3. loaded' \subseteq loaded \cup {Weights[want[t]]}
  BY DEF TimedOut
<1>4. loaded' \subseteq {Weights[m] : m \in Models}
  BY <1>3
<1>5. TypeOK'
  BY <1>1, <1>2, <1>4 DEF sync
<1> QED BY <1>2, <1>5

\* What a reconciliation leaves and adds.
LEMMA SyncIs ==
  ASSUME TypeOK, SyncApply
  PROVE  LET there == {m \in Models : Weights[m] \in reported}
             answered == {Backend[m] : m \in there}
             gone == {m \in ToSet(entries) : Backend[m] \in answered /\ m \notin there}
         IN  /\ entries' \in Seq(Models) /\ IsInjective(entries)'
             /\ ToSet(entries)' = (ToSet(entries) \ gone) \cup there
             /\ pinned' = pinned \ gone
<1> DEFINE there == {m \in Models : Weights[m] \in reported}
           answered == {Backend[m] : m \in there}
           gone == {m \in ToSet(entries) : Backend[m] \in answered /\ m \notin there}
           more == there \ ToSet(entries)
           K == Kept(entries, Models \ gone)
           N == SetToSeq(more)
<1>1. entries' = K \o N /\ pinned' = pinned \ gone
  BY DEF SyncApply
<1>2. there \subseteq Models /\ gone \cap there = {} /\ gone \subseteq ToSet(entries)
  OBVIOUS
<1>3. entries \in Seq(Models) /\ IsInjective(entries) /\ ToSet(entries) \subseteq Models
  BY SetOfEntries DEF TypeOK
<1> HIDE DEF there, gone
<1>4. K \in Seq(Models) /\ IsInjective(K) /\ ToSet(K) = ToSet(entries) \ gone
  <2>1. K \in Seq(Models \cap (Models \ gone))
    BY <1>3, KeptType
  <2>2. K \in Seq(Models)
    BY <2>1, SeqMonotonic, Models \cap (Models \ gone) \subseteq Models
  <2>3. IsInjective(K)
    BY <1>3, InjectiveKept
  <2>4. ToSet(K) = ToSet(entries) \cap (Models \ gone)
    BY <1>3, SetKept
  <2> QED BY <1>3, <2>2, <2>3, <2>4
<1>5. N \in Seq(Models) /\ IsInjective(N) /\ ToSet(N) = more
  <2>1. IsFiniteSet(more)
    BY <1>2, ManifestAssumption, FS_Subset
  <2>2. N \in Seq(more) /\ IsInjective(N) /\ ToSet(N) = more
    BY <2>1, Enumeration
  <2> QED BY <1>2, <2>2, SeqMonotonic
<1> HIDE DEF K, N
<1>6. K \o N \in Seq(Models)
  BY <1>4, <1>5
<1>7. IsInjective(K \o N) /\ ToSet(K \o N) = ToSet(K) \cup ToSet(N)
  <2>1. ToSet(K) \cap ToSet(N) = {}
    BY <1>4, <1>5
  <2> QED BY <1>4, <1>5, <2>1, SetConcat
<1>8. ToSet(K \o N) = (ToSet(entries) \ gone) \cup there
  BY <1>2, <1>4, <1>5, <1>7
<1> QED BY <1>1, <1>6, <1>7, <1>8 DEF there, gone

\* A reconciliation does.
LEMMA SyncSound ==
  ASSUME Sound, SyncApply
  PROVE  Sound'
<1> USE DEF Sound, TypeOK, LargeWaits, HasVictim, OneActivation
<1>1. entries' \in Seq(Models) /\ IsInjective(entries)' /\ pinned' \subseteq ToSet(entries)'
      /\ pinned' \subseteq pinned
  BY SyncIs
<1>2. TypeOK'
  BY <1>1 DEF SyncApply, tasks
<1> QED BY <1>1, <1>2 DEF SyncApply, tasks

\* Every step does.
LEMMA SoundStep == Sound /\ [Next]_vars => Sound'
<1> SUFFICES ASSUME Sound, [Next]_vars PROVE Sound'
  OBVIOUS
<1> USE DEF Sound, TypeOK, LargeWaits, HasVictim, OneActivation
<1>1. ASSUME NEW t \in Tasks, NEW m \in Models, Request(t, m) PROVE Sound'
  BY <1>1, RequestSound
<1>2. ASSUME NEW t \in Tasks, Step(t) PROVE Sound'
  BY <1>2, TakeLockSound, EvictSound, LoadSound, UseSound, UnloadedSound,
     TimedOutSound DEF Step
<1>3. ASSUME NEW w \in loaded, IdleUnload(w) PROVE Sound'
  <2>1. TypeOK'
    BY <1>3 DEF IdleUnload, tasks, sync
  <2> QED BY <1>3, <2>1 DEF IdleUnload, tasks, sync
<1>4. CASE SyncBegin
  <2>0. MaxSyncs \in Nat
    BY ManifestAssumption
  <2>1. syncs' \in 0..MaxSyncs
    BY <1>4, <2>0 DEF SyncBegin
  <2>2. TypeOK'
    BY <1>4, <2>1 DEF SyncBegin, tasks
  <2> QED BY <1>4, <2>2 DEF SyncBegin, tasks
<1>5. CASE SyncApply
  BY <1>5, SyncSound
<1>6. ASSUME NEW b \in Backends, SyncPoll(b) PROVE Sound'
  BY <1>6 DEF SyncPoll, tasks
<1>7. CASE UNCHANGED vars
  BY <1>7 DEF vars, tasks, sync
<1> QED BY <1>1, <1>2, <1>3, <1>4, <1>5, <1>6, <1>7 DEF Next

-----------------------------------------------------------------------------
(***************************************************************************)
(* What each step does to the ledger, seen as a set.                       *)
(***************************************************************************)

\* The names in the ledger, in no order.
E == ToSet(entries)

\* Where a task makes room or loads.
Busy == {"unload", "load"}

\* A step of t leaves what the other tasks are at.
Others(t) == \A u \in Tasks : u # t => pc'[u] = pc[u] /\ want'[u] = want[u] /\ victims'[u] = victims[u]

\* Asking for a model adds and removes nothing; only a small one is loaded at once.
LEMMA RequestDoes ==
  ASSUME Sound, NEW t \in Tasks, NEW m \in Models, Request(t, m)
  PROVE  /\ Others(t) /\ UNCHANGED <<pinned, synced>> /\ E' = E
         /\ pc'[t] \in {"use", "lock", "load"}
         /\ pc'[t] = "load" => Small(want'[t])
<1>0. TypeOK /\ UNCHANGED <<pinned, victims, synced>> /\ want' = [want EXCEPT ![t] = m]
  BY DEF Request, sync, Sound
<1>1. CASE Resident(m)
  <2>1. pc' = [pc EXCEPT ![t] = "use"] /\ Touch(m)
    BY <1>1 DEF Request, Acquire, Go
  <2>2. E' = E
    BY <1>0, <1>1, <2>1, TouchIs, ResidentIs DEF E
  <2> QED BY <1>0, <2>1, <2>2 DEF TypeOK, Others
<1>2. CASE ~Resident(m)
  BY <1>0, <1>2 DEF Request, Acquire, Go, TypeOK, E, Others
<1> QED BY <1>1, <1>2

\* Who gets the lock finds the model there, room for it, or what it may evict.
LEMMA TakeLockDoes ==
  ASSUME Sound, NEW t \in Tasks, TakeLock(t)
  PROVE  /\ lock = NoTask
         /\ Others(t) /\ UNCHANGED <<pinned, synced, want>> /\ E' = E
         /\ \/ pc'[t] = "use"
            \/ /\ pc'[t] = "load" /\ want[t] \notin E
               /\ AllowSwap => Fits(E, want[t]) \/ E \ pinned = {}
            \/ /\ pc'[t] = "unload" /\ want[t] \notin E /\ victims'[t] \in Seq(Models)
               /\ ToSet(victims'[t]) \subseteq E \ pinned
               /\ AllowSwap => ToSet(victims'[t]) = E \ pinned
<1> USE DEF Sound
<1>0. pc[t] = "lock" /\ lock = NoTask /\ UNCHANGED <<pinned, synced, want>>
  BY DEF TakeLock, sync
<1>1. CASE Resident(want[t]) /\ Go(t, "use") /\ Touch(want[t]) /\ UNCHANGED <<lock, victims>>
  <2>1. want[t] \in Models
    BY DEF TypeOK
  <2>2. ToSet(entries)' = ToSet(entries) \cup {want[t]}
    BY <1>1, <2>1, TouchIs
  <2>3. E' = E
    BY <1>1, <2>2, ResidentIs DEF E
  <2>4. Others(t) /\ pc'[t] = "use"
    BY <1>0, <1>1 DEF TypeOK, Go, Others
  <2> QED BY <1>0, <2>3, <2>4
<1>2. CASE /\ ~Resident(want[t]) /\ lock' = t /\ UNCHANGED entries
           /\ MakeRoom(t, entries, IF AllowSwap THEN entries ELSE <<>>)
  <2> DEFINE c == IF AllowSwap THEN entries ELSE <<>>
  <2>1. c \in Seq(Models) /\ entries \in Seq(Models)
    BY DEF TypeOK
  <2>4. IF AllowSwap THEN ToSet(c) = E ELSE ToSet(c) = {}
    BY DEF E, ToSet
  <2> HIDE DEF c
  <2>2. MakeRoom(t, entries, c)
    BY <1>2 DEF c
  <2> DEFINE L == ToSet(c) \cap (E \ pinned)
  <2>3. /\ victims' \in [Tasks -> Seq(Models)]
        /\ \A u \in Tasks : u # t => pc'[u] = pc[u] /\ victims'[u] = victims[u]
        /\ \/ pc'[t] = "load" /\ (Fits(E, want[t]) \/ L = {})
           \/ pc'[t] = "unload" /\ victims'[t] # <<>> /\ ToSet(victims'[t]) = L
    BY <2>1, <2>2, MakesRoom DEF E
  <2>5. L \subseteq E \ pinned /\ (AllowSwap => L = E \ pinned)
    BY <2>4
  <2>6. want[t] \notin E /\ E' = E
    BY <1>2, ResidentIs DEF E
  <2>7. victims'[t] \in Seq(Models)
    BY <2>3
  <2> HIDE DEF L
  <2>8. Others(t)
    BY <1>0, <2>3 DEF Others
  <2> QED BY <1>0, <2>3, <2>5, <2>6, <2>7, <2>8
<1> QED BY <1>1, <1>2 DEF TakeLock

\* An eviction takes one name away, which is not pinned, and looks again.
LEMMA EvictDoes ==
  ASSUME Sound, NEW t \in Tasks, Evict(t)
  PROVE  LET v == Head(victims[t]) IN
         /\ pc[t] = "unload" /\ v \in ToSet(victims[t])
         /\ Others(t) /\ UNCHANGED <<synced, want>> /\ E' = E \ {v} /\ pinned' = pinned \ {v}
         /\ \/ /\ pc'[t] = "load"
               /\ Fits(E', want[t]) \/ (ToSet(victims[t]) \cap E') \ pinned \subseteq {v}
            \/ /\ pc'[t] = "unload" /\ victims'[t] \in Seq(Models)
               /\ ToSet(victims'[t]) \subseteq ToSet(victims[t]) \ pinned
               /\ (ToSet(victims[t]) \cap E') \ pinned \subseteq ToSet(victims'[t]) \cup {v}
<1> DEFINE v == Head(victims[t])
           w == Without(entries, v)
           c == Tail(victims[t])
           W == ToSet(w)
           L == ToSet(c) \cap (W \ pinned)
<1>1. /\ pc[t] = "unload" /\ entries' = w /\ pinned' = pinned \ {v}
      /\ MakeRoom(t, w, c) /\ UNCHANGED <<want, synced>>
  BY DEF Evict, sync
<1>2. victims[t] \in Seq(Models) /\ victims[t] # <<>> /\ v \in Models /\ c \in Seq(Models)
  BY <1>1 DEF Sound, TypeOK, HasVictim
<1>3. w \in Seq(Models) /\ IsInjective(w) /\ ToSet(w) = ToSet(entries) \ {v}
  BY <1>2, WithoutIs DEF Sound, TypeOK
<1>4. v \in ToSet(victims[t]) /\ ToSet(c) \subseteq ToSet(victims[t])
      /\ ToSet(victims[t]) \subseteq ToSet(c) \cup {v}
  <2> DEFINE s == victims[t]
  <2>1. Len(s) \in Nat /\ Len(s) > 0 /\ Len(c) = Len(s) - 1 /\ \A i \in 1..Len(c) : c[i] = s[i+1]
    BY <1>2
  <2>2. ToSet(s) = {s[i] : i \in 1..Len(s)} /\ ToSet(c) = {c[i] : i \in 1..Len(c)}
    <3>1. DOMAIN s = 1..Len(s) /\ DOMAIN c = 1..Len(c)
      BY <1>2
    <3> HIDE DEF s, c
    <3> QED BY <3>1 DEF ToSet
  <2>3. v = s[1]
    BY <1>2
  <2> HIDE DEF s, v, c
  <2>4. v \in ToSet(s)
    BY <2>1, <2>2, <2>3
  <2>5. ToSet(c) \subseteq ToSet(s)
    BY <2>1, <2>2
  <2>6. ASSUME NEW i \in 1..Len(s), i # 1 PROVE s[i] \in ToSet(c)
    <3>1. i - 1 \in 1..Len(c) /\ (i - 1) + 1 = i
      BY <2>1, <2>6
    <3> QED BY <2>1, <2>2, <3>1
  <2> QED BY <2>2, <2>3, <2>4, <2>5, <2>6 DEF s
<1> HIDE DEF v, w, c
<1>5. /\ victims' \in [Tasks -> Seq(Models)]
      /\ \A u \in Tasks : u # t => pc'[u] = pc[u] /\ victims'[u] = victims[u]
      /\ \/ pc'[t] = "load" /\ (Fits(W, want[t]) \/ L = {})
         \/ pc'[t] = "unload" /\ victims'[t] # <<>> /\ ToSet(victims'[t]) = L
  BY <1>1, <1>2, <1>3, MakesRoom DEF Sound
<1>6. E' = W /\ W = E \ {v}
  BY <1>1, <1>3 DEF E
<1>7. Others(t) /\ victims'[t] \in Seq(Models)
  BY <1>1, <1>5 DEF Others
<1>8. L \subseteq ToSet(victims[t]) \ pinned /\ (ToSet(victims[t]) \cap W) \ pinned \subseteq L \cup {v}
  BY <1>4, <1>6
<1> HIDE DEF W, L
<1>9. \/ /\ pc'[t] = "load"
         /\ Fits(E', want[t]) \/ (ToSet(victims[t]) \cap E') \ pinned \subseteq {v}
      \/ /\ pc'[t] = "unload" /\ victims'[t] \in Seq(Models)
         /\ ToSet(victims'[t]) \subseteq ToSet(victims[t]) \ pinned
         /\ (ToSet(victims[t]) \cap E') \ pinned \subseteq ToSet(victims'[t]) \cup {v}
  <2>1. CASE pc'[t] = "load" /\ (Fits(W, want[t]) \/ L = {})
    BY <1>6, <1>8, <2>1
  <2>2. CASE pc'[t] = "unload" /\ victims'[t] # <<>> /\ ToSet(victims'[t]) = L
    BY <1>6, <1>7, <1>8, <2>2
  <2> QED BY <1>5, <2>1, <2>2
<1> QED BY <1>1, <1>4, <1>6, <1>7, <1>9 DEF v

\* A load records the model, and pins it if the manifest says so.
LEMMA LoadDoes ==
  ASSUME Sound, NEW t \in Tasks, Load(t)
  PROVE  /\ pc[t] = "load" /\ want[t] \in Models
         /\ Others(t) /\ UNCHANGED <<synced, want>> /\ E' = E \cup {want[t]}
         /\ pinned' = IF want[t] \notin E /\ want[t] \in Pinned THEN pinned \cup {want[t]} ELSE pinned
         /\ pc'[t] = "use"
<1>1. TypeOK /\ want[t] \in Models
  BY DEF Sound, TypeOK
<1>2. E' = E \cup {want[t]}
  BY <1>1, TouchIs DEF E, Load
<1>3. Resident(want[t]) <=> want[t] \in E
  BY <1>1, ResidentIs DEF E
<1> QED BY <1>1, <1>2, <1>3 DEF Load, Go, Others, TypeOK, sync

\* A model found gone is forgotten or left alone.
LEMMA UnloadedDoes ==
  ASSUME Sound, NEW t \in Tasks, UnloadedUnderneath(t)
  PROVE  /\ Others(t) /\ UNCHANGED synced
         /\ \/ E' = E /\ pinned' = pinned
            \/ E' = E \ {want[t]} /\ pinned' = pinned \ {want[t]}
         /\ pc'[t] \in {"idle", "load", "lock"} /\ (pc'[t] = "load" => Small(want'[t]))
<1>1. TypeOK /\ want[t] \in Models
  BY DEF Sound, TypeOK
<1>2. ToSet(Without(entries, want[t])) = ToSet(entries) \ {want[t]}
  BY <1>1, WithoutIs DEF TypeOK
<1>3. CASE retried[t]
  BY <1>1, <1>3 DEF UnloadedUnderneath, Rest, Go, sync, TypeOK, E, Others
<1>4. CASE ~retried[t]
  <2>1. /\ pinned' = pinned \ {want[t]} /\ entries' = Without(entries, want[t])
        /\ pc' = [pc EXCEPT ![t] = IF Small(want[t]) THEN "load" ELSE "lock"]
        /\ UNCHANGED <<want, victims, synced>>
    BY <1>4 DEF UnloadedUnderneath, Go, sync
  <2>2. E' = E \ {want[t]}
    BY <1>2, <2>1 DEF E
  <2> QED BY <1>1, <2>1, <2>2 DEF TypeOK, Others
<1> QED BY <1>3, <1>4

\* Who gives up leaves the ledger as it is, and has no errand.
LEMMA TimedOutDoes ==
  ASSUME Sound, NEW t \in Tasks, TimedOut(t)
  PROVE  /\ Others(t) /\ UNCHANGED <<entries, pinned, synced>> /\ pc'[t] = "idle"
<1>1. /\ UNCHANGED <<entries, pinned, sync>> /\ pc' = [pc EXCEPT ![t] = "idle"]
      /\ want' = [want EXCEPT ![t] = AnyModel]
      /\ victims' = [victims EXCEPT ![t] = <<>>]
  BY DEF TimedOut, Rest, Go
<1> QED BY <1>1 DEF sync, Others, Sound, TypeOK

\* A reconciliation that has changed nothing yet has changed nothing at all.
LEMMA SyncDoes ==
  ASSUME Sound, SyncApply, ~synced'
  PROVE  ~synced /\ UNCHANGED <<pc, want, victims, pinned>> /\ E' = E
<1> DEFINE there == {m \in Models : Weights[m] \in reported}
           answered == {Backend[m] : m \in there}
           gone == {m \in ToSet(entries) : Backend[m] \in answered /\ m \notin there}
<1>1. ~synced /\ entries' = entries /\ UNCHANGED <<pc, want, victims>>
  BY DEF SyncApply, tasks
<1>2. ToSet(entries)' = (ToSet(entries) \ gone) \cup there /\ pinned' = pinned \ gone
  BY SyncIs DEF Sound
<1>3. gone \cap there = {} /\ gone \subseteq ToSet(entries)
  OBVIOUS
<1> HIDE DEF there, gone
<1>4. E' = E /\ gone = {}
  BY <1>1, <1>2, <1>3 DEF E
<1> QED BY <1>1, <1>2, <1>4

-----------------------------------------------------------------------------
(***************************************************************************)
(* Part two: nothing is loaded twice, nothing pinned goes.                 *)
(***************************************************************************)

\* No name is loaded twice and none that is pinned goes, until a reconciliation.
Ordered ==
    ~synced =>
        /\ E \cap Pinned \subseteq pinned
        /\ \A t \in Tasks : pc[t] = "unload" => ToSet(victims[t]) \cap Pinned = {}
        /\ \A t \in Tasks : pc[t] \in Busy /\ ~Small(want[t]) => want[t] \notin E

\* Only one task at a time needs room, so nobody can spend the room it makes.
LEMMA OneAtATime ==
  ASSUME Sound, NEW t \in Tasks, NEW u \in Tasks,
         pc[t] \in Busy /\ ~Small(want[t]), pc[u] \in Busy /\ ~Small(want[u])
  PROVE  t = u
BY DEF Sound, OneActivation, Busy

\* Nobody is at it while the lock is free.
LEMMA NobodyElse ==
  ASSUME Sound, NEW t \in Tasks, lock = NoTask
  PROVE  ~(pc[t] \in Busy /\ ~Small(want[t]))
<1>1. lock # t
  BY ManifestAssumption
<1> QED BY <1>1 DEF Sound, OneActivation, Busy

\* What warm_pinned loads is in order.
LEMMA OrderedAtFirst == Init => Ordered
<1> SUFFICES ASSUME Init PROVE Ordered
  OBVIOUS
<1>1. IsFiniteSet(Pinned)
  BY ManifestAssumption, FS_Subset
<1>2. E = Pinned
  BY <1>1, Enumeration DEF Init, E
<1> QED BY <1>2 DEF Init, Ordered, Busy

\* Asking for a model keeps the order.
LEMMA RequestOrdered ==
  ASSUME Sound, Ordered, NEW t \in Tasks, NEW m \in Models, Request(t, m)
  PROVE  Ordered'
<1>1. /\ Others(t) /\ UNCHANGED <<pinned, synced>> /\ E' = E
      /\ pc'[t] \in {"use", "lock", "load"}
      /\ pc'[t] = "load" => Small(want'[t])
  BY RequestDoes
<1> HIDE DEF Request
<1> QED BY <1>1 DEF Ordered, Others, Busy, Small

\* Taking the lock does, because it looks at the ledger again.
LEMMA TakeLockOrdered ==
  ASSUME Sound, Ordered, NEW t \in Tasks, TakeLock(t)
  PROVE  Ordered'
<1>1. /\ lock = NoTask /\ Others(t) /\ UNCHANGED <<pinned, synced, want>> /\ E' = E
      /\ \/ pc'[t] = "use"
         \/ pc'[t] = "load" /\ want[t] \notin E
         \/ pc'[t] = "unload" /\ want[t] \notin E /\ ToSet(victims'[t]) \subseteq E \ pinned
  BY TakeLockDoes
<1> QED BY <1>1 DEF Ordered, Others, Busy, Small

\* Evicting does: pinned names are not among the victims.
LEMMA EvictOrdered ==
  ASSUME Sound, Ordered, NEW t \in Tasks, Evict(t)
  PROVE  Ordered'
<1> DEFINE v == Head(victims[t])
<1>1. /\ pc[t] = "unload" /\ v \in ToSet(victims[t])
      /\ Others(t) /\ UNCHANGED <<synced, want>> /\ E' = E \ {v} /\ pinned' = pinned \ {v}
      /\ pc'[t] = "load" \/ (pc'[t] = "unload" /\ ToSet(victims'[t]) \subseteq ToSet(victims[t]))
  BY EvictDoes
<1> HIDE DEF v
<1> QED BY <1>1 DEF Ordered, Others, Busy, Small

\* Loading does: nobody else is loading a large model.
LEMMA LoadOrdered ==
  ASSUME Sound, Ordered, NEW t \in Tasks, Load(t)
  PROVE  Ordered'
<1>1. /\ pc[t] = "load" /\ want[t] \in Models
      /\ Others(t) /\ UNCHANGED <<synced, want>> /\ E' = E \cup {want[t]}
      /\ pinned' = IF want[t] \notin E /\ want[t] \in Pinned THEN pinned \cup {want[t]} ELSE pinned
      /\ pc'[t] = "use"
  BY LoadDoes
<1>2. ASSUME ~synced', NEW u \in Tasks, pc'[u] \in Busy /\ ~Small(want'[u])
      PROVE  want'[u] \notin E'
  <2>1. u # t /\ pc[u] \in Busy /\ ~Small(want[u]) /\ want'[u] = want[u]
    BY <1>1, <1>2 DEF Others, Busy
  <2>2. want[u] \notin E
    BY <1>1, <1>2, <2>1 DEF Ordered
  <2>3. Small(want[t])
    BY <1>1, <2>1, OneAtATime DEF Busy
  <2> QED BY <1>1, <2>1, <2>2, <2>3
<1>3. ~synced' => E' \cap Pinned \subseteq pinned'
  BY <1>1 DEF Ordered
<1>4. ASSUME ~synced', NEW u \in Tasks, pc'[u] = "unload"
      PROVE  ToSet(victims'[u]) \cap Pinned = {}
  BY <1>1, <1>4 DEF Ordered, Others
<1> QED BY <1>2, <1>3, <1>4 DEF Ordered, Small

\* Finding a model gone does.
LEMMA UnloadedOrdered ==
  ASSUME Sound, Ordered, NEW t \in Tasks, UnloadedUnderneath(t)
  PROVE  Ordered'
<1>1. /\ Others(t) /\ UNCHANGED synced
      /\ \/ E' = E /\ pinned' = pinned
         \/ E' = E \ {want[t]} /\ pinned' = pinned \ {want[t]}
      /\ pc'[t] \in {"idle", "load", "lock"} /\ (pc'[t] = "load" => Small(want'[t]))
  BY UnloadedDoes
<1> QED BY <1>1 DEF Ordered, Others, Busy, Small

\* Every step that leaves the ledger and the tasks' errands alone.
LEMMA QuietOrdered ==
  ASSUME Ordered, UNCHANGED <<entries, pinned, pc, want, victims, synced>>
  PROVE  Ordered'
BY DEF Ordered, E, Busy, Small

\* Every step does, a reconciliation that finds something different excepted.
LEMMA OrderedStep == Sound /\ Ordered /\ [Next]_vars => Ordered'
<1> SUFFICES ASSUME Sound, Ordered, [Next]_vars PROVE Ordered'
  OBVIOUS
<1>1. ASSUME NEW t \in Tasks, NEW m \in Models, Request(t, m) PROVE Ordered'
  BY <1>1, RequestOrdered
<1>2. ASSUME NEW t \in Tasks, Step(t) PROVE Ordered'
  <2>1. CASE Use(t)
    <3>1. /\ UNCHANGED <<entries, pinned, victims, synced>>
          /\ pc' = [pc EXCEPT ![t] = "idle"] /\ want' = [want EXCEPT ![t] = AnyModel]
      BY <2>1 DEF Use, Rest, Go, sync
    <3>2. /\ Others(t) /\ E' = E /\ pc'[t] = "idle"
      BY <3>1 DEF Others, E, Sound, TypeOK
    <3> QED BY <3>1, <3>2 DEF Ordered, Others, Busy, Small
  <2>2. CASE TimedOut(t)
    <3>1. Others(t) /\ UNCHANGED <<pinned, synced>> /\ E' = E /\ pc'[t] = "idle"
      BY <2>2, TimedOutDoes DEF E
    <3> QED BY <3>1 DEF Ordered, Others, Busy, Small
  <2> QED BY <1>2, <2>1, <2>2, TakeLockOrdered, EvictOrdered, LoadOrdered, UnloadedOrdered DEF Step
<1>3. ASSUME NEW w \in loaded, IdleUnload(w) PROVE Ordered'
  BY <1>3, QuietOrdered DEF IdleUnload, tasks, sync
<1>4. CASE SyncBegin
  BY <1>4, QuietOrdered DEF SyncBegin, tasks
<1>5. CASE SyncApply
  <2> SUFFICES ASSUME ~synced' PROVE Ordered'
    BY DEF Ordered
  <2>1. ~synced /\ UNCHANGED <<pc, want, victims, pinned>> /\ E' = E
    BY <1>5, SyncDoes
  <2> QED BY <2>1 DEF Ordered, Busy, Small
<1>6. ASSUME NEW b \in Backends, SyncPoll(b) PROVE Ordered'
  BY <1>6, QuietOrdered DEF SyncPoll, tasks
<1>7. CASE UNCHANGED vars
  BY <1>7, QuietOrdered DEF vars, tasks, sync
<1> QED BY <1>1, <1>2, <1>3, <1>4, <1>5, <1>6, <1>7 DEF Next

-----------------------------------------------------------------------------
(***************************************************************************)
(* Part three: the budget.                                                 *)
(***************************************************************************)

\* The large models in the ledger.
Heavy == E \cap Large

\* While a large model is on its way in, there is room for it or enough left to evict.
Budget ==
    ~synced =>
        /\ ResidentGB(Heavy) <= MaxResident
        /\ \A t \in Tasks : pc[t] = "unload" => Heavy \ pinned \subseteq ToSet(victims[t])
        /\ \A t \in Tasks : pc[t] = "load" /\ ~Small(want[t]) =>
              ResidentGB(Heavy \cup {want[t]}) <= MaxResident

\* They are names of the manifest.
LEMMA HeavyIs == Sound => Heavy \subseteq E /\ E \subseteq Models /\ Large \subseteq Models
BY SetOfEntries DEF Sound, TypeOK, Heavy, E, Large

\* A ledger in which the large model fits, and one in which only pinned names are left.
LEMMA FitsIsRoom ==
  ASSUME NEW S \in SUBSET Models, NEW m \in Models, Fits(S, m)
  PROVE  ResidentGB((S \cap Large) \cup {m}) <= MaxResident
<1> DEFINE H == (S \cap Large) \cup {m}
           G == S \cup {m}
<1>1. G \in SUBSET Models /\ H \in SUBSET G
  OBVIOUS
<1>2. ResidentGB(H) \in Nat /\ ResidentGB(G) \in Nat /\ ResidentGB(H) <= ResidentGB(G)
  BY <1>1, ResidentMonotonic
<1>3. ResidentGB(G) <= ResidentGB(S) + Size[m]
  BY ResidentPlusOne
<1>4. ResidentGB(S) \in Nat /\ S \in SUBSET S
  BY ResidentMonotonic
<1>5. Size[m] \in Nat /\ MaxResident \in Nat
  BY ManifestAssumption
<1> HIDE DEF H, G
<1>6. ResidentGB(H) <= MaxResident
  BY <1>2, <1>3, <1>4, <1>5 DEF Fits
<1> QED BY <1>6 DEF H

\* Fewer models fit where more did.
LEMMA SubsetIsRoom ==
  ASSUME NEW S \in SUBSET Models, NEW T \in SUBSET S, ResidentGB(S) <= MaxResident
  PROVE  ResidentGB(T) <= MaxResident
<1>1. ResidentGB(T) \in Nat /\ ResidentGB(S) \in Nat /\ ResidentGB(T) <= ResidentGB(S)
  BY ResidentMonotonic
<1>2. MaxResident \in Nat
  BY ManifestAssumption
<1> QED BY <1>1, <1>2

\* Any large model fits beside whatever large ones are pinned.
LEMMA PinnedIsRoom ==
  ASSUME ManifestFits, NEW m \in Large, NEW S \in SUBSET (Pinned \cap Large)
  PROVE  ResidentGB(S \cup {m}) <= MaxResident
<1> DEFINE P == (Pinned \cap Large) \cup {m}
           Q == S \cup {m}
<1>1. P \in SUBSET Models /\ Q \in SUBSET P /\ ResidentGB(P) <= MaxResident
  BY DEF ManifestFits, Large
<1> HIDE DEF P, Q
<1>2. ResidentGB(Q) <= MaxResident
  BY <1>1, SubsetIsRoom
<1> QED BY <1>2 DEF Q

\* What is pinned fits.
LEMMA BudgetAtFirst == ManifestFits /\ Init => Budget
<1> SUFFICES ASSUME ManifestFits, Init PROVE Budget
  OBVIOUS
<1>1. E = Pinned
  <2>1. IsFiniteSet(Pinned)
    BY ManifestAssumption, FS_Subset
  <2> QED BY <2>1, Enumeration DEF Init, E
<1>2. Heavy = Pinned \cap Large
  BY <1>1 DEF Heavy
<1>3. ResidentGB(Heavy) <= MaxResident
  <2>1. CASE Large = {}
    <3>1. UNION {Units(m) : m \in Heavy} = {}
      BY <1>2, <2>1
    <3>2. ResidentGB(Heavy) = 0
      BY <3>1, FS_EmptySet DEF ResidentGB
    <3> QED BY <3>2, ManifestAssumption
  <2>2. CASE Large # {}
    <3>1. PICK m \in Large : TRUE
      BY <2>2
    <3>2. ResidentGB(Heavy \cup {m}) <= MaxResident
      BY <1>2, <3>1, PinnedIsRoom
    <3>3. Heavy \cup {m} \in SUBSET Models /\ Heavy \in SUBSET (Heavy \cup {m})
      BY <3>1 DEF Heavy, Large
    <3> QED BY <3>2, <3>3, SubsetIsRoom
  <2> QED BY <2>1, <2>2
<1> QED BY <1>3 DEF Init, Budget

\* Asking for a model spends nothing of the budget.
LEMMA RequestBudget ==
  ASSUME Sound, Budget, NEW t \in Tasks, NEW m \in Models, Request(t, m)
  PROVE  Budget'
<1>1. /\ Others(t) /\ UNCHANGED <<pinned, synced>> /\ Heavy' = Heavy
      /\ pc'[t] \in {"use", "lock", "load"}
      /\ pc'[t] = "load" => Small(want'[t])
  BY RequestDoes DEF Heavy, Large, Small
<1> QED BY <1>1 DEF Budget, Others, Small

\* Who gets the lock loads into room, or into what only pinned names share.
LEMMA TakeLockBudget ==
  ASSUME ManifestFits, Sound, Ordered, Budget, NEW t \in Tasks, TakeLock(t)
  PROVE  Budget'
<1>1. /\ lock = NoTask /\ Others(t) /\ UNCHANGED <<pinned, synced, want>> /\ E' = E
      /\ \/ pc'[t] = "use"
         \/ pc'[t] = "load" /\ (Fits(E, want[t]) \/ E \ pinned = {})
         \/ pc'[t] = "unload" /\ ToSet(victims'[t]) = E \ pinned
  BY TakeLockDoes DEF ManifestFits
<1>2. Heavy' = Heavy /\ Heavy \subseteq E /\ E \in SUBSET Models
  BY <1>1, HeavyIs DEF Heavy, Large, Small
<1>3. want[t] \in Large
  <2>1. pc[t] = "lock"
    BY DEF TakeLock
  <2> QED BY <2>1 DEF Sound, LargeWaits, TypeOK, Large
<1>4. ASSUME pc'[t] = "load" PROVE ResidentGB(Heavy \cup {want[t]}) <= MaxResident
  <2>1. CASE Fits(E, want[t])
    BY <1>2, <1>3, <2>1, FitsIsRoom DEF Heavy, Large
  <2>2. CASE E \ pinned = {}
    <3>1. Heavy \in SUBSET (Pinned \cap Large)
      BY <2>2 DEF Heavy, Sound
    <3> QED BY <1>3, <3>1, PinnedIsRoom
  <2> QED BY <1>1, <1>4, <2>1, <2>2
<1> QED BY <1>1, <1>2, <1>4 DEF Budget, Others, Small

\* Evicting makes room, and what is left to evict is still enough.
LEMMA EvictBudget ==
  ASSUME ManifestFits, Sound, Ordered, Budget, NEW t \in Tasks, Evict(t)
  PROVE  Budget'
<1> DEFINE v == Head(victims[t])
<1>1. /\ pc[t] = "unload" /\ v \in ToSet(victims[t])
      /\ Others(t) /\ UNCHANGED <<synced, want>> /\ E' = E \ {v} /\ pinned' = pinned \ {v}
      /\ \/ /\ pc'[t] = "load"
            /\ Fits(E', want[t]) \/ (ToSet(victims[t]) \cap E') \ pinned \subseteq {v}
         \/ /\ pc'[t] = "unload"
            /\ (ToSet(victims[t]) \cap E') \ pinned \subseteq ToSet(victims'[t]) \cup {v}
  BY EvictDoes
<1> HIDE DEF v
<1> SUFFICES ASSUME ~synced' PROVE Budget'
  BY DEF Budget
<1>2. /\ Heavy' = Heavy \ {v} /\ Heavy' \subseteq E' /\ E' \in SUBSET Models
      /\ Heavy \in SUBSET Models /\ v \notin E'
  BY <1>1, HeavyIs DEF Heavy, Large, Small
<1>3. want[t] \in Large /\ ~Small(want[t])
  BY <1>1 DEF Sound, LargeWaits, TypeOK, Large
<1>4. Heavy \ pinned \subseteq ToSet(victims[t]) /\ ResidentGB(Heavy) <= MaxResident
  BY <1>1 DEF Budget
<1>5. ResidentGB(Heavy') <= MaxResident
  <2> DEFINE H == Heavy'
  <2>1. H \in SUBSET Heavy
    BY <1>2
  <2> HIDE DEF H
  <2>2. ResidentGB(H) <= MaxResident
    BY <1>2, <1>4, <2>1, SubsetIsRoom
  <2> QED BY <2>2 DEF H
<1>6. ASSUME pc'[t] = "load" PROVE ResidentGB(Heavy' \cup {want[t]}) <= MaxResident
  <2> DEFINE F == E'
             H == Heavy'
  <2>0. F \in SUBSET Models /\ H = F \cap Large
    BY <1>2 DEF Heavy, Large, Small
  <2>1. CASE Fits(F, want[t])
    <3> HIDE DEF F, H
    <3>1. ResidentGB((F \cap Large) \cup {want[t]}) <= MaxResident
      BY <1>3, <2>0, <2>1, FitsIsRoom DEF Large
    <3>2. ResidentGB(H \cup {want[t]}) <= MaxResident
      BY <2>0, <3>1
    <3> QED BY <3>2 DEF H
  <2>2. CASE (ToSet(victims[t]) \cap F) \ pinned \subseteq {v}
    <3>1. H \in SUBSET (Pinned \cap Large)
      BY <1>2, <1>4, <2>0, <2>2 DEF Sound
    <3> HIDE DEF F, H
    <3>2. ResidentGB(H \cup {want[t]}) <= MaxResident
      BY <1>3, <3>1, PinnedIsRoom
    <3> QED BY <3>2 DEF H
  <2> QED BY <1>1, <1>6, <2>1, <2>2
<1>7. ASSUME NEW u \in Tasks, pc'[u] = "unload" PROVE Heavy' \ pinned' \subseteq ToSet(victims'[u])
  <2>1. CASE u = t
    BY <1>1, <1>2, <1>4, <1>7, <2>1
  <2>2. CASE u # t
    BY <1>1, <1>2, <1>7, <2>2 DEF Budget, Others
  <2> QED BY <2>1, <2>2
<1>8. ASSUME NEW u \in Tasks, pc'[u] = "load", ~Small(want'[u])
      PROVE  ResidentGB(Heavy' \cup {want'[u]}) <= MaxResident
  <2>1. u = t
    <3> SUFFICES ASSUME u # t PROVE FALSE
      OBVIOUS
    <3>1. pc[u] = "load" /\ ~Small(want[u])
      BY <1>1, <1>8 DEF Others
    <3> QED BY <1>1, <1>3, <3>1, OneAtATime DEF Busy
  <2> QED BY <1>1, <1>6, <1>8, <2>1
<1> QED BY <1>5, <1>7, <1>8 DEF Budget, Small

\* A large model is loaded into the room made for it, and nobody else had it.
LEMMA LoadBudget ==
  ASSUME Sound, Budget, NEW t \in Tasks, Load(t)
  PROVE  Budget'
<1>1. /\ pc[t] = "load" /\ want[t] \in Models
      /\ Others(t) /\ UNCHANGED <<synced, want>> /\ E' = E \cup {want[t]}
      /\ pinned \subseteq pinned' /\ pc'[t] = "use"
  BY LoadDoes
<1> SUFFICES ASSUME ~synced' PROVE Budget'
  BY DEF Budget
<1>2. CASE Small(want[t])
  <2>1. Heavy' = Heavy
    BY <1>1, <1>2 DEF Heavy, Large, Small
  <2> QED BY <1>1, <2>1 DEF Budget, Others, Small
<1>3. CASE ~Small(want[t])
  <2>1. Heavy' = Heavy \cup {want[t]}
    BY <1>1, <1>3 DEF Heavy, Large, Small
  <2>2. ResidentGB(Heavy') <= MaxResident
    BY <1>1, <1>3, <2>1 DEF Budget
  <2>3. ASSUME NEW u \in Tasks, pc'[u] = "unload" \/ (pc'[u] = "load" /\ ~Small(want'[u]))
        PROVE  FALSE
    <3>1. u # t /\ pc[u] \in Busy /\ ~Small(want[u])
      BY <1>1, <2>3 DEF Others, Busy, Sound, LargeWaits
    <3> QED BY <1>1, <1>3, <3>1, OneAtATime DEF Busy
  <2> QED BY <2>2, <2>3 DEF Budget, Small
<1> QED BY <1>2, <1>3

\* Finding a model gone spends nothing.
LEMMA UnloadedBudget ==
  ASSUME Sound, Budget, NEW t \in Tasks, UnloadedUnderneath(t)
  PROVE  Budget'
<1>1. /\ Others(t) /\ UNCHANGED synced
      /\ \/ E' = E /\ pinned' = pinned
         \/ E' = E \ {want[t]} /\ pinned' = pinned \ {want[t]}
      /\ pc'[t] \in {"idle", "load", "lock"} /\ (pc'[t] = "load" => Small(want'[t]))
  BY UnloadedDoes
<1> SUFFICES ASSUME ~synced' PROVE Budget'
  BY DEF Budget
<1> DEFINE H == Heavy'
<1>2. H \subseteq Heavy /\ Heavy \in SUBSET Models /\ H \ pinned' \subseteq Heavy \ pinned
  BY <1>1, HeavyIs DEF Heavy, Large, Small
<1> HIDE DEF H
<1>3. ResidentGB(H) <= MaxResident
  BY <1>1, <1>2, SubsetIsRoom DEF Budget
<1>4. ASSUME NEW u \in Tasks, pc'[u] = "load", ~Small(want'[u])
      PROVE  ResidentGB(H \cup {want'[u]}) <= MaxResident
  <2>1. pc[u] = "load" /\ ~Small(want[u]) /\ want'[u] = want[u] /\ want[u] \in Models
    BY <1>1, <1>4 DEF Others, Sound, TypeOK
  <2> DEFINE S == Heavy \cup {want[u]}
             T == H \cup {want[u]}
  <2>2. ResidentGB(S) <= MaxResident
    BY <1>1, <2>1 DEF Budget
  <2>3. S \in SUBSET Models /\ T \in SUBSET S
    BY <1>2, <2>1
  <2> HIDE DEF S, T
  <2>4. ResidentGB(T) <= MaxResident
    BY <2>2, <2>3, SubsetIsRoom
  <2> QED BY <2>1, <2>4 DEF T
<1>5. ASSUME NEW u \in Tasks, pc'[u] = "unload" PROVE H \ pinned' \subseteq ToSet(victims'[u])
  BY <1>1, <1>2, <1>5 DEF Budget, Others
<1> QED BY <1>3, <1>4, <1>5 DEF Budget, H, Small

\* Nor does a step that leaves the ledger and the errands alone.
LEMMA QuietBudget ==
  ASSUME Budget, UNCHANGED <<entries, pinned, pc, want, victims, synced>>
  PROVE  Budget'
BY DEF Budget, Heavy, Large, E, Small

\* Every step stays within the budget, until a reconciliation finds something else.
LEMMA BudgetStep == ManifestFits /\ Sound /\ Ordered /\ Budget /\ [Next]_vars => Budget'
<1> SUFFICES ASSUME ManifestFits, Sound, Ordered, Budget, [Next]_vars PROVE Budget'
  OBVIOUS
<1>1. ASSUME NEW t \in Tasks, NEW m \in Models, Request(t, m) PROVE Budget'
  BY <1>1, RequestBudget
<1>2. ASSUME NEW t \in Tasks, Step(t) PROVE Budget'
  <2>1. CASE Use(t)
    <3>1. /\ UNCHANGED <<entries, pinned, victims, synced>>
          /\ pc' = [pc EXCEPT ![t] = "idle"] /\ want' = [want EXCEPT ![t] = AnyModel]
      BY <2>1 DEF Use, Rest, Go, sync
    <3>2. Others(t) /\ Heavy' = Heavy /\ pc'[t] = "idle"
      BY <3>1 DEF Others, Heavy, Large, Small, E, Sound, TypeOK
    <3> QED BY <3>1, <3>2 DEF Budget, Others, Small
  <2>2. CASE TimedOut(t)
    <3>1. Others(t) /\ UNCHANGED <<pinned, synced>> /\ Heavy' = Heavy /\ pc'[t] = "idle"
      BY <2>2, TimedOutDoes DEF Heavy, Large, Small, E
    <3> QED BY <3>1 DEF Budget, Others, Small
  <2> QED BY <1>2, <2>1, <2>2, TakeLockBudget, EvictBudget, LoadBudget, UnloadedBudget DEF Step
<1>3. ASSUME NEW w \in loaded, IdleUnload(w) PROVE Budget'
  BY <1>3, QuietBudget DEF IdleUnload, tasks, sync
<1>4. CASE SyncBegin
  BY <1>4, QuietBudget DEF SyncBegin, tasks
<1>5. CASE SyncApply
  <2> SUFFICES ASSUME ~synced' PROVE Budget'
    BY DEF Budget
  <2>1. ~synced /\ UNCHANGED <<pc, want, victims, pinned>> /\ E' = E
    BY <1>5, SyncDoes
  <2> QED BY <2>1 DEF Budget, Heavy, Large, Small
<1>6. ASSUME NEW b \in Backends, SyncPoll(b) PROVE Budget'
  BY <1>6, QuietBudget DEF SyncPoll, tasks
<1>7. CASE UNCHANGED vars
  BY <1>7, QuietBudget DEF vars, tasks, sync
<1> QED BY <1>1, <1>2, <1>3, <1>4, <1>5, <1>6, <1>7 DEF Next

-----------------------------------------------------------------------------
(***************************************************************************)
(* The theorems.                                                           *)
(***************************************************************************)

\* The inductive invariant.
ResidencyIInv == Sound /\ Ordered /\ Budget

\* The ledger is sound in every state.
LEMMA SoundAlways == Spec => []Sound
<1>1. Init => Sound
  BY SoundAtFirst
<1>2. Sound /\ [Next]_vars => Sound'
  BY SoundStep
<1> QED BY <1>1, <1>2, PTL DEF Spec

\* And in order until a reconciliation.
LEMMA OrderedAlways == Spec => []Ordered
<1>1. Init => Sound /\ Ordered
  BY SoundAtFirst, OrderedAtFirst
<1>2. Sound /\ Ordered /\ [Next]_vars => Sound' /\ Ordered'
  BY SoundStep, OrderedStep
<1> QED BY <1>1, <1>2, PTL DEF Spec

\* Two requests that need a large model never make room or load at the same time, whatever the
\* backends unload and the reconciliation corrects: acquire holds _activation_lock throughout.
THEOREM OneActivationAtATime == Spec => []OneActivation
<1>1. Sound => OneActivation
  BY DEF Sound
<1> QED BY <1>1, SoundAlways, PTL

\* What that says of waiting and of evicting.
LEMMA OrderedMeans == Sound /\ Ordered => (~synced => LoadedOnce /\ PinnedIsNotAVictim)
<1> SUFFICES ASSUME Sound, Ordered, ~synced PROVE LoadedOnce /\ PinnedIsNotAVictim
  OBVIOUS
<1>1. LoadedOnce
  <2>1. \A t \in Tasks : Resident(want[t]) <=> want[t] \in E
    BY ResidentIs DEF Sound, E
  <2> QED BY <2>1 DEF LoadedOnce, Ordered, Busy
<1>2. ASSUME NEW t \in Tasks, pc[t] = "unload" PROVE Head(victims[t]) \notin pinned
  <2>1. victims[t] \in Seq(Models) /\ victims[t] # <<>>
    BY <1>2 DEF Sound, TypeOK, HasVictim
  <2>2. Len(victims[t]) \in Nat /\ Len(victims[t]) > 0 /\ Head(victims[t]) = victims[t][1]
    BY <2>1
  <2>3. Head(victims[t]) \in ToSet(victims[t])
    BY <2>1, <2>2 DEF ToSet
  <2> QED BY <1>2, <2>3 DEF Ordered, Sound
<1> QED BY <1>1, <1>2 DEF PinnedIsNotAVictim

\* Until a reconciliation changes the ledger, a large model that was waited for is not loaded
\* again by who waited (acquire looks a second time), and _make_room_for never picks a pinned name.
THEOREM NoneTwiceNonePinned == Spec => [](TypeOK /\ (~synced => LoadedOnce /\ PinnedIsNotAVictim))
<1>1. Sound => TypeOK
  BY DEF Sound
<1> QED BY <1>1, SoundAlways, OrderedAlways, OrderedMeans, PTL

\* The large models in memory stay within max_resident_gb, by what the ledger says and until a
\* reconciliation changes it, for every manifest in which each large model fits beside the pinned
\* ones and swapping is allowed: _make_room_for loads what does not fit when nothing is left to evict.
THEOREM BudgetIsKept ==
  ASSUME ManifestFits
  PROVE  Spec => []ResidencyInv
<1>1. Init => ResidencyIInv
  BY SoundAtFirst, OrderedAtFirst, BudgetAtFirst, ManifestFits DEF ResidencyIInv
<1>2. ResidencyIInv /\ [Next]_vars => ResidencyIInv'
  BY SoundStep, OrderedStep, BudgetStep, ManifestFits DEF ResidencyIInv
<1>3. ResidencyIInv => ResidencyInv
  <2> SUFFICES ASSUME ResidencyIInv PROVE ResidencyInv
    OBVIOUS
  <2>1. LargeWithinBudget
    BY DEF ResidencyIInv, Budget, Heavy, E, LargeWithinBudget
  <2>2. TypeOK
    BY DEF ResidencyIInv, Sound
  <2> QED BY <2>1, <2>2, OrderedMeans DEF ResidencyIInv, ResidencyInv
<1> QED BY <1>1, <1>2, <1>3, PTL DEF Spec

\* When what sync_from_providers polled is still what is in memory, it leaves a ledger that agrees
\* with every backend that holds something, in both directions.
THEOREM ReconciliationCorrects == Spec => SyncCorrects
<1> DEFINE Corrects ==
      SyncApply /\ reported = loaded =>
        \A m \in Models :
            (\E n \in Models : Backend[n] = Backend[m] /\ Weights[n] \in loaded) =>
                (m \in ToSet(entries') <=> Weights[m] \in loaded)
<1>1. Sound => Corrects
  <2> SUFFICES ASSUME Sound, SyncApply, reported = loaded,
                      NEW m \in Models, NEW n \in Models,
                      Backend[n] = Backend[m], Weights[n] \in loaded
               PROVE  m \in ToSet(entries') <=> Weights[m] \in loaded
    OBVIOUS
  <2> DEFINE there == {k \in Models : Weights[k] \in reported}
             answered == {Backend[k] : k \in there}
             gone == {k \in ToSet(entries) : Backend[k] \in answered /\ k \notin there}
  <2>1. ToSet(entries') = (ToSet(entries) \ gone) \cup there
    BY SyncIs DEF Sound
  <2>2. n \in there
    OBVIOUS
  <2>3. Backend[m] \in answered
    BY <2>2
  <2> QED BY <2>1, <2>3
<1> HIDE DEF Corrects
<1>2. Spec => [][Corrects]_vars
  BY <1>1, SoundAlways, PTL DEF Spec
<1> QED BY <1>2 DEF SyncCorrects, Corrects
=============================================================================
