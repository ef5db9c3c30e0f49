-------------------------- MODULE IngestStateProofs -------------------------
(***************************************************************************)
(* Proofs about IngestState, for every set of events, every clock bound    *)
(* and every setting of the window, the retention and the quotas.          *)
(***************************************************************************)
EXTENDS IngestState, FiniteSetTheorems, WellFoundedInduction, TLAPS

-----------------------------------------------------------------------------
(***************************************************************************)
(* The order of events and the quotas.                                     *)
(***************************************************************************)

\* The order is_newer() compares by is total on the events: an id determines
\* its event, so ties end there.
LEMMA NewerTotal ==
    ASSUME NEW e \in Event, NEW f \in Event, e # f
    PROVE  IsNewer(e, f) \/ IsNewer(f, e)
BY EventAssumption DEF IsNewer

\* A non-empty set of naturals has a least element.
LEMMA LeastNat ==
    ASSUME NEW T, T \subseteq Nat, T # {}
    PROVE  \E x \in T : \A y \in T : x <= y
<1>1. PICK x \in T : \A y \in T : ~(<<y, x>> \in OpToRel(<, Nat))
  BY NatLessThanWellFounded, WFMin
<1>2. ASSUME NEW y \in T PROVE x <= y
  <2>1. ~(<<y, x>> \in OpToRel(<, Nat))
    BY <1>1
  <2>2. ~(y < x)
    BY <2>1 DEF OpToRel
  <2> QED
    BY <2>2
<1> QED
  BY <1>2

\* oldest_among() has an answer on every non-empty set of entries.
LEMMA OldestExists ==
    ASSUME NEW S, S \subseteq Event, S # {}
    PROVE  \E o \in S : \A f \in S \ {o} : IsNewer(f, o)
<1> DEFINE Times == {e.created_at : e \in S}
<1>1. PICK t \in Times : \A u \in Times : t <= u
  <2>1. Times \subseteq Nat /\ Times # {}
    BY EventAssumption
  <2> HIDE DEF Times
  <2> QED
    BY <2>1, LeastNat
<1> DEFINE Early == {e \in S : e.created_at = t}
<1>2. PICK i \in Ids(Early) : \A j \in Ids(Early) : i <= j
  <2>1. Ids(Early) \subseteq Nat /\ Ids(Early) # {}
    BY EventAssumption, <1>1 DEF Ids
  <2> HIDE DEF Early
  <2> QED
    BY <2>1, LeastNat
<1>3. PICK o \in Early : o.id = i
  BY <1>2 DEF Ids
<1>4. ASSUME NEW f \in S \ {o} PROVE IsNewer(f, o)
  <2>1. t <= f.created_at /\ f.created_at \in Nat /\ t \in Nat
    BY <1>1, EventAssumption
  <2>2. CASE f.created_at = t
    <3>1. f.id \in Ids(Early)
      BY <2>2 DEF Ids
    <3>2. o.id <= f.id /\ o.id # f.id
      BY <3>1, <1>2, <1>3, EventAssumption
    <3> QED
      BY <3>2, <2>2, <1>3, EventAssumption DEF IsNewer
  <2>3. CASE f.created_at # t
    BY <2>1, <2>3, <1>3 DEF IsNewer
  <2> QED
    BY <2>2, <2>3
<1> QED
  BY <1>3, <1>4

\* One round of eviction is enough when one entry was added.
LEMMA KeepNewestBound ==
    ASSUME NEW S, S \subseteq Event, IsFiniteSet(S), NEW n \in Nat,
           Cardinality(S) <= n + 1
    PROVE  /\ KeepNewest(S, n) \subseteq S
           /\ IsFiniteSet(KeepNewest(S, n))
           /\ Cardinality(KeepNewest(S, n)) <= n
<1>1. KeepNewest(S, n) \subseteq S
  BY DEF KeepNewest
<1>2. /\ IsFiniteSet(KeepNewest(S, n))
      /\ Cardinality(KeepNewest(S, n)) <= Cardinality(S)
  BY <1>1, FS_Subset
<1>3. Cardinality(S) \in Nat /\ Cardinality(KeepNewest(S, n)) \in Nat
  BY <1>2, FS_CardinalityType
<1>4. CASE Cardinality(S) <= n
  BY <1>1, <1>2, <1>3, <1>4
<1>5. CASE Cardinality(S) = n + 1
  <2>1. S # {}
    BY <1>5, FS_EmptySet
  <2>2. PICK o \in S : \A f \in S \ {o} : IsNewer(f, o)
    BY <2>1, OldestExists
  <2>3. IsFiniteSet(S \ {o}) /\ Cardinality(S \ {o}) = n
    BY <1>5, <1>3, FS_RemoveElement
  <2>4. {f \in S : IsNewer(f, o)} = S \ {o}
    <3>1. ~IsNewer(o, o)
      BY EventAssumption DEF IsNewer
    <3> QED
      BY <2>2, <3>1
  <2>5. o \notin KeepNewest(S, n)
    BY <2>3, <2>4 DEF KeepNewest
  <2>6. KeepNewest(S, n) \subseteq S \ {o}
    BY <1>1, <2>5
  <2>7. Cardinality(KeepNewest(S, n)) <= Cardinality(S \ {o})
    BY <2>3, <2>6, FS_Subset
  <2> QED
    BY <1>1, <1>2, <2>3, <2>7
<1> QED
  BY <1>3, <1>4, <1>5

\* insert() adds nothing but the new event.
LEMMA InsertSubset ==
    ASSUME NEW S, NEW e
    PROVE  InsertEntries(S, e) \subseteq S \union {e}
BY DEF InsertEntries, EnforceCapacity, EnforcePubkeyQuota, KeepNewest

\* The entries of one author.
ByAuthor(S, pk) == {f \in S : f.pubkey = pk}

\* Both limits, stated for every author rather than the authors present.
Bounded(S) ==
    /\ IsFiniteSet(S)
    /\ Cardinality(S) <= EventStoreMax
    /\ \A pk : Cardinality(ByAuthor(S, pk)) <= MaxEventsPerPubkey

\* Removing entries keeps a store within its limits.
LEMMA BoundedSubset ==
    ASSUME NEW S, Bounded(S), NEW T, T \subseteq S
    PROVE  Bounded(T)
<1>1. IsFiniteSet(T) /\ Cardinality(T) <= Cardinality(S)
  BY FS_Subset DEF Bounded
<1>2. Cardinality(T) \in Nat /\ Cardinality(S) \in Nat
  BY <1>1, FS_CardinalityType DEF Bounded
<1>3. ASSUME NEW pk
      PROVE  Cardinality(ByAuthor(T, pk)) <= MaxEventsPerPubkey
  <2>1. ByAuthor(T, pk) \subseteq ByAuthor(S, pk) /\ ByAuthor(S, pk) \subseteq S
    BY DEF ByAuthor
  <2>2. IsFiniteSet(ByAuthor(S, pk))
    BY <2>1, FS_Subset DEF Bounded
  <2>3. /\ Cardinality(ByAuthor(T, pk)) <= Cardinality(ByAuthor(S, pk))
        /\ IsFiniteSet(ByAuthor(T, pk))
    BY <2>1, <2>2, FS_Subset
  <2>4. /\ Cardinality(ByAuthor(T, pk)) \in Nat
        /\ Cardinality(ByAuthor(S, pk)) \in Nat
    BY <2>2, <2>3, FS_CardinalityType
  <2>5. Cardinality(ByAuthor(S, pk)) <= MaxEventsPerPubkey
    BY DEF Bounded
  <2> QED
    BY <2>3, <2>4, <2>5, StoreConfigAssumption
<1> QED
  BY <1>1, <1>2, <1>3, StoreConfigAssumption DEF Bounded

\* Adding an element adds at most one.
LEMMA AddOne ==
    ASSUME NEW S, IsFiniteSet(S), NEW e
    PROVE  /\ IsFiniteSet(S \union {e})
           /\ Cardinality(S \union {e}) \in Nat
           /\ Cardinality(S \union {e}) <= Cardinality(S) + 1
<1>1. Cardinality(S) \in Nat
  BY FS_CardinalityType
<1>2. /\ IsFiniteSet(S \union {e})
      /\ Cardinality(S \union {e}) = IF e \in S THEN Cardinality(S) ELSE Cardinality(S) + 1
  BY FS_AddElement
<1> QED
  BY <1>1, <1>2

\* Exchanging one element for another adds nothing: a replacement in insert().
LEMMA ExchangeOne ==
    ASSUME NEW S, IsFiniteSet(S), NEW x \in S, NEW e
    PROVE  /\ IsFiniteSet((S \ {x}) \union {e})
           /\ Cardinality((S \ {x}) \union {e}) \in Nat
           /\ Cardinality((S \ {x}) \union {e}) <= Cardinality(S)
<1>1. Cardinality(S) \in Nat
  BY FS_CardinalityType
<1>2. IsFiniteSet(S \ {x}) /\ Cardinality(S \ {x}) = Cardinality(S) - 1
  BY FS_RemoveElement
<1>3. /\ IsFiniteSet((S \ {x}) \union {e})
      /\ Cardinality((S \ {x}) \union {e}) \in Nat
      /\ Cardinality((S \ {x}) \union {e}) <= Cardinality(S \ {x}) + 1
  BY <1>2, AddOne
<1> QED
  BY <1>1, <1>2, <1>3

\* insert() keeps a store within its limits, on both of its paths.
LEMMA InsertBounded ==
    ASSUME NEW S, S \subseteq Event, Bounded(S), NEW e \in Event
    PROVE  Bounded(InsertEntries(S, e))
<1> DEFINE existing == HeldAt(S, StoreKey(e))
           grown == S \union {e}
           own == ByAuthor(grown, e.pubkey)
           trimmed == (grown \ own) \union KeepNewest(own, MaxEventsPerPubkey)
<1>1. CASE existing # {}
  <2>1. PICK x \in existing : x \in S /\ x.pubkey = e.pubkey
    BY <1>1 DEF HeldAt, StoreKey
  <2>2. InsertEntries(S, e) = (S \ existing) \union {e}
    BY <1>1 DEF InsertEntries
  <2>3. Bounded(S \ {x})
    BY BoundedSubset
  <2>4. InsertEntries(S, e) \subseteq (S \ {x}) \union {e}
    BY <2>1, <2>2
  <2>5. Bounded((S \ {x}) \union {e})
    <3>1. IsFiniteSet(S) /\ IsFiniteSet(S \ {x}) /\ IsFiniteSet((S \ {x}) \union {e})
      BY <2>3, FS_AddElement DEF Bounded
    <3>2. Cardinality((S \ {x}) \union {e}) <= EventStoreMax
      <4>1. Cardinality(S) \in Nat /\ Cardinality(S) <= EventStoreMax
        BY <3>1, FS_CardinalityType DEF Bounded
      <4>2. /\ Cardinality((S \ {x}) \union {e}) \in Nat
            /\ Cardinality((S \ {x}) \union {e}) <= Cardinality(S)
        BY <2>1, <3>1, ExchangeOne
      <4> QED
        BY <4>1, <4>2, StoreConfigAssumption
    <3>3. ASSUME NEW pk
          PROVE  Cardinality(ByAuthor((S \ {x}) \union {e}, pk)) <= MaxEventsPerPubkey
      <4>1. CASE pk = e.pubkey
        <5>1. ByAuthor((S \ {x}) \union {e}, pk) = (ByAuthor(S, pk) \ {x}) \union {e}
          BY <4>1 DEF ByAuthor
        <5>2. IsFiniteSet(ByAuthor(S, pk)) /\ x \in ByAuthor(S, pk)
          BY <4>1, <2>1, <3>1, FS_Subset DEF ByAuthor
        <5>3. /\ Cardinality((ByAuthor(S, pk) \ {x}) \union {e}) <= Cardinality(ByAuthor(S, pk))
              /\ Cardinality((ByAuthor(S, pk) \ {x}) \union {e}) \in Nat
          BY <5>2, ExchangeOne
        <5>5. /\ Cardinality(ByAuthor(S, pk)) <= MaxEventsPerPubkey
              /\ Cardinality(ByAuthor(S, pk)) \in Nat
          BY <5>2, FS_CardinalityType DEF Bounded
        <5> QED
          BY <5>1, <5>3, <5>5, StoreConfigAssumption
      <4>2. CASE pk # e.pubkey
        <5>1. ByAuthor((S \ {x}) \union {e}, pk) = ByAuthor(S \ {x}, pk)
          BY <4>2 DEF ByAuthor
        <5> QED
          BY <5>1, <2>3 DEF Bounded
      <4> QED
        BY <4>1, <4>2
    <3> QED
      BY <3>1, <3>2, <3>3 DEF Bounded
  <2> QED
    BY <2>4, <2>5, BoundedSubset
<1>2. CASE existing = {}
  <2>1. InsertEntries(S, e) = KeepNewest(trimmed, EventStoreMax)
    BY <1>2 DEF InsertEntries, EnforceCapacity, EnforcePubkeyQuota, ByAuthor
  <2>2. /\ grown \subseteq Event /\ IsFiniteSet(grown)
        /\ Cardinality(grown) <= EventStoreMax + 1
    <3>1. IsFiniteSet(S) /\ Cardinality(S) \in Nat /\ Cardinality(S) <= EventStoreMax
      BY FS_CardinalityType DEF Bounded
    <3> QED
      BY <3>1, AddOne, StoreConfigAssumption
  <2>3. /\ own \subseteq Event /\ IsFiniteSet(own)
        /\ Cardinality(own) <= MaxEventsPerPubkey + 1
    <3>1. own = ByAuthor(S, e.pubkey) \union {e}
      BY DEF ByAuthor
    <3>2. IsFiniteSet(ByAuthor(S, e.pubkey))
      BY FS_Subset DEF Bounded, ByAuthor
    <3>3. /\ Cardinality(ByAuthor(S, e.pubkey)) <= MaxEventsPerPubkey
          /\ Cardinality(ByAuthor(S, e.pubkey)) \in Nat
      BY <3>2, FS_CardinalityType DEF Bounded
    <3>4. own \subseteq Event
      BY DEF ByAuthor
    <3> HIDE DEF own
    <3> QED
      BY <3>1, <3>2, <3>3, <3>4, AddOne, StoreConfigAssumption
  <2>4. /\ KeepNewest(own, MaxEventsPerPubkey) \subseteq own
        /\ Cardinality(KeepNewest(own, MaxEventsPerPubkey)) <= MaxEventsPerPubkey
    <3> HIDE DEF own
    <3> QED
      BY <2>3, KeepNewestBound, StoreConfigAssumption
  <2>5. /\ trimmed \subseteq grown /\ IsFiniteSet(trimmed)
        /\ Cardinality(trimmed) <= EventStoreMax + 1
    <3>1. trimmed \subseteq grown
      BY <2>4 DEF ByAuthor
    <3> HIDE DEF trimmed, grown
    <3>2. IsFiniteSet(trimmed) /\ Cardinality(trimmed) <= Cardinality(grown)
      BY <2>2, <3>1, FS_Subset
    <3> QED
      BY <2>2, <3>1, <3>2, FS_CardinalityType, StoreConfigAssumption
  <2>6. /\ KeepNewest(trimmed, EventStoreMax) \subseteq trimmed
        /\ IsFiniteSet(KeepNewest(trimmed, EventStoreMax))
        /\ Cardinality(KeepNewest(trimmed, EventStoreMax)) <= EventStoreMax
    <3>1. trimmed \subseteq Event
      BY <2>2, <2>5
    <3> HIDE DEF trimmed
    <3> QED
      BY <2>5, <3>1, KeepNewestBound, StoreConfigAssumption
  <2>7. ASSUME NEW pk
        PROVE  Cardinality(ByAuthor(InsertEntries(S, e), pk)) <= MaxEventsPerPubkey
    <3> DEFINE mine == ByAuthor(InsertEntries(S, e), pk)
    <3>1. CASE pk = e.pubkey
      <4>1. mine \subseteq KeepNewest(own, MaxEventsPerPubkey)
        BY <3>1, <2>1, <2>6 DEF ByAuthor
      <4>2. IsFiniteSet(KeepNewest(own, MaxEventsPerPubkey))
        <5> HIDE DEF own
        <5> QED
          BY <2>3, KeepNewestBound, StoreConfigAssumption
      <4> HIDE DEF mine, own
      <4>3. /\ IsFiniteSet(mine)
            /\ Cardinality(mine) <= Cardinality(KeepNewest(own, MaxEventsPerPubkey))
        BY <4>1, <4>2, FS_Subset
      <4> QED
        BY <4>2, <4>3, <2>4, FS_CardinalityType, StoreConfigAssumption DEF mine
    <3>2. CASE pk # e.pubkey
      <4>1. mine \subseteq ByAuthor(S, pk)
        BY <3>2, <2>1, <2>5, <2>6 DEF ByAuthor
      <4>2. IsFiniteSet(ByAuthor(S, pk)) /\ Cardinality(ByAuthor(S, pk)) <= MaxEventsPerPubkey
        BY FS_Subset DEF Bounded, ByAuthor
      <4> HIDE DEF mine
      <4>3. IsFiniteSet(mine) /\ Cardinality(mine) <= Cardinality(ByAuthor(S, pk))
        BY <4>1, <4>2, FS_Subset
      <4> QED
        BY <4>2, <4>3, FS_CardinalityType, StoreConfigAssumption DEF mine
    <3> QED
      BY <3>1, <3>2
  <2> QED
    BY <2>1, <2>6, <2>7 DEF Bounded
<1> QED
  BY <1>1, <1>2

-----------------------------------------------------------------------------
(***************************************************************************)
(* Every step, seen from the store: an accepted event is inserted, expired *)
(* entries leave, or the store stays as it is.                             *)
(***************************************************************************)

\* An event is accepted in this step, coming from source.
Accepted(e, source) ==
    /\ Accepts(entries, ids, e, now)
    /\ entries' = InsertEntries(entries, e)
    /\ ids' = InsertIds(entries, ids, e)
    /\ sources' = RecordSource(StoreKey(e), source)
    /\ sent' = [sent EXCEPT ![e] = @ + 1]
    /\ sentAt' = [sentAt EXCEPT ![e] = IF sent[e] = 0 THEN now ELSE @]
    /\ via' = [via EXCEPT ![e] = source]

\* insert() either accepts the event or changes nothing.
LEMMA InsertStepCases ==
    ASSUME NEW e, NEW source, InsertStep(e, source)
    PROVE  \/ Accepted(e, source)
           \/ UNCHANGED <<entries, ids, sources, sent, sentAt, via>>
BY DEF InsertStep, Accepted

\* The steps of the node, with what insert() did spelled out.
LEMMA NextCases ==
    ASSUME [Next]_vars
    PROVE  \/ \E e \in Event, source \in Peer \union {Local} : Accepted(e, source)
           \/ Sweep
           \/ UNCHANGED <<entries, ids, sources, sent, sentAt, via>>
<1>1. ASSUME NEW e \in Event, NEW p \in Peer, Ingest(e, p)
      PROVE  \/ Accepted(e, p)
             \/ UNCHANGED <<entries, ids, sources, sent, sentAt, via>>
  BY <1>1, InsertStepCases DEF Ingest
<1>2. ASSUME NEW e \in LocalEvent, PublishLocal(e)
      PROVE  \/ Accepted(e, Local)
             \/ UNCHANGED <<entries, ids, sources, sent, sentAt, via>>
  BY <1>2, InsertStepCases DEF PublishLocal
<1>3. Tick \/ UNCHANGED vars => UNCHANGED <<entries, ids, sources, sent, sentAt, via>>
  BY DEF Tick, vars, store, history
<1> QED
  BY <1>1, <1>2, <1>3, IngestAssumption DEF Next

\* Type correctness.
THEOREM TypeCorrect == Spec => []TypeOK
<1>1. Init => TypeOK
  BY IngestAssumption DEF Init, TypeOK
<1>2. TypeOK /\ [Next]_vars => TypeOK'
  <2> SUFFICES ASSUME TypeOK, [Next]_vars PROVE TypeOK'
    OBVIOUS
  <2>1. /\ now' \in 0..MaxClock
        /\ minted' \subseteq LocalEvent
    BY IngestAssumption
       DEF TypeOK, Next, vars, store, history, Ingest, PublishLocal, Sweep, Tick
  <2>2. /\ entries' \subseteq Event
        /\ ids' \subseteq Ids(Event)
        /\ sources' \in [Key -> Peer \union {Local, NoSource}]
        /\ sent' \in [Event -> Nat]
        /\ sentAt' \in [Event -> 0..MaxClock]
        /\ via' \in [Event -> Peer \union {Local, NoSource}]
    <3>1. ASSUME NEW e \in Event, NEW s \in Peer \union {Local}, Accepted(e, s)
          PROVE  <2>2!1 /\ <2>2!2 /\ <2>2!3 /\ <2>2!4 /\ <2>2!5 /\ <2>2!6
      <4>1. entries' \subseteq Event
        BY <3>1, InsertSubset DEF Accepted, TypeOK
      <4>2. ids' \subseteq Ids(Event)
        BY <3>1 DEF Accepted, TypeOK, InsertIds, Ids
      <4>3. StoreKey(e) \in Key
        BY DEF Key
      <4>4. sources' \in [Key -> Peer \union {Local, NoSource}]
        BY <3>1, <4>3 DEF Accepted, TypeOK, RecordSource
      <4> QED
        BY <3>1, <4>1, <4>2, <4>4 DEF Accepted, TypeOK
    <3>2. CASE Sweep
      BY <3>2 DEF Sweep, TypeOK, history, PruneSources
    <3>3. CASE UNCHANGED <<entries, ids, sources, sent, sentAt, via>>
      BY <3>3 DEF TypeOK
    <3> QED
      BY <3>1, <3>2, <3>3, NextCases
  <2>3. seen' \subseteq [id : Ids(Event), at : 0..MaxClock]
    <3>1. ASSUME NEW e \in Event, seen' = CheckAndInsert(seen, e.id, now)
          PROVE  seen' \subseteq [id : Ids(Event), at : 0..MaxClock]
      BY <3>1 DEF CheckAndInsert, PurgeExpired, TypeOK, Ids
    <3> QED
      BY <3>1, IngestAssumption
         DEF TypeOK, Next, vars, store, history, Ingest, PublishLocal, Sweep, Tick
  <2> QED
    BY <2>1, <2>2, <2>3 DEF TypeOK
<1> QED
  BY <1>1, <1>2, PTL DEF Spec

-----------------------------------------------------------------------------
(***************************************************************************)
(* The store is consistent and within its limits.                          *)
(***************************************************************************)
StoreInv == IdsMatchEntries /\ Bounded(entries)

\* What is left of the ids when some events go: an id names one event.
LEMMA IdsFollow ==
    ASSUME NEW S, S \subseteq Event, NEW T, T \subseteq S
    PROVE  Ids(S) \ Ids(S \ T) = Ids(T)
BY EventAssumption DEF Ids

\* The map holds one event per key within its limits and the id set follows
\* it: what insert() and sweep() take out of the one they take out of the other.
THEOREM StoreConsistent == Spec => []StoreInv
<1>1. Init => StoreInv
  <2> SUFFICES ASSUME Init PROVE StoreInv
    OBVIOUS
  <2>1. IdsMatchEntries
    BY DEF Init, IdsMatchEntries, Ids
  <2>2. \A pk : ByAuthor({}, pk) = {}
    BY DEF ByAuthor
  <2> QED
    BY <2>1, <2>2, FS_EmptySet, StoreConfigAssumption DEF Init, StoreInv, Bounded
<1>2. TypeOK /\ StoreInv /\ [Next]_vars => StoreInv'
  <2> SUFFICES ASSUME TypeOK, StoreInv, [Next]_vars PROVE StoreInv'
    OBVIOUS
  <2>1. ASSUME NEW e \in Event, NEW s \in Peer \union {Local}, Accepted(e, s)
        PROVE  StoreInv'
    <3>1. /\ entries \union {e} \subseteq Event
          /\ InsertEntries(entries, e) \subseteq entries \union {e}
      BY InsertSubset DEF TypeOK
    <3>2. ids \union {e.id} = Ids(entries \union {e})
      BY DEF StoreInv, IdsMatchEntries, Ids
    <3>3. IdsMatchEntries'
      BY <2>1, <3>1, <3>2, IdsFollow
         DEF Accepted, IdsMatchEntries, InsertIds, InsertVictims
    <3>4. Bounded(InsertEntries(entries, e))
      BY InsertBounded DEF TypeOK, StoreInv
    <3> QED
      BY <2>1, <3>3, <3>4 DEF Accepted, StoreInv, Bounded
  <2>2. CASE Sweep
    <3>1. entries' \subseteq entries /\ entries \ entries' = SweepVictims(entries, now)
      BY <2>2 DEF Sweep, SweepVictims
    <3>2. IdsMatchEntries'
      BY <2>2, <3>1, IdsFollow DEF Sweep, TypeOK, StoreInv, IdsMatchEntries
    <3>3. Bounded(entries')
      BY <3>1, BoundedSubset DEF StoreInv
    <3> QED
      BY <3>2, <3>3 DEF StoreInv, Bounded
  <2>3. CASE UNCHANGED <<entries, ids, sources, sent, sentAt, via>>
    BY <2>3 DEF StoreInv, IdsMatchEntries, Bounded
  <2> QED
    BY <2>1, <2>2, <2>3, NextCases
<1> QED
  BY <1>1, <1>2, TypeCorrect, PTL DEF Spec

\* The id set of the second barrier names exactly the held events, and neither
\* the capacity nor an author's quota is exceeded.
THEOREM StoreCorrect == Spec => []StoreSound
<1>1. StoreInv => StoreSound
  BY DEF StoreInv, StoreSound, Bounded, WithinQuotas, ByAuthor
<1> QED
  BY <1>1, StoreConsistent, PTL

-----------------------------------------------------------------------------
(***************************************************************************)
(* Loop freedom.  While the duplicate cache remembers an event under the   *)
(* time it was first handed on, the cache refuses it; once it may have     *)
(* forgotten, the retention has passed since, hence the freshness window.  *)
(***************************************************************************)
Remembered(e) == \E r \in seen : r.id = e.id /\ r.at = sentAt[e]

SentInv ==
    /\ \A e \in Event : sent[e] > 0 =>
          /\ sentAt[e] <= now
          /\ Remembered(e) \/ now > sentAt[e] + Retention
          /\ e \in LocalEvent => e \in minted
    /\ \A e \in LocalEvent \ minted : \A r \in seen : r.id # e.id
    /\ PastEventSentOnce

\* The duplicate cache remembers for at least the freshness window.
LEMMA RetentionCovers ==
    Retention \in Nat /\ FreshnessWindow <= Retention
BY StoreConfigAssumption DEF Retention

\* The cache keeps a record for the whole retention.
LEMMA CacheKeeps ==
    ASSUME TypeOK, SentInv, NEW e \in Event, sent[e] > 0, NEW i,
           seen' = CheckAndInsert(seen, i, now), sentAt'[e] = sentAt[e], now' = now
    PROVE  Remembered(e)' \/ now > sentAt[e] + Retention
<1>1. CASE now > sentAt[e] + Retention
  BY <1>1
<1>2. CASE ~(now > sentAt[e] + Retention)
  <2>1. PICK r \in seen : r.id = e.id /\ r.at = sentAt[e]
    BY <1>2 DEF SentInv, Remembered
  <2>2. /\ now \in Nat /\ sentAt[e] \in Nat /\ sentAt[e] <= now
        /\ Retention \in Nat
    BY RetentionCovers, IngestAssumption DEF TypeOK, SentInv
  <2>3. SaturatingSub(now, r.at) <= Retention
    BY <1>2, <2>1, <2>2 DEF SaturatingSub
  <2>4. r \in seen'
    BY <2>1, <2>3 DEF CheckAndInsert, PurgeExpired
  <2> QED
    BY <2>1, <2>4 DEF Remembered
<1> QED
  BY <1>1, <1>2

\* An event the cache does not know and that was handed on before is stale,
\* unless it was dated ahead.
LEMMA ForgottenIsStale ==
    ASSUME TypeOK, SentInv, NEW e \in Event, sent[e] > 0,
           e.created_at <= sentAt[e], ~Known(seen, e.id, now)
    PROVE  ~Accepts(entries, ids, e, now)
<1>1. /\ now \in Nat /\ sentAt[e] \in Nat /\ sentAt[e] <= now
      /\ Retention \in Nat /\ e.created_at \in Nat
      /\ FreshnessWindow \in Nat /\ FreshnessWindow <= Retention
  BY RetentionCovers, IngestAssumption, EventAssumption, StoreConfigAssumption
     DEF TypeOK, SentInv
<1>2. now > sentAt[e] + Retention
  <2>1. CASE Remembered(e)
    <3>1. PICK r \in seen : r.id = e.id /\ r.at = sentAt[e]
      BY <2>1 DEF Remembered
    <3>2. SaturatingSub(now, r.at) > Retention
      BY <3>1, <1>1 DEF Known, PurgeExpired, SaturatingSub
    <3> QED
      BY <3>1, <3>2, <1>1 DEF SaturatingSub
  <2> QED
    BY <2>1 DEF SentInv
<1>3. SaturatingSub(now, e.created_at) > FreshnessWindow
  BY <1>1, <1>2 DEF SaturatingSub
<1> QED
  BY <1>1, <1>3 DEF Accepts, SaturatingSub

\* Every event handed on is in the duplicate cache, stale, or was dated ahead:
\* the inductive form of loop freedom.
THEOREM SentInvariant == Spec => []SentInv
<1>1. Init => SentInv
  BY DEF Init, SentInv, PastEventSentOnce
<1>2. TypeOK /\ SentInv /\ [Next]_vars => SentInv'
  <2> SUFFICES ASSUME TypeOK, SentInv, [Next]_vars PROVE SentInv'
    OBVIOUS
  \* An event e that is handed to the store although the cache does not know it.
  <2>1. ASSUME NEW e \in Event, NEW s, InsertStep(e, s), now' = now,
               seen' = CheckAndInsert(seen, e.id, now), ~Known(seen, e.id, now),
               minted \subseteq minted', e \in LocalEvent => e \in minted'
        PROVE  SentInv'
    <3>1. [id |-> e.id, at |-> now] \in seen'
      BY <2>1 DEF CheckAndInsert
    <3>2. \A r \in seen' : r \in seen \/ r.id = e.id
      BY <2>1 DEF CheckAndInsert, PurgeExpired
    <3>3. \A f \in LocalEvent \ minted' : \A r \in seen' : r.id # f.id
      BY <2>1, <3>2, EventAssumption, IngestAssumption DEF SentInv
    <3>4. CASE Accepted(e, s)
      <4>1. sent' = [sent EXCEPT ![e] = @ + 1]
        BY <3>4 DEF Accepted
      <4>2. sentAt' = [sentAt EXCEPT ![e] = IF sent[e] = 0 THEN now ELSE @]
        BY <3>4 DEF Accepted
      <4>3. ASSUME NEW f \in Event, f # e
            PROVE  sent'[f] = sent[f] /\ sentAt'[f] = sentAt[f]
        BY <4>1, <4>2, <4>3 DEF TypeOK
      <4>4. ASSUME NEW f \in Event, sent'[f] > 0
            PROVE  /\ sentAt'[f] <= now'
                   /\ Remembered(f)' \/ now' > sentAt'[f] + Retention
                   /\ f \in LocalEvent => f \in minted'
        <5>1. CASE f # e
          BY <5>1, <4>3, <4>4, <2>1, CacheKeeps DEF SentInv
        <5>2. CASE f = e /\ sent[e] = 0
          <6>1. sentAt'[e] = now
            BY <5>2, <4>2 DEF TypeOK
          <6> QED
            BY <5>2, <6>1, <3>1, <2>1, IngestAssumption DEF Remembered, TypeOK
        <5>3. CASE f = e /\ sent[e] # 0
          <6>1. sentAt'[e] = sentAt[e] /\ sent[e] > 0
            BY <5>3, <4>2 DEF TypeOK
          <6> QED
            BY <5>3, <6>1, <2>1, CacheKeeps DEF SentInv
        <5> QED
          BY <5>1, <5>2, <5>3
      <4>5. PastEventSentOnce'
        <5>1. ASSUME NEW f \in Event, sent'[f] > 0, f.created_at <= sentAt'[f]
              PROVE  sent'[f] = 1
          <6>1. CASE f # e
            BY <6>1, <5>1, <4>3 DEF SentInv, PastEventSentOnce
          <6>2. CASE f = e /\ sent[e] = 0
            BY <6>2, <4>1 DEF TypeOK
          <6>3. CASE f = e /\ sent[e] # 0
            <7>1. sentAt'[e] = sentAt[e] /\ sent[e] > 0
              BY <6>3, <4>2 DEF TypeOK
            <7>2. ~Accepts(entries, ids, e, now)
              BY <7>1, <6>3, <5>1, <2>1, ForgottenIsStale
            <7> QED
              BY <7>2, <3>4 DEF Accepted
          <6> QED
            BY <6>1, <6>2, <6>3
        <5> QED
          BY <5>1 DEF PastEventSentOnce
      <4> QED
        BY <4>4, <4>5, <3>3 DEF SentInv
    <3>5. CASE UNCHANGED <<entries, ids, sources, sent, sentAt, via>>
      <4>1. ASSUME NEW f \in Event, sent[f] > 0
            PROVE  /\ sentAt'[f] <= now'
                   /\ Remembered(f)' \/ now' > sentAt'[f] + Retention
                   /\ f \in LocalEvent => f \in minted'
        BY <4>1, <3>5, <2>1, CacheKeeps DEF SentInv
      <4> QED
        BY <4>1, <3>3, <3>5 DEF SentInv, PastEventSentOnce
    <3> QED
      BY <2>1, <3>4, <3>5, InsertStepCases
  <2>2. ASSUME NEW e \in Event, NEW p \in Peer, Ingest(e, p)
        PROVE  SentInv'
    <3>1. CASE Known(seen, e.id, now)
      <4>1. /\ UNCHANGED <<now, minted, sent, sentAt>>
            /\ seen' = CheckAndInsert(seen, e.id, now)
            /\ seen' \subseteq seen
        BY <2>2, <3>1 DEF Ingest, CheckAndInsert, PurgeExpired
      <4>2. ASSUME NEW f \in Event, sent[f] > 0
            PROVE  Remembered(f)' \/ now' > sentAt'[f] + Retention
        BY <4>1, <4>2, CacheKeeps
      <4> QED
        BY <4>1, <4>2 DEF SentInv, PastEventSentOnce
    <3>2. CASE ~Known(seen, e.id, now)
      BY <2>1, <2>2, <3>2 DEF Ingest
    <3> QED
      BY <3>1, <3>2
  <2>3. ASSUME NEW e \in LocalEvent, PublishLocal(e)
        PROVE  SentInv'
    <3>1. ~Known(seen, e.id, now)
      BY <2>3 DEF PublishLocal, SentInv, Known, PurgeExpired
    <3> QED
      BY <2>1, <2>3, <3>1, IngestAssumption DEF PublishLocal
  <2>4. CASE Sweep
    BY <2>4 DEF Sweep, history, SentInv, Remembered, PastEventSentOnce
  <2>5. CASE Tick
    BY <2>5, RetentionCovers, IngestAssumption
       DEF Tick, store, history, SentInv, Remembered, PastEventSentOnce, TypeOK
  <2>6. CASE UNCHANGED vars
    BY <2>6 DEF vars, store, history, SentInv, Remembered, PastEventSentOnce
  <2> QED
    BY <2>2, <2>3, <2>4, <2>5, <2>6 DEF Next
<1> QED
  BY <1>1, <1>2, TypeCorrect, PTL DEF Spec

\* A node hands an event on once, unless the event was dated in the future
\* when it arrived.
THEOREM LoopFree == Spec => []PastEventSentOnce
<1>1. SentInv => PastEventSentOnce
  BY DEF SentInv
<1> QED
  BY <1>1, SentInvariant, PTL

-----------------------------------------------------------------------------
\* The listed source of a live event is where that event came from.
THEOREM SourceCorrect == Spec => []SourceOfLiveEvent
<1>1. Init => SourceOfLiveEvent
  BY DEF Init, SourceOfLiveEvent, LiveFreshEvents
<1>2. TypeOK /\ SourceOfLiveEvent /\ [Next]_vars => SourceOfLiveEvent'
  <2> SUFFICES ASSUME TypeOK, SourceOfLiveEvent, [Next]_vars,
                      NEW x \in LiveFreshEvents(entries', now')
               PROVE  sources'[StoreKey(x)] = via'[x]
    BY DEF SourceOfLiveEvent
  <2>1. x \in entries' /\ IsLiveFresh(x, now')
    BY DEF LiveFreshEvents
  <2>2. now' \in Nat /\ now \in Nat /\ now <= now'
    BY IngestAssumption
       DEF TypeOK, Next, vars, store, history, Ingest, PublishLocal, Sweep, Tick
  <2>3. ASSUME x \in entries PROVE sources[StoreKey(x)] = via[x]
    <3>1. x \in Event /\ x.created_at \in Nat /\ x.expiration \in Nat
      BY <2>3, EventAssumption DEF TypeOK
    <3>2. IsLiveFresh(x, now)
      BY <2>1, <2>2, <3>1, StoreConfigAssumption DEF IsLiveFresh, SaturatingSub
    <3> QED
      BY <2>3, <3>2 DEF SourceOfLiveEvent, LiveFreshEvents
  <2>4. ASSUME NEW e \in Event, NEW s \in Peer \union {Local}, Accepted(e, s)
        PROVE  sources'[StoreKey(x)] = via'[x]
    <3>1. /\ sources' = [sources EXCEPT ![StoreKey(e)] = s]
          /\ via' = [via EXCEPT ![e] = s]
          /\ StoreKey(e) \in Key
      BY <2>4 DEF Accepted, RecordSource, Key
    <3>2. CASE x = e
      BY <3>1, <3>2 DEF TypeOK
    <3>3. CASE x # e
      <4>1. x \in entries /\ x \in InsertEntries(entries, e)
        BY <2>1, <2>4, <3>3, InsertSubset DEF Accepted
      <4>2. StoreKey(x) # StoreKey(e)
        BY <4>1, <3>3 DEF InsertEntries, HeldAt
      <4>3. x \in Event /\ StoreKey(x) \in Key
        BY <4>1 DEF TypeOK, Key
      <4> QED
        BY <2>3, <3>1, <3>3, <4>1, <4>2, <4>3 DEF TypeOK
    <3> QED
      BY <3>2, <3>3
  <2>5. CASE Sweep
    <3>1. x \in entries /\ via'[x] = via[x] /\ StoreKey(x) \in Key /\ now' = now
      BY <2>1, <2>5 DEF Sweep, history, TypeOK, Key
    <3>2. \E e \in LiveFreshEvents(entries', now) : StoreKey(e) = StoreKey(x)
      BY <2>1, <3>1 DEF LiveFreshEvents
    <3>3. sources'[StoreKey(x)] = sources[StoreKey(x)]
      BY <2>5, <3>1, <3>2 DEF Sweep, PruneSources
    <3> QED
      BY <2>3, <3>1, <3>3
  <2>6. CASE UNCHANGED <<entries, ids, sources, sent, sentAt, via>>
    BY <2>1, <2>3, <2>6
  <2> QED
    BY <2>4, <2>5, <2>6, NextCases
<1> QED
  BY <1>1, <1>2, TypeCorrect, PTL DEF Spec

-----------------------------------------------------------------------------
(***************************************************************************)
(* No rollback.  The store forgets, so that it never falls back has to be  *)
(* read off what it still holds: of every event it ever accepted it holds  *)
(* that one or a newer one of the key, or the event is past its time, or   *)
(* so many newer events are held that a quota would discard it again.      *)
(***************************************************************************)
Newer(S, f) == {x \in S : IsNewer(x, f)}

\* What the store S knows at time t of an event f it accepted before.
Settled(S, f, t) ==
    \/ \E x \in HeldAt(S, StoreKey(f)) : x = f \/ IsNewer(x, f)
    \/ IsRemovable(f, t)
    \/ Cardinality(Newer(ByAuthor(S, f.pubkey), f)) >= MaxEventsPerPubkey
    \/ Cardinality(Newer(S, f)) >= EventStoreMax

RollbackInv ==
    /\ StoreMonotonic
    /\ \A e \in entries : sent[e] > 0
    /\ \A f \in Event : sent[f] > 0 => Settled(entries, f, now)

\* The order of events is strict ...
LEMMA NewerStrict ==
    ASSUME NEW e \in Event, NEW f \in Event
    PROVE  ~(IsNewer(e, f) /\ (e = f \/ IsNewer(f, e)))
BY EventAssumption DEF IsNewer

\* ... and transitive.
LEMMA NewerTransitive ==
    ASSUME NEW e \in Event, NEW f \in Event, NEW g \in Event,
           IsNewer(e, f), IsNewer(f, g)
    PROVE  IsNewer(e, g)
BY EventAssumption DEF IsNewer

\* More elements do not make a set smaller.
LEMMA Larger ==
    ASSUME NEW S, NEW T, IsFiniteSet(T), NEW n \in Nat, Cardinality(S) >= n, S \subseteq T
    PROVE  Cardinality(T) >= n
<1>1. /\ IsFiniteSet(S) /\ Cardinality(S) <= Cardinality(T)
      /\ Cardinality(S) \in Nat /\ Cardinality(T) \in Nat
  BY FS_Subset, FS_CardinalityType
<1> QED
  BY <1>1

\* Nor does one new element in exchange for another.
LEMMA Exchanged ==
    ASSUME NEW S, NEW T, IsFiniteSet(S), IsFiniteSet(T), NEW n \in Nat,
           Cardinality(S) >= n, NEW x, NEW y, y \notin S, y \in T, S \ {x} \subseteq T
    PROVE  Cardinality(T) >= n
<1>1. Cardinality(S) \in Nat
  BY FS_CardinalityType
<1>2. CASE x \in S
  <2>1. IsFiniteSet(S \ {x}) /\ Cardinality(S \ {x}) = Cardinality(S) - 1
    BY <1>2, FS_RemoveElement
  <2>2. Cardinality((S \ {x}) \union {y}) = Cardinality(S \ {x}) + 1
    BY <2>1, FS_AddElement
  <2>3. Cardinality((S \ {x}) \union {y}) >= n
    BY <1>1, <2>1, <2>2
  <2> QED
    BY <2>3, Larger
<1>3. CASE x \notin S
  <2>1. S \subseteq T
    BY <1>3
  <2> QED
    BY <2>1, Larger
<1> QED
  BY <1>2, <1>3

\* With at most one entry too many, oldest_among() goes and nothing else.
LEMMA KeepNewestShape ==
    ASSUME NEW S, S \subseteq Event, IsFiniteSet(S), NEW n \in Nat,
           Cardinality(S) <= n + 1
    PROVE  \/ KeepNewest(S, n) = S
           \/ \E o \in S : /\ \A x \in S \ {o} : IsNewer(x, o)
                           /\ KeepNewest(S, n) = S \ {o}
                           /\ Cardinality(S \ {o}) = n
<1>1. Cardinality(S) \in Nat
  BY FS_CardinalityType
<1>2. ASSUME NEW e \in S, NEW T, T \subseteq S, e \notin T
      PROVE  Cardinality(T) <= Cardinality(S) - 1
  <2>1. IsFiniteSet(S \ {e}) /\ Cardinality(S \ {e}) = Cardinality(S) - 1
    BY FS_RemoveElement
  <2>2. T \subseteq S \ {e}
    BY <1>2
  <2> QED
    BY <2>1, <2>2, FS_Subset
<1>3. ASSUME NEW e \in S
      PROVE  /\ {f \in S : IsNewer(f, e)} \subseteq S /\ e \notin {f \in S : IsNewer(f, e)}
             /\ IsFiniteSet({f \in S : IsNewer(f, e)})
             /\ Cardinality({f \in S : IsNewer(f, e)}) \in Nat
  <2>1. {f \in S : IsNewer(f, e)} \subseteq S /\ e \notin {f \in S : IsNewer(f, e)}
    BY NewerStrict
  <2> QED
    BY <2>1, FS_Subset, FS_CardinalityType
<1>4. CASE Cardinality(S) <= n
  <2>1. ASSUME NEW e \in S PROVE Cardinality({f \in S : IsNewer(f, e)}) < n
    <3>1. Cardinality({f \in S : IsNewer(f, e)}) <= Cardinality(S) - 1
      BY <1>2, <1>3
    <3>2. Cardinality({f \in S : IsNewer(f, e)}) \in Nat
      BY <1>3
    <3> QED
      BY <3>1, <3>2, <1>1, <1>4
  <2> QED
    BY <2>1 DEF KeepNewest
<1>5. CASE Cardinality(S) = n + 1
  <2>1. S # {}
    BY <1>5, FS_EmptySet
  <2>2. PICK o \in S : \A f \in S \ {o} : IsNewer(f, o)
    BY <2>1, OldestExists
  <2>3. IsFiniteSet(S \ {o}) /\ Cardinality(S \ {o}) = n
    BY <1>5, <1>1, FS_RemoveElement
  <2>4. ASSUME NEW e \in S \ {o} PROVE Cardinality({f \in S : IsNewer(f, e)}) < n
    <3>1. {f \in S : IsNewer(f, e)} \subseteq (S \ {o}) \ {e}
      BY <2>2, NewerStrict
    <3>2. /\ IsFiniteSet((S \ {o}) \ {e})
          /\ Cardinality((S \ {o}) \ {e}) = n - 1
      BY <2>3, FS_RemoveElement
    <3>3. Cardinality({f \in S : IsNewer(f, e)}) <= n - 1
      BY <3>1, <3>2, FS_Subset
    <3>4. Cardinality({f \in S : IsNewer(f, e)}) \in Nat
      BY <1>3
    <3> QED
      BY <3>3, <3>4
  <2>5. {f \in S : IsNewer(f, o)} = S \ {o}
    BY <2>2, NewerStrict
  <2>6. KeepNewest(S, n) = S \ {o}
    BY <2>3, <2>4, <2>5 DEF KeepNewest
  <2> QED
    BY <2>2, <2>3, <2>6
<1>6. Cardinality(S) <= n \/ Cardinality(S) = n + 1
  BY <1>1
<1> QED
  BY <1>4, <1>5, <1>6

\* The victim of a quota: the oldest entry of the author, or of all, when
\* exactly as many newer ones stay.
QuotaVictim(S, o, pk) ==
    \/ /\ o.pubkey = pk
       /\ \A x \in ByAuthor(S, pk) \ {o} : IsNewer(x, o)
       /\ Cardinality(ByAuthor(S, pk) \ {o}) = MaxEventsPerPubkey
    \/ /\ \A x \in S \ {o} : IsNewer(x, o)
       /\ Cardinality(S \ {o}) = EventStoreMax

\* insert() of a new key discards at most one event, however the two quotas
\* follow each other; it may be the new one.
LEMMA InsertShape ==
    ASSUME NEW S, S \subseteq Event, Bounded(S), NEW e \in Event,
           HeldAt(S, StoreKey(e)) = {}
    PROVE  \/ InsertEntries(S, e) = S \union {e}
           \/ \E o \in S \union {e} : /\ InsertEntries(S, e) = (S \union {e}) \ {o}
                                      /\ QuotaVictim(S \union {e}, o, e.pubkey)
<1> DEFINE grown == S \union {e}
           own == ByAuthor(grown, e.pubkey)
           trimmed == (grown \ own) \union KeepNewest(own, MaxEventsPerPubkey)
<1>1. InsertEntries(S, e) = KeepNewest(trimmed, EventStoreMax)
  BY DEF InsertEntries, EnforceCapacity, EnforcePubkeyQuota, ByAuthor
<1>2. /\ grown \subseteq Event /\ IsFiniteSet(grown)
      /\ Cardinality(grown) \in Nat /\ Cardinality(grown) <= EventStoreMax + 1
  <2>1. IsFiniteSet(S) /\ Cardinality(S) \in Nat /\ Cardinality(S) <= EventStoreMax
    BY FS_CardinalityType DEF Bounded
  <2> QED
    BY <2>1, AddOne, StoreConfigAssumption
<1>3. /\ own \subseteq grown /\ IsFiniteSet(own)
      /\ Cardinality(own) <= MaxEventsPerPubkey + 1
  <2>1. own = ByAuthor(S, e.pubkey) \union {e} /\ own \subseteq grown
    BY DEF ByAuthor
  <2>2. IsFiniteSet(ByAuthor(S, e.pubkey))
    BY FS_Subset DEF Bounded, ByAuthor
  <2>3. /\ Cardinality(ByAuthor(S, e.pubkey)) <= MaxEventsPerPubkey
        /\ Cardinality(ByAuthor(S, e.pubkey)) \in Nat
    BY <2>2, FS_CardinalityType DEF Bounded
  <2> HIDE DEF own
  <2> QED
    BY <2>1, <2>2, <2>3, AddOne, StoreConfigAssumption
<1> HIDE DEF own, grown
<1>4. \/ KeepNewest(own, MaxEventsPerPubkey) = own
      \/ \E o \in own : /\ \A x \in own \ {o} : IsNewer(x, o)
                        /\ KeepNewest(own, MaxEventsPerPubkey) = own \ {o}
                        /\ Cardinality(own \ {o}) = MaxEventsPerPubkey
  BY <1>2, <1>3, KeepNewestShape, StoreConfigAssumption
<1>5. CASE KeepNewest(own, MaxEventsPerPubkey) = own
  <2>1. trimmed = grown
    BY <1>3, <1>5
  <2>2. \/ KeepNewest(grown, EventStoreMax) = grown
        \/ \E o \in grown : /\ \A x \in grown \ {o} : IsNewer(x, o)
                            /\ KeepNewest(grown, EventStoreMax) = grown \ {o}
                            /\ Cardinality(grown \ {o}) = EventStoreMax
    BY <1>2, KeepNewestShape, StoreConfigAssumption
  <2> QED
    BY <1>1, <2>1, <2>2 DEF QuotaVictim, grown
<1>6. ASSUME NEW o \in own,
             \A x \in own \ {o} : IsNewer(x, o),
             KeepNewest(own, MaxEventsPerPubkey) = own \ {o},
             Cardinality(own \ {o}) = MaxEventsPerPubkey
      PROVE  /\ InsertEntries(S, e) = grown \ {o}
             /\ QuotaVictim(grown, o, e.pubkey)
  <2>1. trimmed = grown \ {o}
    BY <1>3, <1>6
  <2>2. o \in grown /\ o.pubkey = e.pubkey
    BY <1>3 DEF own, ByAuthor
  <2>3. /\ IsFiniteSet(grown \ {o}) /\ Cardinality(grown \ {o}) \in Nat
        /\ Cardinality(grown \ {o}) <= EventStoreMax
    <3>1. IsFiniteSet(grown \ {o}) /\ Cardinality(grown \ {o}) = Cardinality(grown) - 1
      BY <1>2, <2>2, FS_RemoveElement
    <3>2. Cardinality(grown \ {o}) \in Nat
      BY <3>1, FS_CardinalityType
    <3> QED
      BY <1>2, <3>1, <3>2, StoreConfigAssumption
  <2>4. KeepNewest(grown \ {o}, EventStoreMax) = grown \ {o}
    <3>1. \/ KeepNewest(grown \ {o}, EventStoreMax) = grown \ {o}
          \/ \E p \in grown \ {o} : Cardinality((grown \ {o}) \ {p}) = EventStoreMax
      BY <1>2, <2>3, KeepNewestShape, StoreConfigAssumption
    <3>2. ASSUME NEW p \in grown \ {o} PROVE Cardinality((grown \ {o}) \ {p}) # EventStoreMax
      <4>1. Cardinality((grown \ {o}) \ {p}) = Cardinality(grown \ {o}) - 1
        BY <2>3, FS_RemoveElement
      <4> QED
        BY <4>1, <2>3, StoreConfigAssumption
    <3> QED
      BY <3>1, <3>2
  <2>5. QuotaVictim(grown, o, e.pubkey)
    BY <1>6, <2>2 DEF QuotaVictim, own
  <2> QED
    BY <1>1, <2>1, <2>4, <2>5
<1> QED
  BY <1>3, <1>4, <1>5, <1>6 DEF grown

\* A replacement settles what was settled: e takes the place of the event x.
LEMMA SettledReplace ==
    ASSUME NEW S, S \subseteq Event, IsFiniteSet(S), NEW e \in Event, e \notin S,
           NEW x \in S, StoreKey(x) = StoreKey(e), IsNewer(e, x),
           NEW f \in Event, NEW t, Settled(S, f, t) \/ f = e
    PROVE  Settled((S \ {x}) \union {e}, f, t)
<1> DEFINE T == (S \ {x}) \union {e}
<1>1. IsFiniteSet(T) /\ T \subseteq Event
  BY FS_RemoveElement, FS_AddElement
<1>2. x.pubkey = e.pubkey
  BY DEF StoreKey
<1>3. ASSUME IsNewer(x, f) PROVE IsNewer(e, f)
  BY <1>3, NewerTransitive
<1>4. CASE f = e
  BY <1>4 DEF Settled, HeldAt
<1>5. ASSUME NEW y \in HeldAt(S, StoreKey(f)), y = f \/ IsNewer(y, f)
      PROVE  Settled(T, f, t)
  <2>1. CASE y = x
    BY <2>1, <1>3, <1>5 DEF Settled, HeldAt
  <2>2. CASE y # x
    BY <2>2, <1>5 DEF Settled, HeldAt
  <2> QED
    BY <2>1, <2>2
<1>6. CASE Cardinality(Newer(ByAuthor(S, f.pubkey), f)) >= MaxEventsPerPubkey
  <2> DEFINE A == Newer(ByAuthor(S, f.pubkey), f)
             B == Newer(ByAuthor(T, f.pubkey), f)
  <2>1. IsFiniteSet(A) /\ IsFiniteSet(B)
    BY <1>1, FS_Subset DEF Newer, ByAuthor
  <2>2. A \ {x} \subseteq B /\ e \notin A
    BY DEF Newer, ByAuthor
  <2>3. x \in A => e \in B
    BY <1>2, <1>3 DEF Newer, ByAuthor
  <2> HIDE DEF A, B
  <2>4. Cardinality(B) >= MaxEventsPerPubkey
    <3>1. CASE x \in A
      BY <3>1, <1>6, <2>1, <2>2, <2>3, Exchanged, StoreConfigAssumption DEF A
    <3>2. CASE x \notin A
      <4>1. A \subseteq B
        BY <3>2, <2>2
      <4> QED
        BY <4>1, <1>6, <2>1, Larger, StoreConfigAssumption DEF A
    <3> QED
      BY <3>1, <3>2
  <2> QED
    BY <2>4 DEF Settled, B
<1>7. CASE Cardinality(Newer(S, f)) >= EventStoreMax
  <2> DEFINE A == Newer(S, f)
             B == Newer(T, f)
  <2>1. IsFiniteSet(A) /\ IsFiniteSet(B)
    BY <1>1, FS_Subset DEF Newer
  <2>2. A \ {x} \subseteq B /\ e \notin A
    BY DEF Newer
  <2>3. x \in A => e \in B
    BY <1>3 DEF Newer
  <2> HIDE DEF A, B
  <2>4. Cardinality(B) >= EventStoreMax
    <3>1. CASE x \in A
      BY <3>1, <1>7, <2>1, <2>2, <2>3, Exchanged, StoreConfigAssumption DEF A
    <3>2. CASE x \notin A
      <4>1. A \subseteq B
        BY <3>2, <2>2
      <4> QED
        BY <4>1, <1>7, <2>1, Larger, StoreConfigAssumption DEF A
    <3> QED
      BY <3>1, <3>2
  <2> QED
    BY <2>4 DEF Settled, B
<1>8. CASE IsRemovable(f, t)
  BY <1>8 DEF Settled
<1> QED
  BY <1>4, <1>5, <1>6, <1>7, <1>8 DEF Settled

\* What holds of the victim of a quota holds of everything older: as many
\* newer events stay as the quota allows.
LEMMA BelowVictim ==
    ASSUME NEW S, S \subseteq Event, IsFiniteSet(S), NEW o \in S, NEW pk,
           QuotaVictim(S, o, pk), NEW f \in Event, f = o \/ IsNewer(o, f),
           f.pubkey = o.pubkey \/ o.pubkey # pk
             \/ ~(\A x \in ByAuthor(S, pk) \ {o} : IsNewer(x, o)),
           NEW t
    PROVE  Settled(S \ {o}, f, t)
<1>1. ASSUME NEW x \in S \ {o}, IsNewer(x, o) PROVE IsNewer(x, f)
  BY <1>1, NewerTransitive
<1>2. CASE /\ o.pubkey = pk
           /\ \A x \in ByAuthor(S, pk) \ {o} : IsNewer(x, o)
           /\ Cardinality(ByAuthor(S, pk) \ {o}) = MaxEventsPerPubkey
  <2>1. Newer(ByAuthor(S \ {o}, f.pubkey), f) = ByAuthor(S, pk) \ {o}
    BY <1>1, <1>2 DEF Newer, ByAuthor
  <2> QED
    BY <1>2, <2>1, StoreConfigAssumption DEF Settled
<1>3. CASE /\ \A x \in S \ {o} : IsNewer(x, o)
           /\ Cardinality(S \ {o}) = EventStoreMax
  <2>1. Newer(S \ {o}, f) = S \ {o}
    BY <1>1, <1>3 DEF Newer
  <2> QED
    BY <1>3, <2>1, StoreConfigAssumption DEF Settled
<1> QED
  BY <1>2, <1>3 DEF QuotaVictim

\* So does the insertion of a new key, whichever event the quotas discard.
LEMMA SettledInsert ==
    ASSUME NEW S, S \subseteq Event, Bounded(S), NEW e \in Event, e \notin S,
           HeldAt(S, StoreKey(e)) = {},
           NEW f \in Event, NEW t, Settled(S, f, t) \/ f = e
    PROVE  Settled(InsertEntries(S, e), f, t)
<1> DEFINE G == S \union {e}
<1>1. IsFiniteSet(G) /\ G \subseteq Event
  BY FS_AddElement DEF Bounded
<1>2. CASE InsertEntries(S, e) = G
  <2>1. Newer(ByAuthor(S, f.pubkey), f) \subseteq Newer(ByAuthor(G, f.pubkey), f)
    BY DEF Newer, ByAuthor
  <2>2. Newer(S, f) \subseteq Newer(G, f)
    BY DEF Newer
  <2>3. /\ IsFiniteSet(Newer(ByAuthor(G, f.pubkey), f))
        /\ IsFiniteSet(Newer(G, f))
    <3>1. Newer(ByAuthor(G, f.pubkey), f) \subseteq G /\ Newer(G, f) \subseteq G
      BY DEF Newer, ByAuthor
    <3> QED
      BY <3>1, <1>1, FS_Subset
  <2>4. CASE f = e
    BY <2>4, <1>2 DEF Settled, HeldAt
  <2>5. CASE IsRemovable(f, t) \/ \E x \in HeldAt(S, StoreKey(f)) : x = f \/ IsNewer(x, f)
    BY <2>5, <1>2 DEF Settled, HeldAt
  <2>6. CASE Cardinality(Newer(ByAuthor(S, f.pubkey), f)) >= MaxEventsPerPubkey
    BY <2>1, <2>3, <2>6, <1>2, Larger, StoreConfigAssumption DEF Settled
  <2>7. CASE Cardinality(Newer(S, f)) >= EventStoreMax
    BY <2>2, <2>3, <2>7, <1>2, Larger, StoreConfigAssumption DEF Settled
  <2> QED
    BY <2>4, <2>5, <2>6, <2>7 DEF Settled
<1>3. ASSUME NEW o \in G, InsertEntries(S, e) = G \ {o}, QuotaVictim(G, o, e.pubkey)
      PROVE  Settled(InsertEntries(S, e), f, t)
  <2> DEFINE T == G \ {o}
  <2> SUFFICES Settled(T, f, t)
    BY <1>3
  <2>1. IsFiniteSet(T)
    BY <1>1, FS_RemoveElement
  <2>2. ASSUME f = o \/ IsNewer(o, f), f.pubkey = o.pubkey
        PROVE  Settled(T, f, t)
    BY <2>2, <1>1, <1>3, BelowVictim
  <2>3. CASE f = e
    <3>1. CASE o = e
      BY <2>2, <2>3, <3>1
    <3>2. CASE o # e
      BY <2>3, <3>2 DEF Settled, HeldAt
    <3> QED
      BY <3>1, <3>2
  <2>4. ASSUME NEW x \in HeldAt(S, StoreKey(f)), x = f \/ IsNewer(x, f)
        PROVE  Settled(T, f, t)
    <3>1. CASE x = o
      BY <2>2, <2>4, <3>1 DEF HeldAt, StoreKey
    <3>2. CASE x # o
      BY <2>4, <3>2 DEF Settled, HeldAt
    <3> QED
      BY <3>1, <3>2
  <2>5. CASE Cardinality(Newer(ByAuthor(S, f.pubkey), f)) >= MaxEventsPerPubkey
    <3> DEFINE A == Newer(ByAuthor(S, f.pubkey), f)
               B == Newer(ByAuthor(T, f.pubkey), f)
    <3>1. CASE o \in A
      BY <2>2, <3>1 DEF Newer, ByAuthor
    <3>2. CASE o \notin A
      <4>1. A \subseteq B
        BY <3>2 DEF Newer, ByAuthor
      <4>2. IsFiniteSet(B)
        BY <2>1, FS_Subset DEF Newer, ByAuthor
      <4> HIDE DEF A, B
      <4>3. Cardinality(B) >= MaxEventsPerPubkey
        BY <4>1, <4>2, <2>5, Larger, StoreConfigAssumption DEF A
      <4> QED
        BY <4>3 DEF Settled, B
    <3> QED
      BY <3>1, <3>2
  <2>6. CASE Cardinality(Newer(S, f)) >= EventStoreMax
    <3> DEFINE A == Newer(S, f)
               B == Newer(T, f)
    <3>0. IsFiniteSet(A) /\ IsFiniteSet(B)
      BY <2>1, FS_Subset DEF Newer, Bounded
    <3>1. CASE o \in A /\ o.pubkey = e.pubkey
               /\ \A x \in ByAuthor(G, e.pubkey) \ {o} : IsNewer(x, o)
      <4>1. o \in S /\ IsNewer(o, f) /\ e # o
        BY <3>1 DEF Newer
      <4>2. IsNewer(e, o)
        BY <3>1, <4>1 DEF ByAuthor
      <4>3. IsNewer(e, f)
        BY <4>1, <4>2, NewerTransitive
      <4>4. e \in B /\ e \notin A /\ A \ {o} \subseteq B
        BY <4>1, <4>3 DEF Newer
      <4> HIDE DEF A, B
      <4>5. Cardinality(B) >= EventStoreMax
        BY <4>4, <3>0, <2>6, Exchanged, StoreConfigAssumption DEF A
      <4> QED
        BY <4>5 DEF Settled, B
    <3>2. CASE o \in A /\ ~(o.pubkey = e.pubkey
               /\ \A x \in ByAuthor(G, e.pubkey) \ {o} : IsNewer(x, o))
      <4>1. IsNewer(o, f)
        BY <3>2 DEF Newer
      <4> QED
        BY <4>1, <3>2, <1>1, <1>3, BelowVictim
    <3>3. CASE o \notin A
      <4>1. A \subseteq B
        BY <3>3 DEF Newer
      <4> HIDE DEF A, B
      <4>2. Cardinality(B) >= EventStoreMax
        BY <4>1, <3>0, <2>6, Larger, StoreConfigAssumption DEF A
      <4> QED
        BY <4>2 DEF Settled, B
    <3> QED
      BY <3>1, <3>2, <3>3
  <2>7. CASE IsRemovable(f, t)
    BY <2>7 DEF Settled
  <2> QED
    BY <1>3, <2>3, <2>4, <2>5, <2>6, <2>7 DEF Settled
<1> QED
  BY <1>2, <1>3, InsertShape

\* Settled for once, settled for good: time only makes more events removable.
LEMMA SettledLater ==
    ASSUME NEW S, NEW f \in Event, NEW t \in Nat, NEW u \in Nat, t <= u,
           Settled(S, f, t)
    PROVE  Settled(S, f, u)
<1>1. IsRemovable(f, t) => IsRemovable(f, u)
  BY EventAssumption, StoreConfigAssumption DEF IsRemovable, SaturatingSub
<1> QED
  BY <1>1 DEF Settled

\* With expirations that follow creation the older of two events is past its
\* time when the newer is.
LEMMA OlderRemovable ==
    ASSUME ExpirationFollowsCreation, NEW e \in Event, NEW f \in Event, NEW t \in Nat,
           e = f \/ IsNewer(e, f), IsRemovable(e, t)
    PROVE  IsRemovable(f, t)
<1>1. /\ e.created_at \in Nat /\ f.created_at \in Nat
      /\ e.expiration \in Nat /\ f.expiration \in Nat /\ FreshnessWindow \in Nat
  BY EventAssumption, StoreConfigAssumption
<1>2. e.created_at >= f.created_at
  BY <1>1 DEF IsNewer
<1>3. e.expiration >= f.expiration
  BY <1>2 DEF ExpirationFollowsCreation
<1> QED
  BY <1>1, <1>2, <1>3 DEF IsRemovable, SaturatingSub

\* What a quota discarded, and whatever is older, is discarded again on arrival.
LEMMA DiscardedAgain ==
    ASSUME NEW S, S \subseteq Event, Bounded(S), NEW e \in Event, e \notin S,
           HeldAt(S, StoreKey(e)) = {}, NEW f \in Event, IsNewer(f, e),
           f.pubkey = e.pubkey,
           \/ Cardinality(Newer(ByAuthor(S, f.pubkey), f)) >= MaxEventsPerPubkey
           \/ Cardinality(Newer(S, f)) >= EventStoreMax
    PROVE  InsertEntries(S, e) = S
<1> DEFINE A == Newer(ByAuthor(S, f.pubkey), f)
           N == Newer(S, f)
<1>1. IsFiniteSet(S) /\ IsFiniteSet(A) /\ IsFiniteSet(N) /\ e \notin A /\ e \notin N
  BY FS_Subset DEF Bounded, Newer, ByAuthor
<1>2. ASSUME NEW T, T \subseteq Event, Bounded(T), N \union {e} \subseteq T
      PROVE  FALSE
  <2>1. /\ A \union {e} \subseteq ByAuthor(T, e.pubkey)
        /\ IsFiniteSet(T) /\ IsFiniteSet(ByAuthor(T, e.pubkey))
    BY <1>2, FS_Subset DEF Newer, ByAuthor, Bounded
  <2>2. /\ Cardinality(A \union {e}) = Cardinality(A) + 1
        /\ Cardinality(N \union {e}) = Cardinality(N) + 1
    BY <1>1, FS_AddElement
  <2>3. /\ Cardinality(A) \in Nat /\ Cardinality(N) \in Nat
    BY <1>1, FS_CardinalityType
  <2>4. /\ Cardinality(A) + 1 <= MaxEventsPerPubkey
        /\ Cardinality(N) + 1 <= EventStoreMax
    <3>1. /\ Cardinality(A \union {e}) <= Cardinality(ByAuthor(T, e.pubkey))
          /\ Cardinality(N \union {e}) <= Cardinality(T)
      BY <1>2, <2>1, FS_Subset
    <3>2. Cardinality(ByAuthor(T, e.pubkey)) \in Nat /\ Cardinality(T) \in Nat
      BY <2>1, FS_CardinalityType
    <3>3. /\ Cardinality(ByAuthor(T, e.pubkey)) <= MaxEventsPerPubkey
          /\ Cardinality(T) <= EventStoreMax
      BY <1>2 DEF Bounded
    <3> QED
      BY <2>2, <2>3, <3>1, <3>2, <3>3, StoreConfigAssumption
  <2> HIDE DEF A, N
  <2> QED
    BY <2>3, <2>4, StoreConfigAssumption DEF A, N
<1>3. Bounded(InsertEntries(S, e)) /\ InsertEntries(S, e) \subseteq Event
  BY InsertBounded, InsertSubset
<1>4. InsertEntries(S, e) # S \union {e}
  <2>1. N \union {e} \subseteq S \union {e}
    BY DEF Newer
  <2> QED
    BY <1>2, <1>3, <2>1
<1>5. ASSUME NEW o \in S \union {e}, InsertEntries(S, e) = (S \union {e}) \ {o},
             QuotaVictim(S \union {e}, o, e.pubkey), o # e
      PROVE  FALSE
  <2>1. IsNewer(e, o)
    BY <1>5 DEF QuotaVictim, ByAuthor
  <2>2. o \in Event /\ IsNewer(f, o)
    BY <2>1, <1>5, NewerTransitive
  <2>3. o \notin N
    BY <2>2, NewerStrict DEF Newer
  <2>4. N \union {e} \subseteq (S \union {e}) \ {o}
    BY <2>3, <1>5 DEF Newer
  <2> QED
    BY <1>2, <1>3, <1>5, <2>4
<1>6. (S \union {e}) \ {e} = S
  OBVIOUS
<1> QED
  BY <1>4, <1>5, <1>6, InsertShape

\* The clock never goes back.
LEMMA ClockAdvances ==
    ASSUME TypeOK, [Next]_vars
    PROVE  now \in Nat /\ now' \in Nat /\ now <= now'
BY IngestAssumption
   DEF TypeOK, Next, vars, store, history, Ingest, PublishLocal, Sweep, Tick

\* An accepted event was not held, and is neither expired nor stale.
LEMMA AcceptedIsNew ==
    ASSUME TypeOK, StoreInv, NEW e \in Event, NEW s, Accepted(e, s)
    PROVE  /\ e \notin entries /\ ~IsRemovable(e, now)
           /\ \A x \in HeldAt(entries, StoreKey(e)) : IsNewer(e, x)
           /\ sent'[e] > 0
           /\ \A f \in Event \ {e} : sent'[f] = sent[f]
<1>1. now \in Nat /\ e.created_at \in Nat /\ e.expiration \in Nat /\ FreshnessWindow \in Nat
  BY IngestAssumption, EventAssumption, StoreConfigAssumption DEF TypeOK
<1>2. e \notin entries
  BY DEF Accepted, Accepts, StoreInv, IdsMatchEntries, Ids
<1>3. ~IsRemovable(e, now)
  BY <1>1 DEF Accepted, Accepts, IsRemovable, SaturatingSub
<1> QED
  BY <1>2, <1>3 DEF Accepted, Accepts, TypeOK

\* The held events of one key are one event.
LEMMA HeldUnique ==
    ASSUME TypeOK, RollbackInv
    PROVE  OnePerKey(entries)
<1> SUFFICES ASSUME NEW x \in entries, NEW y \in entries, StoreKey(x) = StoreKey(y), x # y
             PROVE  FALSE
  BY DEF OnePerKey
<1>1. x \in Event /\ y \in Event /\ sent[x] > 0 /\ sent[y] > 0
  BY DEF TypeOK, RollbackInv
<1>2. IsNewer(x, y) /\ IsNewer(y, x)
  BY <1>1 DEF RollbackInv, StoreMonotonic
<1> QED
  BY <1>1, <1>2, NewerStrict

\* insert() keeps what is known of every event ever accepted.
LEMMA AcceptedSettles ==
    ASSUME TypeOK, StoreInv, RollbackInv, NEW e \in Event, NEW s, Accepted(e, s),
           NEW f \in Event, sent'[f] > 0
    PROVE  Settled(entries', f, now)
<1>1. /\ entries \subseteq Event /\ Bounded(entries) /\ IsFiniteSet(entries)
      /\ entries' = InsertEntries(entries, e)
  BY DEF TypeOK, StoreInv, Bounded, Accepted
<1>2. Settled(entries, f, now) \/ f = e
  BY AcceptedIsNew DEF RollbackInv
<1>3. CASE HeldAt(entries, StoreKey(e)) = {}
  BY <1>1, <1>2, <1>3, AcceptedIsNew, SettledInsert
<1>4. ASSUME NEW x \in HeldAt(entries, StoreKey(e))
      PROVE  Settled(entries', f, now)
  <2>1. x \in entries /\ StoreKey(x) = StoreKey(e)
    BY DEF HeldAt
  <2>2. HeldAt(entries, StoreKey(e)) = {x}
    BY <2>1, HeldUnique DEF HeldAt, OnePerKey
  <2>3. entries' = (entries \ {x}) \union {e}
    BY <1>1, <2>2 DEF InsertEntries
  <2> QED
    BY <1>1, <1>2, <2>1, <2>3, AcceptedIsNew, SettledReplace
<1> QED
  BY <1>3, <1>4

\* An event that is accepted although a newer one of its key was before finds
\* the store full of newer events, and leaves it as it was.
LEMMA OlderIsDiscarded ==
    ASSUME ExpirationFollowsCreation, TypeOK, StoreInv, RollbackInv,
           NEW e \in Event, NEW s, Accepted(e, s),
           NEW f \in Event, sent[f] > 0, StoreKey(f) = StoreKey(e), IsNewer(f, e)
    PROVE  entries' = entries
<1>1. /\ entries \subseteq Event /\ Bounded(entries) /\ now \in Nat
      /\ entries' = InsertEntries(entries, e) /\ f.pubkey = e.pubkey
  BY IngestAssumption DEF TypeOK, StoreInv, Accepted, StoreKey
<1>2. HeldAt(entries, StoreKey(e)) = {}
  <2> SUFFICES ASSUME NEW x \in HeldAt(entries, StoreKey(e)) PROVE FALSE
    OBVIOUS
  <2>1. x \in entries /\ x \in Event /\ StoreKey(x) = StoreKey(e) /\ IsNewer(e, x)
    BY <1>1, AcceptedIsNew DEF HeldAt
  <2>2. x = f \/ IsNewer(x, f)
    BY <2>1 DEF RollbackInv, StoreMonotonic
  <2>3. IsNewer(e, f)
    BY <2>1, <2>2, NewerTransitive
  <2> QED
    BY <2>3, NewerStrict
<1>3. Settled(entries, f, now)
  BY DEF RollbackInv
<1>4. ~IsRemovable(f, now)
  BY <1>1, AcceptedIsNew, OlderRemovable
<1>5. \/ Cardinality(Newer(ByAuthor(entries, f.pubkey), f)) >= MaxEventsPerPubkey
      \/ Cardinality(Newer(entries, f)) >= EventStoreMax
  BY <1>2, <1>3, <1>4 DEF Settled
<1> QED
  BY <1>1, <1>2, <1>5, AcceptedIsNew, DiscardedAgain

\* The inductive form of the absence of rollback.
THEOREM RollbackInvariant ==
    ASSUME ExpirationFollowsCreation
    PROVE  Spec => []RollbackInv
<1>1. Init => RollbackInv
  BY DEF Init, RollbackInv, StoreMonotonic
<1>2. TypeOK /\ StoreInv /\ RollbackInv /\ [Next]_vars => RollbackInv'
  <2> SUFFICES ASSUME TypeOK, StoreInv, RollbackInv, [Next]_vars PROVE RollbackInv'
    OBVIOUS
  <2>1. ASSUME NEW e \in Event, NEW s \in Peer \union {Local}, Accepted(e, s)
        PROVE  RollbackInv'
    <3>1. /\ entries' = InsertEntries(entries, e) /\ entries' \subseteq entries \union {e}
          /\ entries \subseteq Event
      BY <2>1, InsertSubset DEF Accepted, TypeOK
    <3>2. ASSUME NEW x \in entries', NEW f \in Event, sent'[f] > 0,
                 StoreKey(f) = StoreKey(x), f # x
          PROVE  IsNewer(x, f)
      <4>1. CASE x = e
        <5>1. sent[f] > 0
          BY <2>1, <3>2, <4>1, AcceptedIsNew
        <5>2. CASE IsNewer(f, e)
          <6>1. entries' = entries
            BY <2>1, <3>2, <4>1, <5>1, <5>2, OlderIsDiscarded
          <6> QED
            BY <6>1, <3>2, <4>1, <2>1, AcceptedIsNew
        <5> QED
          BY <3>2, <4>1, <5>2, NewerTotal
      <4>2. CASE x # e
        <5>1. x \in entries /\ StoreKey(x) # StoreKey(e)
          BY <3>1, <3>2, <4>2 DEF InsertEntries, HeldAt
        <5>2. f # e /\ sent[f] > 0
          BY <2>1, <3>2, <5>1, AcceptedIsNew
        <5> QED
          BY <3>2, <5>1, <5>2 DEF RollbackInv, StoreMonotonic
      <4> QED
        BY <4>1, <4>2
    <3>3. ASSUME NEW x \in entries' PROVE sent'[x] > 0
      BY <2>1, <3>1, AcceptedIsNew DEF RollbackInv
    <3>4. ASSUME NEW f \in Event, sent'[f] > 0 PROVE Settled(entries', f, now')
      <4>1. Settled(entries', f, now)
        BY <2>1, <3>4, AcceptedSettles
      <4> QED
        BY <4>1, ClockAdvances, SettledLater
    <3> QED
      BY <3>2, <3>3, <3>4 DEF RollbackInv, StoreMonotonic
  <2>2. CASE Sweep
    <3>1. /\ entries' = entries \ SweepVictims(entries, now)
          /\ entries \subseteq Event /\ sent' = sent /\ now' = now /\ now \in Nat
      BY <2>2, ClockAdvances DEF Sweep, history, TypeOK
    <3>2. ASSUME NEW f \in Event, sent[f] > 0 PROVE Settled(entries', f, now')
      <4>1. CASE IsRemovable(f, now)
        BY <3>1, <4>1 DEF Settled
      <4>2. CASE ~IsRemovable(f, now)
        <5>1. ASSUME NEW x \in entries, x = f \/ IsNewer(x, f) PROVE x \in entries'
          <6>1. ~IsRemovable(x, now)
            BY <3>1, <4>2, <5>1, OlderRemovable
          <6> QED
            BY <3>1, <6>1 DEF SweepVictims
        <5>2. /\ Newer(entries', f) = Newer(entries, f)
              /\ Newer(ByAuthor(entries', f.pubkey), f) = Newer(ByAuthor(entries, f.pubkey), f)
          BY <3>1, <5>1 DEF Newer, ByAuthor
        <5>3. Settled(entries, f, now)
          BY <3>2 DEF RollbackInv
        <5> QED
          BY <5>1, <5>2, <5>3, <3>1 DEF Settled, HeldAt
      <4> QED
        BY <4>1, <4>2
    <3>3. (\A x \in entries : sent[x] > 0)' /\ StoreMonotonic'
      BY <3>1 DEF RollbackInv, StoreMonotonic
    <3> QED
      BY <3>1, <3>2, <3>3 DEF RollbackInv
  <2>3. CASE UNCHANGED <<entries, ids, sources, sent, sentAt, via>>
    <3>1. ASSUME NEW f \in Event, sent'[f] > 0 PROVE Settled(entries', f, now')
      BY <2>3, <3>1, ClockAdvances, SettledLater DEF RollbackInv
    <3> QED
      BY <2>3, <3>1 DEF RollbackInv, StoreMonotonic
  <2> QED
    BY <2>1, <2>2, <2>3, NextCases
<1> QED
  BY <1>1, <1>2, TypeCorrect, StoreConsistent, PTL DEF Spec

\* When expirations follow creation, as they do for the events this program
\* signs, the store never falls back to an older event of a key, for all its
\* quotas, its sweep and its forgetful duplicate cache.
THEOREM NeverRollsBack == Spec => []NoRollback
<1>1. CASE ExpirationFollowsCreation
  <2>1. RollbackInv => NoRollback
    BY DEF RollbackInv, NoRollback
  <2> QED
    BY <1>1, <2>1, RollbackInvariant, PTL
<1>2. CASE ~ExpirationFollowsCreation
  <2>1. NoRollback
    BY <1>2 DEF NoRollback
  <2> QED
    BY <2>1, PTL
<1> QED
  BY <1>1, <1>2

-----------------------------------------------------------------------------
(***************************************************************************)
(* The store implements a last-writer-wins register per key.               *)
(***************************************************************************)
WasAccepted(k) == {f \in Event : sent[f] > 0 /\ StoreKey(f) = k}

\* What NewestAccepted says of a key.
LEMMA NewestOf ==
    ASSUME NEW k \in Key
    PROVE  NewestAccepted[k] =
             {f \in WasAccepted(k) : \A g \in WasAccepted(k) \ {f} : IsNewer(f, g)}
BY DEF NewestAccepted, WasAccepted

\* Accepting e makes it the newest of its key, unless a newer one was accepted
\* before; the other keys keep theirs.
LEMMA NewestStep ==
    ASSUME TypeOK, NEW e \in Event, sent'[e] > 0,
           \A f \in Event \ {e} : sent'[f] = sent[f]
    PROVE  /\ \A k \in Key \ {StoreKey(e)} : NewestAccepted'[k] = NewestAccepted[k]
           /\ (\A f \in WasAccepted(StoreKey(e)) : f = e \/ IsNewer(e, f))
                => NewestAccepted'[StoreKey(e)] = {e}
           /\ (\E f \in WasAccepted(StoreKey(e)) : IsNewer(f, e))
                => NewestAccepted'[StoreKey(e)] = NewestAccepted[StoreKey(e)]
<1> DEFINE k == StoreKey(e)
<1>1. k \in Key
  BY DEF Key
<1>2. WasAccepted(k)' = WasAccepted(k) \union {e}
  BY DEF WasAccepted
<1>3. /\ NewestAccepted[k] =
           {f \in WasAccepted(k) : \A g \in WasAccepted(k) \ {f} : IsNewer(f, g)}
      /\ NewestAccepted'[k] =
           {f \in WasAccepted(k)' : \A g \in WasAccepted(k)' \ {f} : IsNewer(f, g)}
  BY <1>1 DEF NewestAccepted, WasAccepted
<1>4. WasAccepted(k) \subseteq Event
  BY DEF WasAccepted
<1>5. ASSUME NEW j \in Key \ {k} PROVE NewestAccepted'[j] = NewestAccepted[j]
  <2>1. WasAccepted(j)' = WasAccepted(j)
    BY DEF WasAccepted
  <2>2. /\ NewestAccepted[j] =
             {f \in WasAccepted(j) : \A g \in WasAccepted(j) \ {f} : IsNewer(f, g)}
        /\ NewestAccepted'[j] =
             {f \in WasAccepted(j)' : \A g \in WasAccepted(j)' \ {f} : IsNewer(f, g)}
    BY DEF NewestAccepted, WasAccepted
  <2> QED
    BY <2>1, <2>2
<1> HIDE DEF k
<1>6. ASSUME \A f \in WasAccepted(k) : f = e \/ IsNewer(e, f)
      PROVE  NewestAccepted'[k] = {e}
  <2>1. e \in NewestAccepted'[k]
    BY <1>2, <1>3, <1>6
  <2>2. ASSUME NEW f \in NewestAccepted'[k], f # e PROVE FALSE
    <3>1. IsNewer(f, e) /\ f \in WasAccepted(k)
      BY <2>2, <1>2, <1>3
    <3> QED
      BY <3>1, <2>2, <1>4, <1>6, NewerStrict
  <2> QED
    BY <2>1, <2>2
<1>7. ASSUME NEW f \in WasAccepted(k), IsNewer(f, e)
      PROVE  NewestAccepted'[k] = NewestAccepted[k]
  <2>1. ASSUME NEW x \in NewestAccepted[k] PROVE x \in NewestAccepted'[k]
    <3>1. x \in WasAccepted(k) /\ \A g \in WasAccepted(k) \ {x} : IsNewer(x, g)
      BY <2>1, <1>3
    <3>2. IsNewer(x, e)
      BY <3>1, <1>4, <1>7, NewerTransitive
    <3> QED
      BY <3>1, <3>2, <1>2, <1>3
  <2>2. ASSUME NEW x \in NewestAccepted'[k] PROVE x \in NewestAccepted[k]
    <3>1. x \in WasAccepted(k)' /\ \A g \in WasAccepted(k)' \ {x} : IsNewer(x, g)
      BY <2>2, <1>3
    <3>2. x # e
      BY <3>1, <1>2, <1>4, <1>7, NewerStrict
    <3> QED
      BY <3>1, <3>2, <1>2, <1>3
  <2> QED
    BY <2>1, <2>2
<1> QED
  BY <1>5, <1>6, <1>7 DEF k

\* Replacement, tombstones, quotas, sweep and the duplicate cache together
\* implement registers in which the last writer wins and which may be
\* forgotten: an accepted event is a Write or, when a newer one was accepted
\* before, leaves the register as it is; a sweep forgets.
THEOREM LastWriterWins ==
    ASSUME ExpirationFollowsCreation
    PROVE  Spec => ImplementsRegister
<1>1. Init => Register!Init
  <2> SUFFICES ASSUME Init PROVE Register!Init
    OBVIOUS
  <2>1. NewestAccepted = [k \in Key |-> {}]
    BY DEF Init, NewestAccepted
  <2> QED
    BY <2>1 DEF Init, Register!Init, Register!StoreKey, Key, StoreKey
<1>2. TypeOK /\ StoreInv /\ RollbackInv /\ [Next]_vars
        => [Register!Next]_<<entries, NewestAccepted>>
  <2> SUFFICES ASSUME TypeOK, StoreInv, RollbackInv, [Next]_vars
               PROVE  [Register!Next]_<<entries, NewestAccepted>>
    OBVIOUS
  <2>1. ASSUME NEW e \in Event, NEW s \in Peer \union {Local}, Accepted(e, s)
        PROVE  [Register!Next]_<<entries, NewestAccepted>>
    <3> DEFINE k == StoreKey(e)
    <3>1. /\ k \in Key
          /\ entries' = InsertEntries(entries, e) /\ entries' \subseteq entries \union {e}
      BY <2>1, InsertSubset DEF Accepted, Key
    <3>2. sent'[e] > 0 /\ \A f \in Event \ {e} : sent'[f] = sent[f]
      BY <2>1, AcceptedIsNew
    <3>3. /\ NewestAccepted = [j \in Key |-> NewestAccepted[j]]
          /\ NewestAccepted' = [j \in Key |-> NewestAccepted'[j]]
      BY DEF NewestAccepted
    <3>4. CASE \E f \in WasAccepted(k) : IsNewer(f, e)
      <4>1. entries' = entries
        BY <2>1, <3>4, OlderIsDiscarded DEF WasAccepted
      <4>2. \A j \in Key : NewestAccepted'[j] = NewestAccepted[j]
        BY <3>2, <3>4, NewestStep
      <4>3. NewestAccepted' = NewestAccepted
        BY <3>3, <4>2
      <4> QED
        BY <4>1, <4>3
    <3>5. CASE \A f \in WasAccepted(k) : f = e \/ IsNewer(e, f)
      <4>1. \A f \in NewestAccepted[k] : f = e \/ IsNewer(e, f)
        BY <3>1, <3>5, NewestOf
      <4>2. /\ NewestAccepted'[k] = {e}
            /\ \A j \in Key \ {k} : NewestAccepted'[j] = NewestAccepted[j]
        BY <3>2, <3>5, NewestStep
      <4>3. NewestAccepted' = [NewestAccepted EXCEPT ![k] = {e}]
        BY <3>3, <4>2
      <4>4. entries' \subseteq (entries \ HeldAt(entries, k)) \union {e}
        BY <3>1 DEF InsertEntries, HeldAt
      <4>5. Register!Write(e)
        BY <4>1, <4>3, <4>4
           DEF Register!Write, Register!StoreKey, Register!IsNewer, Register!HeldAt,
               StoreKey, IsNewer, HeldAt
      <4> QED
        BY <4>5 DEF Register!Next
    <3>6. WasAccepted(k) \subseteq Event
      BY DEF WasAccepted
    <3> QED
      BY <3>4, <3>5, <3>6, NewerTotal
  <2>2. CASE sent' = sent /\ entries' \subseteq entries
    <3>1. NewestAccepted' = NewestAccepted
      BY <2>2 DEF NewestAccepted
    <3> QED
      BY <2>2, <3>1 DEF Register!Next, Register!Forget
  <2>3. Sweep => sent' = sent /\ entries' \subseteq entries
    BY DEF Sweep, history
  <2> QED
    BY <2>1, <2>2, <2>3, NextCases
<1> QED
  BY <1>1, <1>2, RollbackInvariant, TypeCorrect, StoreConsistent, PTL
     DEF Spec, ImplementsRegister, Register!Spec
=============================================================================
