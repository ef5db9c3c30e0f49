----------------------------- MODULE EventStore -----------------------------
(***************************************************************************)
(* The replaceable-event store and the duplicate cache of one node         *)
(* (src/event/store.rs), as operators on their values.  The store is the   *)
(* set of events it holds, at most one per replacement key; `ids' is the   *)
(* separate set of held event ids the code keeps beside the map; the       *)
(* duplicate cache is a set of [id, at] records.  The state machines of    *)
(* IngestState and GossipNet are built from these operators.               *)
(***************************************************************************)
EXTENDS Integers, FiniteSets

CONSTANTS
    Event,               \* the signed events that exist in the instance
    FreshnessWindow,     \* freshness_window_sec
    DedupMinRetention,   \* DEDUP_MIN_RETENTION_SEC
    EventStoreMax,       \* event_store_max
    MaxEventsPerPubkey   \* max_events_per_pubkey

(***************************************************************************)
(* An event is a record with the fields EventSummary extracts: id,         *)
(* pubkey, d, created_at, expiration and ended.  An id is a hash of the    *)
(* content, so it determines the event; the lexicographic order of the hex *)
(* ids is the order of natural numbers.                                    *)
(***************************************************************************)
ASSUME EventAssumption ==
    /\ \A e \in Event : /\ e.id \in Nat
                        /\ e.created_at \in Nat
                        /\ e.expiration \in Nat
                        /\ e.ended \in BOOLEAN
    /\ \A e, f \in Event : e.id = f.id => e = f

ASSUME StoreConfigAssumption ==
    /\ FreshnessWindow \in Nat
    /\ DedupMinRetention \in Nat
    /\ EventStoreMax \in Nat
    /\ MaxEventsPerPubkey \in Nat

SaturatingSub(a, b) == IF a >= b THEN a - b ELSE 0

(***************************************************************************)
(* EventStore                                                              *)
(***************************************************************************)

\* EventSummary::key without the kind: verification admits a single kind.
StoreKey(e) == <<e.pubkey, e.d>>

Ids(S) == {e.id : e \in S}

\* Last write wins; equal times are ordered by the event id.
IsNewer(new, old) ==
    \/ new.created_at > old.created_at
    \/ new.created_at = old.created_at /\ new.id > old.id

IsRemovable(e, now) ==
    \/ now > e.expiration
    \/ SaturatingSub(now, e.created_at) > FreshnessWindow

IsLiveFresh(e, now) ==
    /\ ~e.ended
    /\ now <= e.expiration
    /\ SaturatingSub(now, e.created_at) <= FreshnessWindow

LiveFreshEvents(entries, now) == {e \in entries : IsLiveFresh(e, now)}

\* Dropping the oldest while more than n remain keeps the n newest.
KeepNewest(S, n) == {e \in S : Cardinality({f \in S : IsNewer(f, e)}) < n}

EnforcePubkeyQuota(entries, pubkey) ==
    LET own == {e \in entries : e.pubkey = pubkey}
    IN  (entries \ own) \union KeepNewest(own, MaxEventsPerPubkey)

EnforceCapacity(entries) == KeepNewest(entries, EventStoreMax)

HeldAt(entries, k) == {x \in entries : StoreKey(x) = k}

\* Mutant: an ended entry counts as an empty place.
MutAccepts(entries, ids, e, now) ==
    /\ e.id \notin ids
    /\ now <= e.expiration
    /\ SaturatingSub(now, e.created_at) <= FreshnessWindow
    /\ \A x \in HeldAt(entries, StoreKey(e)) : x.ended \/ IsNewer(e, x)

\* insert() answers Stored or Replaced rather than Rejected.
Accepts(entries, ids, e, now) ==
    /\ e.id \notin ids
    /\ now <= e.expiration
    /\ SaturatingSub(now, e.created_at) <= FreshnessWindow
    /\ \A x \in HeldAt(entries, StoreKey(e)) : IsNewer(e, x)

\* Mutant: room is made before a new key is inserted, so that it always fits.
MutInsertEntries(entries, e) ==
    LET others == {x \in entries : x.pubkey # e.pubkey}
    IN  {e} \union
        IF HeldAt(entries, StoreKey(e)) # {}
        THEN entries \ HeldAt(entries, StoreKey(e))
        ELSE KeepNewest(others \union KeepNewest(entries \ others, MaxEventsPerPubkey - 1),
                        EventStoreMax - 1)

\* A replacement leaves the quotas alone; a new key is inserted first and
\* the quotas enforced afterwards, so the victim may be e itself.
InsertEntries(entries, e) ==
    LET existing == HeldAt(entries, StoreKey(e))
    IN  IF existing # {}
        THEN (entries \ existing) \union {e}
        ELSE EnforceCapacity(EnforcePubkeyQuota(entries \union {e}, e.pubkey))

\* What insert() discards: the replaced event, or the victims of the quotas.
InsertVictims(entries, e) == (entries \union {e}) \ InsertEntries(entries, e)

\* Mutant: the id of a discarded event stays in the set.
MutInsertIds(entries, ids, e) == ids \union {e.id}

InsertIds(entries, ids, e) ==
    (ids \union {e.id}) \ Ids(InsertVictims(entries, e))

\* Mutant: tombstones are never collected.
MutSweepVictims(entries, now) ==
    {e \in entries : IsRemovable(e, now) /\ ~e.ended}

SweepVictims(entries, now) == {e \in entries : IsRemovable(e, now)}

(***************************************************************************)
(* DedupCache                                                              *)
(***************************************************************************)

\* Mutant: the retention does not follow the configured window.
MutRetention == DedupMinRetention

Retention ==
    IF FreshnessWindow >= DedupMinRetention THEN FreshnessWindow
                                            ELSE DedupMinRetention

PurgeExpired(seen, now) ==
    {r \in seen : SaturatingSub(now, r.at) <= Retention}

\* The answer of check_and_insert.
Known(seen, id, now) == \E r \in PurgeExpired(seen, now) : r.id = id

\* Mutant: the record carries the time it expires at.
MutCheckAndInsert(seen, id, now) ==
    PurgeExpired(seen, now) \union
        (IF Known(seen, id, now) THEN {} ELSE {[id |-> id, at |-> now + Retention]})

\* Its effect: purge, then record a first sight with the time; the time of
\* an entry that is still there is not refreshed.
CheckAndInsert(seen, id, now) ==
    PurgeExpired(seen, now)
        \union (IF Known(seen, id, now) THEN {} ELSE {[id |-> id, at |-> now]})

-----------------------------------------------------------------------------
(***************************************************************************)
(* Conditions on events and limits that properties refer to.               *)
(***************************************************************************)

\* Events expire in the order they were created: so it is for the events
\* ChannelListing::sign makes, which expire a fixed time after created_at.
\* A foreign event carries whatever expiration its author gave it.
ExpirationFollowsCreation ==
    \A e, f \in Event : e.created_at >= f.created_at => e.expiration >= f.expiration

\* At most one event per replacement key, as in the map of a store.
OnePerKey(S) == \A e, f \in S : StoreKey(e) = StoreKey(f) => e = f

\* No quota ever bites: an event of every channel there is fits into a store.
StoresRoomy ==
    \A S \in SUBSET Event : OnePerKey(S) =>
        /\ IsFiniteSet(S) /\ Cardinality(S) <= EventStoreMax
        /\ \A e \in S :
              Cardinality({f \in S : f.pubkey = e.pubkey}) <= MaxEventsPerPubkey
=============================================================================
