----------------------------- MODULE IngestState ----------------------------
(***************************************************************************)
(* The receive-and-publish state of one node (src/p2p/ingest.rs): the      *)
(* event store, the duplicate cache and the map of source peers, all       *)
(* behind the one mutex GossipHub holds, so every operation is one step.   *)
(* Time is the clock the store and the cache share; it passes between      *)
(* operations.                                                             *)
(***************************************************************************)
EXTENDS EventStore

CONSTANTS
    LocalEvent,    \* the events this node signs itself
    Peer,          \* addresses of the peers events arrive from
    Local,         \* the empty source list of a locally published event
    NoSource,      \* a key without an entry in the source map
    MaxClockSkew,  \* max_clock_skew_sec: how far ahead created_at may lie
    MaxClock       \* bound on the clock

ASSUME IngestAssumption ==
    /\ LocalEvent \subseteq Event
    /\ MaxClockSkew \in Nat
    /\ MaxClock \in Nat

Key == {StoreKey(e) : e \in Event}

ASSUME SourceAssumption ==
    /\ Local \notin Peer
    /\ NoSource \notin Peer \union {Local}

VARIABLES
    now,       \* the clock (unix seconds)
    entries,   \* EventStore::entries, the events held
    ids,       \* EventStore::ids
    seen,      \* DedupCache::seen
    sources    \* IngestState::sources

\* History, read by the properties and by no guard of the code.
VARIABLES
    minted,    \* local events signed so far: only these can be echoed back
    sent,      \* how often each event was handed on for propagation
    sentAt,    \* when it was handed on first
    via        \* where the event came from when it was last accepted

store == <<entries, ids, seen, sources>>
history == <<minted, sent, sentAt, via>>
vars == <<now, store, history>>

TypeOK ==
    /\ now \in 0..MaxClock
    /\ entries \subseteq Event
    /\ ids \subseteq Ids(Event)
    /\ seen \subseteq [id : Ids(Event), at : 0..MaxClock]
    /\ sources \in [Key -> Peer \union {Local, NoSource}]
    /\ minted \subseteq LocalEvent
    /\ sent \in [Event -> Nat]
    /\ sentAt \in [Event -> 0..MaxClock]
    /\ via \in [Event -> Peer \union {Local, NoSource}]

Init ==
    /\ now = 0
    /\ entries = {}
    /\ ids = {}
    /\ seen = {}
    /\ sources = [k \in Key |-> NoSource]
    /\ minted = {}
    /\ sent = [e \in Event |-> 0]
    /\ sentAt = [e \in Event |-> 0]
    /\ via = [e \in Event |-> NoSource]

-----------------------------------------------------------------------------
\* Mutant: publish_local leaves the list as it was.
MutRecordSource(k, source) ==
    IF source = Local THEN sources ELSE [sources EXCEPT ![k] = source]

\* record_source() and its counterpart in publish_local(): the list is made
\* anew for the accepted event.
RecordSource(k, source) == [sources EXCEPT ![k] = source]

\* EventStore::insert of e, with the source the caller records for it.  The
\* refusals of insert leave the store as it is and answer "do not propagate".
InsertStep(e, source) ==
    IF Accepts(entries, ids, e, now)
    THEN /\ entries' = InsertEntries(entries, e)
         /\ ids' = InsertIds(entries, ids, e)
         /\ sources' = RecordSource(StoreKey(e), source)
         /\ sent' = [sent EXCEPT ![e] = @ + 1]
         /\ sentAt' = [sentAt EXCEPT ![e] = IF sent[e] = 0 THEN now ELSE @]
         /\ via' = [via EXCEPT ![e] = source]
    ELSE UNCHANGED <<entries, ids, sources, sent, sentAt, via>>

\* The one check of verify_incoming that depends on state; an event that
\* fails the others changes nothing.
VerifyIncoming(e) == e.created_at <= now + MaxClockSkew

\* ingest(): an EVENT from peer p.
Ingest(e, p) ==
    /\ e \in LocalEvent => e \in minted
    /\ VerifyIncoming(e)
    /\ seen' = CheckAndInsert(seen, e.id, now)
    /\ IF Known(seen, e.id, now)
       THEN UNCHANGED <<entries, ids, sources, sent, sentAt, via>>
       ELSE InsertStep(e, p)
    /\ UNCHANGED <<now, minted>>

\* publish_local(): the answer of the duplicate check is not looked at.
PublishLocal(e) ==
    /\ e \in LocalEvent \ minted
    /\ minted' = minted \union {e}
    /\ seen' = CheckAndInsert(seen, e.id, now)
    /\ InsertStep(e, Local)
    /\ UNCHANGED now

\* prune_sources(): the map keeps the keys of live, fresh events.
PruneSources(S) ==
    [k \in Key |-> IF \E e \in LiveFreshEvents(S, now) : StoreKey(e) = k
                   THEN sources[k] ELSE NoSource]

\* sweep(): the sources are pruned only when an entry was removed.
Sweep ==
    LET victims == SweepVictims(entries, now)
    IN  /\ entries' = entries \ victims
        /\ ids' = ids \ Ids(victims)
        /\ sources' = IF victims # {} THEN PruneSources(entries \ victims)
                                      ELSE sources
        /\ UNCHANGED <<now, seen, history>>

Tick ==
    /\ now < MaxClock
    /\ now' = now + 1
    /\ UNCHANGED <<store, history>>

Next ==
    \/ \E e \in Event, p \in Peer : Ingest(e, p)
    \/ \E e \in LocalEvent : PublishLocal(e)
    \/ Sweep
    \/ Tick

Spec == Init /\ [][Next]_vars

\* Time passes, and spawn_sweep_loop sweeps periodically for as long as the
\* node runs; nothing obliges a peer to send or a user to publish.
FairSpec == Spec /\ WF_vars(Tick) /\ WF_vars(Sweep)

-----------------------------------------------------------------------------
(***************************************************************************)
(* Properties.                                                             *)
(***************************************************************************)

\* The id set kept beside the map names exactly the events held, whatever
\* was replaced, evicted or swept.  A leftover id would refuse its event for
\* ever ("second barrier"); a missing one would let it in twice.
IdsMatchEntries == ids = Ids(entries)

\* Neither limit is ever exceeded, although replacements skip both checks
\* and the quotas run only after the new entry is in.
WithinQuotas ==
    /\ Cardinality(entries) <= EventStoreMax
    /\ \A e \in entries :
          Cardinality({f \in entries : f.pubkey = e.pubkey}) <= MaxEventsPerPubkey

\* The store is consistent with itself and within its limits.
StoreSound == IdsMatchEntries /\ WithinQuotas

\* "The store never falls back to an older event" (StoreMonotonic of the
\* repository's own model, which has neither quotas nor a clock): a held
\* event is the newest ever accepted for its key.
StoreMonotonic ==
    \A e \in entries : \A f \in Event :
        sent[f] > 0 /\ StoreKey(f) = StoreKey(e) /\ f # e => IsNewer(e, f)

\* No rollback, when expirations follow creation: once a tombstone was swept,
\* what it had beaten is stale too, and once a quota discarded it, whatever is
\* older is discarded again on arrival.
NoRollback == ExpirationFollowsCreation => StoreMonotonic

\* Loop freedom: an event that was not dated in the future when it was first
\* handed on is handed on once.  When the duplicate cache forgets it, it is
\* stale; this is why the retention must cover the freshness window.
PastEventSentOnce ==
    \A e \in Event : sent[e] > 0 /\ e.created_at <= sentAt[e] => sent[e] = 1

\* The source a row of the channel list shows is the peer the shown event
\* itself came from, never that of an older event of the key.
SourceOfLiveEvent ==
    \A e \in LiveFreshEvents(entries, now) : sources[StoreKey(e)] = via[e]

\* What the periodic sweep is for: an event past its time leaves the store...
StaleCollected ==
    \A e \in Event : (e \in entries /\ IsRemovable(e, now)) ~> (e \notin entries)

\* ... and the source of a key whose entry a quota discarded does not stay
\* behind, although a sweep prunes sources only when it removes an entry.
OrphanSourceCollected ==
    \A k \in Key : (sources[k] # NoSource /\ HeldAt(entries, k) = {})
                        ~> (sources[k] = NoSource \/ HeldAt(entries, k) # {})

\* Both sides of the sweep.
Collected == StaleCollected /\ OrphanSourceCollected

\* The newest event of each key that was ever accepted.
NewestAccepted ==
    [k \in Key |->
        LET accepted == {f \in Event : sent[f] > 0 /\ StoreKey(f) = k}
        IN  {f \in accepted : \A g \in accepted \ {f} : IsNewer(f, g)}]

Register == INSTANCE ChannelRegister WITH held <- entries, newest <- NewestAccepted

\* Replacement, tombstones, quotas, sweep and the duplicate cache together
\* are no more than registers in which the last writer wins and which may be
\* forgotten.  An event that arrives again after it was forgotten is either
\* still the newest of its key or forgotten again in the same step.  Like
\* NoRollback this needs expirations that follow creation.
ImplementsRegister == Register!Spec
=============================================================================
