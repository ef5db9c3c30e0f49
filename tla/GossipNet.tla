------------------------------ MODULE GossipNet -----------------------------
(***************************************************************************)
(* A network of nodes that gossip events: GossipHub (src/p2p/hub.rs) with  *)
(* the connection pump of src/p2p/runtime.rs and the connection-time       *)
(* synchronisation of src/p2p/sync.rs.  Each node has the store and the    *)
(* duplicate cache of EventStore.  A node stores an event under one lock   *)
(* and hands it to its peers under another, later; connections come up,    *)
(* register and synchronise in between.                                    *)
(***************************************************************************)
EXTENDS EventStore, Sequences

CONSTANTS
    Node,       \* running nodes
    Link,       \* <<a, b>>: a dials b
    Up,         \* the links that are established already
    Author,     \* the node that signs each event
    MaxClock,   \* bound on the clock
    MaxDial,    \* bound on the connections made
    MaxDrop     \* bound on the connections that fail

Edge == Link \union {<<l[2], l[1]>> : l \in Link}

ASSUME NetAssumption ==
    /\ Link \subseteq Node \X Node
    /\ \A l \in Link : <<l[2], l[1]>> \notin Link
    /\ Up \subseteq Link
    /\ Author \in [Event -> Node]
    /\ MaxClock \in Nat
    /\ MaxDial \in Nat
    /\ MaxDrop \in Nat

\* Not counting: no SYNC_REQ of this node is unanswered on the connection.
Settled == -1

VARIABLES
    now,         \* the clock; the nodes agree on it
    published,   \* events signed so far
    entries,     \* EventStore::entries of each node
    ids,         \* EventStore::ids of each node
    seen,        \* DedupCache::seen of each node
    outgoing,    \* events a node stored and has yet to hand to its peers
    registered,  \* <<n, m>>: n's hub has the connection to m among its peers
    wire,        \* messages on their way: n's outbox and the socket to m
    received,    \* SyncCounter::received, or Settled
    streaming,   \* sync_in_flight: n is sending m a SYNC response
    stream,      \* the events of it n still has to send
    dials,       \* connections made so far
    drops        \* connections that failed so far

stores == <<entries, ids, seen>>
bounds == <<dials, drops>>
conns == <<registered, wire, received, streaming, stream>>
vars == <<now, published, stores, outgoing, conns, bounds>>

Msg ==
    [type : {"hello", "ack", "sync_done"}]
        \union [type : {"sync_req"}, since : Nat]
        \union [type : {"event"}, event : Event]

TypeOK ==
    /\ now \in 0..MaxClock
    /\ published \subseteq Event
    /\ entries \in [Node -> SUBSET Event]
    /\ ids \in [Node -> SUBSET Ids(Event)]
    /\ seen \in [Node -> SUBSET [id : Ids(Event), at : 0..MaxClock]]
    /\ outgoing \in [Node -> SUBSET [event : Event, from : Node]]
    /\ registered \subseteq Edge
    /\ wire \in [Edge -> Seq(Msg)]
    /\ received \in [Edge -> Settled..EventStoreMax]
    /\ streaming \subseteq Edge
    /\ stream \in [Edge -> SUBSET Event]
    /\ dials \in 0..MaxDial
    /\ drops \in 0..MaxDrop

\* The stores are empty; the connections in Up have synchronised.
Init ==
    /\ now = 0
    /\ published = {}
    /\ entries = [n \in Node |-> {}]
    /\ ids = [n \in Node |-> {}]
    /\ seen = [n \in Node |-> {}]
    /\ outgoing = [n \in Node |-> {}]
    /\ registered = Up \union {<<l[2], l[1]>> : l \in Up}
    /\ wire = [x \in Edge |-> <<>>]
    /\ received = [x \in Edge |-> Settled]
    /\ streaming = {}
    /\ stream = [x \in Edge |-> {}]
    /\ dials = 0
    /\ drops = 0

-----------------------------------------------------------------------------
EventMsg(e) == [type |-> "event", event |-> e]
Plain(t) == [type |-> t]

\* sync_req_since(): the request reaches back over the freshness window.
SyncReq == [type |-> "sync_req", since |-> SaturatingSub(now, FreshnessWindow)]

\* The stores of node n after EventStore::insert(e); an accepted event is
\* due for broadcast, except to the peer it came from.
Insert(n, e, from) ==
    IF Accepts(entries[n], ids[n], e, now)
    THEN /\ entries' = [entries EXCEPT ![n] = InsertEntries(@, e)]
         /\ ids' = [ids EXCEPT ![n] = InsertIds(entries[n], @, e)]
         /\ outgoing' = [outgoing EXCEPT ![n] = @ \union {[event |-> e, from |-> from]}]
    ELSE UNCHANGED <<entries, ids, outgoing>>

\* GossipHub::publish_local, first half: under the state lock.
PublishLocal(e) ==
    LET n == Author[e]
    IN  /\ e \notin published
        /\ e.created_at = now
        /\ published' = published \union {e}
        /\ seen' = [seen EXCEPT ![n] = CheckAndInsert(@, e.id, now)]
        /\ Insert(n, e, n)
        /\ UNCHANGED <<now, conns, bounds>>

\* GossipHub::broadcast_event: under the peers lock, to whoever is
\* registered by now, except the source.
Broadcast(n, o) ==
    /\ o \in outgoing[n]
    /\ outgoing' = [outgoing EXCEPT ![n] = @ \ {o}]
    /\ wire' = [x \in Edge |->
                  IF x[1] = n /\ x \in registered /\ x[2] # o.from
                  THEN Append(wire[x], EventMsg(o.event)) ELSE wire[x]]
    /\ UNCHANGED <<now, published, stores, registered, received, streaming, stream, bounds>>

-----------------------------------------------------------------------------
Down(l) ==
    /\ l \notin registered /\ <<l[2], l[1]>> \notin registered
    /\ wire[l] = <<>> /\ wire[<<l[2], l[1]>>] = <<>>

\* handle_outbound_conn(): connect and send HELLO.
Dial(l) ==
    /\ Down(l)
    /\ dials < MaxDial
    /\ dials' = dials + 1
    /\ wire' = [wire EXCEPT ![l] = <<Plain("hello")>>]
    /\ UNCHANGED <<now, published, stores, outgoing, registered, received, streaming,
                   stream, drops>>

\* SessionAction::Established at n: the hub learns of the connection before
\* SYNC_REQ is sent.  `first' are the replies the session sent before.
Established(n, m, first) ==
    /\ registered' = registered \union {<<n, m>>}
    /\ received' = [received EXCEPT ![<<n, m>>] = 0]
    /\ wire' = [wire EXCEPT ![<<m, n>>] = Tail(@),
                            ![<<n, m>>] = @ \o first \o <<SyncReq>>]
    /\ UNCHANGED <<streaming, stream>>

\* The connection is closed and both ends forget it.  What a node that has
\* not noticed yet still sends is lost.
Close(n, m) ==
    /\ registered' = registered \ {<<n, m>>, <<m, n>>}
    /\ received' = [received EXCEPT ![<<n, m>>] = Settled, ![<<m, n>>] = Settled]
    /\ wire' = [wire EXCEPT ![<<n, m>>] = <<>>, ![<<m, n>>] = <<>>]
    /\ streaming' = streaming \ {<<n, m>>, <<m, n>>}
    /\ stream' = [stream EXCEPT ![<<n, m>>] = {}, ![<<m, n>>] = {}]

\* A connection fails at any time.
Drop(l) ==
    /\ ~Down(l)
    /\ drops < MaxDrop
    /\ drops' = drops + 1
    /\ Close(l[1], l[2])
    /\ UNCHANGED <<now, published, stores, outgoing, dials>>

\* SyncCounter: events are counted while a SYNC response is awaited,
\* gossiped ones among them.
Counted(x) == IF received[x] = Settled THEN Settled ELSE received[x] + 1

\* handle_deliver() of EVENT: too many before SYNC_DONE close the connection,
\* else hub.on_event() ingests.
DeliverEvent(n, m, e) ==
    IF Counted(<<n, m>>) > EventStoreMax
    THEN Close(n, m) /\ UNCHANGED <<stores, outgoing>>
    ELSE /\ received' = [received EXCEPT ![<<n, m>>] = Counted(<<n, m>>)]
         /\ wire' = [wire EXCEPT ![<<m, n>>] = Tail(@)]
         /\ UNCHANGED <<registered, streaming, stream>>
         /\ seen' = [seen EXCEPT ![n] = CheckAndInsert(@, e.id, now)]
         /\ IF Known(seen[n], e.id, now)
            THEN UNCHANGED <<entries, ids, outgoing>>
            ELSE Insert(n, e, m)

\* Mutant: the lower end of the window is excluded.
MutSyncEvents(n, since) ==
    {e \in LiveFreshEvents(entries[n], now) :
        e.created_at > since /\ e.created_at > SaturatingSub(now, FreshnessWindow)}

\* sync_events(): what is live and fresh, and not before `since'; tombstones
\* are not part of it.  The store holds at most event_store_max events, so
\* the truncation to that number never bites.
SyncEvents(n, since) ==
    {e \in LiveFreshEvents(entries[n], now) :
        e.created_at >= since /\ e.created_at >= SaturatingSub(now, FreshnessWindow)}

\* handle_deliver() of SYNC_REQ: the response is fixed now and streamed by a
\* task of its own; a request during a response is ignored.
DeliverSyncReq(n, m, since) ==
    /\ streaming' = streaming \union {<<n, m>>}
    /\ stream' = IF <<n, m>> \in streaming THEN stream
                 ELSE [stream EXCEPT ![<<n, m>>] = SyncEvents(n, since)]
    /\ wire' = [wire EXCEPT ![<<m, n>>] = Tail(@)]
    /\ UNCHANGED <<stores, outgoing, registered, received>>

\* Mutant: the end of a response asks for another one.
MutDeliverSyncDone(n, m) ==
    /\ received' = [received EXCEPT ![<<n, m>>] = 0]
    /\ wire' = [wire EXCEPT ![<<m, n>>] = Tail(@), ![<<n, m>>] = Append(@, SyncReq)]
    /\ UNCHANGED <<stores, outgoing, registered, streaming, stream>>

DeliverSyncDone(n, m) ==
    /\ received' = [received EXCEPT ![<<n, m>>] = Settled]
    /\ wire' = [wire EXCEPT ![<<m, n>>] = Tail(@)]
    /\ UNCHANGED <<stores, outgoing, registered, streaming, stream>>

\* The pump of n's connection to m reads the next message.
Deliver(n, m) ==
    /\ wire[<<m, n>>] # <<>>
    /\ LET msg == Head(wire[<<m, n>>])
       IN  \/ /\ msg.type = "hello"
              /\ Established(n, m, <<Plain("ack")>>)
              /\ UNCHANGED <<stores, outgoing>>
           \/ /\ msg.type = "ack"
              /\ Established(n, m, <<>>)
              /\ UNCHANGED <<stores, outgoing>>
           \/ msg.type = "event" /\ DeliverEvent(n, m, msg.event)
           \/ msg.type = "sync_req" /\ DeliverSyncReq(n, m, msg.since)
           \/ msg.type = "sync_done" /\ DeliverSyncDone(n, m)
    /\ UNCHANGED <<now, published, bounds>>

\* Mutant: an empty response ends without SYNC_DONE.
MutStreamStep(n, m) ==
    LET left == stream[<<n, m>>]
    IN  /\ <<n, m>> \in streaming
        /\ \E e \in left :
              /\ \A f \in left \ {e} : IsNewer(f, e)
              /\ wire' = [wire EXCEPT ![<<n, m>>] = Append(@, EventMsg(e))]
              /\ stream' = [stream EXCEPT ![<<n, m>>] = @ \ {e}]
        /\ streaming' = IF stream'[<<n, m>>] = {} THEN streaming \ {<<n, m>>} ELSE streaming
        /\ UNCHANGED <<now, published, stores, outgoing, registered, received, bounds>>

\* stream_sync_response(): oldest first, then SYNC_DONE.
StreamStep(n, m) ==
    LET left == stream[<<n, m>>]
    IN  /\ <<n, m>> \in streaming
        /\ \/ \E e \in left :
                 /\ \A f \in left \ {e} : IsNewer(f, e)
                 /\ wire' = [wire EXCEPT ![<<n, m>>] = Append(@, EventMsg(e))]
                 /\ stream' = [stream EXCEPT ![<<n, m>>] = @ \ {e}]
                 /\ UNCHANGED streaming
           \/ /\ left = {}
              /\ wire' = [wire EXCEPT ![<<n, m>>] = Append(@, Plain("sync_done"))]
              /\ streaming' = streaming \ {<<n, m>>}
              /\ UNCHANGED stream
        /\ UNCHANGED <<now, published, stores, outgoing, registered, received, bounds>>

\* The periodic sweep of node n.
Sweep(n) ==
    LET victims == SweepVictims(entries[n], now)
    IN  /\ victims # {}
        /\ entries' = [entries EXCEPT ![n] = @ \ victims]
        /\ ids' = [ids EXCEPT ![n] = @ \ Ids(victims)]
        /\ UNCHANGED <<now, published, seen, outgoing, conns, bounds>>

Tick ==
    /\ now < MaxClock
    /\ now' = now + 1
    /\ UNCHANGED <<published, stores, outgoing, conns, bounds>>

Progress ==
    \/ \E n \in Node : \E o \in outgoing[n] : Broadcast(n, o)
    \/ \E x \in Edge : Deliver(x[1], x[2]) \/ StreamStep(x[1], x[2])

Next ==
    \/ Progress
    \/ \E e \in Event : PublishLocal(e)
    \/ \E l \in Link : Dial(l) \/ Drop(l)
    \/ \E n \in Node : Sweep(n)
    \/ Tick

Spec == Init /\ [][Next]_vars

\* Tasks run and sockets deliver; connections need not come up or stay up.
FairSpec ==
    /\ Spec
    /\ \A n \in Node : WF_vars(\E o \in outgoing[n] : Broadcast(n, o))
    /\ \A x \in Edge : WF_vars(Deliver(x[1], x[2])) /\ WF_vars(StreamStep(x[1], x[2]))

-----------------------------------------------------------------------------
(***************************************************************************)
(* Properties.                                                             *)
(***************************************************************************)

Quiescent ==
    /\ \A n \in Node : outgoing[n] = {}
    /\ \A x \in Edge : wire[x] = <<>> /\ x \notin streaming

Connected(n, m) == <<n, m>> \in registered /\ <<m, n>> \in registered

HoldsAtLeast(m, e) ==
    \E f \in HeldAt(entries[m], StoreKey(e)) : f = e \/ IsNewer(f, e)

\* No gap: when nothing is under way, connected nodes agree on the listings
\* that are live: each has the other's, or a newer event in its place, no
\* matter when the event was stored relative to registration, SYNC_REQ,
\* the SYNC response and the broadcast.
LiveAgreement ==
    Quiescent => \A x \in registered : Connected(x[1], x[2]) =>
        \A e \in LiveFreshEvents(entries[x[1]], now) : HoldsAtLeast(x[2], e)

\* A SYNC response in flight is never waited for without end: a node that
\* counts has its request, the response or SYNC_DONE still under way.
SyncAnswered ==
    \A x \in registered :
        received[x] # Settled =>
            \/ \E i \in DOMAIN wire[x] : wire[x][i].type = "sync_req"
            \/ <<x[2], x[1]>> \in streaming
            \/ \E i \in DOMAIN wire[<<x[2], x[1]>>] :
                  wire[<<x[2], x[1]>>][i].type = "sync_done"

\* The state of the network is well formed, and no node waits in vain.
NetworkSound == TypeOK /\ SyncAnswered

\* Propagation terminates: the network falls quiet after every publication and
\* every new connection, also when the connections form a cycle.
EventuallyQuiescent == []<>Quiescent
=============================================================================
