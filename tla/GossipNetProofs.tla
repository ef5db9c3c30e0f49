-------------------------- MODULE GossipNetProofs ---------------------------
(***************************************************************************)
(* Proofs about the gossip network, for any nodes, links and events: the   *)
(* state stays well formed, the counter of a SYNC response within the      *)
(* store's capacity, and a node that counts a response always has its      *)
(* request, the response or its end still under way.  As long as no quota  *)
(* discards a listing and events expire in the order of creation, two      *)
(* connected nodes agree whenever nothing is under way.                    *)
(***************************************************************************)
EXTENDS GossipNet, SequenceTheorems, FiniteSetTheorems, TLAPS

-----------------------------------------------------------------------------
(***************************************************************************)
(* The inductive invariant.                                                *)
(***************************************************************************)

\* The messages on their way in s, and whether one of type t is.
Msgs(s) == {s[i] : i \in DOMAIN s}
Has(s, t) == \E msg \in Msgs(s) : msg.type = t

Back(x) == <<x[2], x[1]>>

\* SyncAnswered at one end of a connection, whether the hub knows the
\* connection or not: the messages decide, not the registration.
Answered(x) ==
    received[x] # Settled => \/ Has(wire[x], "sync_req")
                             \/ Back(x) \in streaming
                             \/ Has(wire[Back(x)], "sync_done")

NetInv == TypeOK /\ \A x \in Edge : Answered(x)

-----------------------------------------------------------------------------
(***************************************************************************)
(* Connections and messages.                                               *)
(***************************************************************************)

\* A connection has two different ends, and both are edges.
LEMMA EdgeEnds ==
    ASSUME NEW x \in Edge
    PROVE  /\ x = <<x[1], x[2]>> /\ x[1] \in Node /\ x[2] \in Node
           /\ Back(x) \in Edge /\ Back(x) # x /\ Back(Back(x)) = x
           /\ Back(x)[1] = x[2] /\ Back(x)[2] = x[1]
  <1>1. \A l \in Link : /\ l = <<l[1], l[2]>> /\ l[1] \in Node /\ l[2] \in Node
                        /\ l[1] # l[2]
    BY NetAssumption
  <1>2. CASE x \in Link
    <2>1. x = <<x[1], x[2]>> /\ x[1] \in Node /\ x[2] \in Node /\ x[1] # x[2]
      BY <1>1, <1>2
    <2>2. Back(x) \in Edge
      BY <1>2 DEF Edge, Back
    <2> QED BY <2>1, <2>2 DEF Back
  <1>3. CASE x \notin Link
    <2>1. PICK l \in Link : x = <<l[2], l[1]>>
      BY <1>3 DEF Edge
    <2>2. x[1] = l[2] /\ x[2] = l[1] /\ Back(x) = l
      BY <1>1, <2>1 DEF Back
    <2> QED BY <1>1, <2>1, <2>2 DEF Edge, Back
  <1> QED BY <1>2, <1>3

\* What a message carries.
LEMMA MsgParts ==
    ASSUME NEW msg \in Msg
    PROVE  /\ msg.type \in {"hello", "ack", "sync_done", "sync_req", "event"}
           /\ msg.type = "sync_req" => msg.since \in Nat
           /\ msg.type = "event" => msg.event \in Event
  BY DEF Msg

\* The messages the nodes send.
LEMMA MsgsSent ==
    ASSUME TypeOK
    PROVE  /\ \A e \in Event : EventMsg(e) \in Msg /\ EventMsg(e).type = "event"
           /\ \A t \in {"hello", "ack", "sync_done"} : Plain(t) \in Msg /\ Plain(t).type = t
           /\ SyncReq \in Msg /\ SyncReq.type = "sync_req"
  <1>1. SaturatingSub(now, FreshnessWindow) \in Nat
    BY NetAssumption, StoreConfigAssumption DEF TypeOK, SaturatingSub
  <1>2. \A e \in Event : EventMsg(e) \in Msg /\ EventMsg(e).type = "event"
    BY DEF EventMsg, Msg
  <1>3. \A t \in {"hello", "ack", "sync_done"} : Plain(t) \in Msg /\ Plain(t).type = t
    BY DEF Plain, Msg
  <1>4. SyncReq \in Msg /\ SyncReq.type = "sync_req"
    BY <1>1 DEF SyncReq, Msg
  <1> QED BY <1>2, <1>3, <1>4

\* Two requests are never on their way together.
OneReq(s) == \A i, j \in DOMAIN s : s[i].type = "sync_req" /\ s[j].type = "sync_req" => i = j

\* Nothing is in the empty sequence.
LEMMA MsgsEmpty ==
    Msgs(<<>>) = {} /\ OneReq(<<>>) /\ \A t : ~Has(<<>>, t)
  <1>1. DOMAIN <<>> = {}
    BY EmptySeq, LenProperties
  <1> QED BY <1>1 DEF Msgs, OneReq, Has

\* One message.
LEMMA MsgsOne ==
    ASSUME NEW msg \in Msg
    PROVE  Msgs(<<msg>>) = {msg} /\ OneReq(<<msg>>) /\ \A t : Has(<<msg>>, t) <=> msg.type = t
  <1>1. DOMAIN <<msg>> = {1} /\ <<msg>>[1] = msg
    OBVIOUS
  <1>2. Msgs(<<msg>>) = {msg}
    BY <1>1 DEF Msgs
  <1> QED BY <1>1, <1>2 DEF OneReq, Has

\* One more message.
LEMMA MsgsAppend ==
    ASSUME NEW s \in Seq(Msg), NEW msg \in Msg
    PROVE  /\ Append(s, msg) \in Seq(Msg)
           /\ Msgs(Append(s, msg)) = Msgs(s) \union {msg}
           /\ \A t : Has(Append(s, msg), t) <=> Has(s, t) \/ msg.type = t
           /\ OneReq(s) /\ (msg.type = "sync_req" => ~Has(s, "sync_req"))
                 => OneReq(Append(s, msg))
           /\ s # <<>> => /\ Append(s, msg) # <<>> /\ Head(Append(s, msg)) = Head(s)
                          /\ Tail(s) \in Seq(Msg) /\ Tail(Append(s, msg)) = Append(Tail(s), msg)
  <1>1. /\ Append(s, msg) \in Seq(Msg) /\ Len(Append(s, msg)) = Len(s) + 1
        /\ \A i \in 1..Len(s) : Append(s, msg)[i] = s[i]
        /\ Append(s, msg)[Len(s) + 1] = msg
    BY AppendProperties
  <1>2. PICK k \in Nat : k = Len(s) /\ DOMAIN s = 1..k
    BY LenProperties
  <1>3. PICK u : u = Append(s, msg)
    OBVIOUS
  <1>4. /\ DOMAIN u = 1..(k + 1) /\ u[k + 1] = msg /\ \A i \in 1..k : u[i] = s[i]
    BY <1>1, <1>2, <1>3, LenProperties
  <1>5. Msgs(u) = Msgs(s) \union {msg}
    <2>1. 1..(k + 1) = (1..k) \union {k + 1}
      OBVIOUS
    <2> QED BY <1>2, <1>4, <2>1 DEF Msgs
  <1>6. \A t : Has(u, t) <=> Has(s, t) \/ msg.type = t
    BY <1>5 DEF Has
  <1>7. ASSUME OneReq(s), msg.type = "sync_req" => ~Has(s, "sync_req")
        PROVE  OneReq(u)
    <2> SUFFICES ASSUME NEW i \in 1..(k + 1), NEW j \in 1..(k + 1),
                        u[i].type = "sync_req", u[j].type = "sync_req"
                 PROVE  i = j
      BY <1>4 DEF OneReq
    <2>1. CASE i \in 1..k /\ j \in 1..k
      BY <1>2, <1>4, <1>7, <2>1 DEF OneReq
    <2>2. ASSUME NEW m \in 1..k, u[m].type = "sync_req", msg.type = "sync_req" PROVE FALSE
      <3>1. s[m] \in Msgs(s) /\ s[m].type = "sync_req"
        BY <1>2, <1>4, <2>2 DEF Msgs
      <3> QED BY <1>7, <2>2, <3>1 DEF Has
    <2>3. CASE i = k + 1
      BY <1>4, <2>2, <2>3
    <2>4. CASE j = k + 1
      BY <1>4, <2>2, <2>4
    <2> QED BY <2>1, <2>3, <2>4
  <1>8. ASSUME s # <<>>
        PROVE  /\ u # <<>> /\ Head(u) = Head(s)
               /\ Tail(s) \in Seq(Msg) /\ Tail(u) = Append(Tail(s), msg)
    BY <1>3, <1>8
  <1> QED BY <1>1, <1>3, <1>5, <1>6, <1>7, <1>8

\* The first message and the rest.
LEMMA MsgsTail ==
    ASSUME NEW s \in Seq(Msg), s # <<>>
    PROVE  /\ Head(s) \in Msg /\ Tail(s) \in Seq(Msg)
           /\ Msgs(s) = {Head(s)} \union Msgs(Tail(s))
           /\ \A t : Has(s, t) <=> Has(Tail(s), t) \/ Head(s).type = t
           /\ OneReq(s) => OneReq(Tail(s)) /\ (Head(s).type = "sync_req"
                                                  => ~Has(Tail(s), "sync_req"))
  <1>1. /\ Head(s) \in Msg /\ Tail(s) \in Seq(Msg) /\ Head(s) = s[1]
        /\ Len(s) \in Nat /\ Len(s) > 0 /\ Len(Tail(s)) = Len(s) - 1
        /\ \A i \in 1..(Len(s) - 1) : Tail(s)[i] = s[i + 1]
    BY HeadTailProperties, LenProperties, EmptySeq
  <1>2. PICK k \in Nat, r \in Seq(Msg) : Len(s) = k + 1 /\ r = Tail(s)
    <2>1. Len(s) - 1 \in Nat /\ (Len(s) - 1) + 1 = Len(s)
      BY <1>1
    <2> QED BY <1>1, <2>1
  <1>3. /\ DOMAIN s = 1..(k + 1) /\ DOMAIN r = 1..k /\ Head(s) = s[1]
        /\ \A i \in 1..k : r[i] = s[i + 1]
    <2>1. DOMAIN s = 1..Len(s) /\ DOMAIN r = 1..Len(r)
      BY LenProperties
    <2> QED BY <1>1, <1>2, <2>1
  <1>4. Msgs(s) = {Head(s)} \union Msgs(r)
    <2>1. ASSUME NEW i \in 1..(k + 1) PROVE s[i] \in {s[1]} \union Msgs(r)
      <3>1. CASE i = 1
        BY <3>1
      <3>2. CASE i # 1
        <4>1. i - 1 \in 1..k /\ (i - 1) + 1 = i
          BY <3>2
        <4> QED BY <1>3, <4>1 DEF Msgs
      <3> QED BY <3>1, <3>2
    <2>2. ASSUME NEW i \in 1..k PROVE r[i] \in Msgs(s)
      <3>1. i + 1 \in 1..(k + 1)
        OBVIOUS
      <3> QED BY <1>3, <3>1 DEF Msgs
    <2>3. s[1] \in Msgs(s)
      <3>1. 1 \in 1..(k + 1)
        OBVIOUS
      <3> QED BY <1>3, <3>1 DEF Msgs
    <2> QED BY <1>3, <2>1, <2>2, <2>3 DEF Msgs
  <1>5. \A t : Has(s, t) <=> Has(r, t) \/ Head(s).type = t
    BY <1>4 DEF Has
  <1>6. ASSUME OneReq(s)
        PROVE  OneReq(r) /\ (Head(s).type = "sync_req" => ~Has(r, "sync_req"))
    <2>1. OneReq(r)
      <3> SUFFICES ASSUME NEW i \in 1..k, NEW j \in 1..k,
                          r[i].type = "sync_req", r[j].type = "sync_req"
                   PROVE  i = j
        BY <1>3 DEF OneReq
      <3>1. i + 1 \in 1..(k + 1) /\ j + 1 \in 1..(k + 1)
        OBVIOUS
      <3>2. i + 1 = j + 1
        BY <1>3, <1>6, <3>1 DEF OneReq
      <3> QED BY <3>2
    <2>2. ASSUME s[1].type = "sync_req", NEW i \in 1..k, r[i].type = "sync_req" PROVE FALSE
      <3>1. i + 1 \in 1..(k + 1) /\ 1 \in 1..(k + 1) /\ i + 1 # 1
        OBVIOUS
      <3> QED BY <1>3, <1>6, <2>2, <3>1 DEF OneReq
    <2> QED BY <1>3, <2>1, <2>2 DEF Has, Msgs
  <1> QED BY <1>1, <1>2, <1>4, <1>5, <1>6

\* Two messages.
LEMMA TwoMsgs ==
    ASSUME NEW p \in Msg, NEW q \in Msg
    PROVE  <<p>> \o <<q>> = <<p, q>> /\ <<p, q>> \in Seq(Msg) /\ <<p, q>> # <<>>
           /\ Head(<<p, q>>) = p /\ Tail(<<p, q>>) = <<q>>
  <1>1. PICK s : s = <<p, q>>
    OBVIOUS
  <1>2. s \in Seq(Msg) /\ Len(s) = 2 /\ s[1] = p /\ s[2] = q /\ DOMAIN s = 1..2
    BY <1>1
  <1>3. <<p>> \in Seq(Msg) /\ <<q>> \in Seq(Msg)
        /\ Len(<<p>>) = 1 /\ Len(<<q>>) = 1 /\ <<p>>[1] = p /\ <<q>>[1] = q
    OBVIOUS
  <1>4. PICK u : u = <<p>> \o <<q>>
    OBVIOUS
  <1>5. u \in Seq(Msg) /\ Len(u) = 2 /\ u[1] = p /\ u[2] = q
    BY <1>3, <1>4, ConcatProperties
  <1>6. u = s
    BY <1>2, <1>5, SeqEqual
  <1>7. s # <<>> /\ Head(s) = p
    <2>1. Len(<<>>) = 0
      BY EmptySeq
    <2>2. s # <<>>
      <3>1. 0 # 2
        OBVIOUS
      <3> QED BY <1>2, <2>1, <3>1, Zenon
    <2> QED BY <1>2, <2>2, HeadTailProperties
  <1>8. Tail(s) \in Seq(Msg) /\ Len(Tail(s)) = 1 /\ Tail(s)[1] = q
    BY <1>2, <1>7, HeadTailProperties
  <1>9. Tail(s) = <<q>>
    <2>1. PICK r \in Seq(Msg) : r = Tail(s)
      BY <1>8
    <2>2. PICK v \in Seq(Msg) : v = <<q>>
      BY <1>3
    <2>3. Len(r) = 1 /\ Len(v) = 1 /\ r[1] = q /\ v[1] = q
      BY <1>3, <1>8, <2>1, <2>2
    <2>4. r = v
      BY <2>3, SeqEqual
    <2> QED BY <2>1, <2>2, <2>4
  <1> QED BY <1>1, <1>2, <1>4, <1>6, <1>7, <1>9

\* More messages behind those that are on their way.
LEMMA HasConcat ==
    ASSUME NEW s \in Seq(Msg), NEW u \in Seq(Msg), NEW t
    PROVE  /\ s \o u \in Seq(Msg)
           /\ Has(s, t) \/ Has(u, t) => Has(s \o u, t)
  <1>1. /\ s \o u \in Seq(Msg) /\ Len(s) \in Nat /\ Len(u) \in Nat
        /\ Len(s \o u) = Len(s) + Len(u)
        /\ \A i \in 1..(Len(s) + Len(u)) :
              (s \o u)[i] = IF i <= Len(s) THEN s[i] ELSE u[i - Len(s)]
    BY ConcatProperties, LenProperties
  <1>2. DOMAIN s = 1..Len(s) /\ DOMAIN u = 1..Len(u) /\ DOMAIN (s \o u) = 1..(Len(s) + Len(u))
    BY <1>1, LenProperties
  <1>3. ASSUME Has(s, t) PROVE Has(s \o u, t)
    <2>1. PICK i \in 1..Len(s) : s[i].type = t
      BY <1>2, <1>3 DEF Has, Msgs
    <2>2. i \in 1..(Len(s) + Len(u)) /\ i <= Len(s)
      BY <1>1
    <2> QED BY <1>1, <1>2, <2>1, <2>2 DEF Has, Msgs
  <1>4. ASSUME Has(u, t) PROVE Has(s \o u, t)
    <2>1. PICK i \in 1..Len(u) : u[i].type = t
      BY <1>2, <1>4 DEF Has, Msgs
    <2>2. PICK j \in Int : j = Len(s) + i
      BY <1>1
    <2>3. j \in 1..(Len(s) + Len(u)) /\ ~(j <= Len(s)) /\ j - Len(s) = i
      BY <1>1, <2>2
    <2>4. (s \o u)[j] = u[i]
      BY <1>1, <2>3
    <2> QED BY <1>2, <2>1, <2>3, <2>4 DEF Has, Msgs
  <1> QED BY <1>1, <1>3, <1>4

-----------------------------------------------------------------------------
(***************************************************************************)
(* The stores.                                                             *)
(***************************************************************************)

StoresTyped ==
    /\ entries \in [Node -> SUBSET Event]
    /\ ids \in [Node -> SUBSET Ids(Event)]
    /\ seen \in [Node -> SUBSET [id : Ids(Event), at : 0..MaxClock]]
    /\ outgoing \in [Node -> SUBSET [event : Event, from : Node]]

\* insert() keeps the stores and what is due for broadcast well formed.
LEMMA InsertTyped ==
    ASSUME TypeOK, NEW n \in Node, NEW e \in Event, NEW from \in Node, Insert(n, e, from)
    PROVE  /\ entries' \in [Node -> SUBSET Event]
           /\ ids' \in [Node -> SUBSET Ids(Event)]
           /\ outgoing' \in [Node -> SUBSET [event : Event, from : Node]]
  <1>1. /\ entries \in [Node -> SUBSET Event] /\ ids \in [Node -> SUBSET Ids(Event)]
        /\ outgoing \in [Node -> SUBSET [event : Event, from : Node]]
    BY DEF TypeOK
  <1>2. InsertEntries(entries[n], e) \subseteq entries[n] \union {e}
    BY DEF InsertEntries, EnforceCapacity, EnforcePubkeyQuota, KeepNewest
  <1>3. InsertEntries(entries[n], e) \in SUBSET Event
    BY <1>1, <1>2
  <1>4. e.id \in Ids(Event)
    BY DEF Ids
  <1>5. InsertIds(entries[n], ids[n], e) \in SUBSET Ids(Event)
    <2>1. InsertIds(entries[n], ids[n], e) \subseteq ids[n] \union {e.id}
      BY DEF InsertIds
    <2> QED BY <1>1, <1>4, <2>1
  <1>6. outgoing[n] \union {[event |-> e, from |-> from]}
           \in SUBSET [event : Event, from : Node]
    BY <1>1
  <1>7. CASE Accepts(entries[n], ids[n], e, now)
    <2>1. /\ entries' = [entries EXCEPT ![n] = InsertEntries(entries[n], e)]
          /\ ids' = [ids EXCEPT ![n] = InsertIds(entries[n], ids[n], e)]
          /\ outgoing' = [outgoing EXCEPT ![n] = outgoing[n] \union
                                                     {[event |-> e, from |-> from]}]
      BY <1>7 DEF Insert
    <2>2. entries' \in [Node -> SUBSET Event]
      BY <1>1, <1>3, <2>1
    <2>3. ids' \in [Node -> SUBSET Ids(Event)]
      BY <1>1, <1>5, <2>1
    <2>4. outgoing' \in [Node -> SUBSET [event : Event, from : Node]]
      BY <1>1, <1>6, <2>1
    <2> QED BY <2>2, <2>3, <2>4
  <1>8. CASE ~Accepts(entries[n], ids[n], e, now)
    BY <1>1, <1>8 DEF Insert
  <1> QED BY <1>7, <1>8

\* check_and_insert keeps the caches well formed.
LEMMA SeenTyped ==
    ASSUME TypeOK, NEW n \in Node, NEW e \in Event,
           seen' = [seen EXCEPT ![n] = CheckAndInsert(@, e.id, now)]
    PROVE  seen' \in [Node -> SUBSET [id : Ids(Event), at : 0..MaxClock]]
  <1>1. /\ seen \in [Node -> SUBSET [id : Ids(Event), at : 0..MaxClock]]
        /\ now \in 0..MaxClock /\ e.id \in Ids(Event)
    BY DEF TypeOK, Ids
  <1>2. [id |-> e.id, at |-> now] \in [id : Ids(Event), at : 0..MaxClock]
    BY <1>1
  <1>3. CheckAndInsert(seen[n], e.id, now) \subseteq seen[n] \union {[id |-> e.id, at |-> now]}
    BY DEF CheckAndInsert, PurgeExpired
  <1>4. CheckAndInsert(seen[n], e.id, now) \in SUBSET [id : Ids(Event), at : 0..MaxClock]
    BY <1>1, <1>2, <1>3
  <1> QED BY <1>1, <1>4

-----------------------------------------------------------------------------
(***************************************************************************)
(* The connections.                                                        *)
(***************************************************************************)

ConnsTyped ==
    /\ registered \subseteq Edge
    /\ wire \in [Edge -> Seq(Msg)]
    /\ received \in [Edge -> Settled..EventStoreMax]
    /\ streaming \subseteq Edge
    /\ stream \in [Edge -> SUBSET Event]

ConnInv == ConnsTyped /\ \A x \in Edge : Answered(x)

\* A connection that nothing is taken from stays answered.
LEMMA AnsweredKept ==
    ASSUME NEW x \in Edge, Answered(x),
           received'[x] # Settled => received[x] # Settled,
           Has(wire[x], "sync_req") => Has(wire'[x], "sync_req"),
           Back(x) \in streaming => Back(x) \in streaming',
           Has(wire[Back(x)], "sync_done") => Has(wire'[Back(x)], "sync_done")
    PROVE  Answered(x)'
  BY DEF Answered, Back

\* broadcast_event only adds messages.
LEMMA ConnBroadcast ==
    ASSUME TypeOK, ConnInv, NEW n \in Node, NEW o, Broadcast(n, o)
    PROVE  ConnInv'
  <1>1. o.event \in Event
    BY DEF Broadcast, TypeOK
  <1>2. PICK msg \in Msg : msg = EventMsg(o.event)
    BY <1>1, MsgsSent
  <1>3. \A x \in Edge : wire[x] \in Seq(Msg)
    BY DEF ConnInv, ConnsTyped
  <1>4. /\ wire' = [x \in Edge |-> IF x[1] = n /\ x \in registered /\ x[2] # o.from
                                    THEN Append(wire[x], msg) ELSE wire[x]]
        /\ UNCHANGED <<registered, received, streaming, stream>>
    BY <1>2 DEF Broadcast
  <1>5. \A x \in Edge : wire'[x] = Append(wire[x], msg) \/ wire'[x] = wire[x]
    BY <1>4
  <1>6. ASSUME NEW x \in Edge, NEW t
        PROVE  wire'[x] \in Seq(Msg) /\ (Has(wire[x], t) => Has(wire'[x], t))
    <2>1. CASE wire'[x] = wire[x]
      BY <1>3, <2>1
    <2>2. CASE wire'[x] = Append(wire[x], msg)
      BY <1>3, <2>2, MsgsAppend
    <2> QED BY <1>5, <2>1, <2>2
  <1>7. ConnsTyped'
    <2>1. wire' \in [Edge -> Seq(Msg)]
      BY <1>4, <1>6
    <2> QED BY <1>4, <2>1 DEF ConnInv, ConnsTyped
  <1>8. ASSUME NEW x \in Edge PROVE Answered(x)'
    <2>1. Answered(x) /\ Back(x) \in Edge
      BY EdgeEnds DEF ConnInv
    <2> QED BY <1>4, <1>6, <2>1, AnsweredKept
  <1> QED BY <1>7, <1>8 DEF ConnInv

\* A HELLO goes out on a connection that carried nothing.
LEMMA ConnDial ==
    ASSUME TypeOK, ConnInv, NEW l \in Link, Dial(l)
    PROVE  ConnInv'
  <1>1. l \in Edge
    BY DEF Edge
  <1>2. PICK msg \in Msg : msg = Plain("hello")
    BY MsgsSent
  <1>3. /\ wire' = [wire EXCEPT ![l] = <<msg>>] /\ wire[l] = <<>>
        /\ UNCHANGED <<registered, received, streaming, stream>>
    BY <1>2 DEF Dial, Down
  <1>4. <<msg>> \in Seq(Msg)
    OBVIOUS
  <1>5. ConnsTyped'
    <2>1. wire' \in [Edge -> Seq(Msg)]
      BY <1>3, <1>4 DEF ConnInv, ConnsTyped
    <2> QED BY <1>3, <2>1 DEF ConnInv, ConnsTyped
  <1>6. ASSUME NEW x \in Edge, NEW t, Has(wire[x], t) PROVE Has(wire'[x], t)
    <2>1. x # l
      BY <1>3, <1>6, MsgsEmpty
    <2> QED BY <1>3, <1>6, <2>1 DEF ConnInv, ConnsTyped
  <1>7. ASSUME NEW x \in Edge PROVE Answered(x)'
    <2>1. Answered(x) /\ Back(x) \in Edge
      BY EdgeEnds DEF ConnInv
    <2> QED BY <1>3, <1>6, <2>1, AnsweredKept
  <1> QED BY <1>5, <1>7 DEF ConnInv

\* A connection that is closed carries and awaits nothing.
LEMMA ConnClose ==
    ASSUME ConnInv, NEW a \in Edge, Close(a[1], a[2])
    PROVE  ConnInv'
  <1>1. PICK b \in Edge : b = Back(a) /\ b # a /\ Back(b) = a
    BY EdgeEnds
  <1>2. <<a[1], a[2]>> = a /\ <<a[2], a[1]>> = b
    BY <1>1, EdgeEnds DEF Back
  <1>3. /\ registered' = registered \ {a, b}
        /\ received' = [received EXCEPT ![a] = Settled, ![b] = Settled]
        /\ wire' = [wire EXCEPT ![a] = <<>>, ![b] = <<>>]
        /\ streaming' = streaming \ {a, b}
        /\ stream' = [stream EXCEPT ![a] = {}, ![b] = {}]
    BY <1>2 DEF Close
  <1>4. ConnsTyped'
    <2>1. Settled \in Settled..EventStoreMax
      BY StoreConfigAssumption DEF Settled
    <2>2. <<>> \in Seq(Msg)
      BY EmptySeq
    <2>3. received' \in [Edge -> Settled..EventStoreMax]
      BY <1>3, <2>1 DEF ConnInv, ConnsTyped
    <2>4. wire' \in [Edge -> Seq(Msg)]
      BY <1>3, <2>2 DEF ConnInv, ConnsTyped
    <2>5. stream' \in [Edge -> SUBSET Event]
      BY <1>3 DEF ConnInv, ConnsTyped
    <2> QED BY <1>3, <2>3, <2>4, <2>5 DEF ConnInv, ConnsTyped
  <1>5. ASSUME NEW x \in Edge PROVE Answered(x)'
    <2>1. CASE x \in {a, b}
      <3>1. received'[x] = Settled
        BY <1>1, <1>3, <2>1 DEF ConnInv, ConnsTyped
      <3> QED BY <3>1 DEF Answered
    <2>2. CASE x \notin {a, b}
      <3>1. Answered(x) /\ Back(x) \in Edge /\ Back(Back(x)) = x
        BY EdgeEnds DEF ConnInv
      <3>2. Back(x) \notin {a, b}
        BY <1>1, <2>2, <3>1
      <3>3. /\ received'[x] = received[x] /\ wire'[x] = wire[x]
            /\ wire'[Back(x)] = wire[Back(x)]
        BY <1>3, <2>2, <3>1, <3>2 DEF ConnInv, ConnsTyped
      <3>4. Back(x) \in streaming => Back(x) \in streaming'
        BY <1>3, <3>2
      <3> QED BY <3>1, <3>3, <3>4, AnsweredKept
    <2> QED BY <2>1, <2>2
  <1> QED BY <1>4, <1>5 DEF ConnInv

\* A connection that is established asks for a SYNC response as it starts to
\* count one.
LEMMA ConnEstablished ==
    ASSUME TypeOK, ConnInv, NEW a \in Edge, NEW first \in Seq(Msg), wire[Back(a)] # <<>>,
           Head(wire[Back(a)]).type \in {"hello", "ack"}, Established(a[1], a[2], first)
    PROVE  ConnInv'
  <1>1. PICK b \in Edge : b = Back(a) /\ b # a /\ Back(b) = a
    BY EdgeEnds
  <1>2. <<a[1], a[2]>> = a /\ <<a[2], a[1]>> = b
    BY <1>1, EdgeEnds DEF Back
  <1>3. PICK req \in Msg : req = SyncReq /\ req.type = "sync_req"
    BY MsgsSent
  <1>4. /\ registered' = registered \union {a}
        /\ received' = [received EXCEPT ![a] = 0]
        /\ wire' = [wire EXCEPT ![b] = Tail(wire[b]), ![a] = (wire[a] \o first) \o <<req>>]
        /\ UNCHANGED <<streaming, stream>>
    BY <1>1, <1>2, <1>3 DEF Established
  <1>5. wire \in [Edge -> Seq(Msg)] /\ wire[a] \in Seq(Msg) /\ wire[b] \in Seq(Msg)
    BY DEF ConnInv, ConnsTyped
  <1>6. <<req>> \in Seq(Msg) /\ Has(<<req>>, "sync_req")
    BY <1>3, MsgsOne
  <1>7. /\ wire'[b] = Tail(wire[b]) /\ wire'[a] = (wire[a] \o first) \o <<req>>
        /\ \A x \in Edge \ {a, b} : wire'[x] = wire[x]
    BY <1>1, <1>4, <1>5
  <1>8. ASSUME NEW t
        PROVE  /\ wire'[a] \in Seq(Msg) /\ wire'[b] \in Seq(Msg)
               /\ Has(wire[a], t) => Has(wire'[a], t)
               /\ Has(wire[b], t) /\ t \notin {"hello", "ack"} => Has(wire'[b], t)
               /\ Has(wire'[a], "sync_req")
    <2>1. PICK s \in Seq(Msg) : s = wire[a] \o first /\ (Has(wire[a], t) => Has(s, t))
      BY <1>5, HasConcat
    <2>2. /\ s \o <<req>> \in Seq(Msg)
          /\ Has(s, t) => Has(s \o <<req>>, t)
          /\ Has(s \o <<req>>, "sync_req")
      BY <1>6, HasConcat
    <2>3. /\ Tail(wire[b]) \in Seq(Msg)
          /\ Has(wire[b], t) /\ t \notin {"hello", "ack"} => Has(Tail(wire[b]), t)
      BY <1>1, <1>5, MsgsTail
    <2> QED BY <1>7, <2>1, <2>2, <2>3
  <1>9. ConnsTyped'
    <2>1. 0 \in Settled..EventStoreMax
      BY StoreConfigAssumption DEF Settled
    <2>2. received' \in [Edge -> Settled..EventStoreMax]
      BY <1>4, <2>1 DEF ConnInv, ConnsTyped
    <2>3. wire' \in [Edge -> Seq(Msg)]
      BY <1>4, <1>5, <1>7, <1>8
    <2> QED BY <1>4, <2>2, <2>3 DEF ConnInv, ConnsTyped
  <1>10. ASSUME NEW x \in Edge PROVE Answered(x)'
    <2>1. CASE x = a
      BY <1>8, <2>1 DEF Answered
    <2>2. CASE x # a
      <3>1. Answered(x) /\ Back(x) \in Edge
        BY EdgeEnds DEF ConnInv
      <3>2. received'[x] = received[x] /\ streaming' = streaming
        BY <1>4, <2>2 DEF ConnInv, ConnsTyped
      <3>3. \A y \in Edge, t \in {"sync_req", "sync_done"} : Has(wire[y], t) => Has(wire'[y], t)
        BY <1>7, <1>8
      <3> QED BY <3>1, <3>2, <3>3, AnsweredKept
    <2> QED BY <2>1, <2>2
  <1> QED BY <1>9, <1>10 DEF ConnInv

\* The pump takes a message off the connection and sends nothing: the end of
\* a response settles, a request starts the response, other messages keep
\* what is awaited.
LEMMA ConnTaken ==
    ASSUME ConnInv, NEW a \in Edge, wire[Back(a)] # <<>>,
           NEW r \in Settled..EventStoreMax, NEW sm, NEW st \in [Edge -> SUBSET Event],
           wire' = [wire EXCEPT ![Back(a)] = Tail(@)],
           received' = [received EXCEPT ![a] = r], registered' = registered,
           streaming' = sm, stream' = st, sm \subseteq Edge, streaming \subseteq sm,
           received[a] = Settled => r = Settled,
           Head(wire[Back(a)]).type = "sync_done" => r = Settled,
           Head(wire[Back(a)]).type = "sync_req" => a \in sm
    PROVE  ConnInv'
  <1>1. PICK b \in Edge : b = Back(a) /\ b # a /\ Back(b) = a
    BY EdgeEnds
  <1>2. wire \in [Edge -> Seq(Msg)] /\ wire[b] \in Seq(Msg) /\ wire[b] # <<>>
    BY <1>1 DEF ConnInv, ConnsTyped
  <1>3. wire'[b] = Tail(wire[b]) /\ \A x \in Edge \ {b} : wire'[x] = wire[x]
    BY <1>1, <1>2
  <1>4. received'[a] = r /\ \A x \in Edge \ {a} : received'[x] = received[x]
    BY DEF ConnInv, ConnsTyped
  <1>5. ASSUME NEW t
        PROVE  /\ wire'[b] \in Seq(Msg)
               /\ Has(wire[b], t) /\ Head(wire[b]).type # t => Has(wire'[b], t)
    BY <1>2, <1>3, MsgsTail
  <1>6. ConnsTyped'
    <2>1. received' \in [Edge -> Settled..EventStoreMax]
      BY DEF ConnInv, ConnsTyped
    <2>2. wire' \in [Edge -> Seq(Msg)]
      BY <1>1, <1>2, <1>3, <1>5
    <2> QED BY <2>1, <2>2 DEF ConnInv, ConnsTyped
  <1>7. ASSUME NEW x \in Edge PROVE Answered(x)'
    <2>1. Answered(x) /\ Back(x) \in Edge /\ Back(Back(x)) = x
      BY EdgeEnds DEF ConnInv
    <2>2. Back(x) \in streaming => Back(x) \in streaming'
      OBVIOUS
    <2>3. CASE x = a
      <3>1. CASE Head(wire[b]).type = "sync_done"
        BY <1>1, <1>4, <2>3, <3>1 DEF Answered
      <3>2. CASE Head(wire[b]).type # "sync_done"
        <4>1. Has(wire[Back(x)], "sync_done") => Has(wire'[Back(x)], "sync_done")
          BY <1>1, <1>5, <2>3, <3>2
        <4>2. Has(wire[x], "sync_req") => Has(wire'[x], "sync_req")
          BY <1>1, <1>3, <2>3
        <4>3. received'[x] # Settled => received[x] # Settled
          BY <1>4, <2>3
        <4> QED BY <2>1, <2>2, <4>1, <4>2, <4>3, AnsweredKept
      <3> QED BY <3>1, <3>2
    <2>4. CASE x = b
      <3>1. received'[x] # Settled => received[x] # Settled
        BY <1>1, <1>4, <2>4
      <3>2. Has(wire[Back(x)], "sync_done") => Has(wire'[Back(x)], "sync_done")
        BY <1>1, <1>3, <2>4
      <3>3. CASE Head(wire[b]).type = "sync_req"
        BY <1>1, <2>4, <3>3 DEF Answered, Back
      <3>4. CASE Head(wire[b]).type # "sync_req"
        <4>1. Has(wire[x], "sync_req") => Has(wire'[x], "sync_req")
          BY <1>5, <2>4, <3>4
        <4> QED BY <2>1, <2>2, <3>1, <3>2, <4>1, AnsweredKept
      <3> QED BY <3>3, <3>4
    <2>5. CASE x # a /\ x # b
      <3>1. Back(x) # b
        BY <1>1, <2>1, <2>5
      <3>2. wire'[x] = wire[x] /\ wire'[Back(x)] = wire[Back(x)] /\ received'[x] = received[x]
        BY <1>3, <1>4, <2>1, <2>5, <3>1
      <3> QED BY <2>1, <2>2, <3>2, AnsweredKept
    <2> QED BY <2>3, <2>4, <2>5
  <1> QED BY <1>6, <1>7 DEF ConnInv

\* A response goes on, and its end is sent before it is forgotten.
LEMMA ConnStream ==
    ASSUME TypeOK, ConnInv, NEW a \in Edge, StreamStep(a[1], a[2])
    PROVE  ConnInv'
  <1>1. PICK b \in Edge : b = Back(a) /\ b # a /\ Back(b) = a
    BY EdgeEnds
  <1>2. <<a[1], a[2]>> = a
    BY EdgeEnds
  <1>3. UNCHANGED <<registered, received>>
    BY DEF StreamStep
  <1>4. wire \in [Edge -> Seq(Msg)] /\ wire[a] \in Seq(Msg)
    BY DEF ConnInv, ConnsTyped
  <1>5. PICK msg \in Msg :
           /\ wire' = [wire EXCEPT ![a] = Append(wire[a], msg)]
           /\ stream' \in [Edge -> SUBSET Event]
           /\ \/ streaming' = streaming
              \/ streaming' = streaming \ {a} /\ msg.type = "sync_done"
    <2>1. CASE \E e \in stream[a] :
                  /\ wire' = [wire EXCEPT ![a] = Append(wire[a], EventMsg(e))]
                  /\ stream' = [stream EXCEPT ![a] = stream[a] \ {e}]
                  /\ UNCHANGED streaming
      <3>1. PICK e \in stream[a] :
                  /\ wire' = [wire EXCEPT ![a] = Append(wire[a], EventMsg(e))]
                  /\ stream' = [stream EXCEPT ![a] = stream[a] \ {e}]
                  /\ UNCHANGED streaming
        BY <2>1
      <3>2. e \in Event /\ stream' \in [Edge -> SUBSET Event]
        BY <3>1 DEF ConnInv, ConnsTyped
      <3> QED BY <3>1, <3>2, MsgsSent
    <2>2. CASE /\ wire' = [wire EXCEPT ![a] = Append(wire[a], Plain("sync_done"))]
               /\ streaming' = streaming \ {a}
               /\ UNCHANGED stream
      <3>1. stream' \in [Edge -> SUBSET Event]
        BY <2>2 DEF ConnInv, ConnsTyped
      <3> QED BY <2>2, <3>1, MsgsSent
    <2> QED BY <1>2, <2>1, <2>2 DEF StreamStep
  <1>6. wire'[a] = Append(wire[a], msg) /\ \A x \in Edge \ {a} : wire'[x] = wire[x]
    BY <1>4, <1>5
  <1>7. ASSUME NEW t
        PROVE  wire'[a] \in Seq(Msg) /\ (Has(wire[a], t) \/ msg.type = t => Has(wire'[a], t))
    BY <1>4, <1>6, MsgsAppend
  <1>8. ConnsTyped'
    <2>1. wire' \in [Edge -> Seq(Msg)]
      BY <1>4, <1>5, <1>6, <1>7
    <2> QED BY <1>3, <1>5, <2>1 DEF ConnInv, ConnsTyped
  <1>9. ASSUME NEW x \in Edge PROVE Answered(x)'
    <2>1. Answered(x) /\ Back(x) \in Edge /\ Back(Back(x)) = x
      BY EdgeEnds DEF ConnInv
    <2>2. \A y \in Edge, t \in {"sync_req", "sync_done"} : Has(wire[y], t) => Has(wire'[y], t)
      BY <1>6, <1>7
    <2>3. CASE x = b /\ msg.type = "sync_done"
      <3>1. Has(wire'[Back(x)], "sync_done")
        BY <1>1, <1>7, <2>3
      <3> QED BY <3>1 DEF Answered, Back
    <2>4. CASE ~(x = b /\ msg.type = "sync_done")
      <3>1. Back(x) \in streaming => Back(x) \in streaming'
        BY <1>1, <1>5, <2>1, <2>4
      <3> QED BY <1>3, <2>1, <2>2, <3>1, AnsweredKept
    <2> QED BY <2>3, <2>4
  <1> QED BY <1>8, <1>9 DEF ConnInv

\* What the pump does with the next message.
LEMMA DeliverStep ==
    ASSUME TypeOK, ConnInv, NEW a \in Edge, Deliver(a[1], a[2])
    PROVE  ConnInv' /\ StoresTyped'
  <1>1. PICK b \in Edge : b = Back(a) /\ b # a /\ Back(b) = a
    BY EdgeEnds
  <1>2. <<a[1], a[2]>> = a /\ <<a[2], a[1]>> = b /\ a[1] \in Node /\ a[2] \in Node
    BY <1>1, EdgeEnds DEF Back
  <1>3. PICK msg \in Msg : msg = Head(wire[b]) /\ wire[b] # <<>>
    <2>1. wire[b] # <<>> /\ wire[b] \in Seq(Msg)
      BY <1>2 DEF Deliver, ConnInv, ConnsTyped
    <2> QED BY <2>1, MsgsTail
  <1>4. StoresTyped
    BY DEF TypeOK, StoresTyped
  <1>5. received[a] \in Settled..EventStoreMax
    BY DEF ConnInv, ConnsTyped
  <1>6. CASE msg.type \in {"hello", "ack"}
    <2>1. PICK first \in Seq(Msg) : Established(a[1], a[2], first)
                                     /\ UNCHANGED <<stores, outgoing>>
      <3>1. <<>> \in Seq(Msg) /\ <<Plain("ack")>> \in Seq(Msg)
        BY MsgsSent
      <3> QED BY <1>2, <1>3, <1>6, <3>1 DEF Deliver
    <2>2. ConnInv'
      BY <1>1, <1>3, <1>6, <2>1, ConnEstablished
    <2> QED BY <1>4, <2>1, <2>2 DEF StoresTyped, stores
  <1>7. CASE msg.type = "event"
    <2>1. DeliverEvent(a[1], a[2], msg.event) /\ msg.event \in Event
      BY <1>2, <1>3, <1>7, MsgParts DEF Deliver
    <2>2. CASE Counted(a) > EventStoreMax
      <3>1. Close(a[1], a[2]) /\ UNCHANGED <<stores, outgoing>>
        BY <1>2, <2>1, <2>2 DEF DeliverEvent
      <3> QED BY <1>4, <3>1, ConnClose DEF StoresTyped, stores
    <2>3. CASE ~(Counted(a) > EventStoreMax)
      <3>1. /\ received' = [received EXCEPT ![a] = Counted(a)]
            /\ wire' = [wire EXCEPT ![b] = Tail(@)]
            /\ UNCHANGED <<registered, streaming, stream>>
            /\ seen' = [seen EXCEPT ![a[1]] = CheckAndInsert(@, msg.event.id, now)]
            /\ \/ UNCHANGED <<entries, ids, outgoing>>
               \/ Insert(a[1], msg.event, a[2])
        BY <1>2, <2>1, <2>3 DEF DeliverEvent
      <3>2. Counted(a) \in Settled..EventStoreMax
            /\ (received[a] = Settled => Counted(a) = Settled)
        BY <1>5, <2>3, StoreConfigAssumption DEF Counted, Settled
      <3>3. ConnInv'
        <4>1. stream \in [Edge -> SUBSET Event] /\ streaming \subseteq Edge
          BY DEF ConnInv, ConnsTyped
        <4> QED BY <1>1, <1>3, <1>7, <3>1, <3>2, <4>1, ConnTaken
      <3>4. seen' \in [Node -> SUBSET [id : Ids(Event), at : 0..MaxClock]]
        BY <1>2, <2>1, <3>1, SeenTyped
      <3>5. CASE UNCHANGED <<entries, ids, outgoing>>
        BY <1>4, <3>3, <3>4, <3>5 DEF StoresTyped
      <3>6. CASE Insert(a[1], msg.event, a[2])
        BY <1>2, <2>1, <3>3, <3>4, <3>6, InsertTyped DEF StoresTyped
      <3> QED BY <3>1, <3>5, <3>6
    <2> QED BY <2>2, <2>3
  <1>8. CASE msg.type = "sync_req"
    <2>1. DeliverSyncReq(a[1], a[2], msg.since)
      BY <1>2, <1>3, <1>8 DEF Deliver
    <2>2. /\ streaming' = streaming \union {a}
          /\ wire' = [wire EXCEPT ![b] = Tail(@)]
          /\ stream' = IF a \in streaming THEN stream
                       ELSE [stream EXCEPT ![a] = SyncEvents(a[1], msg.since)]
          /\ UNCHANGED <<stores, outgoing, registered, received>>
      BY <1>2, <2>1 DEF DeliverSyncReq
    <2>3. SyncEvents(a[1], msg.since) \in SUBSET Event
      <3>1. SyncEvents(a[1], msg.since) \subseteq entries[a[1]]
        BY DEF SyncEvents, LiveFreshEvents
      <3> QED BY <1>2, <1>4, <3>1 DEF StoresTyped
    <2>4. stream' \in [Edge -> SUBSET Event] /\ streaming' \subseteq Edge
      BY <2>2, <2>3 DEF ConnInv, ConnsTyped
    <2>5. received' = [received EXCEPT ![a] = received[a]]
      BY <2>2 DEF ConnInv, ConnsTyped
    <2>6. ConnInv'
      <3>1. PICK r \in Settled..EventStoreMax, sm \in SUBSET Edge, st \in [Edge -> SUBSET Event] :
               r = received[a] /\ sm = streaming' /\ st = stream'
        BY <1>5, <2>4
      <3>2. /\ streaming \subseteq sm /\ a \in sm
            /\ received' = [received EXCEPT ![a] = r] /\ registered' = registered
        BY <2>2, <2>5, <3>1
      <3>3. Head(wire[Back(a)]).type = "sync_req" /\ wire[Back(a)] # <<>>
        BY <1>1, <1>3, <1>8
      <3>4. wire' = [wire EXCEPT ![Back(a)] = Tail(@)]
        BY <1>1, <2>2
      <3> QED BY <3>1, <3>2, <3>3, <3>4, ConnTaken
    <2> QED BY <1>4, <2>2, <2>6 DEF StoresTyped, stores
  <1>9. CASE msg.type = "sync_done"
    <2>1. DeliverSyncDone(a[1], a[2])
      BY <1>2, <1>3, <1>9 DEF Deliver
    <2>2. /\ received' = [received EXCEPT ![a] = Settled]
          /\ wire' = [wire EXCEPT ![b] = Tail(@)]
          /\ UNCHANGED <<stores, outgoing, registered, streaming, stream>>
      BY <1>2, <2>1 DEF DeliverSyncDone
    <2>3. /\ stream \in [Edge -> SUBSET Event] /\ streaming \subseteq Edge
          /\ Settled \in Settled..EventStoreMax
      BY StoreConfigAssumption DEF ConnInv, ConnsTyped, Settled
    <2>4. ConnInv'
      BY <1>1, <1>3, <1>9, <2>2, <2>3, ConnTaken
    <2> QED BY <1>4, <2>2, <2>4 DEF StoresTyped, stores
  <1> QED BY <1>6, <1>7, <1>8, <1>9, MsgParts

\* The type invariant and its parts.
LEMMA TypeParts ==
    TypeOK <=> /\ now \in 0..MaxClock /\ published \subseteq Event
               /\ StoresTyped /\ ConnsTyped
               /\ dials \in 0..MaxDial /\ drops \in 0..MaxDrop
  BY DEF TypeOK, StoresTyped, ConnsTyped

\* Every step keeps the invariant.
LEMMA NetStep ==
    ASSUME NetInv, [Next]_vars
    PROVE  NetInv'
  <1>1. TypeOK /\ ConnInv /\ StoresTyped
    BY TypeParts DEF NetInv, ConnInv
  <1>2. /\ now \in 0..MaxClock /\ published \subseteq Event
        /\ dials \in 0..MaxDial /\ drops \in 0..MaxDrop
    BY <1>1 DEF TypeOK
  <1>3. ConnInv' /\ StoresTyped' /\ now' \in 0..MaxClock /\ published' \subseteq Event
        /\ dials' \in 0..MaxDial /\ drops' \in 0..MaxDrop
    <2>1. ASSUME NEW n \in Node, NEW o \in outgoing[n], Broadcast(n, o)
          PROVE  <1>3!:
      <3>1. ConnInv'
        BY <1>1, <2>1, ConnBroadcast
      <3>2. /\ outgoing' = [outgoing EXCEPT ![n] = @ \ {o}]
            /\ UNCHANGED <<now, published, entries, ids, seen, dials, drops>>
        BY <2>1 DEF Broadcast, stores, bounds
      <3>3. StoresTyped'
        BY <1>1, <3>2 DEF StoresTyped
      <3> QED BY <1>2, <3>1, <3>2, <3>3
    <2>2. ASSUME NEW x \in Edge, Deliver(x[1], x[2])
          PROVE  <1>3!:
      <3>1. UNCHANGED <<now, published, dials, drops>>
        BY <2>2 DEF Deliver, bounds
      <3> QED BY <1>1, <1>2, <2>2, <3>1, DeliverStep
    <2>3. ASSUME NEW x \in Edge, StreamStep(x[1], x[2])
          PROVE  <1>3!:
      <3>1. UNCHANGED <<now, published, entries, ids, seen, outgoing, dials, drops>>
        BY <2>3 DEF StreamStep, stores, bounds
      <3>2. ConnInv'
        BY <1>1, <2>3, ConnStream
      <3> QED BY <1>1, <1>2, <3>1, <3>2 DEF StoresTyped
    <2>4. ASSUME NEW e \in Event, PublishLocal(e)
          PROVE  <1>3!:
      <3>1. PICK n \in Node : n = Author[e]
        BY NetAssumption
      <3>2. /\ seen' = [seen EXCEPT ![n] = CheckAndInsert(@, e.id, now)]
            /\ Insert(n, e, n) /\ published' = published \union {e}
            /\ UNCHANGED <<now, registered, wire, received, streaming, stream, dials, drops>>
        BY <2>4, <3>1 DEF PublishLocal, conns, bounds
      <3>3. StoresTyped'
        BY <1>1, <3>2, InsertTyped, SeenTyped DEF StoresTyped
      <3>4. ConnInv'
        BY <1>1, <3>2 DEF ConnInv, ConnsTyped, Answered
      <3> QED BY <1>2, <3>2, <3>3, <3>4
    <2>5. ASSUME NEW l \in Link, Dial(l)
          PROVE  <1>3!:
      <3>1. /\ dials < MaxDial /\ dials' = dials + 1
            /\ UNCHANGED <<now, published, entries, ids, seen, outgoing, drops>>
        BY <2>5 DEF Dial, stores
      <3>2. dials' \in 0..MaxDial
        BY <1>2, <3>1, NetAssumption
      <3>3. ConnInv'
        BY <1>1, <2>5, ConnDial
      <3> QED BY <1>1, <1>2, <3>1, <3>2, <3>3 DEF StoresTyped
    <2>6. ASSUME NEW l \in Link, Drop(l)
          PROVE  <1>3!:
      <3>1. /\ drops < MaxDrop /\ drops' = drops + 1 /\ Close(l[1], l[2])
            /\ UNCHANGED <<now, published, entries, ids, seen, outgoing, dials>>
        BY <2>6 DEF Drop, stores
      <3>2. drops' \in 0..MaxDrop
        BY <1>2, <3>1, NetAssumption
      <3>3. ConnInv'
        <4>1. l \in Edge
          BY DEF Edge
        <4> QED BY <1>1, <3>1, <4>1, ConnClose
      <3> QED BY <1>1, <1>2, <3>1, <3>2, <3>3 DEF StoresTyped
    <2>7. ASSUME NEW n \in Node, Sweep(n)
          PROVE  <1>3!:
      <3>1. /\ entries' = [entries EXCEPT ![n] = @ \ SweepVictims(entries[n], now)]
            /\ ids' = [ids EXCEPT ![n] = @ \ Ids(SweepVictims(entries[n], now))]
            /\ UNCHANGED <<now, published, seen, outgoing, registered, wire, received,
                           streaming, stream, dials, drops>>
        BY <2>7 DEF Sweep, conns, bounds
      <3>2. StoresTyped'
        BY <1>1, <3>1 DEF StoresTyped
      <3>3. ConnInv'
        BY <1>1, <3>1 DEF ConnInv, ConnsTyped, Answered
      <3> QED BY <1>2, <3>1, <3>2, <3>3
    <2>8. CASE Tick
      <3>1. /\ now < MaxClock /\ now' = now + 1
            /\ UNCHANGED <<published, entries, ids, seen, outgoing, registered, wire, received,
                           streaming, stream, dials, drops>>
        BY <2>8 DEF Tick, stores, conns, bounds
      <3>2. now' \in 0..MaxClock
        BY <1>2, <3>1, NetAssumption
      <3>3. ConnInv' /\ StoresTyped'
        BY <1>1, <3>1 DEF ConnInv, ConnsTyped, Answered, StoresTyped
      <3> QED BY <1>2, <3>1, <3>2, <3>3
    <2>9. CASE UNCHANGED vars
      <3>1. UNCHANGED <<now, published, entries, ids, seen, outgoing, registered, wire,
                        received, streaming, stream, dials, drops>>
        BY <2>9 DEF vars, stores, conns, bounds
      <3> QED BY <1>1, <1>2, <3>1 DEF ConnInv, ConnsTyped, Answered, StoresTyped
    <2> QED BY <2>1, <2>2, <2>3, <2>4, <2>5, <2>6, <2>7, <2>8, <2>9 DEF Next, Progress
  <1>4. TypeOK'
    BY <1>3 DEF TypeOK, StoresTyped, ConnInv, ConnsTyped
  <1> QED BY <1>3, <1>4 DEF NetInv, ConnInv

\* Initially nothing is on its way and nothing is awaited.
LEMMA InitNet == Init => NetInv
  <1> SUFFICES ASSUME Init PROVE NetInv
    OBVIOUS
  <1>1. \A x \in Edge : Answered(x)
    BY DEF Init, Answered
  <1>2. Settled \in Settled..EventStoreMax /\ <<>> \in Seq(Msg)
    BY StoreConfigAssumption, EmptySeq DEF Settled
  <1>3. Up \union {<<l[2], l[1]>> : l \in Up} \subseteq Edge
    BY NetAssumption DEF Edge
  <1>4. 0 \in 0..MaxClock /\ 0 \in 0..MaxDial /\ 0 \in 0..MaxDrop
    BY NetAssumption
  <1>5. TypeOK
    BY <1>2, <1>3, <1>4 DEF Init, TypeOK
  <1> QED BY <1>1, <1>5 DEF NetInv

\* The invariant holds throughout.
THEOREM NetInvariant == Spec => []NetInv
  <1>1. NetInv /\ [Next]_vars => NetInv'
    BY NetStep
  <1> QED BY <1>1, InitNet, PTL DEF Spec

\* NetworkSound for any network: SyncCounter stays within event_store_max, and
\* a connection that counts a SYNC response has the request, the response or
\* SYNC_DONE under way, whatever is dialled, dropped, broadcast or published
\* meanwhile, so that it never counts the gossip of its peer without end.
THEOREM NetworkAlwaysSound == Spec => []NetworkSound
  <1>1. NetInv => NetworkSound
    <2> SUFFICES ASSUME NetInv PROVE SyncAnswered
      BY DEF NetInv, NetworkSound
    <2>1. \A x \in registered : x \in Edge
      BY DEF NetInv, TypeOK
    <2> QED BY <2>1 DEF NetInv, SyncAnswered, Answered, Has, Msgs, Back
  <1> QED BY <1>1, NetInvariant, PTL

-----------------------------------------------------------------------------
(***************************************************************************)
(* Agreement: the invariant.                                               *)
(***************************************************************************)

\* The set of ids follows the entries, which are one per channel.
HeldInv == \A n \in Node : OnePerKey(entries[n]) /\ ids[n] = Ids(entries[n])

\* n is done with e: it holds e or a newer one for as long as e counts.
Past(n, e) == IsLiveFresh(e, now) => HoldsAtLeast(n, e)

\* A node is done with what it has seen and with what it hands on, and so is
\* the one it has it from.
SeenPast == \A n \in Node : \A r \in seen[n] : \A e \in Event : r.id = e.id => Past(n, e)

OutPast == \A n \in Node : \A o \in outgoing[n] : Past(n, o.event) /\ Past(o.from, o.event)

WirePast(x) ==
    \A e \in Event : EventMsg(e) \in Msgs(wire[x]) \/ e \in stream[x] => Past(x[1], e)

PastInv == SeenPast /\ OutPast /\ \A x \in Edge : WirePast(x)

\* The connection of a link is down or has its HELLO on its way; or the
\* HELLO_ACK is, and behind it the request; or both ends have registered it.
NoStream(x) == x \notin streaming /\ Back(x) \notin streaming

Plainly(s) == ~Has(s, "hello") /\ ~Has(s, "ack") /\ OneReq(s)

Apart(l) ==
    /\ l \notin registered /\ Back(l) \notin registered /\ NoStream(l)
    /\ wire[Back(l)] = <<>> /\ wire[l] \in {<<>>, <<Plain("hello")>>}

Greeted(l) ==
    /\ l \notin registered /\ Back(l) \in registered /\ NoStream(l)
    /\ wire[l] = <<>> /\ wire[Back(l)] # <<>>
    /\ Head(wire[Back(l)]).type = "ack"
    /\ Plainly(Tail(wire[Back(l)])) /\ Has(Tail(wire[Back(l)]), "sync_req")

\* A request is answered by a task of its own.
Flowing(x) == Plainly(wire[x]) /\ (Has(wire[x], "sync_req") => Back(x) \notin streaming)

Joined(l) == l \in registered /\ Back(l) \in registered /\ Flowing(l) /\ Flowing(Back(l))

LinkInv ==
    /\ \A l \in Link : Apart(l) \/ Greeted(l) \/ Joined(l)
    /\ \A x \in Edge : x \notin streaming => stream[x] = {}
    /\ \A x \in Edge : \A msg \in Msgs(wire[x]) :
          msg.type = "sync_req" => msg.since <= SaturatingSub(now, FreshnessWindow)

\* e has reached the other end of x or is bound to: it waits to be broadcast,
\* is on its way, is part of the response, or will be.
Covered(x, e) ==
    \/ HoldsAtLeast(x[2], e)
    \/ \E o \in outgoing[x[1]] : o.event = e
    \/ EventMsg(e) \in Msgs(wire[x])
    \/ e \in stream[x]
    \/ Has(wire[Back(x)], "sync_req")

CoverInv ==
    \A x \in Edge : x \in registered /\ Back(x) \in registered =>
        \A e \in entries[x[1]] : IsLiveFresh(e, now) => Covered(x, e)

-----------------------------------------------------------------------------
(***************************************************************************)
(* Events and stores.                                                      *)
(***************************************************************************)

\* The order of events is total and transitive.
LEMMA NewerOrder ==
    ASSUME NEW e \in Event, NEW f \in Event
    PROVE  /\ e = f \/ IsNewer(e, f) \/ IsNewer(f, e)
           /\ ~IsNewer(e, e)
           /\ \A g \in Event : IsNewer(f, e) /\ IsNewer(g, f) => IsNewer(g, e)
  BY EventAssumption DEF IsNewer

\* A newer event counts for as long as the older one.
LEMMA NewerLives ==
    ASSUME ExpirationFollowsCreation, NEW e \in Event, NEW f \in Event, NEW t \in Nat,
           f = e \/ IsNewer(f, e), IsLiveFresh(e, t)
    PROVE  ~IsRemovable(f, t)
  <1>1. /\ e.created_at \in Nat /\ f.created_at \in Nat
        /\ e.expiration \in Nat /\ f.expiration \in Nat /\ FreshnessWindow \in Nat
    BY EventAssumption, StoreConfigAssumption
  <1>2. f.created_at >= e.created_at
    BY <1>1 DEF IsNewer
  <1>3. f.expiration >= e.expiration
    BY <1>2 DEF ExpirationFollowsCreation
  <1>4. t <= e.expiration /\ SaturatingSub(t, e.created_at) <= FreshnessWindow
    BY DEF IsLiveFresh
  <1>5. SaturatingSub(t, f.created_at) <= FreshnessWindow
    BY <1>1, <1>2, <1>4 DEF SaturatingSub
  <1>6. t <= f.expiration
    BY <1>1, <1>3, <1>4
  <1> QED BY <1>1, <1>5, <1>6 DEF IsRemovable, SaturatingSub

\* What counts now counted before, and its request reaches back to it.
LEMMA LiveBefore ==
    ASSUME NEW e \in Event, NEW t \in Nat, NEW u \in Nat, t <= u, IsLiveFresh(e, u)
    PROVE  /\ IsLiveFresh(e, t)
           /\ SaturatingSub(t, FreshnessWindow) <= SaturatingSub(u, FreshnessWindow)
           /\ \A since \in Nat : since <= SaturatingSub(t, FreshnessWindow) =>
                 e.created_at >= since
           /\ e.created_at >= SaturatingSub(t, FreshnessWindow)
  <1>1. e.created_at \in Nat /\ e.expiration \in Nat /\ FreshnessWindow \in Nat
    BY EventAssumption, StoreConfigAssumption
  <1> QED BY <1>1 DEF IsLiveFresh, SaturatingSub

\* The start of the window moves on with the clock.
LEMMA WindowMoves ==
    ASSUME NEW t \in Nat, NEW u \in Nat, t <= u
    PROVE  /\ SaturatingSub(t, FreshnessWindow) \in Nat /\ SaturatingSub(u, FreshnessWindow) \in Nat
           /\ SaturatingSub(t, FreshnessWindow) <= SaturatingSub(u, FreshnessWindow)
  BY StoreConfigAssumption DEF SaturatingSub

\* Nothing is discarded where there is room.
LEMMA KeepsAll ==
    ASSUME NEW S, S \subseteq Event, IsFiniteSet(S), NEW n \in Nat, Cardinality(S) <= n
    PROVE  KeepNewest(S, n) = S
  <1> SUFFICES ASSUME NEW e \in S
               PROVE  Cardinality({f \in S : IsNewer(f, e)}) < n
    BY DEF KeepNewest
  <1> DEFINE N == {f \in S : IsNewer(f, e)}
  <1>1. N \subseteq S \ {e}
    BY NewerOrder
  <1>2. IsFiniteSet(S \ {e}) /\ Cardinality(S \ {e}) = Cardinality(S) - 1
    BY FS_RemoveElement
  <1>3. Cardinality(N) <= Cardinality(S \ {e}) /\ IsFiniteSet(N)
    BY <1>1, <1>2, FS_Subset
  <1>4. Cardinality(S) \in Nat /\ Cardinality(N) \in Nat
    BY <1>3, FS_CardinalityType
  <1> QED BY <1>2, <1>3, <1>4

\* An accepted event takes the place of the one before it and of no other.
LEMMA AcceptedInsert ==
    ASSUME StoresRoomy, NEW S \in SUBSET Event, OnePerKey(S), NEW e \in Event
    PROVE  /\ InsertEntries(S, e) = (S \ HeldAt(S, StoreKey(e))) \union {e}
           /\ OnePerKey(InsertEntries(S, e))
  <1> DEFINE H == HeldAt(S, StoreKey(e))
             T == (S \ H) \union {e}
  <1>1. OnePerKey(T) /\ T \in SUBSET Event
    BY DEF OnePerKey, HeldAt
  <1>2. CASE H # {}
    BY <1>1, <1>2 DEF InsertEntries
  <1>3. CASE H = {}
    <2>1. T = S \union {e}
      BY <1>3
    <2>2. /\ IsFiniteSet(T) /\ Cardinality(T) <= EventStoreMax
          /\ Cardinality({f \in T : f.pubkey = e.pubkey}) <= MaxEventsPerPubkey
      BY <1>1 DEF StoresRoomy
    <2> DEFINE own == {f \in T : f.pubkey = e.pubkey}
    <2>3. IsFiniteSet(own) /\ own \subseteq Event
      BY <1>1, <2>2, FS_Subset
    <2>4. KeepNewest(own, MaxEventsPerPubkey) = own
      BY <2>2, <2>3, KeepsAll, StoreConfigAssumption
    <2>5. EnforcePubkeyQuota(T, e.pubkey) = T
      BY <2>4 DEF EnforcePubkeyQuota
    <2>6. KeepNewest(T, EventStoreMax) = T
      BY <1>1, <2>2, KeepsAll, StoreConfigAssumption
    <2>7. InsertEntries(S, e) = T
      BY <1>3, <2>1, <2>5, <2>6 DEF InsertEntries, EnforceCapacity
    <2> QED BY <1>1, <2>7
  <1> QED BY <1>2, <1>3

\* Every node's store is well formed.
LEMMA StoreOf ==
    ASSUME StoresTyped, NEW n \in Node
    PROVE  entries[n] \in SUBSET Event /\ outgoing[n] \in SUBSET [event : Event, from : Node]
  BY DEF StoresTyped

\* insert() keeps a place for every channel: what was held at least still is,
\* and so is the event itself if it counts.  What is new is due for broadcast.
LEMMA InsertHeld ==
    ASSUME StoresRoomy, StoresTyped, HeldInv, now \in Nat,
           NEW n \in Node, NEW e \in Event, NEW from \in Node, Insert(n, e, from)
    PROVE  /\ HeldInv'
           /\ \A m \in Node, f \in Event : HoldsAtLeast(m, f) => HoldsAtLeast(m, f)'
           /\ IsLiveFresh(e, now) => HoldsAtLeast(n, e)'
           /\ \A m \in Node \ {n} : entries'[m] = entries[m] /\ outgoing'[m] = outgoing[m]
           /\ entries'[n] \subseteq entries[n]
                 \/ /\ entries'[n] \subseteq entries[n] \union {e}
                    /\ [event |-> e, from |-> from] \in outgoing'[n]
           /\ outgoing[n] \subseteq outgoing'[n]
           /\ outgoing'[n] \subseteq outgoing[n] \union {[event |-> e, from |-> from]}
  <1>1. PICK S \in SUBSET Event : S = entries[n] /\ OnePerKey(S) /\ ids[n] = Ids(S)
    BY StoreOf DEF HeldInv
  <1> DEFINE H == HeldAt(S, StoreKey(e))
  <1>2. ASSUME NEW x \in S, NEW f \in Event, f = x \/ IsNewer(x, f)
        PROVE  x \in Event
    OBVIOUS
  <1>3. CASE Accepts(S, ids[n], e, now)
    <2>1. /\ entries' = [entries EXCEPT ![n] = InsertEntries(S, e)]
          /\ ids' = [ids EXCEPT ![n] = InsertIds(S, Ids(S), e)]
          /\ outgoing' = [outgoing EXCEPT ![n] = @ \union {[event |-> e, from |-> from]}]
      BY <1>1, <1>3 DEF Insert
    <2>2. PICK T \in SUBSET Event :
             /\ T = InsertEntries(S, e) /\ T = (S \ H) \union {e} /\ OnePerKey(T)
      BY <1>1, AcceptedInsert
    <2>3. e \notin S /\ \A x \in H : IsNewer(e, x) /\ x \in S
      BY <1>1, <1>3 DEF Accepts, Ids, HeldAt
    <2>4. InsertIds(S, Ids(S), e) = Ids(T)
      <3>1. InsertVictims(S, e) = H
        BY <2>2, <2>3 DEF InsertVictims
      <3>2. \A x, y \in S \union {e} : x.id = y.id => x = y
        BY EventAssumption
      <3>3. (Ids(S) \union {e.id}) \ Ids(H) = Ids((S \ H) \union {e})
        <4>1. ASSUME NEW i \in (Ids(S) \union {e.id}) \ Ids(H) PROVE i \in Ids((S \ H) \union {e})
          BY <4>1 DEF Ids
        <4>2. ASSUME NEW x \in (S \ H) \union {e}
              PROVE  x.id \in (Ids(S) \union {e.id}) \ Ids(H)
          BY <2>3, <3>2, <4>2 DEF Ids
        <4> QED BY <4>1, <4>2 DEF Ids
      <3> QED BY <2>2, <3>1, <3>3 DEF InsertIds
    <2>5. /\ entries'[n] = T /\ ids'[n] = Ids(T)
          /\ outgoing'[n] = outgoing[n] \union {[event |-> e, from |-> from]}
          /\ \A m \in Node \ {n} : /\ entries'[m] = entries[m] /\ ids'[m] = ids[m]
                                   /\ outgoing'[m] = outgoing[m]
      BY <2>1, <2>2, <2>4 DEF StoresTyped
    <2>6. HeldInv'
      <3>1. ASSUME NEW m \in Node PROVE OnePerKey(entries'[m]) /\ ids'[m] = Ids(entries'[m])
        BY <2>2, <2>5 DEF HeldInv
      <3> QED BY <3>1 DEF HeldInv
    <2>7. ASSUME NEW f \in Event, HoldsAtLeast(n, f) PROVE HoldsAtLeast(n, f)'
      <3>1. PICK x \in S : StoreKey(x) = StoreKey(f) /\ (x = f \/ IsNewer(x, f))
        BY <1>1, <2>7 DEF HoldsAtLeast, HeldAt
      <3>2. CASE x \in H
        <4>1. IsNewer(e, f) /\ StoreKey(e) = StoreKey(f)
          BY <2>3, <3>1, <3>2, NewerOrder DEF HeldAt
        <4>2. e \in T
          BY <2>2
        <4> QED BY <2>5, <4>1, <4>2 DEF HoldsAtLeast, HeldAt
      <3>3. CASE x \notin H
        <4>1. x \in T
          BY <2>2, <3>3
        <4> QED BY <2>5, <3>1, <4>1 DEF HoldsAtLeast, HeldAt
      <3> QED BY <3>2, <3>3
    <2>8. ASSUME NEW m \in Node, NEW f \in Event, HoldsAtLeast(m, f) PROVE HoldsAtLeast(m, f)'
      <3>1. CASE m = n
        BY <2>7, <2>8, <3>1
      <3>2. CASE m # n
        BY <2>5, <2>8, <3>2 DEF HoldsAtLeast
      <3> QED BY <3>1, <3>2
    <2>9. HoldsAtLeast(n, e)'
      <3>1. e \in T
        BY <2>2
      <3> QED BY <2>5, <3>1 DEF HoldsAtLeast, HeldAt
    <2>10. entries'[n] \subseteq entries[n] \union {e}
      BY <1>1, <2>2, <2>5
    <2> QED BY <2>5, <2>6, <2>8, <2>9, <2>10
  <1>4. CASE ~Accepts(S, ids[n], e, now)
    <2>1. UNCHANGED <<entries, ids, outgoing>>
      BY <1>1, <1>4 DEF Insert
    <2>2. HeldInv' /\ \A m, f : HoldsAtLeast(m, f) => HoldsAtLeast(m, f)'
      BY <2>1 DEF HeldInv, HoldsAtLeast
    <2>3. ASSUME IsLiveFresh(e, now) PROVE HoldsAtLeast(n, e)
      <3>1. now <= e.expiration /\ SaturatingSub(now, e.created_at) <= FreshnessWindow
        BY <2>3 DEF IsLiveFresh
      <3>2. CASE e.id \in ids[n]
        <4>1. e \in S
          BY <1>1, <3>2, EventAssumption DEF Ids
        <4> QED BY <1>1, <4>1 DEF HoldsAtLeast, HeldAt
      <3>3. CASE \E x \in H : ~IsNewer(e, x)
        <4>1. PICK x \in H : ~IsNewer(e, x)
          BY <3>3
        <4>2. x \in S /\ (x = e \/ IsNewer(x, e))
          BY <4>1, NewerOrder DEF HeldAt
        <4> QED BY <1>1, <4>1, <4>2 DEF HoldsAtLeast, HeldAt
      <3> QED BY <1>4, <3>1, <3>2, <3>3 DEF Accepts
    <2> QED BY <2>1, <2>2, <2>3
  <1> QED BY <1>3, <1>4

\* What is swept no longer counts, and nothing that it had replaced does.
LEMMA SweepHeld ==
    ASSUME ExpirationFollowsCreation, StoresTyped, HeldInv, now \in Nat,
           NEW n \in Node, Sweep(n)
    PROVE  /\ HeldInv'
           /\ \A m \in Node, f \in Event : Past(m, f) => Past(m, f)'
           /\ \A m \in Node : entries'[m] \subseteq entries[m]
  <1>1. PICK S \in SUBSET Event : S = entries[n] /\ OnePerKey(S) /\ ids[n] = Ids(S)
    BY StoreOf DEF HeldInv
  <1>2. PICK V : V = SweepVictims(S, now) /\ V \subseteq S
    BY DEF SweepVictims
  <1>3. /\ entries' = [entries EXCEPT ![n] = S \ V]
        /\ ids' = [ids EXCEPT ![n] = Ids(S) \ Ids(V)]
        /\ now' = now
    BY <1>1, <1>2 DEF Sweep
  <1>4. /\ entries'[n] = S \ V /\ ids'[n] = Ids(S) \ Ids(V)
        /\ \A m \in Node \ {n} : entries'[m] = entries[m] /\ ids'[m] = ids[m]
    BY <1>3 DEF StoresTyped
  <1>5. Ids(S) \ Ids(V) = Ids(S \ V)
    <2>1. \A x, y \in S : x.id = y.id => x = y
      BY EventAssumption
    <2> QED BY <1>2, <2>1 DEF Ids
  <1>6. HeldInv'
    <2>1. OnePerKey(S \ V)
      BY <1>1 DEF OnePerKey
    <2>2. ASSUME NEW m \in Node PROVE OnePerKey(entries'[m]) /\ ids'[m] = Ids(entries'[m])
      BY <1>4, <1>5, <2>1 DEF HeldInv
    <2> QED BY <2>2 DEF HeldInv
  <1>7. ASSUME NEW m \in Node, NEW f \in Event, Past(m, f), IsLiveFresh(f, now)
        PROVE  HoldsAtLeast(m, f)'
    <2>1. HoldsAtLeast(m, f)
      BY <1>7 DEF Past
    <2>2. CASE m = n
      <3>1. PICK x \in S : StoreKey(x) = StoreKey(f) /\ (x = f \/ IsNewer(x, f))
        BY <1>1, <2>1, <2>2 DEF HoldsAtLeast, HeldAt
      <3>2. x \notin V
        BY <1>2, <1>7, <3>1, NewerLives DEF SweepVictims
      <3> QED BY <1>4, <2>2, <3>1, <3>2 DEF HoldsAtLeast, HeldAt
    <2>3. CASE m # n
      BY <1>4, <2>1, <2>3 DEF HoldsAtLeast
    <2> QED BY <2>2, <2>3
  <1>8. ASSUME NEW m \in Node, NEW f \in Event, Past(m, f) PROVE Past(m, f)'
    BY <1>3, <1>7, <1>8 DEF Past
  <1> QED BY <1>1, <1>4, <1>6, <1>8

-----------------------------------------------------------------------------
(***************************************************************************)
(* The connections, from the HELLO on.                                     *)
(***************************************************************************)

LinkState(l) == Apart(l) \/ Greeted(l) \/ Joined(l)

RequestsRecent(x) ==
    \A msg \in Msgs(wire[x]) :
        msg.type = "sync_req" => msg.since <= SaturatingSub(now, FreshnessWindow)

\* An edge or the one back is a link, and not both.
LEMMA EdgeLink ==
    ASSUME NEW a \in Edge
    PROVE  /\ a \in Link \/ Back(a) \in Link
           /\ ~(a \in Link /\ Back(a) \in Link)
  <1>1. \A l \in Link : l = <<l[1], l[2]>> /\ <<l[2], l[1]>> \notin Link
    <2>1. \A l \in Link : l \in Node \X Node
      BY NetAssumption
    <2>2. \A l \in Link : l = <<l[1], l[2]>>
      BY <2>1
    <2>3. \A l \in Link : <<l[2], l[1]>> \notin Link
      BY NetAssumption
    <2> QED BY <2>2, <2>3
  <1>2. a \in Link \/ Back(a) \in Link
    <2>1. CASE a \notin Link
      <3>1. PICK l \in Link : a = <<l[2], l[1]>>
        BY <2>1 DEF Edge
      <3>2. Back(a) = l
        BY <1>1, <3>1 DEF Back
      <3> QED BY <3>2
    <2> QED BY <2>1
  <1> QED BY <1>1, <1>2 DEF Back

\* A link is as it was when nothing about it changes.
LEMMA LinkSame ==
    ASSUME NEW l \in Link, LinkState(l),
           \A x \in {l, Back(l)} : /\ wire'[x] = wire[x]
                                   /\ x \in registered' <=> x \in registered
                                   /\ x \in streaming' <=> x \in streaming
    PROVE  LinkState(l)'
  <1>1. Back(Back(l)) = l
    BY EdgeEnds DEF Edge
  <1> QED BY <1>1 DEF LinkState, Apart, Greeted, Joined, NoStream, Flowing, Back

\* What happens on one connection leaves the others alone.
LEMMA LinkElsewhere ==
    ASSUME LinkInv, NEW a \in Edge, now' = now,
           \A x \in Edge \ {a, Back(a)} : /\ wire'[x] = wire[x] /\ stream'[x] = stream[x]
                                          /\ x \in registered' <=> x \in registered
                                          /\ x \in streaming' <=> x \in streaming,
           \A l \in Link \intersect {a, Back(a)} : LinkState(l)',
           \A x \in {a, Back(a)} : /\ x \notin streaming' => stream'[x] = {}
                                   /\ RequestsRecent(x)'
    PROVE  LinkInv'
  <1>1. Back(a) \in Edge /\ Back(Back(a)) = a
    BY EdgeEnds
  <1>2. ASSUME NEW l \in Link PROVE LinkState(l)'
    <2>1. CASE l \in {a, Back(a)}
      BY <2>1
    <2>2. CASE l \notin {a, Back(a)}
      <3>1. l \in Edge /\ Back(l) \in Edge /\ Back(Back(l)) = l
        BY EdgeEnds DEF Edge
      <3>2. Back(l) \notin {a, Back(a)}
        BY <1>1, <2>2, <3>1
      <3>3. LinkState(l)
        BY DEF LinkInv, LinkState
      <3> QED BY <2>2, <3>1, <3>2, <3>3, LinkSame
    <2> QED BY <2>1, <2>2
  <1>3. ASSUME NEW x \in Edge
        PROVE  (x \notin streaming' => stream'[x] = {}) /\ RequestsRecent(x)'
    <2>1. CASE x \in {a, Back(a)}
      BY <2>1
    <2>2. CASE x \notin {a, Back(a)}
      BY <2>2 DEF LinkInv, RequestsRecent
    <2> QED BY <2>1, <2>2
  <1> QED BY <1>2, <1>3 DEF LinkInv, LinkState, RequestsRecent

\* What the next message says of the connection it came on.
LEMMA Reading ==
    ASSUME ConnsTyped, LinkInv, NEW a \in Edge, NEW b, b = Back(a), wire[b] # <<>>
    PROVE  \/ /\ Head(wire[b]).type = "hello"
              /\ b \in Link /\ a \notin Link /\ Apart(b) /\ wire[b] = <<Plain("hello")>>
           \/ /\ Head(wire[b]).type = "ack"
              /\ a \in Link /\ b \notin Link /\ Greeted(a)
           \/ /\ Head(wire[b]).type \notin {"hello", "ack"}
              /\ a \in registered /\ b \in registered /\ Flowing(a) /\ Flowing(b)
  <1>1. b \in Edge /\ Back(b) = a /\ wire[b] \in Seq(Msg)
    BY EdgeEnds DEF ConnsTyped
  <1>2. PICK hello \in Msg : hello = Plain("hello") /\ hello.type = "hello"
    <2>1. Plain("hello") \in Msg /\ Plain("hello").type = "hello"
      BY DEF Plain, Msg
    <2> QED BY <2>1
  <1>3. Head(<<hello>>) = hello
    OBVIOUS
  <1>4. ~Has(wire[b], "hello") /\ ~Has(wire[b], "ack")
           => Head(wire[b]).type \notin {"hello", "ack"}
    BY <1>1, MsgsTail
  <1>5. CASE a \in Link
    <2>1. b \notin Link /\ (Apart(a) \/ Greeted(a) \/ Joined(a))
      BY <1>5, EdgeLink DEF LinkInv
    <2>2. ~Apart(a)
      BY DEF Apart
    <2>3. CASE Greeted(a)
      BY <1>5, <2>1, <2>3 DEF Greeted
    <2>4. CASE Joined(a)
      BY <1>4, <2>4 DEF Joined, Flowing, Plainly
    <2> QED BY <2>1, <2>2, <2>3, <2>4
  <1>6. CASE a \notin Link
    <2>1. b \in Link /\ (Apart(b) \/ Greeted(b) \/ Joined(b))
      BY <1>1, <1>6, EdgeLink DEF LinkInv
    <2>2. CASE Apart(b)
      BY <1>2, <1>3, <1>6, <2>1, <2>2 DEF Apart
    <2>3. ~Greeted(b)
      BY DEF Greeted
    <2>4. CASE Joined(b)
      BY <1>1, <1>4, <2>4 DEF Joined, Flowing, Plainly
    <2> QED BY <2>1, <2>2, <2>3, <2>4
  <1> QED BY <1>5, <1>6

\* A connection that carries events or a response is registered at both ends.
LEMMA JoinedBoth ==
    ASSUME LinkInv, NEW a \in Edge, NEW b, b = Back(a),
           a \in streaming \/ (a \in registered /\ b \in registered)
    PROVE  a \in registered /\ b \in registered /\ Flowing(a) /\ Flowing(b)
  <1>1. b \in Edge /\ Back(b) = a
    BY EdgeEnds
  <1>2. CASE a \in Link
    BY <1>1, <1>2 DEF LinkInv, Apart, Greeted, Joined, NoStream
  <1>3. CASE b \in Link
    BY <1>1, <1>3 DEF LinkInv, Apart, Greeted, Joined, NoStream
  <1> QED BY <1>2, <1>3, EdgeLink

\* Two registered ends whose messages flow are a link in order.
LEMMA FlowingLinks ==
    ASSUME NEW a \in Edge, NEW b, b = Back(a), a \in registered, b \in registered,
           Flowing(a), Flowing(b)
    PROVE  \A l \in Link \intersect {a, b} : LinkState(l)
  <1>1. Back(b) = a
    BY EdgeEnds
  <1> QED BY <1>1 DEF LinkState, Joined

\* Another message that neither greets nor asks.
LEMMA FlowingAppend ==
    ASSUME NEW s \in Seq(Msg), NEW msg \in Msg, msg.type \in {"event", "sync_done"}
    PROVE  /\ Plainly(s) => Plainly(Append(s, msg))
           /\ Has(Append(s, msg), "sync_req") <=> Has(s, "sync_req")
           /\ \A m \in Msgs(Append(s, msg)) : m \in Msgs(s) \/ m.type # "sync_req"
  BY MsgsAppend DEF Plainly

\* The messages that are on their way are messages.
LEMMA MsgsTyped ==
    ASSUME NEW s \in Seq(Msg)
    PROVE  \A m \in Msgs(s) : m \in Msg
  BY LenProperties DEF Msgs

\* broadcast_event writes behind what is on its way, where the hub has the
\* connection.
LEMMA LinkBroadcast ==
    ASSUME TypeOK, LinkInv, NEW n \in Node, NEW o \in outgoing[n], Broadcast(n, o)
    PROVE  LinkInv'
  <1>1. o.event \in Event
    BY DEF TypeOK
  <1>2. PICK msg \in Msg : msg = EventMsg(o.event) /\ msg.type = "event"
    BY <1>1, MsgsSent
  <1>3. /\ wire' = [x \in Edge |-> IF x[1] = n /\ x \in registered /\ x[2] # o.from
                                    THEN Append(wire[x], msg) ELSE wire[x]]
        /\ UNCHANGED <<now, registered, streaming, stream>>
    BY <1>2 DEF Broadcast
  <1>4. ASSUME NEW x \in Edge
        PROVE  /\ wire[x] \in Seq(Msg)
               /\ wire'[x] = wire[x] \/ (x \in registered /\ wire'[x] = Append(wire[x], msg))
    BY <1>3 DEF TypeOK
  <1>5. ASSUME NEW x \in Edge
        PROVE  /\ Plainly(wire[x]) => Plainly(wire'[x])
               /\ Has(wire'[x], "sync_req") <=> Has(wire[x], "sync_req")
               /\ \A m \in Msgs(wire'[x]) : m \in Msgs(wire[x]) \/ m.type # "sync_req"
    <2>1. CASE wire'[x] = wire[x]
      BY <2>1
    <2>2. CASE wire'[x] = Append(wire[x], msg)
      <3>1. wire[x] \in Seq(Msg) /\ msg.type \in {"event", "sync_done"}
        BY <1>2, <1>4
      <3> QED BY <2>2, <3>1, FlowingAppend
    <2> QED BY <1>4, <2>1, <2>2
  <1>6. ASSUME NEW l \in Link PROVE LinkState(l)'
    <2>1. PICK b \in Edge : b = Back(l) /\ l \in Edge /\ Back(b) = l
      BY EdgeEnds DEF Edge
    <2>2. LinkState(l)
      BY DEF LinkInv, LinkState
    <2>3. CASE Apart(l)
      <3>1. wire'[l] = wire[l] /\ wire'[b] = wire[b]
        BY <1>4, <2>1, <2>3 DEF Apart
      <3> QED BY <1>3, <2>1, <2>3, <3>1 DEF LinkState, Apart, NoStream, Back
    <2>4. CASE Greeted(l)
      <3>1. wire'[l] = wire[l]
        BY <1>4, <2>1, <2>4 DEF Greeted
      <3>2. wire[b] # <<>> /\ Head(wire[b]).type = "ack" /\ wire[b] \in Seq(Msg)
            /\ Plainly(Tail(wire[b])) /\ Has(Tail(wire[b]), "sync_req")
        BY <1>4, <2>1, <2>4 DEF Greeted
      <3>3. wire'[b] # <<>> /\ Head(wire'[b]).type = "ack"
            /\ Plainly(Tail(wire'[b])) /\ Has(Tail(wire'[b]), "sync_req")
        <4>1. CASE wire'[b] = wire[b]
          BY <3>2, <4>1
        <4>2. CASE wire'[b] = Append(wire[b], msg)
          <5>1. /\ wire'[b] # <<>> /\ Head(wire'[b]) = Head(wire[b])
                /\ Tail(wire[b]) \in Seq(Msg) /\ Tail(wire'[b]) = Append(Tail(wire[b]), msg)
            BY <3>2, <4>2, MsgsAppend
          <5>2. PICK r \in Seq(Msg) : r = Tail(wire[b]) /\ msg.type \in {"event", "sync_done"}
            BY <1>2, <5>1
          <5>3. Plainly(Append(r, msg)) /\ Has(Append(r, msg), "sync_req")
            BY <3>2, <5>2, FlowingAppend
          <5> QED BY <3>2, <5>1, <5>2, <5>3
        <4> QED BY <1>4, <4>1, <4>2
      <3> QED BY <1>3, <2>1, <2>4, <3>1, <3>3 DEF LinkState, Greeted, NoStream, Back
    <2>5. CASE Joined(l)
      <3>1. Flowing(l)' /\ Flowing(b)'
        BY <1>3, <1>5, <2>1, <2>5 DEF Joined, Flowing, Back
      <3> QED BY <1>3, <2>1, <2>5, <3>1 DEF LinkState, Joined, Back
    <2> QED BY <2>2, <2>3, <2>4, <2>5 DEF LinkState
  <1>7. ASSUME NEW x \in Edge
        PROVE  (x \notin streaming' => stream'[x] = {}) /\ RequestsRecent(x)'
    BY <1>3, <1>5 DEF LinkInv, RequestsRecent
  <1> QED BY <1>6, <1>7 DEF LinkInv, LinkState, RequestsRecent

\* A HELLO goes out where nothing was.
LEMMA LinkDial ==
    ASSUME TypeOK, LinkInv, NEW l \in Link, Dial(l)
    PROVE  LinkInv'
  <1>1. PICK b \in Edge : b = Back(l) /\ l \in Edge /\ Back(b) = l /\ b # l /\ b \notin Link
    BY EdgeEnds, EdgeLink DEF Edge
  <1>2. PICK msg \in Msg : msg = Plain("hello") /\ msg.type = "hello"
    BY MsgsSent
  <1>3. /\ wire' = [wire EXCEPT ![l] = <<msg>>]
        /\ UNCHANGED <<now, registered, streaming, stream>>
        /\ l \notin registered /\ b \notin registered /\ wire[b] = <<>>
    BY <1>1, <1>2 DEF Dial, Down, Back
  <1>4. wire'[l] = <<msg>> /\ wire'[b] = <<>> /\ \A x \in Edge \ {l} : wire'[x] = wire[x]
    BY <1>1, <1>3 DEF TypeOK
  <1>5. Apart(l)
    BY <1>1, <1>3 DEF LinkInv, Greeted, Joined
  <1>6. Apart(l)'
    BY <1>1, <1>2, <1>3, <1>4, <1>5 DEF Apart, NoStream, Back
  <1>7. RequestsRecent(l)' /\ RequestsRecent(b)'
    BY <1>2, <1>4, MsgsOne, MsgsEmpty DEF RequestsRecent
  <1>8. \A x \in {l, b} : x \notin streaming' => stream'[x] = {}
    BY <1>1, <1>3 DEF LinkInv
  <1>9. \A k \in Link \intersect {l, b} : LinkState(k)'
    BY <1>1, <1>6 DEF LinkState
  <1> QED BY <1>1, <1>3, <1>4, <1>7, <1>8, <1>9, LinkElsewhere

\* A closed connection is down.
LEMMA LinkClose ==
    ASSUME TypeOK, LinkInv, NEW a \in Edge, Close(a[1], a[2]), now' = now
    PROVE  LinkInv'
  <1>1. PICK b \in Edge : b = Back(a) /\ b # a /\ Back(b) = a
    BY EdgeEnds
  <1>2. <<a[1], a[2]>> = a /\ <<a[2], a[1]>> = b
    BY <1>1, EdgeEnds DEF Back
  <1>3. /\ registered' = registered \ {a, b}
        /\ wire' = [wire EXCEPT ![a] = <<>>, ![b] = <<>>]
        /\ streaming' = streaming \ {a, b}
        /\ stream' = [stream EXCEPT ![a] = {}, ![b] = {}]
    BY <1>2 DEF Close
  <1>4. /\ wire'[a] = <<>> /\ wire'[b] = <<>> /\ stream'[a] = {} /\ stream'[b] = {}
        /\ \A x \in Edge \ {a, b} : wire'[x] = wire[x] /\ stream'[x] = stream[x]
    BY <1>1, <1>3 DEF TypeOK
  <1>5. Apart(a)' /\ Apart(b)'
    BY <1>1, <1>3, <1>4 DEF Apart, NoStream
  <1>6. RequestsRecent(a)' /\ RequestsRecent(b)'
    BY <1>4, MsgsEmpty DEF RequestsRecent
  <1>7. \A l \in Link \intersect {a, b} : LinkState(l)'
    BY <1>5 DEF LinkState
  <1> QED BY <1>1, <1>3, <1>4, <1>6, <1>7, LinkElsewhere

-----------------------------------------------------------------------------
(***************************************************************************)
(* What the pump of an end a does with the next message.                   *)
(***************************************************************************)

WireElsewhere(a) == \A x \in Edge \ {a, Back(a)} : wire'[x] = wire[x]

ReadHello(a) ==
    /\ Back(a) \in Link /\ a \notin Link /\ Apart(Back(a))
    /\ wire'[a] = <<Plain("ack"), SyncReq>> /\ wire'[Back(a)] = <<>> /\ WireElsewhere(a)
    /\ registered' = registered \union {a}
    /\ UNCHANGED <<stores, outgoing, streaming, stream>>

ReadAck(a) ==
    /\ a \in Link /\ Back(a) \notin Link /\ Greeted(a)
    /\ wire'[a] = <<SyncReq>> /\ wire'[Back(a)] = Tail(wire[Back(a)]) /\ WireElsewhere(a)
    /\ registered' = registered \union {a}
    /\ UNCHANGED <<stores, outgoing, streaming, stream>>

\* In all other cases both ends have registered the connection.
Runs(a) ==
    /\ a \in registered /\ Back(a) \in registered /\ Flowing(a) /\ Flowing(Back(a))
    /\ wire[Back(a)] # <<>>

Takes(a) ==
    /\ wire'[Back(a)] = Tail(wire[Back(a)]) /\ wire'[a] = wire[a] /\ WireElsewhere(a)
    /\ registered' = registered

ReadTooMany(a) == Runs(a) /\ Close(a[1], a[2]) /\ UNCHANGED <<stores, outgoing>>

ReadEvent(a, e) ==
    /\ Runs(a) /\ Takes(a) /\ Head(wire[Back(a)]) = EventMsg(e)
    /\ UNCHANGED <<streaming, stream>>
    /\ seen' = [seen EXCEPT ![a[1]] = CheckAndInsert(@, e.id, now)]
    /\ IF Known(seen[a[1]], e.id, now) THEN UNCHANGED <<entries, ids, outgoing>>
                                       ELSE Insert(a[1], e, a[2])

ReadRequest(a) ==
    /\ Runs(a) /\ Takes(a) /\ Head(wire[Back(a)]).type = "sync_req"
    /\ a \notin streaming /\ streaming' = streaming \union {a}
    /\ stream' = [stream EXCEPT ![a] = SyncEvents(a[1], Head(wire[Back(a)]).since)]
    /\ UNCHANGED <<stores, outgoing>>

ReadDone(a) ==
    /\ Runs(a) /\ Takes(a) /\ Head(wire[Back(a)]).type = "sync_done"
    /\ UNCHANGED <<stores, outgoing, streaming, stream>>

\* There is no other case.
LEMMA DeliverCases ==
    ASSUME TypeOK, LinkInv, NEW a \in Edge, Deliver(a[1], a[2])
    PROVE  /\ UNCHANGED <<now, published>>
           /\ \/ ReadHello(a) \/ ReadAck(a) \/ ReadTooMany(a)
              \/ (\E e \in Event : ReadEvent(a, e))
              \/ ReadRequest(a) \/ ReadDone(a)
  <1>1. PICK b \in Edge : b = Back(a) /\ b # a /\ Back(b) = a
    BY EdgeEnds
  <1>2. <<a[1], a[2]>> = a /\ <<a[2], a[1]>> = b /\ a[1] \in Node /\ a[2] \in Node
    BY <1>1, EdgeEnds DEF Back
  <1>3. ConnsTyped /\ wire \in [Edge -> Seq(Msg)] /\ wire[a] \in Seq(Msg)
    BY DEF TypeOK, ConnsTyped
  <1>4. PICK msg \in Msg : msg = Head(wire[b]) /\ wire[b] # <<>> /\ wire[b] \in Seq(Msg)
    <2>1. wire[b] # <<>> /\ wire[b] \in Seq(Msg)
      BY <1>2, <1>3 DEF Deliver
    <2> QED BY <2>1, MsgsTail
  <1>5. UNCHANGED <<now, published>>
    BY DEF Deliver
  <1>6. \/ /\ msg.type = "hello"
           /\ b \in Link /\ a \notin Link /\ Apart(b) /\ wire[b] = <<Plain("hello")>>
        \/ msg.type = "ack" /\ a \in Link /\ b \notin Link /\ Greeted(a)
        \/ msg.type \notin {"hello", "ack"} /\ Runs(a)
    BY <1>1, <1>3, <1>4, Reading DEF Runs
  <1>7. PICK req \in Msg, ack \in Msg : req = SyncReq /\ ack = Plain("ack")
    BY MsgsSent
  <1>8. ASSUME NEW f \in Seq(Msg), Established(a[1], a[2], f)
        PROVE  /\ registered' = registered \union {a}
               /\ wire'[b] = Tail(wire[b]) /\ wire'[a] = (wire[a] \o f) \o <<req>>
               /\ WireElsewhere(a)
               /\ UNCHANGED <<streaming, stream>>
    <2>1. /\ registered' = registered \union {a}
          /\ wire' = [wire EXCEPT ![b] = Tail(@), ![a] = (@ \o f) \o <<req>>]
          /\ UNCHANGED <<streaming, stream>>
      BY <1>2, <1>7, <1>8 DEF Established
    <2> QED BY <1>1, <1>3, <2>1 DEF WireElsewhere
  <1>9. ASSUME wire' = [wire EXCEPT ![b] = Tail(@)], registered' = registered PROVE Takes(a)
    BY <1>1, <1>3, <1>9 DEF Takes, WireElsewhere
  <1>10. CASE msg.type = "hello"
    <2>1. /\ b \in Link /\ a \notin Link /\ Apart(b) /\ wire[b] = <<Plain("hello")>>
          /\ wire[a] = <<>>
      BY <1>1, <1>6, <1>10 DEF Apart
    <2>2. Established(a[1], a[2], <<ack>>) /\ UNCHANGED <<stores, outgoing>>
      BY <1>2, <1>4, <1>7, <1>10 DEF Deliver
    <2>3. wire'[a] = <<ack, req>> /\ wire'[b] = <<>>
      <3>1. <<ack>> \in Seq(Msg)
        OBVIOUS
      <3>2. wire'[b] = Tail(wire[b]) /\ wire'[a] = (wire[a] \o <<ack>>) \o <<req>>
        BY <1>8, <2>2, <3>1
      <3>3. (<<>> \o <<ack>>) \o <<req>> = <<ack, req>>
        <4>1. <<>> \o <<ack>> = <<ack>>
          BY <3>1, ConcatEmptySeq
        <4>2. <<ack>> \o <<req>> = <<ack, req>>
          BY TwoMsgs
        <4> QED BY <4>1, <4>2
      <3>4. Tail(wire[b]) = <<>>
        BY <2>1
      <3> QED BY <2>1, <3>2, <3>3, <3>4
    <2>4. ReadHello(a)
      <3>1. <<ack>> \in Seq(Msg)
        OBVIOUS
      <3> QED BY <1>1, <1>7, <1>8, <2>1, <2>2, <2>3, <3>1 DEF ReadHello
    <2> QED BY <1>5, <2>4
  <1>11. CASE msg.type = "ack"
    <2>1. a \in Link /\ b \notin Link /\ Greeted(a) /\ wire[a] = <<>>
      BY <1>6, <1>11 DEF Greeted
    <2>2. Established(a[1], a[2], <<>>) /\ UNCHANGED <<stores, outgoing>>
      BY <1>2, <1>4, <1>11 DEF Deliver
    <2>3. <<>> \in Seq(Msg) /\ (<<>> \o <<>>) \o <<req>> = <<req>>
      BY EmptySeq
    <2>4. wire'[a] = <<req>>
      BY <1>8, <2>1, <2>2, <2>3
    <2>5. ReadAck(a)
      BY <1>1, <1>7, <1>8, <2>1, <2>2, <2>3, <2>4 DEF ReadAck
    <2> QED BY <1>5, <2>5
  <1>12. CASE msg.type = "event"
    <2>1. Runs(a) /\ msg.event \in Event /\ msg = EventMsg(msg.event)
      <3>1. msg \in [type : {"event"}, event : Event]
        BY <1>12 DEF Msg
      <3> QED BY <1>6, <1>12, <3>1 DEF EventMsg
    <2>2. DeliverEvent(a[1], a[2], msg.event)
      BY <1>2, <1>4, <1>12 DEF Deliver
    <2>3. CASE Counted(a) > EventStoreMax
      BY <1>2, <1>5, <2>1, <2>2, <2>3 DEF DeliverEvent, ReadTooMany
    <2>4. CASE ~(Counted(a) > EventStoreMax)
      <3>1. /\ wire' = [wire EXCEPT ![b] = Tail(@)]
            /\ UNCHANGED <<registered, streaming, stream>>
            /\ seen' = [seen EXCEPT ![a[1]] = CheckAndInsert(@, msg.event.id, now)]
            /\ IF Known(seen[a[1]], msg.event.id, now) THEN UNCHANGED <<entries, ids, outgoing>>
               ELSE Insert(a[1], msg.event, a[2])
        BY <1>2, <2>2, <2>4 DEF DeliverEvent
      <3>2. ReadEvent(a, msg.event)
        BY <1>1, <1>4, <1>9, <2>1, <3>1 DEF ReadEvent
      <3> QED BY <1>5, <2>1, <3>2
    <2> QED BY <2>3, <2>4
  <1>13. CASE msg.type = "sync_req"
    <2>1. Runs(a) /\ a \notin streaming
      <3>1. Has(wire[b], "sync_req")
        BY <1>4, <1>13, MsgsTail
      <3> QED BY <1>1, <1>6, <1>13, <3>1 DEF Runs, Flowing
    <2>2. DeliverSyncReq(a[1], a[2], msg.since)
      BY <1>2, <1>4, <1>13 DEF Deliver
    <2>3. /\ streaming' = streaming \union {a}
          /\ stream' = [stream EXCEPT ![a] = SyncEvents(a[1], msg.since)]
          /\ wire' = [wire EXCEPT ![b] = Tail(@)]
          /\ UNCHANGED <<stores, outgoing, registered>>
      BY <1>2, <2>1, <2>2 DEF DeliverSyncReq
    <2>4. ReadRequest(a)
      BY <1>1, <1>4, <1>9, <1>13, <2>1, <2>3 DEF ReadRequest
    <2> QED BY <1>5, <2>4
  <1>14. CASE msg.type = "sync_done"
    <2>1. Runs(a)
      BY <1>6, <1>14
    <2>2. DeliverSyncDone(a[1], a[2])
      BY <1>2, <1>4, <1>14 DEF Deliver
    <2>3. /\ wire' = [wire EXCEPT ![b] = Tail(@)]
          /\ UNCHANGED <<stores, outgoing, registered, streaming, stream>>
      BY <1>2, <2>2 DEF DeliverSyncDone
    <2>4. ReadDone(a)
      BY <1>1, <1>4, <1>9, <1>14, <2>1, <2>3 DEF ReadDone
    <2> QED BY <1>5, <2>4
  <1> QED BY <1>10, <1>11, <1>12, <1>13, <1>14, MsgParts

\* A step of the answering task: an event that is left, or the end.
LEMMA StreamCases ==
    ASSUME TypeOK, NEW a \in Edge, StreamStep(a[1], a[2])
    PROVE  /\ a \in streaming
           /\ UNCHANGED <<now, published, stores, outgoing, registered>>
           /\ \A x \in Edge \ {a} : wire'[x] = wire[x] /\ stream'[x] = stream[x]
           /\ \/ \E e \in stream[a] :
                    /\ wire'[a] = Append(wire[a], EventMsg(e)) /\ stream'[a] = stream[a] \ {e}
                    /\ streaming' = streaming
              \/ /\ wire'[a] = Append(wire[a], Plain("sync_done")) /\ stream[a] = {}
                 /\ streaming' = streaming \ {a} /\ stream'[a] = {}
  <1>1. a = <<a[1], a[2]>>
    BY EdgeEnds
  <1>2. wire \in [Edge -> Seq(Msg)] /\ stream \in [Edge -> SUBSET Event]
    BY DEF TypeOK
  <1>3. a \in streaming /\ UNCHANGED <<now, published, stores, outgoing, registered>>
    BY <1>1 DEF StreamStep
  <1>4. CASE \E e \in stream[a] :
                  /\ wire' = [wire EXCEPT ![a] = Append(@, EventMsg(e))]
                  /\ stream' = [stream EXCEPT ![a] = @ \ {e}]
                  /\ UNCHANGED streaming
    BY <1>2, <1>3, <1>4
  <1>5. CASE /\ stream[a] = {}
             /\ wire' = [wire EXCEPT ![a] = Append(@, Plain("sync_done"))]
             /\ streaming' = streaming \ {a}
             /\ UNCHANGED stream
    BY <1>2, <1>3, <1>5
  <1> QED BY <1>1, <1>4, <1>5 DEF StreamStep

\* HELLO is answered by HELLO_ACK and the request.
LEMMA LinkHello ==
    ASSUME TypeOK, LinkInv, NEW a \in Edge, ReadHello(a), now' = now
    PROVE  LinkInv'
  <1>1. PICK b \in Edge : b = Back(a) /\ b # a /\ Back(b) = a
    BY EdgeEnds
  <1>2. PICK req \in Msg, ack \in Msg :
           /\ req = SyncReq /\ req.type = "sync_req" /\ ack = Plain("ack") /\ ack.type = "ack"
    BY MsgsSent
  <1>3. req.since = SaturatingSub(now, FreshnessWindow)
    BY <1>2 DEF SyncReq
  <1>4. /\ a \notin Link /\ Apart(b) /\ wire'[a] = <<ack, req>> /\ wire'[b] = <<>>
        /\ \A x \in Edge \ {a, b} : wire'[x] = wire[x]
        /\ registered' = registered \union {a}
        /\ UNCHANGED <<streaming, stream>>
    BY <1>1, <1>2 DEF ReadHello, WireElsewhere
  <1>5. PICK s \in Seq(Msg) : s = <<ack, req>> /\ s # <<>> /\ Head(s) = ack /\ Tail(s) = <<req>>
    BY TwoMsgs
  <1>6. /\ Msgs(<<req>>) = {req} /\ Has(<<req>>, "sync_req") /\ Plainly(<<req>>)
        /\ Msgs(s) = {ack, req}
    <2>1. /\ Msgs(<<req>>) = {req} /\ OneReq(<<req>>)
          /\ \A t : Has(<<req>>, t) <=> req.type = t
      BY MsgsOne
    <2>2. Msgs(s) = {ack} \union Msgs(<<req>>)
      BY <1>5, MsgsTail
    <2>3. Has(<<req>>, "sync_req") /\ Plainly(<<req>>)
      BY <1>2, <2>1 DEF Plainly
    <2> QED BY <2>1, <2>2, <2>3
  <1>7. Greeted(b)'
    BY <1>1, <1>2, <1>4, <1>5, <1>6 DEF Apart, Greeted, NoStream
  <1>8. RequestsRecent(a)' /\ RequestsRecent(b)'
    <2>1. now \in Nat /\ req.since <= req.since
      BY <1>3, NetAssumption, StoreConfigAssumption DEF TypeOK, SaturatingSub
    <2> QED BY <1>2, <1>3, <1>4, <1>5, <1>6, <2>1, MsgsEmpty DEF RequestsRecent
  <1>9. \A x \in {a, b} : x \notin streaming' => stream'[x] = {}
    BY <1>1, <1>4 DEF LinkInv
  <1>10. \A l \in Link \intersect {a, b} : LinkState(l)'
    BY <1>4, <1>7 DEF LinkState
  <1> QED BY <1>1, <1>4, <1>8, <1>9, <1>10, LinkElsewhere

\* HELLO_ACK is answered by the request; the other one is on its way.
LEMMA LinkAck ==
    ASSUME TypeOK, LinkInv, NEW a \in Edge, ReadAck(a), now' = now
    PROVE  LinkInv'
  <1>1. PICK b \in Edge : b = Back(a) /\ b # a /\ Back(b) = a
    BY EdgeEnds
  <1>2. PICK req \in Msg : req = SyncReq /\ req.type = "sync_req"
    BY MsgsSent
  <1>3. req.since = SaturatingSub(now, FreshnessWindow)
    BY <1>2 DEF SyncReq
  <1>4. /\ b \notin Link /\ Greeted(a) /\ wire'[a] = <<req>> /\ wire'[b] = Tail(wire[b])
        /\ \A x \in Edge \ {a, b} : wire'[x] = wire[x]
        /\ registered' = registered \union {a}
        /\ UNCHANGED <<streaming, stream>>
    BY <1>1, <1>2 DEF ReadAck, WireElsewhere
  <1>5. /\ Msgs(<<req>>) = {req} /\ Plainly(<<req>>)
    BY <1>2, MsgsOne DEF Plainly
  <1>6. /\ b \in registered /\ a \notin streaming /\ b \notin streaming
        /\ wire[b] \in Seq(Msg) /\ wire[b] # <<>> /\ Plainly(Tail(wire[b]))
    BY <1>1, <1>4 DEF Greeted, NoStream, TypeOK
  <1>7. Joined(a)'
    BY <1>1, <1>4, <1>5, <1>6 DEF Joined, Flowing
  <1>8. RequestsRecent(a)' /\ RequestsRecent(b)'
    <2>1. now \in Nat /\ req.since <= req.since
      BY <1>3, NetAssumption, StoreConfigAssumption DEF TypeOK, SaturatingSub
    <2>2. Msgs(wire'[b]) \subseteq Msgs(wire[b])
      BY <1>4, <1>6, MsgsTail
    <2>3. RequestsRecent(b)
      BY DEF LinkInv, RequestsRecent
    <2> QED BY <1>2, <1>3, <1>4, <1>5, <2>1, <2>2, <2>3 DEF RequestsRecent
  <1>9. \A x \in {a, b} : x \notin streaming' => stream'[x] = {}
    BY <1>1, <1>4 DEF LinkInv
  <1>10. \A l \in Link \intersect {a, b} : LinkState(l)'
    BY <1>4, <1>7 DEF LinkState
  <1> QED BY <1>1, <1>4, <1>8, <1>9, <1>10, LinkElsewhere

\* A message is taken off a connection that runs; a request starts the answer.
LEMMA LinkTakes ==
    ASSUME TypeOK, LinkInv, NEW a \in Edge, Runs(a), Takes(a), now' = now,
           \/ UNCHANGED <<streaming, stream>>
           \/ /\ Head(wire[Back(a)]).type = "sync_req"
              /\ streaming' = streaming \union {a}
              /\ \A x \in Edge \ {a} : stream'[x] = stream[x]
    PROVE  LinkInv'
  <1>1. PICK b \in Edge : b = Back(a) /\ b # a /\ Back(b) = a
    BY EdgeEnds
  <1>2. /\ a \in registered /\ b \in registered /\ Flowing(a) /\ Flowing(b)
        /\ wire[b] # <<>> /\ wire[b] \in Seq(Msg)
        /\ wire'[b] = Tail(wire[b]) /\ wire'[a] = wire[a] /\ registered' = registered
        /\ \A x \in Edge \ {a, b} : wire'[x] = wire[x]
    BY <1>1 DEF Runs, Takes, WireElsewhere, TypeOK
  <1>3. /\ Plainly(wire'[b]) /\ Msgs(wire'[b]) \subseteq Msgs(wire[b])
        /\ Has(wire'[b], "sync_req") => /\ Has(wire[b], "sync_req")
                                            /\ Head(wire[b]).type # "sync_req"
    BY <1>2, MsgsTail DEF Flowing, Plainly
  <1>4. /\ \A x \in Edge \ {a} : x \in streaming' <=> x \in streaming
        /\ \A x \in Edge \ {a} : stream'[x] = stream[x]
        /\ a \notin streaming' => stream'[a] = stream[a] /\ a \notin streaming
        /\ a \in streaming' => a \in streaming \/ Head(wire[b]).type = "sync_req"
    BY <1>1
  <1>5. Flowing(a)' /\ Flowing(b)'
    <2>1. Flowing(a)'
      BY <1>1, <1>2, <1>4 DEF Flowing
    <2>2. Flowing(b)'
      BY <1>1, <1>2, <1>3, <1>4 DEF Flowing
    <2> QED BY <2>1, <2>2
  <1>6. RequestsRecent(a)' /\ RequestsRecent(b)'
    BY <1>2, <1>3 DEF LinkInv, RequestsRecent
  <1>7. \A x \in {a, b} : x \notin streaming' => stream'[x] = {}
    BY <1>1, <1>4 DEF LinkInv
  <1>8. \A l \in Link \intersect {a, b} : LinkState(l)'
    BY <1>1, <1>2, <1>5 DEF LinkState, Joined
  <1> QED BY <1>1, <1>2, <1>4, <1>6, <1>7, <1>8, LinkElsewhere

\* The answering task writes only where both ends have registered.
LEMMA LinkStream ==
    ASSUME TypeOK, LinkInv, NEW a \in Edge, StreamStep(a[1], a[2])
    PROVE  LinkInv'
  <1>1. PICK b \in Edge : b = Back(a) /\ b # a /\ Back(b) = a
    BY EdgeEnds
  <1>2. /\ a \in streaming /\ UNCHANGED <<now, registered>>
        /\ \A x \in Edge \ {a} : wire'[x] = wire[x] /\ stream'[x] = stream[x]
    BY StreamCases
  <1>3. a \in registered /\ b \in registered /\ Flowing(a) /\ Flowing(b)
    BY <1>1, <1>2, JoinedBoth
  <1>4. PICK msg \in Msg :
           /\ msg.type \in {"event", "sync_done"} /\ wire'[a] = Append(wire[a], msg)
           /\ \/ streaming' = streaming
              \/ streaming' = streaming \ {a} /\ stream'[a] = {}
    <2>1. CASE \E e \in stream[a] : /\ wire'[a] = Append(wire[a], EventMsg(e))
                                    /\ streaming' = streaming
      <3>1. PICK e \in stream[a] : /\ wire'[a] = Append(wire[a], EventMsg(e))
                                   /\ streaming' = streaming
        BY <2>1
      <3>2. e \in Event
        BY <3>1 DEF TypeOK
      <3> QED BY <3>1, <3>2, MsgsSent
    <2>2. CASE /\ wire'[a] = Append(wire[a], Plain("sync_done"))
               /\ streaming' = streaming \ {a} /\ stream'[a] = {}
      BY <2>2, MsgsSent
    <2> QED BY <2>1, <2>2, StreamCases
  <1>5. wire[a] \in Seq(Msg)
    BY DEF TypeOK
  <1>6. /\ Plainly(wire[a]) => Plainly(wire'[a])
        /\ Has(wire'[a], "sync_req") <=> Has(wire[a], "sync_req")
        /\ \A m \in Msgs(wire'[a]) : m \in Msgs(wire[a]) \/ m.type # "sync_req"
    BY <1>4, <1>5, FlowingAppend
  <1>7. Flowing(a)' /\ Flowing(b)'
    BY <1>1, <1>2, <1>3, <1>4, <1>6 DEF Flowing
  <1>8. RequestsRecent(a)' /\ RequestsRecent(b)'
    BY <1>1, <1>2, <1>6 DEF LinkInv, RequestsRecent
  <1>9. \A x \in {a, b} : x \notin streaming' => stream'[x] = {}
    BY <1>1, <1>2, <1>4 DEF LinkInv
  <1>10. \A l \in Link \intersect {a, b} : LinkState(l)'
    BY <1>1, <1>2, <1>3, <1>7 DEF LinkState, Joined
  <1> QED BY <1>1, <1>2, <1>4, <1>8, <1>9, <1>10, LinkElsewhere

-----------------------------------------------------------------------------
(***************************************************************************)
(* What nodes are done with.                                               *)
(***************************************************************************)

\* Nobody forgets.
PastKept == \A n \in Node, e \in Event : Past(n, e) => Past(n, e)'

\* A node that holds an event is done with it.
LEMMA HeldPast ==
    ASSUME NEW n \in Node, NEW e \in entries[n]
    PROVE  HoldsAtLeast(n, e) /\ Past(n, e)
  BY DEF HoldsAtLeast, HeldAt, Past

\* Nobody forgets while stores and clock stand still.
LEMMA SamePast ==
    ASSUME now' = now, entries' = entries
    PROVE  PastKept
  BY DEF PastKept, Past, HoldsAtLeast

\* PastInv needs a look only at what is new.
LEMMA PastNext ==
    ASSUME StoresTyped, PastInv, PastKept,
           \A n \in Node : \A r \in seen'[n] : \A e \in Event :
              r.id = e.id => (\E s \in seen[n] : s.id = e.id) \/ Past(n, e)',
           \A n \in Node : \A o \in outgoing'[n] :
              o \in outgoing[n] \/ (Past(n, o.event)' /\ Past(o.from, o.event)'),
           \A x \in Edge : \A e \in Event :
              EventMsg(e) \in Msgs(wire'[x]) \/ e \in stream'[x] =>
                 EventMsg(e) \in Msgs(wire[x]) \/ e \in stream[x] \/ Past(x[1], e)
    PROVE  PastInv'
  <1>1. SeenPast'
    <2> SUFFICES ASSUME NEW n \in Node, NEW r \in seen'[n], NEW e \in Event, r.id = e.id
                 PROVE  Past(n, e)'
      BY DEF SeenPast
    <2>1. CASE \E s \in seen[n] : s.id = e.id
      BY <2>1 DEF PastInv, SeenPast, PastKept
    <2> QED BY <2>1
  <1>2. OutPast'
    <2> SUFFICES ASSUME NEW n \in Node, NEW o \in outgoing'[n]
                 PROVE  Past(n, o.event)' /\ Past(o.from, o.event)'
      BY DEF OutPast
    <2>1. CASE o \in outgoing[n]
      <3>1. o.event \in Event /\ o.from \in Node
        BY <2>1 DEF StoresTyped
      <3>2. Past(n, o.event) /\ Past(o.from, o.event)
        BY <2>1 DEF PastInv, OutPast
      <3> QED BY <3>1, <3>2 DEF PastKept
    <2> QED BY <2>1
  <1>3. ASSUME NEW x \in Edge PROVE WirePast(x)'
    <2> SUFFICES ASSUME NEW e \in Event, EventMsg(e) \in Msgs(wire'[x]) \/ e \in stream'[x]
                 PROVE  Past(x[1], e)'
      BY DEF WirePast
    <2>1. Past(x[1], e) /\ x[1] \in Node
      BY EdgeEnds DEF PastInv, WirePast
    <2> QED BY <2>1 DEF PastKept
  <1> QED BY <1>1, <1>2, <1>3 DEF PastInv

\* check_and_insert records the event at hand.
LEMMA SeenMore ==
    ASSUME StoresTyped, NEW n \in Node, NEW e \in Event, Past(n, e)',
           seen' = [seen EXCEPT ![n] = CheckAndInsert(@, e.id, now)]
    PROVE  \A m \in Node : \A r \in seen'[m] : \A f \in Event :
              r.id = f.id => (\E s \in seen[m] : s.id = f.id) \/ Past(m, f)'
  <1> SUFFICES ASSUME NEW m \in Node, NEW r \in seen'[m], NEW f \in Event, r.id = f.id
               PROVE  (\E s \in seen[m] : s.id = f.id) \/ Past(m, f)'
    OBVIOUS
  <1>1. CASE m # n
    BY <1>1 DEF StoresTyped
  <1>2. CASE m = n
    <2>1. r \in seen[n] \/ r = [id |-> e.id, at |-> now]
      BY <1>2 DEF StoresTyped, CheckAndInsert, PurgeExpired
    <2>2. CASE r \in seen[n]
      BY <1>2, <2>2
    <2>3. CASE r = [id |-> e.id, at |-> now]
      <3>1. f = e
        BY <2>3, EventAssumption
      <3> QED BY <1>2, <3>1
    <2> QED BY <2>1, <2>2, <2>3
  <1> QED BY <1>1, <1>2

\* insert() leaves its node done with the event, and broadcasts nothing else.
LEMMA InsertPast ==
    ASSUME StoresRoomy, StoresTyped, HeldInv, now \in Nat, now' = now,
           NEW n \in Node, NEW e \in Event, NEW from \in Node, Insert(n, e, from),
           n = from \/ Past(from, e)
    PROVE  /\ PastKept /\ Past(n, e)'
           /\ \A m \in Node : \A o \in outgoing'[m] :
                 o \in outgoing[m] \/ (Past(m, o.event)' /\ Past(o.from, o.event)')
  <1>1. /\ \A m \in Node, f \in Event : HoldsAtLeast(m, f) => HoldsAtLeast(m, f)'
        /\ IsLiveFresh(e, now) => HoldsAtLeast(n, e)'
        /\ \A m \in Node \ {n} : outgoing'[m] = outgoing[m]
        /\ outgoing'[n] \subseteq outgoing[n] \union {[event |-> e, from |-> from]}
    BY InsertHeld
  <1>2. PastKept
    BY <1>1 DEF PastKept, Past
  <1>3. Past(n, e)' /\ Past(from, e)'
    BY <1>1, <1>2 DEF PastKept, Past
  <1>4. ASSUME NEW m \in Node, NEW o \in outgoing'[m]
        PROVE  o \in outgoing[m] \/ (Past(m, o.event)' /\ Past(o.from, o.event)')
    <2>1. CASE m # n
      BY <1>1, <1>4, <2>1
    <2>2. CASE m = n /\ o = [event |-> e, from |-> from]
      <3>1. o.event = e /\ o.from = from
        BY <2>2
      <3> QED BY <1>3, <2>2, <3>1
    <2> QED BY <1>1, <1>4, <2>1, <2>2
  <1> QED BY <1>2, <1>3, <1>4

-----------------------------------------------------------------------------
(***************************************************************************)
(* What has reached the other end.                                         *)
(***************************************************************************)

\* CoverInv needs a look only at what the other end does not hold yet.
LEMMA CoverNext ==
    ASSUME CoverInv, PastKept, NEW x \in Edge, x \in registered, Back(x) \in registered,
           NEW e \in Event, e \in entries[x[1]], IsLiveFresh(e, now), IsLiveFresh(e, now'),
           (\E o \in outgoing[x[1]] : o.event = e) => Covered(x, e)',
           EventMsg(e) \in Msgs(wire[x]) => Covered(x, e)',
           e \in stream[x] => Covered(x, e)',
           Has(wire[Back(x)], "sync_req") => Covered(x, e)'
    PROVE  Covered(x, e)'
  <1>1. Covered(x, e) /\ x[2] \in Node
    BY EdgeEnds DEF CoverInv
  <1>2. CASE HoldsAtLeast(x[2], e)
    <2>1. Past(x[2], e)'
      BY <1>1, <1>2 DEF Past, PastKept
    <2>2. HoldsAtLeast(x[2], e)'
      BY <2>1 DEF Past
    <2> QED BY <2>2 DEF Covered
  <1> QED BY <1>1, <1>2 DEF Covered

\* A connection on which nothing is taken or closed stays covered.
LEMMA CoverKept ==
    ASSUME CoverInv, PastKept, NEW x \in Edge, x \in registered, Back(x) \in registered,
           NEW e \in Event, e \in entries[x[1]], IsLiveFresh(e, now), IsLiveFresh(e, now'),
           outgoing[x[1]] \subseteq outgoing'[x[1]],
           Msgs(wire[x]) \subseteq Msgs(wire'[x]), stream[x] \subseteq stream'[x],
           Msgs(wire[Back(x)]) \subseteq Msgs(wire'[Back(x)])
    PROVE  Covered(x, e)'
  <1>1. Has(wire[Back(x)], "sync_req") => Has(wire'[Back(x)], "sync_req")
    BY DEF Has
  <1> QED BY <1>1, CoverNext DEF Covered, Back

-----------------------------------------------------------------------------
(***************************************************************************)
(* The steps.                                                              *)
(***************************************************************************)

AgreeInv == HeldInv /\ PastInv /\ LinkInv /\ CoverInv

Agreeing == HeldInv /\ PastInv /\ CoverInv

\* A connection whose ends are not both registered is not looked at; on the
\* others nothing changes.
LEMMA OtherwiseKept ==
    ASSUME AgreeInv, StoresTyped, NEW a \in Edge, UNCHANGED <<now, entries, ids, seen, outgoing>>,
           ~(a \in registered' /\ Back(a) \in registered'),
           \A x \in Edge \ {a, Back(a)} : /\ wire'[x] = wire[x] /\ stream'[x] = stream[x]
                                          /\ x \in registered' => x \in registered,
           \A x \in {a, Back(a)} : /\ stream'[x] \subseteq stream[x]
                                   /\ \A e \in Event : EventMsg(e) \in Msgs(wire'[x])
                                                          => EventMsg(e) \in Msgs(wire[x])
    PROVE  Agreeing'
  <1>1. PastKept
    BY SamePast
  <1>2. HeldInv'
    BY DEF AgreeInv, HeldInv
  <1>3. PastInv'
    <2>1. \A n \in Node : \A r \in seen'[n] : \A e \in Event :
             r.id = e.id => (\E s \in seen[n] : s.id = e.id) \/ Past(n, e)'
      OBVIOUS
    <2>2. ASSUME NEW x \in Edge, NEW e \in Event, EventMsg(e) \in Msgs(wire'[x]) \/ e \in stream'[x]
          PROVE  EventMsg(e) \in Msgs(wire[x]) \/ e \in stream[x]
      <3>1. CASE x \in {a, Back(a)}
        BY <2>2, <3>1
      <3>2. CASE x \notin {a, Back(a)}
        BY <2>2, <3>2
      <3> QED BY <3>1, <3>2
    <2> QED BY <1>1, <2>1, <2>2, PastNext DEF AgreeInv
  <1>4. CoverInv'
    <2> SUFFICES ASSUME NEW x \in Edge, x \in registered', Back(x) \in registered',
                        NEW e \in entries[x[1]], IsLiveFresh(e, now)
                 PROVE  Covered(x, e)'
      BY DEF CoverInv, Back
    <2>1. x \notin {a, Back(a)} /\ Back(x) \in Edge /\ Back(x) \notin {a, Back(a)}
      BY EdgeEnds
    <2>2. x \in registered /\ Back(x) \in registered /\ e \in Event /\ x[1] \in Node
      BY <2>1, EdgeEnds DEF StoresTyped
    <2> QED BY <1>1, <2>1, <2>2, CoverKept DEF AgreeInv
  <1> QED BY <1>2, <1>3, <1>4 DEF Agreeing

\* A connection that fails or is closed.
LEMMA AgreeClose ==
    ASSUME AgreeInv, TypeOK, NEW a \in Edge, Close(a[1], a[2]),
           UNCHANGED <<now, entries, ids, seen, outgoing>>
    PROVE  Agreeing'
  <1>1. PICK b \in Edge : b = Back(a) /\ b # a /\ Back(b) = a
    BY EdgeEnds
  <1>2. <<a[1], a[2]>> = a /\ <<a[2], a[1]>> = b
    BY <1>1, EdgeEnds DEF Back
  <1>3. /\ registered' = registered \ {a, b}
        /\ wire' = [wire EXCEPT ![a] = <<>>, ![b] = <<>>]
        /\ stream' = [stream EXCEPT ![a] = {}, ![b] = {}]
    BY <1>2 DEF Close
  <1>4. /\ wire'[a] = <<>> /\ wire'[b] = <<>> /\ stream'[a] = {} /\ stream'[b] = {}
        /\ \A x \in Edge \ {a, b} : wire'[x] = wire[x] /\ stream'[x] = stream[x]
    BY <1>1, <1>3 DEF TypeOK
  <1>5. \A x \in {a, b} : stream'[x] \subseteq stream[x] /\ Msgs(wire'[x]) = {}
    BY <1>4, MsgsEmpty
  <1> QED BY <1>1, <1>3, <1>4, <1>5, TypeParts, OtherwiseKept

\* HELLO.
LEMMA AgreeDial ==
    ASSUME AgreeInv, TypeOK, NEW l \in Link, Dial(l)
    PROVE  Agreeing'
  <1>1. l \in Edge
    BY DEF Edge
  <1>2. PICK msg \in Msg : msg = Plain("hello") /\ msg.type = "hello"
    BY MsgsSent
  <1>3. /\ wire' = [wire EXCEPT ![l] = <<msg>>] /\ l \notin registered'
        /\ UNCHANGED <<now, entries, ids, seen, outgoing, registered, stream>>
    BY <1>2 DEF Dial, Down, stores
  <1>4. wire'[l] = <<msg>> /\ \A x \in Edge \ {l} : wire'[x] = wire[x]
    BY <1>1, <1>3 DEF TypeOK
  <1>5. \A e \in Event : EventMsg(e) \notin Msgs(wire'[l])
    BY <1>2, <1>4, MsgsOne, MsgsSent
  <1>6. Back(l) \in Edge
    BY <1>1, EdgeEnds
  <1> QED BY <1>1, <1>3, <1>4, <1>5, <1>6, TypeParts, OtherwiseKept

\* The answer to HELLO: the other end has not registered yet.
LEMMA AgreeHello ==
    ASSUME AgreeInv, TypeOK, NEW a \in Edge, ReadHello(a), now' = now
    PROVE  Agreeing'
  <1>1. PICK b \in Edge : b = Back(a) /\ b # a /\ Back(b) = a
    BY EdgeEnds
  <1>2. PICK req \in Msg, ack \in Msg :
           /\ req = SyncReq /\ req.type = "sync_req" /\ ack = Plain("ack") /\ ack.type = "ack"
    BY MsgsSent
  <1>3. /\ b \notin registered /\ wire'[a] = <<ack, req>> /\ wire'[b] = <<>>
        /\ \A x \in Edge \ {a, b} : wire'[x] = wire[x]
        /\ registered' = registered \union {a}
        /\ UNCHANGED <<entries, ids, seen, outgoing, streaming, stream>>
    BY <1>1, <1>2 DEF ReadHello, WireElsewhere, Apart, stores
  <1>4. PICK s \in Seq(Msg) : s = <<ack, req>> /\ s # <<>> /\ Head(s) = ack /\ Tail(s) = <<req>>
    BY TwoMsgs
  <1>5. Msgs(s) = {ack, req}
    <2>1. Msgs(<<req>>) = {req}
      BY MsgsOne
    <2>2. Msgs(s) = {ack} \union Msgs(<<req>>)
      BY <1>4, MsgsTail
    <2> QED BY <2>1, <2>2
  <1>6. ASSUME NEW x \in {a, b}, NEW e \in Event PROVE EventMsg(e) \notin Msgs(wire'[x])
    BY <1>2, <1>3, <1>4, <1>5, MsgsEmpty, MsgsSent
  <1> QED BY <1>1, <1>3, <1>6, TypeParts, OtherwiseKept

\* The answer to HELLO_ACK: both requests are on their way.
LEMMA AgreeAck ==
    ASSUME AgreeInv, TypeOK, NEW a \in Edge, ReadAck(a), now' = now
    PROVE  Agreeing'
  <1>1. PICK b \in Edge : b = Back(a) /\ b # a /\ Back(b) = a
    BY EdgeEnds
  <1>2. PICK req \in Msg : req = SyncReq /\ req.type = "sync_req"
    BY MsgsSent
  <1>3. /\ Greeted(a) /\ wire'[a] = <<req>> /\ wire'[b] = Tail(wire[b])
        /\ \A x \in Edge \ {a, b} : wire'[x] = wire[x]
        /\ registered' = registered \union {a}
        /\ UNCHANGED <<entries, ids, seen, outgoing, streaming, stream>>
    BY <1>1, <1>2 DEF ReadAck, WireElsewhere, stores
  <1>4. /\ wire[b] \in Seq(Msg) /\ wire[b] # <<>> /\ Has(wire'[b], "sync_req")
    BY <1>1, <1>3 DEF Greeted, TypeOK
  <1>5. Msgs(wire'[a]) = {req} /\ Has(wire'[a], "sync_req")
        /\ Msgs(wire'[b]) \subseteq Msgs(wire[b])
    BY <1>2, <1>3, <1>4, MsgsOne, MsgsTail
  <1>6. PastKept /\ StoresTyped
    BY <1>3, SamePast, TypeParts
  <1>7. HeldInv'
    BY <1>3 DEF AgreeInv, HeldInv
  <1>8. PastInv'
    <2>1. ASSUME NEW x \in Edge, NEW e \in Event, EventMsg(e) \in Msgs(wire'[x]) \/ e \in stream'[x]
          PROVE  EventMsg(e) \in Msgs(wire[x]) \/ e \in stream[x]
      <3>1. CASE x = a
        BY <1>2, <1>3, <1>5, <2>1, <3>1, MsgsSent
      <3>2. CASE x = b
        BY <1>3, <1>5, <2>1, <3>2
      <3>3. CASE x \notin {a, b}
        BY <1>3, <2>1, <3>3
      <3> QED BY <3>1, <3>2, <3>3
    <2>2. \A n \in Node : \A r \in seen'[n] : \A e \in Event :
             r.id = e.id => (\E s \in seen[n] : s.id = e.id) \/ Past(n, e)'
      BY <1>3
    <2>3. \A n \in Node : \A o \in outgoing'[n] : o \in outgoing[n]
      BY <1>3
    <2> QED BY <1>6, <2>1, <2>2, <2>3, PastNext DEF AgreeInv
  <1>9. CoverInv'
    <2> SUFFICES ASSUME NEW x \in Edge, x \in registered', Back(x) \in registered',
                        NEW e \in entries[x[1]], IsLiveFresh(e, now)
                 PROVE  Covered(x, e)'
      BY <1>3 DEF CoverInv, Back
    <2>1. CASE x \in {a, b}
      BY <1>1, <1>4, <1>5, <2>1 DEF Covered, Back
    <2>2. CASE x \notin {a, b}
      <3>1. Back(x) \in Edge /\ Back(x) \notin {a, b} /\ x[1] \in Node
        BY <1>1, <2>2, EdgeEnds
      <3>2. x \in registered /\ Back(x) \in registered /\ e \in Event
        BY <1>3, <1>6, <2>2, <3>1 DEF StoresTyped
      <3> QED BY <1>3, <1>6, <2>2, <3>1, <3>2, CoverKept DEF AgreeInv
    <2> QED BY <2>1, <2>2
  <1> QED BY <1>7, <1>8, <1>9 DEF Agreeing

\* The pump takes off a message; whatever it says, the rest still does.
LEMMA TakenOff ==
    ASSUME TypeOK, NEW a \in Edge, Runs(a), Takes(a)
    PROVE  /\ \A x \in Edge : x # Back(a) => wire'[x] = wire[x]
           /\ Msgs(wire'[Back(a)]) \subseteq Msgs(wire[Back(a)])
           /\ \A msg \in Msgs(wire[Back(a)]) :
                 msg \in Msgs(wire'[Back(a)]) \/ msg = Head(wire[Back(a)])
           /\ Has(wire[Back(a)], "sync_req") =>
                 \/ Has(wire'[Back(a)], "sync_req")
                 \/ Head(wire[Back(a)]).type = "sync_req"
           /\ Head(wire[Back(a)]) \in Msgs(wire[Back(a)])
  <1>1. PICK b \in Edge : b = Back(a) /\ b # a
    BY EdgeEnds
  <1>2. wire[b] \in Seq(Msg) /\ wire[b] # <<>> /\ wire'[b] = Tail(wire[b])
    BY <1>1 DEF TypeOK, Runs, Takes
  <1>3. \A x \in Edge : x # b => wire'[x] = wire[x]
    BY <1>1 DEF Takes, WireElsewhere
  <1> QED BY <1>1, <1>2, <1>3, MsgsTail

\* An event is read: its node is done with it, and hands it on if it is new.
LEMMA AgreeEvent ==
    ASSUME StoresRoomy, AgreeInv, TypeOK, NEW a \in Edge, NEW e \in Event, ReadEvent(a, e),
           now' = now
    PROVE  Agreeing'
  <1>1. PICK b \in Edge : b = Back(a) /\ b # a /\ Back(b) = a /\ b[1] = a[2] /\ b[2] = a[1]
    BY EdgeEnds
  <1>2. PICK n \in Node, from \in Node : n = a[1] /\ from = a[2]
    BY EdgeEnds
  <1>3. /\ Runs(a) /\ Takes(a) /\ registered' = registered /\ Head(wire[b]) = EventMsg(e)
        /\ seen' = [seen EXCEPT ![n] = CheckAndInsert(@, e.id, now)]
        /\ UNCHANGED <<streaming, stream>>
        /\ IF Known(seen[n], e.id, now) THEN UNCHANGED <<entries, ids, outgoing>>
                                        ELSE Insert(n, e, from)
    BY <1>1, <1>2 DEF ReadEvent, Takes
  <1>4. /\ \A x \in Edge : x # b => wire'[x] = wire[x]
        /\ Msgs(wire'[b]) \subseteq Msgs(wire[b])
        /\ \A msg \in Msgs(wire[b]) : msg \in Msgs(wire'[b]) \/ msg = EventMsg(e)
        /\ Has(wire[b], "sync_req") => Has(wire'[b], "sync_req")
        /\ EventMsg(e) \in Msgs(wire[b])
    BY <1>1, <1>3, TakenOff, MsgsSent
  <1>5. StoresTyped /\ now \in Nat
    BY TypeParts, NetAssumption DEF TypeOK
  <1>6. Past(from, e)
    BY <1>1, <1>2, <1>4 DEF AgreeInv, PastInv, WirePast
  <1>7. /\ HeldInv' /\ PastKept /\ Past(n, e)'
        /\ \A m \in Node : \A o \in outgoing'[m] :
              o \in outgoing[m] \/ (Past(m, o.event)' /\ Past(o.from, o.event)')
        /\ \A m \in Node : outgoing[m] \subseteq outgoing'[m]
        /\ \A m \in Node : \A f \in entries'[m] :
              f \in entries[m] \/ (\E o \in outgoing'[m] : o.event = f)
    <2>1. CASE Known(seen[n], e.id, now)
      <3>1. HeldInv' /\ PastKept
        BY <1>3, <2>1, SamePast DEF AgreeInv, HeldInv
      <3>2. Past(n, e)
        BY <2>1 DEF AgreeInv, PastInv, SeenPast, Known, PurgeExpired
      <3> QED BY <1>3, <2>1, <3>1, <3>2 DEF PastKept
    <2>2. CASE ~Known(seen[n], e.id, now)
      <3>1. Insert(n, e, from)
        BY <1>3, <2>2
      <3>2. PICK o \in [event : Event, from : Node] : o = [event |-> e, from |-> from]
                                                       /\ o.event = e
        <4>1. [event |-> e, from |-> from].event = e
          OBVIOUS
        <4> QED BY <4>1
      <3>3. /\ HeldInv'
            /\ \A m \in Node \ {n} : entries'[m] = entries[m] /\ outgoing'[m] = outgoing[m]
            /\ entries'[n] \subseteq entries[n]
                  \/ (entries'[n] \subseteq entries[n] \union {e} /\ o \in outgoing'[n])
            /\ outgoing[n] \subseteq outgoing'[n]
        BY <1>5, <3>1, <3>2, InsertHeld DEF AgreeInv
      <3>4. /\ PastKept /\ Past(n, e)'
            /\ \A m \in Node : \A p \in outgoing'[m] :
                  p \in outgoing[m] \/ (Past(m, p.event)' /\ Past(p.from, p.event)')
        BY <1>5, <1>6, <3>1, InsertPast DEF AgreeInv
      <3> QED BY <3>2, <3>3, <3>4
    <2> QED BY <2>1, <2>2
  <1>8. PastInv'
    <2>1. \A m \in Node : \A r \in seen'[m] : \A f \in Event :
             r.id = f.id => (\E s \in seen[m] : s.id = f.id) \/ Past(m, f)'
      BY <1>3, <1>5, <1>7, SeenMore
    <2>2. \A x \in Edge : Msgs(wire'[x]) \subseteq Msgs(wire[x]) /\ stream'[x] = stream[x]
      BY <1>3, <1>4
    <2> QED BY <1>5, <1>7, <2>1, <2>2, PastNext DEF AgreeInv
  <1>9. CoverInv'
    <2> SUFFICES ASSUME NEW x \in Edge, x \in registered, Back(x) \in registered,
                        NEW f \in entries'[x[1]], IsLiveFresh(f, now)
                 PROVE  Covered(x, f)'
      BY <1>3 DEF CoverInv, Back
    <2>1. x[1] \in Node /\ x[2] \in Node /\ Back(x) \in Edge
      BY EdgeEnds
    <2>2. CASE \E o \in outgoing'[x[1]] : o.event = f
      BY <2>2 DEF Covered
    <2>3. CASE f \in entries[x[1]]
      <3>1. f \in Event
        BY <1>5, <2>1, <2>3 DEF StoresTyped
      <3>2. (\E o \in outgoing[x[1]] : o.event = f) => Covered(x, f)'
        BY <1>7, <2>1 DEF Covered
      <3>3. f \in stream[x] => Covered(x, f)'
        BY <1>3 DEF Covered
      <3>4. Has(wire[Back(x)], "sync_req") => Covered(x, f)'
        BY <1>4, <2>1 DEF Covered, Back
      <3>5. EventMsg(f) \in Msgs(wire[x]) => Covered(x, f)'
        <4>1. CASE x # b
          BY <1>4, <4>1 DEF Covered
        <4>2. CASE x = b
          <5>1. EventMsg(f) = EventMsg(e) => f = e
            BY DEF EventMsg
          <5>2. HoldsAtLeast(n, e)' \/ ~IsLiveFresh(e, now)
            BY <1>7 DEF Past
          <5>3. x[2] = n
            BY <1>1, <1>2, <4>2
          <5> QED BY <1>4, <4>2, <5>1, <5>2, <5>3 DEF Covered
        <4> QED BY <4>1, <4>2
      <3> QED BY <1>7, <2>3, <3>1, <3>2, <3>3, <3>4, <3>5, CoverNext DEF AgreeInv
    <2> QED BY <1>7, <2>1, <2>2, <2>3
  <1> QED BY <1>7, <1>8, <1>9 DEF Agreeing

\* A request is read: the response is what counts of the store.
LEMMA AgreeRequest ==
    ASSUME AgreeInv, TypeOK, NEW a \in Edge, ReadRequest(a), now' = now
    PROVE  Agreeing'
  <1>1. PICK b \in Edge : b = Back(a) /\ b # a /\ Back(b) = a
    BY EdgeEnds
  <1>2. PICK n \in Node : n = a[1]
    BY EdgeEnds
  <1>3. PICK msg \in Msg : msg = Head(wire[b])
    BY <1>1, MsgsTail DEF TypeOK, ReadRequest, Runs
  <1>4. /\ Runs(a) /\ Takes(a) /\ registered' = registered /\ msg.type = "sync_req"
        /\ a \notin streaming /\ UNCHANGED <<entries, ids, seen, outgoing>>
        /\ stream' = [stream EXCEPT ![a] = SyncEvents(n, msg.since)]
    BY <1>1, <1>2, <1>3 DEF ReadRequest, Takes, stores
  <1>5. /\ \A x \in Edge : x # b => wire'[x] = wire[x]
        /\ Msgs(wire'[b]) \subseteq Msgs(wire[b])
        /\ \A m \in Msgs(wire[b]) : m \in Msgs(wire'[b]) \/ m = msg
        /\ msg \in Msgs(wire[b])
    BY <1>1, <1>3, <1>4, TakenOff
  <1>6. /\ stream'[a] = SyncEvents(n, msg.since) /\ stream[a] = {}
        /\ \A x \in Edge : x # a => stream'[x] = stream[x]
    BY <1>4 DEF TypeOK, AgreeInv, LinkInv
  <1>7. StoresTyped /\ now \in Nat /\ PastKept /\ msg.since \in Nat
        /\ msg.since <= SaturatingSub(now, FreshnessWindow)
    <2>1. msg.since \in Nat
      BY <1>4, MsgParts
    <2>2. msg.since <= SaturatingSub(now, FreshnessWindow)
      BY <1>4, <1>5 DEF AgreeInv, LinkInv
    <2> QED BY <1>4, <2>1, <2>2, TypeParts, NetAssumption, SamePast DEF TypeOK
  <1>8. HeldInv'
    BY <1>4 DEF AgreeInv, HeldInv
  <1>9. PastInv'
    <2>1. ASSUME NEW x \in Edge, NEW e \in Event, EventMsg(e) \in Msgs(wire'[x]) \/ e \in stream'[x]
          PROVE  EventMsg(e) \in Msgs(wire[x]) \/ e \in stream[x] \/ Past(x[1], e)
      <3>1. CASE EventMsg(e) \in Msgs(wire'[x])
        BY <1>5, <3>1
      <3>2. CASE e \in stream'[x] /\ x # a
        BY <1>6, <3>2
      <3>3. CASE e \in stream'[x] /\ x = a
        BY <1>2, <1>6, <3>3, HeldPast DEF SyncEvents, LiveFreshEvents
      <3> QED BY <2>1, <3>1, <3>2, <3>3
    <2>2. \A m \in Node : \A r \in seen'[m] : \A e \in Event :
             r.id = e.id => (\E s \in seen[m] : s.id = e.id) \/ Past(m, e)'
      BY <1>4
    <2>3. \A m \in Node : \A o \in outgoing'[m] : o \in outgoing[m]
      BY <1>4
    <2> QED BY <1>7, <2>1, <2>2, <2>3, PastNext DEF AgreeInv
  <1>10. CoverInv'
    <2> SUFFICES ASSUME NEW x \in Edge, x \in registered, Back(x) \in registered,
                        NEW e \in entries[x[1]], IsLiveFresh(e, now)
                 PROVE  Covered(x, e)'
      BY <1>4 DEF CoverInv, Back
    <2>1. e \in Event /\ Back(x) \in Edge /\ Back(Back(x)) = x
      BY <1>7, EdgeEnds DEF StoresTyped
    <2>2. (\E o \in outgoing[x[1]] : o.event = e) => Covered(x, e)'
      BY <1>4 DEF Covered
    <2>3. EventMsg(e) \in Msgs(wire[x]) => Covered(x, e)'
      <3>1. EventMsg(e) # msg
        BY <1>4, <2>1, MsgsSent
      <3> QED BY <1>5, <3>1 DEF Covered
    <2>4. e \in stream[x] => Covered(x, e)'
      BY <1>6 DEF Covered
    <2>5. Has(wire[Back(x)], "sync_req") => Covered(x, e)'
      <3>1. CASE x # a
        <4>1. wire'[Back(x)] = wire[Back(x)]
          BY <1>1, <1>5, <2>1, <3>1
        <4> QED BY <4>1 DEF Covered, Back
      <3>2. CASE x = a
        <4>1. e.created_at >= msg.since /\ e.created_at >= SaturatingSub(now, FreshnessWindow)
          <5>1. now <= now
            BY <1>7
          <5> QED BY <1>7, <2>1, <5>1, LiveBefore
        <4>2. e \in stream'[x]
          BY <1>2, <1>6, <3>2, <4>1 DEF SyncEvents, LiveFreshEvents
        <4> QED BY <4>2 DEF Covered
      <3> QED BY <3>1, <3>2
    <2> QED BY <1>4, <1>7, <2>1, <2>2, <2>3, <2>4, <2>5, CoverNext DEF AgreeInv
  <1> QED BY <1>8, <1>9, <1>10 DEF Agreeing

\* The end of a response is read.
LEMMA AgreeDone ==
    ASSUME AgreeInv, TypeOK, NEW a \in Edge, ReadDone(a), now' = now
    PROVE  Agreeing'
  <1>1. PICK b \in Edge : b = Back(a) /\ b # a /\ Back(b) = a
    BY EdgeEnds
  <1>2. PICK msg \in Msg : msg = Head(wire[b])
    BY <1>1, MsgsTail DEF TypeOK, ReadDone, Runs
  <1>3. /\ Runs(a) /\ Takes(a) /\ registered' = registered /\ msg.type = "sync_done"
        /\ UNCHANGED <<entries, ids, seen, outgoing, stream>>
    BY <1>1, <1>2 DEF ReadDone, Takes, stores
  <1>4. /\ \A x \in Edge : x # b => wire'[x] = wire[x]
        /\ Msgs(wire'[b]) \subseteq Msgs(wire[b])
        /\ \A m \in Msgs(wire[b]) : m \in Msgs(wire'[b]) \/ m = msg
        /\ Has(wire[b], "sync_req") => Has(wire'[b], "sync_req")
    BY <1>1, <1>2, <1>3, TakenOff
  <1>5. StoresTyped /\ PastKept
    BY <1>3, TypeParts, SamePast
  <1>6. HeldInv'
    BY <1>3 DEF AgreeInv, HeldInv
  <1>7. PastInv'
    <2>1. \A m \in Node : \A r \in seen'[m] : \A e \in Event :
             r.id = e.id => (\E s \in seen[m] : s.id = e.id) \/ Past(m, e)'
      BY <1>3
    <2>2. \A m \in Node : \A o \in outgoing'[m] : o \in outgoing[m]
      BY <1>3
    <2>3. \A x \in Edge : Msgs(wire'[x]) \subseteq Msgs(wire[x]) /\ stream'[x] = stream[x]
      BY <1>3, <1>4
    <2> QED BY <1>5, <2>1, <2>2, <2>3, PastNext DEF AgreeInv
  <1>8. CoverInv'
    <2> SUFFICES ASSUME NEW x \in Edge, x \in registered, Back(x) \in registered,
                        NEW e \in entries[x[1]], IsLiveFresh(e, now)
                 PROVE  Covered(x, e)'
      BY <1>3 DEF CoverInv, Back
    <2>1. e \in Event /\ Back(x) \in Edge
      BY <1>5, EdgeEnds DEF StoresTyped
    <2>2. EventMsg(e) # msg
      BY <1>3, <2>1, MsgsSent
    <2>3. /\ EventMsg(e) \in Msgs(wire[x]) => EventMsg(e) \in Msgs(wire'[x])
          /\ Has(wire[Back(x)], "sync_req") => Has(wire'[Back(x)], "sync_req")
      BY <1>4, <2>1, <2>2
    <2> QED BY <1>3, <1>5, <2>1, <2>3, CoverNext DEF AgreeInv, Covered, Back
  <1> QED BY <1>6, <1>7, <1>8 DEF Agreeing

\* The answering task hands on an event of the response, or its end.
LEMMA AgreeStream ==
    ASSUME AgreeInv, TypeOK, NEW a \in Edge, StreamStep(a[1], a[2])
    PROVE  Agreeing'
  <1>1. /\ UNCHANGED <<now, entries, ids, seen, outgoing, registered>>
        /\ \A x \in Edge \ {a} : wire'[x] = wire[x] /\ stream'[x] = stream[x]
    BY StreamCases DEF stores
  <1>2. wire[a] \in Seq(Msg) /\ stream[a] \subseteq Event
    BY DEF TypeOK
  <1>3. /\ Msgs(wire[a]) \subseteq Msgs(wire'[a]) /\ stream'[a] \subseteq stream[a]
        /\ \A e \in stream[a] : e \in stream'[a] \/ EventMsg(e) \in Msgs(wire'[a])
        /\ \A e \in Event : EventMsg(e) \in Msgs(wire'[a])
                               => EventMsg(e) \in Msgs(wire[a]) \/ e \in stream[a]
    <2>1. CASE \E e \in stream[a] : /\ wire'[a] = Append(wire[a], EventMsg(e))
                                    /\ stream'[a] = stream[a] \ {e}
      <3>1. PICK e \in stream[a] : /\ wire'[a] = Append(wire[a], EventMsg(e))
                                   /\ stream'[a] = stream[a] \ {e}
        BY <2>1
      <3>2. EventMsg(e) \in Msg
        BY <1>2, MsgsSent
      <3>3. Msgs(wire'[a]) = Msgs(wire[a]) \union {EventMsg(e)}
        BY <1>2, <3>1, <3>2, MsgsAppend
      <3>4. \A f \in Event : EventMsg(f) = EventMsg(e) => f = e
        BY DEF EventMsg
      <3> QED BY <1>2, <3>1, <3>3, <3>4
    <2>2. CASE wire'[a] = Append(wire[a], Plain("sync_done")) /\ stream[a] = {} /\ stream'[a] = {}
      <3>1. PICK msg \in Msg : msg = Plain("sync_done") /\ msg.type = "sync_done"
        BY MsgsSent
      <3>2. Msgs(wire'[a]) = Msgs(wire[a]) \union {msg}
        BY <1>2, <2>2, <3>1, MsgsAppend
      <3>3. \A f \in Event : EventMsg(f) # msg
        BY <3>1, MsgsSent
      <3> QED BY <2>2, <3>2, <3>3
    <2> QED BY <2>1, <2>2, StreamCases
  <1>4. StoresTyped /\ PastKept
    BY <1>1, TypeParts, SamePast
  <1>5. HeldInv'
    BY <1>1 DEF AgreeInv, HeldInv
  <1>6. PastInv'
    <2>1. \A m \in Node : \A r \in seen'[m] : \A e \in Event :
             r.id = e.id => (\E s \in seen[m] : s.id = e.id) \/ Past(m, e)'
      BY <1>1
    <2>2. \A m \in Node : \A o \in outgoing'[m] : o \in outgoing[m]
      BY <1>1
    <2>3. ASSUME NEW x \in Edge, NEW e \in Event, EventMsg(e) \in Msgs(wire'[x]) \/ e \in stream'[x]
          PROVE  EventMsg(e) \in Msgs(wire[x]) \/ e \in stream[x]
      <3>1. CASE x = a
        BY <1>3, <2>3, <3>1
      <3>2. CASE x # a
        BY <1>1, <2>3, <3>2
      <3> QED BY <3>1, <3>2
    <2> QED BY <1>4, <2>1, <2>2, <2>3, PastNext DEF AgreeInv
  <1>7. CoverInv'
    <2> SUFFICES ASSUME NEW x \in Edge, x \in registered, Back(x) \in registered,
                        NEW e \in entries[x[1]], IsLiveFresh(e, now)
                 PROVE  Covered(x, e)'
      BY <1>1 DEF CoverInv, Back
    <2>1. e \in Event /\ Back(x) \in Edge
      BY <1>4, EdgeEnds DEF StoresTyped
    <2>2. \A y \in Edge : Msgs(wire[y]) \subseteq Msgs(wire'[y])
      BY <1>1, <1>3
    <2>3. Has(wire[Back(x)], "sync_req") => Has(wire'[Back(x)], "sync_req")
      BY <2>1, <2>2 DEF Has
    <2>4. e \in stream[x] => Covered(x, e)'
      <3>1. CASE x = a
        BY <1>3, <3>1 DEF Covered
      <3>2. CASE x # a
        BY <1>1, <3>2 DEF Covered
      <3> QED BY <3>1, <3>2
    <2> QED BY <1>1, <1>4, <2>1, <2>2, <2>3, <2>4, CoverNext DEF AgreeInv, Covered, Back
  <1> QED BY <1>5, <1>6, <1>7 DEF Agreeing

\* broadcast_event: who is registered by now gets the event, except the one it
\* came from, who is done with it.
LEMMA AgreeBroadcast ==
    ASSUME AgreeInv, TypeOK, NEW n \in Node, NEW o \in outgoing[n], Broadcast(n, o)
    PROVE  Agreeing'
  <1>1. o.event \in Event /\ o.from \in Node
    BY DEF TypeOK
  <1>2. PICK e \in Event, msg \in Msg : e = o.event /\ msg = EventMsg(e)
    BY <1>1, MsgsSent
  <1>3. /\ UNCHANGED <<now, entries, ids, seen, registered, stream>>
        /\ outgoing' = [outgoing EXCEPT ![n] = @ \ {o}]
        /\ wire' = [x \in Edge |-> IF x[1] = n /\ x \in registered /\ x[2] # o.from
                                    THEN Append(wire[x], msg) ELSE wire[x]]
    BY <1>2 DEF Broadcast, stores
  <1>4. /\ outgoing'[n] = outgoing[n] \ {o}
        /\ \A m \in Node \ {n} : outgoing'[m] = outgoing[m]
    BY <1>3 DEF TypeOK
  <1>5. ASSUME NEW x \in Edge
        PROVE  /\ Msgs(wire[x]) \subseteq Msgs(wire'[x])
               /\ \A m \in Msgs(wire'[x]) : m \in Msgs(wire[x]) \/ (m = msg /\ x[1] = n)
               /\ x[1] = n /\ x \in registered /\ x[2] # o.from => msg \in Msgs(wire'[x])
    <2>1. wire[x] \in Seq(Msg)
      BY DEF TypeOK
    <2>2. CASE x[1] = n /\ x \in registered /\ x[2] # o.from
      <3>1. wire'[x] = Append(wire[x], msg)
        BY <1>3, <2>2
      <3>2. Msgs(wire'[x]) = Msgs(wire[x]) \union {msg}
        BY <2>1, <3>1, MsgsAppend
      <3> QED BY <2>2, <3>2
    <2>3. CASE ~(x[1] = n /\ x \in registered /\ x[2] # o.from)
      BY <1>3, <2>3
    <2> QED BY <2>2, <2>3
  <1>6. StoresTyped /\ PastKept
    BY <1>3, TypeParts, SamePast
  <1>7. HeldInv'
    BY <1>3 DEF AgreeInv, HeldInv
  <1>8. Past(n, e) /\ Past(o.from, e)
    BY <1>2 DEF AgreeInv, PastInv, OutPast
  <1>9. \A f \in Event : EventMsg(f) = msg => f = e
    BY <1>2 DEF EventMsg
  <1>10. PastInv'
    <2>1. \A m \in Node : \A r \in seen'[m] : \A f \in Event :
             r.id = f.id => (\E s \in seen[m] : s.id = f.id) \/ Past(m, f)'
      BY <1>3
    <2>2. \A m \in Node : \A p \in outgoing'[m] : p \in outgoing[m]
      BY <1>4
    <2>3. ASSUME NEW x \in Edge, NEW f \in Event, EventMsg(f) \in Msgs(wire'[x]) \/ f \in stream'[x]
          PROVE  EventMsg(f) \in Msgs(wire[x]) \/ f \in stream[x] \/ Past(x[1], f)
      BY <1>3, <1>5, <1>8, <1>9, <2>3
    <2> QED BY <1>6, <2>1, <2>2, <2>3, PastNext DEF AgreeInv
  <1>11. CoverInv'
    <2> SUFFICES ASSUME NEW x \in Edge, x \in registered, Back(x) \in registered,
                        NEW f \in entries[x[1]], IsLiveFresh(f, now)
                 PROVE  Covered(x, f)'
      BY <1>3 DEF CoverInv, Back
    <2>1. f \in Event /\ Back(x) \in Edge /\ x[1] \in Node
      BY <1>6, EdgeEnds DEF StoresTyped
    <2>2. Has(wire[Back(x)], "sync_req") => Has(wire'[Back(x)], "sync_req")
      BY <1>5, <2>1 DEF Has
    <2>3. ASSUME NEW p \in outgoing[x[1]], p.event = f PROVE Covered(x, f)'
      <3>1. CASE p \in outgoing'[x[1]]
        BY <2>3, <3>1 DEF Covered
      <3>2. CASE p \notin outgoing'[x[1]]
        <4>1. x[1] = n /\ p = o /\ f = e
          BY <1>2, <1>4, <2>1, <2>3, <3>2
        <4>2. CASE x[2] = o.from
          <5>1. HoldsAtLeast(x[2], f)
            BY <1>8, <4>1, <4>2 DEF Past
          <5> QED BY <1>3, <5>1 DEF Covered, HoldsAtLeast
        <4>3. CASE x[2] # o.from
          BY <1>2, <1>5, <4>1, <4>3 DEF Covered
        <4> QED BY <4>2, <4>3
      <3> QED BY <3>1, <3>2
    <2> QED BY <1>3, <1>5, <1>6, <2>1, <2>2, <2>3, CoverNext DEF AgreeInv, Covered, Back
  <1> QED BY <1>7, <1>10, <1>11 DEF Agreeing

\* publish_local, first half: the event is stored and due for broadcast.
LEMMA AgreePublish ==
    ASSUME StoresRoomy, AgreeInv, TypeOK, NEW e \in Event, PublishLocal(e)
    PROVE  Agreeing'
  <1>1. PICK n \in Node : n = Author[e]
    BY NetAssumption
  <1>2. /\ UNCHANGED <<now, registered, wire, received, streaming, stream>>
        /\ seen' = [seen EXCEPT ![n] = CheckAndInsert(@, e.id, now)]
        /\ Insert(n, e, n)
    BY <1>1 DEF PublishLocal, conns
  <1>3. StoresTyped /\ now \in Nat
    BY TypeParts, NetAssumption DEF TypeOK
  <1>4. /\ PastKept /\ Past(n, e)'
        /\ \A m \in Node : \A o \in outgoing'[m] :
              o \in outgoing[m] \/ (Past(m, o.event)' /\ Past(o.from, o.event)')
    BY <1>2, <1>3, InsertPast DEF AgreeInv
  <1>5. PICK p \in [event : Event, from : Node] : p = [event |-> e, from |-> n] /\ p.event = e
    <2>1. [event |-> e, from |-> n].event = e
      OBVIOUS
    <2> QED BY <2>1
  <1>6. /\ HeldInv'
        /\ \A m \in Node \ {n} : entries'[m] = entries[m] /\ outgoing'[m] = outgoing[m]
        /\ entries'[n] \subseteq entries[n]
              \/ (entries'[n] \subseteq entries[n] \union {e} /\ p \in outgoing'[n])
        /\ outgoing[n] \subseteq outgoing'[n]
    BY <1>2, <1>3, <1>5, InsertHeld DEF AgreeInv
  <1>7. PastInv'
    <2>1. \A m \in Node : \A r \in seen'[m] : \A f \in Event :
             r.id = f.id => (\E s \in seen[m] : s.id = f.id) \/ Past(m, f)'
      BY <1>2, <1>3, <1>4, SeenMore
    <2> QED BY <1>2, <1>3, <1>4, <2>1, PastNext DEF AgreeInv
  <1>8. CoverInv'
    <2> SUFFICES ASSUME NEW x \in Edge, x \in registered, Back(x) \in registered,
                        NEW f \in entries'[x[1]], IsLiveFresh(f, now)
                 PROVE  Covered(x, f)'
      BY <1>2 DEF CoverInv, Back
    <2>1. x[1] \in Node /\ Back(x) \in Edge
      BY EdgeEnds
    <2>2. CASE f \in entries[x[1]]
      <3>1. f \in Event /\ outgoing[x[1]] \subseteq outgoing'[x[1]]
        BY <1>3, <1>6, <2>1, <2>2 DEF StoresTyped
      <3> QED BY <1>2, <1>4, <2>2, <3>1, CoverKept DEF AgreeInv
    <2>3. CASE f \notin entries[x[1]]
      <3>1. f = e /\ p \in outgoing'[x[1]]
        BY <1>6, <2>1, <2>3
      <3> QED BY <1>5, <3>1 DEF Covered
    <2> QED BY <2>2, <2>3
  <1> QED BY <1>6, <1>7, <1>8 DEF Agreeing

\* Stores lose what no longer counts, or the clock ticks, or nothing happens.
LEMMA AgreeSettled ==
    ASSUME AgreeInv, TypeOK, PastKept, HeldInv',
           UNCHANGED <<seen, outgoing, registered, wire, streaming, stream>>,
           \A n \in Node : entries'[n] \subseteq entries[n],
           now' \in Nat, now <= now'
    PROVE  Agreeing' /\ LinkInv'
  <1>1. StoresTyped /\ now \in Nat
    BY TypeParts, NetAssumption DEF TypeOK
  <1>2. PastInv'
    BY <1>1, PastNext DEF AgreeInv
  <1>3. CoverInv'
    <2> SUFFICES ASSUME NEW x \in Edge, x \in registered, Back(x) \in registered,
                        NEW e \in entries'[x[1]], IsLiveFresh(e, now')
                 PROVE  Covered(x, e)'
      BY DEF CoverInv, Back
    <2>1. e \in Event /\ e \in entries[x[1]]
      BY <1>1, EdgeEnds DEF StoresTyped
    <2>2. IsLiveFresh(e, now)
      BY <1>1, <2>1, LiveBefore
    <2> QED BY <2>1, <2>2, CoverKept DEF AgreeInv
  <1>4. LinkInv'
    <2>1. ASSUME NEW l \in Link PROVE LinkState(l)'
      <3>1. LinkState(l)
        BY DEF AgreeInv, LinkInv, LinkState
      <3> QED BY <3>1, LinkSame
    <2>2. PICK from \in Nat, upto \in Nat :
             /\ from = SaturatingSub(now, FreshnessWindow)
             /\ upto = SaturatingSub(now', FreshnessWindow) /\ from <= upto
      BY <1>1, WindowMoves
    <2>3. ASSUME NEW x \in Edge PROVE RequestsRecent(x)'
      <3> SUFFICES ASSUME NEW msg \in Msgs(wire[x]), msg.type = "sync_req"
                   PROVE  msg.since <= SaturatingSub(now', FreshnessWindow)
        BY DEF RequestsRecent
      <3>1. msg \in Msg /\ msg.since <= SaturatingSub(now, FreshnessWindow)
        BY MsgsTyped DEF TypeOK, AgreeInv, LinkInv
      <3>2. msg.since \in Nat
        BY <3>1, MsgParts
      <3> QED BY <2>2, <3>1, <3>2
    <2> QED BY <2>1, <2>3 DEF AgreeInv, LinkInv, LinkState, RequestsRecent
  <1> QED BY <1>2, <1>3, <1>4 DEF Agreeing

\* The pump's step, by what it reads.
LEMMA AgreeDeliver ==
    ASSUME StoresRoomy, AgreeInv, TypeOK, NEW a \in Edge, Deliver(a[1], a[2])
    PROVE  AgreeInv'
  <1>1. LinkInv /\ UNCHANGED <<now, published>>
    BY DeliverCases DEF AgreeInv
  <1>2. CASE ReadHello(a)
    BY <1>1, <1>2, AgreeHello, LinkHello DEF AgreeInv, Agreeing
  <1>3. CASE ReadAck(a)
    BY <1>1, <1>3, AgreeAck, LinkAck DEF AgreeInv, Agreeing
  <1>4. CASE ReadTooMany(a)
    <2>1. Close(a[1], a[2]) /\ UNCHANGED <<now, entries, ids, seen, outgoing>>
      BY <1>1, <1>4 DEF ReadTooMany, stores
    <2> QED BY <1>1, <2>1, AgreeClose, LinkClose DEF AgreeInv, Agreeing
  <1>5. ASSUME NEW e \in Event, ReadEvent(a, e) PROVE AgreeInv'
    <2>1. Agreeing'
      BY <1>1, <1>5, AgreeEvent
    <2>2. LinkInv'
      BY <1>1, <1>5, LinkTakes DEF ReadEvent
    <2> QED BY <2>1, <2>2 DEF AgreeInv, Agreeing
  <1>6. CASE ReadRequest(a)
    <2>1. Agreeing'
      BY <1>1, <1>6, AgreeRequest
    <2>2. \A x \in Edge \ {a} : stream'[x] = stream[x]
      BY <1>6 DEF ReadRequest, TypeOK
    <2>3. LinkInv'
      BY <1>1, <1>6, <2>2, LinkTakes DEF ReadRequest
    <2> QED BY <2>1, <2>3 DEF AgreeInv, Agreeing
  <1>7. CASE ReadDone(a)
    <2>1. Agreeing'
      BY <1>1, <1>7, AgreeDone
    <2>2. LinkInv'
      BY <1>1, <1>7, LinkTakes DEF ReadDone
    <2> QED BY <2>1, <2>2 DEF AgreeInv, Agreeing
  <1> QED BY <1>1, <1>2, <1>3, <1>4, <1>5, <1>6, <1>7, DeliverCases

\* Every step keeps the invariant.
LEMMA AgreeStep ==
    ASSUME StoresRoomy, ExpirationFollowsCreation, NetInv, AgreeInv, [Next]_vars
    PROVE  AgreeInv'
  <1>1. TypeOK /\ StoresTyped /\ LinkInv /\ HeldInv
    BY TypeParts DEF NetInv, AgreeInv
  <1>2. now \in 0..MaxClock /\ now \in Nat /\ now <= now
    BY <1>1, NetAssumption DEF TypeOK
  <1>3. ASSUME NEW n \in Node, NEW o \in outgoing[n], Broadcast(n, o) PROVE AgreeInv'
    BY <1>1, <1>3, AgreeBroadcast, LinkBroadcast DEF AgreeInv, Agreeing
  <1>4. ASSUME NEW x \in Edge, Deliver(x[1], x[2]) PROVE AgreeInv'
    BY <1>1, <1>4, AgreeDeliver
  <1>5. ASSUME NEW x \in Edge, StreamStep(x[1], x[2]) PROVE AgreeInv'
    BY <1>1, <1>5, AgreeStream, LinkStream DEF AgreeInv, Agreeing
  <1>6. ASSUME NEW e \in Event, PublishLocal(e) PROVE AgreeInv'
    <2>1. Agreeing'
      BY <1>1, <1>6, AgreePublish
    <2>2. UNCHANGED <<now, registered, wire, streaming, stream>>
      BY <1>6 DEF PublishLocal, conns
    <2>3. ASSUME NEW l \in Link PROVE LinkState(l)'
      <3>1. LinkState(l)
        BY <1>1 DEF LinkInv, LinkState
      <3> QED BY <2>2, <3>1, LinkSame
    <2>4. LinkInv'
      BY <1>1, <2>2, <2>3 DEF LinkInv, LinkState
    <2> QED BY <2>1, <2>4 DEF AgreeInv, Agreeing
  <1>7. ASSUME NEW l \in Link, Dial(l) PROVE AgreeInv'
    BY <1>1, <1>7, AgreeDial, LinkDial DEF AgreeInv, Agreeing
  <1>8. ASSUME NEW l \in Link, Drop(l) PROVE AgreeInv'
    <2>1. l \in Edge /\ Close(l[1], l[2]) /\ UNCHANGED <<now, entries, ids, seen, outgoing>>
      BY <1>8 DEF Drop, Edge, stores
    <2> QED BY <1>1, <2>1, AgreeClose, LinkClose DEF AgreeInv, Agreeing
  <1>9. ASSUME NEW n \in Node, Sweep(n) PROVE AgreeInv'
    <2>1. UNCHANGED <<now, seen, outgoing, registered, wire, streaming, stream>>
      BY <1>9 DEF Sweep, conns
    <2>2. HeldInv' /\ PastKept /\ \A m \in Node : entries'[m] \subseteq entries[m]
      BY <1>1, <1>2, <1>9, SweepHeld DEF PastKept
    <2>3. now' \in Nat /\ now <= now'
      BY <1>2, <2>1
    <2> QED BY <1>1, <2>1, <2>2, <2>3, AgreeSettled DEF AgreeInv, Agreeing
  <1>10. CASE Tick \/ UNCHANGED vars
    <2>1. /\ UNCHANGED <<entries, ids, seen, outgoing, registered, wire, streaming, stream>>
          /\ now' = now \/ now' = now + 1
      BY <1>10 DEF Tick, vars, stores, conns
    <2>2. now' \in Nat /\ now <= now'
      BY <1>2, <2>1
    <2>3. HeldInv' /\ \A n \in Node : entries'[n] \subseteq entries[n]
      BY <1>1, <2>1 DEF HeldInv
    <2>4. PastKept
      <3> SUFFICES ASSUME NEW n \in Node, NEW e \in Event, Past(n, e), IsLiveFresh(e, now')
                   PROVE  HoldsAtLeast(n, e)'
        BY DEF PastKept, Past
      <3>1. IsLiveFresh(e, now)
        BY <1>2, <2>2, LiveBefore
      <3> QED BY <2>1, <3>1 DEF Past, HoldsAtLeast
    <2> QED BY <1>1, <2>1, <2>2, <2>3, <2>4, AgreeSettled DEF AgreeInv, Agreeing
  <1> QED BY <1>3, <1>4, <1>5, <1>6, <1>7, <1>8, <1>9, <1>10 DEF Next, Progress

\* Initially the connections that are up have nothing on them, and the stores
\* are empty.
LEMMA InitAgree == Init => AgreeInv
  <1> SUFFICES ASSUME Init PROVE AgreeInv
    OBVIOUS
  <1>1. \A x \in Edge : wire[x] = <<>> /\ stream[x] = {}
    BY DEF Init
  <1>2. \A n \in Node : entries[n] = {} /\ ids[n] = {} /\ seen[n] = {} /\ outgoing[n] = {}
    BY DEF Init
  <1>3. HeldInv
    BY <1>2 DEF HeldInv, OnePerKey, Ids
  <1>4. PastInv
    <2>1. \A x \in Edge : Msgs(wire[x]) = {} /\ stream[x] = {}
      BY <1>1, MsgsEmpty
    <2> QED BY <1>2, <2>1 DEF PastInv, SeenPast, OutPast, WirePast
  <1>5. CoverInv
    <2> SUFFICES ASSUME NEW x \in Edge PROVE entries[x[1]] = {}
      BY DEF CoverInv
    <2> QED BY <1>2, EdgeEnds
  <1>6. ASSUME NEW l \in Link PROVE LinkState(l)
    <2>1. PICK b \in Edge : b = Back(l) /\ l \in Edge /\ Back(b) = l
      BY EdgeEnds DEF Edge
    <2>2. Flowing(l) /\ Flowing(b)
      BY <1>1, <2>1, MsgsEmpty DEF Flowing, Plainly
    <2>3. registered = Up \union {Back(u) : u \in Up} /\ streaming = {} /\ Up \subseteq Link
      BY NetAssumption DEF Init, Back
    <2>4. CASE l \in Up
      BY <2>1, <2>2, <2>3, <2>4 DEF LinkState, Joined
    <2>5. CASE l \notin Up
      <3>1. b \notin Link
        BY <2>1, EdgeLink
      <3>2. ASSUME NEW u \in Up PROVE u # b /\ Back(u) # b /\ Back(u) # l
        <4>1. u \in Link /\ u \in Edge /\ Back(Back(u)) = u
          BY <2>3, EdgeEnds DEF Edge
        <4> QED BY <2>1, <2>5, <3>1, <4>1
      <3>3. l \notin registered /\ b \notin registered
        BY <2>3, <2>5, <3>2
      <3> QED BY <1>1, <2>1, <2>3, <3>3 DEF LinkState, Apart, NoStream
    <2> QED BY <2>4, <2>5
  <1>7. LinkInv
    <2>1. \A x \in Edge : Msgs(wire[x]) = {}
      BY <1>1, MsgsEmpty
    <2> QED BY <1>1, <1>6, <2>1 DEF LinkInv, LinkState
  <1> QED BY <1>3, <1>4, <1>5, <1>7 DEF AgreeInv

\* Where nothing is under way, what is covered is held.
LEMMA AgreeQuiet == NetInv /\ AgreeInv => LiveAgreement
  <1> SUFFICES ASSUME NetInv, AgreeInv PROVE LiveAgreement
    OBVIOUS
  <1>0. \A x \in registered : x \in Edge
    BY DEF NetInv, TypeOK
  <1> SUFFICES ASSUME Quiescent, NEW x \in registered, Back(x) \in registered,
                      NEW e \in entries[x[1]], IsLiveFresh(e, now)
               PROVE  HoldsAtLeast(x[2], e)
    BY <1>0, EdgeEnds DEF LiveAgreement, Connected, LiveFreshEvents, Back
  <1>1. x \in Edge /\ Back(x) \in Edge /\ x[1] \in Node
    BY <1>0, EdgeEnds
  <1>2. Covered(x, e)
    BY <1>1 DEF AgreeInv, CoverInv
  <1>3. wire[x] = <<>> /\ wire[Back(x)] = <<>> /\ x \notin streaming /\ outgoing[x[1]] = {}
    BY <1>1 DEF Quiescent
  <1>4. stream[x] = {}
    BY <1>1, <1>3 DEF AgreeInv, LinkInv
  <1> QED BY <1>2, <1>3, <1>4, MsgsEmpty DEF Covered

\* The invariant holds throughout.
THEOREM AgreementInvariant ==
    ASSUME StoresRoomy, ExpirationFollowsCreation
    PROVE  Spec => []AgreeInv
  <1>1. NetInv /\ AgreeInv /\ [Next]_vars => AgreeInv'
    BY AgreeStep
  <1> QED BY <1>1, InitAgree, NetInvariant, PTL DEF Spec

\* LiveAgreement for any network, as long as no quota discards a listing and
\* events expire in the order they were created: between two connected nodes
\* there is no gap, whether a listing was stored before the connection was
\* registered, between registration and SYNC_REQ, during the response, or
\* between the store's lock and the broadcast's.
THEOREM ConnectedAlwaysAgree ==
    ASSUME StoresRoomy, ExpirationFollowsCreation
    PROVE  Spec => []LiveAgreement
  <1>1. NetInv /\ AgreeInv => LiveAgreement
    BY AgreeQuiet
  <1> QED BY <1>1, AgreementInvariant, NetInvariant, PTL
=============================================================================
