------------------------- MODULE PeerManagerProofs --------------------------
(***************************************************************************)
(* Proofs about the peer table and the peer manager, for every number of   *)
(* addresses and callers and every limit: slots and rows stay within their *)
(* limits, an address is not dialled while its back-off runs, an address   *)
(* found to be this node is never dialled again, the network never pushes  *)
(* out a proven row, and verified comes from this node's own handshakes.   *)
(***************************************************************************)
EXTENDS PeerManager, FiniteSetTheorems, SequenceTheorems, TLAPS
LOCAL INSTANCE SequencesExt
LOCAL INSTANCE FiniteSetsExt

-----------------------------------------------------------------------------
(***************************************************************************)
(* The table.                                                              *)
(***************************************************************************)
Table == [Addr -> Row \union {NoRow}]

Present(t) == {a \in Addr : t[a] # NoRow}

\* TableBounded of a table that need not be the one the store holds.
Bounded(t) ==
    Cardinality(Present(t)) > PeerLimit => \A a \in Present(t) : t[a].source = "manual"

\* Min of two numbers, the form in which the model uses it.
LEMMA MinOfTwo ==
    ASSUME NEW x \in Nat, NEW y \in Nat
    PROVE  Min({x, y}) = IF x <= y THEN x ELSE y
  BY DEF Min

\* Every set of addresses is finite.
LEMMA FiniteAddresses ==
    ASSUME NEW S \in SUBSET Addr
    PROVE  IsFiniteSet(S) /\ Cardinality(S) \in Nat
  BY TableAssumption, FS_Subset, FS_CardinalityType

\* What enforce_peer_limit deletes is enough: rows brought in by the network
\* do not push the table over its limit.
LEMMA EvictionBounds ==
    ASSUME NEW t \in Table, NEW new, NEW V \in VictimSets(t, new)
    PROVE  Bounded([x \in Addr |-> IF x \in V THEN NoRow ELSE t[x]])
  <1> DEFINE r == [x \in Addr |-> IF x \in V THEN NoRow ELSE t[x]]
  <1>1. V \subseteq Evictable(t) /\ Cardinality(V) = Surplus(t, Held(t))
    BY DEF VictimSets
  <1>2. Evictable(t) \subseteq Present(t) /\ Present(t) \subseteq Addr
    BY DEF Evictable, Present
  <1>3. Present(r) = Present(t) \ V
    BY DEF Present
  <1>4. Cardinality(Present(r)) = Cardinality(Present(t)) - Cardinality(V)
    <2>1. IsFiniteSet(Present(t)) /\ Present(t) \intersect V = V
      BY <1>1, <1>2, FiniteAddresses
    <2>2. Cardinality(Present(t) \ V)
              = Cardinality(Present(t)) - Cardinality(Present(t) \intersect V)
      BY <2>1, FS_Difference
    <2> QED BY <1>3, <2>1, <2>2
  <1>5. Held(t) = Cardinality(Present(t))
    BY DEF Held, Present
  <1>6. Cardinality(Present(t)) \in Nat /\ Cardinality(Evictable(t)) \in Nat
    BY <1>2, FiniteAddresses
  <1>7. CASE Cardinality(V) = Cardinality(Evictable(t))
    <2>1. V = Evictable(t)
      BY <1>1, <1>2, <1>7, FiniteAddresses, FS_Subset
    <2>2. \A a \in Present(r) : r[a].source = "manual"
      BY <2>1, <1>3 DEF Evictable, Present
    <2> QED BY <2>2 DEF Bounded
  <1>8. CASE Cardinality(V) # Cardinality(Evictable(t))
    <2>1. Cardinality(V) = IF Cardinality(Present(t)) > PeerLimit
                           THEN Cardinality(Present(t)) - PeerLimit ELSE 0
      BY <1>1, <1>5, <1>6, <1>8, MinOfTwo, TableAssumption DEF Surplus
    <2>2. Cardinality(Present(r)) <= PeerLimit
      BY <2>1, <1>4, <1>6, TableAssumption
    <2>3. Cardinality(Present(r)) \in Nat
      BY <1>2, <1>3, FiniteAddresses
    <2> QED BY <2>2, <2>3, TableAssumption DEF Bounded
  <1> QED BY <1>7, <1>8

\* A table within its limit loses one row at most when one is inserted, and
\* the row that was just inserted before any that has been verified.
LEMMA EvictionSpares ==
    ASSUME NEW t \in Table, Bounded(t),
           NEW new \in Addr, t[new] = NoRow,
           NEW row \in Row, row.source = "pex", ~row.verified,
           NEW V \in VictimSets([t EXCEPT ![new] = row], new),
           NEW a \in Present(t), t[a].source = "manual" \/ t[a].verified
    PROVE  a \notin V
  <1> DEFINE u == [t EXCEPT ![new] = row]
             unproven == {x \in Evictable(u) : ~u[x].verified}
  <1>1. /\ V \subseteq Evictable(u) /\ Cardinality(V) = Surplus(u, Held(u))
        /\ V \subseteq unproven \/ unproven \subseteq V
    BY DEF VictimSets
  <1>2. SUFFICES ASSUME a \in V PROVE FALSE
    OBVIOUS
  <1>3. a \in Addr /\ a # new /\ u[a] = t[a] /\ u[new] = row /\ row # NoRow
    BY TableAssumption DEF Present, Table
  <1>4. t[a].source # "manual" /\ t[a].verified
    BY <1>1, <1>2, <1>3 DEF Evictable
  <1>5. new \in unproven
    BY <1>3 DEF Evictable, Table
  <1>6. {a, new} \subseteq V
    BY <1>1, <1>2, <1>3, <1>4, <1>5
  <1>7. Cardinality(V) \in Nat /\ Cardinality(V) >= 2
    <2>1. V \in SUBSET Addr /\ {a, new} \in SUBSET Addr
      BY <1>1, <1>3 DEF Evictable
    <2>2. IsFiniteSet(V) /\ Cardinality(V) \in Nat
      BY <2>1, FiniteAddresses
    <2>3. Cardinality({a, new}) = 2
      <3>1. IsFiniteSet({a}) /\ Cardinality({a}) = 1
        BY FS_Singleton
      <3>2. {a, new} = {a} \union {new} /\ new \notin {a}
        BY <1>3
      <3> QED BY <3>1, <3>2, FS_AddElement, SMTT(60)
    <2>4. Cardinality({a, new}) <= Cardinality(V)
      BY <1>6, <2>2, FS_Subset
    <2> QED BY <2>2, <2>3, <2>4
  <1>8. Cardinality(Present(t)) <= PeerLimit
    BY <1>4, FiniteAddresses, TableAssumption DEF Bounded, Present
  <1>9. Held(u) = Cardinality(Present(t)) + 1
    <2>1. Present(u) = Present(t) \union {new} /\ new \notin Present(t)
      BY <1>3 DEF Present, Table
    <2>2. IsFiniteSet(Present(t))
      BY FiniteAddresses DEF Present
    <2>3. Cardinality(Present(u)) = Cardinality(Present(t)) + 1
      BY <2>1, <2>2, FS_AddElement
    <2> QED BY <2>3 DEF Held, Present
  <1>10. Cardinality(Present(t)) \in Nat /\ Cardinality(Evictable(u)) \in Nat
    BY FiniteAddresses DEF Present, Evictable
  <1>11. Surplus(u, Held(u)) <= 1
    <2> HIDE DEF u
    <2> QED BY <1>8, <1>9, <1>10, MinOfTwo, TableAssumption DEF Surplus
  <1>12. Cardinality(V) <= 1
    BY <1>1, <1>11
  <1> QED BY <1>7, <1>12

\* upsert_peer leaves a table within its limit, verifies nothing, and spares
\* the proven rows when the network asked for it.
LEMMA UpsertEffect ==
    ASSUME rows \in Table, Bounded(rows),
           NEW a \in Addr, NEW source \in {"manual", "pex"},
           NEW r \in Upserted(a, source)
    PROVE  /\ r \in Table /\ Bounded(r)
           /\ \A x \in Addr : r[x] # NoRow /\ r[x].verified =>
                 x \in Registered /\ rows[x].verified
           /\ source = "pex" =>
                 \A x \in Registered :
                    rows[x].source = "manual" \/ rows[x].verified => r[x] # NoRow
  <1>1. CASE a \in Registered
    <2> DEFINE s == IF source = "manual" THEN source ELSE rows[a].source
    <2>1. rows[a] \in Row
      BY <1>1 DEF Registered, Table
    <2>2. s \in {"manual", "pex"} /\ (rows[a].source = "manual" => s = "manual")
      BY <2>1 DEF Row
    <2>3. r = [rows EXCEPT ![a].source = s]
      BY <1>1 DEF Upserted
    <2>4. r = [rows EXCEPT ![a] = [rows[a] EXCEPT !.source = s]]
      BY <2>3
    <2> HIDE DEF s
    <2> DEFINE row == [rows[a] EXCEPT !.source = s]
    <2>5. row \in Row /\ row.source = s /\ row.verified = rows[a].verified
      BY <2>1, <2>2 DEF Row
    <2> HIDE DEF row
    <2>6. row # NoRow /\ r = [rows EXCEPT ![a] = row]
      BY <2>4, <2>5, TableAssumption DEF row
    <2>7. r \in Table /\ Present(r) = Present(rows) /\ \A x \in Addr : x # a => r[x] = rows[x]
      BY <1>1, <2>5, <2>6 DEF Table, Present, Registered
    <2>8. r[a] = row
      BY <2>6 DEF Table
    <2>9. Bounded(r)
      BY <2>2, <2>5, <2>7, <2>8, <1>1 DEF Bounded, Present
    <2> QED BY <2>5, <2>6, <2>7, <2>8, <2>9, <1>1 DEF Registered
  <1>2. CASE a \notin Registered
    <2> DEFINE row == [source |-> source, verified |-> FALSE, enabled |-> TRUE, fails |-> 0]
               t == [rows EXCEPT ![a] = row]
    <2>1. row \in Row /\ row.source = source /\ ~row.verified
      BY TableAssumption DEF Row
    <2>2. PICK V \in VictimSets(t, a) : r = [x \in Addr |-> IF x \in V THEN NoRow ELSE t[x]]
      BY <1>2 DEF Upserted
    <2> HIDE DEF row
    <2>3. t \in Table /\ t[a] = row /\ \A x \in Addr : x # a => t[x] = rows[x]
      BY <2>1 DEF Table
    <2>4. Bounded(r)
      BY <2>2, <2>3, EvictionBounds
    <2>5. r \in Table
      BY <2>2, <2>3 DEF Table
    <2>6. \A x \in Addr : r[x] # NoRow /\ r[x].verified => x \in Registered /\ rows[x].verified
      BY <2>1, <2>2, <2>3 DEF Registered
    <2>7. ASSUME source = "pex", NEW x \in Registered,
                 rows[x].source = "manual" \/ rows[x].verified
          PROVE  r[x] # NoRow
      <3>1. x \in Present(rows) /\ rows[a] = NoRow /\ x # a /\ x \in Addr
        BY <1>2, <2>7 DEF Present, Registered
      <3>2. x \notin V
        BY <2>1, <2>2, <2>7, <3>1, EvictionSpares
      <3> QED BY <2>2, <2>3, <3>1, <3>2 DEF Present
    <2> QED BY <2>4, <2>5, <2>6, <2>7
  <1> QED BY <1>1, <1>2

\* An update that keeps the source of its row keeps the table within its
\* limit, whether or not the row is still there.
LEMMA UpdateEffect ==
    ASSUME rows \in Table, Bounded(rows), NEW a \in Addr, NEW row,
           a \in Registered => row \in Row /\ row.source = rows[a].source
    PROVE  /\ Updated(a, row) \in Table /\ Bounded(Updated(a, row))
           /\ \A x \in Addr : x # a => Updated(a, row)[x] = rows[x]
           /\ a \in Registered => Updated(a, row)[a] = row
           /\ a \notin Registered => Updated(a, row) = rows
  <1>1. CASE a \in Registered
    <2> DEFINE r == [rows EXCEPT ![a] = row]
    <2>1. Updated(a, row) = r
      BY <1>1 DEF Updated
    <2>2. r \in Table /\ r[a] = row /\ \A x \in Addr : x # a => r[x] = rows[x]
      BY <1>1 DEF Table
    <2> HIDE DEF r
    <2>3. Present(r) = Present(rows)
      BY <1>1, <2>2, TableAssumption DEF Present, Registered
    <2>4. Bounded(r)
      BY <1>1, <2>2, <2>3 DEF Bounded, Present
    <2> QED BY <1>1, <2>1, <2>2, <2>4
  <1>2. CASE a \notin Registered
    BY <1>2 DEF Updated
  <1> QED BY <1>1, <1>2

\* delete_peer keeps the table within its limit.
LEMMA DeleteEffect ==
    ASSUME rows \in Table, Bounded(rows), NEW a \in Addr
    PROVE  /\ DeletePeer(a) \in Table /\ Bounded(DeletePeer(a))
           /\ DeletePeer(a)[a] = NoRow
           /\ \A x \in Addr : x # a => DeletePeer(a)[x] = rows[x]
  <1> DEFINE r == [rows EXCEPT ![a] = NoRow]
  <1>1. DeletePeer(a) = r
    BY DEF DeletePeer
  <1>2. r \in Table /\ r[a] = NoRow /\ \A x \in Addr : x # a => r[x] = rows[x]
    BY DEF Table
  <1> HIDE DEF r
  <1>3. Present(r) \subseteq Present(rows)
    BY <1>2 DEF Present
  <1>4. Cardinality(Present(r)) <= Cardinality(Present(rows))
    BY <1>3, FiniteAddresses, FS_Subset DEF Present
  <1>5. Cardinality(Present(r)) \in Nat /\ Cardinality(Present(rows)) \in Nat
    BY FiniteAddresses DEF Present
  <1>6. Cardinality(Present(r)) > PeerLimit => Cardinality(Present(rows)) > PeerLimit
    BY <1>4, <1>5, TableAssumption
  <1>7. Bounded(r)
    BY <1>2, <1>3, <1>6 DEF Bounded, Present
  <1> QED BY <1>1, <1>2, <1>7

\* What a step may do to the table: it stays a table within its limit, and a
\* row becomes verified only when the handshake with its address completes.
TableStep ==
    /\ rows' \in Table /\ Bounded(rows')
    /\ \A x \in Addr : rows'[x] # NoRow /\ rows'[x].verified =>
          (x \in Registered /\ rows[x].verified) \/ Establish(x)

\* A step that leaves the table alone.
LEMMA TableKept ==
    ASSUME rows \in Table, Bounded(rows), rows' = rows
    PROVE  TableStep
  BY DEF TableStep, Registered

\* add_peer, whoever calls it.
LEMMA AddPeerEffect ==
    ASSUME rows \in Table, Bounded(rows), NEW a \in Addr, AddPeer(a, "pex")
    PROVE  /\ TableStep
           /\ \A x \in Registered :
                 rows[x].source = "manual" \/ rows[x].verified => rows'[x] # NoRow
  <1>1. CASE a \in selfAddrs
    BY <1>1, TableKept DEF AddPeer, Registered
  <1>2. CASE a \notin selfAddrs
    <2>1. rows' \in Upserted(a, "pex")
      BY <1>2 DEF AddPeer
    <2>2. /\ rows' \in Table /\ Bounded(rows')
          /\ \A x \in Addr : rows'[x] # NoRow /\ rows'[x].verified =>
                x \in Registered /\ rows[x].verified
          /\ \A x \in Registered :
                rows[x].source = "manual" \/ rows[x].verified => rows'[x] # NoRow
      BY <2>1, UpsertEffect
    <2> QED BY <2>2 DEF TableStep
  <1> QED BY <1>1, <1>2

\* The steps of the network keep the proven rows.
LEMMA NetworkSpares ==
    ASSUME rows \in Table, Bounded(rows),
           \/ \E a \in Addr : ReceivePeers(a)
           \/ \E g \in Caller : EstablishInbound(g)
    PROVE  \A x \in Registered :
              rows[x].source = "manual" \/ rows[x].verified => rows'[x] # NoRow
  <1>1. ASSUME NEW a \in Addr, ReceivePeers(a)
        PROVE  \A x \in Registered :
                  rows[x].source = "manual" \/ rows[x].verified => rows'[x] # NoRow
    BY <1>1, AddPeerEffect DEF ReceivePeers
  <1>2. ASSUME NEW g \in Caller, EstablishInbound(g)
        PROVE  \A x \in Registered :
                  rows[x].source = "manual" \/ rows[x].verified => rows'[x] # NoRow
    <2>1. Listen[g] \in Addr
      BY ManagerAssumption
    <2>2. AddPeer(Listen[g], "pex") \/ rows' = rows
      BY <1>2 DEF EstablishInbound, RegisterInbound
    <2> QED BY <2>1, <2>2, AddPeerEffect DEF Registered
  <1> QED BY <1>1, <1>2

\* Every step is a TableStep.
LEMMA NextTable ==
    ASSUME rows \in Table, Bounded(rows), [Next]_vars
    PROVE  TableStep
  <1>1. CASE Maintain \/ Tick \/ CatchUp \/ Recover \/ UNCHANGED vars
    <2>1. rows' = rows
      BY <1>1 DEF Maintain, Count, Select, Detect, Launch, Skip, Throttle, Tick, CatchUp,
                  Recover, vars
    <2> QED BY <2>1, TableKept
  <1>2. ASSUME NEW a \in Addr, Establish(a) PROVE TableStep
    <2> DEFINE row == [rows[a] EXCEPT !.verified = TRUE, !.fails = 0]
    <2>1. rows' = Updated(a, row)
      BY <1>2 DEF Establish, RecordPeerSuccess
    <2>2. a \in Registered => row \in Row /\ row.source = rows[a].source
      <3> HAVE a \in Registered
      <3> DEFINE half == [rows[a] EXCEPT !.verified = TRUE]
      <3>1. rows[a] \in Row
        BY DEF Registered, Table
      <3>2. half \in Row /\ half.source = rows[a].source
        BY <3>1 DEF Row
      <3>3. row = [half EXCEPT !.fails = 0]
        BY <3>1 DEF Row
      <3> HIDE DEF half, row
      <3> QED BY <3>2, <3>3, TableAssumption DEF Row
    <2> HIDE DEF row
    <2>3. /\ rows' \in Table /\ Bounded(rows')
          /\ \A x \in Addr : x # a => rows'[x] = rows[x]
      BY <2>1, <2>2, UpdateEffect
    <2> QED BY <1>2, <2>3 DEF TableStep, Registered
  <1>3. ASSUME NEW a \in Addr, Retry(a) PROVE TableStep
    <2>1. CASE retiring[a] = "failed"
      <3> DEFINE row == [rows[a] EXCEPT !.fails = Min({@ + 1, MaxFail})]
      <3>1. rows' = Updated(a, row)
        BY <1>3, <2>1 DEF Retry, RecordPeerFailure
      <3>2. a \in Registered =>
               row \in Row /\ row.source = rows[a].source /\ row.verified = rows[a].verified
        <4> HAVE a \in Registered
        <4>1. rows[a] \in Row /\ rows[a].fails + 1 \in Nat /\ rows[a].fails \in 0..MaxFail
          BY TableAssumption DEF Registered, Table, Row
        <4>2. Min({rows[a].fails + 1, MaxFail}) \in 0..MaxFail
          BY <4>1, MinOfTwo, TableAssumption
        <4> QED BY <4>1, <4>2 DEF Row
      <3> HIDE DEF row
      <3>3. /\ rows' \in Table /\ Bounded(rows')
            /\ \A x \in Addr : x # a => rows'[x] = rows[x]
            /\ a \in Registered => rows'[a] = row
            /\ a \notin Registered => rows' = rows
        BY <3>1, <3>2, UpdateEffect
      <3> QED BY <3>2, <3>3 DEF TableStep, Registered
    <2>2. CASE retiring[a] # "failed"
      BY <1>3, <2>2, TableKept DEF Retry
    <2> QED BY <2>1, <2>2
  <1>4. ASSUME NEW a \in Addr, SelfConnect(a) PROVE TableStep
    <2>1. rows' = DeletePeer(a)
      BY <1>4 DEF SelfConnect, NoteSelfConnect
    <2> QED BY <2>1, DeleteEffect DEF TableStep, Registered
  <1>5. ASSUME NEW a \in Addr, DialFails(a) \/ Disconnect(a) PROVE TableStep
    BY <1>5, TableKept DEF DialFails, Disconnect
  <1>6. ASSUME NEW a \in Addr, ReceivePeers(a) PROVE TableStep
    BY <1>6, AddPeerEffect DEF ReceivePeers
  <1>7. ASSUME NEW a \in Addr, Request(a) PROVE TableStep
    <2>1. CASE rows' \in Upserted(a, "manual")
      <3>1. /\ rows' \in Table /\ Bounded(rows')
            /\ \A x \in Addr : rows'[x] # NoRow /\ rows'[x].verified =>
                  x \in Registered /\ rows[x].verified
        BY <2>1, UpsertEffect
      <3> QED BY <3>1 DEF TableStep
    <2>2. ASSUME NEW enabled \in BOOLEAN, rows' = SetPeerEnabled(a, enabled) PROVE TableStep
      <3> DEFINE row == [rows[a] EXCEPT !.enabled = enabled]
      <3>1. rows' = Updated(a, row)
        BY <2>2 DEF SetPeerEnabled
      <3>2. a \in Registered =>
               row \in Row /\ row.source = rows[a].source /\ row.verified = rows[a].verified
        BY DEF Registered, Table, Row
      <3> HIDE DEF row
      <3>3. /\ rows' \in Table /\ Bounded(rows')
            /\ \A x \in Addr : x # a => rows'[x] = rows[x]
            /\ a \in Registered => rows'[a] = row
            /\ a \notin Registered => rows' = rows
        BY <3>1, <3>2, UpdateEffect
      <3> QED BY <3>2, <3>3 DEF TableStep, Registered
    <2>3. CASE rows' = DeletePeer(a)
      BY <2>3, DeleteEffect DEF TableStep, Registered
    <2> QED BY <1>7, <2>1, <2>2, <2>3 DEF Request
  <1>8. ASSUME NEW g \in Caller, BeginInbound(g) \/ EndInbound(g) PROVE TableStep
    BY <1>8, TableKept DEF BeginInbound, EndInbound
  <1>9. ASSUME NEW g \in Caller, EstablishInbound(g) PROVE TableStep
    <2>1. Listen[g] \in Addr
      BY ManagerAssumption
    <2>2. AddPeer(Listen[g], "pex") \/ rows' = rows
      BY <1>9 DEF EstablishInbound, RegisterInbound
    <2> QED BY <2>1, <2>2, AddPeerEffect, TableKept
  <1> QED BY <1>1, <1>2, <1>3, <1>4, <1>5, <1>6, <1>7, <1>8, <1>9 DEF Next

-----------------------------------------------------------------------------
(***************************************************************************)
(* The inductive invariant.                                                *)
(***************************************************************************)
Maintenance ==
    [pc : {"idle", "due", "counted", "selected", "launching"}, up : BOOLEAN,
     list : Seq(Candidate), room : 0..OutboundTarget]

\* While a pass launches, what is left of the deficit it read still fits: only
\* the pass itself adds to outbound, and the others only make room.
PassSound ==
    /\ maint \in Maintenance
    /\ maint.pc \in {"selected", "launching"} =>
          /\ maint.list # <<>>
          /\ maint.room > 0
          /\ maint.room + Cardinality(outbound) <= OutboundTarget

\* Slots are within their limits, and a slot is taken exactly while a task
\* dials or serves its address.
SlotsSound ==
    /\ IsFiniteSet(inbound)
    /\ SlotsWithinLimits
    /\ \A a \in Addr : a \in outbound <=> dial[a] # "none"

\* The only connections to addresses in back-off, or about to be put there,
\* are those dialled behind the back of a retiring task.
BackoffSound ==
    \A a \in outbound :
       /\ backoff[a] = 0 \/ a \in overtaken
       /\ retiring[a] = "none" \/ a \in overtaken

PeerInv ==
    /\ TypeOK /\ PassSound /\ SlotsSound /\ TableBounded /\ BackoffSound
    /\ foundSelf \subseteq selfAddrs

\* TableBounded is Bounded of the table the store holds.
LEMMA BoundedRows == TableBounded <=> Bounded(rows)
  BY DEF TableBounded, Bounded, Registered, Present

\* The same of the next state.
LEMMA BoundedRowsPrimed == Bounded(rows') => TableBounded'
  BY DEF TableBounded, Bounded, Registered, Present

\* The delay of a retry is at most the cap.
LEMMA DelayWithinCap ==
    ASSUME NEW n \in 0..MaxFail
    PROVE  BackoffDelay(n) \in 0..BackoffCap
  <1>1. CASE n = 0
    BY <1>1, ManagerAssumption DEF BackoffDelay
  <1>2. CASE n # 0
    <2> DEFINE power == BackoffFactor ^ (n - 1)
    <2>1. n - 1 \in 0..MaxFail
      BY <1>2, TableAssumption
    <2>2. power \in Nat
      BY <2>1, PowerAssumption
    <2> HIDE DEF power
    <2>3. BackoffInitial * power \in Nat
      BY <2>2, ManagerAssumption
    <2>4. Min({BackoffCap, BackoffInitial * power}) \in 0..BackoffCap
      <3> DEFINE delay == BackoffInitial * power
      <3>1. delay \in Nat
        BY <2>3
      <3> HIDE DEF delay
      <3>2. Min({BackoffCap, delay}) \in 0..BackoffCap
        BY <3>1, MinOfTwo, ManagerAssumption
      <3> QED BY <3>2 DEF delay
    <2>5. BackoffDelay(n) = Min({BackoffCap, BackoffInitial * power})
      BY <1>2 DEF BackoffDelay, power
    <2> QED BY <2>4, <2>5
  <1> QED BY <1>1, <1>2

\* What candidates() returns is a list of candidates.
LEMMA CandidatesType ==
    ASSUME rows \in Table, NEW normal \in BOOLEAN, NEW list \in CandidateLists(normal)
    PROVE  list \in Seq(Candidate)
  <1> DEFINE S == {a \in Addr : Eligible(a) /\ a \notin outbound \union inbound}
  <1>1. PICK s \in SetToSeqs(S) :
           list = [i \in DOMAIN s |-> [addr |-> s[i], verified |-> rows[s[i]].verified]]
    BY DEF CandidateLists
  <1>2. s \in [1..Cardinality(S) -> S] /\ Cardinality(S) \in Nat
    BY FiniteAddresses DEF SetToSeqs
  <1>3. \A a \in S : [addr |-> a, verified |-> rows[a].verified] \in Candidate
    BY DEF Candidate, Eligible, Registered, Table, Row
  <1> HIDE DEF S
  <1>4. list \in [1..Cardinality(S) -> Candidate]
    BY <1>1, <1>2, <1>3
  <1> QED BY <1>2, <1>4

\* The invariant holds of every initial state.
LEMMA InitPeer == Init => PeerInv
  <1> SUFFICES ASSUME Init PROVE PeerInv
    OBVIOUS
  <1> USE ManagerAssumption, TableAssumption
  <1>1. Cardinality({}) = 0 /\ IsFiniteSet({})
    BY FS_EmptySet
  <1>2. maint = [pc |-> "due", up |-> FALSE, list |-> <<>>, room |-> 0]
    BY DEF Init, Idle
  <1>3. TypeOK
    <2>1. /\ maint.pc \in {"idle", "due", "counted", "selected", "launching"}
          /\ maint.up \in BOOLEAN /\ maint.room \in 0..OutboundTarget
          /\ maint.list \in Seq(Candidate)
      BY <1>2
    <2>2. /\ backoff \in [Addr -> 0..BackoffCap] /\ requests \in 0..MaxRequest
          /\ dial \in [Addr -> {"none", "dialing", "up"}]
          /\ retiring \in [Addr -> {"none", "closed", "failed"}]
          /\ incoming \in [Caller -> {"none", "shaking", "up"}]
      BY DEF Init
    <2> QED BY <2>1, <2>2 DEF Init, TypeOK, TableInit
  <1>4. PassSound
    BY <1>2 DEF PassSound, Maintenance
  <1>5. SlotsSound
    BY <1>1 DEF Init, SlotsSound, SlotsWithinLimits
  <1> QED BY <1>3, <1>4, <1>5 DEF Init, PeerInv, TableInit, BackoffSound

\* The part of the invariant that is not about the table, as a step from a
\* state of the invariant must leave it.
Kept == PassSound' /\ SlotsSound' /\ BackoffSound' /\ (foundSelf \subseteq selfAddrs)'

\* The part of TypeOK that is not about the table or the maintenance.
TasksTyped ==
    /\ selfAddrs \subseteq Addr /\ outbound \subseteq Addr /\ inbound \subseteq Caller
    /\ dialedNew \in BOOLEAN
    /\ backoff \in [Addr -> 0..BackoffCap]
    /\ dial \in [Addr -> {"none", "dialing", "up"}]
    /\ retiring \in [Addr -> {"none", "closed", "failed"}]
    /\ incoming \in [Caller -> {"none", "shaking", "up"}]
    /\ allUnreachable \in BOOLEAN /\ permit \in BOOLEAN
    /\ requests \in 0..MaxRequest
    /\ foundSelf \subseteq SelfAddr /\ overtaken \subseteq Addr

\* A list of more than one candidate has a rest.
LEMMA TailOfMany ==
    ASSUME NEW T, NEW s \in Seq(T), s # <<>>, Len(s) # 1
    PROVE  Tail(s) \in Seq(T) /\ Tail(s) # <<>>
  <1>1. Len(s) \in Nat /\ Len(s) # 0
    BY EmptySeq
  <1>2. Tail(s) \in Seq(T) /\ Len(Tail(s)) = Len(s) - 1
    BY HeadTailProperties
  <1>3. Len(Tail(s)) # 0
    BY <1>1, <1>2
  <1> QED BY <1>2, <1>3, EmptySeq

\* The states of the maintenance between two passes.
LEMMA IdleTyped ==
    /\ Idle \in Maintenance /\ [Idle EXCEPT !.pc = "due"] \in Maintenance
    /\ Idle.pc = "idle" /\ [Idle EXCEPT !.pc = "due"].pc = "due"
  <1>1. 0 \in 0..OutboundTarget /\ <<>> \in Seq(Candidate)
    BY ManagerAssumption
  <1>2. Idle \in Maintenance
    BY <1>1 DEF Idle, Maintenance
  <1>3. [Idle EXCEPT !.pc = "due"] \in Maintenance /\ [Idle EXCEPT !.pc = "due"].pc = "due"
    BY <1>2 DEF Maintenance
  <1> QED BY <1>2, <1>3 DEF Idle

\* A pass that does not launch keeps everything but its own place.
LEMMA PassSteps ==
    ASSUME PeerInv, Count \/ Select \/ Detect \/ Skip \/ Throttle \/ CatchUp
    PROVE  TasksTyped' /\ Kept
  <1> USE DEF PeerInv
  <1>1. UNCHANGED <<rows, slots, backoff, tasks, requests, history>>
    BY DEF Count, Select, Detect, Skip, Throttle, CatchUp
  <1>2. TasksTyped'
    BY <1>1 DEF TypeOK, TasksTyped, slots, tasks, signal, history, Count, Select, Detect, Skip,
                Throttle, CatchUp, MarkReachable
  <1>3. SlotsSound' /\ BackoffSound' /\ (foundSelf \subseteq selfAddrs)'
    BY <1>1 DEF SlotsSound, SlotsWithinLimits, BackoffSound, slots, tasks, history
  <1>4. outbound' = outbound
    BY <1>1 DEF slots
  <1>5. Idle \in Maintenance /\ [Idle EXCEPT !.pc = "due"] \in Maintenance
        /\ Idle.pc = "idle" /\ [Idle EXCEPT !.pc = "due"].pc = "due"
    BY IdleTyped
  <1>6. CASE Count
    <2>1. maint' = [[maint EXCEPT !.pc = "counted"] EXCEPT !.up = Established # {}]
      BY <1>6 DEF Count, PassSound, Maintenance
    <2> QED BY <2>1, <1>2, <1>3 DEF PassSound, Maintenance, Kept
  <1>7. CASE Select
    <2> DEFINE deficit == IF Cardinality(outbound) < OutboundTarget
                          THEN OutboundTarget - Cardinality(outbound) ELSE 0
    <2>1. Cardinality(outbound) \in Nat
      BY FiniteAddresses DEF TypeOK
    <2>2. /\ deficit \in 0..OutboundTarget
          /\ deficit # 0 => deficit + Cardinality(outbound) <= OutboundTarget
      BY <2>1, ManagerAssumption
    <2>3. PICK list \in CandidateLists(maint.up) :
             maint' = IF deficit = 0 \/ list = <<>> THEN Idle
                      ELSE [maint EXCEPT !.pc = "selected", !.list = list, !.room = deficit]
      BY <1>7 DEF Select
    <2>4. list \in Seq(Candidate)
      BY <2>3, CandidatesType DEF TypeOK, Table
    <2> HIDE DEF deficit
    <2>5. CASE deficit = 0 \/ list = <<>>
      BY <2>3, <2>5, <1>2, <1>3, <1>5 DEF PassSound, Kept
    <2>6. CASE deficit # 0 /\ list # <<>>
      <3> DEFINE m1 == [maint EXCEPT !.pc = "selected"]
                 m2 == [m1 EXCEPT !.list = list]
                 m3 == [m2 EXCEPT !.room = deficit]
      <3>1. m1 \in Maintenance
        BY DEF PassSound, Maintenance
      <3>2. m2 \in Maintenance /\ m2.list = list
        <4> HIDE DEF m1
        <4> QED BY <3>1, <2>4 DEF Maintenance
      <3>3. m3 \in Maintenance /\ m3.list = list /\ m3.room = deficit
        <4> HIDE DEF m2
        <4> QED BY <3>2, <2>2 DEF Maintenance
      <3>4. maint' = m3
        BY <2>3, <2>6 DEF PassSound, Maintenance
      <3> HIDE DEF m3
      <3>5. maint'.room > 0 /\ maint'.room + Cardinality(outbound') <= OutboundTarget
        BY <3>3, <3>4, <2>2, <2>6, <1>4
      <3> QED BY <3>3, <3>4, <3>5, <2>6, <1>2, <1>3 DEF PassSound, Kept
    <2> QED BY <2>5, <2>6
  <1>8. CASE Detect
    <2>1. maint' = [[maint EXCEPT !.pc = "launching"] EXCEPT !.up = FALSE]
      BY <1>8 DEF Detect, PassSound, Maintenance
    <2>2. maint' \in Maintenance /\ maint'.list = maint.list /\ maint'.room = maint.room
      BY <2>1 DEF PassSound, Maintenance
    <2> QED BY <2>2, <1>2, <1>3, <1>4, <1>8 DEF PassSound, Kept, Detect
  <1>9. CASE Skip
    <2>1. maint.list \in Seq(Candidate) /\ maint.list # <<>> /\ maint.pc = "launching"
      BY <1>9 DEF Skip, PassSound, Maintenance
    <2>2. CASE maint.room = 0 \/ Len(maint.list) = 1
      BY <2>2, <1>2, <1>3, <1>5, <1>9 DEF Skip, Continue, PassSound, Kept
    <2>3. CASE ~(maint.room = 0 \/ Len(maint.list) = 1)
      <3>1. Tail(maint.list) \in Seq(Candidate) /\ Tail(maint.list) # <<>>
        BY <2>1, <2>3, TailOfMany
      <3>2. maint' = [[maint EXCEPT !.list = Tail(maint.list)] EXCEPT !.room = maint.room]
        BY <2>3, <1>9 DEF Skip, Continue, PassSound, Maintenance
      <3>3. maint' \in Maintenance /\ maint'.list = Tail(maint.list)
            /\ maint'.room = maint.room /\ maint'.pc = "launching"
        BY <2>1, <3>1, <3>2 DEF PassSound, Maintenance
      <3> QED BY <2>1, <3>1, <3>3, <1>2, <1>3, <1>4 DEF PassSound, Kept
    <2> QED BY <2>2, <2>3
  <1>10. CASE Throttle \/ CatchUp
    BY <1>2, <1>3, <1>5, <1>10 DEF Throttle, CatchUp, PassSound, Kept
  <1> QED BY <1>6, <1>7, <1>8, <1>9, <1>10

\* A launch takes one slot and one of the deficit.
LEMMA LaunchStep ==
    ASSUME PeerInv, Launch
    PROVE  TasksTyped' /\ Kept
  <1> USE DEF PeerInv
  <1>1. /\ maint.pc = "launching" /\ maint.list \in Seq(Candidate) /\ maint.list # <<>>
        /\ maint.room \in 0..OutboundTarget /\ maint.room > 0
        /\ maint.room + Cardinality(outbound) <= OutboundTarget
    BY DEF Launch, PassSound, Maintenance
  <1>2. Foremost \in Candidate
    BY <1>1, HeadTailProperties DEF Foremost
  <1>3. PICK a \in Addr : a = Foremost.addr
    BY <1>2 DEF Candidate
  <1>4. /\ outbound' = outbound \union {a}
        /\ dialedNew' = (dialedNew \/ ~Foremost.verified)
        /\ dial' = [dial EXCEPT ![a] = "dialing"]
        /\ overtaken' = IF retiring[a] # "none" THEN overtaken \union {a} ELSE overtaken
        /\ Continue(maint.room - 1)
        /\ UNCHANGED <<rows, selfAddrs, inbound, backoff, retiring, incoming, signal,
                       requests, foundSelf>>
    BY <1>3 DEF Launch, RoomAfter
  <1>5. backoff[a] = 0 /\ a \notin selfAddrs /\ a \notin outbound /\ a \notin inbound
    BY <1>3, ManagerAssumption DEF Launch, Undialable, TypeOK
  <1>6. TasksTyped'
    BY <1>2, <1>4 DEF TypeOK, TasksTyped, signal
  <1>7. /\ Cardinality(outbound) \in Nat
        /\ Cardinality(outbound') = Cardinality(outbound) + 1
    <2>1. IsFiniteSet(outbound) /\ Cardinality(outbound) \in Nat
      BY FiniteAddresses DEF TypeOK
    <2> QED BY <2>1, <1>4, <1>5, FS_AddElement
  <1>8. Cardinality(outbound') <= OutboundTarget
    BY <1>1, <1>7, ManagerAssumption
  <1>9. SlotsSound'
    <2>1. \A x \in Addr : x \in outbound' <=> dial'[x] # "none"
      BY <1>4 DEF SlotsSound, TypeOK
    <2> QED BY <2>1, <1>4, <1>5, <1>8 DEF SlotsSound, SlotsWithinLimits
  <1>10. BackoffSound'
    BY <1>4, <1>5 DEF BackoffSound
  <1>11. PassSound'
    <2>1. CASE maint.room - 1 = 0 \/ Len(maint.list) = 1
      BY <2>1, <1>4, IdleTyped DEF Continue, PassSound
    <2>2. CASE ~(maint.room - 1 = 0 \/ Len(maint.list) = 1)
      <3> DEFINE m == [maint EXCEPT !.list = Tail(maint.list)]
      <3>1. Tail(maint.list) \in Seq(Candidate) /\ Tail(maint.list) # <<>>
        BY <1>1, <2>2, TailOfMany
      <3>2. m \in Maintenance /\ m.list = Tail(maint.list) /\ m.pc = "launching"
        BY <1>1, <3>1 DEF PassSound, Maintenance
      <3>3. maint' = [m EXCEPT !.room = maint.room - 1]
        BY <2>2, <1>4 DEF Continue, PassSound, Maintenance
      <3> HIDE DEF m
      <3>4. maint.room - 1 \in 0..OutboundTarget /\ maint.room - 1 > 0
        BY <1>1, <2>2, ManagerAssumption
      <3>5. /\ maint' \in Maintenance /\ maint'.list # <<>>
            /\ maint'.room = maint.room - 1
        BY <3>1, <3>2, <3>3, <3>4 DEF Maintenance
      <3>6. maint'.room > 0 /\ maint'.room + Cardinality(outbound') <= OutboundTarget
        BY <1>1, <1>7, <3>4, <3>5, ManagerAssumption
      <3> QED BY <3>5, <3>6 DEF PassSound
    <2> QED BY <2>1, <2>2
  <1>12. (foundSelf \subseteq selfAddrs)'
    BY <1>4
  <1> QED BY <1>6, <1>9, <1>10, <1>11, <1>12 DEF Kept

\* The passing of time only ever ends back-off.
LEMMA TickStep ==
    ASSUME PeerInv, Tick
    PROVE  TasksTyped' /\ Kept
  <1> USE DEF PeerInv
  <1>1. /\ maint' = [Idle EXCEPT !.pc = "due"] /\ dialedNew' = FALSE
        /\ backoff' = [a \in Addr |-> IF backoff[a] > 0 THEN backoff[a] - 1 ELSE 0]
        /\ UNCHANGED <<rows, selfAddrs, outbound, inbound, tasks, signal, requests, history>>
    BY DEF Tick
  <1>2. backoff' \in [Addr -> 0..BackoffCap]
    BY <1>1, ManagerAssumption DEF TypeOK
  <1>3. \A a \in Addr : backoff[a] = 0 => backoff'[a] = 0
    BY <1>1
  <1>4. TasksTyped'
    BY <1>1, <1>2 DEF TypeOK, TasksTyped, tasks, signal, history
  <1>5. PassSound'
    BY <1>1, IdleTyped DEF PassSound
  <1>6. SlotsSound' /\ (foundSelf \subseteq selfAddrs)'
    BY <1>1 DEF SlotsSound, SlotsWithinLimits, tasks, history
  <1>7. BackoffSound'
    BY <1>1, <1>3 DEF BackoffSound, tasks, history, TypeOK
  <1> QED BY <1>4, <1>5, <1>6, <1>7 DEF Kept

\* The end of a connection makes room.
LEMMA EndStep ==
    ASSUME PeerInv, NEW a \in Addr, NEW end \in {"closed", "failed"}, EndOutbound(a, end),
           selfAddrs \subseteq selfAddrs', selfAddrs' \subseteq Addr,
           foundSelf' \subseteq selfAddrs', foundSelf' \subseteq SelfAddr
    PROVE  TasksTyped' /\ Kept
  <1> USE DEF PeerInv
  <1>1. /\ outbound' = outbound \ {a}
        /\ dial' = [dial EXCEPT ![a] = "none"]
        /\ retiring' = [retiring EXCEPT ![a] = end]
        /\ overtaken' = overtaken \ {a}
        /\ UNCHANGED <<inbound, dialedNew, backoff, maint, incoming, signal, requests>>
    BY DEF EndOutbound
  <1>2. TasksTyped'
    BY <1>1 DEF TypeOK, TasksTyped, signal
  <1>3. /\ Cardinality(outbound') \in Nat /\ Cardinality(outbound) \in Nat
        /\ Cardinality(outbound') <= Cardinality(outbound)
    BY <1>1, FiniteAddresses, FS_Subset DEF TypeOK
  <1>4. PassSound'
    <2>1. maint.room \in 0..OutboundTarget
      BY DEF PassSound, Maintenance
    <2>2. maint.room + Cardinality(outbound) <= OutboundTarget =>
             maint.room + Cardinality(outbound') <= OutboundTarget
      BY <1>3, <2>1, ManagerAssumption
    <2> QED BY <1>1, <2>2 DEF PassSound
  <1>5. SlotsSound'
    <2>1. \A x \in Addr : x \in outbound' <=> dial'[x] # "none"
      BY <1>1 DEF SlotsSound, TypeOK
    <2>2. Cardinality(outbound') <= OutboundTarget
      BY <1>3, ManagerAssumption DEF SlotsSound, SlotsWithinLimits
    <2> QED BY <1>1, <2>1, <2>2 DEF SlotsSound, SlotsWithinLimits
  <1>6. BackoffSound'
    BY <1>1 DEF BackoffSound, TypeOK
  <1> QED BY <1>2, <1>4, <1>5, <1>6 DEF Kept

\* A retiring task that puts an address in back-off finds at most a
\* connection that overtook it.
LEMMA RetryStep ==
    ASSUME PeerInv, NEW a \in Addr, Retry(a), rows' \in Table
    PROVE  TasksTyped' /\ Kept
  <1> USE DEF PeerInv
  <1> DEFINE delay == IF retiring[a] = "failed" /\ a \in Registered
                      THEN BackoffDelay(rows'[a].fails) ELSE BackoffInitial
  <1>1. /\ retiring[a] # "none"
        /\ backoff' = [backoff EXCEPT ![a] = delay]
        /\ retiring' = [retiring EXCEPT ![a] = "none"]
        /\ UNCHANGED <<slots, maint, dial, incoming, signal, requests, history>>
    BY DEF Retry
  <1>2. delay \in 0..BackoffCap
    <2>1. CASE retiring[a] = "failed" /\ a \in Registered
      <3>1. rows' = RecordPeerFailure(a)
        BY <2>1 DEF Retry
      <3>2. rows'[a] # NoRow
        <4>1. rows[a] \in Row
          BY <2>1 DEF Registered, TypeOK
        <4>2. rows'[a] = [rows[a] EXCEPT !.fails = Min({@ + 1, MaxFail})]
          BY <2>1, <3>1 DEF RecordPeerFailure, Updated, TypeOK
        <4>3. Min({rows[a].fails + 1, MaxFail}) \in 0..MaxFail
          BY <4>1, MinOfTwo, TableAssumption DEF Row
        <4>4. rows'[a] \in Row
          BY <4>1, <4>2, <4>3 DEF Row
        <4> QED BY <4>4, TableAssumption
      <3>3. rows'[a].fails \in 0..MaxFail
        BY <3>2 DEF Table, Row
      <3> QED BY <2>1, <3>3, DelayWithinCap
    <2>2. CASE ~(retiring[a] = "failed" /\ a \in Registered)
      BY <2>2, ManagerAssumption
    <2> QED BY <2>1, <2>2
  <1> HIDE DEF delay
  <1>3. TasksTyped'
    BY <1>1, <1>2 DEF TypeOK, TasksTyped, slots, signal, history
  <1>4. PassSound' /\ SlotsSound' /\ (foundSelf \subseteq selfAddrs)'
    BY <1>1 DEF PassSound, SlotsSound, SlotsWithinLimits, slots, history
  <1>5. BackoffSound'
    BY <1>1 DEF BackoffSound, slots, history, TypeOK
  <1> QED BY <1>3, <1>4, <1>5 DEF Kept

\* Inbound connections take and leave inbound slots only.
LEMMA InboundSteps ==
    ASSUME PeerInv, NEW g \in Caller, BeginInbound(g) \/ EstablishInbound(g) \/ EndInbound(g)
    PROVE  TasksTyped' /\ Kept
  <1> USE DEF PeerInv
  <1>1. UNCHANGED <<selfAddrs, outbound, dialedNew, backoff, maint, dial, retiring, requests,
                    history>>
    BY DEF BeginInbound, EstablishInbound, EndInbound, slots
  <1>2. TasksTyped'
    BY <1>1 DEF TypeOK, TasksTyped, signal, history, slots, MarkReachable, BeginInbound,
                EstablishInbound, EndInbound
  <1>3. PassSound' /\ BackoffSound' /\ (foundSelf \subseteq selfAddrs)'
    BY <1>1 DEF PassSound, BackoffSound, history
  <1>4. /\ IsFiniteSet(inbound') /\ Cardinality(inbound') <= InboundMax
        /\ outbound \intersect inbound' = {}
    <2>1. IsFiniteSet(inbound) /\ Cardinality(inbound) \in Nat
      BY FS_CardinalityType DEF SlotsSound
    <2>2. CASE BeginInbound(g)
      <3>1. /\ inbound' = inbound \union {g} /\ g \notin inbound /\ g \notin outbound
            /\ Cardinality(inbound) < InboundMax
        BY <2>2 DEF BeginInbound
      <3>2. IsFiniteSet(inbound') /\ Cardinality(inbound') = Cardinality(inbound) + 1
        BY <2>1, <3>1, FS_AddElement
      <3> QED BY <2>1, <3>1, <3>2, ManagerAssumption DEF SlotsSound, SlotsWithinLimits
    <2>3. CASE EstablishInbound(g)
      BY <2>3 DEF EstablishInbound, slots, SlotsSound, SlotsWithinLimits
    <2>4. CASE EndInbound(g)
      <3>1. inbound' = inbound \ {g}
        BY <2>4 DEF EndInbound
      <3>2. /\ IsFiniteSet(inbound') /\ Cardinality(inbound') \in Nat
            /\ Cardinality(inbound') <= Cardinality(inbound)
        BY <2>1, <3>1, FS_Subset, FS_CardinalityType
      <3> QED BY <2>1, <3>1, <3>2, ManagerAssumption DEF SlotsSound, SlotsWithinLimits
    <2> QED BY <2>2, <2>3, <2>4
  <1>5. SlotsSound'
    BY <1>1, <1>4 DEF SlotsSound, SlotsWithinLimits
  <1> QED BY <1>2, <1>3, <1>5 DEF Kept

\* Every step keeps the invariant.
LEMMA NextPeer == PeerInv /\ [Next]_vars => PeerInv'
  <1> SUFFICES ASSUME PeerInv, [Next]_vars PROVE PeerInv'
    OBVIOUS
  <1>1. rows \in Table /\ Bounded(rows)
    BY BoundedRows DEF PeerInv, TypeOK, Table
  <1>2. rows' \in Table /\ Bounded(rows')
    BY <1>1, NextTable DEF TableStep
  <1>3. SUFFICES TasksTyped' /\ Kept
    <2>1. TableBounded'
      BY <1>2, BoundedRowsPrimed
    <2>2. TypeOK'
      BY <1>2, <1>3 DEF Kept, TypeOK, TasksTyped, PassSound, Maintenance, Table
    <2> QED BY <1>3, <2>1, <2>2 DEF Kept, PeerInv
  <1>4. CASE Launch
    BY <1>4, LaunchStep
  <1>5. CASE Count \/ Select \/ Detect \/ Skip \/ Throttle \/ CatchUp
    BY <1>5, PassSteps
  <1>6. CASE Tick
    BY <1>6, TickStep
  <1>7. CASE Recover \/ UNCHANGED vars
    <2>1. /\ UNCHANGED <<slots, backoff, maint, tasks, allUnreachable, requests, history>>
          /\ permit' = FALSE \/ permit' = permit
      BY <1>7 DEF Recover, vars, signal
    <2>2. TasksTyped'
      BY <2>1 DEF PeerInv, TypeOK, TasksTyped, slots, tasks, history
    <2>3. PassSound' /\ SlotsSound' /\ BackoffSound' /\ (foundSelf \subseteq selfAddrs)'
      BY <2>1 DEF PeerInv, PassSound, SlotsSound, SlotsWithinLimits, BackoffSound, slots, tasks,
                  history
    <2> QED BY <2>2, <2>3 DEF Kept
  <1>8. ASSUME NEW a \in Addr, Establish(a) PROVE TasksTyped' /\ Kept
    <2>1. /\ dial[a] = "dialing" /\ dial' = [dial EXCEPT ![a] = "up"] /\ MarkReachable
          /\ UNCHANGED <<slots, backoff, maint, retiring, incoming, requests, history>>
      BY <1>8 DEF Establish
    <2>2. TasksTyped'
      BY <2>1 DEF PeerInv, TypeOK, TasksTyped, slots, history, MarkReachable
    <2>3. \A x \in Addr : dial'[x] # "none" <=> dial[x] # "none"
      BY <2>1 DEF PeerInv, TypeOK
    <2>4. PassSound' /\ SlotsSound' /\ BackoffSound' /\ (foundSelf \subseteq selfAddrs)'
      BY <2>1, <2>3 DEF PeerInv, PassSound, SlotsSound, SlotsWithinLimits, BackoffSound, slots,
                        history
    <2> QED BY <2>2, <2>4 DEF Kept
  <1>9. ASSUME NEW a \in Addr, DialFails(a) \/ Disconnect(a) PROVE TasksTyped' /\ Kept
    <2>1. /\ \E end \in {"closed", "failed"} : EndOutbound(a, end)
          /\ UNCHANGED <<selfAddrs, foundSelf>>
      BY <1>9 DEF DialFails, Disconnect
    <2>2. /\ selfAddrs \subseteq selfAddrs' /\ selfAddrs' \subseteq Addr
          /\ foundSelf' \subseteq selfAddrs' /\ foundSelf' \subseteq SelfAddr
      BY <2>1 DEF PeerInv, TypeOK
    <2> QED BY <2>1, <2>2, EndStep
  <1>10. ASSUME NEW a \in Addr, SelfConnect(a) PROVE TasksTyped' /\ Kept
    <2>1. EndOutbound(a, "failed")
      BY <1>10 DEF SelfConnect
    <2>2. /\ selfAddrs \subseteq selfAddrs' /\ selfAddrs' \subseteq Addr
          /\ foundSelf' \subseteq selfAddrs' /\ foundSelf' \subseteq SelfAddr
      BY <1>10 DEF SelfConnect, NoteSelfConnect, PeerInv, TypeOK
    <2> QED BY <2>1, <2>2, EndStep
  <1>11. ASSUME NEW a \in Addr, Retry(a) PROVE TasksTyped' /\ Kept
    BY <1>2, <1>11, RetryStep
  <1>12. ASSUME NEW a \in Addr, ReceivePeers(a) \/ Request(a) PROVE TasksTyped' /\ Kept
    <2>1. /\ UNCHANGED <<slots, backoff, maint, tasks, signal, history>>
          /\ requests' = requests \/ (requests < MaxRequest /\ requests' = requests + 1)
      BY <1>12 DEF ReceivePeers, Request
    <2>2. requests' \in 0..MaxRequest
      BY <2>1, ManagerAssumption DEF PeerInv, TypeOK
    <2>3. TasksTyped'
      BY <2>1, <2>2 DEF PeerInv, TypeOK, TasksTyped, slots, tasks, signal, history
    <2>4. PassSound' /\ SlotsSound' /\ BackoffSound' /\ (foundSelf \subseteq selfAddrs)'
      BY <2>1 DEF PeerInv, PassSound, SlotsSound, SlotsWithinLimits, BackoffSound, slots, tasks,
                  history
    <2> QED BY <2>3, <2>4 DEF Kept
  <1>13. ASSUME NEW g \in Caller, BeginInbound(g) \/ EstablishInbound(g) \/ EndInbound(g)
         PROVE  TasksTyped' /\ Kept
    BY <1>13, InboundSteps
  <1> QED
    BY <1>4, <1>5, <1>6, <1>7, <1>8, <1>9, <1>10, <1>11, <1>12, <1>13 DEF Next, Maintain

-----------------------------------------------------------------------------
(***************************************************************************)
(* The theorems.                                                           *)
(***************************************************************************)

\* The inductive invariant holds throughout, whatever the interleaving of the
\* maintenance pass, the connection tasks, the callers and the user.
THEOREM PeerInvariant == Spec => []PeerInv
  BY InitPeer, NextPeer, PTL DEF Spec

\* Outbound and inbound slots are never over-committed, no address is
\* connected both ways, and rows that the network brought in never push the
\* table over PEER_LIMIT.
THEOREM AlwaysWithinLimits == Spec => []WithinLimits
  <1>1. PeerInv => WithinLimits
    BY DEF PeerInv, WithinLimits, SlotsSound
  <1> QED BY <1>1, PeerInvariant, PTL

\* No connection to an address in back-off, but for those a pass dialled
\* between the release of the slot and the recording of the failure.
THEOREM NeverDialsInBackoff == Spec => []NoDialInBackoff
  <1>1. PeerInv => NoDialInBackoff
    BY DEF PeerInv, BackoffSound, NoDialInBackoff
  <1> QED BY <1>1, PeerInvariant, PTL

\* An address that a handshake showed to be this node is never dialled again.
THEOREM SelfNeverRedialed == Spec => SelfNotRedialed
  <1>1. PeerInv /\ [Next]_vars =>
           [\A a \in foundSelf : a \notin outbound => a \notin outbound']_vars
    <2> SUFFICES ASSUME PeerInv, Next, NEW a \in foundSelf, a \notin outbound,
                        a \in outbound'
                 PROVE  FALSE
      OBVIOUS
    <2>1. a \in selfAddrs
      BY DEF PeerInv
    <2>2. Launch
      BY DEF Next, Maintain, Count, Select, Detect, Skip, Throttle, Tick, CatchUp, Recover,
             Establish, DialFails, SelfConnect, Disconnect, EndOutbound, Retry, ReceivePeers,
             Request, BeginInbound, EstablishInbound, EndInbound, slots
    <2>3. a = Foremost.addr /\ Foremost.addr \notin selfAddrs
      BY <2>2 DEF Launch, Undialable
    <2> QED BY <2>1, <2>3
  <1> QED BY <1>1, PeerInvariant, PTL DEF Spec, SelfNotRedialed

\* Addresses brought in by PEX or by callers never push out a row the user
\* added or one whose peer has answered.
THEOREM ProvenRowsSpared == Spec => EvictionSparesProven
  <1>1. PeerInv /\ [Next]_vars =>
           [(\E a \in Addr : ReceivePeers(a)) \/ (\E g \in Caller : EstablishInbound(g)) =>
               \A a \in Registered :
                  rows[a].source = "manual" \/ rows[a].verified => rows'[a] # NoRow]_vars
    <2>1. PeerInv => rows \in Table /\ Bounded(rows)
      BY BoundedRows DEF PeerInv, TypeOK, Table
    <2> QED BY <2>1, NetworkSpares
  <1> QED BY <1>1, PeerInvariant, PTL DEF Spec, EvictionSparesProven

\* A row becomes verified only in the step that completes this node's own
\* outbound handshake with its address.
THEOREM VerifiedOnlyByDialing == Spec => VerifiedByDialing
  <1>1. PeerInv /\ [Next]_vars =>
           [\A a \in Addr :
               rows'[a] # NoRow /\ rows'[a].verified =>
                  (a \in Registered /\ rows[a].verified) \/ Establish(a)]_vars
    <2>1. PeerInv => rows \in Table /\ Bounded(rows)
      BY BoundedRows DEF PeerInv, TypeOK, Table
    <2> QED BY <2>1, NextTable DEF TableStep
  <1> QED BY <1>1, PeerInvariant, PTL DEF Spec, VerifiedByDialing
=============================================================================
