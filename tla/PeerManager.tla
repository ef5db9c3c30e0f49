---------------------------- MODULE PeerManager -----------------------------
(***************************************************************************)
(* The peer manager (src/p2p/peers.rs) and the tasks of the runtime that   *)
(* use it (src/p2p/runtime.rs): the maintenance of outbound connections,   *)
(* one task per connection in either direction, the requests of the web    *)
(* interface (src/web/peers.rs) and the listener of the recovery signal.   *)
(*                                                                         *)
(* A step is a critical section on the manager's mutex, on the store or on *)
(* the hub, or a few that follow each other at once; where a value is read *)
(* in one and relied on much later, they are apart.  Time is counted in    *)
(* maintenance intervals; back-off is what is left of it.                  *)
(***************************************************************************)
EXTENDS PeerTable, Sequences
LOCAL INSTANCE SequencesExt
LOCAL INSTANCE FiniteSetsExt

CONSTANTS
    SelfAddr,          \* addresses that lead back to this node
    Caller,            \* addresses inbound connections come from
    Listen,            \* the address a caller says it listens at
    OutboundTarget, InboundMax, DemoteThreshold,   \* PeerManagerConfig
    BackoffInitial, BackoffFactor, BackoffCap,     \* in maintenance intervals
    MaxRequest         \* bound on the requests of the user

ASSUME ManagerAssumption ==
    /\ SelfAddr \subseteq Addr
    /\ Listen \in [Caller -> Addr]
    /\ OutboundTarget \in Nat /\ InboundMax \in Nat /\ DemoteThreshold \in Nat
    /\ BackoffInitial \in Nat \ {0} /\ BackoffFactor \in Nat \ {0}
    /\ BackoffCap \in Nat /\ BackoffInitial <= BackoffCap
    /\ MaxRequest \in Nat
    \* Beyond MaxFail neither demotion nor back-off tells failures apart.
    /\ DemoteThreshold <= MaxFail
    /\ BackoffInitial * BackoffFactor ^ (MaxFail - 1) >= BackoffCap

\* What the provers do not know of exponentiation.
ASSUME PowerAssumption == \A n \in 0..MaxFail : BackoffFactor ^ n \in Nat

VARIABLES
    selfAddrs,        \* Inner.self_addrs
    outbound,         \* Inner.outbound
    inbound,          \* Inner.inbound
    dialedNew,        \* last_new_dial lies within the throttle interval
    backoff,          \* what is left of the back-off of each address
    maint,            \* maintain_outbound: where it is and what it has read
    dial,             \* handle_outbound_conn, per address
    retiring,         \* a task that gave its slot back and has to record its end
    incoming,         \* handle_inbound, per caller
    allUnreachable,   \* ReachabilityState.all_unreachable
    permit,           \* ReachabilityState.recovered holds a permit
    requests          \* requests of the user so far

\* History, read by the properties only.
VARIABLES
    foundSelf,        \* addresses found to be this node
    overtaken         \* connections dialled while an older task was retiring

slots == <<selfAddrs, outbound, inbound, dialedNew>>
tasks == <<dial, retiring, incoming>>
signal == <<allUnreachable, permit>>
history == <<foundSelf, overtaken>>
vars == <<rows, slots, backoff, maint, tasks, signal, requests, history>>

Idle == [pc |-> "idle", up |-> FALSE, list |-> <<>>, room |-> 0]

Candidate == [addr : Addr, verified : BOOLEAN]

TypeOK ==
    /\ rows \in [Addr -> Row \union {NoRow}]
    /\ selfAddrs \subseteq Addr /\ outbound \subseteq Addr /\ inbound \subseteq Caller
    /\ dialedNew \in BOOLEAN
    /\ backoff \in [Addr -> 0..BackoffCap]
    /\ maint.pc \in {"idle", "due", "counted", "selected", "launching"}
    /\ maint.up \in BOOLEAN /\ maint.room \in 0..OutboundTarget
    /\ maint.list \in Seq(Candidate)
    /\ dial \in [Addr -> {"none", "dialing", "up"}]
    /\ retiring \in [Addr -> {"none", "closed", "failed"}]
    /\ incoming \in [Caller -> {"none", "shaking", "up"}]
    /\ allUnreachable \in BOOLEAN /\ permit \in BOOLEAN
    /\ requests \in 0..MaxRequest
    /\ foundSelf \subseteq SelfAddr /\ overtaken \subseteq Addr

Init ==
    /\ TableInit
    /\ \A a \in SelfAddr \intersect Registered : ~rows[a].verified
    /\ selfAddrs = {} /\ outbound = {} /\ inbound = {}
    /\ dialedNew = FALSE
    /\ backoff = [a \in Addr |-> 0]
    /\ maint = [Idle EXCEPT !.pc = "due"]
    /\ dial = [a \in Addr |-> "none"]
    /\ retiring = [a \in Addr |-> "none"]
    /\ incoming = [g \in Caller |-> "none"]
    /\ allUnreachable = FALSE /\ permit = FALSE
    /\ requests = 0
    /\ foundSelf = {} /\ overtaken = {}

-----------------------------------------------------------------------------
\* hub.established_counts
Established == {a \in Addr : dial[a] = "up"} \union {g \in Caller : incoming[g] = "up"}

MarkReachable ==
    /\ allUnreachable' = FALSE
    /\ permit' = (permit \/ allUnreachable)

BackoffDelay(n) ==
    IF n = 0 THEN 0 ELSE Min({BackoffCap, BackoffInitial * BackoffFactor ^ (n - 1)})

\* cmp_base, under the demotion of the Normal mode: whether a must come first.
Demoted(a) == rows[a].fails >= DemoteThreshold

Precedes(a, b, normal) ==
    LET manual(x) == rows[x].source = "manual" IN
    IF normal /\ Demoted(a) # Demoted(b) THEN Demoted(b)
    ELSE IF manual(a) # manual(b) THEN manual(a)
    ELSE IF rows[a].verified # rows[b].verified THEN rows[a].verified
    ELSE ~rows[a].verified /\ rows[a].fails < rows[b].fails

\* Mutant: the Normal mode leaves demoted peers out, and so does the other.
MutEligible(a) ==
    a \in Registered /\ rows[a].enabled /\ a \notin selfAddrs /\ ~Demoted(a)

Eligible(a) == a \in Registered /\ rows[a].enabled /\ a \notin selfAddrs

\* The orders in which candidates() may return them.
CandidateLists(normal) ==
    {[i \in DOMAIN s |-> [addr |-> s[i], verified |-> rows[s[i]].verified]] :
        s \in {t \in SetToSeqs({a \in Addr : Eligible(a)
                                             /\ a \notin outbound \union inbound}) :
                 \A i, j \in DOMAIN t : i < j => ~Precedes(t[j], t[i], normal)}}

-----------------------------------------------------------------------------
\* maintain_outbound, once per interval.

\* Mutant: the count is only read.
MutCount ==
    /\ maint.pc = "due"
    /\ maint' = [maint EXCEPT !.pc = "counted", !.up = Established # {}]
    /\ UNCHANGED <<rows, slots, backoff, tasks, signal, requests, history>>

Count ==
    /\ maint.pc = "due"
    /\ maint' = [maint EXCEPT !.pc = "counted", !.up = Established # {}]
    /\ IF Established # {} THEN MarkReachable ELSE UNCHANGED signal
    /\ UNCHANGED <<rows, slots, backoff, tasks, requests, history>>

\* The deficit and the candidates.
Select ==
    /\ maint.pc = "counted"
    /\ LET deficit == IF Cardinality(outbound) < OutboundTarget
                      THEN OutboundTarget - Cardinality(outbound) ELSE 0
       IN \E list \in CandidateLists(maint.up) :
             maint' = IF deficit = 0 \/ list = <<>> THEN Idle
                      ELSE [maint EXCEPT !.pc = "selected", !.list = list, !.room = deficit]
    /\ UNCHANGED <<rows, slots, backoff, tasks, signal, requests, history>>

\* Nobody is connected or being dialled and every candidate is backing off.
\* maint.up is what Count read; a connection may have come up since.
Detect ==
    /\ maint.pc = "selected"
    /\ maint' = [maint EXCEPT !.pc = "launching", !.up = FALSE]
    /\ allUnreachable' =
          (allUnreachable \/ (/\ ~maint.up /\ outbound = {}
                              /\ \A i \in DOMAIN maint.list :
                                    backoff[maint.list[i].addr] > 0))
    /\ UNCHANGED <<rows, slots, backoff, tasks, permit, requests, history>>

Foremost == Head(maint.list)

\* The loop goes on with the next candidate while the deficit lasts.
Continue(room) ==
    maint' = IF room = 0 \/ Len(maint.list) = 1 THEN Idle
             ELSE [maint EXCEPT !.list = Tail(@), !.room = room]

\* Mutant: the back-off of a candidate is not looked at.
MutUndialable(a) == a \in selfAddrs \/ a \in outbound \union inbound

Undialable(a) ==
    backoff[a] > 0 \/ a \in selfAddrs \/ a \in outbound \union inbound

Throttled(c) == ~c.verified /\ dialedNew

\* Mutant: connections launched in this pass are not counted.
MutRoomAfter == maint.room

RoomAfter == maint.room - 1

Launch ==
    /\ maint.pc = "launching" /\ ~Undialable(Foremost.addr) /\ ~Throttled(Foremost)
    /\ LET a == Foremost.addr IN
         /\ outbound' = outbound \union {a}
         /\ dialedNew' = (dialedNew \/ ~Foremost.verified)
         /\ dial' = [dial EXCEPT ![a] = "dialing"]
         /\ overtaken' = IF retiring[a] # "none" THEN overtaken \union {a} ELSE overtaken
    /\ Continue(RoomAfter)
    /\ UNCHANGED <<rows, selfAddrs, inbound, backoff, retiring, incoming, signal,
                   requests, foundSelf>>

Skip ==
    /\ maint.pc = "launching" /\ Undialable(Foremost.addr)
    /\ Continue(maint.room)
    /\ UNCHANGED <<rows, slots, backoff, tasks, signal, requests, history>>

\* A throttled candidate ends the pass.
Throttle ==
    /\ maint.pc = "launching" /\ ~Undialable(Foremost.addr) /\ Throttled(Foremost)
    /\ maint' = Idle
    /\ UNCHANGED <<rows, slots, backoff, tasks, signal, requests, history>>

\* An interval passes.  It is longer than the throttle of unverified dials.
Tick ==
    /\ maint.pc = "idle"
    /\ maint' = [Idle EXCEPT !.pc = "due"]
    /\ dialedNew' = FALSE
    /\ backoff' = [a \in Addr |-> IF backoff[a] > 0 THEN backoff[a] - 1 ELSE 0]
    /\ UNCHANGED <<rows, selfAddrs, outbound, inbound, tasks, signal, requests, history>>

\* tokio's interval makes up for ticks it missed: a pass that follows at once.
CatchUp ==
    /\ maint.pc = "idle"
    /\ maint' = [Idle EXCEPT !.pc = "due"]
    /\ UNCHANGED <<rows, slots, backoff, tasks, signal, requests, history>>

-----------------------------------------------------------------------------
\* handle_outbound_conn and pump.

\* The handshake completes: the connection is registered with the hub, then
\* on_established.
Establish(a) ==
    /\ dial[a] = "dialing" /\ a \notin SelfAddr
    /\ dial' = [dial EXCEPT ![a] = "up"]
    /\ MarkReachable
    /\ rows' = RecordPeerSuccess(a)
    /\ UNCHANGED <<slots, backoff, maint, retiring, incoming, requests, history>>

\* The connection leaves the hub and end_outbound() frees its slot; the end
\* is recorded later.  One task per address is between the two at a time (a
\* bound).
EndOutbound(a, end) ==
    /\ retiring[a] = "none"
    /\ outbound' = outbound \ {a}
    /\ dial' = [dial EXCEPT ![a] = "none"]
    /\ retiring' = [retiring EXCEPT ![a] = end]
    /\ overtaken' = overtaken \ {a}
    /\ UNCHANGED <<inbound, dialedNew, backoff, maint, incoming, signal, requests>>

\* connect() fails or times out, HELLO cannot be sent, or the handshake fails.
DialFails(a) ==
    /\ dial[a] = "dialing"
    /\ EndOutbound(a, "failed")
    /\ UNCHANGED <<rows, selfAddrs, foundSelf>>

\* Mutant: the row is deleted and the address forgotten.
MutNoteSelfConnect(a) == rows' = DeletePeer(a) /\ selfAddrs' = selfAddrs

NoteSelfConnect(a) == rows' = DeletePeer(a) /\ selfAddrs' = selfAddrs \union {a}

\* The handshake shows that the peer is this node.
SelfConnect(a) ==
    /\ dial[a] = "dialing" /\ a \in SelfAddr
    /\ NoteSelfConnect(a)
    /\ EndOutbound(a, "failed")
    /\ foundSelf' = foundSelf \union {a}

\* An established connection ends: closed by the peer, or lost.
Disconnect(a) ==
    /\ dial[a] = "up"
    /\ \E end \in {"closed", "failed"} : EndOutbound(a, end)
    /\ UNCHANGED <<rows, selfAddrs, foundSelf>>

\* failure_backoff for a connection that did not end cleanly, schedule_retry.
Retry(a) ==
    /\ retiring[a] # "none"
    /\ rows' = IF retiring[a] = "failed" THEN RecordPeerFailure(a) ELSE rows
    /\ backoff' = [backoff EXCEPT ![a] =
                     IF retiring[a] = "failed" /\ a \in Registered
                     THEN BackoffDelay(rows'[a].fails) ELSE BackoffInitial]
    /\ retiring' = [retiring EXCEPT ![a] = "none"]
    /\ UNCHANGED <<slots, maint, dial, incoming, signal, requests, history>>

-----------------------------------------------------------------------------
\* handle_inbound and what a peer sends.

\* begin_inbound; a connection it refuses is closed and leaves no trace.
BeginInbound(g) ==
    /\ incoming[g] = "none"
    /\ g \notin inbound \union outbound /\ Cardinality(inbound) < InboundMax
    /\ inbound' = inbound \union {g}
    /\ incoming' = [incoming EXCEPT ![g] = "shaking"]
    /\ UNCHANGED <<rows, selfAddrs, outbound, dialedNew, backoff, maint, dial, retiring,
                   signal, requests, history>>

\* add_peer
AddPeer(a, source) ==
    IF a \in selfAddrs THEN rows' = rows ELSE rows' \in Upserted(a, source)

\* register_inbound_candidate.  A caller may not listen, and PEX may be off.
RegisterInbound(g) == AddPeer(Listen[g], "pex") \/ rows' = rows

\* Mutant: an inbound connection counts as proof that the address answers.
MutEstablishInbound(g) ==
    /\ incoming[g] = "shaking"
    /\ incoming' = [incoming EXCEPT ![g] = "up"]
    /\ MarkReachable
    /\ rows' = RecordPeerSuccess(Listen[g])
    /\ UNCHANGED <<slots, backoff, maint, dial, retiring, requests, history>>

EstablishInbound(g) ==
    /\ incoming[g] = "shaking"
    /\ incoming' = [incoming EXCEPT ![g] = "up"]
    /\ MarkReachable
    /\ RegisterInbound(g)
    /\ UNCHANGED <<slots, backoff, maint, dial, retiring, requests, history>>

EndInbound(g) ==
    /\ incoming[g] # "none"
    /\ incoming' = [incoming EXCEPT ![g] = "none"]
    /\ inbound' = inbound \ {g}
    /\ UNCHANGED <<rows, selfAddrs, outbound, dialedNew, backoff, maint, dial, retiring,
                   signal, requests, history>>

\* A PEERS message names the address a.
ReceivePeers(a) ==
    /\ Established # {} /\ a \notin selfAddrs
    /\ AddPeer(a, "pex")
    /\ UNCHANGED <<slots, backoff, maint, tasks, signal, requests, history>>

-----------------------------------------------------------------------------
\* The requests of the user.  They go to the store and not through the
\* manager: add_peer's refusal of self addresses does not apply.
Request(a) ==
    /\ requests < MaxRequest
    /\ requests' = requests + 1
    /\ \/ rows' \in Upserted(a, "manual")
       \/ \E enabled \in BOOLEAN : rows' = SetPeerEnabled(a, enabled)
       \/ rows' = DeletePeer(a)
    /\ UNCHANGED <<slots, backoff, maint, tasks, signal, history>>

\* The recovery task of main.rs wakes up and publishes the announced channels.
Recover ==
    /\ permit
    /\ permit' = FALSE
    /\ UNCHANGED <<rows, slots, backoff, maint, tasks, allUnreachable, requests, history>>

Maintain == Count \/ Select \/ Detect \/ Launch \/ Skip \/ Throttle

Next ==
    \/ Maintain \/ Tick \/ CatchUp \/ Recover
    \/ \E a \in Addr : \/ Establish(a) \/ DialFails(a) \/ SelfConnect(a)
                       \/ Disconnect(a) \/ Retry(a)
                       \/ ReceivePeers(a) \/ Request(a)
    \/ \E g \in Caller : BeginInbound(g) \/ EstablishInbound(g) \/ EndInbound(g)

Spec == Init /\ [][Next]_vars

\* A pass runs to its end, and time goes on however often the timer catches
\* up.
Fairness == WF_vars(Maintain) /\ SF_vars(Tick)

FairSpec == Spec /\ Fairness

-----------------------------------------------------------------------------
\* Slots are never over-committed, although the deficit is read long before
\* the last connection is launched, and no address is connected both ways.
SlotsWithinLimits ==
    /\ Cardinality(outbound) <= OutboundTarget
    /\ Cardinality(inbound) <= InboundMax
    /\ outbound \intersect inbound = {}

\* Slots and rows stay within their limits.
WithinLimits == TypeOK /\ SlotsWithinLimits /\ TableBounded

\* Once a handshake has shown an address to be this node it is never dialled
\* again, although the user may register it again past add_peer's refusal and
\* a candidate list read earlier may still name it.
SelfNotRedialed ==
    [][\A a \in foundSelf : a \notin outbound => a \notin outbound']_vars

\* Addresses brought in by the network never push out a row the user added
\* or one whose peer has answered.
EvictionSparesProven ==
    [][(\E a \in Addr : ReceivePeers(a)) \/ (\E g \in Caller : EstablishInbound(g)) =>
          \A a \in Registered :
              rows[a].source = "manual" \/ rows[a].verified => rows'[a] # NoRow]_vars

\* verified, which PEX shares with others, appears in a row only in the step
\* that completes this node's own outbound handshake (record_peer_success:
\* never for a peer that only connected to us), also when rows are evicted,
\* deleted and registered again while their connection is up.
VerifiedByDialing ==
    [][\A a \in Addr :
          rows'[a] # NoRow /\ rows'[a].verified =>
              (a \in Registered /\ rows[a].verified) \/ Establish(a)]_vars

\* An address is not dialled, let alone connected, while its back-off runs,
\* unless a maintenance pass dialled it between the release of the slot and
\* the recording of the failure.
NoDialInBackoff == \A a \in outbound : backoff[a] = 0 \/ a \in overtaken

\* However often its peers failed, a node without a connection keeps dialling
\* (demotion, back-off and the throttle never make a peer unreachable for
\* good).
Usable == {a \in Registered : rows[a].enabled /\ a \notin selfAddrs}

KeepsTrying ==
    (Established = {} /\ Usable # {})
        ~> (Established # {} \/ Usable = {} \/ \E a \in Addr : dial[a] = "dialing")

\* The recovery signal is not lost: when all_unreachable is set while a
\* connection is up (it came up after the maintenance had counted none), the
\* listener is woken, or the connection has gone again.
RecoveryNoticed == (allUnreachable /\ Established # {}) ~> (permit \/ Established = {})
=============================================================================
