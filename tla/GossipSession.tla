--------------------------- MODULE GossipSession ----------------------------
(***************************************************************************)
(* One gossip connection: the sessions at its two ends (src/p2p/session.rs)*)
(* and the task that drives each of them, P2pRuntime::pump                 *)
(* (src/p2p/runtime.rs).  Handshake, reception rate, keepalive, the paced  *)
(* answer to SYNC_REQ and its count (src/p2p/sync.rs), EVENTs of the hub,  *)
(* and every way a connection ends.                                        *)
(* Time is explicit: timers fire when they are due, and a message takes at *)
(* most MaxDelay unless the network is cut.                                *)
(***************************************************************************)
EXTENDS Integers, Sequences

CONSTANTS
    Interval,    \* KEEPALIVE_INTERVAL_SECS
    Timeout,     \* KEEPALIVE_TIMEOUT_SECS
    TickEvery,   \* KEEPALIVE_TICK
    Second,      \* units of time in a second
    MaxMsgs,     \* DEFAULT_MAX_MSGS_PER_SEC
    MaxBytes,    \* DEFAULT_MAX_BYTES_PER_SEC
    SafeMsgs,    \* SYNC_SAFE_MSGS_PER_SEC
    SafeBytes,   \* SYNC_SAFE_BYTES_PER_SEC
    Size,        \* wire_len of each kind of message
    Backlog,     \* events each end answers a SYNC_REQ with
    StoreMax,    \* event_store_max of each end
    News,        \* bound on the EVENTs the hub hands to each end
    MaxDelay,    \* a message on its way
    MaxClock     \* bound on the clock

End == {"out", "in"}                       \* Direction
Other(e) == IF e = "out" THEN "in" ELSE "out"

Kind == {"hello", "hello_ack", "sync_req", "event", "sync_done", "get_peers", "peers",
         "ping", "pong", "close", "eof", "reset"}

\* A frame is never longer than what may arrive in a second, and a node answers
\* with no more events than its store holds.
ASSUME SessionAssumption ==
    /\ Interval \in Nat \ {0} /\ Timeout \in Nat \ {0}
    /\ TickEvery \in Nat \ {0} /\ Second \in Nat \ {0}
    /\ MaxMsgs \in Nat \ {0} /\ SafeMsgs \in Nat \ {0}
    /\ MaxBytes \in Nat /\ SafeBytes \in Nat
    /\ Size \in [Kind -> 0..MaxBytes]
    /\ StoreMax \in [End -> Nat] /\ Backlog \in [End -> Nat]
    /\ \A e \in End : Backlog[e] <= StoreMax[e]
    /\ News \in [End -> Nat]
    /\ MaxDelay \in Nat /\ MaxClock \in Nat

VARIABLES
    now,
    hello,      \* what each end says of itself: its nonce and version
    session,    \* state, rate window, SYNC counter and keepalive of each end
    wire,       \* what is on its way to each end, in order
    stream,     \* the answer to SYNC_REQ an end still has to send
    news,       \* how many EVENTs of the hub an end may still send
    self,       \* note_self_connect was called
    cut,        \* the network drops everything
    unread,     \* ends whose peer reset the connection
    lost        \* a reset overtook something not yet read

vars == <<now, hello, session, wire, stream, news, self, cut, unread, lost>>

Reason == {"none", "incompatible", "self_connect", "going_away",
           "invalid_frame", "rate_limited"}

TypeOK ==
    /\ now \in 0..MaxClock
    /\ hello \in [End -> [nonce : 1..2, version : 1..2]]
    /\ session \in [End ->
          [state : {"Connecting", "HelloSent", "Established", "Closed"},
           established : BOOLEAN,
           end : {"open", "HandshakeFailed", "ClosedCleanly", "Dropped",
                  "Crashed"},
           reason : Reason,          \* the CLOSE this end sent
           timeout : BOOLEAN,        \* ended by the keepalive
           start : Int, msgs : Nat, bytes : Nat,  \* RateLimiter
           pending : BOOLEAN, received : Nat,     \* SyncCounter
           recv : Nat, ping : Nat, poll : Nat]]
    /\ \A e \in End : \A i \in DOMAIN wire[e] : wire[e][i].kind \in Kind
    /\ stream \in [End -> [left : Nat, start : Nat, msgs : Nat, bytes : Nat, on : BOOLEAN]]
    /\ news \in [End -> Nat]
    /\ self \in BOOLEAN /\ cut \in BOOLEAN
    /\ unread \subseteq End /\ lost \in BOOLEAN

Message(kind) == [kind |-> kind, at |-> now]
Greeting(kind, e) == [kind |-> kind, at |-> now, hello |-> hello[e]]
Close(reason) == [kind |-> "close", at |-> now, reason |-> reason]

\* A new session, its rate window not begun, its keepalive at the present.
NewSession(state) ==
    [state |-> state, established |-> FALSE, end |-> "open", reason |-> "none",
     timeout |-> FALSE, start |-> -Second, msgs |-> 0, bytes |-> 0,
     pending |-> FALSE, received |-> 0, recv |-> 0, ping |-> 0, poll |-> TickEvery]

\* The connection stands: the outbound end has written its HELLO.  A node that
\* dialled its own address has the same nonce at both ends.
Init ==
    /\ now = 0
    /\ hello \in [End -> [nonce : 1..2, version : 1..2]]
    /\ hello["out"].nonce = hello["in"].nonce => hello["out"] = hello["in"]
    /\ session = [e \in End |-> NewSession(IF e = "out" THEN "HelloSent" ELSE "Connecting")]
    /\ wire = [e \in End |-> IF e = "in" THEN <<Greeting("hello", "out")>> ELSE <<>>]
    /\ stream = [e \in End |-> [left |-> 0, start |-> 0, msgs |-> 0, bytes |-> 0, on |-> FALSE]]
    /\ news = News
    /\ self = FALSE
    /\ cut = FALSE
    /\ unread = {}
    /\ lost = FALSE

-----------------------------------------------------------------------------
Open(e) == session[e].end = "open"

\* Writes to the socket of the other end.  One that has closed drops them and
\* answers with a reset; a network that is cut drops them silently.
Write(e, s) ==
    IF cut \/ ~Open(Other(e)) THEN wire ELSE [wire EXCEPT ![Other(e)] = @ \o s]

\* ... and the reset costs the writer what it has not read yet.
Written(e, s) ==
    unread' = IF s # <<>> /\ ~cut /\ ~Open(Other(e)) THEN unread \union {e} ELSE unread

\* What is left of pump() when it stops: the reason sent as CLOSE if any, the
\* socket closed, and the PumpEnd.  Closing over unread bytes resets.
Stop(e, s, clean, reason, rest) ==
    LET final == (IF reason = "none" THEN <<>> ELSE <<Close(reason)>>) \o <<Message("eof")>>
    IN  /\ session' = [session EXCEPT ![e] =
              [s EXCEPT !.state = "Closed", !.reason = reason,
                        !.end = IF ~s.established THEN "HandshakeFailed"
                                ELSE IF clean THEN "ClosedCleanly" ELSE "Dropped"]]
        /\ wire' = [Write(e, final) EXCEPT ![e] = <<>>]
        /\ unread' = IF rest # <<>> THEN unread \union {Other(e)} ELSE unread
        /\ stream' = [stream EXCEPT ![e] = [@ EXCEPT !.left = 0, !.on = FALSE]]
        /\ UNCHANGED <<now, hello, news, cut, lost>>

\* It goes on with session s, having read the head of its wire and written w.
GoOn(e, s, w) ==
    /\ session' = [session EXCEPT ![e] = s]
    /\ wire' = [Write(e, w) EXCEPT ![e] = Tail(@)]
    /\ Written(e, w)
    /\ UNCHANGED <<now, hello, stream, news, self, cut, lost>>

-----------------------------------------------------------------------------
\* RateLimiter::charge of a frame of n bytes: a window of one second from the
\* first frame in it ...
Charge(s, n) ==
    IF now - s.start >= Second THEN [s EXCEPT !.start = now, !.msgs = 1, !.bytes = n]
                               ELSE [s EXCEPT !.msgs = @ + 1, !.bytes = @ + n]

\* ... that admits so many messages and so many bytes.
Limited(s) == s.msgs > MaxMsgs \/ s.bytes > MaxBytes

\* accept_peer_hello: the reason to refuse the HELLO, or none.
Accepts(e, h) ==
    IF h.version # hello[e].version THEN "incompatible"
    ELSE IF h.nonce = hello[e].nonce THEN "self_connect"
    ELSE "none"

\* Mutant: SYNC_REQ and GET_PEERS are written before the HELLO_ACK.
MutGreet(e, s, m) ==
    LET expected == m.kind = (IF e = "in" THEN "hello" ELSE "hello_ack")
        verdict == IF s.state = "Established" \/ ~expected THEN "invalid_frame"
                   ELSE Accepts(e, m.hello)
    IN  IF verdict = "none"
        THEN GoOn(e, [s EXCEPT !.state = "Established", !.established = TRUE,
                               !.pending = TRUE, !.received = 0],
                  <<Message("sync_req"), Message("get_peers")>>
                      \o (IF e = "in" THEN <<Greeting("hello_ack", e)>> ELSE <<>>))
        ELSE /\ Stop(e, s, FALSE, verdict, Tail(wire[e]))
             /\ self' = (self \/ (e = "out" /\ verdict = "self_connect"))

\* on_frame of a HELLO or a HELLO_ACK: an answer only the right way round and
\* only before the session is established; SYNC_REQ, whose EVENTs are counted
\* from now on, and GET_PEERS follow at once.
Greet(e, s, m) ==
    LET expected == m.kind = (IF e = "in" THEN "hello" ELSE "hello_ack")
        verdict == IF s.state = "Established" \/ ~expected THEN "invalid_frame"
                   ELSE Accepts(e, m.hello)
    IN  IF verdict = "none"
        THEN GoOn(e, [s EXCEPT !.state = "Established", !.established = TRUE,
                               !.pending = TRUE, !.received = 0],
                  (IF e = "in" THEN <<Greeting("hello_ack", e)>> ELSE <<>>)
                      \o <<Message("sync_req"), Message("get_peers")>>)
        ELSE /\ Stop(e, s, FALSE, verdict, Tail(wire[e]))
             /\ self' = (self \/ (e = "out" /\ verdict = "self_connect"))

\* SyncCounter::on_event and on_done: the EVENTs until SYNC_DONE are counted,
\* those of the hub too.
Counted(s, m) ==
    CASE m.kind = "event" /\ s.pending -> [s EXCEPT !.received = @ + 1]
      [] m.kind = "sync_done" -> [s EXCEPT !.pending = FALSE]
      [] OTHER -> s

\* More EVENTs than a store holds.
SyncExceeded(e, s) == s.received > StoreMax[e]

\* handle_deliver: too many EVENTs before SYNC_DONE end the session without a
\* CLOSE, SYNC_REQ starts the answering task unless one is running, PING and
\* GET_PEERS are answered, the rest is for the hub and the peer table.
Deliver(e, s, m) ==
    IF m.kind = "event" /\ SyncExceeded(e, Counted(s, m))
    THEN Stop(e, Counted(s, m), FALSE, "none", Tail(wire[e])) /\ UNCHANGED self
    ELSE IF m.kind = "sync_req" /\ ~stream[e].on
    THEN /\ stream' = [stream EXCEPT ![e] =
                [left |-> Backlog[e], start |-> now, msgs |-> 0, bytes |-> 0, on |-> TRUE]]
         /\ session' = [session EXCEPT ![e] = s]
         /\ wire' = [wire EXCEPT ![e] = Tail(@)]
         /\ UNCHANGED <<now, hello, news, self, cut, unread, lost>>
    ELSE GoOn(e, Counted(s, m), CASE m.kind = "ping" -> <<Message("pong")>>
                                [] m.kind = "get_peers" -> <<Message("peers")>>
                                [] OTHER -> <<>>)

\* Mutant: an outbound end takes a refusal for a failure like any other.
MutPeerClosed(e, s, m) ==
    /\ Stop(e, s, s.established, "none", Tail(wire[e]))
    /\ UNCHANGED self

\* The peer's CLOSE, in any state: clean once established; before that
\* "self_connect" tells the dialling end that the address is its own.
PeerClosed(e, s, m) ==
    /\ Stop(e, s, s.established, "none", Tail(wire[e]))
    /\ self' = (self \/ (e = "out" /\ ~s.established /\ m.reason = "self_connect"))

\* Mutant: the end of the stream is passed over.
MutEndOfStream(e) == GoOn(e, session[e], <<>>)

\* The peer closed the socket: clean once established.
EndOfStream(e) ==
    /\ Stop(e, session[e], session[e].established, "none", <<>>)
    /\ UNCHANGED self

\* The read branch of pump(): whatever arrives is a sign of life, is charged,
\* and then handled by state and kind.
Receive(e) ==
    LET m == Head(wire[e])
        s == Charge([session[e] EXCEPT !.recv = now], Size[m.kind])
    IN  /\ Open(e) /\ ~cut
        /\ wire[e] # <<>>
        /\ CASE m.kind = "eof" -> EndOfStream(e)
             [] m.kind = "reset" ->
                  Stop(e, session[e], FALSE, "none", <<>>) /\ UNCHANGED self
             [] m.kind \notin {"eof", "reset"} /\ Limited(s) ->
                  Stop(e, s, FALSE, "rate_limited", Tail(wire[e])) /\ UNCHANGED self
             [] m.kind \in {"hello", "hello_ack"} /\ ~Limited(s) -> Greet(e, s, m)
             [] m.kind = "close" /\ ~Limited(s) -> PeerClosed(e, s, m)
             [] OTHER -> IF s.state = "Established" THEN Deliver(e, s, m)
                         ELSE /\ Stop(e, s, FALSE, "invalid_frame", Tail(wire[e]))
                              /\ UNCHANGED self

\* handle_inbound at capacity, or for an address already connected: CLOSE
\* without reading anything.
RefuseInbound ==
    /\ now = 0
    /\ Open("in") /\ session["in"].state = "Connecting"
    /\ Stop("in", session["in"], FALSE, "going_away", wire["in"])
    /\ UNCHANGED self

\* Closing over unread bytes costs the peer what it had not read yet.
Reset(e) ==
    /\ e \in unread /\ Open(e) /\ ~cut
    /\ \A i \in DOMAIN wire[e] : wire[e][i].kind # "reset"
    /\ wire' = [wire EXCEPT ![e] = <<Message("reset")>>]
    /\ unread' = unread \ {e}
    /\ lost' = TRUE
    /\ UNCHANGED <<now, hello, session, stream, news, self, cut>>

-----------------------------------------------------------------------------
\* Mutant: the interval of the PINGs is taken for the timeout.
MutTimedOut(s) == now - s.recv >= Interval

\* Keepalive::poll, the case Timeout: looked at before anything else.
TimedOut(s) == now - s.recv >= Timeout

\* The keepalive branch of pump(): the time of the last PING is set before it
\* is asked whether the session is established and a PING may be sent.
Poll(e) ==
    LET s == [session[e] EXCEPT !.poll = now + TickEvery]
        due == now - s.ping >= Interval
        ping == IF due /\ s.established THEN <<Message("ping")>> ELSE <<>>
    IN  /\ Open(e)
        /\ now = session[e].poll
        /\ IF TimedOut(s)
           THEN Stop(e, [s EXCEPT !.timeout = TRUE], FALSE, "going_away", wire[e])
                    /\ UNCHANGED self
           ELSE /\ session' = [session EXCEPT ![e] = IF due THEN [s EXCEPT !.ping = now] ELSE s]
                /\ wire' = Write(e, ping)
                /\ Written(e, ping)
                /\ UNCHANGED <<now, hello, stream, news, self, cut, lost>>

\* stream_sync_response may send another event: the window has room for it, or
\* a second has passed and a new one begins.
Room(t) == t.msgs + 1 <= SafeMsgs /\ t.bytes + Size["event"] <= SafeBytes
CanSend(t) == Room(t) \/ now - t.start >= Second

NextWindow(t) ==
    IF Room(t)
    THEN [t EXCEPT !.msgs = @ + 1, !.bytes = @ + Size["event"], !.left = @ - 1]
    ELSE [t EXCEPT !.start = now, !.msgs = 1, !.bytes = Size["event"], !.left = @ - 1]

Stream(e) ==
    /\ Open(e) /\ stream[e].on
    /\ IF stream[e].left = 0
       THEN stream' = [stream EXCEPT ![e].on = FALSE]
       ELSE CanSend(stream[e]) /\ stream' = [stream EXCEPT ![e] = NextWindow(@)]
    /\ LET m == <<Message(IF stream[e].left = 0 THEN "sync_done" ELSE "event")>>
       IN  wire' = Write(e, m) /\ Written(e, m)
    /\ UNCHANGED <<now, hello, session, news, self, cut, lost>>

\* The outbox branch of pump(): the hub hands on an EVENT that came from
\* elsewhere, beside the paced answer and without its pacing.
Broadcast(e) ==
    /\ Open(e) /\ session[e].established
    /\ news[e] > 0
    /\ news' = [news EXCEPT ![e] = @ - 1]
    /\ wire' = Write(e, <<Message("event")>>)
    /\ Written(e, <<Message("event")>>)
    /\ UNCHANGED <<now, hello, session, stream, self, cut, lost>>

\* The node at this end shuts down.
Shutdown(e) ==
    /\ Open(e)
    /\ Stop(e, session[e], TRUE, "going_away", wire[e])
    /\ UNCHANGED self

\* The node at this end dies: its socket is closed without a CLOSE.
Crash(e) ==
    /\ Open(e)
    /\ session' = [session EXCEPT ![e].state = "Closed", ![e].end = "Crashed"]
    /\ wire' = [Write(e, <<Message("eof")>>) EXCEPT ![e] = <<>>]
    /\ unread' = IF wire[e] # <<>> THEN unread \union {Other(e)} ELSE unread
    /\ stream' = [stream EXCEPT ![e] = [@ EXCEPT !.left = 0, !.on = FALSE]]
    /\ UNCHANGED <<now, hello, news, self, cut, lost>>

\* The network fails, and what is on its way is lost.
Cut ==
    /\ ~cut
    /\ cut' = TRUE
    /\ wire' = [e \in End |-> <<>>]
    /\ UNCHANGED <<now, hello, session, stream, news, self, unread, lost>>

\* Time passes unless something is due: a timer, an event the pacing allows,
\* or a message that has been on its way for MaxDelay.
Tick ==
    /\ now < MaxClock
    /\ \A e \in End : Open(e) =>
          /\ now < session[e].poll
          /\ stream[e].on => stream[e].left > 0 /\ ~CanSend(stream[e])
          /\ \A i \in DOMAIN wire[e] : now < wire[e][i].at + MaxDelay
    /\ now' = now + 1
    /\ UNCHANGED <<hello, session, wire, stream, news, self, cut, unread, lost>>

Next ==
    \/ \E e \in End : Receive(e) \/ Reset(e) \/ Poll(e) \/ Stream(e)
                    \/ Broadcast(e) \/ Shutdown(e) \/ Crash(e)
    \/ RefuseInbound
    \/ Cut
    \/ Tick

Spec == Init /\ [][Next]_vars

\* Messages are read, timers run, the answering task goes on and time passes;
\* nobody is obliged to shut down, the hub need not have news and the network
\* need not fail.
Fairness ==
    /\ WF_vars(Tick)
    /\ \A e \in End : WF_vars(Receive(e)) /\ WF_vars(Poll(e)) /\ WF_vars(Stream(e))

FairSpec == Spec /\ Fairness

-----------------------------------------------------------------------------
(***************************************************************************)
(* Properties.                                                             *)
(***************************************************************************)
SelfConnected == hello["out"].nonce = hello["in"].nonce

\* The dialling end counts a connection as established (it then verifies the
\* address and resets its failures) only if the other end did so before, and
\* never with an incompatible node or with itself.
EstablishedTogether ==
    session["out"].established =>
        /\ session["in"].established
        /\ hello["out"].version = hello["in"].version
        /\ ~SelfConnected

\* An address is given up as the node's own only if it is, and a node that
\* dialled itself learns it, unless the answer was cut off: by the network, by
\* a refusal for lack of room, by its own shutdown or its crash.
SelfLearned ==
    /\ self => SelfConnected
    /\ SelfConnected /\ ~Open("out") =>
          \/ self \/ cut
          \/ \E e \in End : session[e].reason = "going_away" \/ session[e].end = "Crashed"

\* The handshake: both ends know what they are connected to.
HandshakeSound == TypeOK /\ EstablishedTogether /\ SelfLearned

\* Keepalive: as long as the network works no end is cut off for silence,
\* although PINGs follow the last PING and not the last sign of life.
LivePeerKept == \A e \in End : session[e].timeout => cut

\* ... and an end that hears nothing, established or not, is gone at the
\* first look after the timeout.
SilenceBounded ==
    \A e \in End : Open(e) => now - session[e].recv <= Timeout + TickEvery

\* The timeout hits the silent and only them.
KeepaliveSound == LivePeerKept /\ SilenceBounded

\* Two nodes that run this code never accuse each other of breaking the
\* protocol: no order of greetings, answers, EVENTs of the hub and closing
\* counts as a violation.
NeverAccused == \A e \in End : session[e].reason # "invalid_frame"

\* An established connection is charged to the peer as a failure only if the
\* network failed, a reset overtook its CLOSE, or it sent more than this end
\* admits: shutting down is not a failure.
GoodbyeIsClean ==
    session["out"].end = "Dropped" =>
        \/ cut \/ lost
        \/ session["out"].reason = "rate_limited"
        \/ SyncExceeded("out", session["out"])

\* Nobody is charged with what he did not do, over every order of the messages
\* and every way of closing.
NotBlamed == NeverAccused /\ GoodbyeIsClean

\* When one end stops the other does, unless the network is cut.
BothEnd ==
    (\E e \in End : ~Open(e)) ~> (cut \/ \A e \in End : ~Open(e))

-----------------------------------------------------------------------------
(***************************************************************************)
(* The condition on the constants that the keepalive needs.                *)
(***************************************************************************)

\* Between two PINGs of an end lie at most an interval and a tick.
Gap == Interval + TickEvery

\* The timeout is longer than the time between two signs of life: a gap, a
\* message on its way, and a reset that replaces one on its way.
KeepaliveMargin == MaxDelay <= Gap /\ Gap + 2 * MaxDelay < Timeout
=============================================================================
