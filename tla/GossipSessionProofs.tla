------------------------ MODULE GossipSessionProofs -------------------------
(***************************************************************************)
(* Proofs about one gossip connection, for any limits, timers and delays:  *)
(* the two ends agree on whether and with whom the connection was made; an *)
(* end that hears nothing is gone in time, and one whose peer is alive is  *)
(* never cut off for silence, as long as messages are not too slow for the *)
(* timers; and then nothing an end says, in whatever order it arrives, is  *)
(* taken for a violation of the protocol or for a failure.                 *)
(***************************************************************************)
EXTENDS GossipSession, SequenceTheorems, FiniteSetTheorems, TLAPS

-----------------------------------------------------------------------------
(***************************************************************************)
(* The inductive invariant of the handshake.                               *)
(***************************************************************************)
SessionSet ==
    [state : {"Connecting", "HelloSent", "Established", "Closed"},
     established : BOOLEAN,
     end : {"open", "HandshakeFailed", "ClosedCleanly", "Dropped", "Crashed"},
     reason : Reason, timeout : BOOLEAN, start : Int, msgs : Nat, bytes : Nat,
     pending : BOOLEAN, received : Nat, recv : Nat, ping : Nat, poll : Nat]

StreamSet == [left : Nat, start : Nat, msgs : Nat, bytes : Nat, on : BOOLEAN]

HelloSet == [nonce : 1..2, version : 1..2]

Msg ==
    [kind : Kind \ {"hello", "hello_ack", "close"}, at : Nat]
        \union [kind : {"hello", "hello_ack"}, at : Nat, hello : HelloSet]
        \union [kind : {"close"}, at : Nat, reason : Reason]

\* What may be on its way to e when the ends say h of themselves, and `est'
\* tells whether the inbound end is established: only the dialling end says
\* HELLO, only an established end HELLO_ACK, each says of itself what is true,
\* and "self_connect" is said only of a connection of a node with itself.
Genuine(e, h, est) ==
    {m \in Msg :
        /\ m.kind = "hello" => e = "in" /\ m.hello = h["out"]
        /\ m.kind = "hello_ack" => e = "out" /\ m.hello = h["in"] /\ est
        /\ m.kind = "close" => (m.reason = "self_connect" => h["out"].nonce = h["in"].nonce)}

WireSound ==
    /\ wire \in [End -> Seq(Msg)]
    /\ \A e \in End : wire[e] \in Seq(Genuine(e, hello, session["in"].established))

\* An end that runs has given no reason to stop, and one that the session
\* layer takes for established was established.
StateSound ==
    /\ \A e \in End : Open(e) => session[e].reason = "none"
    /\ \A e \in End : session[e].state = "Established" => session[e].established
    /\ SelfConnected => hello["out"] = hello["in"]
    /\ session["in"].established => hello["out"].version = hello["in"].version /\ ~SelfConnected
    /\ session["out"].established => session["in"].established

\* The end of a connection with itself that SelfLearned excuses.
Excused ==
    \/ self \/ cut
    \/ \E e \in End : session[e].reason = "going_away" \/ session[e].end = "Crashed"

Fresh(e) == Open(e) /\ session[e].msgs = 0 /\ session[e].start = -Second

\* A node that dialled itself and was not disturbed: the HELLO is on its way,
\* or the answer that tells it so is.
SelfState ==
    SelfConnected /\ ~Excused =>
        /\ unread = {} /\ \A e \in End : ~stream[e].on
        /\ Fresh("out")
        /\ \/ /\ Fresh("in") /\ session["in"].state = "Connecting"
              /\ wire["out"] = <<>>
              /\ Len(wire["in"]) = 1 /\ wire["in"][1].kind = "hello"
           \/ /\ ~Open("in")
              /\ Len(wire["out"]) = 2 /\ wire["out"][1].kind = "close"
              /\ wire["out"][1].reason = "self_connect"

HandInv == TypeOK /\ WireSound /\ StateSound /\ SelfState /\ (self => SelfConnected)

-----------------------------------------------------------------------------
(***************************************************************************)
(* Ends, messages and what is on its way.                                  *)
(***************************************************************************)

\* The other end.
LEMMA OtherEnd ==
    ASSUME NEW e \in End
    PROVE  Other(e) \in End /\ Other(e) # e /\ Other(Other(e)) = e /\ End = {e, Other(e)}
  BY DEF End, Other

\* The type invariant in terms of the sets above.
LEMMA Typed ==
    TypeOK <=> /\ now \in 0..MaxClock /\ hello \in [End -> HelloSet]
               /\ session \in [End -> SessionSet]
               /\ \A e \in End : \A i \in DOMAIN wire[e] : wire[e][i].kind \in Kind
               /\ stream \in [End -> StreamSet]
               /\ self \in BOOLEAN /\ cut \in BOOLEAN
               /\ unread \subseteq End /\ lost \in BOOLEAN /\ news \in [End -> Nat]
  BY DEF TypeOK, HelloSet, SessionSet, StreamSet

\* The fields of a message.
LEMMA MsgParts ==
    ASSUME NEW m \in Msg
    PROVE  /\ m.kind \in Kind /\ m.at \in Nat
           /\ m.kind \in {"hello", "hello_ack"} => m.hello \in HelloSet
           /\ m.kind = "close" => m.reason \in Reason
  BY DEF Msg, Kind

\* Messages that say nothing of the sender.
LEMMA PlainSent ==
    ASSUME now \in Nat, NEW x \in End, NEW h, NEW est,
           NEW k \in Kind \ {"hello", "hello_ack", "close"}
    PROVE  /\ Message(k) \in Genuine(x, h, est) /\ Message(k).at = now /\ Message(k).kind = k
  <1>1. Message(k) \in Msg /\ Message(k).kind = k /\ Message(k).at = now
    BY DEF Message, Msg
  <1> QED BY <1>1 DEF Genuine

\* The CLOSE of an end, and the HELLO_ACK of the inbound one.
LEMMA CloseSent ==
    ASSUME now \in Nat, NEW x \in End, NEW h, NEW est, NEW r \in Reason,
           r = "self_connect" => h["out"].nonce = h["in"].nonce
    PROVE  /\ Close(r) \in Genuine(x, h, est) /\ Close(r).at = now
           /\ Close(r).kind = "close" /\ Close(r).reason = r
  <1>1. /\ Close(r) \in Msg /\ Close(r).kind = "close" /\ Close(r).reason = r
        /\ Close(r).at = now
    BY DEF Close, Msg
  <1> QED BY <1>1 DEF Genuine

\* The greeting of an end is true.
LEMMA GreetingSent ==
    ASSUME now \in Nat, hello \in [End -> HelloSet]
    PROVE  /\ \A est : Greeting("hello", "out") \in Genuine("in", hello, est)
           /\ Greeting("hello_ack", "in") \in Genuine("out", hello, TRUE)
           /\ \A k \in {"hello", "hello_ack"}, e \in End :
                 Greeting(k, e).kind = k /\ Greeting(k, e).at = now
  <1>1. hello["in"] \in HelloSet /\ hello["out"] \in HelloSet
    BY DEF End
  <1>2. /\ Greeting("hello", "out") \in Msg /\ Greeting("hello_ack", "in") \in Msg
        /\ Greeting("hello", "out").kind = "hello" /\ Greeting("hello_ack", "in").kind = "hello_ack"
        /\ Greeting("hello", "out").hello = hello["out"]
        /\ Greeting("hello_ack", "in").hello = hello["in"]
    BY <1>1 DEF Greeting, Msg
  <1>3. \A k \in {"hello", "hello_ack"}, e \in End :
           Greeting(k, e).kind = k /\ Greeting(k, e).at = now
    BY DEF Greeting
  <1> QED BY <1>2, <1>3 DEF Genuine

\* What is genuine stays so when the inbound end becomes established.
LEMMA GenuineGrows ==
    ASSUME NEW x \in End, NEW h, NEW est \in BOOLEAN, NEW est2 \in BOOLEAN, est => est2,
           NEW s \in Seq(Genuine(x, h, est))
    PROVE  s \in Seq(Genuine(x, h, est2)) /\ s \in Seq(Msg)
  <1>1. Genuine(x, h, est) \subseteq Genuine(x, h, est2) /\ Genuine(x, h, est) \subseteq Msg
    BY DEF Genuine
  <1>2. Len(s) \in Nat /\ s \in [1..Len(s) -> Genuine(x, h, est)]
    BY LenProperties
  <1>3. s \in [1..Len(s) -> Genuine(x, h, est2)] /\ s \in [1..Len(s) -> Msg]
    BY <1>1, <1>2
  <1> QED BY <1>2, <1>3, SeqDef

\* What the socket holds after a write.
LEMMA WriteEffect ==
    ASSUME NEW W, wire \in [End -> W], NEW e \in End, NEW s
    PROVE  /\ Write(e, s)[e] = wire[e] /\ DOMAIN Write(e, s) = End
           /\ Write(e, s)[Other(e)] = IF cut \/ ~Open(Other(e)) THEN wire[Other(e)]
                                      ELSE wire[Other(e)] \o s
           /\ Write(e, s) = [x \in End |-> Write(e, s)[x]]
           /\ \A v : [Write(e, s) EXCEPT ![e] = v] =
                        [x \in End |-> IF x = e THEN v ELSE Write(e, s)[x]]
  <1>1. PICK f \in End : f = Other(e) /\ f # e
    BY OtherEnd
  <1>2. CASE cut \/ ~Open(f)
    BY <1>1, <1>2 DEF Write
  <1>3. CASE ~(cut \/ ~Open(f))
    BY <1>1, <1>3 DEF Write
  <1> QED BY <1>2, <1>3


-----------------------------------------------------------------------------
(***************************************************************************)
(* What the parts of a step change.                                        *)
(***************************************************************************)

\* The fields that say what became of the handshake and when the peer was
\* last heard of.
SameFields(s, t) ==
    /\ s.established = t.established /\ s.end = t.end /\ s.reason = t.reason
    /\ s.state = t.state /\ s.timeout = t.timeout /\ s.ping = t.ping /\ s.poll = t.poll

\* The session of an end after the sign of life and the charge for the next
\* message.
Taken(e) == Charge([session[e] EXCEPT !.recv = now], Size[Head(wire[e]).kind])

\* RateLimiter::charge after the sign of life: a window admits any one message.
LEMMA ChargeEffect ==
    ASSUME now \in Nat, NEW s \in SessionSet, NEW n \in 0..MaxBytes,
           NEW t, t = Charge([s EXCEPT !.recv = now], n)
    PROVE  /\ t \in SessionSet /\ SameFields(t, s) /\ t.recv = now
           /\ now - s.start >= Second => ~Limited(t)
  <1>0. n \in Nat /\ n <= MaxBytes /\ 1 <= MaxMsgs /\ MaxMsgs \in Nat /\ MaxBytes \in Nat
    BY SessionAssumption
  <1>1. PICK u \in SessionSet : /\ u = [s EXCEPT !.recv = now] /\ u.recv = now
                                /\ SameFields(u, s) /\ u.start = s.start
    BY DEF SessionSet, SameFields
  <1>2. CASE now - u.start >= Second
    <2>1. t = [u EXCEPT !.start = now, !.msgs = 1, !.bytes = n]
      BY <1>1, <1>2 DEF Charge
    <2>2. PICK v \in SessionSet : v = [u EXCEPT !.start = now] /\ SameFields(v, u) /\ v.recv = u.recv
      <3>1. PICK i \in Int : i = now
        OBVIOUS
      <3>2. PICK v : v = [u EXCEPT !.start = i]
        OBVIOUS
      <3>3. v \in SessionSet /\ SameFields(v, u) /\ v.recv = u.recv
        BY <3>2 DEF SessionSet, SameFields
      <3> QED BY <3>1, <3>2, <3>3
    <2>3. t = [v EXCEPT !.msgs = 1, !.bytes = n]
      BY <2>1, <2>2 DEF SessionSet
    <2>4. /\ t \in SessionSet /\ SameFields(t, v) /\ t.recv = v.recv
          /\ t.msgs = 1 /\ t.bytes = n
      <3>1. PICK i \in Nat : i = 1
        OBVIOUS
      <3>2. t = [v EXCEPT !.msgs = i, !.bytes = n]
        BY <2>3, <3>1
      <3>3. t \in SessionSet /\ t.msgs = i /\ t.bytes = n
        BY <1>0, <3>2 DEF SessionSet
      <3>4. SameFields(t, v) /\ t.recv = v.recv
        BY <3>2 DEF SessionSet, SameFields
      <3> QED BY <3>1, <3>3, <3>4
    <2>5. ~Limited(t)
      BY <1>0, <2>4 DEF Limited
    <2> QED BY <1>1, <2>2, <2>4, <2>5 DEF SameFields
  <1>3. CASE ~(now - u.start >= Second)
    <2>1. t = [u EXCEPT !.msgs = u.msgs + 1, !.bytes = u.bytes + n]
      BY <1>1, <1>3 DEF Charge
    <2>2. u.msgs + 1 \in Nat /\ u.bytes + n \in Nat
      BY <1>0 DEF SessionSet
    <2>3. t \in SessionSet /\ SameFields(t, u) /\ t.recv = u.recv
      BY <2>1, <2>2 DEF SessionSet, SameFields
    <2> QED BY <1>1, <1>3, <2>3 DEF SameFields
  <1> QED BY <1>2, <1>3

\* pump() stops: the session is closed, the peer is told.
LEMMA StopEffect ==
    ASSUME TypeOK, WireSound, NEW e \in End, NEW s \in SessionSet, NEW clean \in BOOLEAN,
           NEW reason \in Reason, NEW rest, Stop(e, s, clean, reason, rest)
    PROVE  /\ session' \in [End -> SessionSet]
           /\ session'[Other(e)] = session[Other(e)]
           /\ session'[e].established = s.established /\ session'[e].timeout = s.timeout
           /\ session'[e].state = "Closed" /\ session'[e].reason = reason
           /\ session'[e].end \in {"HandshakeFailed", "ClosedCleanly", "Dropped"}
           /\ session'[e].end = "Dropped" => s.established /\ ~clean
           /\ session'[e].recv = s.recv /\ session'[e].ping = s.ping
           /\ session'[e].received = s.received
           /\ stream' \in [End -> StreamSet] /\ ~stream'[e].on
           /\ stream'[Other(e)] = stream[Other(e)]
           /\ unread' = IF rest # <<>> THEN unread \union {Other(e)} ELSE unread
           /\ UNCHANGED <<now, hello, news, cut, lost>>
  <1>1. /\ session \in [End -> SessionSet] /\ stream \in [End -> StreamSet]
    BY Typed
  <1>2. PICK end \in {"HandshakeFailed", "ClosedCleanly", "Dropped"} :
           /\ end = IF ~s.established THEN "HandshakeFailed"
                    ELSE IF clean THEN "ClosedCleanly" ELSE "Dropped"
           /\ end = "Dropped" => s.established /\ ~clean
    BY DEF SessionSet
  <1>3. PICK t : t = [s EXCEPT !.state = "Closed", !.reason = reason, !.end = end]
    OBVIOUS
  <1>4. /\ t \in SessionSet /\ t.established = s.established /\ t.timeout = s.timeout
        /\ t.state = "Closed" /\ t.reason = reason /\ t.end = end
        /\ t.recv = s.recv /\ t.ping = s.ping /\ t.received = s.received
    BY <1>2, <1>3 DEF SessionSet
  <1>5. session' = [session EXCEPT ![e] = t]
    BY <1>2, <1>3 DEF Stop
  <1>6. session' \in [End -> SessionSet] /\ session'[e] = t
        /\ session'[Other(e)] = session[Other(e)]
    BY <1>1, <1>4, <1>5, OtherEnd
  <1>7. PICK u : u = [stream[e] EXCEPT !.left = 0, !.on = FALSE]
    OBVIOUS
  <1>8. u \in StreamSet /\ ~u.on
    BY <1>1, <1>7 DEF StreamSet
  <1>9. stream' = [stream EXCEPT ![e] = u]
    BY <1>7 DEF Stop
  <1>10. stream' \in [End -> StreamSet] /\ stream'[e] = u /\ stream'[Other(e)] = stream[Other(e)]
    BY <1>1, <1>8, <1>9, OtherEnd
  <1>11. /\ unread' = IF rest # <<>> THEN unread \union {Other(e)} ELSE unread
         /\ UNCHANGED <<now, hello, news, cut, lost>>
    BY DEF Stop
  <1> QED BY <1>2, <1>4, <1>6, <1>8, <1>10, <1>11

\* ... and what is on its way then: nothing to the end that stopped, and to
\* the other one the reason, if any, and the end of the stream.
LEMMA StopWire ==
    ASSUME TypeOK, WireSound, NEW e \in End, NEW s \in SessionSet, NEW clean \in BOOLEAN,
           NEW reason \in Reason, NEW rest, Stop(e, s, clean, reason, rest),
           reason = "self_connect" => SelfConnected
    PROVE  /\ DOMAIN wire' = End /\ wire' = [x \in End |-> wire'[x]]
           /\ wire'[e] = <<>>
           /\ cut \/ ~Open(Other(e)) => wire'[Other(e)] = wire[Other(e)]
           /\ ~cut /\ Open(Other(e)) =>
                 \E final : /\ \A est \in BOOLEAN : final \in Seq(Genuine(Other(e), hello, est))
                            /\ final # <<>>
                            /\ \A i \in 1..Len(final) : final[i].at = now
                            /\ final[Len(final)].kind = "eof"
                            /\ reason = "self_connect" =>
                                  /\ Len(final) = 2 /\ final[1].kind = "close"
                                  /\ final[1].reason = "self_connect"
                            /\ wire'[Other(e)] = wire[Other(e)] \o final
  <1>1. now \in Nat /\ wire \in [End -> Seq(Msg)]
    BY Typed, SessionAssumption DEF WireSound
  <1>2. PICK f \in End : f = Other(e) /\ f # e
    BY OtherEnd
  <1>3. PICK eof : eof = Message("eof")
    OBVIOUS
  <1>4. PICK bye : bye = Close(reason)
    OBVIOUS
  <1>5. ASSUME NEW est \in BOOLEAN
        PROVE  /\ eof \in Genuine(f, hello, est) /\ bye \in Genuine(f, hello, est)
               /\ eof.kind = "eof" /\ bye.kind = "close" /\ bye.reason = reason
               /\ eof.at = now /\ bye.at = now
    <2>1. "eof" \in Kind \ {"hello", "hello_ack", "close"}
      BY DEF Kind
    <2>2. eof \in Genuine(f, hello, est) /\ eof.kind = "eof" /\ eof.at = now
      BY <1>1, <1>3, <2>1, PlainSent
    <2>3. reason = "self_connect" => hello["out"].nonce = hello["in"].nonce
      BY DEF SelfConnected
    <2>4. /\ bye \in Genuine(f, hello, est) /\ bye.kind = "close" /\ bye.reason = reason
          /\ bye.at = now
      BY <1>1, <1>4, <2>3, CloseSent
    <2> QED BY <2>2, <2>4
  <1>6. PICK final : final = IF reason = "none" THEN <<eof>> ELSE <<bye, eof>>
    OBVIOUS
  <1>7. /\ \A est \in BOOLEAN : final \in Seq(Genuine(f, hello, est))
        /\ final # <<>>
        /\ \A i \in 1..Len(final) : final[i].at = now
        /\ final[Len(final)].kind = "eof"
        /\ reason = "self_connect" => /\ Len(final) = 2 /\ final[1].kind = "close"
                                      /\ final[1].reason = "self_connect"
    <2>1. CASE reason = "none"
      BY <1>5, <1>6, <2>1
    <2>2. CASE reason # "none"
      BY <1>5, <1>6, <2>2
    <2> QED BY <2>1, <2>2
  <1>8. wire' = [Write(e, final) EXCEPT ![e] = <<>>]
    <2>1. (IF reason = "none" THEN <<>> ELSE <<bye>>) \o <<eof>> = final
      <3>1. <<eof>> \in Seq(Msg) /\ <<bye>> \in Seq(Msg) /\ <<bye, eof>> \in Seq(Msg)
        <4>1. eof \in Msg /\ bye \in Msg
          BY <1>5 DEF Genuine
        <4> QED BY <4>1
      <3>2. <<>> \o <<eof>> = <<eof>>
        BY <3>1, ConcatEmptySeq
      <3>3. <<bye>> \o <<eof>> = <<bye, eof>>
        <4>1. /\ <<bye>> \o <<eof>> \in Seq(Msg) /\ Len(<<bye>> \o <<eof>>) = 2
              /\ \A i \in 1..2 : (<<bye>> \o <<eof>>)[i] = <<bye, eof>>[i]
          BY <3>1, ConcatProperties
        <4> QED BY <3>1, <4>1, SeqEqual
      <3> QED BY <1>6, <3>2, <3>3
    <2> QED BY <1>3, <1>4, <2>1 DEF Stop
  <1>9. wire' = [x \in End |-> IF x = e THEN <<>> ELSE Write(e, final)[x]]
    BY <1>1, <1>8, WriteEffect
  <1>10. wire'[e] = <<>> /\ wire'[f] = Write(e, final)[f] /\ DOMAIN wire' = End
         /\ wire' = [x \in End |-> wire'[x]]
    BY <1>2, <1>9
  <1>11. wire'[f] = IF cut \/ ~Open(f) THEN wire[f] ELSE wire[f] \o final
    <2>1. Write(e, final)[Other(e)] = IF cut \/ ~Open(Other(e)) THEN wire[Other(e)]
                                      ELSE wire[Other(e)] \o final
      BY <1>1, WriteEffect
    <2> QED BY <1>2, <1>10, <2>1
  <1> QED BY <1>2, <1>7, <1>10, <1>11

-----------------------------------------------------------------------------
(***************************************************************************)
(* The handshake: every kind of step keeps its invariant.                  *)
(***************************************************************************)

\* What the invariant says of the types.
LEMMA HandTypes ==
    ASSUME HandInv
    PROVE  /\ now \in Nat /\ now \in 0..MaxClock /\ hello \in [End -> HelloSet]
           /\ session \in [End -> SessionSet] /\ stream \in [End -> StreamSet]
           /\ \A e \in End : session[e].established \in BOOLEAN
           /\ wire \in [End -> Seq(Msg)] /\ unread \subseteq End
           /\ \A e \in End : wire[e] \in Seq(Genuine(e, hello, session["in"].established))
           /\ self \in BOOLEAN /\ cut \in BOOLEAN /\ lost \in BOOLEAN /\ news \in [End -> Nat]
  <1>1. TypeOK /\ WireSound
    BY DEF HandInv
  <1>2. /\ now \in 0..MaxClock /\ hello \in [End -> HelloSet]
        /\ session \in [End -> SessionSet] /\ stream \in [End -> StreamSet]
        /\ self \in BOOLEAN /\ cut \in BOOLEAN /\ lost \in BOOLEAN /\ news \in [End -> Nat] /\ unread \subseteq End
    BY <1>1, Typed
  <1>3. now \in Nat
    BY <1>2, SessionAssumption
  <1>4. \A e \in End : session[e].established \in BOOLEAN
    BY <1>2 DEF SessionSet
  <1> QED BY <1>1, <1>2, <1>3, <1>4 DEF WireSound

\* The type invariant after a step, from the types of the parts.
LEMMA TypeStep ==
    ASSUME now' \in 0..MaxClock, hello' \in [End -> HelloSet],
           session' \in [End -> SessionSet], wire' \in [End -> Seq(Msg)],
           stream' \in [End -> StreamSet], self' \in BOOLEAN, cut' \in BOOLEAN,
           unread' \subseteq End, lost' \in BOOLEAN, news' \in [End -> Nat]
    PROVE  TypeOK'
  <1>1. ASSUME NEW e \in End, NEW i \in DOMAIN wire'[e] PROVE wire'[e][i].kind \in Kind
    <2>1. PICK s \in Seq(Msg) : s = wire'[e]
      OBVIOUS
    <2>2. i \in 1..Len(s)
      BY <1>1, <2>1, LenProperties
    <2>3. s[i] \in Msg
      BY <2>2, ElementOfSeq
    <2> QED BY <2>1, <2>3, MsgParts
  <1> QED BY <1>1 DEF TypeOK, HelloSet, SessionSet, StreamSet

\* What is on its way after a step, from what is on its way to each end.
LEMMA WireStep ==
    ASSUME wire' = [x \in End |-> wire'[x]],
           \A x \in End : wire'[x] \in Seq(Genuine(x, hello', session'["in"].established)),
           session'["in"].established \in BOOLEAN
    PROVE  WireSound' /\ wire' \in [End -> Seq(Msg)]
  <1>1. \A x \in End : wire'[x] \in Seq(Msg)
    BY GenuineGrows
  <1>2. wire' \in [End -> Seq(Msg)]
    BY <1>1
  <1> QED BY <1>2 DEF WireSound

\* What excuses an end stays an excuse.
LEMMA ExcusedKept ==
    ASSUME HandInv, NEW e \in End, Open(e), session'[Other(e)] = session[Other(e)],
           cut => cut', self => self', Excused
    PROVE  Excused'
  <1>1. session[e].reason = "none" /\ session[e].end = "open"
    BY DEF HandInv, StateSound, Open
  <1>2. CASE self \/ cut
    BY <1>2 DEF Excused
  <1>3. CASE \E x \in End : session[x].reason = "going_away" \/ session[x].end = "Crashed"
    <2>1. PICK x \in End : session[x].reason = "going_away" \/ session[x].end = "Crashed"
      BY <1>3
    <2>2. x = Other(e)
      BY <1>1, <2>1, OtherEnd
    <2> QED BY <2>1, <2>2 DEF Excused
  <1> QED BY <1>2, <1>3 DEF Excused

\* An end stops.
LEMMA HandStop ==
    ASSUME HandInv, NEW e \in End, Open(e), NEW s \in SessionSet,
           s.established = session[e].established, NEW clean \in BOOLEAN,
           NEW reason \in Reason, NEW rest, Stop(e, s, clean, reason, rest),
           reason = "self_connect" => SelfConnected,
           self' \in BOOLEAN, self => self', self' => self \/ SelfConnected,
           SelfConnected /\ ~Excused /\ ~self' /\ reason # "going_away" =>
               e = "in" /\ reason = "self_connect" /\ rest = <<>>
    PROVE  HandInv'
  <1>1. TypeOK /\ WireSound /\ StateSound /\ SelfState /\ (self => SelfConnected)
    BY DEF HandInv
  <1>2. PICK f \in End : f = Other(e) /\ f # e /\ End = {e, f}
    BY OtherEnd
  <1>3. /\ session' \in [End -> SessionSet] /\ session'[f] = session[f]
        /\ session'[e].established = s.established
        /\ session'[e].state = "Closed" /\ session'[e].reason = reason
        /\ session'[e].end \in {"HandshakeFailed", "ClosedCleanly", "Dropped"}
        /\ stream' \in [End -> StreamSet] /\ ~stream'[e].on /\ stream'[f] = stream[f]
        /\ unread' = IF rest # <<>> THEN unread \union {f} ELSE unread
        /\ UNCHANGED <<now, hello, news, cut, lost>>
    <2>1. /\ session' \in [End -> SessionSet] /\ session'[Other(e)] = session[Other(e)]
          /\ session'[e].established = s.established
          /\ session'[e].state = "Closed" /\ session'[e].reason = reason
          /\ session'[e].end \in {"HandshakeFailed", "ClosedCleanly", "Dropped"}
          /\ stream' \in [End -> StreamSet] /\ ~stream'[e].on
          /\ stream'[Other(e)] = stream[Other(e)]
          /\ unread' = IF rest # <<>> THEN unread \union {Other(e)} ELSE unread
          /\ UNCHANGED <<now, hello, news, cut, lost>>
      BY <1>1, StopEffect
    <2> QED BY <1>2, <2>1
  <1>4. \A x \in End : session'[x].established = session[x].established
    BY <1>2, <1>3
  <1>5. PICK est \in BOOLEAN : est = session["in"].established /\ est = session'["in"].established
    BY <1>4, HandTypes DEF End
  <1>6. /\ wire' = [x \in End |-> wire'[x]] /\ wire'[e] = <<>>
        /\ cut \/ ~Open(f) => wire'[f] = wire[f]
        /\ ~cut /\ Open(f) =>
              \E final : /\ final \in Seq(Genuine(f, hello, est))
                         /\ reason = "self_connect" =>
                               /\ Len(final) = 2 /\ final[1].kind = "close"
                               /\ final[1].reason = "self_connect"
                         /\ wire'[f] = wire[f] \o final
    <2>1. /\ wire' = [x \in End |-> wire'[x]] /\ wire'[e] = <<>>
          /\ cut \/ ~Open(Other(e)) => wire'[Other(e)] = wire[Other(e)]
      BY <1>1, StopWire
    <2>2. ASSUME ~cut, Open(Other(e))
          PROVE  \E final : /\ \A b \in BOOLEAN : final \in Seq(Genuine(Other(e), hello, b))
                            /\ reason = "self_connect" =>
                                  /\ Len(final) = 2 /\ final[1].kind = "close"
                                  /\ final[1].reason = "self_connect"
                            /\ wire'[Other(e)] = wire[Other(e)] \o final
      BY <1>1, <2>2, StopWire
    <2> QED BY <1>2, <2>1, <2>2
  <1>7. WireSound' /\ wire' \in [End -> Seq(Msg)]
    <2>1. wire'[e] \in Seq(Genuine(e, hello, est))
      BY <1>6, EmptySeq
    <2>2. wire[f] \in Seq(Genuine(f, hello, est))
      BY <1>5, HandTypes
    <2>3. wire'[f] \in Seq(Genuine(f, hello, est))
      <3>1. CASE cut \/ ~Open(f)
        BY <1>6, <2>2, <3>1
      <3>2. CASE ~cut /\ Open(f)
        <4>1. PICK final \in Seq(Genuine(f, hello, est)) : wire'[f] = wire[f] \o final
          BY <1>6, <3>2
        <4> QED BY <2>2, <4>1, ConcatProperties
      <3> QED BY <3>1, <3>2
    <2>4. \A x \in End : wire'[x] \in Seq(Genuine(x, hello', session'["in"].established))
      BY <1>2, <1>3, <1>5, <2>1, <2>3
    <2> QED BY <1>5, <1>6, <2>4, WireStep
  <1>8. TypeOK'
    <2>1. unread' \subseteq End
      BY <1>2, <1>3, HandTypes
    <2> QED BY <1>3, <1>7, <2>1, HandTypes, TypeStep
  <1>9. SelfConnected' <=> SelfConnected
    BY <1>3 DEF SelfConnected
  <1>10. StateSound'
    <2>1. \A x \in End : (Open(x))' => session'[x].reason = "none"
      BY <1>1, <1>2, <1>3 DEF StateSound, Open
    <2>2. \A x \in End : session'[x].state = "Established" => session'[x].established
      BY <1>1, <1>2, <1>3 DEF StateSound
    <2> QED BY <1>1, <1>3, <1>4, <1>9, <2>1, <2>2 DEF StateSound, End
  <1>11. SelfState'
    <2>1. SUFFICES ASSUME SelfConnected', ~Excused' PROVE SelfState'
      BY DEF SelfState
    <2>2. SelfConnected /\ ~Excused
      BY <1>2, <1>3, <1>9, <2>1, ExcusedKept
    <2>3. ~self' /\ ~cut /\ reason # "going_away"
      BY <1>3, <2>1, <2>2 DEF Excused
    <2>4. e = "in" /\ f = "out" /\ reason = "self_connect" /\ rest = <<>>
      BY <1>2, <2>2, <2>3 DEF Other
    <2>5. /\ unread = {} /\ \A x \in End : ~stream[x].on
          /\ Fresh("out") /\ wire["out"] = <<>>
      BY <1>1, <2>2, <2>4 DEF SelfState
    <2>6. Open(f)
      BY <2>4, <2>5 DEF Fresh
    <2>7. PICK final : /\ final \in Seq(Genuine(f, hello, est))
                       /\ Len(final) = 2 /\ final[1].kind = "close"
                       /\ final[1].reason = "self_connect"
                       /\ wire'[f] = wire[f] \o final
      BY <1>6, <2>3, <2>4, <2>6
    <2>8. wire'["out"] = final
      BY <2>4, <2>5, <2>7, ConcatEmptySeq
    <2>9. ~(Open("in"))'
      BY <1>3, <2>4 DEF Open
    <2>10. (Fresh("out"))'
      BY <1>3, <2>4, <2>5 DEF Fresh, Open
    <2>11. unread' = {} /\ \A x \in End : ~stream'[x].on
      BY <1>2, <1>3, <2>4, <2>5
    <2> QED BY <2>7, <2>8, <2>9, <2>10, <2>11 DEF SelfState
  <1> QED BY <1>1, <1>7, <1>8, <1>9, <1>10, <1>11 DEF HandInv

\* An end goes on with session s: v is left for it to read, w is written.
LEMMA HandGoOn ==
    ASSUME HandInv, NEW e \in End, Open(e), NEW s \in SessionSet,
           s.end = "open", s.reason = "none", session[e].established => s.established,
           s.state = "Established" => s.established,
           session' = [session EXCEPT ![e] = s],
           s.established /\ ~session[e].established =>
               /\ hello["out"].version = hello["in"].version /\ ~SelfConnected
               /\ e = "out" => session["in"].established,
           now' \in 0..MaxClock, UNCHANGED <<hello, self, cut>>, lost' \in BOOLEAN, news' \in [End -> Nat],
           stream' \in [End -> StreamSet], unread' \subseteq End,
           NEW v \in Seq(Genuine(e, hello, session["in"].established)),
           NEW w, w \in Seq(Genuine(Other(e), hello, session'["in"].established)),
           wire' = [x \in End |-> IF x = e THEN v ELSE Write(e, w)[x]],
           SelfConnected /\ ~Excused =>
               /\ w = <<>> /\ v = wire[e] /\ s.msgs = session[e].msgs
               /\ s.start = session[e].start /\ s.state = session[e].state
               /\ unread' = unread /\ stream' = stream
    PROVE  HandInv'
  <1>1. TypeOK /\ WireSound /\ StateSound /\ SelfState /\ (self => SelfConnected)
    BY DEF HandInv
  <1>2. PICK f \in End : f = Other(e) /\ f # e /\ End = {e, f}
    BY OtherEnd
  <1>3. /\ session' \in [End -> SessionSet] /\ session'[e] = s /\ session'[f] = session[f]
    BY <1>2, HandTypes
  <1>4. \A x \in End : session[x].established => session'[x].established
    BY <1>2, <1>3
  <1>5. PICK old \in BOOLEAN, est \in BOOLEAN :
           /\ old = session["in"].established /\ est = session'["in"].established
           /\ old => est
    <2>1. session["in"].established \in BOOLEAN /\ session'["in"].established \in BOOLEAN
      BY <1>3 DEF HandInv, TypeOK, SessionSet, End
    <2> QED BY <1>4, <2>1 DEF End
  <1>6. /\ wire'[e] = v /\ wire' = [x \in End |-> wire'[x]]
        /\ wire'[f] = IF cut \/ ~Open(f) THEN wire[f] ELSE wire[f] \o w
    <2>1. Write(e, w)[Other(e)] = IF cut \/ ~Open(Other(e)) THEN wire[Other(e)]
                                  ELSE wire[Other(e)] \o w
      <3>1. wire \in [End -> Seq(Msg)]
        BY HandTypes
      <3> QED BY <3>1, WriteEffect
    <2>2. wire'[e] = v /\ wire'[f] = Write(e, w)[f] /\ wire' = [x \in End |-> wire'[x]]
      BY <1>2
    <2> QED BY <1>2, <2>1, <2>2
  <1>7. WireSound' /\ wire' \in [End -> Seq(Msg)]
    <2>1. v \in Seq(Genuine(e, hello, est))
      BY <1>5, GenuineGrows
    <2>2. wire[f] \in Seq(Genuine(f, hello, est))
      <3>1. wire[f] \in Seq(Genuine(f, hello, old))
        BY <1>5, HandTypes
      <3> QED BY <1>5, <3>1, GenuineGrows
    <2>3. wire[f] \o w \in Seq(Genuine(f, hello, est))
      BY <1>2, <1>5, <2>2, ConcatProperties
    <2>4. \A x \in End : wire'[x] \in Seq(Genuine(x, hello', session'["in"].established))
      BY <1>2, <1>5, <1>6, <2>1, <2>2, <2>3
    <2> QED BY <1>5, <1>6, <2>4, WireStep
  <1>8. TypeOK'
    BY <1>3, <1>7, HandTypes, TypeStep
  <1>9. SelfConnected' <=> SelfConnected
    BY DEF SelfConnected
  <1>10. StateSound'
    <2>1. \A x \in End : (Open(x))' => session'[x].reason = "none"
      BY <1>1, <1>2, <1>3 DEF StateSound, Open
    <2>2. \A x \in End : session'[x].state = "Established" => session'[x].established
      BY <1>1, <1>2, <1>3 DEF StateSound
    <2>3. session'["in"].established =>
             hello["out"].version = hello["in"].version /\ ~SelfConnected
      <3>1. CASE e = "in"
        BY <1>1, <1>3, <3>1 DEF StateSound
      <3>2. CASE e # "in"
        BY <1>1, <1>2, <1>3, <3>2 DEF StateSound, End
      <3> QED BY <3>1, <3>2
    <2>4. session'["out"].established => session'["in"].established
      <3>1. CASE e = "out"
        BY <1>1, <1>2, <1>3, <1>4, <3>1 DEF StateSound, End
      <3>2. CASE e # "out"
        BY <1>1, <1>2, <1>3, <1>4, <3>2 DEF StateSound, End
      <3> QED BY <3>1, <3>2
    <2> QED BY <1>1, <1>9, <2>1, <2>2, <2>3, <2>4 DEF StateSound
  <1>11. SelfState'
    <2>1. SUFFICES ASSUME SelfConnected', ~Excused' PROVE SelfState'
      BY DEF SelfState
    <2>2. SelfConnected /\ ~Excused
      BY <1>2, <1>3, <1>9, <2>1, ExcusedKept
    <2>3. /\ w = <<>> /\ wire'[e] = wire[e] /\ unread' = unread /\ stream' = stream
          /\ s.msgs = session[e].msgs /\ s.start = session[e].start /\ s.state = session[e].state
      BY <1>6, <2>2
    <2>4. \A x \in End : wire'[x] = wire[x]
      <3>1. wire[f] \o <<>> = wire[f]
        BY HandTypes, ConcatEmptySeq
      <3> QED BY <1>2, <1>6, <2>3, <3>1
    <2>5. \A x \in End : /\ (Open(x))' <=> Open(x)
                         /\ session'[x].msgs = session[x].msgs
                         /\ session'[x].start = session[x].start
                         /\ session'[x].state = session[x].state
      BY <1>2, <1>3, <2>3 DEF Open
    <2>6. \A x \in End : Fresh(x) => (Fresh(x))'
      BY <2>5 DEF Fresh
    <2> QED BY <1>1, <2>2, <2>3, <2>4, <2>5, <2>6 DEF SelfState, End
  <1> QED BY <1>1, <1>7, <1>8, <1>9, <1>10, <1>11 DEF HandInv

\* The next message, and the session after the sign of life and the charge.
LEMMA ReceiveFacts ==
    ASSUME HandInv, NEW e \in End, Open(e), wire[e] # <<>>
    PROVE  /\ Head(wire[e]) \in Genuine(e, hello, session["in"].established)
           /\ Head(wire[e]) \in Msg
           /\ Tail(wire[e]) \in Seq(Genuine(e, hello, session["in"].established))
           /\ Taken(e) \in SessionSet
           /\ SameFields(Taken(e), session[e])
           /\ Taken(e).recv = now
           /\ now - session[e].start >= Second => ~Limited(Taken(e))
           /\ session[e].reason = "none" /\ session[e].end = "open"
           /\ session[e].state = "Established" => session[e].established
  <1>1. PICK G : G = Genuine(e, hello, session["in"].established) /\ wire[e] \in Seq(G)
    BY HandTypes
  <1>2. Head(wire[e]) \in G /\ Tail(wire[e]) \in Seq(G)
    BY <1>1, HeadTailProperties
  <1>3. Head(wire[e]) \in Msg
    BY <1>1, <1>2 DEF Genuine
  <1>4. session[e] \in SessionSet /\ now \in Nat
    BY HandTypes
  <1>5. PICK t : t = Taken(e)
    OBVIOUS
  <1>6. /\ t \in SessionSet /\ SameFields(t, session[e]) /\ t.recv = now
        /\ now - session[e].start >= Second => ~Limited(t)
    <2>1. Head(wire[e]).kind \in Kind
      BY <1>3, MsgParts
    <2>2. Size[Head(wire[e]).kind] \in 0..MaxBytes
      BY <2>1, SessionAssumption
    <2> QED BY <1>4, <1>5, <2>2, ChargeEffect DEF Taken
  <1>7. /\ session[e].reason = "none" /\ session[e].end = "open"
        /\ session[e].state = "Established" => session[e].established
    BY DEF HandInv, StateSound, Open
  <1> QED BY <1>1, <1>2, <1>3, <1>5, <1>6, <1>7

\* A node that dialled itself and was not disturbed: what it reads next.
LEMMA SelfReads ==
    ASSUME HandInv, NEW e \in End, Open(e), wire[e] # <<>>, SelfConnected, ~Excused
    PROVE  /\ ~Limited(Taken(e))
           /\ ~session[e].established /\ session[e].state # "Established"
           /\ e = "in" => /\ Head(wire[e]).kind = "hello" /\ Tail(wire[e]) = <<>>
                          /\ hello["out"] = hello["in"]
           /\ e = "out" => /\ Head(wire[e]).kind = "close"
                           /\ Head(wire[e]).reason = "self_connect"
  <1>1. SelfState /\ StateSound
    BY DEF HandInv
  <1>2. session[e] \in SessionSet /\ now \in Nat /\ wire[e] \in Seq(Msg)
    BY HandTypes
  <1>3. Head(wire[e]) = wire[e][1] /\ Len(Tail(wire[e])) = Len(wire[e]) - 1
        /\ Tail(wire[e]) \in Seq(Msg)
    BY <1>2, HeadTailProperties
  <1>4. ~session[e].established /\ session[e].state # "Established"
    BY <1>1 DEF StateSound, End
  <1>5. Fresh(e)
    BY <1>1 DEF SelfState, End
  <1>6. now - session[e].start >= Second
    BY <1>2, <1>5, SessionAssumption DEF Fresh
  <1>7. ~Limited(Taken(e))
    BY <1>6, ReceiveFacts
  <1>8. CASE e = "in"
    <2>1. Len(wire["in"]) = 1 /\ wire["in"][1].kind = "hello"
      BY <1>1, <1>8 DEF SelfState
    <2>2. Tail(wire[e]) = <<>>
      <3>1. Len(Tail(wire[e])) = 0
        BY <1>3, <1>8, <2>1
      <3> QED BY <1>3, <3>1, EmptySeq
    <2> QED BY <1>1, <1>3, <1>4, <1>7, <1>8, <2>1, <2>2 DEF StateSound
  <1>9. CASE e = "out"
    <2>1. wire["out"][1].kind = "close" /\ wire["out"][1].reason = "self_connect"
      BY <1>1, <1>9 DEF SelfState
    <2> QED BY <1>3, <1>4, <1>7, <1>9, <2>1
  <1> QED BY <1>8, <1>9 DEF End

\* The greetings.
LEMMA HandGreet ==
    ASSUME HandInv, NEW e \in End, Open(e), ~cut, wire[e] # <<>>, NEW m, m = Head(wire[e]),
           m.kind \in {"hello", "hello_ack"},
           NEW s, s = Taken(e), Greet(e, s, m)
    PROVE  HandInv'
  <1>1. /\ m \in Genuine(e, hello, session["in"].established) /\ m \in Msg
        /\ Tail(wire[e]) \in Seq(Genuine(e, hello, session["in"].established))
        /\ s \in SessionSet /\ SameFields(s, session[e])
        /\ session[e].reason = "none" /\ session[e].end = "open"
    BY ReceiveFacts
  <1>2. hello \in [End -> HelloSet] /\ now \in Nat /\ wire \in [End -> Seq(Msg)]
    BY HandTypes
  <1>3. PICK expected \in BOOLEAN :
           expected <=> m.kind = (IF e = "in" THEN "hello" ELSE "hello_ack")
    OBVIOUS
  <1>4. PICK verdict : verdict = IF s.state = "Established" \/ ~expected THEN "invalid_frame"
                                 ELSE Accepts(e, m.hello)
    OBVIOUS
  <1>5. expected => m.hello = hello[Other(e)]
    BY <1>1, <1>3 DEF Genuine, Other, End
  <1>6. verdict \in Reason
    BY <1>4 DEF Accepts, Reason
  <1>7. verdict = "self_connect" => SelfConnected
    BY <1>4, <1>5 DEF Accepts, SelfConnected, Other, End
  <1>8. CASE verdict = "none"
    <2>1. /\ expected /\ hello["out"].version = hello["in"].version /\ ~SelfConnected
      BY <1>4, <1>5, <1>8 DEF Accepts, SelfConnected, Other, End
    <2>2. PICK t : t = [s EXCEPT !.state = "Established", !.established = TRUE,
                                 !.pending = TRUE, !.received = 0]
      OBVIOUS
    <2>3. /\ t \in SessionSet /\ t.state = "Established" /\ t.established
          /\ t.end = "open" /\ t.reason = "none"
      BY <1>1, <2>2 DEF SessionSet, SameFields
    <2>4. PICK w : w = (IF e = "in" THEN <<Greeting("hello_ack", e)>> ELSE <<>>)
                          \o <<Message("sync_req"), Message("get_peers")>>
      OBVIOUS
    <2>5. GoOn(e, t, w)
      BY <1>3, <1>4, <1>8, <2>2, <2>4 DEF Greet
    <2>6. /\ session' = [session EXCEPT ![e] = t]
          /\ wire' = [Write(e, w) EXCEPT ![e] = Tail(Write(e, w)[e])]
          /\ Written(e, w)
          /\ UNCHANGED <<now, hello, stream, news, self, cut, lost>>
      BY <2>5 DEF GoOn
    <2>7. wire' = [x \in End |-> IF x = e THEN Tail(wire[e]) ELSE Write(e, w)[x]]
      BY <1>2, <2>6, WriteEffect
    <2>8. w \in Seq(Genuine(Other(e), hello, session'["in"].established))
      <3>1. PICK G : G = Genuine(Other(e), hello, session'["in"].established)
        OBVIOUS
      <3>2. Message("sync_req") \in G /\ Message("get_peers") \in G
        BY <1>2, <3>1, PlainSent, OtherEnd DEF Kind
      <3>3. <<Message("sync_req"), Message("get_peers")>> \in Seq(G)
        BY <3>2
      <3>4. CASE e = "in"
        <4>1. session'["in"].established = TRUE /\ Other(e) = "out"
          BY <2>3, <2>6, <3>4, HandTypes DEF Other
        <4>2. Greeting("hello_ack", e) \in G
          BY <1>2, <3>1, <3>4, <4>1, GreetingSent
        <4>3. <<Greeting("hello_ack", e)>> \in Seq(G)
          BY <4>2
        <4> QED BY <2>4, <3>1, <3>3, <3>4, <4>3, ConcatProperties
      <3>5. CASE e # "in"
        BY <2>4, <3>1, <3>3, <3>5, ConcatEmptySeq
      <3> QED BY <3>4, <3>5
    <2>9. e = "out" => session["in"].established
      BY <1>1, <1>3, <2>1 DEF Genuine
    <2>10. unread' \subseteq End
      BY <2>6, HandTypes DEF Written
    <2>11. now' \in 0..MaxClock /\ lost' \in BOOLEAN /\ news' \in [End -> Nat] /\ stream' \in [End -> StreamSet]
      BY <2>6, HandTypes
    <2>12. PICK v \in Seq(Genuine(e, hello, session["in"].established)) : v = Tail(wire[e])
      BY <1>1
    <2>13. /\ wire' = [x \in End |-> IF x = e THEN v ELSE Write(e, w)[x]]
           /\ UNCHANGED <<hello, self, cut>> /\ session' = [session EXCEPT ![e] = t]
      BY <2>6, <2>7, <2>12
    <2> QED BY <2>1, <2>3, <2>8, <2>9, <2>10, <2>11, <2>13, HandGoOn
  <1>9. CASE verdict # "none"
    <2>1. /\ Stop(e, s, FALSE, verdict, Tail(wire[e]))
          /\ self' = (self \/ (e = "out" /\ verdict = "self_connect"))
      BY <1>3, <1>4, <1>9 DEF Greet
    <2>2. s.established = session[e].established
      BY <1>1 DEF SameFields
    <2>3. ASSUME SelfConnected, ~Excused, ~self'
          PROVE  e = "in" /\ verdict = "self_connect" /\ Tail(wire[e]) = <<>>
      <3>1. e = "in" /\ m.kind = "hello" /\ Tail(wire[e]) = <<>> /\ hello["out"] = hello["in"]
            /\ session[e].state # "Established"
        BY <2>3, SelfReads DEF End
      <3>2. s.state # "Established" /\ expected
        BY <1>1, <1>3, <3>1 DEF SameFields
      <3>3. m.hello = hello["in"]
        BY <1>5, <3>1, <3>2 DEF Other
      <3>4. verdict = "self_connect"
        BY <1>4, <3>1, <3>2, <3>3 DEF Accepts
      <3> QED BY <3>1, <3>4
    <2>4. self' \in BOOLEAN /\ (self => self') /\ (self' => self \/ SelfConnected)
      BY <1>7, <2>1, HandTypes
    <2> QED BY <1>1, <1>6, <1>7, <2>1, <2>2, <2>3, <2>4, HandStop
  <1> QED BY <1>8, <1>9

\* The SYNC counter.
LEMMA CountedEffect ==
    ASSUME NEW s \in SessionSet, NEW m, NEW u, u = Counted(s, m)
    PROVE  /\ u \in SessionSet /\ SameFields(u, s) /\ u.recv = s.recv
           /\ m.kind = "sync_req" => u = s
  <1>1. CASE m.kind = "event" /\ s.pending
    <2>1. u = [s EXCEPT !.received = s.received + 1]
      BY <1>1 DEF Counted
    <2>2. s.received + 1 \in Nat
      BY DEF SessionSet
    <2> QED BY <1>1, <2>1, <2>2 DEF SessionSet, SameFields
  <1>2. CASE m.kind = "sync_done"
    <2>1. u = [s EXCEPT !.pending = FALSE]
      BY <1>2 DEF Counted
    <2> QED BY <1>2, <2>1 DEF SessionSet, SameFields
  <1>3. CASE ~(m.kind = "event" /\ s.pending) /\ m.kind # "sync_done"
    <2>1. u = s
      BY <1>3 DEF Counted
    <2> QED BY <2>1 DEF SameFields
  <1> QED BY <1>1, <1>2, <1>3

\* A message to an established session.
LEMMA HandDeliver ==
    ASSUME HandInv, NEW e \in End, Open(e), ~cut, wire[e] # <<>>, NEW m,
           NEW s, s = Taken(e), s.state = "Established",
           Deliver(e, s, m)
    PROVE  HandInv'
  <1>1. /\ s \in SessionSet /\ SameFields(s, session[e])
        /\ session[e].reason = "none" /\ session[e].end = "open"
        /\ session[e].state = "Established" => session[e].established
    BY ReceiveFacts
  <1>2. /\ wire \in [End -> Seq(Msg)] /\ now \in Nat /\ now \in 0..MaxClock
        /\ stream \in [End -> StreamSet] /\ lost \in BOOLEAN /\ news \in [End -> Nat] /\ unread \subseteq End
    BY HandTypes
  <1>3. PICK v \in Seq(Genuine(e, hello, session["in"].established)) : v = Tail(wire[e])
    BY ReceiveFacts
  <1>4. /\ s.established /\ session[e].established /\ s.end = "open" /\ s.reason = "none"
        /\ session[e].state = "Established"
    BY <1>1 DEF SameFields
  <1>5. ~(SelfConnected /\ ~Excused)
    BY <1>4, SelfReads
  <1>8. s \in SessionSet
    BY <1>1
  <1>9. PICK u \in SessionSet :
           /\ u = Counted(s, m) /\ u.established /\ u.end = "open" /\ u.reason = "none"
    <2>1. PICK u : u = Counted(s, m)
      OBVIOUS
    <2>2. u \in SessionSet /\ SameFields(u, s)
      BY <1>1, <2>1, CountedEffect
    <2> QED BY <1>4, <2>1, <2>2 DEF SameFields
  <1>10. CASE m.kind = "event" /\ SyncExceeded(e, u)
    <2>1. Stop(e, u, FALSE, "none", Tail(wire[e])) /\ self' = self
      BY <1>9, <1>10 DEF Deliver
    <2>2. "none" \in Reason /\ self \in BOOLEAN
      BY HandTypes DEF Reason
    <2>3. u.established = session[e].established
      <3>1. u.established \in BOOLEAN /\ session[e].established \in BOOLEAN
        BY <1>9, HandTypes DEF SessionSet
      <3> QED BY <1>4, <1>9, <3>1
    <2> QED BY <1>5, <1>9, <2>1, <2>2, <2>3, HandStop
  <1>6. CASE m.kind = "sync_req" /\ ~stream[e].on
    <2>1. /\ stream' = [stream EXCEPT ![e] =
                [left |-> Backlog[e], start |-> now, msgs |-> 0, bytes |-> 0, on |-> TRUE]]
          /\ session' = [session EXCEPT ![e] = s]
          /\ wire' = [wire EXCEPT ![e] = v]
          /\ UNCHANGED <<now, hello, news, self, cut, unread, lost>>
      BY <1>3, <1>6, <1>9 DEF Deliver
    <2>2. [left |-> Backlog[e], start |-> now, msgs |-> 0, bytes |-> 0, on |-> TRUE] \in StreamSet
      BY <1>2, SessionAssumption DEF StreamSet, End
    <2>3. stream' \in [End -> StreamSet]
      BY <1>2, <2>1, <2>2
    <2>4. PICK w : w = <<>>
      OBVIOUS
    <2>5. wire' = [x \in End |-> IF x = e THEN v ELSE Write(e, w)[x]]
      <3>1. wire[Other(e)] \o <<>> = wire[Other(e)]
        BY <1>2, OtherEnd, ConcatEmptySeq
      <3>2. Write(e, w)[Other(e)] = wire[Other(e)]
        BY <1>2, <2>4, <3>1, WriteEffect
      <3>3. wire' = [x \in End |-> IF x = e THEN v ELSE wire[x]]
        BY <1>2, <2>1
      <3> QED BY <3>2, <3>3, OtherEnd
    <2>6. w \in Seq(Genuine(Other(e), hello, session'["in"].established))
      BY <2>4, EmptySeq
    <2>7. UNCHANGED <<hello, self, cut>> /\ now' \in 0..MaxClock /\ lost' \in BOOLEAN /\ news' \in [End -> Nat]
          /\ unread' \subseteq End
      BY <1>2, <2>1
    <2>9. /\ s.established /\ ~session[e].established =>
                /\ hello["out"].version = hello["in"].version /\ ~SelfConnected
                /\ e = "out" => session["in"].established
          /\ SelfConnected /\ ~Excused =>
                /\ w = <<>> /\ v = wire[e] /\ s.msgs = session[e].msgs
                /\ s.start = session[e].start /\ s.state = session[e].state
                /\ unread' = unread /\ stream' = stream
      BY <1>4, <1>5
    <2>10. session' = [session EXCEPT ![e] = s]
      BY <2>1
    <2> QED BY <1>4, <1>8, <2>3, <2>5, <2>6, <2>7, <2>9, <2>10, HandGoOn
  <1>7. CASE ~(m.kind = "sync_req" /\ ~stream[e].on) /\ ~(m.kind = "event" /\ SyncExceeded(e, u))
    <2>1. PICK w : /\ GoOn(e, u, w)
                   /\ w \in {<<>>, <<Message("pong")>>, <<Message("peers")>>}
      BY <1>7, <1>9 DEF Deliver
    <2>2. /\ session' = [session EXCEPT ![e] = u]
          /\ wire' = [Write(e, w) EXCEPT ![e] = Tail(Write(e, w)[e])]
          /\ Written(e, w)
          /\ UNCHANGED <<now, hello, stream, news, self, cut, lost>>
      BY <2>1 DEF GoOn
    <2>3. wire' = [x \in End |-> IF x = e THEN v ELSE Write(e, w)[x]]
      BY <1>2, <1>3, <2>2, WriteEffect
    <2>4. w \in Seq(Genuine(Other(e), hello, session'["in"].established))
      <3>1. PICK G : G = Genuine(Other(e), hello, session'["in"].established)
        OBVIOUS
      <3>2. Message("pong") \in G /\ Message("peers") \in G
        BY <1>2, <3>1, PlainSent, OtherEnd DEF Kind
      <3>3. <<>> \in Seq(G) /\ <<Message("pong")>> \in Seq(G) /\ <<Message("peers")>> \in Seq(G)
        BY <3>2
      <3> QED BY <2>1, <3>1, <3>3
    <2>5. UNCHANGED <<hello, self, cut>> /\ now' \in 0..MaxClock /\ lost' \in BOOLEAN /\ news' \in [End -> Nat]
          /\ unread' \subseteq End /\ stream' \in [End -> StreamSet]
      BY <1>2, <2>2 DEF Written
    <2>9. /\ u.established /\ ~session[e].established =>
                /\ hello["out"].version = hello["in"].version /\ ~SelfConnected
                /\ e = "out" => session["in"].established
          /\ SelfConnected /\ ~Excused =>
                /\ w = <<>> /\ v = wire[e] /\ u.msgs = session[e].msgs
                /\ u.start = session[e].start /\ u.state = session[e].state
                /\ unread' = unread /\ stream' = stream
      BY <1>4, <1>5
    <2>10. session' = [session EXCEPT ![e] = u]
      BY <2>2
    <2> QED BY <1>4, <1>9, <2>3, <2>4, <2>5, <2>9, <2>10, HandGoOn
  <1> QED BY <1>6, <1>7, <1>10

\* The read branch of pump().
LEMMA HandReceive ==
    ASSUME HandInv, NEW e \in End, Receive(e)
    PROVE  HandInv'
  <1>1. Open(e) /\ ~cut /\ wire[e] # <<>>
    BY DEF Receive
  <1>2. PICK m : m = Head(wire[e])
    OBVIOUS
  <1>3. PICK s : s = Taken(e)
    OBVIOUS
  <1>4. /\ s \in SessionSet /\ session[e] \in SessionSet
        /\ s.established = session[e].established /\ s.state = session[e].state
        /\ m \in Genuine(e, hello, session["in"].established) /\ m \in Msg
    BY <1>1, <1>2, <1>3, ReceiveFacts, HandTypes DEF SameFields
  <1>5. m.kind \in Kind /\ MaxMsgs \in Nat /\ MaxMsgs >= 1
        /\ session[e].established \in BOOLEAN
    BY <1>4, MsgParts, SessionAssumption DEF SessionSet
  <1>a. (CASE m.kind = "eof" -> EndOfStream(e)
          [] m.kind = "reset" -> Stop(e, session[e], FALSE, "none", <<>>) /\ UNCHANGED self
          [] m.kind \notin {"eof", "reset"} /\ Limited(s) ->
                Stop(e, s, FALSE, "rate_limited", Tail(wire[e])) /\ UNCHANGED self
          [] m.kind \in {"hello", "hello_ack"} /\ ~Limited(s) -> Greet(e, s, m)
          [] m.kind = "close" /\ ~Limited(s) -> PeerClosed(e, s, m)
          [] OTHER -> IF s.state = "Established" THEN Deliver(e, s, m)
                      ELSE Stop(e, s, FALSE, "invalid_frame", Tail(wire[e])) /\ UNCHANGED self)
    BY <1>2, <1>3 DEF Receive, Taken
  <1>6. ASSUME SelfConnected, ~Excused
        PROVE  /\ ~Limited(s) /\ s.state # "Established" /\ ~s.established
               /\ e = "in" => m.kind = "hello"
               /\ e = "out" => m.kind = "close" /\ m.reason = "self_connect"
    BY <1>1, <1>2, <1>3, <1>4, <1>6, SelfReads
  <1>7. "none" \in Reason /\ "rate_limited" \in Reason /\ "invalid_frame" \in Reason
    BY DEF Reason
  <1>8. self \in BOOLEAN
    BY HandTypes
  <1>9. CASE m.kind = "eof"
    <2>1. Stop(e, session[e], session[e].established, "none", <<>>) /\ self' = self
      BY <1>a, <1>9 DEF EndOfStream
    <2>2. ~(SelfConnected /\ ~Excused)
      BY <1>6, <1>9 DEF End
    <2> QED BY <1>1, <1>4, <1>5, <1>7, <1>8, <2>1, <2>2, HandStop
  <1>10. CASE m.kind = "reset"
    <2>1. Stop(e, session[e], FALSE, "none", <<>>) /\ self' = self
      BY <1>a, <1>10
    <2>2. ~(SelfConnected /\ ~Excused)
      BY <1>6, <1>10 DEF End
    <2> QED BY <1>1, <1>4, <1>7, <1>8, <2>1, <2>2, HandStop
  <1>11. CASE m.kind \notin {"eof", "reset"} /\ Limited(s)
    <2>1. Stop(e, s, FALSE, "rate_limited", Tail(wire[e])) /\ self' = self
      BY <1>5, <1>a, <1>11
    <2>2. ~(SelfConnected /\ ~Excused)
      BY <1>5, <1>6, <1>11
    <2> QED BY <1>1, <1>4, <1>7, <1>8, <2>1, <2>2, HandStop
  <1>12. CASE m.kind \in {"hello", "hello_ack"} /\ ~Limited(s)
    <2>1. Greet(e, s, m)
      BY <1>5, <1>a, <1>12
    <2> QED BY <1>1, <1>2, <1>3, <1>12, <2>1, HandGreet
  <1>13. CASE m.kind = "close" /\ ~Limited(s)
    <2>1. PeerClosed(e, s, m)
      BY <1>5, <1>a, <1>13
    <2>2. /\ Stop(e, s, s.established, "none", Tail(wire[e]))
          /\ self' = (self \/ (e = "out" /\ ~s.established /\ m.reason = "self_connect"))
      BY <2>1 DEF PeerClosed
    <2>3. m.reason = "self_connect" => SelfConnected
      BY <1>4, <1>13 DEF Genuine, SelfConnected
    <2>4. self' \in BOOLEAN /\ (self => self') /\ (self' => self \/ SelfConnected)
      BY <1>8, <2>2, <2>3
    <2>5. SelfConnected /\ ~Excused => self'
      BY <1>6, <1>13, <2>2 DEF End
    <2> QED BY <1>1, <1>4, <1>5, <1>7, <2>2, <2>4, <2>5, HandStop
  <1>14. CASE m.kind \notin {"eof", "reset", "hello", "hello_ack", "close"} /\ ~Limited(s)
    <2>1. IF s.state = "Established" THEN Deliver(e, s, m)
          ELSE Stop(e, s, FALSE, "invalid_frame", Tail(wire[e])) /\ self' = self
      BY <1>5, <1>a, <1>14
    <2>2. CASE s.state = "Established"
      BY <1>1, <1>3, <2>1, <2>2, HandDeliver
    <2>3. CASE s.state # "Established"
      <3>1. Stop(e, s, FALSE, "invalid_frame", Tail(wire[e])) /\ self' = self
        BY <2>1, <2>3
      <3>2. ~(SelfConnected /\ ~Excused)
        BY <1>6, <1>14 DEF End
      <3> QED BY <1>1, <1>4, <1>7, <1>8, <3>1, <3>2, HandStop
    <2> QED BY <2>2, <2>3
  <1> QED BY <1>5, <1>9, <1>10, <1>11, <1>12, <1>13, <1>14

\* The session after a look at the timer.
LEMMA PollFacts ==
    ASSUME HandInv, NEW e \in End, NEW s, s = [session[e] EXCEPT !.poll = now + TickEvery]
    PROVE  /\ s \in SessionSet /\ s.poll = now + TickEvery /\ s.recv = session[e].recv
           /\ s.ping = session[e].ping /\ s.established = session[e].established
           /\ s.end = session[e].end /\ s.reason = session[e].reason
           /\ s.state = session[e].state /\ s.timeout = session[e].timeout
           /\ s.msgs = session[e].msgs /\ s.start = session[e].start
           /\ s.recv \in Nat /\ s.ping \in Nat /\ s.established \in BOOLEAN
  <1>1. PICK n \in Nat : n = now + TickEvery
    BY HandTypes, SessionAssumption
  <1>2. PICK t \in SessionSet : t = session[e]
    BY HandTypes
  <1>3. s = [t EXCEPT !.poll = n]
    BY <1>1, <1>2
  <1>4. /\ s \in SessionSet /\ s.poll = n /\ s.recv = t.recv
        /\ s.ping = t.ping /\ s.established = t.established /\ s.end = t.end
        /\ s.reason = t.reason /\ s.state = t.state /\ s.timeout = t.timeout
        /\ s.msgs = t.msgs /\ s.start = t.start
        /\ s.recv \in Nat /\ s.ping \in Nat /\ s.established \in BOOLEAN
    BY <1>3 DEF SessionSet
  <1> QED BY <1>1, <1>2, <1>4

\* The keepalive branch of pump().
LEMMA HandPoll ==
    ASSUME HandInv, NEW e \in End, Poll(e)
    PROVE  HandInv'
  <1>1. PICK s : s = [session[e] EXCEPT !.poll = now + TickEvery]
    OBVIOUS
  <1>2. /\ s \in SessionSet /\ s.established = session[e].established
        /\ s.end = session[e].end /\ s.reason = session[e].reason /\ s.state = session[e].state
        /\ s.msgs = session[e].msgs /\ s.start = session[e].start /\ s.established \in BOOLEAN
    BY <1>1, PollFacts
  <1>3. Open(e) /\ session[e].reason = "none" /\ session[e].end = "open"
        /\ (session[e].state = "Established" => session[e].established)
    BY DEF Poll, HandInv, StateSound, Open
  <1>4. PICK due \in BOOLEAN : due <=> now - s.ping >= Interval
    OBVIOUS
  <1>5. PICK w : w = IF due /\ s.established THEN <<Message("ping")>> ELSE <<>>
    OBVIOUS
  <1>6. CASE TimedOut(s)
    <2>1. PICK t : t = [s EXCEPT !.timeout = TRUE]
      OBVIOUS
    <2>2. t \in SessionSet /\ t.established = s.established
      BY <1>2, <2>1 DEF SessionSet
    <2>3. Stop(e, t, FALSE, "going_away", wire[e]) /\ self' = self
      BY <1>1, <1>6, <2>1 DEF Poll
    <2>4. "going_away" \in Reason /\ self \in BOOLEAN
      BY HandTypes DEF Reason
    <2> QED BY <1>2, <1>3, <2>2, <2>3, <2>4, HandStop
  <1>7. CASE ~TimedOut(s)
    <2>1. PICK t : t = IF due THEN [s EXCEPT !.ping = now] ELSE s
      OBVIOUS
    <2>2. /\ t \in SessionSet /\ t.established = s.established /\ t.end = s.end
          /\ t.reason = s.reason /\ t.state = s.state /\ t.msgs = s.msgs /\ t.start = s.start
      <3>1. now \in Nat
        BY HandTypes
      <3>2. PICK u : u = [s EXCEPT !.ping = now]
        OBVIOUS
      <3>3. /\ u \in SessionSet /\ u.established = s.established /\ u.end = s.end
            /\ u.reason = s.reason /\ u.state = s.state /\ u.msgs = s.msgs /\ u.start = s.start
        BY <1>2, <3>1, <3>2 DEF SessionSet
      <3> QED BY <1>2, <2>1, <3>2, <3>3
    <2>3. /\ session' = [session EXCEPT ![e] = t] /\ wire' = Write(e, w) /\ Written(e, w)
          /\ UNCHANGED <<now, hello, stream, news, self, cut, lost>>
      BY <1>1, <1>4, <1>5, <1>7, <2>1 DEF Poll
    <2>4. PICK v \in Seq(Genuine(e, hello, session["in"].established)) : v = wire[e]
      BY HandTypes
    <2>5. wire' = [x \in End |-> IF x = e THEN v ELSE Write(e, w)[x]]
      <3>1. wire \in [End -> Seq(Msg)]
        BY HandTypes
      <3>2. Write(e, w)[e] = wire[e] /\ Write(e, w) = [x \in End |-> Write(e, w)[x]]
        BY <3>1, WriteEffect
      <3> QED BY <2>3, <2>4, <3>2
    <2>6. w \in Seq(Genuine(Other(e), hello, session'["in"].established))
      <3>1. PICK G : G = Genuine(Other(e), hello, session'["in"].established)
        OBVIOUS
      <3>2. Message("ping") \in G
        BY <3>1, HandTypes, PlainSent, OtherEnd DEF Kind
      <3>3. <<>> \in Seq(G) /\ <<Message("ping")>> \in Seq(G)
        BY <3>2
      <3> QED BY <1>5, <3>1, <3>3
    <2>7. /\ now' \in 0..MaxClock /\ UNCHANGED <<hello, self, cut>> /\ lost' \in BOOLEAN /\ news' \in [End -> Nat]
          /\ stream' \in [End -> StreamSet] /\ unread' \subseteq End
      BY <2>3, HandTypes DEF Written
    <2>8. ASSUME SelfConnected, ~Excused
          PROVE  /\ w = <<>> /\ v = wire[e] /\ unread' = unread /\ stream' = stream
      <3>1. ~session[e].established
        BY <2>8 DEF HandInv, StateSound, End
      <3> QED BY <1>2, <1>5, <2>3, <2>4, <3>1 DEF Written
    <2>9. /\ t.end = "open" /\ t.reason = "none" /\ t.established = session[e].established
          /\ t.state = "Established" => t.established
          /\ t.msgs = session[e].msgs /\ t.start = session[e].start /\ t.state = session[e].state
      BY <1>2, <1>3, <2>2
    <2>10. session' = [session EXCEPT ![e] = t] /\ t \in SessionSet
      BY <2>2, <2>3
    <2>11. /\ t.established /\ ~session[e].established =>
                /\ hello["out"].version = hello["in"].version /\ ~SelfConnected
                /\ e = "out" => session["in"].established
           /\ SelfConnected /\ ~Excused =>
                /\ w = <<>> /\ v = wire[e] /\ t.msgs = session[e].msgs
                /\ t.start = session[e].start /\ t.state = session[e].state
                /\ unread' = unread /\ stream' = stream
      BY <2>8, <2>9
    <2> QED BY <1>3, <2>5, <2>6, <2>7, <2>9, <2>10, <2>11, HandGoOn
  <1> QED BY <1>6, <1>7

\* The answer to SYNC_REQ.
LEMMA HandStream ==
    ASSUME HandInv, NEW e \in End, Stream(e)
    PROVE  HandInv'
  <1>1. /\ session \in [End -> SessionSet] /\ stream \in [End -> StreamSet]
        /\ wire \in [End -> Seq(Msg)] /\ now \in Nat
    BY HandTypes
  <1>2. Open(e) /\ session[e].reason = "none" /\ session[e].end = "open"
        /\ (session[e].state = "Established" => session[e].established)
    BY DEF Stream, HandInv, StateSound, Open
  <1>3. PICK t \in StreamSet : t = stream[e]
    BY <1>1
  <1>4. stream' \in [End -> StreamSet]
    <2>1. CASE t.left = 0
      <3>1. stream' = [stream EXCEPT ![e] = [t EXCEPT !.on = FALSE]]
        BY <1>3, <2>1 DEF Stream
      <3>2. [t EXCEPT !.on = FALSE] \in StreamSet
        BY DEF StreamSet
      <3> QED BY <1>1, <3>1, <3>2
    <2>2. CASE t.left # 0
      <3>1. stream' = [stream EXCEPT ![e] = NextWindow(t)]
        BY <1>3, <2>2 DEF Stream
      <3>2. /\ t.left - 1 \in Nat /\ t.msgs + 1 \in Nat
            /\ t.bytes + Size["event"] \in Nat /\ Size["event"] \in Nat
        <4>1. Size["event"] \in Nat
          BY SessionAssumption DEF Kind
        <4> QED BY <2>2, <4>1 DEF StreamSet
      <3>3. NextWindow(t) \in StreamSet
        BY <1>1, <3>2 DEF NextWindow, StreamSet
      <3> QED BY <1>1, <3>1, <3>3
    <2> QED BY <2>1, <2>2
  <1>5. PICK w : /\ w = <<Message(IF stream[e].left = 0 THEN "sync_done" ELSE "event")>>
                 /\ wire' = Write(e, w) /\ Written(e, w)
    BY DEF Stream
  <1>6. UNCHANGED <<now, hello, session, news, self, cut, lost>>
    BY DEF Stream
  <1>7. w \in Seq(Genuine(Other(e), hello, session'["in"].established))
    <2>1. PICK G : G = Genuine(Other(e), hello, session'["in"].established)
      OBVIOUS
    <2>2. Message("sync_done") \in G /\ Message("event") \in G
      BY <1>1, <2>1, PlainSent, OtherEnd DEF Kind
    <2>3. <<Message("sync_done")>> \in Seq(G) /\ <<Message("event")>> \in Seq(G)
      BY <2>2
    <2> QED BY <1>5, <2>1, <2>3
  <1>8. PICK v \in Seq(Genuine(e, hello, session["in"].established)) : v = wire[e]
    BY HandTypes
  <1>9. wire' = [x \in End |-> IF x = e THEN v ELSE Write(e, w)[x]]
    <2>1. Write(e, w)[e] = wire[e] /\ Write(e, w) = [x \in End |-> Write(e, w)[x]]
      BY <1>1, WriteEffect
    <2> QED BY <1>5, <1>8, <2>1
  <1>10. PICK s \in SessionSet : s = session[e]
    BY <1>1
  <1>11. session' = [session EXCEPT ![e] = s]
    BY <1>1, <1>6, <1>10
  <1>12. ~(SelfConnected /\ ~Excused)
    BY DEF HandInv, SelfState, Stream
  <1>13. /\ now' \in 0..MaxClock /\ UNCHANGED <<hello, self, cut>> /\ lost' \in BOOLEAN /\ news' \in [End -> Nat]
         /\ unread' \subseteq End
    BY <1>5, <1>6, HandTypes DEF Written
  <1>14. /\ s.end = "open" /\ s.reason = "none" /\ s.established = session[e].established
         /\ s.state = "Established" => s.established
    BY <1>2, <1>10
  <1>15. /\ s.established /\ ~session[e].established =>
              /\ hello["out"].version = hello["in"].version /\ ~SelfConnected
              /\ e = "out" => session["in"].established
         /\ SelfConnected /\ ~Excused =>
              /\ w = <<>> /\ v = wire[e] /\ s.msgs = session[e].msgs
              /\ s.start = session[e].start /\ s.state = session[e].state
              /\ unread' = unread /\ stream' = stream
    BY <1>12, <1>14
  <1> QED BY <1>2, <1>4, <1>7, <1>9, <1>11, <1>13, <1>14, <1>15, HandGoOn

\* An EVENT of the hub.
LEMMA HandBroadcast ==
    ASSUME HandInv, NEW e \in End, Broadcast(e)
    PROVE  HandInv'
  <1>1. /\ session \in [End -> SessionSet] /\ stream \in [End -> StreamSet]
        /\ wire \in [End -> Seq(Msg)] /\ now \in Nat /\ news \in [End -> Nat]
    BY HandTypes
  <1>2. Open(e) /\ session[e].reason = "none" /\ session[e].end = "open"
        /\ (session[e].state = "Established" => session[e].established)
    BY DEF Broadcast, HandInv, StateSound, Open
  <1>3. PICK w : w = <<Message("event")>>
    OBVIOUS
  <1>4. /\ wire' = Write(e, w) /\ Written(e, w)
        /\ session[e].established /\ news[e] > 0 /\ news' = [news EXCEPT ![e] = news[e] - 1]
        /\ UNCHANGED <<now, hello, session, stream, self, cut, lost>>
    BY <1>3 DEF Broadcast
  <1>5. news' \in [End -> Nat]
    <2>1. news[e] - 1 \in Nat
      BY <1>1, <1>4
    <2> QED BY <1>1, <1>4, <2>1
  <1>6. w \in Seq(Genuine(Other(e), hello, session'["in"].established))
    <2>1. PICK G : G = Genuine(Other(e), hello, session'["in"].established)
      OBVIOUS
    <2>2. Message("event") \in G
      BY <1>1, <2>1, PlainSent, OtherEnd DEF Kind
    <2> QED BY <1>3, <2>1, <2>2
  <1>7. PICK v \in Seq(Genuine(e, hello, session["in"].established)) : v = wire[e]
    BY HandTypes
  <1>8. wire' = [x \in End |-> IF x = e THEN v ELSE Write(e, w)[x]]
    <2>1. Write(e, w)[e] = wire[e] /\ Write(e, w) = [x \in End |-> Write(e, w)[x]]
      BY <1>1, WriteEffect
    <2> QED BY <1>4, <1>7, <2>1
  <1>9. PICK s \in SessionSet : s = session[e]
    BY <1>1
  <1>10. session' = [session EXCEPT ![e] = s]
    BY <1>1, <1>4, <1>9
  <1>11. ~SelfConnected
    BY <1>4 DEF HandInv, StateSound, End
  <1>12. /\ now' \in 0..MaxClock /\ UNCHANGED <<hello, self, cut>> /\ lost' \in BOOLEAN
         /\ unread' \subseteq End /\ stream' \in [End -> StreamSet]
    BY <1>4, HandTypes DEF Written
  <1>13. /\ s.end = "open" /\ s.reason = "none" /\ s.established = session[e].established
         /\ s.state = "Established" => s.established
    BY <1>2, <1>9
  <1>14. /\ s.established /\ ~session[e].established =>
              /\ hello["out"].version = hello["in"].version /\ ~SelfConnected
              /\ e = "out" => session["in"].established
         /\ SelfConnected /\ ~Excused =>
              /\ w = <<>> /\ v = wire[e] /\ s.msgs = session[e].msgs
              /\ s.start = session[e].start /\ s.state = session[e].state
              /\ unread' = unread /\ stream' = stream
    BY <1>11, <1>13
  <1> QED BY <1>2, <1>5, <1>6, <1>8, <1>10, <1>12, <1>13, <1>14, HandGoOn

\* Whoever wants to stop says so; a node that dies says nothing; a reset
\* overtakes what was not read; a cut network loses everything; time passes.
LEMMA HandOthers ==
    ASSUME HandInv,
           \/ \E e \in End : Reset(e) \/ Shutdown(e) \/ Crash(e)
           \/ RefuseInbound \/ Cut \/ Tick \/ UNCHANGED vars
    PROVE  HandInv'
  <1>1. TypeOK /\ WireSound /\ StateSound /\ SelfState /\ (self => SelfConnected)
    BY DEF HandInv
  <1>2. /\ now \in Nat /\ now \in 0..MaxClock /\ hello \in [End -> HelloSet]
        /\ session \in [End -> SessionSet] /\ stream \in [End -> StreamSet]
        /\ wire \in [End -> Seq(Msg)] /\ unread \subseteq End
        /\ \A e \in End : wire[e] \in Seq(Genuine(e, hello, session["in"].established))
        /\ self \in BOOLEAN /\ cut \in BOOLEAN /\ lost \in BOOLEAN /\ news \in [End -> Nat]
    BY HandTypes
  <1>3. PICK est \in BOOLEAN : est = session["in"].established
    BY HandTypes DEF End
  <1>4. "going_away" \in Reason
    BY DEF Reason
  <1>5. ASSUME NEW e \in End, Shutdown(e) PROVE HandInv'
    <2>1. Open(e) /\ Stop(e, session[e], TRUE, "going_away", wire[e]) /\ self' = self
          /\ session[e] \in SessionSet
      BY <1>2, <1>5 DEF Shutdown
    <2> QED BY <1>2, <1>4, <2>1, HandStop
  <1>6. CASE RefuseInbound
    <2>1. /\ Open("in") /\ Stop("in", session["in"], FALSE, "going_away", wire["in"])
          /\ self' = self /\ "in" \in End /\ session["in"] \in SessionSet
      BY <1>2, <1>6 DEF RefuseInbound, End
    <2> QED BY <1>2, <1>4, <2>1, HandStop
  <1>7. ASSUME NEW e \in End, Reset(e) PROVE HandInv'
    <2>1. PICK r : r = Message("reset")
      OBVIOUS
    <2>2. /\ e \in unread /\ wire' = [wire EXCEPT ![e] = <<r>>]
          /\ unread' = unread \ {e} /\ lost' = TRUE
          /\ UNCHANGED <<now, hello, session, stream, news, self, cut>>
      BY <1>7, <2>1 DEF Reset
    <2>3. <<r>> \in Seq(Genuine(e, hello, est))
      <3>1. r \in Genuine(e, hello, est)
        BY <1>2, <2>1, PlainSent DEF Kind
      <3> QED BY <3>1
    <2>4. /\ wire' = [x \in End |-> wire'[x]]
          /\ \A x \in End : wire'[x] \in Seq(Genuine(x, hello', session'["in"].established))
      BY <1>2, <1>3, <2>2, <2>3
    <2>5. WireSound' /\ wire' \in [End -> Seq(Msg)]
      BY <1>3, <2>2, <2>4, WireStep
    <2>6. TypeOK'
      BY <1>2, <2>2, <2>5, TypeStep
    <2>7. StateSound' /\ (self' => SelfConnected')
      BY <1>1, <2>2 DEF StateSound, SelfConnected, Open
    <2>8. SelfState'
      BY <1>1, <2>2 DEF SelfState, SelfConnected, Excused
    <2> QED BY <2>5, <2>6, <2>7, <2>8 DEF HandInv
  <1>8. ASSUME NEW e \in End, Crash(e) PROVE HandInv'
    <2>1. PICK s \in SessionSet : s = session[e]
      BY <1>2
    <2>2. PICK t : t = [s EXCEPT !.state = "Closed", !.end = "Crashed"]
      OBVIOUS
    <2>3. /\ t \in SessionSet /\ t.state = "Closed" /\ t.end = "Crashed"
          /\ t.established = s.established
      BY <2>2 DEF SessionSet
    <2>4. session' = [session EXCEPT ![e] = t]
      BY <1>2, <1>8, <2>1, <2>2 DEF Crash
    <2>5. PICK f \in End : f = Other(e) /\ f # e /\ End = {e, f}
      BY OtherEnd
    <2>6. session' \in [End -> SessionSet] /\ session'[e] = t /\ session'[f] = session[f]
      BY <1>2, <2>3, <2>4, <2>5
    <2>7. \A x \in End : session'[x].established = session[x].established
      BY <2>1, <2>3, <2>5, <2>6
    <2>8. PICK w : w = <<Message("eof")>>
      OBVIOUS
    <2>9. w \in Seq(Genuine(f, hello, est))
      <3>1. Message("eof") \in Genuine(f, hello, est)
        BY <1>2, PlainSent DEF Kind
      <3> QED BY <2>8, <3>1
    <2>10. /\ wire' = [Write(e, w) EXCEPT ![e] = <<>>]
           /\ unread' = IF wire[e] # <<>> THEN unread \union {f} ELSE unread
           /\ stream' = [stream EXCEPT ![e] = [stream[e] EXCEPT !.left = 0, !.on = FALSE]]
           /\ UNCHANGED <<now, hello, news, self, cut, lost>>
      BY <1>8, <2>5, <2>8 DEF Crash
    <2>11. wire' = [x \in End |-> IF x = e THEN <<>> ELSE Write(e, w)[x]]
      BY <1>2, <2>10, WriteEffect
    <2>12. Write(e, w)[Other(e)] = IF cut \/ ~Open(Other(e)) THEN wire[Other(e)]
                                   ELSE wire[Other(e)] \o w
      BY <1>2, WriteEffect
    <2>13. /\ wire' = [x \in End |-> wire'[x]] /\ wire'[e] = <<>>
           /\ wire'[f] = wire[f] \/ wire'[f] = wire[f] \o w
      BY <2>5, <2>11, <2>12
    <2>14. wire[f] \o w \in Seq(Genuine(f, hello, est)) /\ <<>> \in Seq(Genuine(e, hello, est))
           /\ wire[f] \in Seq(Genuine(f, hello, est))
      BY <1>2, <1>3, <2>9, ConcatProperties, EmptySeq
    <2>15. \A x \in End : wire'[x] \in Seq(Genuine(x, hello', session'["in"].established))
      <3>1. session'["in"].established = est /\ hello' = hello
        BY <1>3, <2>7, <2>10 DEF End
      <3>2. wire'[f] \in Seq(Genuine(f, hello, est)) /\ wire'[e] \in Seq(Genuine(e, hello, est))
        BY <2>13, <2>14
      <3> QED BY <2>5, <3>1, <3>2
    <2>16. WireSound' /\ wire' \in [End -> Seq(Msg)]
      <3>1. session'["in"].established \in BOOLEAN
        BY <1>3, <2>7 DEF End
      <3> QED BY <2>13, <2>15, <3>1, WireStep
    <2>17. stream' \in [End -> StreamSet]
      <3>1. PICK u \in StreamSet : u = stream[e]
        BY <1>2
      <3>2. [u EXCEPT !.left = 0, !.on = FALSE] \in StreamSet
        BY DEF StreamSet
      <3> QED BY <1>2, <2>10, <3>1, <3>2
    <2>18. TypeOK'
      <3>1. unread' \subseteq End
        BY <1>2, <2>5, <2>10
      <3> QED BY <1>2, <2>6, <2>10, <2>16, <2>17, <3>1, TypeStep
    <2>19. SelfConnected' <=> SelfConnected
      BY <2>10 DEF SelfConnected
    <2>20. StateSound' /\ (self' => SelfConnected')
      <3>1. \A x \in End : (Open(x))' => session'[x].reason = "none"
        BY <1>1, <2>3, <2>5, <2>6 DEF StateSound, Open
      <3>2. \A x \in End : session'[x].state = "Established" => session'[x].established
        BY <1>1, <2>3, <2>5, <2>6 DEF StateSound
      <3> QED BY <1>1, <2>7, <2>10, <2>19, <3>1, <3>2 DEF StateSound, End
    <2>21. SelfState'
      BY <2>3, <2>6 DEF SelfState, Excused
    <2> QED BY <2>16, <2>18, <2>20, <2>21 DEF HandInv
  <1>9. CASE Cut
    <2>1. /\ cut' = TRUE /\ wire' = [e \in End |-> <<>>]
          /\ UNCHANGED <<now, hello, session, stream, news, self, unread, lost>>
      BY <1>9 DEF Cut
    <2>2. \A x \in End : wire'[x] \in Seq(Genuine(x, hello', session'["in"].established))
      BY <2>1, EmptySeq
    <2>3. WireSound' /\ wire' \in [End -> Seq(Msg)]
      BY <1>3, <2>1, <2>2, WireStep
    <2>4. TypeOK'
      BY <1>2, <2>1, <2>3, TypeStep
    <2>5. StateSound' /\ (self' => SelfConnected')
      BY <1>1, <2>1 DEF StateSound, SelfConnected, Open
    <2>6. SelfState'
      BY <2>1 DEF SelfState, Excused
    <2> QED BY <2>3, <2>4, <2>5, <2>6 DEF HandInv
  <1>10. CASE Tick \/ UNCHANGED vars
    <2>1. UNCHANGED <<hello, session, wire, stream, news, self, cut, unread, lost>>
      BY <1>10 DEF Tick, vars
    <2>2. now' \in 0..MaxClock
      BY <1>2, <1>10, SessionAssumption DEF Tick, vars
    <2>3. TypeOK'
      BY <1>2, <2>1, <2>2, TypeStep
    <2>4. WireSound' /\ StateSound' /\ (self' => SelfConnected')
      BY <1>1, <2>1 DEF WireSound, StateSound, SelfConnected, Open
    <2>5. SelfState'
      BY <1>1, <2>1 DEF SelfState, SelfConnected, Excused, Fresh, Open
    <2> QED BY <2>3, <2>4, <2>5 DEF HandInv
  <1> QED BY <1>5, <1>6, <1>7, <1>8, <1>9, <1>10

\* Every step keeps the invariant.
LEMMA HandStep ==
    ASSUME HandInv, [Next]_vars
    PROVE  HandInv'
  BY HandReceive, HandPoll, HandStream, HandBroadcast, HandOthers DEF Next

\* Initially the HELLO of the dialling end is on its way.
LEMMA InitHand == Init => HandInv
  <1> SUFFICES ASSUME Init PROVE HandInv
    OBVIOUS
  <1>1. /\ now = 0 /\ hello \in [End -> HelloSet]
        /\ hello["out"].nonce = hello["in"].nonce => hello["out"] = hello["in"]
        /\ session = [e \in End |-> NewSession(IF e = "out" THEN "HelloSent" ELSE "Connecting")]
        /\ wire = [e \in End |-> IF e = "in" THEN <<Greeting("hello", "out")>> ELSE <<>>]
        /\ stream = [e \in End |-> [left |-> 0, start |-> 0, msgs |-> 0, bytes |-> 0, on |-> FALSE]]
        /\ self = FALSE /\ cut = FALSE /\ unread = {} /\ lost = FALSE
        /\ news \in [End -> Nat]
    BY SessionAssumption DEF Init, HelloSet
  <1>2. \A st \in {"HelloSent", "Connecting"} :
           /\ NewSession(st) \in SessionSet /\ NewSession(st).state = st
           /\ ~NewSession(st).established /\ NewSession(st).end = "open"
           /\ NewSession(st).reason = "none" /\ NewSession(st).msgs = 0
           /\ NewSession(st).start = -Second
    <2>1. -Second \in Int /\ TickEvery \in Nat
      BY SessionAssumption
    <2> QED BY <2>1 DEF NewSession, SessionSet, Reason
  <1>3. session \in [End -> SessionSet]
    BY <1>1, <1>2
  <1>4. "in" \in End /\ "out" \in End
    BY DEF End
  <1>5. /\ \A e \in End : /\ Fresh(e) /\ ~session[e].established /\ session[e].reason = "none"
                          /\ session[e].state # "Established"
        /\ session["in"].state = "Connecting"
    BY <1>1, <1>2, <1>4 DEF Fresh, Open
  <1>6. now \in Nat /\ now \in 0..MaxClock
    BY <1>1, SessionAssumption
  <1>7. WireSound /\ Len(wire["in"]) = 1 /\ wire["in"][1].kind = "hello" /\ wire["out"] = <<>>
    <2>1. PICK g : g = Greeting("hello", "out")
      OBVIOUS
    <2>2. PICK est \in BOOLEAN : est = session["in"].established
      BY <1>3, <1>4 DEF SessionSet
    <2>3. g \in Genuine("in", hello, est) /\ g.kind = "hello" /\ g \in Msg
      BY <1>1, <1>4, <1>6, <2>1, GreetingSent DEF Genuine
    <2>4. <<g>> \in Seq(Genuine("in", hello, est)) /\ <<g>> \in Seq(Msg)
      BY <2>3
    <2>5. \A e \in End : wire[e] \in Seq(Genuine(e, hello, est)) /\ wire[e] \in Seq(Msg)
      BY <1>1, <2>1, <2>4, EmptySeq DEF End
    <2> QED BY <1>1, <1>4, <2>1, <2>2, <2>3, <2>5 DEF WireSound
  <1>8. stream \in [End -> StreamSet] /\ \A e \in End : ~stream[e].on
    BY <1>1 DEF StreamSet
  <1>9. TypeOK
    <2>1. \A e \in End : \A i \in DOMAIN wire[e] : wire[e][i].kind \in Kind
      <3>1. ASSUME NEW e \in End, NEW i \in DOMAIN wire[e] PROVE wire[e][i].kind \in Kind
        <4>1. PICK s \in Seq(Msg) : s = wire[e]
          BY <1>7 DEF WireSound
        <4>2. i \in 1..Len(s)
          BY <3>1, <4>1, LenProperties
        <4> QED BY <4>1, <4>2, ElementOfSeq, MsgParts
      <3> QED BY <3>1
    <2> QED BY <1>1, <1>3, <1>6, <1>8, <2>1, Typed
  <1>10. StateSound
    BY <1>1, <1>4, <1>5 DEF StateSound, SelfConnected
  <1>11. SelfState
    BY <1>1, <1>4, <1>5, <1>7, <1>8 DEF SelfState
  <1> QED BY <1>1, <1>7, <1>9, <1>10, <1>11 DEF HandInv

\* The invariant holds throughout.
THEOREM HandInvariant == Spec => []HandInv
  <1>1. HandInv /\ [Next]_vars => HandInv'
    BY HandStep
  <1> QED BY <1>1, InitHand, PTL DEF Spec

\* HandshakeSound for any limits, timers and delays: an outbound end takes the
\* connection for established only after the inbound end did, with the
\* same version and not with itself; note_self_connect is called only for the
\* node's own address, and always for it unless the answer was cut off.
THEOREM HandshakeAlwaysSound == Spec => []HandshakeSound
  <1>1. HandInv => HandshakeSound
    <2> SUFFICES ASSUME HandInv PROVE HandshakeSound
      OBVIOUS
    <2>1. EstablishedTogether
      BY DEF HandInv, StateSound, EstablishedTogether
    <2>2. SelfLearned
      <3>1. SelfConnected /\ ~Open("out") => Excused
        BY DEF HandInv, SelfState, Fresh
      <3> QED BY <3>1 DEF HandInv, SelfLearned, Excused
    <2> QED BY <2>1, <2>2 DEF HandInv, HandshakeSound
  <1> QED BY <1>1, HandInvariant, PTL

-----------------------------------------------------------------------------
(***************************************************************************)
(* The keepalive.  Between two PINGs of an end lie at most an interval and *)
(* a tick of the timer; a message takes at most MaxDelay, and a reset may  *)
(* replace one that has waited for that long.  The timeout must be longer. *)
(* With the constants of the code (60, 5 and 120 seconds) messages may     *)
(* take 27 seconds.                                                        *)
(***************************************************************************)

\* No timer of an end that runs is overdue, and no message to it; it looked at
\* its timers at most a tick after the PING was due, or the timeout.
InTime(x) ==
    /\ session[x].recv <= now /\ session[x].ping <= now
    /\ \A i \in 1..Len(wire[x]) : wire[x][i].at <= now
    /\ Open(x) =>
          /\ now <= session[x].poll
          /\ session[x].poll <= session[x].ping + Gap
          /\ session[x].poll <= session[x].recv + Timeout + TickEvery
          /\ \A i \in 1..Len(wire[x]) : now <= wire[x][i].at + MaxDelay

\* The last that an end hears of one that stopped is that it did.
Told(x) ==
    ~cut /\ Open(x) /\ ~Open(Other(x)) =>
        wire[x] # <<>> /\ wire[x][Len(wire[x])].kind \in {"eof", "reset"}

\* As long as the handshake goes on there is something on its way.
Greeted(x) ==
    ~cut /\ Open(x) /\ ~session[x].established =>
        wire[x] # <<>> \/ (x = "out" /\ Open("in") /\ ~session["in"].established)

\* The next sign of life of the peer was sent in time, or will be: nothing is
\* on its way only while the peer runs and has sent no PING since the last
\* sign of life, or while it has not read yet what it will answer.
Heard(x) ==
    ~cut /\ Open(x) =>
        /\ wire[x] # <<>> =>
              \/ wire[x][1].at <= session[x].recv + Gap
              \/ wire[x][1].kind = "reset" /\ wire[x][1].at <= session[x].recv + Gap + MaxDelay
        /\ wire[x] = <<>> =>
              /\ Open(Other(x))
              /\ session[Other(x)].established => session[Other(x)].ping <= session[x].recv
              /\ ~session[Other(x)].established =>
                    wire[Other(x)] # <<>> /\ wire[Other(x)][1].at <= session[x].recv

\* A reset is due only from an end that stopped.
UnreadSound == \A x \in unread : ~Open(Other(x))

KeepInv ==
    /\ \A x \in End : InTime(x) /\ Told(x) /\ Greeted(x) /\ Heard(x)
    /\ UnreadSound /\ LivePeerKept

\* What is on its way after a write.
LEMMA Appended ==
    ASSUME NEW q \in Seq(Msg), NEW w \in Seq(Msg), NEW p, p = q \o w
    PROVE  /\ p \in Seq(Msg)
           /\ p = <<>> <=> q = <<>> /\ w = <<>>
           /\ q # <<>> => p[1] = q[1]
           /\ q = <<>> => p = w
           /\ w # <<>> => p[Len(p)] = w[Len(w)]
           /\ \A i \in 1..Len(p) : \/ i \in 1..Len(q) /\ p[i] = q[i]
                                   \/ \E j \in 1..Len(w) : p[i] = w[j]
  <1>1. /\ p \in Seq(Msg) /\ Len(p) = Len(q) + Len(w)
        /\ \A i \in 1..Len(p) : p[i] = IF i <= Len(q) THEN q[i] ELSE w[i - Len(q)]
    BY ConcatProperties
  <1>2. PICK a \in Nat, b \in Nat : a = Len(q) /\ b = Len(w)
    BY LenProperties
  <1>3. /\ q = <<>> <=> a = 0
        /\ w = <<>> <=> b = 0
        /\ p = <<>> <=> a + b = 0
    BY <1>1, <1>2, EmptySeq
  <1>4. q = <<>> => p = w
    BY ConcatEmptySeq
  <1>5. q # <<>> => p[1] = q[1]
    BY <1>1, <1>2, <1>3
  <1>6. w # <<>> => p[Len(p)] = w[Len(w)]
    <2>1. ASSUME w # <<>> PROVE p[Len(p)] = w[Len(w)]
      <3>1. b > 0 /\ Len(p) = a + b /\ a + b \in 1..Len(p) /\ ~(a + b <= a) /\ a + b - a = b
        BY <1>1, <1>2, <1>3, <2>1
      <3> QED BY <1>1, <1>2, <3>1
    <2> QED BY <2>1
  <1>7. ASSUME NEW i \in 1..Len(p)
        PROVE  \/ i \in 1..Len(q) /\ p[i] = q[i]
               \/ \E j \in 1..Len(w) : p[i] = w[j]
    <2>1. CASE i <= a
      BY <1>1, <1>2, <1>7, <2>1
    <2>2. CASE ~(i <= a)
      <3>1. i - a \in 1..b /\ p[i] = w[i - a]
        BY <1>1, <1>2, <1>7, <2>2
      <3> QED BY <1>2, <3>1
    <2> QED BY <2>1, <2>2, <1>2
  <1>8. p = <<>> <=> q = <<>> /\ w = <<>>
    BY <1>2, <1>3
  <1> QED BY <1>1, <1>4, <1>5, <1>6, <1>7, <1>8

\* What is on its way after the next message is read.
LEMMA Read ==
    ASSUME NEW q \in Seq(Msg), q # <<>>, NEW p, p = Tail(q)
    PROVE  /\ p \in Seq(Msg) /\ Head(q) = q[1] /\ 1 \in 1..Len(q)
           /\ \A i \in 1..Len(p) : i + 1 \in 1..Len(q) /\ p[i] = q[i + 1]
           /\ p = <<>> => Len(q) = 1
           /\ p # <<>> => 1 \in 1..Len(p) /\ p[Len(p)] = q[Len(q)]
  <1>1. /\ p \in Seq(Msg) /\ Head(q) = q[1] /\ Len(p) = Len(q) - 1
        /\ \A i \in 1..Len(p) : p[i] = q[i + 1]
    BY HeadTailProperties
  <1>2. PICK a \in Nat, b \in Nat : a = Len(q) /\ b = Len(p)
    BY <1>1, LenProperties
  <1>3. a > 0 /\ (p = <<>> <=> b = 0)
    BY <1>1, <1>2, EmptySeq
  <1>4. p # <<>> => b \in 1..b /\ p[b] = q[b + 1] /\ b + 1 = a
    BY <1>1, <1>2, <1>3
  <1> QED BY <1>1, <1>2, <1>3, <1>4

\* The times of an end, as numbers.
LEMMA EndTimes ==
    ASSUME HandInv, NEW x \in End
    PROVE  /\ session[x].recv \in Nat /\ session[x].ping \in Nat /\ session[x].poll \in Nat
           /\ session[x].established \in BOOLEAN /\ session[x].timeout \in BOOLEAN
           /\ now \in Nat /\ Gap \in Nat /\ Gap >= TickEvery /\ Gap >= 0
           /\ Interval \in Nat /\ Timeout \in Nat /\ TickEvery \in Nat /\ MaxDelay \in Nat
           /\ wire[x] \in Seq(Msg) /\ Len(wire[x]) \in Nat
           /\ wire[x] # <<>> => 1 \in 1..Len(wire[x])
           /\ \A i \in 1..Len(wire[x]) : wire[x][i].at \in Nat
  <1>1. session[x] \in SessionSet /\ now \in Nat /\ wire[x] \in Seq(Msg)
    BY HandTypes
  <1>2. /\ session[x].recv \in Nat /\ session[x].ping \in Nat /\ session[x].poll \in Nat
        /\ session[x].established \in BOOLEAN /\ session[x].timeout \in BOOLEAN
    BY <1>1 DEF SessionSet
  <1>3. /\ Gap \in Nat /\ Gap >= TickEvery /\ Gap >= 0
        /\ Interval \in Nat /\ Timeout \in Nat /\ TickEvery \in Nat /\ MaxDelay \in Nat
    BY SessionAssumption DEF Gap
  <1>4. Len(wire[x]) \in Nat /\ (wire[x] # <<>> => 1 \in 1..Len(wire[x]))
    BY <1>1, LenProperties, EmptySeq
  <1>5. \A i \in 1..Len(wire[x]) : wire[x][i].at \in Nat
    <2>1. ASSUME NEW i \in 1..Len(wire[x]) PROVE wire[x][i].at \in Nat
      <3>1. wire[x][i] \in Msg
        BY <1>1, <2>1, ElementOfSeq
      <3> QED BY <3>1, MsgParts
    <2> QED BY <2>1
  <1> QED BY <1>1, <1>2, <1>3, <1>4, <1>5

\* While nothing is on its way the last sign of life is not older than the gap
\* between PINGs, and the peer runs.
LEMMA QuietIsShort ==
    ASSUME HandInv, KeepInv, KeepaliveMargin, NEW x \in End, ~cut, Open(x), wire[x] = <<>>
    PROVE  now <= session[x].recv + Gap /\ Open(Other(x))
  <1>1. PICK y \in End : y = Other(x)
    BY OtherEnd
  <1>2. InTime(y) /\ Heard(x)
    BY DEF KeepInv
  <1>3. /\ Open(y)
        /\ session[y].established => session[y].ping <= session[x].recv
        /\ ~session[y].established => wire[y] # <<>> /\ wire[y][1].at <= session[x].recv
    BY <1>1, <1>2 DEF Heard
  <1>4. PICK r \in Nat, p \in Nat, l \in Nat, n \in Nat :
           r = session[x].recv /\ p = session[y].ping /\ l = session[y].poll /\ n = now
    BY EndTimes
  <1>5. Gap \in Nat /\ MaxDelay \in Nat /\ MaxDelay <= Gap
    BY EndTimes DEF KeepaliveMargin
  <1>6. CASE session[y].established
    <2>1. n <= l /\ l <= p + Gap /\ p <= r
      BY <1>2, <1>3, <1>4, <1>6 DEF InTime
    <2>2. n <= r + Gap
      BY <1>5, <2>1
    <2> QED BY <1>1, <1>3, <1>4, <2>2
  <1>7. CASE ~session[y].established
    <2>1. 1 \in 1..Len(wire[y])
      BY <1>3, <1>7, EndTimes
    <2>2. PICK t \in Nat : t = wire[y][1].at
      BY <2>1, EndTimes
    <2>3. n <= t + MaxDelay /\ t <= r
      BY <1>2, <1>3, <1>4, <1>7, <2>1, <2>2 DEF InTime
    <2>4. n <= r + Gap
      BY <1>5, <2>3
    <2> QED BY <1>1, <1>3, <1>4, <2>4
  <1>8. session[y].established \in BOOLEAN
    BY EndTimes
  <1> QED BY <1>6, <1>7, <1>8

\* An end whose network works is not timed out.
LEMMA NotTimedOut ==
    ASSUME HandInv, KeepInv, KeepaliveMargin, NEW x \in End, ~cut, Open(x)
    PROVE  ~(now - session[x].recv >= Timeout)
  <1>1. InTime(x) /\ Heard(x)
    BY DEF KeepInv
  <1>2. PICK r \in Nat, n \in Nat : r = session[x].recv /\ n = now
    BY EndTimes
  <1>3. Gap \in Nat /\ MaxDelay \in Nat /\ Timeout \in Nat /\ Gap + 2 * MaxDelay < Timeout
    BY EndTimes DEF KeepaliveMargin
  <1>4. CASE wire[x] = <<>>
    <2>1. n <= r + Gap
      BY <1>2, <1>4, QuietIsShort
    <2> QED BY <1>2, <1>3, <2>1
  <1>5. CASE wire[x] # <<>>
    <2>1. 1 \in 1..Len(wire[x])
      BY <1>5, EndTimes
    <2>2. PICK t \in Nat : t = wire[x][1].at
      BY <2>1, EndTimes
    <2>3. n <= t + MaxDelay /\ (t <= r + Gap \/ t <= r + Gap + MaxDelay)
      BY <1>1, <1>2, <1>5, <2>1, <2>2 DEF InTime, Heard
    <2> QED BY <1>2, <1>3, <2>3
  <1> QED BY <1>4, <1>5

\* An end stops or dies: the other one has something to read.
LEMMA KeepStop ==
    ASSUME HandInv, HandInv', KeepInv, KeepaliveMargin, NEW e \in End, Open(e), ~(Open(e))',
           session'[Other(e)] = session[Other(e)],
           session'[e].recv <= now, session'[e].ping <= now, session'[e].timeout => cut,
           now' = now, cut' = cut, unread' \subseteq unread \union {Other(e)},
           wire'[e] = <<>>,
           cut \/ ~Open(Other(e)) => wire'[Other(e)] = wire[Other(e)],
           ~cut /\ Open(Other(e)) =>
               \E final \in Seq(Msg) :
                   /\ final # <<>> /\ \A i \in 1..Len(final) : final[i].at = now
                   /\ final[Len(final)].kind = "eof"
                   /\ wire'[Other(e)] = wire[Other(e)] \o final
    PROVE  KeepInv'
  <1>1. PICK f \in End : f = Other(e) /\ f # e /\ End = {e, f} /\ e = Other(f)
    BY OtherEnd
  <1>2. InTime(f) /\ Heard(f) /\ UnreadSound /\ LivePeerKept
    BY DEF KeepInv
  <1>3. /\ session'[f] = session[f] /\ ((Open(f))' <=> Open(f))
        /\ Len(wire'[e]) = 0
    BY <1>1 DEF Open
  <1>4. (InTime(e))' /\ (Told(e))' /\ (Greeted(e))' /\ (Heard(e))'
    BY <1>3 DEF InTime, Told, Greeted, Heard
  <1>5. (InTime(f))' /\ (Told(f))' /\ (Greeted(f))' /\ (Heard(f))'
    <2>1. CASE cut \/ ~Open(f)
      <3>1. wire'[f] = wire[f]
        BY <1>1, <2>1
      <3>2. (InTime(f))'
        BY <1>2, <1>3, <3>1 DEF InTime
      <3>3. (Told(f))' /\ (Greeted(f))' /\ (Heard(f))'
        BY <1>3, <2>1 DEF Told, Greeted, Heard
      <3> QED BY <3>2, <3>3
    <2>2. CASE ~cut /\ Open(f)
      <3>1. PICK final \in Seq(Msg) :
               /\ final # <<>> /\ \A i \in 1..Len(final) : final[i].at = now
               /\ final[Len(final)].kind = "eof"
               /\ wire'[f] = wire[f] \o final
        BY <1>1, <2>2
      <3>2. PICK q \in Seq(Msg), p \in Seq(Msg) : q = wire[f] /\ p = wire'[f] /\ p = q \o final
        <4>1. wire[f] \in Seq(Msg)
          BY EndTimes
        <4>2. wire[f] \o final \in Seq(Msg)
          BY <3>1, <4>1, ConcatProperties
        <4> QED BY <3>1, <4>1, <4>2
      <3>3. /\ p # <<>> /\ p[Len(p)].kind = "eof"
            /\ q # <<>> => p[1] = q[1]
            /\ q = <<>> => p = final
            /\ \A i \in 1..Len(p) : \/ i \in 1..Len(q) /\ p[i] = q[i]
                                    \/ \E j \in 1..Len(final) : p[i] = final[j]
        <4>1. /\ p = <<>> <=> q = <<>> /\ final = <<>>
              /\ q # <<>> => p[1] = q[1]
              /\ q = <<>> => p = final
              /\ final # <<>> => p[Len(p)] = final[Len(final)]
              /\ \A i \in 1..Len(p) : \/ i \in 1..Len(q) /\ p[i] = q[i]
                                      \/ \E j \in 1..Len(final) : p[i] = final[j]
          <5>1. p = q \o final
            BY <3>2
          <5> QED BY <5>1, Appended
        <4> QED BY <3>1, <4>1
      <3>4. (Told(f))' /\ (Greeted(f))'
        BY <3>2, <3>3 DEF Told, Greeted
      <3>5. \A i \in 1..Len(p) : p[i].at <= now /\ now <= p[i].at + MaxDelay
        <4>1. ASSUME NEW i \in 1..Len(q) PROVE q[i].at <= now /\ now <= q[i].at + MaxDelay
          BY <1>2, <2>2, <3>2, <4>1 DEF InTime
        <4>2. ASSUME NEW j \in 1..Len(final)
              PROVE  final[j].at <= now /\ now <= final[j].at + MaxDelay
          <5>1. final[j].at = now /\ now \in Nat /\ MaxDelay \in Nat
            BY <3>1, <4>2, EndTimes
          <5> QED BY <5>1
        <4> QED BY <3>3, <4>1, <4>2
      <3>6. (InTime(f))'
        BY <1>2, <1>3, <2>2, <3>2, <3>5 DEF InTime
      <3>7. (Heard(f))'
        <4>1. CASE q = <<>>
          <5>1. now <= session[f].recv + Gap
            BY <2>2, <3>2, <4>1, QuietIsShort
          <5>2. 1 \in 1..Len(final)
            BY <3>1, LenProperties, EmptySeq
          <5>3. p[1].at = now
            BY <3>1, <3>3, <4>1, <5>2
          <5> QED BY <1>3, <3>2, <3>3, <5>1, <5>3 DEF Heard
        <4>2. CASE q # <<>>
          <5>1. p[1] = q[1]
            BY <3>3, <4>2
          <5> QED BY <1>2, <1>3, <2>2, <3>2, <3>3, <4>2, <5>1 DEF Heard
        <4> QED BY <4>1, <4>2
      <3> QED BY <3>4, <3>6, <3>7
    <2> QED BY <2>1, <2>2
  <1>7. UnreadSound'
    <2>1. ASSUME NEW x \in unread' PROVE ~(Open(Other(x)))'
      <3>1. CASE x = f
        BY <1>1, <3>1
      <3>2. CASE x # f
        <4>1. x \in unread /\ x \in End
          BY <1>1, <2>1, <3>2, HandTypes
        <4>2. x = e /\ ~Open(f)
          BY <1>1, <1>2, <3>2, <4>1 DEF UnreadSound
        <4> QED BY <1>1, <1>3, <4>2
      <3> QED BY <3>1, <3>2
    <2> QED BY <2>1 DEF UnreadSound
  <1>8. LivePeerKept'
    BY <1>1, <1>2, <1>3 DEF LivePeerKept
  <1>10. \A x \in End : (InTime(x))' /\ (Told(x))' /\ (Greeted(x))' /\ (Heard(x))'
    BY <1>1, <1>4, <1>5
  <1> QED BY <1>7, <1>8, <1>10 DEF KeepInv

\* An end goes on with session s: it has read the next message, or nothing, and
\* written w.
LEMMA KeepGoOn ==
    ASSUME HandInv, KeepInv, KeepaliveMargin, NEW e \in End, Open(e), NEW s \in SessionSet,
           s.end = "open", s.timeout = session[e].timeout,
           session' = [session EXCEPT ![e] = s],
           now' = now, cut' = cut,
           \A x \in unread' : x \in unread \/ (x = e /\ ~Open(Other(e))),
           NEW v \in Seq(Msg), NEW w \in Seq(Msg), \A i \in 1..Len(w) : w[i].at = now,
           wire' = [x \in End |-> IF x = e THEN v ELSE Write(e, w)[x]],
           \/ /\ ~cut /\ wire[e] # <<>> /\ v = Tail(wire[e])
              /\ Head(wire[e]).kind \notin {"eof", "reset"}
              /\ s.recv = now /\ s.ping = session[e].ping /\ s.poll = session[e].poll
              /\ s.established /\ (session[e].established \/ w # <<>>)
           \/ /\ v = wire[e] /\ s.recv = session[e].recv
              /\ s.established = session[e].established
              /\ s.ping = session[e].ping \/ (s.ping = now /\ (s.established => w # <<>>))
              /\ now <= s.poll /\ s.poll <= s.ping + Gap
              /\ s.poll <= s.recv + Timeout + TickEvery
    PROVE  KeepInv'
  <1> DEFINE Reads == v = Tail(wire[e]) /\ s.recv = now /\ ~cut /\ wire[e] # <<>>
                      /\ Head(wire[e]).kind \notin {"eof", "reset"}
                      /\ s.ping = session[e].ping /\ s.poll = session[e].poll
                      /\ s.established /\ (session[e].established \/ w # <<>>)
             Waits == /\ v = wire[e] /\ s.recv = session[e].recv
                      /\ s.established = session[e].established
                      /\ s.ping = session[e].ping \/ (s.ping = now /\ (s.established => w # <<>>))
                      /\ now <= s.poll /\ s.poll <= s.ping + Gap
                      /\ s.poll <= s.recv + Timeout + TickEvery
  <1>0. Reads \/ Waits
    OBVIOUS
  <1> HIDE DEF Reads, Waits
  <1>1. PICK f \in End : f = Other(e) /\ f # e /\ End = {e, f} /\ e = Other(f)
    BY OtherEnd
  <1>2. /\ InTime(e) /\ InTime(f) /\ Heard(e) /\ Heard(f) /\ Told(e) /\ Greeted(e) /\ Greeted(f)
        /\ UnreadSound /\ LivePeerKept
    BY <1>1 DEF KeepInv
  <1>3. /\ session'[e] = s /\ session'[f] = session[f] /\ (Open(e))' /\ ((Open(f))' <=> Open(f))
    BY <1>1, HandTypes DEF Open
  <1>4. PICK q \in Seq(Msg), p \in Seq(Msg) :
           /\ q = wire[f] /\ p = wire'[f]
           /\ p = IF cut \/ ~Open(f) THEN q ELSE q \o w
    <2>1. wire \in [End -> Seq(Msg)]
      BY HandTypes
    <2>2. Write(e, w)[Other(e)] = IF cut \/ ~Open(Other(e)) THEN wire[Other(e)]
                                  ELSE wire[Other(e)] \o w
      BY <2>1, WriteEffect
    <2>3. wire'[f] = IF cut \/ ~Open(f) THEN wire[f] ELSE wire[f] \o w
      BY <1>1, <2>2
    <2>4. wire[f] \in Seq(Msg) /\ wire[f] \o w \in Seq(Msg)
      BY <2>1, ConcatProperties
    <2> QED BY <2>3, <2>4
  <1>5. wire'[e] = v /\ wire[e] \in Seq(Msg)
    BY HandTypes
  <1>6. /\ q # <<>> => p # <<>> /\ p[1] = q[1]
        /\ ~cut /\ Open(f) => /\ p = <<>> <=> q = <<>> /\ w = <<>>
                              /\ q = <<>> => p = w
        /\ cut \/ ~Open(f) => p = q
        /\ \A i \in 1..Len(p) : \/ i \in 1..Len(q) /\ p[i] = q[i]
                                \/ Open(f) /\ \E j \in 1..Len(w) : p[i] = w[j]
    <2>1. CASE cut \/ ~Open(f)
      BY <1>4, <2>1
    <2>2. CASE ~(cut \/ ~Open(f))
      <3>1. p = q \o w
        BY <1>4, <2>2
      <3>2. /\ p = <<>> <=> q = <<>> /\ w = <<>>
            /\ q # <<>> => p[1] = q[1]
            /\ q = <<>> => p = w
            /\ \A i \in 1..Len(p) : \/ i \in 1..Len(q) /\ p[i] = q[i]
                                    \/ \E j \in 1..Len(w) : p[i] = w[j]
        BY <3>1, Appended, SMTT(60)
      <3> QED BY <2>2, <3>2
    <2> QED BY <2>1, <2>2
  <1>7. /\ s.recv \in Nat /\ s.ping \in Nat /\ s.poll \in Nat /\ s.established \in BOOLEAN
        /\ now \in Nat /\ session[e].recv \in Nat /\ session[e].ping \in Nat
        /\ session[e].established \in BOOLEAN /\ MaxDelay \in Nat /\ Timeout \in Nat
        /\ TickEvery \in Nat /\ Gap \in Nat /\ session[e].poll \in Nat
        /\ session[f].recv \in Nat /\ session[f].established \in BOOLEAN
    BY EndTimes DEF SessionSet
  <1>8. Reads => /\ wire[e] \in Seq(Msg) /\ Head(wire[e]) = wire[e][1] /\ 1 \in 1..Len(wire[e])
                 /\ \A i \in 1..Len(v) : i + 1 \in 1..Len(wire[e]) /\ v[i] = wire[e][i + 1]
                 /\ v = <<>> => Len(wire[e]) = 1
                 /\ v # <<>> => 1 \in 1..Len(v) /\ v[Len(v)] = wire[e][Len(wire[e])]
    BY <1>5, Read, ZenonT(60) DEF Reads
  <1>9. \A i \in 1..Len(v) : \E j \in 1..Len(wire[e]) : v[i] = wire[e][j]
    BY <1>0, <1>8 DEF Waits
  <1>10. (InTime(e))'
    <2>1. s.recv <= now /\ s.ping <= now
      <3>1. session[e].recv <= now /\ session[e].ping <= now /\ now <= now
        BY <1>2, <1>7 DEF InTime
      <3>2. s.recv \in {now, session[e].recv} /\ s.ping \in {now, session[e].ping}
        BY <1>0 DEF Reads, Waits
      <3> QED BY <3>1, <3>2
    <2>2. \A i \in 1..Len(v) : v[i].at <= now /\ now <= v[i].at + MaxDelay
      BY <1>2, <1>9 DEF InTime
    <2>3. /\ now <= s.poll /\ s.poll <= s.ping + Gap
          /\ s.poll <= s.recv + Timeout + TickEvery
      <3>1. CASE Waits
        BY <3>1 DEF Waits
      <3>2. CASE Reads
        <4>1. now <= session[e].poll /\ session[e].poll <= session[e].ping + Gap
              /\ session[e].poll <= session[e].recv + Timeout + TickEvery
              /\ session[e].recv <= now
          BY <1>2 DEF InTime
        <4>2. s.recv = now /\ s.ping = session[e].ping /\ s.poll = session[e].poll
          BY <3>2 DEF Reads
        <4>3. session[e].poll <= now + Timeout + TickEvery
          <5>1. PICK l \in Nat, r \in Nat, n \in Nat :
                   l = session[e].poll /\ r = session[e].recv /\ n = now
            BY <1>7
          <5>2. l <= r + Timeout + TickEvery /\ r <= n
            BY <4>1, <5>1
          <5>3. l <= n + Timeout + TickEvery
            BY <1>7, <5>2
          <5> QED BY <5>1, <5>3
        <4> QED BY <4>1, <4>2, <4>3
      <3> QED BY <1>0, <3>1, <3>2
    <2> QED BY <1>3, <1>5, <2>1, <2>2, <2>3 DEF InTime
  <1>11. (InTime(f))'
    <2>1. ASSUME NEW i \in 1..Len(p)
          PROVE  p[i].at <= now /\ (Open(f) => now <= p[i].at + MaxDelay)
      <3>1. CASE i \in 1..Len(q) /\ p[i] = q[i]
        BY <1>2, <1>4, <3>1 DEF InTime
      <3>2. CASE \E j \in 1..Len(w) : p[i] = w[j]
        <4>1. p[i].at = now
          BY <3>2
        <4>2. now <= now /\ now <= now + MaxDelay
          BY <1>7
        <4> QED BY <4>1, <4>2
      <3> QED BY <1>6, <2>1, <3>1, <3>2
    <2> QED BY <1>2, <1>3, <1>4, <2>1 DEF InTime
  <1>12. (Told(e))'
    <2>1. SUFFICES ASSUME ~cut, ~Open(f)
                   PROVE  v # <<>> /\ v[Len(v)].kind \in {"eof", "reset"}
      BY <1>1, <1>3, <1>5 DEF Told
    <2>2. wire[e] # <<>> /\ wire[e][Len(wire[e])].kind \in {"eof", "reset"}
      BY <1>1, <1>2, <2>1 DEF Told
    <2>3. CASE Waits
      BY <2>2, <2>3 DEF Waits
    <2>4. CASE Reads
      <3>1. v # <<>>
        BY <1>8, <2>2, <2>4 DEF Reads
      <3> QED BY <1>8, <2>2, <2>4, <3>1
    <2> QED BY <1>0, <2>3, <2>4
  <1>13. (Told(f))'
    BY <1>1, <1>3 DEF Told
  <1>14. (Greeted(e))'
    <2>1. SUFFICES ASSUME ~cut, ~s.established
                   PROVE  v # <<>> \/ (e = "out" /\ (Open("in"))' /\ ~session'["in"].established)
      BY <1>3, <1>5 DEF Greeted
    <2>2. v = wire[e] /\ ~session[e].established
      BY <1>0, <2>1 DEF Reads, Waits
    <2>3. v # <<>> \/ (e = "out" /\ Open("in") /\ ~session["in"].established)
      BY <1>2, <2>1, <2>2 DEF Greeted
    <2>4. e = "out" => f = "in"
      BY <1>1 DEF Other
    <2> QED BY <1>3, <2>3, <2>4
  <1>15. (Greeted(f))'
    <2>1. SUFFICES ASSUME ~cut, Open(f), ~session[f].established
                   PROVE  p # <<>> \/ (f = "out" /\ (Open("in"))' /\ ~session'["in"].established)
      BY <1>3, <1>4 DEF Greeted
    <2>2. q # <<>> \/ (f = "out" /\ Open("in") /\ ~session["in"].established)
      BY <1>2, <1>4, <2>1 DEF Greeted
    <2>3. f = "out" => e = "in"
      BY <1>1 DEF Other
    <2>4. ~session[e].established => w # <<>> \/ ~s.established
      BY <1>0 DEF Reads, Waits
    <2> QED BY <1>3, <1>6, <2>1, <2>2, <2>3, <2>4
  <1>16. (Heard(e))'
    <2>1. SUFFICES ASSUME ~cut
                   PROVE  /\ v # <<>> => \/ v[1].at <= s.recv + Gap
                                         \/ v[1].kind = "reset" /\ v[1].at <= s.recv + Gap + MaxDelay
                          /\ v = <<>> =>
                                /\ Open(f)
                                /\ session[f].established => session[f].ping <= s.recv
                                /\ ~session[f].established => p # <<>> /\ p[1].at <= s.recv
      BY <1>1, <1>3, <1>4, <1>5 DEF Heard
    <2>2. CASE Waits
      <3>1. v = wire[e] /\ s.recv = session[e].recv
        BY <2>2 DEF Waits
      <3> QED BY <1>1, <1>2, <1>4, <1>6, <2>1, <3>1 DEF Heard
    <2>3. CASE Reads
      <3>1. s.recv = now
        BY <2>3 DEF Reads
      <3>2. v # <<>> => v[1].at <= now + Gap
        <4>1. ASSUME v # <<>> PROVE v[1].at <= now + Gap
          <5>1. PICK j \in 1..Len(wire[e]) : v[1] = wire[e][j]
            BY <1>8, <1>9, <2>3, <4>1
          <5>2. PICK t \in Nat : t = wire[e][j].at /\ t <= now
            BY <1>2, <5>1, EndTimes DEF InTime
          <5> QED BY <1>7, <5>1, <5>2
        <4> QED BY <4>1
      <3>3. ASSUME v = <<>>
            PROVE  /\ Open(f)
                   /\ session[f].established => session[f].ping <= now
                   /\ ~session[f].established => p # <<>> /\ p[1].at <= now
        <4>1. Len(wire[e]) = 1 /\ wire[e][1].kind \notin {"eof", "reset"}
          BY <1>8, <2>3, <3>3 DEF Reads
        <4>2. Open(f)
          BY <1>1, <1>2, <2>1, <4>1 DEF Told
        <4>3. session[f].ping <= now
          BY <1>2 DEF InTime
        <4>4. ASSUME ~session[f].established PROVE p # <<>> /\ p[1].at <= now
          <5>1. q # <<>> \/ (f = "out" /\ ~session["in"].established)
            BY <1>2, <1>4, <2>1, <4>2, <4>4 DEF Greeted
          <5>2. f = "out" => e = "in"
            BY <1>1 DEF Other
          <5>3. p # <<>>
            BY <1>6, <2>1, <2>3, <4>2, <5>1, <5>2 DEF Reads
          <5>4. 1 \in 1..Len(p)
            BY <5>3, <1>4, LenProperties, EmptySeq
          <5>5. p[1].at <= now
            BY <1>3, <1>4, <1>11, <5>4 DEF InTime
          <5> QED BY <5>3, <5>5
        <4> QED BY <4>2, <4>3, <4>4
      <3> QED BY <3>1, <3>2, <3>3
    <2> QED BY <1>0, <2>2, <2>3
  <1>17. (Heard(f))'
    <2>1. SUFFICES ASSUME ~cut, Open(f)
                   PROVE  /\ p # <<>> => \/ p[1].at <= session[f].recv + Gap
                                         \/ /\ p[1].kind = "reset"
                                            /\ p[1].at <= session[f].recv + Gap + MaxDelay
                          /\ p = <<>> =>
                                /\ s.established => s.ping <= session[f].recv
                                /\ ~s.established => v # <<>> /\ v[1].at <= session[f].recv
      BY <1>1, <1>3, <1>4, <1>5 DEF Heard
    <2>2. CASE q # <<>>
      BY <1>2, <1>4, <1>6, <2>1, <2>2 DEF Heard
    <2>3. CASE q = <<>> /\ w # <<>>
      <3>1. p = w /\ 1 \in 1..Len(w)
        BY <1>6, <2>1, <2>3, LenProperties, EmptySeq
      <3>2. p[1].at = now
        BY <3>1
      <3>3. now <= session[f].recv + Gap
        BY <1>4, <2>1, <2>3, QuietIsShort
      <3> QED BY <2>3, <3>1, <3>2, <3>3
    <2>4. CASE q = <<>> /\ w = <<>>
      <3>1. p = <<>>
        BY <1>6, <2>1, <2>4
      <3>2. /\ session[e].established => session[e].ping <= session[f].recv
            /\ ~session[e].established => wire[e] # <<>> /\ wire[e][1].at <= session[f].recv
        BY <1>1, <1>2, <1>4, <2>1, <2>4 DEF Heard
      <3>3. /\ s.established => session[e].established /\ s.ping = session[e].ping
            /\ ~s.established => v = wire[e] /\ ~session[e].established
        BY <1>0, <2>4 DEF Reads, Waits
      <3> QED BY <3>1, <3>2, <3>3
    <2> QED BY <2>2, <2>3, <2>4
  <1>18. UnreadSound'
    BY <1>1, <1>2, <1>3, HandTypes DEF UnreadSound
  <1>19. LivePeerKept'
    BY <1>1, <1>2, <1>3 DEF LivePeerKept
  <1>20. \A x \in End : (InTime(x))' /\ (Told(x))' /\ (Greeted(x))' /\ (Heard(x))'
    BY <1>1, <1>10, <1>11, <1>12, <1>13, <1>14, <1>15, <1>16, <1>17
  <1> QED BY <1>18, <1>19, <1>20 DEF KeepInv

\* pump() stops.
LEMMA KeepStopped ==
    ASSUME HandInv, HandInv', KeepInv, KeepaliveMargin, NEW e \in End, Open(e),
           NEW s \in SessionSet, NEW clean \in BOOLEAN, NEW reason \in Reason, NEW rest,
           Stop(e, s, clean, reason, rest), reason = "self_connect" => SelfConnected,
           s.recv \in {now, session[e].recv}, s.ping = session[e].ping, s.timeout => cut
    PROVE  KeepInv'
  <1>1. TypeOK /\ WireSound
    BY DEF HandInv
  <1>2. /\ session'[Other(e)] = session[Other(e)]
        /\ session'[e].timeout = s.timeout
        /\ session'[e].end \in {"HandshakeFailed", "ClosedCleanly", "Dropped"}
        /\ session'[e].recv = s.recv /\ session'[e].ping = s.ping
        /\ unread' = IF rest # <<>> THEN unread \union {Other(e)} ELSE unread
        /\ UNCHANGED <<now, hello, cut, lost>>
    BY <1>1, StopEffect
  <1>3. /\ wire'[e] = <<>>
        /\ cut \/ ~Open(Other(e)) => wire'[Other(e)] = wire[Other(e)]
        /\ ~cut /\ Open(Other(e)) =>
              \E final : /\ \A est \in BOOLEAN : final \in Seq(Genuine(Other(e), hello, est))
                         /\ final # <<>>
                         /\ \A i \in 1..Len(final) : final[i].at = now
                         /\ final[Len(final)].kind = "eof"
                         /\ wire'[Other(e)] = wire[Other(e)] \o final
    BY <1>1, StopWire
  <1>4. ~cut /\ Open(Other(e)) =>
           \E final \in Seq(Msg) :
               /\ final # <<>> /\ \A i \in 1..Len(final) : final[i].at = now
               /\ final[Len(final)].kind = "eof"
               /\ wire'[Other(e)] = wire[Other(e)] \o final
    <2>1. \A final : final \in Seq(Genuine(Other(e), hello, TRUE)) => final \in Seq(Msg)
      BY OtherEnd, GenuineGrows
    <2> QED BY <1>3, <2>1
  <1>5. session'[e].recv <= now /\ session'[e].ping <= now
    <2>1. session[e].recv <= now /\ session[e].ping <= now /\ now <= now
      BY EndTimes DEF KeepInv, InTime
    <2> QED BY <1>2, <2>1
  <1>6. ~(Open(e))'
    BY <1>2 DEF Open
  <1>7. unread' \subseteq unread \union {Other(e)}
    BY <1>2
  <1> QED BY <1>2, <1>3, <1>4, <1>5, <1>6, <1>7, KeepStop

\* A message was read and pump() goes on.
LEMMA KeepRead ==
    ASSUME HandInv, KeepInv, KeepaliveMargin, NEW e \in End, Open(e), ~cut, wire[e] # <<>>,
           Head(wire[e]).kind \notin {"eof", "reset"}, NEW s \in SessionSet,
           s.end = "open", s.timeout = session[e].timeout, s.recv = now,
           s.ping = session[e].ping, s.poll = session[e].poll, s.established,
           NEW w \in Seq(Msg), \A i \in 1..Len(w) : w[i].at = now,
           session[e].established \/ w # <<>>, GoOn(e, s, w)
    PROVE  KeepInv'
  <1>1. wire \in [End -> Seq(Msg)]
    BY HandTypes
  <1>2. PICK v \in Seq(Msg) : v = Tail(wire[e])
    BY <1>1, HeadTailProperties
  <1>3. /\ session' = [session EXCEPT ![e] = s]
        /\ wire' = [Write(e, w) EXCEPT ![e] = Tail(Write(e, w)[e])]
        /\ Written(e, w) /\ UNCHANGED <<now, cut>>
    BY DEF GoOn
  <1>4. wire' = [x \in End |-> IF x = e THEN v ELSE Write(e, w)[x]]
    BY <1>1, <1>2, <1>3, WriteEffect
  <1>5. \A x \in unread' : x \in unread \/ (x = e /\ ~Open(Other(e)))
    BY <1>3 DEF Written
  <1> QED BY <1>2, <1>3, <1>4, <1>5, KeepGoOn

\* The messages that pump() writes.
LEMMA MessagesSent ==
    ASSUME HandInv
    PROVE  /\ \A k \in Kind \ {"hello", "hello_ack", "close"} :
                 /\ Message(k) \in Msg /\ Message(k).at = now
                 /\ <<Message(k)>> \in Seq(Msg) /\ <<Message(k)>> # <<>>
                 /\ \A i \in 1..Len(<<Message(k)>>) : <<Message(k)>>[i].at = now
           /\ Greeting("hello_ack", "in") \in Msg /\ Greeting("hello_ack", "in").at = now
           /\ <<>> \in Seq(Msg) /\ Len(<<>>) = 0
  <1>1. now \in Nat /\ hello \in [End -> HelloSet] /\ "in" \in End
    BY HandTypes DEF End
  <1>2. ASSUME NEW k \in Kind \ {"hello", "hello_ack", "close"}
        PROVE  Message(k) \in Msg /\ Message(k).at = now
    BY <1>1, PlainSent DEF Genuine
  <1>3. ASSUME NEW k \in Kind \ {"hello", "hello_ack", "close"}
        PROVE  /\ <<Message(k)>> \in Seq(Msg) /\ <<Message(k)>> # <<>>
               /\ \A i \in 1..Len(<<Message(k)>>) : <<Message(k)>>[i].at = now
    <2>1. PICK m \in Msg : m = Message(k) /\ m.at = now
      BY <1>2
    <2>2. <<m>> \in Seq(Msg) /\ <<m>> # <<>> /\ \A i \in 1..Len(<<m>>) : <<m>>[i].at = now
      BY <2>1
    <2> QED BY <2>1, <2>2
  <1>4. Greeting("hello_ack", "in") \in Msg /\ Greeting("hello_ack", "in").at = now
    BY <1>1, GreetingSent DEF Genuine
  <1> QED BY <1>2, <1>3, <1>4

\* The greetings: an end that accepts one writes at once.
LEMMA KeepGreet ==
    ASSUME HandInv, HandInv', KeepInv, KeepaliveMargin, NEW e \in End, Open(e), ~cut,
           wire[e] # <<>>, NEW m, m = Head(wire[e]), m.kind \in {"hello", "hello_ack"},
           NEW s, s = Taken(e), Greet(e, s, m)
    PROVE  KeepInv'
  <1>1. /\ m \in Genuine(e, hello, session["in"].established) /\ m \in Msg
        /\ s \in SessionSet /\ SameFields(s, session[e]) /\ s.recv = now
        /\ session[e].end = "open"
    BY ReceiveFacts
  <1>2. PICK expected \in BOOLEAN :
           expected <=> m.kind = (IF e = "in" THEN "hello" ELSE "hello_ack")
    OBVIOUS
  <1>3. PICK verdict : verdict = IF s.state = "Established" \/ ~expected THEN "invalid_frame"
                                 ELSE Accepts(e, m.hello)
    OBVIOUS
  <1>4. expected => m.hello = hello[Other(e)]
    BY <1>1, <1>2 DEF Genuine, Other, End
  <1>5. verdict \in Reason
    BY <1>3 DEF Accepts, Reason
  <1>6. verdict = "self_connect" => SelfConnected
    BY <1>3, <1>4 DEF Accepts, SelfConnected, Other, End
  <1>7. CASE verdict = "none"
    <2>1. PICK t : t = [s EXCEPT !.state = "Established", !.established = TRUE,
                                 !.pending = TRUE, !.received = 0]
      OBVIOUS
    <2>2. /\ t \in SessionSet /\ t.established /\ t.end = "open"
          /\ t.timeout = session[e].timeout /\ t.recv = now
          /\ t.ping = session[e].ping /\ t.poll = session[e].poll
      BY <1>1, <2>1 DEF SessionSet, SameFields
    <2>3. PICK w : w = (IF e = "in" THEN <<Greeting("hello_ack", e)>> ELSE <<>>)
                          \o <<Message("sync_req"), Message("get_peers")>>
      OBVIOUS
    <2>4. GoOn(e, t, w)
      BY <1>2, <1>3, <1>7, <2>1, <2>3 DEF Greet
    <2>5. w \in Seq(Msg) /\ w # <<>> /\ \A i \in 1..Len(w) : w[i].at = now
      <3>1. PICK a \in Msg, b \in Msg : /\ a = Message("sync_req") /\ b = Message("get_peers")
                                        /\ a.at = now /\ b.at = now
        BY MessagesSent DEF Kind
      <3>2. PICK r \in Seq(Msg) : r = <<a, b>>
        <4>1. <<a, b>> \in Seq(Msg)
          OBVIOUS
        <4> QED BY <4>1
      <3>3. r \in Seq(Msg) /\ r # <<>> /\ \A i \in 1..Len(r) : r[i].at = now
        BY <3>1, <3>2
      <3>4. CASE e = "in"
        <4>1. PICK g \in Msg : g = Greeting("hello_ack", "in") /\ g.at = now
          BY MessagesSent
        <4>2. PICK q \in Seq(Msg) : q = <<g>>
          <5>1. <<g>> \in Seq(Msg)
            OBVIOUS
          <5> QED BY <5>1
        <4>3. q \in Seq(Msg) /\ \A i \in 1..Len(q) : q[i].at = now
          BY <4>1, <4>2
        <4>4. w = q \o r
          BY <2>3, <3>1, <3>2, <3>4, <4>1, <4>2
        <4>5. w \in Seq(Msg)
          BY <4>4, ConcatProperties
        <4>6. /\ w = <<>> <=> q = <<>> /\ r = <<>>
              /\ \A i \in 1..Len(w) : \/ i \in 1..Len(q) /\ w[i] = q[i]
                                      \/ \E j \in 1..Len(r) : w[i] = r[j]
          BY <4>4, Appended, SMTT(60)
        <4> QED BY <3>3, <4>3, <4>5, <4>6
      <3>5. CASE e # "in"
        <4>1. w = <<>> \o r
          BY <2>3, <3>1, <3>2, <3>5
        <4>2. w = r
          BY <3>3, <4>1, ConcatEmptySeq
        <4> QED BY <3>3, <4>2
      <3> QED BY <3>4, <3>5
    <2>6. Head(wire[e]).kind \notin {"eof", "reset"}
      OBVIOUS
    <2> QED BY <2>2, <2>4, <2>5, <2>6, KeepRead
  <1>8. CASE verdict # "none"
    <2>1. Stop(e, s, FALSE, verdict, Tail(wire[e]))
      BY <1>2, <1>3, <1>8 DEF Greet
    <2>2. s.recv = now /\ s.ping = session[e].ping /\ (s.timeout => cut)
      BY <1>1 DEF SameFields, KeepInv, LivePeerKept
    <2> QED BY <1>1, <1>5, <1>6, <2>1, <2>2, KeepStopped
  <1> QED BY <1>7, <1>8

\* A message to an established session.
LEMMA KeepDeliver ==
    ASSUME HandInv, HandInv', KeepInv, KeepaliveMargin, NEW e \in End, Open(e), ~cut, wire[e] # <<>>,
           NEW m, m = Head(wire[e]), m.kind \notin {"eof", "reset"},
           NEW s, s = Taken(e), s.state = "Established",
           Deliver(e, s, m)
    PROVE  KeepInv'
  <1>1. /\ s \in SessionSet /\ SameFields(s, session[e]) /\ s.recv = now
        /\ session[e].end = "open"
        /\ session[e].state = "Established" => session[e].established
    BY ReceiveFacts
  <1>2. /\ s.established /\ session[e].established /\ s.end = "open"
        /\ s.timeout = session[e].timeout /\ s.ping = session[e].ping /\ s.poll = session[e].poll
    BY <1>1 DEF SameFields
  <1>7. PICK u \in SessionSet :
           /\ u = Counted(s, m) /\ SameFields(u, s) /\ u.recv = now
           /\ m.kind = "sync_req" => u = s
    BY <1>1, CountedEffect
  <1>8. /\ u.established /\ u.end = "open" /\ u.timeout = session[e].timeout
        /\ u.ping = session[e].ping /\ u.poll = session[e].poll
    BY <1>2, <1>7 DEF SameFields
  <1>9. CASE m.kind = "event" /\ SyncExceeded(e, u)
    <2>1. Stop(e, u, FALSE, "none", Tail(wire[e]))
      BY <1>7, <1>9 DEF Deliver
    <2>2. "none" \in Reason /\ (u.timeout => cut)
      BY <1>8 DEF Reason, KeepInv, LivePeerKept
    <2> QED BY <1>7, <1>8, <2>1, <2>2, KeepStopped
  <1>10. CASE ~(m.kind = "event" /\ SyncExceeded(e, u))
    <2>3. PICK w \in {<<>>, <<Message("pong")>>, <<Message("peers")>>} : GoOn(e, u, w) \/
             /\ w = <<>>
             /\ session' = [session EXCEPT ![e] = u] /\ wire' = [wire EXCEPT ![e] = Tail(wire[e])]
             /\ UNCHANGED <<now, cut, unread>>
      BY <1>7, <1>10 DEF Deliver
    <2>4. w \in Seq(Msg) /\ \A i \in 1..Len(w) : w[i].at = now
      <3>1. "pong" \in Kind \ {"hello", "hello_ack", "close"}
            /\ "peers" \in Kind \ {"hello", "hello_ack", "close"}
        BY DEF Kind
      <3>2. ASSUME NEW k \in {"pong", "peers"}, w = <<Message(k)>>
            PROVE  w \in Seq(Msg) /\ \A i \in 1..Len(w) : w[i].at = now
        <4>1. /\ <<Message(k)>> \in Seq(Msg)
              /\ \A i \in 1..Len(<<Message(k)>>) : <<Message(k)>>[i].at = now
          BY <3>1, <3>2, MessagesSent
        <4> QED BY <3>2, <4>1
      <3>3. w = <<>> => w \in Seq(Msg) /\ \A i \in 1..Len(w) : w[i].at = now
        OBVIOUS
      <3> QED BY <2>3, <3>2, <3>3
    <2>5. CASE GoOn(e, u, w)
      BY <1>7, <1>2, <1>8, <2>4, <2>5, KeepRead
    <2>6. CASE ~GoOn(e, u, w)
      <3>1. wire \in [End -> Seq(Msg)]
        BY HandTypes
      <3>2. PICK v \in Seq(Msg) : v = Tail(wire[e])
        BY <3>1, HeadTailProperties
      <3>3. wire' = [x \in End |-> IF x = e THEN v ELSE Write(e, w)[x]]
        <4>1. wire[Other(e)] \o <<>> = wire[Other(e)]
          BY <3>1, OtherEnd, ConcatEmptySeq
        <4>2. Write(e, w)[Other(e)] = wire[Other(e)]
          <5>1. Write(e, w)[Other(e)] = IF cut \/ ~Open(Other(e)) THEN wire[Other(e)]
                                        ELSE wire[Other(e)] \o w
            BY <3>1, WriteEffect
          <5> QED BY <2>3, <2>6, <4>1, <5>1
        <4>3. wire' = [x \in End |-> IF x = e THEN v ELSE wire[x]]
          BY <2>3, <2>6, <3>1, <3>2
        <4> QED BY <4>2, <4>3, OtherEnd
      <3>4. /\ session' = [session EXCEPT ![e] = u] /\ now' = now /\ cut' = cut
            /\ \A x \in unread' : x \in unread \/ (x = e /\ ~Open(Other(e)))
        BY <2>3, <2>6
      <3> QED BY <1>7, <1>2, <1>8, <2>4, <3>2, <3>3, <3>4, KeepGoOn
    <2> QED BY <2>5, <2>6
  <1> QED BY <1>9, <1>10

\* The read branch of pump().
LEMMA KeepReceive ==
    ASSUME HandInv, HandInv', KeepInv, KeepaliveMargin, NEW e \in End, Receive(e)
    PROVE  KeepInv'
  <1>1. Open(e) /\ ~cut /\ wire[e] # <<>>
    BY DEF Receive
  <1>2. PICK m : m = Head(wire[e])
    OBVIOUS
  <1>3. PICK s : s = Taken(e)
    OBVIOUS
  <1>4. /\ s \in SessionSet /\ session[e] \in SessionSet /\ SameFields(s, session[e])
        /\ s.recv = now /\ m \in Msg
    BY <1>1, <1>2, <1>3, ReceiveFacts, HandTypes
  <1>5. /\ m.kind \in Kind /\ s.msgs \in Nat /\ MaxMsgs \in Nat
        /\ session[e].established \in BOOLEAN /\ s.established \in BOOLEAN
    BY <1>4, MsgParts, SessionAssumption DEF SessionSet
  <1>6. (CASE m.kind = "eof" -> EndOfStream(e)
          [] m.kind = "reset" -> Stop(e, session[e], FALSE, "none", <<>>) /\ UNCHANGED self
          [] m.kind \notin {"eof", "reset"} /\ Limited(s) ->
                Stop(e, s, FALSE, "rate_limited", Tail(wire[e])) /\ UNCHANGED self
          [] m.kind \in {"hello", "hello_ack"} /\ ~Limited(s) -> Greet(e, s, m)
          [] m.kind = "close" /\ ~Limited(s) -> PeerClosed(e, s, m)
          [] OTHER -> IF s.state = "Established" THEN Deliver(e, s, m)
                      ELSE Stop(e, s, FALSE, "invalid_frame", Tail(wire[e])) /\ UNCHANGED self)
    BY <1>2, <1>3 DEF Receive, Taken
  <1>8. ASSUME NEW u \in {s, session[e]}, NEW clean \in BOOLEAN, NEW rest,
               NEW reason \in {"none", "rate_limited", "invalid_frame"},
               Stop(e, u, clean, reason, rest)
        PROVE  KeepInv'
    <2>1. u \in SessionSet /\ reason \in Reason /\ reason # "self_connect"
      BY <1>4 DEF Reason
    <2>2. u.recv \in {now, session[e].recv} /\ u.ping = session[e].ping /\ (u.timeout => cut)
      BY <1>4 DEF SameFields, KeepInv, LivePeerKept
    <2> QED BY <1>1, <1>8, <2>1, <2>2, KeepStopped
  <1>9. CASE m.kind = "eof"
    <2>1. Stop(e, session[e], session[e].established, "none", <<>>)
      BY <1>6, <1>9 DEF EndOfStream
    <2> QED BY <1>5, <1>8, <2>1
  <1>10. CASE m.kind = "reset"
    <2>1. Stop(e, session[e], FALSE, "none", <<>>)
      BY <1>6, <1>10
    <2> QED BY <1>8, <2>1
  <1>11. CASE m.kind \notin {"eof", "reset"} /\ Limited(s)
    <2>1. Stop(e, s, FALSE, "rate_limited", Tail(wire[e]))
      BY <1>6, <1>11
    <2> QED BY <1>8, <2>1
  <1>12. CASE m.kind \in {"hello", "hello_ack"} /\ ~Limited(s)
    <2>1. Greet(e, s, m)
      BY <1>6, <1>12
    <2> QED BY <1>1, <1>2, <1>3, <1>12, <2>1, KeepGreet
  <1>13. CASE m.kind = "close" /\ ~Limited(s)
    <2>1. Stop(e, s, s.established, "none", Tail(wire[e]))
      BY <1>6, <1>13 DEF PeerClosed
    <2> QED BY <1>5, <1>8, <2>1
  <1>14. CASE m.kind \notin {"eof", "reset", "hello", "hello_ack", "close"} /\ ~Limited(s)
    <2>1. \/ s.state = "Established" /\ Deliver(e, s, m)
          \/ Stop(e, s, FALSE, "invalid_frame", Tail(wire[e]))
      BY <1>6, <1>14
    <2>2. CASE s.state = "Established" /\ Deliver(e, s, m)
      BY <1>1, <1>2, <1>3, <1>14, <2>2, KeepDeliver
    <2>3. CASE Stop(e, s, FALSE, "invalid_frame", Tail(wire[e]))
      BY <1>8, <2>3
    <2> QED BY <2>1, <2>2, <2>3
  <1> QED BY <1>5, <1>9, <1>10, <1>11, <1>12, <1>13, <1>14

\* The keepalive branch of pump(): it stops only after a cut of the network.
LEMMA KeepPoll ==
    ASSUME HandInv, HandInv', KeepInv, KeepaliveMargin, NEW e \in End, Poll(e)
    PROVE  KeepInv'
  <1>1. PICK s : s = [session[e] EXCEPT !.poll = now + TickEvery]
    OBVIOUS
  <1>2. /\ s \in SessionSet /\ s.poll = now + TickEvery /\ s.recv = session[e].recv
        /\ s.ping = session[e].ping /\ s.established = session[e].established
        /\ s.end = session[e].end /\ s.timeout = session[e].timeout
        /\ s.recv \in Nat /\ s.ping \in Nat /\ s.established \in BOOLEAN
    BY <1>1, PollFacts
  <1>3. Open(e) /\ session[e].end = "open"
    BY DEF Poll, Open
  <1>4. PICK due \in BOOLEAN : due <=> now - s.ping >= Interval
    OBVIOUS
  <1>5. PICK w : w = IF due /\ s.established THEN <<Message("ping")>> ELSE <<>>
    OBVIOUS
  <1>6. /\ now \in Nat /\ TickEvery \in Nat /\ Interval \in Nat /\ Timeout \in Nat
        /\ Gap \in Nat /\ Gap = Interval + TickEvery
    BY EndTimes DEF Gap
  <1>7. CASE TimedOut(s)
    <2>1. PICK t : t = [s EXCEPT !.timeout = TRUE]
      OBVIOUS
    <2>2. t \in SessionSet /\ t.recv = session[e].recv /\ t.ping = session[e].ping
      BY <1>2, <2>1 DEF SessionSet
    <2>3. Stop(e, t, FALSE, "going_away", wire[e])
      BY <1>1, <1>7, <2>1 DEF Poll
    <2>4. "going_away" \in Reason
      BY DEF Reason
    <2>5. now - session[e].recv >= Timeout
      BY <1>2, <1>7 DEF TimedOut
    <2>6. cut \in BOOLEAN
      BY HandTypes
    <2>7. cut
      BY <1>3, <2>5, <2>6, NotTimedOut
    <2> QED BY <1>3, <2>2, <2>3, <2>4, <2>7, KeepStopped
  <1>8. CASE ~TimedOut(s)
    <2>1. PICK t : t = IF due THEN [s EXCEPT !.ping = now] ELSE s
      OBVIOUS
    <2>2. /\ t \in SessionSet /\ t.established = s.established /\ t.end = s.end
          /\ t.timeout = s.timeout /\ t.recv = s.recv /\ t.poll = s.poll
          /\ t.ping = IF due THEN now ELSE s.ping
      <3>1. PICK u : u = [s EXCEPT !.ping = now]
        OBVIOUS
      <3>2. /\ u \in SessionSet /\ u.established = s.established /\ u.end = s.end
            /\ u.timeout = s.timeout /\ u.recv = s.recv /\ u.poll = s.poll /\ u.ping = now
        BY <1>2, <1>6, <3>1 DEF SessionSet
      <3> QED BY <1>2, <2>1, <3>1, <3>2
    <2>3. /\ session' = [session EXCEPT ![e] = t] /\ wire' = Write(e, w) /\ Written(e, w)
          /\ now' = now /\ cut' = cut
      BY <1>1, <1>4, <1>5, <1>8, <2>1 DEF Poll
    <2>4. PICK v \in Seq(Msg) : v = wire[e]
      BY HandTypes
    <2>5. wire' = [x \in End |-> IF x = e THEN v ELSE Write(e, w)[x]]
      <3>1. wire \in [End -> Seq(Msg)]
        BY HandTypes
      <3>2. Write(e, w)[e] = wire[e] /\ Write(e, w) = [x \in End |-> Write(e, w)[x]]
        BY <3>1, WriteEffect
      <3> QED BY <2>3, <2>4, <3>2
    <2>6. /\ w \in Seq(Msg) /\ \A i \in 1..Len(w) : w[i].at = now
          /\ due /\ s.established => w # <<>>
      <3>1. "ping" \in Kind \ {"hello", "hello_ack", "close"}
        BY DEF Kind
      <3>2. /\ <<Message("ping")>> \in Seq(Msg) /\ <<Message("ping")>> # <<>>
            /\ \A i \in 1..Len(<<Message("ping")>>) : <<Message("ping")>>[i].at = now
        BY <3>1, MessagesSent
      <3>3. CASE due /\ s.established
        BY <1>5, <3>2, <3>3
      <3>4. CASE ~(due /\ s.established)
        BY <1>5, <3>4
      <3> QED BY <3>3, <3>4
    <2>7. \A x \in unread' : x \in unread \/ (x = e /\ ~Open(Other(e)))
      BY <2>3 DEF Written
    <2>8. now <= t.poll /\ t.poll <= t.ping + Gap /\ t.poll <= t.recv + Timeout + TickEvery
      <3>1. PICK n \in Nat, g \in Nat, r \in Nat : n = now /\ g = s.ping /\ r = s.recv
        BY <1>2, <1>6
      <3>2. ~(n - r >= Timeout)
        BY <1>8, <3>1 DEF TimedOut
      <3>3. n + TickEvery <= r + Timeout + TickEvery /\ n <= n + TickEvery
        BY <1>6, <3>2
      <3>4. n + TickEvery <= n + Gap
        BY <1>6
      <3>5. ~due => n + TickEvery <= g + Gap
        BY <1>4, <1>6, <3>1
      <3>6. CASE due
        BY <1>2, <2>2, <3>1, <3>3, <3>4, <3>6
      <3>7. CASE ~due
        BY <1>2, <2>2, <3>1, <3>3, <3>5, <3>7
      <3> QED BY <3>6, <3>7
    <2>9. /\ t.end = "open" /\ t.timeout = session[e].timeout /\ t.recv = session[e].recv
          /\ t.established = session[e].established
          /\ t.ping = session[e].ping \/ (t.ping = now /\ (t.established => w # <<>>))
      BY <1>2, <1>3, <2>2, <2>6
    <2>10. t \in SessionSet /\ session' = [session EXCEPT ![e] = t] /\ now' = now /\ cut' = cut
      BY <2>2, <2>3
    <2> QED BY <1>3, <2>4, <2>5, <2>6, <2>7, <2>8, <2>9, <2>10, KeepGoOn
  <1> QED BY <1>7, <1>8

\* The answer to SYNC_REQ, and an EVENT of the hub.
LEMMA KeepStream ==
    ASSUME HandInv, KeepInv, KeepaliveMargin, NEW e \in End, Stream(e) \/ Broadcast(e)
    PROVE  KeepInv'
  <1>1. session \in [End -> SessionSet] /\ wire \in [End -> Seq(Msg)]
    BY HandTypes
  <1>2. Open(e) /\ session[e].end = "open"
    BY DEF Stream, Broadcast, Open
  <1>3. PICK k \in {"sync_done", "event"} : wire' = Write(e, <<Message(k)>>) /\ Written(e, <<Message(k)>>)
    BY DEF Stream, Broadcast
  <1>4. UNCHANGED <<now, session, cut>>
    BY DEF Stream, Broadcast
  <1>5. PICK w \in Seq(Msg) : /\ w = <<Message(k)>> /\ \A i \in 1..Len(w) : w[i].at = now
    <2>1. k \in Kind \ {"hello", "hello_ack", "close"}
      BY <1>3 DEF Kind
    <2> QED BY <2>1, MessagesSent
  <1>6. PICK v \in Seq(Msg) : v = wire[e]
    BY <1>1
  <1>7. wire' = [x \in End |-> IF x = e THEN v ELSE Write(e, w)[x]]
    <2>1. Write(e, w)[e] = wire[e] /\ Write(e, w) = [x \in End |-> Write(e, w)[x]]
      BY <1>1, WriteEffect
    <2> QED BY <1>3, <1>5, <1>6, <2>1
  <1>8. PICK s \in SessionSet : s = session[e]
    BY <1>1
  <1>9. session' = [session EXCEPT ![e] = s]
    BY <1>1, <1>4, <1>8
  <1>10. \A x \in unread' : x \in unread \/ (x = e /\ ~Open(Other(e)))
    BY <1>3 DEF Written
  <1>11. /\ now <= session[e].poll /\ session[e].poll <= session[e].ping + Gap
         /\ session[e].poll <= session[e].recv + Timeout + TickEvery
    BY <1>2 DEF KeepInv, InTime
  <1>12. /\ s.end = "open" /\ s.timeout = session[e].timeout /\ s.recv = session[e].recv
         /\ s.established = session[e].established /\ s.ping = session[e].ping
         /\ now <= s.poll /\ s.poll <= s.ping + Gap /\ s.poll <= s.recv + Timeout + TickEvery
         /\ now' = now /\ cut' = cut
    BY <1>2, <1>4, <1>8, <1>11
  <1> QED BY <1>2, <1>5, <1>6, <1>7, <1>9, <1>10, <1>12, KeepGoOn

\* An end shuts down, refuses or dies; a reset overtakes what was not read; the
\* network is cut; time passes, but nothing that is due is left undone.
LEMMA KeepOthers ==
    ASSUME HandInv, HandInv', KeepInv, KeepaliveMargin,
           \/ \E e \in End : Reset(e) \/ Shutdown(e) \/ Crash(e)
           \/ RefuseInbound \/ Cut \/ Tick \/ UNCHANGED vars
    PROVE  KeepInv'
  <1>1. /\ session \in [End -> SessionSet] /\ wire \in [End -> Seq(Msg)] /\ now \in Nat
        /\ unread \subseteq End
    BY HandTypes
  <1>2. "going_away" \in Reason
    BY DEF Reason
  <1>3. ASSUME NEW e \in End, Open(e), NEW clean \in BOOLEAN,
               Stop(e, session[e], clean, "going_away", wire[e])
        PROVE  KeepInv'
    <2>1. session[e].timeout => cut
      BY DEF KeepInv, LivePeerKept
    <2> QED BY <1>1, <1>2, <1>3, <2>1, KeepStopped
  <1>4. ASSUME NEW e \in End, Shutdown(e) PROVE KeepInv'
    BY <1>3, <1>4 DEF Shutdown
  <1>5. CASE RefuseInbound
    BY <1>3, <1>5 DEF RefuseInbound, End
  <1>6. ASSUME NEW e \in End, Crash(e) PROVE KeepInv'
    <2>1. PICK s \in SessionSet : s = session[e]
      BY <1>1
    <2>2. PICK t : t = [s EXCEPT !.state = "Closed", !.end = "Crashed"]
      OBVIOUS
    <2>3. /\ t.end = "Crashed" /\ t.recv = s.recv /\ t.ping = s.ping /\ t.timeout = s.timeout
      BY <2>2 DEF SessionSet
    <2>4. session' = [session EXCEPT ![e] = t]
      BY <1>1, <1>6, <2>1, <2>2 DEF Crash
    <2>5. session'[e] = t /\ session'[Other(e)] = session[Other(e)]
      BY <1>1, <2>4, OtherEnd
    <2>6. PICK w \in Seq(Msg) :
             /\ w = <<Message("eof")>> /\ w # <<>> /\ \A i \in 1..Len(w) : w[i].at = now
             /\ w[Len(w)].kind = "eof"
      <3>1. "eof" \in Kind \ {"hello", "hello_ack", "close"}
        BY DEF Kind
      <3>2. PICK m \in Msg : m = Message("eof") /\ m.at = now /\ m.kind = "eof"
        BY <3>1, MessagesSent DEF Message
      <3>3. /\ <<m>> \in Seq(Msg) /\ <<m>> # <<>> /\ \A i \in 1..Len(<<m>>) : <<m>>[i].at = now
            /\ <<m>>[Len(<<m>>)].kind = "eof"
        BY <3>2
      <3> QED BY <3>2, <3>3
    <2>7. /\ Open(e) /\ wire' = [Write(e, w) EXCEPT ![e] = <<>>]
          /\ unread' = IF wire[e] # <<>> THEN unread \union {Other(e)} ELSE unread
          /\ now' = now /\ cut' = cut
      BY <1>6, <2>6 DEF Crash
    <2>8. wire' = [x \in End |-> IF x = e THEN <<>> ELSE Write(e, w)[x]]
      BY <1>1, <2>7, WriteEffect
    <2>9. Write(e, w)[Other(e)] = IF cut \/ ~Open(Other(e)) THEN wire[Other(e)]
                                  ELSE wire[Other(e)] \o w
      BY <1>1, WriteEffect
    <2>10. /\ wire'[e] = <<>>
           /\ wire'[Other(e)] = IF cut \/ ~Open(Other(e)) THEN wire[Other(e)]
                                ELSE wire[Other(e)] \o w
      BY <2>8, <2>9, OtherEnd
    <2>11. ~(Open(e))' /\ unread' \subseteq unread \union {Other(e)}
      BY <2>3, <2>5, <2>7 DEF Open
    <2>12. session'[e].recv <= now /\ session'[e].ping <= now /\ (session'[e].timeout => cut)
      BY <2>1, <2>3, <2>5 DEF KeepInv, InTime, LivePeerKept
    <2>13. /\ cut \/ ~Open(Other(e)) => wire'[Other(e)] = wire[Other(e)]
           /\ ~cut /\ Open(Other(e)) =>
                 \E final \in Seq(Msg) :
                     /\ final # <<>> /\ \A i \in 1..Len(final) : final[i].at = now
                     /\ final[Len(final)].kind = "eof"
                     /\ wire'[Other(e)] = wire[Other(e)] \o final
      BY <2>6, <2>10
    <2> QED BY <2>5, <2>7, <2>10, <2>11, <2>12, <2>13, KeepStop
  <1>7. ASSUME NEW e \in End, Reset(e) PROVE KeepInv'
    <2>1. PICK f \in End : f = Other(e) /\ f # e /\ End = {e, f} /\ e = Other(f)
      BY OtherEnd
    <2>2. PICK r : r = Message("reset") /\ r.kind = "reset" /\ r.at = now
      <3>1. Message("reset").kind = "reset" /\ Message("reset").at = now
        BY DEF Message
      <3> QED BY <3>1
    <2>3. /\ e \in unread /\ Open(e) /\ ~cut /\ wire' = [wire EXCEPT ![e] = <<r>>]
          /\ \A i \in DOMAIN wire[e] : wire[e][i].kind # "reset"
          /\ unread' = unread \ {e} /\ UNCHANGED <<now, session, cut>>
      BY <1>7, <2>2 DEF Reset
    <2>4. /\ InTime(e) /\ InTime(f) /\ Heard(e) /\ Told(e) /\ UnreadSound /\ LivePeerKept
      BY <2>1 DEF KeepInv
    <2>5. ~Open(f)
      BY <2>1, <2>3, <2>4 DEF UnreadSound
    <2>6. wire'[e] = <<r>> /\ wire'[f] = wire[f]
      BY <1>1, <2>1, <2>3
    <2>7. \A x \in End : (Open(x))' <=> Open(x)
      BY <2>3 DEF Open
    <2>8. /\ <<r>> # <<>> /\ Len(<<r>>) = 1 /\ <<r>>[1] = r
      OBVIOUS
    <2>9. now <= now /\ now <= now + MaxDelay
      BY EndTimes
    <2>10. (InTime(e))' /\ (Told(e))' /\ (Greeted(e))'
      BY <2>2, <2>3, <2>4, <2>6, <2>7, <2>8, <2>9 DEF InTime, Told, Greeted
    <2>11. (InTime(f))'
      BY <2>3, <2>4, <2>6, <2>7 DEF InTime
    <2>12. (Told(f))' /\ (Greeted(f))' /\ (Heard(f))'
      BY <2>5, <2>7 DEF Told, Greeted, Heard
    <2>13. (Heard(e))'
      <3>1. wire[e] # <<>>
        BY <2>1, <2>3, <2>4, <2>5 DEF Told
      <3>2. 1 \in 1..Len(wire[e]) /\ wire[e] \in Seq(Msg)
        BY <3>1, EndTimes
      <3>3. 1 \in DOMAIN wire[e]
        BY <3>2, LenProperties
      <3>4. PICK t \in Nat, n \in Nat, c \in Nat :
               t = wire[e][1].at /\ n = now /\ c = session[e].recv
        BY <3>2, EndTimes
      <3>5. n <= t + MaxDelay /\ t <= c + Gap
        BY <2>3, <2>4, <3>1, <3>2, <3>3, <3>4 DEF InTime, Heard
      <3>6. n <= c + Gap + MaxDelay
        BY <3>5, EndTimes
      <3> QED BY <2>2, <2>3, <2>6, <2>8, <3>4, <3>6 DEF Heard
    <2>14. UnreadSound'
      <3>1. \A x \in unread' : x \in unread /\ Other(x) \in End
        BY <1>1, <2>3, OtherEnd
      <3> QED BY <2>4, <2>7, <3>1 DEF UnreadSound
    <2>15. LivePeerKept'
      BY <2>3, <2>4 DEF LivePeerKept
    <2> QED BY <2>1, <2>10, <2>11, <2>12, <2>13, <2>14, <2>15 DEF KeepInv
  <1>8. CASE Cut
    <2>1. /\ cut' /\ wire' = [e \in End |-> <<>>] /\ UNCHANGED <<now, session, unread>>
      BY <1>8 DEF Cut
    <2>2. ASSUME NEW x \in End PROVE (InTime(x))' /\ (Told(x))' /\ (Greeted(x))' /\ (Heard(x))'
      <3>1. InTime(x) /\ wire'[x] = <<>> /\ Len(<<>>) = 0
        BY <2>1 DEF KeepInv
      <3> QED BY <2>1, <3>1 DEF InTime, Told, Greeted, Heard, Open
    <2>3. UnreadSound' /\ LivePeerKept'
      BY <2>1 DEF KeepInv, UnreadSound, LivePeerKept, Open
    <2> QED BY <2>2, <2>3 DEF KeepInv
  <1>9. CASE Tick
    <2>1. UNCHANGED <<session, wire, cut, unread>> /\ now' = now + 1
      BY <1>9 DEF Tick
    <2>2. ASSUME NEW x \in End PROVE (InTime(x))'
      <3>1. InTime(x)
        BY DEF KeepInv
      <3>2. Open(x) => /\ now < session[x].poll
                       /\ \A i \in 1..Len(wire[x]) : now < wire[x][i].at + MaxDelay
        <4>1. DOMAIN wire[x] = 1..Len(wire[x])
          BY <1>1, LenProperties
        <4> QED BY <1>9, <4>1 DEF Tick
      <3>3. /\ session[x].recv \in Nat /\ session[x].ping \in Nat /\ session[x].poll \in Nat
            /\ MaxDelay \in Nat /\ \A i \in 1..Len(wire[x]) : wire[x][i].at \in Nat
        BY EndTimes
      <3>4. session[x].recv <= now + 1 /\ session[x].ping <= now + 1
            /\ \A i \in 1..Len(wire[x]) : wire[x][i].at <= now + 1
        BY <1>1, <3>1, <3>3 DEF InTime
      <3>5. Open(x) => /\ now + 1 <= session[x].poll
                       /\ \A i \in 1..Len(wire[x]) : now + 1 <= wire[x][i].at + MaxDelay
        BY <1>1, <3>2, <3>3
      <3>6. Open(x) => /\ session[x].poll <= session[x].ping + Gap
                       /\ session[x].poll <= session[x].recv + Timeout + TickEvery
        BY <3>1 DEF InTime
      <3> QED BY <2>1, <3>4, <3>5, <3>6 DEF InTime, Open
    <2>3. \A x \in End : (Told(x))' /\ (Greeted(x))' /\ (Heard(x))'
      BY <2>1 DEF KeepInv, Told, Greeted, Heard, Open
    <2>4. UnreadSound' /\ LivePeerKept'
      BY <2>1 DEF KeepInv, UnreadSound, LivePeerKept, Open
    <2> QED BY <2>2, <2>3, <2>4 DEF KeepInv
  <1>10. CASE UNCHANGED vars
    <2>1. UNCHANGED <<now, session, wire, cut, unread>>
      BY <1>10 DEF vars
    <2>2. \A x \in End : (InTime(x))' /\ (Told(x))' /\ (Greeted(x))' /\ (Heard(x))'
      BY <2>1 DEF KeepInv, InTime, Told, Greeted, Heard, Open
    <2>3. UnreadSound' /\ LivePeerKept'
      BY <2>1 DEF KeepInv, UnreadSound, LivePeerKept, Open
    <2> QED BY <2>2, <2>3 DEF KeepInv
  <1> QED BY <1>4, <1>5, <1>6, <1>7, <1>8, <1>9, <1>10

\* Every step keeps the invariant.
LEMMA KeepStep ==
    ASSUME HandInv, HandInv', KeepInv, KeepaliveMargin, [Next]_vars
    PROVE  KeepInv'
  BY KeepReceive, KeepPoll, KeepStream, KeepOthers DEF Next

\* Initially the timers have just been started and the HELLO is on its way.
LEMMA InitKeep == Init => KeepInv
  <1> SUFFICES ASSUME Init PROVE KeepInv
    OBVIOUS
  <1>1. /\ now = 0 /\ unread = {} /\ cut = FALSE
        /\ session = [e \in End |-> NewSession(IF e = "out" THEN "HelloSent" ELSE "Connecting")]
        /\ wire = [e \in End |-> IF e = "in" THEN <<Greeting("hello", "out")>> ELSE <<>>]
    BY DEF Init
  <1>2. \A st : /\ NewSession(st).recv = 0 /\ NewSession(st).ping = 0
                /\ NewSession(st).poll = TickEvery /\ ~NewSession(st).established
                /\ NewSession(st).end = "open" /\ ~NewSession(st).timeout
    BY DEF NewSession
  <1>3. \A x \in End : /\ session[x].recv = 0 /\ session[x].ping = 0
                       /\ session[x].poll = TickEvery /\ ~session[x].established
                       /\ Open(x) /\ ~session[x].timeout
    BY <1>1, <1>2 DEF Open
  <1>4. /\ "in" \in End /\ "out" \in End /\ End = {"in", "out"}
        /\ Other("in") = "out" /\ Other("out") = "in"
    BY DEF End, Other
  <1>5. PICK g : g = Greeting("hello", "out") /\ g.at = 0
    <2>1. Greeting("hello", "out").at = 0
      BY <1>1 DEF Greeting
    <2> QED BY <2>1
  <1>6. wire["in"] = <<g>> /\ wire["out"] = <<>>
    BY <1>1, <1>4, <1>5
  <1>7. <<g>> # <<>> /\ Len(<<g>>) = 1 /\ <<g>>[1] = g /\ Len(<<>>) = 0
    OBVIOUS
  <1>8. /\ TickEvery \in Nat /\ Timeout \in Nat /\ MaxDelay \in Nat /\ Gap \in Nat
        /\ Gap >= TickEvery
    BY SessionAssumption DEF Gap
  <1>9. 0 <= 0 /\ 0 <= TickEvery /\ TickEvery <= 0 + Gap /\ TickEvery <= 0 + Timeout + TickEvery
        /\ 0 <= 0 + MaxDelay /\ 0 <= 0 + Gap
    BY <1>8
  <1>10. \A x \in End : \A i \in 1..Len(wire[x]) : wire[x][i].at = 0
    BY <1>4, <1>5, <1>6, <1>7
  <1>11. \A x \in End : InTime(x)
    BY <1>1, <1>3, <1>9, <1>10 DEF InTime
  <1>12. \A x \in End : Told(x)
    BY <1>3, <1>4 DEF Told
  <1>13. \A x \in End : Greeted(x)
    BY <1>3, <1>4, <1>6, <1>7 DEF Greeted
  <1>14. \A x \in End : Heard(x)
    <2>1. Heard("in")
      BY <1>3, <1>4, <1>5, <1>6, <1>7, <1>9 DEF Heard
    <2>2. Heard("out")
      BY <1>3, <1>4, <1>5, <1>6, <1>7, <1>9 DEF Heard
    <2> QED BY <1>4, <2>1, <2>2
  <1>15. UnreadSound /\ LivePeerKept
    BY <1>1, <1>3 DEF UnreadSound, LivePeerKept
  <1> QED BY <1>11, <1>12, <1>13, <1>14, <1>15 DEF KeepInv

\* KeepaliveSound for any timers and delays within the margin: no end is cut
\* off for silence unless the network failed, however the PINGs of the two
\* ends, the handshake and the closing interleave, although PINGs follow
\* the last PING and not the last sign of life; and an end that hears nothing
\* is gone at the first look after the timeout.
THEOREM KeepaliveAlwaysSound ==
    ASSUME KeepaliveMargin
    PROVE  Spec => []KeepaliveSound
  <1>1. HandInv /\ HandInv' /\ KeepInv /\ [Next]_vars => KeepInv'
    BY KeepStep
  <1>2. HandInv /\ KeepInv => KeepaliveSound
    <2> SUFFICES ASSUME HandInv, KeepInv PROVE KeepaliveSound
      OBVIOUS
    <2>1. ASSUME NEW e \in End, Open(e) PROVE now - session[e].recv <= Timeout + TickEvery
      <3>1. PICK r \in Nat, l \in Nat, n \in Nat :
               r = session[e].recv /\ l = session[e].poll /\ n = now
        BY EndTimes
      <3>2. n <= l /\ l <= r + Timeout + TickEvery
        BY <2>1, <3>1 DEF KeepInv, InTime
      <3>3. n - r <= Timeout + TickEvery
        BY <3>2, EndTimes
      <3> QED BY <3>1, <3>3
    <2> QED BY <2>1 DEF KeepInv, KeepaliveSound, SilenceBounded
  <1> QED BY <1>1, <1>2, HandInvariant, InitKeep, PTL DEF Spec

-----------------------------------------------------------------------------
(***************************************************************************)
(* Counting what is on its way.                                            *)
(***************************************************************************)

\* How many messages of a sequence are in a set.
Count(q, S) == Cardinality({i \in 1..Len(q) : q[i] \in S})

Bit(b) == IF b THEN 1 ELSE 0

\* The messages of a sequence.
On(q) == {q[i] : i \in 1..Len(q)}

\* A count is a natural number, and zero where there is none of the set.
LEMMA CountNat ==
    ASSUME NEW q \in Seq(Msg), NEW S
    PROVE  /\ Count(q, S) \in Nat /\ (Count(q, S) = 0 <=> On(q) \cap S = {})
           /\ \A I : I = {i \in 1..Len(q) : q[i] \in S} => IsFiniteSet(I)
  <1>1. PICK k \in Nat : k = Len(q)
    BY LenProperties
  <1>2. PICK I : I = {i \in 1..k : q[i] \in S}
    OBVIOUS
  <1>3. IsFiniteSet(1..k)
    BY FS_Interval
  <1>4. IsFiniteSet(I)
    <2>1. I \in SUBSET (1..k)
      BY <1>2
    <2> QED BY <1>3, <2>1, FS_Subset
  <1>5. Cardinality(I) \in Nat /\ (Cardinality(I) = 0 <=> I = {})
    BY <1>4, FS_CardinalityType, FS_EmptySet
  <1>6. I = {} <=> On(q) \cap S = {}
    BY <1>1, <1>2 DEF On
  <1> QED BY <1>1, <1>2, <1>4, <1>5, <1>6 DEF Count

\* Nothing is counted in the empty sequence.
LEMMA CountEmpty ==
    ASSUME NEW S
    PROVE  Count(<<>>, S) = 0 /\ On(<<>>) = {}
  <1>1. On(<<>>) = {}
    BY DEF On
  <1>2. <<>> \in Seq(Msg)
    OBVIOUS
  <1> QED BY <1>1, <1>2, CountNat

\* A larger set counts at least as many, if only of the messages that are there.
LEMMA CountMore ==
    ASSUME NEW q \in Seq(Msg), NEW S, NEW T, On(q) \cap S \subseteq T
    PROVE  Count(q, S) <= Count(q, T)
  <1>1. PICK I, J : /\ I = {i \in 1..Len(q) : q[i] \in S}
                    /\ J = {i \in 1..Len(q) : q[i] \in T}
    OBVIOUS
  <1>2. I \in SUBSET J
    BY <1>1 DEF On
  <1>3. IsFiniteSet(J)
    BY <1>1, CountNat
  <1>4. Cardinality(I) <= Cardinality(J)
    BY <1>2, <1>3, FS_Subset
  <1> QED BY <1>1, <1>4 DEF Count

\* What is in one of two disjoint sets is counted in each of them.
LEMMA CountSplit ==
    ASSUME NEW q \in Seq(Msg), NEW S, NEW T, S \cap T = {}
    PROVE  Count(q, S \union T) = Count(q, S) + Count(q, T)
  <1>1. PICK I, J : /\ I = {i \in 1..Len(q) : q[i] \in S}
                    /\ J = {i \in 1..Len(q) : q[i] \in T}
    OBVIOUS
  <1>2. IsFiniteSet(I) /\ IsFiniteSet(J)
    BY <1>1, CountNat
  <1>3. I \cap J = {} /\ I \union J = {i \in 1..Len(q) : q[i] \in S \union T}
    BY <1>1
  <1>4. Cardinality(I \union J) = Cardinality(I) + Cardinality(J) - Cardinality(I \cap J)
    BY <1>2, FS_Union
  <1>5. Cardinality(I \cap J) = 0
    BY <1>3, FS_EmptySet
  <1>6. Count(q, S) \in Nat /\ Count(q, T) \in Nat
    BY CountNat
  <1>7. /\ Count(q, S \union T) = Cardinality(I \union J)
        /\ Count(q, S) = Cardinality(I) /\ Count(q, T) = Cardinality(J)
    BY <1>1, <1>3 DEF Count
  <1> QED BY <1>4, <1>5, <1>6, <1>7

\* A sequence after another one.
LEMMA CountConcat ==
    ASSUME NEW q \in Seq(Msg), NEW v \in Seq(Msg)
    PROVE  /\ q \o v \in Seq(Msg)
           /\ On(q \o v) = On(q) \union On(v)
           /\ \A S : Count(q \o v, S) = Count(q, S) + Count(v, S)
  <1>1. PICK a \in Nat, b \in Nat : a = Len(q) /\ b = Len(v)
    BY LenProperties
  <1>2. PICK p \in Seq(Msg) : p = q \o v
    BY ConcatProperties
  <1>3. /\ Len(p) = a + b
        /\ \A i \in 1..(a + b) : p[i] = IF i <= a THEN q[i] ELSE v[i - a]
    BY <1>1, <1>2, ConcatProperties
  <1>4. /\ \A i \in 1..a : i \in 1..(a + b) /\ p[i] = q[i]
        /\ \A i \in 1..b : i + a \in 1..(a + b) /\ p[i + a] = v[i]
        /\ \A i \in 1..(a + b) : i \in 1..a \/ (i - a \in 1..b /\ (i - a) + a = i)
    <2>1. \A i \in 1..a : i \in 1..(a + b) /\ i <= a
      OBVIOUS
    <2>2. \A i \in 1..b : i + a \in 1..(a + b) /\ ~(i + a <= a) /\ (i + a) - a = i
      OBVIOUS
    <2>3. \A i \in 1..(a + b) : i \in 1..a \/ (i - a \in 1..b /\ (i - a) + a = i)
      OBVIOUS
    <2>4. \A i \in 1..a : p[i] = q[i]
      BY <1>3, <2>1
    <2>5. ASSUME NEW i \in 1..b PROVE p[i + a] = v[i]
      <3>1. p[i + a] = v[(i + a) - a]
        BY <1>3, <2>2
      <3> QED BY <2>2, <3>1
    <2> QED BY <2>1, <2>2, <2>3, <2>4, <2>5
  <1>5. On(p) = On(q) \union On(v)
    <2>1. ASSUME NEW i \in 1..(a + b) PROVE p[i] \in On(q) \union On(v)
      <3>1. CASE i \in 1..a
        BY <1>1, <1>4, <3>1 DEF On
      <3>2. CASE i - a \in 1..b /\ (i - a) + a = i
        <4>1. p[(i - a) + a] = v[i - a]
          BY <1>4, <3>2
        <4>2. p[i] = v[i - a]
          BY <3>2, <4>1
        <4> QED BY <1>1, <3>2, <4>2 DEF On
      <3> QED BY <1>4, <3>1, <3>2
    <2>2. \A i \in 1..a : q[i] \in On(p)
      BY <1>1, <1>3, <1>4 DEF On
    <2>3. \A i \in 1..b : v[i] \in On(p)
      BY <1>1, <1>3, <1>4 DEF On
    <2>4. On(p) \subseteq On(q) \union On(v)
      BY <1>3, <2>1 DEF On
    <2>5. On(q) \subseteq On(p)
      BY <1>1, <2>2 DEF On
    <2>6. On(v) \subseteq On(p)
      BY <1>1, <2>3 DEF On
    <2> QED BY <2>4, <2>5, <2>6
  <1>6. ASSUME NEW S PROVE Count(p, S) = Count(q, S) + Count(v, S)
    <2>1. PICK I, J, L : /\ I = {i \in 1..a : q[i] \in S} /\ J = {i \in 1..b : v[i] \in S}
                         /\ L = {i \in 1..(a + b) : p[i] \in S}
      OBVIOUS
    <2>2. PICK M : M = {i \in L : i > a}
      OBVIOUS
    <2>3. L = I \union M /\ I \cap M = {}
      BY <1>4, <2>1, <2>2
    <2>4. ExistsBijection(J, M)
      <3>1. PICK f : f = [j \in J |-> j + a]
        OBVIOUS
      <3>2. f \in [J -> M]
        <4>1. ASSUME NEW j \in J PROVE j + a \in M
          <5>1. j \in 1..b /\ v[j] \in S
            BY <2>1
          <5>2. j + a \in 1..(a + b) /\ p[j + a] = v[j] /\ j + a > a
            BY <1>4, <5>1
          <5> QED BY <2>1, <2>2, <5>1, <5>2
        <4> QED BY <3>1, <4>1
      <3>3. \A i, j \in J : f[i] = f[j] => i = j
        <4>1. \A i, j \in 1..b : i + a = j + a => i = j
          OBVIOUS
        <4> QED BY <2>1, <3>1, <4>1
      <3>4. \A i \in M : \E j \in J : f[j] = i
        <4>1. ASSUME NEW i \in M PROVE \E j \in J : f[j] = i
          <5>1. i \in 1..(a + b) /\ i > a /\ p[i] \in S
            BY <2>1, <2>2
          <5>2. PICK j \in 1..b : j + a = i
            <6>1. i - a \in 1..b /\ (i - a) + a = i
              BY <5>1
            <6> QED BY <6>1
          <5>3. v[j] \in S
            BY <1>4, <5>1, <5>2
          <5> QED BY <2>1, <3>1, <5>2, <5>3
        <4> QED BY <4>1
      <3>5. f \in Bijection(J, M)
        BY <3>2, <3>3, <3>4 DEF Bijection, Injection, Surjection, IsInjective
      <3> QED BY <3>5 DEF ExistsBijection
    <2>0. /\ I = {i \in 1..Len(q) : q[i] \in S} /\ J = {i \in 1..Len(v) : v[i] \in S}
          /\ L = {i \in 1..Len(p) : p[i] \in S}
      BY <1>1, <1>3, <2>1
    <2>5. IsFiniteSet(I) /\ IsFiniteSet(J)
      BY <2>0, CountNat
    <2>6. IsFiniteSet(M) /\ Cardinality(M) = Cardinality(J)
      BY <2>4, <2>5, FS_Bijection
    <2>7. Cardinality(L) = Cardinality(I) + Cardinality(M) - Cardinality(I \cap M)
      BY <2>3, <2>5, <2>6, FS_Union
    <2>8. Cardinality(I \cap M) = 0
      BY <2>3, FS_EmptySet
    <2>9. /\ Count(q, S) = Cardinality(I) /\ Count(v, S) = Cardinality(J)
          /\ Count(p, S) = Cardinality(L) /\ Count(q, S) \in Nat /\ Count(v, S) \in Nat
      <3>1. Count(q, S) \in Nat /\ Count(v, S) \in Nat
        BY CountNat
      <3> QED BY <2>0, <3>1 DEF Count
    <2> QED BY <2>6, <2>7, <2>8, <2>9
  <1> QED BY <1>2, <1>5, <1>6

\* A single message.
LEMMA CountSingle ==
    ASSUME NEW m \in Msg
    PROVE  <<m>> \in Seq(Msg) /\ On(<<m>>) = {m} /\ \A S : Count(<<m>>, S) = Bit(m \in S)
  <1>1. <<m>> \in Seq(Msg) /\ Len(<<m>>) = 1 /\ <<m>>[1] = m
    OBVIOUS
  <1>2. On(<<m>>) = {m}
    BY <1>1 DEF On
  <1>3. ASSUME NEW S PROVE Count(<<m>>, S) = Bit(m \in S)
    <2>1. CASE m \in S
      <3>1. {i \in 1..Len(<<m>>) : <<m>>[i] \in S} = {1}
        BY <1>1, <2>1
      <3> QED BY <2>1, <3>1, FS_Singleton DEF Count, Bit
    <2>2. CASE m \notin S
      <3>1. {i \in 1..Len(<<m>>) : <<m>>[i] \in S} = {}
        BY <1>1, <2>2
      <3> QED BY <2>2, <3>1, FS_EmptySet DEF Count, Bit
    <2> QED BY <2>1, <2>2
  <1> QED BY <1>1, <1>2, <1>3

\* The next message is read.
LEMMA CountTail ==
    ASSUME NEW q \in Seq(Msg), q # <<>>
    PROVE  /\ Head(q) \in Msg /\ Head(q) = q[1] /\ Head(q) \in On(q) /\ Tail(q) \in Seq(Msg)
           /\ On(q) = {Head(q)} \union On(Tail(q))
           /\ \A S : Count(q, S) = Bit(Head(q) \in S) + Count(Tail(q), S)
  <1>1. PICK m \in Msg, r \in Seq(Msg) : m = Head(q) /\ r = Tail(q)
    BY HeadTailProperties
  <1>2. <<m>> \in Seq(Msg) /\ On(<<m>>) = {m} /\ \A S : Count(<<m>>, S) = Bit(m \in S)
    BY CountSingle
  <1>3. q = <<m>> \o r
    <2>1. PICK k \in Nat : Len(q) = k + 1 /\ Len(r) = k
      <3>1. Len(q) \in Nat /\ Len(q) # 0 /\ Len(r) = Len(q) - 1
        BY <1>1, HeadTailProperties, LenProperties, EmptySeq
      <3>2. Len(q) - 1 \in Nat /\ Len(q) = (Len(q) - 1) + 1
        BY <3>1
      <3> QED BY <3>1, <3>2
    <2>2. q[1] = m /\ \A i \in 1..k : r[i] = q[i + 1]
      BY <1>1, <2>1, HeadTailProperties
    <2>3. PICK p \in Seq(Msg) : p = <<m>> \o r
      BY <1>2, ConcatProperties
    <2>4. Len(p) = 1 + k /\ \A i \in 1..(1 + k) : p[i] = IF i <= 1 THEN <<m>>[i] ELSE r[i - 1]
      BY <1>2, <2>1, <2>3, ConcatProperties
    <2>5. ASSUME NEW i \in 1..(1 + k) PROVE p[i] = q[i]
      <3>1. CASE i = 1
        BY <2>2, <2>4, <3>1
      <3>2. CASE i # 1
        <4>1. i - 1 \in 1..k /\ ~(i <= 1) /\ (i - 1) + 1 = i
          BY <3>2
        <4>2. p[i] = r[i - 1] /\ r[i - 1] = q[(i - 1) + 1]
          BY <2>2, <2>4, <4>1
        <4> QED BY <4>1, <4>2
      <3> QED BY <3>1, <3>2
    <2>6. Len(p) = Len(q) /\ \A i \in 1..Len(p) : p[i] = q[i]
      BY <2>1, <2>4, <2>5
    <2> QED BY <2>3, <2>6, SeqEqual
  <1>4. On(q) = {m} \union On(r) /\ \A S : Count(q, S) = Bit(m \in S) + Count(r, S)
    <2>1. On(<<m>> \o r) = On(<<m>>) \union On(r)
          /\ \A S : Count(<<m>> \o r, S) = Count(<<m>>, S) + Count(r, S)
      BY <1>2, CountConcat
    <2> QED BY <1>2, <1>3, <2>1
  <1> QED BY <1>1, <1>4, HeadTailProperties

-----------------------------------------------------------------------------
(***************************************************************************)
(* Kinds of messages, and what the ends write.                             *)
(***************************************************************************)
Greetings == {m \in Msg : m.kind \in {"hello", "hello_ack"}}

\* What an end writes when it is established, and what it answers.
Opening(e) ==
    (IF e = "in" THEN <<Greeting("hello_ack", e)>> ELSE <<>>)
        \o <<Message("sync_req"), Message("get_peers")>>

Answer(m) == CASE m.kind = "ping" -> <<Message("pong")>>
               [] m.kind = "get_peers" -> <<Message("peers")>>
               [] OTHER -> <<>>

\* Greetings by their kind.
LEMMA Sorts ==
    ASSUME NEW m \in Msg
    PROVE  m \in Greetings <=> m.kind \in {"hello", "hello_ack"}
  BY DEF Greetings

\* What can be written without looking at the rest: nothing of the handshake's
\* beginning, and no reset; all of it now.
Sendable(v) ==
    /\ v \in Seq(Msg)
    /\ \A m \in On(v) : m.at = now /\ m.kind # "reset"

\* A single message without contents.
LEMMA SentOne ==
    ASSUME HandInv, NEW k \in Kind \ {"hello", "hello_ack", "close", "reset"},
           NEW v, v = <<Message(k)>>
    PROVE  /\ Sendable(v) /\ On(v) = {Message(k)} /\ Message(k).kind = k
           /\ Count(v, Greetings) = 0
  <1>1. now \in Nat
    BY HandTypes
  <1>2. PICK m \in Msg : m = Message(k) /\ m.kind = k /\ m.at = now
    <2>1. Message(k) \in Genuine("in", hello, TRUE) /\ Message(k).at = now /\ Message(k).kind = k
      BY <1>1, PlainSent DEF End
    <2> QED BY <2>1 DEF Genuine
  <1>3. v = <<m>> /\ v \in Seq(Msg) /\ On(v) = {m} /\ \A S : Count(v, S) = Bit(m \in S)
    BY <1>2, CountSingle
  <1>4. Sendable(v)
    BY <1>2, <1>3 DEF Sendable
  <1>5. m \notin Greetings
    BY <1>2, Sorts
  <1> QED BY <1>2, <1>3, <1>4, <1>5 DEF Bit

\* Nothing is written.
LEMMA SentNothing ==
    Sendable(<<>>) /\ On(<<>>) = {} /\ \A S : Count(<<>>, S) = 0
  BY CountEmpty DEF Sendable

\* The opening of an end.
LEMMA SentOpening ==
    ASSUME HandInv, NEW e \in End, NEW v, v = Opening(e)
    PROVE  /\ Sendable(v) /\ v # <<>>
           /\ Count(v, Greetings) = Bit(e = "in")
           /\ e = "in" => v[1].kind = "hello_ack"
  <1>1. now \in Nat /\ hello \in [End -> HelloSet]
    BY HandTypes
  <1>2. PICK m \in Msg, n \in Msg :
           /\ m = Message("sync_req") /\ n = Message("get_peers")
           /\ m.at = now /\ n.at = now /\ m.kind = "sync_req" /\ n.kind = "get_peers"
    <2>1. ASSUME NEW k \in {"sync_req", "get_peers"}
          PROVE  Message(k) \in Msg /\ Message(k).at = now /\ Message(k).kind = k
      <3>1. Message(k) \in Genuine("in", hello, TRUE) /\ Message(k).at = now /\ Message(k).kind = k
        BY <1>1, <2>1, PlainSent DEF End, Kind
      <3> QED BY <3>1 DEF Genuine
    <2> QED BY <2>1
  <1>3. PICK a \in Seq(Msg), b \in Seq(Msg) :
           /\ a = <<m>> /\ On(a) = {m} /\ Count(a, Greetings) = Bit(m \in Greetings)
           /\ b = <<n>> /\ On(b) = {n} /\ Count(b, Greetings) = Bit(n \in Greetings)
    BY CountSingle
  <1>4. PICK r : r = <<m, n>>
    OBVIOUS
  <1>5. r = a \o b
    <2>1. <<m>> \in Seq(Msg) /\ <<n>> \in Seq(Msg) /\ <<m, n>> \in Seq(Msg)
      OBVIOUS
    <2>2. /\ <<m>> \o <<n>> \in Seq(Msg) /\ Len(<<m>> \o <<n>>) = 2
          /\ \A i \in 1..2 : (<<m>> \o <<n>>)[i] = <<m, n>>[i]
      BY <2>1, ConcatProperties
    <2>3. <<m>> \o <<n>> = <<m, n>>
      BY <2>1, <2>2, SeqEqual
    <2> QED BY <1>3, <1>4, <2>3
  <1>6. /\ r \in Seq(Msg) /\ On(r) = On(a) \union On(b)
        /\ Count(r, Greetings) = Count(a, Greetings) + Count(b, Greetings)
    BY <1>3, <1>5, CountConcat
  <1>7. m \notin Greetings /\ n \notin Greetings
    BY <1>2, Sorts
  <1>8. /\ Count(r, Greetings) = 0 /\ r # <<>>
        /\ \A x \in On(r) : x.at = now /\ x.kind # "reset"
    BY <1>2, <1>3, <1>4, <1>6, <1>7 DEF Bit
  <1>9. CASE e = "out"
    <2>1. v = <<>> \o r
      BY <1>2, <1>4, <1>9 DEF Opening
    <2>2. v = r
      BY <1>6, <2>1, ConcatEmptySeq
    <2> QED BY <1>6, <1>8, <1>9, <2>2 DEF Sendable, Bit
  <1>10. CASE e = "in"
    <2>1. PICK g \in Msg : g = Greeting("hello_ack", "in") /\ g.kind = "hello_ack" /\ g.at = now
      <3>1. /\ Greeting("hello_ack", "in") \in Genuine("out", hello, TRUE)
            /\ Greeting("hello_ack", "in").kind = "hello_ack" /\ Greeting("hello_ack", "in").at = now
        BY <1>1, GreetingSent DEF End
      <3> QED BY <3>1 DEF Genuine
    <2>2. PICK c \in Seq(Msg) :
             c = <<g>> /\ On(c) = {g} /\ Count(c, Greetings) = Bit(g \in Greetings)
      BY CountSingle
    <2>3. v = c \o r
      BY <1>2, <1>4, <1>10, <2>1, <2>2 DEF Opening
    <2>4. /\ v \in Seq(Msg) /\ On(v) = On(c) \union On(r)
          /\ Count(v, Greetings) = Count(c, Greetings) + Count(r, Greetings)
      BY <1>6, <2>3, CountConcat
    <2>5. g \in Greetings
      BY <2>1, Sorts
    <2>6. Count(v, Greetings) = 1
      BY <1>8, <2>2, <2>4, <2>5 DEF Bit
    <2>7. v # <<>>
      BY <2>4, <2>6, CountEmpty
    <2>8. v[1] = g
      <3>1. c # <<>> /\ c[1] = g
        BY <2>2
      <3> QED BY <1>6, <2>2, <2>3, <3>1, Appended
    <2>9. \A x \in On(v) : x.at = now /\ x.kind # "reset"
      BY <1>8, <2>1, <2>2, <2>4
    <2> QED BY <1>10, <2>1, <2>4, <2>6, <2>7, <2>8, <2>9 DEF Sendable, Bit
  <1> QED BY <1>9, <1>10 DEF End

\* The answer to a message of an established peer.
LEMMA SentAnswer ==
    ASSUME HandInv, NEW m \in Msg, NEW v, v = Answer(m)
    PROVE  Sendable(v) /\ Count(v, Greetings) = 0
  <1>1. CASE m.kind = "ping"
    <2>1. v = <<Message("pong")>>
      BY <1>1 DEF Answer
    <2> QED BY <1>1, <2>1, SentOne DEF Kind
  <1>2. CASE m.kind = "get_peers"
    <2>1. v = <<Message("peers")>>
      BY <1>2 DEF Answer
    <2> QED BY <1>2, <2>1, SentOne DEF Kind
  <1>3. CASE m.kind \notin {"ping", "get_peers"}
    <2>1. v = <<>>
      BY <1>3 DEF Answer
    <2> QED BY <1>3, <2>1, SentNothing
  <1> QED BY <1>1, <1>2, <1>3

\* Messages of other kinds hold no greeting.
LEMMA CountNone ==
    ASSUME NEW v \in Seq(Msg), NEW K, \A m \in On(v) : m.kind \in K,
           K \cap {"hello", "hello_ack"} = {}
    PROVE  Count(v, Greetings) = 0
  <1>1. On(v) \cap Greetings = {}
    BY DEF Greetings
  <1> QED BY <1>1, CountNat

-----------------------------------------------------------------------------
(***************************************************************************)
(* The order of messages, as it concerns who is blamed.  Before a session  *)
(* is established the greeting is the next message, and nothing comes      *)
(* before it; afterwards there is none.  Every end that stopped had a      *)
(* reason that is no accusation.                                           *)
(***************************************************************************)
Ordered(x) ==
    ~cut /\ Open(x) =>
        IF session[x].established THEN Count(wire[x], Greetings) = 0
        ELSE IF x = "out" /\ ~session["in"].established
        THEN /\ Open("in") => wire[x] = <<>>
             /\ \A m \in On(wire[x]) : m.kind \in {"close", "eof", "reset"}
        ELSE /\ wire[x] # <<>>
             /\ \/ wire[x][1].kind = "reset"
                \/ wire[x][1].kind \in {"hello", "hello_ack"} /\ Count(wire[x], Greetings) <= 1

\* No end stopped because of a wrong message, or was cut off once it was
\* established, unless the network failed, a reset came, or more was sent to it
\* than it admits.
Innocent(x) ==
    /\ session[x].reason # "invalid_frame"
    /\ session[x].end = "Dropped" =>
          \/ cut \/ lost
          \/ session[x].reason = "rate_limited" \/ SyncExceeded(x, session[x])

OrderOf(x) ==
    /\ Ordered(x) /\ Innocent(x)
    /\ Open(x) /\ session[x].established => session[x].state = "Established"
    /\ stream[x].on => Open(x) /\ session[x].established
    /\ \A m \in On(wire[x]) : m.kind = "reset" => lost
    /\ ~Open(x) => wire[x] = <<>>

OrderInv == \A x \in End : OrderOf(x)

(***************************************************************************)
(* The steps of an end e, and what they mean for the other end f.          *)
(***************************************************************************)

\* What is on its way to f after v was written to it.
Sends(f, v) ==
    wire'[f] = IF cut \/ ~Open(f) THEN wire[f] ELSE wire[f] \o v

\* An end stops: it tells the other one at most why, and that it did.
Leaves(e, f) ==
    /\ Open(e) /\ (~Open(e))'
    /\ wire' = [x \in End |-> wire'[x]] /\ wire'[e] = <<>>
    /\ \E v : /\ Sendable(v) /\ Sends(f, v)
              /\ \A m \in On(v) : m.kind \in {"close", "eof"}
    /\ session'[f] = session[f] /\ stream'[f] = stream[f]
    /\ ~stream'[e].on
    /\ session'[e].established = session[e].established
    /\ UNCHANGED <<now, hello, cut, lost>>

\* It goes on with session t, having written v.
GoesOn(e, f, t, v) ==
    /\ Open(e) /\ Sendable(v) /\ Sends(f, v)
    /\ t \in SessionSet /\ t.end = "open" /\ t.reason = session[e].reason
    /\ session' = [session EXCEPT ![e] = t]
    /\ wire' = [x \in End |-> wire'[x]]
    /\ stream'[f] = stream[f]
    /\ UNCHANGED <<now, hello, cut, lost>>

\* It has read m.
Reads(e, f, m, t, v) ==
    /\ GoesOn(e, f, t, v)
    /\ ~cut /\ wire[e] # <<>> /\ m = Head(wire[e]) /\ wire'[e] = Tail(wire[e])
    /\ m.kind \notin {"eof", "reset", "close"}
    /\ t.established /\ t.state = "Established"
    /\ \/ /\ ~session[e].established /\ m \in Greetings
          /\ v = Opening(e) /\ stream'[e] = stream[e]
       \/ /\ session[e].established /\ m.kind = "sync_req" /\ ~stream[e].on /\ v = <<>>
          /\ stream'[e] = [left |-> Backlog[e], start |-> now, msgs |-> 0, bytes |-> 0, on |-> TRUE]
       \/ /\ session[e].established /\ m \notin Greetings
          /\ m.kind = "sync_req" => stream[e].on
          /\ v = Answer(m) /\ stream'[e] = stream[e]

\* It has read nothing, and may have sent a PING.
Polls(e, f, t, v) ==
    /\ GoesOn(e, f, t, v) /\ wire'[e] = wire[e] /\ stream'[e] = stream[e]
    /\ t.established = session[e].established /\ t.state = session[e].state
    /\ v = <<>> \/ (session[e].established /\ v = <<Message("ping")>>)

\* It has sent the next event of its answer, that it is done, or an EVENT of
\* the hub.
Streams(e, f, v) ==
    /\ GoesOn(e, f, session[e], v) /\ wire'[e] = wire[e] /\ session[e].established
    /\ stream'[e].on => stream[e].on
    /\ \E k \in {"sync_done", "event"} : v = <<Message(k)>>

\* What is on its way to the other end after a write.
LEMMA SendsEffect ==
    ASSUME HandInv, NEW f \in End, NEW v, Sendable(v), Sends(f, v)
    PROVE  /\ wire'[f] \in Seq(Msg)
           /\ On(wire'[f]) \subseteq On(wire[f]) \union On(v)
           /\ \A S : /\ Count(wire'[f], S) \in Nat /\ Count(wire[f], S) \in Nat /\ Count(v, S) \in Nat
                     /\ Count(wire'[f], S) <= Count(wire[f], S) + Count(v, S)
           /\ wire[f] # <<>> => wire'[f] # <<>> /\ wire'[f][1] = wire[f][1]
           /\ v = <<>> => wire'[f] = wire[f]
  <1>1. PICK q \in Seq(Msg) : q = wire[f]
    BY HandTypes
  <1>2. v \in Seq(Msg)
    BY DEF Sendable
  <1>3. /\ q \o v \in Seq(Msg) /\ On(q \o v) = On(q) \union On(v)
        /\ \A S : Count(q \o v, S) = Count(q, S) + Count(v, S)
    BY <1>2, CountConcat
  <1>4. \A S : Count(q, S) \in Nat /\ Count(v, S) \in Nat
    BY <1>2, CountNat
  <1>5. v = <<>> => q \o v = q
    BY ConcatEmptySeq
  <1>6. PICK p : p = q \o v
    OBVIOUS
  <1>7. q # <<>> => p # <<>> /\ p[1] = q[1]
    BY <1>2, <1>6, Appended
  <1>8. CASE cut \/ ~Open(f)
    <2>1. wire'[f] = q
      BY <1>1, <1>8 DEF Sends
    <2> QED BY <1>1, <1>4, <2>1
  <1>9. CASE ~(cut \/ ~Open(f))
    <2>1. wire'[f] = p
      BY <1>1, <1>6, <1>9 DEF Sends
    <2>2. /\ p \in Seq(Msg) /\ On(p) = On(q) \union On(v)
          /\ \A S : Count(p, S) = Count(q, S) + Count(v, S)
      BY <1>3, <1>6
    <2> QED BY <1>1, <1>4, <1>5, <1>6, <1>7, <2>1, <2>2
  <1> QED BY <1>8, <1>9

\* pump() stops.
LEMMA StopLeaves ==
    ASSUME HandInv, NEW e \in End, NEW f \in End, f = Other(e), Open(e),
           NEW s \in SessionSet, s.established = session[e].established,
           NEW clean \in BOOLEAN, NEW reason \in Reason,
           reason = "self_connect" => SelfConnected, NEW rest,
           Stop(e, s, clean, reason, rest)
    PROVE  /\ Leaves(e, f)
           /\ session'[e].reason = reason /\ session'[e].received = s.received
           /\ session'[e].end = "Dropped" => session[e].established /\ ~clean
  <1>1. TypeOK /\ WireSound
    BY DEF HandInv
  <1>2. now \in Nat /\ wire \in [End -> Seq(Msg)] /\ stream \in [End -> StreamSet]
        /\ hello \in [End -> HelloSet]
    BY HandTypes
  <1>3. /\ session'[f] = session[f]
        /\ session'[e].established = s.established
        /\ session'[e].reason = reason
        /\ session'[e].end \in {"HandshakeFailed", "ClosedCleanly", "Dropped"}
        /\ session'[e].end = "Dropped" => s.established /\ ~clean
        /\ session'[e].received = s.received
        /\ stream'[f] = stream[f] /\ ~stream'[e].on
        /\ UNCHANGED <<now, hello, cut, lost>>
    BY <1>1, StopEffect
  <1>5. PICK a : a = <<Message("eof")>>
    OBVIOUS
  <1>6. /\ Sendable(a) /\ a \in Seq(Msg)
        /\ \A m \in On(a) : m.kind = "eof"
    BY <1>5, SentOne DEF Kind, Sendable
  <1>7. PICK b \in Msg : b = Close(reason) /\ b.kind = "close" /\ b.at = now
    <2>1. reason = "self_connect" => hello["out"].nonce = hello["in"].nonce
      BY DEF SelfConnected
    <2>2. PICK b : b = Close(reason)
      OBVIOUS
    <2>3. ASSUME NEW est \in BOOLEAN
          PROVE  b \in Genuine(f, hello, est) /\ b.kind = "close" /\ b.at = now
      <3>1. now \in Nat
        BY HandTypes
      <3> QED BY ONLY <3>1, <2>1, <2>2, <2>3, f \in End, reason \in Reason, CloseSent
    <2> QED BY <2>2, <2>3 DEF Genuine
  <1>8. PICK c \in Seq(Msg) : c = <<b>> /\ On(c) = {b}
    BY CountSingle
  <1>9. PICK v : v = (IF reason = "none" THEN <<>> ELSE c) \o a
    OBVIOUS
  <1>10. Sendable(v) /\ \A m \in On(v) : m.kind \in {"close", "eof"}
    <2>1. CASE reason = "none"
      <3>1. v = a
        BY <1>6, <1>9, <2>1, ConcatEmptySeq
      <3> QED BY <1>6, <3>1
    <2>2. CASE reason # "none"
      <3>1. v = c \o a
        BY <1>9, <2>2
      <3>2. v \in Seq(Msg) /\ On(v) = On(c) \union On(a)
        BY <1>6, <3>1, CountConcat
      <3> QED BY <1>6, <1>7, <1>8, <3>2 DEF Sendable
    <2> QED BY <2>1, <2>2
  <1>11. wire' = [Write(e, v) EXCEPT ![e] = <<>>]
    BY <1>5, <1>7, <1>8, <1>9 DEF Stop
  <1>12. /\ Write(e, v)[f] = IF cut \/ ~Open(f) THEN wire[f] ELSE wire[f] \o v
         /\ [Write(e, v) EXCEPT ![e] = <<>>] =
               [x \in End |-> IF x = e THEN <<>> ELSE Write(e, v)[x]]
    BY <1>2, WriteEffect
  <1>13. wire' = [x \in End |-> IF x = e THEN <<>> ELSE Write(e, v)[x]]
    BY <1>11, <1>12
  <1>14. wire'[e] = <<>> /\ wire' = [x \in End |-> wire'[x]] /\ Sends(f, v)
    BY <1>12, <1>13, OtherEnd DEF Sends
  <1>15. (~Open(e))'
    BY <1>3 DEF Open
  <1>16. Leaves(e, f)
    BY <1>3, <1>10, <1>14, <1>15 DEF Leaves
  <1> QED BY <1>3, <1>16

\* The session goes on, as pump() and the model put it.
LEMMA GoOnReads ==
    ASSUME HandInv, NEW e \in End, NEW f \in End, f = Other(e), Open(e), wire[e] # <<>>,
           NEW t \in SessionSet, t.end = "open", t.reason = session[e].reason,
           NEW v, Sendable(v), GoOn(e, t, v)
    PROVE  /\ GoesOn(e, f, t, v) /\ wire'[e] = Tail(wire[e]) /\ stream'[e] = stream[e]
  <1>1. wire \in [End -> Seq(Msg)]
    BY HandTypes
  <1>2. /\ session' = [session EXCEPT ![e] = t]
        /\ wire' = [Write(e, v) EXCEPT ![e] = Tail(Write(e, v)[e])]
        /\ UNCHANGED <<now, hello, stream, news, self, cut, lost>>
    BY DEF GoOn
  <1>3. /\ Write(e, v)[e] = wire[e]
        /\ Write(e, v)[f] = IF cut \/ ~Open(f) THEN wire[f] ELSE wire[f] \o v
        /\ \A r : [Write(e, v) EXCEPT ![e] = r] =
                     [x \in End |-> IF x = e THEN r ELSE Write(e, v)[x]]
    BY <1>1, WriteEffect
  <1>4. wire' = [x \in End |-> IF x = e THEN Tail(wire[e]) ELSE Write(e, v)[x]]
    BY <1>2, <1>3
  <1>5. wire'[e] = Tail(wire[e]) /\ wire' = [x \in End |-> wire'[x]] /\ Sends(f, v)
    BY <1>3, <1>4, OtherEnd DEF Sends
  <1> QED BY <1>2, <1>5 DEF GoesOn

\* The greetings: the next message of a session that is not established is
\* the greeting it waits for, and an established one gets none.
LEMMA GreetShape ==
    ASSUME HandInv, OrderInv, NEW e \in End, NEW f \in End, f = Other(e), Open(e), ~cut,
           wire[e] # <<>>, NEW m, m = Head(wire[e]), m.kind \in {"hello", "hello_ack"},
           NEW s, s = Taken(e), Greet(e, s, m)
    PROVE  \/ Leaves(e, f) /\ (Innocent(e))'
           \/ \E t, v : Reads(e, f, m, t, v)
  <1>1. /\ m \in Genuine(e, hello, session["in"].established) /\ m \in Msg
        /\ s \in SessionSet /\ SameFields(s, session[e])
        /\ session[e].end = "open" /\ session[e].reason = "none"
    BY ReceiveFacts
  <1>2. now \in Nat /\ session[e] \in SessionSet /\ wire[e] \in Seq(Msg)
    BY HandTypes
  <1>3. PICK expected \in BOOLEAN :
           expected <=> m.kind = (IF e = "in" THEN "hello" ELSE "hello_ack")
    OBVIOUS
  <1>4. PICK verdict : verdict = IF s.state = "Established" \/ ~expected THEN "invalid_frame"
                                 ELSE Accepts(e, m.hello)
    OBVIOUS
  <1>5. expected
    BY <1>1, <1>3 DEF Genuine, End
  <1>6. m \in On(wire[e]) /\ m \in Greetings
    BY <1>1, <1>2, CountTail, Sorts
  <1>7. ~session[e].established
    <2>1. Count(wire[e], Greetings) # 0
      BY <1>2, <1>6, CountNat
    <2> QED BY <2>1 DEF OrderInv, OrderOf, Ordered
  <1>8. s.state # "Established"
    BY <1>1, <1>7 DEF SameFields, HandInv, StateSound
  <1>9. m.hello = hello[Other(e)]
    BY <1>1, <1>3, <1>5 DEF Genuine, Other, End
  <1>10. verdict \in {"none", "incompatible", "self_connect"}
    BY <1>4, <1>5, <1>8 DEF Accepts
  <1>11. verdict = "self_connect" => SelfConnected
    BY <1>4, <1>5, <1>8, <1>9 DEF Accepts, SelfConnected, Other, End
  <1>12. CASE verdict = "none"
    <2>1. PICK t : t = [s EXCEPT !.state = "Established", !.established = TRUE,
                                 !.pending = TRUE, !.received = 0]
      OBVIOUS
    <2>2. PICK v : v = Opening(e)
      OBVIOUS
    <2>3. /\ t \in SessionSet /\ t.established /\ t.state = "Established" /\ t.end = "open"
          /\ t.reason = session[e].reason
      BY <1>1, <2>1 DEF SessionSet, SameFields
    <2>4. GoOn(e, t, v)
      BY <1>3, <1>4, <1>12, <2>1, <2>2 DEF Greet, Opening
    <2>5. Sendable(v)
      BY <2>2, SentOpening
    <2>6. GoesOn(e, f, t, v) /\ wire'[e] = Tail(wire[e]) /\ stream'[e] = stream[e]
      BY <2>3, <2>4, <2>5, GoOnReads
    <2>8. Reads(e, f, m, t, v)
      BY <1>6, <1>7, <2>2, <2>3, <2>6 DEF Reads
    <2> QED BY <2>8
  <1>13. CASE verdict # "none"
    <2>1. Stop(e, s, FALSE, verdict, Tail(wire[e]))
      BY <1>3, <1>4, <1>13 DEF Greet
    <2>2. verdict \in Reason
      BY <1>10 DEF Reason
    <2>3. s.established = session[e].established
      BY <1>1 DEF SameFields
    <2>4. PICK clean \in BOOLEAN : clean = FALSE
      OBVIOUS
    <2>5. Stop(e, s, clean, verdict, Tail(wire[e]))
      BY <2>1, <2>4
    <2>6. s \in SessionSet
      BY <1>1
    <2>7. /\ Leaves(e, f) /\ session'[e].reason = verdict
          /\ session'[e].end = "Dropped" => session[e].established
      BY <1>11, <2>2, <2>3, <2>4, <2>5, <2>6, StopLeaves
    <2>8. (Innocent(e))'
      BY <1>7, <1>10, <2>7 DEF Innocent
    <2> QED BY <2>7, <2>8
  <1> QED BY <1>12, <1>13

\* A message to an established session.
LEMMA DeliverShape ==
    ASSUME HandInv, NEW e \in End, NEW f \in End, f = Other(e), Open(e), ~cut,
           wire[e] # <<>>, NEW m, m = Head(wire[e]),
           m.kind \notin {"eof", "reset", "close", "hello", "hello_ack"},
           NEW s, s = Taken(e), s.state = "Established",
           Deliver(e, s, m)
    PROVE  \/ Leaves(e, f) /\ (Innocent(e))'
           \/ \E t, v : Reads(e, f, m, t, v)
  <1>1. /\ m \in Msg /\ s \in SessionSet /\ SameFields(s, session[e])
        /\ session[e].end = "open" /\ session[e].reason = "none"
        /\ session[e].state = "Established" => session[e].established
    BY ReceiveFacts
  <1>2. /\ now \in Nat /\ session[e] \in SessionSet /\ wire \in [End -> Seq(Msg)]
        /\ stream \in [End -> StreamSet]
    BY HandTypes
  <1>3. PICK u : u = Counted(s, m)
    OBVIOUS
  <1>4. /\ u \in SessionSet /\ SameFields(u, s) /\ (m.kind = "sync_req" => u = s)
        /\ u.established /\ session[e].established /\ u.end = "open" /\ u.state = "Established"
        /\ u.reason = session[e].reason /\ u.established = session[e].established
    <2>1. u \in SessionSet /\ SameFields(u, s) /\ (m.kind = "sync_req" => u = s)
      BY <1>1, <1>3, CountedEffect
    <2> QED BY <1>1, <2>1 DEF SameFields
  <1>5. m \notin Greetings
    BY <1>1, Sorts
  <1>8. CASE m.kind = "event" /\ SyncExceeded(e, u)
    <2>1. PICK clean \in BOOLEAN, reason \in Reason : clean = FALSE /\ reason = "none"
      BY DEF Reason
    <2>2. Stop(e, u, clean, reason, Tail(wire[e]))
      BY <1>3, <1>8, <2>1 DEF Deliver
    <2>3. Leaves(e, f) /\ session'[e].reason = reason /\ session'[e].received = u.received
      <3>1. reason # "self_connect" /\ u \in SessionSet /\ u.established = session[e].established
        BY <1>4, <2>1
      <3> QED BY <2>2, <3>1, StopLeaves
    <2>4. (Innocent(e))'
      BY <1>8, <2>1, <2>3 DEF Innocent, SyncExceeded
    <2> QED BY <2>3, <2>4
  <1>6. CASE m.kind = "sync_req" /\ ~stream[e].on
    <2>1. /\ stream' = [stream EXCEPT ![e] =
                [left |-> Backlog[e], start |-> now, msgs |-> 0, bytes |-> 0, on |-> TRUE]]
          /\ session' = [session EXCEPT ![e] = s]
          /\ wire' = [wire EXCEPT ![e] = Tail(wire[e])]
          /\ UNCHANGED <<now, hello, news, self, cut, unread, lost>>
      BY <1>3, <1>6 DEF Deliver
    <2>2. /\ stream'[e] = [left |-> Backlog[e], start |-> now, msgs |-> 0, bytes |-> 0, on |-> TRUE]
          /\ stream'[f] = stream[f]
      BY <1>2, <2>1, OtherEnd
    <2>3. wire'[e] = Tail(wire[e]) /\ wire'[f] = wire[f] /\ wire' = [x \in End |-> wire'[x]]
      BY <1>2, <2>1, OtherEnd
    <2>4. PICK v : v = <<>>
      OBVIOUS
    <2>5. wire[f] \o v = wire[f]
      BY <1>2, <2>4, ConcatEmptySeq
    <2>6. Sendable(v) /\ Sends(f, v)
      BY <2>3, <2>4, <2>5, SentNothing DEF Sends
    <2>7. GoesOn(e, f, u, v)
      BY <1>4, <1>6, <2>1, <2>2, <2>3, <2>6 DEF GoesOn
    <2>8. Reads(e, f, m, u, v)
      BY <1>4, <1>6, <2>2, <2>3, <2>4, <2>7 DEF Reads
    <2> QED BY <2>8
  <1>7. CASE ~(m.kind = "sync_req" /\ ~stream[e].on) /\ ~(m.kind = "event" /\ SyncExceeded(e, u))
    <2>1. PICK v : v = Answer(m)
      OBVIOUS
    <2>2. GoOn(e, u, v)
      BY <1>3, <1>7, <2>1 DEF Deliver, Answer
    <2>3. Sendable(v)
      BY <1>1, <2>1, SentAnswer
    <2>4. GoesOn(e, f, u, v) /\ wire'[e] = Tail(wire[e]) /\ stream'[e] = stream[e]
      BY <1>4, <2>2, <2>3, GoOnReads
    <2>5. Reads(e, f, m, u, v)
      BY <1>4, <1>5, <1>7, <2>1, <2>4 DEF Reads
    <2> QED BY <2>5
  <1> QED BY <1>6, <1>7, <1>8

\* The read branch of pump(): nothing that arrives is an offence, unless it is
\* too much.
LEMMA ReceiveShape ==
    ASSUME HandInv, OrderInv, NEW e \in End, NEW f \in End, f = Other(e), Receive(e)
    PROVE  \/ Leaves(e, f) /\ (Innocent(e))'
           \/ \E m, t, v : Reads(e, f, m, t, v)
  <1>1. Open(e) /\ ~cut /\ wire[e] # <<>>
    BY DEF Receive
  <1>2. PICK m : m = Head(wire[e])
    OBVIOUS
  <1>3. PICK s : s = Taken(e)
    OBVIOUS
  <1>4. /\ s \in SessionSet /\ session[e] \in SessionSet /\ SameFields(s, session[e])
        /\ m \in Msg /\ wire[e] \in Seq(Msg)
    BY <1>1, <1>2, <1>3, ReceiveFacts, HandTypes
  <1>5. m.kind \in Kind /\ session[e].established \in BOOLEAN /\ s.established \in BOOLEAN
    BY <1>4, MsgParts DEF SessionSet
  <1>6. (CASE m.kind = "eof" -> EndOfStream(e)
          [] m.kind = "reset" -> Stop(e, session[e], FALSE, "none", <<>>) /\ UNCHANGED self
          [] m.kind \notin {"eof", "reset"} /\ Limited(s) ->
                Stop(e, s, FALSE, "rate_limited", Tail(wire[e])) /\ UNCHANGED self
          [] m.kind \in {"hello", "hello_ack"} /\ ~Limited(s) -> Greet(e, s, m)
          [] m.kind = "close" /\ ~Limited(s) -> PeerClosed(e, s, m)
          [] OTHER -> IF s.state = "Established" THEN Deliver(e, s, m)
                      ELSE Stop(e, s, FALSE, "invalid_frame", Tail(wire[e])) /\ UNCHANGED self)
    BY <1>2, <1>3 DEF Receive, Taken
  <1>7. CASE m.kind \notin {"eof", "reset"} /\ Limited(s)
    <2>1. PICK clean \in BOOLEAN, reason \in Reason : clean = FALSE /\ reason = "rate_limited"
      BY DEF Reason
    <2>2. Stop(e, s, clean, reason, Tail(wire[e]))
      BY <1>6, <1>7, <2>1
    <2>3. s.established = session[e].established
      BY <1>4 DEF SameFields
    <2>4. Leaves(e, f) /\ session'[e].reason = reason
      BY <1>1, <1>4, <2>1, <2>2, <2>3, StopLeaves
    <2> QED BY <2>1, <2>4 DEF Innocent
  <1>8. ASSUME NEW u \in {s, session[e]}, NEW clean \in BOOLEAN, NEW rest,
               Stop(e, u, clean, "none", rest), session[e].established /\ ~clean => lost
        PROVE  Leaves(e, f) /\ (Innocent(e))'
    <2>1. u \in SessionSet /\ u.established = session[e].established
      BY <1>4 DEF SameFields
    <2>2. "none" \in Reason
      BY DEF Reason
    <2>3. /\ Leaves(e, f) /\ session'[e].reason = "none"
          /\ session'[e].end = "Dropped" => session[e].established /\ ~clean
      BY <1>1, <1>8, <2>1, <2>2, StopLeaves
    <2>4. (Innocent(e))'
      BY <1>8, <2>3 DEF Innocent, Leaves
    <2> QED BY <2>3, <2>4
  <1>9. CASE m.kind = "eof"
    <2>1. Stop(e, session[e], session[e].established, "none", <<>>)
      BY <1>6, <1>9 DEF EndOfStream
    <2> QED BY <1>5, <1>8, <2>1
  <1>10. CASE m.kind = "reset"
    <2>1. Stop(e, session[e], FALSE, "none", <<>>)
      BY <1>6, <1>10
    <2>2. m \in On(wire[e])
      BY <1>1, <1>2, <1>4, CountTail
    <2>3. lost
      BY <1>10, <2>2 DEF OrderInv, OrderOf
    <2> QED BY <1>8, <2>1, <2>3
  <1>11. CASE m.kind \in {"hello", "hello_ack"} /\ ~Limited(s)
    <2>1. Greet(e, s, m)
      BY <1>6, <1>11
    <2> QED BY <1>1, <1>2, <1>3, <1>11, <2>1, GreetShape
  <1>12. CASE m.kind = "close" /\ ~Limited(s)
    <2>1. Stop(e, s, s.established, "none", Tail(wire[e]))
      BY <1>6, <1>12 DEF PeerClosed
    <2>2. s.established = session[e].established
      BY <1>4 DEF SameFields
    <2> QED BY <1>5, <1>8, <2>1, <2>2
  <1>13. CASE m.kind \notin {"eof", "reset", "hello", "hello_ack", "close"} /\ ~Limited(s)
    <2>1. IF s.state = "Established" THEN Deliver(e, s, m)
          ELSE Stop(e, s, FALSE, "invalid_frame", Tail(wire[e])) /\ UNCHANGED self
      BY <1>6, <1>13
    <2>2. session[e].established
      <3>1. m = wire[e][1] /\ m \in On(wire[e])
        BY <1>1, <1>2, <1>4, CountTail
      <3>2. Ordered(e)
        BY DEF OrderInv, OrderOf
      <3> QED BY <1>1, <1>13, <3>1, <3>2 DEF Ordered
    <2>3. s.state = "Established"
      <3>1. session[e].state = "Established"
        BY <1>1, <2>2 DEF OrderInv, OrderOf
      <3> QED BY <1>4, <3>1 DEF SameFields
    <2>4. Deliver(e, s, m)
      BY <2>1, <2>3
    <2>5. (Leaves(e, f) /\ (Innocent(e))') \/ \E t, v : Reads(e, f, m, t, v)
      BY <1>1, <1>2, <1>3, <1>13, <2>3, <2>4, DeliverShape
    <2> QED BY <2>5
  <1> QED BY <1>7, <1>9, <1>10, <1>11, <1>12, <1>13

\* The keepalive branch of pump().
LEMMA PollShape ==
    ASSUME HandInv, KeepInv, KeepaliveMargin, NEW e \in End, NEW f \in End, f = Other(e), Poll(e)
    PROVE  \/ Leaves(e, f) /\ (Innocent(e))'
           \/ \E t, v : Polls(e, f, t, v)
  <1>1. PICK s : s = [session[e] EXCEPT !.poll = now + TickEvery]
    OBVIOUS
  <1>2. /\ s \in SessionSet /\ s.recv = session[e].recv
        /\ s.ping = session[e].ping /\ s.established = session[e].established
        /\ s.end = session[e].end
        /\ s.ping \in Nat /\ s.established \in BOOLEAN
    BY <1>1, PollFacts
  <1>3. /\ s.state = session[e].state /\ s.reason = session[e].reason
    <2>1. session[e] \in SessionSet
      BY HandTypes
    <2> QED BY <1>1, <2>1 DEF SessionSet
  <1>4. Open(e) /\ session[e].end = "open"
    BY DEF Poll, Open
  <1>5. PICK due \in BOOLEAN : due <=> now - s.ping >= Interval
    OBVIOUS
  <1>6. PICK v : v = IF due /\ s.established THEN <<Message("ping")>> ELSE <<>>
    OBVIOUS
  <1>7. now \in Nat /\ Interval \in Nat /\ wire \in [End -> Seq(Msg)] /\ cut \in BOOLEAN
    BY EndTimes, HandTypes
  <1>8. CASE TimedOut(s)
    <2>1. PICK t : t = [s EXCEPT !.timeout = TRUE]
      OBVIOUS
    <2>2. t \in SessionSet /\ t.established = session[e].established
      BY <1>2, <2>1 DEF SessionSet
    <2>3. Stop(e, t, FALSE, "going_away", wire[e])
      BY <1>1, <1>8, <2>1 DEF Poll
    <2>4. "going_away" \in Reason
      BY DEF Reason
    <2>5. now - session[e].recv >= Timeout
      BY <1>2, <1>8 DEF TimedOut
    <2>6. cut
      BY <1>4, <1>7, <2>5, NotTimedOut
    <2>7. Leaves(e, f) /\ session'[e].reason = "going_away"
      BY <1>4, <2>2, <2>3, <2>4, StopLeaves
    <2>8. cut'
      BY <2>6, <2>7 DEF Leaves
    <2> QED BY <2>7, <2>8 DEF Innocent
  <1>9. CASE ~TimedOut(s)
    <2>1. PICK t : t = IF due THEN [s EXCEPT !.ping = now] ELSE s
      OBVIOUS
    <2>2. /\ t \in SessionSet /\ t.established = s.established /\ t.end = s.end
          /\ t.state = s.state /\ t.reason = s.reason
      <3>1. PICK u : u = [s EXCEPT !.ping = now]
        OBVIOUS
      <3>2. /\ u \in SessionSet /\ u.established = s.established /\ u.end = s.end
            /\ u.state = s.state /\ u.reason = s.reason
        BY <1>2, <1>7, <3>1 DEF SessionSet
      <3> QED BY <1>2, <2>1, <3>1, <3>2
    <2>3. /\ session' = [session EXCEPT ![e] = t] /\ wire' = Write(e, v)
          /\ UNCHANGED <<now, hello, stream, news, self, cut, lost>>
      BY <1>1, <1>5, <1>6, <1>9, <2>1 DEF Poll
    <2>4. wire'[e] = wire[e] /\ wire' = [x \in End |-> wire'[x]] /\ Sends(f, v)
      <3>1. /\ Write(e, v)[e] = wire[e] /\ Write(e, v) = [x \in End |-> Write(e, v)[x]]
            /\ Write(e, v)[f] = IF cut \/ ~Open(f) THEN wire[f] ELSE wire[f] \o v
        BY <1>7, WriteEffect
      <3> QED BY <2>3, <3>1 DEF Sends
    <2>5. Sendable(v)
      <3>1. "ping" \in Kind \ {"hello", "hello_ack", "close", "reset"}
        BY DEF Kind
      <3>2. Sendable(<<Message("ping")>>) /\ Sendable(<<>>)
        BY <3>1, SentOne, SentNothing
      <3> QED BY <1>6, <3>2
    <2>6. GoesOn(e, f, t, v)
      BY <1>2, <1>3, <1>4, <2>2, <2>3, <2>4, <2>5 DEF GoesOn
    <2>7. v = <<>> \/ (session[e].established /\ v = <<Message("ping")>>)
      BY <1>2, <1>6
    <2>8. Polls(e, f, t, v)
      BY <1>2, <1>3, <2>2, <2>3, <2>4, <2>6, <2>7 DEF Polls
    <2> QED BY <2>8
  <1> QED BY <1>8, <1>9

\* The answer to SYNC_REQ, and an EVENT of the hub.
LEMMA StreamShape ==
    ASSUME HandInv, OrderInv, NEW e \in End, NEW f \in End, f = Other(e), Stream(e) \/ Broadcast(e)
    PROVE  \E v : Streams(e, f, v)
  <1>1. /\ session \in [End -> SessionSet] /\ wire \in [End -> Seq(Msg)]
        /\ stream \in [End -> StreamSet]
    BY HandTypes
  <1>2. Open(e) /\ session[e].end = "open" /\ session[e].established
    BY DEF Stream, Broadcast, Open, OrderInv, OrderOf
  <1>3. PICK k \in {"sync_done", "event"} : wire' = Write(e, <<Message(k)>>)
    BY DEF Stream, Broadcast
  <1>4. PICK v : v = <<Message(k)>>
    OBVIOUS
  <1>5. wire' = Write(e, v) /\ UNCHANGED <<now, hello, session, cut, lost>>
    BY <1>3, <1>4 DEF Stream, Broadcast
  <1>6. Sendable(v)
    <2>1. k \in Kind \ {"hello", "hello_ack", "close", "reset"}
      BY <1>3 DEF Kind
    <2> QED BY <1>4, <2>1, SentOne
  <1>7. wire'[e] = wire[e] /\ wire' = [x \in End |-> wire'[x]] /\ Sends(f, v)
    <2>1. /\ Write(e, v)[e] = wire[e] /\ Write(e, v) = [x \in End |-> Write(e, v)[x]]
          /\ Write(e, v)[f] = IF cut \/ ~Open(f) THEN wire[f] ELSE wire[f] \o v
      BY <1>1, WriteEffect
    <2> QED BY <1>5, <2>1 DEF Sends
  <1>8. stream'[f] = stream[f] /\ (stream'[e].on => stream[e].on)
    <2>1. CASE Stream(e)
      <3>1. PICK c : stream' = [stream EXCEPT ![e] = c]
        BY <2>1 DEF Stream
      <3> QED BY <1>1, <2>1, <3>1, OtherEnd DEF Stream
    <2>2. CASE Broadcast(e)
      BY <2>2 DEF Broadcast
    <2> QED BY <2>1, <2>2
  <1>9. GoesOn(e, f, session[e], v)
    <2>1. session' = [session EXCEPT ![e] = session[e]]
      BY <1>1, <1>5
    <2>2. session[e] \in SessionSet
      BY <1>1
    <2> QED BY <1>2, <1>5, <1>6, <1>7, <1>8, <2>1, <2>2 DEF GoesOn
  <1> QED BY <1>2, <1>3, <1>4, <1>7, <1>8, <1>9 DEF Streams

\* An end shuts down, refuses a connection, or dies.
LEMMA EndShape ==
    ASSUME HandInv, OrderInv, NEW e \in End, NEW f \in End, f = Other(e),
           Shutdown(e) \/ Crash(e) \/ (e = "in" /\ RefuseInbound)
    PROVE  Leaves(e, f) /\ (Innocent(e))'
  <1>1. /\ session \in [End -> SessionSet] /\ wire \in [End -> Seq(Msg)]
        /\ stream \in [End -> StreamSet] /\ now \in Nat
        /\ session[e].established \in BOOLEAN
    BY HandTypes
  <1>2. ASSUME Open(e), NEW clean \in BOOLEAN, session[e].established => clean,
               Stop(e, session[e], clean, "going_away", wire[e])
        PROVE  Leaves(e, f) /\ (Innocent(e))'
    <2>1. "going_away" \in Reason
      BY DEF Reason
    <2>2. /\ Leaves(e, f) /\ session'[e].reason = "going_away"
          /\ session'[e].end = "Dropped" => session[e].established /\ ~clean
      <3>1. session[e] \in SessionSet
        BY <1>1
      <3> QED BY <1>2, <2>1, <3>1, StopLeaves
    <2> QED BY <1>2, <2>2 DEF Innocent
  <1>3. CASE Shutdown(e)
    BY <1>2, <1>3 DEF Shutdown
  <1>4. CASE e = "in" /\ RefuseInbound
    <2>1. Open(e) /\ session[e].state = "Connecting"
          /\ Stop(e, session[e], FALSE, "going_away", wire[e])
      BY <1>4 DEF RefuseInbound
    <2>2. ~session[e].established
      BY <2>1 DEF OrderInv, OrderOf
    <2> QED BY <1>2, <2>1, <2>2
  <1>5. CASE Crash(e)
    <2>1. PICK s \in SessionSet : s = session[e]
      BY <1>1
    <2>2. PICK t : t = [s EXCEPT !.state = "Closed", !.end = "Crashed"]
      OBVIOUS
    <2>3. /\ t.end = "Crashed" /\ t.established = s.established
          /\ t.reason = s.reason
      BY <2>2 DEF SessionSet
    <2>4. session' = [session EXCEPT ![e] = t]
      BY <1>1, <1>5, <2>1, <2>2 DEF Crash
    <2>5. session'[e] = t /\ session'[f] = session[f]
      BY <1>1, <2>4, OtherEnd
    <2>6. PICK u : u = [stream[e] EXCEPT !.left = 0, !.on = FALSE]
      OBVIOUS
    <2>7. ~u.on
      BY <1>1, <2>6 DEF StreamSet
    <2>8. stream' = [stream EXCEPT ![e] = u]
      BY <1>5, <2>6 DEF Crash
    <2>9. stream'[e] = u /\ stream'[f] = stream[f]
      BY <1>1, <2>8, OtherEnd
    <2>10. PICK v : v = <<Message("eof")>>
      OBVIOUS
    <2>11. /\ Sendable(v)
           /\ \A m \in On(v) : m.kind \in {"close", "eof"}
      BY <2>10, SentOne DEF Kind
    <2>12. wire' = [Write(e, v) EXCEPT ![e] = <<>>]
      BY <1>5, <2>10 DEF Crash
    <2>13. /\ Write(e, v)[f] = IF cut \/ ~Open(f) THEN wire[f] ELSE wire[f] \o v
           /\ [Write(e, v) EXCEPT ![e] = <<>>] =
                 [x \in End |-> IF x = e THEN <<>> ELSE Write(e, v)[x]]
      BY <1>1, WriteEffect
    <2>14. wire' = [x \in End |-> IF x = e THEN <<>> ELSE Write(e, v)[x]]
      BY <2>12, <2>13
    <2>15. wire'[e] = <<>> /\ wire' = [x \in End |-> wire'[x]] /\ Sends(f, v)
      BY <2>13, <2>14, OtherEnd DEF Sends
    <2>16. Open(e) /\ UNCHANGED <<now, hello, cut, lost>>
      BY <1>5 DEF Crash
    <2>17. (~Open(e))'
      BY <2>3, <2>5 DEF Open
    <2>18. Leaves(e, f)
      BY <2>1, <2>3, <2>5, <2>7, <2>9, <2>11, <2>15, <2>16, <2>17 DEF Leaves
    <2>19. (Innocent(e))'
      <3>1. session[e].reason # "invalid_frame"
        BY DEF OrderInv, OrderOf, Innocent
      <3> QED BY <2>1, <2>3, <2>5, <3>1 DEF Innocent
    <2> QED BY <2>18, <2>19
  <1> QED BY <1>3, <1>4, <1>5

-----------------------------------------------------------------------------
(***************************************************************************)
(* Every step keeps the order.                                             *)
(***************************************************************************)

\* More is on its way to an end whose session is as before, none of it a
\* greeting, or nothing before the inbound end is established.
LEMMA OrderedKept ==
    ASSUME HandInv, NEW f \in End, Ordered(f), NEW v, Sendable(v), Sends(f, v),
           Count(v, Greetings) = 0, session'[f] = session[f], cut' = cut,
           session'["in"].established = session["in"].established,
           f = "out" /\ ~session["in"].established =>
              \/ (~Open("in"))' /\ \A m \in On(v) : m.kind \in {"close", "eof"}
              \/ v = <<>> /\ Open("in")
    PROVE  (Ordered(f))'
  <1>1. /\ wire'[f] \in Seq(Msg) /\ On(wire'[f]) \subseteq On(wire[f]) \union On(v)
        /\ Count(wire'[f], Greetings) \in Nat /\ Count(wire[f], Greetings) \in Nat
        /\ Count(wire'[f], Greetings) <= Count(wire[f], Greetings) + Count(v, Greetings)
        /\ wire[f] # <<>> => wire'[f] # <<>> /\ wire'[f][1] = wire[f][1]
        /\ v = <<>> => wire'[f] = wire[f]
    BY SendsEffect
  <1>2. Count(wire'[f], Greetings) <= Count(wire[f], Greetings)
    BY <1>1
  <1>3. SUFFICES ASSUME ~cut, Open(f) PROVE (Ordered(f))'
    BY DEF Ordered, Open
  <1>4. CASE session[f].established
    <2>1. Count(wire[f], Greetings) = 0
      BY <1>3, <1>4 DEF Ordered
    <2>2. Count(wire'[f], Greetings) = 0
      BY <1>1, <1>2, <2>1
    <2> QED BY <1>4, <2>2 DEF Ordered
  <1>5. CASE ~session[f].established /\ f = "out" /\ ~session["in"].established
    <2>1. /\ Open("in") => wire[f] = <<>>
          /\ \A m \in On(wire[f]) : m.kind \in {"close", "eof", "reset"}
      BY <1>3, <1>5 DEF Ordered
    <2>2. CASE v = <<>> /\ Open("in")
      <3>1. wire'[f] = <<>> /\ On(wire'[f]) = {}
        BY <1>1, <2>1, <2>2, CountEmpty
      <3> QED BY <1>5, <3>1 DEF Ordered
    <2>3. CASE (~Open("in"))' /\ \A m \in On(v) : m.kind \in {"close", "eof"}
      <3>1. \A m \in On(wire'[f]) : m.kind \in {"close", "eof", "reset"}
        BY <1>1, <2>1, <2>3
      <3> QED BY <1>5, <2>3, <3>1 DEF Ordered
    <2> QED BY <1>5, <2>2, <2>3
  <1>6. CASE ~session[f].established /\ ~(f = "out" /\ ~session["in"].established)
    <2>1. /\ wire[f] # <<>>
          /\ \/ wire[f][1].kind = "reset"
             \/ wire[f][1].kind \in {"hello", "hello_ack"} /\ Count(wire[f], Greetings) <= 1
      BY <1>3, <1>6 DEF Ordered
    <2>2. Count(wire[f], Greetings) <= 1 => Count(wire'[f], Greetings) <= 1
      BY <1>1, <1>2
    <2>3. /\ wire'[f] # <<>>
          /\ \/ wire'[f][1].kind = "reset"
             \/ wire'[f][1].kind \in {"hello", "hello_ack"} /\ Count(wire'[f], Greetings) <= 1
      BY <1>1, <2>1, <2>2
    <2> QED BY <1>6, <2>3 DEF Ordered
  <1> QED BY <1>4, <1>5, <1>6

\* What else the order says of an end whose session is as before.
LEMMA OrderKept ==
    ASSUME HandInv, NEW f \in End, OrderOf(f), NEW v, Sendable(v), Sends(f, v),
           session'[f] = session[f], stream'[f] = stream[f], cut' = cut, lost' = lost,
           (Ordered(f))'
    PROVE  (OrderOf(f))'
  <1>1. On(wire'[f]) \subseteq On(wire[f]) \union On(v)
    BY SendsEffect
  <1>2. \A m \in On(wire'[f]) : m.kind = "reset" => lost'
    BY <1>1 DEF OrderOf, Sendable
  <1>3. (Open(f))' <=> Open(f)
    BY DEF Open
  <1>4. (~Open(f))' => wire'[f] = <<>>
    BY <1>3 DEF OrderOf, Sends
  <1>5. (Innocent(f))'
    BY DEF OrderOf, Innocent, SyncExceeded
  <1>6. /\ (Open(f))' /\ session'[f].established => session'[f].state = "Established"
        /\ stream'[f].on => (Open(f))' /\ session'[f].established
    BY <1>3 DEF OrderOf
  <1> QED BY <1>2, <1>4, <1>5, <1>6 DEF OrderOf

\* An end stops.
LEMMA OrderLeaves ==
    ASSUME HandInv, OrderInv, NEW e \in End, NEW f \in End, f = Other(e),
           Leaves(e, f), (Innocent(e))'
    PROVE  OrderInv'
  <1>1. OrderOf(e) /\ OrderOf(f) /\ End = {e, f} /\ e # f /\ {e, f} = {"in", "out"}
    BY OtherEnd DEF OrderInv, End
  <1>2. PICK v : /\ Sendable(v) /\ Sends(f, v)
                 /\ \A m \in On(v) : m.kind \in {"close", "eof"}
    BY DEF Leaves
  <1>3. /\ (~Open(e))' /\ wire'[e] = <<>> /\ session'[f] = session[f] /\ stream'[f] = stream[f]
        /\ ~stream'[e].on /\ session'[e].established = session[e].established
        /\ cut' = cut /\ lost' = lost
    BY DEF Leaves
  <1>4. (OrderOf(e))'
    BY <1>3, CountEmpty DEF OrderOf, Ordered
  <1>5. Count(v, Greetings) = 0
    <2>0. PICK K : K = {"close", "eof"}
      OBVIOUS
    <2>1. K = {"close", "eof"} /\ K \cap {"hello", "hello_ack"} = {}
      BY <2>0
    <2>2. v \in Seq(Msg) /\ \A m \in On(v) : m.kind \in K
      BY <1>2, <2>1 DEF Sendable
    <2> QED BY <2>1, <2>2, CountNone
  <1>6. session'["in"].established = session["in"].established
    BY <1>1, <1>3
  <1>7. f = "out" => (~Open("in"))'
    BY <1>1, <1>3
  <1>8. Ordered(f)
    BY <1>1 DEF OrderOf
  <1>9. (Ordered(f))'
    BY <1>2, <1>3, <1>5, <1>6, <1>7, <1>8, OrderedKept
  <1>10. (OrderOf(f))'
    BY <1>1, <1>2, <1>3, <1>9, OrderKept
  <1> QED BY <1>1, <1>4, <1>10 DEF OrderInv

\* What a step that goes on leaves alone.
LEMMA GoesOnFacts ==
    ASSUME HandInv, NEW e \in End, NEW f \in End, f = Other(e), NEW t, NEW v, GoesOn(e, f, t, v)
    PROVE  /\ session'[e] = t /\ session'[f] = session[f] /\ t \in SessionSet
           /\ Open(e) /\ (Open(e))' /\ ((Open(f))' <=> Open(f))
           /\ Sendable(v) /\ Sends(f, v) /\ stream'[f] = stream[f]
           /\ now' = now /\ cut' = cut /\ lost' = lost
           /\ End = {e, f} /\ e # f /\ {e, f} = {"in", "out"}
  <1>1. session' = [session EXCEPT ![e] = t] /\ session \in [End -> SessionSet]
    BY HandTypes DEF GoesOn
  <1>2. session'[e] = t /\ session'[f] = session[f]
    BY <1>1, OtherEnd
  <1>3. End = {e, f} /\ e # f /\ {e, f} = {"in", "out"}
    BY OtherEnd DEF End
  <1> QED BY <1>2, <1>3 DEF GoesOn, Open

\* It reads a message.
LEMMA OrderReads ==
    ASSUME HandInv, HandInv', OrderInv, NEW e \in End, NEW f \in End, f = Other(e),
           NEW m, NEW t, NEW v, Reads(e, f, m, t, v)
    PROVE  OrderInv'
  <1>1. GoesOn(e, f, t, v) /\ OrderOf(e) /\ OrderOf(f)
    BY DEF Reads, OrderInv
  <1>2. /\ session'[e] = t /\ session'[f] = session[f] /\ t \in SessionSet
        /\ Open(e) /\ (Open(e))' /\ ((Open(f))' <=> Open(f))
        /\ Sendable(v) /\ Sends(f, v) /\ stream'[f] = stream[f]
        /\ now' = now /\ cut' = cut /\ lost' = lost
        /\ End = {e, f} /\ e # f /\ {e, f} = {"in", "out"}
    BY <1>1, GoesOnFacts
  <1>3. /\ ~cut /\ wire[e] # <<>> /\ m = Head(wire[e]) /\ wire'[e] = Tail(wire[e])
        /\ m.kind \notin {"eof", "reset", "close"}
        /\ t.established /\ t.state = "Established"
    BY DEF Reads
  <1>4. PICK q \in Seq(Msg) : q = wire[e]
    BY HandTypes
  <1>5. /\ m \in Msg /\ m = q[1] /\ m \in On(q) /\ wire'[e] \in Seq(Msg)
        /\ On(q) = {m} \union On(wire'[e])
        /\ Count(q, Greetings) = Bit(m \in Greetings) + Count(wire'[e], Greetings)
    BY <1>3, <1>4, CountTail
  <1>6. Count(q, Greetings) \in Nat /\ Count(wire'[e], Greetings) \in Nat
    BY <1>5, CountNat
  <1>7. Count(wire'[e], Greetings) = 0
    <2>1. CASE session[e].established
      <3>1. Count(q, Greetings) = 0
        BY <1>1, <1>2, <1>3, <1>4, <2>1 DEF OrderOf, Ordered
      <3> QED BY <1>5, <1>6, <3>1 DEF Bit
    <2>2. CASE ~session[e].established
      <3>1. m \in Greetings
        BY <2>2 DEF Reads
      <3>2. m.kind \in {"hello", "hello_ack"}
        BY <1>5, <3>1, Sorts
      <3>3. Count(q, Greetings) <= 1
        BY <1>1, <1>2, <1>3, <1>4, <1>5, <2>2, <3>2 DEF OrderOf, Ordered
      <3> QED BY <1>5, <1>6, <3>1, <3>3 DEF Bit
    <2> QED BY <2>1, <2>2
  <1>8. (OrderOf(e))'
    <2>1. (Ordered(e))'
      BY <1>2, <1>3, <1>7 DEF Ordered
    <2>2. (Innocent(e))'
      BY <1>1, <1>2 DEF GoesOn, OrderOf, Innocent
    <2>3. \A x \in On(wire'[e]) : x.kind = "reset" => lost'
      BY <1>1, <1>2, <1>4, <1>5 DEF OrderOf
    <2> QED BY <1>2, <1>3, <2>1, <2>2, <2>3 DEF OrderOf
  <1>9. (Ordered(f))'
    <2>1. CASE session[e].established
      <3>1. v = <<>> \/ v = Answer(m)
        BY <2>1 DEF Reads
      <3>2. Count(v, Greetings) = 0
        BY <1>5, <3>1, SentAnswer, SentNothing
      <3>3. session'["in"].established = session["in"].established
        <4>1. t.established \in BOOLEAN /\ session[e].established \in BOOLEAN
          BY <1>2, HandTypes DEF SessionSet
        <4> QED BY <1>2, <1>3, <2>1, <4>1
      <3>4. ~(f = "out" /\ ~session["in"].established)
        BY <1>2, <2>1
      <3>5. Ordered(f)
        BY <1>1 DEF OrderOf
      <3> QED BY <1>2, <3>2, <3>3, <3>4, <3>5, OrderedKept
    <2>2. CASE ~session[e].established
      <3>1. v = Opening(e)
        BY <2>2 DEF Reads
      <3>2. CASE e = "in"
        <4>1. ~session["out"].established /\ f = "out"
          BY <1>2, <2>2, <3>2 DEF HandInv, StateSound
        <4>2. SUFFICES ASSUME Open(f) PROVE (Ordered(f))'
          BY <1>2 DEF Ordered
        <4>3. wire[f] = <<>>
          BY <1>1, <1>2, <1>3, <2>2, <3>2, <4>1, <4>2 DEF OrderOf, Ordered
        <4>4. /\ v # <<>> /\ v[1].kind = "hello_ack" /\ Count(v, Greetings) = 1 /\ v \in Seq(Msg)
          BY <3>1, <3>2, SentOpening DEF Bit, Sendable
        <4>5. wire'[f] = v
          <5>1. wire'[f] = <<>> \o v
            BY <1>2, <1>3, <4>2, <4>3 DEF Sends
          <5> QED BY <4>4, <5>1, ConcatEmptySeq
        <4>6. session'["in"].established /\ ~session'["out"].established
          BY <1>2, <1>3, <3>2, <4>1
        <4> QED BY <4>1, <4>4, <4>5, <4>6 DEF Ordered
      <3>3. CASE e = "out"
        <4>1. f = "in" /\ session["in"].established
          <5>1. session'["out"].established => session'["in"].established
            BY DEF HandInv, StateSound
          <5> QED BY <1>2, <1>3, <3>3, <5>1
        <4>2. Count(v, Greetings) = 0
          BY <3>1, <3>3, SentOpening DEF Bit
        <4>3. Ordered(f) /\ session'["in"].established = session["in"].established
          BY <1>1, <1>2, <4>1 DEF OrderOf
        <4>4. ~(f = "out" /\ ~session["in"].established)
          BY <4>1
        <4> QED BY <1>2, <4>2, <4>3, <4>4, OrderedKept
      <3> QED BY <1>2, <3>2, <3>3
    <2> QED BY <2>1, <2>2
  <1>10. (OrderOf(f))'
    BY <1>1, <1>2, <1>9, OrderKept
  <1> QED BY <1>2, <1>8, <1>10 DEF OrderInv

\* It looks at its timers, or goes on with its answer.
LEMMA OrderWrites ==
    ASSUME HandInv, OrderInv, NEW e \in End, NEW f \in End, f = Other(e),
           NEW t, NEW v, Polls(e, f, t, v) \/ (t = session[e] /\ Streams(e, f, v))
    PROVE  OrderInv'
  <1>1. GoesOn(e, f, t, v) /\ OrderOf(e) /\ OrderOf(f)
    BY DEF Polls, Streams, OrderInv
  <1>2. /\ session'[e] = t /\ session'[f] = session[f] /\ t \in SessionSet
        /\ Open(e) /\ (Open(e))' /\ ((Open(f))' <=> Open(f))
        /\ Sendable(v) /\ Sends(f, v) /\ stream'[f] = stream[f]
        /\ now' = now /\ cut' = cut /\ lost' = lost
        /\ End = {e, f} /\ e # f /\ {e, f} = {"in", "out"}
    BY <1>1, GoesOnFacts
  <1>3. /\ wire'[e] = wire[e] /\ t.established = session[e].established
        /\ t.state = session[e].state /\ (stream'[e].on => stream[e].on)
        /\ v = <<>> \/ (session[e].established /\
              \E k \in {"ping", "sync_done", "event"} : v = <<Message(k)>>)
    <2>1. CASE Polls(e, f, t, v)
      BY <2>1 DEF Polls
    <2>2. CASE t = session[e] /\ Streams(e, f, v)
      BY <2>2 DEF Streams
    <2> QED BY <2>1, <2>2
  <1>4. Count(v, Greetings) = 0
    BY <1>3, SentOne, SentNothing DEF Kind
  <1>5. session'["in"].established = session["in"].established
    BY <1>2, <1>3
  <1>6. f = "out" /\ ~session["in"].established => v = <<>> /\ Open("in")
    BY <1>2, <1>3
  <1>7. (Ordered(f))'
    <2>1. Ordered(f)
      BY <1>1 DEF OrderOf
    <2> QED BY <1>2, <1>4, <1>5, <1>6, <2>1, OrderedKept
  <1>8. (OrderOf(f))'
    BY <1>1, <1>2, <1>7, OrderKept
  <1>9. (OrderOf(e))'
    <2>1. (Ordered(e))'
      <3>1. e = "out" => ((Open("in"))' <=> Open("in"))
        BY <1>2
      <3> QED BY <1>1, <1>2, <1>3, <1>5, <3>1 DEF OrderOf, Ordered
    <2>2. (Innocent(e))'
      BY <1>1, <1>2 DEF GoesOn, OrderOf, Innocent
    <2> QED BY <1>1, <1>2, <1>3, <2>1, <2>2 DEF OrderOf
  <1> QED BY <1>2, <1>8, <1>9 DEF OrderInv

\* A reset, a cut of the network, and time.
LEMMA OrderOthers ==
    ASSUME HandInv, HandInv', KeepInv, OrderInv,
           (\E e \in End : Reset(e)) \/ Cut \/ Tick \/ UNCHANGED vars
    PROVE  OrderInv'
  <1>1. CASE \E e \in End : Reset(e)
    <2>1. PICK e \in End : Reset(e)
      BY <1>1
    <2>2. PICK f \in End : f = Other(e) /\ f # e /\ End = {e, f}
      BY OtherEnd
    <2>3. PICK v : v = <<Message("reset")>>
      OBVIOUS
    <2>4. /\ v \in Seq(Msg) /\ v # <<>> /\ v[1].kind = "reset"
          /\ \A m \in On(v) : m.kind = "reset"
      <3>1. "reset" \in Kind \ {"hello", "hello_ack", "close"}
        BY DEF Kind
      <3>2. now \in Nat
        BY HandTypes
      <3>3. PICK m \in Msg : m = Message("reset") /\ m.kind = "reset"
        <4>1. Message("reset") \in Genuine("in", hello, TRUE) /\ Message("reset").kind = "reset"
          BY <3>1, <3>2, PlainSent DEF End
        <4> QED BY <4>1 DEF Genuine
      <3>4. <<m>> \in Seq(Msg) /\ On(<<m>>) = {m} /\ <<m>> # <<>> /\ <<m>>[1] = m
        BY CountSingle
      <3> QED BY <2>3, <3>3, <3>4
    <2>5. /\ e \in unread /\ Open(e) /\ wire' = [wire EXCEPT ![e] = v] /\ lost'
          /\ UNCHANGED <<now, hello, session, stream, news, self, cut>>
      BY <2>1, <2>3 DEF Reset
    <2>6. ~Open(f)
      BY <2>2, <2>5 DEF KeepInv, UnreadSound
    <2>7. wire'[e] = v /\ wire'[f] = wire[f]
      BY <2>2, <2>5, HandTypes
    <2>8. Count(v, Greetings) = 0
      <3>0. PICK K : K = {"reset"}
        OBVIOUS
      <3>1. K = {"reset"} /\ K \cap {"hello", "hello_ack"} = {}
        BY <3>0
      <3>2. v \in Seq(Msg) /\ \A m \in On(v) : m.kind \in K
        BY <2>4, <3>1
      <3> QED BY <3>1, <3>2, CountNone
    <2>9. (OrderOf(e))'
      <3>1. e = "out" => ~Open("in")
        BY <2>2, <2>6 DEF Other, End
      <3>2. (Ordered(e))'
        BY <2>4, <2>5, <2>7, <2>8, <3>1 DEF Ordered, Open
      <3> QED BY <2>5, <3>2 DEF OrderInv, OrderOf, Innocent, SyncExceeded, Open
    <2>10. (OrderOf(f))'
      BY <2>5, <2>6, <2>7 DEF OrderInv, OrderOf, Ordered, Innocent, SyncExceeded, Open
    <2> QED BY <2>2, <2>9, <2>10 DEF OrderInv
  <1>2. CASE Cut
    <2>1. cut' /\ wire' = [e \in End |-> <<>>] /\ UNCHANGED <<session, stream, lost>>
      BY <1>2 DEF Cut
    <2>2. \A x \in End : wire'[x] = <<>> /\ On(wire'[x]) = {}
      BY <2>1, CountEmpty
    <2> QED BY <2>1, <2>2 DEF OrderInv, OrderOf, Ordered, Innocent, SyncExceeded, Open
  <1>3. CASE Tick \/ UNCHANGED vars
    <2>1. UNCHANGED <<session, wire, stream, cut, lost>>
      BY <1>3 DEF Tick, vars
    <2> QED BY <2>1 DEF OrderInv, OrderOf, Ordered, Innocent, SyncExceeded, Open
  <1> QED BY <1>1, <1>2, <1>3

-----------------------------------------------------------------------------
\* Every step keeps the order.
LEMMA BlameStep ==
    ASSUME HandInv, HandInv', KeepInv, OrderInv, KeepaliveMargin, [Next]_vars
    PROVE  OrderInv'
  <1>1. ASSUME NEW e \in End, NEW f \in End, f = Other(e), Leaves(e, f), (Innocent(e))'
        PROVE  OrderInv'
    BY <1>1, OrderLeaves
  <1>2. CASE \E e \in End : Receive(e)
    <2>1. PICK e \in End : Receive(e)
      BY <1>2
    <2>2. PICK f \in End : f = Other(e)
      BY OtherEnd
    <2>3. \/ Leaves(e, f) /\ (Innocent(e))'
          \/ \E m, t, v : Reads(e, f, m, t, v)
      BY <2>1, <2>2, ReceiveShape
    <2>4. CASE \E m, t, v : Reads(e, f, m, t, v)
      <3>1. PICK m, t, v : Reads(e, f, m, t, v)
        BY <2>4
      <3> QED BY <2>2, <3>1, OrderReads
    <2> QED BY <1>1, <2>2, <2>3, <2>4
  <1>3. CASE \E e \in End : Poll(e)
    <2>1. PICK e \in End : Poll(e)
      BY <1>3
    <2>2. PICK f \in End : f = Other(e)
      BY OtherEnd
    <2>3. \/ Leaves(e, f) /\ (Innocent(e))'
          \/ \E t, v : Polls(e, f, t, v)
      BY <2>1, <2>2, PollShape
    <2>4. CASE \E t, v : Polls(e, f, t, v)
      <3>1. PICK t, v : Polls(e, f, t, v)
        BY <2>4
      <3> QED BY <2>2, <3>1, OrderWrites
    <2> QED BY <1>1, <2>2, <2>3, <2>4
  <1>4. CASE \E e \in End : Stream(e) \/ Broadcast(e)
    <2>1. PICK e \in End : Stream(e) \/ Broadcast(e)
      BY <1>4
    <2>2. PICK f \in End : f = Other(e)
      BY OtherEnd
    <2>3. PICK v : Streams(e, f, v)
      BY <2>1, <2>2, StreamShape
    <2>4. PICK t : t = session[e]
      OBVIOUS
    <2> QED BY <2>2, <2>3, <2>4, OrderWrites
  <1>5. CASE (\E e \in End : Shutdown(e) \/ Crash(e)) \/ RefuseInbound
    <2>1. PICK e \in End : Shutdown(e) \/ Crash(e) \/ (e = "in" /\ RefuseInbound)
      BY <1>5 DEF End
    <2>2. PICK f \in End : f = Other(e)
      BY OtherEnd
    <2> QED BY <1>1, <2>1, <2>2, EndShape
  <1>6. CASE (\E e \in End : Reset(e)) \/ Cut \/ Tick \/ UNCHANGED vars
    BY <1>6, OrderOthers
  <1> QED BY <1>2, <1>3, <1>4, <1>5, <1>6 DEF Next

\* The connection stands, and the HELLO is on its way.
LEMMA InitBlame == Init => OrderInv
  <1> SUFFICES ASSUME Init PROVE OrderInv
    OBVIOUS
  <1>1. HandInv
    BY InitHand
  <1>2. "in" \in End /\ "out" \in End /\ End = {"in", "out"}
    BY DEF End
  <1>3. /\ session = [e \in End |-> NewSession(IF e = "out" THEN "HelloSent" ELSE "Connecting")]
        /\ stream = [e \in End |-> [left |-> 0, start |-> 0, msgs |-> 0, bytes |-> 0, on |-> FALSE]]
        /\ wire = [e \in End |-> IF e = "in" THEN <<Greeting("hello", "out")>> ELSE <<>>]
    BY DEF Init
  <1>4. ASSUME NEW x \in End
        PROVE  /\ Open(x) /\ ~session[x].established /\ session[x].reason = "none"
               /\ session[x].end = "open" /\ ~stream[x].on
    BY <1>3 DEF NewSession, Open
  <1>5. PICK g \in Msg : g = Greeting("hello", "out") /\ g.kind = "hello"
    <2>1. hello \in [End -> HelloSet] /\ now \in Nat
      BY <1>1, HandTypes
    <2>2. Greeting("hello", "out") \in Genuine("in", hello, FALSE) /\ Greeting("hello", "out").kind = "hello"
      BY <2>1, GreetingSent DEF End
    <2> QED BY <2>2 DEF Genuine
  <1>6. wire["in"] = <<g>> /\ wire["out"] = <<>>
    BY <1>2, <1>3, <1>5
  <1>7. /\ <<g>> # <<>> /\ <<g>>[1] = g /\ On(<<g>>) = {g} /\ \A S : Count(<<g>>, S) = Bit(g \in S)
    BY CountSingle
  <1>8. On(<<>>) = {}
    BY CountEmpty
  <1>9. \A x \in End : \A m \in On(wire[x]) : m.kind = "hello"
    BY <1>2, <1>5, <1>6, <1>7, <1>8
  <1>10. Ordered("out")
    BY <1>2, <1>4, <1>6, <1>8 DEF Ordered
  <1>11. Ordered("in")
    <2>1. Count(wire["in"], Greetings) <= 1
      BY <1>6, <1>7 DEF Bit
    <2> QED BY <1>2, <1>4, <1>5, <1>6, <1>7, <2>1 DEF Ordered
  <1>12. \A x \in End : Innocent(x)
    BY <1>4 DEF Innocent
  <1>13. \A x \in End : Ordered(x)
    BY <1>2, <1>10, <1>11
  <1> QED BY <1>4, <1>9, <1>12, <1>13 DEF OrderInv, OrderOf

\* NotBlamed for any timers, limits, backlogs and delays the keepalive has room
\* for: two nodes that run this code never take each other's messages for a
\* violation of the protocol, whatever the order in which greetings, answers,
\* EVENTs of the hub and CLOSE arrive, and the dialling end charges a failure to
\* the other one only if the network failed, a reset overtook its CLOSE, or
\* more was sent than the rate limit or the SYNC counter admits.
THEOREM NeverBlamed ==
    ASSUME KeepaliveMargin
    PROVE  Spec => []NotBlamed
  <1>1. HandInv /\ HandInv' /\ KeepInv /\ [Next]_vars => KeepInv'
    BY KeepStep
  <1>2. HandInv /\ HandInv' /\ KeepInv /\ OrderInv /\ [Next]_vars => OrderInv'
    BY BlameStep
  <1>3. OrderInv => NotBlamed
    <2>1. "out" \in End
      BY DEF End
    <2> QED BY <2>1 DEF OrderInv, OrderOf, Innocent, NotBlamed, NeverAccused, GoodbyeIsClean
  <1> QED BY <1>1, <1>2, <1>3, HandInvariant, InitKeep, InitBlame, PTL DEF Spec
=============================================================================
