-------------------------- MODULE FramePumpProofs ---------------------------
(***************************************************************************)
(* Proofs about the reading of frames, for any number of frames of any     *)
(* length and any way TCP splits them: frames are handed on in the order   *)
(* they were sent, each once, and an honest peer commits no violation, as  *)
(* long as no branch of select! interrupts read_frame within a frame.      *)
(***************************************************************************)
EXTENDS FramePump, SequenceTheorems, TLAPS

-----------------------------------------------------------------------------
(***************************************************************************)
(* The inductive invariant.                                                *)
(***************************************************************************)

\* What was sent and not yet consumed by a decode.
Pending == buf \o socket \o network

\* The first frame that was not handed on in full, and how many of its bytes
\* are consumed.
Current == Len(delivered) + 1
Consumed == IF need = Header THEN 0 ELSE HeaderLen

\* base[i] is the place in the sequence s before the first byte of frame i,
\* negative for the `off' bytes of the first frame that are consumed: the
\* frames first..last lie in s one after the other, whole and in order, and
\* nothing else does.
Laid(base, s, first, off, last) ==
    /\ base[first] = 0 - off
    /\ base[last + 1] = Len(s)
    /\ \A i \in first..last :
          /\ base[i + 1] = base[i] + FrameLen(i)
          /\ base[i + 1] <= Len(s)
          /\ \A k \in 1..FrameLen(i) :
                base[i] + k >= 1 => s[base[i] + k] = <<i, k>>

InOrder ==
    ~lost => /\ delivered = [k \in 1..Len(delivered) |-> k]
             /\ Len(delivered) <= sent
             /\ need # Header => Current <= sent /\ need = PayloadLen[Current]
             /\ status \in {"open", "closed"}
             /\ \E base \in [Nat -> Int] : Laid(base, Pending, Current, Consumed, sent)

PumpInv == TypeOK /\ Len(buf) <= Wanted /\ InOrder

-----------------------------------------------------------------------------
(***************************************************************************)
(* Bytes and their places.                                                 *)
(***************************************************************************)

\* The lengths of frames.
LEMMA FrameLengths ==
    ASSUME NEW i \in Frame
    PROVE  /\ i \in Nat /\ i >= 1 /\ i <= Len(PayloadLen)
           /\ PayloadLen[i] \in 1..MaxPayload
           /\ FrameLen(i) \in Nat /\ FrameLen(i) = HeaderLen + PayloadLen[i]
           /\ FrameLen(i) > HeaderLen
  <1>1. Len(PayloadLen) \in Nat /\ Frame = 1..Len(PayloadLen)
    BY FrameAssumption, LenProperties DEF Frame
  <1>2. PayloadLen[i] \in 1..MaxPayload
    BY <1>1, FrameAssumption, ElementOfSeq
  <1> QED BY <1>1, <1>2, FrameAssumption DEF FrameLen

\* The bytes of a frame.
LEMMA BytesTyped ==
    ASSUME NEW i \in Frame
    PROVE  /\ Bytes(i) \in Seq(Byte) /\ Len(Bytes(i)) = FrameLen(i)
           /\ \A k \in 1..FrameLen(i) : Bytes(i)[k] = <<i, k>>
  <1>1. FrameLen(i) \in Nat /\ FrameLen(i) <= HeaderLen + MaxPayload
    BY FrameLengths, FrameAssumption
  <1>2. \A k \in 1..FrameLen(i) : <<i, k>> \in Byte
    BY <1>1, FrameAssumption DEF Byte
  <1>3. Bytes(i) \in [1..FrameLen(i) -> Byte]
    BY <1>2 DEF Bytes
  <1> HIDE DEF Byte
  <1>4. Bytes(i) \in Seq(Byte)
    BY <1>1, <1>3, SeqDef
  <1> QED BY <1>1, <1>3, <1>4 DEF Bytes

\* A sequence is what is cut off its front and what is left.
LEMMA SplitSeq ==
    ASSUME NEW S, NEW s \in Seq(S), NEW k \in 0..Len(s)
    PROVE  /\ SubSeq(s, 1, k) \in Seq(S) /\ Len(SubSeq(s, 1, k)) = k
           /\ SubSeq(s, k + 1, Len(s)) \in Seq(S)
           /\ s = SubSeq(s, 1, k) \o SubSeq(s, k + 1, Len(s))
  <1>1. Len(s) \in Nat /\ \A i \in 1..Len(s) : s[i] \in S
    BY LenProperties, ElementOfSeq
  <1>2. k \in Nat /\ k <= Len(s)
    BY <1>1
  <1>3. SubSeq(s, 1, k) \in Seq(S) /\ Len(SubSeq(s, 1, k)) = k
    <2>1. \A i \in 1..k : s[i] \in S
      BY <1>1, <1>2
    <2> QED BY <1>2, <2>1, SubSeqProperties
  <1>4. SubSeq(s, k + 1, Len(s)) \in Seq(S)
    <2>1. \A i \in (k + 1)..Len(s) : s[i] \in S
      BY <1>1, <1>2
    <2> QED BY <1>1, <1>2, <2>1, SubSeqProperties
  <1>5. SubSeq(s, 1, k) \o SubSeq(s, k + 1, Len(s)) = SubSeq(s, 1, Len(s))
    <2>1. 1 \in 1..Len(s) + 1 /\ k \in 1 - 1..Len(s) /\ Len(s) \in k..Len(s)
      BY <1>1, <1>2
    <2> QED BY <2>1, ConcatAdjacentSubSeq
  <1>6. SubSeq(s, 1, Len(s)) = s
    BY SubSeqFull
  <1> QED BY <1>3, <1>4, <1>5, <1>6

\* Concatenation of bytes is associative.
LEMMA BytesAssociative ==
    \A s, t, u \in Seq(Byte) : (s \o t) \o u = s \o (t \o u)
  BY ConcatAssociative

\* Another frame is written behind what is there.
LEMMA LaidExtend ==
    ASSUME NEW base \in [Nat -> Int], NEW s \in Seq(Byte), NEW first \in Nat, NEW off \in Nat,
           NEW last \in Nat, first >= 1, first <= last + 1, last + 1 \in Frame
    PROVE  Laid(base, s, first, off, last) =>
              \E b \in [Nat -> Int] : Laid(b, s \o Bytes(last + 1), first, off, last + 1)
  <1>a. SUFFICES ASSUME Laid(base, s, first, off, last)
                 PROVE  \E b \in [Nat -> Int] :
                           Laid(b, s \o Bytes(last + 1), first, off, last + 1)
    OBVIOUS
  <1>0. PICK n \in Nat : n = last + 1
    OBVIOUS
  <1> DEFINE b == [base EXCEPT ![n + 1] = Len(s) + FrameLen(n)]
             t == s \o Bytes(n)
  <1>1. Len(s) \in Nat /\ n \in Frame /\ FrameLen(n) \in Nat
    BY <1>0, LenProperties, FrameLengths
  <1>2. /\ Len(t) = Len(s) + FrameLen(n)
        /\ \A j \in 1..(Len(s) + FrameLen(n)) :
              t[j] = IF j <= Len(s) THEN s[j] ELSE Bytes(n)[j - Len(s)]
    <2>1. Bytes(n) \in Seq(Byte) /\ Len(Bytes(n)) = FrameLen(n)
      BY <1>1, BytesTyped
    <2>2. /\ Len(t) = Len(s) + Len(Bytes(n))
          /\ \A j \in 1..(Len(s) + Len(Bytes(n))) :
                t[j] = IF j <= Len(s) THEN s[j] ELSE Bytes(n)[j - Len(s)]
      BY <2>1, ConcatProperties
    <2> QED BY <2>1, <2>2
  <1>3. b \in [Nat -> Int] /\ b[n + 1] = Len(s) + FrameLen(n)
        /\ \A i \in Nat : i # n + 1 => b[i] = base[i]
    BY <1>1
  <1> HIDE DEF b, t
  <1>4. base[first] = 0 - off /\ base[n] = Len(s)
    BY <1>a, <1>0 DEF Laid
  <1>5. b[first] = 0 - off /\ b[n] = Len(s)
    BY <1>0, <1>1, <1>3, <1>4
  <1>6. ASSUME NEW i \in first..n
        PROVE  /\ b[i + 1] = b[i] + FrameLen(i)
               /\ b[i + 1] <= Len(t)
               /\ \A k \in 1..FrameLen(i) : b[i] + k >= 1 => t[b[i] + k] = <<i, k>>
    <2>1. CASE i = n
      <3>1. b[i + 1] = b[i] + FrameLen(i) /\ b[i + 1] <= Len(t)
        BY <1>1, <1>2, <1>3, <1>5, <2>1, SMTT(60)
      <3>2. ASSUME NEW k \in 1..FrameLen(n) PROVE t[Len(s) + k] = <<n, k>>
        <4>1. Len(s) + k \in 1..(Len(s) + FrameLen(n)) /\ ~(Len(s) + k <= Len(s))
              /\ (Len(s) + k) - Len(s) = k
          BY <1>1
        <4>2. t[Len(s) + k] = Bytes(n)[k]
          BY <4>1, <1>2
        <4> QED BY <1>1, <4>2, BytesTyped
      <3> QED BY <2>1, <3>1, <3>2, <1>5
    <2>2. CASE i # n
      <3>1. i \in first..last /\ i \in Nat /\ b[i] = base[i] /\ b[i + 1] = base[i + 1]
        BY <1>0, <1>1, <1>3, <2>2
      <3>2. /\ base[i + 1] = base[i] + FrameLen(i) /\ base[i + 1] <= Len(s)
            /\ \A k \in 1..FrameLen(i) : base[i] + k >= 1 => s[base[i] + k] = <<i, k>>
        BY <1>a, <3>1 DEF Laid
      <3>3. base[i] \in Int /\ base[i + 1] \in Int
        BY <3>1
      <3>4. base[i + 1] <= Len(t)
        BY <1>1, <1>2, <3>2, <3>3
      <3>5. ASSUME NEW k \in 1..FrameLen(i), base[i] + k >= 1 PROVE t[base[i] + k] = <<i, k>>
        <4>1. FrameLen(i) \in Nat
          <5>1. i \in Frame
            <6>1. Len(PayloadLen) \in Nat /\ Frame = 1..Len(PayloadLen)
              BY FrameAssumption, LenProperties DEF Frame
            <6>2. first >= 1
              OBVIOUS
            <6> QED BY <1>0, <3>1, <6>1, <6>2
          <5> QED BY <5>1, FrameLengths
        <4>2. base[i] + k <= base[i] + FrameLen(i)
          BY <3>3, <4>1
        <4>3. base[i] + k <= Len(s)
          BY <1>1, <3>2, <3>3, <4>1, <4>2, SMTT(60)
        <4>4. base[i] + k \in 1..(Len(s) + FrameLen(n))
          BY <1>1, <3>3, <3>5, <4>3, SMTT(60)
        <4> QED BY <1>2, <3>2, <3>5, <4>3, <4>4
      <3> QED BY <3>1, <3>2, <3>4, <3>5
    <2> QED BY <2>1, <2>2
  <1>7. Laid(b, t, first, off, n)
    BY <1>2, <1>3, <1>5, <1>6 DEF Laid
  <1> QED BY <1>0, <1>3, <1>7 DEF t

\* The front of what is pending is the rest of the first frame, all of it.
LEMMA LaidFront ==
    ASSUME NEW base \in [Nat -> Int], NEW s \in Seq(Byte), NEW first \in Nat, NEW off \in Nat,
           NEW last \in Nat, first \in Frame, first <= last, off <= HeaderLen
    PROVE  Laid(base, s, first, off, last) =>
              /\ base[first + 1] = FrameLen(first) - off
              /\ FrameLen(first) - off <= Len(s)
              /\ \A k \in 1..(FrameLen(first) - off) : s[k] = <<first, off + k>>
  <1>a. SUFFICES ASSUME Laid(base, s, first, off, last)
                 PROVE  /\ base[first + 1] = FrameLen(first) - off
                        /\ FrameLen(first) - off <= Len(s)
                        /\ \A k \in 1..(FrameLen(first) - off) : s[k] = <<first, off + k>>
    OBVIOUS
  <1>1. PICK fl \in Nat : fl = FrameLen(first)
    BY FrameLengths
  <1>2. /\ base[first] = 0 - off /\ base[first + 1] = base[first] + fl
        /\ base[first + 1] <= Len(s)
        /\ \A k \in 1..fl : base[first] + k >= 1 => s[base[first] + k] = <<first, k>>
    <2>1. first \in first..last
      OBVIOUS
    <2> QED BY <1>a, <1>1, <2>1, Zenon DEF Laid
  <1>3. base[first + 1] = fl - off
    BY <1>2
  <1>4. ASSUME NEW k \in 1..(fl - off) PROVE s[k] = <<first, off + k>>
    <2>1. off + k \in 1..fl /\ base[first] + (off + k) = k /\ k >= 1
      BY <1>2
    <2> QED BY <1>2, <2>1
  <1> QED BY <1>1, <1>2, <1>3, <1>4

\* Where anything is pending, a frame is.
LEMMA LaidNonempty ==
    ASSUME NEW base \in [Nat -> Int], NEW s \in Seq(Byte), NEW first \in Nat, NEW off \in Nat,
           NEW last \in Nat, first <= last + 1, Len(s) # 0
    PROVE  Laid(base, s, first, off, last) => first <= last
  <1>1. SUFFICES ASSUME Laid(base, s, first, off, last), first = last + 1 PROVE FALSE
    OBVIOUS
  <1>2. base[first] = 0 - off /\ base[first] = Len(s)
    BY <1>1 DEF Laid
  <1>3. Len(s) \in Nat
    BY LenProperties
  <1> QED BY <1>2, <1>3

-----------------------------------------------------------------------------
(***************************************************************************)
(* Types, and the buffer never holds more than is wanted.                  *)
(***************************************************************************)
BufferTyped == TypeOK /\ Len(buf) <= Wanted

\* Lengths and frame numbers are numbers.
LEMMA Numbers ==
    /\ Len(PayloadLen) \in Nat /\ Frame = 1..Len(PayloadLen)
    /\ HeaderLen \in Nat /\ HeaderLen >= 1 /\ MaxPayload \in Nat /\ MaxInterrupt \in Nat
    /\ Header = -1
  BY FrameAssumption, LenProperties DEF Frame, Header

\* A length that a header can make is at most one more than the maximum.
LEMMA LengthsTyped ==
    ASSUME NEW b, NEW n \in Lengths(b)
    PROVE  n \in 0..(MaxPayload + 1)
  <1>1. CASE \E i \in Frame : IsHeader(b, i)
    BY <1>1, FrameLengths, Numbers DEF Lengths
  <1>2. CASE ~\E i \in Frame : IsHeader(b, i)
    BY <1>2 DEF Lengths
  <1> QED BY <1>1, <1>2

\* Every step keeps the types.
LEMMA TypeStep == BufferTyped /\ [Next]_vars => BufferTyped'
  <1> SUFFICES ASSUME BufferTyped, [Next]_vars PROVE BufferTyped'
    OBVIOUS
  <1>1. /\ sent \in 0..Len(PayloadLen) /\ network \in Seq(Byte) /\ socket \in Seq(Byte)
        /\ buf \in Seq(Byte) /\ need \in Header..MaxPayload /\ delivered \in Seq(Frame)
        /\ status \in {"open", "closed", "truncated", "violation"}
        /\ interrupts \in 0..MaxInterrupt /\ lost \in BOOLEAN /\ Len(buf) <= Wanted
    BY DEF BufferTyped, TypeOK
  <1>2. Wanted \in Nat /\ Len(buf) \in Nat /\ Len(socket) \in Nat /\ Len(network) \in Nat
    BY <1>1, Numbers, LenProperties DEF Wanted
  <1>3. <<>> \in Seq(Byte) /\ Len(<<>>) = 0
    BY EmptySeq
  <1>4. CASE PeerSend
    <2>1. PICK n \in Nat : n = sent + 1
      BY <1>1
    <2>2. n \in Frame /\ n \in 0..Len(PayloadLen)
      BY <1>1, <1>4, <2>1, Numbers DEF PeerSend
    <2>3. network \o Bytes(n) \in Seq(Byte)
      BY <1>1, <2>2, BytesTyped, ConcatProperties
    <2> QED BY <1>1, <1>4, <2>1, <2>2, <2>3 DEF PeerSend, BufferTyped, TypeOK, Wanted
  <1>5. CASE Arrive
    <2>1. PICK k \in 1..Len(network) :
             /\ socket' = socket \o SubSeq(network, 1, k)
             /\ network' = SubSeq(network, k + 1, Len(network))
      BY <1>5 DEF Arrive
    <2>2. k \in 0..Len(network)
      BY <1>2
    <2>3. SubSeq(network, 1, k) \in Seq(Byte) /\ SubSeq(network, k + 1, Len(network)) \in Seq(Byte)
      BY <1>1, <2>2, SplitSeq
    <2>4. socket' \in Seq(Byte) /\ network' \in Seq(Byte)
      BY <1>1, <2>1, <2>3, ConcatProperties
    <2> QED BY <1>1, <1>5, <2>4 DEF Arrive, BufferTyped, TypeOK, Wanted
  <1>6. CASE Read
    <2> DEFINE free == Wanted - Len(buf)
    <2>a. free \in Nat
      BY <1>1, <1>2
    <2> HIDE DEF free
    <2>b. PICK k \in Nat : k = IF Len(socket) <= free THEN Len(socket) ELSE free
      BY <1>2, <2>a
    <2>1. /\ k = IF Len(socket) <= Wanted - Len(buf) THEN Len(socket) ELSE Wanted - Len(buf)
          /\ k \in 0..Len(socket) /\ Len(buf) + k <= Wanted
      <3>1. k \in 0..Len(socket) /\ k <= free
        BY <1>2, <2>a, <2>b
      <3>2. Len(buf) + free = Wanted
        BY <1>2 DEF free
      <3>3. Len(buf) + k <= Wanted
        BY <1>2, <2>a, <3>1, <3>2
      <3> QED BY <2>b, <3>1, <3>3 DEF free
    <2>2. /\ buf' = buf \o SubSeq(socket, 1, k)
          /\ socket' = SubSeq(socket, k + 1, Len(socket))
          /\ UNCHANGED <<sent, network, need, delivered, status, interrupts, lost>>
      BY <1>6, <2>1 DEF Read
    <2>3. /\ SubSeq(socket, 1, k) \in Seq(Byte) /\ Len(SubSeq(socket, 1, k)) = k
          /\ SubSeq(socket, k + 1, Len(socket)) \in Seq(Byte)
      BY <1>1, <2>1, SplitSeq
    <2>4. buf' \in Seq(Byte) /\ Len(buf') = Len(buf) + k /\ socket' \in Seq(Byte)
      BY <1>1, <2>2, <2>3, ConcatProperties
    <2>5. Len(buf') <= Wanted'
      BY <2>1, <2>2, <2>4 DEF Wanted
    <2> QED BY <1>1, <2>2, <2>4, <2>5 DEF BufferTyped, TypeOK
  <1>7. CASE DecodeLength
    <2>1. PICK n \in Lengths(buf) :
             IF n > MaxPayload
             THEN status' = "violation" /\ UNCHANGED need
             ELSE need' = n /\ UNCHANGED status
      BY <1>7 DEF DecodeLength
    <2>2. n \in 0..(MaxPayload + 1)
      BY LengthsTyped
    <2>3. need' \in Header..MaxPayload /\ status' \in {status, "violation"}
      BY <1>1, <2>1, <2>2, Numbers
    <2>4. Wanted' \in Nat
      BY <2>3, Numbers DEF Wanted
    <2>5. /\ buf' = <<>> /\ UNCHANGED <<sent, network, socket, delivered, interrupts, lost>>
      BY <1>7 DEF DecodeLength
    <2>6. Len(buf') <= Wanted'
      BY <1>3, <2>4, <2>5
    <2> QED BY <1>1, <1>3, <2>3, <2>5, <2>6 DEF BufferTyped, TypeOK
  <1>8. CASE DecodePayload
    <2>1. /\ buf' = <<>> /\ need' = Header
          /\ UNCHANGED <<sent, network, socket, interrupts, lost>>
          /\ status' \in {status, "violation"}
      BY <1>8 DEF DecodePayload
    <2>2. delivered' \in Seq(Frame)
      <3>1. CASE \E i \in Frame : IsPayload(buf, i)
        <4>1. (CHOOSE i \in Frame : IsPayload(buf, i)) \in Frame
          BY <3>1
        <4>2. delivered' = Append(delivered, CHOOSE i \in Frame : IsPayload(buf, i))
          BY <1>8, <3>1 DEF DecodePayload
        <4> QED BY <1>1, <4>1, <4>2, AppendProperties
      <3>2. CASE ~\E i \in Frame : IsPayload(buf, i)
        BY <1>1, <1>8, <3>2 DEF DecodePayload
      <3> QED BY <3>1, <3>2
    <2>3. Len(buf') <= Wanted' /\ need' \in Header..MaxPayload
      BY <1>3, <2>1, Numbers DEF Wanted
    <2> QED BY <1>1, <1>3, <2>1, <2>2, <2>3 DEF BufferTyped, TypeOK
  <1>9. CASE Eof
    BY <1>1, <1>9 DEF Eof, BufferTyped, TypeOK, Wanted
  <1>10. CASE Interrupt
    <2>1. /\ buf' = <<>> /\ need' = Header /\ lost' \in BOOLEAN
          /\ interrupts' = interrupts + 1 /\ interrupts < MaxInterrupt
          /\ UNCHANGED <<sent, network, socket, delivered, status>>
      BY <1>10 DEF Interrupt
    <2>2. interrupts' \in 0..MaxInterrupt
      BY <1>1, <2>1, Numbers
    <2>3. Len(buf') <= Wanted' /\ need' \in Header..MaxPayload
      BY <1>3, <2>1, Numbers DEF Wanted
    <2> QED BY <1>1, <1>3, <2>1, <2>2, <2>3 DEF BufferTyped, TypeOK
  <1>11. CASE UNCHANGED vars
    BY <1>1, <1>11 DEF vars, BufferTyped, TypeOK, Wanted
  <1> QED BY <1>4, <1>5, <1>6, <1>7, <1>8, <1>9, <1>10, <1>11 DEF Next

-----------------------------------------------------------------------------
(***************************************************************************)
(* The order of the frames.                                                *)
(***************************************************************************)

\* What InOrder says of a state in which nothing was lost, and its types.
LEMMA OrderFacts ==
    ASSUME BufferTyped, InOrder, ~lost
    PROVE  /\ Pending \in Seq(Byte) /\ Len(Pending) \in Nat
           /\ Current \in Nat /\ Current >= 1 /\ Current = Len(delivered) + 1
           /\ Consumed \in Nat /\ Consumed <= HeaderLen
           /\ sent \in Nat /\ sent <= Len(PayloadLen) /\ Current <= sent + 1
           /\ Len(delivered) \in Nat /\ Len(buf) \in Nat
           /\ Current <= sent => Current \in Frame
  <1>1. Pending \in Seq(Byte) /\ Len(Pending) \in Nat
    <2>1. buf \o socket \in Seq(Byte)
      BY ConcatProperties DEF BufferTyped, TypeOK
    <2>2. (buf \o socket) \o network \in Seq(Byte)
      BY <2>1, ConcatProperties DEF BufferTyped, TypeOK
    <2> QED BY <2>2, LenProperties DEF Pending
  <1>2. Len(delivered) \in Nat /\ Len(buf) \in Nat
    BY LenProperties DEF BufferTyped, TypeOK
  <1>3. sent \in Nat /\ sent <= Len(PayloadLen) /\ Len(delivered) <= sent
    BY Numbers DEF BufferTyped, TypeOK, InOrder
  <1>4. Consumed \in Nat /\ Consumed <= HeaderLen
    BY Numbers DEF Consumed
  <1>5. Current \in Nat /\ Current >= 1 /\ Current = Len(delivered) + 1 /\ Current <= sent + 1
    BY <1>2, <1>3 DEF Current
  <1>6. Current <= sent => Current \in Frame
    BY <1>3, <1>5, Numbers
  <1> QED BY <1>1, <1>2, <1>3, <1>4, <1>5, <1>6

\* A step that moves bytes on without decoding keeps the order.
LEMMA OrderKept ==
    ASSUME InOrder, ~lost, Pending' = Pending, status' \in {status, "closed"},
           UNCHANGED <<sent, need, delivered>>
    PROVE  InOrder'
  BY DEF InOrder, Current, Consumed

\* The peer writes its next frame.
LEMMA OrderPeerSend ==
    ASSUME BufferTyped, InOrder, ~lost, PeerSend
    PROVE  InOrder'
  <1>1. PICK base \in [Nat -> Int] : Laid(base, Pending, Current, Consumed, sent)
    BY DEF InOrder
  <1>2. /\ sent' = sent + 1 /\ network' = network \o Bytes(sent + 1)
        /\ UNCHANGED <<socket, buf, need, delivered, status, lost>>
        /\ sent < Len(PayloadLen)
    BY DEF PeerSend
  <1>3. sent + 1 \in Frame
    <2>1. sent \in Nat
      BY OrderFacts
    <2> QED BY <1>2, <2>1, Numbers
  <1>4. Pending' = Pending \o Bytes(sent + 1)
    <2>1. buf \o socket \in Seq(Byte) /\ network \in Seq(Byte) /\ Bytes(sent + 1) \in Seq(Byte)
      BY <1>3, BytesTyped, ConcatProperties DEF BufferTyped, TypeOK
    <2>2. (buf \o socket) \o (network \o Bytes(sent + 1))
             = ((buf \o socket) \o network) \o Bytes(sent + 1)
      BY <2>1, BytesAssociative
    <2> QED BY <1>2, <2>2 DEF Pending
  <1>5. \E b \in [Nat -> Int] :
           Laid(b, Pending \o Bytes(sent + 1), Current, Consumed, sent + 1)
    BY <1>1, <1>3, OrderFacts, LaidExtend
  <1>6. Current' = Current /\ Consumed' = Consumed
    BY <1>2 DEF Current, Consumed
  <1>7. \E b \in [Nat -> Int] : Laid(b, Pending', Current', Consumed', sent')
    BY <1>2, <1>4, <1>5, <1>6
  <1>8. Len(delivered') <= sent' /\ (Current <= sent => Current' <= sent')
    BY <1>2, <1>6, OrderFacts
  <1>9. need' # Header => Current' <= sent' /\ need' = PayloadLen[Current']
    BY <1>2, <1>6, <1>8 DEF InOrder
  <1> QED BY <1>2, <1>7, <1>8, <1>9 DEF InOrder

\* TCP and read() only move bytes on.
LEMMA OrderArriveRead ==
    ASSUME BufferTyped, InOrder, ~lost, Arrive \/ Read
    PROVE  InOrder'
  <1>1. network \in Seq(Byte) /\ socket \in Seq(Byte) /\ buf \in Seq(Byte)
    BY DEF BufferTyped, TypeOK
  <1>2. CASE Arrive
    <2>1. PICK k \in 1..Len(network) :
             /\ socket' = socket \o SubSeq(network, 1, k)
             /\ network' = SubSeq(network, k + 1, Len(network))
      BY <1>2 DEF Arrive
    <2>2. k \in 0..Len(network)
      BY <1>1, LenProperties
    <2>3. PICK x \in Seq(Byte), y \in Seq(Byte) :
             network = x \o y /\ socket' = socket \o x /\ network' = y
      BY <1>1, <2>1, <2>2, SplitSeq, ZenonT(60)
    <2>4. (buf \o (socket \o x)) \o y = (buf \o socket) \o (x \o y)
      <3>1. buf \o (socket \o x) = (buf \o socket) \o x
        BY <1>1, BytesAssociative, ZenonT(60)
      <3>2. buf \o socket \in Seq(Byte)
        BY <1>1, ConcatProperties
      <3>3. ((buf \o socket) \o x) \o y = (buf \o socket) \o (x \o y)
        BY <3>2, BytesAssociative
      <3> QED BY <3>1, <3>3
    <2>5. UNCHANGED <<sent, buf, need, delivered, status>>
      BY <1>2 DEF Arrive
    <2>6. Pending' = Pending
      BY <2>3, <2>4, <2>5 DEF Pending
    <2> QED BY <2>5, <2>6, OrderKept
  <1>3. CASE Read
    <2>a. Len(socket) \in Nat /\ Len(buf) \in Nat /\ Wanted \in Int
      BY <1>1, LenProperties, Numbers DEF Wanted, BufferTyped, TypeOK
    <2> DEFINE free == Wanted - Len(buf)
    <2>b. free \in Int
      BY <2>a
    <2> HIDE DEF free
    <2>c. PICK k \in Int : k = IF Len(socket) <= free THEN Len(socket) ELSE free
      BY <2>a, <2>b
    <2>1. k = IF Len(socket) <= Wanted - Len(buf) THEN Len(socket) ELSE Wanted - Len(buf)
      BY <2>c DEF free
    <2>2. /\ k > 0 /\ buf' = buf \o SubSeq(socket, 1, k)
          /\ socket' = SubSeq(socket, k + 1, Len(socket))
          /\ UNCHANGED <<sent, network, need, delivered, status>>
      BY <1>3, <2>1 DEF Read
    <2>3. k \in 0..Len(socket)
      BY <2>a, <2>b, <2>c, <2>2
    <2>4. PICK x \in Seq(Byte), y \in Seq(Byte) :
             socket = x \o y /\ buf' = buf \o x /\ socket' = y
      BY <1>1, <2>2, <2>3, SplitSeq
    <2>5. (buf \o x) \o y = buf \o (x \o y)
      BY <1>1, BytesAssociative, ZenonT(60)
    <2>6. Pending' = Pending
      BY <2>2, <2>4, <2>5 DEF Pending
    <2> QED BY <2>2, <2>6, OrderKept
  <1> QED BY <1>2, <1>3

\* A part of a frame, as the reader compares it.
LEMMA PartOfFrame ==
    ASSUME NEW i \in Frame, NEW off \in Nat, NEW n \in Nat, off + n <= FrameLen(i), n >= 1
    PROVE  /\ SubSeq(Bytes(i), off + 1, off + n) \in Seq(Byte)
           /\ Len(SubSeq(Bytes(i), off + 1, off + n)) = n
           /\ \A k \in 1..n : SubSeq(Bytes(i), off + 1, off + n)[k] = <<i, off + k>>
  <1>1. PICK fl \in Nat : fl = FrameLen(i)
    BY FrameLengths
  <1>2. PICK s \in Seq(Byte) : s = Bytes(i)
    BY BytesTyped
  <1>3. Len(s) = fl /\ \A k \in 1..fl : s[k] = <<i, k>>
    BY <1>1, <1>2, BytesTyped
  <1>4. PICK lo \in Int, hi \in Int : lo = off + 1 /\ hi = off + n
    OBVIOUS
  <1>5. \A k \in lo..hi : s[k] \in Byte
    <2>1. \A k \in lo..hi : k \in 1..Len(s)
      BY <1>1, <1>3, <1>4
    <2> QED BY <2>1, ElementOfSeq
  <1>6. /\ SubSeq(s, lo, hi) \in Seq(Byte)
        /\ Len(SubSeq(s, lo, hi)) = IF lo <= hi THEN hi - lo + 1 ELSE 0
        /\ \A k \in 1..(hi - lo + 1) : SubSeq(s, lo, hi)[k] = s[lo + k - 1]
    BY <1>5, SubSeqProperties
  <1>7. hi - lo + 1 = n /\ lo <= hi
    BY <1>4
  <1>8. ASSUME NEW k \in 1..n PROVE SubSeq(s, lo, hi)[k] = <<i, off + k>>
    <2>1. lo + k - 1 = off + k /\ off + k \in 1..fl
      BY <1>1, <1>4
    <2> QED BY <1>3, <1>6, <1>7, <2>1
  <1> QED BY <1>2, <1>4, <1>6, <1>7, <1>8

\* Bytes that are the same part of frame c are no part of another frame.
LEMMA FrameRecognised ==
    ASSUME NEW b \in Seq(Byte), NEW c \in Frame, NEW off \in Nat, NEW n \in Nat, n >= 1,
           off + n <= FrameLen(c), Len(b) = n, \A k \in 1..n : b[k] = <<c, off + k>>
    PROVE  /\ b = SubSeq(Bytes(c), off + 1, off + n)
           /\ \A j \in Frame, m \in Nat :
                 (/\ m >= 1 /\ off + m <= FrameLen(j)
                  /\ b = SubSeq(Bytes(j), off + 1, off + m)) => j = c
  <1>1. /\ SubSeq(Bytes(c), off + 1, off + n) \in Seq(Byte)
        /\ Len(SubSeq(Bytes(c), off + 1, off + n)) = n
        /\ \A k \in 1..n : SubSeq(Bytes(c), off + 1, off + n)[k] = <<c, off + k>>
    BY PartOfFrame
  <1>2. b = SubSeq(Bytes(c), off + 1, off + n)
    BY <1>1, SeqEqual
  <1>3. ASSUME NEW j \in Frame, NEW m \in Nat, m >= 1, off + m <= FrameLen(j),
               b = SubSeq(Bytes(j), off + 1, off + m)
        PROVE  j = c
    <2>1. \A k \in 1..m : SubSeq(Bytes(j), off + 1, off + m)[k] = <<j, off + k>>
      BY <1>3, PartOfFrame
    <2>2. 1 \in 1..m /\ 1 \in 1..n
      BY <1>3
    <2>3. b[1] = <<j, off + 1>> /\ b[1] = <<c, off + 1>>
      BY <1>3, <2>1, <2>2
    <2> QED BY <2>3
  <1> QED BY <1>2, <1>3

\* What is pending, as the buffer and the rest.
LEMMA PendingSplit ==
    ASSUME BufferTyped
    PROVE  /\ buf \in Seq(Byte) /\ socket \o network \in Seq(Byte)
           /\ Pending = buf \o (socket \o network)
           /\ Len(buf) \in Nat /\ Len(buf) <= Len(Pending)
           /\ \A k \in 1..Len(buf) : Pending[k] = buf[k]
  <1>1. buf \in Seq(Byte) /\ socket \in Seq(Byte) /\ network \in Seq(Byte)
    BY DEF BufferTyped, TypeOK
  <1>2. PICK v \in Seq(Byte) : v = socket \o network
    BY <1>1, ConcatProperties
  <1>3. Pending = buf \o v
    BY <1>1, <1>2, BytesAssociative DEF Pending
  <1>4. Len(buf) \in Nat /\ Len(v) \in Nat
    BY <1>1, <1>2, LenProperties
  <1>5. /\ Len(Pending) = Len(buf) + Len(v)
        /\ \A k \in 1..(Len(buf) + Len(v)) :
              Pending[k] = IF k <= Len(buf) THEN buf[k] ELSE v[k - Len(buf)]
    BY <1>1, <1>3, ConcatProperties
  <1>6. \A k \in 1..Len(buf) : Pending[k] = buf[k]
    BY <1>4, <1>5
  <1> QED BY <1>1, <1>2, <1>3, <1>4, <1>5, <1>6

\* A decode empties the buffer, and the rest of what was pending stays.
LEMMA PendingDecoded ==
    ASSUME BufferTyped, buf' = <<>>, UNCHANGED <<socket, network>>
    PROVE  Pending' = socket \o network
  <1>1. socket \in Seq(Byte) /\ network \in Seq(Byte)
    BY DEF BufferTyped, TypeOK
  <1>2. <<>> \o socket = socket
    BY <1>1, ConcatEmptySeq
  <1> QED BY <1>2 DEF Pending

\* A full buffer is the part of the current frame that was not consumed.
LEMMA BufferRecognised ==
    ASSUME BufferTyped, NEW c \in Frame, NEW off \in Nat, NEW n \in Nat, n >= 1,
           off + n <= FrameLen(c), Len(buf) = n,
           \A k \in 1..(FrameLen(c) - off) : Pending[k] = <<c, off + k>>
    PROVE  /\ buf = SubSeq(Bytes(c), off + 1, off + n)
           /\ \A j \in Frame, m \in Nat :
                 (/\ m >= 1 /\ off + m <= FrameLen(j)
                  /\ buf = SubSeq(Bytes(j), off + 1, off + m)) => j = c
  <1>1. FrameLen(c) \in Nat
    BY FrameLengths
  <1>2. \A k \in 1..n : k \in 1..(FrameLen(c) - off) /\ k \in 1..Len(buf)
    BY <1>1
  <1>3. buf \in Seq(Byte) /\ \A k \in 1..n : buf[k] = <<c, off + k>>
    BY <1>2, PendingSplit
  <1>4. PICK x \in Seq(Byte) : x = buf
    BY <1>3
  <1>5. /\ x = SubSeq(Bytes(c), off + 1, off + n)
        /\ \A j \in Frame, m \in Nat :
              (/\ m >= 1 /\ off + m <= FrameLen(j)
               /\ x = SubSeq(Bytes(j), off + 1, off + m)) => j = c
    <2>1. Len(x) = n /\ \A k \in 1..n : x[k] = <<c, off + k>>
      BY <1>3, <1>4
    <2> QED BY <2>1, FrameRecognised, Zenon
  <1> QED BY <1>4, <1>5

\* The part of the current frame that was not consumed is the first thing pending.
LEMMA CurrentPending ==
    ASSUME BufferTyped, InOrder, ~lost, Current <= sent, NEW base \in [Nat -> Int]
    PROVE  Laid(base, Pending, Current, Consumed, sent) =>
              /\ base[Current + 1] = FrameLen(Current) - Consumed
              /\ FrameLen(Current) - Consumed <= Len(Pending)
              /\ \A k \in 1..(FrameLen(Current) - Consumed) :
                    Pending[k] = <<Current, Consumed + k>>
  <1>1. /\ Pending \in Seq(Byte) /\ Current \in Nat /\ Consumed \in Nat /\ sent \in Nat
        /\ Current \in Frame /\ Consumed <= HeaderLen
    BY OrderFacts
  <1> QED BY <1>1, LaidFront

\* What a decode leaves lies in order from frame `next' on.
LEMMA RestLaid ==
    ASSUME BufferTyped, InOrder, ~lost, NEW base \in [Nat -> Int],
           NEW next \in Nat, NEW rest \in Nat, Current <= next
    PROVE  Laid(base, Pending, Current, Consumed, sent) /\ base[next] - Len(buf) = 0 - rest =>
              \E b \in [Nat -> Int] : Laid(b, socket \o network, next, rest, sent)
  <1>1. /\ Pending \in Seq(Byte) /\ Current \in Nat /\ Consumed \in Nat /\ sent \in Nat
        /\ Current >= 1 /\ sent <= Len(PayloadLen)
    BY OrderFacts
  <1>2. buf \in Seq(Byte) /\ socket \o network \in Seq(Byte)
        /\ Pending = buf \o (socket \o network)
    BY PendingSplit
  <1>3. PICK c \in Nat, o \in Nat, l \in Nat, s \in Seq(Byte), u \in Seq(Byte), v \in Seq(Byte) :
           /\ c = Current /\ o = Consumed /\ l = sent /\ s = Pending /\ u = buf
           /\ v = socket \o network
    BY <1>1, <1>2
  <1>4. c >= 1 /\ l <= Len(PayloadLen) /\ c <= next
    BY <1>1, <1>3
  <1>5. SUFFICES ASSUME Laid(base, Pending, Current, Consumed, sent), base[next] - Len(buf) = 0 - rest
                 PROVE  \E b \in [Nat -> Int] : Laid(b, socket \o network, next, rest, sent)
    OBVIOUS
  <1>a. Laid(base, s, c, o, l) /\ s = u \o v /\ base[next] - Len(u) = 0 - rest
    BY <1>2, <1>3, <1>5
  <1>11. PICK h \in Nat : h = Len(u)
    BY LenProperties
  <1>12. /\ Len(v) \in Nat /\ Len(s) \in Nat /\ Len(s) = h + Len(v)
        /\ \A j \in 1..Len(v) : v[j] = s[h + j]
    <2>1. Len(v) \in Nat /\ Len(s) \in Nat
      BY LenProperties
    <2>2. /\ Len(s) = h + Len(v)
          /\ \A j \in 1..(h + Len(v)) : s[j] = IF j <= h THEN u[j] ELSE v[j - h]
      BY <1>a, <1>11, ConcatProperties
    <2>3. ASSUME NEW j \in 1..Len(v) PROVE v[j] = s[h + j]
      <3>1. h + j \in 1..(h + Len(v)) /\ ~(h + j <= h) /\ (h + j) - h = j
        BY <2>1
      <3> QED BY <2>2, <3>1
    <2> QED BY <2>1, <2>2, <2>3
  <1> DEFINE b == [i \in Nat |-> base[i] - h]
  <1>13. b \in [Nat -> Int] /\ \A i \in Nat : b[i] = base[i] - h
    OBVIOUS
  <1> HIDE DEF b
  <1>14. b[next] = 0 - rest /\ b[l + 1] = Len(v)
    <2>1. base[l + 1] = Len(s)
      BY <1>a DEF Laid
    <2>2. b[l + 1] = base[l + 1] - h
      BY <1>13
    <2> QED BY <1>a, <1>11, <1>12, <1>13, <2>1, <2>2
  <1>15. ASSUME NEW i \in next..l
        PROVE  /\ b[i + 1] = b[i] + FrameLen(i)
               /\ b[i + 1] <= Len(v)
               /\ \A k \in 1..FrameLen(i) : b[i] + k >= 1 => v[b[i] + k] = <<i, k>>
    <2>1. i \in Nat /\ i + 1 \in Nat /\ i \in c..l
      BY <1>4
    <2>2. i \in Frame
      <3>1. Len(PayloadLen) \in Nat /\ Frame = 1..Len(PayloadLen)
        BY FrameAssumption, LenProperties DEF Frame
      <3> QED BY <1>4, <2>1, <3>1
    <2>3. PICK fl \in Nat : fl = FrameLen(i)
      BY <2>2, FrameLengths
    <2>4. PICK p \in Int : p = base[i]
      BY <2>1
    <2>5. /\ base[i + 1] = p + fl /\ p + fl <= Len(s)
          /\ \A k \in 1..fl : p + k >= 1 => s[p + k] = <<i, k>>
      BY <1>a, <2>1, <2>3, <2>4 DEF Laid
    <2>6. b[i] = p - h /\ b[i + 1] = (p + fl) - h
      BY <1>13, <2>1, <2>4, <2>5
    <2>7. (p + fl) - h = (p - h) + fl /\ (p + fl) - h <= Len(v)
      BY <1>12, <2>5
    <2>8. ASSUME NEW k \in 1..fl, (p - h) + k >= 1 PROVE v[(p - h) + k] = <<i, k>>
      <3>1. (p - h) + k \in 1..Len(v) /\ h + ((p - h) + k) = p + k /\ p + k >= 1
        BY <1>12, <2>7, <2>8
      <3> QED BY <1>12, <2>5, <3>1
    <2> QED BY <2>3, <2>6, <2>7, <2>8
  <1>16. Laid(b, v, next, rest, l)
    BY <1>14, <1>15 DEF Laid
  <1> QED BY <1>3, <1>13, <1>16

\* The header of the current frame is recognised and consumed.
LEMMA OrderDecodeLength ==
    ASSUME BufferTyped, InOrder, ~lost, DecodeLength
    PROVE  InOrder'
  <1>1. PICK base \in [Nat -> Int] : Laid(base, Pending, Current, Consumed, sent)
    BY DEF InOrder
  <1>2. /\ need = Header /\ Len(buf) = HeaderLen /\ buf' = <<>>
        /\ UNCHANGED <<sent, network, socket, delivered>>
    BY DEF DecodeLength
  <1>3. Consumed = 0
    BY <1>2 DEF Consumed
  <1>4. PICK c \in Nat : c = Current
    BY OrderFacts
  <1>5. c <= sent /\ c \in Frame
    <2>1. Len(Pending) # 0
      BY <1>2, PendingSplit, OrderFacts, Numbers
    <2>2. Current <= sent
      BY <1>1, <2>1, OrderFacts, LaidNonempty
    <2> QED BY <1>4, <2>2, OrderFacts
  <1>6. PICK z \in Nat, h \in Nat : z = 0 /\ h = HeaderLen
    BY Numbers
  <1>7. \A k \in 1..(FrameLen(c) - z) : Pending[k] = <<c, z + k>>
    BY <1>1, <1>3, <1>4, <1>5, <1>6, CurrentPending
  <1>8. IsHeader(buf, c) /\ \A j \in Frame : IsHeader(buf, j) => j = c
    <2>1. \A j \in Frame : z + h <= FrameLen(j)
      BY <1>6, FrameLengths, Numbers
    <2>2. h >= 1 /\ Len(buf) = h /\ z + h <= FrameLen(c)
      BY <1>2, <1>5, <1>6, <2>1, Numbers
    <2>3. /\ buf = SubSeq(Bytes(c), z + 1, z + h)
          /\ \A j \in Frame, m \in Nat :
                (/\ m >= 1 /\ z + m <= FrameLen(j)
                 /\ buf = SubSeq(Bytes(j), z + 1, z + m)) => j = c
      BY <1>5, <1>7, <2>2, BufferRecognised, ZenonT(60)
    <2>4. z + 1 = 1 /\ z + h = HeaderLen
      BY <1>6
    <2> QED BY <2>1, <2>2, <2>3, <2>4 DEF IsHeader
  <1>9. Lengths(buf) = {PayloadLen[c]}
    BY <1>5, <1>8 DEF Lengths
  <1>10. PICK p \in 1..MaxPayload : p = PayloadLen[c]
    BY <1>5, FrameLengths
  <1>11. need' = p /\ status' = status /\ p # Header
    BY <1>9, <1>10, Numbers DEF DecodeLength
  <1>12. Current' = Current /\ Consumed' = HeaderLen
    BY <1>2, <1>11 DEF Current, Consumed
  <1>13. \E b \in [Nat -> Int] : Laid(b, socket \o network, Current, HeaderLen, sent)
    <2>1. base[Current] = 0 - 0
      BY <1>1, <1>3 DEF Laid
    <2>2. base[Current] - Len(buf) = 0 - HeaderLen
      BY <1>2, <2>1, Numbers
    <2>3. HeaderLen \in Nat
      BY Numbers
    <2>4. Current \in Nat /\ Current <= Current
      BY OrderFacts
    <2> QED BY <1>1, <2>2, <2>3, <2>4, RestLaid
  <1>14. \E b \in [Nat -> Int] : Laid(b, Pending', Current', Consumed', sent')
    BY <1>2, <1>12, <1>13, PendingDecoded
  <1> QED BY <1>2, <1>4, <1>5, <1>10, <1>11, <1>12, <1>14 DEF InOrder

\* The payload of the current frame is recognised and the frame handed on.
LEMMA OrderDecodePayload ==
    ASSUME BufferTyped, InOrder, ~lost, DecodePayload
    PROVE  InOrder'
  <1>1. PICK base \in [Nat -> Int] : Laid(base, Pending, Current, Consumed, sent)
    BY DEF InOrder
  <1>2. /\ need # Header /\ Len(buf) = need /\ buf' = <<>> /\ need' = Header
        /\ UNCHANGED <<sent, network, socket>>
    BY DEF DecodePayload
  <1>3. Consumed = HeaderLen
    BY <1>2 DEF Consumed
  <1>4. PICK c \in Nat : c = Current
    BY OrderFacts
  <1>5. c <= sent /\ c \in Frame /\ need = PayloadLen[c]
    <2>1. Current <= sent /\ need = PayloadLen[Current]
      BY <1>2 DEF InOrder
    <2> QED BY <1>4, <2>1, OrderFacts
  <1>6. PICK h \in Nat, n \in Nat : h = HeaderLen /\ n = PayloadLen[c]
    <2>1. PayloadLen[c] \in 1..MaxPayload
      BY <1>5, FrameLengths
    <2>2. PayloadLen[c] \in Nat /\ HeaderLen \in Nat
      BY <2>1, Numbers
    <2> QED BY <2>2
  <1>7. /\ base[c + 1] = FrameLen(c) - h
        /\ \A k \in 1..(FrameLen(c) - h) : Pending[k] = <<c, h + k>>
    <2>1. Current <= sent
      BY <1>4, <1>5
    <2>2. /\ base[Current + 1] = FrameLen(Current) - Consumed
          /\ \A k \in 1..(FrameLen(Current) - Consumed) : Pending[k] = <<Current, Consumed + k>>
      BY <1>1, <2>1, CurrentPending
    <2> QED BY <1>3, <1>4, <1>6, <2>2
  <1>8. n >= 1 /\ Len(buf) = n /\ h + n = FrameLen(c)
    BY <1>2, <1>5, <1>6, FrameLengths
  <1>9. IsPayload(buf, c) /\ \A j \in Frame : IsPayload(buf, j) => j = c
    <2>1. /\ buf = SubSeq(Bytes(c), h + 1, h + n)
          /\ \A j \in Frame, m \in Nat :
                (/\ m >= 1 /\ h + m <= FrameLen(j)
                 /\ buf = SubSeq(Bytes(j), h + 1, h + m)) => j = c
      <3>1. h + n <= FrameLen(c)
        BY <1>8
      <3> QED BY <1>5, <1>7, <1>8, <3>1, BufferRecognised, ZenonT(60)
    <2>2. ASSUME NEW j \in Frame, IsPayload(buf, j) PROVE j = c
      <3>1. PICK m \in Nat : m = PayloadLen[j]
        BY FrameLengths
      <3>2. m >= 1 /\ h + m = FrameLen(j) /\ h + m <= FrameLen(j)
        BY <1>6, <3>1, FrameLengths
      <3>3. buf = SubSeq(Bytes(j), h + 1, h + m)
        BY <1>6, <2>2, <3>2 DEF IsPayload
      <3> QED BY <2>1, <3>2, <3>3
    <2>3. IsPayload(buf, c)
      BY <1>6, <1>8, <2>1 DEF IsPayload
    <2> QED BY <2>2, <2>3
  <1>10. (CHOOSE i \in Frame : IsPayload(buf, i)) = c
    BY <1>5, <1>9
  <1>11. delivered' = Append(delivered, c) /\ status' = status
    BY <1>5, <1>9, <1>10 DEF DecodePayload
  <1>12. delivered \in Seq(Frame) /\ c = Len(delivered) + 1 /\ Len(delivered) \in Nat
    BY <1>4, OrderFacts DEF BufferTyped, TypeOK
  <1>13. /\ Len(delivered') = c /\ delivered' \in Seq(Frame)
         /\ \A k \in 1..c : delivered'[k] = IF k <= Len(delivered) THEN delivered[k] ELSE c
    BY <1>5, <1>11, <1>12, AppendProperties
  <1>14. Current' = c + 1 /\ Consumed' = 0
    BY <1>2, <1>13 DEF Current, Consumed
  <1>15. delivered' = [k \in 1..Len(delivered') |-> k]
    <2>1. \A k \in 1..Len(delivered) : delivered[k] = k
      <3>1. delivered = [k \in 1..Len(delivered) |-> k]
        BY DEF InOrder
      <3> QED BY <3>1, Zenon
    <2>2. \A k \in 1..c : delivered'[k] = k
      <3>1. ASSUME NEW k \in 1..c PROVE delivered'[k] = k
        <4>1. CASE k <= Len(delivered)
          <5>1. k \in 1..Len(delivered)
            BY <1>12, <4>1
          <5> QED BY <1>13, <2>1, <4>1, <5>1
        <4>2. CASE ~(k <= Len(delivered))
          <5>1. k = c
            BY <1>12, <4>2
          <5> QED BY <1>13, <4>2, <5>1
        <4> QED BY <4>1, <4>2
      <3> QED BY <3>1
    <2>3. delivered' = [k \in 1..Len(delivered') |-> delivered'[k]]
      BY <1>13, SeqDef
    <2> QED BY <1>13, <2>2, <2>3
  <1>16. \E b \in [Nat -> Int] : Laid(b, socket \o network, c + 1, 0, sent)
    <2>1. base[c + 1] - Len(buf) = 0 - 0
      <3>1. FrameLen(c) \in Nat
        BY <1>5, FrameLengths
      <3> QED BY <1>7, <1>8, <3>1
    <2>2. c + 1 \in Nat /\ 0 \in Nat /\ Current <= c + 1
      BY <1>4
    <2> QED BY <1>1, <2>1, <2>2, RestLaid
  <1>17. \E b \in [Nat -> Int] : Laid(b, Pending', Current', Consumed', sent')
    BY <1>2, <1>14, <1>16, PendingDecoded
  <1> QED BY <1>2, <1>5, <1>11, <1>13, <1>15, <1>17 DEF InOrder

\* A stream that ends while nothing was lost ends between two frames.
LEMMA OrderEof ==
    ASSUME BufferTyped, InOrder, ~lost, Eof
    PROVE  InOrder'
  <1>1. PICK base \in [Nat -> Int] : Laid(base, Pending, Current, Consumed, sent)
    BY DEF InOrder
  <1>2. /\ network = <<>> /\ socket = <<>> /\ Len(buf) < Wanted
        /\ UNCHANGED <<sent, network, socket, buf, need, delivered, lost>>
        /\ status' = IF need = Header /\ buf = <<>> THEN "closed" ELSE "truncated"
    BY DEF Eof
  <1>3. Pending' = Pending
    BY <1>2 DEF Pending
  <1>4. Len(Pending) = Len(buf)
    <2>1. buf \in Seq(Byte)
      BY DEF BufferTyped, TypeOK
    <2>2. (buf \o <<>>) \o <<>> = buf
      BY <2>1, ConcatEmptySeq
    <2> QED BY <1>2, <2>2 DEF Pending
  <1>5. need = Header /\ buf = <<>>
    <2>1. SUFFICES ASSUME need # Header \/ buf # <<>> PROVE FALSE
      OBVIOUS
    <2>2. Current <= sent
      <3>1. CASE need # Header
        BY <3>1 DEF InOrder
      <3>2. CASE buf # <<>>
        <4>1. Len(Pending) # 0
          BY <1>4, <3>2, EmptySeq DEF BufferTyped, TypeOK
        <4> QED BY <1>1, <4>1, OrderFacts, LaidNonempty
      <3> QED BY <2>1, <3>1, <3>2
    <2>3. Current \in Frame
      BY <2>2, OrderFacts
    <2>4. FrameLen(Current) - Consumed <= Len(buf)
      BY <1>1, <1>4, <2>2, CurrentPending
    <2>5. Wanted <= FrameLen(Current) - Consumed
      <3>1. PICK c \in Frame : c = Current
        BY <2>3
      <3>2. CASE need = Header
        BY <3>1, <3>2, FrameLengths, Numbers DEF Wanted, Consumed
      <3>3. CASE need # Header
        <4>1. need = PayloadLen[c]
          BY <3>1, <3>3 DEF InOrder
        <4> QED BY <3>1, <3>3, <4>1, FrameLengths, Numbers, SMTT(60) DEF Wanted, Consumed
      <3> QED BY <3>2, <3>3
    <2>6. PICK w \in Int, f \in Int, l \in Nat :
             w = Wanted /\ f = FrameLen(Current) - Consumed /\ l = Len(buf)
      <3>1. FrameLen(Current) \in Nat /\ Consumed \in Nat /\ Len(buf) \in Nat
        BY <2>3, FrameLengths, OrderFacts
      <3>2. FrameLen(Current) - Consumed \in Int
        BY <3>1
      <3>3. Wanted \in Int
        BY Numbers DEF Wanted, BufferTyped, TypeOK
      <3> QED BY <3>1, <3>2, <3>3
    <2> QED BY <1>2, <2>4, <2>5, <2>6
  <1>6. status' \in {status, "closed"} /\ UNCHANGED <<sent, need, delivered>>
    BY <1>2, <1>5
  <1> QED BY <1>3, <1>6, OrderKept

\* The whole step.
LEMMA OrderStep ==
    ASSUME BufferTyped, InOrder, [Next]_vars
    PROVE  InOrder'
  <1>1. CASE lost
    <2>1. lost'
      BY <1>1 DEF Next, PeerSend, Arrive, Read, DecodeLength, DecodePayload, Eof, Interrupt, vars
    <2> QED BY <2>1 DEF InOrder
  <1>2. CASE ~lost
    <2>1. CASE PeerSend
      BY <1>2, <2>1, OrderPeerSend
    <2>2. CASE Arrive \/ Read
      BY <1>2, <2>2, OrderArriveRead
    <2>3. CASE DecodeLength
      BY <1>2, <2>3, OrderDecodeLength
    <2>4. CASE DecodePayload
      BY <1>2, <2>4, OrderDecodePayload
    <2>5. CASE Eof
      BY <1>2, <2>5, OrderEof
    <2>6. CASE Interrupt
      <3>1. CASE buf # <<>> \/ need # Header
        BY <2>6, <3>1 DEF Interrupt, InOrder
      <3>2. CASE buf = <<>> /\ need = Header
        <4>1. /\ buf' = buf /\ need' = need
              /\ UNCHANGED <<sent, network, socket, delivered, status>>
          BY <2>6, <3>2 DEF Interrupt
        <4>2. Pending' = Pending /\ status' \in {status, "closed"}
          BY <4>1 DEF Pending
        <4> QED BY <1>2, <4>1, <4>2, OrderKept
      <3> QED BY <3>1, <3>2
    <2>7. CASE UNCHANGED vars
      <3>1. Pending' = Pending /\ status' \in {status, "closed"}
            /\ UNCHANGED <<sent, need, delivered>>
        BY <2>7 DEF vars, Pending
      <3> QED BY <1>2, <3>1, OrderKept
    <2> QED BY <2>1, <2>2, <2>3, <2>4, <2>5, <2>6, <2>7 DEF Next
  <1> QED BY <1>1, <1>2

\* Initially nothing is written: the empty sequence holds no frame.
LEMMA InitPump == Init => PumpInv
  <1> SUFFICES ASSUME Init PROVE PumpInv
    OBVIOUS
  <1>1. /\ sent = 0 /\ network = <<>> /\ socket = <<>> /\ buf = <<>> /\ need = Header
        /\ delivered = <<>> /\ status = "open" /\ interrupts = 0 /\ lost = FALSE
    BY DEF Init
  <1>2. Len(<<>>) = 0 /\ <<>> \in Seq(Byte) /\ <<>> \in Seq(Frame)
    BY EmptySeq
  <1>3. TypeOK
    <2>1. 0 \in 0..Len(PayloadLen) /\ 0 \in 0..MaxInterrupt /\ Header \in Header..MaxPayload
      BY Numbers
    <2> QED BY <1>1, <1>2, <2>1 DEF TypeOK
  <1>4. Len(buf) <= Wanted
    BY <1>1, <1>2, Numbers DEF Wanted
  <1>5. InOrder
    <2>1. PICK base \in [Nat -> Int] : \A i \in Nat : base[i] = 0
      <3>1. [i \in Nat |-> 0] \in [Nat -> Int] /\ \A i \in Nat : [j \in Nat |-> 0][i] = 0
        OBVIOUS
      <3> QED BY <3>1
    <2>2. Pending = <<>>
      <3>1. <<>> \o <<>> = <<>>
        BY <1>2, ConcatEmptySeq
      <3> QED BY <1>1, <3>1 DEF Pending
    <2>3. Current = 1 /\ Consumed = 0 /\ Len(delivered) = 0
      BY <1>1, <1>2 DEF Current, Consumed
    <2>4. Laid(base, <<>>, 1, 0, 0)
      <3>1. base[1] = 0 - 0 /\ base[0 + 1] = Len(<<>>)
        BY <1>2, <2>1
      <3>2. \A i \in 1..0 : FALSE
        OBVIOUS
      <3> QED BY <3>1, <3>2 DEF Laid
    <2>5. delivered = [k \in 1..Len(delivered) |-> k]
      <3>1. <<>> = [k \in 1..0 |-> k]
        OBVIOUS
      <3> QED BY <1>1, <2>3, <3>1
    <2> QED BY <1>1, <2>1, <2>2, <2>3, <2>4, <2>5 DEF InOrder
  <1> QED BY <1>3, <1>4, <1>5 DEF PumpInv

\* The invariant holds throughout.
THEOREM PumpInvariant == Spec => []PumpInv
  <1>1. PumpInv /\ [Next]_vars => PumpInv'
    BY TypeStep, OrderStep DEF PumpInv, BufferTyped
  <1> QED BY <1>1, InitPump, PTL DEF Spec

\* FramesSound for any frames and any arrival of their bytes: read_frame hands
\* on the frames in the order they were sent, each once, and takes no honest
\* peer for a violator, unless a branch of select! dropped it within a frame.
THEOREM FramesAlwaysSound == Spec => []FramesSound
  <1>1. PumpInv => FramesSound
    BY DEF PumpInv, InOrder, FramesSound, FramesInOrder
  <1> QED BY <1>1, PumpInvariant, PTL
=============================================================================
