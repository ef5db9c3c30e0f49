------------------------------ MODULE FramePump -----------------------------
(***************************************************************************)
(* How a gossip connection reads frames: read_frame (src/p2p/frame.rs)     *)
(* inside the select! loop of the pump (src/p2p/runtime.rs).  A frame is a *)
(* length header and a payload; TCP delivers its bytes in pieces.  The     *)
(* bytes read so far live in the future read_frame returned, and the loop  *)
(* drops that future whenever another branch (a queued message to send, a  *)
(* keepalive tick) comes first.  The peer is honest: every frame it sends  *)
(* is well-formed.                                                         *)
(***************************************************************************)
EXTENDS Integers, Sequences

CONSTANTS
    HeaderLen,     \* bytes of the length prefix
    PayloadLen,    \* the payload length of each frame the peer sends
    MaxPayload,    \* MAX_FRAME_PAYLOAD
    MaxInterrupt   \* bound on the other branches taken

ASSUME FrameAssumption ==
    /\ HeaderLen \in Nat \ {0}
    /\ PayloadLen \in Seq(1..MaxPayload)
    /\ MaxPayload \in Nat
    /\ MaxInterrupt \in Nat

Frame == DOMAIN PayloadLen
FrameLen(i) == HeaderLen + PayloadLen[i]

\* A byte is known by the frame it belongs to and its place in it.
Byte == {b \in Frame \X (1..(HeaderLen + MaxPayload)) : b[2] <= FrameLen(b[1])}
Bytes(i) == [k \in 1..FrameLen(i) |-> <<i, k>>]

VARIABLES
    sent,         \* frames the peer has written
    network,      \* bytes written and not yet arrived
    socket,       \* bytes that arrived and were not read
    buf,          \* bytes the pending read_frame holds
    need,         \* payload length it waits for, or Header
    delivered,    \* frames handed to the session
    status,       \* how the connection stands
    interrupts    \* other branches taken so far

\* History: bytes of a frame were dropped with the future.
VARIABLE lost

Header == -1

vars == <<sent, network, socket, buf, need, delivered, status, interrupts, lost>>

TypeOK ==
    /\ sent \in 0..Len(PayloadLen)
    /\ network \in Seq(Byte)
    /\ socket \in Seq(Byte)
    /\ buf \in Seq(Byte)
    /\ need \in Header..MaxPayload
    /\ delivered \in Seq(Frame)
    /\ status \in {"open", "closed", "truncated", "violation"}
    /\ interrupts \in 0..MaxInterrupt
    /\ lost \in BOOLEAN

Init ==
    /\ sent = 0
    /\ network = <<>>
    /\ socket = <<>>
    /\ buf = <<>>
    /\ need = Header
    /\ delivered = <<>>
    /\ status = "open"
    /\ interrupts = 0
    /\ lost = FALSE

-----------------------------------------------------------------------------
\* The peer writes its next frame.
PeerSend ==
    /\ sent < Len(PayloadLen)
    /\ sent' = sent + 1
    /\ network' = network \o Bytes(sent + 1)
    /\ UNCHANGED <<socket, buf, need, delivered, status, interrupts, lost>>

\* TCP splits and joins the bytes as it likes.
Arrive ==
    /\ \E k \in 1..Len(network) :
          /\ socket' = socket \o SubSeq(network, 1, k)
          /\ network' = SubSeq(network, k + 1, Len(network))
    /\ UNCHANGED <<sent, buf, need, delivered, status, interrupts, lost>>

Wanted == IF need = Header THEN HeaderLen ELSE need

\* Mutant: one read() is taken for the whole buffer.
MutDecodePayload ==
    /\ status = "open"
    /\ need # Header
    /\ buf # <<>>
    /\ IF \E i \in Frame : buf = SubSeq(Bytes(i), HeaderLen + 1, FrameLen(i))
       THEN /\ delivered' = Append(delivered, buf[1][1])
            /\ UNCHANGED status
       ELSE status' = "violation" /\ UNCHANGED delivered
    /\ buf' = <<>>
    /\ need' = Header
    /\ UNCHANGED <<sent, network, socket, interrupts, lost>>

\* One read() of read_exact_or_eof: what has arrived of the bytes wanted.
Read ==
    LET k == IF Len(socket) <= Wanted - Len(buf) THEN Len(socket) ELSE Wanted - Len(buf)
    IN  /\ status = "open"
        /\ k > 0
        /\ buf' = buf \o SubSeq(socket, 1, k)
        /\ socket' = SubSeq(socket, k + 1, Len(socket))
        /\ UNCHANGED <<sent, network, need, delivered, status, interrupts, lost>>

\* The bytes are the header of frame i, the payload of frame i.
IsHeader(b, i) == b = SubSeq(Bytes(i), 1, HeaderLen)
IsPayload(b, i) == b = SubSeq(Bytes(i), HeaderLen + 1, FrameLen(i))

\* u32::from_be_bytes: bytes that are no header make any length at all,
\* most of them too long.
Lengths(b) ==
    IF \E i \in Frame : IsHeader(b, i)
    THEN {PayloadLen[i] : i \in {j \in Frame : IsHeader(b, j)}}
    ELSE 0..MaxPayload + 1

\* The header is complete: an oversize length ends the connection.
DecodeLength ==
    /\ status = "open"
    /\ need = Header
    /\ Len(buf) = HeaderLen
    /\ \E n \in Lengths(buf) :
          IF n > MaxPayload
          THEN status' = "violation" /\ UNCHANGED need
          ELSE need' = n /\ UNCHANGED status
    /\ buf' = <<>>
    /\ UNCHANGED <<sent, network, socket, delivered, interrupts, lost>>

\* The payload is complete: decode_payload, and the frame is handed on or
\* the connection ends.
DecodePayload ==
    /\ status = "open"
    /\ need # Header
    /\ Len(buf) = need
    /\ IF \E i \in Frame : IsPayload(buf, i)
       THEN /\ delivered' = Append(delivered, CHOOSE i \in Frame : IsPayload(buf, i))
            /\ UNCHANGED status
       ELSE status' = "violation" /\ UNCHANGED delivered
    /\ buf' = <<>>
    /\ need' = Header
    /\ UNCHANGED <<sent, network, socket, interrupts, lost>>

\* Mutant: a stream that pauses counts as ended.
MutEof ==
    /\ status = "open"
    /\ socket = <<>> /\ buf = <<>> /\ need = Header
    /\ status' = "closed"
    /\ UNCHANGED <<sent, network, socket, buf, need, delivered, interrupts, lost>>

\* End of the stream: clean between frames, truncated within one.
Eof ==
    /\ status = "open"
    /\ sent = Len(PayloadLen) /\ network = <<>> /\ socket = <<>>
    /\ Len(buf) < Wanted
    /\ status' = IF need = Header /\ buf = <<>> THEN "closed" ELSE "truncated"
    /\ UNCHANGED <<sent, network, socket, buf, need, delivered, interrupts, lost>>

\* Another branch of select! is taken while read_frame waits for bytes, or was
\* woken by some and not polled yet: its future is dropped, and what it had
\* read with it.
Interrupt ==
    /\ status = "open"
    /\ interrupts < MaxInterrupt
    /\ Len(buf) < Wanted
    /\ interrupts' = interrupts + 1
    /\ lost' = (lost \/ buf # <<>> \/ need # Header)
    /\ buf' = <<>>
    /\ need' = Header
    /\ UNCHANGED <<sent, network, socket, delivered, status>>

Next ==
    \/ PeerSend
    \/ Arrive
    \/ Read
    \/ DecodeLength
    \/ DecodePayload
    \/ Eof
    \/ Interrupt

Spec == Init /\ [][Next]_vars

\* The peer sends what it has, TCP delivers it and the reader reads; nothing
\* makes the other branches run.
FairSpec ==
    /\ Spec
    /\ WF_vars(PeerSend)
    /\ WF_vars(Arrive)
    /\ WF_vars(Read \/ DecodeLength \/ DecodePayload \/ Eof)

-----------------------------------------------------------------------------
(***************************************************************************)
(* Properties.                                                             *)
(***************************************************************************)

\* However the bytes are split, frames are handed on in the order they were
\* sent, each once, and an honest peer commits no violation, as long as no
\* branch interrupted read_frame within a frame.
FramesInOrder ==
    ~lost => /\ delivered = [k \in 1..Len(delivered) |-> k]
             /\ Len(delivered) <= sent
             /\ status \in {"open", "closed"}

\* The pump's buffer and what it hands on.
FramesSound == TypeOK /\ FramesInOrder

\* Every frame is handed on before the connection ends.
AllDelivered == <>(lost \/ Len(delivered) = Len(PayloadLen))

\* "Handles frames that arrive in pieces": an honest peer is never cut off.
SplitArrivalHandled == status \in {"open", "closed"}
=============================================================================
