----------------------------- MODULE FrameCodec -----------------------------
(***************************************************************************)
(* The byte stream that one connection's writer task puts on the socket   *)
(* (handle_peer, broker.rs 882-913): Prepared frames written verbatim, as *)
(* the acks send_ack! builds, and routed frames encoded as kind, a         *)
(* little-endian frame length cast to u32, a reserved byte, the sender and *)
(* the topic each \0-terminated, the extension header and the payload. A  *)
(* receiving client decodes the stream frame by frame as spec section 4.3 *)
(* describes; the client is not in this repository.                      *)
(*                                                                         *)
(* Bytes are naturals; names, topics and payloads are byte sequences from  *)
(* small sets. The width of the length field is kept as a constant:       *)
(* Radix ^ LenBytes is 256 ^ 4 in the code and small here, so that a frame *)
(* longer than the field can hold is within TLC's reach.                   *)
(***************************************************************************)
EXTENDS Naturals, Sequences, SequencesExt

CONSTANTS
    Radix,       \* the values of one byte of the length field (256)
    LenBytes,    \* the bytes of the length field (4: a u32)
    KindByte,    \* FrameKind byte of each routed kind, a function
    AckByte,     \* OP_ACK
    Senders,     \* client names a frame may come from, as byte sequences
    Targets,     \* targets (names, masks, topics) of the ops, no \0 in them
    Payloads,    \* payloads
    Headers,     \* extension headers of in-process zc_send, <<>> for none
    OpIds,       \* op ids, each the 4 bytes of an op header
    Codes,       \* ack status bytes
    MaxFrames    \* frames the writer writes in one behaviour

RoutedKinds == {"Message", "Broadcast", "Publish"}

ASSUME CodecAssumption ==
    /\ Radix \in Nat \ {0, 1}
    /\ LenBytes \in Nat \ {0}
    /\ KindByte \in [RoutedKinds -> Nat \ {0}]
    /\ AckByte \in Nat \ {0}
    /\ AckByte \notin {KindByte[k] : k \in RoutedKinds}
    /\ MaxFrames \in Nat
    /\ \A S \in {Senders, Targets, Payloads, Headers} : S \subseteq Seq(Nat)

NUL == 0

\* The u32 the length is cast to: `frame_len as u32` keeps the low bits.
LenRange == Radix ^ LenBytes

\* u32::to_le_bytes, on LenBytes bytes of Radix values.
LE(n) == [i \in 1..LenBytes |-> (n \div Radix ^ (i - 1)) % Radix]

\* u32::from_le_bytes, as a receiving client reads the field.
FromLE(s) == FoldRight(LAMBDA d, acc : d + Radix * acc, s, 0)

\* The frames the writer can be handed. Routed frames of handle_reader
\* carry the whole op body, target \0 payload, with payload_pos after the
\* \0 (broker.rs 998-1002); an in-process Client's carry the payload alone
\* and, for zc_send, a header. Only publish! sets a topic. An op body fits
\* the u32 length of its op header (broker.rs 946).
WireFrames ==
    {f \in {[kind |-> k, sender |-> s, topic |-> IF k = "Publish" THEN t ELSE <<>>,
             header |-> <<>>, buf |-> t \o <<NUL>> \o p, ppos |-> Len(t) + 1] :
               k \in RoutedKinds, s \in Senders, t \in Targets, p \in Payloads} :
        Len(f.buf) < LenRange}
InProcFrames ==
    {[kind |-> k, sender |-> s, topic |-> IF k = "Publish" THEN t ELSE <<>>,
      header |-> IF k = "Message" THEN h ELSE <<>>, buf |-> p, ppos |-> 0] :
        k \in RoutedKinds, s \in Senders, t \in Targets, p \in Payloads,
        h \in Headers}
Acks == {[kind |-> "Ack", id |-> i, code |-> c] : i \in OpIds, c \in Codes}

\* frame.payload(): the buffer from payload_pos on.
Payload(f) == SubSeq(f.buf, f.ppos + 1, Len(f.buf))

\* The writer loop's frame_len: metadata, header and payload, and the \0
\* after the sender.
FrameLen(f) ==
    Len(f.sender) + (IF f.kind = "Publish" THEN Len(f.topic) + 1 ELSE 0)
        + Len(f.header) + Len(f.buf) - f.ppos + 1

\* Mutant: the \0 after the sender left out of frame_len.
EncodeNoSenderNul(f) ==
    IF f.kind = "Ack" THEN <<AckByte>> \o f.id \o <<f.code>>
    ELSE <<KindByte[f.kind]>> \o LE((FrameLen(f) - 1) % LenRange) \o <<NUL>>
         \o f.sender \o <<NUL>>
         \o (IF f.kind = "Publish" THEN f.topic \o <<NUL>> ELSE <<>>)
         \o f.header \o Payload(f)

\* The bytes the writer task puts on the wire for one frame: a Prepared
\* ack verbatim (send_ack!: OP_ACK, op id, status), a routed frame with
\* its header; write_data! skips empty slices, which writes the same bytes.
Encode(f) ==
    IF f.kind = "Ack" THEN <<AckByte>> \o f.id \o <<f.code>>
    ELSE <<KindByte[f.kind]>> \o LE(FrameLen(f) % LenRange) \o <<NUL>>
         \o f.sender \o <<NUL>>
         \o (IF f.kind = "Publish" THEN f.topic \o <<NUL>> ELSE <<>>)
         \o f.header \o Payload(f)

\* What the receiving client is to see of a frame: the header of zc_send
\* is not delimited on the wire and reaches it as the start of the data.
View(f) ==
    IF f.kind = "Ack" THEN f
    ELSE [kind |-> f.kind, sender |-> f.sender, topic |-> f.topic,
          data |-> f.header \o Payload(f)]

-----------------------------------------------------------------------------
(* The receiving client, from spec section 4.3: OP_ACK, the op id and the *)
(* status; or the kind, the length, the reserved byte and as many bytes of *)
(* data as the length says, the sender and, in a Publish, the topic each  *)
(* ending at the first \0 of what is left.                                 *)

\* The position of the first \0 of a byte sequence, 0 if there is none.
NulAt(s) == SelectInSeq(s, LAMBDA b : b = NUL)

HeadLen == 2 + LenBytes

\* The bytes of the frame at the start of the stream s, by its header.
ItemLen(s) ==
    IF s[1] = AckByte THEN 6 ELSE HeadLen + FromLE(SubSeq(s, 2, 1 + LenBytes))

\* The stream holds a whole frame.
Complete(s) ==
    /\ s # <<>>
    /\ s[1] = AckByte \/ Len(s) >= HeadLen
    /\ Len(s) >= ItemLen(s)

KindOf(b) ==
    IF \E k \in RoutedKinds : KindByte[k] = b
    THEN CHOOSE k \in RoutedKinds : KindByte[k] = b ELSE "Unknown"

\* The frame at the start of a complete stream, as the client reads it.
DecodeItem(s) ==
    IF s[1] = AckByte
    THEN [kind |-> "Ack", id |-> SubSeq(s, 2, 5), code |-> s[6]]
    ELSE LET body == SubSeq(s, HeadLen + 1, ItemLen(s))
             k == KindOf(s[1])
             i == NulAt(body)
             rest == SubSeq(body, i + 1, Len(body))
             j == NulAt(rest)
         IN IF i = 0 \/ (k = "Publish" /\ j = 0)
            THEN [kind |-> "Malformed"]
            ELSE [kind |-> k, sender |-> SubSeq(body, 1, i - 1),
                  topic |-> IF k = "Publish" THEN SubSeq(rest, 1, j - 1) ELSE <<>>,
                  data |-> IF k = "Publish" THEN SubSeq(rest, j + 1, Len(rest))
                                            ELSE rest]

-----------------------------------------------------------------------------
(* One socket: the writer encodes the frames it dequeues, in order, and   *)
(* the client decodes whatever whole frames have arrived.                  *)
VARIABLES
    sent,   \* the frames the writer has written, in order
    wire,   \* the bytes on the socket the client has not decoded yet
    got     \* the frames the client has decoded, in order

vars == <<sent, wire, got>>

Frames == WireFrames \cup InProcFrames \cup Acks

Init ==
    /\ sent = <<>>
    /\ wire = <<>>
    /\ got = <<>>

\* One turn of the writer loop: the frame's bytes, then the flush.
WriteFrame(f) ==
    /\ Len(sent) < MaxFrames
    /\ sent' = Append(sent, f)
    /\ wire' = wire \o Encode(f)
    /\ UNCHANGED got

\* The client reads the next whole frame off the socket.
ClientRead ==
    /\ Complete(wire)
    /\ got' = Append(got, DecodeItem(wire))
    /\ wire' = SubSeq(wire, ItemLen(wire) + 1, Len(wire))
    /\ UNCHANGED sent

\* Every frame is written and read: the connection goes quiet.
Quiet ==
    /\ Len(sent) = MaxFrames
    /\ ~Complete(wire)
    /\ UNCHANGED vars

Next ==
    \/ \E f \in Frames : WriteFrame(f)
    \/ ClientRead
    \/ Quiet

Spec == Init /\ [][Next]_vars

(* Round trip (spec 4.3 and its testable property "encoding then decoding *)
(* a routed frame yields the original tuple"): the client decodes, one by *)
(* one and in order, the frames the writer task encoded, acks and routed  *)
(* frames interleaved, so the frame_len the writer computes delimits each *)
(* frame exactly and the \0 terminators split sender, topic and data.      *)
DecodedAsSent ==
    /\ Len(got) <= Len(sent)
    /\ \A i \in 1..Len(got) : got[i] = View(sent[i])

=============================================================================
