-------------------------- MODULE FrameCodecProofs --------------------------
(***************************************************************************)
(* Proofs about the writer's encoding, for every width of the length      *)
(* field and all names, targets, payloads and headers. That the client     *)
(* decodes what was encoded (DecodedAsSent) rests on FromLE(LE(n)) = n,    *)
(* an induction over the bytes of the field, and stays with TLC.          *)
(***************************************************************************)
EXTENDS FrameCodec, SequenceTheorems, TLAPS

\* The routed frames the writer can be handed.
Routed == WireFrames \cup InProcFrames

\* What a routed frame is made of: byte sequences, and a payload position
\* within the buffer.
LEMMA RoutedShape ==
    ASSUME NEW f \in Routed
    PROVE  /\ f.kind \in RoutedKinds
           /\ f.sender \in Seq(Nat) /\ f.topic \in Seq(Nat)
           /\ f.header \in Seq(Nat) /\ f.buf \in Seq(Nat)
           /\ f.ppos \in Nat /\ f.ppos <= Len(f.buf)
<1>1. CASE f \in WireFrames
    <2>1. PICK k \in RoutedKinds, s \in Senders, t \in Targets, p \in Payloads :
            f = [kind |-> k, sender |-> s, topic |-> IF k = "Publish" THEN t ELSE <<>>,
                 header |-> <<>>, buf |-> t \o <<NUL>> \o p, ppos |-> Len(t) + 1]
        <3>1. f \in {[kind |-> k, sender |-> s, topic |-> IF k = "Publish" THEN t ELSE <<>>,
                      header |-> <<>>, buf |-> t \o <<NUL>> \o p, ppos |-> Len(t) + 1] :
                        k \in RoutedKinds, s \in Senders, t \in Targets, p \in Payloads}
            BY <1>1, SMTT(60) DEF WireFrames
        <3>2. QED
            BY <3>1, SMTT(60)
    <2>2. s \in Seq(Nat) /\ t \in Seq(Nat) /\ p \in Seq(Nat)
        BY CodecAssumption
    <2>3. QED
        BY <2>1, <2>2 DEF NUL
<1>2. CASE f \in InProcFrames
    <2>1. PICK k \in RoutedKinds, s \in Senders, t \in Targets, p \in Payloads,
               h \in Headers :
            f = [kind |-> k, sender |-> s, topic |-> IF k = "Publish" THEN t ELSE <<>>,
                 header |-> IF k = "Message" THEN h ELSE <<>>, buf |-> p, ppos |-> 0]
        BY <1>2 DEF InProcFrames
    <2>2. s \in Seq(Nat) /\ t \in Seq(Nat) /\ p \in Seq(Nat) /\ h \in Seq(Nat)
        BY CodecAssumption
    <2>3. QED
        BY <2>1, <2>2
<1>3. QED
    BY <1>1, <1>2 DEF Routed

\* Lengths add up along the eight pieces of a routed frame's encoding.
LEMMA EncodeShapeLen ==
    ASSUME NEW S, NEW a \in S, NEW z \in S, NEW l \in Seq(S), NEW s \in Seq(S),
           NEW t \in Seq(S), NEW h \in Seq(S), NEW p \in Seq(S)
    PROVE  Len(<<a>> \o l \o <<z>> \o s \o <<z>> \o t \o h \o p)
             = 3 + Len(l) + Len(s) + Len(t) + Len(h) + Len(p)
<1>1. <<a>> \in Seq(S) /\ <<z>> \in Seq(S) /\ Len(<<a>>) = 1 /\ Len(<<z>>) = 1
    OBVIOUS
<1>2. <<a>> \o l \in Seq(S) /\ Len(<<a>> \o l) = 1 + Len(l)
    BY <1>1, ConcatProperties
<1>3. <<a>> \o l \o <<z>> \in Seq(S) /\ Len(<<a>> \o l \o <<z>>) = 2 + Len(l)
    BY <1>1, <1>2, ConcatProperties
<1>4. <<a>> \o l \o <<z>> \o s \in Seq(S)
      /\ Len(<<a>> \o l \o <<z>> \o s) = 2 + Len(l) + Len(s)
    BY <1>3, ConcatProperties
<1>5. <<a>> \o l \o <<z>> \o s \o <<z>> \in Seq(S)
      /\ Len(<<a>> \o l \o <<z>> \o s \o <<z>>) = 3 + Len(l) + Len(s)
    BY <1>1, <1>4, ConcatProperties
<1>6. <<a>> \o l \o <<z>> \o s \o <<z>> \o t \in Seq(S)
      /\ Len(<<a>> \o l \o <<z>> \o s \o <<z>> \o t) = 3 + Len(l) + Len(s) + Len(t)
    BY <1>5, ConcatProperties
<1>7. <<a>> \o l \o <<z>> \o s \o <<z>> \o t \o h \in Seq(S)
      /\ Len(<<a>> \o l \o <<z>> \o s \o <<z>> \o t \o h)
           = 3 + Len(l) + Len(s) + Len(t) + Len(h)
    BY <1>6, ConcatProperties
<1>8. QED
    BY <1>7, ConcatProperties

\* The payload is what follows payload_pos in the buffer.
LEMMA PayloadLen ==
    ASSUME NEW f \in Routed
    PROVE  /\ Payload(f) \in Seq(Nat)
           /\ Len(Payload(f)) = Len(f.buf) - f.ppos
<1> DEFINE b == f.buf  n == f.ppos
<1>1. b \in Seq(Nat) /\ n \in Nat /\ n <= Len(b)
    BY RoutedShape
<1> HIDE DEF b, n
<1>2. \A i \in n + 1 .. Len(b) : b[i] \in Nat
    BY <1>1
<1>3. /\ SubSeq(b, n + 1, Len(b)) \in Seq(Nat)
      /\ Len(SubSeq(b, n + 1, Len(b))) = Len(b) - n
    BY <1>1, <1>2, SubSeqProperties
<1>4. QED
    BY <1>3 DEF Payload, b, n

(* frame_len, computed by the writer loop from the frame's metadata, its  *)
(* header and its payload, is exactly the number of bytes the writer puts *)
(* on the socket for a routed frame, less the kind byte, the length field *)
(* and the reserved byte; so a receiver that reads the length field right *)
(* reads every frame whole, and the u32 cast is the only place where the  *)
(* field and the bytes written can disagree (run codec_len_overflow).     *)
THEOREM FrameLenCounts ==
    \A f \in Routed : Len(Encode(f)) = HeadLen + FrameLen(f)
<1> SUFFICES ASSUME NEW f \in Routed
             PROVE  Len(Encode(f)) = HeadLen + FrameLen(f)
    OBVIOUS
<1>1. f.kind # "Ack"
    BY RoutedShape DEF RoutedKinds
\* The length field, as a sequence over its own bytes: whether those are
\* naturals rests on Radix ^ (i - 1) > 0, which is an induction.
<1> DEFINE L == LE(FrameLen(f) % LenRange)
           U == Nat \cup {L[i] : i \in 1..LenBytes}
<1>2. L \in Seq(U) /\ Len(L) = LenBytes
    <2>1. L = [i \in 1..LenBytes |-> L[i]]
        BY DEF LE
    <2>2. \A i \in 1..LenBytes : L[i] \in U
        OBVIOUS
    <2>3. L \in [1..LenBytes -> U]
        BY <2>1, <2>2
    <2>4. QED
        BY <2>3, CodecAssumption
<1>3. /\ f.sender \in Seq(U) /\ f.header \in Seq(U)
      /\ Payload(f) \in Seq(U) /\ Len(Payload(f)) = Len(f.buf) - f.ppos
      /\ (IF f.kind = "Publish" THEN f.topic \o <<NUL>> ELSE <<>>) \in Seq(U)
      /\ Len(IF f.kind = "Publish" THEN f.topic \o <<NUL>> ELSE <<>>)
           = IF f.kind = "Publish" THEN Len(f.topic) + 1 ELSE 0
    <2>1. Seq(Nat) \subseteq Seq(U)
        BY SeqMonotonic
    <2>2. /\ f.sender \in Seq(Nat) /\ f.header \in Seq(Nat)
          /\ Payload(f) \in Seq(Nat) /\ Len(Payload(f)) = Len(f.buf) - f.ppos
          /\ (IF f.kind = "Publish" THEN f.topic \o <<NUL>> ELSE <<>>) \in Seq(Nat)
          /\ Len(IF f.kind = "Publish" THEN f.topic \o <<NUL>> ELSE <<>>)
               = IF f.kind = "Publish" THEN Len(f.topic) + 1 ELSE 0
        BY RoutedShape, PayloadLen DEF NUL
    <2>3. QED
        BY <2>1, <2>2
<1>4. <<KindByte[f.kind]>> \in Seq(U) /\ <<NUL>> \in Seq(U)
    BY RoutedShape, CodecAssumption DEF NUL
<1>5. Len(Encode(f)) = 3 + LenBytes + Len(f.sender)
                        + Len(IF f.kind = "Publish" THEN f.topic \o <<NUL>> ELSE <<>>)
                        + Len(f.header) + Len(Payload(f))
    <2> DEFINE T == IF f.kind = "Publish" THEN f.topic \o <<NUL>> ELSE <<>>
    <2>1. Encode(f) = <<KindByte[f.kind]>> \o L \o <<NUL>> \o f.sender \o <<NUL>>
                      \o T \o f.header \o Payload(f)
        BY <1>1 DEF Encode
    <2>0. KindByte[f.kind] \in U /\ NUL \in U /\ T \in Seq(U)
        BY <1>3, RoutedShape, CodecAssumption DEF NUL
    <2>2. \E V : /\ KindByte[f.kind] \in V /\ NUL \in V /\ L \in Seq(V)
                 /\ f.sender \in Seq(V) /\ T \in Seq(V) /\ f.header \in Seq(V)
                 /\ Payload(f) \in Seq(V)
        BY <2>0, <1>2, <1>3
    <2> HIDE DEF U, L, T
    <2>3. PICK V : /\ KindByte[f.kind] \in V /\ NUL \in V /\ L \in Seq(V)
                   /\ f.sender \in Seq(V) /\ T \in Seq(V) /\ f.header \in Seq(V)
                   /\ Payload(f) \in Seq(V)
        BY <2>2
    <2>4. Len(<<KindByte[f.kind]>> \o L \o <<NUL>> \o f.sender \o <<NUL>>
              \o T \o f.header \o Payload(f))
            = 3 + Len(L) + Len(f.sender) + Len(T) + Len(f.header) + Len(Payload(f))
        <3>1. PICK a \in V, z \in V, l \in Seq(V), s \in Seq(V), t \in Seq(V),
                   h \in Seq(V), p \in Seq(V) :
                /\ a = KindByte[f.kind] /\ z = NUL /\ l = L /\ s = f.sender
                /\ t = T /\ h = f.header /\ p = Payload(f)
            BY <2>3
        <3>2. Len(<<a>> \o l \o <<z>> \o s \o <<z>> \o t \o h \o p)
                = 3 + Len(l) + Len(s) + Len(t) + Len(h) + Len(p)
            BY EncodeShapeLen
        <3>3. QED
            BY <3>1, <3>2
    <2>5. QED
        BY <2>1, <2>4, <1>2 DEF T
<1>6. /\ Len(f.sender) \in Nat /\ Len(f.topic) \in Nat /\ Len(f.header) \in Nat
      /\ Len(f.buf) \in Nat /\ f.ppos \in Nat /\ LenBytes \in Nat
      /\ Len(Payload(f)) = Len(f.buf) - f.ppos
      /\ Len(IF f.kind = "Publish" THEN f.topic \o <<NUL>> ELSE <<>>)
           = IF f.kind = "Publish" THEN Len(f.topic) + 1 ELSE 0
    BY <1>3, RoutedShape, CodecAssumption
<1> HIDE DEF U, L
\* The sums below are over record fields, which the SMT backend only adds
\* up once they are named.
<1> DEFINE X  == Len(IF f.kind = "Publish" THEN f.topic \o <<NUL>> ELSE <<>>)
           nE == Len(Encode(f))      nP == Len(Payload(f))   nF == FrameLen(f)
           nS == Len(f.sender)       nT == Len(f.topic)      nH == Len(f.header)
           nB == Len(f.buf)          pp == f.ppos
<1>7. /\ nS \in Nat /\ nT \in Nat /\ nH \in Nat /\ nB \in Nat /\ pp \in Nat
      /\ LenBytes \in Nat /\ nP = nB - pp
      /\ nE = 3 + LenBytes + nS + X + nH + nP
      /\ X = IF f.kind = "Publish" THEN nT + 1 ELSE 0
      /\ nF = nS + (IF f.kind = "Publish" THEN nT + 1 ELSE 0) + nH + nB - pp + 1
    BY <1>5, <1>6 DEF FrameLen
<1>8. nE = HeadLen + nF
    <2> HIDE DEF X, nE, nP, nF, nS, nT, nH, nB, pp
    <2>1. CASE f.kind = "Publish"
        BY <1>7, <2>1 DEF HeadLen
    <2>2. CASE f.kind # "Publish"
        BY <1>7, <2>2 DEF HeadLen
    <2>3. QED
        BY <2>1, <2>2
<1>9. QED
    BY <1>8
=============================================================================
