--------------------------- MODULE BrokerDelivery ---------------------------
(***************************************************************************)
(* Proofs about what the broker enqueues for its clients and writes to    *)
(* their sockets, for every value of the constants: an OK ack of a        *)
(* directed message follows the message, and the frames of one sender     *)
(* reach a socket in the order of its operations, after RESPONSE_OK.      *)
(***************************************************************************)
EXTENDS BrokerProofs

-----------------------------------------------------------------------------
(* AckAfterDelivery. The ack of an op is enqueued by Finish once the op   *)
(* has no recipient left; MsgDelivered says that a send! that got there   *)
(* with its code still "ok" has enqueued the message.                     *)

LEMMA InitAckInv == Init => AckInv
BY InitTypeInv DEF Init, AckInv, TypeInv, MsgDelivered, AckAfterDelivery, Idle

\* Taking up an operation: a directed message with an OK code has a target.
LEMMA StartOpAck ==
    ASSUME TypeOK, MsgDelivered, AckAfterDelivery,
           NEW c \in Conn, NEW op, NEW q, NEW P, NEW code,
           op = "msg" /\ code = "ok" => P # {},
           StartOp(c, op, q, P, code), UNCHANGED <<delivered, acked>>
    PROVE  MsgDelivered' /\ AckAfterDelivery'
<1>1. \A d \in Conn \ {c} : rd'[d] = rd[d]
    BY DEF StartOp, TypeOK
<1>2. MsgDelivered'
    BY <1>1 DEF StartOp, TypeOK, MsgDelivered, RoutedFrame
<1>3. QED
    BY <1>2 DEF AckAfterDelivery

LEMMA NextAckInv == AckInv /\ [Next]_vars => AckInv'
<1> SUFFICES ASSUME TypeInv, MsgDelivered, AckAfterDelivery, [Next]_vars
             PROVE  MsgDelivered' /\ AckAfterDelivery'
    BY NextTypeInv DEF AckInv, TypeInv
<1> USE DEF TypeInv
\* Steps that leave the readers and both histories alone.
<1>1. ASSUME UNCHANGED <<rd, delivered, acked>>
      PROVE  MsgDelivered' /\ AckAfterDelivery'
    BY <1>1 DEF MsgDelivered, AckAfterDelivery, RoutedFrame
<1>2. ASSUME NEW c \in Conn,
             \/ ReadSubscribe(c) \/ ReadUnsubscribe(c)
             \/ CallSubscribe(c) \/ CallUnsubscribe(c)
      PROVE  MsgDelivered' /\ AckAfterDelivery'
    <2>1. \E op \in {"sub", "unsub"}, q \in QoS :
              StartOp(c, op, q, {}, "ok") /\ UNCHANGED <<delivered, acked>>
        BY <1>2 DEF ReadSubscribe, ReadUnsubscribe, CallSubscribe,
                    CallUnsubscribe, QoS
    <2>2. QED
        BY <2>1, StartOpAck
<1>3. ASSUME NEW c \in Conn, NEW q, SendOp(c, q)
      PROVE  MsgDelivered' /\ AckAfterDelivery'
    <2>1. PICK n \in Names :
            IF clients[n] = NoConn
            THEN StartOp(c, "msg", q, {}, "not_registered")
            ELSE StartOp(c, "msg", q, {clients[n]}, "ok")
        BY <1>3 DEF SendOp
    <2>2. UNCHANGED <<delivered, acked>>
        BY <1>3 DEF SendOp
    <2>3. CASE clients[n] = NoConn
        BY <2>1, <2>2, <2>3, StartOpAck
    <2>4. CASE clients[n] # NoConn
        BY <2>1, <2>2, <2>4, StartOpAck
    <2>5. QED
        BY <2>3, <2>4
<1>4. ASSUME NEW c \in Conn, NEW q, BroadcastOp(c, q) \/ PublishOp(c, q)
      PROVE  MsgDelivered' /\ AckAfterDelivery'
    <2>1. \E op \in {"bcast", "pub"} : \E P : StartOp(c, op, q, P, "ok")
        BY <1>4 DEF BroadcastOp, PublishOp
    <2>2. UNCHANGED <<delivered, acked>>
        BY <1>4 DEF BroadcastOp, PublishOp
    <2>3. QED
        BY <2>1, <2>2, StartOpAck
<1>5. ASSUME NEW c \in Conn, Deliver(c)
      PROVE  MsgDelivered' /\ AckAfterDelivery'
    <2>1. PICK r \in rd[c].pending :
             \/ /\ HasRoom(r)
                /\ queue' = [queue EXCEPT ![r] = Append(@, RoutedFrame(c))]
                /\ delivered' = delivered \cup {<<RoutedFrame(c), r>>}
                /\ rd' = [rd EXCEPT ![c].pending = @ \ {r}]
             \/ /\ ~rxOpen[r]
                /\ rd' = [rd EXCEPT ![c].pending = @ \ {r},
                                    ![c].code = IF rd[c].op = "msg"
                                                THEN "send_err" ELSE @]
                /\ UNCHANGED <<queue, delivered>>
        BY <1>5 DEF Deliver
    <2>2. UNCHANGED acked /\ delivered \subseteq delivered'
        BY <1>5, <2>1 DEF Deliver
    <2>3. /\ \A d \in Conn \ {c} : rd'[d] = rd[d]
          /\ rd'[c].op = rd[c].op /\ rd'[c].seq = rd[c].seq
        BY <2>1 DEF TypeOK, ReaderState
    <2>4. \A d \in Conn : RoutedFrame(d)' = RoutedFrame(d)
        BY <2>3 DEF RoutedFrame
    <2>5. CASE delivered' = delivered \cup {<<RoutedFrame(c), r>>}
        <3>1. r \in Conn
            BY DEF TypeOK, ReaderState
        <3>2. MsgDelivered'
            BY <2>2, <2>3, <2>4, <2>5, <3>1 DEF MsgDelivered
        <3>3. QED
            BY <2>2, <3>2 DEF AckAfterDelivery
    <2>6. CASE rd' = [rd EXCEPT ![c].pending = @ \ {r},
                                ![c].code = IF rd[c].op = "msg"
                                            THEN "send_err" ELSE @]
        <3>1. rd'[c].op = "msg" => rd'[c].code = "send_err"
            BY <2>6 DEF TypeOK
        <3>2. MsgDelivered'
            BY <2>2, <2>3, <2>4, <3>1 DEF MsgDelivered
        <3>3. QED
            BY <2>2, <3>2 DEF AckAfterDelivery
    <2>7. QED
        BY <2>1, <2>5, <2>6
<1>6. ASSUME NEW c \in Conn, Finish(c)
      PROVE  MsgDelivered' /\ AckAfterDelivery'
    <2>1. rd[c].pending = {}
        BY <1>6 DEF Finish
    <2>2. CASE rd' = [rd EXCEPT ![c] = Idle] /\ UNCHANGED <<delivered, acked>>
        BY <2>2 DEF TypeOK, Idle, MsgDelivered, AckAfterDelivery, RoutedFrame
    <2>3. CASE /\ rd' = [rd EXCEPT ![c] = Idle]
               /\ acked' = acked \cup {<<c, rd[c].seq, rd[c].op, rd[c].code>>}
               /\ UNCHANGED delivered
        <3>1. MsgDelivered'
            BY <2>3 DEF TypeOK, Idle, MsgDelivered, RoutedFrame
        <3>2. rd[c].op = "msg" /\ rd[c].code = "ok" =>
                \E r \in Conn :
                    <<[kind |-> "message", src |-> c, seq |-> rd[c].seq,
                       code |-> "ok"], r>> \in delivered
            BY <2>1 DEF MsgDelivered, RoutedFrame, RoutedKind
        <3>3. AckAfterDelivery'
            BY <2>3, <3>2 DEF AckAfterDelivery
        <3>4. QED
            BY <3>1, <3>3
    <2>4. CASE UNCHANGED <<rd, delivered, acked>>
        BY <2>4, <1>1
    <2>5. QED
        BY <1>6, <2>2, <2>3, <2>4 DEF Finish
<1>7. QED
    <2>1. ASSUME NEW c \in Conn,
                 \/ Greet(c) \/ ReadName(c) \/ WriteRegOk(c)
                 \/ WriterStep(c) \/ WriterCancelled(c) \/ ReadError(c)
                 \/ InRegister(c) \/ InTakeChannel(c) \/ AppRecv(c)
                 \/ AppDropChannel(c) \/ InDrop(c)
                 \/ UnregSubs(c) \/ UnregBcast(c) \/ UnregClients(c)
          PROVE  MsgDelivered' /\ AckAfterDelivery'
        <3>1. UNCHANGED <<rd, delivered, acked>>
            BY <2>1 DEF Greet, ReadName, WriteRegOk, WriterStep,
                        WriterCancelled, ReadError, ReadEnd, ReadMalformed,
                        InRegister, InTakeChannel, AppRecv, AppDropChannel,
                        InDrop, UnregSubs, UnregBcast, UnregClients
        <3>2. QED
            BY <3>1, <1>1
    <2>2. ASSUME NEW c \in Conn,
                 \/ ReadMessage(c) \/ ReadBroadcast(c) \/ ReadPublish(c)
                 \/ CallSend(c) \/ CallBroadcast(c) \/ CallPublish(c)
          PROVE  MsgDelivered' /\ AckAfterDelivery'
        BY <2>2, <1>3, <1>4 DEF ReadMessage, ReadBroadcast, ReadPublish,
                                CallSend, CallBroadcast, CallPublish
    <2>3. CASE Done \/ UNCHANGED vars
        BY <2>3, <1>1 DEF Done, vars
    <2>4. ASSUME NEW c \in Peer,
                 \/ Greet(c) \/ ReadName(c) \/ WriteRegOk(c)
                 \/ WriterStep(c) \/ WriterCancelled(c)
                 \/ ReadSubscribe(c) \/ ReadUnsubscribe(c) \/ ReadMessage(c)
                 \/ ReadBroadcast(c) \/ ReadPublish(c) \/ ReadError(c)
          PROVE  MsgDelivered' /\ AckAfterDelivery'
        <3>1. c \in Conn
            BY DEF Peer
        <3>2. QED
            BY <2>4, <3>1, <2>1, <2>2, <1>2
    <2>5. ASSUME NEW c \in Inner,
                 \/ InRegister(c) \/ CallSubscribe(c) \/ CallUnsubscribe(c)
                 \/ CallSend(c) \/ CallBroadcast(c) \/ CallPublish(c)
                 \/ InTakeChannel(c) \/ AppRecv(c) \/ AppDropChannel(c)
                 \/ InDrop(c)
          PROVE  MsgDelivered' /\ AckAfterDelivery'
        <3>1. c \in Conn
            BY ConstAssumption
        <3>2. QED
            BY <2>5, <3>1, <2>1, <2>2, <1>2
    <2>6. QED
        BY <2>3, <2>4, <2>5, <1>5, <1>6, <2>1 DEF Next

(* An OK ack of a directed message is only enqueued after the message     *)
(* itself (AckAfterDelivery of runs broker_safety and inprocess_safety):   *)
(* send_ack! runs after every fan-out send of send! has completed, and a *)
(* failed send turns the status into an error, for any number of wire and *)
(* in-process clients, names and topics.                                  *)
THEOREM AckCorrect == Spec => []AckAfterDelivery
<1>1. Init => AckInv
    BY InitAckInv
<1>2. AckInv /\ [Next]_vars => AckInv'
    BY NextAckInv
<1>3. AckInv => AckAfterDelivery
    BY DEF AckInv
<1>4. QED
    BY <1>1, <1>2, <1>3, PTL DEF Spec

-----------------------------------------------------------------------------
(* Lemmas about the sequences of frames a stream is made of.               *)

\* A frame that comes after everything of its stream keeps a sequence
\* ordered.
LEMMA OrderedAppend ==
    ASSUME NEW s \in Seq(Frame), NEW x \in Frame, Ordered(s),
           \A i \in DOMAIN s : InOrder(s[i], x)
    PROVE  Ordered(Append(s, x))
BY DEF Ordered

\* Enqueueing at the end of the channel appends to the stream.
LEMMA ConcatAppend ==
    ASSUME NEW w \in Seq(Frame), NEW q \in Seq(Frame), NEW x \in Frame
    PROVE  w \o Append(q, x) = Append(w \o q, x)
OBVIOUS

\* The writer moving the head of the channel to the socket leaves the
\* stream as it is.
LEMMA ConcatShift ==
    ASSUME NEW w \in Seq(Frame), NEW q \in Seq(Frame), q # <<>>
    PROVE  Append(w, Head(q)) \o Tail(q) = w \o q
OBVIOUS

\* What has been written is the start of the stream.
LEMMA ConcatPrefix ==
    ASSUME NEW w \in Seq(Frame), NEW q \in Seq(Frame)
    PROVE  /\ DOMAIN w \subseteq DOMAIN (w \o q)
           /\ \A i \in DOMAIN w : (w \o q)[i] = w[i]
OBVIOUS

\* So is an ordered stream's start ordered.
LEMMA OrderedPrefix ==
    ASSUME NEW w \in Seq(Frame), NEW q \in Seq(Frame), Ordered(w \o q)
    PROVE  Ordered(w)
BY ConcatPrefix DEF Ordered

\* RESPONSE_OK put before an ordered channel.
LEMMA OrderedRegOk ==
    ASSUME NEW q \in Seq(Frame), NEW g \in Frame, g.kind = "reg_ok",
           Ordered(q)
    PROVE  Ordered(<<g>> \o q)
BY DEF Ordered, InOrder

-----------------------------------------------------------------------------
(* PerSenderFIFO and RegOkFirst. Each kind of step changes the streams in *)
(* one of four ways: not at all, cut back to what was written (a dropped  *)
(* receiver), one frame appended (an enqueue), or RESPONSE_OK put in front *)
(* of the channel (the handshake); or it takes up an operation, which      *)
(* numbers it after everything its reader produced so far.                *)

\* The stream part of OrderInv; the type part is NextTypeInv.
Streams == StreamOrdered /\ SeqBounded

\* Every recipient's stream in Seq(Frame).
LEMMA StreamType ==
    ASSUME TypeOK, NEW r \in Conn
    PROVE  Stream(r) \in Seq(Frame)
BY DEF TypeOK, Stream

\* A step keeps every frame numbered as it was: what a reader has read
\* only grows, and an op in progress only loses recipients.
NumberedKept ==
    \A d \in Conn, y \in Frame : Numbered(d, y) => Numbered(d, y)'

\* No stream changes.
LEMMA StreamsSame ==
    ASSUME TypeOK, Streams, \A r \in Conn : Stream(r)' = Stream(r), NumberedKept
    PROVE  Streams'
<1>1. \A r \in Conn : \A i \in DOMAIN Stream(r) : Stream(r)[i] \in Frame
    BY StreamType
<1>2. QED
    BY <1>1 DEF Streams, StreamOrdered, SeqBounded, NumberedKept

\* Receivers dropped: the streams of S are cut back to what was written.
LEMMA StreamsDrop ==
    ASSUME TypeOK, Streams, NEW S \in SUBSET Conn, DropRx(S),
           UNCHANGED <<wire, rd, ops>>
    PROVE  Streams'
<1>1. ASSUME NEW r \in Conn, r \notin S PROVE Stream(r)' = Stream(r)
    BY <1>1 DEF DropRx, Stream
<1>2. ASSUME NEW r \in S
      PROVE  /\ Stream(r)' = wire[r]
             /\ Ordered(wire[r])
             /\ \A i \in DOMAIN wire[r] : Numbered(r, wire[r][i])
    <2>1. Stream(r)' = wire[r]
        BY DEF DropRx, Stream, TypeOK
    <2>2. /\ DOMAIN wire[r] \subseteq DOMAIN Stream(r)
          /\ \A i \in DOMAIN wire[r] : Stream(r)[i] = wire[r][i]
        BY ConcatPrefix DEF TypeOK, Stream
    <2>3. Ordered(wire[r])
        BY OrderedPrefix DEF TypeOK, Stream, Streams, StreamOrdered
    <2>4. QED
        BY <2>1, <2>2, <2>3 DEF Streams, SeqBounded
<1>3. QED
    BY <1>1, <1>2 DEF Streams, StreamOrdered, SeqBounded, Numbered

\* One frame x enqueued for r, after every frame of r's stream that is of
\* its own stream; nothing else changes but the recipients of an op.
LEMMA StreamsAppend ==
    ASSUME TypeOK, Streams, NEW r \in Conn, NEW x \in Frame,
           queue' = [queue EXCEPT ![r] = Append(@, x)],
           UNCHANGED <<wire, ops>>,
           \A i \in DOMAIN Stream(r) : InOrder(Stream(r)[i], x),
           NumberedKept, Numbered(r, x)'
    PROVE  Streams'
<1>1. Stream(r)' = Append(Stream(r), x)
    BY ConcatAppend DEF TypeOK, Stream
<1>2. \A d \in Conn \ {r} : Stream(d)' = Stream(d)
    BY DEF TypeOK, Stream
<1>3. Ordered(Stream(r)')
    BY <1>1, StreamType, OrderedAppend DEF Streams, StreamOrdered
<1>4. \A i \in DOMAIN Stream(r)' : Numbered(r, Stream(r)[i])'
    <2>1. \A i \in DOMAIN Stream(r) : Stream(r)[i] \in Frame
        BY StreamType
    <2>2. QED
        BY <1>1, <2>1, StreamType DEF Streams, SeqBounded, NumberedKept
<1>5. QED
    <2>1. \A d \in Conn \ {r} : \A i \in DOMAIN Stream(d) : Stream(d)[i] \in Frame
        BY StreamType
    <2>2. QED
        BY <1>2, <1>3, <1>4, <2>1
           DEF Streams, StreamOrdered, SeqBounded, NumberedKept

\* Nothing a reader has read or is dispatching changes.
LEMMA KeptUnchanged ==
    ASSUME UNCHANGED <<rd, ops>> PROVE NumberedKept
BY DEF NumberedKept, Numbered

\* Taking up an operation: it is numbered after every frame its reader
\* produced, so it is below nothing that was there.
LEMMA KeptStartOp ==
    ASSUME TypeOK, NEW c \in Conn, NEW op, NEW q, NEW P, NEW code,
           StartOp(c, op, q, P, code)
    PROVE  NumberedKept
<1> SUFFICES ASSUME NEW d \in Conn, NEW y \in Frame, Numbered(d, y)
             PROVE  Numbered(d, y)'
    BY DEF NumberedKept
<1>1. CASE y.src = c
    BY <1>1 DEF StartOp, TypeOK, Numbered, Frame
<1>2. CASE y.src # c
    BY <1>2 DEF StartOp, TypeOK, Numbered, Frame
<1>3. QED
    BY <1>1, <1>2

\* An op losing recipients, its code perhaps changed.
LEMMA KeptDeliver ==
    ASSUME TypeOK, NEW c \in Conn,
           \A d \in Conn \ {c} : rd'[d] = rd[d],
           rd'[c].op = rd[c].op, rd'[c].seq = rd[c].seq,
           rd'[c].pending \subseteq rd[c].pending,
           UNCHANGED ops
    PROVE  NumberedKept
<1> SUFFICES ASSUME NEW d \in Conn, NEW y \in Frame, Numbered(d, y)
             PROVE  Numbered(d, y)'
    BY DEF NumberedKept
<1>1. CASE y.src = c
    BY <1>1 DEF TypeOK, Numbered, Frame
<1>2. CASE y.src # c
    BY <1>2 DEF TypeOK, Numbered, Frame
<1>3. QED
    BY <1>1, <1>2

\* An op done.
LEMMA KeptFinish ==
    ASSUME TypeOK, NEW c \in Conn, rd' = [rd EXCEPT ![c] = Idle], UNCHANGED ops
    PROVE  NumberedKept
BY DEF NumberedKept, TypeOK, Numbered, Idle

\* RESPONSE_OK written to a socket nothing was written to: the stream is
\* the channel with RESPONSE_OK in front.
LEMMA StreamsRegOk ==
    ASSUME TypeOK, Streams, NEW c \in Conn, wire[c] = <<>>,
           NEW g \in Frame, g.kind = "reg_ok",
           wire' = [wire EXCEPT ![c] = Append(@, g)],
           UNCHANGED <<queue, rd, ops>>
    PROVE  Streams'
<1>1. Stream(c) = queue[c] /\ Stream(c)' = <<g>> \o queue[c]
    BY DEF TypeOK, Stream
<1>2. \A d \in Conn \ {c} : Stream(d)' = Stream(d)
    BY DEF TypeOK, Stream
<1>3. Ordered(Stream(c)')
    BY <1>1, OrderedRegOk DEF TypeOK, Streams, StreamOrdered
<1>4. \A i \in DOMAIN Stream(c)' : Numbered(c, Stream(c)[i])'
    <2>1. SUFFICES ASSUME NEW i \in DOMAIN Stream(c)'
                   PROVE  Numbered(c, Stream(c)[i])'
        OBVIOUS
    <2>2. CASE i = 1
        BY <1>1, <2>2 DEF TypeOK, Numbered
    <2>3. CASE i # 1
        <3>1. i - 1 \in DOMAIN queue[c] /\ Stream(c)'[i] = queue[c][i - 1]
            BY <1>1, <2>3 DEF TypeOK
        <3>2. QED
            BY <1>1, <3>1 DEF Streams, SeqBounded, Numbered
    <2>4. QED
        BY <2>2, <2>3
<1>5. QED
    BY <1>2, <1>3, <1>4, KeptUnchanged
       DEF Streams, StreamOrdered, SeqBounded, Numbered

\* The phases in which nothing may have been written to a wire client.
Pre == {"idle", "naming", "registered"}

OrderRest == ReaderSeq /\ HandshakeWire /\ Streams /\ RegOkFirst

\* The writer of c, or the application holding c's channel, moves the head
\* of the channel to what c has received.
LEMMA ShiftStep ==
    ASSUME TypeOK, Streams, NEW c \in Conn, queue[c] # <<>>,
           wire' = [wire EXCEPT ![c] = Append(@, Head(queue[c]))],
           queue' = [queue EXCEPT ![c] = Tail(@)],
           UNCHANGED <<rd, ops>>
    PROVE  Streams'
<1>1. \A r \in Conn : Stream(r)' = Stream(r)
    BY ConcatShift DEF TypeOK, Stream
<1>2. QED
    BY <1>1, StreamsSame, KeptUnchanged

LEMMA NextOrderRest ==
    ASSUME TypeInv, OrderRest, [Next]_vars PROVE OrderRest'
<1> USE DEF TypeInv
\* Steps of the handshake and of unregister_client, and the Client's calls
\* that change no channel: a wire client only ever leaves Pre.
<1>1. ASSUME UNCHANGED <<wire, queue, rd, ops>>,
             \A c \in Peer : writer'[c] = writer[c] /\ (phase'[c] \in Pre => phase[c] \in Pre)
      PROVE  OrderRest'
    <2>1. Streams'
        <3>1. \A r \in Conn : Stream(r)' = Stream(r)
            BY <1>1 DEF Stream
        <3>2. NumberedKept
            BY <1>1, KeptUnchanged
        <3>3. QED
            BY <3>1, <3>2, StreamsSame DEF OrderRest
    <2>2. HandshakeWire'
        BY <1>1 DEF OrderRest, HandshakeWire, Pre
    <2>3. QED
        BY <1>1, <2>1, <2>2 DEF OrderRest, ReaderSeq, RegOkFirst
\* A receiver dropped by its writer task or by the application.
<1>2. ASSUME NEW c \in Conn, writer[c] = "running",
             writer' = [writer EXCEPT ![c] = "done"], DropRx({c}),
             UNCHANGED <<phase, wire, rd, ops>>
      PROVE  OrderRest'
    <2>1. Streams'
        BY <1>2, StreamsDrop DEF OrderRest
    <2>2. HandshakeWire'
        BY <1>2 DEF OrderRest, HandshakeWire, Pre, TypeOK
    <2>3. QED
        BY <1>2, <2>1, <2>2 DEF OrderRest, ReaderSeq, RegOkFirst
\* An operation taken up by a reader or a Client call.
<1>3. ASSUME NEW c \in Conn, NEW op, NEW q, NEW P, NEW code,
             StartOp(c, op, q, P, code),
             UNCHANGED <<phase, writer, wire, queue>>
      PROVE  OrderRest'
    <2>1. Streams'
        BY <1>3, StreamsSame, KeptStartOp DEF OrderRest, Stream
    <2>2. ReaderSeq'
        BY <1>3 DEF OrderRest, ReaderSeq, StartOp, TypeOK
    <2>3. QED
        BY <1>3, <2>1, <2>2 DEF OrderRest, HandshakeWire, RegOkFirst
<1>4. ASSUME NEW c \in Conn,
             \/ ReadSubscribe(c) \/ ReadUnsubscribe(c) \/ ReadMessage(c)
             \/ ReadBroadcast(c) \/ ReadPublish(c)
             \/ CallSubscribe(c) \/ CallUnsubscribe(c) \/ CallSend(c)
             \/ CallBroadcast(c) \/ CallPublish(c)
      PROVE  OrderRest'
    <2>1. \E op, q, P, code : StartOp(c, op, q, P, code)
        BY <1>4 DEF ReadSubscribe, ReadUnsubscribe, ReadMessage, ReadBroadcast,
                    ReadPublish, CallSubscribe, CallUnsubscribe, CallSend,
                    CallBroadcast, CallPublish, SendOp, BroadcastOp, PublishOp
    <2>2. UNCHANGED <<phase, writer, wire, queue>>
        BY <1>4 DEF ReadSubscribe, ReadUnsubscribe, ReadMessage, ReadBroadcast,
                    ReadPublish, CallSubscribe, CallUnsubscribe, CallSend,
                    CallBroadcast, CallPublish, SendOp, BroadcastOp, PublishOp
    <2>3. QED
        BY <2>1, <2>2, <1>3

\* A routed frame enqueued for a recipient of the op in progress.
<1>5. ASSUME NEW c \in Conn, Deliver(c) PROVE OrderRest'
    <2>1. PICK r \in rd[c].pending :
             \/ /\ HasRoom(r)
                /\ queue' = [queue EXCEPT ![r] = Append(@, RoutedFrame(c))]
                /\ delivered' = delivered \cup {<<RoutedFrame(c), r>>}
                /\ rd' = [rd EXCEPT ![c].pending = @ \ {r}]
             \/ /\ ~rxOpen[r]
                /\ rd' = [rd EXCEPT ![c].pending = @ \ {r},
                                    ![c].code = IF rd[c].op = "msg"
                                                THEN "send_err" ELSE @]
                /\ UNCHANGED <<queue, delivered>>
        BY <1>5 DEF Deliver
    <2>2. UNCHANGED <<phase, writer, wire, ops>>
        BY <1>5 DEF Deliver
    <2>3. /\ \A d \in Conn \ {c} : rd'[d] = rd[d]
          /\ rd'[c].op = rd[c].op /\ rd'[c].seq = rd[c].seq
          /\ rd'[c].pending = rd[c].pending \ {r}
        BY <2>1 DEF TypeOK, ReaderState
    <2>4. NumberedKept
        BY <2>2, <2>3, KeptDeliver
    <2>5. ReaderSeq'
        BY <2>2, <2>3 DEF OrderRest, ReaderSeq
    <2>6. CASE queue' = [queue EXCEPT ![r] = Append(@, RoutedFrame(c))]
        <3>1. r \in Conn /\ rd[c].op \in {"msg", "bcast", "pub"}
            BY DEF PendingRouted, TypeOK, ReaderState
        <3>2. PICK x \in Frame : x = RoutedFrame(c)
            <4>1. RoutedKind[rd[c].op] \in {"message", "broadcast", "publish"}
                BY <3>1 DEF RoutedKind
            <4>2. QED
                BY <4>1 DEF RoutedFrame, Frame, TypeOK, ReaderState, Codes
        <3>3. x.src = c /\ x.seq = rd[c].seq /\ x.kind \notin {"ack", "reg_ok"}
            BY <3>1, <3>2 DEF RoutedFrame, RoutedKind
        <3>4. \A i \in DOMAIN Stream(r) : InOrder(Stream(r)[i], x)
            <4>1. SUFFICES ASSUME NEW i \in DOMAIN Stream(r),
                                  Stream(r)[i].kind # "reg_ok",
                                  SameStream(Stream(r)[i], x)
                           PROVE  Stream(r)[i].seq < x.seq
                BY DEF InOrder
            <4>2. Numbered(r, Stream(r)[i])
                BY <3>1 DEF OrderRest, Streams, SeqBounded
            <4>3. Stream(r)[i].src = c /\ Stream(r)[i].kind # "ack"
                BY <3>3, <4>1 DEF SameStream
            <4>4. r \in rd[c].pending /\ rd[c].op # "none"
                BY <2>1, <3>1
            <4>5. QED
                BY <3>3, <4>1, <4>2, <4>3, <4>4 DEF Numbered
        <3>5. Numbered(r, x)'
            <4>1. x.seq <= ops'[x.src]
                <5>1. rd[c].seq = ops[c] /\ ops[c] \in Nat
                    BY <3>1 DEF OrderRest, ReaderSeq, TypeOK
                <5>2. QED
                    BY <2>2, <3>3, <5>1
            <4>2. r \notin rd'[x.src].pending
                BY <2>3, <3>3
            <4>3. QED
                BY <4>1, <4>2, <3>3 DEF Numbered
        <3>6. Streams'
            BY <2>2, <2>4, <2>6, <3>1, <3>2, <3>4, <3>5, StreamsAppend
               DEF OrderRest
        <3>7. QED
            BY <2>2, <2>5, <3>6 DEF OrderRest, HandshakeWire, RegOkFirst
    <2>7. CASE UNCHANGED queue
        <3>1. Streams'
            BY <2>2, <2>4, <2>7, StreamsSame DEF OrderRest, Stream
        <3>2. QED
            BY <2>2, <2>5, <3>1 DEF OrderRest, HandshakeWire, RegOkFirst
    <2>8. QED
        BY <2>1, <2>6, <2>7
\* An op done, its ack enqueued on the client's own channel under QoS
\* Processed.
<1>6. ASSUME NEW c \in Conn, Finish(c) PROVE OrderRest'
    <2>1. rd[c].op # "none" /\ UNCHANGED <<writer, wire, ops>>
        BY <1>6 DEF Finish
    <2>2. CASE rd' = [rd EXCEPT ![c] = Idle] /\ UNCHANGED <<phase, queue>>
        <3>1. Streams'
            BY <2>1, <2>2, KeptFinish, StreamsSame DEF OrderRest, Stream
        <3>2. ReaderSeq'
            BY <2>1, <2>2 DEF OrderRest, ReaderSeq, Idle, TypeOK
        <3>3. QED
            BY <2>1, <2>2, <3>1, <3>2 DEF OrderRest, HandshakeWire, RegOkFirst
    <2>3. CASE /\ queue' = [queue EXCEPT ![c] = Append(@, AckFrame(c, rd[c].code))]
               /\ rd' = [rd EXCEPT ![c] = Idle]
               /\ UNCHANGED phase
        <3>1. PICK x \in Frame : x = AckFrame(c, rd[c].code)
            BY DEF AckFrame, Frame, TypeOK, ReaderState
        <3>2. x.src = c /\ x.seq = rd[c].seq /\ x.kind = "ack"
            BY <3>1 DEF AckFrame
        <3>3. \A i \in DOMAIN Stream(c) : InOrder(Stream(c)[i], x)
            BY <2>1, <3>2 DEF OrderRest, Streams, SeqBounded, Numbered,
                              InOrder, SameStream
        <3>4. Numbered(c, x)'
            BY <2>1, <2>3, <3>2 DEF OrderRest, ReaderSeq, Numbered, Idle, TypeOK
        <3>5. Streams'
            BY <2>1, <2>3, <3>1, <3>3, <3>4, KeptFinish, StreamsAppend
               DEF OrderRest
        <3>6. ReaderSeq'
            BY <2>1, <2>3 DEF OrderRest, ReaderSeq, Idle, TypeOK
        <3>7. QED
            BY <2>1, <2>3, <3>5, <3>6 DEF OrderRest, HandshakeWire, RegOkFirst
    <2>4. CASE phase' = [phase EXCEPT ![c] = "unreg_subs"]
               /\ UNCHANGED <<rd, queue>>
        <3>1. UNCHANGED <<wire, queue, rd, ops>>
            BY <2>1, <2>4
        <3>2. \A d \in Peer : writer'[d] = writer[d]
            BY <2>1
        <3>3. \A d \in Peer : phase'[d] \in Pre => phase[d] \in Pre
            BY <2>4 DEF Pre, TypeOK
        <3>4. QED
            BY <3>1, <3>2, <3>3, <1>1
    <2>5. QED
        BY <1>6, <2>2, <2>3, <2>4 DEF Finish
\* The writer task of a wire client writes the head of its channel.
<1>7. ASSUME NEW c \in Peer, WriterStep(c) PROVE OrderRest'
    <2>1. /\ c \in Conn /\ writer[c] = "running" /\ queue[c] # <<>>
          /\ UNCHANGED <<phase, rd, ops>>
        BY <1>7 DEF WriterStep, Peer
    <2>2. wire[c] # <<>> /\ phase[c] \notin Pre
        BY <2>1 DEF OrderRest, HandshakeWire, Pre
    <2>3. CASE /\ wire' = [wire EXCEPT ![c] = Append(@, Head(queue[c]))]
               /\ queue' = [queue EXCEPT ![c] = Tail(@)]
               /\ UNCHANGED writer
        <3>1. Streams'
            BY <2>1, <2>3, ShiftStep DEF OrderRest
        <3>2. Head(wire'[c]) = Head(wire[c])
            BY <2>1, <2>2, <2>3 DEF TypeOK
        <3>3. HandshakeWire' /\ RegOkFirst'
            BY <2>1, <2>2, <2>3, <3>2 DEF OrderRest, HandshakeWire, RegOkFirst,
                                          TypeOK
        <3>4. QED
            BY <2>1, <3>1, <3>3 DEF OrderRest, ReaderSeq
    <2>4. CASE writer' = [writer EXCEPT ![c] = "done"] /\ DropRx({c})
               /\ UNCHANGED wire
        BY <2>1, <2>4, <1>2
    <2>5. QED
        BY <1>7, <2>3, <2>4 DEF WriterStep
\* The application receives from the channel of its in-process Client.
<1>8. ASSUME NEW c \in Inner, AppRecv(c) PROVE OrderRest'
    <2>1. c \in Conn /\ c \notin Peer
        BY ConstAssumption DEF Peer
    <2>2. Streams'
        BY <1>8, <2>1, ShiftStep DEF AppRecv, OrderRest
    <2>3. \A d \in Peer : wire'[d] = wire[d]
        BY <1>8, <2>1 DEF AppRecv, TypeOK, Peer
    <2>4. QED
        BY <1>8, <2>2, <2>3 DEF AppRecv, OrderRest, ReaderSeq, HandshakeWire,
                                RegOkFirst
\* RESPONSE_OK written, or its write failed.
<1>9. ASSUME NEW c \in Peer, WriteRegOk(c) PROVE OrderRest'
    <2>1. c \in Conn /\ phase[c] = "registered" /\ UNCHANGED <<rd, ops>>
        BY <1>9 DEF WriteRegOk, Peer
    <2>2. wire[c] = <<>> /\ writer[c] = "none"
        BY <2>1 DEF OrderRest, HandshakeWire, Pre
    <2>3. CASE /\ phase' = [phase EXCEPT ![c] = "running"]
               /\ wire' = [wire EXCEPT ![c] = Append(@, [kind |-> "reg_ok",
                             src |-> c, seq |-> 0, code |-> "ok"])]
               /\ writer' = [writer EXCEPT ![c] = "running"]
               /\ UNCHANGED queue
        <3>1. PICK g \in Frame : g = [kind |-> "reg_ok", src |-> c, seq |-> 0,
                                      code |-> "ok"]
            BY <2>1 DEF Frame, Codes
        <3>2. Streams'
            BY <2>1, <2>2, <2>3, <3>1, StreamsRegOk DEF OrderRest
        <3>3. wire'[c] = <<g>>
            <4>1. wire'[c] = Append(wire[c], g)
                BY <2>1, <2>3, <3>1 DEF TypeOK
            <4>2. QED
                BY <2>2, <4>1
        <3>4. HandshakeWire' /\ RegOkFirst'
            BY <2>1, <2>3, <3>1, <3>3 DEF OrderRest, HandshakeWire, RegOkFirst,
                                          Pre, TypeOK
        <3>5. QED
            BY <2>1, <3>2, <3>4 DEF OrderRest, ReaderSeq
    <2>4. CASE /\ phase' = [phase EXCEPT ![c] = "closed"]
               /\ DropRx({c})
               /\ UNCHANGED <<wire, writer>>
        <3>1. Streams'
            BY <2>1, <2>4, StreamsDrop DEF OrderRest
        <3>2. HandshakeWire'
            BY <2>1, <2>2, <2>4 DEF OrderRest, HandshakeWire, Pre, TypeOK
        <3>3. QED
            BY <2>1, <2>4, <3>1, <3>2 DEF OrderRest, ReaderSeq, RegOkFirst
    <2>5. QED
        BY <1>9, <2>3, <2>4 DEF WriteRegOk
\* The last step of unregister_client; an in-process Client whose channel
\* was never taken drops it with the Client.
<1>10. ASSUME NEW c \in Conn, UnregClients(c) PROVE OrderRest'
    <2>1. phase[c] = "unreg_clients" /\ UNCHANGED <<wire, rd, ops>>
        BY <1>10 DEF UnregClients
    <2>2. CASE c \in Inner /\ writer' = [writer EXCEPT ![c] = "done"]
               /\ DropRx({c})
        <3>1. Streams'
            BY <2>1, <2>2, StreamsDrop DEF OrderRest
        <3>2. \A d \in Peer : phase'[d] = phase[d] /\ writer'[d] = writer[d]
            BY <1>10, <2>2 DEF UnregClients, Peer, TypeOK
        <3>3. QED
            BY <2>1, <3>1, <3>2 DEF OrderRest, ReaderSeq, HandshakeWire,
                                    RegOkFirst
    <2>3. CASE UNCHANGED <<queue, rxOpen, writer>>
        BY <1>10, <2>1, <2>3, <1>1 DEF UnregClients, Pre, TypeOK
    <2>4. QED
        BY <1>10, <2>2, <2>3 DEF UnregClients
\* The handshake, the reader ending, and the first two steps of
\* unregister_client.
<1>11. ASSUME NEW c \in Conn,
              \/ Greet(c) \/ ReadName(c) \/ ReadError(c) \/ InDrop(c)
              \/ UnregSubs(c) \/ UnregBcast(c)
       PROVE  OrderRest'
    <2>1. UNCHANGED <<wire, queue, rd, ops, writer>>
        BY <1>11 DEF Greet, ReadName, ReadError, ReadEnd, ReadMalformed, InDrop,
                     UnregSubs, UnregBcast
    <2>2. \A d \in Peer : phase'[d] \in Pre => phase[d] \in Pre
        BY <1>11 DEF Greet, ReadName, ReadError, ReadEnd, ReadMalformed, InDrop,
                     UnregSubs, UnregBcast, Pre, TypeOK, Peer
    <2>3. QED
        BY <2>1, <2>2, <1>1
\* An in-process Client is registered, or hands its channel over.
<1>12. ASSUME NEW c \in Inner, InRegister(c) \/ InTakeChannel(c)
       PROVE  OrderRest'
    <2>1. UNCHANGED <<wire, queue, rd, ops>>
        BY <1>12 DEF InRegister, InTakeChannel
    <2>2. \A d \in Peer : phase'[d] = phase[d] /\ writer'[d] = writer[d]
        BY <1>12, ConstAssumption DEF InRegister, InTakeChannel, Peer, TypeOK
    <2>3. QED
        BY <2>1, <2>2, <1>1
<1>13. ASSUME NEW c \in Conn, WriterCancelled(c) \/ AppDropChannel(c)
       PROVE  OrderRest'
    BY <1>13, <1>2 DEF WriterCancelled, AppDropChannel
<1>14. QED
    <2>1. ASSUME NEW c \in Peer,
                 \/ Greet(c) \/ ReadName(c) \/ WriteRegOk(c)
                 \/ WriterStep(c) \/ WriterCancelled(c)
                 \/ ReadSubscribe(c) \/ ReadUnsubscribe(c) \/ ReadMessage(c)
                 \/ ReadBroadcast(c) \/ ReadPublish(c) \/ ReadError(c)
          PROVE  OrderRest'
        <3>1. c \in Conn
            BY DEF Peer
        <3>2. QED
            BY <2>1, <3>1, <1>4, <1>7, <1>9, <1>11, <1>13
    <2>2. ASSUME NEW c \in Inner,
                 \/ InRegister(c) \/ CallSubscribe(c) \/ CallUnsubscribe(c)
                 \/ CallSend(c) \/ CallBroadcast(c) \/ CallPublish(c)
                 \/ InTakeChannel(c) \/ AppRecv(c) \/ AppDropChannel(c)
                 \/ InDrop(c)
          PROVE  OrderRest'
        <3>1. c \in Conn
            BY ConstAssumption
        <3>2. QED
            BY <2>2, <3>1, <1>4, <1>8, <1>11, <1>12, <1>13
    <2>3. ASSUME NEW c \in Conn,
                 \/ Deliver(c) \/ Finish(c)
                 \/ UnregSubs(c) \/ UnregBcast(c) \/ UnregClients(c)
          PROVE  OrderRest'
        BY <2>3, <1>5, <1>6, <1>10, <1>11
    <2>4. CASE Done \/ UNCHANGED vars
        <3>1. UNCHANGED <<wire, queue, rd, ops, writer, phase>>
            BY <2>4 DEF Done, vars
        <3>2. QED
            BY <3>1, <1>1
    <2>5. QED
        BY <2>1, <2>2, <2>3, <2>4 DEF Next

LEMMA InitOrderRest == Init => TypeInv /\ OrderRest
<1> SUFFICES ASSUME Init PROVE TypeInv /\ OrderRest
    OBVIOUS
<1>1. TypeInv
    BY InitTypeInv
<1>2. \A r \in Conn : Stream(r) = <<>>
    BY DEF Init, Stream
<1>3. ReaderSeq
    BY DEF Init, ReaderSeq, Idle
<1>4. HandshakeWire /\ RegOkFirst
    BY DEF Init, HandshakeWire, RegOkFirst, Peer
<1>5. Streams
    BY <1>2 DEF Streams, StreamOrdered, SeqBounded, Ordered
<1>6. QED
    BY <1>1, <1>3, <1>4, <1>5 DEF OrderRest

\* What a socket has had written is the start of its stream, so an ordered
\* stream means an ordered wire.
LEMMA StreamFIFO == TypeOK /\ StreamOrdered => PerSenderFIFO
BY OrderedPrefix DEF TypeOK, StreamOrdered, Stream, PerSenderFIFO

LEMMA OrderInductive == Spec => [](TypeInv /\ OrderRest)
<1>1. TypeInv /\ OrderRest /\ [Next]_vars => (TypeInv /\ OrderRest)'
    BY NextTypeInv, NextOrderRest
<1>2. QED
    BY InitOrderRest, <1>1, PTL DEF Spec

(* Per-sender FIFO and at-most-once delivery (PerSenderFIFO of runs       *)
(* broker_safety and inprocess_safety), for any number of clients, names, *)
(* topics, any queue size and any number of operations: the routed frames *)
(* of one sender reach each socket in the order of its operations and     *)
(* never twice, and so do its acks on its own socket. The reader awaits   *)
(* every fan-out send before it reads the next op and sends to each       *)
(* recipient once, and one writer task moves each channel to its socket.  *)
THEOREM FifoCorrect == Spec => []PerSenderFIFO
<1>1. TypeInv /\ OrderRest => PerSenderFIFO
    BY StreamFIFO DEF TypeInv, OrderRest, Streams
<1>2. QED
    BY <1>1, OrderInductive, PTL

(* RESPONSE_OK is the first frame on a wire client's socket (RegOkFirst of *)
(* runs broker_safety and inprocess_safety), although other clients can  *)
(* enqueue frames for it as soon as register_client has returned: the     *)
(* writer task that drains its channel is spawned only after the write.   *)
THEOREM RegOkCorrect == Spec => []RegOkFirst
<1>1. TypeInv /\ OrderRest => RegOkFirst
    BY DEF OrderRest
<1>2. QED
    BY <1>1, OrderInductive, PTL

(* The two strengthenings that run broker_inductive checks, AckInv and    *)
(* OrderInv, are invariants of the broker for every value of the          *)
(* constants.                                                             *)
THEOREM AckInvariant == Spec => []AckInv
BY InitAckInv, NextAckInv, PTL DEF Spec

THEOREM OrderInvariant == Spec => []OrderInv
<1>1. TypeInv /\ OrderRest => OrderInv
    BY StreamFIFO DEF TypeInv, OrderRest, Streams, OrderInv
<1>2. QED
    BY <1>1, OrderInductive, PTL

=============================================================================
