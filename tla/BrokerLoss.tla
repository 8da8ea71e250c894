----------------------------- MODULE BrokerLoss -----------------------------
(***************************************************************************)
(* Proof that no frame is lost and none invented, for every value of the  *)
(* constants: while a client's receiver is alive, the routed frames on    *)
(* its socket and in its channel are exactly those the fan-out sends of   *)
(* send!, send_broadcast! and publish! have enqueued for it.              *)
(***************************************************************************)
EXTENDS BrokerDelivery

-----------------------------------------------------------------------------
(* Lemmas about the frames a sequence holds, and the routed ones of them. *)

Routed == {"message", "broadcast", "publish"}

\* The frames of two sequences put one after the other.
LEMMA RangeConcat ==
    ASSUME NEW a \in Seq(Frame), NEW b \in Seq(Frame)
    PROVE  Range(a \o b) = Range(a) \cup Range(b)
<1>1. ASSUME NEW i \in 1 .. Len(a) + Len(b)
      PROVE  (a \o b)[i] \in Range(a) \cup Range(b)
    <2>1. CASE i <= Len(a)
        BY <2>1 DEF Range
    <2>2. CASE i > Len(a)
        <3>1. i - Len(a) \in DOMAIN b /\ (a \o b)[i] = b[i - Len(a)]
            BY <2>2
        <3>2. QED
            BY <3>1 DEF Range
    <2>3. QED
        BY <2>1, <2>2
<1>2. ASSUME NEW j \in DOMAIN b
      PROVE  b[j] \in Range(a \o b)
    <2>1. Len(a) + j \in DOMAIN (a \o b) /\ (a \o b)[Len(a) + j] = b[j]
        OBVIOUS
    <2>2. QED
        BY <2>1 DEF Range
<1>3. ASSUME NEW j \in DOMAIN a
      PROVE  a[j] \in Range(a \o b)
    <2>1. j \in DOMAIN (a \o b) /\ (a \o b)[j] = a[j]
        OBVIOUS
    <2>2. QED
        BY <2>1 DEF Range
<1>4. DOMAIN (a \o b) = 1 .. Len(a) + Len(b)
    OBVIOUS
<1>5. QED
    BY <1>1, <1>2, <1>3, <1>4 DEF Range

\* The frames of a sequence and one frame appended to it.
LEMMA RangeAppend ==
    ASSUME NEW s \in Seq(Frame), NEW x \in Frame
    PROVE  Range(Append(s, x)) = Range(s) \cup {x}
<1>1. Append(s, x) = s \o <<x>>
    OBVIOUS
<1>2. Range(<<x>>) = {x}
    <2>1. DOMAIN <<x>> = {1} /\ <<x>>[1] = x
        OBVIOUS
    <2>2. QED
        BY <2>1, Zenon DEF Range
<1>3. Range(s \o <<x>>) = Range(s) \cup Range(<<x>>)
    <2>1. <<x>> \in Seq(Frame)
        OBVIOUS
    <2>2. QED
        BY <2>1, RangeConcat
<1>4. QED
    BY <1>1, <1>2, <1>3

\* The routed frames of two sequences put one after the other.
LEMMA RoutedConcat ==
    ASSUME NEW a \in Seq(Frame), NEW b \in Seq(Frame)
    PROVE  RoutedIn(a \o b) = RoutedIn(a) \cup RoutedIn(b)
BY RangeConcat DEF RoutedIn

\* A routed frame appended is one more routed frame.
LEMMA RoutedAppend ==
    ASSUME NEW s \in Seq(Frame), NEW x \in Frame, x.kind \in Routed
    PROVE  RoutedIn(Append(s, x)) = RoutedIn(s) \cup {x}
BY RangeAppend DEF RoutedIn, Routed

\* An ack or RESPONSE_OK appended adds no routed frame.
LEMMA RoutedAppendOther ==
    ASSUME NEW s \in Seq(Frame), NEW x \in Frame, x.kind \notin Routed
    PROVE  RoutedIn(Append(s, x)) = RoutedIn(s)
BY RangeAppend DEF RoutedIn, Routed

\* An empty stream holds no routed frame.
LEMMA RoutedEmpty == RoutedIn(<<>> \o <<>>) = {}
BY DEF RoutedIn, Range

\* One frame enqueued for r adds it to what was ever sent to r, and to no
\* other client.
LEMMA DeliveredAdd ==
    ASSUME NEW r, NEW x, delivered' = delivered \cup {<<x, r>>}
    PROVE  /\ DeliveredTo(r)' = DeliveredTo(r) \cup {x}
           /\ \A d : d # r => DeliveredTo(d)' = DeliveredTo(d)
<1>1. {q \in delivered' : q[2] = r} = {q \in delivered : q[2] = r} \cup {<<x, r>>}
    OBVIOUS
<1>2. ASSUME NEW d, d # r
      PROVE  {q \in delivered' : q[2] = d} = {q \in delivered : q[2] = d}
    BY <1>2
<1>3. DeliveredTo(r)' = {p[1] : p \in {q \in delivered : q[2] = r} \cup {<<x, r>>}}
    BY <1>1 DEF DeliveredTo
<1>4. {p[1] : p \in {q \in delivered : q[2] = r} \cup {<<x, r>>}}
        = DeliveredTo(r) \cup {x}
    <2>1. <<x, r>>[1] = x
        OBVIOUS
    <2>2. QED
        BY <2>1, Zenon DEF DeliveredTo
<1>5. ASSUME NEW d, d # r PROVE DeliveredTo(d)' = DeliveredTo(d)
    <2>1. {q \in delivered' : q[2] = d} = {q \in delivered : q[2] = d}
        BY <1>2, <1>5
    <2>2. QED
        BY <2>1, Zenon DEF DeliveredTo
<1>6. QED
    BY <1>3, <1>4, <1>5

-----------------------------------------------------------------------------
(* NoFrameLost. A step changes a client's stream and what was sent to it  *)
(* in one of six ways: not at all; the channel emptied as the receiver is *)
(* dropped; the channel's head moved to the socket; a frame enqueued,     *)
(* routed (and recorded as sent) or an ack; RESPONSE_OK written; or the   *)
(* receiver opened by registration, on a handle with nothing yet.         *)

\* The phases of a handle that has not registered.
Unnamed == {"idle", "naming"}

\* The part of LossInv a step preserves given the type invariant.
LossRest == FreshClean /\ NoFrameLost

\* No phase returns to before registration.
NoUnname == \A r \in Conn : phase'[r] \in Unnamed => phase[r] \in Unnamed

\* No channel, socket, receiver or record of what was sent changes.
LEMMA LossUnchanged ==
    ASSUME LossRest, NoUnname, UNCHANGED <<rxOpen, queue, wire, delivered>>
    PROVE  LossRest'
<1>1. \A r \in Conn : Stream(r)' = Stream(r) /\ DeliveredTo(r)' = DeliveredTo(r)
    BY DEF Stream, DeliveredTo
<1>2. NoFrameLost'
    BY <1>1 DEF LossRest, NoFrameLost
<1>3. FreshClean'
    BY <1>1 DEF LossRest, FreshClean, NoUnname, Unnamed
<1>4. QED
    BY <1>2, <1>3 DEF LossRest

\* The receiver of c dropped: its channel is emptied and it is closed.
LEMMA LossDrop ==
    ASSUME TypeOK, LossRest, NoUnname, NEW c \in Conn, DropRx({c}),
           UNCHANGED <<wire, delivered>>
    PROVE  LossRest'
<1>1. /\ \A r \in Conn \ {c} : rxOpen'[r] = rxOpen[r] /\ queue'[r] = queue[r]
      /\ rxOpen'[c] = FALSE /\ queue'[c] = <<>>
    BY DEF DropRx
<1>2. \A r \in Conn : DeliveredTo(r)' = DeliveredTo(r)
    BY DEF DeliveredTo
<1>3. NoFrameLost'
    BY <1>1, <1>2 DEF LossRest, NoFrameLost, Stream
<1>4. FreshClean'
    <2>1. SUFFICES ASSUME NEW r \in Conn, phase'[r] \in Unnamed
                   PROVE  ~rxOpen'[r] /\ queue'[r] = <<>> /\ wire'[r] = <<>>
                          /\ DeliveredTo(r)' = {}
        BY DEF FreshClean, Unnamed
    <2>2. ~rxOpen[r] /\ queue[r] = <<>> /\ wire[r] = <<>> /\ DeliveredTo(r) = {}
        BY <2>1 DEF NoUnname, LossRest, FreshClean, Unnamed
    <2>3. QED
        BY <1>1, <1>2, <2>2
<1>5. QED
    BY <1>3, <1>4 DEF LossRest

\* The head of c's channel written to its socket, or received by the
\* application: the stream stays as it was.
LEMMA LossShift ==
    ASSUME TypeOK, LossRest, NEW c \in Conn, queue[c] # <<>>,
           wire' = [wire EXCEPT ![c] = Append(@, Head(queue[c]))],
           queue' = [queue EXCEPT ![c] = Tail(@)],
           UNCHANGED <<rxOpen, delivered, phase>>
    PROVE  LossRest'
<1>1. Stream(c)' = Stream(c)
    <2>1. wire'[c] = Append(wire[c], Head(queue[c])) /\ queue'[c] = Tail(queue[c])
        BY DEF TypeOK
    <2>2. QED
        BY <2>1, ConcatShift DEF Stream, TypeOK
<1>2. \A r \in Conn : Stream(r)' = Stream(r) /\ DeliveredTo(r)' = DeliveredTo(r)
    BY <1>1 DEF Stream, DeliveredTo, TypeOK
<1>3. phase[c] \notin Unnamed
    BY DEF LossRest, FreshClean, Unnamed
<1>4. \A r \in Conn \ {c} : queue'[r] = queue[r] /\ wire'[r] = wire[r]
    BY DEF TypeOK
<1>5. QED
    BY <1>2, <1>3, <1>4 DEF LossRest, FreshClean, NoFrameLost, Unnamed

\* A routed frame x enqueued for a live recipient r and recorded as sent.
LEMMA LossDeliver ==
    ASSUME TypeOK, LossRest, NEW r \in Conn, NEW x \in Frame, x.kind \in Routed,
           rxOpen[r],
           queue' = [queue EXCEPT ![r] = Append(@, x)],
           delivered' = delivered \cup {<<x, r>>},
           UNCHANGED <<rxOpen, wire, phase>>
    PROVE  LossRest'
<1>1. PICK s \in Seq(Frame) : s = Stream(r)
    BY StreamType
<1>2. Stream(r)' = Append(s, x)
    BY <1>1, ConcatAppend DEF Stream, TypeOK
<1>3. RoutedIn(Stream(r)') = RoutedIn(Stream(r)) \cup {x}
    BY <1>1, <1>2, RoutedAppend
<1>4. DeliveredTo(r)' = DeliveredTo(r) \cup {x}
      /\ \A d : d # r => DeliveredTo(d)' = DeliveredTo(d)
    BY DeliveredAdd
<1>5. \A d \in Conn \ {r} : Stream(d)' = Stream(d) /\ queue'[d] = queue[d]
    BY DEF Stream, TypeOK
<1>6. NoFrameLost'
    BY <1>3, <1>4, <1>5 DEF LossRest, NoFrameLost
<1>7. phase[r] \notin Unnamed
    BY DEF LossRest, FreshClean, Unnamed
<1>8. FreshClean'
    BY <1>4, <1>5, <1>7 DEF LossRest, FreshClean, Unnamed
<1>9. QED
    BY <1>6, <1>8 DEF LossRest

\* A frame that is not routed (an ack) enqueued on a live channel.
LEMMA LossAck ==
    ASSUME TypeOK, LossRest, NEW c \in Conn, NEW x \in Frame,
           x.kind \notin Routed, rxOpen[c],
           queue' = [queue EXCEPT ![c] = Append(@, x)],
           UNCHANGED <<rxOpen, wire, phase, delivered>>
    PROVE  LossRest'
<1>1. PICK s \in Seq(Frame) : s = Stream(c)
    BY StreamType
<1>2. Stream(c)' = Append(s, x)
    BY <1>1, ConcatAppend DEF Stream, TypeOK
<1>3. RoutedIn(Stream(c)') = RoutedIn(Stream(c))
    BY <1>1, <1>2, RoutedAppendOther
<1>4. \A d \in Conn : DeliveredTo(d)' = DeliveredTo(d)
    BY DEF DeliveredTo
<1>5. \A d \in Conn \ {c} : Stream(d)' = Stream(d) /\ queue'[d] = queue[d]
    BY DEF Stream, TypeOK
<1>6. NoFrameLost'
    BY <1>3, <1>4, <1>5 DEF LossRest, NoFrameLost
<1>7. phase[c] \notin Unnamed
    BY DEF LossRest, FreshClean, Unnamed
<1>8. FreshClean'
    BY <1>4, <1>5, <1>7 DEF LossRest, FreshClean, Unnamed
<1>9. QED
    BY <1>6, <1>8 DEF LossRest

\* RESPONSE_OK, a frame that is not routed, written to the socket of a
\* registered client.
LEMMA LossRegOk ==
    ASSUME TypeOK, LossRest, NoUnname, NEW c \in Conn, NEW g \in Frame,
           g.kind \notin Routed, phase[c] \notin Unnamed,
           wire' = [wire EXCEPT ![c] = Append(@, g)],
           UNCHANGED <<rxOpen, queue, delivered>>
    PROVE  LossRest'
<1>1. PICK w \in Seq(Frame), q \in Seq(Frame) : w = wire[c] /\ q = queue[c]
    BY DEF TypeOK
<1>2. Stream(c)' = Append(w, g) \o q
    BY <1>1 DEF Stream, TypeOK
<1>3. RoutedIn(Stream(c)') = RoutedIn(Stream(c))
    <2>1. Append(w, g) \in Seq(Frame)
        OBVIOUS
    <2>2. RoutedIn(Append(w, g) \o q) = RoutedIn(Append(w, g)) \cup RoutedIn(q)
        BY <2>1, RoutedConcat
    <2>3. RoutedIn(Append(w, g)) = RoutedIn(w)
        BY RoutedAppendOther
    <2>4. RoutedIn(w \o q) = RoutedIn(w) \cup RoutedIn(q)
        BY RoutedConcat
    <2>5. QED
        BY <1>1, <1>2, <2>2, <2>3, <2>4 DEF Stream
<1>4. \A d \in Conn : DeliveredTo(d)' = DeliveredTo(d)
    BY DEF DeliveredTo
<1>5. \A d \in Conn \ {c} : Stream(d)' = Stream(d) /\ wire'[d] = wire[d]
    BY DEF Stream, TypeOK
<1>6. NoFrameLost'
    BY <1>3, <1>4, <1>5 DEF LossRest, NoFrameLost
<1>7. FreshClean'
    BY <1>4, <1>5 DEF LossRest, FreshClean, NoUnname, Unnamed
<1>8. QED
    BY <1>6, <1>7 DEF LossRest

\* Registration opens the receiver of a handle that had none: its stream
\* is empty and nothing was ever sent to it.
LEMMA LossRegister ==
    ASSUME TypeOK, LossRest, NEW c \in Conn, phase[c] \in Unnamed,
           phase'[c] \notin Unnamed,
           \A d \in Conn \ {c} : phase'[d] = phase[d],
           rxOpen' = [rxOpen EXCEPT ![c] = TRUE],
           UNCHANGED <<queue, wire, delivered>>
    PROVE  LossRest'
<1>1. queue[c] = <<>> /\ wire[c] = <<>> /\ DeliveredTo(c) = {}
    BY DEF LossRest, FreshClean, Unnamed
<1>2. RoutedIn(Stream(c)') = DeliveredTo(c)'
    BY <1>1, RoutedEmpty DEF Stream, DeliveredTo
<1>3. \A d \in Conn : Stream(d)' = Stream(d) /\ DeliveredTo(d)' = DeliveredTo(d)
    BY DEF Stream, DeliveredTo
<1>4. \A d \in Conn \ {c} : rxOpen'[d] = rxOpen[d]
    BY DEF TypeOK
<1>5. NoFrameLost'
    BY <1>2, <1>3, <1>4 DEF LossRest, NoFrameLost
<1>6. FreshClean'
    BY <1>3, <1>4 DEF LossRest, FreshClean, Unnamed
<1>7. QED
    BY <1>5, <1>6 DEF LossRest

LEMMA NextLossRest ==
    ASSUME TypeInv, LossRest, [Next]_vars PROVE LossRest'
<1> USE DEF TypeInv
\* The handshake's first step, the reader's ops and its ending, taking the
\* channel, Drop for Client, and the first two steps of unregister_client.
<1>1. ASSUME NEW c \in Conn,
             \/ Greet(c) \/ ReadError(c) \/ InTakeChannel(c) \/ InDrop(c)
             \/ UnregSubs(c) \/ UnregBcast(c)
             \/ ReadSubscribe(c) \/ ReadUnsubscribe(c) \/ ReadMessage(c)
             \/ ReadBroadcast(c) \/ ReadPublish(c)
             \/ CallSubscribe(c) \/ CallUnsubscribe(c) \/ CallSend(c)
             \/ CallBroadcast(c) \/ CallPublish(c)
      PROVE  LossRest'
    <2>1. UNCHANGED <<rxOpen, queue, wire, delivered>>
        BY <1>1 DEF Greet, ReadError, ReadEnd, ReadMalformed, InTakeChannel,
                    InDrop, UnregSubs, UnregBcast, ReadSubscribe,
                    ReadUnsubscribe, ReadMessage, ReadBroadcast, ReadPublish,
                    CallSubscribe, CallUnsubscribe, CallSend, CallBroadcast,
                    CallPublish, SendOp, BroadcastOp, PublishOp
    <2>2. NoUnname
        BY <1>1 DEF Greet, ReadError, ReadEnd, ReadMalformed, InTakeChannel,
                    InDrop, UnregSubs, UnregBcast, ReadSubscribe,
                    ReadUnsubscribe, ReadMessage, ReadBroadcast, ReadPublish,
                    CallSubscribe, CallUnsubscribe, CallSend, CallBroadcast,
                    CallPublish, SendOp, BroadcastOp, PublishOp, ReaderReady,
                    NoUnname, Unnamed, TypeOK
    <2>3. QED
        BY <2>1, <2>2, LossUnchanged
\* The name read: the connection closed, or the client registered.
<1>2. ASSUME NEW c \in Conn, ReadName(c) \/ InRegister(c) PROVE LossRest'
    <2>1. phase[c] \in Unnamed /\ UNCHANGED <<queue, wire, delivered>>
        BY <1>2 DEF ReadName, InRegister, Unnamed
    <2>2. phase'[c] \notin Unnamed /\ \A d \in Conn \ {c} : phase'[d] = phase[d]
        BY <1>2 DEF ReadName, InRegister, Unnamed, TypeOK
    <2>3. CASE UNCHANGED rxOpen
        <3>1. NoUnname
            BY <2>2 DEF NoUnname
        <3>2. QED
            BY <2>1, <2>3, <3>1, LossUnchanged
    <2>4. CASE rxOpen' = [rxOpen EXCEPT ![c] = TRUE]
        BY <2>1, <2>2, <2>4, LossRegister
    <2>5. QED
        BY <1>2, <2>3, <2>4 DEF ReadName, InRegister
\* RESPONSE_OK written, or its write failed.
<1>3. ASSUME NEW c \in Conn, WriteRegOk(c) PROVE LossRest'
    <2>1. phase[c] = "registered" /\ UNCHANGED delivered
        BY <1>3 DEF WriteRegOk
    <2>2. NoUnname
        BY <1>3 DEF WriteRegOk, NoUnname, Unnamed, TypeOK
    <2>3. CASE /\ wire' = [wire EXCEPT ![c] = Append(@, [kind |-> "reg_ok",
                             src |-> c, seq |-> 0, code |-> "ok"])]
               /\ UNCHANGED <<queue, rxOpen>>
        <3>1. PICK g \in Frame : g = [kind |-> "reg_ok", src |-> c, seq |-> 0,
                                      code |-> "ok"]
            BY DEF Frame, Codes
        <3>2. g.kind \notin Routed
            BY <3>1 DEF Routed
        <3>3. QED
            BY <2>1, <2>2, <2>3, <3>1, <3>2, LossRegOk DEF Unnamed
    <2>4. CASE DropRx({c}) /\ UNCHANGED wire
        BY <2>1, <2>2, <2>4, LossDrop
    <2>5. QED
        BY <1>3, <2>3, <2>4 DEF WriteRegOk
\* The writer task, or the application, takes the head of the channel, or
\* drops the receiver.
<1>4. ASSUME NEW c \in Conn,
             \/ WriterStep(c) \/ AppRecv(c) \/ WriterCancelled(c)
             \/ AppDropChannel(c)
      PROVE  LossRest'
    <2>1. UNCHANGED <<phase, delivered>>
        BY <1>4 DEF WriterStep, AppRecv, WriterCancelled, AppDropChannel
    <2>2. NoUnname
        BY <2>1 DEF NoUnname
    <2>3. CASE /\ queue[c] # <<>>
               /\ wire' = [wire EXCEPT ![c] = Append(@, Head(queue[c]))]
               /\ queue' = [queue EXCEPT ![c] = Tail(@)]
               /\ UNCHANGED rxOpen
        BY <2>1, <2>3, LossShift
    <2>4. CASE DropRx({c}) /\ UNCHANGED wire
        BY <2>1, <2>2, <2>4, LossDrop
    <2>5. QED
        BY <1>4, <2>3, <2>4 DEF WriterStep, AppRecv, WriterCancelled,
                                AppDropChannel
\* One send of a fan-out: enqueued, or failed on a dropped receiver.
<1>5. ASSUME NEW c \in Conn, Deliver(c) PROVE LossRest'
    <2>1. PICK r \in rd[c].pending :
             \/ /\ HasRoom(r)
                /\ queue' = [queue EXCEPT ![r] = Append(@, RoutedFrame(c))]
                /\ delivered' = delivered \cup {<<RoutedFrame(c), r>>}
             \/ UNCHANGED <<queue, delivered>>
        BY <1>5 DEF Deliver
    <2>2. UNCHANGED <<phase, rxOpen, wire>>
        BY <1>5 DEF Deliver
    <2>3. CASE UNCHANGED <<queue, delivered>>
        BY <2>2, <2>3, LossUnchanged DEF NoUnname
    <2>4. CASE /\ HasRoom(r)
               /\ queue' = [queue EXCEPT ![r] = Append(@, RoutedFrame(c))]
               /\ delivered' = delivered \cup {<<RoutedFrame(c), r>>}
        <3>1. r \in Conn /\ rd[c].op \in {"msg", "bcast", "pub"}
            BY DEF PendingRouted, TypeOK, ReaderState
        <3>2. PICK x \in Frame : x = RoutedFrame(c)
            <4>1. RoutedKind[rd[c].op] \in Routed
                BY <3>1 DEF RoutedKind, Routed
            <4>2. QED
                BY <4>1 DEF RoutedFrame, Frame, TypeOK, ReaderState, Codes, Routed
        <3>3. x.kind \in Routed
            BY <3>1, <3>2 DEF RoutedFrame, RoutedKind, Routed
        <3>4. QED
            BY <2>2, <2>4, <3>1, <3>2, <3>3, LossDeliver DEF HasRoom
    <2>5. QED
        BY <2>1, <2>3, <2>4
\* An op done: its ack enqueued under QoS Processed, or the reader ends on
\* a closed channel.
<1>6. ASSUME NEW c \in Conn, Finish(c) PROVE LossRest'
    <2>1. UNCHANGED <<rxOpen, wire, delivered>>
        BY <1>6 DEF Finish
    <2>2. NoUnname
        BY <1>6 DEF Finish, NoUnname, Unnamed, TypeOK
    <2>3. CASE UNCHANGED queue
        BY <2>1, <2>2, <2>3, LossUnchanged
    <2>4. CASE /\ HasRoom(c)
               /\ queue' = [queue EXCEPT ![c] = Append(@, AckFrame(c, rd[c].code))]
               /\ UNCHANGED phase
        <3>1. PICK x \in Frame : x = AckFrame(c, rd[c].code)
            BY DEF AckFrame, Frame, TypeOK, ReaderState
        <3>2. x.kind \notin Routed
            BY <3>1 DEF AckFrame, Routed
        <3>3. QED
            BY <2>1, <2>4, <3>1, <3>2, LossAck DEF HasRoom
    <2>5. QED
        BY <1>6, <2>3, <2>4 DEF Finish
\* The last step of unregister_client, with the receiver a Client still
\* holds dropped with it.
<1>7. ASSUME NEW c \in Conn, UnregClients(c) PROVE LossRest'
    <2>1. UNCHANGED <<wire, delivered>>
        BY <1>7 DEF UnregClients
    <2>2. NoUnname
        BY <1>7 DEF UnregClients, NoUnname, Unnamed, TypeOK
    <2>3. CASE DropRx({c})
        BY <2>1, <2>2, <2>3, LossDrop
    <2>4. CASE UNCHANGED <<queue, rxOpen>>
        BY <2>1, <2>2, <2>4, LossUnchanged
    <2>5. QED
        BY <1>7, <2>3, <2>4 DEF UnregClients
<1>8. CASE Done \/ UNCHANGED vars
    <2>1. UNCHANGED <<rxOpen, queue, wire, delivered, phase>>
        BY <1>8 DEF Done, vars
    <2>2. QED
        BY <2>1, LossUnchanged DEF NoUnname
<1>9. QED
    <2>1. \A c \in Inner : c \in Conn
        BY ConstAssumption
    <2>2. \A c \in Peer : c \in Conn
        BY DEF Peer
    <2>3. QED
        BY <1>1, <1>2, <1>3, <1>4, <1>5, <1>6, <1>7, <1>8, <2>1, <2>2 DEF Next

LEMMA InitLossRest == Init => LossRest
<1>1. SUFFICES ASSUME Init PROVE LossRest
    OBVIOUS
<1>2. \A r \in Conn : DeliveredTo(r) = {}
    BY <1>1 DEF Init, DeliveredTo
<1>3. QED
    BY <1>1, <1>2 DEF Init, LossRest, FreshClean, NoFrameLost

(* LossInv, checked as an invariant by run broker_registry_inductive,     *)
(* holds in every reachable state, for any number of wire and in-process  *)
(* clients, names, topics, queue sizes and operations: the writer task    *)
(* and EventChannel only move frames from channel to socket, a receiver's *)
(* drop is the only thing that empties a channel, and registration opens  *)
(* a receiver on a handle nothing was sent to.                            *)
THEOREM LossInvariant == Spec => []LossInv
<1>1. Init => TypeInv /\ LossRest
    BY InitTypeInv, InitLossRest
<1>2. TypeInv /\ LossRest /\ [Next]_vars => TypeInv' /\ LossRest'
    BY NextTypeInv, NextLossRest
<1>3. TypeInv /\ LossRest => LossInv
    BY DEF TypeInv, LossRest, LossInv
<1>4. QED
    BY <1>1, <1>2, <1>3, PTL DEF Spec

(* No frame lost, none invented (NoFrameLost of runs broker_safety and    *)
(* inprocess_safety): while a client's receiver is alive, the routed      *)
(* frames written to its socket or waiting in its channel are exactly     *)
(* the frames the fan-out sends of the other clients' readers enqueued    *)
(* for it.                                                                *)
THEOREM LossCorrect == Spec => []NoFrameLost
BY LossInvariant, PTL DEF LossInv

====
