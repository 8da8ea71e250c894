------------------------------- MODULE Broker -------------------------------
(***************************************************************************)
(* The elbus broker core (src/broker.rs): the registry `BrokerDb` with its *)
(* three independently locked indexes (clients, broadcasts, subscriptions),*)
(* the per-connection `handle_peer` handshake, the reader task             *)
(* `handle_reader` with the dispatch macros `send!`, `send_broadcast!` and *)
(* `publish!`, and the writer task that drains the bounded outbound queue. *)
(*                                                                         *)
(* Data is abstracted: a client name is a member of Names, a topic a      *)
(* member of Topics, a broadcast mask is represented by the set of names   *)
(* it matches, a payload is identified by the sender and the op's number.  *)
(***************************************************************************)
EXTENDS Naturals, Sequences, FiniteSets, Functions

CONSTANTS
    Conn,        \* client handles: accepted connections and in-process Clients
    Inner,       \* the handles that are in-process broker::Client values
    Names,       \* valid client names (non-empty, not starting with '.')
    Topics,      \* topics a client may (un)subscribe to or publish to
    WarnTopic,   \* BROKER_WARN_TOPIC, ".broker/warn"
    QueueSize,   \* capacity of every outbound async_channel (queue_size)
    MaxOps,      \* bound on the operations all readers together read
    NoConn,      \* "no handle" in a map slot
    NoName       \* the name of a connection that has not sent one

ASSUME ConstAssumption ==
    /\ WarnTopic \in Topics
    /\ QueueSize \in Nat \ {0}
    /\ MaxOps \in Nat
    /\ Inner \subseteq Conn
    /\ NoConn \notin Conn
    /\ NoName \notin Names

VARIABLES
    phase,      \* phase[c]: where handle_peer of connection c is
    cname,      \* cname[c]: the name connection c registered (or tried)
    clients,    \* BrokerDb.clients: name -> handle
    bcast,      \* BrokerDb.broadcasts: name -> handle
    subReg,     \* BrokerDb.subscriptions, client roots: name -> handle
    subs,       \* BrokerDb.subscriptions, topics of each client root
    queue,      \* queue[c]: frames in c's bounded outbound channel
    rxOpen,     \* rxOpen[c]: the receiving end of c's channel is alive
    writer,     \* writer[c]: state of c's writer task
    wire,       \* wire[c]: what has been written and flushed to c's socket
    rd,         \* rd[c]: the operation c's reader is dispatching
    ops,        \* ops[c]: operations read so far by c's reader
    delivered,  \* history: <<frame, recipient>> pairs ever enqueued
    acked       \* history: acks enqueued, as <<conn, seq, op, code>>

vars == <<phase, cname, clients, bcast, subReg, subs, queue, rxOpen,
          writer, wire, rd, ops, delivered, acked>>

Phases == {"idle", "naming", "registered", "running",
           "unreg_subs", "unreg_bcast", "unreg_clients", "closed"}
Live == {"registered", "running"}
\* The handles served by handle_peer.
Peer == Conn \ Inner
Unregistering == {"unreg_subs", "unreg_bcast", "unreg_clients"}

\* FrameKind of a routed frame, by the operation that produced it.
RoutedKind == [msg |-> "message", bcast |-> "broadcast", pub |-> "publish"]
Ops == {"sub", "unsub", "msg", "bcast", "pub"}
Codes == {"ok", "not_registered", "send_err"}
QoS == {"No", "Processed"}

Frame == [kind : {"message", "broadcast", "publish", "ack", "reg_ok"},
          src : Conn, seq : Nat, code : Codes]
Idle == [op |-> "none", qos |-> "No", seq |-> 0, pending |-> {}, code |-> "ok"]
ReaderState == [op : Ops \cup {"none"}, qos : QoS, seq : Nat,
                pending : SUBSET Conn, code : Codes]

\* The routed frame of the operation c's reader is dispatching.
RoutedFrame(c) == [kind |-> RoutedKind[rd[c].op], src |-> c,
                   seq |-> rd[c].seq, code |-> "ok"]
\* The Prepared ack frame built by send_ack!.
AckFrame(c, code) == [kind |-> "ack", src |-> c, seq |-> rd[c].seq, code |-> code]

HasRoom(r) == rxOpen[r] /\ Len(queue[r]) < QueueSize
\* Dropping the receiver closes the channel; its frames are never read.
DropRx(S) ==
    /\ rxOpen' = [c \in Conn |-> IF c \in S THEN FALSE ELSE rxOpen[c]]
    /\ queue' = [c \in Conn |-> IF c \in S THEN <<>> ELSE queue[c]]

-----------------------------------------------------------------------------
Init ==
    /\ phase = [c \in Conn |-> "idle"]
    /\ cname = [c \in Conn |-> NoName]
    /\ clients = [n \in Names |-> NoConn]
    /\ bcast = [n \in Names |-> NoConn]
    /\ subReg = [n \in Names |-> NoConn]
    /\ subs = [n \in Names |-> {}]
    /\ queue = [c \in Conn |-> <<>>]
    /\ rxOpen = [c \in Conn |-> FALSE]
    /\ writer = [c \in Conn |-> "none"]
    /\ wire = [c \in Conn |-> <<>>]
    /\ rd = [c \in Conn |-> Idle]
    /\ ops = [c \in Conn |-> 0]
    /\ delivered = {}
    /\ acked = {}

-----------------------------------------------------------------------------
(* Handshake: greeting written, greeting read and checked, RESPONSE_OK.    *)
(* A failed write, a timeout or a bad greeting or version closes the       *)
(* connection before any state is shared.                                 *)
Greet(c) ==
    /\ phase[c] = "idle"
    /\ \/ phase' = [phase EXCEPT ![c] = "naming"]
       \/ phase' = [phase EXCEPT ![c] = "closed"]
    /\ UNCHANGED <<cname, clients, bcast, subReg, subs, queue, rxOpen,
                   writer, wire, rd, ops, delivered, acked>>

\* BrokerDb::register_client: the clients write guard is held from the
\* vacancy check to the insert, the broadcast and subscription indexes are
\* filled under their own locks in between.
RegisterClient(c, n) ==
    /\ clients[n] = NoConn
    /\ clients' = [clients EXCEPT ![n] = c]
    /\ bcast' = [bcast EXCEPT ![n] = c]
    /\ subReg' = [subReg EXCEPT ![n] = c]
    /\ subs' = [subs EXCEPT ![n] = {WarnTopic}]

\* Name length and name read, name checked, client registered. An invalid
\* name (ERR_DATA), a read error or timeout, or a busy name (the error kind
\* byte) closes the connection; on success the channel exists, and other
\* clients may already enqueue to it, before RESPONSE_OK is written.
\* Mutant: the writer task spawned as soon as the client is registered.
ReadNameEarlyWriter(c) ==
    /\ phase[c] = "naming"
    /\ \E n \in Names :
         /\ cname' = [cname EXCEPT ![c] = n]
         /\ RegisterClient(c, n)
         /\ phase' = [phase EXCEPT ![c] = "registered"]
         /\ rxOpen' = [rxOpen EXCEPT ![c] = TRUE]
         /\ writer' = [writer EXCEPT ![c] = "running"]
    /\ UNCHANGED <<queue, wire, rd, ops, delivered, acked>>

ReadName(c) ==
    /\ phase[c] = "naming"
    /\ \/ /\ phase' = [phase EXCEPT ![c] = "closed"]
          /\ UNCHANGED <<cname, clients, bcast, subReg, subs, rxOpen>>
       \/ \E n \in Names :
            /\ cname' = [cname EXCEPT ![c] = n]
            /\ \/ /\ RegisterClient(c, n)
                  /\ phase' = [phase EXCEPT ![c] = "registered"]
                  /\ rxOpen' = [rxOpen EXCEPT ![c] = TRUE]
               \/ /\ clients[n] # NoConn
                  /\ phase' = [phase EXCEPT ![c] = "closed"]
                  /\ UNCHANGED <<clients, bcast, subReg, subs, rxOpen>>
    /\ UNCHANGED <<queue, writer, wire, rd, ops, delivered, acked>>

\* write_and_flush!(&[RESPONSE_OK]) after registration. On success the
\* writer task is spawned; on failure `?` returns from handle_peer: the
\* receiver is dropped, and the client is left registered.
WriteRegOk(c) ==
    /\ phase[c] = "registered"
    /\ \/ /\ phase' = [phase EXCEPT ![c] = "running"]
          /\ wire' = [wire EXCEPT ![c] = Append(@, [kind |-> "reg_ok",
                        src |-> c, seq |-> 0, code |-> "ok"])]
          /\ writer' = [writer EXCEPT ![c] = "running"]
          /\ UNCHANGED <<queue, rxOpen>>
       \/ /\ phase' = [phase EXCEPT ![c] = "closed"]
          /\ DropRx({c})
          /\ UNCHANGED <<wire, writer>>
    /\ UNCHANGED <<cname, clients, bcast, subReg, subs, rd, ops,
                   delivered, acked>>

-----------------------------------------------------------------------------
(* The writer task: recv a frame, write it, flush. A write error or a     *)
(* timeout breaks the loop; the task ends and drops the receiver.          *)
\* Mutant: a frame whose write fails is skipped and the loop goes on.
WriterStepSkip(c) ==
    /\ writer[c] = "running"
    /\ queue[c] # <<>>
    /\ \/ /\ wire' = [wire EXCEPT ![c] = Append(@, Head(queue[c]))]
          /\ queue' = [queue EXCEPT ![c] = Tail(@)]
       \/ /\ queue' = [queue EXCEPT ![c] = Tail(@)]
          /\ UNCHANGED wire
    /\ UNCHANGED <<writer, rxOpen, phase, cname, clients, bcast, subReg, subs,
                   rd, ops, delivered, acked>>
WriterStep(c) ==
    /\ writer[c] = "running"
    /\ queue[c] # <<>>
    /\ \/ /\ wire' = [wire EXCEPT ![c] = Append(@, Head(queue[c]))]
          /\ queue' = [queue EXCEPT ![c] = Tail(@)]
          /\ UNCHANGED <<writer, rxOpen>>
       \/ /\ writer' = [writer EXCEPT ![c] = "done"]
          /\ DropRx({c})
          /\ UNCHANGED wire
    /\ UNCHANGED <<phase, cname, clients, bcast, subReg, subs, rd, ops,
                   delivered, acked>>

\* writer_fut.abort() takes effect at the writer's next suspension point;
\* until then the writer may still write.
WriterCancelled(c) ==
    /\ writer[c] = "running"
    /\ phase[c] \in Unregistering \cup {"closed"}
    /\ writer' = [writer EXCEPT ![c] = "done"]
    /\ DropRx({c})
    /\ UNCHANGED <<phase, cname, clients, bcast, subReg, subs, wire, rd, ops,
                   delivered, acked>>

-----------------------------------------------------------------------------
(* The reader task, handle_reader. Reading an op header and body and      *)
(* taking the index's lock happen with no suspension point in between, so *)
(* a read and the index access it leads to are one step. A ping (flags 0) *)
(* changes nothing and is a stutter.                                       *)
\* Operations read so far by all readers, the quantity MaxOps bounds.
TotalOps == Cardinality(UNION {{x} \X (1..ops[x]) : x \in Conn})

ReaderReady(c) ==
    /\ phase[c] = "running"
    /\ rd[c].op = "none"
    /\ TotalOps < MaxOps

\* The reader takes up operation op; `pending` is the recipients' snapshot.
StartOp(c, op, q, pending, code) ==
    /\ rd' = [rd EXCEPT ![c] = [op |-> op, qos |-> q, seq |-> ops[c] + 1,
                                pending |-> pending, code |-> code]]
    /\ ops' = [ops EXCEPT ![c] = @ + 1]

\* SubMap::subscribe / unsubscribe of a client that is not a root is a no-op.
Subscribe(c, T) ==
    subs' = [subs EXCEPT ![cname[c]] = IF subReg[cname[c]] = c THEN @ \cup T
                                                                ELSE @]
Unsubscribe(c, T) ==
    subs' = [subs EXCEPT ![cname[c]] = IF subReg[cname[c]] = c THEN @ \ T
                                                                ELSE @]

\* FrameOp::SubscribeTopic: every \0-separated topic of the body, under one
\* write guard of the subscription index.
ReadSubscribe(c) ==
    /\ ReaderReady(c)
    /\ \E T \in SUBSET Topics \ {{}}, q \in QoS :
         /\ Subscribe(c, T)
         /\ StartOp(c, "sub", q, {}, "ok")
    /\ UNCHANGED <<phase, cname, clients, bcast, subReg, queue, rxOpen,
                   writer, wire, delivered, acked>>

\* FrameOp::UnsubscribeTopic.
ReadUnsubscribe(c) ==
    /\ ReaderReady(c)
    /\ \E T \in SUBSET Topics \ {{}}, q \in QoS :
         /\ Unsubscribe(c, T)
         /\ StartOp(c, "unsub", q, {}, "ok")
    /\ UNCHANGED <<phase, cname, clients, bcast, subReg, queue, rxOpen,
                   writer, wire, delivered, acked>>

\* send!: the target's sender is looked up under the clients read guard;
\* an absent target is Error::not_registered.
SendOp(c, q) ==
    /\ \E n \in Names :
         IF clients[n] = NoConn
         THEN StartOp(c, "msg", q, {}, "not_registered")
         ELSE StartOp(c, "msg", q, {clients[n]}, "ok")
    /\ UNCHANGED <<phase, cname, clients, bcast, subReg, subs, queue, rxOpen,
                   writer, wire, delivered, acked>>

\* send_broadcast!: get_clients_by_mask under the broadcasts read guard;
\* the mask is represented by the names it matches.
BroadcastOp(c, q) ==
    /\ \E P \in SUBSET Names :
         StartOp(c, "bcast", q, {bcast[m] : m \in P} \ {NoConn}, "ok")
    /\ UNCHANGED <<phase, cname, clients, bcast, subReg, subs, queue, rxOpen,
                   writer, wire, delivered, acked>>

\* publish!: get_subscribers under the subscriptions read guard.
Subscribers(t) == {subReg[m] : m \in {x \in Names : t \in subs[x]}} \ {NoConn}

PublishOp(c, q) ==
    /\ \E t \in Topics : StartOp(c, "pub", q, Subscribers(t), "ok")
    /\ UNCHANGED <<phase, cname, clients, bcast, subReg, subs, queue, rxOpen,
                   writer, wire, delivered, acked>>

\* Mutant: the looked-up sender is used without checking that it exists.
ReadMessageUnchecked(c) ==
    /\ ReaderReady(c)
    /\ \E n \in Names, q \in QoS : StartOp(c, "msg", q, {clients[n]}, "ok")
    /\ UNCHANGED <<phase, cname, clients, bcast, subReg, subs, queue, rxOpen,
                   writer, wire, delivered, acked>>

\* FrameOp::Message, FrameOp::Broadcast, FrameOp::PublishTopic: the target
\* parsed from the body, then the dispatch macro.
ReadMessage(c) == ReaderReady(c) /\ \E q \in QoS : SendOp(c, q)
ReadBroadcast(c) == ReaderReady(c) /\ \E q \in QoS : BroadcastOp(c, q)
ReadPublish(c) == ReaderReady(c) /\ \E q \in QoS : PublishOp(c, q)

\* The reader's header or body read fails: the peer closed the stream or
\* failed, or a body read timed out.
ReadEnd(c) ==
    /\ phase[c] = "running"
    /\ rd[c].op = "none"
    /\ phase' = [phase EXCEPT ![c] = "unreg_subs"]
    /\ UNCHANGED <<cname, clients, bcast, subReg, subs, queue, rxOpen, writer,
                   wire, rd, ops, delivered, acked>>

\* The op is malformed: its op or QoS bits are unknown, its target has no
\* \0 or is not UTF-8, or a topic of an (un)subscribe body is not UTF-8
\* after the topics T before it were applied under the write guard.
ReadMalformed(c) ==
    /\ phase[c] = "running"
    /\ rd[c].op = "none"
    /\ \E T \in SUBSET Topics : Subscribe(c, T) \/ Unsubscribe(c, T)
    /\ phase' = [phase EXCEPT ![c] = "unreg_subs"]
    /\ UNCHANGED <<cname, clients, bcast, subReg, queue, rxOpen, writer, wire,
                   rd, ops, delivered, acked>>

\* Either way handle_reader returns the error with `?`, and handle_peer
\* calls writer_fut.abort() and unregister_client.
ReadError(c) == ReadEnd(c) \/ ReadMalformed(c)

\* One `tx.send(frame).await` of the fan-out: it suspends while the
\* recipient's queue is full, and fails once its receiver is dropped; a
\* failure is the op's error for send!, and is ignored by the others.
\* Mutant: a send that succeeded is tried again (the recipient stays pending).
DeliverRetry(c) ==
    /\ phase[c] = "running"
    /\ \E r \in rd[c].pending :
         \/ /\ HasRoom(r)
            /\ queue' = [queue EXCEPT ![r] = Append(@, RoutedFrame(c))]
            /\ delivered' = delivered \cup {<<RoutedFrame(c), r>>}
            /\ UNCHANGED rd
         \/ /\ ~rxOpen[r]
            /\ rd' = [rd EXCEPT ![c].pending = @ \ {r},
                                ![c].code = IF rd[c].op = "msg" THEN "send_err"
                                                                ELSE @]
            /\ UNCHANGED <<queue, delivered>>
    /\ UNCHANGED <<phase, cname, clients, bcast, subReg, subs, rxOpen, writer,
                   wire, ops, acked>>

\* Mutant: a send to a closed channel waits like a send to a full one.
DeliverWaitClosed(c) ==
    /\ phase[c] = "running"
    /\ \E r \in rd[c].pending :
         /\ HasRoom(r)
         /\ queue' = [queue EXCEPT ![r] = Append(@, RoutedFrame(c))]
         /\ delivered' = delivered \cup {<<RoutedFrame(c), r>>}
         /\ rd' = [rd EXCEPT ![c].pending = @ \ {r}]
    /\ UNCHANGED <<phase, cname, clients, bcast, subReg, subs, rxOpen, writer,
                   wire, ops, acked>>

Deliver(c) ==
    /\ phase[c] = "running"
    /\ \E r \in rd[c].pending :
         \/ /\ HasRoom(r)
            /\ queue' = [queue EXCEPT ![r] = Append(@, RoutedFrame(c))]
            /\ delivered' = delivered \cup {<<RoutedFrame(c), r>>}
            /\ rd' = [rd EXCEPT ![c].pending = @ \ {r}]
         \/ /\ ~rxOpen[r]
            /\ rd' = [rd EXCEPT ![c].pending = @ \ {r},
                                ![c].code = IF rd[c].op = "msg" THEN "send_err"
                                                                ELSE @]
            /\ UNCHANGED <<queue, delivered>>
    /\ UNCHANGED <<phase, cname, clients, bcast, subReg, subs, rxOpen, writer,
                   wire, ops, acked>>

\* The op is done: with QoS::Processed, send_ack! enqueues the ack on the
\* client's own channel (`.await?`: a closed channel ends the reader).
\* Mutant: the ack is sent without waiting for the fan-out to complete.
FinishEarly(c) ==
    /\ phase[c] = "running"
    /\ rd[c].op # "none"
    /\ rd[c].qos = "Processed"
    /\ HasRoom(c)
    /\ queue' = [queue EXCEPT ![c] = Append(@, AckFrame(c, rd[c].code))]
    /\ acked' = acked \cup {<<c, rd[c].seq, rd[c].op, rd[c].code>>}
    /\ rd' = [rd EXCEPT ![c] = Idle]
    /\ UNCHANGED <<phase, cname, clients, bcast, subReg, subs, rxOpen, writer,
                   wire, ops, delivered>>

Finish(c) ==
    /\ phase[c] = "running"
    /\ rd[c].op # "none"
    /\ rd[c].pending = {}
    /\ \/ /\ rd[c].qos = "No"
          /\ rd' = [rd EXCEPT ![c] = Idle]
          /\ UNCHANGED <<phase, queue, acked>>
       \/ /\ rd[c].qos = "Processed"
          /\ HasRoom(c)
          /\ queue' = [queue EXCEPT ![c] = Append(@, AckFrame(c, rd[c].code))]
          /\ acked' = acked \cup {<<c, rd[c].seq, rd[c].op, rd[c].code>>}
          /\ rd' = [rd EXCEPT ![c] = Idle]
          /\ UNCHANGED phase
       \/ /\ rd[c].qos = "Processed"
          /\ ~rxOpen[c]
          /\ phase' = [phase EXCEPT ![c] = "unreg_subs"]
          /\ UNCHANGED <<rd, queue, acked>>
    /\ UNCHANGED <<cname, clients, bcast, subReg, subs, rxOpen, writer, wire,
                   ops, delivered>>

-----------------------------------------------------------------------------
(* The in-process client, broker::Client. Its calls run in the caller's   *)
(* task and take &mut self, so one Client never has two calls, or a call  *)
(* and its Drop, in progress at once; rd[c] is the call in progress. The  *)
(* receiver of its channel stays in the Client until take_event_channel   *)
(* hands it to the application: for c \in Inner, writer[c] says who holds *)
(* it ("none" the Client, "running" the application, "done" dropped) and  *)
(* wire[c] is what the application has received. The OpConfirm that      *)
(* make_confirm_channel! returns carries no frame: a call is a QoS::No op *)
(* for the broker.                                                        *)

\* Mutant: the in-process registration inserts without the vacancy check.
InRegisterNoVacancy(c) ==
    /\ phase[c] = "idle"
    /\ \E n \in Names :
         /\ cname' = [cname EXCEPT ![c] = n]
         /\ clients' = [clients EXCEPT ![n] = c]
         /\ bcast' = [bcast EXCEPT ![n] = c]
         /\ subReg' = [subReg EXCEPT ![n] = c]
         /\ subs' = [subs EXCEPT ![n] = {WarnTopic}]
         /\ phase' = [phase EXCEPT ![c] = "running"]
         /\ rxOpen' = [rxOpen EXCEPT ![c] = TRUE]
    /\ UNCHANGED <<queue, writer, wire, rd, ops, delivered, acked>>

\* Broker::register_client: the handle and its channel, then
\* BrokerDb::register_client; on Err no Client is ever built.
InRegister(c) ==
    /\ phase[c] = "idle"
    /\ \E n \in Names :
         /\ cname' = [cname EXCEPT ![c] = n]
         /\ \/ /\ RegisterClient(c, n)
               /\ phase' = [phase EXCEPT ![c] = "running"]
               /\ rxOpen' = [rxOpen EXCEPT ![c] = TRUE]
            \/ /\ clients[n] # NoConn
               /\ phase' = [phase EXCEPT ![c] = "closed"]
               /\ UNCHANGED <<clients, bcast, subReg, subs, rxOpen>>
    /\ UNCHANGED <<queue, writer, wire, rd, ops, delivered, acked>>

\* Client::subscribe and subscribe_bulk, unsubscribe and unsubscribe_bulk:
\* every topic under one write guard of the subscription index.
CallSubscribe(c) ==
    /\ ReaderReady(c)
    /\ \E T \in SUBSET Topics \ {{}} :
         /\ Subscribe(c, T)
         /\ StartOp(c, "sub", "No", {}, "ok")
    /\ UNCHANGED <<phase, cname, clients, bcast, subReg, queue, rxOpen,
                   writer, wire, delivered, acked>>

CallUnsubscribe(c) ==
    /\ ReaderReady(c)
    /\ \E T \in SUBSET Topics \ {{}} :
         /\ Unsubscribe(c, T)
         /\ StartOp(c, "unsub", "No", {}, "ok")
    /\ UNCHANGED <<phase, cname, clients, bcast, subReg, queue, rxOpen,
                   writer, wire, delivered, acked>>

\* Client::send and zc_send (send!, its error returned by `?`),
\* send_broadcast (send_broadcast!) and publish (publish!).
CallSend(c) == ReaderReady(c) /\ SendOp(c, "No")
CallBroadcast(c) == ReaderReady(c) /\ BroadcastOp(c, "No")
CallPublish(c) == ReaderReady(c) /\ PublishOp(c, "No")

\* Client::take_event_channel: the receiver leaves the Client.
InTakeChannel(c) ==
    /\ phase[c] = "running"
    /\ rd[c].op = "none"
    /\ writer[c] = "none"
    /\ writer' = [writer EXCEPT ![c] = "running"]
    /\ UNCHANGED <<phase, cname, clients, bcast, subReg, subs, queue, rxOpen,
                   wire, rd, ops, delivered, acked>>

\* The application receives from the EventChannel it took, or drops it;
\* it may keep it after the Client is gone.
AppRecv(c) ==
    /\ writer[c] = "running"
    /\ queue[c] # <<>>
    /\ wire' = [wire EXCEPT ![c] = Append(@, Head(queue[c]))]
    /\ queue' = [queue EXCEPT ![c] = Tail(@)]
    /\ UNCHANGED <<phase, cname, clients, bcast, subReg, subs, rxOpen, writer,
                   rd, ops, delivered, acked>>

AppDropChannel(c) ==
    /\ writer[c] = "running"
    /\ writer' = [writer EXCEPT ![c] = "done"]
    /\ DropRx({c})
    /\ UNCHANGED <<phase, cname, clients, bcast, subReg, subs, wire, rd, ops,
                   delivered, acked>>

\* Drop for Client: unregister(), that is unregister_client; the fields,
\* the receiver if it was never taken among them, are dropped after it.
InDrop(c) ==
    /\ phase[c] = "running"
    /\ rd[c].op = "none"
    /\ phase' = [phase EXCEPT ![c] = "unreg_subs"]
    /\ UNCHANGED <<cname, clients, bcast, subReg, subs, queue, rxOpen, writer,
                   wire, rd, ops, delivered, acked>>

-----------------------------------------------------------------------------
(* BrokerDb::unregister_client: three write guards taken one after the    *)
(* other. The indexes compare handles by name (ElbusClient's Eq and Hash), *)
(* so each removal removes whatever entry has the client's name.          *)
\* Mutant: the clients entry is removed first, with the subscriptions.
UnregSubsClientsFirst(c) ==
    /\ phase[c] = "unreg_subs"
    /\ clients' = [clients EXCEPT ![cname[c]] = NoConn]
    /\ subReg' = [subReg EXCEPT ![cname[c]] = NoConn]
    /\ subs' = [subs EXCEPT ![cname[c]] = {}]
    /\ phase' = [phase EXCEPT ![c] = "unreg_bcast"]
    /\ UNCHANGED <<cname, bcast, queue, rxOpen, writer, wire, rd, ops,
                   delivered, acked>>

UnregSubs(c) ==
    /\ phase[c] = "unreg_subs"
    /\ subReg' = [subReg EXCEPT ![cname[c]] = NoConn]
    /\ subs' = [subs EXCEPT ![cname[c]] = {}]
    /\ phase' = [phase EXCEPT ![c] = "unreg_bcast"]
    /\ UNCHANGED <<cname, clients, bcast, queue, rxOpen, writer, wire, rd, ops,
                   delivered, acked>>

UnregBcast(c) ==
    /\ phase[c] = "unreg_bcast"
    /\ bcast' = [bcast EXCEPT ![cname[c]] = NoConn]
    /\ phase' = [phase EXCEPT ![c] = "unreg_clients"]
    /\ UNCHANGED <<cname, clients, subReg, subs, queue, rxOpen, writer, wire,
                   rd, ops, delivered, acked>>

UnregClients(c) ==
    /\ phase[c] = "unreg_clients"
    /\ clients' = [clients EXCEPT ![cname[c]] = NoConn]
    /\ phase' = [phase EXCEPT ![c] = "closed"]
    /\ \/ /\ c \in Inner /\ writer[c] = "none"
          /\ writer' = [writer EXCEPT ![c] = "done"]
          /\ DropRx({c})
       \/ /\ ~(c \in Inner /\ writer[c] = "none")
          /\ UNCHANGED <<queue, rxOpen, writer>>
    /\ UNCHANGED <<cname, bcast, subReg, subs, wire, rd, ops, delivered, acked>>

-----------------------------------------------------------------------------
\* Every connection of the instance has been closed.
Done ==
    /\ \A c \in Conn : phase[c] = "closed"
    /\ UNCHANGED vars

Next ==
    \/ \E c \in Peer :
         \/ Greet(c) \/ ReadName(c) \/ WriteRegOk(c)
         \/ WriterStep(c) \/ WriterCancelled(c)
         \/ ReadSubscribe(c) \/ ReadUnsubscribe(c) \/ ReadMessage(c)
         \/ ReadBroadcast(c) \/ ReadPublish(c) \/ ReadError(c)
    \/ \E c \in Inner :
         \/ InRegister(c) \/ CallSubscribe(c) \/ CallUnsubscribe(c)
         \/ CallSend(c) \/ CallBroadcast(c) \/ CallPublish(c)
         \/ InTakeChannel(c) \/ AppRecv(c) \/ AppDropChannel(c) \/ InDrop(c)
    \/ \E c \in Conn :
         \/ Deliver(c) \/ Finish(c)
         \/ UnregSubs(c) \/ UnregBcast(c) \/ UnregClients(c)
    \/ Done

(* Tokio runs every ready task again, and every handshake read and every *)
(* socket write is bounded by `timeout`: the broker's own steps, and the  *)
(* rest of a call already made on a Client, are weakly fair. Accepting a  *)
(* connection, reading an op, and what an embedding application does      *)
(* with a Client and its channel wait on the outside and are not.         *)
Fairness ==
    /\ \A c \in Peer :
         /\ WF_vars(ReadName(c)) /\ WF_vars(WriteRegOk(c))
         /\ WF_vars(WriterStep(c)) /\ WF_vars(WriterCancelled(c))
    /\ \A c \in Conn :
         /\ WF_vars(Deliver(c)) /\ WF_vars(Finish(c))
         /\ WF_vars(UnregSubs(c)) /\ WF_vars(UnregBcast(c))
         /\ WF_vars(UnregClients(c))

Spec == Init /\ [][Next]_vars /\ Fairness

-----------------------------------------------------------------------------
(* Properties.                                                            *)

TypeOK ==
    /\ phase \in [Conn -> Phases]
    /\ cname \in [Conn -> Names \cup {NoName}]
    /\ clients \in [Names -> Conn \cup {NoConn}]
    /\ bcast \in [Names -> Conn \cup {NoConn}]
    /\ subReg \in [Names -> Conn \cup {NoConn}]
    /\ subs \in [Names -> SUBSET Topics]
    /\ queue \in [Conn -> Seq(Frame)]
    /\ rxOpen \in [Conn -> BOOLEAN]
    /\ writer \in [Conn -> {"none", "running", "done"}]
    /\ wire \in [Conn -> Seq(Frame)]
    /\ rd \in [Conn -> ReaderState]
    /\ ops \in [Conn -> Nat]
    /\ delivered \subseteq Frame \X Conn
    /\ acked \subseteq Conn \X Nat \X Ops \X Codes

(* Registry consistency: a client whose handshake registered it and whose *)
(* reader has not ended is the handle stored under its name in all three  *)
(* indexes, whatever other connections registering or unregistering the   *)
(* same name have done. It rests on unregister_client removing the        *)
(* clients entry last and register_client holding the clients guard.      *)
RegistryConsistent ==
    \A c \in Conn : phase[c] \in Live =>
        /\ clients[cname[c]] = c
        /\ bcast[cname[c]] = c
        /\ subReg[cname[c]] = c

(* The strengthening of RegistryConsistent that a step preserves: a client *)
(* from registration until its clients entry is removed owns its name in  *)
(* the clients index, so no other connection can register that name and  *)
(* no other connection's unregister_client can clear its entries; and    *)
(* only the three routing operations have recipients.                    *)
OwnsName ==
    \A c \in Conn : phase[c] \in Live \cup Unregistering =>
        /\ cname[c] \in Names
        /\ clients[cname[c]] = c
PendingRouted ==
    \A c \in Conn : rd[c].pending # {} => rd[c].op \in {"msg", "bcast", "pub"}
\* Only a handle that has been through registration is in the clients
\* index, and only under the name it registered.
NamedOwner ==
    \A n \in Names : clients[n] # NoConn =>
        /\ cname[clients[n]] = n
        /\ phase[clients[n]] \notin {"idle", "naming"}
RegistryInv ==
    TypeOK /\ PendingRouted /\ OwnsName /\ NamedOwner /\ RegistryConsistent

(* An OK ack of a directed message (send! under QoS::Processed) is only  *)
(* enqueued once the message frame itself is in the target's queue.       *)
AckAfterDelivery ==
    \A a \in acked : a[3] = "msg" /\ a[4] = "ok" =>
        \E r \in Conn :
            <<[kind |-> "message", src |-> a[1], seq |-> a[2], code |-> "ok"], r>>
                \in delivered

(* Per-sender FIFO and at-most-once on the wire: the routed frames one    *)
(* sender's reader produced reach a recipient's socket once each and in   *)
(* the order of its operations, and so do a client's own acks; this is   *)
(* the reader awaiting every fan-out send and the single writer task.     *)
SameStream(x, y) == x.src = y.src /\ (x.kind = "ack") = (y.kind = "ack")
\* A frame before another of the same stream has the lower number.
InOrder(x, y) == x.kind # "reg_ok" /\ SameStream(x, y) => x.seq < y.seq
Ordered(s) == \A i, j \in DOMAIN s : i < j => InOrder(s[i], s[j])
PerSenderFIFO == \A r \in Conn : Ordered(wire[r])

(* The handshake's RESPONSE_OK is the first thing written to a registered *)
(* client's socket, although frames may be queued for it as soon as       *)
(* register_client returns: the writer task is spawned only after it.     *)
RegOkFirst ==
    \A c \in Peer : wire[c] # <<>> => Head(wire[c]).kind = "reg_ok"

(* The strengthening of AckAfterDelivery that a step preserves: a directed *)
(* message whose send! has no recipient left and no error has been         *)
(* enqueued for its target, so the ack Finish sends next is not early.    *)
MsgDelivered ==
    \A c \in Conn : rd[c].op = "msg" /\ rd[c].code = "ok" /\ rd[c].pending = {}
        => \E r \in Conn : <<RoutedFrame(c), r>> \in delivered
AckInv == TypeOK /\ PendingRouted /\ MsgDelivered /\ AckAfterDelivery

(* The strengthening of PerSenderFIFO and RegOkFirst that a step          *)
(* preserves. A recipient's stream is what its socket has had written and *)
(* then what its channel holds; the writer only moves frames from the one *)
(* to the other, so the stream as a whole is ordered. A sender numbers    *)
(* its operations, the one in progress has the last number, and the       *)
(* recipients it has still to reach, and its own acks, hold only lower    *)
(* numbers from it, so whatever its reader enqueues next is in order.     *)
Stream(r) == wire[r] \o queue[r]
StreamOrdered == \A r \in Conn : Ordered(Stream(r))
ReaderSeq == \A c \in Conn : rd[c].op # "none" => rd[c].seq = ops[c]
\* Frame x in r's stream is numbered within what its sender's reader has
\* read, and below the op in progress if it is an ack of that sender or
\* if r is a recipient the op has still to reach.
Numbered(r, x) ==
    /\ x.kind # "reg_ok" => x.seq <= ops[x.src]
    /\ /\ rd[x.src].op # "none"
       /\ \/ x.kind = "ack"
          \/ x.kind # "reg_ok" /\ r \in rd[x.src].pending
       => x.seq < rd[x.src].seq
SeqBounded ==
    \A r \in Conn : \A i \in DOMAIN Stream(r) : Numbered(r, Stream(r)[i])
\* Before RESPONSE_OK nothing is written and no writer runs; a writer runs
\* only after something was written.
HandshakeWire ==
    \A c \in Peer :
        /\ phase[c] \in {"idle", "naming", "registered"} =>
               wire[c] = <<>> /\ writer[c] = "none"
        /\ writer[c] # "none" => wire[c] # <<>>
OrderInv ==
    /\ TypeOK /\ PendingRouted /\ ReaderSeq /\ HandshakeWire
    /\ StreamOrdered /\ SeqBounded
    /\ PerSenderFIFO /\ RegOkFirst

(* No frame lost, none invented: while a client's receiver is alive, the  *)
(* routed frames on its socket or in its channel are exactly those the    *)
(* fan-out sends have ever enqueued for it. The writer task only moves    *)
(* the channel's head to the socket, and only the receiver's drop empties *)
(* the channel; with PerSenderFIFO, a live client gets each frame once.   *)
RoutedIn(s) == {x \in Range(s) : x.kind \in {"message", "broadcast", "publish"}}
DeliveredTo(r) == {p[1] : p \in {q \in delivered : q[2] = r}}
NoFrameLost == \A r \in Conn : rxOpen[r] => RoutedIn(Stream(r)) = DeliveredTo(r)
(* The strengthening of NoFrameLost that a step preserves: a handle that  *)
(* has not registered has no channel yet and nothing was ever sent to it, *)
(* so registration opens its receiver on an empty, consistent stream.     *)
FreshClean ==
    \A r \in Conn : phase[r] \in {"idle", "naming"} =>
        ~rxOpen[r] /\ queue[r] = <<>> /\ wire[r] = <<>> /\ DeliveredTo(r) = {}
LossInv == TypeOK /\ FreshClean /\ NoFrameLost

(* A reader that has taken up an operation finishes it or ends: a fan-out *)
(* send to a full queue is unblocked by that client's writer draining it  *)
(* or by its receiver being dropped, never waits forever.                 *)
ReaderProgress ==
    \A c \in Conn : rd[c].op # "none" ~> (rd[c].op = "none" \/ phase[c] # "running")

(* Refinement: the clients index behaves as the abstract Registry. A     *)
(* registration takes a free name for a new handle, and an               *)
(* unregistration removes only the entry of the handle that unregisters,  *)
(* although unregister_client removes by name and the three indexes are   *)
(* released under separate guards while other handles register.          *)
\* Whether a handle is the entry of the clients index under its name.
OwnsEntry(c) == cname[c] \in Names /\ clients[cname[c]] = c
\* Where a handle is in the registry's life cycle, by its phase; a handle
\* whose handle_peer returned with its registration in place still holds it.
LifeOf(p, owns) ==
    CASE p \in {"idle", "naming"} -> "new"
      [] p \in Live -> "holding"
      [] p \in Unregistering -> "leaving"
      [] OTHER -> IF owns THEN "holding" ELSE "gone"
RegLife == [c \in Conn |-> LifeOf(phase[c], OwnsEntry(c))]
Reg == INSTANCE Registry
         WITH Holders <- Conn, None <- NoConn, owner <- clients, life <- RegLife
RegistryRefined == Reg!Spec

(* Spec, control flow: on either side of a connection erroring, the      *)
(* client is unregistered from all three indexes. Once the writer task    *)
(* has stopped on a write error or timeout, the registered client is      *)
(* eventually unregistered and its connection closed.                     *)
WriterFailureUnregisters ==
    \A c \in Peer :
        (phase[c] = "running" /\ writer[c] = "done") ~> phase[c] = "closed"

(* Spec 7: a failed registration leaves nothing behind; scenario 6: a     *)
(* name is free again once its connection has gone. No index entry        *)
(* belongs to a connection whose handle_peer has returned.                *)
NoLeakedRegistration ==
    \A n \in Names : clients[n] # NoConn => phase[clients[n]] # "closed"

(* Spec 3 and 8: every registered client is a subscriber of .broker/warn. *)
WarnSubscribed ==
    \A c \in Conn : phase[c] \in Live => WarnTopic \in subs[cname[c]]

(* Spec 7, propagation: an error in dispatching an op is answered on its  *)
(* ack (or dropped under QoS No) and the connection stays open; spec 4.4: *)
(* a bad topic in a subscribe list does not undo the topics before it.   *)
(* So a step that applies a running client's (un)subscriptions leaves it  *)
(* running, whatever the rest of the op body holds.                       *)
SubscribeKeepsConnection ==
    [][\A c \in Peer :
         (phase[c] = "running" /\ subs' # subs) => phase'[c] = "running"]_vars

=============================================================================
