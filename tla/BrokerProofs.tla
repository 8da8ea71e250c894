---------------------------- MODULE BrokerProofs ----------------------------
(***************************************************************************)
(* Proofs about the broker core, for every value of the constants.         *)
(***************************************************************************)
EXTENDS Broker, TLAPS

\* The type invariant with the one fact a step needs to stay typed: only a
\* routing operation has recipients, so RoutedKind is applied in its domain.
TypeInv == TypeOK /\ PendingRouted

LEMMA InitTypeInv == Init => TypeInv
BY ConstAssumption DEF Init, TypeInv, TypeOK, PendingRouted, Phases, Idle,
                       ReaderState, Ops, QoS, Codes

\* Dropping receivers keeps the channels typed.
LEMMA DropRxType ==
    ASSUME TypeOK, NEW S, DropRx(S)
    PROVE  /\ rxOpen' \in [Conn -> BOOLEAN]
           /\ queue' \in [Conn -> Seq(Frame)]
<1>1. rxOpen' \in [Conn -> BOOLEAN]
    BY DEF TypeOK, DropRx
<1>2. \A x \in Conn : (IF x \in S THEN <<>> ELSE queue[x]) \in Seq(Frame)
    BY DEF TypeOK
<1>3. QED
    BY <1>1, <1>2 DEF DropRx

\* Taking up an operation keeps the reader typed, provided only routing
\* operations get recipients.
LEMMA StartOpType ==
    ASSUME TypeOK, PendingRouted, NEW c \in Conn, NEW op \in Ops,
           NEW q \in QoS, NEW P \in SUBSET Conn, NEW code \in Codes,
           P # {} => op \in {"msg", "bcast", "pub"},
           StartOp(c, op, q, P, code)
    PROVE  /\ rd' \in [Conn -> ReaderState]
           /\ ops' \in [Conn -> Nat]
           /\ PendingRouted'
BY DEF TypeOK, PendingRouted, StartOp, ReaderState

\* Changing one client's topics keeps the subscription index typed.
LEMMA SubscribeType ==
    ASSUME TypeOK, NEW c \in Conn, NEW T \in SUBSET Topics,
           Subscribe(c, T) \/ Unsubscribe(c, T)
    PROVE  subs' \in [Names -> SUBSET Topics]
<1>1. CASE cname[c] \in Names /\ Subscribe(c, T)
    <2>1. (IF subReg[cname[c]] = c THEN subs[cname[c]] \cup T ELSE subs[cname[c]])
              \in SUBSET Topics
        BY <1>1 DEF TypeOK
    <2>2. QED
        BY <1>1, <2>1 DEF TypeOK, Subscribe
<1>2. CASE cname[c] \in Names /\ Unsubscribe(c, T)
    <2>1. (IF subReg[cname[c]] = c THEN subs[cname[c]] \ T ELSE subs[cname[c]])
              \in SUBSET Topics
        BY <1>2 DEF TypeOK
    <2>2. QED
        BY <1>2, <2>1 DEF TypeOK, Unsubscribe
<1>3. CASE cname[c] \notin Names
    BY <1>3 DEF TypeOK, Subscribe, Unsubscribe
<1>4. QED
    BY <1>1, <1>2, <1>3

\* The three dispatch macros keep the broker typed, under either QoS.
LEMMA SendOpType ==
    ASSUME TypeOK, PendingRouted, NEW c \in Conn, NEW q \in QoS, SendOp(c, q)
    PROVE  TypeInv'
<1>1. PICK n \in Names :
            IF clients[n] = NoConn
            THEN StartOp(c, "msg", q, {}, "not_registered")
            ELSE StartOp(c, "msg", q, {clients[n]}, "ok")
    BY DEF SendOp
<1>2. rd' \in [Conn -> ReaderState] /\ ops' \in [Conn -> Nat] /\ PendingRouted'
    <2>1. CASE clients[n] = NoConn
        BY <1>1, <2>1, StartOpType DEF Ops, Codes
    <2>2. CASE clients[n] # NoConn
        <3>1. {clients[n]} \in SUBSET Conn
            BY <2>2 DEF TypeOK
        <3>2. QED
            BY <1>1, <2>2, <3>1, StartOpType DEF Ops, Codes
    <2>3. QED
        BY <2>1, <2>2
<1>3. QED
    BY <1>2 DEF SendOp, TypeInv, TypeOK

LEMMA BroadcastOpType ==
    ASSUME TypeOK, PendingRouted, NEW c \in Conn, NEW q \in QoS,
           BroadcastOp(c, q)
    PROVE  TypeInv'
<1>1. PICK P \in SUBSET Names :
            StartOp(c, "bcast", q, {bcast[m] : m \in P} \ {NoConn}, "ok")
    BY DEF BroadcastOp
<1>2. {bcast[m] : m \in P} \ {NoConn} \in SUBSET Conn
    BY DEF TypeOK
<1>3. rd' \in [Conn -> ReaderState] /\ ops' \in [Conn -> Nat] /\ PendingRouted'
    BY <1>1, <1>2, StartOpType DEF Ops, Codes
<1>4. QED
    BY <1>3 DEF BroadcastOp, TypeInv, TypeOK

LEMMA PublishOpType ==
    ASSUME TypeOK, PendingRouted, NEW c \in Conn, NEW q \in QoS,
           PublishOp(c, q)
    PROVE  TypeInv'
<1>1. PICK t \in Topics : StartOp(c, "pub", q, Subscribers(t), "ok")
    BY DEF PublishOp
<1>2. Subscribers(t) \in SUBSET Conn
    BY DEF Subscribers, TypeOK
<1>3. rd' \in [Conn -> ReaderState] /\ ops' \in [Conn -> Nat] /\ PendingRouted'
    BY <1>1, <1>2, StartOpType DEF Ops, Codes
<1>4. QED
    BY <1>3 DEF PublishOp, TypeInv, TypeOK

LEMMA NextTypeInv == TypeInv /\ [Next]_vars => TypeInv'
<1> SUFFICES ASSUME TypeOK, PendingRouted, [Next]_vars PROVE TypeInv'
    BY DEF TypeInv
<1> USE ConstAssumption DEF TypeInv, TypeOK
<1>1. ASSUME NEW c \in Conn, Greet(c) PROVE TypeInv'
    BY <1>1 DEF Greet, Phases, PendingRouted
<1>2. ASSUME NEW c \in Conn, ReadName(c) PROVE TypeInv'
    <2> UNCHANGED <<queue, writer, wire, rd, ops, delivered, acked>>
        BY <1>2 DEF ReadName
    <2>1. CASE /\ phase' = [phase EXCEPT ![c] = "closed"]
               /\ UNCHANGED <<cname, clients, bcast, subReg, subs, rxOpen>>
        BY <2>1 DEF Phases, PendingRouted
    <2>2. CASE \E n \in Names :
                 /\ cname' = [cname EXCEPT ![c] = n]
                 /\ RegisterClient(c, n)
                 /\ phase' = [phase EXCEPT ![c] = "registered"]
                 /\ rxOpen' = [rxOpen EXCEPT ![c] = TRUE]
        <3>1. PICK n \in Names :
                 /\ cname' = [cname EXCEPT ![c] = n]
                 /\ RegisterClient(c, n)
                 /\ phase' = [phase EXCEPT ![c] = "registered"]
                 /\ rxOpen' = [rxOpen EXCEPT ![c] = TRUE]
            BY <2>2
        <3>2. /\ clients' \in [Names -> Conn \cup {NoConn}]
              /\ bcast' \in [Names -> Conn \cup {NoConn}]
              /\ subReg' \in [Names -> Conn \cup {NoConn}]
              /\ subs' \in [Names -> SUBSET Topics]
            BY <3>1 DEF RegisterClient
        <3>3. phase' \in [Conn -> Phases] /\ cname' \in [Conn -> Names \cup {NoName}]
              /\ rxOpen' \in [Conn -> BOOLEAN]
            BY <3>1 DEF Phases
        <3>4. QED
            BY <3>2, <3>3 DEF PendingRouted
    <2>3. CASE \E n \in Names :
                 /\ cname' = [cname EXCEPT ![c] = n]
                 /\ clients[n] # NoConn
                 /\ phase' = [phase EXCEPT ![c] = "closed"]
                 /\ UNCHANGED <<clients, bcast, subReg, subs, rxOpen>>
        BY <2>3 DEF Phases, PendingRouted
    <2>4. QED
        BY <1>2, <2>1, <2>2, <2>3 DEF ReadName
<1>3. ASSUME NEW c \in Conn, WriteRegOk(c) PROVE TypeInv'
    <2>1. phase' \in [Conn -> Phases]
        BY <1>3 DEF WriteRegOk, Phases
    <2>2. CASE wire' = [wire EXCEPT ![c] = Append(@, [kind |-> "reg_ok",
                          src |-> c, seq |-> 0, code |-> "ok"])]
                /\ writer' = [writer EXCEPT ![c] = "running"]
                /\ UNCHANGED <<queue, rxOpen>>
        <3>1. wire' \in [Conn -> Seq(Frame)]
            BY <2>2 DEF Frame, Codes
        <3>2. QED
            BY <1>3, <2>1, <2>2, <3>1 DEF WriteRegOk, PendingRouted
    <2>3. CASE DropRx({c}) /\ UNCHANGED <<wire, writer>>
        BY <1>3, <2>1, <2>3, DropRxType DEF WriteRegOk, PendingRouted
    <2>4. QED
        BY <1>3, <2>2, <2>3 DEF WriteRegOk
<1>4. ASSUME NEW c \in Conn, WriterStep(c) PROVE TypeInv'
    <2>1. CASE /\ wire' = [wire EXCEPT ![c] = Append(@, Head(queue[c]))]
               /\ queue' = [queue EXCEPT ![c] = Tail(@)]
               /\ UNCHANGED <<writer, rxOpen>>
        <3>1. wire' \in [Conn -> Seq(Frame)] /\ queue' \in [Conn -> Seq(Frame)]
            BY <1>4, <2>1 DEF WriterStep
        <3>2. QED
            BY <1>4, <2>1, <3>1 DEF WriterStep, PendingRouted
    <2>2. CASE writer' = [writer EXCEPT ![c] = "done"] /\ DropRx({c})
               /\ UNCHANGED wire
        BY <1>4, <2>2, DropRxType DEF WriterStep, PendingRouted
    <2>3. QED
        BY <1>4, <2>1, <2>2 DEF WriterStep
<1>5. ASSUME NEW c \in Conn, WriterCancelled(c) PROVE TypeInv'
    <2>1. writer' \in [Conn -> {"none", "running", "done"}]
        BY <1>5 DEF WriterCancelled
    <2>2. QED
        BY <1>5, <2>1, DropRxType DEF WriterCancelled, PendingRouted
<1>6. ASSUME NEW c \in Conn, ReadSubscribe(c) PROVE TypeInv'
    <2>1. PICK T \in SUBSET Topics \ {{}}, q \in QoS :
                Subscribe(c, T) /\ StartOp(c, "sub", q, {}, "ok")
        BY <1>6 DEF ReadSubscribe
    <2>2. QED
        BY <1>6, <2>1, SubscribeType, StartOpType DEF ReadSubscribe, Ops, Codes
<1>7. ASSUME NEW c \in Conn, ReadUnsubscribe(c) PROVE TypeInv'
    <2>1. PICK T \in SUBSET Topics \ {{}}, q \in QoS :
                Unsubscribe(c, T) /\ StartOp(c, "unsub", q, {}, "ok")
        BY <1>7 DEF ReadUnsubscribe
    <2>2. QED
        BY <1>7, <2>1, SubscribeType, StartOpType DEF ReadUnsubscribe, Ops,
           Codes
<1>8. ASSUME NEW c \in Conn, ReadMessage(c) PROVE TypeInv'
    BY <1>8, SendOpType DEF ReadMessage
<1>9. ASSUME NEW c \in Conn, ReadBroadcast(c) PROVE TypeInv'
    BY <1>9, BroadcastOpType DEF ReadBroadcast
<1>10. ASSUME NEW c \in Conn, ReadPublish(c) PROVE TypeInv'
    BY <1>10, PublishOpType DEF ReadPublish
<1>11. ASSUME NEW c \in Conn, ReadError(c) PROVE TypeInv'
    <2>1. subs' \in [Names -> SUBSET Topics]
        BY <1>11, SubscribeType DEF ReadError, ReadEnd, ReadMalformed
    <2>2. QED
        BY <1>11, <2>1 DEF ReadError, ReadEnd, ReadMalformed, Phases, PendingRouted
<1>12. ASSUME NEW c \in Conn, Deliver(c) PROVE TypeInv'
    <2>1. PICK r \in rd[c].pending :
            \/ /\ HasRoom(r)
               /\ queue' = [queue EXCEPT ![r] = Append(@, RoutedFrame(c))]
               /\ delivered' = delivered \cup {<<RoutedFrame(c), r>>}
               /\ rd' = [rd EXCEPT ![c].pending = @ \ {r}]
            \/ /\ ~rxOpen[r]
               /\ rd' = [rd EXCEPT ![c].pending = @ \ {r},
                                   ![c].code = IF rd[c].op = "msg" THEN "send_err"
                                                                   ELSE @]
               /\ UNCHANGED <<queue, delivered>>
        BY <1>12 DEF Deliver
    <2>2. r \in Conn /\ rd[c].op \in {"msg", "bcast", "pub"}
        BY <2>1 DEF PendingRouted, ReaderState
    <2>3. RoutedFrame(c) \in Frame
        <3>1. RoutedKind[rd[c].op] \in {"message", "broadcast", "publish"}
            BY <2>2 DEF RoutedKind
        <3>2. QED
            BY <3>1 DEF RoutedFrame, Frame, ReaderState, Codes
    <2>4. CASE /\ HasRoom(r)
               /\ queue' = [queue EXCEPT ![r] = Append(@, RoutedFrame(c))]
               /\ delivered' = delivered \cup {<<RoutedFrame(c), r>>}
               /\ rd' = [rd EXCEPT ![c].pending = @ \ {r}]
        <3>1. rd' \in [Conn -> ReaderState]
            <4>1. rd[c] \in ReaderState
                OBVIOUS
            <4>2. rd'[c] = [op |-> rd[c].op, qos |-> rd[c].qos, seq |-> rd[c].seq,
                            pending |-> rd[c].pending \ {r}, code |-> rd[c].code]
                BY <2>4, <4>1, Zenon DEF ReaderState
            <4>3. rd'[c] \in ReaderState
                BY <4>1, <4>2 DEF ReaderState
            <4>4. QED
                BY <2>4, <4>3
        <3>2. PendingRouted'
            BY <2>4 DEF PendingRouted
        <3>3. queue' \in [Conn -> Seq(Frame)] /\ delivered' \subseteq Frame \X Conn
            BY <2>2, <2>3, <2>4
        <3>4. QED
            BY <1>12, <3>1, <3>2, <3>3 DEF Deliver
    <2>5. CASE /\ ~rxOpen[r]
               /\ rd' = [rd EXCEPT ![c].pending = @ \ {r},
                                   ![c].code = IF rd[c].op = "msg" THEN "send_err"
                                                                   ELSE @]
               /\ UNCHANGED <<queue, delivered>>
        <3>0. rd'[c] = [op |-> rd[c].op, qos |-> rd[c].qos, seq |-> rd[c].seq,
                        pending |-> rd[c].pending \ {r},
                        code |-> IF rd[c].op = "msg" THEN "send_err"
                                                     ELSE rd[c].code]
            <4>1. rd[c] \in ReaderState
                OBVIOUS
            <4>2. QED
                BY <2>5, <4>1, Zenon DEF ReaderState
        <3>1. rd' \in [Conn -> ReaderState]
            BY <2>5, <3>0 DEF ReaderState, Codes
        <3>2. rd'[c].op = rd[c].op /\ rd'[c].pending = rd[c].pending \ {r}
            BY <3>0
        <3>3. PendingRouted'
            BY <2>5, <3>2 DEF PendingRouted
        <3>4. QED
            BY <1>12, <2>5, <3>1, <3>3 DEF Deliver
    <2>6. QED
        BY <2>1, <2>4, <2>5
<1>13. ASSUME NEW c \in Conn, Finish(c) PROVE TypeInv'
    <2>1. rd[c].op \in Ops /\ rd[c].seq \in Nat /\ rd[c].code \in Codes
        BY <1>13 DEF Finish, ReaderState
    <2>2. Idle \in ReaderState /\ AckFrame(c, rd[c].code) \in Frame
        BY <2>1 DEF Idle, ReaderState, AckFrame, Frame, QoS, Ops, Codes
    <2>3. CASE rd' = [rd EXCEPT ![c] = Idle] /\ UNCHANGED <<phase, queue, acked>>
        BY <1>13, <2>2, <2>3 DEF Finish, PendingRouted, Idle
    <2>4. CASE /\ queue' = [queue EXCEPT ![c] = Append(@, AckFrame(c, rd[c].code))]
               /\ acked' = acked \cup {<<c, rd[c].seq, rd[c].op, rd[c].code>>}
               /\ rd' = [rd EXCEPT ![c] = Idle]
               /\ UNCHANGED phase
        <3>1. queue' \in [Conn -> Seq(Frame)]
            BY <2>2, <2>4
        <3>2. acked' \subseteq Conn \X Nat \X Ops \X Codes
            BY <2>1, <2>4
        <3>3. rd' \in [Conn -> ReaderState] /\ PendingRouted'
            BY <2>2, <2>4 DEF PendingRouted, Idle
        <3>4. QED
            BY <1>13, <2>4, <3>1, <3>2, <3>3 DEF Finish
    <2>5. CASE phase' = [phase EXCEPT ![c] = "unreg_subs"]
               /\ UNCHANGED <<rd, queue, acked>>
        BY <1>13, <2>5 DEF Finish, Phases, PendingRouted
    <2>6. QED
        BY <1>13, <2>3, <2>4, <2>5 DEF Finish
<1>14. ASSUME NEW c \in Conn, UnregSubs(c) PROVE TypeInv'
    BY <1>14 DEF UnregSubs, Phases, PendingRouted
<1>15. ASSUME NEW c \in Conn, UnregBcast(c) PROVE TypeInv'
    BY <1>15 DEF UnregBcast, Phases, PendingRouted
<1>16. ASSUME NEW c \in Conn, UnregClients(c) PROVE TypeInv'
    <2>1. phase' \in [Conn -> Phases] /\ clients' \in [Names -> Conn \cup {NoConn}]
        BY <1>16 DEF UnregClients, Phases
    <2>2. CASE writer' = [writer EXCEPT ![c] = "done"] /\ DropRx({c})
        BY <1>16, <2>1, <2>2, DropRxType DEF UnregClients, PendingRouted
    <2>3. CASE UNCHANGED <<queue, rxOpen, writer>>
        BY <1>16, <2>1, <2>3 DEF UnregClients, PendingRouted
    <2>4. QED
        BY <1>16, <2>2, <2>3 DEF UnregClients
\* The in-process Client.
<1>20. ASSUME NEW c \in Conn, InRegister(c) PROVE TypeInv'
    <2> UNCHANGED <<queue, writer, wire, rd, ops, delivered, acked>>
        BY <1>20 DEF InRegister
    <2>1. PICK n \in Names :
            /\ cname' = [cname EXCEPT ![c] = n]
            /\ \/ /\ RegisterClient(c, n)
                  /\ phase' = [phase EXCEPT ![c] = "running"]
                  /\ rxOpen' = [rxOpen EXCEPT ![c] = TRUE]
               \/ /\ clients[n] # NoConn
                  /\ phase' = [phase EXCEPT ![c] = "closed"]
                  /\ UNCHANGED <<clients, bcast, subReg, subs, rxOpen>>
        BY <1>20 DEF InRegister
    <2>2. phase' \in [Conn -> Phases] /\ cname' \in [Conn -> Names \cup {NoName}]
          /\ rxOpen' \in [Conn -> BOOLEAN]
        BY <2>1 DEF Phases
    <2>3. /\ clients' \in [Names -> Conn \cup {NoConn}]
          /\ bcast' \in [Names -> Conn \cup {NoConn}]
          /\ subReg' \in [Names -> Conn \cup {NoConn}]
          /\ subs' \in [Names -> SUBSET Topics]
        <3>1. CASE RegisterClient(c, n)
            BY <3>1 DEF RegisterClient
        <3>2. CASE UNCHANGED <<clients, bcast, subReg, subs, rxOpen>>
            BY <3>2
        <3>3. QED
            BY <2>1, <3>1, <3>2
    <2>4. QED
        BY <2>2, <2>3 DEF PendingRouted
<1>21. ASSUME NEW c \in Conn, CallSubscribe(c) PROVE TypeInv'
    <2>1. PICK T \in SUBSET Topics \ {{}} :
                Subscribe(c, T) /\ StartOp(c, "sub", "No", {}, "ok")
        BY <1>21 DEF CallSubscribe
    <2>2. QED
        BY <1>21, <2>1, SubscribeType, StartOpType DEF CallSubscribe, Ops,
           Codes, QoS
<1>22. ASSUME NEW c \in Conn, CallUnsubscribe(c) PROVE TypeInv'
    <2>1. PICK T \in SUBSET Topics \ {{}} :
                Unsubscribe(c, T) /\ StartOp(c, "unsub", "No", {}, "ok")
        BY <1>22 DEF CallUnsubscribe
    <2>2. QED
        BY <1>22, <2>1, SubscribeType, StartOpType DEF CallUnsubscribe, Ops,
           Codes, QoS
<1>23. ASSUME NEW c \in Conn, CallSend(c) PROVE TypeInv'
    BY <1>23, SendOpType DEF CallSend, QoS
<1>24. ASSUME NEW c \in Conn, CallBroadcast(c) PROVE TypeInv'
    BY <1>24, BroadcastOpType DEF CallBroadcast, QoS
<1>25. ASSUME NEW c \in Conn, CallPublish(c) PROVE TypeInv'
    BY <1>25, PublishOpType DEF CallPublish, QoS
<1>26. ASSUME NEW c \in Conn, InTakeChannel(c) PROVE TypeInv'
    BY <1>26 DEF InTakeChannel, PendingRouted
<1>27. ASSUME NEW c \in Conn, AppRecv(c) PROVE TypeInv'
    <2>1. wire' \in [Conn -> Seq(Frame)] /\ queue' \in [Conn -> Seq(Frame)]
        BY <1>27 DEF AppRecv
    <2>2. QED
        BY <1>27, <2>1 DEF AppRecv, PendingRouted
<1>28. ASSUME NEW c \in Conn, AppDropChannel(c) PROVE TypeInv'
    <2>1. writer' \in [Conn -> {"none", "running", "done"}]
        BY <1>28 DEF AppDropChannel
    <2>2. QED
        BY <1>28, <2>1, DropRxType DEF AppDropChannel, PendingRouted
<1>29. ASSUME NEW c \in Conn, InDrop(c) PROVE TypeInv'
    BY <1>29 DEF InDrop, Phases, PendingRouted
<1>17. CASE Done \/ UNCHANGED vars
    BY <1>17 DEF Done, vars, PendingRouted
<1>18. QED
    <2>1. ASSUME NEW c \in Peer,
                 \/ Greet(c) \/ ReadName(c) \/ WriteRegOk(c)
                 \/ WriterStep(c) \/ WriterCancelled(c)
                 \/ ReadSubscribe(c) \/ ReadUnsubscribe(c) \/ ReadMessage(c)
                 \/ ReadBroadcast(c) \/ ReadPublish(c) \/ ReadError(c)
          PROVE  TypeInv'
        <3>1. c \in Conn
            BY DEF Peer
        <3>2. QED
            BY <2>1, <3>1, <1>1, <1>2, <1>3, <1>4, <1>5, <1>6, <1>7, <1>8,
               <1>9, <1>10, <1>11
    <2>2. ASSUME NEW c \in Inner,
                 \/ InRegister(c) \/ CallSubscribe(c) \/ CallUnsubscribe(c)
                 \/ CallSend(c) \/ CallBroadcast(c) \/ CallPublish(c)
                 \/ InTakeChannel(c) \/ AppRecv(c) \/ AppDropChannel(c)
                 \/ InDrop(c)
          PROVE  TypeInv'
        <3>1. c \in Conn
            OBVIOUS
        <3>2. QED
            BY <2>2, <3>1, <1>20, <1>21, <1>22, <1>23, <1>24, <1>25, <1>26,
               <1>27, <1>28, <1>29
    <2>3. ASSUME NEW c \in Conn,
                 \/ Deliver(c) \/ Finish(c)
                 \/ UnregSubs(c) \/ UnregBcast(c) \/ UnregClients(c)
          PROVE  TypeInv'
        BY <2>3, <1>12, <1>13, <1>14, <1>15, <1>16
    <2>4. QED
        BY <2>1, <2>2, <2>3, <1>17 DEF Next

(* The type invariant holds in every reachable state of the broker.       *)
THEOREM TypeCorrect == Spec => []TypeOK
<1>1. Init => TypeInv
    BY InitTypeInv
<1>2. TypeInv /\ [Next]_vars => TypeInv'
    BY NextTypeInv
<1>3. TypeInv => TypeOK
    BY DEF TypeInv
<1>4. QED
    BY <1>1, <1>2, <1>3, PTL DEF Spec

-----------------------------------------------------------------------------
(* Registry consistency. RegistryConsistent alone is not preserved by     *)
(* unregister_client's steps: while a connection unregisters, its entries *)
(* go one index at a time, and what keeps another connection from taking  *)
(* over the name in between is that the clients entry, removed last, is   *)
(* still its own. OwnsName says so.                                       *)
RegInv == TypeInv /\ OwnsName /\ RegistryConsistent

Held == Live \cup Unregistering

\* Two connections that hold names hold different ones.
LEMMA OwnerUnique ==
    ASSUME TypeOK, OwnsName, NEW c \in Conn, NEW d \in Conn, c # d,
           phase[c] \in Held, phase[d] \in Held
    PROVE  cname[c] # cname[d]
BY DEF OwnsName, Held

LEMMA InitRegInv == Init => RegInv
BY InitTypeInv DEF Init, RegInv, OwnsName, RegistryConsistent, Live,
                   Unregistering

\* The step proof for the name-holding part; the type part is NextTypeInv.
LEMMA NextRegInv == RegInv /\ [Next]_vars => RegInv'
<1> SUFFICES ASSUME TypeInv, OwnsName, RegistryConsistent, [Next]_vars
             PROVE  OwnsName' /\ RegistryConsistent'
    BY NextTypeInv DEF RegInv
<1> USE ConstAssumption DEF TypeInv, TypeOK
\* Steps that change none of phase, cname and the three indexes.
<1>1. ASSUME UNCHANGED <<phase, cname, clients, bcast, subReg>>
      PROVE  OwnsName' /\ RegistryConsistent'
    BY <1>1 DEF OwnsName, RegistryConsistent
\* Steps that only move a connection from running into unregister_client.
<1>2. ASSUME NEW c \in Conn, phase[c] = "running",
             phase' = [phase EXCEPT ![c] = "unreg_subs"],
             UNCHANGED <<cname, clients, bcast, subReg>>
      PROVE  OwnsName' /\ RegistryConsistent'
    BY <1>2 DEF OwnsName, RegistryConsistent, Held, Live, Unregistering
<1>3. ASSUME NEW c \in Conn, Greet(c) PROVE OwnsName' /\ RegistryConsistent'
    BY <1>3 DEF Greet, OwnsName, RegistryConsistent, Live, Unregistering
<1>4. ASSUME NEW c \in Conn, ReadName(c) PROVE OwnsName' /\ RegistryConsistent'
    <2>1. phase[c] = "naming"
        BY <1>4 DEF ReadName
    <2>2. CASE phase' = [phase EXCEPT ![c] = "closed"]
               /\ UNCHANGED <<cname, clients, bcast, subReg, subs, rxOpen>>
        BY <2>1, <2>2 DEF OwnsName, RegistryConsistent, Live, Unregistering
    <2>3. ASSUME NEW n \in Names, cname' = [cname EXCEPT ![c] = n],
                 RegisterClient(c, n),
                 phase' = [phase EXCEPT ![c] = "registered"]
          PROVE  OwnsName' /\ RegistryConsistent'
        <3>1. \A d \in Conn : phase[d] \in Held => cname[d] # n
            BY <2>3 DEF RegisterClient, OwnsName, Held
        <3>2. OwnsName'
            BY <2>1, <2>3, <3>1 DEF RegisterClient, OwnsName, Held, Live,
                                    Unregistering
        <3>3. RegistryConsistent'
            BY <2>1, <2>3, <3>1 DEF RegisterClient, RegistryConsistent, Held,
                                    Live, Unregistering
        <3>4. QED
            BY <3>2, <3>3
    <2>4. CASE \E n \in Names :
                 /\ cname' = [cname EXCEPT ![c] = n]
                 /\ clients[n] # NoConn
                 /\ phase' = [phase EXCEPT ![c] = "closed"]
                 /\ UNCHANGED <<clients, bcast, subReg, subs, rxOpen>>
        BY <2>1, <2>4 DEF OwnsName, RegistryConsistent, Live, Unregistering
    <2>5. QED
        BY <1>4, <2>2, <2>3, <2>4 DEF ReadName
<1>5. ASSUME NEW c \in Conn, WriteRegOk(c) PROVE OwnsName' /\ RegistryConsistent'
    BY <1>5 DEF WriteRegOk, OwnsName, RegistryConsistent, Live, Unregistering
<1>6. ASSUME NEW c \in Conn, ReadError(c) PROVE OwnsName' /\ RegistryConsistent'
    BY <1>6, <1>2 DEF ReadError, ReadEnd, ReadMalformed
<1>7. ASSUME NEW c \in Conn, Finish(c) PROVE OwnsName' /\ RegistryConsistent'
    BY <1>7, <1>1, <1>2 DEF Finish
<1>8. ASSUME NEW c \in Conn, UnregSubs(c) PROVE OwnsName' /\ RegistryConsistent'
    <2>1. \A d \in Conn : d # c /\ phase[d] \in Held => cname[d] # cname[c]
        BY <1>8, OwnerUnique DEF UnregSubs, Held, Unregistering
    <2>2. QED
        BY <1>8, <2>1 DEF UnregSubs, OwnsName, RegistryConsistent, Held, Live,
                          Unregistering
<1>9. ASSUME NEW c \in Conn, UnregBcast(c) PROVE OwnsName' /\ RegistryConsistent'
    <2>1. \A d \in Conn : d # c /\ phase[d] \in Held => cname[d] # cname[c]
        BY <1>9, OwnerUnique DEF UnregBcast, Held, Unregistering
    <2>2. QED
        BY <1>9, <2>1 DEF UnregBcast, OwnsName, RegistryConsistent, Held, Live,
                          Unregistering
<1>10. ASSUME NEW c \in Conn, UnregClients(c) PROVE OwnsName' /\ RegistryConsistent'
    <2>1. \A d \in Conn : d # c /\ phase[d] \in Held => cname[d] # cname[c]
        BY <1>10, OwnerUnique DEF UnregClients, Held, Unregistering
    <2>2. QED
        BY <1>10, <2>1 DEF UnregClients, OwnsName, RegistryConsistent, Held,
                           Live, Unregistering
<1>11. ASSUME NEW c \in Conn, InRegister(c)
       PROVE  OwnsName' /\ RegistryConsistent'
    <2>1. phase[c] = "idle"
        BY <1>11 DEF InRegister
    <2>2. ASSUME NEW n \in Names, cname' = [cname EXCEPT ![c] = n],
                 RegisterClient(c, n),
                 phase' = [phase EXCEPT ![c] = "running"]
          PROVE  OwnsName' /\ RegistryConsistent'
        <3>1. \A d \in Conn : phase[d] \in Held => cname[d] # n
            BY <2>2 DEF RegisterClient, OwnsName, Held
        <3>2. OwnsName'
            <4>1. SUFFICES ASSUME NEW d \in Conn, phase'[d] \in Live \cup Unregistering
                           PROVE  cname'[d] \in Names /\ clients'[cname'[d]] = d
                BY DEF OwnsName
            <4>2. CASE d = c
                BY <2>2, <4>2 DEF RegisterClient
            <4>3. CASE d # c
                <5>1. phase[d] \in Held /\ cname'[d] = cname[d]
                    BY <2>2, <4>1, <4>3 DEF Held
                <5>2. cname[d] \in Names /\ clients[cname[d]] = d /\ cname[d] # n
                    BY <3>1, <5>1 DEF OwnsName, Held
                <5>3. QED
                    BY <2>2, <5>1, <5>2 DEF RegisterClient
            <4>4. QED
                BY <4>2, <4>3
        <3>3. RegistryConsistent'
            <4>1. SUFFICES ASSUME NEW d \in Conn, phase'[d] \in Live
                           PROVE  /\ clients'[cname'[d]] = d
                                  /\ bcast'[cname'[d]] = d
                                  /\ subReg'[cname'[d]] = d
                BY DEF RegistryConsistent
            <4>2. CASE d = c
                BY <2>2, <4>2 DEF RegisterClient
            <4>3. CASE d # c
                <5>1. phase[d] \in Live /\ cname'[d] = cname[d]
                    BY <2>2, <4>1, <4>3
                <5>2. /\ clients[cname[d]] = d /\ bcast[cname[d]] = d
                      /\ subReg[cname[d]] = d /\ cname[d] # n
                    BY <3>1, <5>1 DEF RegistryConsistent, Held
                <5>3. QED
                    BY <2>2, <5>1, <5>2 DEF RegisterClient
            <4>4. QED
                BY <4>2, <4>3
        <3>4. QED
            BY <3>2, <3>3
    <2>3. CASE \E n \in Names :
                 /\ cname' = [cname EXCEPT ![c] = n]
                 /\ clients[n] # NoConn
                 /\ phase' = [phase EXCEPT ![c] = "closed"]
                 /\ UNCHANGED <<clients, bcast, subReg, subs, rxOpen>>
        BY <2>1, <2>3 DEF OwnsName, RegistryConsistent, Live, Unregistering
    <2>4. QED
        BY <1>11, <2>2, <2>3 DEF InRegister
<1>12. ASSUME NEW c \in Conn, InDrop(c) PROVE OwnsName' /\ RegistryConsistent'
    BY <1>12, <1>2 DEF InDrop
\* Steps that leave phases, names and the registry indexes alone.
<1>13. ASSUME NEW c \in Conn,
              \/ WriterStep(c) \/ WriterCancelled(c)
              \/ ReadSubscribe(c) \/ ReadUnsubscribe(c) \/ ReadMessage(c)
              \/ ReadBroadcast(c) \/ ReadPublish(c) \/ Deliver(c)
              \/ CallSubscribe(c) \/ CallUnsubscribe(c) \/ CallSend(c)
              \/ CallBroadcast(c) \/ CallPublish(c)
              \/ InTakeChannel(c) \/ AppRecv(c) \/ AppDropChannel(c)
       PROVE  OwnsName' /\ RegistryConsistent'
    <2>1. UNCHANGED <<phase, cname, clients, bcast, subReg>>
        BY <1>13 DEF WriterStep, WriterCancelled, ReadSubscribe, ReadUnsubscribe,
                     ReadMessage, ReadBroadcast, ReadPublish, Deliver,
                     CallSubscribe, CallUnsubscribe, CallSend, CallBroadcast,
                     CallPublish, SendOp, BroadcastOp, PublishOp,
                     InTakeChannel, AppRecv, AppDropChannel
    <2>2. QED
        BY <2>1, <1>1
<1>14. QED
    <2>1. ASSUME NEW c \in Peer,
                 \/ Greet(c) \/ ReadName(c) \/ WriteRegOk(c)
                 \/ WriterStep(c) \/ WriterCancelled(c)
                 \/ ReadSubscribe(c) \/ ReadUnsubscribe(c) \/ ReadMessage(c)
                 \/ ReadBroadcast(c) \/ ReadPublish(c) \/ ReadError(c)
          PROVE  OwnsName' /\ RegistryConsistent'
        <3>1. c \in Conn
            BY DEF Peer
        <3>2. QED
            BY <2>1, <3>1, <1>3, <1>4, <1>5, <1>6, <1>13
    <2>2. ASSUME NEW c \in Inner,
                 \/ InRegister(c) \/ CallSubscribe(c) \/ CallUnsubscribe(c)
                 \/ CallSend(c) \/ CallBroadcast(c) \/ CallPublish(c)
                 \/ InTakeChannel(c) \/ AppRecv(c) \/ AppDropChannel(c)
                 \/ InDrop(c)
          PROVE  OwnsName' /\ RegistryConsistent'
        <3>1. c \in Conn
            OBVIOUS
        <3>2. QED
            BY <2>2, <3>1, <1>11, <1>12, <1>13
    <2>3. ASSUME NEW c \in Conn,
                 \/ Deliver(c) \/ Finish(c)
                 \/ UnregSubs(c) \/ UnregBcast(c) \/ UnregClients(c)
          PROVE  OwnsName' /\ RegistryConsistent'
        BY <2>3, <1>7, <1>8, <1>9, <1>10, <1>13
    <2>4. CASE Done \/ UNCHANGED vars
        BY <2>4, <1>1 DEF Done, vars
    <2>5. QED
        BY <2>1, <2>2, <2>3, <2>4 DEF Next

(* Registry consistency holds in every reachable state: a connection that *)
(* registered and whose reader has not ended is the handle under its name *)
(* in the clients, broadcast and subscription indexes (RegistryConsistent *)
(* of run broker_safety), for any number of connections and names.        *)
THEOREM RegistryCorrect == Spec => []RegistryConsistent
<1>1. Init => RegInv
    BY InitRegInv
<1>2. RegInv /\ [Next]_vars => RegInv'
    BY NextRegInv
<1>3. RegInv => RegistryConsistent
    BY DEF RegInv
<1>4. QED
    BY <1>1, <1>2, <1>3, PTL DEF Spec

=============================================================================
