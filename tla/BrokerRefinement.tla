-------------------------- MODULE BrokerRefinement --------------------------
(***************************************************************************)
(* Proof that the broker implements the abstract Registry under the       *)
(* mapping Reg of module Broker: owner is the clients index, and a        *)
(* handle's life is read off its phase. The argument needs, besides the   *)
(* invariants of BrokerProofs, NamedOwner: the clients index only holds   *)
(* registered handles under their own names, so that unregister_client's  *)
(* removal by name removes exactly the entry of the handle that leaves.   *)
(***************************************************************************)
EXTENDS BrokerProofs

\* The phases before a registration.
Fresh == {"idle", "naming"}

RefInv == RegInv /\ NamedOwner

\* A handle that has not registered has no entry in the clients index.
LEMMA FreshOwnsNothing ==
    ASSUME ConstAssumption, TypeOK, NamedOwner, NEW c \in Conn, phase[c] \in Fresh
    PROVE  \A n \in Names : clients[n] # c
BY DEF NamedOwner, Fresh

LEMMA InitRefInv == Init => RefInv
BY InitRegInv DEF Init, RefInv, NamedOwner

LEMMA NextNamedOwner == RefInv /\ [Next]_vars => NamedOwner'
<1> SUFFICES ASSUME TypeInv, OwnsName, RegistryConsistent, NamedOwner,
                    [Next]_vars
             PROVE  NamedOwner'
    BY DEF RefInv, RegInv
<1> USE ConstAssumption DEF TypeInv, TypeOK
\* No entry and no name changes, and no handle goes back to Fresh.
<1>1. ASSUME UNCHANGED <<clients, cname>>,
             \A d \in Conn : phase[d] \notin Fresh => phase'[d] \notin Fresh
      PROVE  NamedOwner'
    BY <1>1 DEF NamedOwner, Fresh
<1>2. ASSUME NEW c \in Conn, NEW p \in Phases, UNCHANGED <<clients, cname>>,
             phase' = [phase EXCEPT ![c] = p], phase[c] \in Fresh \/ p \notin Fresh
      PROVE  NamedOwner'
    BY <1>2, <1>1
\* A registration that succeeds.
<1>3. ASSUME NEW c \in Conn, phase[c] \in Fresh, NEW n \in Names,
             cname' = [cname EXCEPT ![c] = n], RegisterClient(c, n),
             NEW p \in Phases \ Fresh, phase' = [phase EXCEPT ![c] = p]
      PROVE  NamedOwner'
    <2>1. \A m \in Names : clients[m] # c
        BY <1>3, FreshOwnsNothing
    <2>2. QED
        BY <1>3, <2>1 DEF NamedOwner, RegisterClient, Fresh
\* A registration that fails once the name is known.
<1>4. ASSUME NEW c \in Conn, phase[c] \in Fresh, NEW n \in Names,
             cname' = [cname EXCEPT ![c] = n], UNCHANGED clients,
             phase' = [phase EXCEPT ![c] = "closed"]
      PROVE  NamedOwner'
    <2>1. \A m \in Names : clients[m] # c
        BY <1>4, FreshOwnsNothing
    <2>2. QED
        BY <1>4, <2>1 DEF NamedOwner, Fresh
<1>5. ASSUME NEW c \in Conn, ReadName(c) PROVE NamedOwner'
    <2>1. phase[c] \in Fresh
        BY <1>5 DEF ReadName, Fresh
    <2>2. QED
        BY <1>5, <2>1, <1>2, <1>3, <1>4 DEF ReadName, Phases, Fresh
<1>6. ASSUME NEW c \in Conn, InRegister(c) PROVE NamedOwner'
    <2>1. phase[c] \in Fresh
        BY <1>6 DEF InRegister, Fresh
    <2>2. QED
        BY <1>6, <2>1, <1>3, <1>4 DEF InRegister, Phases, Fresh
<1>7. ASSUME NEW c \in Conn, UnregClients(c) PROVE NamedOwner'
    BY <1>7 DEF UnregClients, NamedOwner, Fresh
<1>8. ASSUME NEW c \in Conn,
             \/ Greet(c) \/ WriteRegOk(c) \/ ReadError(c) \/ InDrop(c)
             \/ Finish(c) \/ UnregSubs(c) \/ UnregBcast(c)
      PROVE  NamedOwner'
    BY <1>8, <1>1, <1>2 DEF Greet, WriteRegOk, ReadError, ReadEnd, ReadMalformed, InDrop, Finish,
                            UnregSubs, UnregBcast, Phases, Fresh
<1>9. ASSUME NEW c \in Conn,
             \/ WriterStep(c) \/ WriterCancelled(c)
             \/ ReadSubscribe(c) \/ ReadUnsubscribe(c) \/ ReadMessage(c)
             \/ ReadBroadcast(c) \/ ReadPublish(c) \/ Deliver(c)
             \/ CallSubscribe(c) \/ CallUnsubscribe(c) \/ CallSend(c)
             \/ CallBroadcast(c) \/ CallPublish(c)
             \/ InTakeChannel(c) \/ AppRecv(c) \/ AppDropChannel(c)
      PROVE  NamedOwner'
    <2>1. UNCHANGED <<phase, cname, clients>>
        BY <1>9 DEF WriterStep, WriterCancelled, ReadSubscribe, ReadUnsubscribe,
                    ReadMessage, ReadBroadcast, ReadPublish, Deliver,
                    CallSubscribe, CallUnsubscribe, CallSend, CallBroadcast,
                    CallPublish, SendOp, BroadcastOp, PublishOp,
                    InTakeChannel, AppRecv, AppDropChannel
    <2>2. QED
        BY <2>1, <1>1
<1>10. CASE Done \/ UNCHANGED vars
    BY <1>10, <1>1 DEF Done, vars
<1>11. QED
    <2>1. \A c \in Peer : c \in Conn
        BY DEF Peer
    <2>2. QED
        BY <2>1, <1>5, <1>6, <1>7, <1>8, <1>9, <1>10 DEF Next
-----------------------------------------------------------------------------
(* The refinement mapping, one handle at a time.                          *)

\* The life a phase stands for.
LEMMA LifeOfPhase ==
    ASSUME NEW b \in BOOLEAN
    PROVE  /\ \A p \in Fresh : LifeOf(p, b) = "new"
           /\ \A p \in Live : LifeOf(p, b) = "holding"
           /\ \A p \in Unregistering : LifeOf(p, b) = "leaving"
           /\ LifeOf("closed", b) = IF b THEN "holding" ELSE "gone"
BY DEF LifeOf, Fresh, Live, Unregistering

\* A handle's life depends on its phase and on its entry only.
LEMMA LifeUnchanged ==
    ASSUME NEW d \in Conn, phase'[d] = phase[d], OwnsEntry(d)' <=> OwnsEntry(d)
    PROVE  RegLife'[d] = RegLife[d]
<1>1. RegLife'[d] = LifeOf(phase'[d], OwnsEntry(d)')
    BY DEF RegLife
<1>2. RegLife[d] = LifeOf(phase[d], OwnsEntry(d))
    BY DEF RegLife
<1>3. OwnsEntry(d)' = OwnsEntry(d)
    BY DEF OwnsEntry
<1>4. QED
    BY <1>1, <1>2, <1>3

\* When one handle's phase changes, the others keep their life as long as
\* they keep the entry of their name.
LEMMA OthersUnchanged ==
    ASSUME NEW c \in Conn, NEW p, phase \in [Conn -> Phases],
           phase' = [phase EXCEPT ![c] = p],
           \A d \in Conn \ {c} : OwnsEntry(d)' <=> OwnsEntry(d)
    PROVE  \A d \in Conn \ {c} : RegLife'[d] = RegLife[d]
<1> SUFFICES ASSUME NEW d \in Conn \ {c} PROVE RegLife'[d] = RegLife[d]
    OBVIOUS
<1>1. phase'[d] = phase[d]
    OBVIOUS
<1>2. QED
    BY <1>1, LifeUnchanged

\* A step that changes the life of one handle at most.
LEMMA LifeStep ==
    ASSUME NEW c \in Conn, NEW x, RegLife'[c] = x,
           \A d \in Conn \ {c} : RegLife'[d] = RegLife[d]
    PROVE  RegLife' = [RegLife EXCEPT ![c] = x]
<1>1. RegLife' \in [Conn -> {LifeOf(phase'[d], OwnsEntry(d)') : d \in Conn}]
      /\ RegLife \in [Conn -> {LifeOf(phase[d], OwnsEntry(d)) : d \in Conn}]
    BY DEF RegLife
<1>2. QED
    BY <1>1

\* A step that changes no handle's life.
LEMMA LifeSame ==
    ASSUME \A d \in Conn : RegLife'[d] = RegLife[d]
    PROVE  RegLife' = RegLife
<1>1. RegLife' \in [Conn -> {LifeOf(phase'[d], OwnsEntry(d)') : d \in Conn}]
      /\ RegLife \in [Conn -> {LifeOf(phase[d], OwnsEntry(d)) : d \in Conn}]
    BY DEF RegLife
<1>2. QED
    BY <1>1

LEMMA NextRefines == RefInv /\ [Next]_vars => [Reg!Next]_(Reg!vars)
<1> SUFFICES ASSUME TypeInv, OwnsName, RegistryConsistent, NamedOwner,
                    [Next]_vars
             PROVE  [Reg!Next]_(Reg!vars)
    BY DEF RefInv, RegInv
<1> USE ConstAssumption DEF TypeInv, TypeOK
\* Steps that leave phases, names and entries alone are stutters.
<1>1. ASSUME UNCHANGED <<phase, cname, clients>>
      PROVE  UNCHANGED Reg!vars
    <2>1. \A d \in Conn : RegLife'[d] = RegLife[d]
        BY <1>1, LifeUnchanged DEF OwnsEntry
    <2>2. QED
        BY <1>1, <2>1, LifeSame DEF Reg!vars
\* A phase change of one handle that keeps its life is a stutter.
<1>2. ASSUME NEW c \in Conn, NEW p, UNCHANGED <<cname, clients>>,
             phase' = [phase EXCEPT ![c] = p], RegLife'[c] = RegLife[c]
      PROVE  UNCHANGED Reg!vars
    <2>1. \A d \in Conn \ {c} : RegLife'[d] = RegLife[d]
        BY <1>2, OthersUnchanged DEF OwnsEntry
    <2>2. RegLife' = RegLife
        BY <1>2, <2>1, LifeSame
    <2>3. QED
        BY <1>2, <2>2 DEF Reg!vars
\* Leaving: a running handle starts unregister_client.
<1>3. ASSUME NEW c \in Conn, phase[c] = "running",
             phase' = [phase EXCEPT ![c] = "unreg_subs"],
             UNCHANGED <<cname, clients>>
      PROVE  Reg!Leave(c)
    <2>1. RegLife[c] = "holding" /\ RegLife'[c] = "leaving"
        <3>1. RegLife[c] = LifeOf("running", OwnsEntry(c))
              /\ RegLife'[c] = LifeOf("unreg_subs", OwnsEntry(c)')
            BY <1>3 DEF RegLife
        <3>2. QED
            BY <3>1, LifeOfPhase DEF Live, Unregistering, OwnsEntry
    <2>2. \A d \in Conn \ {c} : RegLife'[d] = RegLife[d]
        BY <1>3, OthersUnchanged DEF OwnsEntry
    <2>3. QED
        BY <1>3, <2>1, <2>2, LifeStep DEF Reg!Leave
\* Refusal: a handle that has not registered ends.
<1>4. ASSUME NEW c \in Conn, phase[c] \in Fresh,
             phase' = [phase EXCEPT ![c] = "closed"], UNCHANGED clients,
             cname' \in [Conn -> Names \cup {NoName}],
             \A d \in Conn \ {c} : cname'[d] = cname[d]
      PROVE  Reg!Refuse(c)
    <2>1. \A n \in Names : clients[n] # c
        BY <1>4, FreshOwnsNothing
    <2>2. ~OwnsEntry(c)'
        BY <1>4, <2>1 DEF OwnsEntry
    <2>3. RegLife[c] = LifeOf(phase[c], OwnsEntry(c))
          /\ RegLife'[c] = LifeOf("closed", OwnsEntry(c)')
        BY <1>4 DEF RegLife
    <2>4. RegLife[c] = "new" /\ RegLife'[c] = "gone"
        BY <1>4, <2>2, <2>3, LifeOfPhase DEF OwnsEntry
    <2>5. \A d \in Conn \ {c} : RegLife'[d] = RegLife[d]
        BY <1>4, OthersUnchanged DEF OwnsEntry
    <2>6. QED
        BY <1>4, <2>4, <2>5, LifeStep DEF Reg!Refuse
\* Acquiring: a registration that succeeds.
<1>5. ASSUME NEW c \in Conn, phase[c] \in Fresh, NEW n \in Names,
             cname' = [cname EXCEPT ![c] = n], RegisterClient(c, n),
             NEW p \in Live, phase' = [phase EXCEPT ![c] = p]
      PROVE  Reg!Acquire(c, n)
    <2>1. RegLife[c] = LifeOf(phase[c], OwnsEntry(c))
          /\ RegLife'[c] = LifeOf(p, OwnsEntry(c)')
        BY <1>5 DEF RegLife
    <2>2. RegLife[c] = "new" /\ RegLife'[c] = "holding"
        BY <1>5, <2>1, LifeOfPhase DEF OwnsEntry
    <2>3. \A d \in Conn \ {c} : OwnsEntry(d)' <=> OwnsEntry(d)
        BY <1>5 DEF OwnsEntry, RegisterClient
    <2>4. \A d \in Conn \ {c} : RegLife'[d] = RegLife[d]
        BY <1>5, <2>3, OthersUnchanged
    <2>5. QED
        BY <1>5, <2>2, <2>4, LifeStep DEF Reg!Acquire, RegisterClient
\* Releasing: the last step of unregister_client.
<1>6. ASSUME NEW c \in Conn, UnregClients(c) PROVE Reg!Release(c)
    <2>1. cname[c] \in Names /\ clients[cname[c]] = c
        BY <1>6 DEF UnregClients, OwnsName, Unregistering
    <2>2. \A m \in Names : clients[m] = c => m = cname[c]
        BY DEF NamedOwner
    <2>3. clients' = [m \in Names |-> IF clients[m] = c THEN NoConn
                                                       ELSE clients[m]]
        BY <1>6, <2>1, <2>2 DEF UnregClients
    <2>4. RegLife[c] = LifeOf("unreg_clients", OwnsEntry(c))
          /\ RegLife'[c] = LifeOf("closed", OwnsEntry(c)')
        BY <1>6 DEF UnregClients, RegLife
    <2>5. ~OwnsEntry(c)'
        BY <1>6, <2>1, <2>3 DEF UnregClients, OwnsEntry
    <2>6. RegLife[c] = "leaving" /\ RegLife'[c] = "gone"
        BY <2>4, <2>5, LifeOfPhase DEF Unregistering, OwnsEntry
    <2>7. \A d \in Conn \ {c} : OwnsEntry(d)' <=> OwnsEntry(d)
        BY <1>6, <2>3 DEF UnregClients, OwnsEntry
    <2>8. \A d \in Conn \ {c} : RegLife'[d] = RegLife[d]
        BY <1>6, <2>7, OthersUnchanged DEF UnregClients
    <2>9. QED
        BY <2>3, <2>6, <2>8, LifeStep DEF Reg!Release
<1>7. ASSUME NEW c \in Conn, ReadName(c) PROVE [Reg!Next]_(Reg!vars)
    <2>1. phase[c] = "naming"
        BY <1>7 DEF ReadName
    <2>2. CASE phase' = [phase EXCEPT ![c] = "closed"]
               /\ UNCHANGED <<cname, clients, bcast, subReg, subs, rxOpen>>
        BY <2>1, <2>2, <1>4 DEF Reg!Next, Fresh
    <2>3. ASSUME NEW n \in Names, cname' = [cname EXCEPT ![c] = n],
                 RegisterClient(c, n), phase' = [phase EXCEPT ![c] = "registered"]
          PROVE  [Reg!Next]_(Reg!vars)
        BY <2>1, <2>3, <1>5 DEF Reg!Next, Fresh, Live
    <2>4. ASSUME NEW n \in Names, cname' = [cname EXCEPT ![c] = n],
                 UNCHANGED clients, phase' = [phase EXCEPT ![c] = "closed"]
          PROVE  [Reg!Next]_(Reg!vars)
        BY <2>1, <2>4, <1>4 DEF Reg!Next, Fresh
    <2>5. QED
        BY <1>7, <2>2, <2>3, <2>4 DEF ReadName
<1>8. ASSUME NEW c \in Conn, InRegister(c) PROVE [Reg!Next]_(Reg!vars)
    <2>1. phase[c] = "idle"
        BY <1>8 DEF InRegister
    <2>2. ASSUME NEW n \in Names, cname' = [cname EXCEPT ![c] = n],
                 RegisterClient(c, n), phase' = [phase EXCEPT ![c] = "running"]
          PROVE  [Reg!Next]_(Reg!vars)
        BY <2>1, <2>2, <1>5 DEF Reg!Next, Fresh, Live
    <2>3. ASSUME NEW n \in Names, cname' = [cname EXCEPT ![c] = n],
                 UNCHANGED clients, phase' = [phase EXCEPT ![c] = "closed"]
          PROVE  [Reg!Next]_(Reg!vars)
        BY <2>1, <2>3, <1>4 DEF Reg!Next, Fresh
    <2>4. QED
        BY <1>8, <2>2, <2>3 DEF InRegister
<1>9. ASSUME NEW c \in Conn, Greet(c) PROVE [Reg!Next]_(Reg!vars)
    <2>1. CASE phase' = [phase EXCEPT ![c] = "naming"]
        <3>1. RegLife[c] = LifeOf("idle", OwnsEntry(c))
              /\ RegLife'[c] = LifeOf("naming", OwnsEntry(c)')
            BY <1>9, <2>1 DEF Greet, RegLife
        <3>2. RegLife'[c] = RegLife[c]
            BY <3>1, LifeOfPhase DEF Fresh, OwnsEntry
        <3>3. QED
            BY <1>9, <2>1, <3>2, <1>2 DEF Greet
    <2>2. CASE phase' = [phase EXCEPT ![c] = "closed"]
        BY <1>9, <2>2, <1>4 DEF Greet, Reg!Next, Fresh
    <2>3. QED
        BY <1>9, <2>1, <2>2 DEF Greet
<1>10. ASSUME NEW c \in Conn, WriteRegOk(c) PROVE [Reg!Next]_(Reg!vars)
    <2>1. OwnsEntry(c) /\ OwnsEntry(c)'
        BY <1>10 DEF WriteRegOk, OwnsName, Live, OwnsEntry
    <2>2. RegLife[c] = LifeOf("registered", OwnsEntry(c))
        BY <1>10 DEF WriteRegOk, RegLife
    <2>3. CASE phase' = [phase EXCEPT ![c] = "running"]
        <3>1. RegLife'[c] = LifeOf("running", OwnsEntry(c)')
            BY <2>3 DEF RegLife
        <3>2. RegLife'[c] = RegLife[c]
            BY <2>1, <2>2, <3>1, LifeOfPhase DEF Live
        <3>3. QED
            BY <1>10, <2>3, <3>2, <1>2 DEF WriteRegOk
    <2>4. CASE phase' = [phase EXCEPT ![c] = "closed"]
        <3>1. RegLife'[c] = LifeOf("closed", OwnsEntry(c)')
            BY <2>4 DEF RegLife
        <3>2. RegLife'[c] = RegLife[c]
            BY <2>1, <2>2, <3>1, LifeOfPhase DEF Live
        <3>3. QED
            BY <1>10, <2>4, <3>2, <1>2 DEF WriteRegOk
    <2>5. QED
        BY <1>10, <2>3, <2>4 DEF WriteRegOk
<1>11. ASSUME NEW c \in Conn, \/ ReadError(c) \/ InDrop(c) \/ Finish(c)
       PROVE  [Reg!Next]_(Reg!vars)
    <2>1. CASE UNCHANGED phase
        BY <1>11, <2>1, <1>1 DEF ReadError, ReadEnd, ReadMalformed, InDrop, Finish
    <2>2. CASE phase' = [phase EXCEPT ![c] = "unreg_subs"]
        BY <1>11, <2>2, <1>3 DEF ReadError, ReadEnd, ReadMalformed, InDrop, Finish, Reg!Next
    <2>3. QED
        BY <1>11, <2>1, <2>2 DEF ReadError, ReadEnd, ReadMalformed, InDrop, Finish
<1>12. ASSUME NEW c \in Conn, \/ UnregSubs(c) \/ UnregBcast(c)
       PROVE  [Reg!Next]_(Reg!vars)
    <2>1. /\ phase[c] \in Unregistering /\ phase'[c] \in Unregistering
          /\ UNCHANGED <<cname, clients>>
          /\ \E p \in Phases : phase' = [phase EXCEPT ![c] = p]
        BY <1>12 DEF UnregSubs, UnregBcast, Unregistering, Phases
    <2>2. RegLife'[c] = LifeOf(phase'[c], OwnsEntry(c)')
          /\ RegLife[c] = LifeOf(phase[c], OwnsEntry(c))
        BY DEF RegLife
    <2>3. RegLife'[c] = RegLife[c]
        BY <2>1, <2>2, LifeOfPhase DEF OwnsEntry
    <2>4. QED
        BY <2>1, <2>3, <1>2
<1>13. ASSUME NEW c \in Conn,
              \/ WriterStep(c) \/ WriterCancelled(c)
              \/ ReadSubscribe(c) \/ ReadUnsubscribe(c) \/ ReadMessage(c)
              \/ ReadBroadcast(c) \/ ReadPublish(c) \/ Deliver(c)
              \/ CallSubscribe(c) \/ CallUnsubscribe(c) \/ CallSend(c)
              \/ CallBroadcast(c) \/ CallPublish(c)
              \/ InTakeChannel(c) \/ AppRecv(c) \/ AppDropChannel(c)
       PROVE  [Reg!Next]_(Reg!vars)
    <2>1. UNCHANGED <<phase, cname, clients>>
        BY <1>13 DEF WriterStep, WriterCancelled, ReadSubscribe, ReadUnsubscribe,
                     ReadMessage, ReadBroadcast, ReadPublish, Deliver,
                     CallSubscribe, CallUnsubscribe, CallSend, CallBroadcast,
                     CallPublish, SendOp, BroadcastOp, PublishOp,
                     InTakeChannel, AppRecv, AppDropChannel
    <2>2. QED
        BY <2>1, <1>1
<1>14. CASE Done \/ UNCHANGED vars
    BY <1>14, <1>1 DEF Done, vars
<1>15. QED
    <2>1. \A c \in Peer : c \in Conn
        BY DEF Peer
    <2>2. ASSUME NEW c \in Conn, UnregClients(c) PROVE [Reg!Next]_(Reg!vars)
        BY <2>2, <1>6 DEF Reg!Next
    <2>3. QED
        BY <2>1, <2>2, <1>7, <1>8, <1>9, <1>10, <1>11, <1>12, <1>13, <1>14
           DEF Next

(* The broker implements the abstract Registry (RegistryRefined, checked  *)
(* on small instances by run broker_refinement) for every number of wire   *)
(* and in-process clients and of names: registration and unregistration,  *)
(* with their separate index guards and removal by name, only ever take a *)
(* free name for a new handle and give up a leaving handle's own name.    *)
THEOREM Refinement == Spec => RegistryRefined
<1>1. Init => RefInv
    BY InitRefInv
<1>2. RefInv /\ [Next]_vars => RefInv'
    BY NextRegInv, NextNamedOwner DEF RefInv
<1>3. Init => Reg!Init
    <2>1. SUFFICES ASSUME Init PROVE Reg!Init
        OBVIOUS
    <2>2. \A c \in Conn : phase[c] = "idle" /\ OwnsEntry(c) = FALSE
        BY <2>1, ConstAssumption DEF Init, OwnsEntry
    <2>3. \A c \in Conn : LifeOf(phase[c], OwnsEntry(c)) = "new"
        BY <2>2, LifeOfPhase DEF Fresh
    <2>4. QED
        BY <2>1, <2>3 DEF Init, Reg!Init, RegLife
<1>4. RefInv /\ [Next]_vars => [Reg!Next]_(Reg!vars)
    BY NextRefines
<1>5. QED
    BY <1>1, <1>2, <1>3, <1>4, PTL DEF Spec, RegistryRefined, Reg!Spec
(* The registry's inductive invariant (RegistryInv of run                 *)
(* broker_registry_inductive) holds in every reachable state: besides     *)
(* RegistryConsistent, a handle that registered owns its name in the      *)
(* clients index until unregister_client's last step, and the index holds *)
(* only handles that registered, under their own names.                   *)
THEOREM RegistryInvariant == Spec => []RegistryInv
<1>1. RefInv => RegistryInv
    BY DEF RefInv, RegInv, TypeInv, RegistryInv
<1>2. QED
    BY <1>1, InitRefInv, NextRegInv, NextNamedOwner, PTL DEF Spec, RefInv
=============================================================================
