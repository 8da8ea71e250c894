# elbus: a TLA+ verification project

This directory holds:
- TLA+ models of the elbus broker (`src/src/broker.rs`);
- TLC configurations that model-check them on small instances;
- TLAPS proofs of their main invariants and of a refinement.

`PROJECT.json` lists the components, the runs, the mutants, the code lines behind every definition, the findings, the hazards and the theorems.

## The system

elbus is a local message bus. Clients connect over a Unix or TCP socket, or live in the broker's own process as `broker::Client` values. Each client registers under a unique name. It can then:
- send a directed message to one name;
- broadcast to every name that a mask (`?`, `*`) matches;
- subscribe to topics (`+`, `#`);
- publish to a topic.

Under QoS `Processed` a wire client gets an ack for each operation.

The parts, and how they interact:

| Part | Code | Shared state and operations |
|---|---|---|
| ClientRegistry | `BrokerDb` (broker.rs 362-416) | Three separately locked indexes: `clients`, `broadcasts` and `subscriptions`. Handles are equal when their names are equal. `register_client` checks that the name is free under the `clients` write guard, then inserts the client into all three indexes. `unregister_client` removes the name from subscriptions, then broadcasts, then clients, each under its own guard. |
| PeerHandler | `handle_peer` (788-921), `handle_reader` (923-1027) | Greeting and name handshake. After registration and the RESPONSE_OK write, a writer task drains the client's bounded `async_channel` to the socket. Writes and flushes are timed out, and any failure ends the writer. The reader loop reads op frames and dispatches them. When the reader returns, `handle_peer` aborts the writer and unregisters the client. |
| DispatchPrimitives | `send!`, `send_broadcast!`, `publish!` (65-129) | A snapshot of the recipients under a read guard, then an awaited `tx.send` on each recipient's bounded queue. The send suspends while the queue is full and fails once the receiver is gone. |
| InProcessClient | `Client` (131-276), `Broker::register_client` (601-611) | The same macros, called from the caller's task. The receiver stays in the `Client` until `take_event_channel`. `Drop` unregisters. |
| FrameCodec | writer task (882-913), `send_ack!` (949-966) | How routed frames and acks are laid out on the socket. |
| Broadcast/Subscription matchers | the `submap` crate | Not in this repository. |
| Acceptors, FIFO, RPC, `server.rs` | 506-555, 613-786, server.rs | Setup and glue. |

What makes the code hard:
- Many connection tasks and in-process callers share three indexes that are locked separately.
- Each connection runs two tasks of its own, which talk only through a bounded queue.
- A fan-out send can suspend the sender on another client's full queue.
- Writers fail on timeouts, and `abort()` takes effect asynchronously.
- Unregistration takes three separate critical sections and removes by name.

## Modules

### `Broker.tla`

It models ClientRegistry, PeerHandler, DispatchPrimitives and InProcessClient in one module, because they share all of their state. The constant `Inner ⊆ Conn` names the handles that are in-process `Client`s. `Peer == Conn \ Inner` are the ones served by `handle_peer`.

| Variable | Models |
|---|---|
| `phase[c]` | how far handle_peer (or the Client's life) has got: `idle`, `naming`, `registered` (OK not yet written), `running`, the three unregister steps, `closed` |
| `clients`, `bcast`, `subReg`, `subs` | the three indexes, keyed by name |
| `queue[c]`, `rxOpen[c]` | the bounded channel, and whether its receiver is alive |
| `writer[c]` | the writer task. For an in-process client, who holds the receiver: `none` is the Client, `running` is the application, `done` means dropped |
| `wire[c]` | what was written to the socket, or what the application received |
| `rd[c]` | the op the reader or the Client call is dispatching: its seq, QoS, remaining recipients and outcome |
| `ops[c]` | the ops read so far |
| `delivered`, `acked` | history variables |

Wire actions:

| Action | Code |
|---|---|
| `Greet` | greeting |
| `ReadName` | name read and `register_client`, or the busy error |
| `WriteRegOk` | RESPONSE_OK write. On success it spawns the writer; on failure it returns early. |
| `WriterStep` | one frame written, or a write failure that drops the receiver |
| `WriterCancelled` | the abort taking effect |
| `ReadSubscribe`, `ReadUnsubscribe` | one op applied under the subscriptions guard |
| `ReadMessage`, `ReadBroadcast`, `ReadPublish` | one op read, with its recipients snapshotted by `SendOp`, `BroadcastOp` or `PublishOp` (the three macros) |
| `ReadEnd` | the peer's stream ends or fails, or a body read times out |
| `ReadMalformed` | an op with unknown bits, a bad target, or a bad topic after the topics it applied. `ReadError` is the disjunction of `ReadEnd` and `ReadMalformed`. |
| `Deliver` | one awaited `tx.send` to one recipient |
| `Finish` | the ack that `send_ack!` enqueues on the client's own queue, or the reader ending when that fails |
| `UnregSubs`, `UnregBcast`, `UnregClients` | the three steps of `unregister_client` |

In-process actions:

| Action | Code |
|---|---|
| `InRegister` | `Broker::register_client` |
| `CallSubscribe`, `CallUnsubscribe` | `subscribe`, `unsubscribe` and their bulk forms |
| `CallSend`, `CallBroadcast`, `CallPublish` | `send`/`zc_send`, `send_broadcast`, `publish`. They are QoS "No" ops for the broker, because `make_confirm_channel!` enqueues nothing. |
| `InTakeChannel` | `take_event_channel` |
| `AppRecv`, `AppDropChannel` | the application receiving from the EventChannel, or dropping it |
| `InDrop` | `Drop` |

Calls take `&mut self`, so a Client never has two calls, or a call and its Drop, in progress at once. After `UnregClients`, the Client's fields are dropped, including a receiver that was never taken.

Abstractions:
- Names, topics and connections are model values.
- A broadcast mask is represented by the set of names it matches.
- A topic matches only itself.
- Frames are records.

### `Registry.tla`

What the broker promises about names, stated without locks. A handle is new, then holds a name or is refused, later leaves, and is gone. Variables `owner` (name → holder) and `life`. Actions `Acquire`, `Refuse`, `Leave` and `Release`.

Broker instantiates it as `Reg` with this mapping:
- `owner` is the clients index;
- `life` is `RegLife`, read off each handle's phase.

A closed handle that still owns its entry (the leak below) maps to "holding". `RegistryRefined == Reg!Spec`.

### `FrameCodec.tla`

One socket's byte stream:
- `WriteFrame` is one turn of the writer loop. It appends the bytes `Encode(f)` of an ack, or of a routed frame from a wire or an in-process sender. The routed bytes are: kind, `LE(FrameLen(f) % LenRange)`, the reserved byte, the sender and `\0`, the topic and `\0` for Publish, the header, the payload.
- `ClientRead` decodes the next whole frame the way spec 4.3 describes the client side: `ItemLen`, `DecodeItem`, and splitting at the first `\0`. The client is not in this repository, so the decoder is the reference definition the encoding is checked against.

The width of the length field is the pair of constants `Radix` and `LenBytes`. The code has 256 and 4 (a u32). TLC uses radix 4 and 2 bytes, so that a frame too long for the field is a few bytes long. An op body read by `handle_reader` is bounded by the same width.

### MC modules

- **`MC_Broker.tla`**: 2 handles, 2 names and 2 topics (one of them `.broker/warn`). `Inner` is either empty or `{c2}`. The symmetry is over handles and names, or over names only when one handle is in-process.
- **`MC_FrameCodec.tla`**: kind bytes, one- and two-byte sender names, empty and one-byte targets, payloads with `\0`, one header byte.

## Runs

| Run | Cfg | Checks | Result |
|---|---|---|---|
| broker_safety | MC_Broker.cfg | TypeOK, RegistryConsistent, AckAfterDelivery, PerSenderFIFO, RegOkFirst, NoFrameLost | pass |
| inprocess_safety | MC_BrokerInProc.cfg | the same but TypeOK (checked on this instance by broker_registry_inductive), with c2 in-process | pass |
| broker_registry_inductive | MC_BrokerInd.cfg | RegistryInv, AckInv, OrderInv, LossInv (the proofs' inductive invariants), with c2 in-process | pass |
| registry_refinement | MC_BrokerRefine.cfg | RegistryRefined, with c2 in-process | pass |
| broker_liveness | MC_BrokerLive.cfg | ReaderProgress, with MaxOps = 2 and the view LiveView | pass |
| codec_roundtrip | MC_FrameCodec.cfg | DecodedAsSent | pass |
| leak_on_ok_write_failure | MC_BrokerLeak.cfg | NoLeakedRegistration | violation (code bug) |
| warn_unsubscribe | MC_BrokerWarn.cfg | WarnSubscribed | violation (spec divergence) |
| writer_failure_zombie | MC_BrokerZombie.cfg | WriterFailureUnregisters | violation (spec divergence) |
| malformed_op_closes | MC_BrokerMalformed.cfg | SubscribeKeepsConnection | violation (spec divergence) |
| codec_len_overflow | MC_FrameCodecOverflow.cfg | DecodedAsSent | violation (code bug) |
| codec_nul_sender | MC_FrameCodecNul.cfg | DecodedAsSent | violation (code bug) |

What the passing properties show:
- **RegistryConsistent.** Two handles race for the same name while the other unregisters it step by step. The in-process `Drop` is one of the unregistering parties. It holds because `register_client` holds the clients guard and unregistration clears the clients entry last.
- **AckAfterDelivery.** A Processed OK ack of a message is enqueued only after the message.
- **PerSenderFIFO.** Routed frames and acks reach each socket, or each application, once and in the sender's op order.
- **NoFrameLost.** While a client's receiver is alive, the routed frames on its socket and in its channel are exactly the ones the fan-out sends enqueued for it. The writer task loses none, duplicates none and invents none. Only dropping the receiver, which also closes it, empties a channel. Together with PerSenderFIFO, a live client gets each frame sent to it exactly once, in order.
- **RegOkFirst.** RESPONSE_OK is first on the wire, although frames can be queued for a client as soon as it is registered.
- **RegistryRefined.**
  - A name is taken only when it is free, and only by a handle that has not registered before.
  - Only the handle that holds a name gives it up, while it leaves.
  - This holds although `unregister_client` removes by name, and although wire and in-process handles interleave its three steps with registrations.
- **ReaderProgress.** A reader that has started an op finishes it or ends, even when it is blocked on a full or dead recipient. With two ops in all, one op can fill a recipient's queue of one (a routed frame, or the recipient's own ack) and the next fan-out send then suspends at line 125 until that writer drains it or dies.
- **DecodedAsSent.** The client decodes, in order, exactly the frames the writer encoded, acks included. This covers all three kinds, headers, topics and payloads with `\0`.

Findings, each shown by a violation run:
1. **Line 841.** A failed RESPONSE_OK write returns with `?` after registration, without `unregister_client`. The name stays taken forever by a dead client.
2. **Line 989.** A client may unsubscribe from `.broker/warn`. The spec says every registered client is subscribed to it.
3. **Line 855.** A writer failure only drops the receiver. The reader keeps waiting on an unbounded header read (936), so the client stays registered until the peer sends or closes. Spec §2 says either side erroring unregisters the client. TLC's counterexample is a lasso: the writer fails, the reader idles, and the client stutters forever while it is registered.
4. **Line 974.** A (un)subscribe body with a bad topic after good ones applies the good ones, then closes the connection without an ack. The same happens for a target that is not UTF-8 or has no `\0` (999-1001). Spec §7 says dispatch errors are acked or dropped, and the connection stays open.
5. **Line 899.** `frame_len as u32` wraps for a routed frame longer than u32::MAX. This is reachable with an in-process payload over 4 GiB, or with a wire payload near the body limit plus the sender name. The receiver then misparses the stream.
6. **Line 824.** A name containing `\0` passes the handshake. It is later written as a `\0`-terminated sender field, so receivers decode a cut sender and corrupted data.

Not stated as a property: an in-process Client that sends to its own name before taking its event channel blocks forever once its queue is full. TLC found this as a deadlock. It is why the runs with an in-process handle say `CHECK_DEADLOCK FALSE`. The API allows it; the hazard list records it.

**Bounds.**
- QueueSize = 1, so every send can find a full queue.
- MaxOps = 2 globally (1 for the zombie run). This is enough for:
  - a fan-out send to suspend on a recipient's full queue (the liveness run);
  - one client to route to the other while the other acks;
  - two ops of one sender to be ordered;
  - a name to be released and taken again.
- Two handles and two names cover:
  - a same-name race and a cross-client delivery;
  - with `Inner = {c2}`, every interleaving of an in-process Client's life with a wire client's.
- Three handles did not finish in reasonable time.
- FrameCodec writes two frames per behaviour. This covers every pair of frame kinds back to back, which is what a misparsed length or terminator corrupts.
- Every action and every branch is reached in the passing runs.

**Fairness.** Weak fairness is assumed only on the broker's own steps of wire clients:
- the name read and OK write;
- the writer;
- deliver and ack;
- unregistration.

Tokio keeps polling ready tasks, and every handshake read and every socket write is bounded by `timeout`. These get no fairness:
- accepting a connection and reading the next op, which wait on the peer;
- the in-process application's calls, channel reads and drops.

So the liveness run has no in-process handle. It checks under `VIEW LiveView`, which leaves out `wire`, `delivered` and `acked`. No guard reads them and ReaderProgress does not mention them, so states that differ only in them have the same futures. This cuts the run from 3.7 million distinct states to 159 thousand.

**Mutants.** Each property of a passing run has a mutant of the action it is about. The mutant sits in the module just before that action and is a plausible bug:
- the writer spawned before OK;
- an ack sent without waiting for delivery;
- a send that retries after success;
- a send that never sees a closed channel;
- unregistration in the wrong order;
- a missing not-registered check;
- an in-process registration without the vacancy check;
- a frame length without the sender's `\0`;
- a writer that skips a frame whose write failed and goes on (`WriterStepSkip`, for NoFrameLost and LossInv).

## Proofs (TLAPS)

`BrokerProofs.tla`:
- **TypeCorrect: `Spec => []TypeOK`.**
  - The inductive form is `TypeInv == TypeOK /\ PendingRouted`: only the three routing ops have pending recipients.
  - `NextTypeInv` has one step per action, wire and in-process, with one step per branch under each.
  - The lemmas `SendOpType`, `BroadcastOpType`, `PublishOpType`, `StartOp`, `DropRx` and `Subscribe` are shared by the reader and the Client calls.
- **RegistryCorrect: `Spec => []RegistryConsistent`.**
  - The inductive invariant is `RegInv == TypeInv /\ OwnsName /\ RegistryConsistent`.
  - OwnsName says that a handle owns the clients entry of its name from registration until `UnregClients`. No other handle can therefore register that name, or clear that name's entries through its own unregistration.
  - TLC checks RegInv itself in broker_registry_inductive.

`BrokerRefinement.tla`:
- **Refinement: `Spec => RegistryRefined`.**
  - The invariant is `RefInv == RegInv /\ NamedOwner`. NamedOwner says that the clients index holds only handles past registration, under their own names. It is needed because `Release` frees every name the leaving handle owns, while `UnregClients` clears only `cname[c]`.
  - Along the mapping:
    - a successful `ReadName` or `InRegister` is `Acquire`;
    - a failed handshake is `Refuse`, since a fresh handle owns nothing (`FreshOwnsNothing`);
    - the step into `unreg_subs` (`ReadError`, `InDrop`, or a failed ack in `Finish`) is `Leave`;
    - `UnregClients` is `Release`;
    - every other step is a stutter.
  - `LifeOf` and `OwnsEntry` make the mapping's value per handle explicit. The lemmas `LifeUnchanged`, `OthersUnchanged`, `LifeStep` and `LifeSame` show that a step changes the life of at most the handle it is about.

`BrokerDelivery.tla` (extends BrokerProofs):
- **AckCorrect: `Spec => []AckAfterDelivery`**, via `AckInvariant: Spec => []AckInv`.
  - `AckInv == TypeOK /\ PendingRouted /\ MsgDelivered /\ AckAfterDelivery`.
  - MsgDelivered says that a reader whose message op is `ok` with no recipient left has put the routed frame in some recipient's queue. `Finish` only acks such an op, which is why AckAfterDelivery alone is not inductive.
- **FifoCorrect: `Spec => []PerSenderFIFO`** and **RegOkCorrect: `Spec => []RegOkFirst`**, via `OrderInvariant: Spec => []OrderInv`.
  - PerSenderFIFO speaks of the wire only, but a frame reaches the wire from the queue. The invariant is therefore about each connection's stream `Stream(r) == wire[r] \o queue[r]`: `StreamOrdered` says it is ordered per sender.
  - `SeqBounded` says that every frame in a stream is numbered at most the sender's op counter, and below the sender's current op while that op is still to be delivered to this recipient (for acks, while any op is in progress). A new `Deliver` or ack therefore carries a higher number than anything already in the stream.
  - `ReaderSeq` ties the reader's op number to the counter. `HandshakeWire` says the wire is empty and no writer runs before RESPONSE_OK, so `WriteRegOk` can prepend it.
  - A step changes a stream in one of four ways. It leaves it unchanged (the writer, an application's receive), cuts it to the wire (a dropped receiver), appends one frame (`Deliver`, `Finish`), or prepends RESPONSE_OK. The lemmas `ConcatShift`, `OrderedPrefix`, `StreamsAppend` and `OrderedRegOk` cover the four. `NumberedKept`, with `KeptStartOp`, `KeptDeliver` and `KeptFinish`, shows that a reader's step keeps every existing frame numbered.

`BrokerLoss.tla` (extends BrokerDelivery):
- **LossCorrect: `Spec => []NoFrameLost`**, via `LossInvariant: Spec => []LossInv`.
  - `LossInv == TypeOK /\ FreshClean /\ NoFrameLost`. NoFrameLost alone is not inductive, because registration sets `rxOpen` to TRUE. FreshClean says that a handle still in `idle` or `naming` has a closed receiver, an empty channel and socket, and nothing sent to it. The stream a receiver opens on therefore matches the empty record of what was sent.
  - A step changes a client's stream and its record in one of six ways, each with a lemma:
    - nothing changes (`LossUnchanged`);
    - the receiver is dropped (`LossDrop`);
    - the channel's head moves to the socket (`LossShift`, via `ConcatShift`);
    - a routed frame is enqueued and recorded (`LossDeliver`);
    - an ack is enqueued (`LossAck`);
    - RESPONSE_OK is written (`LossRegOk`);
    - registration opens the receiver (`LossRegister`).
  - `Deliver` needs `HasRoom(r)`, so the recipient's receiver is alive and FreshClean says it has registered.
  - The operator lemmas `RangeConcat` and `RangeAppend` are about `Range` of the Functions module. `RoutedConcat`, `RoutedAppend` and `RoutedAppendOther` are about the routed frames of a sequence. `DeliveredAdd` is about the record of what was sent.
- `Broker.tla` extends `Functions` for `Range`.

`BrokerRefinement.tla` also proves **RegistryInvariant: `Spec => []RegistryInv`**, the invariant that broker_registry_inductive checks.

`FrameCodecProofs.tla`:
- **FrameLenCounts.** For every routed frame, `Len(Encode(f)) = HeadLen + FrameLen(f)`. The length the writer puts in the field is exactly the number of bytes that follow the head, for any width of the field and any names, topics, headers and payloads. What goes wrong is only the `% LenRange` of the field (finding 5), not the count.
- The bytes of `LE(n)` are typed over their own value set. Whether they are naturals rests on `Radix^(i-1) > 0`, which is an induction.

The assumptions are:
- `ConstAssumption`: WarnTopic ∈ Topics, QueueSize ≥ 1, MaxOps ∈ Nat, Inner ⊆ Conn, NoConn ∉ Conn, NoName ∉ Names;
- `CodecAssumption`, for FrameCodec: radix ≥ 2, the length field at least one byte, kind bytes distinct from OP_ACK, and names, targets, payloads and headers that are byte sequences.

The theorems hold for any number of wire and in-process clients, names and topics, and any queue size.

Only model-checked:
- ReaderProgress: liveness and ENABLED are out of TLAPS's reach;
- DecodedAsSent: what the fold in `FromLE` and the search in `NulAt` compute for every input would need induction over data, which the installed provers cannot instantiate.

## Not modelled

- The matcher algorithms: the `submap` crate is not in this repository.
- The byte layout of the greeting, the name handshake and the op header. They are modelled as control steps with their error exits.
- The FIFO and RPC front-ends, and `list_clients` (a read-only snapshot).
- `server.rs`: CLI, daemonizing and signals, with no shared broker state.
- Acceptor setup: bind, socket files and `set_nodelay`.

## Plan

1. `Matcher.tla`: the dotted-mask and slash-topic matching as operators over segment sequences, checked against a reference definition and used by Broker in place of the name-set and exact-topic abstraction. Spec-modelled, since submap is not here.
2. A three-handle instance with a bounded state constraint.
