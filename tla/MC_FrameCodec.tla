---------------------------- MODULE MC_FrameCodec ----------------------------
(* FrameCodec on small inputs. The length field is two bytes of radix 4,  *)
(* so it holds lengths up to 15; bodies of ops read by handle_reader stay *)
(* below that, as they stay below 2^32 in the code. The kind and OP_ACK    *)
(* byte values belong to the elbus crate, outside this repository; only   *)
(* their being distinct matters to the decoder.                           *)
EXTENDS FrameCodec

MCKindByte == [k \in RoutedKinds |->
                 CASE k = "Message" -> 18 [] k = "Broadcast" -> 19 [] OTHER -> 20]

\* Client names: one and two bytes, valid UTF-8 without \0.
MCSenders == {<<97>>, <<98, 99>>}
\* A name handle_peer accepts although it holds a \0 (U+0000 is UTF-8).
MCSendersNul == {<<97, 0, 98>>}
MCTargets == {<<>>, <<116>>}
\* Payloads are opaque and may hold \0 bytes.
MCPayloads == {<<>>, <<1, 0>>}
\* A payload that, with the op target, still fits a body length field, but
\* whose routed frame with a two-byte sender does not fit it.
MCPayloadsLong == {<<1, 2, 3, 1, 2, 3, 1, 2, 3, 1, 2, 3, 1, 2>>}
MCHeaders == {<<>>, <<5>>}
MCOpIds == {<<1, 2, 3, 4>>}
=============================================================================
