----------------------------- MODULE MC_Broker -----------------------------
(* Small instance of Broker for TLC. *)
EXTENDS Broker, TLC

CONSTANTS c1, c2, a, b, warn, t

MCConn == {c1, c2}
MCNames == {a, b}
MCTopics == {warn, t}
\* Only wire clients, or one of the two handles an in-process Client.
MCNoInner == {}
MCInner == {c2}

MCSymmetry == Permutations({c1, c2}) \cup Permutations({a, b})
\* With one in-process handle only the names are interchangeable.
MCNameSymmetry == Permutations({a, b})
\* The state without the history variables wire, delivered and acked, which
\* no guard reads: two states that differ only in them have the same futures.
LiveView == <<phase, cname, clients, bcast, subReg, subs, queue, rxOpen,
             writer, rd, ops>>
=============================================================================
