------------------------------ MODULE Registry ------------------------------
(***************************************************************************)
(* What the broker promises about client names, whatever the locking. A   *)
(* handle is new, then holds a name or is refused, later leaves and is    *)
(* gone. A name has at most one holder; a new handle takes a free name;  *)
(* only a leaving handle gives up a name, and only its own. Broker        *)
(* implements it, `owner` being the clients index of BrokerDb.            *)
(***************************************************************************)
CONSTANTS Holders, Names, None

VARIABLES owner, life

vars == <<owner, life>>

Lives == {"new", "holding", "leaving", "gone"}

TypeOK ==
    /\ owner \in [Names -> Holders \cup {None}]
    /\ life \in [Holders -> Lives]

Init ==
    /\ owner = [n \in Names |-> None]
    /\ life = [h \in Holders |-> "new"]

\* Registration succeeds: a new handle takes a free name.
Acquire(h, n) ==
    /\ life[h] = "new"
    /\ owner[n] = None
    /\ owner' = [owner EXCEPT ![n] = h]
    /\ life' = [life EXCEPT ![h] = "holding"]

\* Registration fails; nothing is taken.
Refuse(h) ==
    /\ life[h] = "new"
    /\ life' = [life EXCEPT ![h] = "gone"]
    /\ UNCHANGED owner

\* The holder starts to leave.
Leave(h) ==
    /\ life[h] = "holding"
    /\ life' = [life EXCEPT ![h] = "leaving"]
    /\ UNCHANGED owner

\* The leaving handle is gone, and the names it held are free.
Release(h) ==
    /\ life[h] = "leaving"
    /\ owner' = [n \in Names |-> IF owner[n] = h THEN None ELSE owner[n]]
    /\ life' = [life EXCEPT ![h] = "gone"]

Next ==
    \E h \in Holders :
        \/ \E n \in Names : Acquire(h, n)
        \/ Refuse(h) \/ Leave(h) \/ Release(h)

Spec == Init /\ [][Next]_vars
=============================================================================
