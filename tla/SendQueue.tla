------------------------------ MODULE SendQueue ------------------------------
(***************************************************************************)
(* What send() of a Websocket promises, whatever the machinery behind it.  *)
(*                                                                         *)
(* Records are accepted in an order that fixes their place on the wire,    *)
(* become available when their sender has finished copying them, and are   *)
(* sent in that order, each once, never before the link is up.  While the  *)
(* link stays up every available record whose predecessors are available   *)
(* is eventually sent.                                                     *)
(***************************************************************************)
EXTENDS Naturals, Sequences

CONSTANT Capacity           \* bound on the records accepted over a connection

VARIABLES
    accepted,               \* number of records that have a place in the order
    available,              \* records whose bytes are complete
    sent,                   \* records on the wire, in the order they went out
    link                    \* "opening", "up" or "down"

vars == <<accepted, available, sent, link>>

-----------------------------------------------------------------------------

Init ==
    /\ accepted = 0
    /\ available = {}
    /\ sent = <<>>
    /\ link = "opening"

Accept ==
    /\ accepted < Capacity
    /\ accepted' = accepted + 1
    /\ UNCHANGED <<available, sent, link>>

Complete(r) ==
    /\ r \in 1..accepted \ available
    /\ available' = available \cup {r}
    /\ UNCHANGED <<accepted, sent, link>>

\* The link may be going down: what the transport already took still goes out.
Transmit ==
    /\ link # "opening"
    /\ Len(sent) + 1 \in available
    /\ sent' = Append(sent, Len(sent) + 1)
    /\ UNCHANGED <<accepted, available, link>>

LinkChange ==
    /\ \/ link = "opening" /\ link' \in {"up", "down"}
       \/ link = "up" /\ link' = "down"
    /\ UNCHANGED <<accepted, available, sent>>

Next ==
    \/ Accept
    \/ \E r \in 1..Capacity : Complete(r)
    \/ Transmit
    \/ LinkChange

Fairness ==
    /\ WF_vars(\E r \in 1..Capacity : Complete(r))
    /\ WF_vars(link = "up" /\ Transmit)
    /\ WF_vars(link = "opening" /\ LinkChange)

Safety == Init /\ [][Next]_vars
Spec == Safety /\ Fairness
=============================================================================
