-------------------------- MODULE InOrderDelivery ---------------------------
(***************************************************************************)
(* What delivery promises over a network that loses datagrams and does not *)
(* reorder them: the client's application sees the broker's messages in    *)
(* their order; some may be missing; only one of QoS 1 may be repeated,    *)
(* and only before the next one.                                           *)
(***************************************************************************)
EXTENDS Naturals, Sequences

CONSTANT Topic
VARIABLES accepted,  \* the broker's messages
          delivered  \* what was reported to the application

Latest == IF delivered = << >> THEN 0 ELSE delivered[Len(delivered)].n

Init == accepted = << >> /\ delivered = << >>

Accept(topic, qos) ==
    /\ accepted' = Append(accepted, [n |-> Len(accepted) + 1, topic |-> topic, qos |-> qos])
    /\ UNCHANGED delivered

Deliver(n, topic) ==
    /\ n > Latest \/ (n = Latest /\ accepted[n].qos = 1)
    /\ delivered' = Append(delivered, [n |-> n, topic |-> topic])
    /\ UNCHANGED accepted

Next ==
    \/ \E topic \in Topic, qos \in 0 .. 2 : Accept(topic, qos)
    \/ \E n \in DOMAIN accepted, topic \in Topic : Deliver(n, topic)

Spec == Init /\ [][Next]_<<accepted, delivered>>
=============================================================================
