----------------------------- MODULE GwPubRecv ------------------------------
(***************************************************************************)
(* PubRecv: the broker's messages of QoS 2, which the gateway acknowledges *)
(* and holds in m_recvMsgs until PUBREL.                                   *)
(*                                                                         *)
(* held is m_recvMsgs in the order of m_timestamp: a message that is       *)
(* repeated gets a new time and goes to the end, so the k messages whose   *)
(* retry period has passed are the first k.  Packet ids in it are unique,  *)
(* so that its order decides nothing else.                                 *)
(***************************************************************************)
EXTENDS Naturals, Sequences, SequencesExt

Held(held, id) == {i \in DOMAIN held : held[i].id = id}
WithoutId(held, id) == SelectSeq(held, LAMBDA e : e.id # id)

\* Every PUBLISH drops the messages whose retry period has passed, and one with an
\* id also the message that has its id.
CleanIncomplete(held, k) == SubSeq(held, k + 1, Len(held))
CleanPubs(held, id, k) == WithoutId(CleanIncomplete(held, k), id)

\* Mutant: a message with the id of one that is held does not replace it.
HoldPublishBeside(held, msg, k) ==
    Append(CleanIncomplete(held, k), [id |-> msg.id, topic |-> msg.topic])

\* PUBLISH of QoS 2: a repeated one renews the one that is held, any other takes
\* the place of one with its id.
HoldPublish(held, msg, k) ==
    LET entry == [id |-> msg.id, topic |-> msg.topic]
        renewed == Append(WithoutId(held, msg.id), entry)
    IN IF msg.dup /\ Held(held, msg.id) # {}
       THEN CleanIncomplete(renewed, k)
       ELSE Append(CleanPubs(held, msg.id, k), entry)

\* PUBREL: the first message with the id, if one is still held, is released.
First(is) == CHOOSE i \in is : \A j \in is : i <= j
Released(held, id) ==
    LET is == Held(held, id) IN IF is = {} THEN << >> ELSE <<held[First(is)]>>
Unheld(held, id) ==
    LET is == Held(held, id) IN IF is = {} THEN held ELSE RemoveAt(held, First(is))
=============================================================================
