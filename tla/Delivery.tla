------------------------------ MODULE Delivery ------------------------------
(***************************************************************************)
(* From the broker to the application: PubRecv and PubSend in the gateway  *)
(* and the client library, joined by datagrams that may be lost, and on    *)
(* some networks overtaken and repeated.  The broker repeats what was not  *)
(* acknowledged when a connection is lost.  The client may sleep and wake; *)
(* the exchanges that make it so are in GwSession and are single steps.    *)
(***************************************************************************)
EXTENDS GwPubSend, GwPubRecv, ClientRecv

CONSTANTS
    Qos,          \* the QoS of the broker's messages
    FirstMsgId,   \* values of m_nextMsgId to start from
    OwnTopics,    \* sets of topics the client registered itself
    Networks,     \* whether datagrams are overtaken and repeated: subset of BOOLEAN
    MaxMsgs,      \* bound: messages of the broker
    MaxFaults,    \* bound: datagrams lost or repeated, connections to the broker lost
    MaxInFlight,  \* bound: datagrams under way when the timer expires
    MaxHeld,      \* bound: messages of QoS 2 under way at the broker
    MaxNaps       \* bound: times the client falls asleep, asks or reconnects

VARIABLES
    s,          \* PubSend
    held,       \* m_recvMsgs of PubRecv
    flows,      \* the broker's messages of QoS 2 under way, by packet id
    c,          \* the client
    connStatus, m_pendingClientDisconnect, \* of the session
    reorders,   \* datagrams are overtaken and repeated
    listening,  \* the client's radio is on
    toClient, toGw, \* datagrams under way
    accepted,   \* the broker's messages
    delivered,  \* what was reported to the application
    faults, naps \* bounded

session == <<connStatus, m_pendingClientDisconnect>>
broker == <<held, flows>>
vars == <<s, broker, c, session, reorders, listening, toClient, toGw, accepted, delivered, faults, naps>>

ASSUME DeliveryAssumption ==
    Cardinality(Topic \ PredefinedTopic) <= MaxTopicId /\ Qos \subseteq 0 .. 2

\* The session is connected; topics the client registered have ids already.
Init ==
    /\ \E id \in FirstMsgId, own \in OwnTopics :
          \E ids \in [own -> 1 .. Cardinality(own)] :
             /\ \A t, u \in own : ids[t] = ids[u] => t = u
             /\ s = [InitSend(id) EXCEPT !.reg = ids]
             /\ c = InitClient([i \in 1 .. Cardinality(own) |->
                                   CHOOSE t \in own : ids[t] = i])
    /\ connStatus = "Connected" /\ m_pendingClientDisconnect = FALSE
    /\ reorders \in Networks /\ listening = TRUE
    /\ held = << >> /\ flows = << >>
    /\ toClient = << >> /\ toGw = << >>
    /\ accepted = << >> /\ delivered = << >>
    /\ faults = 0 /\ naps = 0

\* What a handler of PubSend leaves behind.
GwStep(t) ==
    /\ ~ s.term
    /\ s' = [t EXCEPT !.out = << >>]
    /\ toClient' = toClient \o t.out

-----------------------------------------------------------------------------
(* The gateway. *)

\* The broker's messages reach PubRecv, then PubSend looks at the queue.
FromBroker(t) ==
    /\ GwStep(CheckSend(t, connStatus, m_pendingClientDisconnect))
    /\ UNCHANGED <<reorders, c, session, listening, toGw, delivered, naps>>

\* Messages that are queued or will be.
Begun == Len(accepted) + Cardinality({id \in DOMAIN flows : flows[id].n = 0})
FreeIds == (1 .. MaxHeld) \ DOMAIN flows

\* PUBLISH of QoS 0 or 1.
BrokerPublish(topic, qos) ==
    LET m == [n |-> Len(accepted) + 1, topic |-> topic, qos |-> qos] IN
    /\ qos < 2 /\ Begun < MaxMsgs
    /\ \E k \in 0 .. Len(held) :
          \/ qos = 0 /\ held' = CleanIncomplete(held, k)
          \/ qos = 1 /\ \E id \in FreeIds : held' = CleanPubs(held, id, k)
    /\ accepted' = Append(accepted, m)
    /\ FromBroker(AddPubInfo(s, m))
    /\ UNCHANGED <<flows, faults>>

\* PUBLISH of QoS 2, answered with PUBREC.  n: its number once it is released.
BrokerPublish2(topic, id) ==
    /\ 2 \in Qos /\ Begun < MaxMsgs /\ id \in FreeIds
    /\ \E k \in 0 .. Len(held) :
          held' = HoldPublish(held, [id |-> id, topic |-> topic, dup |-> FALSE], k)
    /\ flows' = [i \in DOMAIN flows \cup {id} |->
                    IF i = id THEN [n |-> 0, topic |-> topic] ELSE flows[i]]
    /\ FromBroker(s)
    /\ UNCHANGED <<accepted, faults>>

\* The connection is lost with the PUBREC; on the next one the broker repeats.
BrokerRepeats(id) ==
    /\ id \in DOMAIN flows /\ flows[id].n = 0
    /\ faults < MaxFaults /\ faults' = faults + 1
    /\ \E k \in 0 .. Len(WithoutId(held, id)) :
          held' = HoldPublish(held, [id |-> id, topic |-> flows[id].topic, dup |-> TRUE], k)
    /\ FromBroker(s)
    /\ UNCHANGED <<accepted, flows>>

\* PUBREL: PubRecv queues the message if it still holds it; if not, the message is
\* lost and counts as given up.  PUBCOMP ends the exchange unless the connection is
\* lost with it, and PUBREL is repeated.
BrokerPubrel(id) ==
    LET first == flows[id].n = 0
        n == IF first THEN Len(accepted) + 1 ELSE flows[id].n
        entry == Released(held, id)
    IN /\ id \in DOMAIN flows
       /\ accepted' = IF first THEN Append(accepted, [n |-> n, topic |-> flows[id].topic, qos |-> 2])
                      ELSE accepted
       /\ held' = Unheld(held, id)
       /\ FromBroker(CASE entry # << >> ->
                               AddPubInfo(s, [n |-> n, topic |-> entry[1].topic, qos |-> 2])
                       [] entry = << >> /\ first -> [s EXCEPT !.gaveUp = @ \cup {n}]
                       [] entry = << >> /\ ~ first -> s)
       /\ \/ flows' = [i \in DOMAIN flows \ {id} |-> flows[i]] /\ UNCHANGED faults
          \/ /\ faults < MaxFaults /\ faults' = faults + 1
             /\ flows' = [flows EXCEPT ![id].n = n]

\* The next connection starts a clean session: the broker forgets its messages,
\* PubRecv does not.
BrokerForgets ==
    /\ flows # << >> /\ faults < MaxFaults /\ faults' = faults + 1
    /\ flows' = << >>
    /\ FromBroker(s)
    /\ UNCHANGED <<held, accepted>>

\* The network is slow: the timer may run out while an answer is under way.
Tick ==
    /\ s.tick /\ Len(toClient) + Len(toGw) <= MaxInFlight
    /\ GwStep(TickImpl(s, connStatus, m_pendingClientDisconnect))
    /\ UNCHANGED <<reorders, broker, c, session, listening, toGw, accepted, delivered, faults, naps>>

Without(ch, i) == SubSeq(ch, 1, i - 1) \o SubSeq(ch, i + 1, Len(ch))
Arriving(ch) == IF reorders THEN DOMAIN ch ELSE {1} \cap DOMAIN ch

\* A message PubSend has no handler for changes nothing.
GwReceive(i) ==
    LET msg == toGw[i]
        pending == m_pendingClientDisconnect
    IN /\ GwStep(CASE msg.type = "REGACK" -> HandleRegack(s, msg, connStatus, pending)
                   [] msg.type = "PUBACK" -> HandlePuback(s, msg, connStatus, pending)
                   [] msg.type = "PUBREC" -> HandlePubrec(s, msg)
                   [] msg.type = "PUBCOMP" -> HandlePubcomp(s, msg, connStatus, pending)
                   [] OTHER -> s)
       /\ toGw' = Without(toGw, i)
       /\ UNCHANGED <<reorders, broker, c, session, listening, accepted, delivered, faults, naps>>

-----------------------------------------------------------------------------
(* The client. *)

ClientHandles(msg) ==
    CASE msg.type = "REGISTER" -> HandleRegister(c, msg)
      [] msg.type = "PUBLISH" -> HandlePublish(c, msg)
      [] msg.type = "PUBREL" -> {HandlePubrel(c, msg)}
      [] msg.type \in {"PINGRESP", "DISCONNECT"} -> {Handled(c, << >>, << >>)}

\* A sleeping client is off from PINGRESP to its next PINGREQ; after DISCONNECT
\* the client ignores what still arrives.
ClientReceive(i) ==
    LET msg == toClient[i] IN
    /\ listening
    /\ \E r \in ClientHandles(msg) :
          /\ c' = r.c
          /\ toGw' = toGw \o r.replies
          /\ delivered' = delivered \o r.got
    /\ toClient' = Without(toClient, i)
    /\ listening' = ~ (msg.type = "DISCONNECT" \/ (msg.type = "PINGRESP" /\ connStatus = "Asleep"))
    /\ UNCHANGED <<reorders, broker, s, session, accepted, faults, naps>>

Unheard ==
    /\ ~ listening /\ toClient # << >>
    /\ toClient' = Tail(toClient)
    /\ UNCHANGED <<reorders, broker, s, c, session, listening, toGw, accepted, delivered, faults, naps>>

\* DISCONNECT with a duration, and the start of a CONNECT that has the gateway
\* replace its connection to the broker.
Leave(status) ==
    /\ connStatus = "Connected" /\ naps < MaxNaps
    /\ connStatus' = status /\ listening' = FALSE
    /\ GwStep(CheckSend(s, status, m_pendingClientDisconnect))
    /\ naps' = naps + 1
    /\ UNCHANGED <<reorders, broker, c, m_pendingClientDisconnect, toGw, accepted, delivered, faults>>

\* PINGREQ of a sleeping client.
AskForMessages ==
    /\ connStatus = "Asleep" /\ naps < MaxNaps
    /\ listening' = TRUE
    /\ GwStep(HandlePingreq(s, connStatus, m_pendingClientDisconnect))
    /\ naps' = naps + 1
    /\ UNCHANGED <<reorders, broker, c, session, toGw, accepted, delivered, faults>>

\* CONNECT was accepted.
Return ==
    /\ connStatus # "Connected"
    /\ connStatus' = "Connected" /\ listening' = TRUE
    /\ GwStep(CheckSend(s, "Connected", m_pendingClientDisconnect))
    /\ UNCHANGED <<reorders, broker, c, m_pendingClientDisconnect, toGw, accepted, delivered, faults, naps>>

\* The broker went away while the client was asleep.
BrokerLost ==
    /\ connStatus = "Asleep" /\ ~ m_pendingClientDisconnect
    /\ m_pendingClientDisconnect' = TRUE
    /\ GwStep(s)
    /\ UNCHANGED <<reorders, broker, c, connStatus, listening, toGw, accepted, delivered, faults, naps>>

-----------------------------------------------------------------------------
(* The network. *)

Lose ==
    /\ faults < MaxFaults /\ faults' = faults + 1
    /\ \/ \E i \in DOMAIN toClient : toClient' = Without(toClient, i) /\ UNCHANGED toGw
       \/ \E i \in DOMAIN toGw : toGw' = Without(toGw, i) /\ UNCHANGED toClient
    /\ UNCHANGED <<reorders, broker, s, c, session, listening, accepted, delivered, naps>>

Repeat ==
    /\ reorders /\ faults < MaxFaults /\ faults' = faults + 1
    /\ \/ \E i \in DOMAIN toClient : toClient' = Append(toClient, toClient[i]) /\ UNCHANGED toGw
       \/ \E i \in DOMAIN toGw : toGw' = Append(toGw, toGw[i]) /\ UNCHANGED toClient
    /\ UNCHANGED <<reorders, broker, s, c, session, listening, accepted, delivered, naps>>

Next ==
    \/ \E topic \in Topic, qos \in Qos : BrokerPublish(topic, qos)
    \/ \E topic \in Topic, id \in 1 .. MaxHeld : BrokerPublish2(topic, id)
    \/ \E id \in DOMAIN flows : BrokerRepeats(id) \/ BrokerPubrel(id)
    \/ BrokerForgets
    \/ Tick
    \/ \E i \in Arriving(toGw) : GwReceive(i)
    \/ \E i \in Arriving(toClient) : ClientReceive(i)
    \/ Unheard
    \/ \E status \in {"Asleep", "Disconnected"} : Leave(status)
    \/ AskForMessages
    \/ Return
    \/ BrokerLost
    \/ Lose
    \/ Repeat

Spec == Init /\ [][Next]_vars

\* The application calls tick() when the timer is due: Tick is weakly fair, its
\* enabling condition written out (MaxInFlight is not reached under FairSpec).
\* Nothing is assumed of the client or the network.
FairSpec == Spec /\ (<>[](s.tick /\ ~ s.term) => []<><<Tick>>_vars)

-----------------------------------------------------------------------------
\* The retry timer runs exactly while a message is being delivered, so no
\* acknowledgement that fails to come, comes late or comes twice stalls the
\* queue.
TimerRuns == ~ s.term => (s.tick <=> s.curr # None)

\* n is queued or current.
Waiting(n) == s.curr.n = n \/ \E i \in DOMAIN s.queue : s.queue[i].n = n

\* The gateway is done with n and did not give it up.
Acknowledged(n) == ~ Waiting(n) /\ n \notin s.gaveUp

\* At least once: a message of QoS 1 or 2 the gateway takes for acknowledged
\* was reported to the application, whatever answers were lost, late, repeated
\* or meant for another message.
AcknowledgedMeansDelivered ==
    Len(accepted) <= PubAccLimit =>
        \A n \in DOMAIN accepted :
            accepted[n].qos > 0 /\ Acknowledged(n) =>
                \E i \in DOMAIN delivered : delivered[i].n = n

\* The application is told the topic a message was published with.
TopicsRight ==
    \A i \in DOMAIN delivered : delivered[i].topic = accepted[delivered[i].n].topic

\* It is, as long as the gateway never had to give up a registration and datagrams
\* arrive in order.
TopicsRightIfRegistered == ~ s.topicGivenUp /\ ~ reorders => TopicsRight

\* The messages arrive in order if the datagrams do, and only those of QoS 1 more
\* than once.
Promise == INSTANCE InOrderDelivery WITH
    accepted <- accepted, delivered <- IF reorders THEN << >> ELSE delivered
InOrder == Promise!Spec

\* Messages for a sleeping client are kept until it wakes up: none is given up
\* while it is asleep.
KeptWhileAsleep == [][s'.gaveUp # s.gaveUp => connStatus # "Asleep"]_vars

\* A sleeping client that asks for its messages is sent PINGRESP in the end, even
\* if it acknowledges nothing, unless it wakes up or the session ends first.
PingrespComes ==
    s.ping ~> \/ ~ s.ping /\ \E i \in DOMAIN toClient : toClient[i].type = "PINGRESP"
              \/ s.term \/ connStatus # "Asleep"

\* While the client stays connected every message is delivered or given up in the
\* end, whatever is lost.
NoStall ==
    \A n \in 1 .. MaxMsgs :
        Waiting(n) /\ connStatus = "Connected" ~>
            ~ Waiting(n) \/ s.term \/ connStatus # "Connected"
=============================================================================
