------------------------------ MODULE Upstream ------------------------------
(***************************************************************************)
(* From the application to the broker: the client library's publish,       *)
(* subscribe and unsubscribe requests, the gateway's Forward operation and *)
(* a broker, joined by datagrams that may be lost or late.  The gateway    *)
(* may lose a registration, its session or, during a will update, its      *)
(* connection to the broker.                                               *)
(***************************************************************************)
EXTENDS ClientOps

CONSTANTS
    Refused,     \* topics the broker lets nobody subscribe to
    Configured,  \* the predefined topics the gateway is configured with
    Menus,       \* what applications ask for: sets of requests [type, topic, qos]
    Subscribed,  \* what the client has subscribed to before
    LastId,      \* values of m_lastPacketId to start from
    MaxRequests, \* bound: requests of the application
    MaxFaults,   \* bound: what is lost by the network and the gateway
    MaxInFlight  \* bound: datagrams under way in a direction, the others are lost

VARIABLES
    u, g,             \* the client, the session in the gateway
    broker,           \* what was published, packet ids of QoS 2 messages, subscriptions
    toGw, toClient,   \* datagrams under way
    fromBroker,       \* the broker's answers
    menu,             \* what this application asks for
    asked, result,    \* requests, and what was reported of each
    sent, heard,      \* history: publishes asked for; what of them the broker published
    forgot,           \* before the gateway lost a registration, which this says it did
    faults            \* bounded

gateway == <<g, broker, heard, fromBroker>>
requests == <<menu, asked, sent, result>>
network == <<toGw, toClient>>
vars == <<u, gateway, network, requests, forgot, faults>>

Gw == INSTANCE GwForward

ASSUME UpstreamAssumption ==
    /\ Configured \subseteq DOMAIN Predefined
    /\ Cardinality(Topic \ (DOMAIN Predefined \cup DOMAIN Short)) <= MaxTopicId
    /\ \A t \in DOMAIN Predefined : Predefined[t] > MaxTopicId
    /\ \A t \in DOMAIN Short : Short[t] > MaxTopicId
    /\ \A m \in Menus : m \subseteq [type : {"Send", "Subscribe", "Unsubscribe"}, topic : Topic, qos : 0 .. 2]
    /\ MaxRequests \in Nat /\ 2 * MaxRequests <= MaxPacketId /\ MaxInFlight \in Nat

\* The client has subscribed to some topics, and the gateway gave those without a
\* predefined id one.
Init ==
    /\ LET given == Subscribed \ (DOMAIN Predefined \cup DOMAIN Short) IN
       \E named \in [1 .. Cardinality(given) -> given], last \in LastId :
       /\ IsInjective(named)
       /\ u = [InitClient(last) EXCEPT !.filters = Subscribed, !.inReg = named]
       /\ g = [Gw!InitSession EXCEPT !.reg =
                  [id \in DOMAIN @ \cup DOMAIN named |->
                      IF id \in DOMAIN named THEN named[id] ELSE @[id]]]
    /\ broker = [received |-> << >>, ids |-> {}, subs |-> Subscribed]
    /\ toGw = << >> /\ toClient = << >> /\ fromBroker = << >>
    /\ menu \in Menus
    /\ asked = << >> /\ result = << >> /\ sent = << >> /\ heard = << >> /\ forgot = FALSE /\ faults = 0

\* Datagrams that find no room are lost.
UpTo(q, n) == SubSeq(q, 1, IF Len(q) < n THEN Len(q) ELSE n)
Queued(ch, out) == UpTo(ch \o out, MaxInFlight)

-----------------------------------------------------------------------------
(* The application and the client library. *)

\* What a step of the client leaves behind.
ClientStep(v, before) ==
    /\ u' = [v EXCEPT !.out = << >>, !.done = << >>]
    /\ toGw' = Queued(toGw, v.out)
    /\ result' = [k \in DOMAIN before |->
                     IF \E i \in DOMAIN v.done : v.done[i].key = k
                     THEN (CHOOSE d \in Range(v.done) : d.key = k).result ELSE before[k]]

\* A request is prepared, configured and sent in one step.
Asks(req, Prepare(_, _), Configure(_, _), Send(_, _)) ==
    LET key == Len(asked) + 1
        n == Len(sent) + 1
        full == [key |-> key, type |-> req.type, n |-> n, topic |-> req.topic, qos |-> req.qos]
        v == Prepare(u, full)
    IN /\ key <= MaxRequests
       /\ asked' = Append(asked, full)
       /\ sent' = IF req.type # "Send" THEN sent
                  ELSE Append(sent, [n |-> n, topic |-> req.topic, qos |-> req.qos])
       /\ ClientStep(Send(Configure(v, Len(v.ops)), Len(v.ops)), Append(result, "none"))
       /\ UNCHANGED <<gateway, toClient, menu, forgot, faults>>

Publish(req) == req.type = "Send" /\ Asks(req, PublishPrepare, PublishConfig, PublishSend)

Subscribe(req) ==
    req.type = "Subscribe" /\ Asks(req, SubscribePrepare, LAMBDA v, i : v, SubscribeSend)

Unsubscribe(req) ==
    /\ req.type = "Unsubscribe" /\ UnsubscribeConfigured(u, req.topic)
    /\ Asks(req, UnsubscribePrepare, LAMBDA v, i : v, UnsubscribeSend)

CancelOp(i) ==
    /\ ClientStep(Cancel(u, i), result)
    /\ UNCHANGED <<gateway, toClient, menu, asked, sent, forgot, faults>>

\* The answer may be late: the timer runs out at any time.
Timeout(lane) ==
    LET i == First(u, lane) IN
    /\ i # 0 /\ u.ops[i].timed
    /\ ClientStep(TimeoutInternal(u, i), result)
    /\ UNCHANGED <<gateway, toClient, menu, asked, sent, forgot, faults>>

\* The operations have no handler for messages of other types.
ClientReceive ==
    LET msg == Head(toClient) IN
    /\ toClient # << >> /\ toClient' = Tail(toClient)
    /\ ClientStep(CASE msg.type = "REGACK" -> HandleRegack(u, msg)
                    [] msg.type = "PUBACK" -> HandlePuback(u, msg)
                    [] msg.type = "PUBREC" -> HandlePubrec(u, msg)
                    [] msg.type = "PUBCOMP" -> HandlePubcomp(u, msg)
                    [] msg.type = "SUBACK" -> HandleSuback(u, msg)
                    [] msg.type = "UNSUBACK" -> HandleUnsuback(u, msg)
                    [] OTHER -> u,
                  result)
    /\ UNCHANGED <<gateway, menu, asked, sent, forgot, faults>>

-----------------------------------------------------------------------------
(* The broker: it publishes a QoS 2 message when it first arrives and knows its *)
(* packet id until PUBREL.                                                       *)

BrokerTakes(b, msg) ==
    LET new == [b EXCEPT !.received = Append(@, [n |-> msg.n, topic |-> msg.topic])] IN
    CASE msg.type = "PUBLISH" /\ msg.qos < 2 -> new
      [] msg.type = "PUBLISH" /\ msg.qos = 2 ->
            IF msg.packetId \in b.ids THEN b ELSE [new EXCEPT !.ids = @ \cup {msg.packetId}]
      [] msg.type = "PUBREL" -> [b EXCEPT !.ids = @ \ {msg.packetId}]
      [] msg.type = "SUBSCRIBE" -> [b EXCEPT !.subs = @ \cup ({msg.topic} \ Refused)]
      [] msg.type = "UNSUBSCRIBE" -> [b EXCEPT !.subs = @ \ {msg.topic}]

BrokerAnswers(msg) ==
    LET Answer(type) == <<[type |-> type, packetId |-> msg.packetId]>> IN
    CASE msg.type = "PUBLISH" -> <<<< >>, Answer("PUBACK"), Answer("PUBREC")>>[msg.qos + 1]
      [] msg.type = "PUBREL" -> Answer("PUBCOMP")
      [] msg.type = "SUBSCRIBE" ->
            <<[type |-> "SUBACK", packetId |-> msg.packetId,
               code |-> IF msg.topic \in Refused THEN "NotSupported" ELSE "Accepted"]>>
      [] msg.type = "UNSUBSCRIBE" -> Answer("UNSUBACK")

-----------------------------------------------------------------------------
(* The gateway. *)

\* What a step of the gateway leaves behind.  A handler sends the broker one message
\* at most, which is lost while there is no connection.
GwStep(h) ==
    /\ g' = [h EXCEPT !.toClient = << >>, !.toBroker = << >>]
    /\ toClient' = Queued(toClient, h.toClient)
    /\ IF h.toBroker = << >> \/ ~ h.brokerConnected THEN UNCHANGED <<broker, heard>>
       ELSE /\ broker' = BrokerTakes(broker, Head(h.toBroker))
            /\ heard' = IF forgot THEN heard ELSE broker'.received

GwReceive ==
    LET msg == Head(toGw)
        h == CASE msg.type = "REGISTER" -> Gw!HandleRegister(g, msg)
               [] msg.type = "PUBLISH" -> Gw!HandlePublish(g, msg)
               [] msg.type = "PUBREL" -> Gw!HandlePubrel(g, msg)
               [] msg.type = "SUBSCRIBE" -> Gw!HandleSubscribe(g, msg)
               [] msg.type = "UNSUBSCRIBE" -> Gw!HandleUnsubscribe(g, msg)
    IN /\ toGw # << >> /\ toGw' = Tail(toGw)
       /\ GwStep(h)
       /\ IF h.toBroker = << >> \/ ~ h.brokerConnected THEN UNCHANGED fromBroker
          ELSE fromBroker' = fromBroker \o BrokerAnswers(Head(h.toBroker))
       /\ UNCHANGED <<u, requests, forgot, faults>>

GwFromBroker ==
    LET msg == Head(fromBroker) IN
    /\ fromBroker # << >> /\ fromBroker' = Tail(fromBroker)
    /\ \/ /\ msg.type # "SUBACK"
          /\ GwStep(CASE msg.type = "PUBACK" -> Gw!HandlePuback(g, msg)
                      [] msg.type = "PUBREC" -> Gw!HandlePubrec(g, msg)
                      [] msg.type = "PUBCOMP" -> Gw!HandlePubcomp(g, msg)
                      [] msg.type = "UNSUBACK" -> Gw!HandleUnsuback(g, msg))
       \/ /\ msg.type = "SUBACK"
          /\ \E old \in 0 .. Len(g.subs) : GwStep(Gw!HandleSuback(g, msg, old))
    /\ UNCHANGED <<u, toGw, requests, forgot, faults>>

-----------------------------------------------------------------------------
(* Faults. *)

Fault == faults < MaxFaults /\ faults' = faults + 1

LoseDatagram ==
    /\ Fault
    /\ \/ toGw # << >> /\ toGw' = Tail(toGw) /\ UNCHANGED toClient
       \/ toClient # << >> /\ toClient' = Tail(toClient) /\ UNCHANGED toGw
    /\ UNCHANGED <<u, gateway, requests, forgot>>

\* A registration is discarded or makes room for another.
GwForget(id) ==
    /\ Fault /\ id <= MaxTopicId
    /\ g' = [g EXCEPT !.reg = Except(@, {id})]
    /\ forgot' = TRUE
    /\ UNCHANGED <<u, broker, heard, fromBroker, network, requests>>

\* The session ends; what the client still sends meets a new one.
GwRestart ==
    /\ Fault
    /\ g' = [Gw!InitSession EXCEPT !.connStatus = "Disconnected", !.brokerConnected = FALSE]
    /\ fromBroker' = << >> /\ forgot' = TRUE
    /\ UNCHANGED <<u, broker, heard, network, requests>>

\* The broker keeps the session over a reconnection.
BrokerAway ==
    /\ Fault /\ g.brokerConnected
    /\ g' = [g EXCEPT !.brokerConnected = FALSE] /\ fromBroker' = << >>
    /\ UNCHANGED <<u, broker, heard, network, requests, forgot>>

BrokerBack ==
    /\ g.connStatus = "Connected" /\ ~ g.brokerConnected
    /\ g' = [g EXCEPT !.brokerConnected = TRUE]
    /\ UNCHANGED <<u, broker, heard, fromBroker, network, requests, forgot, faults>>

Next ==
    \/ \E req \in menu : Publish(req) \/ Subscribe(req) \/ Unsubscribe(req)
    \/ \E i \in DOMAIN u.ops : CancelOp(i)
    \/ \E type \in {"Send", "Subscribe"} : Timeout(Lane(type))
    \/ ClientReceive
    \/ GwReceive
    \/ GwFromBroker
    \/ LoseDatagram
    \/ \E id \in DOMAIN g.reg : GwForget(id)
    \/ GwRestart
    \/ BrokerAway
    \/ BrokerBack

Spec == Init /\ [][Next]_vars

\* The application calls tick() when a timer is due: as long as a timer runs, the
\* client takes a step again and again.  Nothing is assumed of the network and the
\* gateway.
FairSpec ==
    Spec /\ (\/ []<>(\A i \in DOMAIN u.ops : ~ u.ops[i].timed)
             \/ []<><<u' # u>>_u)

-----------------------------------------------------------------------------
\* "Only one PUBLISH transaction is allowed at a time", and one SUBSCRIBE or
\* UNSUBSCRIBE: the oldest request is under way with its timer running, the others
\* wait.
OneAtATime ==
    \A i \in DOMAIN u.ops :
        LET oldest == i = First(u, Lane(u.ops[i].type))
        IN u.ops[i].suspended = ~ oldest /\ u.ops[i].timed = oldest

\* No two requests share a packet id, and ids are neither leaked nor released while
\* they are in use.
IdsOf(op) == {op.registerId, op.msgId} \ {0}
PacketIdsOwned ==
    /\ u.ids = UNION {IdsOf(u.ops[i]) : i \in DOMAIN u.ops}
    /\ \A i, j \in DOMAIN u.ops : i # j => IdsOf(u.ops[i]) \cap IdsOf(u.ops[j]) = {}
=============================================================================
