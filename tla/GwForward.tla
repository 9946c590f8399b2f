----------------------------- MODULE GwForward ------------------------------
(***************************************************************************)
(* The gateway's Forward operation and SessionImpl's handler of REGISTER:  *)
(* what a connected client publishes, registers and subscribes to is       *)
(* passed to the broker, and the broker's answers to the client.           *)
(*                                                                         *)
(* The session is a record g: reg maps topic ids to topics (RegMgr, while  *)
(* ids last), lastPubTopicId and subs are Forward's members.  toClient and *)
(* toBroker are what a step sends.  PINGREQs that only keep the broker's   *)
(* connection alive, and publishing without a connection, are left out.    *)
(***************************************************************************)
EXTENDS Integers, Sequences

CONSTANTS
    Topic,             \* topics
    Predefined, Short, \* ids of the predefined topics and of short names
    Configured,        \* the predefined topics the gateway is configured with
    MaxTopicId         \* ids 1 .. MaxTopicId are allocated

InitSession ==
    [connStatus |-> "Connected", brokerConnected |-> TRUE,
     reg |-> [id \in {Predefined[t] : t \in Configured} |->
                 CHOOSE t \in Configured : Predefined[t] = id],
     lastPubTopicId |-> 0, subs |-> << >>, toClient |-> << >>, toBroker |-> << >>]

SendToClient(g, msg) == [g EXCEPT !.toClient = Append(@, msg)]
SendToBroker(g, msg) == [g EXCEPT !.toBroker = Append(@, msg)]

\* The id of a topic that has one.
IdOf(reg, topic) == CHOOSE id \in DOMAIN reg : reg[id] = topic

First(numbers) == CHOOSE i \in numbers : \A j \in numbers : i <= j

\* The id after the largest of the range, or the first gap.
NewId(reg) ==
    LET used == DOMAIN reg \cap 1 .. MaxTopicId
    IN IF used = {} THEN 1
       ELSE IF MaxTopicId \notin used THEN 1 + CHOOSE id \in used : \A i \in used : i <= id
       ELSE First((1 .. MaxTopicId) \ used)

MapTopic(g, topic) ==
    IF \E id \in DOMAIN g.reg : g.reg[id] = topic THEN g
    ELSE [g EXCEPT !.reg = [id \in DOMAIN @ \cup {NewId(@)} |->
                               IF id \in DOMAIN @ THEN @[id] ELSE topic]]

-----------------------------------------------------------------------------
(* From the client. *)

HandleRegister(g, msg) ==
    LET h == MapTopic(g, msg.topic)
    IN SendToClient(h, [type |-> "REGACK", topicId |-> IdOf(h.reg, msg.topic),
                        msgId |-> msg.msgId, code |-> "Accepted"])

SendPubackToClient(g, topicId, msgId, code) ==
    SendToClient(g, [type |-> "PUBACK", topicId |-> topicId, msgId |-> msgId, code |-> code])

\* Whatever the type of the id, it is looked up in the registrations.
HandlePublish(g, msg) ==
    CASE g.connStatus # "Connected" ->
            SendPubackToClient(g, msg.topicId, msg.msgId, "NotSupported")
      [] g.connStatus = "Connected" /\ ~ g.brokerConnected ->
            SendPubackToClient(g, msg.topicId, msg.msgId, "Congestion")
      [] g.connStatus = "Connected" /\ g.brokerConnected /\ msg.topicId \notin DOMAIN g.reg ->
            SendPubackToClient(g, msg.topicId, msg.msgId, "InvalidTopicId")
      [] OTHER ->
            SendToBroker([g EXCEPT !.lastPubTopicId = msg.topicId],
                         [type |-> "PUBLISH", n |-> msg.n, qos |-> msg.qos,
                          packetId |-> msg.msgId, topic |-> g.reg[msg.topicId]])

HandlePubrel(g, msg) == SendToBroker(g, [type |-> "PUBREL", packetId |-> msg.msgId])

\* The topic a request means, if it is known.
Meant(g, named) ==
    CASE named.idType = "Normal" -> {named.topic}
      [] named.idType = "Short" -> {t \in DOMAIN Short : Short[t] = named.topicId}
      [] named.idType = "Predefined" -> {g.reg[id] : id \in {named.topicId} \cap DOMAIN g.reg}

HandleSubscribe(g, msg) ==
    LET Suback(code) == SendToClient(g, [type |-> "SUBACK", topicId |-> msg.named.topicId,
                                         msgId |-> msg.msgId, code |-> code])
        Forwarded(h, topic, id) ==
            SendToBroker([h EXCEPT !.subs = Append(@, [msgId |-> msg.msgId, topicId |-> id])],
                         [type |-> "SUBSCRIBE", packetId |-> msg.msgId, topic |-> topic])
        topic == CHOOSE t \in Meant(g, msg.named) : TRUE
        h == MapTopic(g, topic)
    IN CASE g.connStatus # "Connected" -> Suback("NotSupported")
         [] g.connStatus = "Connected" /\ Meant(g, msg.named) = {} -> Suback("InvalidTopicId")
         [] g.connStatus = "Connected" /\ Meant(g, msg.named) # {} ->
               IF msg.named.idType = "Normal" THEN Forwarded(h, topic, IdOf(h.reg, topic))
               ELSE Forwarded(g, topic, msg.named.topicId)

HandleUnsubscribe(g, msg) ==
    IF g.connStatus # "Connected" \/ Meant(g, msg.named) = {} THEN g
    ELSE SendToBroker(g, [type |-> "UNSUBSCRIBE", packetId |-> msg.msgId,
                          topic |-> CHOOSE t \in Meant(g, msg.named) : TRUE])

-----------------------------------------------------------------------------
(* From the broker. *)

\* Only the topic id of the last PUBLISH is known.
HandlePuback(g, msg) == SendPubackToClient(g, g.lastPubTopicId, msg.packetId, "Accepted")

HandlePubrec(g, msg) == SendToClient(g, [type |-> "PUBREC", msgId |-> msg.packetId])
HandlePubcomp(g, msg) == SendToClient(g, [type |-> "PUBCOMP", msgId |-> msg.packetId])

\* Of the other requests the oldest, older than the retry period, are forgotten.
HandleSuback(g, msg, old) ==
    LET found == {i \in DOMAIN g.subs : g.subs[i].msgId = msg.packetId}
        first == First(found)
        rest == IF found = {} THEN g.subs
                ELSE SubSeq(g.subs, 1, first - 1) \o SubSeq(g.subs, first + 1, Len(g.subs))
        h == [g EXCEPT !.subs = SubSeq(rest, old + 1, Len(rest))]
    IN SendToClient(h, [type |-> "SUBACK", topicId |-> IF found = {} THEN 0 ELSE g.subs[first].topicId,
                        msgId |-> msg.packetId, code |-> msg.code])

HandleUnsuback(g, msg) == SendToClient(g, [type |-> "UNSUBACK", msgId |-> msg.packetId])
=============================================================================
