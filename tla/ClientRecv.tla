----------------------------- MODULE ClientRecv -----------------------------
(***************************************************************************)
(* The client library's receiving side: ClientImpl's handlers of REGISTER, *)
(* PUBLISH and PUBREL, and the topics it remembers.                        *)
(*                                                                         *)
(* A client is a record c of ReuseState: inReg maps topic ids to topics,   *)
(* outReg holds the topics it registered itself, lastRecvMsgId the QoS 2   *)
(* message in progress.  A handler yields the new record, the answer and   *)
(* what is reported to the application.                                    *)
(***************************************************************************)
EXTENDS Naturals, Sequences, FiniteSets

CONSTANTS
    InRegTopicsLimit, \* m_inRegTopicsLimit
    MaxQos,           \* Config::MaxQos
    Unsubscribed,     \* topics no filter in m_subFilters matches
    Refused           \* topics verifyPubTopic does not accept

ASSUME ClientRecvAssumption ==
    InRegTopicsLimit \in Nat \ {0} /\ MaxQos \in 0 .. 2

InitClient(outReg) == [inReg |-> << >>, outReg |-> outReg, lastRecvMsgId |-> 0]

Handled(c, replies, got) == [c |-> c, replies |-> replies, got |-> got]

\* storeInRegTopic.  Which entry makes room depends on when each was stored; an
\* entry stored again counts as new, one that is only used does not.
StoreInRegTopic(c, topic, id) ==
    LET With(f) == [c EXCEPT !.inReg =
                       [i \in DOMAIN f \cup {id} |-> IF i = id THEN topic ELSE f[i]]]
    IN IF id \in DOMAIN c.inReg \/ Cardinality(DOMAIN c.inReg) < InRegTopicsLimit
       THEN {With(c.inReg)}
       ELSE {With([i \in DOMAIN c.inReg \ {victim} |-> c.inReg[i]]) : victim \in DOMAIN c.inReg}

HandleRegister(c, msg) ==
    LET Regack(code) == <<[type |-> "REGACK", topicId |-> msg.topicId,
                           msgId |-> msg.msgId, code |-> code]>>
    IN IF msg.topic \in Refused THEN {Handled(c, Regack("NotSupported"), << >>)}
       ELSE {Handled(d, Regack("Accepted"), << >>) :
                d \in StoreInRegTopic(c, msg.topic, msg.topicId)}

\* The topic an id stands for; the client's own registrations are the second
\* choice and are remembered.
Known(c, msg) ==
    CASE msg.predefined -> {<<c, msg.m.topic>>}
      [] ~ msg.predefined /\ msg.topicId \in DOMAIN c.inReg ->
            {<<c, c.inReg[msg.topicId]>>}
      [] ~ msg.predefined /\ msg.topicId \in DOMAIN c.outReg \ DOMAIN c.inReg ->
            {<<d, c.outReg[msg.topicId]>> :
                d \in StoreInRegTopic(c, c.outReg[msg.topicId], msg.topicId)}
      [] OTHER -> {}

\* Mutant: every PUBLISH is taken for a new message.
AcceptQos2Always(c, msg, report) ==
    Handled([c EXCEPT !.lastRecvMsgId = msg.msgId],
            <<[type |-> "PUBREC", msgId |-> msg.msgId]>>, report)

\* A message of QoS 2 is reported when it first arrives.
AcceptQos2(c, msg, report) ==
    LET pubrec == <<[type |-> "PUBREC", msgId |-> msg.msgId]>>
        repeated == c.lastRecvMsgId # 0 /\ c.lastRecvMsgId = msg.msgId
    IN CASE ~ repeated -> Handled([c EXCEPT !.lastRecvMsgId = msg.msgId], pubrec, report)
         [] repeated /\ ~ msg.dup -> Handled(c, << >>, << >>)
         [] repeated /\ msg.dup -> Handled(c, pubrec, << >>)

HandlePublish(c, msg) ==
    LET Puback(code) == <<[type |-> "PUBACK", topicId |-> msg.topicId,
                           msgId |-> msg.msgId, code |-> code]>>
        Report(topic) == <<[n |-> msg.m.n, topic |-> topic]>>
        Accept(d, topic) ==
            CASE topic \in Unsubscribed -> Handled(d, << >>, << >>)
              [] topic \notin Unsubscribed /\ msg.m.qos = 0 -> Handled(d, << >>, Report(topic))
              [] topic \notin Unsubscribed /\ msg.m.qos = 1 ->
                    Handled([d EXCEPT !.lastRecvMsgId = 0], Puback("Accepted"), Report(topic))
              [] topic \notin Unsubscribed /\ msg.m.qos = 2 -> AcceptQos2(d, msg, Report(topic))
    IN CASE MaxQos < msg.m.qos -> {Handled(c, Puback("NotSupported"), << >>)}
         [] msg.m.qos <= MaxQos /\ Known(c, msg) = {} ->
               {Handled(c, Puback("InvalidTopicId"), << >>)}
         [] msg.m.qos <= MaxQos /\ Known(c, msg) # {} ->
               {Accept(k[1], k[2]) : k \in Known(c, msg)}

HandlePubrel(c, msg) ==
    Handled([c EXCEPT !.lastRecvMsgId = IF @ = msg.msgId THEN 0 ELSE @],
            <<[type |-> "PUBCOMP", msgId |-> msg.msgId]>>, << >>)
=============================================================================
