----------------------------- MODULE ClientOps ------------------------------
(***************************************************************************)
(* The client library's requests to a connected gateway: SendOp (publish), *)
(* SubscribeOp and UnsubscribeOp, with the packet ids and the topics they  *)
(* share through ClientImpl.                                               *)
(*                                                                         *)
(* The client is a record u: ops is m_ops without the other operations,    *)
(* ids and lastId the packet ids, outReg maps topics to ids, inReg ids to  *)
(* topics, filters is m_subFilters.  out and done are what a step sent to  *)
(* the gateway and reported to the application.                            *)
(***************************************************************************)
EXTENDS Integers, Sequences, FiniteSetsExt

CONSTANTS
    Topic,            \* topics; a filter is one of them
    Predefined,       \* predefined ids, of some of them
    Short,            \* ids of those with a name of two characters: the name itself
    MaxTopicId,       \* topic ids are 1 .. MaxTopicId
    MaxPacketId,      \* the largest packet id, 0xFFFE
    RetryCount,       \* m_retryCount
    OutRegTopicsLimit \* m_outRegTopicsLimit

\* With a limit of 1 there is no choice of what to forget; inReg has no limit here.
ASSUME ClientOpsAssumption ==
    /\ DOMAIN Predefined \cup DOMAIN Short \subseteq Topic
    /\ DOMAIN Predefined \cap DOMAIN Short = {}
    /\ RetryCount \in Nat /\ MaxPacketId \in Nat /\ MaxTopicId \in Nat
    /\ OutRegTopicsLimit = 1 \/ OutRegTopicsLimit >= Cardinality(Topic)

InitClient(lastId) ==
    [ops |-> << >>, ids |-> {}, lastId |-> lastId, outReg |-> << >>, inReg |-> << >>,
     filters |-> {}, out |-> << >>, done |-> << >>]

\* The first of some positions, 0 if there is none.
FindIf(positions) == IF positions = {} THEN 0 ELSE Min(positions)
Erase(s, i) == SubSeq(s, 1, i - 1) \o SubSeq(s, i + 1, Len(s))

\* Operations that are issued one after another.
Lane(type) == IF type = "Send" THEN {"Send"} ELSE {"Subscribe", "Unsubscribe"}
First(u, lane) == FindIf({i \in DOMAIN u.ops : u.ops[i].type \in lane})

NewOp(req, suspended) ==
    [key |-> req.key, type |-> req.type, n |-> req.n, topic |-> req.topic, qos |-> req.qos,
     stage |-> "Publish", topicId |-> 0, registerId |-> 0, msgId |-> 0,
     retries |-> RetryCount, fullRetries |-> RetryCount, suspended |-> suspended, timed |-> FALSE]

With(f, x, y) == [z \in DOMAIN f \cup {x} |-> IF z = x THEN y ELSE f[z]]
Except(f, X) == [z \in DOMAIN f \ X |-> f[z]]

-----------------------------------------------------------------------------
(* Packet ids and topics. *)

\* The next free id after the last one, which is lastId then.
AllocPacketId(u) ==
    LET free == (1 .. MaxPacketId) \ u.ids
        above == {i \in free : i > u.lastId}
        id == IF above # {} THEN Min(above) ELSE Min(free)
    IN [u EXCEPT !.ids = @ \cup {id}, !.lastId = id]

AllocPacketIdsInternal(u, i) ==
    LET Register(v) == IF u.ops[i].stage # "Register" THEN v
                       ELSE LET w == AllocPacketId(v)
                            IN [w EXCEPT !.ops[i].registerId = w.lastId]
        Publish(v) == IF u.ops[i].qos = 0 THEN v
                      ELSE LET w == AllocPacketId(v) IN [w EXCEPT !.ops[i].msgId = w.lastId]
    IN Publish(Register(u))

\* Mutant: the id of REGISTER is not released.
ReleasePublishIdOnly(u, i) == [u EXCEPT !.ids = @ \ {u.ops[i].msgId}]

ReleasePacketIdsInternal(u, i) ==
    [u EXCEPT !.ids = @ \ {u.ops[i].registerId, u.ops[i].msgId}]

StoreOutRegTopic(u, topic, id) ==
    LET full == topic \notin DOMAIN u.outReg /\ Cardinality(DOMAIN u.outReg) >= OutRegTopicsLimit
    IN [u EXCEPT !.outReg = With(IF full THEN << >> ELSE @, topic, id)]

\* The id the gateway uses for a topic, if it told one; 0 if not.
FindInRegTopicId(u, topic) ==
    LET ids == {id \in DOMAIN u.inReg : u.inReg[id] = topic}
    IN IF ids = {} THEN 0 ELSE Min(ids)

StoreInRegTopic(u, topic, id) == [u EXCEPT !.inReg = With(@, id, topic)]

\* By its id if it is given as one, else by its name.
RemoveInRegTopic(u, named) ==
    [u EXCEPT !.inReg = Except(@, {IF named.topicId # 0 THEN named.topicId
                                   ELSE FindInRegTopicId(u, named.topic)})]

\* How a request gives its topic: as an id, or by its name.
IsShortTopic(topic) == topic \in DOMAIN Short
NamedBy(topic) ==
    CASE topic \in DOMAIN Predefined -> [idType |-> "Predefined", topicId |-> Predefined[topic]]
      [] IsShortTopic(topic) -> [idType |-> "Short", topicId |-> Short[topic]]
      [] OTHER -> [idType |-> "Normal", topicId |-> 0, topic |-> topic]

-----------------------------------------------------------------------------
(* Sending, completion and what waits. *)

RegisterMsg(op) == [type |-> "REGISTER", topic |-> op.topic, msgId |-> op.registerId]
PublishMsg(op) ==
    [type |-> "PUBLISH", n |-> op.n, topicId |-> op.topicId, qos |-> op.qos, msgId |-> op.msgId]
PubrelMsg(op) == [type |-> "PUBREL", msgId |-> op.msgId]
SubscribeMsg(op) == [type |-> "SUBSCRIBE", named |-> NamedBy(op.topic), msgId |-> op.msgId]
UnsubscribeMsg(op) == [type |-> "UNSUBSCRIBE", named |-> NamedBy(op.topic), msgId |-> op.msgId]

Message(op) ==
    CASE op.type = "Subscribe" -> SubscribeMsg(op)
      [] op.type = "Unsubscribe" -> UnsubscribeMsg(op)
      [] op.type = "Send" /\ op.stage = "Register" -> RegisterMsg(op)
      [] op.type = "Send" /\ op.stage = "Publish" -> PublishMsg(op)
      [] op.type = "Send" /\ op.stage = "Acked" -> PubrelMsg(op)

\* The operation is destroyed, which releases its ids, and reported.
Finish(u, i, result) ==
    [ReleasePacketIdsInternal(u, i) EXCEPT
        !.ops = Erase(@, i), !.done = Append(@, [key |-> u.ops[i].key, result |-> result])]

\* A message of QoS 0 is done when it is sent.
Transmit(u, i) ==
    LET v == [u EXCEPT !.out = Append(@, Message(u.ops[i])), !.ops[i].timed = TRUE]
    IN IF u.ops[i].type = "Send" /\ u.ops[i].stage = "Publish" /\ u.ops[i].qos = 0
       THEN Finish(v, i, "Complete") ELSE v

\* Mutant: what waits is not resumed.
ResumeNone(u, lane) == u

\* The oldest operation of the lane is resumed; if it is done at once, the next.
Resume(u, lane) ==
    LET Step(v, op) ==
            LET i == First(v, lane) IN
            IF i = 0 \/ v.ops[i].key # op.key \/ ~ op.suspended THEN v
            ELSE Transmit([v EXCEPT !.ops[i].suspended = FALSE], i)
        after[j \in 0 .. Len(u.ops)] == IF j = 0 THEN u ELSE Step(after[j - 1], u.ops[j])
    IN after[Len(u.ops)]

CompleteOpInternal(u, i, result) == Resume(Finish(u, i, result), Lane(u.ops[i].type))

SendInternal(u, i) ==
    IF u.ops[i].suspended THEN u ELSE Resume(Transmit(u, i), Lane(u.ops[i].type))

Again(u, i, stage) ==
    SendInternal([u EXCEPT !.ops[i].stage = stage, !.ops[i].retries = RetryCount], i)

\* Mutant: the last timeout is not reported.
TimeoutInternalStuck(u, i) ==
    IF u.ops[i].retries = 0 THEN [u EXCEPT !.ops[i].timed = FALSE]
    ELSE SendInternal([u EXCEPT !.ops[i].retries = @ - 1, !.ops[i].timed = FALSE], i)

TimeoutInternal(u, i) ==
    IF u.ops[i].retries = 0 THEN CompleteOpInternal(u, i, "Timeout")
    ELSE SendInternal([u EXCEPT !.ops[i].retries = @ - 1, !.ops[i].timed = FALSE], i)

-----------------------------------------------------------------------------
(* Requests. *)

\* Mutant: a second publish does not wait for the first.
PublishPrepareNow(u, req) == [u EXCEPT !.ops = Append(@, NewOp(req, FALSE))]

PublishPrepare(u, req) ==
    [u EXCEPT !.ops = Append(@, NewOp(req, First(u, {"Send"}) # 0))]
SubscribePrepare(u, req) ==
    [u EXCEPT !.ops = Append(@, NewOp(req, First(u, Lane("Subscribe")) # 0))]
UnsubscribePrepare(u, req) ==
    [u EXCEPT !.ops = Append(@, NewOp(req, First(u, Lane("Unsubscribe")) # 0))]

\* config of a publish: the id of its topic, or registration first.
PublishConfig(u, i) ==
    LET topic == u.ops[i].topic
        own == topic \in DOMAIN u.outReg
        named == NamedBy(topic)
        id == CASE named.topicId # 0 -> named.topicId
                [] named.topicId = 0 /\ own -> u.outReg[topic]
                [] named.topicId = 0 /\ ~ own -> FindInRegTopicId(u, topic)
        v == IF named.topicId # 0 \/ own \/ id = 0 THEN u ELSE StoreOutRegTopic(u, topic, id)
    IN [v EXCEPT !.ops[i].topicId = id,
                 !.ops[i].stage = IF id = 0 THEN "Register" ELSE "Publish"]

PublishSend(u, i) == SendInternal(AllocPacketIdsInternal(u, i), i)

\* Both take an id whatever the QoS.
SubscribeSend(u, i) ==
    LET v == AllocPacketId(u) IN SendInternal([v EXCEPT !.ops[i].msgId = v.lastId], i)

\* What is verified of a filter to unsubscribe from.
UnsubscribeConfigured(u, topic) == topic \in u.filters

\* The ids are forgotten when the request is made, and so is the filter if it has a
\* predefined id; one given by its name is erased only if it is not the one asked
\* for, one given by a short name is looked for as an id.
UnsubscribeSend(u, i) ==
    LET v == AllocPacketId(u)
        topic == u.ops[i].topic
        w == RemoveInRegTopic(SendInternal([v EXCEPT !.ops[i].msgId = v.lastId], i),
                              NamedBy(topic))
    IN [w EXCEPT !.filters = @ \ ({topic} \cap DOMAIN Predefined)]

\* There is no callback.
Cancel(u, i) == CompleteOpInternal(u, i, "Cancelled")

-----------------------------------------------------------------------------
(* Answers. *)

\* The operation an answer is for, if it is not suspended.
Answered(u, P(_)) == FindIf({i \in DOMAIN u.ops : ~ u.ops[i].suspended /\ P(u.ops[i])})

HandleRegack(u, msg) ==
    LET i == Answered(u, LAMBDA op : op.type = "Send" /\ op.stage = "Register"
                                     /\ op.registerId = msg.msgId)
    IN CASE i = 0 -> u
         [] i # 0 /\ msg.code # "Accepted" -> CompleteOpInternal(u, i, "Rejected")
         [] i # 0 /\ msg.code = "Accepted" ->
               LET v == StoreOutRegTopic(u, u.ops[i].topic, msg.topicId)
               IN Again([v EXCEPT !.ops[i].topicId = msg.topicId], i, "Publish")

\* The publish whose topic id is not known registers its topic and starts again.
PublishAcked(u, i, msg) ==
    LET op == u.ops[i]
        mine == /\ ~ op.suspended /\ op.stage # "Register" /\ op.topicId = msg.topicId
                /\ msg.code = "Accepted" => op.qos = 1
        again == /\ msg.code = "InvalidTopicId" /\ op.fullRetries > 0
                 /\ NamedBy(op.topic).idType = "Normal"
        v == ReleasePacketIdsInternal([u EXCEPT !.ops[i].fullRetries = @ - 1,
                                                !.ops[i].stage = "Register"], i)
    IN IF ~ mine THEN u
       ELSE IF again THEN Again(AllocPacketIdsInternal(v, i), i, "Register")
       ELSE CompleteOpInternal(u, i, IF msg.code = "Accepted" THEN "Complete" ELSE "Rejected")

\* An id the gateway does not know is forgotten.
HandlePuback(u, msg) ==
    LET i == FindIf({j \in DOMAIN u.ops : u.ops[j].type = "Send" /\ u.ops[j].msgId = msg.msgId})
        v == IF msg.code # "InvalidTopicId" THEN u
             ELSE [u EXCEPT !.outReg = Except(@, {t \in DOMAIN @ : u.outReg[t] = msg.topicId})]
    IN IF i = 0 THEN v ELSE PublishAcked(v, i, msg)

\* Mutant: any PUBREC is taken for the one that is waited for.
HandlePubrecAny(u, msg) ==
    LET i == Answered(u, LAMBDA op : op.type = "Send" /\ op.stage # "Register" /\ op.qos = 2)
    IN IF i = 0 THEN u ELSE Again(u, i, "Acked")

HandlePubrec(u, msg) ==
    LET i == Answered(u, LAMBDA op : op.type = "Send" /\ op.stage # "Register"
                                     /\ op.msgId = msg.msgId /\ op.qos = 2)
    IN IF i = 0 THEN u ELSE Again(u, i, "Acked")

HandlePubcomp(u, msg) ==
    LET i == Answered(u, LAMBDA op : op.type = "Send" /\ op.stage = "Acked" /\ op.msgId = msg.msgId)
    IN IF i = 0 THEN u ELSE CompleteOpInternal(u, i, "Complete")

\* Mutant: any SUBACK is taken for the one that is waited for.
HandleSubackAny(u, msg) ==
    LET i == Answered(u, LAMBDA op : op.type = "Subscribe")
    IN IF i = 0 THEN u
       ELSE CompleteOpInternal([u EXCEPT !.filters = @ \cup {u.ops[i].topic}], i,
                               IF msg.code = "Accepted" THEN "Complete" ELSE "Rejected")

\* Whatever the code, the filter counts as subscribed and the id is remembered.
HandleSuback(u, msg) ==
    LET i == Answered(u, LAMBDA op : op.type = "Subscribe" /\ op.msgId = msg.msgId)
        topic == u.ops[i].topic
        v == IF msg.topicId # 0 /\ topic \notin DOMAIN Predefined
             THEN StoreInRegTopic(u, topic, msg.topicId) ELSE u
    IN IF i = 0 THEN u
       ELSE CompleteOpInternal([v EXCEPT !.filters = @ \cup {topic}], i,
                               IF msg.code = "Accepted" THEN "Complete" ELSE "Rejected")

HandleUnsuback(u, msg) ==
    LET i == Answered(u, LAMBDA op : op.type = "Unsubscribe" /\ op.msgId = msg.msgId)
    IN IF i = 0 THEN u ELSE CompleteOpInternal(u, i, "Complete")
=============================================================================
