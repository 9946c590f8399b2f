----------------------------- MODULE GwPubSend ------------------------------
(***************************************************************************)
(* Delivery from the gateway to its client: PubSend, which registers the   *)
(* topic of a message, sends it, repeats it and waits for its              *)
(* acknowledgements, one message at a time, and the end of PubRecv, which  *)
(* queues what the broker published.                                       *)
(*                                                                         *)
(* The operation is a record s of its members and of what it shares with   *)
(* the session: the queue m_brokerPubs, the topic ids of RegMgr and the    *)
(* datagrams sent.  Each handler is an operator from record to record; the *)
(* session's status and m_pendingClientDisconnect are its parameters.      *)
(***************************************************************************)
EXTENDS Naturals, Sequences, FiniteSets

CONSTANTS
    Topic,           \* topics the broker publishes on
    PredefinedTopic, \* the one with a predefined id, above the range, if any
    MaxTopicId,      \* ids 1 .. MaxTopicId are allocated; enough for every topic
    MsgIds,          \* number of message ids, 2^16
    RetryCount,      \* m_retryCount
    PubAccLimit      \* m_sleepPubAccLimit

ASSUME GwPubSendAssumption ==
    /\ PredefinedTopic \subseteq Topic /\ Cardinality(PredefinedTopic) <= 1
    /\ MaxTopicId \in Nat \ {0}
    /\ MsgIds \in Nat /\ MsgIds > 1
    /\ RetryCount \in Nat \ {0}
    /\ PubAccLimit \in Nat \ {0}

\* A message of the broker; n numbers them.
Message == [n : Nat \ {0}, topic : Topic, qos : 0 .. 2]
None == [n |-> 0, topic |-> "", qos |-> 0]

\* gaveUp: messages dropped unacknowledged.  topicGivenUp: history, a topic id
\* was allocated and its registration given up.
InitSend(firstMsgId) ==
    [curr |-> None, topicId |-> 0, newIns |-> FALSE, msgId |-> 0, attempt |-> 0,
     registerCount |-> 0, registered |-> FALSE, acked |-> FALSE, tick |-> FALSE,
     ping |-> FALSE, disconnectAlreadySent |-> FALSE, nextMsgId |-> firstMsgId,
     queue |-> << >>, reg |-> << >>, out |-> << >>, term |-> FALSE,
     gaveUp |-> {}, topicGivenUp |-> FALSE]

-----------------------------------------------------------------------------
(* What RegMgr does for PubSend, while ids last. *)

Largest(S) == CHOOSE x \in S : \A y \in S : y <= x
Smallest(S) == CHOOSE x \in S : \A y \in S : x <= y

UsedIds(reg) == {reg[t] : t \in DOMAIN reg} \cup {MaxTopicId + 1 : t \in PredefinedTopic}

\* The id after the largest, before the smallest, or in the first gap.
AllocTopicId(used) ==
    CASE used = {} -> 1
      [] used # {} /\ Largest(used) < MaxTopicId -> Largest(used) + 1
      [] used # {} /\ Largest(used) >= MaxTopicId /\ Smallest(used) > 1 ->
            Smallest({Smallest(used) - 1, MaxTopicId})
      [] OTHER -> Smallest((1 .. MaxTopicId) \ used)

IsNew(reg, topic) == topic \notin PredefinedTopic /\ topic \notin DOMAIN reg

MapTopic(s) ==
    LET topic == s.curr.topic
        new == IsNew(s.reg, topic)
        reg == IF ~ new THEN s.reg
               ELSE [t \in DOMAIN s.reg \cup {topic} |->
                        IF t = topic THEN AllocTopicId(UsedIds(s.reg)) ELSE s.reg[t]]
    IN [s EXCEPT !.reg = reg, !.newIns = new,
                 !.topicId = IF topic \in PredefinedTopic THEN MaxTopicId + 1
                             ELSE reg[topic]]

DiscardRegistration(s, id) ==
    [s EXCEPT !.reg = [t \in {u \in DOMAIN s.reg : s.reg[u] # id} |-> s.reg[t]]]

-----------------------------------------------------------------------------
(* Sending. *)

\* The count has the width of unsigned, the id in a message 16 bits.
AllocMsgId(s) == [s EXCEPT !.nextMsgId = @ + 1, !.msgId = (s.nextMsgId + 1) % MsgIds]

SendToClient(s, msg) == [s EXCEPT !.out = Append(@, msg)]
Armed(s) == [s EXCEPT !.tick = TRUE]

Completed(s) == [s EXCEPT !.curr = None]
GivenUp(s) ==
    [s EXCEPT !.curr = None, !.gaveUp = @ \cup {s.curr.n},
              !.topicGivenUp = @ \/ (s.newIns /\ ~ s.registered)]

RegisterMsg(s) ==
    [type |-> "REGISTER", topicId |-> s.topicId, msgId |-> s.msgId, topic |-> s.curr.topic]

\* A message of QoS 0 has no id.  predefined: the type of the topic id.  The
\* broker's own DUP is left out: the client looks at DUP in QoS 2 only, and a
\* message of QoS 2 reaches PubSend once.
PublishMsg(s, m, id, msgId, dup) ==
    [type |-> "PUBLISH", topicId |-> id, msgId |-> IF m.qos = 0 THEN 0 ELSE msgId,
     m |-> m, dup |-> dup, predefined |-> m.topic \in PredefinedTopic]

SendPubrel(s) == Armed(SendToClient(s, [type |-> "PUBREL", msgId |-> s.msgId]))

\* Mutant: the timer is not programmed after a REGISTER.
SendRegisterUntimed(s) == LET r == AllocMsgId(s) IN SendToClient(r, RegisterMsg(r))

SendRegister(s) == LET r == AllocMsgId(s) IN Armed(SendToClient(r, RegisterMsg(r)))

SendPublish(s) ==
    LET r == IF s.curr.qos > 0 /\ s.msgId = 0 THEN AllocMsgId(s) ELSE s
        sent == SendToClient(r, PublishMsg(r, r.curr, r.topicId, r.msgId, 1 < r.attempt))
    IN IF s.curr.qos = 0 THEN Completed(sent) ELSE Armed(sent)

\* doSend up to the checkSend that follows a message done with.
DoSend(s) ==
    LET t == [s EXCEPT !.attempt = @ + 1]
        register == s.newIns /\ ~ s.registered
    IN CASE RetryCount <= s.attempt -> GivenUp(s)
         [] s.attempt < RetryCount /\ register /\ RetryCount <= s.registerCount -> GivenUp(t)
         [] s.attempt < RetryCount /\ register /\ s.registerCount < RetryCount -> SendRegister(t)
         [] s.attempt < RetryCount /\ ~ register -> SendPublish(t)

SendCurrent(s) ==
    DoSend(AllocMsgId(MapTopic([s EXCEPT !.attempt = 0, !.registered = FALSE,
                                         !.acked = FALSE])))

\* The messages at the head of the queue that need no answer are sent at once;
\* the first of the others is the current one.  Every message takes an id.
NewSends(s, pending) ==
    LET waiting == {i \in DOMAIN s.queue : s.queue[i].qos > 0 \/ IsNew(s.reg, s.queue[i].topic)}
        k == IF waiting = {} THEN Len(s.queue) + 1 ELSE Smallest(waiting)
        Flushed(i) == LET f == MapTopic([s EXCEPT !.curr = s.queue[i]])
                      IN PublishMsg(f, f.curr, f.topicId, 0, FALSE)
        flushed == [s EXCEPT !.tick = FALSE, !.registerCount = 0,
                             !.nextMsgId = @ + (k - 1),
                             !.out = @ \o [i \in 1 .. k - 1 |-> Flushed(i)],
                             !.queue = SubSeq(@, k + 1, Len(@))]
        n == IF waiting = {} THEN flushed
             ELSE SendCurrent([flushed EXCEPT !.curr = s.queue[k]])
    IN CASE n.queue # << >> -> n
         [] n.queue = << >> /\ pending /\ ~ n.disconnectAlreadySent ->
               [SendToClient(n, [type |-> "DISCONNECT"]) EXCEPT
                   !.disconnectAlreadySent = TRUE, !.term = TRUE]
         [] n.queue = << >> /\ ~ pending /\ n.ping ->
               [SendToClient(n, [type |-> "PINGRESP"]) EXCEPT !.ping = FALSE]
         [] OTHER -> n

CheckSend(s, status, pending) ==
    LET send == /\ s.curr = None
                /\ \/ status = "Asleep" /\ s.ping
                   \/ status = "Connected" /\ (s.queue # << >> \/ pending)
    IN IF send THEN NewSends(s, pending) ELSE s

-----------------------------------------------------------------------------
(* The handlers. *)

\* Mutant: the queue is not looked at after a message was given up.
TickImplOnly(s, status, pending) ==
    LET t == [s EXCEPT !.tick = FALSE]
    IN CASE s.curr = None -> CheckSend(t, status, pending)
         [] s.curr # None /\ ~ s.acked -> DoSend(t)
         [] s.curr # None /\ s.acked /\ RetryCount <= s.attempt -> GivenUp(t)
         [] s.curr # None /\ s.acked /\ s.attempt < RetryCount ->
               SendPubrel([t EXCEPT !.attempt = @ + 1])

TickImpl(s, status, pending) ==
    LET t == [s EXCEPT !.tick = FALSE]
        next == CASE s.curr = None -> t
                  [] s.curr # None /\ ~ s.acked -> DoSend(t)
                  [] s.curr # None /\ s.acked /\ RetryCount <= s.attempt -> GivenUp(t)
                  [] s.curr # None /\ s.acked /\ s.attempt < RetryCount ->
                        SendPubrel([t EXCEPT !.attempt = @ + 1])
    IN CheckSend(next, status, pending)

HandleRegack(s, msg, status, pending) ==
    LET expected == s.curr # None /\ msg.topicId = s.topicId /\ msg.msgId = s.msgId
        t == [s EXCEPT !.tick = FALSE]
        next == IF msg.code # "Accepted" THEN GivenUp(t)
                ELSE DoSend(AllocMsgId([t EXCEPT !.attempt = 0, !.registered = TRUE,
                                                 !.registerCount = @ + 1]))
    IN IF expected THEN CheckSend(next, status, pending) ELSE s

\* Mutant: the topic id of an acknowledgement is not compared.
HandlePubackAnyId(s, msg, status, pending) ==
    IF s.curr # None THEN CheckSend(Completed([s EXCEPT !.tick = FALSE]), status, pending)
    ELSE s

HandlePuback(s, msg, status, pending) ==
    LET invalid == msg.code = "InvalidTopicId"
        d == IF invalid THEN DiscardRegistration(s, msg.topicId) ELSE s
        expected == /\ s.curr # None /\ msg.topicId = s.topicId /\ msg.msgId = s.msgId
                    /\ ~ (msg.code = "Accepted" /\ s.curr.qos = 2)
        t == [d EXCEPT !.tick = FALSE]
        next == CASE invalid -> SendCurrent(t)
                  [] msg.code = "Accepted" -> Completed(t)
                  [] OTHER -> GivenUp(t)
    IN IF expected THEN CheckSend(next, status, pending) ELSE d

HandlePubrec(s, msg) ==
    IF s.curr # None /\ msg.msgId = s.msgId
    THEN SendPubrel([s EXCEPT !.tick = FALSE, !.acked = TRUE, !.attempt = 0])
    ELSE s

\* Mutant: PUBCOMP completes whatever message is current.
HandlePubcompAnyId(s, msg, status, pending) ==
    IF s.curr # None THEN CheckSend(Completed([s EXCEPT !.tick = FALSE]), status, pending)
    ELSE s

HandlePubcomp(s, msg, status, pending) ==
    IF s.curr # None /\ msg.msgId = s.msgId
    THEN CheckSend(Completed([s EXCEPT !.tick = FALSE]), status, pending)
    ELSE s

HandlePingreq(s, status, pending) ==
    IF status = "Asleep" THEN CheckSend([s EXCEPT !.ping = TRUE], status, pending) ELSE s

\* PubRecv::addPubInfo: the oldest messages make room.
AddPubInfo(s, m) ==
    LET kept == IF PubAccLimit <= Len(s.queue)
                THEN SubSeq(s.queue, Len(s.queue) - PubAccLimit + 2, Len(s.queue))
                ELSE s.queue
    IN [s EXCEPT !.queue = Append(kept, m)]
=============================================================================
