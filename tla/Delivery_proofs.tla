--------------------------- MODULE Delivery_proofs ---------------------------
(***************************************************************************)
(* The retry timer of PubSend runs exactly while a message is being        *)
(* delivered, for any topics, limits, bounds and networks.                 *)
(***************************************************************************)
EXTENDS Delivery, SequenceTheorems, WellFoundedInduction, TLAPS

\* A sequence, of whatever it holds.
Entries(q) == {q[i] : i \in DOMAIN q}
IsSeq(q) == q \in Seq(Entries(q))

\* A queue of messages, none of which is None.
Queued(q) == IsSeq(q) /\ \A m \in Entries(q) : m.n # 0

\* The members the argument is about.
Members(s0) ==
    /\ {"curr", "tick", "queue", "attempt", "registerCount"} \subseteq DOMAIN s0
    /\ s0.attempt \in Nat /\ s0.registerCount \in Nat

Timed(s0) == Members(s0) /\ Queued(s0.queue) /\ s0.tick = (s0.curr # None)

\* No timer, and perhaps a message that is to be sent.
Untimed(s0) == Members(s0) /\ Queued(s0.queue) /\ s0.tick = FALSE

\* r differs from s0 in other members only.
Same(r, s0) ==
    /\ Members(r)
    /\ r.curr = s0.curr /\ r.tick = s0.tick /\ r.queue = s0.queue

-----------------------------------------------------------------------------
(* Queues. *)

LEMMA QueuedFrom ==
    ASSUME NEW A, NEW q \in Seq(A), \A m \in A : m.n # 0
    PROVE  Queued(q)
<1>1. q \in Seq(Entries(q))
  BY DEF Entries
<1>2. Entries(q) \subseteq A
  BY DEF Entries
<1> QED BY <1>1, <1>2, Zenon DEF Queued, IsSeq

LEMMA QueuedAppend ==
    ASSUME NEW q, Queued(q), NEW m, m.n # 0
    PROVE  Queued(Append(q, m))
<1>1. q \in Seq(Entries(q) \cup {m})
  BY DEF Queued, IsSeq
<1>2. Append(q, m) \in Seq(Entries(q) \cup {m})
  BY <1>1, AppendProperties, Zenon
<1>3. \A x \in Entries(q) \cup {m} : x.n # 0
  BY Zenon DEF Queued
<1> QED BY <1>2, <1>3, QueuedFrom, Zenon

LEMMA IsSeqAppend == ASSUME NEW q, IsSeq(q), NEW m PROVE IsSeq(Append(q, m)) /\ Len(q) + 1 # 0
<1>1. q \in Seq(Entries(q) \cup {m})
  BY DEF IsSeq
<1>2. Append(q, m) \in Seq(Entries(q) \cup {m})
  BY <1>1, AppendProperties, Zenon
<1> DEFINE r == Append(q, m)
<1> HIDE DEF r
<1>3. r \in Seq(Entries(r))
  BY <1>2 DEF Entries, r
<1>4. Len(q) \in Nat
  BY <1>1, LenProperties, Zenon
<1> QED BY <1>3, <1>4 DEF IsSeq, r

LEMMA QueuedSubSeq ==
    ASSUME NEW q, Queued(q), NEW a \in Nat \ {0}
    PROVE  Queued(SubSeq(q, a, Len(q)))
<1>1. q \in Seq(Entries(q))
  BY Zenon DEF Queued, IsSeq
<1>2. Len(q) \in Nat /\ \A i \in a .. Len(q) : q[i] \in Entries(q)
  BY <1>1, LenProperties, ElementOfSeq
<1>3. SubSeq(q, a, Len(q)) \in Seq(Entries(q))
  BY <1>1, <1>2, SubSeqProperties
<1>4. \A x \in Entries(q) : x.n # 0
  BY Zenon DEF Queued
<1> QED BY <1>3, <1>4, QueuedFrom, Zenon

-----------------------------------------------------------------------------
(* Sending. *)

LEMMA SmallSteps ==
    ASSUME NEW s0, Members(s0), NEW msg, NEW b
    PROVE  /\ Same(MapTopic(s0), s0) /\ Same(AllocMsgId(s0), s0)
           /\ Same(SendToClient(s0, msg), s0)
           /\ Same([s0 EXCEPT !.attempt = @ + 1], s0)
           /\ Same([s0 EXCEPT !.attempt = 0, !.registered = FALSE, !.acked = FALSE], s0)
           /\ Same([s0 EXCEPT !.attempt = 0, !.registered = TRUE, !.registerCount = @ + 1], s0)
<1>1. Same(MapTopic(s0), s0)
  BY Zenon DEF Same, Members, MapTopic
<1>2. Same(AllocMsgId(s0), s0)
  BY Zenon DEF Same, Members, AllocMsgId
<1>3. Same(SendToClient(s0, msg), s0)
  BY Zenon DEF Same, Members, SendToClient
<1>4. Same([s0 EXCEPT !.attempt = @ + 1], s0)
  BY DEF Same, Members
<1>5. Same([s0 EXCEPT !.attempt = 0, !.registered = FALSE, !.acked = FALSE], s0)
  BY Zenon DEF Same, Members
<1>6. Same([s0 EXCEPT !.attempt = 0, !.registered = TRUE, !.registerCount = @ + 1], s0)
  BY DEF Same, Members
<1> QED BY <1>1, <1>2, <1>3, <1>4, <1>5, <1>6, Zenon

LEMMA SendSame ==
    ASSUME NEW s0, Members(s0), NEW msg PROVE Same(SendToClient(s0, msg), s0)
BY SmallSteps, Zenon

LEMMA SameTwice ==
    ASSUME NEW a, NEW b, NEW c0, Same(a, b), Same(b, c0) PROVE Same(a, c0)
BY Zenon DEF Same

\* The message is done with, or given up.
LEMMA DoneTimed ==
    ASSUME NEW s0, Untimed(s0)
    PROVE  /\ Timed(Completed(s0)) /\ Completed(s0).queue = s0.queue
           /\ Timed(GivenUp(s0)) /\ GivenUp(s0).queue = s0.queue
<1>1. /\ Members(Completed(s0)) /\ Completed(s0).curr = None
      /\ Completed(s0).tick = FALSE /\ Completed(s0).queue = s0.queue
  BY Zenon DEF Untimed, Members, Completed
<1>2. /\ Members(GivenUp(s0)) /\ GivenUp(s0).curr = None
      /\ GivenUp(s0).tick = FALSE /\ GivenUp(s0).queue = s0.queue
  BY Zenon DEF Untimed, Members, GivenUp
<1> QED BY <1>1, <1>2, Zenon DEF Timed, Untimed

\* A message goes out that has to be answered.
LEMMA ArmedTimed ==
    ASSUME NEW s0, Members(s0), Queued(s0.queue), s0.curr # None
    PROVE  Timed(Armed(s0)) /\ Armed(s0).queue = s0.queue
<1>1. /\ Members(Armed(s0)) /\ Armed(s0).curr = s0.curr
      /\ Armed(s0).tick = TRUE /\ Armed(s0).queue = s0.queue
  BY Zenon DEF Members, Armed
<1> QED BY <1>1, Zenon DEF Timed

\* Whatever doSend does, it ends with the timer set or without a message.
LEMMA DoSendTimed ==
    ASSUME NEW s0, Untimed(s0), s0.curr # None
    PROVE  Timed(DoSend(s0)) /\ DoSend(s0).queue = s0.queue
<1> DEFINE t == [s0 EXCEPT !.attempt = @ + 1]
<1>1. Same(t, s0)
  BY SmallSteps, Zenon DEF Untimed
<1>2. DoSend(s0) \in {GivenUp(s0), GivenUp(t), SendRegister(t), SendPublish(t)}
  <2>1. s0.attempt \in Nat /\ s0.registerCount \in Nat /\ RetryCount \in Nat
    BY GwPubSendAssumption, Zenon DEF Untimed, Members
  <2>2. /\ RetryCount <= s0.attempt \/ s0.attempt < RetryCount
        /\ RetryCount <= s0.registerCount \/ s0.registerCount < RetryCount
    BY <2>1
  <2> QED BY <2>2, Zenon DEF DoSend
<1> HIDE DEF t
<1>3. Untimed(t) /\ t.curr # None /\ t.queue = s0.queue
  BY <1>1, Zenon DEF Untimed, Same
<1>4. Timed(SendRegister(t)) /\ SendRegister(t).queue = t.queue
  <2> DEFINE r == AllocMsgId(t)
             q == SendToClient(r, RegisterMsg(r))
  <2>1. Same(r, t)
    BY <1>3, SmallSteps, Zenon DEF Untimed
  <2> HIDE DEF r
  <2>2. Same(q, r)
    <3>1. Members(r)
      BY <2>1, Zenon DEF Same
    <3> QED BY <3>1, SendSame, Zenon
  <2>3. SendRegister(t) = Armed(q)
    BY Zenon DEF SendRegister, r
  <2> HIDE DEF q
  <2>4. Members(q) /\ Queued(q.queue) /\ q.curr # None /\ q.queue = t.queue
    BY <1>3, <2>1, <2>2, Zenon DEF Same, Untimed
  <2> QED BY <2>3, <2>4, ArmedTimed, Zenon
<1>5. Timed(SendPublish(t)) /\ SendPublish(t).queue = t.queue
  <2> DEFINE r == IF t.curr.qos > 0 /\ t.msgId = 0 THEN AllocMsgId(t) ELSE t
             q == SendToClient(r, PublishMsg(r, r.curr, r.topicId, r.msgId, 1 < r.attempt))
  <2>1. Same(r, t)
    <3>1. Same(t, t) /\ Same(AllocMsgId(t), t)
      BY <1>3, SmallSteps, Zenon DEF Same, Untimed
    <3> QED BY <3>1, Zenon
  <2> HIDE DEF r
  <2>2. Same(q, r)
    <3>1. Members(r)
      BY <2>1, Zenon DEF Same
    <3> QED BY <3>1, SendSame, Zenon
  <2>3. SendPublish(t) \in {Completed(q), Armed(q)}
    BY Zenon DEF SendPublish, r
  <2> HIDE DEF q
  <2>4. Members(q) /\ Queued(q.queue) /\ q.curr # None /\ q.queue = t.queue /\ q.tick = FALSE
    BY <1>3, <2>1, <2>2, Zenon DEF Same, Untimed
  <2> QED BY <2>3, <2>4, ArmedTimed, DoneTimed, Zenon DEF Untimed
<1> QED BY <1>2, <1>3, <1>4, <1>5, DoneTimed, Zenon

LEMMA SendCurrentTimed ==
    ASSUME NEW s0, Untimed(s0), s0.curr # None
    PROVE  Timed(SendCurrent(s0))
<1> DEFINE a == [s0 EXCEPT !.attempt = 0, !.registered = FALSE, !.acked = FALSE]
           b == MapTopic(a)
           d == AllocMsgId(b)
<1>1. SendCurrent(s0) = DoSend(d)
  BY Zenon DEF SendCurrent
<1>2. Same(a, s0)
  BY SmallSteps, Zenon DEF Untimed
<1> HIDE DEF a
<1>3. Same(b, a)
  BY <1>2, SmallSteps, Zenon DEF Same
<1> HIDE DEF b
<1>4. Same(d, b)
  BY <1>3, SmallSteps, Zenon DEF Same
<1> HIDE DEF d
<1>5. Untimed(d) /\ d.curr # None
  BY <1>2, <1>3, <1>4, Zenon DEF Same, Untimed
<1> QED BY <1>1, <1>5, DoSendTimed, Zenon

\* The first message that has to be answered.
LEMMA SmallestIn ==
    ASSUME NEW n \in Nat, NEW S \in SUBSET (1 .. n), S # {}
    PROVE  Smallest(S) \in S
<1>1. PICK x \in S : \A y \in S : ~ (<<y, x>> \in OpToRel(<, Nat))
  <2>1. S \in SUBSET Nat
    OBVIOUS
  <2> QED BY <2>1, NatLessThanWellFounded, WFMin, Zenon
<1>2. ASSUME NEW y \in S PROVE x <= y
  <2>1. y < x => <<y, x>> \in OpToRel(<, Nat)
    <3>1. <<y, x>> \in Nat \X Nat
      OBVIOUS
    <3>2. <<y, x>>[1] = y /\ <<y, x>>[2] = x
      BY Zenon
    <3> QED BY <3>1, <3>2, Zenon DEF OpToRel
  <2>2. ~ (y < x)
    BY <1>1, <2>1, Zenon
  <2> QED BY <2>2
<1> QED BY <1>2, Zenon DEF Smallest

\* A queue is looked at when no message is being delivered.
LEMMA NewSendsTimed ==
    ASSUME NEW s0, Timed(s0), s0.curr = None, NEW pending
    PROVE  Timed(NewSends(s0, pending))
<1> DEFINE waiting == {i \in DOMAIN s0.queue : s0.queue[i].qos > 0 \/ IsNew(s0.reg, s0.queue[i].topic)}
           k == IF waiting = {} THEN Len(s0.queue) + 1 ELSE Smallest(waiting)
           Flushed(i) == LET f == MapTopic([s0 EXCEPT !.curr = s0.queue[i]])
                         IN PublishMsg(f, f.curr, f.topicId, 0, FALSE)
           flushed == [s0 EXCEPT !.tick = FALSE, !.registerCount = 0,
                                 !.nextMsgId = @ + (k - 1),
                                 !.out = @ \o [i \in 1 .. k - 1 |-> Flushed(i)],
                                 !.queue = SubSeq(@, k + 1, Len(@))]
           n == IF waiting = {} THEN flushed
                ELSE SendCurrent([flushed EXCEPT !.curr = s0.queue[k]])
           dis == [SendToClient(n, [type |-> "DISCONNECT"]) EXCEPT
                      !.disconnectAlreadySent = TRUE, !.term = TRUE]
           resp == [SendToClient(n, [type |-> "PINGRESP"]) EXCEPT !.ping = FALSE]
<1>1. NewSends(s0, pending) \in {n, dis, resp}
  <2>1. NewSends(s0, pending) =
          CASE n.queue # << >> -> n
            [] n.queue = << >> /\ pending /\ ~ n.disconnectAlreadySent -> dis
            [] n.queue = << >> /\ ~ pending /\ n.ping -> resp
            [] OTHER -> n
    BY Zenon DEF NewSends
  <2> HIDE DEF n, dis, resp
  <2> QED BY <2>1, Zenon
<1>2. Queued(s0.queue) /\ Members(s0) /\ DOMAIN s0.queue = 1 .. Len(s0.queue) /\ Len(s0.queue) \in Nat
  BY LenProperties, Zenon DEF Timed, Queued, IsSeq
<1>3. waiting # {} => Smallest(waiting) \in waiting
  BY <1>2, SmallestIn, Zenon
<1>4. k \in Nat \ {0} /\ (waiting # {} => k \in DOMAIN s0.queue)
  <2>1. waiting \subseteq DOMAIN s0.queue
    BY Zenon
  <2> HIDE DEF waiting
  <2> QED BY <1>2, <1>3, <2>1
<1> HIDE DEF k, waiting
<1>5. Queued(SubSeq(s0.queue, k + 1, Len(s0.queue)))
  <2>1. k + 1 \in Nat \ {0}
    BY <1>4
  <2> QED BY <1>2, <2>1, QueuedSubSeq, Zenon
<1>6. /\ Members(flushed) /\ flushed.tick = FALSE /\ flushed.curr = None
      /\ flushed.queue = SubSeq(s0.queue, k + 1, Len(s0.queue))
  BY <1>2, Zenon DEF Members
<1> HIDE DEF flushed
<1>7. Timed(n)
  <2>1. CASE waiting = {}
    BY <1>5, <1>6, <2>1, Zenon DEF Timed
  <2>2. CASE waiting # {}
    <3> DEFINE m == s0.queue[k]
               e == [flushed EXCEPT !.curr = m]
    <3>1. m # None
      <4>1. m \in Entries(s0.queue)
        BY <1>4, <2>2, Zenon DEF Entries
      <4>2. m.n # 0
        BY <1>2, <4>1, Zenon DEF Queued
      <4>3. None.n = 0
        BY Zenon DEF None
      <4> QED BY <4>2, <4>3, Zenon
    <3> HIDE DEF m
    <3>2. Untimed(e) /\ e.curr # None
      <4>1. Members(e) /\ e.tick = FALSE /\ e.curr = m /\ e.queue = flushed.queue
        BY <1>6, Zenon DEF Members
      <4> QED BY <1>5, <1>6, <3>1, <4>1, Zenon DEF Untimed
    <3> HIDE DEF e
    <3>3. n = SendCurrent(e)
      BY <2>2, Zenon DEF e, m
    <3> QED BY <3>2, <3>3, SendCurrentTimed, Zenon
  <2> QED BY <2>1, <2>2, Zenon
<1> HIDE DEF n
<1>8. Timed(dis) /\ Timed(resp)
  <2>1. Same(SendToClient(n, [type |-> "DISCONNECT"]), n) /\ Same(SendToClient(n, [type |-> "PINGRESP"]), n)
    BY <1>7, SmallSteps, Zenon DEF Timed
  <2>2. Same(dis, SendToClient(n, [type |-> "DISCONNECT"])) /\ Same(resp, SendToClient(n, [type |-> "PINGRESP"]))
    BY <2>1, Zenon DEF Same, Members
  <2>3. Same(dis, n) /\ Same(resp, n)
    BY <2>1, <2>2, SameTwice, Zenon
  <2> HIDE DEF dis, resp
  <2> QED BY <1>7, <2>3, Zenon DEF Timed, Same
<1> QED BY <1>1, <1>7, <1>8, Zenon

LEMMA CheckSendTimed ==
    ASSUME NEW s0, Timed(s0), NEW status, NEW pending
    PROVE  Timed(CheckSend(s0, status, pending))
BY NewSendsTimed, Zenon DEF CheckSend

-----------------------------------------------------------------------------
(* The handlers. *)

LEMMA Stopped0 ==
    ASSUME NEW s0, Members(s0), Queued(s0.queue)
    PROVE  LET t == [s0 EXCEPT !.tick = FALSE] IN
           Untimed(t) /\ t.curr = s0.curr /\ t.queue = s0.queue
BY Zenon DEF Members, Untimed

LEMMA SendPubrelTimed ==
    ASSUME NEW s0, Untimed(s0), s0.curr # None
    PROVE  Timed(SendPubrel(s0))
<1> DEFINE q == SendToClient(s0, [type |-> "PUBREL", msgId |-> s0.msgId])
<1>1. Same(q, s0)
  BY SmallSteps, Zenon DEF Untimed
<1> HIDE DEF q
<1>2. Members(q) /\ Queued(q.queue) /\ q.curr # None
  BY <1>1, Zenon DEF Same, Untimed
<1> QED BY <1>2, ArmedTimed, Zenon DEF SendPubrel, q

LEMMA TickImplTimed ==
    ASSUME NEW s0, Timed(s0), NEW status, NEW pending
    PROVE  Timed(TickImpl(s0, status, pending))
<1> DEFINE t == [s0 EXCEPT !.tick = FALSE]
           u == [t EXCEPT !.attempt = @ + 1]
           next == CASE s0.curr = None -> t
                     [] s0.curr # None /\ ~ s0.acked -> DoSend(t)
                     [] s0.curr # None /\ s0.acked /\ RetryCount <= s0.attempt -> GivenUp(t)
                     [] s0.curr # None /\ s0.acked /\ s0.attempt < RetryCount -> SendPubrel(u)
<1>1. Untimed(t) /\ t.curr = s0.curr
  BY Stopped0, Zenon DEF Timed
<1>2. TickImpl(s0, status, pending) = CheckSend(next, status, pending)
  BY Zenon DEF TickImpl
<1> HIDE DEF t
<1>3. Untimed(u) /\ u.curr = s0.curr
  BY <1>1, SmallSteps, Zenon DEF Untimed, Same
<1> HIDE DEF u
<1>4. CASE s0.curr = None
  <2>1. next = t
    BY <1>4, Zenon
  <2>2. Timed(t)
    BY <1>1, <1>4, Zenon DEF Timed, Untimed
  <2> QED BY <1>2, <2>1, <2>2, CheckSendTimed, Zenon
<1>5. CASE s0.curr # None /\ ~ s0.acked
  <2>1. next = DoSend(t)
    BY <1>5, Zenon
  <2> QED BY <1>1, <1>2, <1>5, <2>1, CheckSendTimed, DoSendTimed, Zenon
<1>6. CASE s0.curr # None /\ s0.acked /\ RetryCount <= s0.attempt
  <2>1. next = GivenUp(t)
    BY <1>6, GwPubSendAssumption DEF Timed, Members
  <2> QED BY <1>1, <1>2, <1>6, <2>1, CheckSendTimed, DoneTimed, Zenon
<1>7. CASE s0.curr # None /\ s0.acked /\ ~ (RetryCount <= s0.attempt)
  <2>1. s0.attempt < RetryCount
    BY <1>7, GwPubSendAssumption DEF Timed, Members
  <2>2. next = SendPubrel(u)
    BY <1>7, <2>1, Zenon
  <2> QED BY <1>2, <1>3, <1>7, <2>2, CheckSendTimed, SendPubrelTimed, Zenon
<1> QED BY <1>4, <1>5, <1>6, <1>7, Zenon

LEMMA HandleRegackTimed ==
    ASSUME NEW s0, Timed(s0), NEW msg, NEW status, NEW pending
    PROVE  Timed(HandleRegack(s0, msg, status, pending))
<1> DEFINE t == [s0 EXCEPT !.tick = FALSE]
           u == [t EXCEPT !.attempt = 0, !.registered = TRUE, !.registerCount = @ + 1]
           a == AllocMsgId(u)
<1>1. Untimed(t) /\ t.curr = s0.curr
  BY Stopped0, Zenon DEF Timed
<1>2. \/ HandleRegack(s0, msg, status, pending) = s0
      \/ /\ s0.curr # None
         /\ \/ HandleRegack(s0, msg, status, pending) = CheckSend(GivenUp(t), status, pending)
            \/ HandleRegack(s0, msg, status, pending) = CheckSend(DoSend(a), status, pending)
  BY Zenon DEF HandleRegack
<1> HIDE DEF t
<1>3. Same(u, t)
  BY <1>1, SmallSteps, Zenon DEF Untimed
<1> HIDE DEF u
<1>4. Same(a, u)
  BY <1>3, SmallSteps, Zenon DEF Same
<1> HIDE DEF a
<1>5. Untimed(a) /\ a.curr = s0.curr
  BY <1>1, <1>3, <1>4, Zenon DEF Untimed, Same
<1> QED BY <1>1, <1>2, <1>5, CheckSendTimed, DoneTimed, DoSendTimed, SMTT(20)

LEMMA HandlePubackTimed ==
    ASSUME NEW s0, Timed(s0), NEW msg, NEW status, NEW pending
    PROVE  Timed(HandlePuback(s0, msg, status, pending))
<1> DEFINE d == IF msg.code = "InvalidTopicId" THEN DiscardRegistration(s0, msg.topicId) ELSE s0
           t == [d EXCEPT !.tick = FALSE]
           next == CASE msg.code = "InvalidTopicId" -> SendCurrent(t)
                     [] msg.code = "Accepted" -> Completed(t)
                     [] OTHER -> GivenUp(t)
<1>1. Same(d, s0)
  <2>1. Same(s0, s0) /\ Same(DiscardRegistration(s0, msg.topicId), s0)
    BY Zenon DEF Same, Members, Timed, DiscardRegistration
  <2> QED BY <2>1, Zenon
<1>2. \/ HandlePuback(s0, msg, status, pending) = d
      \/ s0.curr # None /\ HandlePuback(s0, msg, status, pending) = CheckSend(next, status, pending)
  BY Zenon DEF HandlePuback
<1>3. next \in {SendCurrent(t), Completed(t), GivenUp(t)}
  <2> HIDE DEF t
  <2> QED BY Zenon
<1> HIDE DEF next, d
<1>4. Timed(d)
  BY <1>1, Zenon DEF Timed, Same
<1>5. Untimed(t) /\ t.curr = s0.curr
  BY <1>1, <1>4, Stopped0, Zenon DEF Timed, Same
<1> HIDE DEF t
<1> QED BY <1>2, <1>3, <1>4, <1>5, CheckSendTimed, DoneTimed, SendCurrentTimed, Zenon

LEMMA HandlePubrecTimed ==
    ASSUME NEW s0, Timed(s0), NEW msg
    PROVE  Timed(HandlePubrec(s0, msg))
<1> DEFINE t == [s0 EXCEPT !.tick = FALSE, !.acked = TRUE, !.attempt = 0]
<1>1. Untimed(t) /\ t.curr = s0.curr
  <2>1. Members(t) /\ t.tick = FALSE /\ t.queue = s0.queue /\ t.curr = s0.curr
    BY Zenon DEF Timed, Members
  <2> QED BY <2>1, Zenon DEF Untimed, Timed
<1>2. \/ HandlePubrec(s0, msg) = s0
      \/ s0.curr # None /\ HandlePubrec(s0, msg) = SendPubrel(t)
  BY Zenon DEF HandlePubrec
<1> HIDE DEF t
<1> QED BY <1>1, <1>2, SendPubrelTimed, Zenon

LEMMA HandlePubcompTimed ==
    ASSUME NEW s0, Timed(s0), NEW msg, NEW status, NEW pending
    PROVE  Timed(HandlePubcomp(s0, msg, status, pending))
<1> DEFINE t == [s0 EXCEPT !.tick = FALSE]
<1>1. Untimed(t)
  BY Stopped0, Zenon DEF Timed
<1>2. \/ HandlePubcomp(s0, msg, status, pending) = s0
      \/ HandlePubcomp(s0, msg, status, pending) = CheckSend(Completed(t), status, pending)
  BY Zenon DEF HandlePubcomp
<1> HIDE DEF t
<1> QED BY <1>1, <1>2, CheckSendTimed, DoneTimed, Zenon

LEMMA HandlePingreqTimed ==
    ASSUME NEW s0, Timed(s0), NEW status, NEW pending
    PROVE  Timed(HandlePingreq(s0, status, pending))
<1> DEFINE t == [s0 EXCEPT !.ping = TRUE]
<1>1. Timed(t)
  <2>1. Same(t, s0)
    BY Zenon DEF Timed, Same, Members
  <2> QED BY <2>1 DEF Timed, Same
<1> HIDE DEF t
<1> QED BY <1>1, CheckSendTimed, Zenon DEF HandlePingreq, t

LEMMA AddPubInfoTimed ==
    ASSUME NEW s0, Timed(s0), NEW m, m.n # 0
    PROVE  Timed(AddPubInfo(s0, m))
<1> DEFINE kept == IF PubAccLimit <= Len(s0.queue)
                   THEN SubSeq(s0.queue, Len(s0.queue) - PubAccLimit + 2, Len(s0.queue))
                   ELSE s0.queue
           r == [s0 EXCEPT !.queue = Append(kept, m)]
<1>1. Queued(s0.queue) /\ Len(s0.queue) \in Nat /\ Members(s0)
  BY LenProperties, Zenon DEF Timed, Queued, IsSeq
<1>2. Queued(kept)
  <2>1. PubAccLimit <= Len(s0.queue) => Len(s0.queue) - PubAccLimit + 2 \in Nat \ {0}
    BY <1>1, GwPubSendAssumption
  <2> QED BY <1>1, <2>1, QueuedSubSeq, Zenon
<1>3. AddPubInfo(s0, m) = r
  BY Zenon DEF AddPubInfo
<1> HIDE DEF kept
<1>4. Queued(Append(kept, m))
  BY <1>2, QueuedAppend, Zenon
<1>5. Members(r) /\ r.curr = s0.curr /\ r.tick = s0.tick /\ r.queue = Append(kept, m)
  BY <1>1, Zenon DEF Members
<1> QED BY <1>3, <1>4, <1>5, Zenon DEF Timed

-----------------------------------------------------------------------------
(* The system. *)

TimerInv == Timed(s) /\ IsSeq(accepted)

LEMMA GwStepTimed ==
    ASSUME NEW t, Timed(t), GwStep(t)
    PROVE  Timed(s')
<1>1. Same([t EXCEPT !.out = << >>], t)
  BY Zenon DEF Timed, Same, Members
<1> QED BY <1>1, Zenon DEF GwStep, Timed, Same

LEMMA FromBrokerTimed ==
    ASSUME NEW t, Timed(t), FromBroker(t)
    PROVE  Timed(s')
BY CheckSendTimed, GwStepTimed, Zenon DEF FromBroker

LEMMA BrokerTimed ==
    ASSUME TimerInv, NEW topic, NEW qos, NEW id,
           \/ BrokerPublish(topic, qos) \/ BrokerPublish2(topic, id)
           \/ BrokerRepeats(id) \/ BrokerPubrel(id) \/ BrokerForgets
    PROVE  TimerInv'
<1>0. Timed(s) /\ IsSeq(accepted)
  BY Zenon DEF TimerInv
<1>1. CASE BrokerPublish(topic, qos)
  <2> DEFINE m == [n |-> Len(accepted) + 1, topic |-> topic, qos |-> qos]
  <2>1. m.n # 0
    BY <1>0, IsSeqAppend, Zenon
  <2>2. accepted' = Append(accepted, m) /\ FromBroker(AddPubInfo(s, m))
    BY <1>1, Zenon DEF BrokerPublish
  <2> HIDE DEF m
  <2> QED BY <1>0, <2>1, <2>2, AddPubInfoTimed, FromBrokerTimed, IsSeqAppend, Zenon DEF TimerInv
<1>2. CASE BrokerPublish2(topic, id) \/ BrokerRepeats(id) \/ BrokerForgets
  <2>1. FromBroker(s) /\ accepted' = accepted
    BY <1>2, Zenon DEF BrokerPublish2, BrokerRepeats, BrokerForgets
  <2> QED BY <1>0, <2>1, FromBrokerTimed, Zenon DEF TimerInv
<1>3. CASE BrokerPubrel(id)
  <2> DEFINE first == flows[id].n = 0
             n == IF first THEN Len(accepted) + 1 ELSE flows[id].n
             entry == Released(held, id)
             m == [n |-> n, topic |-> entry[1].topic, qos |-> 2]
             g == [s EXCEPT !.gaveUp = @ \cup {n}]
             new == [n |-> n, topic |-> flows[id].topic, qos |-> 2]
             t == CASE entry # << >> -> AddPubInfo(s, m)
                    [] entry = << >> /\ first -> g
                    [] entry = << >> /\ ~ first -> s
  <2>1. accepted' \in {accepted, Append(accepted, new)} /\ FromBroker(t)
    BY <1>3, Zenon DEF BrokerPubrel
  <2>2. n # 0
    BY <1>0, IsSeqAppend, Zenon
  <2> HIDE DEF n
  <2>3. m.n # 0
    BY <2>2, Zenon
  <2> HIDE DEF m
  <2>4. Timed(g)
    <3>1. Same(g, s)
      BY <1>0, Zenon DEF Timed, Same, Members
    <3> QED BY <1>0, <3>1 DEF Timed, Same
  <2>5. t \in {AddPubInfo(s, m), g, s}
    <3> HIDE DEF g, entry, first
    <3> QED BY Zenon
  <2> HIDE DEF t, g, new
  <2>6. Timed(t)
    BY <1>0, <2>3, <2>4, <2>5, AddPubInfoTimed, Zenon
  <2> QED BY <1>0, <2>1, <2>6, FromBrokerTimed, IsSeqAppend, Zenon DEF TimerInv
<1> QED BY <1>1, <1>2, <1>3, Zenon

LEMMA GwReceiveTimed ==
    ASSUME TimerInv, NEW i, GwReceive(i)
    PROVE  TimerInv'
<1> DEFINE msg == toGw[i]
           pending == m_pendingClientDisconnect
           t == CASE msg.type = "REGACK" -> HandleRegack(s, msg, connStatus, pending)
                  [] msg.type = "PUBACK" -> HandlePuback(s, msg, connStatus, pending)
                  [] msg.type = "PUBREC" -> HandlePubrec(s, msg)
                  [] msg.type = "PUBCOMP" -> HandlePubcomp(s, msg, connStatus, pending)
                  [] OTHER -> s
<1>1. GwStep(t) /\ accepted' = accepted
  BY Zenon DEF GwReceive
<1>2. t \in {HandleRegack(s, msg, connStatus, pending), HandlePuback(s, msg, connStatus, pending),
             HandlePubrec(s, msg), HandlePubcomp(s, msg, connStatus, pending), s}
  <2> HIDE DEF msg, pending
  <2> QED BY Zenon
<1> HIDE DEF t, msg, pending
<1>3. Timed(t)
  BY <1>2, HandleRegackTimed, HandlePubackTimed, HandlePubrecTimed, HandlePubcompTimed, Zenon DEF TimerInv
<1> QED BY <1>1, <1>3, GwStepTimed, Zenon DEF TimerInv

LEMMA TimerInvNext ==
    ASSUME TimerInv, [Next]_vars
    PROVE  TimerInv'
<1>0. Timed(s) /\ IsSeq(accepted)
  BY Zenon DEF TimerInv
<1>1. ASSUME NEW topic \in Topic, NEW qos \in Qos, BrokerPublish(topic, qos)
      PROVE  TimerInv'
  BY <1>1, BrokerTimed, Zenon
<1>2. ASSUME NEW topic \in Topic, NEW id \in 1 .. MaxHeld, BrokerPublish2(topic, id)
      PROVE  TimerInv'
  BY <1>2, BrokerTimed, Zenon
<1>3. ASSUME NEW id \in DOMAIN flows, BrokerRepeats(id) \/ BrokerPubrel(id)
      PROVE  TimerInv'
  BY <1>3, BrokerTimed, Zenon
<1>4. CASE BrokerForgets
  BY <1>4, BrokerTimed, Zenon
<1>5. CASE Tick
  BY <1>0, <1>5, TickImplTimed, GwStepTimed, Zenon DEF Tick, TimerInv
<1>6. ASSUME NEW i \in Arriving(toGw), GwReceive(i)
      PROVE  TimerInv'
  BY <1>6, GwReceiveTimed, Zenon
<1>7. CASE \/ \E i \in Arriving(toClient) : ClientReceive(i)
           \/ Unheard \/ Lose \/ Repeat \/ UNCHANGED vars
  <2>1. s' = s /\ accepted' = accepted
    BY <1>7, Zenon DEF ClientReceive, Unheard, Lose, Repeat, vars
  <2> QED BY <1>0, <2>1, Zenon DEF TimerInv
<1>8. ASSUME NEW status, Leave(status)
      PROVE  TimerInv'
  BY <1>0, <1>8, CheckSendTimed, GwStepTimed, Zenon DEF Leave, TimerInv
<1>9. CASE AskForMessages
  BY <1>0, <1>9, HandlePingreqTimed, GwStepTimed, Zenon DEF AskForMessages, TimerInv
<1>10. CASE Return \/ BrokerLost
  BY <1>0, <1>10, CheckSendTimed, GwStepTimed, Zenon DEF Return, BrokerLost, TimerInv
<1> QED
  BY <1>1, <1>2, <1>3, <1>4, <1>5, <1>6, <1>7, <1>8, <1>9, <1>10, Zenon DEF Next

LEMMA TimerInvInit == Init => TimerInv
<1> SUFFICES ASSUME Init PROVE TimerInv
  BY Zenon
<1>1. Members(s) /\ s.queue = << >> /\ s.curr = None /\ s.tick = FALSE /\ accepted = << >>
  BY DEF Init, InitSend, Members
<1>2. IsSeq(<< >>) /\ Queued(<< >>)
  BY DEF IsSeq, Queued, Entries
<1> QED BY <1>1, <1>2, Zenon DEF TimerInv, Timed

\* Whatever the broker sends, however the client sleeps and wakes, and whichever
\* of its answers are lost, late or repeated, the retry timer of
\* session_op::PubSend runs exactly while a message is being delivered: for every
\* number of messages, topics and retries.
THEOREM TimerRunsHolds == Spec => []TimerRuns
<1>1. TimerInv => TimerRuns
  BY Zenon DEF TimerInv, Timed, TimerRuns
<1>2. TimerInv /\ [Next]_vars => TimerInv'
  BY TimerInvNext, Zenon
<1> QED BY <1>1, <1>2, TimerInvInit, PTL DEF Spec
=============================================================================
