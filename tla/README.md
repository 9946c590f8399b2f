# Verification of cc.mqttsn.libs

TLA+ models of the MQTT-SN client and gateway libraries in `src/`, model-checked
with TLC and, for the results that should hold at every size, proved with TLAPS.
`PROJECT.json` maps each definition to the source lines it stands for.

## 1. The system

A sensor runs the **client library** and talks MQTT-SN over UDP, where datagrams
are lost, repeated and reordered. The **gateway library** keeps one session per
client and speaks MQTT 3.1.1 over TCP to a broker on its behalf. Both libraries
are single threaded and driven by calls: data received, a tick when a programmed
timer is due, a connection that came or went, a request of the application. The
concurrency that makes them hard is in the order of these calls.

### Gateway library (`src/gateway/lib`)

| Part | State | Operations |
|---|---|---|
| `RegMgr` | list of registrations, index by topic, index by id, id range | `regPredefined`, `mapTopic`, `mapTopicId`, `discardRegistration`, `clearRegistrations`, `setTopicIdAllocationRange` |
| `SessionImpl` | connection status, client id, keep-alive, will, broker flags, termination | `dataFromClient`, `dataFromBroker`, `tick`, `setBrokerConnected`, REGISTER, SEARCHGW |
| `Connect` | progress of the will handshake, attempts, waiting for the broker | CONNECT, WILLTOPIC, WILLMSG, PUBLISH with QoS -1, CONNACK, tick, broker up/down |
| `Disconnect` | - | DISCONNECT, broker down |
| `Asleep`, `AsleepMonitor` | ping and deadline timers of a sleeping client | DISCONNECT with duration, PINGREQ, PINGRESP, tick |
| `Ping` | attempts, timer | any client message, status change, tick |
| `WillUpdate` | kind of update, stage | WILLTOPICUPD, WILLMSGUPD, CONNACK, tick, broker up |
| `PubRecv`, `PubSend` | messages from the broker; the one being delivered, its topic id, message id, attempts | PUBLISH, PUBREL; REGACK, PUBACK, PUBREC, PUBCOMP, PINGREQ, tick |
| `Forward` | subscriptions in progress, early messages, last topic id | PUBLISH, PUBREL, SUBSCRIBE, UNSUBSCRIBE, PINGREQ and the broker's answers |
| `Encapsulate` | child sessions by node id | forwarder frames, child termination |
| `GatewayImpl` | advertise period | tick, SEARCHGW answers |
| `ConfigImpl`, `Session`, `gateway_all` | options | parsing, thin wrappers |

### Client library (`src/client/lib`)

| Part | State | Operations |
|---|---|---|
| `ClientImpl` | operation lists, connection status, topic maps, gateways | API calls, PUBLISH, PUBREL, REGISTER, PINGREQ, DISCONNECT, ADVERTISE, GWINFO |
| `Op` | allocated packet ids | allocate, release, filter checks |
| `ConnectOp`, `DisconnectOp`, `WillOp` | stage, attempts | send, answers, timeout, cancel |
| `SendOp` | stage (register, publish, acked), attempts | REGACK, PUBACK, PUBREC, PUBCOMP, timeout |
| `SubscribeOp`, `UnsubscribeOp` | stage; the filter list | SUBACK, UNSUBACK, timeout |
| `KeepAliveOp` | ping, receive and response timers | message sent/received, timeouts |
| `SearchOp` | radius, attempts | GWINFO, timeout |
| `TimerMgr` | timers | allocate, wait, cancel, suspend, tick |

The gateway program (`src/gateway/app`) owns the sessions: it makes one for every
endpoint a datagram comes from, connects each to the broker, and ends them from
handlers it posts to its event loop. The client programs (`src/client/app`) add
sockets and options.

### What is hard

* A request is repeated because its answer is late: the second CONNECT meets a
  session in the middle of reconnecting to the broker, or of a will update.
* The will of an MQTT connection can only change by disconnecting and connecting
  again, so the session lives through states in which the client believes it is
  connected and the broker does not.
* A client sleeps while the broker goes away; what it was owed waits.
* Timers are cancelled and re-armed on many paths; a forgotten one is a session
  that never ends.
* A topic id announced to a client must keep its meaning while ids are allocated,
  discarded, replaced and cleared.
* QoS 2 must survive duplicates on both sides, with message ids that wrap.
* Completion callbacks change the lists being iterated over.

`PROJECT.json` lists each as a hazard at its line.

## 2. Modules

### RegMgr

The registry, function by function. A registration is a heap cell (`Node`); the
indices map topics and ids to cells, so a cell erased from `m_regInfos` while an
index still names it is a dangling iterator. `mapTopic` is four actions, one per
way through it: the topic is known; it gets an id; the range is full and a
registration is replaced; nothing can be replaced (an `end()` iterator is used,
recorded in `fault`, after which nothing is said). Reading a dangling cell gives
any id. The order of the list, which decides which of two equal keys survives a
rebuild in `clearRegistrations`, is left open.
`told` and `evicted` are history: what each id was last announced as, and whether
a registration was ever replaced. Two-character short topic names are translated
without the registry and are left out.

`MCRegMgr` instantiates it with 4 topics, 4 cells and ids up to 3, which is
small enough to fill the range and to make every branch of the allocation run.
Cells are symmetric.

### GwSession

The control plane of one session: `Connect`, `Disconnect`, `Asleep`,
`AsleepMonitor`, `Ping` and `WillUpdate`, and what they see of delivery. One
action is the dispatch of one message to all operations, in the order in which
`SessionImpl` holds them, one timer, or one change of the broker connection.

* A message may arrive in any state, as it may be late or a duplicate.
* A timer is armed or not; an armed timer may fire at any step. The periods are
  configured independently and the network delays are unknown, so no order of
  two timers is excluded.
* `dataFromClient` dispatches every message of its data even if the first one ends
  the session; `inCall` says that such a call is under way.
* The broker and the TCP connection (`broker`) are external: a CONNECT on an open
  connection is a request, CONNACK answers it, DISCONNECT closes it.
* Delivery is abstracted to `busy` and `m_ping`; `CheckSend` allows every outcome
  `PubSend::checkSend` can have.
* Will topic and message, client ids and keep-alive periods are small sets. Will
  QoS and retain are part of the will's value. Authentication data is left out.

`ClientKind` says which client is connected: `any` sends anything at any time;
`repeating` has one request in progress and repeats it unchanged, as the client
library does; `patient`, moreover, does not repeat CONNECT while the gateway is
replacing its broker connection. The properties that fail for `repeating` fail in
the code; they are the findings below. `Menus` holds sets of message types; a
behaviour picks one of them (`menu`) and its client sends only those.

### GwPubSend, GwPubRecv, ClientRecv, Delivery, InOrderDelivery

`GwPubSend` is `PubSend` and the queue `PubRecv` fills; `GwPubRecv` is what
`PubRecv` holds of QoS 2 until PUBREL; `ClientRecv` is the client's handling of
REGISTER, PUBLISH and PUBREL. They are operators on records, one per handler:
`CheckSend`, `NewSends`, `SendCurrent` and `DoSend` call each other in the code, and
a handler is finished only when they are. `newSends` and `checkSend` recurse over
messages that need no answer; `NewSends` takes all of those at the head of the
queue at once. The registry is a function from topics to ids, as ids do not run
out here (`RegMgr` covers what happens when they do). Which topic the client
forgets when its list is full is left open, and so is for how many of the held
messages the retry period has passed when a PUBLISH arrives.

`Delivery` joins them by channels. Datagrams may be lost and, on a network that
`reorders` (a behaviour picks it from `Networks`), overtaken and repeated; the timer
may expire while an answer is under way. A lost connection makes the broker repeat
a PUBLISH or PUBREL of QoS 2, or forget its messages if the next one starts a clean
session. The client sleeps, asks for its messages and returns in single steps; the
exchanges behind them are `GwSession`'s. The payload of a message is its number,
which the broker's messages of QoS 2 get when they are released; until then they
are told apart by their topics.

`InOrderDelivery` is the promise over a network that does not reorder: messages
are reported in the order in which they were handed over, and only one of QoS 1 is
reported again, before the next one. `Delivery` implements it with `accepted` and
`delivered` mapped to themselves, and `Upstream` with what the application sent and
what the broker published.

### TimerMgr, ClientConn

`TimerMgr` is the client's table of timers as operators: allocation, waiting,
cancelling and a tick. A tick collects the timers that are due before it runs
their callbacks, so a callback may stop or free a timer whose callback still runs.

`ClientConn` is the client's connection: `ClientImpl` with `ConnectOp`,
`DisconnectOp`, `WillOp` and `KeepAliveOp`. An action is an API call, a message or
the passing of time up to the next timer. Time in periods counts here, as the
keep-alive timers are compared with each other. The gateway may send anything at
any time until it falls silent for good. `owed` holds the callbacks the application
waits for; `pings` counts PINGREQs without an answer.

### ClientOps, GwForward, Upstream, UpstreamPromise, TopicFilter

`ClientOps` is `SendOp`, `SubscribeOp` and `UnsubscribeOp` with the packet ids and
topic maps they share: one request per lane is under way, the others are
suspended; retries, cancellation, answers that are late or for another request.
`GwForward` is `Forward` and the session's handler of REGISTER.
`Upstream` joins them and a broker by datagrams that may be lost or late. The
gateway may lose a registration, its session, or its connection while it updates
the will. `heard` is what the broker published while registrations lasted.
`UpstreamPromise` states what the application is promised over all of them;
`InOrderDelivery` is kept apart from the module the proofs are about.

`TopicFilter` holds `isTopicMatch`, `verifyPubTopic` and `verifySubFilter` on sequences
of characters, and below them what MQTT means by a filter that is well formed and
by one that matches. `MCUpstream` assumes that they agree (`FiltersVerified`,
`MatchAgrees`), which TLC evaluates for every filter of up to five and topic of up
to four characters when the run `Upstream` starts.

### Discovery

`GatewayImpl` advertises, `ClientImpl` stores the gateways it hears of until they
expire, `SearchOp` asks, and the application (`GwDiscover`) is told. Time passes in
steps of one, also the longest time a broadcast takes. Other clients search and
answer for gateways; the application adds and discards entries.

### GwIo

The sockets of one session of the gateway program. The connection to the broker is
made when there is something to send, is written and read in parts, breaks, and is
replaced after a timer; what the session left over of the stream stays in
`m_brokerData`; datagrams to clients wait in the acceptor's `m_pendingWrites`. A
message is two bytes; the start and the completion of an asynchronous operation
are different steps.

### GwApp

The program around the sessions. `ready` is the event loop's queue: posted handlers
and completed operations, run in order. A `GatewaySession` and the library session in
it live and die apart; sessions of a forwarder (`Encapsulate`) have a parent. What a
library session does in a call is left open, within what its operations do. A
handler that would use an object that is gone leads to the state `stale`, after
which nothing is said. `MCGwApp` adds symmetry of endpoints and nodes.

## 3. Runs

| Run | Checks | Result |
|---|---|---|
| `RegMgrLow` | with ranges that start at 1: the id index never dangles, ids unique, list and indices one-to-one until a replacement, announced ids keep their topic | holds |
| `RegMgrStaleTopic` | the topic index after a replacement | violated |
| `GwSessionOrderly` | will, broker connection and deadlines agree through connecting, sleeping, waking, losing the broker, will updates and QoS -1 publishing | holds for a patient client |
| `GwSessionAny` | a live session always watches its client; a silent client is dropped | holds for any client |
| `Delivery` | `InOrderDelivery`; acknowledged messages were reported, with their topic unless a registration was given up; the timer runs while a message is current | holds |
| `DeliverySleep` | with sleep, wake-up, reconnection and a lost broker: acknowledged messages were reported, PINGRESP comes, no message stays for ever | holds |
| `ClientConn` | every operation is reported exactly once; a connection is watched; a disconnection ends everything; the gateway is given up only after all attempts, and in the end if it falls silent | holds |
| `Upstream` | `InOrderDelivery` for what the application publishes; a reported publish reached the broker; packet ids have one owner; one request per lane; subscriptions agree with the broker; every request ends | holds |
| `Discovery` | what the application was told agrees with what is stored; a running gateway is dropped only after more losses than allowed, a stopped one in the end | holds |
| `GwIo` | the broker's stream reaches the session whole and in order, the session's reaches the broker in order; nothing waits for ever | holds |
| `GwApp` | one session per client id; the acceptor's endpoints are those of the sessions; a session that asked for its end will get it | holds |
| `GwAppTermination` | the posted termination finds its session, as `GatewayApp.cpp:83` asserts | violated |

More configurations are kept for their counterexamples and are not among the runs of
`PROJECT.json`; TLC reports the property of each violated (numbers refer to section
4): `RegMgrDuplicateId` (1), `GwSessionWillLost` (3), `GwSessionConnectTwice` (4),
`GwSessionUpdateCancelled` (5), `GwSessionCleanKeeps` (6), `DeliveryWrongTopic` (7),
`DeliverySleepLoss` (8), `UpstreamShort` (9), `UpstreamRecord` (10), `DiscoveryDiscard`
(11), `ClientConnSilence` (12).

Deadlock is not checked where the system really stops: a session that was
terminated, a registry after an `end()` iterator was used, a publisher with
nothing left to deliver or to ask for, sockets and a program whose bounded inputs
are used up. It is checked in `ClientConn` and `Discovery`.

### Bounds

* Sessions. One client id suffices except where a second is the point
  (`GwSessionAny`); one will topic and one message beside the empty ones already
  distinguish kept, lost and changed wills. `RetryCount` is 2 in `GwSessionOrderly`:
  an operation is tried, retried and given up. `ReconnectTimed` needs that: with a
  retry count of 1 `doNextStep` gives up before it looks at the wait
  (`Connect.cpp:193`) and TLC finds the property violated. `GwSessionAny` has 1 and
  leaves out will messages, DISCONNECT and publishing with QoS -1, which multiply its
  states; `ClientWatched` is proved with them.
* Delivery. Two messages on two topics let one message's answers meet another's
  delivery; the client holds one topic, so topics are forgotten; in `Delivery` message
  ids start at 65533 and wrap. `MaxFaults` bounds what the network loses or repeats
  and the connections the broker loses: with two attempts, one loss makes a retry,
  and slow answers, which are not bounded, do the rest. `MaxInFlight` bounds the
  datagrams under way when the timer expires. `MaxHeld` is the number of QoS 2
  messages under way at the broker. In `DeliverySleep` one topic is predefined and the
  other unknown to the client or registered by it.
* `ClientConn`. Retry period 1, keep-alive 3 and sleep 6 are the shortest that keep
  the order of the timers; `MaxLate` is how late the application may call.
* `Upstream`. Two requests out of a menu that publishes with each QoS or one that
  subscribes, unsubscribes and uses predefined and short topics; packet ids up to 9,
  beginning at 7, so they wrap.
* `Discovery`. Two gateways, a limit of one or two stored ones, and two events (a
  loss, a restart, a call, another client's message) beside the regular ones.
* `GwIo`. Two messages of the broker, three of the session, three breaks. `GwApp`. Two
  endpoints, one client id, two nodes behind a forwarder, three sessions over time,
  two handlers waiting beside those the program posts itself. The empty client id,
  which no session is found by, is modelled and left out of the run.

### Fairness

Both libraries ask their application to call `tick()` when a time has passed, and do
nothing about time otherwise. So a timer that runs and is not stopped expires, and
nothing is assumed of the other side or of the network:

* `GwSessionAny`: weak fairness of the two timers that watch a client;
* `DeliverySleep`: the retry timer of `PubSend`;
* `ClientConn`: the clock moves on while a timer is active and the gateway is silent;
* `Upstream`: the client takes steps as long as a timer runs;
* `Discovery`: time does not stop;
* `GwIo`: the event loop runs what was posted, timers and completed operations, and a
  connection attempt, a write, and a read of a broken connection complete. Whether
  they succeed is left open, as often as the bound on breaks allows.

## 4. Findings

1. With an id range that starts above 1 `mapTopic` may hand out an id in use
   (`RegMgr.cpp:139`).
2. Replacing a registration leaves the replaced topic's index entry, which then
   refers to an erased cell (`RegMgr.cpp:165`).
3. A CONNECT repeated while the broker connection is being replaced loses the
   retained will (`Connect.cpp:92`).
4. A CONNECT repeated before CONNACK is forwarded twice over one connection
   (`Connect.cpp:278`).
5. A CONNECT during a will update cancels it after DISCONNECT was sent and is
   answered as accepted (`WillUpdate.cpp:58`).
6. `m_clean` is tested after it was reset, so a clean CONNECT that is forwarded
   keeps old registrations (`Connect.cpp:380`).
7. A registration that was given up leaves its id behind; a later message on the
   topic is published with it and may be reported with another topic
   (`PubSend.cpp:206`).
8. A message being delivered when the client falls asleep is retried while it
   sleeps and dropped (`PubSend.cpp:37`).
9. The gateway refuses a publish with a short topic name (`Forward.cpp:73`), which the
   client's tests publish with (`UnitTestPublish.th:257`).
10. `UnsubscribeOp.cpp:194` removes another filter than the one unsubscribed, although
    the comment at line 166 says the record is removed.
11. Discarding a gateway by its id assigns instead of comparing
    (`client.cpp.templ:314`), unlike `client.h.templ:158` says: another gateway goes.
12. A client that never hears from its gateway after the connection was made, and
    sends often enough, does not notice that the gateway is gone: `KeepAliveOp` starts
    the receive timer with the first message it hears.
13. `setBrokerConnected` goes on in a session that is terminating
    (`SessionImpl.cpp:163`), so a second termination may be posted, which does not find
    its session or uses one that is gone.
14. When an encapsulated session reports the client id of another one, the program's
    session for it is erased while the library's lives on (`GatewaySession.cpp:333`).
15. `m_brokerData` is not cleared when the connection is replaced, so the beginning of a
    message that was cut off stands before the new stream (`GatewaySession.cpp:115`).
16. A QoS 2 message of the broker whose PUBREL takes longer than the retry period is
    dropped when another PUBLISH arrives, although it was acknowledged with PUBREC
    (`PubRecv.cpp:49`); `Delivery` counts it as given up.
17. `isTopicMatch` takes an empty rest for the end of the topic: `a/+` does not match `a/`
    (`ClientImpl.cpp:128`). `MatchAgrees` leaves out topics that end in `/`.

## 5. Proofs

`RegMgr_proofs` proves for every set of topics, cells and ranges and every largest
id:

* `TypesHold`, `IdIndexHolds`. The inductive invariant is `SoundInv`: types and
  `IdIndexSound` together, because each step reads cells through the id index, so
  the types of one depend on the other. `AllocType` shows that the id `mapTopic`
  computes is 0 or a valid id.
* `UniqueIdsHold`, under `RangesStartLow` (every configured range starts at 0 or
  1, so that `m_minTopicId` is 1). `UniqueInv` adds that every registration is the
  one its id leads to. The core is `AllocFresh`: with the minimum at 1, none of
  the four ways of choosing an id yields one in use.
* `ConsistentUntilEvictionHolds` and `AnnouncedIdsStableHolds`, under the same
  assumption. `StableInv` adds, until a registration is replaced, that both
  indices are exact and every announced id leads to its topic.

`RegMgrDuplicateId.cfg` and the run `RegMgrStaleTopic` show that the assumption on
ranges and the "until replaced" are needed. The constants' assumption is `RegMgrAssumption`: the largest id is at
least 1, ranges and predefined ids are 16-bit values.

`GwSession_proofs` proves `ClientWatchedHolds` for every set of client ids, wills,
keep-alive periods and messages, every retry count and every kind of client. The
inductive invariant `WatchInv` is `ClientWatched` itself and that the updated
records have the fields it reads. The argument is `Reported`: whatever path
`Connect::doNextStep` takes, a change of the connection status is accompanied by
`connStatusUpdated`, which restarts the ping timer, and is never to "asleep"; only
DISCONNECT with a duration is, and it arms the monitor. There is one lemma per
action, and the timers that stop watching are shown to end the session.

`GwIo_proofs` proves two properties of a session's sockets for any number of
messages, breaks and ways in which the network cuts reads and writes.

* `WrittenInOrderHolds`, from `WriteInv`: while a connection is up, what the broker got
  and what waits in `m_sentData` make up what was given to the socket (`MadeOf`); before
  it is made, all of that still waits; a write under way has data, which ends with the
  end of a message. The prefix property alone says nothing of what waits, so it would
  not survive the next write.
* `BrokerStreamWholeHolds`, from `ReadInv`: the messages given to the session, the
  leftover in `m_brokerData` and the bytes under way are one stream of numbered
  halves (`Stream`) as long as no connection broke within a message. `CutAfter` says
  what a read takes off it; `StreamTaken` and `ReadSplit` carry the index arithmetic.

`GwApp_proofs` proves `OneSessionPerClientHolds`, `EndpointsAgreeHolds` and
`EndIsPostedHolds` for any endpoints, client ids, nodes and session objects
(`GwAppAssumption`). The inductive invariant `Good` is `Broken`, a handler used an
object that is gone, after which nothing is said, or `Kept`: types, sessions linked to
their parents, the acceptor's table, handlers that name sessions, and the three
properties. They are proved together because ending a session walks the table, the
handlers and its children at once. Most lemmas say of an operator that it keeps `Good`.

`Delivery_proofs` proves `TimerRunsHolds` for any messages, topics, attempts, limits
and networks (`DeliveryAssumption`). `TimerInv` says of `GwPubSend`'s record that its
timer runs exactly while a message is current and that the queue holds messages only;
the handlers that call each other (`CheckSend`, `NewSends`, `SendCurrent`, `DoSend`) each
have a lemma.

`ClientConn_proofs` proves `ReportedOnceHolds`, `ConnectionWatchedHolds`,
`DisconnectEndsAllHolds` and `GoneOnlyAfterPingsHolds` for any retry period and count,
durations and wills, and however late the timers are served (`ClientConnAssumption`).
The invariant is `Good(k, due)`: types and the table of timers (`Typed`), callbacks
(`Reported`), unanswered pings (`Pinged`) and running timers (`Watched`), relative to the
timers that are due in the current tick. A tick stops all due timers before it
calls the first callback, so within it a connection is watched by a timer that has
stopped and whose callback is still to come; the parameter `due` says so. It is empty
between calls, which gives `ConnInv`.

`Discovery_proofs` proves `ToldAgreesHolds` and `StoredOnceHolds` for any gateways,
periods, limits and allowed losses (`DiscoveryAssumption`). `AgreeInv` has the types, that
entries are single and last (`Listed`, `Lasting`), and that the application knows exactly
the stored ones until it changes the list itself. Expiry is the hard case: the client
reports and removes in two passes over the list, and the proof shows by induction
along it which gateways are `Gone` and which are `Kept`.

`Upstream_proofs` proves `OneAtATimeHolds` and `PacketIdsOwnedHolds` for any topics, menus
of requests, retry counts, answers and losses (`UpstreamAssumption`, which has twice
as many packet ids as requests: then the search for a free one ends). The invariant is
`Full`: the requests are sorted by age, each lane is `Settled` (the oldest request is not
suspended and has its timer, the others are suspended), and the packet ids in use are
owned (`OwnedBy`).

### What stays with TLC

* Liveness: fairness is outside this prover.
* `WillKept`, `WillAgrees`, `ConnectedToBroker` and `ReconnectTimed` of `GwSession`.
* `AcknowledgedMeansDelivered` and `TopicsRightIfRegistered` of `Delivery`, and both
  refinements of `InOrderDelivery`: message ids wrap, so they hold only while the network
  keeps no datagram for a whole round of ids, which the bounds imply.
* `ReportedMeansPublished` and `SubscriptionsAgree` of `Upstream`, for the same reason.
* `RemovedOnlyAfterLosses` of `Discovery`, which counts steps of time against losses.
* What the recursive definitions of `TopicFilter` compute for longer strings.

## 6. Not modelled

* Framing and field encoding (generated by the COMMS library), authentication data,
  logging, the checks of arguments in API calls.
* The configuration parser, the C and C++ wrappers, the client's command-line
  programs and the fuzz driver: text, options and calls passed on, without protocol
  state of their own.
* `Forward`: messages published before the connection is up, and PINGREQs that only
  keep the broker's connection alive. Forwarders behind forwarders.
* The programming of the session's next tick from its operations' timestamps
  (`SessionImpl::programNextTimeout`): in `GwSession` an armed timer may expire at any
  step, which includes every order the programming can produce.
* QoS 1 messages the broker repeats after a lost connection; the gateway takes them
  for new ones, as at-least-once delivery allows.
* A limit of 0 for queued messages (`PubRecv.cpp:157` would pop from an empty list), and
  65534 packet ids in use at once (`Op.cpp:99`).
