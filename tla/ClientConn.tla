----------------------------- MODULE ClientConn -----------------------------
(***************************************************************************)
(* The client library's connection: ClientImpl with its ConnectOp,         *)
(* DisconnectOp (disconnect and sleep), WillOp and KeepAliveOp, their      *)
(* timers and retries.                                                     *)
(*                                                                         *)
(* The client is a record k.  An operation is prepared, configured and     *)
(* sent in one step, as the documentation asks of the application; time    *)
(* that has passed is handed to the timers when send() enters the API,     *)
(* after the operation is allocated.  The gateway may send any message at  *)
(* any time, until it falls silent for good.                               *)
(***************************************************************************)
EXTENDS TimerMgr

CONSTANTS
    RetryPeriod, RetryCount, \* m_retryPeriod, m_retryCount
    KeepAlive,               \* the duration of a connection
    Sleep,                   \* the duration of a sleep
    Will,                    \* wills, as [topic, msg] records
    None,                    \* not configured; of a connection, no Will flag
    MaxLate                  \* bound: how late the timers are served

ASSUME ClientConnAssumption ==
    /\ RetryPeriod \in Nat \ {0} /\ RetryCount \in Nat /\ KeepAlive \in Nat \ {0}
    /\ Sleep \in Nat /\ Sleep > RetryPeriod * (RetryCount + 1)
    /\ None \notin Will /\ None # "NoGatewayResponse"

VARIABLES
    k,      \* the client
    silent, \* the gateway sends nothing any more
    clock   \* turns with every tick() once it is silent

vars == <<k, silent, clock>>

Op == {"Connect", "Disconnect", "Will", "KeepAlive"}
Empty == [topic |-> "", msg |-> ""]

TimersOf(op) == IF op = "KeepAlive" THEN {"ping", "recv", "resp"} ELSE {op}
OwnerOp(t) == IF t \in {"ping", "recv", "resp"} THEN "KeepAlive" ELSE t

\* The members of ClientImpl; conf is what each operation was configured with,
\* sent the operations whose callback is set, reason what the gateway's disconnection
\* was reported with.  The last two are of the model: the callbacks the application
\* waits for, and the PINGREQs since the last PINGRESP.
InitClient ==
    [initialized |-> FALSE, firstConnect |-> TRUE, connectionStatus |-> "Disconnected",
     disconnecting |-> FALSE, keepAliveMs |-> 0, prevWill |-> Empty,
     ops |-> << >>, timers |-> NoTimers(6),
     retries |-> [op \in Op |-> 0], stage |-> [op \in {"Connect", "Will"} |-> "none"],
     conf |-> [op \in Op \ {"KeepAlive"} |-> None],
     sent |-> {}, reason |-> None, owed |-> {}, pings |-> 0]

Has(c, op) == op \in Range(c.ops)
Wait(c, t, ms) == [c EXCEPT !.timers = TimerWait(@, t, ms)]

-----------------------------------------------------------------------------
(* Operations: allocation, completion, termination. *)

AllocOp(c, op) ==
    [c EXCEPT !.ops = Append(@, op), !.retries[op] = RetryCount,
              !.timers = AllocTimer(@, op)]

\* opComplete finds the operation, which is there at most once, and erases it.
Erase(ops, op) ==
    LET i == CHOOSE i \in DOMAIN ops : ops[i] = op
    IN IF op \in Range(ops) THEN SubSeq(ops, 1, i - 1) \o SubSeq(ops, i + 1, Len(ops)) ELSE ops

\* The operation and its timers are gone.
OpComplete(c, op) ==
    [c EXCEPT !.ops = Erase(@, op), !.sent = @ \ {op},
              !.timers = FreeTimers(@, TimersOf(op)), !.retries[op] = 0,
              !.stage = [o \in DOMAIN @ |-> IF o = op THEN "none" ELSE @[o]],
              !.conf = [o \in DOMAIN @ |-> IF o = op THEN None ELSE @[o]]]

\* completeOpInternal: the callback is called if there is one.
CompleteOp(c, op) == [OpComplete(c, op) EXCEPT !.owed = @ \ ({op} \cap c.sent)]

\* Mutants: the callbacks are forgotten; the keep-alive operation is left out.
TerminateOpsUnreported(c) ==
    [c EXCEPT !.ops = << >>, !.sent = {}, !.timers = NoTimers(Len(@)),
              !.retries = InitClient.retries, !.stage = InitClient.stage, !.conf = InitClient.conf]
TerminateOpsNotKeepAlive(c) ==
    LET others == {op \in Op : Has(c, op)} \ {"KeepAlive"} IN
    [c EXCEPT !.ops = SelectSeq(@, LAMBDA o : o = "KeepAlive"), !.sent = {}, !.owed = @ \ c.sent,
              !.timers = FreeTimers(@, UNION {TimersOf(op) : op \in others}),
              !.stage = InitClient.stage, !.conf = InitClient.conf]

\* terminateOps: each operation in turn; the order of the callbacks is not observed.
TerminateOps(c) ==
    [c EXCEPT !.ops = << >>, !.sent = {}, !.owed = @ \ c.sent,
              !.timers = NoTimers(Len(@)), !.retries = InitClient.retries,
              !.stage = InitClient.stage, !.conf = InitClient.conf]

-----------------------------------------------------------------------------
(* KeepAliveOp. *)

RestartPingTimer(c) == IF c.keepAliveMs = 0 THEN c ELSE Wait(c, "ping", c.keepAliveMs)
RestartRecvTimer(c) == IF c.keepAliveMs = 0 THEN c ELSE Wait(c, "recv", c.keepAliveMs)
RestartRespTimer(c) == Wait(c, "resp", RetryPeriod)

CreateKeepAliveOpIfNeeded(c) ==
    IF Has(c, "KeepAlive") THEN c
    ELSE RestartPingTimer(
            [c EXCEPT !.ops = Append(@, "KeepAlive"), !.retries["KeepAlive"] = RetryCount,
                      !.timers = AllocTimer(AllocTimer(AllocTimer(@, "ping"), "recv"), "resp"),
                      !.pings = 0])

\* sendMessage tells KeepAliveOp.
SendMessage(c) == IF Has(c, "KeepAlive") THEN RestartPingTimer(c) ELSE c

SendPing(c) ==
    IF TimerIsActive(c.timers, "resp") THEN c
    ELSE RestartRespTimer(SendMessage([c EXCEPT !.pings = Min({@ + 1, RetryCount + 1})]))

\* Re-initialisation is required before anything else is done.
GatewayDisconnected(c, reason) ==
    TerminateOps([c EXCEPT !.initialized = FALSE, !.connectionStatus = "Disconnected",
                           !.disconnecting = TRUE, !.reason = reason])

\* Mutant: the attempts are not counted.
PingTimeoutForever(c) == SendPing(c)

PingTimeout(c) ==
    IF c.retries["KeepAlive"] = 0 THEN GatewayDisconnected(c, "NoGatewayResponse")
    ELSE SendPing([c EXCEPT !.retries["KeepAlive"] = @ - 1])

KeepAlivePingreq(c) == RestartRecvTimer(SendMessage(c))

\* Mutant: the attempts are not renewed.
KeepAlivePingrespKeepsCount(c) ==
    RestartRecvTimer([c EXCEPT !.timers = TimerCancel(@, "resp"), !.pings = 0])

KeepAlivePingresp(c) ==
    RestartRecvTimer([c EXCEPT !.timers = TimerCancel(@, "resp"), !.pings = 0,
                               !.retries["KeepAlive"] = RetryCount])

\* Every other message from the gateway.
KeepAliveHeard(c) ==
    RestartRecvTimer(IF c.connectionStatus = "Asleep" /\ TimerIsActive(c.timers, "resp")
                     THEN RestartRespTimer(c) ELSE c)

-----------------------------------------------------------------------------
(* ConnectOp. *)

ConnectSendInternal(c) == Wait(SendMessage(c), "Connect", RetryPeriod)

ConnectWilltopicreq(c) ==
    LET will == c.conf["Connect"] IN
    IF will = None THEN c
    ELSE ConnectSendInternal(
            [c EXCEPT !.prevWill = IF will.topic = "" THEN Empty ELSE @,
                      !.retries["Connect"] = RetryCount, !.stage["Connect"] = "willTopic"])

ConnectWillmsgreq(c) ==
    IF c.conf["Connect"] = None \/ c.stage["Connect"] # "willTopic" THEN c
    ELSE ConnectSendInternal(
            [c EXCEPT !.prevWill = [topic |-> c.conf["Connect"].topic, msg |-> ""],
                      !.retries["Connect"] = RetryCount, !.stage["Connect"] = "willMsg"])

GatewayConnected(c) ==
    CreateKeepAliveOpIfNeeded([c EXCEPT !.firstConnect = FALSE, !.connectionStatus = "Connected"])

ConnectConnack(c, accepted) ==
    LET asked == c.stage["Connect"] = "willMsg"
        d == [c EXCEPT !.prevWill =
                 CASE ~ accepted \/ (~ asked /\ c.conf["Connect"] # None) -> Empty
                   [] accepted /\ asked -> [@ EXCEPT !.msg = c.conf["Connect"].msg]
                   [] accepted /\ ~ asked /\ c.conf["Connect"] = None -> @]
    IN CompleteOp(IF accepted THEN GatewayConnected([d EXCEPT !.keepAliveMs = KeepAlive]) ELSE d,
                  "Connect")

\* Mutant: the attempts are not counted.
ConnectTimeoutForever(c) == ConnectSendInternal(c)

ConnectTimeout(c) ==
    IF c.retries["Connect"] = 0 THEN CompleteOp(c, "Connect")
    ELSE ConnectSendInternal([c EXCEPT !.retries["Connect"] = @ - 1])

-----------------------------------------------------------------------------
(* DisconnectOp; conf is the duration of the sleep, 0 for none. *)

DisconnectSendInternal(c) == Wait(SendMessage(c), "Disconnect", RetryPeriod)

\* Mutant: a sleeping client is not watched.
EnterSleepModeUnwatched(c, ms) == TerminateOps([c EXCEPT !.connectionStatus = "Asleep"])

EnterSleepMode(c, ms) ==
    LET diff == RetryPeriod * (RetryCount + 1)
        d == TerminateOps([c EXCEPT !.connectionStatus = "Asleep"])
    IN CreateKeepAliveOpIfNeeded([d EXCEPT !.keepAliveMs = Max({ms, diff + 1}) - diff])

DisconnectAnswered(c) ==
    LET ms == c.conf["Disconnect"]
        d == CompleteOp(c, "Disconnect")
    IN IF ms > 0 THEN EnterSleepMode(d, ms) ELSE GatewayDisconnected(d, None)

DisconnectTimeout(c) ==
    IF c.retries["Disconnect"] = 0 THEN CompleteOp(c, "Disconnect")
    ELSE DisconnectSendInternal([c EXCEPT !.retries["Disconnect"] = @ - 1])

-----------------------------------------------------------------------------
(* WillOp. *)

WillSendInternal(c) == Wait(SendMessage(c), "Will", RetryPeriod)

WillWilltopicresp(c, accepted) ==
    LET will == c.conf["Will"]
        d == [c EXCEPT !.prevWill.topic = will.topic, !.stage["Will"] = "willMsg"]
    IN CASE c.stage["Will"] # "willTopic" -> c
         [] c.stage["Will"] = "willTopic" /\ ~ accepted -> CompleteOp(c, "Will")
         [] c.stage["Will"] = "willTopic" /\ accepted /\ will.msg = c.prevWill.msg ->
               CompleteOp(d, "Will")
         [] c.stage["Will"] = "willTopic" /\ accepted /\ will.msg # c.prevWill.msg ->
               WillSendInternal([d EXCEPT !.prevWill.msg = "", !.retries["Will"] = RetryCount])

WillWillmsgresp(c, accepted) ==
    IF c.stage["Will"] # "willMsg" THEN c
    ELSE CompleteOp([c EXCEPT !.prevWill.msg = IF accepted THEN c.conf["Will"].msg ELSE @], "Will")

WillTimeout(c) ==
    IF c.retries["Will"] = 0 THEN CompleteOp(c, "Will")
    ELSE WillSendInternal([c EXCEPT !.retries["Will"] = @ - 1])

-----------------------------------------------------------------------------
(* Messages from the gateway. *)

\* The message handlers of each operation; the others ignore the message.
Dispatch(c, op, msg) ==
    CASE op = "KeepAlive" /\ msg.type = "PINGRESP" -> KeepAlivePingresp(c)
      [] op = "KeepAlive" /\ msg.type # "PINGRESP" -> KeepAliveHeard(c)
      [] op = "Connect" /\ msg.type = "WILLTOPICREQ" -> ConnectWilltopicreq(c)
      [] op = "Connect" /\ msg.type = "WILLMSGREQ" -> ConnectWillmsgreq(c)
      [] op = "Connect" /\ msg.type = "CONNACK" -> ConnectConnack(c, msg.accepted)
      [] op = "Will" /\ msg.type = "WILLTOPICRESP" -> WillWilltopicresp(c, msg.accepted)
      [] op = "Will" /\ msg.type = "WILLMSGRESP" -> WillWillmsgresp(c, msg.accepted)
      [] OTHER -> c

\* handle(ProtMessage): the operations there are at the start, while they last.
HandleProtMessage(c, msg) ==
    LET Step(d, op) == IF ~ Has(d, op) \/ d.disconnecting THEN d ELSE Dispatch(d, op, msg)
        after[i \in 0 .. Len(c.ops)] == IF i = 0 THEN c ELSE Step(after[i - 1], c.ops[i])
    IN IF c.disconnecting THEN c ELSE after[Len(c.ops)]

HandlePingreq(c) ==
    IF c.connectionStatus = "Connected" /\ ~ c.disconnecting /\ Has(c, "KeepAlive")
    THEN KeepAlivePingreq(c) ELSE c

HandleDisconnect(c) ==
    CASE c.connectionStatus = "Disconnected" \/ c.disconnecting -> c
      [] OTHER -> IF Has(c, "Disconnect") THEN DisconnectAnswered(c)
                  ELSE GatewayDisconnected(c, "DisconnectMsg")

\* PUBLISH, REGISTER and the answers to other operations: KeepAliveOp hears them.
HandleOther(c) ==
    IF c.connectionStatus # "Disconnected" /\ ~ c.disconnecting /\ Has(c, "KeepAlive")
    THEN KeepAliveHeard(c) ELSE c

Handle(c, msg) ==
    CASE msg.type = "PINGREQ" -> HandlePingreq(c)
      [] msg.type = "DISCONNECT" -> HandleDisconnect(c)
      [] msg.type = "PUBLISH" -> HandleOther(c)
      [] OTHER -> HandleProtMessage(c, msg)

Message ==
    [type : {"CONNACK", "WILLTOPICRESP", "WILLMSGRESP"}, accepted : BOOLEAN]
    \cup [type : {"WILLTOPICREQ", "WILLMSGREQ", "PINGREQ", "PINGRESP", "DISCONNECT", "PUBLISH"}]

-----------------------------------------------------------------------------
(* Time. *)

Timeout(c, t) ==
    CASE t \in {"ping", "recv"} -> SendPing(c)
      [] t = "resp" -> PingTimeout(c)
      [] t = "Connect" -> ConnectTimeout(c)
      [] t = "Disconnect" -> DisconnectTimeout(c)
      [] t = "Will" -> WillTimeout(c)

\* tick.  An earlier callback may have ended the operation a later one is of; that
\* one is not called here.
Tick(c, ms) ==
    LET Call(d, t) == IF Has(d, OwnerOp(t)) THEN Timeout(d, t) ELSE d
        after[i \in 0 .. Len(c.timers)] ==
            CASE i = 0 -> [c EXCEPT !.timers = Stopped(@, ms)]
              [] i # 0 /\ i \in Due(c.timers, ms) -> Call(after[i - 1], c.timers[i].owner)
              [] i # 0 /\ i \notin Due(c.timers, ms) -> after[i - 1]
    IN after[Len(c.timers)]

\* How much time may have passed: the application is told when to call back, and
\* may be late.
Elapsed(c) == IF GetMinWait(c.timers) = 0 THEN {} ELSE 1 .. GetMinWait(c.timers) + MaxLate

-----------------------------------------------------------------------------
(* The application. *)

Sent(c, op) == [c EXCEPT !.sent = @ \cup {op}, !.owed = @ \cup {op}]

\* initInternal ends what was left of an earlier session.
InitInternal(c) ==
    [TerminateOps(c) EXCEPT !.connectionStatus = "Disconnected", !.disconnecting = FALSE,
                            !.keepAliveMs = 0, !.initialized = TRUE, !.reason = None]

MayConnect(c) == ~ Has(c, "Connect") /\ ~ Has(c, "Disconnect") /\ ~ c.disconnecting

ConnectPrepare(c) == AllocOp(c, "Connect")

\* config: the first connection must be clean.
ConnectConfig(c, will) == [c EXCEPT !.conf["Connect"] = will, !.stage["Connect"] = "connect"]
ConnectConfigured(c, clean) == c.firstConnect => clean

ConnectSend(c, clean) ==
    [ConnectSendInternal(Sent(c, "Connect")) EXCEPT
        !.connectionStatus = "Disconnected", !.prevWill = IF clean THEN Empty ELSE @]

MayDisconnect(c) ==
    /\ c.connectionStatus # "Disconnected" /\ ~ c.disconnecting
    /\ ~ Has(c, "Connect") /\ ~ Has(c, "Disconnect")

\* config of a sleep, which ClientConnAssumption says is long enough.
DisconnectConfig(c, ms) == [c EXCEPT !.conf["Disconnect"] = ms]

DisconnectSend(c) == DisconnectSendInternal(Sent(c, "Disconnect"))

MaySetWill(c) ==
    /\ c.connectionStatus = "Connected" /\ ~ c.disconnecting
    /\ ~ Has(c, "Connect") /\ ~ Has(c, "Disconnect") /\ ~ Has(c, "Will")

WillConfig(c, will) == [c EXCEPT !.conf["Will"] = will]

\* A will that is the one in force already is reported as set right away.
WillSend(c) ==
    LET will == c.conf["Will"]
        same == c.prevWill.topic # "" /\ will.topic = c.prevWill.topic
        d == [Sent(c, "Will") EXCEPT !.stage["Will"] = IF same THEN "willMsg" ELSE "willTopic"]
    IN IF same /\ will.msg = c.prevWill.msg THEN CompleteOp(d, "Will")
       ELSE WillSendInternal([d EXCEPT !.prevWill =
                CASE will.topic = "" -> Empty
                  [] will.topic # "" /\ ~ same -> [@ EXCEPT !.topic = ""]
                  [] will.topic # "" /\ same -> @])

\* send() enters the API, where the timers may end the very operation; it stays
\* ended then.
Entered(c, op, S(_)) ==
    \E ms \in {0} \cup Elapsed(c) :
        LET d == IF ms = 0 THEN c ELSE Tick(c, ms)
        IN k' = IF Has(d, op) THEN S(d) ELSE d

Connect(will, clean) ==
    LET c == IF k.initialized THEN k ELSE InitInternal(k)
        d == ConnectPrepare(c)
    IN /\ MayConnect(c)
       /\ \/ /\ ConnectConfigured(d, clean)
             /\ Entered(ConnectConfig(d, will), "Connect", LAMBDA e : ConnectSend(e, clean))
          \/ /\ ~ ConnectConfigured(d, clean)
             /\ k' = OpComplete(d, "Connect")
       /\ UNCHANGED <<silent, clock>>

Disconnect(sleep) ==
    /\ MayDisconnect(k)
    /\ Entered(DisconnectConfig(AllocOp(k, "Disconnect"), sleep), "Disconnect", DisconnectSend)
    /\ UNCHANGED <<silent, clock>>

SetWill(will) ==
    /\ MaySetWill(k)
    /\ Entered(WillConfig(AllocOp(k, "Will"), will), "Will", WillSend)
    /\ UNCHANGED <<silent, clock>>

\* cancel of a sent operation: it is gone, without a callback.
Cancelled(op) ==
    /\ op \in k.sent
    /\ k' = [OpComplete(k, op) EXCEPT !.owed = @ \ {op}]
    /\ UNCHANGED <<silent, clock>>

ConnectCancel == Cancelled("Connect")
DisconnectCancel == Cancelled("Disconnect")
WillCancel == Cancelled("Will")

\* A message of QoS 0, which nothing answers.
Publish ==
    /\ k.connectionStatus = "Connected" /\ ~ k.disconnecting
    /\ k' = SendMessage(k) /\ UNCHANGED <<silent, clock>>

\* This call does not enter the API: the time that passed before it is handed to
\* the timers later, and then to the one started here as well.
AsleepCheckMessages(ms) ==
    LET timers == SendPing(k).timers IN
    /\ k.connectionStatus = "Asleep" /\ ms < GetMinWait(k.timers)
    /\ k' = [SendPing(k) EXCEPT !.timers =
               [i \in DOMAIN timers |-> [timers[i] EXCEPT !.left =
                   IF @ = 0 THEN 0 ELSE Max({@ - ms, 1})]]]
    /\ UNCHANGED <<silent, clock>>

-----------------------------------------------------------------------------
Receive(msg) == ~ silent /\ k' = Handle(k, msg) /\ UNCHANGED <<silent, clock>>

Elapse(ms) ==
    /\ ms \in Elapsed(k) /\ k' = Tick(k, ms)
    /\ clock' = IF silent THEN 1 - clock ELSE clock
    /\ UNCHANGED silent

FallSilent == ~ silent /\ silent' = TRUE /\ UNCHANGED <<k, clock>>

Init == k = InitClient /\ silent = FALSE /\ clock = 0

Next ==
    \/ \E will \in Will \cup {None}, clean \in BOOLEAN : Connect(will, clean)
    \/ \E sleep \in {0, Sleep} : Disconnect(sleep)
    \/ \E will \in Will : SetWill(will)
    \/ ConnectCancel
    \/ DisconnectCancel
    \/ WillCancel
    \/ Publish
    \/ \E ms \in {0} \cup Elapsed(k) : AsleepCheckMessages(ms)
    \/ \E msg \in Message : Receive(msg)
    \/ \E ms \in Elapsed(k) : Elapse(ms)
    \/ FallSilent

Spec == Init /\ [][Next]_vars

\* Time passes and the application calls tick() as long as a timer is active: weak
\* fairness of Elapse once the gateway is silent, written with the clock.
FairSpec == Spec /\ (<>[](GetMinWait(k.timers) > 0) => []<><<clock' # clock>>_vars \/ []~silent)

-----------------------------------------------------------------------------
TypeOK ==
    /\ k.connectionStatus \in {"Connected", "Asleep", "Disconnected"}
    /\ Len(k.ops) <= 3 /\ Range(k.ops) \subseteq Op /\ IsInjective(k.ops)
    /\ k.sent \subseteq Range(k.ops) \ {"KeepAlive"}
    /\ k.prevWill \in [topic : {w.topic : w \in Will} \cup {""}, msg : {w.msg : w \in Will} \cup {""}]
    /\ \A i \in DOMAIN k.timers : k.timers[i].left \in 0 .. Max({RetryPeriod, KeepAlive, Sleep})
    /\ \A op \in Op : k.retries[op] \in 0 .. RetryCount

\* Whatever the gateway answers, repeats or leaves out, and however the timers
\* fall due, an operation that was sent is reported exactly once: it is there, with
\* its callback, as long as the application waits for it, and no longer.
ReportedOnce == k.owed = k.sent

\* A client that is connected or asleep has a keep-alive operation with a timer
\* running, although each of the three may be stopped, and SendPing starts none
\* while an answer is awaited.
ConnectionWatched ==
    k.connectionStatus # "Disconnected" => TimersOf("KeepAlive") \cap Active(k.timers) # {}

\* After the disconnection nothing of the session is left: no operation, no
\* running timer, no callback the application still waits for.
DisconnectEndsAll ==
    k.disconnecting => ~ k.initialized /\ k.ops = << >> /\ k.owed = {} /\ Active(k.timers) = {}

\* The gateway is given up only after every attempt: RetryCount + 1 PINGREQs since
\* the last PINGRESP.
GoneOnlyAfterPings == k.reason = "NoGatewayResponse" => k.pings = RetryCount + 1

\* If the gateway falls silent every operation is reported in the end.
SilenceEndsOps == \A op \in Op : silent /\ op \in k.owed ~> op \notin k.owed

\* If the gateway falls silent after a message that KeepAliveOp heard, or with a
\* PINGREQ unanswered, the connection is given up in the end.
SilenceNoticedOnceHeard ==
    silent /\ k.connectionStatus # "Disconnected"
           /\ (TimerIsActive(k.timers, "recv") \/ TimerIsActive(k.timers, "resp"))
        ~> k.connectionStatus = "Disconnected"

\* If the gateway falls silent the connection is given up in the end.
SilenceNoticed ==
    silent /\ k.connectionStatus # "Disconnected" ~> k.connectionStatus = "Disconnected"
=============================================================================
