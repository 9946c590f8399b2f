----------------------------- MODULE GwSession ------------------------------
(***************************************************************************)
(* The control plane of a gateway session (gateway/lib/src/SessionImpl.cpp *)
(* and the operations in gateway/lib/src/session_op): connecting a client  *)
(* and keeping the MQTT connection made on its behalf, the will handshake  *)
(* and its updates, sleep, keep-alive and termination.                     *)
(*                                                                         *)
(* A message is dispatched to the operations in the order Connect,         *)
(* Disconnect, Asleep, AsleepMonitor, PubSend, WillUpdate, Ping; one       *)
(* action is one such dispatch.  A timer is armed or not, and an armed one *)
(* may fire at any moment: the periods are configured independently.       *)
(* Delivery to the client (PubSend) and the topic registry (RegMgr) appear *)
(* only through what the control plane sees of them.                       *)
(***************************************************************************)
EXTENDS Integers

CONSTANTS ClientId, WillTopic, WillMsg, KeepAlive,
          DefaultClientId, PubOnlyKeepAlive,
          RetryCount,  \* attempts before an operation gives up
          Menus,       \* sets of kinds of messages; a client keeps to one of them
          ClientKind   \* how disciplined the client is, see OrderlyConnect

ASSUME GwSessionAssumption ==
    /\ RetryCount \in Nat \ {0}
    /\ KeepAlive \subseteq Nat \ {0}
    /\ DefaultClientId \in ClientId
    /\ PubOnlyKeepAlive \in KeepAlive
    /\ ClientKind \in {"any", "repeating", "patient"}
    /\ "" \notin ClientId \cup WillTopic \cup WillMsg

NoWill == [topic |-> "", msg |-> ""]
WillInfo == [topic : WillTopic \cup {""}, msg : WillMsg \cup {""}]
ConnStatus == {"Disconnected", "Connected", "Asleep"}
SessionState == [connStatus : ConnStatus, clientId : ClientId \cup {""},
                 keepAlive : KeepAlive \cup {0}, will : WillInfo]
\* Connect::State and the members of Connect; willFlag is history, the will
\* flag of the CONNECT in progress.
ConnectState == [attempt : 0 .. RetryCount, hasClientId : BOOLEAN,
                 hasWillTopic : BOOLEAN, hasWillMsg : BOOLEAN,
                 waitingForReconnect : BOOLEAN, pubOnlyClient : BOOLEAN,
                 clientId : ClientId \cup {""}, will : WillInfo,
                 keepAlive : KeepAlive \cup {0}, clean : BOOLEAN,
                 tick : BOOLEAN, willFlag : BOOLEAN]
WillUpdateState == [op : {"None", "WILLTOPICUPD", "WILLMSGUPD"},
                    reconnectRequested : BOOLEAN, brokerConnectSent : BOOLEAN,
                    will : WillInfo, tick : BOOLEAN]
Connection == [link : {"none", "open", "requested", "up", "closed"},
               connects : 0 .. 2, will : WillInfo]
\* The will the broker gets: none when the topic is empty.
Announced(will) == IF will.topic = "" THEN NoWill ELSE will

VARIABLES
    st,           \* SessionState: connStatus, clientId, keepAlive and will
    m_brokerConnected, m_reconnectingBroker, m_pendingClientDisconnect,
    m_terminating,
    inCall,       \* termination was requested earlier in a call whose other
                  \* messages are still dispatched
    m_connect,    \* the Connect operation
    m_willUpdate, \* the WillUpdate operation
    asleepTick, monitorTick,  \* timers of Asleep and AsleepMonitor
    ping,         \* the Ping operation: attempts and timer
    busy, m_ping, \* PubSend: has messages to deliver, owes a PINGRESP
    regs,         \* RegMgr holds topics the client registered
    broker,       \* the TCP connection: MQTT state, CONNECTs seen, will
    clientGone,   \* the client fell silent for good
    menu,         \* the kinds of message the client sends
    wantWill,      \* history: the will last accepted from the client
    cleanConnected \* history: a clean session was accepted and nothing was
                   \* registered since

session == <<m_brokerConnected, m_reconnectingBroker, m_pendingClientDisconnect>>
sleep == <<asleepTick, monitorTick>>
pubSend == <<busy, m_ping>>
client == <<clientGone, menu>>
history == <<wantWill, cleanConnected>>
vars == <<st, session, m_terminating, inCall, m_connect, m_willUpdate, sleep,
          ping, pubSend, regs, broker, client, history>>

ConnectIdle ==
    [attempt |-> 0, hasClientId |-> FALSE, hasWillTopic |-> FALSE,
     hasWillMsg |-> FALSE, waitingForReconnect |-> FALSE,
     pubOnlyClient |-> FALSE, clientId |-> "", will |-> NoWill,
     keepAlive |-> 0, clean |-> FALSE, tick |-> FALSE, willFlag |-> FALSE]

WillIdle == [op |-> "None", reconnectRequested |-> FALSE,
             brokerConnectSent |-> FALSE, will |-> NoWill, tick |-> FALSE]

Init ==
    /\ st = [connStatus |-> "Disconnected", clientId |-> "",
             keepAlive |-> 0, will |-> NoWill]
    /\ m_brokerConnected = FALSE
    /\ m_reconnectingBroker = FALSE
    /\ m_pendingClientDisconnect = FALSE
    /\ m_terminating = FALSE
    /\ inCall = FALSE
    /\ m_connect = ConnectIdle
    /\ m_willUpdate = WillIdle
    /\ asleepTick = FALSE
    /\ monitorTick = FALSE
    /\ ping = [attempt |-> 0, tick |-> FALSE]
    /\ busy = FALSE
    /\ m_ping = FALSE
    /\ regs = FALSE
    /\ broker = [link |-> "none", connects |-> 0, will |-> NoWill]
    /\ clientGone = FALSE
    /\ menu \in Menus
    /\ wantWill = NoWill
    /\ cleanConnected = FALSE

-----------------------------------------------------------------------------
\* The broker's side of the TCP connection after the gateway sent a message.
\* A broker takes one CONNECT per connection.
Sent(b, msg, will) ==
    CASE b.link # "none" /\ msg = "CONNECT" ->
            [link |-> IF b.link = "open" THEN "requested" ELSE b.link,
             connects |-> IF b.connects = 0 THEN 1 ELSE 2,
             will |-> IF b.link = "open" THEN Announced(will) ELSE b.will]
      [] b.link # "none" /\ msg = "DISCONNECT" ->
            [b EXCEPT !.link = "closed", !.will = NoWill]
      [] OTHER -> b

\* Ping::restartPingTimer, run on connStatusUpdated and on client messages.
PingRestarted ==
    ping' = IF st'.connStatus = "Connected"
            THEN [attempt |-> 0, tick |-> TRUE]
            ELSE [ping EXCEPT !.tick = FALSE]

\* Asleep and AsleepMonitor on a message they have no handler for.
SleepTimersChecked ==
    /\ asleepTick' = (asleepTick /\ st'.connStatus = "Asleep")
    /\ monitorTick' = (monitorTick /\ st'.connStatus = "Asleep")

\* PubSend::checkSend.  An awake client gets what is queued, and once nothing
\* is left the PINGRESP it waits for, or the postponed DISCONNECT.  A message
\* still unacknowledged may hold this up.
CheckSend(pinged, term) ==
    LET owed == m_ping \/ pinged
        awake == \/ st'.connStatus = "Connected"
                 \/ st'.connStatus = "Asleep" /\ owed
    IN /\ busy' \in {busy, FALSE}
       /\ m_ping' \in {owed, owed /\ (~ awake \/ m_pendingClientDisconnect)}
       /\ ~ busy' /\ st'.connStatus = "Asleep" /\ ~ m_pendingClientDisconnect => ~ m_ping'
       /\ \E sendDisconnect \in BOOLEAN :
             /\ sendDisconnect => awake /\ m_pendingClientDisconnect
             /\ awake /\ m_pendingClientDisconnect /\ ~ busy => sendDisconnect
             /\ m_terminating' = (m_terminating \/ term \/ sendDisconnect)

\* The timers are looked at when a call starts, and its data may hold several
\* messages: all of them are dispatched even if one ends the session.
Continues == inCall' \in {FALSE, m_terminating'}

-----------------------------------------------------------------------------
(* The Connect operation: what a call to doNextStep leads to. *)

\* op, st: the new states; out: what is sent to the broker; upd: whether
\* connStatusUpdated is called; ack: the answer given to the client; clean,
\* keepsWill: what it asked for; clear: registrations are dropped.
Result(c) ==
    [op |-> c, st |-> st, out |-> "none", upd |-> FALSE, term |-> FALSE,
     ack |-> "none", clean |-> c.clean, keepsWill |-> ~ c.willFlag /\ ~ c.clean,
     clear |-> FALSE]

ClearConnectionInfo(clearClientId) ==
    [connStatus |-> "Disconnected", keepAlive |-> 0, will |-> NoWill,
     clientId |-> IF clearClientId THEN "" ELSE st.clientId]

\* Mutant: every answer of the broker is passed on as a success.
AlwaysAccepted(c, code) ==
    [Result(c) EXCEPT
        !.op = [ConnectIdle EXCEPT !.tick = c.tick /\ ~ c.pubOnlyClient],
        !.st = [connStatus |-> "Connected", clientId |-> c.clientId,
                keepAlive |-> c.keepAlive, will |-> c.will],
        !.upd = TRUE,
        !.ack = "Accepted"]

\* The answer clears the operation's own m_clean before processAck looks at
\* it, so registrations stay.
ProcessAck(c, code) ==
    [Result(c) EXCEPT
        !.op = [ConnectIdle EXCEPT !.tick = c.tick /\ ~ c.pubOnlyClient],
        !.st = IF code = "Accepted"
               THEN [connStatus |-> "Connected", clientId |-> c.clientId,
                     keepAlive |-> c.keepAlive, will |-> c.will]
               ELSE ClearConnectionInfo(TRUE),
        !.upd = TRUE,
        !.ack = code]

\* Mutant: no deadline is set for the new connection.
WaitForever(c) == [c EXCEPT !.waitingForReconnect = TRUE]

WaitForReconnect(c) == [c EXCEPT !.waitingForReconnect = TRUE, !.tick = TRUE]

\* Mutant: the will is not compared.
AnyWill(c) == c.will \in WillInfo

SameWill(c) ==
    /\ st.will.topic = c.will.topic
    /\ st.will.topic # "" => st.will = c.will

\* The broker already has a connection with these very parameters, or one
\* that is about to be closed anyway.
NothingToForward(c) ==
    /\ SameWill(c)
    /\ st.clientId = c.clientId
    /\ m_pendingClientDisconnect \/ st.keepAlive = c.keepAlive

\* Everything is known: answer at once, reconnect, or forward CONNECT.
ConnectToBroker(c, connected) ==
    LET rejected == st.clientId \notin {"", c.clientId}
        forward == ~ rejected /\ ~ NothingToForward(c)
    IN CASE rejected -> ProcessAck(c, "IdentifierRejected")
         [] NothingToForward(c) ->
               [ProcessAck(c, "Accepted") EXCEPT
                   !.clear = c.clean /\ ~ m_pendingClientDisconnect]
         [] forward /\ ~ connected -> ProcessAck(c, "ServerUnavailable")
         [] forward /\ connected /\ st.connStatus # "Disconnected" ->
               [Result(WaitForReconnect(c)) EXCEPT !.out = "DISCONNECT"]
         [] forward /\ connected /\ st.connStatus = "Disconnected" ->
               [Result([c EXCEPT !.tick = c.pubOnlyClient])
                   EXCEPT !.out = "CONNECT"]

DoNextStep(c, connected) ==
    LET n == [c EXCEPT !.tick = FALSE, !.attempt = @ + 1]
        giveUp == RetryCount <= c.attempt
    IN CASE giveUp ->
               [Result([c EXCEPT !.tick = FALSE, !.clientId = ""]) EXCEPT
                   !.st.connStatus = "Disconnected", !.upd = TRUE]
         [] ~ giveUp /\ c.waitingForReconnect ->
               [ProcessAck(n, "ServerUnavailable") EXCEPT !.term = TRUE]
         [] ~ giveUp /\ ~ c.waitingForReconnect /\ c.hasWillMsg ->
               ConnectToBroker(n, connected)
         [] ~ giveUp /\ ~ c.waitingForReconnect /\ ~ c.hasWillMsg ->
               Result([n EXCEPT !.tick = TRUE])

\* The effect of a result on what Connect alone decides.
Apply(r) ==
    /\ m_connect' = r.op
    /\ st' = r.st
    /\ regs' = (regs /\ ~ r.clear)
    /\ wantWill' = IF r.ack = "none" \/ (r.ack = "Accepted" /\ r.keepsWill)
                   THEN wantWill ELSE r.st.will
    /\ cleanConnected' = IF r.ack \in {"none", "WillUpdated"} THEN cleanConnected
                         ELSE r.ack = "Accepted" /\ r.clean

RequestReconnect(r) ==
    m_reconnectingBroker' =
        (m_reconnectingBroker \/ (r.out = "DISCONNECT" /\ ~ m_terminating))

\* Connect handled a client's message; the other operations follow.
Dispatched(r) ==
    /\ Apply(r)
    /\ RequestReconnect(r)
    /\ broker' = Sent(broker, r.out, r.op.will)
    /\ SleepTimersChecked
    /\ CheckSend(FALSE, r.term)
    /\ PingRestarted
    /\ Continues
    /\ UNCHANGED <<m_brokerConnected, m_pendingClientDisconnect, client>>

-----------------------------------------------------------------------------
(* Messages of the client.  Any of them may be late or a duplicate. *)

Running == ~ m_terminating \/ inCall
FromClient(msg) == Running /\ ~ clientGone /\ msg \in menu

WillUpdateCancelled ==
    m_willUpdate' = IF m_willUpdate.op = "None" THEN m_willUpdate
                    ELSE [m_willUpdate EXCEPT !.op = "None", !.tick = FALSE]

\* Mutant: a CONNECT without a will drops the retained one.
WillDropped(willFlag, clean, will) == IF willFlag THEN will ELSE NoWill

\* A CONNECT without a will keeps the one the session holds, unless the session
\* is to be a clean one.
RetainedWill(willFlag, clean, will) ==
    IF willFlag THEN will ELSE IF clean THEN NoWill ELSE st.will

\* CONNECT, seen by Connect and (it cancels an update) by WillUpdate.
ConnectMsg(id, willFlag, clean, keepAlive) ==
    LET base == IF m_connect.hasClientId
                THEN [ConnectIdle EXCEPT !.will = m_connect.will, !.tick = m_connect.tick]
                ELSE m_connect
        c == [base EXCEPT !.hasClientId = TRUE, !.clientId = id,
                 !.keepAlive = keepAlive, !.clean = clean,
                 !.hasWillTopic = @ \/ ~ willFlag, !.hasWillMsg = @ \/ ~ willFlag,
                 !.willFlag = willFlag,
                 !.will = RetainedWill(willFlag, clean, @)]
        otherClient == st.connStatus # "Disconnected" /\ id # st.clientId
        wait == /\ st.connStatus = "Disconnected"
                /\ ~ m_brokerConnected
                /\ ~ c.waitingForReconnect
                /\ ~ m_pendingClientDisconnect
    IN /\ FromClient("CONNECT")
       /\ \/ /\ otherClient
             /\ Dispatched([Result(m_connect) EXCEPT
                              !.st.connStatus = "Disconnected", !.term = TRUE])
          \/ /\ ~ otherClient /\ wait
             /\ Dispatched(Result(WaitForReconnect(c)))
          \/ /\ ~ otherClient /\ ~ wait
             /\ Dispatched(DoNextStep(c, m_brokerConnected))
       /\ WillUpdateCancelled

WilltopicMsg(topic) ==
    LET c == [m_connect EXCEPT !.hasWillTopic = TRUE, !.attempt = 0,
                 !.will.topic = topic, !.hasWillMsg = (topic = "")]
        wanted == m_connect.hasClientId /\ ~ m_connect.hasWillMsg
    IN /\ FromClient("WILLTOPIC")
       /\ \/ wanted /\ Dispatched(DoNextStep(c, m_brokerConnected))
          \/ ~ wanted /\ Dispatched(Result(m_connect))
       /\ UNCHANGED m_willUpdate

WillmsgMsg(msg) ==
    LET c == [m_connect EXCEPT !.hasWillMsg = TRUE, !.attempt = 0, !.will.msg = msg]
        wanted == m_connect.hasWillTopic
    IN /\ FromClient("WILLMSG")
       /\ \/ wanted /\ Dispatched(DoNextStep(c, m_brokerConnected))
          \/ ~ wanted /\ Dispatched(Result(m_connect))
       /\ UNCHANGED m_willUpdate

\* A PUBLISH with QoS -1: the gateway connects on behalf of a client that never
\* sent CONNECT.
NoGwPublishMsg ==
    LET c == [ConnectIdle EXCEPT !.clientId = DefaultClientId,
                 !.keepAlive = PubOnlyKeepAlive, !.clean = TRUE,
                 !.hasClientId = TRUE, !.hasWillTopic = TRUE, !.hasWillMsg = TRUE,
                 !.pubOnlyClient = TRUE, !.tick = m_connect.tick]
        newClient == /\ st.connStatus = "Disconnected"
                     /\ ~ m_pendingClientDisconnect
                     /\ st.clientId = ""
                     /\ m_connect.clientId = ""
    IN /\ FromClient("NOGWPUBLISH")
       /\ \/ ~ newClient /\ Dispatched(Result(m_connect))
          \/ newClient /\ m_brokerConnected /\ Dispatched(DoNextStep(c, TRUE))
          \/ /\ newClient /\ ~ m_brokerConnected
             /\ Dispatched(Result(WaitForReconnect(c)))
       /\ UNCHANGED m_willUpdate

\* DISCONNECT without a duration.
DisconnectMsg ==
    /\ FromClient("DISCONNECT")
    /\ st' = [st EXCEPT !.connStatus = "Disconnected"]
    /\ broker' = Sent(broker, "DISCONNECT", NoWill)
    /\ CheckSend(FALSE, TRUE)
    /\ WillUpdateCancelled
    /\ PingRestarted
    /\ Continues
    /\ UNCHANGED <<session, m_connect, sleep, regs, client, history>>

\* DISCONNECT with a duration: the client goes to sleep.
SleepMsg ==
    /\ FromClient("SLEEP")
    /\ st' = [st EXCEPT !.connStatus = "Asleep"]
    /\ asleepTick' = TRUE
    /\ monitorTick' = TRUE
    /\ CheckSend(FALSE, FALSE)
    /\ WillUpdateCancelled
    /\ PingRestarted
    /\ Continues
    /\ UNCHANGED <<session, m_connect, regs, broker, client, history>>

\* Mutant: the sleep monitor is cancelled and not armed again.
PingreqStopsMonitor(id) ==
    /\ FromClient("PINGREQ")
    /\ monitorTick' = FALSE
    /\ asleepTick' = (asleepTick /\ st.connStatus = "Asleep")
    /\ UNCHANGED st
    /\ CheckSend(st.connStatus = "Asleep" /\ id = st.clientId, FALSE)
    /\ PingRestarted
    /\ Continues
    /\ UNCHANGED <<session, m_connect, m_willUpdate, regs, broker, client, history>>

\* PINGREQ; a sleeping client that names itself is awake until its PINGRESP.
PingreqMsg(id) ==
    /\ FromClient("PINGREQ")
    /\ monitorTick' = (st.connStatus = "Asleep")
    /\ asleepTick' = (asleepTick /\ st.connStatus = "Asleep")
    /\ UNCHANGED st
    /\ \/ st.connStatus = "Asleep" /\ id = st.clientId /\ CheckSend(TRUE, FALSE)
       \/ /\ st.connStatus # "Asleep" \/ id # st.clientId
          /\ UNCHANGED <<pubSend, m_terminating>>
    /\ PingRestarted
    /\ Continues
    /\ UNCHANGED <<session, m_connect, m_willUpdate, regs, broker, client, history>>

\* WILLTOPICUPD and WILLMSGUPD.  The will of a connection can only be changed
\* by leaving the broker and connecting again.
WillUpdateMsg(op, will) ==
    LET start == /\ st.connStatus = "Connected"
                 /\ m_willUpdate.op = "None"
                 /\ will # st.will
    IN /\ FromClient(op)
       /\ m_willUpdate' = IF start
                          THEN [op |-> op, reconnectRequested |-> TRUE, will |-> will,
                                brokerConnectSent |-> FALSE, tick |-> TRUE]
                          ELSE m_willUpdate
       /\ broker' = IF start THEN Sent(broker, "DISCONNECT", NoWill) ELSE broker
       /\ UNCHANGED st
       /\ SleepTimersChecked
       /\ CheckSend(FALSE, FALSE)
       /\ m_reconnectingBroker' = (m_reconnectingBroker \/ (start /\ ~ m_terminating'))
       /\ PingRestarted
       /\ Continues
       /\ UNCHANGED <<m_brokerConnected, m_pendingClientDisconnect, m_connect,
                      regs, client, history>>

WilltopicupdMsg(topic) == WillUpdateMsg("WILLTOPICUPD", [st.will EXCEPT !.topic = topic])
WillmsgupdMsg(msg) == WillUpdateMsg("WILLMSGUPD", [st.will EXCEPT !.msg = msg])

\* REGISTER is answered by the session itself and dispatched to no operation.
RegisterMsg ==
    /\ FromClient("REGISTER")
    /\ regs' = TRUE
    /\ cleanConnected' = FALSE
    /\ UNCHANGED <<st, session, m_terminating, m_connect, m_willUpdate, sleep,
                   ping, pubSend, broker, client, wantWill>>
    /\ Continues

\* Any other message of the client.
OtherMsg ==
    /\ FromClient("OTHER")
    /\ Dispatched(Result(m_connect))
    /\ UNCHANGED m_willUpdate

-----------------------------------------------------------------------------
(* The broker, and the application that owns the connection to it. *)

\* CONNACK, seen by Connect and by WillUpdate.  sp: the session present flag.
ConnackMsg(code, sp) ==
    LET r == IF m_connect.hasWillMsg THEN ProcessAck(m_connect, code)
             ELSE Result(m_connect)
        updating == m_willUpdate.op # "None"
        updated == updating /\ code = "Accepted" /\ sp
    IN /\ Running
       /\ broker.link = "requested"
       /\ broker' = IF code = "Accepted" THEN [broker EXCEPT !.link = "up"]
                    ELSE [broker EXCEPT !.link = "closed", !.will = NoWill]
       /\ Apply(IF updated
                THEN [r EXCEPT !.st.will = m_willUpdate.will, !.ack = "WillUpdated"]
                ELSE r)
       /\ SleepTimersChecked
       /\ CheckSend(FALSE, updating /\ ~ updated)
       /\ WillUpdateCancelled
       /\ IF r.upd THEN PingRestarted ELSE UNCHANGED ping
       /\ Continues
       /\ UNCHANGED <<session, client>>

\* PUBLISH (or the PUBREL that completes one): PubRecv queues it for the client.
BrokerPublishMsg ==
    /\ Running
    /\ broker.link = "up"
    /\ UNCHANGED <<st, ping>>
    /\ SleepTimersChecked
    /\ \/ /\ busy' = TRUE
          /\ UNCHANGED <<m_ping, m_terminating>>
       \/ CheckSend(FALSE, FALSE)
    /\ Continues
    /\ UNCHANGED <<session, m_connect, m_willUpdate, regs, broker, client, history>>

\* PINGRESP: the next PINGREQ on behalf of a sleeping client is scheduled.
PingrespMsg ==
    /\ Running
    /\ broker.link = "up"
    /\ UNCHANGED <<st, ping>>
    /\ asleepTick' = (asleepTick \/ (~ m_pendingClientDisconnect /\ st.connStatus = "Asleep"))
    /\ monitorTick' = (monitorTick /\ st.connStatus = "Asleep")
    /\ CheckSend(FALSE, FALSE)
    /\ Continues
    /\ UNCHANGED <<session, m_connect, m_willUpdate, regs, broker, client, history>>

\* setBrokerConnected(true): Connect goes on where it waited for the connection,
\* then WillUpdate sends its own CONNECT.
BrokerConnected ==
    LET r == IF m_connect.waitingForReconnect
             THEN DoNextStep([m_connect EXCEPT !.waitingForReconnect = FALSE], TRUE)
             ELSE Result(m_connect)
        stage == /\ m_willUpdate.op # "None"
                 /\ m_willUpdate.reconnectRequested
                 /\ ~ m_willUpdate.brokerConnectSent
        open == [link |-> "open", connects |-> 0, will |-> NoWill]
    IN /\ Running
       /\ ~ m_brokerConnected
       /\ m_brokerConnected' = TRUE
       /\ m_reconnectingBroker' = (r.out = "DISCONNECT" /\ ~ m_terminating)
       /\ Apply(r)
       /\ broker' = Sent(Sent(open, r.out, r.op.will),
                         IF stage THEN "CONNECT" ELSE "none", m_willUpdate.will)
       /\ m_willUpdate' = [m_willUpdate EXCEPT !.brokerConnectSent = @ \/ stage,
                                               !.tick = @ \/ stage]
       /\ m_terminating' = (m_terminating \/ r.term)
       /\ IF r.upd THEN PingRestarted ELSE UNCHANGED ping
       /\ inCall' = FALSE
       /\ UNCHANGED <<m_pendingClientDisconnect, sleep, pubSend, client>>

\* setBrokerConnected(false): Connect forgets the connection it is replacing;
\* an unsolicited loss ends the session, after the wake-up of a sleeping client.
BrokerDisconnected ==
    LET s == IF m_connect.waitingForReconnect THEN ClearConnectionInfo(FALSE) ELSE st
        lost == ~ m_reconnectingBroker
    IN /\ Running
       /\ m_brokerConnected
       /\ m_brokerConnected' = FALSE
       /\ broker' = [link |-> "none", connects |-> 0, will |-> NoWill]
       /\ st' = IF lost /\ s.connStatus = "Connected"
                THEN [s EXCEPT !.connStatus = "Disconnected"] ELSE s
       /\ m_pendingClientDisconnect' =
             (m_pendingClientDisconnect \/ (lost /\ s.connStatus = "Asleep"))
       /\ m_terminating' = (m_terminating \/ (lost /\ s.connStatus # "Asleep"))
       /\ asleepTick' = (asleepTick /\ ~ lost)
       /\ IF m_connect.waitingForReconnect \/ (lost /\ s.connStatus = "Connected")
          THEN PingRestarted ELSE UNCHANGED ping
       /\ inCall' = FALSE
       /\ UNCHANGED <<m_reconnectingBroker, m_connect, m_willUpdate, monitorTick,
                      pubSend, regs, client, history>>

-----------------------------------------------------------------------------
(* Timers.  They are looked at by tick() and at the start of other calls.  *)

Fired == Running /\ Continues

ConnectTick ==
    LET r == DoNextStep(m_connect, m_brokerConnected) IN
    /\ m_connect.tick
    /\ Apply(r)
    /\ RequestReconnect(r)
    /\ broker' = Sent(broker, r.out, r.op.will)
    /\ m_terminating' = (m_terminating \/ r.term)
    /\ IF r.upd THEN PingRestarted ELSE UNCHANGED ping
    /\ Fired
    /\ UNCHANGED <<m_brokerConnected, m_pendingClientDisconnect, m_willUpdate,
                   sleep, pubSend, client>>

\* Asleep: PINGREQ to the broker.  Its m_attempt is never incremented, so the
\* limit on attempts is never reached.
AsleepTick ==
    /\ asleepTick
    /\ asleepTick' = (~ m_pendingClientDisconnect /\ st.connStatus = "Asleep")
    /\ UNCHANGED m_terminating
    /\ Fired
    /\ UNCHANGED <<st, session, m_connect, m_willUpdate, monitorTick, ping,
                   pubSend, regs, broker, client, history>>

\* AsleepMonitor: the sleeping client missed its own deadline.
MonitorTick ==
    LET asleep == st.connStatus = "Asleep" IN
    /\ monitorTick
    /\ monitorTick' = FALSE
    /\ broker' = IF asleep THEN Sent(broker, "DISCONNECT", NoWill) ELSE broker
    /\ m_terminating' = (m_terminating \/ asleep)
    /\ Fired
    /\ UNCHANGED <<st, session, m_connect, m_willUpdate, asleepTick, ping,
                   pubSend, regs, client, history>>

\* Mutant: attempts are counted but never limited.
PingTickUnlimited ==
    /\ ping.tick
    /\ ping' = [ping EXCEPT !.attempt = @ + 1]
    /\ UNCHANGED m_terminating
    /\ Fired
    /\ UNCHANGED <<st, session, m_connect, m_willUpdate, sleep, pubSend, regs,
                   broker, client, history>>

\* Mutant: attempts are not counted.
PingTickUncounted ==
    /\ ping.tick
    /\ UNCHANGED <<ping, m_terminating>>
    /\ Fired
    /\ UNCHANGED <<st, session, m_connect, m_willUpdate, sleep, pubSend, regs,
                   broker, client, history>>

PingTick ==
    /\ ping.tick
    /\ \/ /\ RetryCount <= ping.attempt
          /\ ping' = [ping EXCEPT !.tick = FALSE]
          /\ m_terminating' = TRUE
       \/ /\ ping.attempt < RetryCount
          /\ ping' = [ping EXCEPT !.attempt = @ + 1]
          /\ UNCHANGED m_terminating
    /\ Fired
    /\ UNCHANGED <<st, session, m_connect, m_willUpdate, sleep, pubSend, regs,
                   broker, client, history>>

\* WillUpdate: the broker did not come back, or did not answer, in time.
WillTick ==
    /\ m_willUpdate.tick
    /\ m_willUpdate' = [m_willUpdate EXCEPT !.op = "None", !.tick = FALSE]
    /\ m_terminating' = (m_terminating \/ m_willUpdate.op # "None")
    /\ Fired
    /\ UNCHANGED <<st, session, m_connect, sleep, ping, pubSend, regs, broker,
                   client, history>>

\* PubSend: a message was acknowledged too late or given up.
PubSendTick ==
    /\ busy
    /\ UNCHANGED st
    /\ CheckSend(FALSE, FALSE)
    /\ Fired
    /\ UNCHANGED <<session, m_connect, m_willUpdate, sleep, ping, regs, broker,
                   client, history>>

\* The client is switched off or out of reach.
ClientGone ==
    /\ ~ clientGone
    /\ clientGone' = TRUE
    /\ UNCHANGED <<menu, st, session, m_terminating, inCall, m_connect, m_willUpdate,
                   sleep, ping, pubSend, regs, broker, history>>

-----------------------------------------------------------------------------
\* What a client like the one in client/lib does, on a network that may still
\* duplicate its messages: it has one operation in progress at a time, repeats
\* it unchanged, and sleeps or updates its will only while connected.  A patient
\* one, moreover, does not repeat CONNECT while the gateway is replacing its
\* connection to the broker.
Connecting == m_connect.hasClientId /\ m_connect.clientId # ""
OrderlyConnect(id, willFlag, clean, k) ==
    /\ m_willUpdate.op = "None"
    /\ ClientKind = "patient" => ~ m_reconnectingBroker
    /\ Connecting => /\ m_connect.clientId = id /\ m_connect.willFlag = willFlag
                     /\ m_connect.clean = clean /\ m_connect.keepAlive = k
OrderlyWill(old, new) == Connecting /\ m_connect.willFlag /\ new # "" /\ old \in {"", new}
OrderlyRequest == /\ ~ Connecting /\ m_willUpdate.op = "None"
                  /\ st.connStatus # "Disconnected"

ClientStep ==
    \/ \E id \in ClientId, willFlag, clean \in BOOLEAN, k \in KeepAlive :
          /\ ClientKind # "any" => OrderlyConnect(id, willFlag, clean, k)
          /\ ConnectMsg(id, willFlag, clean, k)
    \/ \E topic \in WillTopic \cup {""} :
          /\ ClientKind # "any" => OrderlyWill(m_connect.will.topic, topic)
          /\ WilltopicMsg(topic)
    \/ \E msg \in WillMsg :
          /\ ClientKind # "any" => OrderlyWill(m_connect.will.msg, msg)
          /\ WillmsgMsg(msg)
    \/ /\ ClientKind # "any" => OrderlyRequest
       /\ \/ \E topic \in WillTopic \cup {""} : WilltopicupdMsg(topic)
          \/ \E msg \in WillMsg : WillmsgupdMsg(msg)
          \/ SleepMsg
          \/ RegisterMsg
    \/ \E id \in ClientId : PingreqMsg(id)
    \/ NoGwPublishMsg
    \/ DisconnectMsg
    \/ OtherMsg

BrokerStep ==
    \/ \E code \in {"Accepted", "NotAuthorized"}, sp \in BOOLEAN : ConnackMsg(code, sp)
    \/ BrokerPublishMsg
    \/ PingrespMsg
    \/ BrokerConnected
    \/ BrokerDisconnected

TimerStep ==
    ConnectTick \/ AsleepTick \/ MonitorTick \/ PingTick \/ WillTick \/ PubSendTick

Next == ClientStep \/ BrokerStep \/ TimerStep \/ ClientGone

\* The application calls tick() when a programmed timer is due.
Fairness ==
    /\ WF_vars(MonitorTick)
    /\ WF_vars(PingTick)

Spec == Init /\ [][Next]_vars
FairSpec == Spec /\ Fairness

-----------------------------------------------------------------------------
\* The types of the session's fields; attempts stay within the retry count.
TypeOK ==
    /\ st \in SessionState
    /\ m_brokerConnected \in BOOLEAN
    /\ m_reconnectingBroker \in BOOLEAN
    /\ m_pendingClientDisconnect \in BOOLEAN
    /\ m_terminating \in BOOLEAN
    /\ inCall \in BOOLEAN
    /\ m_connect \in ConnectState
    /\ m_willUpdate \in WillUpdateState
    /\ asleepTick \in BOOLEAN
    /\ monitorTick \in BOOLEAN
    /\ ping \in [attempt : 0 .. RetryCount, tick : BOOLEAN]
    /\ busy \in BOOLEAN
    /\ m_ping \in BOOLEAN
    /\ regs \in BOOLEAN
    /\ broker \in Connection
    /\ clientGone \in BOOLEAN /\ menu \in Menus
    /\ wantWill \in WillInfo
    /\ cleanConnected \in BOOLEAN

\* A session never loses sight of its client: while it is connected the ping
\* timer runs, while it sleeps the sleep monitor runs, whatever messages,
\* timers and broker events were interleaved since.
ClientWatched ==
    ~ m_terminating =>
        /\ st.connStatus = "Connected" => ping.tick
        /\ st.connStatus = "Asleep" => monitorTick

\* Connect never waits for the broker connection without a deadline: the timer
\* that ends the wait runs, so the client is answered or dropped.  It needs at
\* least two attempts (setRetryCount): with one, doNextStep gives up first.
ReconnectTimed ==
    m_connect.waitingForReconnect /\ ~ m_terminating => m_connect.tick

\* Nothing is in progress between the client, the session and the broker.
Settled ==
    /\ ~ m_terminating /\ ~ m_pendingClientDisconnect
    /\ m_brokerConnected /\ ~ m_reconnectingBroker
    /\ ~ m_connect.hasClientId /\ m_willUpdate.op = "None"
    /\ broker.connects <= 1

\* A client that was told it is connected (CONNACK accepted, or asleep since)
\* has an established MQTT connection behind it, across the reconnections that
\* a changed will or keep-alive and the will updates cause.
ConnectedToBroker ==
    Settled /\ st.connStatus # "Disconnected" => broker.link = "up"

\* The broker holds the will the session believes it holds, whatever sequence
\* of CONNECT, WILLTOPICUPD and WILLMSGUPD set it.
WillAgrees ==
    Settled /\ st.connStatus # "Disconnected" => broker.will = Announced(st.will)

\* A CONNECT that is neither clean nor announces a will leaves the client with
\* the will it had: what test8 of gateway/lib/test/Session.th expects of a
\* CONNECT that only changes the keep-alive period.
WillKept == Settled /\ st.connStatus = "Connected" => st.will = wantWill

\* At most one CONNECT is sent over a connection to the broker, as the session
\* documentation says MQTT requires.
OneConnectPerConnection == broker.connects <= 1

\* Once a CONNECT that asks for a clean session was accepted, no topic
\* registered before it is left, as the end of Connect::processAck intends.
CleanSessionClears == cleanConnected => ~ regs

\* A client that falls silent is given up: the pings to a connected one run out
\* and a sleeping one misses its deadline, whatever was in progress.
SilentClientEnds ==
    (clientGone /\ st.connStatus # "Disconnected")
        ~> (m_terminating \/ st.connStatus = "Disconnected")
=============================================================================
