-------------------------- MODULE GwSession_proofs --------------------------
(***************************************************************************)
(* A gateway session never loses sight of its client, for every set of     *)
(* clients, wills, keep-alive periods and messages and any retry count.    *)
(***************************************************************************)
EXTENDS GwSession, TLAPS

\* The session state is a record with a connection status.
HasStatus(s) == "connStatus" \in DOMAIN s

\* What a result of Connect may do to the connection status: a change is
\* reported to the other operations and never puts the client to sleep.
Reported(r) ==
    /\ HasStatus(r.st)
    /\ \/ r.st.connStatus = st.connStatus
       \/ r.upd /\ r.st.connStatus # "Asleep"

-----------------------------------------------------------------------------
(* What Connect computes. *)

\* An operation that does nothing reports nothing.
LEMMA ResultReported ==
    ASSUME HasStatus(st), NEW c PROVE Reported(Result(c)) /\ Result(c).st = st
BY DEF Reported, Result

LEMMA ProcessAckReported ==
    ASSUME NEW c, NEW code
    PROVE  /\ Reported(ProcessAck(c, code))
           /\ ProcessAck(c, code).upd = TRUE
           /\ HasStatus(ProcessAck(c, code).st)
           /\ ProcessAck(c, code).st.connStatus # "Asleep"
<1>1. ProcessAck(c, code).upd = TRUE
  BY DEF ProcessAck, Result
<1>2. CASE code = "Accepted"
  <2>1. /\ ProcessAck(c, code).st.connStatus = "Connected"
        /\ "connStatus" \in DOMAIN ProcessAck(c, code).st
    BY <1>2 DEF ProcessAck, Result
  <2> QED  BY <1>1, <2>1 DEF Reported, HasStatus
<1>3. CASE code # "Accepted"
  <2>1. /\ ProcessAck(c, code).st.connStatus = "Disconnected"
        /\ "connStatus" \in DOMAIN ProcessAck(c, code).st
    BY <1>3 DEF ProcessAck, Result, ClearConnectionInfo
  <2> QED  BY <1>1, <2>1 DEF Reported, HasStatus
<1> QED  BY <1>2, <1>3

LEMMA ConnectToBrokerReported ==
    ASSUME HasStatus(st), NEW c, NEW connected
    PROVE  Reported(ConnectToBroker(c, connected))
<1> DEFINE r == ConnectToBroker(c, connected)
<1>1. CASE st.clientId \notin {"", c.clientId}
  <2>1. r = ProcessAck(c, "IdentifierRejected")
    BY <1>1 DEF ConnectToBroker, NothingToForward
  <2> QED  BY <2>1, ProcessAckReported
<1>2. CASE st.clientId \in {"", c.clientId} /\ NothingToForward(c)
  <2>1. r = [ProcessAck(c, "Accepted") EXCEPT !.clear = c.clean /\ ~ m_pendingClientDisconnect]
    BY <1>2 DEF ConnectToBroker
  <2>2. /\ r.upd = TRUE /\ r.st.connStatus = "Connected"
        /\ "connStatus" \in DOMAIN r.st
    BY <2>1 DEF ProcessAck, Result
  <2> HIDE DEF r
  <2>3. Reported(r)
    BY <2>2 DEF Reported, HasStatus
  <2> QED  BY <2>3 DEF r
<1>3. CASE st.clientId \in {"", c.clientId} /\ ~ NothingToForward(c) /\ ~ connected
  <2>1. r = ProcessAck(c, "ServerUnavailable")
    BY <1>3 DEF ConnectToBroker
  <2> QED  BY <2>1, ProcessAckReported
<1>4. CASE /\ st.clientId \in {"", c.clientId} /\ ~ NothingToForward(c) /\ connected
           /\ st.connStatus # "Disconnected"
  <2>1. r = [Result(WaitForReconnect(c)) EXCEPT !.out = "DISCONNECT"]
    BY <1>4 DEF ConnectToBroker
  <2>2. r.st = st
    BY <2>1 DEF Result
  <2> QED  BY <2>2 DEF Reported
<1>5. CASE /\ st.clientId \in {"", c.clientId} /\ ~ NothingToForward(c) /\ connected
           /\ st.connStatus = "Disconnected"
  <2>1. r = [Result([c EXCEPT !.tick = c.pubOnlyClient]) EXCEPT !.out = "CONNECT"]
    BY <1>5 DEF ConnectToBroker
  <2>2. r.st = st
    BY <2>1 DEF Result
  <2> QED  BY <2>2 DEF Reported
<1> QED  BY <1>1, <1>2, <1>3, <1>4, <1>5

LEMMA DoNextStepReported ==
    ASSUME HasStatus(st), NEW c, NEW connected
    PROVE  Reported(DoNextStep(c, connected))
<1> DEFINE n == [c EXCEPT !.tick = FALSE, !.attempt = @ + 1]
           r == DoNextStep(c, connected)
<1>1. CASE RetryCount <= c.attempt
  <2> DEFINE d == [c EXCEPT !.tick = FALSE, !.clientId = ""]
  <2>1. r = [Result(d) EXCEPT !.st.connStatus = "Disconnected", !.upd = TRUE]
    BY <1>1 DEF DoNextStep
  <2> HIDE DEF d
  <2>2. r.upd = TRUE
    BY <2>1 DEF Result
  <2>3. r.st = [st EXCEPT !.connStatus = "Disconnected"]
    BY <2>1 DEF Result
  <2>4. r.st.connStatus = "Disconnected" /\ "connStatus" \in DOMAIN r.st
    BY <2>3 DEF HasStatus
  <2> HIDE DEF r
  <2>5. Reported(r)
    BY <2>2, <2>4 DEF Reported, HasStatus
  <2> QED  BY <2>5 DEF r
<1>2. CASE ~ (RetryCount <= c.attempt) /\ c.waitingForReconnect
  <2>1. r = [ProcessAck(n, "ServerUnavailable") EXCEPT !.term = TRUE]
    BY <1>2 DEF DoNextStep
  <2> DEFINE p == ProcessAck(n, "ServerUnavailable")
  <2> HIDE DEF n
  <2>2. p.st = ClearConnectionInfo(TRUE) /\ p.upd = TRUE /\ {"st", "upd"} \subseteq DOMAIN p
    BY DEF ProcessAck, Result
  <2> HIDE DEF p
  <2>3. r.st = p.st /\ r.upd = p.upd
    BY <2>1, <2>2 DEF p
  <2> HIDE DEF r
  <2> DEFINE s == ClearConnectionInfo(TRUE)
  <2>4. s.connStatus = "Disconnected" /\ "connStatus" \in DOMAIN s
    BY DEF ClearConnectionInfo
  <2> HIDE DEF s
  <2>5. r.st = s
    BY <2>2, <2>3 DEF s
  <2>6. r.st.connStatus = "Disconnected" /\ "connStatus" \in DOMAIN r.st
    BY <2>4, <2>5
  <2>7. Reported(r)
    BY <2>2, <2>3, <2>6 DEF Reported, HasStatus
  <2> QED  BY <2>7 DEF r
<1>3. CASE ~ (RetryCount <= c.attempt) /\ ~ c.waitingForReconnect /\ c.hasWillMsg
  <2>1. r = ConnectToBroker(n, connected)
    BY <1>3 DEF DoNextStep
  <2> HIDE DEF n
  <2> QED  BY <2>1, ConnectToBrokerReported
<1>4. CASE ~ (RetryCount <= c.attempt) /\ ~ c.waitingForReconnect /\ ~ c.hasWillMsg
  <2> DEFINE d == [n EXCEPT !.tick = TRUE]
  <2>1. r = Result(d)
    BY <1>4 DEF DoNextStep
  <2> HIDE DEF d
  <2> QED  BY <2>1, ResultReported
<1> QED  BY <1>1, <1>2, <1>3, <1>4

-----------------------------------------------------------------------------
(* The inductive invariant. *)

\* ClientWatched, and that the records the steps update have the field it is
\* about.
WatchInv ==
    /\ HasStatus(st)
    /\ "tick" \in DOMAIN ping
    /\ ClientWatched

LEMMA InitWatched == Init => WatchInv
<1> SUFFICES ASSUME Init PROVE WatchInv
  OBVIOUS
<1>1. st.connStatus = "Disconnected" /\ "connStatus" \in DOMAIN st
  BY DEF Init
<1>2. "tick" \in DOMAIN ping
  BY DEF Init
<1> QED  BY <1>1, <1>2 DEF WatchInv, HasStatus, ClientWatched

\* A session that ends goes on ending.
LEMMA CheckSendTerminates ==
    ASSUME NEW pinged, NEW term, CheckSend(pinged, term), m_terminating
    PROVE  m_terminating'
BY DEF CheckSend

\* The ping timer after a status change or a message of the client.
LEMMA PingRestartedTick ==
    ASSUME "tick" \in DOMAIN ping, PingRestarted
    PROVE  /\ "tick" \in DOMAIN ping'
           /\ st'.connStatus = "Connected" => ping'.tick
<1>1. CASE st'.connStatus = "Connected"
  <2>1. ping' = [attempt |-> 0, tick |-> TRUE]
    BY <1>1 DEF PingRestarted
  <2> QED  BY <2>1
<1>2. CASE st'.connStatus # "Connected"
  <2>1. ping' = [ping EXCEPT !.tick = FALSE]
    BY <1>2 DEF PingRestarted
  <2> QED  BY <1>2, <2>1
<1> QED  BY <1>1, <1>2

\* The client's messages that Connect may handle.
LEMMA DispatchedWatched ==
    ASSUME WatchInv, NEW r, Reported(r), Dispatched(r)
    PROVE  WatchInv'
<1>1. st' = r.st /\ HasStatus(st')
  BY DEF Dispatched, Apply, Reported
<1>2. /\ "tick" \in DOMAIN ping'
      /\ st'.connStatus = "Connected" => ping'.tick
  BY PingRestartedTick DEF WatchInv, Dispatched
<1>3. m_terminating => m_terminating'
  BY CheckSendTerminates DEF Dispatched
<1>4. ASSUME ~ m_terminating', st'.connStatus = "Asleep" PROVE monitorTick'
  <2>1. st.connStatus = "Asleep"
    BY <1>1, <1>4 DEF Reported
  <2>2. monitorTick
    BY <1>3, <1>4, <2>1 DEF WatchInv, ClientWatched
  <2> QED  BY <1>4, <2>2 DEF Dispatched, SleepTimersChecked
<1> QED  BY <1>1, <1>2, <1>3, <1>4 DEF WatchInv, ClientWatched, HasStatus

\* Calls that only Connect handles: its timer, and the new broker connection.
LEMMA AppliedWatched ==
    ASSUME WatchInv, NEW r, Reported(r), Apply(r),
           IF r.upd THEN PingRestarted ELSE UNCHANGED ping,
           monitorTick' = monitorTick, m_terminating => m_terminating'
    PROVE  WatchInv'
<1>1. st' = r.st /\ HasStatus(st')
  BY DEF Apply, Reported
<1>2. CASE r.upd
  <2>1. /\ "tick" \in DOMAIN ping'
        /\ st'.connStatus = "Connected" => ping'.tick
    BY <1>2, PingRestartedTick DEF WatchInv
  <2>2. ASSUME ~ m_terminating', st'.connStatus = "Asleep" PROVE monitorTick'
    <3>1. st.connStatus = "Asleep"
      BY <1>1, <2>2 DEF Reported
    <3> QED  BY <2>2, <3>1 DEF WatchInv, ClientWatched
  <2> QED  BY <1>1, <2>1, <2>2 DEF WatchInv, ClientWatched, HasStatus
<1>3. CASE ~ r.upd
  <2>1. st'.connStatus = st.connStatus /\ ping' = ping
    BY <1>1, <1>3 DEF Reported
  <2> QED  BY <1>1, <2>1 DEF WatchInv, ClientWatched, HasStatus
<1> QED  BY <1>2, <1>3

\* Steps that leave the status alone and stop no timer.
LEMMA UndisturbedWatched ==
    ASSUME WatchInv, st' = st, ping' = ping, m_terminating => m_terminating',
           monitorTick /\ st.connStatus = "Asleep" => monitorTick' \/ m_terminating'
    PROVE  WatchInv'
BY DEF WatchInv, ClientWatched, HasStatus

-----------------------------------------------------------------------------
(* One lemma per kind of step. *)

\* Results that say nothing of the status, from a client's message.
LEMMA IdleWatched ==
    ASSUME WatchInv, NEW c, Dispatched(Result(c)) PROVE WatchInv'
BY ResultReported, DispatchedWatched DEF WatchInv

LEMMA NextStepWatched ==
    ASSUME WatchInv, NEW c, NEW connected, Dispatched(DoNextStep(c, connected))
    PROVE  WatchInv'
BY DoNextStepReported, DispatchedWatched DEF WatchInv

LEMMA ConnectMsgWatched ==
    ASSUME WatchInv, NEW id, NEW willFlag, NEW clean, NEW k,
           ConnectMsg(id, willFlag, clean, k)
    PROVE  WatchInv'
<1> DEFINE t == [Result(m_connect) EXCEPT !.st.connStatus = "Disconnected", !.term = TRUE]
<1>1. CASE Dispatched(t)
  <2>1. t.st = [st EXCEPT !.connStatus = "Disconnected"]
    BY DEF Result
  <2> HIDE DEF t
  <2>2. t.st.connStatus = "Disconnected" /\ "connStatus" \in DOMAIN t.st
    BY <2>1 DEF WatchInv, HasStatus
  <2>3. st' = t.st
    BY <1>1 DEF Dispatched, Apply
  <2>4. "tick" \in DOMAIN ping'
    BY <1>1, PingRestartedTick DEF WatchInv, Dispatched
  <2> QED  BY <2>2, <2>3, <2>4 DEF WatchInv, ClientWatched, HasStatus
<1>2. CASE \E c : Dispatched(Result(c))
  BY <1>2, IdleWatched
<1>3. CASE \E c : Dispatched(DoNextStep(c, m_brokerConnected))
  BY <1>3, NextStepWatched
<1> HIDE DEF t
<1>4. \/ Dispatched(t)
      \/ \E c : Dispatched(Result(c))
      \/ \E c : Dispatched(DoNextStep(c, m_brokerConnected))
  BY DEF ConnectMsg, t
<1> QED  BY <1>1, <1>2, <1>3, <1>4

LEMMA WilltopicMsgWatched ==
    ASSUME WatchInv, NEW topic, WilltopicMsg(topic) PROVE WatchInv'
BY IdleWatched, NextStepWatched DEF WilltopicMsg

LEMMA WillmsgMsgWatched ==
    ASSUME WatchInv, NEW msg, WillmsgMsg(msg) PROVE WatchInv'
BY IdleWatched, NextStepWatched DEF WillmsgMsg

LEMMA NoGwPublishMsgWatched ==
    ASSUME WatchInv, NoGwPublishMsg PROVE WatchInv'
BY IdleWatched, NextStepWatched DEF NoGwPublishMsg

LEMMA OtherMsgWatched == ASSUME WatchInv, OtherMsg PROVE WatchInv'
BY IdleWatched DEF OtherMsg

LEMMA DisconnectMsgWatched == ASSUME WatchInv, DisconnectMsg PROVE WatchInv'
<1>1. st'.connStatus = "Disconnected" /\ "connStatus" \in DOMAIN st'
  BY DEF DisconnectMsg, WatchInv, HasStatus
<1>2. "tick" \in DOMAIN ping'
  BY PingRestartedTick DEF WatchInv, DisconnectMsg
<1> QED  BY <1>1, <1>2 DEF WatchInv, ClientWatched, HasStatus

LEMMA SleepMsgWatched == ASSUME WatchInv, SleepMsg PROVE WatchInv'
<1>1. st'.connStatus = "Asleep" /\ "connStatus" \in DOMAIN st'
  BY DEF SleepMsg, WatchInv, HasStatus
<1>2. "tick" \in DOMAIN ping'
  BY PingRestartedTick DEF WatchInv, SleepMsg
<1>3. monitorTick'
  BY DEF SleepMsg
<1> QED  BY <1>1, <1>2, <1>3 DEF WatchInv, ClientWatched, HasStatus

LEMMA PingreqMsgWatched == ASSUME WatchInv, NEW id, PingreqMsg(id) PROVE WatchInv'
<1>1. st' = st
  BY DEF PingreqMsg
<1>2. /\ "tick" \in DOMAIN ping'
      /\ st'.connStatus = "Connected" => ping'.tick
  BY PingRestartedTick DEF WatchInv, PingreqMsg
<1>3. st.connStatus = "Asleep" => monitorTick'
  BY DEF PingreqMsg
<1> QED  BY <1>1, <1>2, <1>3 DEF WatchInv, ClientWatched, HasStatus

LEMMA WillUpdateMsgWatched ==
    ASSUME WatchInv, NEW op, NEW will, WillUpdateMsg(op, will) PROVE WatchInv'
<1>1. st' = st
  BY DEF WillUpdateMsg
<1>2. /\ "tick" \in DOMAIN ping'
      /\ st'.connStatus = "Connected" => ping'.tick
  BY PingRestartedTick DEF WatchInv, WillUpdateMsg
<1>3. m_terminating => m_terminating'
  BY CheckSendTerminates DEF WillUpdateMsg
<1>4. st.connStatus = "Asleep" /\ monitorTick => monitorTick'
  BY <1>1 DEF WillUpdateMsg, SleepTimersChecked
<1> QED  BY <1>1, <1>2, <1>3, <1>4 DEF WatchInv, ClientWatched, HasStatus

LEMMA ConnackMsgWatched ==
    ASSUME WatchInv, NEW code, NEW sp, ConnackMsg(code, sp) PROVE WatchInv'
<1> DEFINE r == IF m_connect.hasWillMsg THEN ProcessAck(m_connect, code)
                ELSE Result(m_connect)
           u == [r EXCEPT !.st.will = m_willUpdate.will, !.ack = "WillUpdated"]
<1>1. /\ "st" \in DOMAIN r
      /\ HasStatus(r.st)
      /\ \/ r.upd /\ r.st.connStatus # "Asleep"
         \/ ~ r.upd /\ r.st = st
  <2>1. CASE m_connect.hasWillMsg
    <3>1. r = ProcessAck(m_connect, code)
      BY <2>1
    <3>2. "st" \in DOMAIN ProcessAck(m_connect, code)
      BY DEF ProcessAck, Result
    <3> HIDE DEF r
    <3> QED  BY <3>1, <3>2, ProcessAckReported
  <2>2. CASE ~ m_connect.hasWillMsg
    <3>1. r = Result(m_connect)
      BY <2>2
    <3>2. r.st = st /\ ~ r.upd /\ "st" \in DOMAIN r
      BY <3>1 DEF Result
    <3> HIDE DEF r
    <3> QED  BY <3>2 DEF WatchInv
  <2> QED  BY <2>1, <2>2
<1>2. /\ Apply(u) \/ Apply(r)
      /\ SleepTimersChecked
      /\ \E term : CheckSend(FALSE, term)
      /\ IF r.upd THEN PingRestarted ELSE UNCHANGED ping
  BY DEF ConnackMsg
<1> HIDE DEF r
<1>3. st'.connStatus = r.st.connStatus /\ HasStatus(st')
  <2>1. CASE Apply(r)
    BY <1>1, <2>1 DEF Apply
  <2>2. CASE Apply(u)
    <3>1. u.st = [r.st EXCEPT !.will = m_willUpdate.will]
      BY <1>1
    <3>2. st' = u.st
      BY <2>2 DEF Apply
    <3> QED  BY <1>1, <3>1, <3>2 DEF HasStatus
  <2> QED  BY <1>2, <2>1, <2>2
<1>4. m_terminating => m_terminating'
  BY <1>2, CheckSendTerminates
<1>5. /\ "tick" \in DOMAIN ping'
      /\ ~ m_terminating /\ st'.connStatus = "Connected" => ping'.tick
  <2>1. CASE r.upd
    BY <1>2, <2>1, PingRestartedTick DEF WatchInv
  <2>2. CASE ~ r.upd
    BY <1>1, <1>2, <1>3, <2>2 DEF WatchInv, ClientWatched
  <2> QED  BY <2>1, <2>2
<1>6. ASSUME ~ m_terminating', st'.connStatus = "Asleep" PROVE monitorTick'
  <2>1. st.connStatus = "Asleep"
    BY <1>1, <1>3, <1>6
  <2> QED  BY <1>2, <1>4, <1>6, <2>1 DEF WatchInv, ClientWatched, SleepTimersChecked
<1> QED  BY <1>3, <1>4, <1>5, <1>6 DEF WatchInv, ClientWatched, HasStatus

LEMMA BrokerPublishMsgWatched == ASSUME WatchInv, BrokerPublishMsg PROVE WatchInv'
<1>1. m_terminating => m_terminating'
  BY CheckSendTerminates DEF BrokerPublishMsg
<1>2. st' = st /\ ping' = ping
  BY DEF BrokerPublishMsg
<1>3. monitorTick /\ st.connStatus = "Asleep" => monitorTick'
  BY <1>2 DEF BrokerPublishMsg, SleepTimersChecked
<1> QED  BY <1>1, <1>2, <1>3, UndisturbedWatched

LEMMA PingrespMsgWatched == ASSUME WatchInv, PingrespMsg PROVE WatchInv'
<1>1. m_terminating => m_terminating'
  BY CheckSendTerminates DEF PingrespMsg
<1>2. st' = st /\ ping' = ping
  BY DEF PingrespMsg
<1>3. monitorTick /\ st.connStatus = "Asleep" => monitorTick'
  BY DEF PingrespMsg
<1> QED  BY <1>1, <1>2, <1>3, UndisturbedWatched

LEMMA BrokerConnectedWatched == ASSUME WatchInv, BrokerConnected PROVE WatchInv'
<1> DEFINE w == [m_connect EXCEPT !.waitingForReconnect = FALSE]
           r == IF m_connect.waitingForReconnect THEN DoNextStep(w, TRUE)
                ELSE Result(m_connect)
<1>1. /\ Apply(r)
      /\ IF r.upd THEN PingRestarted ELSE UNCHANGED ping
      /\ monitorTick' = monitorTick
      /\ m_terminating => m_terminating'
  BY DEF BrokerConnected, sleep
<1> HIDE DEF w
<1>2. Reported(r)
  <2>1. CASE m_connect.waitingForReconnect
    BY <2>1, DoNextStepReported DEF WatchInv
  <2>2. CASE ~ m_connect.waitingForReconnect
    BY <2>2, ResultReported DEF WatchInv
  <2> QED  BY <2>1, <2>2
<1> HIDE DEF r
<1> QED  BY <1>1, <1>2, AppliedWatched

\* A lost connection ends the session unless the client sleeps, whose monitor
\* is left running.
LEMMA BrokerDisconnectedWatched == ASSUME WatchInv, BrokerDisconnected PROVE WatchInv'
<1> DEFINE s == IF m_connect.waitingForReconnect THEN ClearConnectionInfo(FALSE) ELSE st
           lost == ~ m_reconnectingBroker
<1>1. /\ HasStatus(s)
      /\ s.connStatus = "Disconnected" \/ (~ m_connect.waitingForReconnect /\ s = st)
  <2>1. CASE m_connect.waitingForReconnect
    BY <2>1 DEF ClearConnectionInfo, HasStatus
  <2>2. CASE ~ m_connect.waitingForReconnect
    BY <2>2 DEF WatchInv
  <2> QED  BY <2>1, <2>2
<1>2. /\ st' = IF lost /\ s.connStatus = "Connected"
               THEN [s EXCEPT !.connStatus = "Disconnected"] ELSE s
      /\ IF m_connect.waitingForReconnect \/ (lost /\ s.connStatus = "Connected")
         THEN PingRestarted ELSE UNCHANGED ping
      /\ monitorTick' = monitorTick
      /\ m_terminating => m_terminating'
  BY DEF BrokerDisconnected
<1> HIDE DEF s
<1>3. /\ HasStatus(st')
      /\ st'.connStatus = "Disconnected" \/ st' = s
  BY <1>1, <1>2 DEF HasStatus
<1>4. "tick" \in DOMAIN ping'
  BY <1>2, PingRestartedTick DEF WatchInv
<1>5. CASE st'.connStatus = "Disconnected"
  BY <1>3, <1>4, <1>5 DEF WatchInv, ClientWatched, HasStatus
<1>6. CASE st'.connStatus # "Disconnected"
  <2>1. st' = st /\ ~ m_connect.waitingForReconnect
    BY <1>1, <1>3, <1>6
  <2>2. CASE lost /\ s.connStatus = "Connected"
    BY <1>1, <1>2, <1>6, <2>2 DEF HasStatus
  <2>3. CASE ~ (lost /\ s.connStatus = "Connected")
    <3>1. ping' = ping
      BY <1>2, <2>1, <2>3
    <3> QED  BY <1>2, <2>1, <3>1, UndisturbedWatched
  <2> QED  BY <2>2, <2>3
<1> QED  BY <1>5, <1>6

LEMMA ConnectTickWatched == ASSUME WatchInv, ConnectTick PROVE WatchInv'
<1> DEFINE r == DoNextStep(m_connect, m_brokerConnected)
<1>1. /\ Apply(r)
      /\ IF r.upd THEN PingRestarted ELSE UNCHANGED ping
      /\ monitorTick' = monitorTick
      /\ m_terminating => m_terminating'
  BY DEF ConnectTick, sleep
<1>2. Reported(r)
  BY DoNextStepReported DEF WatchInv
<1> HIDE DEF r
<1> QED  BY <1>1, <1>2, AppliedWatched

\* The ping timer is stopped only by the attempt that ends the session.
LEMMA PingTickWatched == ASSUME WatchInv, PingTick PROVE WatchInv'
<1>1. st' = st /\ monitorTick' = monitorTick
  BY DEF PingTick, sleep
<1>2. CASE ping' = [ping EXCEPT !.tick = FALSE] /\ m_terminating' = TRUE
  <2>1. "tick" \in DOMAIN ping'
    BY <1>2 DEF WatchInv
  <2> QED  BY <1>1, <1>2, <2>1 DEF WatchInv, ClientWatched, HasStatus
<1>3. CASE ping' = [ping EXCEPT !.attempt = @ + 1] /\ UNCHANGED m_terminating
  <2>1. "tick" \in DOMAIN ping' /\ ping'.tick = ping.tick
    BY <1>3 DEF WatchInv
  <2>2. ping.tick
    BY DEF PingTick
  <2> QED  BY <1>1, <1>3, <2>1, <2>2 DEF WatchInv, ClientWatched, HasStatus
<1> QED  BY <1>2, <1>3 DEF PingTick

\* The other timers: the monitor of a sleeping client stops by ending the
\* session.
LEMMA OtherTicksWatched ==
    ASSUME WatchInv, AsleepTick \/ MonitorTick \/ WillTick \/ PubSendTick
    PROVE  WatchInv'
<1>1. CASE AsleepTick
  BY <1>1, UndisturbedWatched DEF AsleepTick
<1>2. CASE MonitorTick
  BY <1>2, UndisturbedWatched DEF MonitorTick
<1>3. CASE WillTick
  BY <1>3, UndisturbedWatched DEF WillTick, sleep
<1>4. CASE PubSendTick
  <2>1. m_terminating => m_terminating'
    BY <1>4, CheckSendTerminates DEF PubSendTick
  <2> QED  BY <1>4, <2>1, UndisturbedWatched DEF PubSendTick, sleep
<1> QED  BY <1>1, <1>2, <1>3, <1>4

LEMMA ClientStepWatched == ASSUME WatchInv, ClientStep PROVE WatchInv'
<1>1. CASE \E id, willFlag, clean, k : ConnectMsg(id, willFlag, clean, k)
  BY <1>1, ConnectMsgWatched
<1>2. CASE \E topic : WilltopicMsg(topic)
  BY <1>2, WilltopicMsgWatched
<1>3. CASE \E msg : WillmsgMsg(msg)
  BY <1>3, WillmsgMsgWatched
<1>4. CASE (\E topic : WilltopicupdMsg(topic)) \/ (\E msg : WillmsgupdMsg(msg))
  BY <1>4, WillUpdateMsgWatched DEF WilltopicupdMsg, WillmsgupdMsg
<1>5. CASE SleepMsg
  BY <1>5, SleepMsgWatched
<1>6. CASE RegisterMsg
  BY <1>6, UndisturbedWatched DEF RegisterMsg, sleep
<1>7. CASE \E id : PingreqMsg(id)
  BY <1>7, PingreqMsgWatched
<1>8. CASE NoGwPublishMsg \/ DisconnectMsg \/ OtherMsg
  BY <1>8, NoGwPublishMsgWatched, DisconnectMsgWatched, OtherMsgWatched
<1> QED  BY <1>1, <1>2, <1>3, <1>4, <1>5, <1>6, <1>7, <1>8 DEF ClientStep

LEMMA BrokerStepWatched == ASSUME WatchInv, BrokerStep PROVE WatchInv'
BY ConnackMsgWatched, BrokerPublishMsgWatched, PingrespMsgWatched,
   BrokerConnectedWatched, BrokerDisconnectedWatched DEF BrokerStep

LEMMA NextWatched == ASSUME WatchInv, [Next]_vars PROVE WatchInv'
<1>1. CASE ClientStep
  BY <1>1, ClientStepWatched
<1>2. CASE BrokerStep
  BY <1>2, BrokerStepWatched
<1>3. CASE TimerStep
  BY <1>3, ConnectTickWatched, PingTickWatched, OtherTicksWatched DEF TimerStep
<1>4. CASE ClientGone
  BY <1>4, UndisturbedWatched DEF ClientGone, sleep
<1>5. CASE UNCHANGED vars
  BY <1>5, UndisturbedWatched DEF vars, sleep
<1> QED  BY <1>1, <1>2, <1>3, <1>4, <1>5 DEF Next

\* Whatever messages, timers and broker events are interleaved, a session that
\* is not ending has the ping timer running while its client is connected and
\* the sleep monitor while it sleeps.
THEOREM ClientWatchedHolds == Spec => []ClientWatched
<1>1. WatchInv => ClientWatched
  BY DEF WatchInv
<1> QED  BY InitWatched, NextWatched, <1>1, PTL DEF Spec
=============================================================================
