-------------------------------- MODULE GwIo --------------------------------
(***************************************************************************)
(* The sockets of one session of the gateway program: GatewaySession and   *)
(* its connection to the broker (GatewayIoBrokerSocket_Tcp), which is made *)
(* when there is something to send, broken, and replaced; and the queue of *)
(* datagrams to clients, which GatewayIoClientAcceptor_Udp keeps.          *)
(*                                                                         *)
(* TCP carries bytes: a message n is the bytes <<n, 1>> and <<n, 2>>, and  *)
(* a read or a write takes any number of them.  An asynchronous operation  *)
(* is started by one handler and completed by another.                     *)
(***************************************************************************)
EXTENDS Naturals, Sequences, SequencesExt

CONSTANTS
    MaxIn,     \* bound: messages of the broker
    MaxOut,    \* bound: messages of the session to the broker
    MaxBreaks, \* bound: connections refused or broken
    MaxData    \* bound: datagrams to clients

VARIABLES
    sock,  \* GatewayIoBrokerSocket_Tcp
    gs,    \* GatewaySession: its members, and the posted callbacks
    wire,  \* the connection: bytes the broker sent, bytes it got, whether it is up
    m_pendingWrites, \* of the acceptor; its first element is being sent
    left,    \* the datagrams that left, in order
    parsed,  \* the pairs of bytes the session took for messages
    split,   \* a connection was replaced in the middle of a message
    count    \* bounded: messages in and out, breaks, datagrams

udp == <<m_pendingWrites, left>>
vars == <<sock, gs, wire, udp, parsed, split, count>>

Bytes(n) == <<<<n, 1>>, <<n, 2>>>>
NoWire == [in |-> << >>, got |-> << >>, up |-> FALSE]
\* sent is of the model: all bytes given to this socket.
NewSocket == [state |-> "Disconnected", sentData |-> << >>, writing |-> FALSE,
              reading |-> FALSE, connecting |-> FALSE, sent |-> << >>]

\* start: a socket is made and its first report posted.
Init ==
    /\ sock = NewSocket
    /\ gs = [brokerConnected |-> FALSE, brokerData |-> << >>, reconnectTimer |-> FALSE,
             posted |-> TRUE]
    /\ wire = NoWire
    /\ m_pendingWrites = << >> /\ left = << >>
    /\ parsed = << >> /\ split = FALSE
    /\ count = [in |-> 0, out |-> 0, breaks |-> 0, data |-> 0]

Counted(what, max) == count[what] < max /\ count' = [count EXCEPT ![what] = @ + 1]

-----------------------------------------------------------------------------
(* The connection to the broker. *)

\* sendPendingWrites: at most one write is under way.
SendPendingWrites(s) == [s EXCEPT !.writing = s.sentData # << >>]

\* Mutant: what was sent before the connection was up is not written.
ConnectedOnly(s) ==
    [s EXCEPT !.state = "Connected", !.connecting = FALSE, !.reading = TRUE]

\* The callback of async_connect, when the connection is made.
ConnectedSocket(s) ==
    SendPendingWrites([s EXCEPT !.state = "Connected", !.connecting = FALSE, !.reading = TRUE])

\* Mutant: a message is put in front while the one before it is being written.
SendDataImplFirst(s, data) ==
    LET t == [s EXCEPT !.sentData = IF s.writing THEN data \o @ ELSE @ \o data, !.sent = @ \o data]
    IN IF s.state = "Disconnected"
       THEN [t EXCEPT !.state = "TryingToConnect", !.connecting = TRUE]
       ELSE [t EXCEPT !.writing = s.writing \/ (s.state = "Connected" /\ s.sentData = << >>)]

\* sendDataImpl: the first data make the connection.
SendDataImpl(s, data) ==
    LET t == [s EXCEPT !.sentData = @ \o data, !.sent = @ \o data]
    IN CASE s.state = "Connected" /\ s.sentData = << >> -> SendPendingWrites(t)
         [] s.state = "Connected" /\ s.sentData # << >> -> t
         [] s.state = "TryingToConnect" -> t
         [] s.state = "Disconnected" ->
               [t EXCEPT !.state = "TryingToConnect", !.connecting = TRUE]

\* The session sends a message, which it may do whatever it was told of the broker.
SessionSend ==
    /\ Counted("out", MaxOut)
    /\ sock' = SendDataImpl(sock, Bytes(count.out + 1))
    /\ UNCHANGED <<gs, wire, udp, parsed, split>>

\* The callback of reportError: the session is told, and the socket replaced later.
ReportError(g) == [g EXCEPT !.brokerConnected = FALSE, !.reconnectTimer = TRUE]

\* doConnect: resolved and connected, or not.
ConnectDone(ok) ==
    /\ sock.connecting
    /\ IF ok
       THEN /\ sock' = ConnectedSocket(sock)
            /\ wire' = [NoWire EXCEPT !.up = TRUE]
            /\ UNCHANGED <<gs, count>>
       ELSE /\ Counted("breaks", MaxBreaks)
            /\ sock' = [sock EXCEPT !.connecting = FALSE]
            /\ gs' = ReportError(gs)
            /\ UNCHANGED wire
    /\ UNCHANGED <<udp, parsed, split>>

\* What the session makes of bytes: it takes whole messages, two bytes each.
Pairs(data) == [i \in 1 .. Len(data) \div 2 |-> <<data[2 * i - 1], data[2 * i]>>]
Rest(data) == SubSeq(data, 2 * (Len(data) \div 2) + 1, Len(data))

\* Mutant: what is left of the last read is put behind the new data.
DataReportBehind(g, data) == data \o g.brokerData

\* The callback of reportClientData: the data follow what was left of earlier reads.
DataReport(g, data) == g.brokerData \o data

ReadDone(n) ==
    /\ sock.reading /\ n \in 1 .. Len(wire.in)
    /\ LET data == DataReport(gs, SubSeq(wire.in, 1, n)) IN
       /\ parsed' = parsed \o Pairs(data)
       /\ gs' = [gs EXCEPT !.brokerData = Rest(data)]
    /\ wire' = [wire EXCEPT !.in = SubSeq(@, n + 1, Len(@))]
    /\ UNCHANGED <<sock, udp, split, count>>

ReadFailed ==
    /\ sock.reading /\ ~ wire.up /\ wire.in = << >>
    /\ sock' = [sock EXCEPT !.reading = FALSE]
    /\ gs' = ReportError(gs)
    /\ UNCHANGED <<wire, udp, parsed, split, count>>

\* sendPendingWrites, completed: some bytes of the first message leave the queue.
\* They are written to a connection that may be broken already.
WriteDone(n) ==
    /\ sock.writing /\ n \in 1 .. IF Head(sock.sentData)[2] = 1 THEN 2 ELSE 1
    /\ wire' = IF wire.up THEN [wire EXCEPT !.got = @ \o SubSeq(sock.sentData, 1, n)] ELSE wire
    /\ sock' = SendPendingWrites([sock EXCEPT !.sentData = SubSeq(@, n + 1, Len(@))])
    /\ UNCHANGED <<gs, udp, parsed, split, count>>

WriteFailed ==
    /\ sock.writing /\ ~ wire.up
    /\ sock' = [sock EXCEPT !.writing = FALSE]
    /\ gs' = ReportError(gs)
    /\ UNCHANGED <<wire, udp, parsed, split, count>>

\* reportConnected, posted when the socket was started.
Connected ==
    /\ gs.posted
    /\ gs' = [gs EXCEPT !.posted = FALSE, !.brokerConnected = TRUE]
    /\ UNCHANGED <<sock, wire, udp, parsed, split, count>>

\* doBrokerReconnect at the request of the session, which has the broker close
\* its connection first.
BrokerReconnect ==
    /\ Counted("breaks", MaxBreaks)
    /\ gs' = [gs EXCEPT !.reconnectTimer = TRUE]
    /\ UNCHANGED <<sock, wire, udp, parsed, split>>

\* doBrokerConnect, when the timer of doBrokerReconnect runs out: a new socket
\* takes the place of the old one.  The post of the old one came long before.
BrokerConnect ==
    /\ gs.reconnectTimer /\ ~ gs.posted
    /\ sock' = NewSocket
    /\ gs' = [gs EXCEPT !.brokerConnected = FALSE, !.reconnectTimer = FALSE, !.posted = TRUE]
    /\ wire' = NoWire
    /\ split' = (split \/ gs.brokerData # << >>)
    /\ UNCHANGED <<udp, parsed, count>>

-----------------------------------------------------------------------------
(* The acceptor's socket, which all sessions and the advertising share. *)

\* sendData: the first in the queue is being sent.
SendData(n) == m_pendingWrites' = Append(m_pendingWrites, n)

ClientSend ==
    /\ Counted("data", MaxData)
    /\ SendData(count.data + 1)
    /\ UNCHANGED <<sock, gs, wire, left, parsed, split>>

\* The callback in sendPendingWrites: sent or not, the next one follows.
ClientSent ==
    /\ m_pendingWrites # << >>
    /\ left' = Append(left, Head(m_pendingWrites))
    /\ m_pendingWrites' = Tail(m_pendingWrites)
    /\ UNCHANGED <<sock, gs, wire, parsed, split, count>>

-----------------------------------------------------------------------------
(* The broker and the network. *)

BrokerSend ==
    /\ wire.up /\ Counted("in", MaxIn)
    /\ wire' = [wire EXCEPT !.in = @ \o Bytes(count.in + 1)]
    /\ UNCHANGED <<sock, gs, udp, parsed, split>>

\* Bytes under way may be lost with the connection.
Break ==
    /\ wire.up /\ Counted("breaks", MaxBreaks)
    /\ \E n \in 0 .. Len(wire.in) :
          wire' = [wire EXCEPT !.up = FALSE, !.in = SubSeq(@, 1, n)]
    /\ UNCHANGED <<sock, gs, udp, parsed, split>>

Next ==
    \/ SessionSend \/ \E ok \in BOOLEAN : ConnectDone(ok)
    \/ \E n \in 1 .. Len(wire.in) : ReadDone(n)
    \/ ReadFailed
    \/ \E n \in 1 .. 2 : WriteDone(n)
    \/ WriteFailed \/ Connected \/ BrokerReconnect \/ BrokerConnect
    \/ ClientSend \/ ClientSent \/ BrokerSend \/ Break

Spec == Init /\ [][Next]_vars

\* The event loop runs what was posted, timers that ran out and operations that
\* are complete; a connection attempt, a write and a read of a broken connection
\* are complete in the end.
FairSpec ==
    /\ Spec
    /\ WF_vars(Connected) /\ WF_vars(BrokerConnect) /\ WF_vars(ReadFailed)
    /\ WF_vars(\E ok \in BOOLEAN : ConnectDone(ok))
    /\ WF_vars(WriteFailed \/ \E n \in 1 .. 2 : WriteDone(n))
    /\ WF_vars(ClientSent)

-----------------------------------------------------------------------------
Whole(p) == p[1][1] = p[2][1] /\ p[1][2] = 1 /\ p[2][2] = 2

\* However the network cuts the stream of the broker up, the session is given its
\* messages whole and in order, across connections too, as long as none was
\* broken within a message: m_brokerData keeps what the session left over, also
\* when doBrokerConnect makes a new connection.
BrokerStreamWhole ==
    ~ split => /\ \A i \in DOMAIN parsed : Whole(parsed[i])
               /\ \A i, j \in DOMAIN parsed : i < j => parsed[i][1][1] < parsed[j][1][1]

\* What the broker gets on a connection is what was given to the socket, from the
\* first byte on and in order, although it is sent before there is a connection,
\* while a write is under way, and written in parts.
WrittenInOrder == IsPrefix(wire.got, sock.sent)

\* Nothing waits in a socket for ever: what is sent to the broker is written, if
\* not the connection fails and is replaced, and the datagrams of the acceptor's
\* queue leave.  The session is told of a broker again after every failure.
SentInTheEnd ==
    []<>(sock.sentData = << >> /\ gs.brokerConnected /\ m_pendingWrites = << >>)
=============================================================================
