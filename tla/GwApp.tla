-------------------------------- MODULE GwApp --------------------------------
(***************************************************************************)
(* The gateway program: GatewayApp and the sessions it owns, the acceptor  *)
(* that makes one for every endpoint a datagram comes from, GatewaySession *)
(* around each library session, and the sessions a forwarder's datagrams   *)
(* make (the library's Encapsulate operation).                             *)
(*                                                                         *)
(* One thread runs the handlers of the event loop in the order in which    *)
(* they got ready: handlers the program posts, and operations and timers   *)
(* that are complete.  The object a handler belongs to may be gone when it *)
(* runs.  What a library session does in a call is left open here; it is   *)
(* the subject of GwSession.  Sessions of sessions of a forwarder are left *)
(* out.                                                                    *)
(***************************************************************************)
EXTENDS Naturals, Sequences, FiniteSets, FiniteSetsExt

CONSTANTS
    Endpoint,    \* addresses datagrams come from
    ClientId,    \* the client ids that are reported
    Empty,       \* the empty client id, which may be among them
    Node,        \* wireless node ids behind a forwarder
    MaxSessions, \* bound: sessions ever made
    MaxQueue     \* bound: handlers waiting when an operation completes

ASSUME GwAppAssumption == MaxSessions \in Nat \ {0} /\ Endpoint # {} /\ 0 \notin ClientId

VARIABLE g  \* s: the sessions; clients: m_clients; ready: the waiting handlers;
            \* stale: an object was used that is gone

None == 0  \* no session; no client id reported
SessId == 1 .. MaxSessions

\* A GatewaySession and its library session, which live and die apart: live, lib.
NoSession == [live |-> FALSE, lib |-> FALSE, made |-> FALSE, parent |-> None, at |-> None,
              clientId |-> None, started |-> FALSE, terminating |-> FALSE,
              brokerConnected |-> FALSE, libConnected |-> FALSE,
              hadBrokerData |-> FALSE, reconnectTimer |-> FALSE]

NoSessions == [s |-> [s \in SessId |-> NoSession], clients |-> [e \in Endpoint |-> None],
               ready |-> << >>, stale |-> FALSE]

Init == g = NoSessions

Sessions(h) == {s \in SessId : h.s[s].live /\ h.s[s].parent = None}
FwdEncSessions(h, p) == {s \in SessId : h.s[s].live /\ h.s[s].parent = p}
Unmade(h) == {s \in SessId : ~ h.s[s].made}

Handler(kind, s) == [kind |-> kind, s |-> s]
Post(h, kind, s) == [h EXCEPT !.ready = Append(@, Handler(kind, s))]
\* Nothing is said of what follows.
Stale == [NoSessions EXCEPT !.stale = TRUE]

-----------------------------------------------------------------------------
(* The end of a session. *)

\* What remains of a session, for handlers that still name it.
Gone(s) == [NoSession EXCEPT !.made = TRUE, !.parent = s.parent, !.at = s.at]

\* Mutant: the acceptor is not told.
SocketKept(h, t) == h

\* The socket of a session tells the acceptor when it goes.
SocketDeleted(h, t) == [h EXCEPT !.clients[h.s[t].at] = None]

\* ~GatewaySession: its encapsulated sessions, its library session with those of
\* Encapsulate, its socket, which tells the acceptor.
Destroy(h, t) ==
    [SocketDeleted(h, t) EXCEPT !.s = [u \in SessId |->
        IF u = t \/ h.s[u].parent = t THEN Gone(h.s[u]) ELSE h.s[u]]]

\* doTerminate: later.
DoTerminate(h, s) == Post(h, "term", s)

\* The callback of GatewayApp.
TermReq(h, s) == IF h.s[s].live THEN Destroy(h, s) ELSE Stale

\* Mutant: the program is not told.
TerminationReqUnreported(h, s) == [h EXCEPT !.s[s].lib = FALSE]

\* terminationReqFromSession: the library session goes at once, the GatewaySession
\* around it later.
TerminationReqFromSession(h, s) == [Post(h, "fwdDeleted", s) EXCEPT !.s[s].lib = FALSE]

\* apiCallExit of a session that is terminating.
ApiCallExit(h, s) ==
    IF h.s[s].parent = None THEN DoTerminate(h, s) ELSE TerminationReqFromSession(h, s)

\* The handler posted when an encapsulated session was deleted.
FwdEncSessionDeleted(h, s) ==
    LET p == h.s[s].parent
        k == [h EXCEPT !.s[s] = Gone(@)]
    IN CASE ~ h.s[p].live -> Stale
         [] h.s[p].live /\ ~ h.s[s].live -> h
         [] h.s[p].live /\ h.s[s].live ->
               IF FwdEncSessions(k, p) = {} /\ ~ h.s[p].hadBrokerData
               THEN DoTerminate(k, p) ELSE k

-----------------------------------------------------------------------------
(* A client id is reported. *)

\* Mutant: a session that is ending anyway is left alone.
ClientIdReportSparing(h, p, id) ==
    LET other == {t \in Sessions(h) : t # p /\ h.s[t].clientId = id /\ ~ h.s[t].terminating}
    IN IF id = Empty \/ other = {} THEN h ELSE Destroy(h, Min(other))

\* The callback of GatewayApp: the session that had the id goes at once.
ClientIdReport(h, p, id) ==
    LET other == {t \in Sessions(h) : t # p /\ h.s[t].clientId = id}
    IN IF id = Empty \/ other = {} THEN h ELSE Destroy(h, Min(other))

\* The callback of a forwarder's GatewaySession: an encapsulated session with the
\* same id goes later.
FwdClientIdReport(h, s, id) ==
    LET p == h.s[s].parent
        k == ClientIdReport(h, p, id)
        same == {t \in FwdEncSessions(k, p) : t # s /\ k.s[t].clientId = id}
    IN IF k.s[p].clientId \in {None, Empty} \/ same = {} THEN k ELSE Post(k, "erase", Min(same))

ClientConnectedReport(h, s, id) ==
    LET k == [h EXCEPT !.s[s].clientId = id]
    IN IF h.s[s].parent = None THEN ClientIdReport(k, s, id) ELSE FwdClientIdReport(k, s, id)

-----------------------------------------------------------------------------
(* Calls of a library session, with the callbacks it makes. *)

\* It sends to the broker; m_hadBrokerData is of use to forwarders only.
SendDataBroker(h, s) == [h EXCEPT !.s[s].hadBrokerData = h.s[s].parent = None]

\* termRequest, and the end of the call.
End(h, s) == ApiCallExit([h EXCEPT !.s[s].terminating = TRUE], s)

\* What a session does in a call: nothing the program sees, send to the broker,
\* report its client's id, once, or end.
Outcomes(h, s) ==
    {h, SendDataBroker(h, s), End(h, s)}
    \cup {ClientConnectedReport(h, s, id) :
             id \in IF h.s[s].libConnected /\ h.s[s].clientId = None THEN ClientId ELSE {}}

\* tick, dataFromBroker and dataFromClient.
LibCall(h, s) ==
    CASE ~ h.s[s].live \/ ~ h.s[s].lib -> {Stale}
      [] h.s[s].live /\ h.s[s].lib /\ h.s[s].terminating -> {h}
      [] h.s[s].live /\ h.s[s].lib /\ ~ h.s[s].terminating -> Outcomes(h, s)

\* setBrokerConnected, which a terminating session handles like any other.
SetBrokerConnected(h, s, connected) ==
    LET k == [h EXCEPT !.s[s].libConnected = connected]
    IN CASE ~ h.s[s].lib -> {Stale}
         [] h.s[s].lib /\ h.s[s].libConnected = connected -> {h}
         [] h.s[s].lib /\ h.s[s].libConnected # connected ->
               CASE h.s[s].terminating -> {ApiCallExit(k, s)}
                 [] ~ h.s[s].terminating /\ connected -> {k, SendDataBroker(k, s)}
                 [] ~ h.s[s].terminating /\ ~ connected -> {k, End(k, s)}

\* doBrokerConnect: a new socket reports later (GwIo).
DoBrokerConnect(h, s) ==
    {Post([k EXCEPT !.s[s].brokerConnected = FALSE], "connected", s) :
        k \in IF h.s[s].brokerConnected THEN SetBrokerConnected(h, s, FALSE) ELSE {h}}

\* A GatewaySession is made and started.
NewSession(h, s, parent, at) ==
    Post([h EXCEPT !.s[s] = [NoSession EXCEPT !.live = TRUE, !.lib = TRUE, !.made = TRUE,
                                              !.parent = parent, !.at = at]],
         "connected", s)

\* A forwarder's GatewaySession makes one for a session of Encapsulate.
FwdEncSessionCreated(h, p, node) == NewSession(h, Min(Unmade(h)), p, node)

\* Encapsulate: the session of a node, made if there is none.
HandleFwd(h, p, node) ==
    LET of == {s \in SessId : h.s[s].lib /\ h.s[s].parent = p /\ h.s[s].at = node}
    IN CASE of # {} -> {<<h, Min(of)>>}
         [] of = {} /\ Unmade(h) # {} -> {<<FwdEncSessionCreated(h, p, node), Min(Unmade(h))>>}
         [] of = {} /\ Unmade(h) = {} -> {}

\* The message in it is for that session.
EncapsulatedData(h, s) == LibCall(h, s)

\* dataFromClient: a message of the client itself, or one it forwards.
DataFromClient(h, s) ==
    IF h.s[s].terminating THEN {h}
    ELSE LibCall(h, s) \cup UNION {EncapsulatedData(k[1], k[2]) :
                                      k \in UNION {HandleFwd(h, s, node) : node \in Node}}

\* What comes before the socket was started waits.
NewDataArrived(h, s) == IF h.s[s].started THEN DataFromClient(h, s) ELSE {h}

-----------------------------------------------------------------------------
(* The handlers of the event loop. *)

\* The callback in startImpl of the client's socket.
Started(h, s) ==
    IF h.s[s].live THEN DataFromClient([h EXCEPT !.s[s].started = TRUE], s) ELSE {Stale}

\* reportConnected of the broker's socket.
Connected(h, s) ==
    IF h.s[s].live
    THEN SetBrokerConnected([h EXCEPT !.s[s].brokerConnected = TRUE], s, TRUE) ELSE {Stale}

\* reportError of the broker's socket.
BrokerError(h, s) ==
    IF ~ h.s[s].live THEN {Stale}
    ELSE {[k EXCEPT !.s[s].brokerConnected = FALSE, !.s[s].reconnectTimer = TRUE] :
            k \in IF h.s[s].brokerConnected THEN SetBrokerConnected(h, s, FALSE) ELSE {h}}

Reconnect(h, s) == IF h.s[s].live THEN DoBrokerConnect(h, s) ELSE {Stale}

\* The handler posted for a second encapsulated session with an id.
EraseFwd(h, s) ==
    IF h.s[h.s[s].parent].live /\ h.s[s].live
    THEN [h EXCEPT !.s[s] = [Gone(@) EXCEPT !.lib = h.s[s].lib]] ELSE Stale

\* The callback of GatewayApp for a new socket.
NewConnection(h, e) ==
    LET s == Min(Unmade(h)) IN NewSession(Post(h, "started", s), s, None, e)

\* doAccept: a datagram from e.  Once MaxSessions were made, datagrams that would
\* make another are lost.
DoAccept(h, e) ==
    LET s == h.clients[e]
    IN CASE s # None -> NewDataArrived(h, s)
         [] s = None /\ Unmade(h) = {} -> {h}
         [] s = None /\ Unmade(h) # {} ->
               {NewConnection([h EXCEPT !.clients[e] = Min(Unmade(h))], e)}

Handle(h, m) ==
    CASE m.kind = "started" -> Started(h, m.s)
      [] m.kind = "connected" -> Connected(h, m.s)
      [] m.kind = "term" -> {TermReq(h, m.s)}
      [] m.kind = "fwdDeleted" -> {FwdEncSessionDeleted(h, m.s)}
      [] m.kind = "erase" -> {EraseFwd(h, m.s)}
      [] m.kind = "call" -> LibCall(h, m.s)
      [] m.kind = "error" -> BrokerError(h, m.s)
      [] m.kind = "reconnect" -> Reconnect(h, m.s)
      [] m.kind = "datagram" -> DoAccept(h, m.s)

\* The loop runs the handler that got ready first.
Run ==
    /\ g.ready # << >> /\ ~ g.stale
    /\ \E h \in Handle([g EXCEPT !.ready = Tail(@)], Head(g.ready)) : g' = h

Idle(kind, s) == Handler(kind, s) \notin {g.ready[i] : i \in DOMAIN g.ready}
Complete(kind, s) ==
    /\ Len(g.ready) < MaxQueue /\ ~ g.stale /\ Idle(kind, s)
    /\ g' = Post(g, kind, s)

\* The tick timer of s ran out, or data of its broker arrived.
EventReady(s) == g.s[s].live /\ Complete("call", s)

\* The connection of s to its broker failed.
ErrorReady(s) == g.s[s].live /\ Idle("connected", s) /\ Complete("error", s)

\* The reconnect timer of s ran out.
TimerReady(s) ==
    /\ g.s[s].live /\ g.s[s].reconnectTimer
    /\ Len(g.ready) < MaxQueue /\ ~ g.stale
    /\ g' = [Post(g, "reconnect", s) EXCEPT !.s[s].reconnectTimer = FALSE]

\* A datagram arrived; the acceptor reads one at a time.
DatagramReady(e) == (\A d \in Endpoint : Idle("datagram", d)) /\ Complete("datagram", e)

Next ==
    \/ Run
    \/ \E s \in SessId : EventReady(s) \/ ErrorReady(s) \/ TimerReady(s)
    \/ \E e \in Endpoint : DatagramReady(e)

Spec == Init /\ [][Next]_g

-----------------------------------------------------------------------------
\* Two sessions of the program never serve the same client id, however the
\* reports, the ends of sessions and reconnections interleave: the report of an
\* id, by a session or one encapsulated in it, ends the session that had it.
OneSessionPerClient ==
    \A s, t \in Sessions(g) :
        g.s[s].clientId \in ClientId \ {Empty} /\ g.s[s].clientId = g.s[t].clientId => s = t

\* The acceptor knows exactly the sockets of the sessions that exist, whichever
\* way a session ends, so a datagram never reaches a socket that is gone.
EndpointsAgree ==
    /\ \A e \in Endpoint : g.clients[e] # None =>
          g.clients[e] \in Sessions(g) /\ g.s[g.clients[e]].at = e
    /\ \A s \in Sessions(g) : g.clients[g.s[s].at] = s

\* A session that asked for its end gets it: until it is gone, encapsulated or
\* not, the handler that ends it waits in the loop, whatever else happens to the
\* session, its broker or the forwarder around it in between.
EndIsPosted ==
    \A s \in SessId : g.s[s].live /\ g.s[s].terminating =>
        \E i \in DOMAIN g.ready :
            g.ready[i] = Handler(IF g.s[s].parent = None THEN "term" ELSE "fwdDeleted", s)

\* The termination that doTerminate posted finds its session in m_sessions, as
\* GatewayApp asserts.
TermReqFindsSession ==
    g.ready # << >> /\ Head(g.ready).kind = "term" /\ ~ g.stale =>
        Head(g.ready).s \in Sessions(g)
=============================================================================
