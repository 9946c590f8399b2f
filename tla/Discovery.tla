----------------------------- MODULE Discovery -----------------------------
(***************************************************************************)
(* How a client finds gateways and notices that they are gone: GatewayImpl *)
(* advertises each gateway, ClientImpl keeps the gateways it has heard of  *)
(* in m_gwInfos, SearchOp asks for them, and the application is the        *)
(* gateway discovery program, GwDiscover, which also uses the API to       *)
(* change what is stored.                                                  *)
(*                                                                         *)
(* Time passes in steps of one, which is also the longest a broadcast      *)
(* takes to arrive.  Expiry timestamps are kept as the time left.          *)
(***************************************************************************)
EXTENDS TimerMgr

CONSTANTS
    GwId,             \* gateway ids
    Period,           \* m_advertisePeriod, the duration in ADVERTISE
    RetryPeriod, RetryCount,
    AllowedAdvLosses, \* m_allowedAdvLosses
    GwAdvTimeout,     \* m_gwAdvTimeoutMs
    Delay,            \* what m_gwinfoDelayReqCb answers, unless zero
    Limits,           \* values of GatewayInfoxMaxLimit
    MaxEvents         \* bound: gateways stopped, broadcasts lost or of other clients,
                      \* calls of the application

\* Advertisements come often enough for a gateway known only by its GWINFO, and a
\* broadcast arrives sooner than a retry is due.
ASSUME DiscoveryAssumption ==
    /\ GwId \subseteq Nat \ {0} /\ Limits \subseteq Nat \ {0}
    /\ Period \in Nat \ {0} /\ GwAdvTimeout \in Nat /\ Period <= GwAdvTimeout
    /\ RetryPeriod \in Nat /\ RetryPeriod > 1 /\ AllowedAdvLosses \in Nat

VARIABLES
    gw,     \* each GatewayImpl: m_running and the time to its tick, zero for none
    c,      \* the client
    air,    \* broadcasts on their way to the client
    asked,  \* gateways a SEARCHGW is on its way to
    missed, \* how many advertisements of a gateway the client did not get
    events  \* bounded

vars == <<gw, c, air, asked, missed, events>>

-----------------------------------------------------------------------------
(* The client: ClientState, the timers, SearchOp. *)

NoAddr == "none"
NewInfo == [gwId |-> 0, left |-> 0, duration |-> 0, losses |-> 0, addr |-> NoAddr]

\* The timers of ClientImpl are allocated with it, a search comes with its own;
\* known are the gateways the application was told of and not told they are gone,
\* meddled whether it discarded one by its id, or added one.
InitClient(limit) ==
    [infos |-> << >>, limit |-> limit, searching |-> FALSE, retries |-> 0, out |-> << >>,
     timers |-> AllocTimer(AllocTimer(NoTimers(3), "gwDiscovery"), "sendGwinfo"),
     known |-> {}, meddled |-> FALSE]

Wait(k, t, ms) == [k EXCEPT !.timers = TimerWait(@, t, ms)]
Stop(k, t) == [k EXCEPT !.timers = TimerCancel(@, t)]
Send(k, msg) == [k EXCEPT !.out = Append(@, msg)]

\* find_if; a gateway is stored at most once.
Stored(k, g) == \E i \in DOMAIN k.infos : k.infos[i].gwId = g
Found(k, g) == CHOOSE i \in DOMAIN k.infos : k.infos[i].gwId = g
Full(k) == Len(k.infos) >= k.limit

\* Mutant: the timer is not set again for the gateways that stay.
MonitorGatewayExpiryOnce(k) ==
    IF k.infos = << >> \/ \E i \in DOMAIN k.infos : k.infos[i].losses < AllowedAdvLosses THEN k
    ELSE Wait(k, "gwDiscovery", Min({k.infos[i].left : i \in DOMAIN k.infos}))

\* monitorGatewayExpiry: wait for the first to expire.  A gateway whose expiry was
\* never set makes the time to wait wrap round, which is for ever.
MonitorGatewayExpiry(k) ==
    LET first == Min({k.infos[i].left : i \in DOMAIN k.infos}) IN
    CASE k.infos = << >> -> k
      [] k.infos # << >> /\ first > 0 -> Wait(k, "gwDiscovery", first)
      [] k.infos # << >> /\ first = 0 -> Stop(k, "gwDiscovery")

\* set_available_gateway_info: a gateway that is not stored is added without an
\* expiry.
SetAvailableGatewayInfo(k, g, addr) ==
    CASE Stored(k, g) -> [k EXCEPT !.infos[Found(k, g)].addr = addr]
      [] ~ Stored(k, g) /\ ~ Full(k) ->
            [k EXCEPT !.infos = Append(@, [NewInfo EXCEPT !.gwId = g, !.addr = addr])]
      [] ~ Stored(k, g) /\ Full(k) -> k

\* discard_available_gateway_info: the test assigns the id it should compare with,
\* so that it holds of the first gateway.
DiscardAvailableGatewayInfo(k, g) ==
    IF k.infos = << >> THEN k ELSE [k EXCEPT !.infos = Tail(@)]

\* gwStatusReportInternal of the application: the address the broadcast came from is
\* recorded if it came from the gateway.
GwStatusReportInternal(k, status, g) ==
    IF status \in {"AddedByGateway", "Alive"} THEN SetAvailableGatewayInfo(k, g, "own") ELSE k

ReportGwStatus(k, status, g) ==
    GwStatusReportInternal(
        [k EXCEPT !.known = IF status = "Removed" THEN @ \ {g} ELSE @ \cup {g}], status, g)

-----------------------------------------------------------------------------
(* The search. *)

SearchComplete(k) ==
    [k EXCEPT !.searching = FALSE, !.retries = 0, !.timers = FreeTimers(@, {"search"})]

SearchHandle(k) == IF k.searching THEN SearchComplete(k) ELSE k

SearchSendInternal(k) == Wait(Send(k, "SEARCHGW"), "search", RetryPeriod)

SearchPrepare(k) ==
    [k EXCEPT !.searching = TRUE, !.retries = RetryCount, !.timers = AllocTimer(@, "search")]

SearchSend(k) == SearchSendInternal(k)

SearchTimeout(k) ==
    IF k.retries = 0 THEN SearchComplete(k)
    ELSE SearchSendInternal([k EXCEPT !.retries = @ - 1])

-----------------------------------------------------------------------------
(* What ClientImpl does with broadcasts. *)

\* Mutant: an advertisement does not make up for those that were lost.
HandleAdvertiseOnce(k, g) ==
    LET d == Stop(k, "gwDiscovery")
        Heard(e, status) ==
            MonitorGatewayExpiry(ReportGwStatus(
                [SearchHandle(e) EXCEPT !.infos[Found(e, g)] =
                    [@ EXCEPT !.left = Period + RetryPeriod, !.duration = Period]],
                status, g))
    IN CASE Stored(d, g) -> Heard(d, "Alive")
         [] ~ Stored(d, g) /\ ~ Full(d) ->
               Heard([d EXCEPT !.infos = Append(@,
                         [NewInfo EXCEPT !.gwId = g, !.losses = AllowedAdvLosses])], "AddedByGateway")
         [] ~ Stored(d, g) /\ Full(d) -> MonitorGatewayExpiry(SearchHandle(d))

\* The search is told first, then the application; at last the timer is set.
HandleAdvertise(k, g) ==
    LET d == Stop(k, "gwDiscovery")
        Heard(e, status) ==
            MonitorGatewayExpiry(ReportGwStatus(
                [SearchHandle(e) EXCEPT !.infos[Found(e, g)] =
                    [@ EXCEPT !.left = Period + RetryPeriod, !.duration = Period,
                              !.losses = AllowedAdvLosses]],
                status, g))
    IN CASE Stored(d, g) -> Heard(d, "Alive")
         [] ~ Stored(d, g) /\ ~ Full(d) ->
               Heard([d EXCEPT !.infos = Append(@, [NewInfo EXCEPT !.gwId = g])], "AddedByGateway")
         [] ~ Stored(d, g) /\ Full(d) -> MonitorGatewayExpiry(SearchHandle(d))

\* GWINFO, from the gateway itself or with an address from another client.  It does
\* not put off the expiry of a gateway that is stored.
HandleGwinfo(k, g, addr) ==
    LET d == Stop(k, "sendGwinfo")
        i == Found(d, g)
        new == [gwId |-> g, left |-> GwAdvTimeout + RetryPeriod, duration |-> GwAdvTimeout,
                losses |-> AllowedAdvLosses, addr |-> addr]
        added == IF addr = NoAddr THEN "AddedByGateway" ELSE "AddedByClient"
    IN CASE Stored(d, g) /\ addr = NoAddr ->
               ReportGwStatus(SearchHandle([d EXCEPT !.infos[i].losses = AllowedAdvLosses]),
                              "Alive", g)
         [] Stored(d, g) /\ addr # NoAddr /\ addr = d.infos[i].addr -> SearchHandle(d)
         [] Stored(d, g) /\ addr # NoAddr /\ addr # d.infos[i].addr ->
               ReportGwStatus(SearchHandle([d EXCEPT !.infos[i].addr = addr]), "UpdatedByClient", g)
         [] ~ Stored(d, g) /\ Full(d) -> SearchHandle(d)
         [] ~ Stored(d, g) /\ ~ Full(d) ->
               ReportGwStatus(SearchHandle(MonitorGatewayExpiry([d EXCEPT !.infos = Append(@, new)])),
                              added, g)

\* SEARCHGW of another client; the application may choose not to answer.
HandleSearchgw(k, delay) ==
    IF k.infos = << >> \/ delay = 0 THEN k ELSE Wait(k, "sendGwinfo", delay)

-----------------------------------------------------------------------------
(* Its timers. *)

\* Mutant: gateways are dropped before the losses that are allowed are counted.
GwExpiryTimeoutEarly(k) ==
    MonitorGatewayExpiry([k EXCEPT !.infos = SelectSeq(@, LAMBDA i : i.left > 0)])

\* Those that expired lose one of the losses they are allowed and wait another
\* period, or are reported gone; then those whose time is still up are dropped.
GwExpiryTimeout(k) ==
    LET Expire(info) ==
            IF info.left > 0 \/ info.losses = 0 THEN info
            ELSE [info EXCEPT !.losses = @ - 1, !.left = @ + info.duration]
        Report(d, info) ==
            IF info.left > 0 THEN d
            ELSE ReportGwStatus(d, IF info.losses = 0 THEN "Removed" ELSE "Tentative", info.gwId)
        Keep(infos, info) == IF info.left > 0 THEN Append(infos, info) ELSE infos
        told[i \in 0 .. Len(k.infos)] ==
            IF i = 0 THEN k ELSE Report(told[i - 1], k.infos[i])
        kept[i \in 0 .. Len(k.infos)] ==
            IF i = 0 THEN << >> ELSE Keep(kept[i - 1], Expire(k.infos[i]))
    IN MonitorGatewayExpiry([told[Len(k.infos)] EXCEPT !.infos = kept[Len(k.infos)]])

\* sendGwinfo: of the gateways with an address the one that expires last.
SendGwinfo(k) ==
    LET known == {i \in DOMAIN k.infos : k.infos[i].addr # NoAddr} IN
    IF known = {} THEN k
    ELSE LET best == CHOOSE i \in known : \A j \in known : k.infos[j].left <= k.infos[i].left
         IN Send(k, <<"GWINFO", k.infos[best].gwId, k.infos[best].addr>>)

\* tick: time passes, then the callbacks that are due.
ClientTick(k) ==
    LET Timeout(d, t) ==
            CASE t = "gwDiscovery" -> GwExpiryTimeout(d)
              [] t = "sendGwinfo" -> SendGwinfo(d)
              [] t = "search" -> SearchTimeout(d)
        Aged(info) == [info EXCEPT !.left = IF @ > 0 THEN @ - 1 ELSE 0]
        later == [k EXCEPT !.timers = Stopped(@, 1), !.infos = [i \in DOMAIN @ |-> Aged(@[i])]]
        Serve(d, i) == IF i \in Due(k.timers, 1) THEN Timeout(d, k.timers[i].owner) ELSE d
        after[i \in 0 .. Len(k.timers)] ==
            IF i = 0 THEN later ELSE Serve(after[i - 1], i)
    IN after[Len(k.timers)]

\* What the client sends is broadcast.
ClientStep(k) ==
    /\ c' = [k EXCEPT !.out = << >>]
    /\ asked' = IF \E i \in DOMAIN k.out : k.out[i] = "SEARCHGW" THEN GwId ELSE asked

-----------------------------------------------------------------------------
(* The gateways. *)

Init ==
    /\ gw = [g \in GwId |-> [running |-> FALSE, wait |-> 0]]
    /\ c \in {InitClient(limit) : limit \in Limits}
    /\ air = {} /\ asked = {} /\ missed = [g \in GwId |-> AllowedAdvLosses + 1]
    /\ events = 0

Counted == events < MaxEvents /\ events' = events + 1

Broadcast(type, g) == [type |-> type, gwId |-> g, age |-> 0]

\* sendAndReprogram.
SendAndReprogram(g) ==
    /\ gw' = [gw EXCEPT ![g] = [running |-> TRUE, wait |-> Period]]
    /\ air' = air \cup {Broadcast("ADVERTISE", g)}

GwStart(g) ==
    /\ ~ gw[g].running
    /\ SendAndReprogram(g)
    /\ UNCHANGED <<c, asked, missed, events>>

GwStop(g) ==
    /\ gw[g].running /\ Counted
    /\ gw' = [gw EXCEPT ![g].running = FALSE, ![g].wait = 0]
    /\ missed' = [missed EXCEPT ![g] = AllowedAdvLosses + 1]
    /\ UNCHANGED <<c, air, asked>>

GwTick(g) ==
    /\ gw[g].running /\ gw[g].wait = 0
    /\ SendAndReprogram(g)
    /\ UNCHANGED <<c, asked, missed, events>>

\* SEARCHGW arrives at a session of the gateway.
GwSearchgw(g) ==
    /\ g \in asked /\ asked' = asked \ {g}
    /\ air' = IF gw[g].running THEN air \cup {Broadcast("GWINFO", g)} ELSE air
    /\ UNCHANGED <<gw, c, missed, events>>

-----------------------------------------------------------------------------
(* The client and its application. *)

Receive(m) ==
    /\ m \in air /\ air' = air \ {m}
    /\ ClientStep(CASE m.type = "ADVERTISE" -> HandleAdvertise(c, m.gwId)
                    [] m.type = "GWINFO" -> HandleGwinfo(c, m.gwId, NoAddr))
    /\ missed' = IF m.type = "ADVERTISE" /\ gw[m.gwId].running
                 THEN [missed EXCEPT ![m.gwId] = 0] ELSE missed
    /\ UNCHANGED <<gw, events>>

\* Other clients search, and answer for a gateway.
PeerStep(k) ==
    /\ Counted
    /\ ClientStep(k)
    /\ UNCHANGED <<gw, air, missed>>
PeerSearchgw == \E delay \in {0, Delay} : PeerStep(HandleSearchgw(c, delay))
PeerGwinfo == \E g \in GwId : PeerStep(HandleGwinfo(c, g, "told"))

Call(k) ==
    /\ Counted
    /\ ClientStep(k)
    /\ UNCHANGED <<gw, air, missed>>
Search == ~ c.searching /\ Call(SearchSend(SearchPrepare(c)))
SearchCancel == c.searching /\ Call(SearchComplete(c))
SetAddress(g) ==
    Call([SetAvailableGatewayInfo(c, g, "own") EXCEPT !.meddled = @ \/ ~ Stored(c, g)])
\* The application takes g, or every gateway, for forgotten.
Discard(g) ==
    Call([DiscardAvailableGatewayInfo(c, g) EXCEPT !.known = @ \ {g}, !.meddled = TRUE])
DiscardAll == Call([c EXCEPT !.infos = << >>, !.known = {}])

-----------------------------------------------------------------------------
(* Time and the network. *)

\* No broadcast takes longer than one step, no gateway advertises late.
Elapse ==
    /\ asked = {} /\ \A m \in air : m.age = 0
    /\ \A g \in GwId : gw[g].running => gw[g].wait > 0
    /\ gw' = [g \in GwId |-> [gw[g] EXCEPT !.wait = IF @ > 0 THEN @ - 1 ELSE 0]]
    /\ air' = {[m EXCEPT !.age = 1] : m \in air}
    /\ ClientStep(ClientTick(c))
    /\ UNCHANGED <<missed, events>>

Lose ==
    /\ Counted
    /\ \/ \E m \in air :
             /\ air' = air \ {m}
             /\ missed' = IF m.type = "ADVERTISE" /\ missed[m.gwId] <= AllowedAdvLosses
                          THEN [missed EXCEPT ![m.gwId] = @ + 1] ELSE missed
             /\ UNCHANGED asked
       \/ \E g \in asked : asked' = asked \ {g} /\ UNCHANGED <<air, missed>>
    /\ UNCHANGED <<gw, c>>

Next ==
    \/ \E g \in GwId : GwStart(g) \/ GwStop(g) \/ GwTick(g) \/ GwSearchgw(g)
    \/ \E m \in air : Receive(m)
    \/ PeerSearchgw \/ PeerGwinfo
    \/ Search \/ SearchCancel
    \/ \E g \in GwId : SetAddress(g) \/ Discard(g)
    \/ DiscardAll
    \/ Elapse \/ Lose

Spec == Init /\ [][Next]_vars

\* Time does not stop.
FairSpec == Spec /\ []<><<Elapse>>_vars

-----------------------------------------------------------------------------
\* What the application was told agrees with what is stored: a gateway that was
\* announced, confirmed or doubted is stored, one that was reported gone is not,
\* whatever was lost and whoever announced it.
ToldAgrees == ~ c.meddled => \A g \in GwId : g \in c.known <=> Stored(c, g)

\* A gateway that runs is not reported gone before more advertisements in a row than
\* are allowed failed to arrive: the expiry is long enough for the next one.
RemovedOnlyAfterLosses ==
    [][Elapse /\ ~ c.meddled =>
          \A g \in c.known \ c'.known : missed[g] > AllowedAdvLosses]_vars

\* Discarding a gateway by its id removes that gateway and no other.
DiscardsNamed ==
    [][\A g \in GwId : Discard(g) =>
          \A h \in GwId : Stored(c', h) <=> Stored(c, h) /\ h # g]_vars

\* A gateway that stopped for good is dropped in the end, unless the application
\* added one without an expiry, and every search ends.
GoneForgotten ==
    /\ []<>(~ c.searching)
    /\ \A g \in GwId : <>[](~ gw[g].running) =>
           <>[](~ Stored(c, g)) \/ <>(c.meddled)
=============================================================================
