-------------------------- MODULE Discovery_proofs --------------------------
(***************************************************************************)
(* What the application was told of gateways and what the client library   *)
(* has stored agree, for any gateways, periods, limits and losses.         *)
(***************************************************************************)
EXTENDS Discovery, WellFoundedInduction, TLAPS

Info == [gwId : GwId, left : Nat, duration : Nat, losses : Nat,
         addr : {NoAddr, "own", "told"}]

Ids(infos) == {infos[i].gwId : i \in DOMAIN infos}
Single(infos) == \A i, j \in DOMAIN infos : infos[i].gwId = infos[j].gwId => i = j

Owner == {"gwDiscovery", "sendGwinfo", "search"}

\* Only a timer that has an owner runs.
Table(ts) ==
    /\ ts \in [1 .. 3 -> {ts[i] : i \in 1 .. 3}]
    /\ \A i \in 1 .. 3 : /\ DOMAIN ts[i] = {"owner", "left"} /\ ts[i].owner \in Owner \cup {"none"}
                         /\ ts[i].owner = "none" => ts[i].left = 0

Field == {"infos", "limit", "searching", "retries", "out", "timers", "known", "meddled"}

Typed(k) == DOMAIN k = Field /\ Table(k.timers) /\ k.meddled \in BOOLEAN

Listed(k) == k.infos \in Seq(Info) /\ Single(k.infos)

\* A gateway whose time is up gets more of it while losses are allowed.
Lasting(infos) == \A i \in DOMAIN infos : infos[i].duration > 0

Agrees(k) ==
    /\ Typed(k) /\ Listed(k)
    /\ ~ k.meddled => Lasting(k.infos) /\ k.known = Ids(k.infos)

Message == [type : {"ADVERTISE", "GWINFO"}, gwId : GwId, age : {0, 1}]

AgreeInv ==
    /\ Agrees(c)
    /\ air \subseteq Message

\* r differs from k in the timers, the search and what is sent only.
Alike(r, k) ==
    Typed(r) /\ r.infos = k.infos /\ r.known = k.known /\ r.meddled = k.meddled

-----------------------------------------------------------------------------
(* Numbers and lists. *)

LEMMA MinIs ==
    ASSUME NEW S \in SUBSET Nat, S # {}
    PROVE  Min(S) \in S /\ \A i \in S : Min(S) <= i
<1>1. PICK x \in S : \A y \in S : ~ (<<y, x>> \in OpToRel(<, Nat))
  BY NatLessThanWellFounded, WFMin, Zenon
<1>2. ASSUME NEW y \in S PROVE x <= y
  <2>1. y < x => <<y, x>> \in OpToRel(<, Nat)
    <3>1. <<y, x>> \in Nat \X Nat /\ <<y, x>>[1] = y /\ <<y, x>>[2] = x
      BY Zenon
    <3> QED BY <3>1, Zenon DEF OpToRel
  <2>2. ~ (y < x)
    BY <1>1, <2>1, Zenon
  <2> QED BY <2>2
<1> QED BY <1>2, Zenon DEF Min

\* What holds at 0, and at i + 1 if it holds at i, holds up to n; S is where it does.
LEMMA UpTo ==
    ASSUME NEW n \in Nat, NEW S, 0 \in S, \A i \in 0 .. n - 1 : i \in S => i + 1 \in S
    PROVE  \A i \in 0 .. n : i \in S
<1> DEFINE T == {i \in 0 .. n : i \notin S}
<1> SUFFICES ASSUME T # {} PROVE FALSE
  BY Zenon
<1>1. T \in SUBSET Nat
  OBVIOUS
<1> DEFINE m == Min(T)
<1>2. m \in T /\ \A i \in T : m <= i
  BY <1>1, MinIs, Zenon
<1> HIDE DEF m
<1>3. m # 0 /\ m - 1 \in 0 .. n - 1 /\ m - 1 \notin T
  BY <1>2
<1> QED BY <1>2, <1>3

LEMMA SameIds ==
    ASSUME NEW s \in Seq(Info), Single(s), NEW r, DOMAIN r = DOMAIN s,
           \A i \in DOMAIN s : r[i].gwId = s[i].gwId
    PROVE  Single(r) /\ Ids(r) = Ids(s)
BY DEF Single, Ids

LEMMA Replaced ==
    ASSUME NEW s \in Seq(Info), Single(s), NEW i \in DOMAIN s, NEW x \in Info, x.gwId = s[i].gwId
    PROVE  LET r == [s EXCEPT ![i] = x]
           IN r \in Seq(Info) /\ Single(r) /\ Ids(r) = Ids(s)
<1> DEFINE r == [s EXCEPT ![i] = x]
<1>1. r \in Seq(Info) /\ DOMAIN r = DOMAIN s /\ \A j \in DOMAIN s : r[j].gwId = s[j].gwId
  OBVIOUS
<1> HIDE DEF r
<1>2. Single(r) /\ Ids(r) = Ids(s)
  BY <1>1, SameIds, Zenon
<1> QED BY <1>1, <1>2, Zenon DEF r

LEMMA Added ==
    ASSUME NEW s \in Seq(Info), Single(s), NEW x \in Info, x.gwId \notin Ids(s)
    PROVE  LET r == Append(s, x)
           IN r \in Seq(Info) /\ Single(r) /\ Ids(r) = Ids(s) \cup {x.gwId}
<1> DEFINE r == Append(s, x)
<1>1. /\ r \in Seq(Info) /\ Len(s) \in Nat /\ DOMAIN s = 1 .. Len(s) /\ DOMAIN r = 1 .. Len(s) + 1
      /\ \A i \in 1 .. Len(s) : r[i] = s[i]
      /\ r[Len(s) + 1] = x
  OBVIOUS
<1> HIDE DEF r
<1>2. Ids(r) = Ids(s) \cup {x.gwId}
  <2>1. \A g \in Ids(r) : g \in Ids(s) \cup {x.gwId}
    BY <1>1 DEF Ids
  <2>2. \A g \in Ids(s) : g \in Ids(r)
    BY <1>1 DEF Ids
  <2>3. x.gwId \in Ids(r)
    BY <1>1 DEF Ids
  <2> QED BY <2>1, <2>2, <2>3, Zenon
<1>3. Single(r)
  <2> SUFFICES ASSUME NEW i \in DOMAIN r, NEW j \in DOMAIN r, r[i].gwId = r[j].gwId, i # j
               PROVE  FALSE
    BY Zenon DEF Single
  <2>1. \A m \in 1 .. Len(s) : s[m].gwId # x.gwId
    BY <1>1, Zenon DEF Ids
  <2> QED BY <1>1, <2>1 DEF Single
<1> QED BY <1>1, <1>2, <1>3, Zenon DEF r

LEMMA FoundIs ==
    ASSUME NEW k, k.infos \in Seq(Info), NEW g
    PROVE  /\ Stored(k, g) <=> g \in Ids(k.infos)
           /\ Stored(k, g) => Found(k, g) \in DOMAIN k.infos /\ k.infos[Found(k, g)].gwId = g
<1>1. Stored(k, g) <=> g \in Ids(k.infos)
  BY Zenon DEF Stored, Ids
<1>2. Stored(k, g) => Found(k, g) \in DOMAIN k.infos /\ k.infos[Found(k, g)].gwId = g
  BY Zenon DEF Stored, Found
<1> QED BY <1>1, <1>2, Zenon

-----------------------------------------------------------------------------
(* Timers. *)

LEMMA TableOps ==
    ASSUME NEW ts, Table(ts), NEW t \in Owner, NEW ms
    PROVE  /\ Table(TimerWait(ts, t, ms)) /\ Table(TimerCancel(ts, t)) /\ Table(FreeTimers(ts, {t}))
           /\ Table(AllocTimer(ts, t)) /\ Table(Stopped(ts, 1))
<1>0. DOMAIN ts = 1 .. 3 /\ t # "none"
  BY Zenon DEF Table, Owner
<1>1. Table(TimerWait(ts, t, ms))
  BY <1>0, Zenon DEF Table, TimerWait
<1>2. Table(TimerCancel(ts, t))
  BY <1>0, Zenon DEF Table, TimerCancel
<1>3. Table(FreeTimers(ts, {t}))
  BY <1>0, Zenon DEF Table, FreeTimers, Unallocated
<1>4. Table(AllocTimer(ts, t))
  <2> DEFINE n == Min({i \in DOMAIN ts : ts[i] = Unallocated})
  <2>1. AllocTimer(ts, t) = [ts EXCEPT ![n] = [ts[n] EXCEPT !.owner = t]]
    BY Zenon DEF AllocTimer
  <2> HIDE DEF n
  <2> QED BY <1>0, <2>1, Zenon DEF Table
<1>5. Table(Stopped(ts, 1))
  BY <1>0 DEF Table, Stopped
<1> QED BY <1>1, <1>2, <1>3, <1>4, <1>5, Zenon

-----------------------------------------------------------------------------
(* What leaves the list of gateways alone. *)

LEMMA AlikeAgrees ==
    ASSUME NEW k, Agrees(k), NEW r, Alike(r, k)
    PROVE  Agrees(r)
BY Zenon DEF Agrees, Alike, Listed

LEMMA AlikeTwice ==
    ASSUME NEW k, NEW q, NEW r, Alike(q, k), Alike(r, q)
    PROVE  Alike(r, k)
BY Zenon DEF Alike

LEMMA SetTimers ==
    ASSUME NEW k, Typed(k), NEW ts, Table(ts)
    PROVE  Alike([k EXCEPT !.timers = ts], k)
BY Zenon DEF Typed, Alike, Field

LEMMA WaitAlike ==
    ASSUME NEW k, Typed(k), NEW t \in Owner, NEW ms
    PROVE  Alike(Wait(k, t, ms), k) /\ Alike(Stop(k, t), k)
<1>1. Table(TimerWait(k.timers, t, ms)) /\ Table(TimerCancel(k.timers, t))
  BY TableOps, Zenon DEF Typed
<1>2. /\ Wait(k, t, ms) = [k EXCEPT !.timers = TimerWait(k.timers, t, ms)]
      /\ Stop(k, t) = [k EXCEPT !.timers = TimerCancel(k.timers, t)]
  BY Zenon DEF Wait, Stop
<1> QED BY <1>1, <1>2, SetTimers, Zenon

LEMMA SendAlike ==
    ASSUME NEW k, Typed(k), NEW msg
    PROVE  Alike(Send(k, msg), k)
BY Zenon DEF Send, Typed, Alike, Field

LEMMA MonitorAlike ==
    ASSUME NEW k, Typed(k), Listed(k)
    PROVE  Alike(MonitorGatewayExpiry(k), k)
<1> DEFINE first == Min({k.infos[i].left : i \in DOMAIN k.infos})
<1>1. "gwDiscovery" \in Owner
  BY Zenon DEF Owner
<1>2. Alike(k, k) /\ Alike(Wait(k, "gwDiscovery", first), k) /\ Alike(Stop(k, "gwDiscovery"), k)
  BY <1>1, WaitAlike, Zenon DEF Alike
<1>3. MonitorGatewayExpiry(k) = CASE k.infos = << >> -> k
        [] k.infos # << >> /\ first > 0 -> Wait(k, "gwDiscovery", first)
        [] k.infos # << >> /\ first = 0 -> Stop(k, "gwDiscovery")
  BY Zenon DEF MonitorGatewayExpiry
<1>4. k.infos # << >> => first \in Nat
  <2> DEFINE S == {k.infos[i].left : i \in DOMAIN k.infos}
  <2>1. S \in SUBSET Nat /\ (k.infos # << >> => S # {})
    <3>1. k.infos \in Seq(Info)
      BY Zenon DEF Listed
    <3>2. k.infos # << >> => 1 \in DOMAIN k.infos
      BY <3>1
    <3>3. \A i \in DOMAIN k.infos : k.infos[i].left \in Nat
      <4>1. \A i \in DOMAIN k.infos : k.infos[i] \in Info
        BY <3>1
      <4> QED BY <4>1, Zenon DEF Info
    <3> QED BY <3>2, <3>3, Zenon
  <2> HIDE DEF S
  <2>2. S # {} => Min(S) \in S
    BY <2>1, MinIs, Zenon
  <2> QED BY <2>1, <2>2, Zenon DEF S
<1> HIDE DEF first
<1> QED BY <1>2, <1>3, <1>4

LEMMA SearchAlike ==
    ASSUME NEW k, Typed(k)
    PROVE  /\ Alike(SearchComplete(k), k) /\ Alike(SearchHandle(k), k) /\ Alike(SearchSendInternal(k), k)
           /\ Alike(SearchPrepare(k), k) /\ Alike(SearchTimeout(k), k)
<1>0. "search" \in Owner
  BY Zenon DEF Owner
<1>1. Table(FreeTimers(k.timers, {"search"})) /\ Table(AllocTimer(k.timers, "search"))
  BY <1>0, TableOps, Zenon DEF Typed
<1>2. Alike(SearchComplete(k), k)
  BY <1>1, Zenon DEF SearchComplete, Typed, Alike, Field
<1>3. Alike(SearchHandle(k), k)
  BY <1>2, Zenon DEF SearchHandle, Alike
<1>4. ASSUME NEW d, Typed(d) PROVE Alike(SearchSendInternal(d), d)
  <2>1. Alike(Send(d, "SEARCHGW"), d)
    BY <1>4, SendAlike, Zenon
  <2>2. Alike(Wait(Send(d, "SEARCHGW"), "search", RetryPeriod), Send(d, "SEARCHGW"))
    BY <1>0, <2>1, WaitAlike DEF Alike
  <2> QED BY <2>1, <2>2, AlikeTwice, Zenon DEF SearchSendInternal
<1>5. Alike(SearchPrepare(k), k)
  BY <1>1, Zenon DEF SearchPrepare, Typed, Alike, Field
<1>6. Alike(SearchTimeout(k), k)
  <2> DEFINE d == [k EXCEPT !.retries = @ - 1]
  <2>1. Alike(d, k)
    BY Zenon DEF Typed, Alike, Field
  <2> HIDE DEF d
  <2>2. Alike(SearchSendInternal(d), d)
    BY <1>4, <2>1, Zenon DEF Alike
  <2>3. Alike(SearchSendInternal(d), k)
    BY <2>1, <2>2, AlikeTwice, Zenon
  <2> QED BY <1>2, <2>3, Zenon DEF SearchTimeout, d
<1> QED BY <1>2, <1>3, <1>4, <1>5, <1>6, Zenon

LEMMA SendGwinfoAlike ==
    ASSUME NEW k, Typed(k)
    PROVE  Alike(SendGwinfo(k), k)
<1>1. Alike(k, k)
  BY Zenon DEF Alike
<1> QED BY <1>1, SendAlike, Zenon DEF SendGwinfo

LEMMA HandleSearchgwAlike ==
    ASSUME NEW k, Typed(k), NEW delay
    PROVE  Alike(HandleSearchgw(k, delay), k)
<1>1. Alike(k, k) /\ "sendGwinfo" \in Owner
  BY Zenon DEF Alike, Owner
<1> QED BY <1>1, WaitAlike, Zenon DEF HandleSearchgw

-----------------------------------------------------------------------------
(* Reports to the application. *)

LEMMA SetAvailableIs ==
    ASSUME NEW k, Typed(k), Listed(k), NEW g \in GwId, NEW addr \in {"own", "told"}
    PROVE  LET r == SetAvailableGatewayInfo(k, g, addr)
           IN /\ Typed(r) /\ Listed(r) /\ r.known = k.known /\ r.meddled = k.meddled
              /\ Stored(k, g) =>
                    Ids(r.infos) = Ids(k.infos) /\ (Lasting(k.infos) => Lasting(r.infos))
<1> DEFINE r == SetAvailableGatewayInfo(k, g, addr)
           n == Found(k, g)
           s == k.infos
           x == [s[n] EXCEPT !.addr = addr]
           y == [NewInfo EXCEPT !.gwId = g, !.addr = addr]
<1>0. s \in Seq(Info) /\ Single(s)
  BY Zenon DEF Listed
<1>1. CASE Stored(k, g)
  <2>1. n \in DOMAIN s /\ s[n] \in Info
    BY <1>0, <1>1, FoundIs
  <2>2. x \in Info /\ x.gwId = s[n].gwId /\ x.duration = s[n].duration
    BY <2>1, Zenon DEF Info
  <2>3. r = [k EXCEPT !.infos = [s EXCEPT ![n] = x]]
    BY <1>1, Zenon DEF SetAvailableGatewayInfo
  <2>4. Typed(r) /\ r.infos = [s EXCEPT ![n] = x] /\ r.known = k.known /\ r.meddled = k.meddled
    BY <2>3, Zenon DEF Typed, Field
  <2> HIDE DEF r, n, x
  <2>5. r.infos \in Seq(Info) /\ Single(r.infos) /\ Ids(r.infos) = Ids(s)
    BY <1>0, <2>1, <2>2, <2>4, Replaced
  <2>6. Lasting(s) => Lasting(r.infos)
    BY <1>0, <2>1, <2>2, <2>4, Zenon DEF Lasting
  <2> QED BY <2>4, <2>5, <2>6, Zenon DEF Listed, r
<1>2. CASE ~ Stored(k, g) /\ ~ Full(k)
  <2>1. r = [k EXCEPT !.infos = Append(s, y)]
    BY <1>2, Zenon DEF SetAvailableGatewayInfo
  <2>2. y \in Info /\ y.gwId = g
    BY Zenon DEF NewInfo, Info
  <2>3. g \notin Ids(s)
    BY <1>0, <1>2, FoundIs, Zenon
  <2>4. Typed(r) /\ r.infos = Append(s, y) /\ r.known = k.known /\ r.meddled = k.meddled
    BY <2>1, Zenon DEF Typed, Field
  <2> HIDE DEF r, y
  <2>5. r.infos \in Seq(Info) /\ Single(r.infos)
    BY <1>0, <2>2, <2>3, <2>4, Added, Zenon
  <2> QED BY <1>2, <2>4, <2>5, Zenon DEF Listed, r
<1>3. CASE ~ Stored(k, g) /\ Full(k)
  BY <1>3, Zenon DEF SetAvailableGatewayInfo
<1> QED BY <1>1, <1>2, <1>3, Zenon

LEMMA ReportedIs ==
    ASSUME NEW k, Typed(k), Listed(k), NEW g \in GwId, NEW status
    PROVE  LET r == ReportGwStatus(k, status, g)
           IN /\ Typed(r) /\ Listed(r) /\ r.meddled = k.meddled
              /\ status = "Removed" => r.known = k.known \ {g}
              /\ status # "Removed" => r.known = k.known \cup {g}
              /\ Stored(k, g) =>
                    Ids(r.infos) = Ids(k.infos) /\ (Lasting(k.infos) => Lasting(r.infos))
              /\ status \in {"Removed", "Tentative"} => r.infos = k.infos
<1> DEFINE d == [k EXCEPT !.known = IF status = "Removed" THEN @ \ {g} ELSE @ \cup {g}]
           a == SetAvailableGatewayInfo(d, g, "own")
           r == ReportGwStatus(k, status, g)
<1>1. /\ Typed(d) /\ Listed(d) /\ d.meddled = k.meddled /\ d.infos = k.infos
      /\ d.known = IF status = "Removed" THEN k.known \ {g} ELSE k.known \cup {g}
      /\ Stored(d, g) <=> Stored(k, g)
  BY Zenon DEF Typed, Listed, Field, Stored
<1>2. r = IF status \in {"AddedByGateway", "Alive"} THEN a ELSE d
  BY Zenon DEF ReportGwStatus, GwStatusReportInternal
<1> HIDE DEF d
<1>3. /\ Typed(a) /\ Listed(a) /\ a.known = d.known /\ a.meddled = d.meddled
      /\ Stored(d, g) =>
            Ids(a.infos) = Ids(d.infos) /\ (Lasting(d.infos) => Lasting(a.infos))
  BY <1>1, SetAvailableIs, Zenon
<1> HIDE DEF a, r
<1>4. CASE status \in {"AddedByGateway", "Alive"}
  <2>1. r = a /\ status # "Removed" /\ status # "Tentative"
    BY <1>2, <1>4, Zenon
  <2> QED BY <1>1, <1>3, <2>1, Zenon DEF r
<1>5. CASE status \notin {"AddedByGateway", "Alive"}
  <2>1. r = d
    BY <1>2, <1>5, Zenon
  <2> QED BY <1>1, <2>1, Zenon DEF r
<1> QED BY <1>4, <1>5, Zenon

\* A report that a gateway is there makes up for its having been stored just before.
LEMMA ReportedAgrees ==
    ASSUME NEW k, Typed(k), Listed(k), NEW g \in GwId, Stored(k, g), NEW status, status # "Removed",
           ~ k.meddled => Lasting(k.infos) /\ k.known \cup {g} = Ids(k.infos)
    PROVE  Agrees(ReportGwStatus(k, status, g))
<1> DEFINE r == ReportGwStatus(k, status, g)
<1>1. /\ Typed(r) /\ Listed(r) /\ r.meddled = k.meddled /\ r.known = k.known \cup {g}
      /\ Ids(r.infos) = Ids(k.infos) /\ (Lasting(k.infos) => Lasting(r.infos))
  BY ReportedIs
<1> HIDE DEF r
<1> QED BY <1>1, Zenon DEF Agrees, r

-----------------------------------------------------------------------------
(* Broadcasts. *)

LEMMA HandleAdvertiseAgrees ==
    ASSUME NEW k, Agrees(k), NEW g \in GwId
    PROVE  Agrees(HandleAdvertise(k, g))
<1> DEFINE d == Stop(k, "gwDiscovery")
           Noted(e) == [SearchHandle(e) EXCEPT !.infos[Found(e, g)] =
                           [@ EXCEPT !.left = Period + RetryPeriod, !.duration = Period,
                                     !.losses = AllowedAdvLosses]]
           Heard(e, status) == MonitorGatewayExpiry(ReportGwStatus(Noted(e), status, g))
           new == [NewInfo EXCEPT !.gwId = g]
           e1 == [d EXCEPT !.infos = Append(@, new)]
<1>1. /\ Stored(d, g) => HandleAdvertise(k, g) = Heard(d, "Alive")
      /\ ~ Stored(d, g) /\ ~ Full(d) => HandleAdvertise(k, g) = Heard(e1, "AddedByGateway")
      /\ ~ Stored(d, g) /\ Full(d) => HandleAdvertise(k, g) = MonitorGatewayExpiry(SearchHandle(d))
  BY Zenon DEF HandleAdvertise
<1>2. Alike(d, k) /\ Agrees(d)
  <2>1. "gwDiscovery" \in Owner
    BY Zenon DEF Owner
  <2> QED BY <2>1, WaitAlike, AlikeAgrees, Zenon DEF Agrees
<1> HIDE DEF d
\* e has g, at the end if it was added now.
<1>3. ASSUME NEW e, Typed(e), Listed(e), Stored(e, g), NEW status, status # "Removed",
             ~ e.meddled => /\ e.known \cup {g} = Ids(e.infos)
                            /\ \A i \in DOMAIN e.infos : e.infos[i].gwId # g => e.infos[i].duration > 0
      PROVE  Agrees(Heard(e, status))
  <2> DEFINE h == SearchHandle(e)
             n == Found(e, g)
             s == e.infos
             x == [s[n] EXCEPT !.left = Period + RetryPeriod, !.duration = Period,
                               !.losses = AllowedAdvLosses]
             q == Noted(e)
             t == ReportGwStatus(q, status, g)
  <2>1. Alike(h, e)
    BY <1>3, SearchAlike, Zenon
  <2>2. s \in Seq(Info) /\ Single(s) /\ n \in DOMAIN s /\ s[n] \in Info /\ s[n].gwId = g
    BY <1>3, FoundIs DEF Listed
  <2>3. x \in Info /\ x.gwId = g /\ x.duration = Period /\ Period > 0
    <3>1. Period + RetryPeriod \in Nat /\ Period \in Nat /\ Period > 0 /\ AllowedAdvLosses \in Nat
      BY DiscoveryAssumption
    <3>2. \E y \in Info, a \in Nat : y = s[n] /\ a = Period + RetryPeriod
      BY <2>2, <3>1, Zenon
    <3>3. PICK y \in Info, a \in Nat : y = s[n] /\ a = Period + RetryPeriod
      BY <3>2, Zenon
    <3>4. x = [y EXCEPT !.left = a, !.duration = Period, !.losses = AllowedAdvLosses]
      BY <3>3, Zenon
    <3> HIDE DEF x, s, n
    <3>5. x \in Info /\ x.gwId = y.gwId /\ x.duration = Period
      BY <3>1, <3>4, Zenon DEF Info
    <3> QED BY <2>2, <3>1, <3>3, <3>5, Zenon
  <2>4. q = [h EXCEPT !.infos = [s EXCEPT ![n] = x]]
    BY <2>1, Zenon DEF Alike
  <2> HIDE DEF h, n, x, q
  <2>5. Typed(q) /\ q.infos = [s EXCEPT ![n] = x] /\ q.known = e.known /\ q.meddled = e.meddled
    BY <2>1, <2>4, Zenon DEF Alike, Typed, Field
  <2>6. q.infos \in Seq(Info) /\ Single(q.infos) /\ Ids(q.infos) = Ids(s)
    BY <2>2, <2>3, <2>5, Replaced
  <2>7. Listed(q) /\ Stored(q, g)
    <3>1. g \in Ids(s)
      BY <2>2, Zenon DEF Ids
    <3> QED BY <2>6, <3>1, FoundIs, Zenon DEF Listed
  <2>8. ~ q.meddled => Lasting(q.infos) /\ q.known \cup {g} = Ids(q.infos)
    <3>1. \A i \in DOMAIN s : i # n => s[i].gwId # g
      BY <2>2, Zenon DEF Single
    <3> QED BY <1>3, <2>2, <2>3, <2>5, <2>6, <3>1, Zenon DEF Lasting
  <2>9. Agrees(t)
    BY <1>3, <2>5, <2>7, <2>8, ReportedAgrees, Zenon
  <2>10. Heard(e, status) = MonitorGatewayExpiry(t)
    BY Zenon DEF q
  <2> HIDE DEF t
  <2> QED BY <2>9, <2>10, MonitorAlike, AlikeAgrees, Zenon DEF Agrees
<1> HIDE DEF Heard
<1>4. CASE Stored(d, g)
  <2>1. g \in Ids(d.infos)
    BY <1>2, <1>4, FoundIs, Zenon DEF Agrees, Listed
  <2>2. ~ d.meddled => /\ d.known \cup {g} = Ids(d.infos)
                       /\ \A i \in DOMAIN d.infos : d.infos[i].gwId # g => d.infos[i].duration > 0
    BY <1>2, <2>1, Zenon DEF Agrees, Lasting
  <2>3. Agrees(Heard(d, "Alive"))
    BY <1>2, <1>3, <1>4, <2>2, Zenon DEF Agrees
  <2> QED BY <1>1, <1>4, <2>3, Zenon
<1>5. CASE ~ Stored(d, g) /\ ~ Full(d)
  <2>1. d.infos \in Seq(Info) /\ Single(d.infos) /\ g \notin Ids(d.infos)
    BY <1>2, <1>5, FoundIs, Zenon DEF Agrees, Listed
  <2>2. new \in Info /\ new.gwId = g
    BY Zenon DEF NewInfo, Info
  <2>3. Typed(e1) /\ e1.infos = Append(d.infos, new) /\ e1.known = d.known /\ e1.meddled = d.meddled
    BY <1>2, Zenon DEF Agrees, Typed, Field
  <2> HIDE DEF e1, new
  <2>4. e1.infos \in Seq(Info) /\ Single(e1.infos) /\ Ids(e1.infos) = Ids(d.infos) \cup {g}
    BY <2>1, <2>2, <2>3, Added, Zenon
  <2>5. Listed(e1) /\ Stored(e1, g)
    BY <2>4, FoundIs, Zenon DEF Listed
  <2>6. ~ d.meddled => d.known = Ids(d.infos) /\ Lasting(d.infos)
    BY <1>2, Zenon DEF Agrees
  <2>7. ~ e1.meddled => /\ e1.known \cup {g} = Ids(e1.infos)
                        /\ \A i \in DOMAIN e1.infos : e1.infos[i].gwId # g => e1.infos[i].duration > 0
    <3>1. \A i \in DOMAIN e1.infos :
              (i \in DOMAIN d.infos /\ e1.infos[i] = d.infos[i]) \/ e1.infos[i] = new
      BY <2>1, <2>2, <2>3
    <3> QED BY <2>2, <2>3, <2>4, <2>6, <3>1, Zenon DEF Lasting
  <2>8. Agrees(Heard(e1, "AddedByGateway"))
    BY <1>3, <2>3, <2>5, <2>7, Zenon
  <2> QED BY <1>1, <1>5, <2>8, Zenon
<1>6. CASE ~ Stored(d, g) /\ Full(d)
  <2>1. Agrees(SearchHandle(d))
    BY <1>2, SearchAlike, AlikeAgrees, Zenon DEF Agrees
  <2> QED BY <1>1, <1>6, <2>1, MonitorAlike, AlikeAgrees, Zenon DEF Agrees
<1> QED BY <1>4, <1>5, <1>6, Zenon

LEMMA HandleGwinfoAgrees ==
    ASSUME NEW k, Agrees(k), NEW g \in GwId, NEW addr \in {NoAddr, "told"}
    PROVE  Agrees(HandleGwinfo(k, g, addr))
<1> DEFINE d == Stop(k, "sendGwinfo")
           s == d.infos
           i == Found(d, g)
           new == [gwId |-> g, left |-> GwAdvTimeout + RetryPeriod, duration |-> GwAdvTimeout,
                   losses |-> AllowedAdvLosses, addr |-> addr]
           added == IF addr = NoAddr THEN "AddedByGateway" ELSE "AddedByClient"
           e1 == [d EXCEPT !.infos[i].losses = AllowedAdvLosses]
           e2 == [d EXCEPT !.infos[i].addr = addr]
           e3 == [d EXCEPT !.infos = Append(@, new)]
<1>1. /\ Stored(d, g) => HandleGwinfo(k, g, addr) \in
            {ReportGwStatus(SearchHandle(e1), "Alive", g), SearchHandle(d),
             ReportGwStatus(SearchHandle(e2), "UpdatedByClient", g)}
      /\ ~ Stored(d, g) => HandleGwinfo(k, g, addr) \in
            {SearchHandle(d), ReportGwStatus(SearchHandle(MonitorGatewayExpiry(e3)), added, g)}
  BY Zenon DEF HandleGwinfo
<1>2. Agrees(d)
  <2>1. "sendGwinfo" \in Owner
    BY Zenon DEF Owner
  <2>2. Alike(d, k)
    BY <2>1, WaitAlike, Zenon DEF Agrees
  <2> QED BY <2>2, AlikeAgrees, Zenon
<1> HIDE DEF d
<1>3. s \in Seq(Info) /\ Single(s) /\ Typed(d) /\ Listed(d)
  BY <1>2, Zenon DEF Agrees, Listed
<1>4. Agrees(SearchHandle(d))
  BY <1>2, <1>3, SearchAlike, AlikeAgrees, Zenon
\* e has g, and h is like it but for the timers and the search.
<1>5. ASSUME NEW e, NEW h, Alike(h, e), Listed(e), g \in Ids(e.infos), NEW status, status # "Removed",
             ~ e.meddled => Lasting(e.infos) /\ e.known \cup {g} = Ids(e.infos)
      PROVE  Agrees(ReportGwStatus(h, status, g))
  <2>1. Typed(h) /\ Listed(h) /\ h.infos = e.infos /\ h.known = e.known /\ h.meddled = e.meddled
    BY <1>5, Zenon DEF Alike, Listed
  <2>2. Stored(h, g)
    BY <1>5, <2>1, FoundIs, Zenon DEF Listed
  <2> QED BY <1>5, <2>1, <2>2, ReportedAgrees, Zenon
<1>6. CASE Stored(d, g)
  <2>1. i \in DOMAIN s /\ s[i] \in Info /\ s[i].gwId = g /\ g \in Ids(s)
    BY <1>3, <1>6, FoundIs
  <2>2. ASSUME NEW x \in Info, x.gwId = s[i].gwId, x.duration = s[i].duration,
               NEW e, e = [d EXCEPT !.infos = [s EXCEPT ![i] = x]],
               NEW status, status # "Removed"
        PROVE  Agrees(ReportGwStatus(SearchHandle(e), status, g))
    <3>1. Typed(e) /\ e.infos = [s EXCEPT ![i] = x] /\ e.known = d.known /\ e.meddled = d.meddled
      BY <1>3, <2>2, Zenon DEF Typed, Field
    <3>2. e.infos \in Seq(Info) /\ Single(e.infos) /\ Ids(e.infos) = Ids(s)
      BY <1>3, <2>1, <2>2, <3>1, Replaced
    <3>3. Lasting(s) => Lasting(e.infos)
      BY <1>3, <2>1, <2>2, <3>1 DEF Lasting
    <3>4. ~ e.meddled => Lasting(e.infos) /\ e.known \cup {g} = Ids(e.infos)
      BY <1>2, <2>1, <3>1, <3>2, <3>3, Zenon DEF Agrees
    <3>5. Alike(SearchHandle(e), e)
      BY <3>1, SearchAlike, Zenon
    <3>6. Listed(e) /\ g \in Ids(e.infos)
      BY <2>1, <3>2, Zenon DEF Listed
    <3> QED BY <1>5, <2>2, <3>4, <3>5, <3>6, Zenon
  <2>3. Agrees(ReportGwStatus(SearchHandle(e1), "Alive", g))
    <3> DEFINE x == [s[i] EXCEPT !.losses = AllowedAdvLosses]
    <3>1. AllowedAdvLosses \in Nat
      BY DiscoveryAssumption, Zenon
    <3>2. x \in Info /\ x.gwId = s[i].gwId /\ x.duration = s[i].duration
      BY <2>1, <3>1, Zenon DEF Info
    <3>3. e1 = [d EXCEPT !.infos = [s EXCEPT ![i] = x]]
      BY Zenon
    <3> HIDE DEF x, e1, s, i
    <3> QED BY <2>2, <3>2, <3>3, Zenon
  <2>4. Agrees(ReportGwStatus(SearchHandle(e2), "UpdatedByClient", g))
    <3> DEFINE x == [s[i] EXCEPT !.addr = addr]
    <3>1. addr \in {NoAddr, "own", "told"}
      BY Zenon
    <3>2. x \in Info /\ x.gwId = s[i].gwId /\ x.duration = s[i].duration
      BY <2>1, <3>1, Zenon DEF Info
    <3>3. e2 = [d EXCEPT !.infos = [s EXCEPT ![i] = x]]
      BY Zenon
    <3> HIDE DEF x, e2, s, i
    <3> QED BY <2>2, <3>2, <3>3, Zenon
  <2> HIDE DEF e1, e2
  <2> QED BY <1>1, <1>4, <1>6, <2>3, <2>4, Zenon
<1>7. CASE ~ Stored(d, g)
  <2>1. g \notin Ids(s)
    BY <1>3, <1>7, FoundIs, Zenon
  <2>2. new \in Info /\ new.gwId = g /\ new.duration > 0
    <3>1. GwAdvTimeout + RetryPeriod \in Nat /\ GwAdvTimeout \in Nat /\ GwAdvTimeout > 0 /\ AllowedAdvLosses \in Nat
      BY DiscoveryAssumption
    <3> QED BY <3>1, Zenon DEF Info
  <2>3. Typed(e3) /\ e3.infos = Append(s, new) /\ e3.known = d.known /\ e3.meddled = d.meddled
    BY <1>3, Zenon DEF Typed, Field
  <2> HIDE DEF e3, new
  <2>4. e3.infos \in Seq(Info) /\ Single(e3.infos) /\ Ids(e3.infos) = Ids(s) \cup {g}
    BY <1>3, <2>1, <2>2, <2>3, Added, Zenon
  <2>5. Lasting(s) => Lasting(e3.infos)
    BY <1>3, <2>2, <2>3 DEF Lasting
  <2>6. ~ e3.meddled => Lasting(e3.infos) /\ e3.known \cup {g} = Ids(e3.infos)
    BY <1>2, <2>3, <2>4, <2>5, Zenon DEF Agrees
  <2>7. Listed(e3) /\ g \in Ids(e3.infos)
    BY <2>4, Zenon DEF Listed
  <2> DEFINE m == MonitorGatewayExpiry(e3)
  <2>8. Alike(m, e3)
    BY <2>3, <2>7, MonitorAlike, Zenon
  <2> HIDE DEF m
  <2>9. Alike(SearchHandle(m), m)
    BY <2>8, SearchAlike, Zenon DEF Alike
  <2>10. Alike(SearchHandle(m), e3)
    BY <2>8, <2>9, AlikeTwice, Zenon
  <2>11. Agrees(ReportGwStatus(SearchHandle(m), added, g))
    BY <1>5, <2>6, <2>7, <2>10, Zenon
  <2> QED BY <1>1, <1>4, <1>7, <2>11, Zenon DEF m
<1> QED BY <1>6, <1>7, Zenon

-----------------------------------------------------------------------------
(* Time. *)

\* The gateways among the first m whose time is up for good, and the others.
Gone(infos, m) == {infos[i].gwId : i \in {j \in 1 .. m : infos[j].left = 0 /\ infos[j].losses = 0}}
Kept(infos, m) == {infos[i].gwId : i \in {j \in 1 .. m : ~ (infos[j].left = 0 /\ infos[j].losses = 0)}}

LEMMA GoneOrKept ==
    ASSUME NEW s \in Seq(Info), Single(s)
    PROVE  /\ Gone(s, 0) = {} /\ Kept(s, 0) = {} /\ Ids(s) \ Gone(s, Len(s)) = Kept(s, Len(s))
           /\ \A m \in 1 .. Len(s) :
                  IF s[m].left = 0 /\ s[m].losses = 0
                  THEN /\ Gone(s, m) = Gone(s, m - 1) \cup {s[m].gwId} /\ Kept(s, m) = Kept(s, m - 1)
                  ELSE /\ Gone(s, m) = Gone(s, m - 1) /\ Kept(s, m) = Kept(s, m - 1) \cup {s[m].gwId}
           /\ \A m \in 1 .. Len(s) : s[m].gwId \notin Gone(s, m - 1) \cup Kept(s, m - 1)
<1>0. Len(s) \in Nat /\ DOMAIN s = 1 .. Len(s)
  OBVIOUS
<1>1. Gone(s, 0) = {} /\ Kept(s, 0) = {}
  BY DEF Gone, Kept
<1>2. ASSUME NEW m \in 1 .. Len(s)
      PROVE  IF s[m].left = 0 /\ s[m].losses = 0
             THEN /\ Gone(s, m) = Gone(s, m - 1) \cup {s[m].gwId} /\ Kept(s, m) = Kept(s, m - 1)
             ELSE /\ Gone(s, m) = Gone(s, m - 1) /\ Kept(s, m) = Kept(s, m - 1) \cup {s[m].gwId}
  <2>1. \A j : j \in 1 .. m <=> j \in 1 .. m - 1 \/ j = m
    BY <1>0
  <2> HIDE DEF Gone, Kept
  <2>2. CASE s[m].left = 0 /\ s[m].losses = 0
    BY <2>1, <2>2, Zenon DEF Gone, Kept
  <2>3. CASE ~ (s[m].left = 0 /\ s[m].losses = 0)
    BY <2>1, <2>3, Zenon DEF Gone, Kept
  <2> QED BY <2>2, <2>3, Zenon
<1>3. ASSUME NEW m \in 1 .. Len(s) PROVE s[m].gwId \notin Gone(s, m - 1) \cup Kept(s, m - 1)
  BY <1>0 DEF Gone, Kept, Single
<1>4. Ids(s) \ Gone(s, Len(s)) = Kept(s, Len(s))
  BY <1>0, Zenon DEF Ids, Gone, Kept, Single
<1> QED BY <1>1, <1>2, <1>3, <1>4, Zenon

LEMMA GwExpiryTimeoutAgrees ==
    ASSUME NEW k, Agrees(k)
    PROVE  Agrees(GwExpiryTimeout(k))
<1> DEFINE s == k.infos
           n == Len(s)
           Expire(info) ==
               IF info.left > 0 \/ info.losses = 0 THEN info
               ELSE [info EXCEPT !.losses = @ - 1, !.left = @ + info.duration]
           Report(d, info) ==
               IF info.left > 0 THEN d
               ELSE ReportGwStatus(d, IF info.losses = 0 THEN "Removed" ELSE "Tentative", info.gwId)
           Keep(infos, info) == IF info.left > 0 THEN Append(infos, info) ELSE infos
           told[i \in 0 .. n] == IF i = 0 THEN k ELSE Report(told[i - 1], s[i])
           kept[i \in 0 .. n] == IF i = 0 THEN << >> ELSE Keep(kept[i - 1], Expire(s[i]))
<1>1. GwExpiryTimeout(k) = MonitorGatewayExpiry([told[n] EXCEPT !.infos = kept[n]])
  BY Zenon DEF GwExpiryTimeout
<1>2. /\ s \in Seq(Info) /\ Single(s) /\ Typed(k) /\ n \in Nat /\ DOMAIN s = 1 .. n
      /\ \A i \in 1 .. n : s[i] \in Info
  BY DEF Agrees, Listed
<1>0. n \in Nat
  BY <1>2, Zenon
\* One report, of the i-th gateway.
<1>3. ASSUME NEW d, NEW i \in 1 .. n, Typed(d), d.infos = s, d.meddled = k.meddled,
             ~ k.meddled => d.known = Ids(s) \ Gone(s, i - 1)
      PROVE  LET r == Report(d, s[i])
             IN /\ Typed(r) /\ r.infos = s /\ r.meddled = k.meddled
                /\ ~ k.meddled => r.known = Ids(s) \ Gone(s, i)
  <2> DEFINE r == Report(d, s[i])
             status == IF s[i].losses = 0 THEN "Removed" ELSE "Tentative"
  <2>1. /\ s[i].gwId \in GwId /\ s[i].left \in Nat /\ s[i].losses \in Nat
        /\ s[i].gwId \in Ids(s)
    BY <1>2, Zenon DEF Info, Ids
  <2>2. /\ IF s[i].left = 0 /\ s[i].losses = 0 THEN Gone(s, i) = Gone(s, i - 1) \cup {s[i].gwId}
           ELSE Gone(s, i) = Gone(s, i - 1)
        /\ s[i].gwId \notin Gone(s, i - 1)
    BY <1>2, GoneOrKept, Zenon
  <2>3. CASE s[i].left > 0
    <3>1. r = d
      BY <2>3, Zenon
    <3> QED BY <1>3, <2>1, <2>2, <2>3, <3>1, SMTT(30)
  <2>4. CASE s[i].left = 0
    <3>1. r = ReportGwStatus(d, status, s[i].gwId)
      BY <2>4
    <3>2. Listed(d) /\ status \in {"Removed", "Tentative"}
      BY <1>2, <1>3, Zenon DEF Listed
    <3> DEFINE g == s[i].gwId
               q == ReportGwStatus(d, status, g)
    <3> HIDE DEF status, r, g, s
    <3>3. /\ Typed(q) /\ q.meddled = d.meddled
          /\ q.known = IF status = "Removed" THEN d.known \ {g} ELSE d.known \cup {g}
          /\ q.infos = d.infos
      <4>1. g \in GwId
        BY <2>1, Zenon DEF g
      <4>2. Typed(d) /\ Listed(d)
        BY <1>3, <3>2, Zenon
      <4>3. Typed(q) /\ q.meddled = d.meddled
        BY <4>1, <4>2, ReportedIs, Zenon
      <4>4. q.known = IF status = "Removed" THEN d.known \ {g} ELSE d.known \cup {g}
        <5>1. CASE status = "Removed"
          BY <4>1, <4>2, <5>1, ReportedIs
        <5>2. CASE status # "Removed"
          BY <4>1, <4>2, <5>2, ReportedIs
        <5> QED BY <5>1, <5>2, Zenon
      <4>5. q.infos = d.infos
        BY <3>2, <4>1, <4>2, ReportedIs
      <4> QED BY <4>3, <4>4, <4>5, Zenon
    <3> HIDE DEF q
    <3>6. /\ Typed(r) /\ r.infos = s /\ r.meddled = k.meddled
          /\ r.known = IF status = "Removed" THEN d.known \ {s[i].gwId} ELSE d.known \cup {s[i].gwId}
      BY <1>3, <3>1, <3>3, Zenon DEF g, q
    <3>4. CASE s[i].losses = 0
      <4>1. status = "Removed"
        BY <3>4, Zenon DEF status
      <4> QED BY <1>3, <2>2, <2>4, <3>4, <3>6, <4>1, Zenon DEF r
    <3>5. CASE s[i].losses # 0
      <4>1. status # "Removed"
        BY <3>5, Zenon DEF status
      <4> QED BY <1>3, <2>1, <2>2, <2>4, <3>5, <3>6, <4>1, Zenon DEF r
    <3> QED BY <3>4, <3>5, Zenon
  <2>5. s[i].left > 0 \/ s[i].left = 0
    BY <2>1
  <2> QED BY <2>3, <2>4, <2>5, Zenon
\* One gateway more that stays or goes.
<1>4. ASSUME NEW q \in Seq(Info), NEW i \in 1 .. n, Single(q), Ids(q) \subseteq Gone(s, i - 1) \cup Kept(s, i - 1),
             ~ k.meddled => Ids(q) = Kept(s, i - 1) /\ Lasting(q)
      PROVE  LET r == Keep(q, Expire(s[i]))
             IN /\ r \in Seq(Info) /\ Single(r) /\ Ids(r) \subseteq Gone(s, i) \cup Kept(s, i)
                /\ ~ k.meddled => Ids(r) = Kept(s, i) /\ Lasting(r)
  <2> DEFINE x == Expire(s[i])
             r == Keep(q, x)
  <2>1. /\ s[i] \in Info /\ s[i].left \in Nat /\ s[i].losses \in Nat /\ s[i].duration \in Nat
    BY <1>2, Zenon DEF Info
  <2>2. x \in Info /\ x.gwId = s[i].gwId /\ x.duration = s[i].duration
    <3>1. PICK y \in Info : y = s[i]
      BY <2>1, Zenon
    <3>2. x = IF y.left > 0 \/ y.losses = 0 THEN y
              ELSE [y EXCEPT !.losses = y.losses - 1, !.left = y.left + y.duration]
      BY <3>1, Zenon
    <3> HIDE DEF x, s
    <3>3. x \in Info /\ x.gwId = y.gwId /\ x.duration = y.duration
      <4>1. CASE y.left > 0 \/ y.losses = 0
        BY <3>2, <4>1, Zenon
      <4>2. CASE ~ (y.left > 0 \/ y.losses = 0)
        <5>1. y.losses - 1 \in Nat /\ y.left + y.duration \in Nat
          BY <4>2 DEF Info
        <5>2. PICK a \in Nat, b \in Nat : a = y.losses - 1 /\ b = y.left + y.duration
          BY <5>1, Zenon
        <5>3. x = [y EXCEPT !.losses = a, !.left = b]
          BY <3>2, <4>2, <5>2, Zenon
        <5> QED BY <5>3, Zenon DEF Info
      <4> QED BY <4>1, <4>2, Zenon
    <3> QED BY <3>1, <3>3, Zenon
  <2>3. ~ k.meddled => s[i].duration > 0
    BY <1>2, Zenon DEF Agrees, Lasting
  <2>4. /\ s[i].left = 0 /\ s[i].losses = 0 => x.left = 0
        /\ ~ (s[i].left = 0 /\ s[i].losses = 0) /\ s[i].duration > 0 => x.left > 0
    BY <2>1 DEF Info
  <2>5. /\ IF s[i].left = 0 /\ s[i].losses = 0
           THEN /\ Gone(s, i) = Gone(s, i - 1) \cup {s[i].gwId} /\ Kept(s, i) = Kept(s, i - 1)
           ELSE /\ Gone(s, i) = Gone(s, i - 1) /\ Kept(s, i) = Kept(s, i - 1) \cup {s[i].gwId}
        /\ s[i].gwId \notin Gone(s, i - 1) \cup Kept(s, i - 1)
    BY <1>2, GoneOrKept, Zenon
  <2>6. x.left \in Nat
    BY <2>2, Zenon DEF Info
  <2>7. r = IF x.left > 0 THEN Append(q, x) ELSE q
    BY Zenon
  <2> HIDE DEF x, r
  <2>8. CASE x.left > 0
    <3>1. r = Append(q, x) /\ x.gwId \notin Ids(q)
      BY <1>4, <2>2, <2>5, <2>7, <2>8, Zenon
    <3>2. r \in Seq(Info) /\ Single(r) /\ Ids(r) = Ids(q) \cup {s[i].gwId}
      BY <1>4, <2>2, <3>1, Added, Zenon
    <3>3. x.duration > 0 /\ Lasting(q) => Lasting(r)
      BY <3>1 DEF Lasting
    <3>4. ~ (s[i].left = 0 /\ s[i].losses = 0)
      BY <2>4, <2>8
    <3> QED BY <1>4, <2>2, <2>3, <2>5, <3>2, <3>3, <3>4, Zenon DEF r, x
  <2>9. CASE x.left = 0
    <3>1. r = q
      BY <2>7, <2>9
    <3>2. ~ k.meddled => s[i].left = 0 /\ s[i].losses = 0
      BY <2>1, <2>3, <2>4, <2>9
    <3>3. Gone(s, i - 1) \cup Kept(s, i - 1) \subseteq Gone(s, i) \cup Kept(s, i)
      BY <2>5, Zenon
    <3> QED BY <1>4, <2>5, <3>1, <3>2, <3>3, Zenon DEF r, x
  <2>10. x.left > 0 \/ x.left = 0
    BY <2>6
  <2> QED BY <2>8, <2>9, <2>10, Zenon
<1> HIDE DEF Report, Keep, Expire, n, s
<1>5. \E f : f = [i \in 0 .. n |-> IF i = 0 THEN k ELSE Report(f[i - 1], s[i])]
  <2> DEFINE S == {m \in 0 .. n :
                     \E f : f = [i \in 0 .. m |-> IF i = 0 THEN k ELSE Report(f[i - 1], s[i])]}
  <2>1. 0 \in S
    <3> DEFINE g == [i \in 0 .. 0 |-> k]
    <3>1. g = [i \in 0 .. 0 |-> IF i = 0 THEN k ELSE Report(g[i - 1], s[i])]
      OBVIOUS
    <3> HIDE DEF g
    <3> QED BY <1>0, <3>1
  <2>2. ASSUME NEW m \in 0 .. n - 1, m \in S
        PROVE  m + 1 \in S
    <3>1. PICK f : f = [i \in 0 .. m |-> IF i = 0 THEN k ELSE Report(f[i - 1], s[i])]
      BY <2>2, Zenon
    <3> DEFINE g == [i \in 0 .. m + 1 |-> IF i = m + 1 THEN Report(f[m], s[i]) ELSE f[i]]
    <3>2. \A i \in 0 .. m + 1 : g[i] = IF i = 0 THEN k ELSE Report(g[i - 1], s[i])
      BY <1>0, <3>1
    <3>3. g = [i \in 0 .. m + 1 |-> g[i]]
      BY Zenon
    <3> HIDE DEF g
    <3>4. g = [i \in 0 .. m + 1 |-> IF i = 0 THEN k ELSE Report(g[i - 1], s[i])]
      BY <3>2, <3>3, Zenon
    <3>5. m + 1 \in 0 .. n
      BY <1>0
    <3> QED BY <3>4, <3>5, Zenon
  <2> HIDE DEF S
  <2>3. n \in S
    BY <1>0, <2>1, <2>2, UpTo
  <2> QED BY <2>3, Zenon DEF S
<1>6. told = [i \in 0 .. n |-> IF i = 0 THEN k ELSE Report(told[i - 1], s[i])]
  BY <1>5, Zenon
<1>7. \E f : f = [i \in 0 .. n |-> IF i = 0 THEN << >> ELSE Keep(f[i - 1], Expire(s[i]))]
  <2> DEFINE S == {m \in 0 .. n :
                     \E f : f = [i \in 0 .. m |-> IF i = 0 THEN << >> ELSE Keep(f[i - 1], Expire(s[i]))]}
  <2>1. 0 \in S
    <3> DEFINE g == [i \in 0 .. 0 |-> << >>]
    <3>1. g = [i \in 0 .. 0 |-> IF i = 0 THEN << >> ELSE Keep(g[i - 1], Expire(s[i]))]
      OBVIOUS
    <3> HIDE DEF g
    <3> QED BY <1>0, <3>1
  <2>2. ASSUME NEW m \in 0 .. n - 1, m \in S
        PROVE  m + 1 \in S
    <3>1. PICK f : f = [i \in 0 .. m |-> IF i = 0 THEN << >> ELSE Keep(f[i - 1], Expire(s[i]))]
      BY <2>2, Zenon
    <3> DEFINE g == [i \in 0 .. m + 1 |-> IF i = m + 1 THEN Keep(f[m], Expire(s[i])) ELSE f[i]]
    <3>2. \A i \in 0 .. m + 1 : g[i] = IF i = 0 THEN << >> ELSE Keep(g[i - 1], Expire(s[i]))
      BY <1>0, <3>1
    <3>3. g = [i \in 0 .. m + 1 |-> g[i]]
      BY Zenon
    <3> HIDE DEF g
    <3>4. g = [i \in 0 .. m + 1 |-> IF i = 0 THEN << >> ELSE Keep(g[i - 1], Expire(s[i]))]
      BY <3>2, <3>3, Zenon
    <3>5. m + 1 \in 0 .. n
      BY <1>0
    <3> QED BY <3>4, <3>5, Zenon
  <2> HIDE DEF S
  <2>3. n \in S
    BY <1>0, <2>1, <2>2, UpTo
  <2> QED BY <2>3, Zenon DEF S
<1>8. kept = [i \in 0 .. n |-> IF i = 0 THEN << >> ELSE Keep(kept[i - 1], Expire(s[i]))]
  BY <1>7, Zenon
<1> HIDE DEF told, kept
<1> DEFINE ToldTo(d, i) ==
               /\ Typed(d) /\ d.infos = s /\ d.meddled = k.meddled
               /\ ~ k.meddled => d.known = Ids(s) \ Gone(s, i)
           KeptTo(q, i) ==
               /\ q \in Seq(Info) /\ Single(q) /\ Ids(q) \subseteq Gone(s, i) \cup Kept(s, i)
               /\ ~ k.meddled => Ids(q) = Kept(s, i) /\ Lasting(q)
           T == {i \in 0 .. n : ToldTo(told[i], i)}
           K == {i \in 0 .. n : KeptTo(kept[i], i)}
<1>9. n \in T
  <2>1. 0 \in T
    <3>1. told[0] = k /\ Gone(s, 0) = {}
      BY <1>2, <1>6, GoneOrKept
    <3>2. ~ k.meddled => k.known = Ids(s)
      BY Zenon DEF Agrees, s
    <3>3. ToldTo(told[0], 0)
      BY <1>2, <3>1, <3>2, Zenon DEF s
    <3> HIDE DEF ToldTo
    <3> QED BY <1>0, <3>3
  <2>2. ASSUME NEW i \in 0 .. n - 1, i \in T
        PROVE  i + 1 \in T
    <3>1. told[i + 1] = Report(told[i], s[i + 1]) /\ i + 1 \in 1 .. n /\ (i + 1) - 1 = i
      BY <1>0, <1>6
    <3>2. ToldTo(told[i], i)
      <4> HIDE DEF ToldTo
      <4> QED BY <2>2, Zenon
    <3>3. ToldTo(Report(told[i], s[i + 1]), i + 1)
      BY <1>3, <3>1, <3>2
    <3>4. i + 1 \in 0 .. n
      BY <1>0
    <3> HIDE DEF ToldTo
    <3> QED BY <3>1, <3>3, <3>4, Zenon
  <2> HIDE DEF T
  <2> QED BY <1>0, <2>1, <2>2, UpTo
<1>10. n \in K
  <2>1. 0 \in K
    <3>1. kept[0] = << >> /\ Kept(s, 0) = {}
      BY <1>2, <1>8, GoneOrKept
    <3>2. Single(<< >>) /\ Ids(<< >>) = {} /\ Lasting(<< >>) /\ << >> \in Seq(Info)
      BY DEF Single, Ids, Lasting
    <3>3. KeptTo(kept[0], 0)
      BY <3>1, <3>2, Zenon
    <3> HIDE DEF KeptTo
    <3> QED BY <1>0, <3>3
  <2>2. ASSUME NEW i \in 0 .. n - 1, i \in K
        PROVE  i + 1 \in K
    <3>1. kept[i + 1] = Keep(kept[i], Expire(s[i + 1])) /\ i + 1 \in 1 .. n /\ (i + 1) - 1 = i
      BY <1>0, <1>8
    <3>2. KeptTo(kept[i], i)
      <4> HIDE DEF KeptTo
      <4> QED BY <2>2, Zenon
    <3>3. KeptTo(Keep(kept[i], Expire(s[i + 1])), i + 1)
      BY <1>4, <3>1, <3>2, Zenon
    <3>4. i + 1 \in 0 .. n
      BY <1>0
    <3> HIDE DEF KeptTo
    <3> QED BY <3>1, <3>3, <3>4, Zenon
  <2> HIDE DEF K
  <2> QED BY <1>0, <2>1, <2>2, UpTo
<1> DEFINE r == [told[n] EXCEPT !.infos = kept[n]]
<1>15. ToldTo(told[n], n) /\ KeptTo(kept[n], n)
  <2> HIDE DEF ToldTo, KeptTo
  <2> QED BY <1>9, <1>10, Zenon
<1> HIDE DEF T, K
<1>11. Typed(r) /\ r.infos = kept[n] /\ r.known = told[n].known /\ r.meddled = k.meddled
  BY <1>15, Zenon DEF Typed, Field
<1> HIDE DEF r
<1>12. Ids(s) \ Gone(s, n) = Kept(s, n)
  BY <1>2, GoneOrKept, Zenon DEF n
<1>13. Agrees(r)
  BY <1>11, <1>12, <1>15, Zenon DEF Agrees, Listed
<1>14. Alike(MonitorGatewayExpiry(r), r)
  BY <1>13, MonitorAlike, Zenon DEF Agrees
<1> QED BY <1>1, <1>13, <1>14, AlikeAgrees, Zenon DEF r

LEMMA ClientTickAgrees ==
    ASSUME NEW k, Agrees(k)
    PROVE  Agrees(ClientTick(k))
<1> DEFINE Timeout(d, t) ==
               CASE t = "gwDiscovery" -> GwExpiryTimeout(d)
                 [] t = "sendGwinfo" -> SendGwinfo(d)
                 [] t = "search" -> SearchTimeout(d)
           Aged(info) == [info EXCEPT !.left = IF @ > 0 THEN @ - 1 ELSE 0]
           aged == [i \in DOMAIN k.infos |-> Aged(k.infos[i])]
           later == [k EXCEPT !.timers = Stopped(@, 1), !.infos = [i \in DOMAIN @ |-> Aged(@[i])]]
           Serve(d, i) == IF i \in Due(k.timers, 1) THEN Timeout(d, k.timers[i].owner) ELSE d
           n == Len(k.timers)
           after[i \in 0 .. n] == IF i = 0 THEN later ELSE Serve(after[i - 1], i)
<1>1. ClientTick(k) = after[n]
  BY Zenon DEF ClientTick
<1>2. n \in Nat /\ DOMAIN k.timers = 1 .. n
  BY DEF Agrees, Typed, Table
<1>3. Agrees(later)
  <2>1. Table(Stopped(k.timers, 1))
    <3>1. "search" \in Owner
      BY Zenon DEF Owner
    <3> QED BY <3>1, TableOps, Zenon DEF Agrees, Typed
  <2>2. /\ Typed(later) /\ later.infos = aged /\ later.known = k.known /\ later.meddled = k.meddled
    <3>0. DOMAIN k = Field /\ k.meddled \in BOOLEAN
      BY Zenon DEF Agrees, Typed
    <3>1. DOMAIN later = Field
      BY <3>0, Zenon
    <3>2. later.timers = Stopped(k.timers, 1)
      BY <3>0, Zenon DEF Field
    <3>3. later.infos = aged
      BY <3>0, Zenon DEF Field
    <3>4. later.known = k.known /\ later.meddled = k.meddled
      BY <3>0, Zenon DEF Field
    <3> QED BY <2>1, <3>0, <3>1, <3>2, <3>3, <3>4, Zenon DEF Typed
  <2>3. /\ DOMAIN aged = DOMAIN k.infos /\ aged \in Seq(Info)
        /\ \A i \in DOMAIN k.infos : aged[i].gwId = k.infos[i].gwId /\ aged[i].duration = k.infos[i].duration
    <3>1. k.infos \in Seq(Info)
      BY Zenon DEF Agrees, Listed
    <3>2. ASSUME NEW x \in Info
          PROVE  Aged(x) \in Info /\ Aged(x).gwId = x.gwId /\ Aged(x).duration = x.duration
      BY <3>2 DEF Info
    <3>3. aged = [i \in DOMAIN k.infos |-> Aged(k.infos[i])]
      BY Zenon
    <3> HIDE DEF Aged, aged
    <3> QED BY <3>1, <3>2, <3>3
  <2> HIDE DEF aged, later
  <2>4. Single(aged) /\ Ids(aged) = Ids(k.infos)
    BY <2>3, SameIds, Zenon DEF Agrees, Listed
  <2>5. Lasting(k.infos) => Lasting(aged)
    BY <2>3, Zenon DEF Lasting
  <2> QED BY <2>2, <2>3, <2>4, <2>5, Zenon DEF Agrees, Listed
<1>4. ASSUME NEW d, Agrees(d), NEW i \in 1 .. n
      PROVE  Agrees(Serve(d, i))
  <2>1. CASE i \in Due(k.timers, 1)
    <3>1. k.timers[i].owner \in Owner
      BY <1>2, <2>1 DEF Due, Agrees, Typed, Table
    <3>2. Timeout(d, k.timers[i].owner) \in {GwExpiryTimeout(d), SendGwinfo(d), SearchTimeout(d)}
      BY <3>1, Zenon DEF Owner
    <3>3. Agrees(GwExpiryTimeout(d))
      BY <1>4, GwExpiryTimeoutAgrees, Zenon
    <3>4. Agrees(SendGwinfo(d)) /\ Agrees(SearchTimeout(d))
      BY <1>4, SendGwinfoAlike, SearchAlike, AlikeAgrees, Zenon DEF Agrees
    <3> QED BY <2>1, <3>2, <3>3, <3>4, Zenon
  <2>2. CASE i \notin Due(k.timers, 1)
    BY <1>4, <2>2, Zenon
  <2> QED BY <2>1, <2>2, Zenon
<1>0. n \in Nat
  BY <1>2, Zenon
<1> HIDE DEF n, Serve, later
<1>5. \E f : f = [i \in 0 .. n |-> IF i = 0 THEN later ELSE Serve(f[i - 1], i)]
  <2> DEFINE S == {m \in 0 .. n :
                     \E f : f = [i \in 0 .. m |-> IF i = 0 THEN later ELSE Serve(f[i - 1], i)]}
  <2>1. 0 \in S
    <3> DEFINE g == [i \in 0 .. 0 |-> later]
    <3>1. g = [i \in 0 .. 0 |-> IF i = 0 THEN later ELSE Serve(g[i - 1], i)]
      OBVIOUS
    <3> HIDE DEF g
    <3> QED BY <1>0, <3>1
  <2>2. ASSUME NEW m \in 0 .. n - 1, m \in S
        PROVE  m + 1 \in S
    <3>1. PICK f : f = [i \in 0 .. m |-> IF i = 0 THEN later ELSE Serve(f[i - 1], i)]
      BY <2>2, Zenon
    <3> DEFINE g == [i \in 0 .. m + 1 |-> IF i = m + 1 THEN Serve(f[m], i) ELSE f[i]]
    <3>2. \A i \in 0 .. m + 1 : g[i] = IF i = 0 THEN later ELSE Serve(g[i - 1], i)
      BY <1>0, <3>1
    <3>3. g = [i \in 0 .. m + 1 |-> g[i]]
      BY Zenon
    <3> HIDE DEF g
    <3>4. g = [i \in 0 .. m + 1 |-> IF i = 0 THEN later ELSE Serve(g[i - 1], i)]
      BY <3>2, <3>3, Zenon
    <3>5. m + 1 \in 0 .. n
      BY <1>0
    <3> QED BY <3>4, <3>5, Zenon
  <2> HIDE DEF S
  <2>3. n \in S
    BY <1>0, <2>1, <2>2, UpTo
  <2> QED BY <2>3, Zenon DEF S
<1>6. after = [i \in 0 .. n |-> IF i = 0 THEN later ELSE Serve(after[i - 1], i)]
  BY <1>5, Zenon
<1> HIDE DEF after
<1> DEFINE S == {i \in 0 .. n : Agrees(after[i])}
<1>7. 0 \in S
  BY <1>0, <1>3, <1>6
<1>8. ASSUME NEW i \in 0 .. n - 1, i \in S
      PROVE  i + 1 \in S
  <2>1. after[i + 1] = Serve(after[i], i + 1) /\ i + 1 \in 1 .. n
    BY <1>0, <1>6
  <2> QED BY <1>0, <1>4, <1>8, <2>1
<1> HIDE DEF S
<1>9. n \in S
  BY <1>0, <1>7, <1>8, UpTo
<1> QED BY <1>1, <1>9, Zenon DEF S

-----------------------------------------------------------------------------
(* The steps. *)

LEMMA ClientStepAgrees ==
    ASSUME NEW k, Agrees(k), ClientStep(k)
    PROVE  Agrees(c')
BY Zenon DEF ClientStep, Agrees, Typed, Listed, Field

LEMMA AgreeInvNext ==
    ASSUME AgreeInv, [Next]_vars
    PROVE  AgreeInv'
<1>0. Agrees(c) /\ Typed(c) /\ Listed(c) /\ air \subseteq Message
  BY Zenon DEF AgreeInv, Agrees
<1>1. ASSUME NEW g \in GwId, GwStart(g) \/ GwStop(g) \/ GwTick(g) \/ GwSearchgw(g)
      PROVE  AgreeInv'
  <2>1. c' = c
    BY <1>1, Zenon DEF GwStart, GwStop, GwTick, GwSearchgw
  <2>2. air' \subseteq air \cup {Broadcast("ADVERTISE", g), Broadcast("GWINFO", g)}
    BY <1>1, Zenon DEF GwStart, GwStop, GwTick, GwSearchgw, SendAndReprogram
  <2>3. air' \subseteq Message
    BY <1>0, <2>2 DEF Broadcast, Message
  <2> QED BY <1>0, <2>1, <2>3, Zenon DEF AgreeInv
<1>2. ASSUME NEW m \in air, Receive(m) PROVE AgreeInv'
  <2>1. PICK k : ClientStep(k) /\ k \in {HandleAdvertise(c, m.gwId), HandleGwinfo(c, m.gwId, NoAddr)}
    BY <1>0, <1>2, Zenon DEF Receive, Message
  <2>2. Agrees(HandleAdvertise(c, m.gwId)) /\ Agrees(HandleGwinfo(c, m.gwId, NoAddr))
    <3>1. m.gwId \in GwId
      BY <1>0, Zenon DEF Message
    <3> QED BY <1>0, <3>1, HandleAdvertiseAgrees, HandleGwinfoAgrees, Zenon
  <2>3. Agrees(c')
    BY <2>1, <2>2, ClientStepAgrees, Zenon
  <2>4. air' \subseteq air
    BY <1>2, Zenon DEF Receive
  <2> QED BY <1>0, <2>3, <2>4, Zenon DEF AgreeInv
<1>3. ASSUME NEW k, Agrees(k), PeerStep(k) \/ Call(k) PROVE AgreeInv'
  <2>1. Agrees(c') /\ air' = air
    BY <1>3, ClientStepAgrees, Zenon DEF PeerStep, Call
  <2> QED BY <1>0, <2>1, Zenon DEF AgreeInv
<1>4. CASE PeerSearchgw
  BY <1>0, <1>3, <1>4, HandleSearchgwAlike, AlikeAgrees, Zenon DEF PeerSearchgw
<1>5. CASE PeerGwinfo
  BY <1>0, <1>3, <1>5, HandleGwinfoAgrees, Zenon DEF PeerGwinfo
<1>6. CASE Search
  <2>1. Alike(SearchPrepare(c), c)
    BY <1>0, SearchAlike, Zenon
  <2>2. Alike(SearchSend(SearchPrepare(c)), SearchPrepare(c))
    BY <2>1, SearchAlike, Zenon DEF SearchSend, Alike
  <2>3. Agrees(SearchSend(SearchPrepare(c)))
    BY <1>0, <2>1, <2>2, AlikeTwice, AlikeAgrees, Zenon
  <2> QED BY <1>3, <1>6, <2>3, Zenon DEF Search
<1>7. CASE SearchCancel
  BY <1>0, <1>3, <1>7, SearchAlike, AlikeAgrees, Zenon DEF SearchCancel
<1>8. ASSUME NEW g \in GwId, SetAddress(g) PROVE AgreeInv'
  <2> DEFINE a == SetAvailableGatewayInfo(c, g, "own")
             k == [a EXCEPT !.meddled = @ \/ ~ Stored(c, g)]
  <2>1. /\ Typed(a) /\ Listed(a) /\ a.known = c.known /\ a.meddled = c.meddled
        /\ Stored(c, g) => Ids(a.infos) = Ids(c.infos) /\ (Lasting(c.infos) => Lasting(a.infos))
    BY <1>0, SetAvailableIs, Zenon
  <2>2. Call(k)
    BY <1>8, Zenon DEF SetAddress
  <2> HIDE DEF a
  <2>3. /\ Typed(k) /\ k.infos = a.infos /\ k.known = a.known
        /\ k.meddled <=> c.meddled \/ ~ Stored(c, g)
    BY <1>0, <2>1, Zenon DEF Typed, Field
  <2> HIDE DEF k
  <2>4. Agrees(k)
    BY <1>0, <2>1, <2>3, Zenon DEF Agrees, Listed
  <2> QED BY <1>3, <2>2, <2>4, Zenon
<1>9. ASSUME NEW g \in GwId, Discard(g) PROVE AgreeInv'
  <2> DEFINE a == DiscardAvailableGatewayInfo(c, g)
             k == [a EXCEPT !.known = @ \ {g}, !.meddled = TRUE]
  <2>1. Typed(a) /\ Listed(a)
    <3>1. CASE c.infos = << >>
      BY <1>0, <3>1, Zenon DEF DiscardAvailableGatewayInfo
    <3>2. CASE c.infos # << >>
      <4> DEFINE s == c.infos
                 t == Tail(s)
      <4>1. a = [c EXCEPT !.infos = t]
        BY <3>2, Zenon DEF DiscardAvailableGatewayInfo
      <4>2. Typed(a) /\ a.infos = t
        BY <1>0, <4>1, Zenon DEF Typed, Field
      <4>3. s \in Seq(Info) /\ Single(s) /\ s # << >>
        BY <1>0, <3>2, Zenon DEF Listed
      <4> HIDE DEF s
      <4>4. t \in Seq(Info) /\ DOMAIN t = 1 .. Len(s) - 1 /\ \A i \in DOMAIN t : t[i] = s[i + 1] /\ i + 1 \in DOMAIN s
        BY <4>3
      <4> HIDE DEF t
      <4>5. Single(t)
        BY <4>3, <4>4 DEF Single
      <4> QED BY <4>2, <4>4, <4>5, Zenon DEF Listed
    <3> QED BY <3>1, <3>2, Zenon
  <2>2. Call(k)
    BY <1>9, Zenon DEF Discard
  <2> HIDE DEF a
  <2>3. Typed(k) /\ k.infos = a.infos /\ k.meddled
    BY <2>1, Zenon DEF Typed, Field
  <2> HIDE DEF k
  <2>4. Agrees(k)
    BY <2>1, <2>3, Zenon DEF Agrees, Listed
  <2> QED BY <1>3, <2>2, <2>4, Zenon
<1>10. CASE DiscardAll
  <2> DEFINE k == [c EXCEPT !.infos = << >>, !.known = {}]
  <2>1. Typed(k) /\ k.infos = << >> /\ k.known = {}
    BY <1>0, Zenon DEF Typed, Field
  <2>2. << >> \in Seq(Info) /\ Single(<< >>) /\ Lasting(<< >>) /\ Ids(<< >>) = {}
    BY DEF Single, Lasting, Ids
  <2>3. Call(k)
    BY <1>10, Zenon DEF DiscardAll
  <2> HIDE DEF k
  <2>4. Agrees(k)
    BY <2>1, <2>2, Zenon DEF Agrees, Listed
  <2> QED BY <1>3, <2>3, <2>4, Zenon
<1>11. CASE Elapse
  <2>1. Agrees(c')
    BY <1>0, <1>11, ClientTickAgrees, ClientStepAgrees, Zenon DEF Elapse
  <2>2. air' \subseteq Message
    BY <1>0, <1>11, Zenon DEF Elapse, Message
  <2> QED BY <2>1, <2>2, Zenon DEF AgreeInv
<1>12. CASE Lose
  <2>1. c' = c /\ air' \subseteq air
    BY <1>12, Zenon DEF Lose
  <2> QED BY <1>0, <2>1, Zenon DEF AgreeInv
<1>13. CASE UNCHANGED vars
  BY <1>0, <1>13, Zenon DEF vars, AgreeInv
<1> QED BY <1>1, <1>2, <1>4, <1>5, <1>6, <1>7, <1>8, <1>9, <1>10, <1>11, <1>12, <1>13, Zenon DEF Next

LEMMA AgreeInvInit == Init => AgreeInv
<1> SUFFICES ASSUME Init PROVE Agrees(c) /\ air = {}
  BY Zenon DEF AgreeInv
<1>1. PICK limit \in Limits : c = InitClient(limit)
  BY Zenon DEF Init
<1>2. Table(NoTimers(3))
  BY Zenon DEF Table, NoTimers, Unallocated
<1>3. Table(AllocTimer(AllocTimer(NoTimers(3), "gwDiscovery"), "sendGwinfo"))
  <2>1. "gwDiscovery" \in Owner /\ "sendGwinfo" \in Owner
    BY Zenon DEF Owner
  <2> QED BY <1>2, <2>1, TableOps, Zenon
<1>4. Typed(c) /\ c.infos = << >> /\ c.known = {}
  BY <1>1, <1>3, Zenon DEF InitClient, Typed, Field
<1>5. << >> \in Seq(Info) /\ Single(<< >>) /\ Lasting(<< >>) /\ Ids(<< >>) = {}
  BY DEF Single, Lasting, Ids
<1> QED BY <1>4, <1>5, Zenon DEF Agrees, Listed, Init

LEMMA AgreeInvHolds == Spec => []AgreeInv
<1>1. AgreeInv /\ [Next]_vars => AgreeInv'
  BY AgreeInvNext, Zenon
<1> QED BY <1>1, AgreeInvInit, PTL DEF Spec

\* What the application was told by reportGwStatus and what is in m_gwInfos agree, for
\* any gateways, periods, limits and allowed losses, whatever is lost and in which
\* order broadcasts, searches and expiries come.
THEOREM ToldAgreesHolds == Spec => []ToldAgrees
<1>1. AgreeInv => ToldAgrees
  <2> SUFFICES ASSUME AgreeInv, ~ c.meddled, NEW g \in GwId
               PROVE  g \in c.known <=> Stored(c, g)
    BY Zenon DEF ToldAgrees
  <2>1. c.infos \in Seq(Info) /\ c.known = Ids(c.infos)
    BY Zenon DEF AgreeInv, Agrees, Listed
  <2> QED BY <2>1, FoundIs
<1> QED BY <1>1, AgreeInvHolds, PTL

\* A gateway is in m_gwInfos at most once, also after the application has changed the
\* list: the searches of it by id find the only entry.
THEOREM StoredOnceHolds ==
    Spec => [](\A i, j \in DOMAIN c.infos : c.infos[i].gwId = c.infos[j].gwId => i = j)
<1>1. AgreeInv => \A i, j \in DOMAIN c.infos : c.infos[i].gwId = c.infos[j].gwId => i = j
  BY Zenon DEF AgreeInv, Agrees, Listed, Single
<1> QED BY <1>1, AgreeInvHolds, PTL
=============================================================================
