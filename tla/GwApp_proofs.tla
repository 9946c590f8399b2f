---------------------------- MODULE GwApp_proofs -----------------------------
(***************************************************************************)
(* Proofs about the gateway program: that two sessions never serve the     *)
(* same client id, that the acceptor's map of endpoints and the sessions   *)
(* agree, and that a session which asked for its end gets it, for any sets *)
(* of endpoints, client ids and nodes and any number of sessions.          *)
(*                                                                         *)
(* The handlers are operators on the state of the program, so most lemmas  *)
(* say that an operator keeps Good, the inductive invariant.               *)
(***************************************************************************)
EXTENDS GwApp, SequenceTheorems, WellFoundedInduction, TLAPS

Kinds == {"started", "connected", "term", "fwdDeleted", "erase", "call", "error", "reconnect",
          "datagram"}

SessionType ==
    [live : BOOLEAN, lib : BOOLEAN, made : BOOLEAN, parent : SessId \cup {None},
     at : Endpoint \cup Node \cup {None}, clientId : ClientId \cup {None}, started : BOOLEAN,
     terminating : BOOLEAN, brokerConnected : BOOLEAN, libConnected : BOOLEAN,
     hadBrokerData : BOOLEAN, reconnectTimer : BOOLEAN]

HandlerType == [kind : Kinds, s : SessId \cup Endpoint]

StateType ==
    [s : [SessId -> SessionType], clients : [Endpoint -> SessId \cup {None}],
     ready : Seq(HandlerType), stale : BOOLEAN]

Waiting(h) == {h.ready[i] : i \in DOMAIN h.ready}

\* A session that is encapsulated belongs to one that is not, and goes with it.
Linked(h, u) ==
    /\ h.s[u].live \/ h.s[u].parent # None => h.s[u].made
    /\ h.s[u].made /\ h.s[u].parent = None => h.s[u].at \in Endpoint
    /\ h.s[u].parent # None => h.s[h.s[u].parent].made /\ h.s[h.s[u].parent].parent = None
    /\ h.s[u].live /\ h.s[u].parent # None => h.s[h.s[u].parent].live

\* A handler names a session that was made, of the kind it is for.
Named(h, m) ==
    /\ m \in HandlerType
    /\ m.kind = "datagram" => m.s \in Endpoint
    /\ m.kind # "datagram" => m.s \in SessId /\ h.s[m.s].made
    /\ m.kind \in {"started", "term"} => h.s[m.s].parent = None
    /\ m.kind \in {"fwdDeleted", "erase"} => h.s[m.s].parent # None

AtMostOne(h) ==
    \A s, t \in Sessions(h) :
        h.s[s].clientId \in ClientId \ {Empty} /\ h.s[s].clientId = h.s[t].clientId => s = t

Known(h) ==
    /\ \A e \in Endpoint : h.clients[e] # None =>
          h.clients[e] \in Sessions(h) /\ h.s[h.clients[e]].at = e
    /\ \A s \in Sessions(h) : h.clients[h.s[s].at] = s

Sound(h) ==
    /\ h \in StateType
    /\ \A u \in SessId : Linked(h, u)
    /\ \A m \in Waiting(h) : Named(h, m)
    /\ Known(h)

\* The handler that ends s.
Ender(h, s) == Handler(IF h.s[s].parent = None THEN "term" ELSE "fwdDeleted", s)
EndWaits(h, s) == h.s[s].live /\ h.s[s].terminating => Ender(h, s) \in Waiting(h)

Kept(h) == Sound(h) /\ AtMostOne(h) /\ \A s \in SessId : EndWaits(h, s)

\* The handler that ends s may just have been taken.
KeptBut(h, s) == Sound(h) /\ AtMostOne(h) /\ \A u \in SessId : u # s => EndWaits(h, u)

\* An object was used that is gone: there are no sessions any more.
Broken(h) ==
    /\ h \in StateType /\ h.stale
    /\ (\A s \in SessId : ~ h.s[s].live) /\ (\A e \in Endpoint : h.clients[e] = None)

Good(h) == Kept(h) \/ Broken(h)

\* What the invariant looks at in a session.
SameFace(x, y) ==
    /\ x.live = y.live /\ x.made = y.made /\ x.parent = y.parent /\ x.at = y.at
    /\ x.clientId = y.clientId

-----------------------------------------------------------------------------
(* Lemmas about sets, sequences and single members. *)

\* The first of a set of sessions is one of them.
LEMMA MinIsMember ==
    ASSUME NEW S \in SUBSET SessId, S # {}
    PROVE  Min(S) \in S /\ \A y \in S : Min(S) <= y
<1>0. S \in SUBSET Nat
  BY GwAppAssumption DEF SessId
<1>1. PICK x \in S : \A y \in S : ~ (<<y, x>> \in OpToRel(<, Nat))
  BY <1>0, NatLessThanWellFounded, WFMin, Zenon
<1>2. ASSUME NEW y \in S PROVE x <= y
  <2>1. y < x => <<y, x>> \in OpToRel(<, Nat)
    <3>1. <<y, x>> \in Nat \X Nat
      BY <1>0, Zenon
    <3>2. <<y, x>>[1] = y /\ <<y, x>>[2] = x
      BY Zenon
    <3> QED BY <3>1, <3>2, Zenon DEF OpToRel
  <2>2. ~ (y < x)
    BY <1>1, <2>1, Zenon
  <2> QED BY <1>0, <2>2
<1> QED BY <1>2, Zenon DEF Min

\* None is not a session, and no client id.
LEMMA NoneIsNone == None \notin SessId /\ None \notin ClientId
BY GwAppAssumption DEF SessId, None

LEMMA StateFields ==
    ASSUME NEW h \in StateType
    PROVE  /\ h.s \in [SessId -> SessionType] /\ h.clients \in [Endpoint -> SessId \cup {None}]
           /\ h.ready \in Seq(HandlerType) /\ h.stale \in BOOLEAN
           /\ \A u \in SessId : h.s[u] \in SessionType
BY Zenon DEF StateType

\* Handlers are put behind the waiting ones.
LEMMA PostFields ==
    ASSUME NEW h \in StateType, NEW kind \in Kinds, NEW s \in SessId \cup Endpoint
    PROVE  LET k == Post(h, kind, s) IN
           /\ k \in StateType /\ k.s = h.s /\ k.clients = h.clients /\ k.stale = h.stale
           /\ Waiting(k) = Waiting(h) \cup {Handler(kind, s)}
<1> DEFINE m == Handler(kind, s)
           k == Post(h, kind, s)
<1>1. m \in HandlerType
  BY Zenon DEF Handler, HandlerType
<1> HIDE DEF m
<1>2. /\ Append(h.ready, m) \in Seq(HandlerType) /\ Len(Append(h.ready, m)) = Len(h.ready) + 1
      /\ \A i \in 1 .. Len(h.ready) : Append(h.ready, m)[i] = h.ready[i]
      /\ Append(h.ready, m)[Len(h.ready) + 1] = m
  BY <1>1, StateFields, AppendProperties
<1>3. k = [h EXCEPT !.ready = Append(h.ready, m)]
  BY Zenon DEF Post, m
<1>4. /\ k \in StateType /\ k.s = h.s /\ k.clients = h.clients /\ k.stale = h.stale
      /\ k.ready = Append(h.ready, m)
  BY <1>2, <1>3, Zenon DEF StateType
<1>5. Waiting(k) = Waiting(h) \cup {m}
  <2>1. DOMAIN k.ready = 1 .. Len(h.ready) + 1 /\ DOMAIN h.ready = 1 .. Len(h.ready) /\ Len(h.ready) \in Nat
    BY <1>2, <1>4, StateFields, LenProperties, Zenon
  <2>2. \A i \in 1 .. Len(h.ready) + 1 : i \in 1 .. Len(h.ready) \/ i = Len(h.ready) + 1
    BY <2>1
  <2>3. \A i \in 1 .. Len(h.ready) : i \in 1 .. Len(h.ready) + 1
    BY <2>1
  <2>4. Len(h.ready) + 1 \in 1 .. Len(h.ready) + 1
    BY <2>1
  <2> QED BY <1>2, <1>4, <2>1, <2>2, <2>3, <2>4, ZenonT(30) DEF Waiting
<1> QED BY <1>4, <1>5, Zenon DEF m

\* The loop takes the first handler.
LEMMA TakeFields ==
    ASSUME NEW h \in StateType, h.ready # << >>
    PROVE  LET k == [h EXCEPT !.ready = Tail(@)] IN
           /\ k \in StateType /\ k.s = h.s /\ k.clients = h.clients /\ k.stale = h.stale
           /\ Head(h.ready) \in HandlerType
           /\ Waiting(h) = Waiting(k) \cup {Head(h.ready)}
<1> DEFINE k == [h EXCEPT !.ready = Tail(@)]
<1>1. /\ Head(h.ready) \in HandlerType /\ Tail(h.ready) \in Seq(HandlerType)
      /\ Len(Tail(h.ready)) = Len(h.ready) - 1
      /\ \A i \in 1 .. Len(Tail(h.ready)) : Tail(h.ready)[i] = h.ready[i + 1]
  BY StateFields, HeadTailProperties, Zenon
<1>2. /\ k \in StateType /\ k.s = h.s /\ k.clients = h.clients /\ k.stale = h.stale
      /\ k.ready = Tail(h.ready)
  BY <1>1, Zenon DEF StateType
<1>3. Waiting(h) = Waiting(k) \cup {Head(h.ready)}
  <2>1. /\ DOMAIN h.ready = 1 .. Len(h.ready) /\ DOMAIN k.ready = 1 .. Len(h.ready) - 1
        /\ Len(h.ready) \in Nat /\ Len(h.ready) # 0 /\ Head(h.ready) = h.ready[1]
    BY <1>1, <1>2, StateFields, LenProperties, EmptySeq
  <2>2. \A i \in 1 .. Len(h.ready) : i = 1 \/ (i - 1 \in 1 .. Len(h.ready) - 1 /\ i = (i - 1) + 1)
    BY <2>1
  <2>3. \A i \in 1 .. Len(h.ready) - 1 : i + 1 \in 1 .. Len(h.ready)
    BY <2>1
  <2>4. 1 \in 1 .. Len(h.ready)
    BY <2>1
  <2>5. \A i \in 1 .. Len(h.ready) - 1 : k.ready[i] = h.ready[i + 1]
    BY <1>1, <1>2, Zenon
  <2>6. ASSUME NEW m \in Waiting(h)
        PROVE  m \in Waiting(k) \cup {Head(h.ready)}
    <3>1. PICK i \in 1 .. Len(h.ready) : m = h.ready[i]
      BY <2>1, <2>6, Zenon DEF Waiting
    <3>2. CASE i = 1
      BY <2>1, <3>1, <3>2, Zenon
    <3>3. CASE i # 1
      <4>1. i - 1 \in 1 .. Len(h.ready) - 1 /\ k.ready[i - 1] = m
        BY <2>2, <2>5, <3>1, <3>3, Zenon
      <4> QED BY <2>1, <4>1, Zenon DEF Waiting
    <3> QED BY <3>2, <3>3, Zenon
  <2>7. ASSUME NEW m \in Waiting(k)
        PROVE  m \in Waiting(h)
    <3>1. PICK i \in 1 .. Len(h.ready) - 1 : m = k.ready[i]
      BY <2>1, <2>7, Zenon DEF Waiting
    <3> QED BY <2>1, <2>3, <2>5, <3>1, Zenon DEF Waiting
  <2>8. Head(h.ready) \in Waiting(h)
    BY <2>1, <2>4, Zenon DEF Waiting
  <2> QED BY <2>6, <2>7, <2>8, Zenon
<1> QED BY <1>1, <1>2, <1>3, Zenon

-----------------------------------------------------------------------------
(* What keeps the invariant. *)

\* A session stays linked if it and its parent keep what says so.
LEMMA LinkedKept ==
    ASSUME NEW h, NEW k, NEW u, Linked(h, u), k.s[u].made = h.s[u].made,
           k.s[u].parent = h.s[u].parent, k.s[u].at = h.s[u].at, k.s[u].live => h.s[u].live,
           h.s[u].parent # None => /\ k.s[h.s[u].parent].made = h.s[h.s[u].parent].made
                                   /\ k.s[h.s[u].parent].parent = h.s[h.s[u].parent].parent
                                   /\ (h.s[h.s[u].parent].live => k.s[h.s[u].parent].live)
    PROVE  Linked(k, u)
BY Zenon DEF Linked

\* A change of members the invariant does not look at, and more handlers.
LEMMA KeptBySoftStep ==
    ASSUME NEW h, NEW k, Kept(h), k \in StateType, k.clients = h.clients,
           \A u \in SessId : SameFace(k.s[u], h.s[u]),
           \A u \in SessId : k.s[u].terminating =>
                               h.s[u].terminating \/ Ender(h, u) \in Waiting(k),
           Waiting(h) \subseteq Waiting(k), \A m \in Waiting(k) : m \in Waiting(h) \/ Named(h, m)
    PROVE  Kept(k)
<1>0. /\ h \in StateType /\ \A u \in SessId : Linked(h, u) /\ EndWaits(h, u)
      /\ \A m \in Waiting(h) : Named(h, m)
      /\ AtMostOne(h) /\ Known(h)
  BY Zenon DEF Kept, Sound
<1>1. \A u \in SessId : /\ k.s[u].live = h.s[u].live /\ k.s[u].made = h.s[u].made
                        /\ k.s[u].parent = h.s[u].parent /\ k.s[u].at = h.s[u].at
                        /\ k.s[u].clientId = h.s[u].clientId
                        /\ h.s[u].parent \in SessId \cup {None}
  BY <1>0, StateFields, Zenon DEF SameFace, SessionType
<1>2. Sessions(k) = Sessions(h)
  BY <1>1, Zenon DEF Sessions
<1>3. ASSUME NEW u \in SessId PROVE Linked(k, u)
  <2>1. h.s[u].parent # None => /\ k.s[h.s[u].parent].made = h.s[h.s[u].parent].made
                                /\ k.s[h.s[u].parent].parent = h.s[h.s[u].parent].parent
                                /\ (h.s[h.s[u].parent].live => k.s[h.s[u].parent].live)
    <3> SUFFICES ASSUME NEW p \in SessId
                 PROVE  /\ k.s[p].made = h.s[p].made /\ k.s[p].parent = h.s[p].parent
                        /\ (h.s[p].live => k.s[p].live)
      BY <1>1, Zenon
    <3> QED BY <1>1, Zenon
  <2>2. /\ Linked(h, u) /\ k.s[u].made = h.s[u].made /\ k.s[u].parent = h.s[u].parent
        /\ k.s[u].at = h.s[u].at /\ (k.s[u].live => h.s[u].live)
    BY <1>0, <1>1, Zenon
  <2> QED BY <2>1, <2>2, LinkedKept, Zenon
<1>4. ASSUME NEW m \in Waiting(k) PROVE Named(k, m)
  <2>1. Named(h, m)
    BY <1>0, Zenon
  <2>2. m.kind \in {"started", "term", "fwdDeleted", "erase"} => m.kind # "datagram"
    BY Zenon
  <2> QED BY <1>1, <2>1, <2>2, Zenon DEF Named
<1>5. AtMostOne(k)
  <2>1. \A s \in Sessions(h) : s \in SessId
    BY Zenon DEF Sessions
  <2> QED BY <1>0, <1>1, <1>2, <2>1, Zenon DEF AtMostOne
<1>6. Known(k)
  <2>1. \A s \in Sessions(h) : s \in SessId
    BY Zenon DEF Sessions
  <2> QED BY <1>0, <1>1, <1>2, <2>1 DEF Known
<1>7. ASSUME NEW u \in SessId PROVE EndWaits(k, u)
  BY <1>0, <1>1, Zenon DEF EndWaits, Ender
<1> QED BY <1>3, <1>4, <1>5, <1>6, <1>7, Zenon DEF Kept, Sound

\* Session s is x now.
With(h, s, x) == [h EXCEPT !.s[s] = x]

LEMMA WithFields ==
    ASSUME NEW h \in StateType, NEW s \in SessId, NEW x \in SessionType
    PROVE  LET k == With(h, s, x) IN
           /\ k \in StateType /\ k.clients = h.clients /\ k.ready = h.ready /\ k.stale = h.stale
           /\ k.s[s] = x /\ (\A u \in SessId : u # s => k.s[u] = h.s[u]) /\ Waiting(k) = Waiting(h)
BY Zenon DEF With, StateType, Waiting

\* A session changes in members the invariant does not look at.
LEMMA KeptByWith ==
    ASSUME NEW h, Kept(h), NEW s \in SessId, NEW x \in SessionType, SameFace(x, h.s[s]),
           x.terminating => h.s[s].terminating
    PROVE  Kept(With(h, s, x))
<1> DEFINE k == With(h, s, x)
<1>1. h \in StateType
  BY Zenon DEF Kept, Sound
<1>2. /\ k \in StateType /\ k.clients = h.clients /\ k.s[s] = x
      /\ (\A u \in SessId : u # s => k.s[u] = h.s[u]) /\ Waiting(k) = Waiting(h)
  BY <1>1, WithFields
<1> HIDE DEF k
<1>3. \A u \in SessId : SameFace(k.s[u], h.s[u]) /\ (k.s[u].terminating => h.s[u].terminating)
  BY <1>2, Zenon DEF SameFace
<1>4. Kept(k)
  BY <1>2, <1>3, KeptBySoftStep, Zenon
<1> QED BY <1>4, Zenon DEF k

\* A handler is posted.
LEMMA KeptByPost ==
    ASSUME NEW h, Kept(h), NEW kind \in Kinds, NEW s \in SessId \cup Endpoint,
           Named(h, Handler(kind, s))
    PROVE  Kept(Post(h, kind, s))
<1> DEFINE k == Post(h, kind, s)
<1>1. h \in StateType
  BY Zenon DEF Kept, Sound
<1>2. /\ k \in StateType /\ k.s = h.s /\ k.clients = h.clients
      /\ Waiting(k) = Waiting(h) \cup {Handler(kind, s)}
  BY <1>1, PostFields, Zenon
<1> HIDE DEF k
<1>3. \A u \in SessId : SameFace(k.s[u], h.s[u])
  BY <1>2, Zenon DEF SameFace
<1>4. Kept(k)
  BY <1>2, <1>3, KeptBySoftStep, Zenon
<1> QED BY <1>4, Zenon DEF k

\* Of an encapsulated session only what names it is left.
LEMMA KeptByEraseOfFwd ==
    ASSUME NEW h, NEW s \in SessId, KeptBut(h, s), h.s[s].made, h.s[s].parent # None,
           NEW x \in SessionType, ~ x.live, x.made, x.parent = h.s[s].parent, x.at = h.s[s].at
    PROVE  Kept([h EXCEPT !.s[s] = x])
<1> DEFINE k == [h EXCEPT !.s[s] = x]
<1>0. /\ h \in StateType /\ \A u \in SessId : Linked(h, u) /\ (u # s => EndWaits(h, u))
      /\ \A m \in Waiting(h) : Named(h, m)
      /\ AtMostOne(h) /\ Known(h)
  BY Zenon DEF KeptBut, Sound
<1>1. /\ k \in StateType /\ k.clients = h.clients /\ k.ready = h.ready
      /\ k.s[s] = x /\ \A u \in SessId : u # s => k.s[u] = h.s[u]
  BY <1>0, Zenon DEF StateType
<1> HIDE DEF k
<1>2. \A u \in SessId : h.s[u].parent \in SessId \cup {None}
  BY <1>0, StateFields, Zenon DEF SessionType
<1>3. Sessions(k) = Sessions(h)
  BY <1>1, Zenon DEF Sessions
<1>4. \A t \in Sessions(h) : t \in SessId /\ t # s
  BY Zenon DEF Sessions
<1>5. \A u \in SessId : k.s[u].made = h.s[u].made /\ k.s[u].parent = h.s[u].parent
                        /\ k.s[u].at = h.s[u].at /\ (k.s[u].live => h.s[u].live)
                        /\ (k.s[u].live => k.s[u].terminating = h.s[u].terminating)
  <2>1. k.s[s].made = h.s[s].made
    BY <1>0, <1>1, StateFields, Zenon DEF SessionType
  <2> QED BY <1>1, <2>1, Zenon
<1>6. ASSUME NEW u \in SessId PROVE Linked(k, u)
  <2>1. h.s[u].parent # None => h.s[u].parent # s
    BY <1>0, Zenon DEF Linked
  <2>2. h.s[u].parent # None => h.s[u].parent \in SessId /\ k.s[h.s[u].parent] = h.s[h.s[u].parent]
    BY <1>1, <1>2, <2>1, Zenon
  <2> QED BY <1>0, <1>5, <2>2, LinkedKept, Zenon
<1>7. ASSUME NEW m \in Waiting(k) PROVE Named(k, m)
  <2>1. Named(h, m)
    BY <1>0, <1>1, Zenon DEF Waiting
  <2>2. m.kind \in {"started", "term", "fwdDeleted", "erase"} => m.kind # "datagram"
    BY Zenon
  <2> QED BY <1>5, <2>1, <2>2, Zenon DEF Named
<1>8. AtMostOne(k)
  BY <1>0, <1>1, <1>3, <1>4, Zenon DEF AtMostOne
<1>9. Known(k)
  BY <1>0, <1>1, <1>3, <1>4 DEF Known
<1>10. ASSUME NEW u \in SessId PROVE EndWaits(k, u)
  BY <1>0, <1>1, <1>5 DEF EndWaits, Ender, Waiting
<1> QED BY <1>1, <1>6, <1>7, <1>8, <1>9, <1>10, Zenon DEF Kept, Sound, k

\* ~GatewaySession: the session, those encapsulated in it and its endpoint go
\* together.  The handler that ends it may just have been taken.
LEMMA KeptByDestroy ==
    ASSUME NEW h, Sound(h), NEW t \in Sessions(h),
           \A u \in SessId : u # t => EndWaits(h, u)
    PROVE  LET k == Destroy(h, t) IN
           /\ Sound(k) /\ (\A u \in SessId : EndWaits(k, u)) /\ (AtMostOne(h) => AtMostOne(k))
           /\ Sessions(k) = Sessions(h) \ {t}
           /\ \A u \in SessId : u # t /\ h.s[u].parent # t => k.s[u] = h.s[u]
           /\ \A u \in SessId : k.s[u].made = h.s[u].made /\ k.s[u].parent = h.s[u].parent
           /\ k.stale = h.stale
<1> DEFINE k == Destroy(h, t)
           goes(u) == u = t \/ h.s[u].parent = t
<1>0. /\ h \in StateType /\ \A u \in SessId : Linked(h, u)
      /\ \A m \in Waiting(h) : Named(h, m)
      /\ Known(h)
  BY Zenon DEF Sound
<1>1. t \in SessId /\ h.s[t].live /\ h.s[t].parent = None /\ h.s[t].at \in Endpoint /\ t # None
  BY <1>0, NoneIsNone, Zenon DEF Sessions, Linked
<1>2. \A u \in SessId : h.s[u].parent \in SessId \cup {None} /\ h.s[u].made \in BOOLEAN
  BY <1>0, StateFields, Zenon DEF SessionType
<1>3. \A u \in SessId : /\ Gone(h.s[u]) \in SessionType /\ ~ Gone(h.s[u]).live /\ Gone(h.s[u]).made
                        /\ Gone(h.s[u]).parent = h.s[u].parent /\ Gone(h.s[u]).at = h.s[u].at
  <2> SUFFICES ASSUME NEW u \in SessId
               PROVE  /\ Gone(h.s[u]) \in SessionType /\ ~ Gone(h.s[u]).live /\ Gone(h.s[u]).made
                      /\ Gone(h.s[u]).parent = h.s[u].parent /\ Gone(h.s[u]).at = h.s[u].at
    BY Zenon
  <2>1. h.s[u] \in SessionType
    BY <1>0, StateFields, Zenon
  <2> QED BY <2>1, ZenonT(30) DEF Gone, NoSession, SessionType
<1>4. /\ k.s = [u \in SessId |-> IF goes(u) THEN Gone(h.s[u]) ELSE h.s[u]]
      /\ k.clients = [h.clients EXCEPT ![h.s[t].at] = None] /\ k.ready = h.ready
      /\ k.stale = h.stale
  BY <1>0, Zenon DEF Destroy, SocketDeleted, StateType
<1>5. k \in StateType
  BY <1>0, <1>1, <1>3, Zenon DEF Destroy, SocketDeleted, StateType
<1> HIDE DEF k
<1>6. \A u \in SessId : (goes(u) => k.s[u] = Gone(h.s[u])) /\ (~ goes(u) => k.s[u] = h.s[u])
  BY <1>4, Zenon
<1>7. \A u \in SessId : /\ k.s[u].made = h.s[u].made /\ k.s[u].parent = h.s[u].parent
                        /\ k.s[u].at = h.s[u].at
                        /\ k.s[u].live => h.s[u].live /\ ~ goes(u) /\ k.s[u] = h.s[u]
  <2> SUFFICES ASSUME NEW u \in SessId
               PROVE  /\ k.s[u].made = h.s[u].made /\ k.s[u].parent = h.s[u].parent
                      /\ k.s[u].at = h.s[u].at
                      /\ k.s[u].live => h.s[u].live /\ ~ goes(u) /\ k.s[u] = h.s[u]
    BY Zenon
  <2>1. CASE ~ goes(u)
    BY <1>6, <2>1, Zenon
  <2>2. CASE goes(u)
    <3>1. h.s[u].made
      BY <1>0, <1>1, <2>2, Zenon DEF Linked
    <3>2. k.s[u].made
      BY <1>3, <1>6, <2>2, Zenon
    <3>3. k.s[u].made = h.s[u].made
      BY <1>0, <1>5, <3>1, <3>2, StateFields DEF SessionType
    <3> QED BY <1>3, <1>6, <2>2, <3>3, Zenon
  <2> QED BY <2>1, <2>2, Zenon
<1>8. Sessions(k) = Sessions(h) \ {t}
  <2>1. \A u \in SessId : h.s[u].live /\ h.s[u].parent = None /\ u # t => k.s[u] = h.s[u]
    BY <1>1, <1>6, Zenon
  <2> QED BY <1>7, <2>1, ZenonT(30) DEF Sessions
<1>9. ASSUME NEW u \in SessId PROVE Linked(k, u)
  <2>1. CASE h.s[u].parent = None
    BY <1>0, <1>7, <2>1, Zenon DEF Linked
  <2>2. CASE h.s[u].parent # None
    <3>1. h.s[u].parent \in SessId /\ h.s[h.s[u].parent].made /\ h.s[h.s[u].parent].parent = None
      BY <1>0, <1>2, <2>2, Zenon DEF Linked
    <3>2. k.s[u].live => h.s[h.s[u].parent].live /\ ~ goes(h.s[u].parent)
      BY <1>0, <1>1, <1>7, <2>2, <3>1, Zenon DEF Linked
    <3>3. k.s[u].live => k.s[h.s[u].parent].live
      BY <1>6, <3>1, <3>2, Zenon
    <3> QED BY <1>0, <1>7, <2>2, <3>1, <3>3, Zenon DEF Linked
  <2> QED BY <2>1, <2>2, Zenon
<1>10. ASSUME NEW m \in Waiting(k) PROVE Named(k, m)
  <2>1. Named(h, m)
    BY <1>0, <1>4 DEF Waiting
  <2>2. m.kind \in {"started", "term", "fwdDeleted", "erase"} => m.kind # "datagram"
    BY Zenon
  <2> QED BY <1>7, <2>1, <2>2, Zenon DEF Named
<1>11. \A s \in Sessions(k) : s \in Sessions(h) /\ s # t /\ s \in SessId /\ k.s[s] = h.s[s]
  BY <1>7, <1>8, Zenon DEF Sessions
<1>12. AtMostOne(h) => AtMostOne(k)
  BY <1>0, <1>11, Zenon DEF AtMostOne
<1>13. \A e \in Endpoint : (e = h.s[t].at => k.clients[e] = None)
                           /\ (e # h.s[t].at => k.clients[e] = h.clients[e])
  BY <1>0, <1>1, <1>4 DEF StateType
<1>14. Known(k)
  <2>1. ASSUME NEW e \in Endpoint, k.clients[e] # None
        PROVE  k.clients[e] \in Sessions(k) /\ k.s[k.clients[e]].at = e
    <3>1. e # h.s[t].at /\ k.clients[e] = h.clients[e]
      BY <1>13, <2>1, Zenon
    <3>2. h.clients[e] \in Sessions(h) /\ h.s[h.clients[e]].at = e
      BY <1>0, <2>1, <3>1, Zenon DEF Known
    <3>3. h.clients[e] # t
      BY <3>1, <3>2, Zenon
    <3> QED BY <1>8, <1>11, <3>1, <3>2, <3>3, Zenon
  <2>2. ASSUME NEW s \in Sessions(k)
        PROVE  k.clients[k.s[s].at] = s
    <3>1. h.clients[h.s[s].at] = s /\ h.clients[h.s[t].at] = t
      BY <1>0, <1>11, Zenon DEF Known
    <3>2. h.s[s].at \in Endpoint /\ h.s[s].at # h.s[t].at
      BY <1>0, <1>11, <3>1, Zenon DEF Sessions, Linked
    <3> QED BY <1>11, <1>13, <3>1, <3>2, Zenon
  <2> QED BY <2>1, <2>2, Zenon DEF Known
<1>15. ASSUME NEW u \in SessId PROVE EndWaits(k, u)
  <2>1. k.s[u].live => u # t /\ k.s[u] = h.s[u]
    BY <1>7, Zenon
  <2> QED BY <1>4, <2>1 DEF EndWaits, Ender, Waiting
<1>16. Sound(k)
  BY <1>5, <1>9, <1>10, <1>14, Zenon DEF Sound
<1> QED BY <1>4, <1>6, <1>7, <1>8, <1>12, <1>15, <1>16, Zenon DEF k

-----------------------------------------------------------------------------
(* The report of a client id. *)

\* An encapsulated session has a client id: it is not one the program compares.
LEMMA KeptByFwdId ==
    ASSUME NEW h, Kept(h), NEW s \in SessId, h.s[s].parent # None, NEW id \in ClientId
    PROVE  /\ Kept([h EXCEPT !.s[s].clientId = id])
           /\ [h EXCEPT !.s[s].clientId = id].s[s].parent = h.s[s].parent
<1> DEFINE x == [h.s[s] EXCEPT !.clientId = id]
           k == With(h, s, x)
<1>0. /\ h \in StateType /\ \A u \in SessId : Linked(h, u) /\ EndWaits(h, u)
      /\ \A m \in Waiting(h) : Named(h, m)
      /\ AtMostOne(h) /\ Known(h)
  BY Zenon DEF Kept, Sound
<1>1. h.s[s] \in SessionType
  BY <1>0, StateFields, Zenon
<1>2. /\ x \in SessionType /\ x.live = h.s[s].live /\ x.made = h.s[s].made
      /\ x.parent = h.s[s].parent /\ x.at = h.s[s].at /\ x.terminating = h.s[s].terminating
  BY <1>1, Zenon DEF SessionType
<1> HIDE DEF x
<1>3. /\ k \in StateType /\ k.clients = h.clients /\ k.s[s] = x
      /\ (\A u \in SessId : u # s => k.s[u] = h.s[u]) /\ Waiting(k) = Waiting(h)
  BY <1>0, <1>2, WithFields, ZenonT(30)
<1> HIDE DEF k
<1>4. \A u \in SessId : /\ k.s[u].live = h.s[u].live /\ k.s[u].made = h.s[u].made
                        /\ k.s[u].parent = h.s[u].parent /\ k.s[u].at = h.s[u].at
                        /\ k.s[u].terminating = h.s[u].terminating
                        /\ h.s[u].parent \in SessId \cup {None}
  <2>1. \A u \in SessId : h.s[u].parent \in SessId \cup {None}
    BY <1>0, StateFields, Zenon DEF SessionType
  <2> QED BY <1>2, <1>3, <2>1, Zenon
<1>5. Sessions(k) = Sessions(h)
  BY <1>4, ZenonT(30) DEF Sessions
<1>6. \A u \in Sessions(h) : u \in SessId /\ k.s[u] = h.s[u]
  BY <1>3, Zenon DEF Sessions
<1>7. ASSUME NEW u \in SessId PROVE Linked(k, u)
  <2>1. h.s[u].parent # None => /\ k.s[h.s[u].parent].made = h.s[h.s[u].parent].made
                                /\ k.s[h.s[u].parent].parent = h.s[h.s[u].parent].parent
                                /\ (h.s[h.s[u].parent].live => k.s[h.s[u].parent].live)
    <3> SUFFICES ASSUME NEW p \in SessId
                 PROVE  /\ k.s[p].made = h.s[p].made /\ k.s[p].parent = h.s[p].parent
                        /\ (h.s[p].live => k.s[p].live)
      BY <1>4, Zenon
    <3> QED BY <1>4, Zenon
  <2>2. /\ Linked(h, u) /\ k.s[u].made = h.s[u].made /\ k.s[u].parent = h.s[u].parent
        /\ k.s[u].at = h.s[u].at /\ (k.s[u].live => h.s[u].live)
    BY <1>0, <1>4, Zenon
  <2> QED BY <2>1, <2>2, LinkedKept, Zenon
<1>8. ASSUME NEW m \in Waiting(k) PROVE Named(k, m)
  <2>1. Named(h, m)
    BY <1>0, <1>3, Zenon
  <2>2. m.kind \in {"started", "term", "fwdDeleted", "erase"} => m.kind # "datagram"
    BY Zenon
  <2> QED BY <1>4, <2>1, <2>2, Zenon DEF Named
<1>9. AtMostOne(k)
  BY <1>0, <1>5, <1>6, Zenon DEF AtMostOne
<1>10. Known(k)
  BY <1>0, <1>3, <1>5, <1>6, SMTT(30) DEF Known
<1>11. ASSUME NEW u \in SessId PROVE EndWaits(k, u)
  BY <1>0, <1>3, <1>4, Zenon DEF EndWaits, Ender
<1>12. Kept(k)
  BY <1>3, <1>7, <1>8, <1>9, <1>10, <1>11, Zenon DEF Kept, Sound
<1>13. k = [h EXCEPT !.s[s].clientId = id]
  BY Zenon DEF k, With, x
<1> QED BY <1>4, <1>12, <1>13, Zenon

\* The callback of GatewayApp, called for an encapsulated session.
LEMMA KeptByClientIdReport ==
    ASSUME NEW h, Kept(h), NEW p \in SessId, NEW id
    PROVE  /\ Kept(ClientIdReport(h, p, id))
           /\ \A u \in SessId : ClientIdReport(h, p, id).s[u].parent = h.s[u].parent
<1> DEFINE other == {t \in Sessions(h) : t # p /\ h.s[t].clientId = id}
<1>1. CASE id = Empty \/ other = {}
  BY <1>1, Zenon DEF ClientIdReport
<1>2. CASE ~ (id = Empty \/ other = {})
  <2>1. ClientIdReport(h, p, id) = Destroy(h, Min(other))
    BY <1>2, Zenon DEF ClientIdReport
  <2>2. Min(other) \in Sessions(h)
    BY <1>2, MinIsMember, Zenon DEF Sessions
  <2> HIDE DEF other
  <2> QED BY <2>1, <2>2, KeptByDestroy DEF Kept
<1> QED BY <1>1, <1>2, Zenon

\* The same for a session of the program: the one that had the id goes.
LEMMA KeptByTopIdReport ==
    ASSUME NEW h, Kept(h), NEW s \in SessId, h.s[s].live, h.s[s].parent = None, NEW id \in ClientId
    PROVE  Kept(ClientIdReport([h EXCEPT !.s[s].clientId = id], s, id))
<1> DEFINE x == [h.s[s] EXCEPT !.clientId = id]
           k == With(h, s, x)
           other == {t \in Sessions(k) : t # s /\ k.s[t].clientId = id}
<1>0. /\ h \in StateType /\ \A u \in SessId : Linked(h, u) /\ EndWaits(h, u)
      /\ \A m \in Waiting(h) : Named(h, m)
      /\ AtMostOne(h) /\ Known(h)
  BY Zenon DEF Kept, Sound
<1>1. h.s[s] \in SessionType
  BY <1>0, StateFields, Zenon
<1>2. /\ x \in SessionType /\ x.live = h.s[s].live /\ x.made = h.s[s].made
      /\ x.parent = h.s[s].parent /\ x.at = h.s[s].at /\ x.terminating = h.s[s].terminating
      /\ x.clientId = id
  BY <1>1, Zenon DEF SessionType
<1> HIDE DEF x
<1>3. /\ k \in StateType /\ k.clients = h.clients /\ k.s[s] = x
      /\ (\A u \in SessId : u # s => k.s[u] = h.s[u]) /\ Waiting(k) = Waiting(h)
  BY <1>0, <1>2, WithFields
<1> HIDE DEF k
<1>4. \A u \in SessId : /\ k.s[u].live = h.s[u].live /\ k.s[u].made = h.s[u].made
                        /\ k.s[u].parent = h.s[u].parent /\ k.s[u].at = h.s[u].at
                        /\ k.s[u].terminating = h.s[u].terminating
                        /\ h.s[u].parent \in SessId \cup {None}
  <2>1. \A u \in SessId : h.s[u].parent \in SessId \cup {None}
    BY <1>0, StateFields, Zenon DEF SessionType
  <2> QED BY <1>2, <1>3, <2>1, Zenon
<1>5. Sessions(k) = Sessions(h) /\ \A u \in Sessions(h) : u \in SessId
  BY <1>4, ZenonT(30) DEF Sessions
<1>7. ASSUME NEW u \in SessId PROVE Linked(k, u)
  <2>1. h.s[u].parent # None => /\ k.s[h.s[u].parent].made = h.s[h.s[u].parent].made
                                /\ k.s[h.s[u].parent].parent = h.s[h.s[u].parent].parent
                                /\ (h.s[h.s[u].parent].live => k.s[h.s[u].parent].live)
    <3> SUFFICES ASSUME NEW p \in SessId
                 PROVE  /\ k.s[p].made = h.s[p].made /\ k.s[p].parent = h.s[p].parent
                        /\ (h.s[p].live => k.s[p].live)
      BY <1>4, Zenon
    <3> QED BY <1>4, Zenon
  <2>2. /\ Linked(h, u) /\ k.s[u].made = h.s[u].made /\ k.s[u].parent = h.s[u].parent
        /\ k.s[u].at = h.s[u].at /\ (k.s[u].live => h.s[u].live)
    BY <1>0, <1>4, Zenon
  <2> QED BY <2>1, <2>2, LinkedKept, Zenon
<1>8. ASSUME NEW m \in Waiting(k) PROVE Named(k, m)
  <2>1. Named(h, m)
    BY <1>0, <1>3, Zenon
  <2>2. m.kind \in {"started", "term", "fwdDeleted", "erase"} => m.kind # "datagram"
    BY Zenon
  <2> QED BY <1>4, <2>1, <2>2, Zenon DEF Named
<1>10. Known(k)
  BY <1>0, <1>3, <1>4, <1>5, SMTT(30) DEF Known
<1>11. \A u \in SessId : EndWaits(k, u)
  BY <1>0, <1>3, <1>4, Zenon DEF EndWaits, Ender
<1>12. Sound(k)
  BY <1>3, <1>7, <1>8, <1>10, Zenon DEF Sound
<1>13. k = [h EXCEPT !.s[s].clientId = id]
  BY Zenon DEF k, With, x
<1>14. CASE id = Empty \/ other = {}
  <2>1. ClientIdReport(k, s, id) = k
    BY <1>14, Zenon DEF ClientIdReport
  <2>2. AtMostOne(k)
    <3> SUFFICES ASSUME NEW u \in Sessions(k), NEW v \in Sessions(k),
                        k.s[u].clientId \in ClientId \ {Empty}, k.s[u].clientId = k.s[v].clientId
                 PROVE  u = v
      BY Zenon DEF AtMostOne
    <3>1. CASE u = s
      BY <1>2, <1>3, <1>14, <3>1, Zenon
    <3>2. CASE v = s
      BY <1>2, <1>3, <1>14, <3>2, Zenon
    <3>3. CASE u # s /\ v # s
      BY <1>0, <1>3, <1>5, <3>3, Zenon DEF AtMostOne
    <3> QED BY <3>1, <3>2, <3>3, Zenon
  <2>3. Kept(k)
    BY <1>11, <1>12, <2>2, Zenon DEF Kept
  <2> QED BY <1>13, <2>1, <2>3, Zenon
<1>15. CASE ~ (id = Empty \/ other = {})
  <2> DEFINE t == Min(other)
             d == Destroy(k, t)
  <2>1. ClientIdReport(k, s, id) = d
    BY <1>15, Zenon DEF ClientIdReport
  <2>2. t \in other
    <3>1. other \subseteq SessId
      BY <1>5, Zenon
    <3> HIDE DEF other
    <3> QED BY <1>15, <3>1, MinIsMember, Zenon
  <2>3. t \in Sessions(k) /\ t # s /\ k.s[t].clientId = id
    BY <2>2, Zenon
  <2> HIDE DEF t, other
  <2>4. /\ Sound(d) /\ (\A u \in SessId : EndWaits(d, u)) /\ Sessions(d) = Sessions(k) \ {t}
        /\ \A u \in SessId : u # t /\ k.s[u].parent # t => d.s[u] = k.s[u]
    BY <1>11, <1>12, <2>3, KeptByDestroy, Zenon
  <2> HIDE DEF d
  <2>5. \A u \in Sessions(d) : u \in Sessions(h) /\ u \in SessId /\ u # t /\ d.s[u] = k.s[u]
    <3>1. \A u \in Sessions(k) : k.s[u].parent = None
      BY Zenon DEF Sessions
    <3>2. t # None
      BY <1>5, <2>3, NoneIsNone, Zenon
    <3> QED BY <1>5, <2>4, <3>1, <3>2, Zenon
  <2>6. AtMostOne(d)
    <3> SUFFICES ASSUME NEW u \in Sessions(d), NEW v \in Sessions(d),
                        d.s[u].clientId \in ClientId \ {Empty}, d.s[u].clientId = d.s[v].clientId
                 PROVE  u = v
      BY Zenon DEF AtMostOne
    <3>1. h.s[t].clientId = id /\ t \in Sessions(h)
      BY <1>3, <1>5, <2>3, Zenon
    <3>2. ASSUME NEW w \in Sessions(d), w # s, d.s[w].clientId = id
          PROVE  FALSE
      <4>1. h.s[w].clientId = id /\ w \in Sessions(h) /\ w # t
        BY <1>3, <2>5, <3>2, Zenon
      <4> QED BY <1>0, <1>15, <3>1, <4>1, Zenon DEF AtMostOne
    <3>3. d.s[s].clientId = id
      <4>1. s \in Sessions(d)
        BY <1>5, <2>3, <2>4, Zenon DEF Sessions
      <4> QED BY <1>2, <1>3, <2>5, <4>1, Zenon
    <3>4. CASE u = s
      BY <3>2, <3>3, <3>4, Zenon
    <3>5. CASE v = s
      BY <3>2, <3>3, <3>5, Zenon
    <3>6. CASE u # s /\ v # s
      BY <1>0, <1>3, <2>5, <3>6 DEF AtMostOne
    <3> QED BY <3>4, <3>5, <3>6, Zenon
  <2>7. Kept(d)
    BY <2>4, <2>6, Zenon DEF Kept
  <2> QED BY <1>13, <2>1, <2>7, Zenon
<1> QED BY <1>14, <1>15, Zenon

\* clientConnectedReport, of any session that is alive.
LEMMA KeptByReport ==
    ASSUME NEW h, Kept(h), NEW s \in SessId, h.s[s].live, NEW id \in ClientId
    PROVE  Kept(ClientConnectedReport(h, s, id))
<1>1. CASE h.s[s].parent = None
  BY <1>1, KeptByTopIdReport, Zenon DEF ClientConnectedReport
<1>2. CASE h.s[s].parent # None
  <2> DEFINE k0 == [h EXCEPT !.s[s].clientId = id]
             p == k0.s[s].parent
             k == ClientIdReport(k0, p, id)
             same == {t \in FwdEncSessions(k, p) : t # s /\ k.s[t].clientId = id}
  <2>1. Kept(k0) /\ p = h.s[s].parent
    BY <1>2, KeptByFwdId, Zenon
  <2>2. p \in SessId
    <3>1. h \in StateType
      BY Zenon DEF Kept, Sound
    <3>2. h.s[s] \in SessionType
      BY <3>1, StateFields, Zenon
    <3> QED BY <1>2, <2>1, <3>2, Zenon DEF SessionType
  <2>3. ClientConnectedReport(h, s, id) = FwdClientIdReport(k0, s, id)
    BY <1>2, Zenon DEF ClientConnectedReport
  <2>4. FwdClientIdReport(k0, s, id) =
           IF k.s[p].clientId \in {None, Empty} \/ same = {} THEN k ELSE Post(k, "erase", Min(same))
    BY Zenon DEF FwdClientIdReport
  <2> HIDE DEF k0, p
  <2>5. Kept(k)
    BY <2>1, <2>2, KeptByClientIdReport, Zenon
  <2> HIDE DEF k
  <2>6. CASE same # {}
    <3>1. Min(same) \in same
      BY <2>6, MinIsMember, Zenon DEF FwdEncSessions
    <3>2. Min(same) \in SessId /\ k.s[Min(same)].live /\ k.s[Min(same)].parent = p
      BY <3>1, Zenon DEF FwdEncSessions
    <3> HIDE DEF same
    <3>3. k.s[Min(same)].made /\ k.s[Min(same)].parent # None
      BY <2>2, <2>5, <3>2, NoneIsNone, Zenon DEF Kept, Sound, Linked
    <3>4. Named(k, Handler("erase", Min(same)))
      BY <3>2, <3>3, Zenon DEF Named, Handler, HandlerType, Kinds
    <3>5. Kept(Post(k, "erase", Min(same)))
      BY <2>5, <3>2, <3>4, KeptByPost, Zenon DEF Kinds
    <3> QED BY <2>3, <2>4, <2>5, <3>5, Zenon
  <2> QED BY <2>3, <2>4, <2>5, <2>6, Zenon
<1> QED BY <1>1, <1>2, Zenon

-----------------------------------------------------------------------------
(* The calls of a library session. *)

\* Use of an object that is gone.
LEMMA StaleIsBroken == Broken(Stale)
<1>1. NoSession \in SessionType /\ ~ NoSession.live
  BY Zenon DEF NoSession, SessionType
<1> HIDE DEF NoSession
<1>2. << >> \in Seq(HandlerType)
  OBVIOUS
<1>3. NoSessions \in StateType
  BY <1>1, <1>2, Zenon DEF NoSessions, StateType
<1>4. NoSessions.s = [s \in SessId |-> NoSession] /\ NoSessions.clients = [e \in Endpoint |-> None]
  BY Zenon DEF NoSessions
<1> HIDE DEF NoSessions
<1>5. /\ Stale \in StateType /\ Stale.stale /\ Stale.s = [s \in SessId |-> NoSession]
      /\ Stale.clients = [e \in Endpoint |-> None]
  BY <1>3, <1>4, ZenonT(30) DEF Stale, StateType
<1> QED BY <1>1, <1>5, Zenon DEF Broken

\* What is known of a session that exists.
LEMMA LiveSession ==
    ASSUME NEW h, Kept(h), NEW s \in SessId
    PROVE  /\ h \in StateType /\ h.s[s] \in SessionType
           /\ h.s[s].live \/ h.s[s].parent # None => h.s[s].made
           /\ h.s[s].parent # None => /\ h.s[s].parent \in SessId
                                      /\ h.s[h.s[s].parent].made /\ h.s[h.s[s].parent].parent = None
                                      /\ h.s[s].live => h.s[h.s[s].parent].live
<1>1. h \in StateType /\ Linked(h, s)
  BY Zenon DEF Kept, Sound
<1>2. h.s[s] \in SessionType
  BY <1>1, StateFields, Zenon
<1>3. h.s[s].parent \in SessId \cup {None}
  BY <1>2, Zenon DEF SessionType
<1> QED BY <1>1, <1>2, <1>3, Zenon DEF Linked

\* apiCallExit posts the handler that ends the session; before it, the session may
\* have been marked as terminating.
LEMMA KeptByApiCallExit ==
    ASSUME NEW h, Kept(h), NEW s \in SessId, h.s[s].made,
           NEW x \in SessionType, SameFace(x, h.s[s])
    PROVE  Kept(ApiCallExit(With(h, s, x), s)) /\ ApiCallExit(With(h, s, x), s).s[s].made
<1> DEFINE k == With(h, s, x)
           e == Ender(h, s)
           kind == IF h.s[s].parent = None THEN "term" ELSE "fwdDeleted"
           p == Post(k, kind, s)
<1>1. h \in StateType
  BY Zenon DEF Kept, Sound
<1>2. /\ k \in StateType /\ k.clients = h.clients /\ k.s[s] = x
      /\ (\A u \in SessId : u # s => k.s[u] = h.s[u]) /\ Waiting(k) = Waiting(h)
  BY <1>1, WithFields
<1>3. k.s[s].parent = h.s[s].parent
  BY <1>2, Zenon DEF SameFace
<1> HIDE DEF k
<1>4. kind \in Kinds /\ e = Handler(kind, s)
  BY Zenon DEF Kinds, Ender
<1>5. Named(h, e)
  BY Zenon DEF Named, Ender, Handler, HandlerType, Kinds
<1> HIDE DEF e
<1>6. /\ p \in StateType /\ p.s = k.s /\ p.clients = k.clients
      /\ Waiting(p) = Waiting(k) \cup {e}
  BY <1>2, <1>4, PostFields, SMTT(30)
<1>7. \A u \in SessId : SameFace(p.s[u], h.s[u])
  BY <1>2, <1>6, ZenonT(60) DEF SameFace
<1>8. \A u \in SessId : p.s[u].terminating => h.s[u].terminating \/ Ender(h, u) \in Waiting(p)
  <2> SUFFICES ASSUME NEW u \in SessId, p.s[u].terminating
               PROVE  h.s[u].terminating \/ Ender(h, u) \in Waiting(p)
    BY Zenon
  <2>1. CASE u = s
    BY <1>6, <2>1, Zenon DEF e
  <2>2. CASE u # s
    BY <1>2, <1>6, <2>2, Zenon
  <2> QED BY <2>1, <2>2, Zenon
<1>9. Kept(p) /\ p.s[s].made
  <2>1. p.s[s].made
    BY <1>7, Zenon DEF SameFace
  <2>2. /\ p.clients = h.clients /\ Waiting(h) \subseteq Waiting(p)
        /\ \A m \in Waiting(p) : m \in Waiting(h) \/ Named(h, m)
    BY <1>2, <1>5, <1>6, Zenon
  <2> QED BY <1>6, <1>7, <1>8, <2>1, <2>2, KeptBySoftStep, Zenon
<1>10. CASE h.s[s].parent = None
  <2>1. ApiCallExit(k, s) = p
    BY <1>3, <1>10, Zenon DEF ApiCallExit, DoTerminate
  <2> QED BY <1>9, <2>1, Zenon DEF k
<1>11. CASE h.s[s].parent # None
  <2> DEFINE y == [p.s[s] EXCEPT !.lib = FALSE]
  <2>1. ApiCallExit(k, s) = With(p, s, y)
    BY <1>3, <1>11, Zenon DEF ApiCallExit, TerminationReqFromSession, With
  <2> HIDE DEF p
  <2>2. p.s[s] \in SessionType
    BY <1>6, StateFields, Zenon
  <2>3. y \in SessionType /\ SameFace(y, p.s[s]) /\ y.terminating = p.s[s].terminating
    BY <2>2, ZenonT(60) DEF SessionType, SameFace
  <2> HIDE DEF y
  <2>4. Kept(With(p, s, y))
    BY <1>9, <2>3, KeptByWith, Zenon
  <2>5. With(p, s, y).s[s] = y
    BY <1>6, <2>3, WithFields
  <2>6. y.made
    BY <1>9, <2>3, Zenon DEF SameFace
  <2> QED BY <2>1, <2>4, <2>5, <2>6, Zenon DEF k
<1> QED BY <1>10, <1>11, Zenon

\* Members the invariant does not look at.
LEMMA SoftMembers ==
    ASSUME NEW h, Kept(h), NEW s \in SessId, NEW b \in BOOLEAN
    PROVE  /\ Kept([h EXCEPT !.s[s].hadBrokerData = b])
           /\ Kept([h EXCEPT !.s[s].libConnected = b])
           /\ Kept([h EXCEPT !.s[s].brokerConnected = b])
           /\ Kept([h EXCEPT !.s[s].started = b])
           /\ Kept([h EXCEPT !.s[s].reconnectTimer = b])
<1>1. h.s[s] \in SessionType
  BY LiveSession, Zenon
<1>2. Kept([h EXCEPT !.s[s].hadBrokerData = b])
  <2> DEFINE x == [h.s[s] EXCEPT !.hadBrokerData = b]
  <2>1. x \in SessionType /\ SameFace(x, h.s[s]) /\ x.terminating = h.s[s].terminating
    BY <1>1, Zenon DEF SessionType, SameFace
  <2>2. Kept(With(h, s, x))
    BY <2>1, KeptByWith, Zenon
  <2> QED BY <2>2, Zenon DEF With
<1>3. Kept([h EXCEPT !.s[s].libConnected = b])
  <2> DEFINE x == [h.s[s] EXCEPT !.libConnected = b]
  <2>1. x \in SessionType /\ SameFace(x, h.s[s]) /\ x.terminating = h.s[s].terminating
    BY <1>1, Zenon DEF SessionType, SameFace
  <2>2. Kept(With(h, s, x))
    BY <2>1, KeptByWith, Zenon
  <2> QED BY <2>2, Zenon DEF With
<1>4. Kept([h EXCEPT !.s[s].brokerConnected = b])
  <2> DEFINE x == [h.s[s] EXCEPT !.brokerConnected = b]
  <2>1. x \in SessionType /\ SameFace(x, h.s[s]) /\ x.terminating = h.s[s].terminating
    BY <1>1, Zenon DEF SessionType, SameFace
  <2>2. Kept(With(h, s, x))
    BY <2>1, KeptByWith, Zenon
  <2> QED BY <2>2, Zenon DEF With
<1>5. Kept([h EXCEPT !.s[s].started = b])
  <2> DEFINE x == [h.s[s] EXCEPT !.started = b]
  <2>1. x \in SessionType /\ SameFace(x, h.s[s]) /\ x.terminating = h.s[s].terminating
    BY <1>1, Zenon DEF SessionType, SameFace
  <2>2. Kept(With(h, s, x))
    BY <2>1, KeptByWith, Zenon
  <2> QED BY <2>2, Zenon DEF With
<1>6. Kept([h EXCEPT !.s[s].reconnectTimer = b])
  <2> DEFINE x == [h.s[s] EXCEPT !.reconnectTimer = b]
  <2>1. x \in SessionType /\ SameFace(x, h.s[s]) /\ x.terminating = h.s[s].terminating
    BY <1>1, Zenon DEF SessionType, SameFace
  <2>2. Kept(With(h, s, x))
    BY <2>1, KeptByWith, Zenon
  <2> QED BY <2>2, Zenon DEF With
<1> QED BY <1>2, <1>3, <1>4, <1>5, <1>6, Zenon

\* m_hadBrokerData is set, or not, by a session that sends.
LEMMA KeptBySendDataBroker ==
    ASSUME NEW h, Kept(h), NEW s \in SessId
    PROVE  Kept(SendDataBroker(h, s)) /\ SendDataBroker(h, s).s[s].made = h.s[s].made
<1>1. h.s \in [SessId -> SessionType] /\ h.s[s] \in SessionType /\ h \in StateType
  BY StateFields, Zenon DEF Kept, Sound
<1>2. SendDataBroker(h, s).s[s] = [h.s[s] EXCEPT !.hadBrokerData = (h.s[s].parent = None)]
  BY <1>1, Zenon DEF SendDataBroker, StateType
<1>3. SendDataBroker(h, s).s[s].made = h.s[s].made
  BY <1>1, <1>2, Zenon DEF SessionType
<1> QED BY <1>3, SoftMembers, Zenon DEF SendDataBroker

\* termRequest.
LEMMA KeptByEnd ==
    ASSUME NEW h, Kept(h), NEW s \in SessId, h.s[s].live
    PROVE  Kept(End(h, s)) /\ End(h, s).s[s].made
<1> DEFINE x == [h.s[s] EXCEPT !.terminating = TRUE]
<1>1. h.s[s] \in SessionType /\ h.s[s].made
  BY LiveSession, Zenon
<1>2. x \in SessionType /\ SameFace(x, h.s[s])
  BY <1>1, Zenon DEF SessionType, SameFace
<1>3. End(h, s) = ApiCallExit(With(h, s, x), s)
  BY Zenon DEF End, With
<1> HIDE DEF x
<1> QED BY <1>1, <1>2, <1>3, KeptByApiCallExit, Zenon

\* tick, dataFromBroker and dataFromClient.
LEMMA GoodByLibCall ==
    ASSUME NEW h, Kept(h), NEW s \in SessId, NEW k \in LibCall(h, s)
    PROVE  Good(k)
<1>1. CASE ~ h.s[s].live \/ ~ h.s[s].lib
  <2>1. k = Stale
    BY <1>1, Zenon DEF LibCall
  <2> QED BY <2>1, StaleIsBroken, Zenon DEF Good
<1>2. CASE h.s[s].live /\ h.s[s].lib /\ h.s[s].terminating
  <2>1. k = h
    BY <1>2, Zenon DEF LibCall
  <2> QED BY <2>1, Zenon DEF Good
<1>3. CASE h.s[s].live /\ h.s[s].lib /\ ~ h.s[s].terminating
  <2>1. k \in Outcomes(h, s)
    BY <1>3, Zenon DEF LibCall
  <2>2. \/ k = h \/ k = SendDataBroker(h, s) \/ k = End(h, s)
        \/ \E id \in ClientId : k = ClientConnectedReport(h, s, id)
    BY <2>1, Zenon DEF Outcomes
  <2>3. Kept(k)
    BY <1>3, <2>2, KeptBySendDataBroker, KeptByEnd, KeptByReport, Zenon
  <2> QED BY <2>3, Zenon DEF Good
<1> QED BY <1>1, <1>2, <1>3, Zenon

\* setBrokerConnected.
LEMMA GoodBySetBrokerConnected ==
    ASSUME NEW h, Kept(h), NEW s \in SessId, h.s[s].live, NEW c \in BOOLEAN,
           NEW k \in SetBrokerConnected(h, s, c)
    PROVE  Broken(k) \/ (Kept(k) /\ k.s[s].made)
<1> DEFINE x == [h.s[s] EXCEPT !.libConnected = c]
           j == [h EXCEPT !.s[s].libConnected = c]
<1>1. h.s[s] \in SessionType /\ h.s[s].made
  BY LiveSession, Zenon
<1>2. x \in SessionType /\ SameFace(x, h.s[s])
  BY <1>1, Zenon DEF SessionType, SameFace
<1>3. j = With(h, s, x) /\ Kept(j)
  BY SoftMembers, Zenon DEF With
<1>4. j.s[s].live
  <2>1. h \in StateType
    BY Zenon DEF Kept, Sound
  <2> HIDE DEF j, x
  <2>2. j.s[s] = x
    BY <1>2, <1>3, <2>1, WithFields
  <2> QED BY <1>2, <2>2, Zenon DEF SameFace
<1>5. CASE ~ h.s[s].lib
  <2>1. k = Stale
    BY <1>5, Zenon DEF SetBrokerConnected
  <2> QED BY <2>1, StaleIsBroken, Zenon
<1>6. CASE h.s[s].lib /\ h.s[s].libConnected = c
  <2>1. k = h
    BY <1>6, Zenon DEF SetBrokerConnected
  <2> QED BY <1>1, <2>1, Zenon
<1>7. CASE h.s[s].lib /\ h.s[s].libConnected # c
  <2>1. k \in {j, SendDataBroker(j, s), End(j, s), ApiCallExit(j, s)}
    <3> DEFINE set == CASE h.s[s].terminating -> {ApiCallExit(j, s)}
                        [] ~ h.s[s].terminating /\ c -> {j, SendDataBroker(j, s)}
                        [] ~ h.s[s].terminating /\ ~ c -> {j, End(j, s)}
    <3>1. k \in set
      <4>1. SetBrokerConnected(h, s, c) =
               CASE ~ h.s[s].lib -> {Stale}
                 [] h.s[s].lib /\ h.s[s].libConnected = c -> {h}
                 [] h.s[s].lib /\ h.s[s].libConnected # c -> set
        BY Zenon DEF SetBrokerConnected
      <4> HIDE DEF set, j
      <4>2. SetBrokerConnected(h, s, c) = set
        BY <1>7, <4>1, Zenon
      <4> QED BY <4>2, Zenon
    <3> HIDE DEF j
    <3>2. CASE h.s[s].terminating
      BY <3>1, <3>2, Zenon
    <3>3. CASE ~ h.s[s].terminating /\ c
      BY <3>1, <3>3, Zenon
    <3>4. CASE ~ h.s[s].terminating /\ ~ c
      BY <3>1, <3>4, Zenon
    <3> QED BY <3>2, <3>3, <3>4, Zenon
  <2> HIDE DEF j, x
  <2>2. Kept(ApiCallExit(j, s)) /\ ApiCallExit(j, s).s[s].made
    BY <1>1, <1>2, <1>3, KeptByApiCallExit, Zenon
  <2>3. j.s[s].made
    BY <1>3, <1>4, LiveSession, Zenon
  <2> QED BY <1>3, <1>4, <2>1, <2>2, <2>3, KeptBySendDataBroker, KeptByEnd, Zenon
<1> QED BY <1>5, <1>6, <1>7, Zenon

\* Nothing is said of a state after the use of an object that is gone, but that it
\* has no sessions.
LEMMA BrokenByWith ==
    ASSUME NEW h, Broken(h), NEW s \in SessId, NEW x \in SessionType, ~ x.live
    PROVE  Broken(With(h, s, x))
BY WithFields DEF Broken

\* The members reportError and doBrokerConnect set after the call.
LEMMA BrokenMembers ==
    ASSUME NEW h, Broken(h), NEW s \in SessId, NEW kind \in Kinds
    PROVE  /\ Broken([h EXCEPT !.s[s].brokerConnected = FALSE, !.s[s].reconnectTimer = TRUE])
           /\ Broken(Post([h EXCEPT !.s[s].brokerConnected = FALSE], kind, s))
<1> DEFINE x == [h.s[s] EXCEPT !.brokerConnected = FALSE]
           a == With(h, s, x)
           y == [x EXCEPT !.reconnectTimer = TRUE]
           b == With(h, s, y)
<1>1. h.s[s] \in SessionType /\ ~ h.s[s].live
  BY StateFields, Zenon DEF Broken
<1>2. x \in SessionType /\ ~ x.live
  BY <1>1, Zenon DEF SessionType
<1> HIDE DEF x
<1>3. y \in SessionType /\ ~ y.live
  BY <1>2, Zenon DEF SessionType
<1> HIDE DEF y
<1>4. Broken(a) /\ Broken(b)
  BY <1>2, <1>3, BrokenByWith, Zenon
<1>5. a = [h EXCEPT !.s[s].brokerConnected = FALSE]
  BY Zenon DEF a, With, x
<1>6. b = [h EXCEPT !.s[s].brokerConnected = FALSE, !.s[s].reconnectTimer = TRUE]
  BY StateFields, Zenon DEF b, With, x, y
<1> HIDE DEF a, b
<1>7. Broken(Post(a, kind, s))
  BY <1>4, PostFields, SMTT(30) DEF Broken
<1> QED BY <1>4, <1>5, <1>6, <1>7, Zenon

-----------------------------------------------------------------------------
(* New sessions. *)

\* In k session s has become x: one encapsulated in a session of the program, or one
\* of the program with its endpoint.
Placed(k, h, s, x) ==
    \/ /\ x.parent \in SessId /\ h.s[x.parent].live /\ h.s[x.parent].parent = None
       /\ k.clients = h.clients
    \/ /\ x.parent = None /\ x.at \in Endpoint /\ h.clients[x.at] = None
       /\ k.clients = [h.clients EXCEPT ![x.at] = s]

LEMMA KeptByNew ==
    ASSUME NEW h, Kept(h), NEW s \in SessId, ~ h.s[s].made,
           NEW x \in SessionType, x.live, x.made, ~ x.terminating, x.clientId = None,
           NEW k \in StateType, k.s[s] = x, \A u \in SessId : u # s => k.s[u] = h.s[u],
           Waiting(h) \subseteq Waiting(k), \A m \in Waiting(k) : m \in Waiting(h) \/ Named(k, m),
           Placed(k, h, s, x)
    PROVE  Kept(k)
<1>0. /\ h \in StateType /\ \A u \in SessId : Linked(h, u) /\ EndWaits(h, u)
      /\ \A m \in Waiting(h) : Named(h, m)
      /\ AtMostOne(h) /\ Known(h)
  BY Zenon DEF Kept, Sound
<1>1. \A u \in SessId : h.s[u].parent \in SessId \cup {None}
  BY <1>0, StateFields, Zenon DEF SessionType
<1>2. ~ h.s[s].live /\ h.s[s].parent = None
  BY <1>0, Zenon DEF Linked
<1>3. \A u \in SessId : h.s[u].made => u # s /\ k.s[u] = h.s[u]
  BY Zenon
<1>4. ASSUME NEW u \in SessId PROVE Linked(k, u)
  <2>1. CASE u = s
    <3>1. x.parent # None => x.parent \in SessId /\ h.s[x.parent].live /\ h.s[x.parent].parent = None
      BY NoneIsNone, Zenon DEF Placed
    <3>2. x.parent # None => h.s[x.parent].made
      BY <1>0, <3>1, Zenon DEF Linked
    <3>3. x.parent # None => k.s[x.parent] = h.s[x.parent]
      BY <1>3, <3>1, <3>2, Zenon
    <3>4. x.parent = None => x.at \in Endpoint
      BY NoneIsNone, Zenon DEF Placed
    <3> QED BY <2>1, <3>1, <3>2, <3>3, <3>4, Zenon DEF Linked
  <2>2. CASE u # s
    <3>1. k.s[u] = h.s[u]
      BY <2>2, Zenon
    <3>2. h.s[u].parent # None => /\ h.s[u].parent \in SessId
                                  /\ k.s[h.s[u].parent] = h.s[h.s[u].parent]
      BY <1>0, <1>1, <1>3, Zenon DEF Linked
    <3> QED BY <1>0, <3>1, <3>2, LinkedKept, Zenon
  <2> QED BY <2>1, <2>2, Zenon
<1>5. ASSUME NEW m \in Waiting(k) PROVE Named(k, m)
  <2>1. CASE m \in Waiting(h)
    <3>1. Named(h, m)
      BY <1>0, <2>1, Zenon
    <3>2. m.kind \in {"started", "term", "fwdDeleted", "erase"} => m.kind # "datagram"
      BY Zenon
    <3> QED BY <1>3, <3>1, <3>2, Zenon DEF Named
  <2> QED BY <2>1, Zenon
<1>6. ASSUME NEW u \in SessId PROVE EndWaits(k, u)
  BY <1>0, Zenon DEF EndWaits, Ender
<1>7. \A u \in Sessions(h) : u # s /\ u \in SessId /\ k.s[u] = h.s[u]
  BY <1>2, Zenon DEF Sessions
<1>8. CASE x.parent # None
  <2>1. Sessions(k) = Sessions(h)
    BY <1>2, <1>8, Zenon DEF Sessions
  <2>2. k.clients = h.clients
    BY <1>8, Zenon DEF Placed
  <2>3. AtMostOne(k) /\ Known(k)
    BY <1>0, <1>7, <2>1, <2>2, SMTT(30) DEF AtMostOne, Known
  <2> QED BY <1>4, <1>5, <1>6, <2>3, Zenon DEF Kept, Sound
<1>9. CASE x.parent = None
  <2>1. Sessions(k) = Sessions(h) \cup {s}
    BY <1>2, <1>9, Zenon DEF Sessions
  <2>2. /\ x.at \in Endpoint /\ h.clients[x.at] = None
        /\ k.clients = [h.clients EXCEPT ![x.at] = s]
    BY <1>9, NoneIsNone, Zenon DEF Placed
  <2>3. \A e \in Endpoint : (e = x.at => k.clients[e] = s) /\ (e # x.at => k.clients[e] = h.clients[e])
    BY <1>0, <2>2, StateFields
  <2>4. AtMostOne(k)
    <3>1. k.s[s].clientId \notin ClientId
      BY NoneIsNone, Zenon
    <3> QED BY <1>0, <1>7, <2>1, <3>1 DEF AtMostOne
  <2>5. ASSUME NEW e \in Endpoint, k.clients[e] # None
        PROVE  k.clients[e] \in Sessions(k) /\ k.s[k.clients[e]].at = e
    BY <1>0, <1>7, <2>1, <2>3, <2>5, SMTT(30) DEF Known
  <2>6. ASSUME NEW u \in Sessions(k)
        PROVE  k.clients[k.s[u].at] = u
    <3>1. CASE u = s
      BY <2>2, <2>3, <3>1, Zenon
    <3>2. CASE u # s
      <4>1. u \in Sessions(h) /\ h.clients[h.s[u].at] = u /\ u \in SessId
        BY <1>0, <1>7, <2>1, <3>2, Zenon DEF Known
      <4>2. h.s[u].at \in Endpoint /\ u # None
        BY <1>0, <4>1, NoneIsNone, Zenon DEF Sessions, Linked
      <4> QED BY <1>7, <2>2, <2>3, <4>1, <4>2, SMTT(30)
    <3> QED BY <3>1, <3>2, Zenon
  <2>7. Known(k)
    BY <2>5, <2>6, Zenon DEF Known
  <2> QED BY <1>4, <1>5, <1>6, <2>4, <2>7, Zenon DEF Kept, Sound
<1> QED BY <1>8, <1>9, Zenon

\* The sessions that were not made yet.
LEMMA NextSession ==
    ASSUME NEW h, h \in StateType, Unmade(h) # {}
    PROVE  Min(Unmade(h)) \in SessId /\ ~ h.s[Min(Unmade(h))].made
<1>1. Min(Unmade(h)) \in Unmade(h)
  BY MinIsMember, Zenon DEF Unmade
<1> QED BY <1>1, Zenon DEF Unmade

Fresh(parent, at) ==
    [NoSession EXCEPT !.live = TRUE, !.lib = TRUE, !.made = TRUE, !.parent = parent, !.at = at]

LEMMA FreshFields ==
    ASSUME NEW parent \in SessId \cup {None}, NEW at \in Endpoint \cup Node
    PROVE  LET x == Fresh(parent, at) IN
           /\ x \in SessionType /\ x.live /\ x.made /\ ~ x.terminating /\ x.clientId = None
           /\ x.parent = parent /\ x.at = at
BY Zenon DEF Fresh, NoSession, SessionType

\* Encapsulate makes a session for a node.
LEMMA KeptByFwdEncSessionCreated ==
    ASSUME NEW h, Kept(h), Unmade(h) # {}, NEW p \in SessId, h.s[p].live, h.s[p].parent = None,
           NEW node \in Node
    PROVE  Kept(FwdEncSessionCreated(h, p, node))
<1> DEFINE s == Min(Unmade(h))
           x == Fresh(p, node)
           w == With(h, s, x)
           k == Post(w, "connected", s)
<1>1. h \in StateType /\ s \in SessId /\ ~ h.s[s].made
  BY NextSession, Zenon DEF Kept, Sound
<1>2. FwdEncSessionCreated(h, p, node) = k
  BY Zenon DEF FwdEncSessionCreated, NewSession, With, Fresh
<1> HIDE DEF s
<1>3. /\ x \in SessionType /\ x.live /\ x.made /\ ~ x.terminating /\ x.clientId = None
      /\ x.parent = p
  BY FreshFields
<1> HIDE DEF x
<1>4. /\ w \in StateType /\ w.clients = h.clients /\ w.s[s] = x
      /\ (\A u \in SessId : u # s => w.s[u] = h.s[u]) /\ Waiting(w) = Waiting(h)
  BY <1>1, <1>3, WithFields, SMTT(30)
<1> HIDE DEF w
<1>5. /\ k \in StateType /\ k.s = w.s /\ k.clients = w.clients
      /\ Waiting(k) = Waiting(w) \cup {Handler("connected", s)}
  <2>1. "connected" \in Kinds /\ s \in SessId \cup Endpoint
    BY <1>1, Zenon DEF Kinds
  <2> QED BY <1>4, <2>1, PostFields, Zenon
<1> HIDE DEF k
<1>6. Named(k, Handler("connected", s))
  BY <1>1, <1>3, <1>4, <1>5, Zenon DEF Named, Handler, HandlerType, Kinds
<1>7. Kept(k)
  <2>1. k.s[s] = x /\ \A u \in SessId : u # s => k.s[u] = h.s[u]
    BY <1>4, <1>5, Zenon
  <2>2. k.clients = h.clients /\ x.parent \in SessId /\ h.s[x.parent].live /\ h.s[x.parent].parent = None
    BY <1>3, <1>4, <1>5, Zenon
  <2>3. Waiting(h) \subseteq Waiting(k) /\ \A m \in Waiting(k) : m \in Waiting(h) \/ Named(k, m)
    BY <1>4, <1>5, <1>6, Zenon
  <2> HIDE DEF x
  <2>4. Placed(k, h, s, x)
    BY <2>2, Zenon DEF Placed
  <2> QED BY <1>1, <1>3, <1>5, <2>1, <2>3, <2>4, KeptByNew, Zenon
<1> QED BY <1>2, <1>7, Zenon

\* A datagram of an endpoint the acceptor does not know makes a session.
LEMMA KeptByNewConnection ==
    ASSUME NEW h, Kept(h), Unmade(h) # {}, NEW e \in Endpoint, h.clients[e] = None
    PROVE  Kept(NewConnection([h EXCEPT !.clients[e] = Min(Unmade(h))], e))
<1> DEFINE s == Min(Unmade(h))
           x == Fresh(None, e)
           c == [h EXCEPT !.clients[e] = s]
           a == Post(c, "started", s)
           w == With(a, s, x)
           k == Post(w, "connected", s)
<1>1. h \in StateType /\ s \in SessId /\ ~ h.s[s].made
  BY NextSession, Zenon DEF Kept, Sound
<1>2. NewConnection(c, e) = k
  <2>1. Unmade(c) = Unmade(h)
    BY <1>1, Zenon DEF Unmade, StateType
  <2> QED BY <2>1, Zenon DEF NewConnection, NewSession, With, Fresh
<1> HIDE DEF s
<1>3. /\ c \in StateType /\ c.s = h.s /\ c.clients = [h.clients EXCEPT ![e] = s] /\ c.ready = h.ready
  BY <1>1, Zenon DEF StateType
<1> HIDE DEF c
<1>4. /\ x \in SessionType /\ x.live /\ x.made /\ ~ x.terminating /\ x.clientId = None
      /\ x.parent = None /\ x.at = e
  BY FreshFields
<1> HIDE DEF x
<1>5. /\ a \in StateType /\ a.s = c.s /\ a.clients = c.clients
      /\ Waiting(a) = Waiting(c) \cup {Handler("started", s)}
  <2>1. "started" \in Kinds /\ s \in SessId \cup Endpoint
    BY <1>1, Zenon DEF Kinds
  <2> QED BY <1>3, <2>1, PostFields, Zenon
<1> HIDE DEF a
<1>6. /\ w \in StateType /\ w.clients = a.clients /\ w.s[s] = x
      /\ (\A u \in SessId : u # s => w.s[u] = a.s[u]) /\ Waiting(w) = Waiting(a)
  BY <1>1, <1>4, <1>5, WithFields, SMTT(30)
<1> HIDE DEF w
<1>7. /\ k \in StateType /\ k.s = w.s /\ k.clients = w.clients
      /\ Waiting(k) = Waiting(w) \cup {Handler("connected", s)}
  <2>1. "connected" \in Kinds /\ s \in SessId \cup Endpoint
    BY <1>1, Zenon DEF Kinds
  <2> QED BY <1>6, <2>1, PostFields, Zenon
<1> HIDE DEF k
<1>8. Waiting(k) = Waiting(h) \cup {Handler("started", s), Handler("connected", s)}
  <2>1. Waiting(c) = Waiting(h)
    BY <1>3, Zenon DEF Waiting
  <2> QED BY <1>5, <1>6, <1>7, <2>1, Zenon
<1>9. Named(k, Handler("connected", s)) /\ Named(k, Handler("started", s))
  BY <1>1, <1>4, <1>6, <1>7, Zenon DEF Named, Handler, HandlerType, Kinds
<1>10. Kept(k)
  <2>1. k.s[s] = x /\ \A u \in SessId : u # s => k.s[u] = h.s[u]
    BY <1>3, <1>5, <1>6, <1>7
  <2>2. k.clients = [h.clients EXCEPT ![x.at] = s] /\ x.at \in Endpoint /\ h.clients[x.at] = None
    BY <1>3, <1>4, <1>5, <1>6, <1>7, Zenon
  <2>3. Placed(k, h, s, x)
    BY <1>4, <2>2, Zenon DEF Placed
  <2>4. Waiting(h) \subseteq Waiting(k) /\ \A m \in Waiting(k) : m \in Waiting(h) \/ Named(k, m)
    BY <1>8, <1>9, Zenon
  <2> QED BY <1>1, <1>4, <1>7, <2>1, <2>3, <2>4, KeptByNew, Zenon
<1> QED BY <1>2, <1>10, Zenon DEF c, s

-----------------------------------------------------------------------------
(* The handlers of the event loop. *)

\* Encapsulate finds or makes the session of a node.
LEMMA KeptByHandleFwd ==
    ASSUME NEW h, Kept(h), NEW p \in SessId, h.s[p].live, h.s[p].parent = None,
           NEW node \in Node, NEW q \in HandleFwd(h, p, node)
    PROVE  Kept(q[1]) /\ q[2] \in SessId
<1> DEFINE of == {s \in SessId : h.s[s].lib /\ h.s[s].parent = p /\ h.s[s].at = node}
<1>1. HandleFwd(h, p, node) =
        CASE of # {} -> {<<h, Min(of)>>}
          [] of = {} /\ Unmade(h) # {} -> {<<FwdEncSessionCreated(h, p, node), Min(Unmade(h))>>}
          [] of = {} /\ Unmade(h) = {} -> {}
  BY Zenon DEF HandleFwd
<1>2. of \in SUBSET SessId
  BY Zenon
<1> HIDE DEF of
<1>3. CASE of # {}
  <2>1. q = <<h, Min(of)>>
    BY <1>1, <1>3, Zenon
  <2>2. Min(of) \in SessId
    BY <1>2, <1>3, MinIsMember, Zenon
  <2> QED BY <2>1, <2>2, Zenon
<1>4. CASE of = {} /\ Unmade(h) # {}
  <2>1. q = <<FwdEncSessionCreated(h, p, node), Min(Unmade(h))>>
    BY <1>1, <1>4, Zenon
  <2>2. Kept(FwdEncSessionCreated(h, p, node))
    BY <1>4, KeptByFwdEncSessionCreated, Zenon
  <2>3. Min(Unmade(h)) \in SessId
    BY <1>4, NextSession, Zenon DEF Kept, Sound
  <2> QED BY <2>1, <2>2, <2>3, Zenon
<1>5. CASE of = {} /\ Unmade(h) = {}
  BY <1>1, <1>5, Zenon
<1> QED BY <1>3, <1>4, <1>5, Zenon

\* dataFromClient.
LEMMA GoodByDataFromClient ==
    ASSUME NEW h, Kept(h), NEW s \in SessId, h.s[s].live, h.s[s].parent = None,
           NEW k \in DataFromClient(h, s)
    PROVE  Good(k)
<1>1. \/ k = h \/ k \in LibCall(h, s)
      \/ \E node \in Node : \E q \in HandleFwd(h, s, node) : k \in LibCall(q[1], q[2])
  BY Zenon DEF DataFromClient, EncapsulatedData
<1>2. CASE k = h
  BY <1>2, Zenon DEF Good
<1>3. CASE k \in LibCall(h, s)
  BY <1>3, GoodByLibCall, Zenon
<1>4. CASE \E node \in Node : \E q \in HandleFwd(h, s, node) : k \in LibCall(q[1], q[2])
  <2>1. PICK node \in Node : \E q \in HandleFwd(h, s, node) : k \in LibCall(q[1], q[2])
    BY <1>4, Zenon
  <2>2. PICK q \in HandleFwd(h, s, node) : k \in LibCall(q[1], q[2])
    BY <2>1, Zenon
  <2>3. Kept(q[1]) /\ q[2] \in SessId
    BY <2>2, KeptByHandleFwd, Zenon
  <2> QED BY <2>2, <2>3, GoodByLibCall, Zenon
<1> QED BY <1>1, <1>2, <1>3, <1>4, Zenon

\* The callback in startImpl of the client's socket.
LEMMA GoodByStarted ==
    ASSUME NEW h, Kept(h), NEW s \in SessId, h.s[s].parent = None, NEW k \in Started(h, s)
    PROVE  Good(k)
<1> DEFINE j == [h EXCEPT !.s[s].started = TRUE]
<1>1. CASE ~ h.s[s].live
  BY <1>1, StaleIsBroken, Zenon DEF Started, Good
<1>2. CASE h.s[s].live
  <2>1. k \in DataFromClient(j, s)
    BY <1>2, Zenon DEF Started
  <2>2. Kept(j)
    BY SoftMembers, Zenon
  <2>3. j.s[s] = [h.s[s] EXCEPT !.started = TRUE] /\ h.s[s] \in SessionType
    <3>1. h \in StateType /\ h.s[s] \in SessionType
      BY LiveSession, Zenon
    <3> QED BY <3>1, Zenon DEF StateType
  <2> HIDE DEF j
  <2>4. j.s[s].live /\ j.s[s].parent = None
    BY <1>2, <2>3, Zenon DEF SessionType
  <2> QED BY <2>1, <2>2, <2>4, GoodByDataFromClient, Zenon
<1> QED BY <1>1, <1>2, Zenon

\* reportConnected of the broker's socket.
LEMMA GoodByConnected ==
    ASSUME NEW h, Kept(h), NEW s \in SessId, NEW k \in Connected(h, s)
    PROVE  Good(k)
<1> DEFINE j == [h EXCEPT !.s[s].brokerConnected = TRUE]
<1>1. CASE ~ h.s[s].live
  BY <1>1, StaleIsBroken, Zenon DEF Connected, Good
<1>2. CASE h.s[s].live
  <2>1. k \in SetBrokerConnected(j, s, TRUE)
    BY <1>2, Zenon DEF Connected
  <2>2. Kept(j)
    BY SoftMembers, Zenon
  <2>3. j.s[s] = [h.s[s] EXCEPT !.brokerConnected = TRUE] /\ h.s[s] \in SessionType
    <3>1. h \in StateType /\ h.s[s] \in SessionType
      BY LiveSession, Zenon
    <3> QED BY <3>1, Zenon DEF StateType
  <2> HIDE DEF j
  <2>4. j.s[s].live
    BY <1>2, <2>3, Zenon DEF SessionType
  <2> QED BY <2>1, <2>2, <2>4, GoodBySetBrokerConnected, Zenon DEF Good
<1> QED BY <1>1, <1>2, Zenon

\* The connection goes: setBrokerConnected is called if it was reported.
LEMMA GoodByDisconnected ==
    ASSUME NEW h, Kept(h), NEW s \in SessId, h.s[s].live,
           NEW k \in IF h.s[s].brokerConnected THEN SetBrokerConnected(h, s, FALSE) ELSE {h}
    PROVE  Broken(k) \/ (Kept(k) /\ k.s[s].made)
<1>1. CASE h.s[s].brokerConnected
  BY <1>1, GoodBySetBrokerConnected, Zenon
<1>2. CASE ~ h.s[s].brokerConnected
  BY <1>2, LiveSession, Zenon
<1> QED BY <1>1, <1>2, Zenon

\* reportError of the broker's socket.
LEMMA GoodByBrokerError ==
    ASSUME NEW h, Kept(h), NEW s \in SessId, NEW k \in BrokerError(h, s)
    PROVE  Good(k)
<1>1. CASE ~ h.s[s].live
  BY <1>1, StaleIsBroken, Zenon DEF BrokerError, Good
<1>2. CASE h.s[s].live
  <2> DEFINE set == IF h.s[s].brokerConnected THEN SetBrokerConnected(h, s, FALSE) ELSE {h}
  <2>1. k \in {[j EXCEPT !.s[s].brokerConnected = FALSE, !.s[s].reconnectTimer = TRUE] : j \in set}
    BY <1>2, Zenon DEF BrokerError
  <2>2. \A j \in set : Broken(j) \/ (Kept(j) /\ j.s[s].made)
    BY <1>2, GoodByDisconnected, Zenon
  <2> HIDE DEF set
  <2>3. PICK j \in set : k = [j EXCEPT !.s[s].brokerConnected = FALSE, !.s[s].reconnectTimer = TRUE]
    BY <2>1, Zenon
  <2>4. CASE Broken(j)
    <3>1. "connected" \in Kinds
      BY Zenon DEF Kinds
    <3> QED BY <2>3, <2>4, <3>1, BrokenMembers, Zenon DEF Good
  <2>5. CASE Kept(j)
    <3> DEFINE a == [j EXCEPT !.s[s].brokerConnected = FALSE]
    <3>1. k = [a EXCEPT !.s[s].reconnectTimer = TRUE]
      BY <2>3, Zenon
    <3>2. Kept(a)
      BY <2>5, SoftMembers, Zenon
    <3> HIDE DEF a
    <3> QED BY <3>1, <3>2, SoftMembers, Zenon DEF Good
  <2> QED BY <2>2, <2>4, <2>5, Zenon
<1> QED BY <1>1, <1>2, Zenon

\* The reconnect timer's handler makes a new socket.
LEMMA GoodByReconnect ==
    ASSUME NEW h, Kept(h), NEW s \in SessId, NEW k \in Reconnect(h, s)
    PROVE  Good(k)
<1>0. "connected" \in Kinds
  BY Zenon DEF Kinds
<1>1. CASE ~ h.s[s].live
  BY <1>1, StaleIsBroken, Zenon DEF Reconnect, Good
<1>2. CASE h.s[s].live
  <2> DEFINE set == IF h.s[s].brokerConnected THEN SetBrokerConnected(h, s, FALSE) ELSE {h}
  <2>1. k \in {Post([j EXCEPT !.s[s].brokerConnected = FALSE], "connected", s) : j \in set}
    BY <1>2, Zenon DEF Reconnect, DoBrokerConnect
  <2>2. \A j \in set : Broken(j) \/ (Kept(j) /\ j.s[s].made)
    BY <1>2, GoodByDisconnected, Zenon
  <2> HIDE DEF set
  <2>3. PICK j \in set : k = Post([j EXCEPT !.s[s].brokerConnected = FALSE], "connected", s)
    BY <2>1, Zenon
  <2>4. CASE Broken(j)
    BY <1>0, <2>3, <2>4, BrokenMembers, Zenon DEF Good
  <2>5. CASE Kept(j) /\ j.s[s].made
    <3> DEFINE a == [j EXCEPT !.s[s].brokerConnected = FALSE]
    <3>1. Kept(a)
      BY <2>5, SoftMembers, Zenon
    <3>2. a.s[s] = [j.s[s] EXCEPT !.brokerConnected = FALSE] /\ j.s[s] \in SessionType
      <4>1. j \in StateType /\ j.s[s] \in SessionType
        BY <2>5, LiveSession, Zenon
      <4> QED BY <4>1, Zenon DEF StateType
    <3> HIDE DEF a
    <3>3. a.s[s].made
      BY <2>5, <3>2, Zenon DEF SessionType
    <3>4. Named(a, Handler("connected", s))
      BY <3>3, Zenon DEF Named, Handler, HandlerType, Kinds
    <3>5. Kept(Post(a, "connected", s))
      BY <1>0, <3>1, <3>4, KeptByPost, Zenon
    <3> QED BY <2>3, <3>5, Zenon DEF Good, a
  <2> QED BY <2>2, <2>4, <2>5, Zenon
<1> QED BY <1>1, <1>2, Zenon

LEMMA GoneFields ==
    ASSUME NEW x \in SessionType, NEW b \in BOOLEAN
    PROVE  /\ Gone(x) \in SessionType /\ ~ Gone(x).live /\ Gone(x).made
           /\ Gone(x).parent = x.parent /\ Gone(x).at = x.at
           /\ LET y == [Gone(x) EXCEPT !.lib = b] IN
              y \in SessionType /\ ~ y.live /\ y.made /\ y.parent = x.parent /\ y.at = x.at
<1>1. /\ Gone(x) \in SessionType /\ ~ Gone(x).live /\ Gone(x).made
      /\ Gone(x).parent = x.parent /\ Gone(x).at = x.at
  BY ZenonT(60) DEF Gone, NoSession, SessionType
<1> DEFINE z == Gone(x)
           y == [z EXCEPT !.lib = b]
<1> HIDE DEF z
<1>2. y \in SessionType /\ y.live = z.live /\ y.made = z.made /\ y.parent = z.parent /\ y.at = z.at
  <2>1. z \in SessionType
    BY <1>1, Zenon DEF z
  <2> QED BY <2>1, Zenon DEF SessionType
<1> QED BY <1>1, <1>2, Zenon DEF z

\* The handler for a second encapsulated session with an id.
LEMMA GoodByEraseFwd ==
    ASSUME NEW h, Kept(h), NEW s \in SessId, h.s[s].made, h.s[s].parent # None
    PROVE  Good(EraseFwd(h, s))
<1> DEFINE x == [Gone(h.s[s]) EXCEPT !.lib = h.s[s].lib]
<1>1. h \in StateType /\ h.s[s] \in SessionType
  BY LiveSession, Zenon
<1>2. h.s[s].lib \in BOOLEAN
  BY <1>1, Zenon DEF SessionType
<1>3. x \in SessionType /\ ~ x.live /\ x.made /\ x.parent = h.s[s].parent /\ x.at = h.s[s].at
  BY <1>1, <1>2, GoneFields, Zenon
<1>4. EraseFwd(h, s) \in {[h EXCEPT !.s[s] = x], Stale}
  BY Zenon DEF EraseFwd
<1> HIDE DEF x
<1>5. KeptBut(h, s)
  BY Zenon DEF Kept, KeptBut
<1>6. Kept([h EXCEPT !.s[s] = x])
  BY <1>3, <1>5, KeptByEraseOfFwd, Zenon
<1> QED BY <1>4, <1>6, StaleIsBroken, Zenon DEF Good

\* The handler posted when an encapsulated session was deleted.
LEMMA GoodByFwdEncSessionDeleted ==
    ASSUME NEW h, NEW s \in SessId, KeptBut(h, s), h.s[s].made, h.s[s].parent # None
    PROVE  Good(FwdEncSessionDeleted(h, s))
<1> DEFINE p == h.s[s].parent
           x == Gone(h.s[s])
           k == [h EXCEPT !.s[s] = x]
<1>0. h \in StateType /\ h.s[s] \in SessionType
  BY StateFields, Zenon DEF KeptBut, Sound
<1>1. p \in SessId /\ h.s[p].made /\ h.s[p].parent = None
  BY <1>0, Zenon DEF KeptBut, Sound, Linked, SessionType
<1>2. x \in SessionType /\ ~ x.live /\ x.made /\ x.parent = h.s[s].parent /\ x.at = h.s[s].at
  BY <1>0, GoneFields, Zenon
<1>3. \/ FwdEncSessionDeleted(h, s) = Stale
      \/ FwdEncSessionDeleted(h, s) = h /\ ~ h.s[s].live
      \/ FwdEncSessionDeleted(h, s) \in {k, DoTerminate(k, p)}
  BY Zenon DEF FwdEncSessionDeleted
<1> HIDE DEF x
<1>4. Kept(k)
  BY <1>2, KeptByEraseOfFwd, Zenon
<1>5. k.s[p] = h.s[p]
  BY <1>0, <1>1, Zenon DEF StateType
<1> HIDE DEF k
<1>6. Named(k, Handler("term", p))
  BY <1>1, <1>5, Zenon DEF Named, Handler, HandlerType, Kinds
<1>7. Kept(DoTerminate(k, p))
  <2>1. "term" \in Kinds
    BY Zenon DEF Kinds
  <2> QED BY <1>1, <1>4, <1>6, <2>1, KeptByPost, Zenon DEF DoTerminate
<1>8. ~ h.s[s].live => Kept(h)
  BY Zenon DEF Kept, KeptBut, EndWaits
<1> QED BY <1>3, <1>4, <1>7, <1>8, StaleIsBroken, Zenon DEF Good

\* The callback of GatewayApp for the end of a session.
LEMMA GoodByTermReq ==
    ASSUME NEW h, NEW s \in SessId, KeptBut(h, s), h.s[s].parent = None
    PROVE  Good(TermReq(h, s))
<1>1. CASE ~ h.s[s].live
  BY <1>1, StaleIsBroken, Zenon DEF TermReq, Good
<1>2. CASE h.s[s].live
  <2>1. s \in Sessions(h)
    BY <1>2, Zenon DEF Sessions
  <2>2. Kept(Destroy(h, s))
    BY <2>1, KeptByDestroy, Zenon DEF KeptBut, Kept
  <2> QED BY <1>2, <2>2, Zenon DEF TermReq, Good
<1> QED BY <1>1, <1>2, Zenon

\* doAccept.
LEMMA GoodByDoAccept ==
    ASSUME NEW h, Kept(h), NEW e \in Endpoint, NEW k \in DoAccept(h, e)
    PROVE  Good(k)
<1>1. CASE h.clients[e] # None
  <2> DEFINE s == h.clients[e]
  <2>1. k \in NewDataArrived(h, s)
    BY <1>1, Zenon DEF DoAccept
  <2>2. s \in SessId /\ h.s[s].live /\ h.s[s].parent = None
    BY <1>1, Zenon DEF Kept, Sound, Known, Sessions
  <2> HIDE DEF s
  <2>3. k = h \/ k \in DataFromClient(h, s)
    BY <2>1, Zenon DEF NewDataArrived
  <2> QED BY <2>2, <2>3, GoodByDataFromClient, Zenon DEF Good
<1>2. CASE h.clients[e] = None /\ Unmade(h) = {}
  BY <1>2, Zenon DEF DoAccept, Good
<1>3. CASE h.clients[e] = None /\ Unmade(h) # {}
  <2>1. k = NewConnection([h EXCEPT !.clients[e] = Min(Unmade(h))], e)
    BY <1>3, Zenon DEF DoAccept
  <2> QED BY <1>3, <2>1, KeptByNewConnection, Zenon DEF Good
<1> QED BY <1>1, <1>2, <1>3, Zenon

\* Once the loop took a handler, what it ends, if anything, still has to go.
LEMMA KeptByTake ==
    ASSUME NEW h, Kept(h), h.ready # << >>
    PROVE  LET k == [h EXCEPT !.ready = Tail(@)]
               m == Head(h.ready)
           IN /\ Named(k, m) /\ KeptBut(k, m.s)
              /\ m.kind \notin {"term", "fwdDeleted"} => Kept(k)
<1> DEFINE k == [h EXCEPT !.ready = Tail(@)]
           m == Head(h.ready)
<1>0. /\ h \in StateType /\ \A u \in SessId : Linked(h, u) /\ EndWaits(h, u)
      /\ \A n \in Waiting(h) : Named(h, n)
      /\ AtMostOne(h) /\ Known(h)
  BY Zenon DEF Kept, Sound
<1>1. /\ k \in StateType /\ k.s = h.s /\ k.clients = h.clients
      /\ Waiting(h) = Waiting(k) \cup {m}
  BY <1>0, TakeFields, Zenon
<1> HIDE DEF k, m
<1>2. Named(k, m)
  BY <1>0, <1>1, SMTT(30) DEF Named
<1>3. Sound(k) /\ AtMostOne(k)
  <2>1. \A u \in SessId : Linked(k, u)
    BY <1>0, <1>1, Zenon DEF Linked
  <2>2. \A n \in Waiting(k) : Named(k, n)
    BY <1>0, <1>1, SMTT(30) DEF Named
  <2>3. Sessions(k) = Sessions(h)
    BY <1>1, Zenon DEF Sessions
  <2>4. Known(k) /\ AtMostOne(k)
    BY <1>0, <1>1, <2>3, Zenon DEF Known, AtMostOne
  <2> QED BY <1>1, <2>1, <2>2, <2>4, Zenon DEF Sound
<1>4. ASSUME NEW u \in SessId, u # m.s \/ m.kind \notin {"term", "fwdDeleted"}
      PROVE  EndWaits(k, u)
  <2>1. Ender(h, u).s = u /\ Ender(h, u).kind \in {"term", "fwdDeleted"}
    BY Zenon DEF Ender, Handler
  <2>2. Ender(h, u) # m
    BY <1>4, <2>1, Zenon
  <2>3. Ender(k, u) = Ender(h, u)
    BY <1>1, Zenon DEF Ender
  <2> QED BY <1>0, <1>1, <2>2, <2>3, Zenon DEF EndWaits
<1>5. KeptBut(k, m.s) /\ (m.kind \notin {"term", "fwdDeleted"} => Kept(k))
  BY <1>3, <1>4, Zenon DEF KeptBut, Kept
<1> QED BY <1>2, <1>5, Zenon DEF k, m

\* Whatever handler the loop runs.
LEMMA GoodByHandle ==
    ASSUME NEW h, NEW m, Named(h, m), KeptBut(h, m.s),
           m.kind \notin {"term", "fwdDeleted"} => Kept(h),
           NEW k \in Handle(h, m)
    PROVE  Good(k)
<1>0. m.kind \in Kinds /\ (m.kind # "datagram" => m.s \in SessId /\ h.s[m.s].made)
  BY Zenon DEF Named, HandlerType
<1>1. CASE m.kind = "started"
  BY <1>0, <1>1, GoodByStarted, Zenon DEF Handle, Named
<1>2. CASE m.kind = "connected"
  BY <1>0, <1>2, GoodByConnected, Zenon DEF Handle
<1>3. CASE m.kind = "term"
  BY <1>0, <1>3, GoodByTermReq, Zenon DEF Handle, Named
<1>4. CASE m.kind = "fwdDeleted"
  BY <1>0, <1>4, GoodByFwdEncSessionDeleted, Zenon DEF Handle, Named
<1>5. CASE m.kind = "erase"
  BY <1>0, <1>5, GoodByEraseFwd, Zenon DEF Handle, Named
<1>6. CASE m.kind = "call"
  BY <1>0, <1>6, GoodByLibCall, Zenon DEF Handle
<1>7. CASE m.kind = "error"
  BY <1>0, <1>7, GoodByBrokerError, Zenon DEF Handle
<1>8. CASE m.kind = "reconnect"
  BY <1>0, <1>8, GoodByReconnect, Zenon DEF Handle
<1>9. CASE m.kind = "datagram"
  BY <1>0, <1>9, GoodByDoAccept, Zenon DEF Handle, Named
<1> QED BY <1>0, <1>1, <1>2, <1>3, <1>4, <1>5, <1>6, <1>7, <1>8, <1>9, Zenon DEF Kinds
-----------------------------------------------------------------------------
(* The program. *)

LEMMA GoodInit == Init => Good(g)
<1> SUFFICES ASSUME Init PROVE Kept(g)
  BY Zenon DEF Good
<1>1. NoSession \in SessionType /\ ~ NoSession.live /\ ~ NoSession.made /\ NoSession.parent = None
  BY Zenon DEF NoSession, SessionType
<1> HIDE DEF NoSession
<1>2. << >> \in Seq(HandlerType)
  OBVIOUS
<1>3. /\ g.s = [s \in SessId |-> NoSession] /\ g.clients = [e \in Endpoint |-> None]
      /\ g.ready = << >> /\ g \in StateType
  BY <1>1, <1>2, Zenon DEF Init, NoSessions, StateType
<1>4. \A u \in SessId : Linked(g, u) /\ EndWaits(g, u)
  BY <1>1, <1>3, Zenon DEF Linked, EndWaits
<1>5. Sessions(g) = {}
  BY <1>1, <1>3, Zenon DEF Sessions
<1>6. AtMostOne(g) /\ Known(g)
  BY <1>3, <1>5, Zenon DEF AtMostOne, Known
<1>7. Waiting(g) = {}
  BY <1>3 DEF Waiting
<1> QED BY <1>3, <1>4, <1>6, <1>7, Zenon DEF Kept, Sound

LEMMA GoodNext == Good(g) /\ [Next]_g => Good(g')
<1> SUFFICES ASSUME Good(g), Next PROVE Good(g')
  BY Zenon DEF Good
<1>0. ~ g.stale => Kept(g)
  BY Zenon DEF Good, Broken
<1>1. CASE Run
  <2>1. Kept(g) /\ g.ready # << >>
    BY <1>0, <1>1, Zenon DEF Run
  <2> DEFINE k == [g EXCEPT !.ready = Tail(@)]
             m == Head(g.ready)
  <2>2. g' \in Handle(k, m)
    BY <1>1, Zenon DEF Run
  <2>3. /\ Named(k, m) /\ KeptBut(k, m.s)
        /\ m.kind \notin {"term", "fwdDeleted"} => Kept(k)
    BY <2>1, KeptByTake, Zenon
  <2> HIDE DEF k, m
  <2> QED BY <2>2, <2>3, GoodByHandle, Zenon
<1>2. ASSUME NEW s \in SessId, EventReady(s) PROVE Good(g')
  <2>1. Kept(g) /\ g.s[s].made
    BY <1>0, <1>2, LiveSession, Zenon DEF EventReady, Complete
  <2>2. "call" \in Kinds /\ Named(g, Handler("call", s))
    BY <2>1, Zenon DEF Named, Handler, HandlerType, Kinds
  <2> QED BY <1>2, <2>1, <2>2, KeptByPost, Zenon DEF EventReady, Complete, Good
<1>3. ASSUME NEW s \in SessId, ErrorReady(s) PROVE Good(g')
  <2>1. Kept(g) /\ g.s[s].made
    BY <1>0, <1>3, LiveSession, Zenon DEF ErrorReady, Complete
  <2>2. "error" \in Kinds /\ Named(g, Handler("error", s))
    BY <2>1, Zenon DEF Named, Handler, HandlerType, Kinds
  <2> QED BY <1>3, <2>1, <2>2, KeptByPost, Zenon DEF ErrorReady, Complete, Good
<1>4. ASSUME NEW s \in SessId, TimerReady(s) PROVE Good(g')
  <2>1. Kept(g) /\ g.s[s].made
    BY <1>0, <1>4, LiveSession, Zenon DEF TimerReady
  <2>2. "reconnect" \in Kinds /\ Named(g, Handler("reconnect", s))
    BY <2>1, Zenon DEF Named, Handler, HandlerType, Kinds
  <2>3. Kept(Post(g, "reconnect", s))
    BY <2>1, <2>2, KeptByPost, Zenon
  <2>4. g' = [Post(g, "reconnect", s) EXCEPT !.s[s].reconnectTimer = FALSE]
    BY <1>4, Zenon DEF TimerReady
  <2> QED BY <2>3, <2>4, SoftMembers, Zenon DEF Good
<1>5. ASSUME NEW e \in Endpoint, DatagramReady(e) PROVE Good(g')
  <2>1. Kept(g)
    BY <1>0, <1>5, Zenon DEF DatagramReady, Complete
  <2>2. "datagram" \in Kinds /\ Named(g, Handler("datagram", e))
    BY Zenon DEF Named, Handler, HandlerType, Kinds
  <2> QED BY <1>5, <2>1, <2>2, KeptByPost, Zenon DEF DatagramReady, Complete, Good
<1> QED BY <1>1, <1>2, <1>3, <1>4, <1>5, Zenon DEF Next

LEMMA AlwaysGood == Spec => []Good(g)
<1>1. Good(g) /\ [Next]_g => Good(g)'
  BY GoodNext, Zenon
<1> QED BY <1>1, GoodInit, PTL DEF Spec

\* Two sessions of the program never serve the same client id: the report of an id,
\* by a session or one encapsulated in it, ends the session that had it
\* (GatewayApp's callback, which Session.cpp's report reaches through
\* GatewaySession).
THEOREM OneSessionPerClientHolds == Spec => []OneSessionPerClient
<1>1. Good(g) => OneSessionPerClient
  BY Zenon DEF Good, Kept, Broken, AtMostOne, OneSessionPerClient, Sessions
<1> QED BY <1>1, AlwaysGood, PTL

\* The acceptor's map of endpoints (GatewayIoClientAcceptor_Udp) holds exactly the
\* sockets of the sessions that exist, whichever way they end.
THEOREM EndpointsAgreeHolds == Spec => []EndpointsAgree
<1>1. Good(g) => EndpointsAgree
  BY Zenon DEF Good, Kept, Sound, Broken, Known, EndpointsAgree, Sessions
<1> QED BY <1>1, AlwaysGood, PTL

\* Until a session that asked for its end is gone, the handler that ends it waits
\* in the loop.
THEOREM EndIsPostedHolds == Spec => []EndIsPosted
<1>1. Good(g) => EndIsPosted
  <2> SUFFICES ASSUME Good(g), NEW s \in SessId, g.s[s].live, g.s[s].terminating
               PROVE  \E i \in DOMAIN g.ready :
                        g.ready[i] = Handler(IF g.s[s].parent = None THEN "term" ELSE "fwdDeleted", s)
    BY Zenon DEF EndIsPosted
  <2>1. EndWaits(g, s)
    BY Zenon DEF Good, Kept, Broken
  <2> QED BY <2>1, Zenon DEF EndWaits, Ender, Waiting
<1> QED BY <1>1, AlwaysGood, PTL
=============================================================================
