-------------------------- MODULE ClientConn_proofs --------------------------
(***************************************************************************)
(* Safety of the client library's connection, for any retry period and     *)
(* count, any durations and wills, and however late the timers are served. *)
(***************************************************************************)
EXTENDS ClientConn, FiniteSetTheorems, WellFoundedInduction, SequenceTheorems, TLAPS

Owner == {"ping", "recv", "resp", "Connect", "Disconnect", "Will"}
Slot == [owner : Owner \cup {"none"}, left : Nat]

OpSet(ops) == {ops[i] : i \in DOMAIN ops}
Single(ops) == \A i, j \in DOMAIN ops : ops[i] = ops[j] => i = j

\* The table holds the timers in T, each once.
Table(ts, T) ==
    /\ ts \in [1 .. 6 -> Slot]
    /\ \A i \in 1 .. 6 : ts[i].owner = "none" => ts[i].left = 0
    /\ \A i, j \in 1 .. 6 : ts[i].owner = ts[j].owner /\ ts[i].owner # "none" => i = j
    /\ T \subseteq Owner
    /\ \A t \in Owner : t \in T <=> \E i \in 1 .. 6 : ts[i].owner = t

Owners(S) == {t \in Owner : OwnerOp(t) \in S}

Field == {"initialized", "firstConnect", "connectionStatus", "disconnecting", "keepAliveMs",
          "prevWill", "ops", "timers", "retries", "stage", "conf", "sent", "reason", "owed", "pings"}

Typed(c) ==
    /\ DOMAIN c = Field
    /\ c.ops \in Seq(Op) /\ Single(c.ops) /\ Table(c.timers, Owners(OpSet(c.ops)))
    /\ c.retries \in [Op -> Nat] /\ DOMAIN c.conf = Op \ {"KeepAlive"}
    /\ c.keepAliveMs \in Nat /\ c.pings \in 0 .. RetryCount + 1

\* Every operation that has its callback is there, and is waited for; after the
\* disconnection nothing is.
Reported(c) ==
    /\ c.owed = c.sent /\ c.sent \subseteq OpSet(c.ops) \ {"KeepAlive"}
    /\ c.disconnecting =>
           ~ c.initialized /\ c.ops = << >> /\ c.connectionStatus = "Disconnected"
    /\ c.reason = "NoGatewayResponse" => c.disconnecting /\ c.pings = RetryCount + 1
    /\ Has(c, "Disconnect") => c.conf["Disconnect"] \in {0, Sleep}

\* The PINGREQs since the last PINGRESP make up for the attempts that are gone; due
\* are the timers that have run out and are not called back yet.
Awaited(c, due) ==
    (IF "resp" \in Active(c.timers) THEN 1 ELSE 0) + (IF "resp" \in due THEN 1 ELSE 0)

Pinged(c, due) ==
    /\ c.connectionStatus # "Disconnected" => Has(c, "KeepAlive")
    /\ Has(c, "KeepAlive") =>
           /\ c.keepAliveMs > 0
           /\ c.pings = RetryCount + 1 \/ c.pings + c.retries["KeepAlive"] >= RetryCount + Awaited(c, due)

Watched(c, due) ==
    Has(c, "KeepAlive") => TimersOf("KeepAlive") \cap (Active(c.timers) \cup due) # {}

Sound(c, due) == Typed(c) /\ Reported(c) /\ Pinged(c, due)
Good(c, due) == Sound(c, due) /\ Watched(c, due)

ConnInv == Good(k, {})

-----------------------------------------------------------------------------
(* Numbers and lists. *)

LEMMA MinIs ==
    ASSUME NEW S \in SUBSET Nat, S # {}
    PROVE  Min(S) \in S /\ \A i \in S : Min(S) <= i
<1>1. PICK x \in S : \A y \in S : ~ (<<y, x>> \in OpToRel(<, Nat))
  BY NatLessThanWellFounded, WFMin, Zenon
<1>2. ASSUME NEW y \in S PROVE x <= y
  <2>1. y < x => <<y, x>> \in OpToRel(<, Nat)
    <3>1. <<y, x>> \in Nat \X Nat /\ <<y, x>>[1] = y /\ <<y, x>>[2] = x
      BY Zenon
    <3> QED BY <3>1, Zenon DEF OpToRel
  <2>2. ~ (y < x)
    BY <1>1, <2>1, Zenon
  <2> QED BY <2>2
<1> QED BY <1>2, Zenon DEF Min

\* What holds at 0, and at i + 1 if it holds at i, holds up to n; S is where it does.
LEMMA UpTo ==
    ASSUME NEW n \in Nat, NEW S, 0 \in S, \A i \in 0 .. n - 1 : i \in S => i + 1 \in S
    PROVE  \A i \in 0 .. n : i \in S
<1> DEFINE T == {i \in 0 .. n : i \notin S}
<1> SUFFICES ASSUME T # {} PROVE FALSE
  BY Zenon
<1>1. T \in SUBSET Nat
  OBVIOUS
<1> DEFINE m == Min(T)
<1>2. m \in T /\ \A i \in T : m <= i
  BY <1>1, MinIs, Zenon
<1> HIDE DEF m
<1>3. m # 0 /\ m - 1 \in 0 .. n - 1 /\ m - 1 \notin T
  BY <1>2
<1> QED BY <1>2, <1>3

LEMMA HasIs ==
    ASSUME NEW c, c.ops \in Seq(Op), NEW op
    PROVE  Has(c, op) <=> op \in OpSet(c.ops)
BY Zenon DEF Has, Range, OpSet

LEMMA Appended ==
    ASSUME NEW ops \in Seq(Op), Single(ops), NEW op \in Op, op \notin OpSet(ops)
    PROVE  /\ Append(ops, op) \in Seq(Op) /\ Single(Append(ops, op))
           /\ OpSet(Append(ops, op)) = OpSet(ops) \cup {op}
<1> DEFINE r == Append(ops, op)
<1>1. /\ r \in Seq(Op) /\ Len(ops) \in Nat /\ DOMAIN ops = 1 .. Len(ops)
      /\ DOMAIN r = 1 .. Len(ops) + 1
      /\ \A i \in 1 .. Len(ops) : r[i] = ops[i]
      /\ r[Len(ops) + 1] = op
  OBVIOUS
<1> HIDE DEF r
<1>2. OpSet(r) = OpSet(ops) \cup {op}
  BY <1>1 DEF OpSet
<1>3. Single(r)
  BY <1>1 DEF Single, OpSet
<1> QED BY <1>1, <1>2, <1>3, Zenon DEF r

LEMMA Removed ==
    ASSUME NEW ops \in Seq(Op), Single(ops), NEW op \in Op
    PROVE  /\ Erase(ops, op) \in Seq(Op) /\ Single(Erase(ops, op))
           /\ OpSet(Erase(ops, op)) = OpSet(ops) \ {op}
<1>1. CASE op \notin OpSet(ops)
  <2>1. Erase(ops, op) = ops
    BY <1>1, Zenon DEF Erase, Range, OpSet
  <2> QED BY <1>1, <2>1, Zenon
<1>2. CASE op \in OpSet(ops)
  <2> DEFINE n == CHOOSE i \in DOMAIN ops : ops[i] = op
             r == SubSeq(ops, 1, n - 1) \o SubSeq(ops, n + 1, Len(ops))
  <2>1. Erase(ops, op) = r
    BY <1>2, Zenon DEF Erase, Range, OpSet
  <2>2. n \in 1 .. Len(ops) /\ ops[n] = op
    <3>1. \E i \in DOMAIN ops : ops[i] = op
      BY <1>2, Zenon DEF OpSet
    <3>2. n \in DOMAIN ops /\ ops[n] = op
      BY <3>1, Zenon
    <3> QED BY <3>2
  <2> HIDE DEF n
  <2>3. /\ r \in Seq(Op) /\ DOMAIN r = 1 .. Len(ops) - 1
        /\ \A i \in 1 .. Len(ops) - 1 : r[i] = IF i < n THEN ops[i] ELSE ops[i + 1]
    <3> DEFINE a == SubSeq(ops, 1, n - 1)
               b == SubSeq(ops, n + 1, Len(ops))
    <3>1. /\ a \in Seq(Op) /\ Len(a) = n - 1 /\ \A i \in 1 .. n - 1 : a[i] = ops[i]
          /\ b \in Seq(Op) /\ Len(b) = Len(ops) - n
          /\ \A i \in 1 .. Len(ops) - n : b[i] = ops[n + i]
      BY <2>2
    <3>2. r = a \o b
      BY Zenon
    <3> HIDE DEF a, b, r
    <3>3. /\ a \o b \in Seq(Op) /\ Len(a \o b) = Len(a) + Len(b)
          /\ \A i \in 1 .. Len(a) + Len(b) :
                 (a \o b)[i] = IF i <= Len(a) THEN a[i] ELSE b[i - Len(a)]
      BY <3>1, ConcatProperties, Zenon
    <3>4. r \in Seq(Op) /\ Len(r) = Len(ops) - 1 /\ DOMAIN r = 1 .. Len(ops) - 1
      BY <2>2, <3>1, <3>2, <3>3
    <3>5. ASSUME NEW i \in 1 .. Len(ops) - 1
          PROVE  r[i] = IF i < n THEN ops[i] ELSE ops[i + 1]
      <4>1. r[i] = IF i <= n - 1 THEN a[i] ELSE b[i - (n - 1)]
        BY <2>2, <3>1, <3>2, <3>3
      <4>2. CASE i < n
        BY <2>2, <3>1, <4>1, <4>2
      <4>3. CASE ~ (i < n)
        <5>1. i - (n - 1) \in 1 .. Len(ops) - n /\ n + (i - (n - 1)) = i + 1
          BY <2>2, <4>3
        <5>2. b[i - (n - 1)] = ops[n + (i - (n - 1))]
          BY <3>1, <5>1, Zenon
        <5> QED BY <2>2, <4>1, <4>3, <5>1, <5>2
      <4> QED BY <4>2, <4>3, Zenon
    <3> QED BY <3>4, <3>5, Zenon
  <2> HIDE DEF r
  <2>4. Single(r)
    <3> SUFFICES ASSUME NEW i \in DOMAIN r, NEW j \in DOMAIN r, r[i] = r[j]
                 PROVE  i = j
      BY Zenon DEF Single
    <3> DEFINE At(x) == IF x < n THEN x ELSE x + 1
    <3>0. i \in 1 .. Len(ops) - 1 /\ j \in 1 .. Len(ops) - 1 /\ Len(ops) \in Nat
      BY <2>3
    <3>1. /\ At(i) \in 1 .. Len(ops) /\ At(j) \in 1 .. Len(ops) /\ DOMAIN ops = 1 .. Len(ops)
          /\ ops[At(i)] = ops[At(j)]
      BY <2>2, <2>3, <3>0, SMTT(20)
    <3>2. At(i) = At(j)
      BY <3>1, Zenon DEF Single
    <3> QED BY <2>2, <3>0, <3>2
  <2>5. OpSet(r) = OpSet(ops) \ {op}
    <3>1. ASSUME NEW x \in OpSet(r)
          PROVE  x \in OpSet(ops) \ {op}
      <4>1. PICK i \in 1 .. Len(ops) - 1 : r[i] = x
        BY <2>3, Zenon DEF OpSet
      <4>2. PICK j \in 1 .. Len(ops) : j # n /\ ops[j] = x
        BY <2>2, <2>3, <4>1
      <4>3. x # op
        BY <2>2, <4>2 DEF Single
      <4> QED BY <4>2, <4>3 DEF OpSet
    <3>2. ASSUME NEW x \in OpSet(ops) \ {op}
          PROVE  x \in OpSet(r)
      <4>1. PICK i \in 1 .. Len(ops) : ops[i] = x
        BY DEF OpSet
      <4>2. CASE i < n
        <5>1. i \in DOMAIN r /\ r[i] = x
          BY <2>2, <2>3, <4>1, <4>2
        <5> QED BY <5>1, Zenon DEF OpSet
      <4>3. CASE i > n
        <5>1. i - 1 \in DOMAIN r /\ r[i - 1] = x
          BY <2>2, <2>3, <4>1, <4>3
        <5> QED BY <5>1, Zenon DEF OpSet
      <4> QED BY <2>2, <4>1, <4>2, <4>3
    <3> QED BY <3>1, <3>2, Zenon
  <2> QED BY <2>1, <2>3, <2>4, <2>5, Zenon
<1> QED BY <1>1, <1>2, Zenon

-----------------------------------------------------------------------------
(* The table of timers. *)

LEMMA OwnersCounted == IsFiniteSet(Owner) /\ Cardinality(Owner) = 6
<1> DEFINE A == {"ping"}
           B == A \cup {"recv"}
           C == B \cup {"resp"}
           D == C \cup {"Connect"}
           E == D \cup {"Disconnect"}
           F == E \cup {"Will"}
<1>1. IsFiniteSet(A) /\ Cardinality(A) = 1
  BY FS_Singleton, Zenon
<1>2. IsFiniteSet(B) /\ Cardinality(B) = 2
  BY <1>1, FS_AddElement
<1>3. IsFiniteSet(C) /\ Cardinality(C) = 3
  BY <1>2, FS_AddElement
<1>4. IsFiniteSet(D) /\ Cardinality(D) = 4
  BY <1>3, FS_AddElement
<1>5. IsFiniteSet(E) /\ Cardinality(E) = 5
  BY <1>4, FS_AddElement
<1>6. IsFiniteSet(F) /\ Cardinality(F) = 6
  BY <1>5, FS_AddElement
<1>7. Owner = F
  BY Zenon DEF Owner
<1> QED BY <1>6, <1>7, Zenon

LEMMA SixSlots == IsFiniteSet(1 .. 6) /\ Cardinality(1 .. 6) = 6
<1>1. ASSUME NEW n \in Nat \ {0}
      PROVE  IsFiniteSet(1 .. n) /\ Cardinality(1 .. n) = n
  <2>1. IsFiniteSet(1 .. n) /\ Cardinality(1 .. n) = IF 1 > n THEN 0 ELSE n - 1 + 1
    BY FS_Interval
  <2> QED BY <2>1
<1>2. \A n \in Nat \ {0} : IsFiniteSet(1 .. n) /\ Cardinality(1 .. n) = n
  BY <1>1, Zenon
<1>3. 6 \in Nat \ {0}
  OBVIOUS
<1> QED BY <1>2, <1>3, Zenon

\* TimerMgr never runs out of slots: there are as many as there are owners.
LEMMA FreeSlot ==
    ASSUME NEW ts, NEW T, Table(ts, T), NEW t \in Owner \ T
    PROVE  \E i \in 1 .. 6 : ts[i] = Unallocated
<1>1. SUFFICES ASSUME \A i \in 1 .. 6 : ts[i].owner # "none"
               PROVE  FALSE
  BY Zenon DEF Table, Slot, Unallocated
<1> DEFINE f == [i \in 1 .. 6 |-> ts[i].owner]
<1>2. f \in [1 .. 6 -> Owner \ {t}]
  BY <1>1, Zenon DEF Table, Slot
<1>3. IsFiniteSet(1 .. 6) /\ Cardinality(1 .. 6) = 6
  BY SixSlots, Zenon
<1>4. IsFiniteSet(Owner \ {t}) /\ Cardinality(Owner \ {t}) = 5
  BY OwnersCounted, FS_RemoveElement
<1>5. \E x, y \in 1 .. 6 : x # y /\ f[x] = f[y]
  <2> HIDE DEF f
  <2>1. Cardinality(Owner \ {t}) < Cardinality(1 .. 6)
    BY <1>3, <1>4
  <2> QED BY <1>2, <1>3, <1>4, <2>1, FS_PigeonHole
<1> QED BY <1>1, <1>5, Zenon DEF Table

LEMMA AllocTable ==
    ASSUME NEW ts, NEW T, Table(ts, T), NEW t \in Owner \ T
    PROVE  Table(AllocTimer(ts, t), T \cup {t}) /\ Active(AllocTimer(ts, t)) = Active(ts)
<1> DEFINE I == {i \in DOMAIN ts : ts[i] = Unallocated}
           n == Min(I)
           r == [ts EXCEPT ![n].owner = t]
<1>1. r = AllocTimer(ts, t)
  BY Zenon DEF AllocTimer
<1>2. n \in 1 .. 6 /\ ts[n] = Unallocated
  <2>1. I \in SUBSET Nat /\ I # {}
    BY FreeSlot DEF Table
  <2>2. n \in I
    BY <2>1, MinIs, Zenon
  <2> QED BY <2>2, Zenon DEF Table
<1> HIDE DEF n
<1>3. /\ r \in [1 .. 6 -> Slot] /\ r[n] = [owner |-> t, left |-> 0]
      /\ \A i \in 1 .. 6 : i # n => r[i] = ts[i]
  BY <1>2 DEF Table, Slot, Unallocated
<1>4. ts \in [1 .. 6 -> Slot] /\ ts[n].owner = "none" /\ ts[n].left = 0 /\ t # "none"
  BY <1>2 DEF Table, Unallocated, Owner
<1> HIDE DEF r
<1>5. Table(r, T \cup {t})
  <2>1. \A i \in 1 .. 6 : ts[i].owner # t
    BY Zenon DEF Table
  <2>2. \A i \in 1 .. 6 : r[i].owner = "none" => r[i].left = 0
    BY <1>2, <1>3, <1>4 DEF Table
  <2>3. \A i, j \in 1 .. 6 : r[i].owner = r[j].owner /\ r[i].owner # "none" => i = j
    BY <1>2, <1>3, <1>4, <2>1 DEF Table
  <2>4. \A u \in Owner : u \in T \cup {t} <=> \E i \in 1 .. 6 : r[i].owner = u
    <3> SUFFICES ASSUME NEW u \in Owner PROVE u \in T \cup {t} <=> \E i \in 1 .. 6 : r[i].owner = u
      BY Zenon
    <3>1. u \in T <=> \E i \in 1 .. 6 : ts[i].owner = u
      BY Zenon DEF Table
    <3>2. u # "none"
      BY Zenon DEF Owner
    <3> QED BY <1>2, <1>3, <1>4, <3>1, <3>2
  <2> QED BY <1>3, <2>2, <2>3, <2>4, Zenon DEF Table
<1>6. Active(r) = Active(ts)
  BY <1>2, <1>3, <1>4 DEF Active
<1> QED BY <1>1, <1>5, <1>6, Zenon

\* Changing the time left of allocated timers.
LEMMA LeftTable ==
    ASSUME NEW ts, NEW T, Table(ts, T), NEW r \in [1 .. 6 -> Slot],
           \A i \in 1 .. 6 : r[i].owner = ts[i].owner /\ (ts[i].left = 0 /\ ts[i].owner = "none" => r[i].left = 0)
    PROVE  Table(r, T)
BY SMTT(30) DEF Table

LEMMA ActiveIs ==
    ASSUME NEW ts \in [1 .. 6 -> Slot], NEW t
    PROVE  t \in Active(ts) <=> \E i \in 1 .. 6 : ts[i].owner = t /\ ts[i].left > 0
BY Zenon DEF Active

LEMMA WaitTable ==
    ASSUME NEW ts, NEW T, Table(ts, T), NEW t \in T, NEW ms \in Nat \ {0}
    PROVE  Table(TimerWait(ts, t, ms), T) /\ Active(TimerWait(ts, t, ms)) = Active(ts) \cup {t}
<1> DEFINE r == TimerWait(ts, t, ms)
<1>1. /\ r \in [1 .. 6 -> Slot]
      /\ \A i \in 1 .. 6 : /\ r[i].owner = ts[i].owner
                           /\ r[i].left = IF ts[i].owner = t THEN ms ELSE ts[i].left
  BY DEF Table, Slot, TimerWait
<1>2. t # "none" /\ ts \in [1 .. 6 -> Slot] /\ \E i \in 1 .. 6 : ts[i].owner = t
  BY DEF Table, Owner
<1> HIDE DEF r
<1>3. Table(r, T)
  BY <1>1, <1>2, LeftTable, Zenon
<1>4. \A u : u \in Active(r) <=> u \in Active(ts) \/ u = t
  BY <1>1, <1>2, ActiveIs
<1> QED BY <1>3, <1>4, Zenon DEF r

LEMMA CancelTable ==
    ASSUME NEW ts, NEW T, Table(ts, T), NEW t
    PROVE  Table(TimerCancel(ts, t), T) /\ Active(TimerCancel(ts, t)) = Active(ts) \ {t}
<1> DEFINE r == TimerCancel(ts, t)
<1>1. /\ r \in [1 .. 6 -> Slot]
      /\ \A i \in 1 .. 6 : /\ r[i].owner = ts[i].owner
                           /\ r[i].left = IF ts[i].owner = t THEN 0 ELSE ts[i].left
  BY DEF Table, Slot, TimerCancel
<1>2. ts \in [1 .. 6 -> Slot]
  BY Zenon DEF Table
<1> HIDE DEF r
<1>3. Table(r, T)
  BY <1>1, LeftTable, Zenon
<1>4. \A u : u \in Active(r) <=> u \in Active(ts) /\ u # t
  BY <1>1, <1>2, ActiveIs
<1> QED BY <1>3, <1>4, Zenon DEF r

LEMMA FreeTable ==
    ASSUME NEW ts, NEW T, Table(ts, T), NEW F \in SUBSET Owner
    PROVE  Table(FreeTimers(ts, F), T \ F) /\ Active(FreeTimers(ts, F)) = Active(ts) \ F
<1> DEFINE r == FreeTimers(ts, F)
<1>1. /\ r \in [1 .. 6 -> Slot]
      /\ \A i \in 1 .. 6 : r[i] = IF ts[i].owner \in F THEN Unallocated ELSE ts[i]
      /\ Unallocated.owner = "none" /\ Unallocated.left = 0
  BY Zenon DEF Table, Slot, FreeTimers, Unallocated
<1>2. ts \in [1 .. 6 -> Slot] /\ "none" \notin F /\ "none" \notin Owner
  BY Zenon DEF Table, Owner
<1> HIDE DEF r
<1>3. Table(r, T \ F)
  <2>1. \A i \in 1 .. 6 : r[i].owner = "none" => r[i].left = 0
    BY <1>1, Zenon DEF Table
  <2>2. \A i, j \in 1 .. 6 : r[i].owner = r[j].owner /\ r[i].owner # "none" => i = j
    BY <1>1 DEF Table
  <2>3. \A u \in Owner : u \in T \ F <=> \E i \in 1 .. 6 : r[i].owner = u
    BY <1>1, <1>2 DEF Table
  <2> QED BY <1>1, <2>1, <2>2, <2>3, Zenon DEF Table
<1>4. \A u : u \in Active(r) <=> u \in Active(ts) /\ u \notin F
  BY <1>1, <1>2, ActiveIs
<1> QED BY <1>3, <1>4, Zenon DEF r

LEMMA NoTable == Table(NoTimers(6), {}) /\ Active(NoTimers(6)) = {}
BY DEF Table, NoTimers, Slot, Unallocated, Active, Owner

LEMMA ActiveOwners ==
    ASSUME NEW ts, NEW T, Table(ts, T)
    PROVE  Active(ts) \subseteq T
BY DEF Table, Active, Slot

-----------------------------------------------------------------------------
(* Parts of the client. *)

\* r differs from c in the members in F only.
Else(r, c, F) == DOMAIN r = Field /\ \A f \in Field \ F : r[f] = c[f]

LEMMA ElseTwice ==
    ASSUME NEW c, NEW d, NEW e, NEW F, NEW G, Else(d, c, F), Else(e, d, G)
    PROVE  Else(e, c, F \cup G)
BY Zenon DEF Else

LEMMA Live ==
    ASSUME NEW c, Typed(c), Reported(c), NEW op, Has(c, op)
    PROVE  ~ c.disconnecting /\ c.reason # "NoGatewayResponse" /\ op \in OpSet(c.ops)
<1>1. op \in OpSet(c.ops)
  BY HasIs, Zenon DEF Typed
<1>2. c.ops # << >>
  BY <1>1 DEF OpSet
<1> QED BY <1>1, <1>2, Zenon DEF Reported

\* Members no property is about.
Alike(r, c) ==
    /\ Else(r, c, {"firstConnect", "prevWill", "retries", "stage", "conf"})
    /\ r.retries \in [Op -> Nat] /\ r.retries["KeepAlive"] = c.retries["KeepAlive"]
    /\ DOMAIN r.conf = Op \ {"KeepAlive"}
    /\ Has(c, "Disconnect") => r.conf["Disconnect"] = c.conf["Disconnect"]

LEMMA AlikeSound ==
    ASSUME NEW c, NEW r, NEW due, Sound(c, due), Alike(r, c)
    PROVE  Sound(r, due) /\ (Watched(c, due) => Watched(r, due))
<1>1. /\ DOMAIN r = Field /\ r.ops = c.ops /\ r.timers = c.timers
      /\ r.keepAliveMs = c.keepAliveMs /\ r.pings = c.pings /\ r.sent = c.sent /\ r.owed = c.owed
      /\ r.disconnecting = c.disconnecting /\ r.initialized = c.initialized
      /\ r.connectionStatus = c.connectionStatus /\ r.reason = c.reason
  BY Zenon DEF Alike, Else, Field
<1>2. Typed(r)
  BY <1>1, Zenon DEF Sound, Typed, Alike
<1>3. Reported(r)
  BY <1>1, Zenon DEF Sound, Reported, Alike, Has
<1>4. Pinged(r, due)
  BY <1>1, Zenon DEF Sound, Pinged, Alike, Has, Awaited
<1>5. Watched(c, due) => Watched(r, due)
  BY <1>1, Zenon DEF Watched, Has
<1> QED BY <1>2, <1>3, <1>4, <1>5, Zenon DEF Sound

\* Other timers.
LEMMA SetTimers ==
    ASSUME NEW c, Typed(c), Reported(c), NEW ts, Table(ts, Owners(OpSet(c.ops)))
    PROVE  LET r == [c EXCEPT !.timers = ts]
           IN Typed(r) /\ Reported(r) /\ Else(r, c, {"timers"}) /\ r.timers = ts
<1> DEFINE r == [c EXCEPT !.timers = ts]
<1>1. Else(r, c, {"timers"}) /\ r.timers = ts
  BY Zenon DEF Typed, Else, Field
<1> HIDE DEF r
<1>2. /\ DOMAIN r = Field /\ r.ops = c.ops /\ r.retries = c.retries /\ r.conf = c.conf
      /\ r.keepAliveMs = c.keepAliveMs /\ r.pings = c.pings /\ r.sent = c.sent /\ r.owed = c.owed
      /\ r.disconnecting = c.disconnecting /\ r.initialized = c.initialized
      /\ r.connectionStatus = c.connectionStatus /\ r.reason = c.reason
  BY <1>1, Zenon DEF Else, Field
<1>3. Typed(r)
  BY <1>1, <1>2, Zenon DEF Typed
<1>4. Reported(r)
  BY <1>2, Zenon DEF Reported, Has
<1> QED BY <1>1, <1>3, <1>4, Zenon DEF r

LEMMA WaitSets ==
    ASSUME NEW c, Typed(c), Reported(c), NEW t \in Owner, Has(c, OwnerOp(t)), NEW ms \in Nat \ {0}
    PROVE  /\ Typed(Wait(c, t, ms)) /\ Reported(Wait(c, t, ms))
           /\ Else(Wait(c, t, ms), c, {"timers"})
           /\ Active(Wait(c, t, ms).timers) = Active(c.timers) \cup {t}
<1>1. t \in Owners(OpSet(c.ops))
  BY Live, Zenon DEF Owners
<1>2. Table(c.timers, Owners(OpSet(c.ops)))
  BY Zenon DEF Typed
<1>3. /\ Table(TimerWait(c.timers, t, ms), Owners(OpSet(c.ops)))
      /\ Active(TimerWait(c.timers, t, ms)) = Active(c.timers) \cup {t}
  BY <1>1, <1>2, WaitTable, Zenon
<1>4. Wait(c, t, ms) = [c EXCEPT !.timers = TimerWait(c.timers, t, ms)]
  BY Zenon DEF Wait
<1> QED BY <1>3, <1>4, SetTimers, Zenon

\* Starting a timer other than that of the answer to PINGREQ.
LEMMA WaitSound ==
    ASSUME NEW c, NEW due, Sound(c, due), NEW t \in Owner, t # "resp", Has(c, OwnerOp(t)),
           NEW ms \in Nat \ {0}
    PROVE  /\ Sound(Wait(c, t, ms), due) /\ Else(Wait(c, t, ms), c, {"timers"})
           /\ Active(Wait(c, t, ms).timers) = Active(c.timers) \cup {t}
           /\ Watched(c, due) \/ t \in {"ping", "recv"} => Watched(Wait(c, t, ms), due)
<1> DEFINE r == Wait(c, t, ms)
<1>1. /\ Typed(r) /\ Reported(r) /\ Else(r, c, {"timers"})
      /\ Active(r.timers) = Active(c.timers) \cup {t}
  BY WaitSets, Zenon DEF Sound
<1> HIDE DEF r
<1>2. /\ r.ops = c.ops /\ r.retries = c.retries /\ r.keepAliveMs = c.keepAliveMs /\ r.pings = c.pings
      /\ r.connectionStatus = c.connectionStatus
  BY <1>1, Zenon DEF Else, Field
<1>3. Awaited(r, due) = Awaited(c, due)
  BY <1>1, Zenon DEF Awaited
<1>4. Pinged(r, due)
  BY <1>2, <1>3, Zenon DEF Sound, Pinged, Has
<1>5. Watched(c, due) \/ t \in {"ping", "recv"} => Watched(r, due)
  BY <1>1, <1>2, Zenon DEF Watched, Has, TimersOf
<1> QED BY <1>1, <1>4, <1>5, Zenon DEF r, Sound

-----------------------------------------------------------------------------
(* KeepAliveOp. *)

LEMMA RestartPingSound ==
    ASSUME NEW c, NEW due, Sound(c, due), Has(c, "KeepAlive")
    PROVE  /\ Good(RestartPingTimer(c), due) /\ Else(RestartPingTimer(c), c, {"timers"})
           /\ Active(RestartPingTimer(c).timers) = Active(c.timers) \cup {"ping"}
<1>1. c.keepAliveMs \in Nat \ {0}
  BY DEF Sound, Typed, Pinged
<1>2. RestartPingTimer(c) = Wait(c, "ping", c.keepAliveMs)
  BY <1>1, Zenon DEF RestartPingTimer
<1>3. "ping" \in Owner /\ OwnerOp("ping") = "KeepAlive"
  BY Zenon DEF Owner, OwnerOp
<1> QED BY <1>1, <1>2, <1>3, WaitSound DEF Good

LEMMA RestartRecvSound ==
    ASSUME NEW c, NEW due, Sound(c, due), Has(c, "KeepAlive")
    PROVE  Good(RestartRecvTimer(c), due) /\ Else(RestartRecvTimer(c), c, {"timers"})
<1>1. c.keepAliveMs \in Nat \ {0}
  BY DEF Sound, Typed, Pinged
<1>2. RestartRecvTimer(c) = Wait(c, "recv", c.keepAliveMs)
  BY <1>1, Zenon DEF RestartRecvTimer
<1>3. "recv" \in Owner /\ OwnerOp("recv") = "KeepAlive"
  BY Zenon DEF Owner, OwnerOp
<1> QED BY <1>1, <1>2, <1>3, WaitSound DEF Good

LEMMA RestartRespSound ==
    ASSUME NEW c, NEW due, Sound(c, due), Has(c, "KeepAlive"),
           \/ "resp" \in Active(c.timers)
           \/ c.pings = RetryCount + 1
           \/ c.pings + c.retries["KeepAlive"] >= RetryCount + Awaited(c, due) + 1
    PROVE  Good(RestartRespTimer(c), due) /\ Else(RestartRespTimer(c), c, {"timers"})
<1> DEFINE r == RestartRespTimer(c)
<1>1. "resp" \in Owner /\ OwnerOp("resp") = "KeepAlive" /\ RetryPeriod \in Nat \ {0}
  BY ClientConnAssumption, Zenon DEF Owner, OwnerOp
<1>2. /\ Typed(r) /\ Reported(r) /\ Else(r, c, {"timers"})
      /\ Active(r.timers) = Active(c.timers) \cup {"resp"}
  BY <1>1, WaitSets, Zenon DEF RestartRespTimer, Sound
<1> HIDE DEF r
<1>3. /\ r.ops = c.ops /\ r.retries = c.retries /\ r.keepAliveMs = c.keepAliveMs /\ r.pings = c.pings
      /\ r.connectionStatus = c.connectionStatus
  BY <1>2, Zenon DEF Else, Field
<1>4. \/ "resp" \in Active(c.timers) /\ Awaited(r, due) = Awaited(c, due)
      \/ "resp" \notin Active(c.timers) /\ Awaited(r, due) = Awaited(c, due) + 1
  BY <1>2 DEF Awaited
<1>5. c.pings \in Nat /\ c.retries["KeepAlive"] \in Nat /\ RetryCount \in Nat /\ Awaited(c, due) \in Nat
  BY ClientConnAssumption DEF Sound, Typed, Awaited, Op
<1>6. Pinged(r, due)
  BY <1>3, <1>4, <1>5 DEF Sound, Pinged, Has
<1>7. Watched(r, due)
  BY <1>2, Zenon DEF Watched, TimersOf
<1> QED BY <1>2, <1>6, <1>7, Zenon DEF r, Good, Sound

LEMMA SendMessageSound ==
    ASSUME NEW c, NEW due, Sound(c, due)
    PROVE  /\ Sound(SendMessage(c), due) /\ Else(SendMessage(c), c, {"timers"})
           /\ "resp" \in Active(SendMessage(c).timers) <=> "resp" \in Active(c.timers)
           /\ Watched(SendMessage(c), due)
<1>1. CASE Has(c, "KeepAlive")
  BY <1>1, RestartPingSound DEF SendMessage, Good
<1>2. CASE ~ Has(c, "KeepAlive")
  <2>1. SendMessage(c) = c
    BY <1>2, Zenon DEF SendMessage
  <2>2. Watched(c, due) /\ Else(c, c, {"timers"})
    BY <1>2, Zenon DEF Watched, Else, Sound, Typed
  <2> QED BY <2>1, <2>2, Zenon
<1> QED BY <1>1, <1>2, Zenon

\* PINGREQs are counted up to RetryCount + 1.
LEMMA CountSound ==
    ASSUME NEW c, NEW due, Sound(c, due), Has(c, "KeepAlive")
    PROVE  LET r == [c EXCEPT !.pings = Min({@ + 1, RetryCount + 1})]
           IN /\ Sound(r, due) /\ Else(r, c, {"pings"})
              /\ \/ r.pings = RetryCount + 1
                 \/ r.pings + r.retries["KeepAlive"] >= RetryCount + Awaited(r, due) + 1
<1> DEFINE n == Min({c.pings + 1, RetryCount + 1})
           r == [c EXCEPT !.pings = n]
<1>0. c.pings \in Nat /\ c.pings <= RetryCount + 1 /\ RetryCount \in Nat /\ c.retries["KeepAlive"] \in Nat
  BY ClientConnAssumption DEF Sound, Typed, Op
<1>1. n \in 0 .. RetryCount + 1 /\ (n = RetryCount + 1 \/ n = c.pings + 1) /\ n >= c.pings
  <2> DEFINE S == {c.pings + 1, RetryCount + 1}
  <2>1. S \in SUBSET Nat /\ S # {}
    BY <1>0
  <2>2. n \in S /\ \A i \in S : n <= i
    BY <2>1, MinIs, Zenon
  <2> HIDE DEF n
  <2> QED BY <1>0, <2>2
<1> HIDE DEF n
<1>2. Else(r, c, {"pings"}) /\ r.pings = n
  BY Zenon DEF Sound, Typed, Else, Field
<1> HIDE DEF r
<1>3. /\ DOMAIN r = Field /\ r.ops = c.ops /\ r.timers = c.timers /\ r.retries = c.retries
      /\ r.conf = c.conf /\ r.keepAliveMs = c.keepAliveMs /\ r.sent = c.sent /\ r.owed = c.owed
      /\ r.disconnecting = c.disconnecting /\ r.initialized = c.initialized
      /\ r.connectionStatus = c.connectionStatus /\ r.reason = c.reason
  BY <1>2, Zenon DEF Else, Field
<1>4. Typed(r)
  BY <1>1, <1>2, <1>3, Zenon DEF Sound, Typed
<1>5. c.reason # "NoGatewayResponse"
  BY Live, Zenon DEF Sound
<1>6. Reported(r)
  BY <1>3, <1>5, Zenon DEF Sound, Reported, Has
<1>7. Awaited(r, due) = Awaited(c, due) /\ Awaited(c, due) \in Nat
  BY <1>3 DEF Awaited
<1>8. c.pings = RetryCount + 1 \/ c.pings + c.retries["KeepAlive"] >= RetryCount + Awaited(c, due)
  BY Zenon DEF Sound, Pinged
<1>9. /\ r.pings = RetryCount + 1 \/ r.pings + r.retries["KeepAlive"] >= RetryCount + Awaited(r, due) + 1
      /\ r.pings = RetryCount + 1 \/ r.pings + r.retries["KeepAlive"] >= RetryCount + Awaited(r, due)
  BY <1>0, <1>1, <1>2, <1>3, <1>7, <1>8
<1>10. Pinged(r, due)
  BY <1>3, <1>9, Zenon DEF Sound, Pinged, Has
<1> QED BY <1>2, <1>4, <1>6, <1>9, <1>10, Zenon DEF r, n, Sound

LEMMA SendPingGood ==
    ASSUME NEW c, NEW due, Sound(c, due), Has(c, "KeepAlive")
    PROVE  Good(SendPing(c), due) /\ Else(SendPing(c), c, {"timers", "pings"})
<1>1. CASE TimerIsActive(c.timers, "resp")
  <2>1. SendPing(c) = c
    BY <1>1, Zenon DEF SendPing
  <2>2. Watched(c, due) /\ Else(c, c, {"timers", "pings"})
    BY <1>1, Zenon DEF Watched, TimerIsActive, TimersOf, Else, Sound, Typed
  <2> QED BY <2>1, <2>2, Zenon DEF Good
<1>2. CASE ~ TimerIsActive(c.timers, "resp")
  <2> DEFINE d == [c EXCEPT !.pings = Min({@ + 1, RetryCount + 1})]
             e == SendMessage(d)
  <2>1. SendPing(c) = RestartRespTimer(e)
    BY <1>2, Zenon DEF SendPing
  <2>2. /\ Sound(d, due) /\ Else(d, c, {"pings"})
        /\ \/ d.pings = RetryCount + 1
           \/ d.pings + d.retries["KeepAlive"] >= RetryCount + Awaited(d, due) + 1
    BY CountSound, Zenon
  <2> HIDE DEF d
  <2>3. /\ Sound(e, due) /\ Else(e, d, {"timers"})
        /\ "resp" \in Active(e.timers) <=> "resp" \in Active(d.timers)
    BY <2>2, SendMessageSound, Zenon
  <2> HIDE DEF e
  <2>4. e.pings = d.pings /\ e.retries = d.retries /\ e.ops = d.ops /\ d.ops = c.ops
    BY <2>2, <2>3, Zenon DEF Else, Field
  <2>5. Awaited(e, due) = Awaited(d, due)
    BY <2>3, Zenon DEF Awaited
  <2>6. Good(RestartRespTimer(e), due) /\ Else(RestartRespTimer(e), e, {"timers"})
    BY <2>2, <2>3, <2>4, <2>5, RestartRespSound, Zenon DEF Has
  <2>7. Else(RestartRespTimer(e), c, {"pings"} \cup {"timers"} \cup {"timers"})
    BY <2>2, <2>3, <2>6, ElseTwice, Zenon
  <2>8. {"pings"} \cup {"timers"} \cup {"timers"} = {"timers", "pings"}
    BY Zenon
  <2> QED BY <2>1, <2>6, <2>7, <2>8, Zenon
<1> QED BY <1>1, <1>2, Zenon

-----------------------------------------------------------------------------
(* Operations come and go. *)

EndFields == {"ops", "sent", "owed", "timers", "retries", "stage", "conf"}

LEMMA TerminateOpsEnds ==
    ASSUME NEW c, Typed(c), c.owed = c.sent
    PROVE  LET r == TerminateOps(c)
           IN /\ Typed(r) /\ Else(r, c, EndFields)
              /\ r.ops = << >> /\ r.sent = {} /\ r.owed = {} /\ Active(r.timers) = {}
              /\ \A op : ~ Has(r, op)
<1> DEFINE r == TerminateOps(c)
<1>1. Len(c.timers) = 6
  <2>1. c.timers \in [1 .. 6 -> Slot]
    BY Zenon DEF Typed, Table
  <2>2. ASSUME NEW ts \in [1 .. 6 -> Slot] PROVE Len(ts) = 6
    OBVIOUS
  <2> QED BY <2>1, <2>2, Zenon
<1>2. /\ Else(r, c, EndFields) /\ r.ops = << >> /\ r.sent = {} /\ r.owed = {}
      /\ r.timers = NoTimers(6) /\ r.retries = [op \in Op |-> 0]
      /\ DOMAIN r.conf = Op \ {"KeepAlive"}
  BY <1>1, Zenon DEF TerminateOps, Typed, Else, Field, EndFields, InitClient
<1> HIDE DEF r
<1>3. r.keepAliveMs = c.keepAliveMs /\ r.pings = c.pings /\ DOMAIN r = Field
  BY <1>2, Zenon DEF Else, Field, EndFields
<1>4. OpSet(r.ops) = {} /\ Owners({}) = {} /\ r.ops \in Seq(Op) /\ Single(r.ops)
  BY <1>2 DEF OpSet, Owners, Single
<1>5. Typed(r)
  <2>1. Table(r.timers, Owners(OpSet(r.ops)))
    BY <1>2, <1>4, NoTable, Zenon
  <2> QED BY <1>2, <1>3, <1>4, <2>1 DEF Typed
<1>6. \A op : ~ Has(r, op)
  BY <1>4, HasIs, Zenon
<1> QED BY <1>2, <1>5, <1>6, NoTable, Zenon DEF r

LEMMA GatewayDisconnectedGood ==
    ASSUME NEW c, NEW due, Typed(c), c.owed = c.sent, NEW reason,
           reason = "NoGatewayResponse" => c.pings = RetryCount + 1
    PROVE  Good(GatewayDisconnected(c, reason), due)
<1> DEFINE d == [c EXCEPT !.initialized = FALSE, !.connectionStatus = "Disconnected",
                          !.disconnecting = TRUE, !.reason = reason]
           r == TerminateOps(d)
<1>1. r = GatewayDisconnected(c, reason)
  BY Zenon DEF GatewayDisconnected
<1>2. /\ DOMAIN d = Field /\ d.ops = c.ops /\ d.timers = c.timers /\ d.retries = c.retries
      /\ d.conf = c.conf /\ d.keepAliveMs = c.keepAliveMs /\ d.pings = c.pings
      /\ d.owed = d.sent /\ d.initialized = FALSE /\ d.disconnecting = TRUE
      /\ d.connectionStatus = "Disconnected" /\ d.reason = reason
  BY Zenon DEF Typed, Field
<1> HIDE DEF d
<1>3. Typed(d)
  BY <1>2, Zenon DEF Typed
<1>4. /\ Typed(r) /\ Else(r, d, EndFields)
      /\ r.ops = << >> /\ r.sent = {} /\ r.owed = {} /\ \A op : ~ Has(r, op)
  BY <1>2, <1>3, TerminateOpsEnds, Zenon
<1> HIDE DEF r
<1>5. /\ r.initialized = FALSE /\ r.disconnecting = TRUE /\ r.connectionStatus = "Disconnected"
      /\ r.reason = reason /\ r.pings = c.pings
  BY <1>2, <1>4 DEF Else, Field, EndFields
<1>6. Reported(r)
  BY <1>4, <1>5, Zenon DEF Reported
<1>7. Pinged(r, due) /\ Watched(r, due)
  BY <1>4, <1>5, Zenon DEF Pinged, Watched
<1> QED BY <1>1, <1>4, <1>6, <1>7, Zenon DEF Good, Sound

Request == Op \ {"KeepAlive"}

LEMMA EndedSound ==
    ASSUME NEW c, NEW due, Sound(c, due), NEW op \in Request
    PROVE  LET r == [OpComplete(c, op) EXCEPT !.owed = c.owed \ {op}]
           IN /\ Sound(r, due) /\ Else(r, c, EndFields) /\ ~ Has(r, op)
              /\ Watched(c, due) => Watched(r, due)
<1> DEFINE r == [OpComplete(c, op) EXCEPT !.owed = c.owed \ {op}]
<1>0. op \in Op /\ op # "KeepAlive"
  BY Zenon DEF Request
<1>1. /\ Else(r, c, EndFields) /\ r.ops = Erase(c.ops, op) /\ r.sent = c.sent \ {op}
      /\ r.owed = c.owed \ {op} /\ r.timers = FreeTimers(c.timers, TimersOf(op))
      /\ r.retries = [c.retries EXCEPT ![op] = 0]
      /\ r.conf = [o \in DOMAIN c.conf |-> IF o = op THEN None ELSE c.conf[o]]
  BY Zenon DEF OpComplete, Sound, Typed, Else, Field, EndFields
<1> HIDE DEF r
<1>2. /\ DOMAIN r = Field /\ r.keepAliveMs = c.keepAliveMs /\ r.pings = c.pings
      /\ r.disconnecting = c.disconnecting /\ r.initialized = c.initialized
      /\ r.connectionStatus = c.connectionStatus /\ r.reason = c.reason
  BY <1>1, Zenon DEF Else, Field, EndFields
<1>3. r.ops \in Seq(Op) /\ Single(r.ops) /\ OpSet(r.ops) = OpSet(c.ops) \ {op}
  BY <1>0, <1>1, Removed DEF Sound, Typed
<1>4. TimersOf(op) = {op} /\ {op} \in SUBSET Owner
  BY <1>0, Zenon DEF TimersOf, Owner, Op
<1>5. Owners(OpSet(r.ops)) = Owners(OpSet(c.ops)) \ {op}
  BY <1>0, <1>3, Zenon DEF Owners, OwnerOp, Owner, Op
<1>6. Table(r.timers, Owners(OpSet(r.ops))) /\ Active(r.timers) = Active(c.timers) \ {op}
  <2>1. Table(c.timers, Owners(OpSet(c.ops)))
    BY Zenon DEF Sound, Typed
  <2>2. /\ Table(FreeTimers(c.timers, {op}), Owners(OpSet(c.ops)) \ {op})
        /\ Active(FreeTimers(c.timers, {op})) = Active(c.timers) \ {op}
    BY <1>4, <2>1, FreeTable, Zenon
  <2>3. r.timers = FreeTimers(c.timers, {op})
    BY <1>1, <1>4, Zenon
  <2> QED BY <1>5, <2>2, <2>3, Zenon
<1>7. r.retries \in [Op -> Nat] /\ r.retries["KeepAlive"] = c.retries["KeepAlive"]
  BY <1>0, <1>1, SMTT(30) DEF Sound, Typed, Op
<1>8. Typed(r)
  BY <1>1, <1>2, <1>3, <1>6, <1>7, Zenon DEF Sound, Typed
<1>9. \A o : Has(r, o) <=> Has(c, o) /\ o # op
  <2>1. c.ops \in Seq(Op)
    BY Zenon DEF Sound, Typed
  <2> QED BY <1>3, <2>1, HasIs, Zenon
<1>10. Reported(r)
  <2>1. c.ops = << >> => r.ops = << >>
    <3>1. c.ops = << >> => \A o : ~ Has(c, o)
      BY DEF Has, Range
    <3> QED BY <1>1 DEF Erase, Range
  <2>2. r.owed = r.sent /\ r.sent \subseteq OpSet(r.ops) \ {"KeepAlive"}
    BY <1>1, <1>3, Zenon DEF Sound, Reported
  <2>3. Has(r, "Disconnect") => r.conf["Disconnect"] \in {0, Sleep}
    <3> SUFFICES ASSUME Has(r, "Disconnect") PROVE r.conf["Disconnect"] \in {0, Sleep}
      BY Zenon
    <3>1. Has(c, "Disconnect") /\ op # "Disconnect" /\ "Disconnect" \in DOMAIN c.conf
      BY <1>9, Zenon DEF Sound, Typed, Op
    <3>2. r.conf["Disconnect"] = c.conf["Disconnect"]
      BY <1>1, <3>1, Zenon
    <3> QED BY <3>1, <3>2, Zenon DEF Sound, Reported
  <2> QED BY <1>2, <2>1, <2>2, <2>3, Zenon DEF Sound, Reported
<1>11. "resp" \in Active(r.timers) <=> "resp" \in Active(c.timers)
  BY <1>0, <1>6, Zenon DEF Op
<1>12. Pinged(r, due)
  <2>1. Awaited(r, due) = Awaited(c, due)
    BY <1>11, Zenon DEF Awaited
  <2> QED BY <1>0, <1>2, <1>7, <1>9, <2>1, Zenon DEF Sound, Pinged
<1>13. Watched(c, due) => Watched(r, due)
  BY <1>0, <1>6, <1>9, Zenon DEF Watched, TimersOf, Op
<1> QED BY <1>1, <1>8, <1>9, <1>10, <1>12, <1>13, Zenon DEF r, Sound

LEMMA CompleteOpSound ==
    ASSUME NEW c, NEW due, Sound(c, due), NEW op \in Request
    PROVE  /\ Sound(CompleteOp(c, op), due) /\ Else(CompleteOp(c, op), c, EndFields)
           /\ ~ Has(CompleteOp(c, op), op)
           /\ Watched(c, due) => Watched(CompleteOp(c, op), due)
<1>1. OpComplete(c, op).owed = c.owed
  BY Zenon DEF OpComplete, Sound, Typed, Field
<1>2. c.owed \ ({op} \cap c.sent) = c.owed \ {op}
  BY Zenon DEF Sound, Reported
<1>3. CompleteOp(c, op) = [OpComplete(c, op) EXCEPT !.owed = c.owed \ {op}]
  BY <1>1, <1>2, Zenon DEF CompleteOp
<1> QED BY <1>3, EndedSound

\* A new operation, with what it is configured with.
LEMMA AllocOpSound ==
    ASSUME NEW c, NEW due, Sound(c, due), NEW op \in Request, ~ Has(c, op), ~ c.disconnecting,
           NEW f, DOMAIN f = Request,
           IF op = "Disconnect" THEN f[op] \in {0, Sleep} ELSE f["Disconnect"] = c.conf["Disconnect"]
    PROVE  LET r == [AllocOp(c, op) EXCEPT !.conf = f]
           IN /\ Sound(r, due) /\ Else(r, c, EndFields) /\ Has(r, op)
              /\ Watched(c, due) => Watched(r, due)
<1> DEFINE r == [AllocOp(c, op) EXCEPT !.conf = f]
<1>0. op \in Op /\ op # "KeepAlive"
  BY Zenon DEF Request
<1>1. /\ Else(r, c, {"ops", "timers", "retries", "conf"}) /\ r.ops = Append(c.ops, op)
      /\ r.timers = AllocTimer(c.timers, op)
      /\ r.retries = [c.retries EXCEPT ![op] = RetryCount] /\ r.conf = f
  BY Zenon DEF AllocOp, Sound, Typed, Else, Field
<1> HIDE DEF r
<1>2. /\ DOMAIN r = Field /\ r.keepAliveMs = c.keepAliveMs /\ r.pings = c.pings
      /\ r.disconnecting = c.disconnecting /\ r.initialized = c.initialized
      /\ r.connectionStatus = c.connectionStatus /\ r.reason = c.reason
      /\ r.sent = c.sent /\ r.owed = c.owed
  BY <1>1, Zenon DEF Else, Field
<1>3. r.ops \in Seq(Op) /\ Single(r.ops) /\ OpSet(r.ops) = OpSet(c.ops) \cup {op}
  <2>1. c.ops \in Seq(Op) /\ Single(c.ops)
    BY Zenon DEF Sound, Typed
  <2>2. op \notin OpSet(c.ops)
    BY <2>1, HasIs, Zenon
  <2> QED BY <1>0, <1>1, <2>1, <2>2, Appended
<1>4. Owners(OpSet(r.ops)) = Owners(OpSet(c.ops)) \cup {op} /\ op \in Owner \ Owners(OpSet(c.ops))
  <2>1. op \notin OpSet(c.ops)
    BY HasIs, Zenon DEF Sound, Typed
  <2> QED BY <1>0, <1>3, <2>1, Zenon DEF Owners, OwnerOp, Owner, Op
<1>5. Table(r.timers, Owners(OpSet(r.ops))) /\ Active(r.timers) = Active(c.timers)
  <2>1. Table(c.timers, Owners(OpSet(c.ops)))
    BY Zenon DEF Sound, Typed
  <2> QED BY <1>1, <1>4, <2>1, AllocTable, SMTT(30)
<1>6. r.retries \in [Op -> Nat] /\ r.retries["KeepAlive"] = c.retries["KeepAlive"]
  BY <1>0, <1>1, ClientConnAssumption, SMTT(20) DEF Sound, Typed, Op
<1>7. Typed(r)
  BY <1>1, <1>2, <1>3, <1>5, <1>6, Zenon DEF Sound, Typed, Request
<1>8. \A o : Has(r, o) <=> Has(c, o) \/ o = op
  <2>1. c.ops \in Seq(Op)
    BY Zenon DEF Sound, Typed
  <2> QED BY <1>3, <2>1, HasIs, Zenon
<1>9. Reported(r)
  <2>1. Has(r, "Disconnect") => r.conf["Disconnect"] \in {0, Sleep}
    BY <1>1, <1>8, Zenon DEF Sound, Reported
  <2>2. r.sent \subseteq OpSet(r.ops) \ {"KeepAlive"}
    BY <1>2, <1>3, Zenon DEF Sound, Reported
  <2> QED BY <1>2, <2>1, <2>2, Zenon DEF Sound, Reported
<1>10. Pinged(r, due)
  <2>1. Awaited(r, due) = Awaited(c, due)
    BY <1>5, Zenon DEF Awaited
  <2> QED BY <1>0, <1>2, <1>6, <1>8, <2>1, Zenon DEF Sound, Pinged
<1>11. Watched(c, due) => Watched(r, due)
  BY <1>0, <1>5, <1>8, Zenon DEF Watched
<1>12. Else(r, c, EndFields)
  BY <1>1, Zenon DEF Else, EndFields
<1> QED BY <1>7, <1>8, <1>9, <1>10, <1>11, <1>12, Zenon DEF r, Sound

LEMMA CreateKeepAliveGood ==
    ASSUME NEW c, Typed(c), Reported(c), ~ c.disconnecting, c.keepAliveMs > 0,
           Has(c, "KeepAlive") => Good(c, {})
    PROVE  LET r == CreateKeepAliveOpIfNeeded(c)
           IN /\ Good(r, {}) /\ Else(r, c, {"ops", "timers", "retries", "pings"})
              /\ \A op : Has(c, op) => Has(r, op)
<1>1. CASE Has(c, "KeepAlive")
  <2>1. CreateKeepAliveOpIfNeeded(c) = c
    BY <1>1, Zenon DEF CreateKeepAliveOpIfNeeded
  <2>2. Else(c, c, {"ops", "timers", "retries", "pings"})
    BY Zenon DEF Else, Typed
  <2> QED BY <1>1, <2>1, <2>2, Zenon
<1>2. CASE ~ Has(c, "KeepAlive")
  <2> DEFINE a == AllocTimer(c.timers, "ping")
             b == AllocTimer(a, "recv")
             ts == AllocTimer(b, "resp")
             d == [c EXCEPT !.ops = Append(@, "KeepAlive"), !.retries["KeepAlive"] = RetryCount,
                            !.timers = ts, !.pings = 0]
  <2>1. CreateKeepAliveOpIfNeeded(c) = RestartPingTimer(d)
    BY <1>2, Zenon DEF CreateKeepAliveOpIfNeeded
  <2>2. /\ Else(d, c, {"ops", "timers", "retries", "pings"})
        /\ d.ops = Append(c.ops, "KeepAlive") /\ d.timers = ts /\ d.pings = 0
        /\ d.retries = [c.retries EXCEPT !["KeepAlive"] = RetryCount]
    <3> HIDE DEF ts
    <3> QED BY Zenon DEF Typed, Else, Field
  <2> HIDE DEF d
  <2>3. /\ c.ops \in Seq(Op) /\ Single(c.ops) /\ "KeepAlive" \notin OpSet(c.ops) /\ "KeepAlive" \in Op
        /\ Table(c.timers, Owners(OpSet(c.ops)))
    BY <1>2, HasIs, Zenon DEF Typed, Op
  <2>4. d.ops \in Seq(Op) /\ Single(d.ops) /\ OpSet(d.ops) = OpSet(c.ops) \cup {"KeepAlive"}
    BY <2>2, <2>3, Appended
  <2> DEFINE T == Owners(OpSet(c.ops))
  <2>5. /\ "ping" \in Owner \ T /\ "recv" \in Owner \ (T \cup {"ping"})
        /\ "resp" \in Owner \ (T \cup {"ping"} \cup {"recv"})
        /\ Owners(OpSet(d.ops)) = T \cup {"ping"} \cup {"recv"} \cup {"resp"}
    BY <2>3, <2>4, Zenon DEF Owners, OwnerOp, Owner
  <2>6. Table(ts, Owners(OpSet(d.ops))) /\ Active(ts) = Active(c.timers)
    <3> HIDE DEF T
    <3>0. Table(c.timers, T)
      BY <2>3, Zenon DEF T
    <3>1. Table(a, T \cup {"ping"}) /\ Active(a) = Active(c.timers)
      BY <2>5, <3>0, AllocTable, Zenon
    <3> HIDE DEF a
    <3>2. Table(b, T \cup {"ping"} \cup {"recv"}) /\ Active(b) = Active(c.timers)
      BY <2>5, <3>1, AllocTable, Zenon
    <3> HIDE DEF b
    <3> QED BY <2>5, <3>2, AllocTable
  <2>7. Active(ts) \subseteq T
    BY <2>3, <2>6, ActiveOwners, Zenon
  <2> HIDE DEF T, ts
  <2>8. d.retries \in [Op -> Nat] /\ d.retries["KeepAlive"] = RetryCount /\ RetryCount \in Nat
    BY <2>2, ClientConnAssumption, Zenon DEF Typed, Op
  <2>9. /\ DOMAIN d = Field /\ d.keepAliveMs = c.keepAliveMs /\ d.conf = c.conf
        /\ d.disconnecting = c.disconnecting /\ d.initialized = c.initialized
        /\ d.connectionStatus = c.connectionStatus /\ d.reason = c.reason
        /\ d.sent = c.sent /\ d.owed = c.owed
    BY <2>2, Zenon DEF Else, Field
  <2>10. Typed(d)
    BY <2>2, <2>4, <2>6, <2>8, <2>9, SMTT(30) DEF Typed
  <2>11. \A o : Has(d, o) <=> Has(c, o) \/ o = "KeepAlive"
    BY <2>3, <2>4, HasIs, Zenon
  <2>12. Reported(d)
    <3>1. d.sent \subseteq OpSet(d.ops) \ {"KeepAlive"}
      BY <2>4, <2>9, Zenon DEF Reported
    <3> QED BY <2>9, <2>11, <3>1, Zenon DEF Reported
  <2>13. Pinged(d, {})
    <3>1. "resp" \notin Active(d.timers)
      BY <2>2, <2>5, <2>7, Zenon
    <3>2. Awaited(d, {}) = 0
      BY <3>1 DEF Awaited
    <3> QED BY <2>2, <2>8, <2>9, <2>11, <3>2 DEF Pinged
  <2>14. /\ Good(RestartPingTimer(d), {}) /\ Else(RestartPingTimer(d), d, {"timers"})
    BY <2>10, <2>11, <2>12, <2>13, RestartPingSound, Zenon DEF Sound
  <2>15. RestartPingTimer(d).ops = d.ops
    BY <2>14, Zenon DEF Else, Field
  <2>16. Else(RestartPingTimer(d), c, {"ops", "timers", "retries", "pings"})
    BY <2>2, <2>14, Zenon DEF Else
  <2> QED BY <2>1, <2>11, <2>14, <2>15, <2>16, Zenon DEF Has
<1> QED BY <1>1, <1>2, Zenon

-----------------------------------------------------------------------------
(* What KeepAliveOp does with messages and timeouts. *)

LEMMA PingTimeoutGood ==
    ASSUME NEW c, NEW due, Sound(c, due), Has(c, "KeepAlive"), "resp" \in due
    PROVE  Good(PingTimeout(c), due \ {"resp"})
<1>0. /\ c.retries \in [Op -> Nat] /\ c.retries["KeepAlive"] \in Nat /\ RetryCount \in Nat
      /\ c.pings \in 0 .. RetryCount + 1 /\ Awaited(c, due) \in Nat /\ Awaited(c, due) >= 1
      /\ c.pings = RetryCount + 1 \/ c.pings + c.retries["KeepAlive"] >= RetryCount + Awaited(c, due)
      /\ "KeepAlive" \in Op
  BY ClientConnAssumption DEF Sound, Typed, Op, Pinged, Awaited
<1>1. CASE c.retries["KeepAlive"] = 0
  <2>1. c.pings = RetryCount + 1
    BY <1>0, <1>1
  <2> QED BY <1>1, <2>1, GatewayDisconnectedGood, Zenon DEF PingTimeout, Sound, Reported
<1>2. CASE c.retries["KeepAlive"] # 0
  <2> DEFINE d == [c EXCEPT !.retries["KeepAlive"] = @ - 1]
  <2>1. PingTimeout(c) = SendPing(d)
    BY <1>2, Zenon DEF PingTimeout
  <2>2. /\ Else(d, c, {"retries"}) /\ d.retries = [c.retries EXCEPT !["KeepAlive"] = @ - 1]
    BY Zenon DEF Sound, Typed, Else, Field
  <2> HIDE DEF d
  <2>3. /\ d.retries \in [Op -> Nat] /\ d.retries["KeepAlive"] = c.retries["KeepAlive"] - 1
    BY <1>0, <1>2, <2>2
  <2>4. /\ DOMAIN d = Field /\ d.ops = c.ops /\ d.timers = c.timers
        /\ d.conf = c.conf /\ d.keepAliveMs = c.keepAliveMs /\ d.sent = c.sent /\ d.owed = c.owed
        /\ d.disconnecting = c.disconnecting /\ d.initialized = c.initialized /\ d.pings = c.pings
        /\ d.connectionStatus = c.connectionStatus /\ d.reason = c.reason
    BY <2>2, Zenon DEF Else, Field
  <2>5. Typed(d)
    BY <2>3, <2>4, Zenon DEF Sound, Typed
  <2>6. Reported(d)
    BY <2>4, Zenon DEF Sound, Reported, Has
  <2>7. Awaited(d, due \ {"resp"}) = Awaited(c, due) - 1
    BY <2>4 DEF Awaited
  <2>8. d.pings = RetryCount + 1
        \/ d.pings + d.retries["KeepAlive"] >= RetryCount + Awaited(d, due \ {"resp"})
    BY <1>0, <1>2, <2>3, <2>4, <2>7
  <2>9. Pinged(d, due \ {"resp"})
    BY <2>4, <2>8, Zenon DEF Sound, Pinged, Has
  <2> QED BY <2>1, <2>4, <2>5, <2>6, <2>9, SendPingGood, Zenon DEF Sound, Has
<1> QED BY <1>1, <1>2, Zenon

LEMMA KeepAlivePingreqGood ==
    ASSUME NEW c, NEW due, Good(c, due), Has(c, "KeepAlive")
    PROVE  Good(KeepAlivePingreq(c), due)
<1>1. Sound(SendMessage(c), due) /\ SendMessage(c).ops = c.ops
  BY SendMessageSound, Zenon DEF Good, Else, Field
<1> QED BY <1>1, RestartRecvSound, Zenon DEF KeepAlivePingreq, Has

LEMMA KeepAlivePingrespGood ==
    ASSUME NEW c, Good(c, {}), Has(c, "KeepAlive")
    PROVE  Good(KeepAlivePingresp(c), {}) /\ KeepAlivePingresp(c).ops = c.ops
<1> DEFINE ts == TimerCancel(c.timers, "resp")
           d == [c EXCEPT !.timers = ts]
           e == [d EXCEPT !.pings = 0, !.retries["KeepAlive"] = RetryCount]
<1>0. Typed(c) /\ Reported(c) /\ Pinged(c, {}) /\ RetryCount \in Nat
  BY ClientConnAssumption, Zenon DEF Good, Sound
<1>1. KeepAlivePingresp(c) = RestartRecvTimer(e)
  BY Zenon DEF KeepAlivePingresp
<1>2. Table(ts, Owners(OpSet(c.ops))) /\ Active(ts) = Active(c.timers) \ {"resp"}
  BY <1>0, CancelTable, Zenon DEF Typed
<1> HIDE DEF ts
<1>3. Typed(d) /\ Reported(d) /\ Else(d, c, {"timers"}) /\ d.timers = ts
  BY <1>0, <1>2, SetTimers, Zenon
<1> HIDE DEF d
<1>4. /\ Else(e, d, {"pings", "retries"}) /\ e.pings = 0
      /\ e.retries = [d.retries EXCEPT !["KeepAlive"] = RetryCount]
  BY <1>3, Zenon DEF Typed, Else, Field
<1> HIDE DEF e
<1>5. e.retries \in [Op -> Nat] /\ e.retries["KeepAlive"] = RetryCount
  <2>1. d.retries \in [Op -> Nat] /\ "KeepAlive" \in Op
    BY <1>3, Zenon DEF Typed, Op
  <2> QED BY <1>0, <1>4, <2>1, Zenon
<1>6. /\ DOMAIN e = Field /\ e.ops = d.ops /\ e.timers = ts
      /\ e.conf = d.conf /\ e.keepAliveMs = d.keepAliveMs /\ e.sent = d.sent /\ e.owed = d.owed
      /\ e.disconnecting = d.disconnecting /\ e.initialized = d.initialized
      /\ e.connectionStatus = d.connectionStatus /\ e.reason = d.reason
      /\ d.ops = c.ops /\ d.keepAliveMs = c.keepAliveMs /\ d.connectionStatus = c.connectionStatus
  BY <1>3, <1>4, Zenon DEF Else, Field
<1>7. Typed(e)
  BY <1>0, <1>3, <1>4, <1>5, <1>6, SMTT(30) DEF Typed
<1>8. d.reason # "NoGatewayResponse"
  BY <1>3, <1>6, Live, Zenon DEF Has
<1>9. Reported(e)
  BY <1>3, <1>6, <1>8, Zenon DEF Reported, Has
<1>10. Pinged(e, {})
  <2>1. Awaited(e, {}) = 0
    BY <1>2, <1>6 DEF Awaited
  <2> QED BY <1>0, <1>4, <1>5, <1>6, <2>1 DEF Pinged, Has
<1>11. Sound(e, {}) /\ Has(e, "KeepAlive")
  BY <1>6, <1>7, <1>9, <1>10, Zenon DEF Sound, Has
<1>12. Good(RestartRecvTimer(e), {}) /\ RestartRecvTimer(e).ops = e.ops
  BY <1>11, RestartRecvSound, Zenon DEF Else, Field
<1> QED BY <1>1, <1>6, <1>12, Zenon

LEMMA KeepAliveHeardGood ==
    ASSUME NEW c, NEW due, Good(c, due), Has(c, "KeepAlive")
    PROVE  Good(KeepAliveHeard(c), due) /\ KeepAliveHeard(c).ops = c.ops
<1> DEFINE d == IF c.connectionStatus = "Asleep" /\ TimerIsActive(c.timers, "resp")
                THEN RestartRespTimer(c) ELSE c
<1>1. KeepAliveHeard(c) = RestartRecvTimer(d)
  BY Zenon DEF KeepAliveHeard
<1>2. Sound(d, due) /\ d.ops = c.ops
  <2>1. CASE TimerIsActive(c.timers, "resp")
    <3>1. Good(RestartRespTimer(c), due) /\ Else(RestartRespTimer(c), c, {"timers"})
      BY <2>1, RestartRespSound, Zenon DEF Good, TimerIsActive
    <3>2. RestartRespTimer(c).ops = c.ops
      BY <3>1, Zenon DEF Else, Field
    <3> QED BY <3>1, <3>2, Zenon DEF Good
  <2>2. CASE ~ TimerIsActive(c.timers, "resp")
    BY <2>2, Zenon DEF Good
  <2> QED BY <2>1, <2>2, Zenon
<1> HIDE DEF d
<1>3. Good(RestartRecvTimer(d), due) /\ RestartRecvTimer(d).ops = d.ops
  BY <1>2, RestartRecvSound, Zenon DEF Has, Else, Field
<1> QED BY <1>1, <1>2, <1>3, Zenon

-----------------------------------------------------------------------------
(* ConnectOp, DisconnectOp and WillOp. *)

\* sendInternal of each of them.
SendInternal(c, op) == Wait(SendMessage(c), op, RetryPeriod)

LEMMA SendInternalGood ==
    ASSUME NEW c, NEW due, Sound(c, due), NEW op \in Request, Has(c, op)
    PROVE  Good(SendInternal(c, op), due) /\ Else(SendInternal(c, op), c, {"timers"})
<1> DEFINE d == SendMessage(c)
<1>1. Sound(d, due) /\ Watched(d, due) /\ Else(d, c, {"timers"})
  BY SendMessageSound, Zenon
<1> HIDE DEF d
<1>2. d.ops = c.ops
  BY <1>1, Zenon DEF Else, Field
<1>3. op \in Owner /\ op # "resp" /\ OwnerOp(op) = op /\ RetryPeriod \in Nat \ {0}
  BY ClientConnAssumption, Zenon DEF Request, Op, Owner, OwnerOp
<1>4. Has(d, OwnerOp(op))
  BY <1>2, <1>3, Zenon DEF Has
<1>5. /\ Sound(Wait(d, op, RetryPeriod), due) /\ Else(Wait(d, op, RetryPeriod), d, {"timers"})
      /\ Watched(Wait(d, op, RetryPeriod), due)
  BY <1>1, <1>3, <1>4, WaitSound, Zenon
<1>6. Else(Wait(d, op, RetryPeriod), c, {"timers"})
  BY <1>1, <1>5, Zenon DEF Else
<1> QED BY <1>5, <1>6, Zenon DEF SendInternal, d, Good

LEMMA SendInternals ==
    ASSUME NEW c
    PROVE  /\ ConnectSendInternal(c) = SendInternal(c, "Connect")
           /\ DisconnectSendInternal(c) = SendInternal(c, "Disconnect")
           /\ WillSendInternal(c) = SendInternal(c, "Will")
BY Zenon DEF ConnectSendInternal, DisconnectSendInternal, WillSendInternal, SendInternal

\* Something is noted of an operation, and it sends.
LEMMA NotedGood ==
    ASSUME NEW c, NEW d, NEW due, Sound(c, due), Alike(d, c), NEW op \in Request, Has(c, op)
    PROVE  Good(SendInternal(d, op), due) /\ Else(SendInternal(d, op), d, {"timers"})
<1>1. Sound(d, due) /\ d.ops = c.ops
  BY AlikeSound, Zenon DEF Alike, Else, Field
<1> QED BY <1>1, SendInternalGood, Zenon DEF Has

\* One attempt less, or the operation is reported.
LEMMA RequestTimeoutGood ==
    ASSUME NEW c, NEW due, Good(c, due), NEW op \in Request, Has(c, op)
    PROVE  /\ Good(CompleteOp(c, op), due)
           /\ c.retries[op] # 0 => Good(SendInternal([c EXCEPT !.retries[op] = @ - 1], op), due)
<1>1. Good(CompleteOp(c, op), due)
  BY CompleteOpSound, Zenon DEF Good
<1>2. ASSUME c.retries[op] # 0
      PROVE  Good(SendInternal([c EXCEPT !.retries[op] = @ - 1], op), due)
  <2> DEFINE d == [c EXCEPT !.retries[op] = @ - 1]
  <2>1. Else(d, c, {"retries"}) /\ d.retries = [c.retries EXCEPT ![op] = @ - 1]
    BY Zenon DEF Good, Sound, Typed, Else, Field
  <2> HIDE DEF d
  <2>2. d.retries \in [Op -> Nat] /\ d.retries["KeepAlive"] = c.retries["KeepAlive"]
    BY <1>2, <2>1 DEF Good, Sound, Typed, Request, Op
  <2>3. d.conf = c.conf
    BY <2>1, Zenon DEF Else, Field
  <2>4. Alike(d, c)
    BY <2>1, <2>2, <2>3, Zenon DEF Alike, Else, Good, Sound, Typed
  <2> QED BY <2>4, NotedGood, Zenon DEF Good, d
<1> QED BY <1>1, <1>2, Zenon

LEMMA NoteAlike ==
    ASSUME NEW c, NEW due, Sound(c, due), NEW d, Else(d, c, {"prevWill", "retries", "stage"}),
           NEW op \in Request, NEW n \in Nat,
           d.retries = c.retries \/ d.retries = [c.retries EXCEPT ![op] = n]
    PROVE  Alike(d, c)
<1>1. d.conf = c.conf
  BY Zenon DEF Else, Field
<1>2. d.retries \in [Op -> Nat] /\ d.retries["KeepAlive"] = c.retries["KeepAlive"]
  BY Zenon DEF Sound, Typed, Request, Op
<1> QED BY <1>1, <1>2, Zenon DEF Alike, Else, Sound, Typed

LEMMA ConnectWillGood ==
    ASSUME NEW c, NEW due, Good(c, due), Has(c, "Connect")
    PROVE  Good(ConnectWilltopicreq(c), due) /\ Good(ConnectWillmsgreq(c), due)
<1> DEFINE will == c.conf["Connect"]
           d == [c EXCEPT !.prevWill = IF will.topic = "" THEN Empty ELSE @,
                          !.retries["Connect"] = RetryCount, !.stage["Connect"] = "willTopic"]
           e == [c EXCEPT !.prevWill = [topic |-> will.topic, msg |-> ""],
                          !.retries["Connect"] = RetryCount, !.stage["Connect"] = "willMsg"]
<1>1. /\ ConnectWilltopicreq(c) \in {c, SendInternal(d, "Connect")}
      /\ ConnectWillmsgreq(c) \in {c, SendInternal(e, "Connect")}
  BY SendInternals, Zenon DEF ConnectWilltopicreq, ConnectWillmsgreq
<1>2. /\ Else(d, c, {"prevWill", "retries", "stage"})
      /\ d.retries = [c.retries EXCEPT !["Connect"] = RetryCount]
      /\ Else(e, c, {"prevWill", "retries", "stage"})
      /\ e.retries = [c.retries EXCEPT !["Connect"] = RetryCount]
  BY Zenon DEF Good, Sound, Typed, Else, Field
<1> HIDE DEF d, e
<1>3. "Connect" \in Request /\ RetryCount \in Nat /\ Sound(c, due)
  BY ClientConnAssumption, Zenon DEF Request, Op, Good
<1>4. Alike(d, c) /\ Alike(e, c)
  BY <1>2, <1>3, NoteAlike, Zenon
<1>5. Good(SendInternal(d, "Connect"), due) /\ Good(SendInternal(e, "Connect"), due)
  BY <1>3, <1>4, NotedGood, Zenon
<1> QED BY <1>1, <1>5, Zenon

LEMMA GatewayConnectedGood ==
    ASSUME NEW c, Good(c, {}), ~ c.disconnecting
    PROVE  Good(GatewayConnected([c EXCEPT !.keepAliveMs = KeepAlive]), {})
<1> DEFINE d == [c EXCEPT !.keepAliveMs = KeepAlive]
           e == [d EXCEPT !.firstConnect = FALSE, !.connectionStatus = "Connected"]
<1>0. Typed(c) /\ Reported(c) /\ Pinged(c, {}) /\ Watched(c, {}) /\ KeepAlive \in Nat \ {0}
  BY ClientConnAssumption, Zenon DEF Good, Sound
<1>1. GatewayConnected(d) = CreateKeepAliveOpIfNeeded(e)
  BY Zenon DEF GatewayConnected
<1>2. /\ DOMAIN e = Field /\ e.ops = c.ops /\ e.timers = c.timers /\ e.retries = c.retries
      /\ e.conf = c.conf /\ e.keepAliveMs = KeepAlive /\ e.pings = c.pings /\ e.sent = c.sent
      /\ e.owed = c.owed /\ e.disconnecting = c.disconnecting /\ e.initialized = c.initialized
      /\ e.connectionStatus = "Connected" /\ e.reason = c.reason
  BY <1>0, Zenon DEF Typed, Field
<1> HIDE DEF e
<1>3. Typed(e)
  BY <1>0, <1>2, Zenon DEF Typed
<1>4. Reported(e)
  BY <1>0, <1>2, Zenon DEF Reported, Has
<1>5. Has(e, "KeepAlive") => Pinged(e, {}) /\ Watched(e, {})
  BY <1>0, <1>2 DEF Pinged, Watched, Has, Awaited
<1>6. Good(CreateKeepAliveOpIfNeeded(e), {})
  BY <1>0, <1>2, <1>3, <1>4, <1>5, CreateKeepAliveGood DEF Good, Sound
<1> QED BY <1>1, <1>6, Zenon

LEMMA ConnectConnackGood ==
    ASSUME NEW c, Good(c, {}), Has(c, "Connect"), NEW accepted
    PROVE  Good(ConnectConnack(c, accepted), {})
<1> DEFINE asked == c.stage["Connect"] = "willMsg"
           w == CASE ~ accepted \/ (~ asked /\ c.conf["Connect"] # None) -> Empty
                  [] accepted /\ asked -> [c.prevWill EXCEPT !.msg = c.conf["Connect"].msg]
                  [] accepted /\ ~ asked /\ c.conf["Connect"] = None -> c.prevWill
           d == [c EXCEPT !.prevWill = w]
           e == [d EXCEPT !.keepAliveMs = KeepAlive]
<1>1. \/ ConnectConnack(c, accepted) = CompleteOp(GatewayConnected(e), "Connect")
      \/ ConnectConnack(c, accepted) = CompleteOp(d, "Connect")
  BY Zenon DEF ConnectConnack
<1> HIDE DEF w
<1>2. Else(d, c, {"prevWill", "retries", "stage"}) /\ d.retries = c.retries
  BY Zenon DEF Good, Sound, Typed, Else, Field
<1>3. "Connect" \in Request /\ 0 \in Nat /\ ~ c.disconnecting
  BY Live, Zenon DEF Request, Op, Good, Sound
<1> HIDE DEF d
<1>4. Alike(d, c) /\ d.disconnecting = c.disconnecting
  BY <1>2, <1>3, NoteAlike, Zenon DEF Good, Else, Field
<1>5. Good(d, {})
  BY <1>4, AlikeSound, Zenon DEF Good
<1>6. Good(GatewayConnected(e), {})
  BY <1>3, <1>4, <1>5, GatewayConnectedGood, Zenon
<1> HIDE DEF e
<1> QED BY <1>1, <1>3, <1>5, <1>6, CompleteOpSound, Zenon DEF Good

LEMMA WillWilltopicrespGood ==
    ASSUME NEW c, NEW due, Good(c, due), Has(c, "Will"), NEW accepted
    PROVE  Good(WillWilltopicresp(c, accepted), due)
<1> DEFINE will == c.conf["Will"]
           d == [c EXCEPT !.prevWill.topic = will.topic, !.stage["Will"] = "willMsg"]
           e == [d EXCEPT !.prevWill.msg = "", !.retries["Will"] = RetryCount]
<1>1. WillWilltopicresp(c, accepted) \in
         {c, CompleteOp(c, "Will"), CompleteOp(d, "Will"), WillSendInternal(e)}
  <2>1. \/ c.stage["Will"] # "willTopic"
        \/ c.stage["Will"] = "willTopic" /\ ~ accepted
        \/ c.stage["Will"] = "willTopic" /\ accepted /\ will.msg = c.prevWill.msg
        \/ c.stage["Will"] = "willTopic" /\ accepted /\ will.msg # c.prevWill.msg
    BY Zenon
  <2> QED BY <2>1, Zenon DEF WillWilltopicresp
<1>2. /\ Else(d, c, {"prevWill", "retries", "stage"}) /\ d.retries = c.retries
      /\ Else(e, c, {"prevWill", "retries", "stage"})
      /\ e.retries = [c.retries EXCEPT !["Will"] = RetryCount]
  BY Zenon DEF Good, Sound, Typed, Else, Field
<1> HIDE DEF d, e
<1>3. "Will" \in Request /\ RetryCount \in Nat /\ Sound(c, due)
  BY ClientConnAssumption, Zenon DEF Request, Op, Good
<1>4. Alike(d, c) /\ Alike(e, c)
  BY <1>2, <1>3, NoteAlike, Zenon
<1>5. Good(d, due)
  BY <1>4, AlikeSound, Zenon DEF Good
<1>6. Good(WillSendInternal(e), due)
  BY <1>3, <1>4, NotedGood, SendInternals, Zenon
<1>7. Good(CompleteOp(c, "Will"), due) /\ Good(CompleteOp(d, "Will"), due)
  BY <1>3, <1>5, CompleteOpSound, Zenon DEF Good
<1> QED BY <1>1, <1>6, <1>7, Zenon

LEMMA WillWillmsgrespGood ==
    ASSUME NEW c, NEW due, Good(c, due), Has(c, "Will"), NEW accepted
    PROVE  Good(WillWillmsgresp(c, accepted), due)
<1> DEFINE d == [c EXCEPT !.prevWill.msg = IF accepted THEN c.conf["Will"].msg ELSE @]
<1>1. WillWillmsgresp(c, accepted) \in {c, CompleteOp(d, "Will")}
  BY Zenon DEF WillWillmsgresp
<1>2. Else(d, c, {"prevWill", "retries", "stage"}) /\ d.retries = c.retries
  BY Zenon DEF Good, Sound, Typed, Else, Field
<1> HIDE DEF d
<1>3. "Will" \in Request /\ 0 \in Nat /\ Sound(c, due)
  BY Zenon DEF Request, Op, Good
<1>4. Alike(d, c)
  BY <1>2, <1>3, NoteAlike, Zenon
<1>5. Good(d, due)
  BY <1>4, AlikeSound, Zenon DEF Good
<1> QED BY <1>1, <1>3, <1>5, CompleteOpSound, Zenon DEF Good

LEMMA MaxOfTwo ==
    ASSUME NEW a \in Int, NEW b \in Int
    PROVE  Max({a, b}) \in {a, b} /\ Max({a, b}) >= a /\ Max({a, b}) >= b
<1>1. \E x \in {a, b} : \A y \in {a, b} : x >= y
  BY DEF Max
<1> QED BY <1>1, Zenon DEF Max

LEMMA EnterSleepModeGood ==
    ASSUME NEW c, Good(c, {}), ~ c.disconnecting
    PROVE  Good(EnterSleepMode(c, Sleep), {})
<1> DEFINE diff == RetryPeriod * (RetryCount + 1)
           a == [c EXCEPT !.connectionStatus = "Asleep"]
           d == TerminateOps(a)
           ms == Max({Sleep, diff + 1}) - diff
           e == [d EXCEPT !.keepAliveMs = ms]
<1>1. EnterSleepMode(c, Sleep) = CreateKeepAliveOpIfNeeded(e)
  BY Zenon DEF EnterSleepMode
<1>2. ms \in Nat /\ ms > 0
  <2>1. diff \in Nat /\ Sleep \in Nat
    BY ClientConnAssumption
  <2> HIDE DEF diff
  <2> QED BY <2>1, MaxOfTwo
<1> HIDE DEF ms
<1>3. /\ DOMAIN a = Field /\ a.ops = c.ops /\ a.timers = c.timers /\ a.retries = c.retries
      /\ a.conf = c.conf /\ a.keepAliveMs = c.keepAliveMs /\ a.pings = c.pings /\ a.sent = c.sent
      /\ a.owed = c.owed /\ a.disconnecting = c.disconnecting /\ a.reason = c.reason
  BY Zenon DEF Good, Sound, Typed, Field
<1> HIDE DEF a
<1>4. Typed(a) /\ a.owed = a.sent
  BY <1>3, Zenon DEF Good, Sound, Typed, Reported
<1>5. /\ Typed(d) /\ Else(d, a, EndFields) /\ d.ops = << >> /\ d.sent = {} /\ d.owed = {}
      /\ \A op : ~ Has(d, op)
  BY <1>4, TerminateOpsEnds, Zenon
<1> HIDE DEF d
<1>6. /\ DOMAIN e = Field /\ e.ops = d.ops /\ e.timers = d.timers /\ e.retries = d.retries
      /\ e.conf = d.conf /\ e.keepAliveMs = ms /\ e.pings = d.pings /\ e.sent = {}
      /\ e.owed = {} /\ e.disconnecting = d.disconnecting /\ e.reason = d.reason
  BY <1>5, Zenon DEF Typed, Field
<1> HIDE DEF e
<1>7. Typed(e)
  BY <1>2, <1>5, <1>6, Zenon DEF Typed
<1>8. ~ e.disconnecting /\ e.reason # "NoGatewayResponse"
  BY <1>3, <1>5, <1>6 DEF Else, Field, EndFields, Good, Sound, Reported
<1>9. \A op : ~ Has(e, op)
  BY <1>5, <1>6, Zenon DEF Has
<1>10. Reported(e)
  BY <1>6, <1>8, <1>9, Zenon DEF Reported
<1> QED BY <1>1, <1>2, <1>6, <1>7, <1>8, <1>9, <1>10, CreateKeepAliveGood, Zenon

LEMMA DisconnectAnsweredGood ==
    ASSUME NEW c, Good(c, {}), Has(c, "Disconnect")
    PROVE  Good(DisconnectAnswered(c), {})
<1> DEFINE ms == c.conf["Disconnect"]
           d == CompleteOp(c, "Disconnect")
<1>1. "Disconnect" \in Request /\ ms \in {0, Sleep} /\ Sleep \in Nat /\ Sleep > 0
  <2>1. RetryPeriod * (RetryCount + 1) \in Nat
    BY ClientConnAssumption
  <2> QED BY <2>1, ClientConnAssumption DEF Request, Op, Good, Sound, Reported
<1>2. Good(d, {}) /\ Else(d, c, EndFields)
  BY <1>1, CompleteOpSound, Zenon DEF Good
<1>3. ~ d.disconnecting
  BY <1>2, Live, Zenon DEF Else, Field, EndFields, Good, Sound
<1>4. DisconnectAnswered(c) = IF ms > 0 THEN EnterSleepMode(d, ms) ELSE GatewayDisconnected(d, None)
  BY Zenon DEF DisconnectAnswered
<1> HIDE DEF d, ms
<1>5. Good(GatewayDisconnected(d, None), {})
  BY <1>2, GatewayDisconnectedGood, ClientConnAssumption, Zenon DEF Good, Sound, Reported
<1>6. Good(EnterSleepMode(d, Sleep), {})
  BY <1>2, <1>3, EnterSleepModeGood, Zenon
<1> QED BY <1>1, <1>4, <1>5, <1>6

-----------------------------------------------------------------------------
(* Messages. *)

LEMMA DispatchGood ==
    ASSUME NEW c, Good(c, {}), NEW op, Has(c, op), NEW msg
    PROVE  Good(Dispatch(c, op, msg), {})
<1> DEFINE r == Dispatch(c, op, msg)
<1>1. CASE op = "KeepAlive"
  <2>1. r \in {KeepAlivePingresp(c), KeepAliveHeard(c)}
    BY <1>1, Zenon DEF Dispatch
  <2> QED BY <1>1, <2>1, KeepAlivePingrespGood, KeepAliveHeardGood, Zenon
<1>2. CASE op = "Connect"
  <2>1. r \in {ConnectWilltopicreq(c), ConnectWillmsgreq(c), ConnectConnack(c, msg.accepted), c}
    BY <1>2, Zenon DEF Dispatch
  <2> QED BY <1>2, <2>1, ConnectWillGood, ConnectConnackGood, Zenon
<1>3. CASE op = "Will"
  <2>1. r \in {WillWilltopicresp(c, msg.accepted), WillWillmsgresp(c, msg.accepted), c}
    BY <1>3, Zenon DEF Dispatch
  <2> QED BY <1>3, <2>1, WillWilltopicrespGood, WillWillmsgrespGood, Zenon
<1>4. CASE op \notin {"KeepAlive", "Connect", "Will"}
  <2>1. r = c
    BY <1>4, Zenon DEF Dispatch
  <2> QED BY <2>1, Zenon
<1> QED BY <1>1, <1>2, <1>3, <1>4, Zenon

LEMMA HandleProtMessageGood ==
    ASSUME NEW c, Good(c, {}), NEW msg
    PROVE  Good(HandleProtMessage(c, msg), {})
<1> DEFINE Step(d, op) == IF ~ Has(d, op) \/ d.disconnecting THEN d ELSE Dispatch(d, op, msg)
           n == Len(c.ops)
           after[i \in 0 .. n] == IF i = 0 THEN c ELSE Step(after[i - 1], c.ops[i])
<1>1. HandleProtMessage(c, msg) = IF c.disconnecting THEN c ELSE after[n]
  BY Zenon DEF HandleProtMessage
<1>2. n \in Nat
  BY DEF Good, Sound, Typed
<1>3. ASSUME NEW d, Good(d, {}), NEW op
      PROVE  Good(Step(d, op), {})
  BY <1>3, DispatchGood, Zenon
<1> HIDE DEF n, Step
<1>4. \E f : f = [i \in 0 .. n |-> IF i = 0 THEN c ELSE Step(f[i - 1], c.ops[i])]
  <2> DEFINE S == {m \in 0 .. n :
                     \E f : f = [i \in 0 .. m |-> IF i = 0 THEN c ELSE Step(f[i - 1], c.ops[i])]}
  <2>1. 0 \in S
    <3> DEFINE g == [i \in 0 .. 0 |-> c]
    <3>1. g = [i \in 0 .. 0 |-> IF i = 0 THEN c ELSE Step(g[i - 1], c.ops[i])]
      OBVIOUS
    <3> HIDE DEF g
    <3> QED BY <1>2, <3>1
  <2>2. ASSUME NEW m \in 0 .. n - 1, m \in S
        PROVE  m + 1 \in S
    <3>1. PICK f : f = [i \in 0 .. m |-> IF i = 0 THEN c ELSE Step(f[i - 1], c.ops[i])]
      BY <2>2, Zenon
    <3> DEFINE g == [i \in 0 .. m + 1 |-> IF i = m + 1 THEN Step(f[m], c.ops[i]) ELSE f[i]]
    <3>2. \A i \in 0 .. m + 1 : g[i] = IF i = 0 THEN c ELSE Step(g[i - 1], c.ops[i])
      BY <1>2, <3>1
    <3>3. g = [i \in 0 .. m + 1 |-> g[i]]
      BY Zenon
    <3> HIDE DEF g
    <3>4. g = [i \in 0 .. m + 1 |-> IF i = 0 THEN c ELSE Step(g[i - 1], c.ops[i])]
      BY <3>2, <3>3, Zenon
    <3>5. m + 1 \in 0 .. n
      BY <1>2
    <3> QED BY <3>4, <3>5, Zenon
  <2> HIDE DEF S
  <2>3. n \in S
    BY <1>2, <2>1, <2>2, UpTo
  <2> QED BY <2>3, Zenon DEF S
<1>5. after = [i \in 0 .. n |-> IF i = 0 THEN c ELSE Step(after[i - 1], c.ops[i])]
  BY <1>4, Zenon
<1> HIDE DEF after
<1> DEFINE S == {i \in 0 .. n : Good(after[i], {})}
<1>6. 0 \in S
  BY <1>2, <1>5
<1>7. ASSUME NEW i \in 0 .. n - 1, i \in S
      PROVE  i + 1 \in S
  <2>1. after[i + 1] = Step(after[i], c.ops[i + 1])
    BY <1>2, <1>5
  <2> QED BY <1>2, <1>3, <1>7, <2>1
<1> HIDE DEF S
<1>8. n \in S
  BY <1>2, <1>6, <1>7, UpTo
<1> QED BY <1>1, <1>8, Zenon DEF S

LEMMA HandleGood ==
    ASSUME NEW c, Good(c, {}), NEW msg
    PROVE  Good(Handle(c, msg), {})
<1>1. Good(HandlePingreq(c), {})
  BY KeepAlivePingreqGood, Zenon DEF HandlePingreq
<1>2. Good(HandleOther(c), {})
  BY KeepAliveHeardGood, Zenon DEF HandleOther
<1>3. Good(HandleDisconnect(c), {})
  <2>1. \/ HandleDisconnect(c) \in {c, GatewayDisconnected(c, "DisconnectMsg")}
        \/ Has(c, "Disconnect") /\ HandleDisconnect(c) = DisconnectAnswered(c)
    BY Zenon DEF HandleDisconnect
  <2>2. Good(GatewayDisconnected(c, "DisconnectMsg"), {})
    BY GatewayDisconnectedGood, Zenon DEF Good, Sound, Reported
  <2> QED BY <2>1, <2>2, DisconnectAnsweredGood, Zenon
<1>4. Handle(c, msg) \in {HandlePingreq(c), HandleDisconnect(c), HandleOther(c), HandleProtMessage(c, msg)}
  BY Zenon DEF Handle
<1> QED BY <1>1, <1>2, <1>3, <1>4, HandleProtMessageGood, Zenon

-----------------------------------------------------------------------------
(* Time. *)

\* The callback of a timer that was due.
LEMMA TimeoutGood ==
    ASSUME NEW c, NEW due, Good(c, due), NEW t \in Owner, t \in due, Has(c, OwnerOp(t))
    PROVE  Good(Timeout(c, t), due \ {t})
<1>1. CASE t = "resp"
  BY <1>1, PingTimeoutGood, Zenon DEF Timeout, OwnerOp, Good
<1>2. ASSUME t # "resp"
      PROVE  Sound(c, due \ {t})
  <2>1. Awaited(c, due \ {t}) = Awaited(c, due)
    BY <1>2, Zenon DEF Awaited
  <2> QED BY <2>1, Zenon DEF Good, Sound, Pinged
<1>3. CASE t \in {"ping", "recv"}
  BY <1>2, <1>3, SendPingGood, Zenon DEF Timeout, OwnerOp
<1>4. CASE t \in Request
  <2>1. OwnerOp(t) = t /\ t \notin TimersOf("KeepAlive")
    BY <1>4, Zenon DEF OwnerOp, Request, Op, TimersOf
  <2>2. Good(c, due \ {t})
    BY <1>2, <1>4, <2>1, Zenon DEF Good, Watched, TimersOf, Request, Op
  <2>3. /\ Good(CompleteOp(c, t), due \ {t})
        /\ c.retries[t] # 0 => Good(SendInternal([c EXCEPT !.retries[t] = @ - 1], t), due \ {t})
    BY <1>4, <2>1, <2>2, RequestTimeoutGood, Zenon
  <2>4. Timeout(c, t) = IF c.retries[t] = 0 THEN CompleteOp(c, t)
                        ELSE SendInternal([c EXCEPT !.retries[t] = @ - 1], t)
    <3>1. CASE t = "Connect"
      BY <3>1, SendInternals, Zenon DEF Timeout, ConnectTimeout
    <3>2. CASE t = "Disconnect"
      BY <3>2, SendInternals, Zenon DEF Timeout, DisconnectTimeout
    <3>3. CASE t = "Will"
      BY <3>3, SendInternals, Zenon DEF Timeout, WillTimeout
    <3> QED BY <1>4, <3>1, <3>2, <3>3, Zenon DEF Request, Op
  <2> QED BY <2>3, <2>4, Zenon
<1> QED BY <1>1, <1>3, <1>4, Zenon DEF Owner, Request, Op

\* A timer that was due is not called back if its operation is gone.
LEMMA SkipGood ==
    ASSUME NEW c, NEW due, Good(c, due), NEW t \in Owner, ~ Has(c, OwnerOp(t))
    PROVE  Good(c, due \ {t})
<1>1. CASE t \in TimersOf("KeepAlive")
  <2>1. ~ Has(c, "KeepAlive")
    BY <1>1, Zenon DEF OwnerOp, TimersOf
  <2> QED BY <2>1, Zenon DEF Good, Sound, Pinged, Watched
<1>2. CASE t \notin TimersOf("KeepAlive")
  <2>1. Awaited(c, due \ {t}) = Awaited(c, due)
    BY <1>2, Zenon DEF Awaited, TimersOf
  <2>2. Watched(c, due \ {t})
    BY <1>2, Zenon DEF Good, Watched
  <2> QED BY <2>1, <2>2, Zenon DEF Good, Sound, Pinged
<1> QED BY <1>1, <1>2, Zenon

\* The owners of the slots after i that are due.
DueAfter(ts, ms, i) == {ts[j].owner : j \in {x \in Due(ts, ms) : x > i}}

LEMMA DueSteps ==
    ASSUME NEW ts, NEW T, Table(ts, T), NEW ms \in Nat, NEW i \in 0 .. 5
    PROVE  /\ i + 1 \in Due(ts, ms) =>
                 /\ ts[i + 1].owner \in Owner /\ ts[i + 1].owner \in DueAfter(ts, ms, i)
                 /\ DueAfter(ts, ms, i) \ {ts[i + 1].owner} = DueAfter(ts, ms, i + 1)
           /\ i + 1 \notin Due(ts, ms) => DueAfter(ts, ms, i) = DueAfter(ts, ms, i + 1)
<1>1. \A j \in Due(ts, ms) : j \in 1 .. 6 /\ ts[j].left > 0
  BY DEF Due, Table
<1>2. i + 1 \notin Due(ts, ms) => DueAfter(ts, ms, i) = DueAfter(ts, ms, i + 1)
  <2>1. i + 1 \notin Due(ts, ms) => \A j \in Due(ts, ms) : j > i <=> j > i + 1
    BY <1>1
  <2> QED BY <2>1, Zenon DEF DueAfter
<1>3. ASSUME i + 1 \in Due(ts, ms)
      PROVE  /\ ts[i + 1].owner \in Owner /\ ts[i + 1].owner \in DueAfter(ts, ms, i)
             /\ DueAfter(ts, ms, i) \ {ts[i + 1].owner} = DueAfter(ts, ms, i + 1)
  <2>1. ts[i + 1].owner \in Owner
    BY <1>1, <1>3 DEF Table, Slot
  <2>2. \A j \in Due(ts, ms) : j > i + 1 => ts[j].owner # ts[i + 1].owner
    BY <1>1, <1>3, <2>1, SMTT(30) DEF Table, Owner
  <2>3. \A j \in Due(ts, ms) : j > i <=> j > i + 1 \/ j = i + 1
    BY <1>1
  <2> QED BY <1>3, <2>1, <2>2, <2>3, Zenon DEF DueAfter
<1> QED BY <1>2, <1>3, Zenon

LEMMA StoppedGood ==
    ASSUME NEW c, Good(c, {}), NEW ms \in Nat
    PROVE  Good([c EXCEPT !.timers = Stopped(@, ms)], DueAfter(c.timers, ms, 0))
<1> DEFINE ts == Stopped(c.timers, ms)
           r == [c EXCEPT !.timers = ts]
           due == DueAfter(c.timers, ms, 0)
<1>0. Typed(c) /\ Reported(c) /\ Pinged(c, {}) /\ Watched(c, {}) /\ c.timers \in [1 .. 6 -> Slot]
  BY Zenon DEF Good, Sound, Typed, Table
<1>1. /\ ts \in [1 .. 6 -> Slot]
      /\ \A i \in 1 .. 6 : /\ ts[i].owner = c.timers[i].owner
                           /\ ts[i].left = IF c.timers[i].left > ms THEN c.timers[i].left - ms ELSE 0
  <2>1. \A i \in 1 .. 6 : c.timers[i] \in Slot
    BY <1>0, Zenon
  <2>2. ts = [i \in 1 .. 6 |-> [c.timers[i] EXCEPT !.left = IF @ > ms THEN @ - ms ELSE 0]]
    BY <1>0, Zenon DEF Stopped
  <2> HIDE DEF ts
  <2>3. ASSUME NEW i \in 1 .. 6
        PROVE  /\ ts[i] \in Slot /\ ts[i].owner = c.timers[i].owner
               /\ ts[i].left = IF c.timers[i].left > ms THEN c.timers[i].left - ms ELSE 0
    <3>1. PICK x \in Slot : x = c.timers[i]
      BY <2>1, Zenon
    <3>2. ts[i] = [x EXCEPT !.left = IF @ > ms THEN @ - ms ELSE 0]
      BY <2>2, <3>1, Zenon
    <3> HIDE DEF Slot
    <3>3. LET y == [x EXCEPT !.left = IF @ > ms THEN @ - ms ELSE 0]
          IN y \in Slot /\ y.owner = x.owner /\ y.left = IF x.left > ms THEN x.left - ms ELSE 0
      BY SMTT(30) DEF Slot
    <3> QED BY <3>1, <3>2, <3>3, Zenon
  <2> QED BY <2>2, <2>3, Zenon
<1>2. Table(ts, Owners(OpSet(c.ops)))
  <2> HIDE DEF ts
  <2>1. \A i \in 1 .. 6 : c.timers[i].left = 0 => ts[i].left = 0
    <3>1. ~ (0 > ms)
      OBVIOUS
    <3> QED BY <1>1, <3>1, Zenon
  <2>2. Table(c.timers, Owners(OpSet(c.ops)))
    BY <1>0, Zenon DEF Typed
  <2>3. \A i \in 1 .. 6 : ts[i].owner = c.timers[i].owner
    BY <1>1, Zenon
  <2> QED BY <1>1, <2>1, <2>2, <2>3, LeftTable, ZenonT(30)
<1>3. \A t : t \in Active(ts) <=> \E i \in 1 .. 6 : c.timers[i].owner = t /\ c.timers[i].left > ms
  <2> HIDE DEF ts
  <2>1. \A i \in 1 .. 6 : c.timers[i].left \in Nat
    BY <1>0, Zenon DEF Slot
  <2>2. \A i \in 1 .. 6 : ts[i].owner = c.timers[i].owner /\ (ts[i].left > 0 <=> c.timers[i].left > ms)
    <3>1. \A x \in Nat : (IF x > ms THEN x - ms ELSE 0) > 0 <=> x > ms
      OBVIOUS
    <3> QED BY <1>1, <2>1, <3>1, Zenon
  <2>3. \A t : t \in Active(ts) <=> \E i \in 1 .. 6 : ts[i].owner = t /\ ts[i].left > 0
    BY <1>1, ActiveIs, Zenon
  <2> QED BY <2>2, <2>3, SMT
<1> HIDE DEF ts
<1>4. \A t : t \in due <=> \E i \in 1 .. 6 : c.timers[i].owner = t /\ c.timers[i].left \in 1 .. ms
  BY <1>0, SMTT(30) DEF DueAfter, Due
<1> HIDE DEF due
<1>5. \A t : t \in Active(c.timers) <=> t \in Active(ts) \/ t \in due
  <2>1. \A i \in 1 .. 6 : c.timers[i].left \in Nat
    BY <1>0, Zenon DEF Slot
  <2>2. \A x \in Nat : x > 0 <=> x > ms \/ x \in 1 .. ms
    OBVIOUS
  <2>3. \A t : t \in Active(c.timers) <=> \E i \in 1 .. 6 : c.timers[i].owner = t /\ c.timers[i].left > 0
    BY <1>0, ActiveIs, Zenon
  <2>4. \A i \in 1 .. 6 : c.timers[i].left > 0 <=> c.timers[i].left > ms \/ c.timers[i].left \in 1 .. ms
    BY <2>1, <2>2, Zenon
  <2> QED BY <1>3, <1>4, <2>3, <2>4, ZenonT(60)
<1>6. \A t \in Owner : ~ (t \in Active(ts) /\ t \in due)
  <2> SUFFICES ASSUME NEW t \in Owner, t \in Active(ts), t \in due PROVE FALSE
    BY Zenon
  <2>1. PICK i \in 1 .. 6 : c.timers[i].owner = t /\ c.timers[i].left > ms
    BY <1>3, Zenon
  <2>2. PICK j \in 1 .. 6 : c.timers[j].owner = t /\ c.timers[j].left \in 1 .. ms
    BY <1>4, Zenon
  <2>3. \A m, n \in 1 .. 6 :
            c.timers[m].owner = c.timers[n].owner /\ c.timers[m].owner # "none" => m = n
    BY <1>0, Zenon DEF Typed, Table
  <2>4. t # "none"
    <3>1. "none" \notin Owner
      BY Zenon DEF Owner
    <3> QED BY <3>1, Zenon
  <2>5. i = j
    BY <2>1, <2>2, <2>3, <2>4, Zenon
  <2>6. c.timers[i].left \in 1 .. ms /\ c.timers[i].left > ms
    BY <2>1, <2>2, <2>5, Zenon
  <2> QED BY <2>6
<1>7. Typed(r) /\ Reported(r) /\ Else(r, c, {"timers"}) /\ r.timers = ts
  BY <1>0, <1>2, SetTimers, Zenon
<1> HIDE DEF r
<1>8. /\ r.ops = c.ops /\ r.retries = c.retries /\ r.keepAliveMs = c.keepAliveMs /\ r.pings = c.pings
      /\ r.connectionStatus = c.connectionStatus
  BY <1>7, Zenon DEF Else, Field
<1>9. Awaited(r, due) = Awaited(c, {})
  <2>1. "resp" \in Owner
    BY Zenon DEF Owner
  <2> QED BY <1>5, <1>6, <1>7, <2>1 DEF Awaited
<1>10. Pinged(r, due)
  BY <1>0, <1>8, <1>9, Zenon DEF Pinged, Has
<1>11. Watched(r, due)
  BY <1>0, <1>5, <1>7, <1>8, Zenon DEF Watched, Has
<1> QED BY <1>7, <1>10, <1>11, Zenon DEF Good, Sound, r, ts, due

LEMMA TickGood ==
    ASSUME NEW c, Good(c, {}), NEW ms \in Nat
    PROVE  Good(Tick(c, ms), {})
<1> DEFINE ts == c.timers
           start == [c EXCEPT !.timers = Stopped(@, ms)]
           Call(d, t) == IF Has(d, OwnerOp(t)) THEN Timeout(d, t) ELSE d
           Step(d, i) == IF i \in Due(ts, ms) THEN Call(d, ts[i].owner) ELSE d
           after[i \in 0 .. Len(ts)] ==
               CASE i = 0 -> start
                 [] i # 0 /\ i \in Due(ts, ms) -> Call(after[i - 1], ts[i].owner)
                 [] i # 0 /\ i \notin Due(ts, ms) -> after[i - 1]
<1>1. Tick(c, ms) = after[Len(ts)]
  BY Zenon DEF Tick
<1>2. Len(ts) = 6 /\ Table(ts, Owners(OpSet(c.ops)))
  <2>1. Table(ts, Owners(OpSet(c.ops)))
    BY Zenon DEF Good, Sound, Typed
  <2> HIDE DEF ts
  <2>2. ts \in [1 .. 6 -> Slot]
    BY <2>1, Zenon DEF Table
  <2> QED BY <2>1, <2>2
<1>3. Good(start, DueAfter(ts, ms, 0))
  BY StoppedGood, Zenon
<1>4. ASSUME NEW d, NEW i \in 0 .. 5, Good(d, DueAfter(ts, ms, i))
      PROVE  Good(Step(d, i + 1), DueAfter(ts, ms, i + 1))
  <2>1. CASE i + 1 \in Due(ts, ms)
    <3>1. /\ ts[i + 1].owner \in Owner /\ ts[i + 1].owner \in DueAfter(ts, ms, i)
          /\ DueAfter(ts, ms, i) \ {ts[i + 1].owner} = DueAfter(ts, ms, i + 1)
      BY <1>2, <2>1, DueSteps, Zenon
    <3> QED BY <1>4, <2>1, <3>1, TimeoutGood, SkipGood, SMTT(30)
  <2>2. CASE i + 1 \notin Due(ts, ms)
    BY <1>2, <1>4, <2>2, DueSteps, Zenon
  <2> QED BY <2>1, <2>2, Zenon
<1> HIDE DEF start, Call
<1> DEFINE n == 6
<1>5. \A f : [i \in 0 .. 6 |-> CASE i = 0 -> start
                                 [] i # 0 /\ i \in Due(ts, ms) -> Call(f[i - 1], ts[i].owner)
                                 [] i # 0 /\ i \notin Due(ts, ms) -> f[i - 1]]
             = [i \in 0 .. 6 |-> IF i = 0 THEN start ELSE Step(f[i - 1], i)]
  BY Zenon
<1> HIDE DEF Step, ts
<1>6. \E f : f = [i \in 0 .. n |-> IF i = 0 THEN start ELSE Step(f[i - 1], i)]
  <2> DEFINE S == {m \in 0 .. n : \E f : f = [i \in 0 .. m |-> IF i = 0 THEN start ELSE Step(f[i - 1], i)]}
  <2>1. 0 \in S
    <3> DEFINE g == [i \in 0 .. 0 |-> start]
    <3>1. g = [i \in 0 .. 0 |-> IF i = 0 THEN start ELSE Step(g[i - 1], i)]
      OBVIOUS
    <3> HIDE DEF g
    <3> QED BY <3>1
  <2>2. ASSUME NEW m \in 0 .. n - 1, m \in S
        PROVE  m + 1 \in S
    <3>1. PICK f : f = [i \in 0 .. m |-> IF i = 0 THEN start ELSE Step(f[i - 1], i)]
      BY <2>2, Zenon
    <3> DEFINE g == [i \in 0 .. m + 1 |-> IF i = m + 1 THEN Step(f[m], i) ELSE f[i]]
    <3>2. \A i \in 0 .. m + 1 : g[i] = IF i = 0 THEN start ELSE Step(g[i - 1], i)
      BY <3>1
    <3>3. g = [i \in 0 .. m + 1 |-> g[i]]
      BY Zenon
    <3> HIDE DEF g
    <3>4. g = [i \in 0 .. m + 1 |-> IF i = 0 THEN start ELSE Step(g[i - 1], i)]
      BY <3>2, <3>3, Zenon
    <3> QED BY <3>4
  <2> HIDE DEF S
  <2>3. n \in S
    BY <2>1, <2>2, UpTo
  <2> QED BY <2>3, Zenon DEF S
<1>7. after = [i \in 0 .. n |-> IF i = 0 THEN start ELSE Step(after[i - 1], i)]
  <2> DEFINE Body(f) == [i \in 0 .. Len(ts) |->
                           CASE i = 0 -> start
                             [] i # 0 /\ i \in Due(ts, ms) -> Call(f[i - 1], ts[i].owner)
                             [] i # 0 /\ i \notin Due(ts, ms) -> f[i - 1]]
  <2>1. \A f : Body(f) = [i \in 0 .. n |-> IF i = 0 THEN start ELSE Step(f[i - 1], i)]
    BY <1>2, <1>5, Zenon
  <2>2. after = CHOOSE f : f = Body(f)
    OBVIOUS
  <2> HIDE DEF Body, after
  <2>3. \E f : f = Body(f)
    BY <1>6, <2>1, Zenon
  <2>4. after = Body(after)
    BY <2>2, <2>3, Zenon
  <2> QED BY <2>1, <2>4, Zenon
<1> HIDE DEF after
<1> DEFINE S == {i \in 0 .. n : Good(after[i], DueAfter(ts, ms, i))}
<1>8. 0 \in S
  BY <1>3, <1>7
<1>9. ASSUME NEW i \in 0 .. n - 1, i \in S
      PROVE  i + 1 \in S
  <2>1. after[i + 1] = Step(after[i], i + 1)
    BY <1>7, SMTT(20)
  <2> QED BY <1>4, <1>9, <2>1
<1> HIDE DEF S
<1>10. n \in S
  BY <1>8, <1>9, UpTo
<1>11. DueAfter(ts, ms, 6) = {}
  BY <1>2, SMTT(30) DEF DueAfter, Due, Table
<1> QED BY <1>1, <1>2, <1>10, <1>11, Zenon DEF S

-----------------------------------------------------------------------------
(* The application. *)

LEMMA SentSound ==
    ASSUME NEW c, NEW due, Good(c, due), NEW op \in Request, Has(c, op)
    PROVE  Good(Sent(c, op), due) /\ Else(Sent(c, op), c, {"sent", "owed"})
<1> DEFINE r == Sent(c, op)
<1>1. Else(r, c, {"sent", "owed"}) /\ r.sent = c.sent \cup {op} /\ r.owed = c.owed \cup {op}
  BY Zenon DEF Sent, Good, Sound, Typed, Else, Field
<1> HIDE DEF r
<1>2. /\ DOMAIN r = Field /\ r.ops = c.ops /\ r.timers = c.timers /\ r.retries = c.retries
      /\ r.conf = c.conf /\ r.keepAliveMs = c.keepAliveMs /\ r.pings = c.pings
      /\ r.disconnecting = c.disconnecting /\ r.initialized = c.initialized
      /\ r.connectionStatus = c.connectionStatus /\ r.reason = c.reason
  BY <1>1, Zenon DEF Else, Field
<1>3. op \in OpSet(c.ops) \ {"KeepAlive"}
  BY Live, Zenon DEF Good, Sound, Request
<1>4. Typed(r)
  BY <1>2, Zenon DEF Good, Sound, Typed
<1>5. Reported(r)
  BY <1>1, <1>2, <1>3, Zenon DEF Good, Sound, Reported, Has
<1>6. Pinged(r, due) /\ Watched(r, due)
  BY <1>2, Zenon DEF Good, Sound, Pinged, Watched, Has, Awaited
<1> QED BY <1>1, <1>4, <1>5, <1>6, Zenon DEF r, Good, Sound

LEMMA InitInternalGood ==
    ASSUME NEW c, Good(c, {})
    PROVE  Good(InitInternal(c), {})
<1> DEFINE d == TerminateOps(c)
           r == [d EXCEPT !.connectionStatus = "Disconnected", !.disconnecting = FALSE,
                          !.keepAliveMs = 0, !.initialized = TRUE, !.reason = None]
<1>1. r = InitInternal(c)
  BY Zenon DEF InitInternal
<1>2. /\ Typed(d) /\ d.ops = << >> /\ d.sent = {} /\ d.owed = {} /\ \A op : ~ Has(d, op)
  BY TerminateOpsEnds, Zenon DEF Good, Sound, Reported
<1> HIDE DEF d
<1>3. /\ DOMAIN r = Field /\ r.ops = d.ops /\ r.timers = d.timers /\ r.retries = d.retries
      /\ r.conf = d.conf /\ r.keepAliveMs = 0 /\ r.pings = d.pings /\ r.sent = {} /\ r.owed = {}
      /\ r.disconnecting = FALSE /\ r.connectionStatus = "Disconnected" /\ r.reason = None
  BY <1>2, Zenon DEF Typed, Field
<1> HIDE DEF r
<1>4. Typed(r)
  BY <1>2, <1>3, SMTT(30) DEF Typed
<1>5. \A op : ~ Has(r, op)
  BY <1>2, <1>3, Zenon DEF Has
<1>6. Reported(r) /\ Pinged(r, {}) /\ Watched(r, {})
  BY <1>3, <1>5, ClientConnAssumption, Zenon DEF Reported, Pinged, Watched
<1> QED BY <1>1, <1>4, <1>6, Zenon DEF Good, Sound

LEMMA ConnectSendGood ==
    ASSUME NEW c, Good(c, {}), Has(c, "Connect"), NEW clean
    PROVE  Good(ConnectSend(c, clean), {})
<1> DEFINE a == Sent(c, "Connect")
           b == SendInternal(a, "Connect")
           w == IF clean THEN Empty ELSE b.prevWill
           r == [b EXCEPT !.connectionStatus = "Disconnected", !.prevWill = w]
<1>1. r = ConnectSend(c, clean)
  BY SendInternals, Zenon DEF ConnectSend
<1>2. "Connect" \in Request
  BY Zenon DEF Request, Op
<1>3. Good(a, {}) /\ a.ops = c.ops
  BY <1>2, SentSound, Zenon DEF Else, Field
<1> HIDE DEF a
<1>4. Good(b, {})
  BY <1>2, <1>3, SendInternalGood, Zenon DEF Good, Has
<1> HIDE DEF b, w
<1>5. /\ DOMAIN r = Field /\ r.ops = b.ops /\ r.timers = b.timers /\ r.retries = b.retries
      /\ r.conf = b.conf /\ r.keepAliveMs = b.keepAliveMs /\ r.pings = b.pings /\ r.sent = b.sent
      /\ r.owed = b.owed /\ r.disconnecting = b.disconnecting /\ r.initialized = b.initialized
      /\ r.connectionStatus = "Disconnected" /\ r.reason = b.reason
  BY <1>4, Zenon DEF Good, Sound, Typed, Field
<1> HIDE DEF r
<1>6. Typed(r) /\ Reported(r)
  BY <1>4, <1>5, Zenon DEF Good, Sound, Typed, Reported, Has
<1>7. Pinged(r, {}) /\ Watched(r, {})
  BY <1>4, <1>5, Zenon DEF Good, Sound, Pinged, Watched, Has, Awaited
<1> QED BY <1>1, <1>6, <1>7, Zenon DEF Good, Sound

LEMMA DisconnectSendGood ==
    ASSUME NEW c, Good(c, {}), Has(c, "Disconnect")
    PROVE  Good(DisconnectSend(c), {})
<1> DEFINE a == Sent(c, "Disconnect")
<1>1. DisconnectSend(c) = SendInternal(a, "Disconnect")
  BY SendInternals, Zenon DEF DisconnectSend
<1>2. "Disconnect" \in Request
  BY Zenon DEF Request, Op
<1>3. Good(a, {}) /\ a.ops = c.ops
  BY <1>2, SentSound, Zenon DEF Else, Field
<1> HIDE DEF a
<1> QED BY <1>1, <1>2, <1>3, SendInternalGood, Zenon DEF Good, Has

LEMMA WillSendGood ==
    ASSUME NEW c, Good(c, {}), Has(c, "Will")
    PROVE  Good(WillSend(c), {})
<1> DEFINE will == c.conf["Will"]
           same == c.prevWill.topic # "" /\ will.topic = c.prevWill.topic
           a == Sent(c, "Will")
           d == [a EXCEPT !.stage["Will"] = IF same THEN "willMsg" ELSE "willTopic"]
           w == CASE will.topic = "" -> Empty
                  [] will.topic # "" /\ ~ same -> [d.prevWill EXCEPT !.topic = ""]
                  [] will.topic # "" /\ same -> d.prevWill
           e == [d EXCEPT !.prevWill = w]
<1>1. WillSend(c) \in {CompleteOp(d, "Will"), SendInternal(e, "Will")}
  BY SendInternals, Zenon DEF WillSend
<1>2. "Will" \in Request /\ 0 \in Nat
  BY Zenon DEF Request, Op
<1>3. Good(a, {}) /\ a.ops = c.ops
  BY <1>2, SentSound, Zenon DEF Else, Field
<1> HIDE DEF a, w, same
<1>4. /\ Else(d, a, {"prevWill", "retries", "stage"}) /\ d.retries = a.retries
      /\ Else(e, a, {"prevWill", "retries", "stage"}) /\ e.retries = a.retries
  BY <1>3, Zenon DEF Good, Sound, Typed, Else, Field
<1> HIDE DEF d, e
<1>5. Alike(d, a) /\ Alike(e, a)
  BY <1>2, <1>3, <1>4, NoteAlike, Zenon DEF Good
<1>6. Good(d, {})
  BY <1>3, <1>5, AlikeSound, Zenon DEF Good
<1>7. Good(CompleteOp(d, "Will"), {})
  BY <1>2, <1>6, CompleteOpSound, Zenon DEF Good
<1>8. Good(SendInternal(e, "Will"), {})
  BY <1>2, <1>3, <1>5, NotedGood, Zenon DEF Good, Has
<1> QED BY <1>1, <1>7, <1>8, Zenon

LEMMA ElapsedNat ==
    ASSUME NEW c, NEW ms \in {0} \cup Elapsed(c)
    PROVE  ms \in Nat
BY DEF Elapsed

\* What send() finds once the timers were served.
LEMMA EnteredGood ==
    ASSUME NEW c, Good(c, {}), NEW ms \in {0} \cup Elapsed(c)
    PROVE  Good(IF ms = 0 THEN c ELSE Tick(c, ms), {})
BY ElapsedNat, TickGood, Zenon

LEMMA AllocOpIs ==
    ASSUME NEW c, Typed(c), NEW op
    PROVE  AllocOp(c, op) = [AllocOp(c, op) EXCEPT !.conf = c.conf]
BY Zenon DEF AllocOp, Typed, Field

LEMMA PreparedGood ==
    ASSUME NEW c, Good(c, {}), NEW op \in Request \ {"Disconnect"}, ~ Has(c, op), ~ c.disconnecting
    PROVE  /\ Good(AllocOp(c, op), {}) /\ Has(AllocOp(c, op), op)
           /\ AllocOp(c, op).sent = c.sent
<1>1. DOMAIN c.conf = Request
  BY Zenon DEF Good, Sound, Typed, Request
<1>2. /\ Sound([AllocOp(c, op) EXCEPT !.conf = c.conf], {}) /\ Has([AllocOp(c, op) EXCEPT !.conf = c.conf], op)
      /\ Watched([AllocOp(c, op) EXCEPT !.conf = c.conf], {})
  BY <1>1, AllocOpSound, Zenon DEF Good
<1>3. AllocOp(c, op).sent = c.sent
  BY Zenon DEF AllocOp, Good, Sound, Typed, Field
<1> QED BY <1>2, <1>3, AllocOpIs, Zenon DEF Good, Sound

-----------------------------------------------------------------------------
(* The steps. *)

LEMMA ConnectGood ==
    ASSUME ConnInv, NEW will, NEW clean, Connect(will, clean)
    PROVE  ConnInv'
<1> DEFINE c == IF k.initialized THEN k ELSE InitInternal(k)
           d == AllocOp(c, "Connect")
           e == ConnectConfig(d, will)
<1>1. Good(c, {})
  BY InitInternalGood, Zenon DEF ConnInv
<1>2. /\ MayConnect(c)
      /\ \/ \E ms \in {0} \cup Elapsed(e) :
               LET g == IF ms = 0 THEN e ELSE Tick(e, ms)
               IN k' = IF Has(g, "Connect") THEN ConnectSend(g, clean) ELSE g
         \/ k' = OpComplete(d, "Connect")
  BY Zenon DEF Connect, ConnectPrepare, Entered
<1> HIDE DEF c
<1>3. "Connect" \in Request \ {"Disconnect"} /\ ~ Has(c, "Connect") /\ ~ c.disconnecting
  BY <1>2, Zenon DEF Request, Op, MayConnect
<1>4. Good(d, {}) /\ Has(d, "Connect") /\ d.sent = c.sent
  BY <1>1, <1>3, PreparedGood, Zenon
<1> HIDE DEF d
<1>5. Good(e, {})
  <2>1. /\ Else(e, d, {"conf", "stage"}) /\ e.conf = [d.conf EXCEPT !["Connect"] = will]
        /\ DOMAIN d.conf = Op \ {"KeepAlive"}
    BY <1>4, Zenon DEF ConnectConfig, Good, Sound, Typed, Else, Field
  <2> HIDE DEF e
  <2>2. DOMAIN e.conf = Op \ {"KeepAlive"} /\ e.conf["Disconnect"] = d.conf["Disconnect"]
    BY <2>1, Zenon DEF Op
  <2>3. e.retries = d.retries
    BY <2>1, Zenon DEF Else, Field
  <2>4. Alike(e, d)
    BY <1>4, <2>1, <2>2, <2>3, Zenon DEF Alike, Else, Good, Sound, Typed
  <2> QED BY <1>4, <2>4, AlikeSound, Zenon DEF Good
<1> HIDE DEF e
<1>6. CASE k' = OpComplete(d, "Connect")
  <2>1. "Connect" \notin d.owed
    <3>1. "Connect" \notin OpSet(c.ops)
      BY <1>1, <1>3, HasIs, Zenon DEF Good, Sound, Typed
    <3> QED BY <1>1, <1>4, <3>1, Zenon DEF Good, Sound, Reported
  <2>2. OpComplete(d, "Connect") = [OpComplete(d, "Connect") EXCEPT !.owed = d.owed \ {"Connect"}]
    <3>1. d.owed \ {"Connect"} = d.owed
      BY <2>1, Zenon
    <3> QED BY <1>4, <3>1, Zenon DEF OpComplete, Good, Sound, Typed, Field
  <2>3. /\ Sound([OpComplete(d, "Connect") EXCEPT !.owed = d.owed \ {"Connect"}], {})
        /\ Watched([OpComplete(d, "Connect") EXCEPT !.owed = d.owed \ {"Connect"}], {})
    BY <1>3, <1>4, EndedSound, Zenon DEF Good
  <2> QED BY <1>6, <2>2, <2>3, Zenon DEF ConnInv, Good
<1>7. CASE \E ms \in {0} \cup Elapsed(e) :
               LET g == IF ms = 0 THEN e ELSE Tick(e, ms)
               IN k' = IF Has(g, "Connect") THEN ConnectSend(g, clean) ELSE g
  <2>1. PICK ms \in {0} \cup Elapsed(e) :
               LET g == IF ms = 0 THEN e ELSE Tick(e, ms)
               IN k' = IF Has(g, "Connect") THEN ConnectSend(g, clean) ELSE g
    BY <1>7, Zenon
  <2> DEFINE g == IF ms = 0 THEN e ELSE Tick(e, ms)
  <2>2. Good(g, {})
    BY <1>5, EnteredGood, Zenon
  <2>3. k' = IF Has(g, "Connect") THEN ConnectSend(g, clean) ELSE g
    BY <2>1, Zenon
  <2> HIDE DEF g
  <2> QED BY <2>2, <2>3, ConnectSendGood, Zenon DEF ConnInv
<1> QED BY <1>2, <1>6, <1>7, Zenon

LEMMA DisconnectGood ==
    ASSUME ConnInv, NEW sleep \in {0, Sleep}, Disconnect(sleep)
    PROVE  ConnInv'
<1> DEFINE f == [k.conf EXCEPT !["Disconnect"] = sleep]
           e == DisconnectConfig(AllocOp(k, "Disconnect"), sleep)
<1>1. Good(k, {}) /\ MayDisconnect(k) /\ "Disconnect" \in Request
  BY Zenon DEF ConnInv, Disconnect, Request, Op
<1>2. PICK ms \in {0} \cup Elapsed(e) :
           LET g == IF ms = 0 THEN e ELSE Tick(e, ms)
           IN k' = IF Has(g, "Disconnect") THEN DisconnectSend(g) ELSE g
  BY Zenon DEF Disconnect, Entered
<1>3. e = [AllocOp(k, "Disconnect") EXCEPT !.conf = f]
  BY <1>1, Zenon DEF DisconnectConfig, AllocOp, Good, Sound, Typed, Field
<1>4. DOMAIN f = Request /\ f["Disconnect"] = sleep
  BY <1>1, Zenon DEF Good, Sound, Typed, Request
<1> HIDE DEF e, f
<1>5. Good(e, {})
  <2>1. ~ Has(k, "Disconnect") /\ ~ k.disconnecting
    BY <1>1, Zenon DEF MayDisconnect
  <2>2. /\ Sound([AllocOp(k, "Disconnect") EXCEPT !.conf = f], {})
        /\ Watched([AllocOp(k, "Disconnect") EXCEPT !.conf = f], {})
    BY <1>1, <1>4, <2>1, AllocOpSound, Zenon DEF Good
  <2> QED BY <1>3, <2>2, Zenon DEF Good
<1> DEFINE g == IF ms = 0 THEN e ELSE Tick(e, ms)
<1>6. Good(g, {})
  BY <1>5, EnteredGood, Zenon
<1>7. k' = IF Has(g, "Disconnect") THEN DisconnectSend(g) ELSE g
  BY <1>2, Zenon
<1> HIDE DEF g
<1> QED BY <1>6, <1>7, DisconnectSendGood, Zenon DEF ConnInv

LEMMA SetWillGood ==
    ASSUME ConnInv, NEW will, SetWill(will)
    PROVE  ConnInv'
<1> DEFINE d == AllocOp(k, "Will")
           e == WillConfig(d, will)
<1>1. Good(k, {}) /\ ~ Has(k, "Will") /\ ~ k.disconnecting /\ "Will" \in Request \ {"Disconnect"}
  BY Zenon DEF ConnInv, SetWill, MaySetWill, Request, Op
<1>2. PICK ms \in {0} \cup Elapsed(e) :
           LET g == IF ms = 0 THEN e ELSE Tick(e, ms)
           IN k' = IF Has(g, "Will") THEN WillSend(g) ELSE g
  BY Zenon DEF SetWill, Entered
<1>3. Good(d, {})
  BY <1>1, PreparedGood, Zenon
<1> HIDE DEF d
<1>4. Good(e, {})
  <2>1. /\ Else(e, d, {"conf"}) /\ e.conf = [d.conf EXCEPT !["Will"] = will]
        /\ DOMAIN d.conf = Op \ {"KeepAlive"}
    BY <1>3, Zenon DEF WillConfig, Good, Sound, Typed, Else, Field
  <2> HIDE DEF e
  <2>2. DOMAIN e.conf = Op \ {"KeepAlive"} /\ e.conf["Disconnect"] = d.conf["Disconnect"]
    BY <2>1, Zenon DEF Op
  <2>3. e.retries = d.retries
    BY <2>1, Zenon DEF Else, Field
  <2>4. Alike(e, d)
    BY <1>3, <2>1, <2>2, <2>3, Zenon DEF Alike, Else, Good, Sound, Typed
  <2> QED BY <1>3, <2>4, AlikeSound, Zenon DEF Good
<1> HIDE DEF e
<1> DEFINE g == IF ms = 0 THEN e ELSE Tick(e, ms)
<1>5. Good(g, {})
  BY <1>4, EnteredGood, Zenon
<1>6. k' = IF Has(g, "Will") THEN WillSend(g) ELSE g
  BY <1>2, Zenon
<1> HIDE DEF g
<1> QED BY <1>5, <1>6, WillSendGood, Zenon DEF ConnInv

LEMMA CancelledGood ==
    ASSUME ConnInv, NEW op \in Request, Cancelled(op)
    PROVE  ConnInv'
<1>1. Good(k, {})
  BY Zenon DEF ConnInv
<1>2. OpComplete(k, op).owed = k.owed
  BY <1>1, Zenon DEF OpComplete, Good, Sound, Typed, Field
<1>3. k' = [OpComplete(k, op) EXCEPT !.owed = k.owed \ {op}]
  BY <1>2, Zenon DEF Cancelled
<1>4. /\ Sound([OpComplete(k, op) EXCEPT !.owed = k.owed \ {op}], {})
      /\ Watched([OpComplete(k, op) EXCEPT !.owed = k.owed \ {op}], {})
  BY <1>1, EndedSound, Zenon DEF Good
<1> QED BY <1>3, <1>4, Zenon DEF ConnInv, Good

LEMMA AsleepCheckMessagesGood ==
    ASSUME ConnInv, NEW ms \in {0} \cup Elapsed(k), AsleepCheckMessages(ms)
    PROVE  ConnInv'
<1> DEFINE c == SendPing(k)
           ts == [i \in DOMAIN c.timers |-> [c.timers[i] EXCEPT !.left =
                     IF @ = 0 THEN 0 ELSE Max({@ - ms, 1})]]
<1>1. Has(k, "KeepAlive") /\ k' = [c EXCEPT !.timers = ts] /\ ms \in Nat
  BY ElapsedNat, Zenon DEF AsleepCheckMessages, ConnInv, Good, Sound, Pinged
<1>2. Good(c, {})
  BY <1>1, SendPingGood, Zenon DEF ConnInv, Good
<1> HIDE DEF c
<1>3. Typed(c) /\ Reported(c) /\ c.timers \in [1 .. 6 -> Slot]
  BY <1>2, Zenon DEF Good, Sound, Typed, Table
<1>4. /\ ts \in [1 .. 6 -> Slot]
      /\ \A i \in 1 .. 6 : ts[i].owner = c.timers[i].owner /\ (ts[i].left > 0 <=> c.timers[i].left > 0)
  <2> DEFINE Left(x) == IF x = 0 THEN 0 ELSE Max({x - ms, 1})
  <2>1. \A x \in Nat : Left(x) \in Nat /\ (Left(x) > 0 <=> x > 0)
    <3> SUFFICES ASSUME NEW x \in Nat PROVE Left(x) \in Nat /\ (Left(x) > 0 <=> x > 0)
      BY Zenon
    <3>1. x - ms \in Int /\ 1 \in Int
      BY <1>1
    <3>2. /\ Max({x - ms, 1}) \in {x - ms, 1} /\ Max({x - ms, 1}) >= x - ms
          /\ Max({x - ms, 1}) >= 1
      BY <3>1, MaxOfTwo, Zenon
    <3> QED BY <3>1, <3>2
  <2>2. ts = [i \in DOMAIN c.timers |-> [c.timers[i] EXCEPT !.left = Left(c.timers[i].left)]]
    BY <1>3, Zenon DEF Slot
  <2> HIDE DEF ts, Left
  <2>3. ASSUME NEW i \in 1 .. 6
        PROVE  /\ ts[i] \in Slot /\ ts[i].owner = c.timers[i].owner
               /\ ts[i].left > 0 <=> c.timers[i].left > 0
    <3>1. PICK x \in Slot : x = c.timers[i]
      BY <1>3, Zenon
    <3>2. ts[i] = [x EXCEPT !.left = Left(x.left)]
      BY <1>3, <2>2, <3>1, Zenon
    <3>3. x.left \in Nat /\ x.owner \in Owner \cup {"none"} /\ x = [owner |-> x.owner, left |-> x.left]
      BY DEF Slot
    <3>4. ts[i] = [owner |-> x.owner, left |-> Left(x.left)]
      BY <3>2, <3>3
    <3>5. ts[i].owner = x.owner /\ ts[i].left = Left(x.left)
      BY <3>4
    <3>6. Left(x.left) \in Nat /\ (Left(x.left) > 0 <=> x.left > 0)
      BY <2>1, <3>3, Zenon
    <3>7. ts[i] \in Slot
      BY <3>3, <3>4, <3>6 DEF Slot
    <3> QED BY <3>1, <3>5, <3>6, <3>7, Zenon
  <2>4. ts = [i \in 1 .. 6 |-> ts[i]]
    BY <1>3, <2>2, Zenon
  <2> QED BY <2>3, <2>4, Zenon
<1> HIDE DEF ts
<1>5. Table(ts, Owners(OpSet(c.ops)))
  <2>1. \A i \in 1 .. 6 : c.timers[i].left = 0 => ts[i].left = 0
    BY <1>3, <1>4 DEF Slot
  <2> QED BY <1>3, <1>4, <2>1, LeftTable, Zenon DEF Typed
<1>6. Active(ts) = Active(c.timers)
  <2>1. \A t : t \in Active(ts) <=> t \in Active(c.timers)
    BY <1>3, <1>4, ActiveIs, SMTT(30)
  <2> QED BY <2>1, Zenon
<1>7. Typed(k') /\ Reported(k') /\ Else(k', c, {"timers"}) /\ k'.timers = ts
  BY <1>1, <1>3, <1>5, SetTimers, Zenon
<1>8. /\ k'.ops = c.ops /\ k'.retries = c.retries /\ k'.keepAliveMs = c.keepAliveMs
      /\ k'.pings = c.pings /\ k'.connectionStatus = c.connectionStatus
  BY <1>7, Zenon DEF Else, Field
<1>9. Awaited(k', {}) = Awaited(c, {})
  BY <1>6, <1>7, Zenon DEF Awaited
<1>10. Pinged(k', {}) /\ Watched(k', {})
  BY <1>2, <1>6, <1>7, <1>8, <1>9, Zenon DEF Good, Sound, Pinged, Watched, Has
<1> QED BY <1>7, <1>10, Zenon DEF ConnInv, Good, Sound

LEMMA ConnInvNext ==
    ASSUME ConnInv, [Next]_vars
    PROVE  ConnInv'
<1>0. Good(k, {})
  BY Zenon DEF ConnInv
<1>1. ASSUME NEW will, NEW clean, Connect(will, clean) PROVE ConnInv'
  BY <1>1, ConnectGood, Zenon
<1>2. ASSUME NEW sleep \in {0, Sleep}, Disconnect(sleep) PROVE ConnInv'
  BY <1>2, DisconnectGood, Zenon
<1>3. ASSUME NEW will, SetWill(will) PROVE ConnInv'
  BY <1>3, SetWillGood, Zenon
<1>4. CASE ConnectCancel \/ DisconnectCancel \/ WillCancel
  <2>1. {"Connect", "Disconnect", "Will"} \subseteq Request
    BY Zenon DEF Request, Op
  <2> QED BY <1>4, <2>1, CancelledGood, Zenon DEF ConnectCancel, DisconnectCancel, WillCancel
<1>5. CASE Publish
  BY <1>0, <1>5, SendMessageSound, Zenon DEF Publish, ConnInv, Good
<1>6. ASSUME NEW ms \in {0} \cup Elapsed(k), AsleepCheckMessages(ms) PROVE ConnInv'
  BY <1>6, AsleepCheckMessagesGood, Zenon
<1>7. ASSUME NEW msg, Receive(msg) PROVE ConnInv'
  BY <1>0, <1>7, HandleGood, Zenon DEF Receive, ConnInv
<1>8. ASSUME NEW ms \in Elapsed(k), Elapse(ms) PROVE ConnInv'
  BY <1>0, <1>8, ElapsedNat, TickGood, Zenon DEF Elapse, ConnInv
<1>9. CASE FallSilent \/ UNCHANGED vars
  BY <1>9, Zenon DEF FallSilent, vars, ConnInv
<1> QED BY <1>1, <1>2, <1>3, <1>4, <1>5, <1>6, <1>7, <1>8, <1>9, Zenon DEF Next

LEMMA ConnInvInit == Init => ConnInv
<1> DEFINE c == InitClient
<1>1. /\ DOMAIN c = Field /\ c.ops = << >> /\ c.timers = NoTimers(6) /\ c.retries = [op \in Op |-> 0]
      /\ DOMAIN c.conf = Op \ {"KeepAlive"} /\ c.keepAliveMs = 0 /\ c.pings = 0 /\ c.sent = {}
      /\ c.owed = {} /\ c.disconnecting = FALSE /\ c.connectionStatus = "Disconnected"
      /\ c.reason = None
  BY Zenon DEF InitClient, Field
<1> HIDE DEF c
<1>2. OpSet(c.ops) = {} /\ Owners({}) = {} /\ c.ops \in Seq(Op) /\ Single(c.ops) /\ \A op : ~ Has(c, op)
  <2>1. c.ops \in Seq(Op) /\ DOMAIN c.ops = {} /\ Len(c.ops) = 0
    BY <1>1
  <2>2. OpSet(c.ops) = {} /\ Single(c.ops)
    BY <2>1, Zenon DEF OpSet, Single
  <2>3. Owners({}) = {}
    BY Zenon DEF Owners
  <2>4. \A op : ~ Has(c, op)
    BY <2>1, <2>2, HasIs, Zenon
  <2> QED BY <2>1, <2>2, <2>3, <2>4, Zenon
<1>3. Typed(c)
  <2>1. Table(c.timers, Owners(OpSet(c.ops)))
    BY <1>1, <1>2, NoTable, Zenon
  <2>2. c.retries \in [Op -> Nat] /\ c.keepAliveMs \in Nat /\ c.pings \in 0 .. RetryCount + 1
    BY <1>1, ClientConnAssumption, SMTT(20)
  <2> QED BY <1>1, <1>2, <2>1, <2>2, Zenon DEF Typed
<1>4. Reported(c) /\ Pinged(c, {}) /\ Watched(c, {})
  BY <1>1, <1>2, ClientConnAssumption, Zenon DEF Reported, Pinged, Watched
<1> QED BY <1>3, <1>4, Zenon DEF Init, ConnInv, Good, Sound, c

LEMMA ConnInvHolds == Spec => []ConnInv
<1>1. ConnInv /\ [Next]_vars => ConnInv'
  BY ConnInvNext, Zenon
<1> QED BY <1>1, ConnInvInit, PTL DEF Spec

\* Whatever the gateway answers, repeats or leaves out, and however late the timers
\* of ConnectOp, DisconnectOp and WillOp are served, an operation that was sent has its
\* callback called exactly once: by completeOpInternal or terminateOps.
THEOREM ReportedOnceHolds == Spec => []ReportedOnce
<1>1. ConnInv => ReportedOnce
  BY Zenon DEF ConnInv, Good, Sound, Reported, ReportedOnce
<1> QED BY <1>1, ConnInvHolds, PTL

\* A client that is connected or asleep always has a timer of KeepAliveOp running,
\* for which TimerMgr always has a slot.
THEOREM ConnectionWatchedHolds == Spec => []ConnectionWatched
<1>1. ConnInv => ConnectionWatched
  BY Zenon DEF ConnInv, Good, Sound, Pinged, Watched, ConnectionWatched
<1> QED BY <1>1, ConnInvHolds, PTL

\* After gatewayDisconnected no operation, timer or callback of the session is left,
\* and none appears until the client is initialised again.
THEOREM DisconnectEndsAllHolds == Spec => []DisconnectEndsAll
<1>1. ConnInv => DisconnectEndsAll
  <2> SUFFICES ASSUME ConnInv, k.disconnecting
               PROVE  ~ k.initialized /\ k.ops = << >> /\ k.owed = {} /\ Active(k.timers) = {}
    BY Zenon DEF DisconnectEndsAll
  <2>1. ~ k.initialized /\ k.ops = << >> /\ k.owed \subseteq OpSet(k.ops)
    BY Zenon DEF ConnInv, Good, Sound, Reported
  <2>2. OpSet(k.ops) = {} /\ Owners({}) = {}
    BY <2>1 DEF OpSet, Owners
  <2>3. Active(k.timers) \subseteq Owners(OpSet(k.ops))
    BY ActiveOwners, Zenon DEF ConnInv, Good, Sound, Typed
  <2> QED BY <2>1, <2>2, <2>3, Zenon
<1> QED BY <1>1, ConnInvHolds, PTL

\* KeepAliveOp gives the gateway up only after RetryCount + 1 PINGREQs without a
\* PINGRESP, however its three timers fall due together.
THEOREM GoneOnlyAfterPingsHolds == Spec => []GoneOnlyAfterPings
<1>1. ConnInv => GoneOnlyAfterPings
  BY Zenon DEF ConnInv, Good, Sound, Reported, GoneOnlyAfterPings
<1> QED BY <1>1, ConnInvHolds, PTL
=============================================================================
