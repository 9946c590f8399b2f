-------------------------- MODULE Upstream_proofs ---------------------------
(***************************************************************************)
(* The client library has one publish and one subscribe or unsubscribe     *)
(* request under way at a time, and no two requests share a packet id, for *)
(* any topics, requests and retries and whatever the gateway answers.      *)
(***************************************************************************)
EXTENDS Upstream, FunctionTheorems, TLAPS

Type == {"Send", "Subscribe", "Unsubscribe"}
OpField == {"key", "type", "n", "topic", "qos", "stage", "topicId", "registerId", "msgId",
            "retries", "fullRetries", "suspended", "timed"}
Field == {"ops", "ids", "lastId", "outReg", "inReg", "filters", "out", "done"}

\* A request; one to publish with QoS 0 has no packet id.
IsOp(x) ==
    /\ DOMAIN x = OpField /\ x.key \in Nat /\ x.type \in Type /\ x.qos \in 0 .. 2
    /\ x.stage \in {"Register", "Publish", "Acked"}
    /\ x.registerId \in Nat /\ x.msgId \in Nat /\ x.suspended \in BOOLEAN /\ x.timed \in BOOLEAN
    /\ x.type = "Send" /\ x.qos = 0 => x.msgId = 0

\* The requests are in the order they were made.
Sorted(s) ==
    /\ s \in Seq(Range(s)) /\ \A x \in Range(s) : IsOp(x)
    /\ \A i, j \in DOMAIN s : i < j => s[i].key < s[j].key

\* The n requests made so far include all that are under way.
Core(v, n) ==
    /\ DOMAIN v = Field /\ Sorted(v.ops) /\ Len(v.ops) <= n
    /\ \A x \in Range(v.ops) : x.key <= n

In(x, lane) == x.type \in lane

\* The oldest request of a lane is under way, the others wait.
Settled(R, lane) ==
    \A x \in R : In(x, lane) =>
        /\ x.suspended <=> \E y \in R : In(y, lane) /\ y.key < x.key
        /\ x.timed <=> ~ x.suspended
Waits(x) == x.suspended /\ ~ x.timed
AllWait(R, lane) == \A x \in R : In(x, lane) => Waits(x)

\* Packet ids are those of the requests R, which share none.
OwnedBy(ids, R) ==
    /\ ids \subseteq 1 .. MaxPacketId
    /\ \A x \in R : IdsOf(x) \subseteq ids
    /\ \A k \in ids : \E x \in R : k \in IdsOf(x)
    /\ \A x, y \in R : x # y => IdsOf(x) \cap IdsOf(y) = {}

Lanes == {Lane("Send"), Lane("Subscribe")}

\* Request i may be sent: either it waits, or all others of its lane do.
LaneReady(R, x) ==
    IF x.suspended THEN Settled(R, Lane(x.type))
    ELSE \A y \in R : In(y, Lane(x.type)) /\ y # x => Waits(y) /\ x.key < y.key
Elsewhere(R, lane) == \A other \in Lanes : other # lane => Settled(R, other)

Ready(v, n, i) ==
    /\ Core(v, n) /\ i \in DOMAIN v.ops
    /\ Elsewhere(Range(v.ops), Lane(v.ops[i].type)) /\ LaneReady(Range(v.ops), v.ops[i])

Swap(R, x, y) == (R \ {x}) \cup {y}

\* In w request i has become y.
Keeps(y, x) ==
    /\ IsOp(y) /\ y.key = x.key /\ y.type = x.type /\ y.suspended = x.suspended
    /\ y.suspended => y.timed = x.timed
Same(y, x) == Keeps(y, x) /\ IdsOf(y) = IdsOf(x)
Changed(w, v, i, y) == DOMAIN w = Field /\ w.ops = [v.ops EXCEPT ![i] = y]

Full(v, n) ==
    /\ Core(v, n) /\ OwnedBy(v.ids, Range(v.ops))
    /\ \A lane \in Lanes : Settled(Range(v.ops), lane)

-----------------------------------------------------------------------------
(* Numbers and sequences. *)

LEMMA Pigeons ==
    ASSUME NEW n \in Nat, NEW m \in Nat, m < n, NEW f \in [1 .. n -> 1 .. m]
    PROVE  \E x, y \in 1 .. n : x # y /\ f[x] = f[y]
<1> SUFFICES ASSUME \A x, y \in 1 .. n : f[x] = f[y] => x = y PROVE FALSE
  BY Zenon
<1>1. f \in Injection(1 .. n, 1 .. m)
  BY Zenon DEF Injection, IsInjective
<1>2. n <= m
  BY <1>1, Fun_NatInjLeq, Zenon DEF ExistsInjection
<1> QED BY <1>2

\* What holds at 0, and at i + 1 if it holds at i, holds up to n; S is where it does.
LEMMA Reaches ==
    ASSUME NEW n \in Nat, NEW S, 0 \in S, \A i \in 0 .. n - 1 : i \in S => i + 1 \in S
    PROVE  n \in S
<1> SUFFICES ASSUME n \notin S PROVE FALSE
  BY Zenon
<1> DEFINE f == [i \in 1 .. n + 1 |-> IF i - 1 \in S THEN i ELSE i - 1]
<1>1. \A i \in 1 .. n + 1 : f[i] \in 1 .. n /\ f[i] = IF i - 1 \in S THEN i ELSE i - 1
  <2> SUFFICES ASSUME NEW i \in 1 .. n + 1 PROVE f[i] \in 1 .. n
    BY Zenon
  <2>1. CASE i - 1 \in S
    <3>1. i - 1 # n
      BY <2>1, Zenon
    <3> QED BY <2>1, <3>1
  <2>2. CASE i - 1 \notin S
    <3>1. i - 1 # 0
      BY <2>2, Zenon
    <3> QED BY <2>2, <3>1
  <2> QED BY <2>1, <2>2, Zenon
<1>2. f \in [1 .. n + 1 -> 1 .. n]
  BY <1>1, Zenon
<1> HIDE DEF f
<1>3. PICK x, y \in 1 .. n + 1 : x # y /\ f[x] = f[y]
  <2>1. n + 1 \in Nat /\ n < n + 1
    OBVIOUS
  <2> QED BY <1>2, <2>1, Pigeons, Zenon
<1>4. ASSUME NEW a \in 1 .. n + 1, NEW b \in 1 .. n + 1, a - 1 \in S, b - 1 \notin S, a = b - 1 PROVE FALSE
  <2>1. a - 1 \in 0 .. n - 1 /\ (a - 1) + 1 = b - 1
    BY <1>4
  <2> QED BY <1>4, <2>1, Zenon
<1>5. \A a, b \in 1 .. n + 1 : a - 1 \in S /\ b - 1 \notin S => a # b - 1
  BY <1>4, Zenon
<1>6. /\ x - 1 \in S => f[x] = x
      /\ x - 1 \notin S => f[x] = x - 1
      /\ y - 1 \in S => f[y] = y
      /\ y - 1 \notin S => f[y] = y - 1
  BY <1>1, Zenon
<1> QED BY <1>3, <1>5, <1>6

LEMMA MinIs ==
    ASSUME NEW S \in SUBSET Nat, S # {}
    PROVE  Min(S) \in S /\ \A i \in S : Min(S) <= i
<1>1. PICK x \in S : TRUE
  BY Zenon
<1> DEFINE U == {i \in Nat : \A y \in S : i <= y}
<1>2. \E m \in S : \A y \in S : m <= y
  <2> SUFFICES ASSUME \A m \in S : \E y \in S : ~ (m <= y) PROVE FALSE
    BY Zenon
  <2>1. ASSUME NEW i \in Nat, i \in U PROVE i + 1 \in U
    <3>1. i \notin S
      BY <2>1, Zenon
    <3> QED BY <2>1, <3>1
  <2>2. 0 \in U
    OBVIOUS
  <2> HIDE DEF U
  <2>3. x + 1 \in U
    BY <2>1, <2>2, Reaches
  <2> QED BY <2>3 DEF U
<1> QED BY <1>2, Zenon DEF Min

LEMMA IsSeq ==
    ASSUME NEW T, NEW n \in Nat, NEW s \in [1 .. n -> T]
    PROVE  s \in Seq(T)
OBVIOUS

LEMMA RangeIs ==
    ASSUME NEW s
    PROVE  Range(s) = {s[i] : i \in DOMAIN s}
BY Zenon DEF Range

LEMMA SortedIs ==
    ASSUME NEW s, Sorted(s)
    PROVE  /\ Len(s) \in Nat /\ DOMAIN s = 1 .. Len(s)
           /\ \A i \in DOMAIN s : s[i] \in Range(s) /\ IsOp(s[i])
           /\ \A x \in Range(s) : \E i \in DOMAIN s : x = s[i]
           /\ \A i, j \in DOMAIN s : s[i].key = s[j].key => i = j
           /\ \A x, y \in Range(s) : x.key = y.key => x = y
<1>1. /\ Len(s) \in Nat /\ DOMAIN s = 1 .. Len(s)
      /\ \A i \in DOMAIN s : s[i] \in Range(s)
      /\ \A x \in Range(s) : \E i \in DOMAIN s : x = s[i]
  BY RangeIs DEF Sorted
<1>2. \A i \in DOMAIN s : IsOp(s[i]) /\ s[i].key \in Nat
  BY <1>1, Zenon DEF Sorted, IsOp
<1>3. \A i, j \in DOMAIN s : s[i].key = s[j].key => i = j
  <2> SUFFICES ASSUME NEW i \in DOMAIN s, NEW j \in DOMAIN s, s[i].key = s[j].key, i # j
               PROVE  FALSE
    BY Zenon
  <2>1. (i < j \/ j < i) /\ s[i].key \in Nat
    BY <1>1, <1>2
  <2>2. \A a, b \in DOMAIN s : a < b => s[a].key < s[b].key
    BY Zenon DEF Sorted
  <2>3. \A a, b \in Nat : a < b => a # b
    OBVIOUS
  <2> QED BY <1>2, <2>1, <2>2, <2>3, Zenon
<1>4. \A x, y \in Range(s) : x.key = y.key => x = y
  BY <1>1, <1>3
<1> QED BY <1>1, <1>2, <1>3, <1>4, Zenon

LEMMA Appended ==
    ASSUME NEW s, Sorted(s), NEW x, IsOp(x), \A y \in Range(s) : y.key < x.key
    PROVE  /\ Sorted(Append(s, x)) /\ Range(Append(s, x)) = Range(s) \cup {x}
           /\ Len(Append(s, x)) = Len(s) + 1 /\ Append(s, x)[Len(Append(s, x))] = x
           /\ x \notin Range(s)
<1> DEFINE r == Append(s, x)
           R == Range(s) \cup {x}
<1>0. /\ Len(s) \in Nat /\ DOMAIN s = 1 .. Len(s) /\ \A i \in DOMAIN s : s[i] \in Range(s)
      /\ \A y \in Range(s) : \E i \in DOMAIN s : y = s[i]
  BY SortedIs, Zenon
<1>1. /\ s \in Seq(Range(s)) /\ Range(s) \subseteq R
  BY Zenon DEF Sorted
<1> HIDE DEF R
<1>2. s \in Seq(R) /\ x \in R
  BY <1>0, <1>1 DEF R
<1>3. /\ r \in Seq(R) /\ DOMAIN r = 1 .. Len(s) + 1 /\ Len(r) = Len(s) + 1
      /\ \A i \in 1 .. Len(s) : r[i] = s[i]
      /\ r[Len(s) + 1] = x
  BY <1>2
<1> HIDE DEF r
<1>4. Range(r) = R
  <2>1. \A y \in R : \E i \in DOMAIN r : y = r[i]
    BY <1>0, <1>3 DEF R
  <2>2. \A i \in DOMAIN r : r[i] \in R
    BY <1>3
  <2> QED BY <2>1, <2>2, RangeIs, Zenon
<1>5. ASSUME NEW i \in DOMAIN r, NEW j \in DOMAIN r, i < j
      PROVE  r[i].key < r[j].key
  <2>1. i \in DOMAIN s /\ r[i] = s[i]
    BY <1>0, <1>3, <1>5
  <2>2. CASE j \in DOMAIN s
    <3>1. r[j] = s[j]
      BY <1>0, <1>3, <2>2, Zenon
    <3> QED BY <1>5, <2>1, <2>2, <3>1, Zenon DEF Sorted
  <2>3. CASE j \notin DOMAIN s
    <3>1. r[j] = x
      BY <1>0, <1>3, <2>3
    <3> QED BY <1>0, <2>1, <3>1, Zenon
  <2> QED BY <2>2, <2>3, Zenon
<1>6. \A y \in R : IsOp(y)
  BY Zenon DEF R, Sorted
<1>7. x \notin Range(s)
  BY DEF IsOp
<1> QED BY <1>3, <1>4, <1>5, <1>6, <1>7, Zenon DEF Sorted, R, r

LEMMA Updated ==
    ASSUME NEW s, Sorted(s), NEW i \in DOMAIN s, NEW y, IsOp(y), y.key = s[i].key
    PROVE  LET r == [s EXCEPT ![i] = y]
           IN /\ Sorted(r) /\ Range(r) = (Range(s) \ {s[i]}) \cup {y} /\ Len(r) = Len(s)
              /\ DOMAIN r = DOMAIN s /\ r[i] = y
<1> DEFINE r == [s EXCEPT ![i] = y]
           R == (Range(s) \ {s[i]}) \cup {y}
<1>0. /\ Len(s) \in Nat /\ DOMAIN s = 1 .. Len(s) /\ \A j \in DOMAIN s : s[j] \in Range(s)
      /\ \A x \in Range(s) : \E j \in DOMAIN s : x = s[j]
      /\ \A a, b \in DOMAIN s : s[a].key = s[b].key => a = b
  BY SortedIs, Zenon
<1>1. DOMAIN r = DOMAIN s /\ \A j \in DOMAIN s : r[j] = IF j = i THEN y ELSE s[j]
  BY <1>0, Zenon
<1>2. \A j \in DOMAIN s : r[j] \in R
  BY <1>0, <1>1, Zenon
<1>3. r = [j \in 1 .. Len(s) |-> r[j]]
  BY <1>0, <1>1, Zenon
<1> HIDE DEF r, R
<1>4. r \in Seq(R) /\ Len(r) = Len(s)
  BY <1>0, <1>1, <1>2, <1>3
<1>5. Range(r) = R
  <2>1. \A x \in R : \E j \in DOMAIN r : x = r[j]
    BY <1>0, <1>1 DEF R
  <2> QED BY <1>1, <1>2, <2>1, RangeIs, Zenon
<1>6. \A a, b \in DOMAIN r : a < b => r[a].key < r[b].key
  <2>1. \A a \in DOMAIN s : r[a].key = s[a].key
    BY <1>1, Zenon
  <2> QED BY <1>1, <2>1, Zenon DEF Sorted
<1>7. \A x \in R : IsOp(x)
  BY Zenon DEF R, Sorted
<1> QED BY <1>1, <1>4, <1>5, <1>6, <1>7, Zenon DEF Sorted, R, r

LEMMA Joined ==
    ASSUME NEW T, NEW a \in Seq(T), NEW b \in Seq(T)
    PROVE  /\ a \o b \in Seq(T) /\ Len(a \o b) = Len(a) + Len(b)
           /\ \A j \in 1 .. Len(a) + Len(b) :
                  (a \o b)[j] = IF j <= Len(a) THEN a[j] ELSE b[j - Len(a)]
OBVIOUS

LEMMA ErasedSeq ==
    ASSUME NEW T, NEW s \in Seq(T), NEW i \in 1 .. Len(s)
    PROVE  /\ Erase(s, i) \in Seq(T) /\ Len(Erase(s, i)) = Len(s) - 1
           /\ \A j \in 1 .. Len(s) - 1 : /\ j < i => Erase(s, i)[j] = s[j]
                                         /\ ~ (j < i) => Erase(s, i)[j] = s[j + 1]
<1> DEFINE n == Len(s)
           r == Erase(s, i)
           a == SubSeq(s, 1, i - 1)
           b == SubSeq(s, i + 1, n)
<1>1. n \in Nat /\ \A j \in 1 .. n : s[j] \in T
  OBVIOUS
<1>2. a \in Seq(T) /\ Len(a) = i - 1 /\ \A j \in 1 .. i - 1 : a[j] = s[j]
  OBVIOUS
<1>3. b \in Seq(T) /\ Len(b) = n - i /\ \A j \in 1 .. n - i : b[j] = s[i + j]
  OBVIOUS
<1>4. r = a \o b
  BY Zenon DEF Erase
<1> HIDE DEF a, b, r, n
<1>5. /\ a \o b \in Seq(T) /\ Len(a \o b) = Len(a) + Len(b)
      /\ \A j \in 1 .. Len(a) + Len(b) :
             (a \o b)[j] = IF j <= Len(a) THEN a[j] ELSE b[j - Len(a)]
  BY <1>2, <1>3, Joined, Zenon
<1>6. r \in Seq(T) /\ Len(r) = n - 1
  BY <1>1, <1>2, <1>3, <1>4, <1>5
<1>7. ASSUME NEW j \in 1 .. n - 1 PROVE (j < i => r[j] = s[j]) /\ (~ (j < i) => r[j] = s[j + 1])
  <2>1. r[j] = IF j <= i - 1 THEN a[j] ELSE b[j - (i - 1)]
    BY <1>1, <1>2, <1>3, <1>4, <1>5, SMTT(30)
  <2>2. CASE j < i
    <3>1. j \in 1 .. i - 1 /\ j <= i - 1
      BY <1>1, <2>2
    <3>2. r[j] = s[j]
      BY <1>2, <2>1, <3>1, Zenon
    <3> QED BY <2>2, <3>2, Zenon
  <2>3. CASE ~ (j < i)
    <3>1. j - (i - 1) \in 1 .. n - i /\ i + (j - (i - 1)) = j + 1
      BY <1>1, <2>3
    <3>2. b[j - (i - 1)] = s[j + 1]
      BY <1>3, <3>1, Zenon
    <3> QED BY <1>1, <2>1, <2>3, <3>2
  <2> QED BY <2>2, <2>3, Zenon
<1> QED BY <1>6, <1>7, Zenon DEF r, n

LEMMA Erased ==
    ASSUME NEW s, Sorted(s), NEW i \in DOMAIN s
    PROVE  LET r == Erase(s, i)
           IN Sorted(r) /\ Range(r) = Range(s) \ {s[i]} /\ Len(r) = Len(s) - 1
<1> DEFINE r == Erase(s, i)
           n == Len(s)
           T == Range(s)
<1>0. /\ n \in Nat /\ DOMAIN s = 1 .. n /\ i \in 1 .. n /\ \A j \in DOMAIN s : s[j] \in T
      /\ \A x \in T : \E j \in DOMAIN s : x = s[j]
      /\ \A c, d \in DOMAIN s : s[c].key = s[d].key => c = d
  BY SortedIs, Zenon
<1>1. s \in Seq(T)
  BY Zenon DEF Sorted
<1>2. n = Len(s) /\ r = Erase(s, i)
  BY Zenon
<1> HIDE DEF T, n, r
<1>3. i \in 1 .. n
  BY <1>0, Zenon
<1>4. r \in Seq(T) /\ Len(r) = n - 1
  <2>1. i \in 1 .. Len(s)
    BY <1>2, <1>3, Zenon
  <2>2. Erase(s, i) \in Seq(T) /\ Len(Erase(s, i)) = Len(s) - 1
    BY <1>1, <2>1, ErasedSeq, Zenon
  <2> QED BY <1>2, <2>2, Zenon
<1>5. \A j \in 1 .. n - 1 : (j < i => r[j] = s[j]) /\ (~ (j < i) => r[j] = s[j + 1])
  <2>1. i \in 1 .. Len(s)
    BY <1>2, <1>3, Zenon
  <2>2. \A j \in 1 .. Len(s) - 1 : /\ j < i => Erase(s, i)[j] = s[j]
                                   /\ ~ (j < i) => Erase(s, i)[j] = s[j + 1]
    BY <1>1, <2>1, ErasedSeq, Zenon
  <2> QED BY <1>2, <2>2, Zenon
<1>6. DOMAIN r = 1 .. n - 1
  BY <1>0, <1>4
<1> DEFINE R == T \ {s[i]}
<1>7. \A j \in DOMAIN r : r[j] \in R
  <2> SUFFICES ASSUME NEW j \in DOMAIN r PROVE r[j] \in R
    BY Zenon
  <2>1. PICK k \in DOMAIN s : r[j] = s[k] /\ k # i
    BY <1>0, <1>5, <1>6
  <2> QED BY <1>0, <2>1, Zenon
<1>8. \A x \in R : \E j \in DOMAIN r : x = r[j]
  <2> SUFFICES ASSUME NEW x \in R PROVE \E j \in DOMAIN r : x = r[j]
    BY Zenon
  <2>1. PICK k \in DOMAIN s : x = s[k] /\ k # i
    BY <1>0, Zenon
  <2>2. CASE k < i
    <3>1. k \in DOMAIN r /\ r[k] = s[k]
      BY <1>0, <1>5, <1>6, <2>2
    <3> QED BY <2>1, <3>1, Zenon
  <2>3. CASE k > i
    <3>1. k - 1 \in DOMAIN r /\ r[k - 1] = s[k]
      BY <1>0, <1>5, <1>6, <2>3
    <3> QED BY <2>1, <3>1, Zenon
  <2> QED BY <1>0, <2>1, <2>2, <2>3
<1>9. Range(r) = R
  BY <1>7, <1>8, RangeIs, Zenon
<1>10. r \in Seq(Range(r))
  <2>1. n - 1 \in Nat /\ r \in [1 .. n - 1 -> T]
    BY <1>0, <1>3, <1>4
  <2>2. r \in [1 .. n - 1 -> Range(r)]
    BY <1>6, <1>7, <1>9, <2>1, Zenon
  <2> QED BY <2>1, <2>2, IsSeq, Zenon
<1>11. \A c, d \in DOMAIN r : c < d => r[c].key < r[d].key
  <2> SUFFICES ASSUME NEW c \in DOMAIN r, NEW d \in DOMAIN r, c < d PROVE r[c].key < r[d].key
    BY Zenon
  <2> DEFINE e == IF c < i THEN c ELSE c + 1
             f == IF d < i THEN d ELSE d + 1
  <2>1. e \in DOMAIN s /\ f \in DOMAIN s /\ e < f /\ r[c] = s[e] /\ r[d] = s[f]
    BY <1>0, <1>5, <1>6
  <2> HIDE DEF e, f
  <2> QED BY <2>1, Zenon DEF Sorted
<1> QED BY <1>4, <1>9, <1>10, <1>11, Zenon DEF Sorted, T, r, n

LEMMA FindIfIs ==
    ASSUME NEW n \in Nat, NEW S, S \subseteq 1 .. n
    PROVE  /\ S = {} => FindIf(S) = 0
           /\ S # {} => FindIf(S) \in S /\ FindIf(S) # 0 /\ \A i \in S : FindIf(S) <= i
<1>1. CASE S = {}
  BY <1>1, Zenon DEF FindIf
<1>2. CASE S # {}
  <2>1. S \in SUBSET Nat
    OBVIOUS
  <2>2. FindIf(S) = Min(S)
    BY <1>2, Zenon DEF FindIf
  <2>3. Min(S) \in S /\ \A i \in S : Min(S) <= i
    BY <1>2, <2>1, MinIs, Zenon
  <2>4. Min(S) # 0
    BY <2>3
  <2> QED BY <1>2, <2>2, <2>3, <2>4, Zenon
<1> QED BY <1>1, <1>2, Zenon

LEMMA FirstIs ==
    ASSUME NEW v, NEW lane, Sorted(v.ops)
    PROVE  /\ First(v, lane) = 0 => \A x \in Range(v.ops) : ~ In(x, lane)
           /\ First(v, lane) # 0 =>
                 /\ First(v, lane) \in DOMAIN v.ops /\ In(v.ops[First(v, lane)], lane)
                 /\ \A x \in Range(v.ops) :
                       In(x, lane) /\ x # v.ops[First(v, lane)] => v.ops[First(v, lane)].key < x.key
<1> DEFINE s == v.ops
           S == {i \in DOMAIN s : s[i].type \in lane}
           f == First(v, lane)
<1>0. /\ Len(s) \in Nat /\ DOMAIN s = 1 .. Len(s) /\ S \subseteq 1 .. Len(s)
      /\ \A x \in Range(s) : \E j \in DOMAIN s : x = s[j]
  BY SortedIs, Zenon
<1>1. f = FindIf(S)
  BY Zenon DEF First
<1>2. /\ S = {} => f = 0
      /\ S # {} => f \in S /\ f # 0 /\ \A i \in S : f <= i
  BY <1>0, <1>1, FindIfIs, Zenon
<1> HIDE DEF f
<1>3. CASE f = 0
  BY <1>0, <1>2, <1>3, Zenon DEF In, f
<1>4. CASE f # 0
  <2>1. f \in S /\ \A i \in S : f <= i
    BY <1>2, <1>4, Zenon
  <2>2. ASSUME NEW x \in Range(s), In(x, lane), x # s[f] PROVE s[f].key < x.key
    <3>1. PICK j \in DOMAIN s : x = s[j]
      BY <1>0, Zenon
    <3>2. j \in S /\ j # f
      BY <2>2, <3>1, Zenon DEF In
    <3>3. f < j
      BY <1>0, <2>1, <3>2
    <3> QED BY <2>1, <3>1, <3>3, Zenon DEF Sorted
  <2> QED BY <1>4, <2>1, <2>2, Zenon DEF In, f
<1> QED BY <1>3, <1>4, Zenon

-----------------------------------------------------------------------------
(* Packet ids. *)

\* With the ids of all but one request taken, two are left.
LEMMA Room ==
    ASSUME NEW s, Sorted(s), NEW i \in DOMAIN s, Len(s) <= MaxRequests, NEW ids,
           OwnedBy(ids, Range(s) \ {s[i]})
    PROVE  \E a, b \in (1 .. MaxPacketId) \ ids : a # b
<1> DEFINE n == Len(s)
           P == 1 .. MaxPacketId
           Slot(k, p) == \E j \in DOMAIN s : /\ j # i
                                              /\ \/ p = 2 * j - 1 /\ s[j].registerId = k
                                                 \/ p = 2 * j /\ s[j].msgId = k
           Code(p) == IF p < 2 * i THEN p ELSE p - 1
<1>0. /\ n \in Nat /\ DOMAIN s = 1 .. n /\ MaxPacketId \in Nat /\ 2 * n <= MaxPacketId
      /\ \A x \in Range(s) : \E j \in DOMAIN s : x = s[j]
  BY SortedIs, ClientOpsAssumption, UpstreamAssumption
<1>1. ASSUME NEW k \in ids PROVE \E p \in 1 .. 2 * n : Slot(k, p)
  <2>1. PICK x \in Range(s) : x # s[i] /\ k \in IdsOf(x)
    BY Zenon DEF OwnedBy
  <2>2. PICK j \in DOMAIN s : x = s[j]
    BY <1>0, Zenon
  <2>3. k = s[j].registerId \/ k = s[j].msgId
    BY <2>1, <2>2, Zenon DEF IdsOf
  <2>4. j # i /\ 2 * j - 1 \in 1 .. 2 * n /\ 2 * j \in 1 .. 2 * n
    BY <1>0, <2>1, <2>2
  <2> QED BY <2>3, <2>4, Zenon
<1>2. \A k, l, p : Slot(k, p) /\ Slot(l, p) => k = l
  BY <1>0
<1>3. \A k, p : Slot(k, p) => p # 2 * i /\ p # 2 * i - 1
  BY <1>0
<1> HIDE DEF Slot
<1> SUFFICES ASSUME NEW c, \A a \in P \ ids : a = c PROVE FALSE
  <2>1. CASE P \ ids = {}
    BY <2>1, Zenon
  <2>2. CASE P \ ids # {}
    BY <2>2
  <2> QED BY <2>1, <2>2, Zenon
<1> DEFINE Of(k) == CHOOSE p \in 1 .. 2 * n : Slot(k, p)
           At(k) == IF k \in ids THEN Of(k) ELSE 2 * i
           f == [k \in P |-> Code(At(k))]
<1>4. \A k \in ids : Of(k) \in 1 .. 2 * n /\ Slot(k, Of(k))
  BY <1>1, Zenon
<1> HIDE DEF Of
<1>5. \A k \in P : At(k) \in 1 .. 2 * n /\ At(k) # 2 * i - 1
  BY <1>0, <1>3, <1>4
<1>6. \A k, l \in P : At(k) = At(l) => k = l
  <2> SUFFICES ASSUME NEW k \in P, NEW l \in P, At(k) = At(l) PROVE k = l
    BY Zenon
  <2>1. CASE k \in ids /\ l \in ids
    BY <1>2, <1>4, <2>1, Zenon
  <2>2. CASE k \in ids /\ l \notin ids
    BY <1>3, <1>4, <2>2, Zenon
  <2>3. CASE k \notin ids /\ l \in ids
    BY <1>3, <1>4, <2>3, Zenon
  <2>4. CASE k \notin ids /\ l \notin ids
    BY <2>4, Zenon
  <2> QED BY <2>1, <2>2, <2>3, <2>4, Zenon
<1> HIDE DEF At
<1> HIDE DEF n, P
<1>7. \A p, q \in 1 .. 2 * n : p # 2 * i - 1 /\ q # 2 * i - 1 /\ Code(p) = Code(q) => p = q
  BY <1>0
<1>8. \A p \in 1 .. 2 * n : p # 2 * i - 1 => Code(p) \in 1 .. 2 * n - 1
  BY <1>0
<1> HIDE DEF Code
<1>85. /\ \A k \in P : Code(At(k)) \in 1 .. 2 * n - 1
       /\ \A k, l \in P : Code(At(k)) = Code(At(l)) => k = l
  BY <1>5, <1>6, <1>7, <1>8, Zenon
<1>9. f \in [1 .. MaxPacketId -> 1 .. 2 * n - 1] /\ \A k \in P : f[k] = Code(At(k))
  BY <1>85, Zenon DEF P
<1>10. 2 * n - 1 \in Nat /\ 2 * n - 1 < MaxPacketId
  BY <1>0
<1> HIDE DEF f
<1>11. PICK x, y \in P : x # y /\ f[x] = f[y]
  BY <1>0, <1>9, <1>10, Pigeons, Zenon DEF P
<1> QED BY <1>85, <1>9, <1>11, Zenon

LEMMA AllocIs ==
    ASSUME NEW v, DOMAIN v = Field, NEW a \in (1 .. MaxPacketId) \ v.ids
    PROVE  LET r == AllocPacketId(v)
           IN /\ DOMAIN r = Field /\ r.lastId \in (1 .. MaxPacketId) \ v.ids
              /\ r.ids = v.ids \cup {r.lastId} /\ r.ops = v.ops
<1> DEFINE free == (1 .. MaxPacketId) \ v.ids
           above == {i \in free : i > v.lastId}
           id == IF above # {} THEN Min(above) ELSE Min(free)
<1>1. free \in SUBSET Nat /\ above \in SUBSET Nat /\ free # {} /\ above \subseteq free
  BY ClientOpsAssumption
<1> HIDE DEF free, above
<1>2. id \in free
  BY <1>1, MinIs, Zenon
<1>3. AllocPacketId(v) = [v EXCEPT !.ids = @ \cup {id}, !.lastId = id]
  BY Zenon DEF AllocPacketId, above, free
<1> HIDE DEF id
<1> QED BY <1>2, <1>3, Zenon DEF free, Field

LEMMA Owning ==
    ASSUME NEW ids, NEW R, OwnedBy(ids, R), NEW y, NEW N \in SUBSET ((1 .. MaxPacketId) \ ids), IdsOf(y) = N
    PROVE  OwnedBy(ids \cup N, R \cup {y})
BY Zenon DEF OwnedBy

LEMMA Disowning ==
    ASSUME NEW ids, NEW R, OwnedBy(ids, R), NEW x \in R
    PROVE  OwnedBy(ids \ {x.registerId, x.msgId}, R \ {x})
<1>1. ids \subseteq 1 .. MaxPacketId
  BY Zenon DEF OwnedBy
<1>2. \A k \in ids : k \in {x.registerId, x.msgId} <=> k \in IdsOf(x)
  BY <1>1 DEF IdsOf
<1> QED BY <1>1, <1>2, Zenon DEF OwnedBy

-----------------------------------------------------------------------------
(* Requests that change. *)

LEMMA SettledReplaced ==
    ASSUME NEW R, NEW lane, Settled(R, lane), NEW x \in R, NEW y, y.key = x.key, y.type = x.type,
           In(x, lane) => y.suspended = x.suspended /\ y.timed = x.timed
    PROVE  Settled((R \ {x}) \cup {y}, lane)
<1> DEFINE Q == (R \ {x}) \cup {y}
<1>1. ASSUME NEW k
      PROVE  (\E z \in Q : In(z, lane) /\ z.key < k) <=> (\E z \in R : In(z, lane) /\ z.key < k)
  BY Zenon DEF In
<1>2. ASSUME NEW z \in Q, In(z, lane)
      PROVE  /\ z.suspended <=> \E b \in R : In(b, lane) /\ b.key < z.key
             /\ z.timed <=> ~ z.suspended
  <2>1. CASE z = y
    <3>1. In(x, lane)
      BY <1>2, <2>1, Zenon DEF In
    <3> QED BY <2>1, <3>1, Zenon DEF Settled
  <2>2. CASE z # y
    BY <1>2, <2>2, Zenon DEF Settled
  <2> QED BY <2>1, <2>2, Zenon
<1> HIDE DEF Q
<1>3. Settled(Q, lane)
  BY <1>1, <1>2, Zenon DEF Settled
<1> QED BY <1>3, Zenon DEF Q

LEMMA SameIds ==
    ASSUME NEW x, NEW y, y.registerId = x.registerId, y.msgId = x.msgId
    PROVE  IdsOf(y) = IdsOf(x)
BY Zenon DEF IdsOf

LEMMA OwnedReplaced ==
    ASSUME NEW ids, NEW R, OwnedBy(ids, R), NEW x \in R, NEW y, IdsOf(y) = IdsOf(x)
    PROVE  OwnedBy(ids, Swap(R, x, y))
BY Zenon DEF OwnedBy, Swap

\* Request i becomes y.
LEMMA ReadyUpdated ==
    ASSUME NEW v, NEW n, NEW i, Ready(v, n, i), NEW y, Keeps(y, v.ops[i]), NEW w, Changed(w, v, i, y)
    PROVE  /\ Ready(w, n, i) /\ w.ops[i] = y
           /\ Range(w.ops) = Swap(Range(v.ops), v.ops[i], y)
<1> DEFINE R == Range(v.ops)
           x == v.ops[i]
           Q == (R \ {x}) \cup {y}
           lane == Lane(x.type)
<1>0. Core(v, n) /\ Sorted(v.ops) /\ i \in DOMAIN v.ops /\ x \in R
  BY SortedIs, Zenon DEF Ready, Core
<1>10. /\ IsOp(y) /\ y.key = x.key /\ y.type = x.type /\ y.suspended = x.suspended
       /\ y.suspended => y.timed = x.timed
  BY Zenon DEF Keeps
<1>1. /\ Sorted(w.ops) /\ Range(w.ops) = Q /\ Len(w.ops) = Len(v.ops)
      /\ i \in DOMAIN w.ops /\ w.ops[i] = y
  BY <1>0, <1>10, Updated DEF Changed
<1>2. Core(w, n)
  BY <1>0, <1>10, <1>1, Zenon DEF Core, Changed
<1>3. Elsewhere(R, lane) /\ LaneReady(R, x)
  BY Zenon DEF Ready
<1> HIDE DEF R, x
<1>4. ASSUME NEW other \in Lanes, other # lane PROVE Settled(Q, other)
  <2>1. Settled(R, other)
    BY <1>3, <1>4, Zenon DEF Elsewhere
  <2>2. ~ In(x, other)
    <3>1. IsOp(x)
      BY <1>0, SortedIs, Zenon DEF x
    <3> QED BY <1>4, <3>1, Zenon DEF In, Lane, Lanes, IsOp, Type
  <2> QED BY <1>0, <1>10, <2>1, <2>2, SettledReplaced, Zenon
<1>5. LaneReady(Q, y)
  <2>1. CASE y.suspended
    <3>1. Settled(R, lane)
      BY <1>3, <1>10, <2>1, Zenon DEF LaneReady
    <3>2. Settled(Q, lane)
      BY <1>0, <1>10, <2>1, <3>1, SettledReplaced, Zenon
    <3> QED BY <1>10, <2>1, <3>2, Zenon DEF LaneReady
  <2>2. CASE ~ y.suspended
    BY <1>3, <1>10, <2>2, Zenon DEF LaneReady
  <2> QED BY <2>1, <2>2, Zenon
<1> HIDE DEF Q
<1>6. Elsewhere(Q, Lane(y.type))
  BY <1>4, <1>10, Zenon DEF Elsewhere
<1> QED BY <1>1, <1>2, <1>5, <1>6, Zenon DEF Ready, Swap, Q, R, x

LEMMA FullReady ==
    ASSUME NEW v, NEW n, Full(v, n), NEW i \in DOMAIN v.ops
    PROVE  Ready(v, n, i)
<1> DEFINE R == Range(v.ops)
           x == v.ops[i]
           lane == Lane(x.type)
<1>1. /\ x \in R /\ IsOp(x) /\ \A y, z \in R : y.key = z.key => y = z
      /\ \A y \in R : IsOp(y)
  BY SortedIs, Zenon DEF Full, Core, Sorted
<1>2. lane \in Lanes /\ In(x, lane)
  BY <1>1, Zenon DEF Lane, Lanes, In, IsOp, Type
<1>3. Elsewhere(R, lane) /\ Settled(R, lane)
  BY <1>2, Zenon DEF Full, Elsewhere
<1>4. ASSUME ~ x.suspended, NEW y \in R, In(y, lane), y # x
      PROVE  Waits(y) /\ x.key < y.key
  <2>1. ~ (y.key < x.key)
    BY <1>1, <1>2, <1>3, <1>4, Zenon DEF Settled
  <2>2. y.key # x.key /\ x.key \in Nat /\ y.key \in Nat
    BY <1>1, <1>4, Zenon DEF IsOp
  <2>3. x.key < y.key
    BY <2>1, <2>2
  <2> QED BY <1>1, <1>2, <1>3, <1>4, <2>3, Zenon DEF Settled, Waits
<1>5. LaneReady(R, x)
  BY <1>3, <1>4, Zenon DEF LaneReady
<1> QED BY <1>3, <1>5, Zenon DEF Ready, Full

-----------------------------------------------------------------------------
(* Completion, sending and resuming. *)

LEMMA FinishIs ==
    ASSUME NEW v, NEW n \in Nat, Core(v, n), OwnedBy(v.ids, Range(v.ops)), NEW i \in DOMAIN v.ops, NEW res
    PROVE  LET r == Finish(v, i, res)
           IN /\ Core(r, n) /\ Range(r.ops) = Range(v.ops) \ {v.ops[i]}
              /\ OwnedBy(r.ids, Range(r.ops))
<1> DEFINE r == Finish(v, i, res)
           x == v.ops[i]
<1>1. /\ DOMAIN r = Field /\ r.ops = Erase(v.ops, i)
      /\ r.ids = v.ids \ {x.registerId, x.msgId}
  BY Zenon DEF Finish, ReleasePacketIdsInternal, Core, Field
<1> HIDE DEF r
<1>2. x \in Range(v.ops) /\ Len(v.ops) \in Nat
  BY SortedIs, Zenon DEF Core
<1>3. Sorted(r.ops) /\ Range(r.ops) = Range(v.ops) \ {x} /\ Len(r.ops) = Len(v.ops) - 1
  BY <1>1, Erased DEF Core
<1>4. OwnedBy(r.ids, Range(r.ops))
  <2> HIDE DEF x
  <2>1. OwnedBy(v.ids \ {x.registerId, x.msgId}, Range(v.ops) \ {x})
    BY <1>2, Disowning, Zenon
  <2> QED BY <1>1, <1>3, <2>1, Zenon
<1>5. Len(r.ops) <= n
  BY <1>2, <1>3 DEF Core
<1>6. Core(r, n)
  BY <1>1, <1>3, <1>5, Zenon DEF Core
<1> QED BY <1>3, <1>4, <1>6, Zenon DEF r

LEMMA TransmitIs ==
    ASSUME NEW v, NEW n \in Nat, NEW i, Ready(v, n, i), ~ v.ops[i].suspended, OwnedBy(v.ids, Range(v.ops))
    PROVE  LET r == Transmit(v, i)
               lane == Lane(v.ops[i].type)
           IN /\ Core(r, n) /\ OwnedBy(r.ids, Range(r.ops)) /\ Elsewhere(Range(r.ops), lane)
              /\ \/ /\ Settled(Range(r.ops), lane)
                    /\ \A z \in Range(r.ops) : In(z, lane) /\ ~ z.suspended => z.key = v.ops[i].key
                 \/ Range(r.ops) = Range(v.ops) \ {v.ops[i]} /\ AllWait(Range(r.ops), lane)
<1> DEFINE r == Transmit(v, i)
           x == v.ops[i]
           y == [x EXCEPT !.timed = TRUE]
           w == [v EXCEPT !.out = Append(@, Message(v.ops[i])), !.ops[i].timed = TRUE]
           R == Range(v.ops)
           Q == (R \ {x}) \cup {y}
           lane == Lane(x.type)
<1>0. /\ Core(v, n) /\ Sorted(v.ops) /\ i \in DOMAIN v.ops /\ x \in R /\ IsOp(x)
      /\ Elsewhere(R, lane) /\ LaneReady(R, x)
  BY SortedIs, Zenon DEF Ready, Core
<1>1. DOMAIN v = Field
  BY <1>0, Zenon DEF Core
<1>2. /\ DOMAIN w = Field /\ w.ops = [v.ops EXCEPT ![i] = y] /\ w.ids = v.ids
  BY <1>1, Zenon DEF Field
<1>3. r = IF x.type = "Send" /\ x.stage = "Publish" /\ x.qos = 0 THEN Finish(w, i, "Complete") ELSE w
  BY Zenon DEF Transmit
<1> HIDE DEF r, w, R
<1>4. /\ IsOp(y) /\ y.key = x.key /\ y.type = x.type /\ y.suspended = x.suspended /\ y.timed
      /\ y.registerId = x.registerId /\ y.msgId = x.msgId
  BY <1>0, Zenon DEF IsOp, OpField
<1> HIDE DEF x, y
<1>6. Ready(w, n, i) /\ w.ops[i] = y /\ Range(w.ops) = Q
  <2>1. Keeps(y, v.ops[i]) /\ Changed(w, v, i, y)
    BY <1>2, <1>4, Zenon DEF x, Keeps, Changed
  <2>2. /\ Ready(w, n, i) /\ w.ops[i] = y
        /\ Range(w.ops) = Swap(Range(v.ops), v.ops[i], y)
    BY <2>1, ReadyUpdated
  <2> QED BY <2>2, Zenon DEF Swap, x, R
<1>7. OwnedBy(w.ids, Range(w.ops))
  <2>1. IdsOf(y) = IdsOf(x)
    BY <1>4, Zenon DEF IdsOf
  <2> QED BY <1>0, <1>2, <1>6, <2>1, OwnedReplaced, SMTT(30) DEF R, Swap
<1>8. CASE x.type = "Send" /\ x.stage = "Publish" /\ x.qos = 0
  <2>1. r = Finish(w, i, "Complete") /\ i \in DOMAIN w.ops /\ Core(w, n)
    BY <1>3, <1>6, <1>8, Zenon DEF Ready
  <2>2. Core(r, n) /\ Range(r.ops) = Q \ {y} /\ OwnedBy(r.ids, Range(r.ops))
    BY <1>6, <1>7, <2>1, FinishIs, Zenon
  <2>3. Range(r.ops) = R \ {x}
    <3>1. y \notin R \ {x}
      BY <1>0, <1>4, SortedIs, Zenon DEF R, x
    <3> QED BY <2>2, <3>1, Zenon
  <2>4. AllWait(R \ {x}, lane)
    BY <1>0, Zenon DEF LaneReady, AllWait, x
  <2>5. Elsewhere(R \ {x}, lane)
    <3>1. ASSUME NEW other \in Lanes, other # lane PROVE ~ In(x, other)
      BY <1>0, <3>1, Zenon DEF In, Lane, Lanes, IsOp, Type
    <3>2. ASSUME NEW other \in Lanes, other # lane PROVE Settled(R \ {x}, other)
      BY <1>0, <3>1, <3>2, Zenon DEF Elsewhere, Settled
    <3> QED BY <3>2, Zenon DEF Elsewhere
  <2> QED BY <2>2, <2>3, <2>4, <2>5, ZenonT(30) DEF r, R, x
<1>9. CASE ~ (x.type = "Send" /\ x.stage = "Publish" /\ x.qos = 0)
  <2>1. r = w
    BY <1>3, <1>9, Zenon
  <2>2. Core(w, n) /\ Elsewhere(Q, lane)
    BY <1>4, <1>6, Zenon DEF Ready
  <2>3. Settled(Q, lane)
    <3>0. \A z \in R : z.key \in Nat
      BY <1>0, Zenon DEF Sorted, R, IsOp
    <3>1. \A z \in R : In(z, lane) /\ z # x => Waits(z) /\ x.key < z.key
      BY <1>0, Zenon DEF LaneReady, x
    <3>2. ASSUME NEW z \in Q, In(z, lane), z = y
          PROVE  z.timed /\ ~ z.suspended /\ \A a \in Q : In(a, lane) => ~ (a.key < z.key)
      <4>1. ASSUME NEW a \in Q, In(a, lane) PROVE ~ (a.key < y.key)
        <5>1. CASE a = y
          BY <1>4, <5>1 DEF IsOp
        <5>2. CASE a # y
          BY <1>0, <1>4, <3>0, <3>1, <4>1, <5>2
        <5> QED BY <5>1, <5>2, Zenon
      <4> QED BY <1>4, <3>2, <4>1, Zenon DEF x
    <3>3. ASSUME NEW z \in Q, In(z, lane), z # y
          PROVE  ~ z.timed /\ z.suspended /\ In(y, lane) /\ y.key < z.key
      <4>1. In(y, lane)
        BY <1>0, <1>4, Zenon DEF In, Lane, IsOp, Type
      <4> QED BY <1>4, <3>1, <3>3, <4>1, Zenon DEF Waits
    <3> QED BY <3>2, <3>3, Zenon DEF Settled
  <2>4. \A z \in Q : In(z, lane) /\ ~ z.suspended => z.key = x.key
    BY <1>0, <1>4, ZenonT(30) DEF LaneReady, Waits, x
  <2> QED BY <1>6, <1>7, <2>1, <2>2, <2>3, <2>4, ZenonT(30) DEF r, R, x
<1> QED BY <1>8, <1>9, ZenonT(30)

\* The oldest request of a lane in which all wait is sent.
LEMMA Woken ==
    ASSUME NEW d, NEW n \in Nat, Core(d, n), OwnedBy(d.ids, Range(d.ops)), NEW lane \in Lanes,
           Elsewhere(Range(d.ops), lane), AllWait(Range(d.ops), lane), First(d, lane) # 0
    PROVE  LET i == First(d, lane)
               r == Transmit([d EXCEPT !.ops[i].suspended = FALSE], i)
           IN /\ Core(r, n) /\ OwnedBy(r.ids, Range(r.ops)) /\ Elsewhere(Range(r.ops), lane)
              /\ \/ /\ Settled(Range(r.ops), lane)
                    /\ \A z \in Range(r.ops) : In(z, lane) /\ ~ z.suspended => z.key = d.ops[i].key
                 \/ Range(r.ops) = Range(d.ops) \ {d.ops[i]} /\ AllWait(Range(r.ops), lane)
<1> DEFINE i == First(d, lane)
           w == [d EXCEPT !.ops[i].suspended = FALSE]
           r == Transmit(w, i)
           x == d.ops[i]
           y == [x EXCEPT !.suspended = FALSE]
           R == Range(d.ops)
           Q == (R \ {x}) \cup {y}
<1>0. /\ i \in DOMAIN d.ops /\ In(x, lane)
      /\ \A z \in R : In(z, lane) /\ z # x => x.key < z.key
  BY FirstIs, Zenon DEF Core
<1> HIDE DEF i
<1>1. x \in R /\ IsOp(x) /\ \A a, b \in R : a.key = b.key => a = b
  BY <1>0, SortedIs, Zenon DEF Core
<1>2. /\ IsOp(y) /\ y.key = x.key /\ y.type = x.type /\ ~ y.suspended
      /\ y.registerId = x.registerId /\ y.msgId = x.msgId
  BY <1>1, Zenon DEF IsOp, OpField
<1>3. DOMAIN w = Field /\ w.ops = [d.ops EXCEPT ![i] = y] /\ w.ids = d.ids
  BY Zenon DEF Core, Field
<1>4. lane = Lane(y.type)
  BY <1>0, <1>1, <1>2, Zenon DEF In, Lane, Lanes, IsOp, Type
<1> HIDE DEF w, y
<1>5. /\ Sorted(w.ops) /\ Range(w.ops) = Q /\ Len(w.ops) = Len(d.ops)
      /\ i \in DOMAIN w.ops /\ w.ops[i] = y
  BY <1>0, <1>2, <1>3, Updated, SMTT(30) DEF Core
<1> HIDE DEF x, R
<1>6. Core(w, n)
  <2>1. \A z \in Q : z.key <= n
    BY <1>1, <1>2, Zenon DEF Core, R
  <2> QED BY <1>3, <1>5, <2>1, Zenon DEF Core
<1>7. OwnedBy(w.ids, Range(w.ops))
  <2>1. IdsOf(y) = IdsOf(x)
    BY <1>2, Zenon DEF IdsOf
  <2> QED BY <1>1, <1>3, <1>5, <2>1, OwnedReplaced, SMTT(30) DEF R, Swap
<1>8. Elsewhere(Q, lane)
  <2> SUFFICES ASSUME NEW other \in Lanes, other # lane PROVE Settled(Q, other)
    BY Zenon DEF Elsewhere
  <2>1. Settled(R, other)
    BY Zenon DEF Elsewhere, R
  <2>2. ~ In(x, other)
    BY <1>0, Zenon DEF In, Lane, Lanes
  <2> QED BY <1>1, <1>2, <2>1, <2>2, SettledReplaced, Zenon
<1>9. LaneReady(Q, y)
  <2>1. ASSUME NEW z \in Q, In(z, lane), z # y PROVE Waits(z) /\ y.key < z.key
    BY <1>0, <1>2, <2>1, Zenon DEF AllWait, R
  <2> QED BY <1>2, <1>4, <2>1, Zenon DEF LaneReady
<1>10. Ready(w, n, i)
  BY <1>4, <1>5, <1>6, <1>8, <1>9, Zenon DEF Ready
<1>11. /\ Core(r, n) /\ OwnedBy(r.ids, Range(r.ops)) /\ Elsewhere(Range(r.ops), lane)
       /\ \/ /\ Settled(Range(r.ops), lane)
             /\ \A z \in Range(r.ops) : In(z, lane) /\ ~ z.suspended => z.key = y.key
          \/ Range(r.ops) = Q \ {y} /\ AllWait(Range(r.ops), lane)
  <2>1. ~ w.ops[i].suspended /\ Lane(w.ops[i].type) = lane
    BY <1>2, <1>4, <1>5, Zenon
  <2> QED BY <1>5, <1>7, <1>10, <2>1, TransmitIs, ZenonT(30)
<1>12. Q \ {y} = R \ {x}
  BY <1>1, <1>2, Zenon
<1> HIDE DEF r
<1> QED BY <1>2, <1>11, <1>12, ZenonT(30) DEF r, w, i, x, R

\* What Resume does for a request that was there at its start, and what it has reached
\* after the first j of them, s: the lane is settled and the other requests are not
\* resumed, or what is left of it still waits.
Serve(d, lane, op) ==
    LET i == First(d, lane) IN
    IF i = 0 \/ d.ops[i].key # op.key \/ ~ op.suspended THEN d
    ELSE Transmit([d EXCEPT !.ops[i].suspended = FALSE], i)
Later(s, z, j) == \E k \in DOMAIN s : k > j /\ z = s[k]
Past(s, z, j) == \A k \in DOMAIN s : k > j /\ s[k].suspended => s[k].key # z.key
Rest(R, lane, s, j) == \A z \in R : In(z, lane) => Waits(z) /\ Later(s, z, j)
Done(R, lane, s, j) == Settled(R, lane) /\ \A z \in R : In(z, lane) /\ ~ z.suspended => Past(s, z, j)
Base(d, n, lane) == Core(d, n) /\ OwnedBy(d.ids, Range(d.ops)) /\ Elsewhere(Range(d.ops), lane)
Good(d, n, lane, s, j) ==
    Base(d, n, lane) /\ (Done(Range(d.ops), lane, s, j) \/ Rest(Range(d.ops), lane, s, j))

LEMMA GoodAtStart ==
    ASSUME NEW v, NEW n, NEW lane, Base(v, n, lane),
           Settled(Range(v.ops), lane) \/ AllWait(Range(v.ops), lane)
    PROVE  Good(v, n, lane, v.ops, 0)
<1> DEFINE s == v.ops
<1>1. /\ Len(s) \in Nat /\ DOMAIN s = 1 .. Len(s) /\ \A i \in DOMAIN s : IsOp(s[i])
      /\ \A x \in Range(s) : \E i \in DOMAIN s : x = s[i]
      /\ \A x, y \in Range(s) : x.key = y.key => x = y
      /\ \A i \in DOMAIN s : s[i] \in Range(s)
  BY SortedIs, Zenon DEF Base, Core
<1> HIDE DEF s
<1>2. ASSUME NEW z \in Range(s), ~ z.suspended PROVE Past(s, z, 0)
  BY <1>1, <1>2, Zenon DEF Past
<1>3. ASSUME NEW z \in Range(s) PROVE Later(s, z, 0)
  BY <1>1 DEF Later
<1>4. Settled(Range(s), lane) => Done(Range(s), lane, s, 0)
  BY <1>2, Zenon DEF Done
<1>5. AllWait(Range(s), lane) => Rest(Range(s), lane, s, 0)
  BY <1>3, Zenon DEF Rest, AllWait
<1> QED BY <1>4, <1>5, Zenon DEF Good, s

\* After the last request none is left.
LEMMA GoodAtEnd ==
    ASSUME NEW d, NEW n, NEW lane \in Lanes, NEW s, Sorted(s), Good(d, n, lane, s, Len(s))
    PROVE  Full(d, n)
<1>1. \A z : ~ Later(s, z, Len(s))
  BY SortedIs DEF Later
<1>2. Settled(Range(d.ops), lane)
  BY <1>1, Zenon DEF Good, Done, Rest, Settled
<1> QED BY <1>2, Zenon DEF Good, Base, Full, Elsewhere

LEMMA PassedOver ==
    ASSUME NEW s, Sorted(s), NEW j \in Nat, NEW z, Past(s, z, j)
    PROVE  Past(s, z, j + 1)
<1>1. \A k \in DOMAIN s : k \in Nat
  BY SortedIs
<1> QED BY <1>1 DEF Past

LEMMA ServeSettled ==
    ASSUME NEW s, Sorted(s), NEW n, NEW lane, NEW d, NEW j \in 0 .. Len(s) - 1,
           Base(d, n, lane), Done(Range(d.ops), lane, s, j)
    PROVE  Good(Serve(d, lane, s[j + 1]), n, lane, s, j + 1)
<1> DEFINE op == s[j + 1]
           i == First(d, lane)
           x == d.ops[i]
           R == Range(d.ops)
<1>1. j \in Nat /\ j + 1 \in DOMAIN s /\ j + 1 > j
  BY SortedIs
<1>2. Serve(d, lane, op) = d
  <2>1. i # 0 => ~ x.suspended /\ x \in R /\ In(x, lane)
    <3> SUFFICES ASSUME i # 0 PROVE ~ x.suspended /\ x \in R /\ In(x, lane)
      BY Zenon
    <3>1. /\ i \in DOMAIN d.ops /\ In(x, lane)
          /\ \A z \in R : In(z, lane) /\ z # x => x.key < z.key
      BY FirstIs, Zenon DEF Base, Core
    <3>2. x \in R /\ \A z \in R : z.key \in Nat
      BY <3>1, SortedIs, ZenonT(30) DEF Base, Core, Sorted, IsOp
    <3> HIDE DEF x, R, i
    <3>3. \A z \in R : In(z, lane) => ~ (z.key < x.key)
      BY <3>1, <3>2
    <3>4. Settled(R, lane)
      BY Zenon DEF Done, R
    <3> QED BY <3>1, <3>2, <3>3, <3>4, Zenon DEF Settled
  <2> HIDE DEF x, i
  <2>2. i # 0 /\ op.suspended => op.key # x.key
    BY <1>1, <2>1, Zenon DEF Done, Past
  <2> HIDE DEF op
  <2> QED BY <2>2, Zenon DEF Serve, x, i
<1>3. Done(R, lane, s, j + 1)
  BY <1>1, PassedOver, Zenon DEF Done
<1> HIDE DEF op, R
<1> QED BY <1>2, <1>3, Zenon DEF Good, op, R

LEMMA ServeWaiting ==
    ASSUME NEW s, Sorted(s), NEW n \in Nat, NEW lane \in Lanes, NEW d, NEW j \in 0 .. Len(s) - 1,
           Base(d, n, lane), Rest(Range(d.ops), lane, s, j)
    PROVE  Good(Serve(d, lane, s[j + 1]), n, lane, s, j + 1)
<1> DEFINE op == s[j + 1]
           i == First(d, lane)
           x == d.ops[i]
           R == Range(d.ops)
           r == Transmit([d EXCEPT !.ops[i].suspended = FALSE], i)
<1>0. /\ j \in Nat /\ j + 1 \in DOMAIN s /\ \A k \in DOMAIN s : k \in Nat
  BY SortedIs
<1>1. /\ i = 0 => \A z \in R : ~ In(z, lane)
      /\ i # 0 => /\ i \in DOMAIN d.ops /\ In(x, lane)
                  /\ \A z \in R : In(z, lane) /\ z # x => x.key < z.key
  BY FirstIs, Zenon DEF Base, Core
<1>2. i # 0 => x \in R
  BY <1>1, SortedIs, ZenonT(30) DEF Base, Core
<1>3. /\ \A a, b \in DOMAIN s : s[a].key = s[b].key => a = b
      /\ \A a, b \in DOMAIN s : a < b => s[a].key < s[b].key
      /\ \A a \in DOMAIN s : s[a].key \in Nat
  BY SortedIs, ZenonT(30) DEF Sorted, IsOp
<1>4. CASE i = 0
  <2>1. Serve(d, lane, op) = d
    BY <1>4, Zenon DEF Serve
  <2>2. Rest(R, lane, s, j + 1)
    BY <1>1, <1>4, Zenon DEF Rest
  <2> HIDE DEF op, R
  <2> QED BY <2>1, <2>2, Zenon DEF Good, op, R
<1>5. CASE i # 0
  <2>1. Waits(x) /\ x \in R /\ In(x, lane)
    BY <1>1, <1>2, <1>5, Zenon DEF Rest
  <2>2. PICK k \in DOMAIN s : k > j /\ x = s[k]
    BY <2>1, Zenon DEF Rest, Later
  \* The other requests of the lane come after x.
  <2>3. ASSUME NEW z \in R, In(z, lane), z # x, NEW m \in Nat, m <= k PROVE Later(s, z, m)
    <3>1. PICK l \in DOMAIN s : l > j /\ z = s[l]
      BY <2>3, Zenon DEF Rest, Later
    <3>2. s[k].key < s[l].key
      BY <1>1, <1>5, <2>2, <2>3, <3>1, Zenon
    <3>3. ~ (l < k) /\ l # k
      <4>1. ~ (s[l].key < s[k].key) /\ s[l].key # s[k].key
        BY <1>3, <2>2, <3>1, <3>2, SMTT(30)
      <4> QED BY <1>3, <2>2, <3>1, <4>1, Zenon
    <3>4. l > m
      BY <1>0, <2>2, <2>3, <3>1, <3>3, SMTT(30)
    <3> QED BY <3>1, <3>4, Zenon DEF Later
  <2>4. CASE x.key = op.key
    <3>1. k = j + 1 /\ x = op
      BY <1>0, <1>3, <2>2, <2>4, Zenon
    <3>2. Serve(d, lane, op) = r
      BY <1>5, <2>1, <2>4, <3>1, Zenon DEF Serve, Waits
    <3>3. AllWait(R, lane)
      BY Zenon DEF Rest, AllWait
    <3>4. /\ Base(r, n, lane)
          /\ \/ /\ Settled(Range(r.ops), lane)
                /\ \A z \in Range(r.ops) : In(z, lane) /\ ~ z.suspended => z.key = x.key
             \/ Range(r.ops) = R \ {x} /\ AllWait(Range(r.ops), lane)
      BY <1>5, <3>3, Woken, Zenon DEF Base
    <3> HIDE DEF r, R, op, i, x
    <3>5. ASSUME NEW z, z.key = x.key PROVE Past(s, z, j + 1)
      <4>1. \A l \in DOMAIN s : l > j + 1 => s[l].key # x.key
        BY <1>0, <1>3, <2>2, <3>1
      <4> QED BY <3>5, <4>1, Zenon DEF Past
    <3>6. \A z \in R \ {x} : In(z, lane) => Later(s, z, j + 1)
      <4>1. j + 1 \in Nat /\ j + 1 <= k
        BY <1>0, <3>1
      <4> QED BY <2>3, <4>1, Zenon
    <3>7. Done(Range(r.ops), lane, s, j + 1) \/ Rest(Range(r.ops), lane, s, j + 1)
      BY <3>4, <3>5, <3>6, Zenon DEF Done, Rest, AllWait
    <3> QED BY <3>2, <3>4, <3>7, Zenon DEF Good, op
  <2>5. CASE x.key # op.key
    <3>1. Serve(d, lane, op) = d
      BY <2>5, Zenon DEF Serve
    <3>2. k # j + 1
      BY <2>2, <2>5, Zenon
    <3>3. j + 1 \in Nat /\ j + 1 <= k /\ k > j + 1
      BY <1>0, <2>2, <3>2, SMTT(30)
    <3>4. Later(s, x, j + 1)
      BY <2>2, <3>3, Zenon DEF Later
    <3> HIDE DEF x, op, i
    <3>5. Rest(R, lane, s, j + 1)
      BY <2>3, <3>3, <3>4, Zenon DEF Rest
    <3> HIDE DEF R
    <3> QED BY <3>1, <3>5, Zenon DEF Good, op, R
  <2> QED BY <2>4, <2>5, Zenon
<1> QED BY <1>4, <1>5, Zenon

\* The recursion of Resume has a solution.
Solves(f, v, lane, s, N) ==
    f = [j \in 0 .. N |-> IF j = 0 THEN v ELSE Serve(f[j - 1], lane, s[j])]

LEMMA Served ==
    ASSUME NEW v, NEW lane, NEW s, NEW N \in Nat
    PROVE  \E f : Solves(f, v, lane, s, N)
<1> DEFINE S == {m \in 0 .. N : \E f : Solves(f, v, lane, s, m)}
<1>1. 0 \in S
  <2> DEFINE h == [j \in 0 .. 0 |-> v]
  <2>1. h = [j \in 0 .. 0 |-> IF j = 0 THEN v ELSE Serve(h[j - 1], lane, s[j])]
    OBVIOUS
  <2> HIDE DEF h
  <2> QED BY <2>1 DEF Solves
<1>2. ASSUME NEW m \in 0 .. N - 1, m \in S
      PROVE  m + 1 \in S
  <2>1. PICK f : f = [j \in 0 .. m |-> IF j = 0 THEN v ELSE Serve(f[j - 1], lane, s[j])]
    BY <1>2, Zenon DEF Solves
  <2> DEFINE h == [j \in 0 .. m + 1 |-> IF j = m + 1 THEN Serve(f[m], lane, s[j]) ELSE f[j]]
  <2>2. \A j \in 0 .. m + 1 : h[j] = IF j = 0 THEN v ELSE Serve(h[j - 1], lane, s[j])
    BY <2>1
  <2>3. h = [j \in 0 .. m + 1 |-> h[j]]
    BY Zenon
  <2> HIDE DEF h
  <2>4. h = [j \in 0 .. m + 1 |-> IF j = 0 THEN v ELSE Serve(h[j - 1], lane, s[j])]
    BY <2>2, <2>3, Zenon
  <2>5. m + 1 \in 0 .. N
    OBVIOUS
  <2> QED BY <2>4, <2>5, Zenon DEF Solves
<1> HIDE DEF S
<1>3. N \in S
  BY <1>1, <1>2, Reaches, Zenon
<1> QED BY <1>3, Zenon DEF S

LEMMA ResumeFull ==
    ASSUME NEW v, NEW n \in Nat, NEW lane \in Lanes, Base(v, n, lane),
           Settled(Range(v.ops), lane) \/ AllWait(Range(v.ops), lane)
    PROVE  Full(Resume(v, lane), n)
<1> DEFINE s == v.ops
           N == Len(s)
           after[j \in 0 .. N] == IF j = 0 THEN v ELSE Serve(after[j - 1], lane, s[j])
           S == {j \in 0 .. N : Good(after[j], n, lane, s, j)}
<1>1. Resume(v, lane) = after[N]
  BY Zenon DEF Resume, Serve
<1>2. Sorted(s) /\ N \in Nat
  BY SortedIs, Zenon DEF Base, Core
<1>3. Good(v, n, lane, s, 0)
  BY GoodAtStart, Zenon
<1> HIDE DEF N, s
<1>4. after = [j \in 0 .. N |-> IF j = 0 THEN v ELSE Serve(after[j - 1], lane, s[j])]
  <2>1. \E f : Solves(f, v, lane, s, N)
    BY <1>2, Served, Zenon
  <2> QED BY <2>1, Zenon DEF Solves
<1> HIDE DEF after
<1>5. 0 \in S
  BY <1>2, <1>3, <1>4
<1>6. ASSUME NEW j \in 0 .. N - 1, j \in S
      PROVE  j + 1 \in S
  <2>1. j + 1 \in 0 .. N /\ j + 1 # 0 /\ (j + 1) - 1 = j
    BY <1>2
  <2>2. after[j + 1] = IF j + 1 = 0 THEN v ELSE Serve(after[(j + 1) - 1], lane, s[j + 1])
    BY <1>4, <2>1, Zenon
  <2>3. after[j + 1] = Serve(after[j], lane, s[j + 1])
    BY <2>1, <2>2, Zenon
  <2>4. Good(after[j], n, lane, s, j)
    BY <1>6, Zenon
  <2>5. Good(after[j + 1], n, lane, s, j + 1)
    BY <1>2, <2>3, <2>4, ServeSettled, ServeWaiting, ZenonT(30) DEF Good, N
  <2> QED BY <2>1, <2>5, Zenon
<1> HIDE DEF S
<1>7. N \in S
  BY <1>2, <1>5, <1>6, Reaches, Zenon
<1>8. Good(after[N], n, lane, s, Len(s))
  BY <1>7, Zenon DEF S, N
<1> QED BY <1>1, <1>2, <1>8, GoodAtEnd, Zenon

LEMMA CompleteFull ==
    ASSUME NEW v, NEW n \in Nat, Full(v, n), NEW i \in DOMAIN v.ops, NEW res
    PROVE  Full(CompleteOpInternal(v, i, res), n)
<1> DEFINE d == Finish(v, i, res)
           R == Range(v.ops)
           x == v.ops[i]
           Q == R \ {x}
           lane == Lane(x.type)
<1>1. Core(d, n) /\ Range(d.ops) = Q /\ OwnedBy(d.ids, Range(d.ops))
  BY FinishIs, Zenon DEF Full
<1> HIDE DEF d
<1>2. x \in R /\ IsOp(x) /\ Ready(v, n, i)
  BY SortedIs, FullReady, Zenon DEF Full, Core
<1>3. \A other \in Lanes : Settled(R, other)
  BY Zenon DEF Full
<1>4. LaneReady(R, x)
  BY <1>2, Zenon DEF Ready
<1>5. \A z \in R : z.key \in Nat
  BY Zenon DEF Full, Core, Sorted, IsOp
<1>6. CompleteOpInternal(v, i, res) = Resume(d, lane)
  BY Zenon DEF CompleteOpInternal, d
<1> HIDE DEF x, R
<1>7. lane \in Lanes /\ In(x, lane) /\ \A other \in Lanes : other # lane => ~ In(x, other)
  BY <1>2, Zenon DEF Lane, Lanes, In, IsOp, Type
<1>8. Elsewhere(Q, lane)
  <2> SUFFICES ASSUME NEW other \in Lanes, other # lane PROVE Settled(Q, other)
    BY Zenon DEF Elsewhere
  <2> QED BY <1>3, <1>7, Zenon DEF Settled
<1>9. Settled(Q, lane) \/ AllWait(Q, lane)
  <2>1. CASE x.suspended
    <3>1. PICK y \in R : In(y, lane) /\ y.key < x.key
      BY <1>2, <1>3, <1>7, <2>1, Zenon DEF Settled
    <3>2. y \in Q
      BY <1>5, <3>1
    <3>3. ASSUME NEW z \in Q
          PROVE  (\E a \in Q : In(a, lane) /\ a.key < z.key) <=> (\E a \in R : In(a, lane) /\ a.key < z.key)
      <4>1. x.key < z.key => y.key < z.key
        BY <1>2, <1>5, <3>1, SMTT(30)
      <4> QED BY <3>1, <3>2, <4>1, Zenon
    <3>4. Settled(Q, lane)
      BY <1>3, <1>7, <3>3, Zenon DEF Settled
    <3> QED BY <3>4, Zenon
  <2>2. CASE ~ x.suspended
    BY <1>4, <2>2, Zenon DEF LaneReady, AllWait
  <2> QED BY <2>1, <2>2, Zenon
<1> HIDE DEF Q, lane
<1> QED BY <1>1, <1>6, <1>7, <1>8, <1>9, ResumeFull, Zenon DEF Base

LEMMA SendInternalFull ==
    ASSUME NEW v, NEW n \in Nat, NEW i, Ready(v, n, i), OwnedBy(v.ids, Range(v.ops))
    PROVE  Full(SendInternal(v, i), n)
<1> DEFINE x == v.ops[i]
           lane == Lane(x.type)
           R == Range(v.ops)
<1>1. Core(v, n) /\ Elsewhere(R, lane) /\ LaneReady(R, x) /\ IsOp(x)
  BY SortedIs, ZenonT(30) DEF Ready, Core
<1>2. lane \in Lanes
  BY <1>1, Zenon DEF Lane, Lanes
<1>3. CASE x.suspended
  <2>1. SendInternal(v, i) = v
    BY <1>3, Zenon DEF SendInternal
  <2>2. Settled(R, lane)
    BY <1>1, <1>3, Zenon DEF LaneReady
  <2>3. \A other \in Lanes : Settled(R, other)
    BY <1>1, <2>2, Zenon DEF Elsewhere
  <2> QED BY <1>1, <2>1, <2>3, Zenon DEF Full
<1>4. CASE ~ x.suspended
  <2> DEFINE d == Transmit(v, i)
  <2>1. SendInternal(v, i) = Resume(d, lane)
    BY <1>4, Zenon DEF SendInternal
  <2>2. /\ Core(d, n) /\ OwnedBy(d.ids, Range(d.ops)) /\ Elsewhere(Range(d.ops), lane)
        /\ Settled(Range(d.ops), lane) \/ AllWait(Range(d.ops), lane)
    BY <1>4, TransmitIs, Zenon
  <2> HIDE DEF d, lane
  <2> QED BY <1>2, <2>1, <2>2, ResumeFull, Zenon DEF Base
<1> QED BY <1>3, <1>4, Zenon

\* A request that keeps its packet ids is sent.
LEMMA ChangedReady ==
    ASSUME NEW v, NEW n \in Nat, NEW i, Ready(v, n, i), OwnedBy(v.ids, Range(v.ops)),
           NEW y, Same(y, v.ops[i]), NEW w, Changed(w, v, i, y), w.ids = v.ids
    PROVE  Ready(w, n, i) /\ OwnedBy(w.ids, Range(w.ops)) /\ w.ops[i] = y
<1>0. Keeps(y, v.ops[i])
  BY Zenon DEF Same
<1>1. Ready(w, n, i) /\ w.ops[i] = y /\ Range(w.ops) = Swap(Range(v.ops), v.ops[i], y)
  BY <1>0, ReadyUpdated
<1>2. IdsOf(y) = IdsOf(v.ops[i])
  BY Zenon DEF Same
<1>3. v.ops[i] \in Range(v.ops)
  BY SortedIs, ZenonT(30) DEF Ready, Core
<1>4. OwnedBy(v.ids, Swap(Range(v.ops), v.ops[i], y))
  BY <1>2, <1>3, OwnedReplaced, Zenon
<1> QED BY <1>1, <1>4, Zenon

LEMMA AgainFull ==
    ASSUME NEW v, NEW n \in Nat, NEW i, Ready(v, n, i), OwnedBy(v.ids, Range(v.ops)),
           NEW stage \in {"Register", "Publish", "Acked"}
    PROVE  Full(Again(v, i, stage), n)
<1> DEFINE x == v.ops[i]
           y == [x EXCEPT !.stage = stage, !.retries = RetryCount]
           w == [v EXCEPT !.ops[i].stage = stage, !.ops[i].retries = RetryCount]
<1>1. IsOp(x) /\ DOMAIN v = Field /\ i \in DOMAIN v.ops
  BY SortedIs, Zenon DEF Ready, Core
<1>2. Same(y, x)
  <2>1. Keeps(y, x) /\ y.registerId = x.registerId /\ y.msgId = x.msgId
    BY <1>1, Zenon DEF Keeps, IsOp, OpField
  <2> HIDE DEF y
  <2> QED BY <2>1, SameIds, Zenon DEF Same
<1>3. Changed(w, v, i, y) /\ w.ids = v.ids
  <2>1. DOMAIN w = Field /\ w.ops = [v.ops EXCEPT ![i] = y] /\ w.ids = v.ids
    BY <1>1, Zenon DEF Field
  <2> HIDE DEF y, w
  <2> QED BY <1>1, <2>1, Zenon DEF Changed
<1> HIDE DEF y, w
<1>4. Ready(w, n, i) /\ OwnedBy(w.ids, Range(w.ops))
  BY <1>2, <1>3, ChangedReady, Zenon
<1>5. Again(v, i, stage) = SendInternal(w, i)
  BY Zenon DEF Again, w
<1> QED BY <1>4, <1>5, SendInternalFull, Zenon

LEMMA TimeoutFull ==
    ASSUME NEW v, NEW n \in Nat, Full(v, n), NEW i \in DOMAIN v.ops, ~ v.ops[i].suspended
    PROVE  Full(TimeoutInternal(v, i), n)
<1> DEFINE x == v.ops[i]
           y == [x EXCEPT !.retries = @ - 1, !.timed = FALSE]
           w == [v EXCEPT !.ops[i].retries = @ - 1, !.ops[i].timed = FALSE]
<1>1. CASE x.retries = 0
  <2>1. TimeoutInternal(v, i) = CompleteOpInternal(v, i, "Timeout")
    BY <1>1, Zenon DEF TimeoutInternal
  <2> QED BY <2>1, CompleteFull, Zenon
<1>2. CASE x.retries # 0
  <2>0. Ready(v, n, i) /\ OwnedBy(v.ids, Range(v.ops))
    BY FullReady, Zenon DEF Full
  <2>1. IsOp(x) /\ DOMAIN v = Field
    BY SortedIs, Zenon DEF Full, Core
  <2>2. Same(y, x)
    <3>1. Keeps(y, x) /\ y.registerId = x.registerId /\ y.msgId = x.msgId
      BY <2>1, Zenon DEF Keeps, IsOp, OpField
    <3> HIDE DEF y
    <3> QED BY <3>1, SameIds, Zenon DEF Same
  <2>3. Changed(w, v, i, y) /\ w.ids = v.ids
    <3>1. DOMAIN w = Field /\ w.ops = [v.ops EXCEPT ![i] = y] /\ w.ids = v.ids
      BY <2>1, Zenon DEF Field
    <3> HIDE DEF y, w
    <3> QED BY <2>1, <3>1, Zenon DEF Changed
  <2>4. TimeoutInternal(v, i) = SendInternal(w, i)
    BY <1>2, Zenon DEF TimeoutInternal
  <2> HIDE DEF y, w
  <2>5. Ready(w, n, i) /\ OwnedBy(w.ids, Range(w.ops))
    BY <2>0, <2>2, <2>3, ChangedReady, Zenon
  <2> QED BY <2>4, <2>5, SendInternalFull, Zenon
<1> QED BY <1>1, <1>2, Zenon

LEMMA FullSame ==
    ASSUME NEW v, NEW n, Full(v, n), NEW w, DOMAIN w = Field, w.ops = v.ops, w.ids = v.ids
    PROVE  Full(w, n)
BY Zenon DEF Full, Core

-----------------------------------------------------------------------------
(* Packet ids of a request. *)

Free(ids) == (1 .. MaxPacketId) \ ids

\* Request i of v got the id that is free in its field f.
Got(r, v, i, f, id) ==
    /\ DOMAIN r = Field /\ r.ids = v.ids \cup {id}
    /\ r.ops = [v.ops EXCEPT ![i] = [v.ops[i] EXCEPT ![f] = id]]

\* In r request i of v has become y, with packet ids that were free.
Given(r, v, i, y) ==
    /\ Keeps(y, v.ops[i]) /\ Changed(r, v, i, y)
    /\ IdsOf(y) \subseteq Free(v.ids) /\ r.ids = v.ids \cup IdsOf(y)

LEMMA GivenReady ==
    ASSUME NEW v, NEW n \in Nat, NEW i, Ready(v, n, i), OwnedBy(v.ids, Range(v.ops) \ {v.ops[i]}),
           NEW y, NEW r, Given(r, v, i, y)
    PROVE  Ready(r, n, i) /\ OwnedBy(r.ids, Range(r.ops))
<1>1. /\ Keeps(y, v.ops[i]) /\ Changed(r, v, i, y)
      /\ IdsOf(y) \in SUBSET ((1 .. MaxPacketId) \ v.ids) /\ r.ids = v.ids \cup IdsOf(y)
  BY Zenon DEF Given, Free
<1>2. Ready(r, n, i) /\ Range(r.ops) = Swap(Range(v.ops), v.ops[i], y)
  BY <1>1, ReadyUpdated
<1>3. OwnedBy(v.ids \cup IdsOf(y), (Range(v.ops) \ {v.ops[i]}) \cup {y})
  BY <1>1, Owning, Zenon
<1> QED BY <1>1, <1>2, <1>3, Zenon DEF Swap

LEMMA GotMsgId ==
    ASSUME NEW v, DOMAIN v = Field, NEW i, NEW a \in Free(v.ids)
    PROVE  LET w == AllocPacketId(v)
           IN w.lastId \in Free(v.ids) /\ Got([w EXCEPT !.ops[i].msgId = w.lastId], v, i, "msgId", w.lastId)
<1> DEFINE w == AllocPacketId(v)
           r == [w EXCEPT !.ops[i].msgId = w.lastId]
<1>1. /\ DOMAIN w = Field /\ w.lastId \in (1 .. MaxPacketId) \ v.ids
      /\ w.ids = v.ids \cup {w.lastId} /\ w.ops = v.ops
  BY AllocIs, Zenon DEF Free
<1> HIDE DEF w
<1>2. /\ DOMAIN r = Field /\ r.ids = w.ids
      /\ r.ops = [w.ops EXCEPT ![i] = [w.ops[i] EXCEPT !["msgId"] = w.lastId]]
  BY <1>1, Zenon DEF Field
<1> HIDE DEF r
<1>3. Got(r, v, i, "msgId", w.lastId)
  BY <1>1, <1>2, Zenon DEF Got
<1> QED BY <1>1, <1>3, Zenon DEF r, w, Free

LEMMA GotRegisterId ==
    ASSUME NEW v, DOMAIN v = Field, NEW i, NEW a \in Free(v.ids)
    PROVE  LET w == AllocPacketId(v)
           IN /\ w.lastId \in Free(v.ids)
              /\ Got([w EXCEPT !.ops[i].registerId = w.lastId], v, i, "registerId", w.lastId)
<1> DEFINE w == AllocPacketId(v)
           r == [w EXCEPT !.ops[i].registerId = w.lastId]
<1>1. /\ DOMAIN w = Field /\ w.lastId \in (1 .. MaxPacketId) \ v.ids
      /\ w.ids = v.ids \cup {w.lastId} /\ w.ops = v.ops
  BY AllocIs, Zenon DEF Free
<1> HIDE DEF w
<1>2. /\ DOMAIN r = Field /\ r.ids = w.ids
      /\ r.ops = [w.ops EXCEPT ![i] = [w.ops[i] EXCEPT !["registerId"] = w.lastId]]
  BY <1>1, Zenon DEF Field
<1> HIDE DEF r
<1>3. Got(r, v, i, "registerId", w.lastId)
  BY <1>1, <1>2, Zenon DEF Got
<1> QED BY <1>1, <1>3, Zenon DEF r, w, Free

\* Request i, which has no packet id, gets one in its field msgId.
LEMMA MsgIdGiven ==
    ASSUME NEW v, NEW i, IsOp(v.ops[i]), NEW id \in Free(v.ids), v.ops[i].registerId = 0,
           v.ops[i].type = "Send" => v.ops[i].qos # 0, NEW r, Got(r, v, i, "msgId", id)
    PROVE  \E y : Given(r, v, i, y)
<1> DEFINE x == v.ops[i]
           y == [x EXCEPT !["msgId"] = id]
<1>1. id \in Nat /\ id # 0
  BY ClientOpsAssumption DEF Free
<1>2. /\ DOMAIN y = OpField /\ y.msgId = id /\ y.registerId = x.registerId
      /\ \A f \in OpField \ {"msgId"} : y[f] = x[f]
  BY Zenon DEF IsOp, OpField
<1> HIDE DEF y
<1>3. Keeps(y, x)
  BY <1>1, <1>2, Zenon DEF Keeps, IsOp, OpField
<1>4. IdsOf(y) = {id}
  BY <1>1, <1>2, Zenon DEF IdsOf
<1>5. Changed(r, v, i, y) /\ r.ids = v.ids \cup {id}
  BY Zenon DEF Changed, Got, y
<1>6. Given(r, v, i, y)
  BY <1>3, <1>4, <1>5, Zenon DEF Given
<1> QED BY <1>6, Zenon

\* A publish without QoS gets one in its field registerId.
LEMMA RegisterIdGiven ==
    ASSUME NEW v, NEW i, IsOp(v.ops[i]), NEW id \in Free(v.ids), v.ops[i].msgId = 0,
           NEW r, Got(r, v, i, "registerId", id)
    PROVE  \E y : Given(r, v, i, y)
<1> DEFINE x == v.ops[i]
           y == [x EXCEPT !["registerId"] = id]
<1>1. id \in Nat /\ id # 0
  BY ClientOpsAssumption DEF Free
<1>2. /\ DOMAIN y = OpField /\ y.registerId = id /\ y.msgId = x.msgId
      /\ \A f \in OpField \ {"registerId"} : y[f] = x[f]
  BY Zenon DEF IsOp, OpField
<1> HIDE DEF y
<1>3. Keeps(y, x)
  BY <1>1, <1>2, Zenon DEF Keeps, IsOp, OpField
<1>4. IdsOf(y) = {id}
  BY <1>1, <1>2, Zenon DEF IdsOf
<1>5. Changed(r, v, i, y) /\ r.ids = v.ids \cup {id}
  BY Zenon DEF Changed, Got, y
<1>6. Given(r, v, i, y)
  BY <1>3, <1>4, <1>5, Zenon DEF Given
<1> QED BY <1>6, Zenon

\* Another one gets both.
LEMMA BothGiven ==
    ASSUME NEW v, NEW i \in DOMAIN v.ops, IsOp(v.ops[i]), NEW id \in Free(v.ids),
           v.ops[i].qos # 0, NEW w, Got(w, v, i, "registerId", id),
           NEW next \in Free(w.ids), NEW r, Got(r, w, i, "msgId", next)
    PROVE  \E y : Given(r, v, i, y)
<1> DEFINE x == v.ops[i]
           z == [x EXCEPT !["registerId"] = id]
           y == [z EXCEPT !["msgId"] = next]
<1>1. id \in Nat /\ id # 0 /\ next \in Nat /\ next # 0
  BY ClientOpsAssumption DEF Free
<1>2. /\ DOMAIN y = OpField /\ y.registerId = id /\ y.msgId = next
      /\ \A f \in OpField \ {"registerId", "msgId"} : y[f] = x[f]
  BY Zenon DEF IsOp, OpField
<1>3. w.ops = [v.ops EXCEPT ![i] = z] /\ w.ids = v.ids \cup {id}
  BY Zenon DEF Got
<1>4. /\ DOMAIN r = Field /\ r.ops = [w.ops EXCEPT ![i] = [w.ops[i] EXCEPT !["msgId"] = next]]
      /\ r.ids = w.ids \cup {next}
  BY Zenon DEF Got
<1> HIDE DEF z
<1>5. w.ops[i] = z
  BY <1>3, Zenon
<1>6. r.ops = [v.ops EXCEPT ![i] = y]
  BY <1>3, <1>4, <1>5, Zenon
<1> HIDE DEF y
<1>7. Keeps(y, x)
  BY <1>1, <1>2, Zenon DEF Keeps, IsOp, OpField
<1>8. IdsOf(y) = {id, next}
  BY <1>1, <1>2, Zenon DEF IdsOf
<1>9. next \in Free(v.ids)
  BY <1>3, Zenon DEF Free
<1>10. Changed(r, v, i, y)
  BY <1>4, <1>6, Zenon DEF Changed
<1>11. r.ids = v.ids \cup IdsOf(y)
  BY <1>3, <1>4, <1>8, Zenon
<1>12. Given(r, v, i, y)
  BY <1>7, <1>8, <1>9, <1>10, <1>11, Zenon DEF Given
<1> QED BY <1>12, Zenon

\* A publish gets the packet ids it needs: while its ids are not owned, two are free.
LEMMA AllocReady ==
    ASSUME NEW v, NEW n \in Nat, n <= MaxRequests, NEW i, Ready(v, n, i), v.ops[i].type = "Send",
           OwnedBy(v.ids, Range(v.ops) \ {v.ops[i]}),
           v.ops[i].stage # "Register" => v.ops[i].registerId = 0
    PROVE  LET r == AllocPacketIdsInternal(v, i) IN Ready(r, n, i) /\ OwnedBy(r.ids, Range(r.ops))
<1> DEFINE r == AllocPacketIdsInternal(v, i)
           x == v.ops[i]
           a == AllocPacketId(v)
           w == [a EXCEPT !.ops[i].registerId = a.lastId]
           b == AllocPacketId(w)
           c == [a EXCEPT !.ops[i].msgId = a.lastId]
           d == [b EXCEPT !.ops[i].msgId = b.lastId]
<1>1. Core(v, n) /\ Sorted(v.ops) /\ DOMAIN v = Field /\ i \in DOMAIN v.ops
  BY Zenon DEF Ready, Core
<1>2. IsOp(x) /\ x \in Range(v.ops)
  BY <1>1, SortedIs, Zenon
<1>3. Len(v.ops) <= MaxRequests
  BY <1>1, SortedIs, UpstreamAssumption DEF Core
<1>4. PICK p, q \in Free(v.ids) : p # q
  <2>1. \E p, q \in (1 .. MaxPacketId) \ v.ids : p # q
    BY <1>1, <1>3, Room
  <2> QED BY <2>1, Zenon DEF Free
<1>5. r = IF x.qos = 0 THEN (IF x.stage # "Register" THEN v ELSE w)
          ELSE (IF x.stage # "Register" THEN c ELSE d)
  BY Zenon DEF AllocPacketIdsInternal
<1>6. a.lastId \in Free(v.ids) /\ Got(w, v, i, "registerId", a.lastId)
  BY <1>1, <1>4, GotRegisterId, Zenon
<1>7. Got(c, v, i, "msgId", a.lastId)
  BY <1>1, <1>4, GotMsgId, Zenon
<1>8. b.lastId \in Free(w.ids) /\ Got(d, w, i, "msgId", b.lastId)
  <2>1. DOMAIN w = Field /\ w.ids = v.ids \cup {a.lastId}
    BY <1>6, Zenon DEF Got
  <2> HIDE DEF w, a
  <2>2. \E k \in Free(w.ids) : TRUE
    BY <1>4, <2>1 DEF Free
  <2> QED BY <2>1, <2>2, GotMsgId, Zenon
<1> HIDE DEF a, b, c, d, w
<1>9. CASE x.qos = 0 /\ x.stage # "Register"
  <2>1. r = v
    BY <1>5, <1>9, Zenon
  <2>2. IdsOf(x) = {}
    BY <1>2, <1>9, Zenon DEF IsOp, IdsOf
  <2>3. OwnedBy(v.ids \cup {}, (Range(v.ops) \ {x}) \cup {x})
    BY <2>2, Owning, Zenon
  <2>4. v.ids \cup {} = v.ids /\ (Range(v.ops) \ {x}) \cup {x} = Range(v.ops)
    BY <1>2, Zenon
  <2> QED BY <2>1, <2>3, <2>4, Zenon
<1>10. CASE ~ (x.qos = 0 /\ x.stage # "Register")
  <2>1. \E y : Given(r, v, i, y)
    <3>1. CASE x.qos = 0 /\ x.stage = "Register"
      <4>1. r = w /\ x.msgId = 0
        BY <1>2, <1>5, <3>1, Zenon DEF IsOp
      <4> QED BY <1>1, <1>2, <1>6, <4>1, RegisterIdGiven, Zenon
    <3>2. CASE x.qos # 0 /\ x.stage # "Register"
      <4>1. r = c
        BY <1>5, <3>2, Zenon
      <4> QED BY <1>1, <1>2, <1>6, <1>7, <3>2, <4>1, MsgIdGiven, Zenon
    <3>3. CASE x.qos # 0 /\ x.stage = "Register"
      <4>1. r = d
        BY <1>5, <3>3, Zenon
      <4> QED BY <1>1, <1>2, <1>6, <1>8, <3>3, <4>1, BothGiven, Zenon
    <3> QED BY <1>10, <3>1, <3>2, <3>3, Zenon
  <2> HIDE DEF r
  <2>2. Ready(r, n, i) /\ OwnedBy(r.ids, Range(r.ops))
    BY <2>1, GivenReady, Zenon
  <2> QED BY <2>2, Zenon DEF r
<1> QED BY <1>9, <1>10, Zenon

-----------------------------------------------------------------------------
(* Answers. *)

LEMMA Found ==
    ASSUME NEW v, NEW n, Full(v, n), NEW S, S \subseteq DOMAIN v.ops, FindIf(S) # 0
    PROVE  FindIf(S) \in S /\ FindIf(S) \in DOMAIN v.ops
<1>0. Sorted(v.ops)
  BY Zenon DEF Full, Core
<1>1. Len(v.ops) \in Nat /\ DOMAIN v.ops = 1 .. Len(v.ops)
  BY <1>0, SortedIs, Zenon
<1>2. S \subseteq 1 .. Len(v.ops)
  BY <1>1, Zenon
<1>3. (S = {} => FindIf(S) = 0) /\ (S # {} => FindIf(S) \in S)
  BY <1>1, <1>2, FindIfIs
<1> QED BY <1>3, Zenon

\* What an answer does to a request that keeps its packet ids, before it is sent again.
LEMMA AnsweredReady ==
    ASSUME NEW v, NEW n \in Nat, Full(v, n), NEW i \in DOMAIN v.ops,
           NEW y, Same(y, v.ops[i]), NEW w, Changed(w, v, i, y), w.ids = v.ids
    PROVE  Ready(w, n, i) /\ OwnedBy(w.ids, Range(w.ops)) /\ w.ops[i] = y
<1>1. Ready(v, n, i)
  BY FullReady, Zenon
<1>2. OwnedBy(v.ids, Range(v.ops))
  BY Zenon DEF Full
<1> QED BY <1>1, <1>2, ChangedReady

LEMMA RegackFull ==
    ASSUME NEW v, NEW n \in Nat, Full(v, n), NEW msg
    PROVE  Full(HandleRegack(v, msg), n)
<1> DEFINE S == {j \in DOMAIN v.ops : /\ ~ v.ops[j].suspended
                                      /\ v.ops[j].type = "Send" /\ v.ops[j].stage = "Register"
                                         /\ v.ops[j].registerId = msg.msgId}
           i == FindIf(S)
           x == v.ops[i]
           y == [x EXCEPT !.topicId = msg.topicId]
           d == StoreOutRegTopic(v, x.topic, msg.topicId)
           w == [d EXCEPT !.ops[i].topicId = msg.topicId]
<1>1. HandleRegack(v, msg) =
          CASE i = 0 -> v
            [] i # 0 /\ msg.code # "Accepted" -> CompleteOpInternal(v, i, "Rejected")
            [] i # 0 /\ msg.code = "Accepted" -> Again(w, i, "Publish")
  BY Zenon DEF HandleRegack, Answered
<1>2. i # 0 => i \in DOMAIN v.ops
  BY Found, Zenon
<1> HIDE DEF i
<1>3. CASE i = 0
  BY <1>1, <1>3, Zenon
<1>4. CASE i # 0 /\ msg.code # "Accepted"
  BY <1>1, <1>2, <1>4, CompleteFull, Zenon
<1>5. CASE i # 0 /\ msg.code = "Accepted"
  <2>1. IsOp(x) /\ DOMAIN v = Field
    BY <1>2, <1>5, SortedIs, Zenon DEF Full, Core
  <2>2. Same(y, x)
    <3>1. Keeps(y, x) /\ y.registerId = x.registerId /\ y.msgId = x.msgId
      BY <2>1, Zenon DEF Keeps, IsOp, OpField
    <3> HIDE DEF y
    <3> QED BY <3>1, SameIds, Zenon DEF Same
  <2>3. Changed(w, v, i, y) /\ w.ids = v.ids
    <3>1. DOMAIN d = Field /\ d.ops = v.ops /\ d.ids = v.ids
      BY <2>1, Zenon DEF Field, StoreOutRegTopic
    <3> HIDE DEF d
    <3>2. DOMAIN w = Field /\ w.ops = [v.ops EXCEPT ![i] = y] /\ w.ids = v.ids
      BY <3>1, Zenon DEF Field
    <3> HIDE DEF y, w
    <3> QED BY <2>1, <3>2, Zenon DEF Changed
  <2> HIDE DEF y, w
  <2>4. Ready(w, n, i) /\ OwnedBy(w.ids, Range(w.ops))
    BY <1>2, <1>5, <2>2, <2>3, AnsweredReady, Zenon
  <2>5. Full(Again(w, i, "Publish"), n)
    BY <2>4, AgainFull, Zenon
  <2> QED BY <1>1, <1>5, <2>5, Zenon
<1> QED BY <1>3, <1>4, <1>5, Zenon

\* A publish under an id the gateway does not know starts again with other packet ids.
LEMMA AckedFull ==
    ASSUME NEW v, NEW n \in Nat, n <= MaxRequests, Full(v, n), NEW i \in DOMAIN v.ops,
           v.ops[i].type = "Send", NEW msg
    PROVE  Full(PublishAcked(v, i, msg), n)
<1> DEFINE x == v.ops[i]
           y == [x EXCEPT !.fullRetries = @ - 1, !.stage = "Register"]
           w == [v EXCEPT !.ops[i].fullRetries = @ - 1, !.ops[i].stage = "Register"]
           d == ReleasePacketIdsInternal(w, i)
           r == AllocPacketIdsInternal(d, i)
<1>1. \/ PublishAcked(v, i, msg) = v
      \/ PublishAcked(v, i, msg) = Again(r, i, "Register")
      \/ \E res : PublishAcked(v, i, msg) = CompleteOpInternal(v, i, res)
  BY Zenon DEF PublishAcked
<1>2. IsOp(x) /\ DOMAIN v = Field
  BY SortedIs, Zenon DEF Full, Core
<1>3. Same(y, x) /\ y.type = x.type /\ y.stage = "Register"
  <2>1. Keeps(y, x) /\ y.registerId = x.registerId /\ y.msgId = x.msgId /\ y.stage = "Register"
    BY <1>2, Zenon DEF Keeps, IsOp, OpField
  <2> HIDE DEF y
  <2> QED BY <2>1, SameIds, Zenon DEF Same, Keeps
<1>4. Changed(w, v, i, y) /\ w.ids = v.ids
  <2>1. DOMAIN w = Field /\ w.ops = [v.ops EXCEPT ![i] = y] /\ w.ids = v.ids
    BY <1>2, Zenon DEF Field
  <2> HIDE DEF y, w
  <2> QED BY <1>2, <2>1, Zenon DEF Changed
<1> HIDE DEF y, w
<1>5. Ready(w, n, i) /\ OwnedBy(w.ids, Range(w.ops)) /\ w.ops[i] = y
  BY <1>3, <1>4, AnsweredReady
<1>6. /\ DOMAIN d = Field /\ d.ops = w.ops /\ d.ids = w.ids \ {y.registerId, y.msgId}
  BY <1>4, <1>5, Zenon DEF ReleasePacketIdsInternal, Changed, Field
<1> HIDE DEF d
<1>7. Ready(d, n, i)
  BY <1>5, <1>6, Zenon DEF Ready, Core
<1>8. y \in Range(w.ops)
  BY <1>5, SortedIs, Zenon DEF Ready, Core
<1>9. OwnedBy(d.ids, Range(d.ops) \ {d.ops[i]})
  BY <1>5, <1>6, <1>8, Disowning
<1>10. Ready(r, n, i) /\ OwnedBy(r.ids, Range(r.ops))
  BY <1>3, <1>5, <1>6, <1>7, <1>9, AllocReady, Zenon
<1> HIDE DEF r
<1>11. Full(Again(r, i, "Register"), n)
  BY <1>10, AgainFull, Zenon
<1> QED BY <1>1, <1>11, CompleteFull, Zenon

LEMMA PubackFull ==
    ASSUME NEW v, NEW n \in Nat, n <= MaxRequests, Full(v, n), NEW msg
    PROVE  Full(HandlePuback(v, msg), n)
<1> DEFINE S == {j \in DOMAIN v.ops : v.ops[j].type = "Send" /\ v.ops[j].msgId = msg.msgId}
           i == FindIf(S)
           w == IF msg.code # "InvalidTopicId" THEN v
                ELSE [v EXCEPT !.outReg = Except(@, {t \in DOMAIN @ : v.outReg[t] = msg.topicId})]
<1>1. HandlePuback(v, msg) = IF i = 0 THEN w ELSE PublishAcked(w, i, msg)
  BY Zenon DEF HandlePuback
<1>2. i # 0 => i \in S /\ i \in DOMAIN v.ops
  BY Found, Zenon
<1>3. DOMAIN v = Field
  BY Zenon DEF Full, Core
<1>4. DOMAIN w = Field /\ w.ops = v.ops /\ w.ids = v.ids
  BY <1>3, Zenon DEF Field
<1> HIDE DEF w, i
<1>5. Full(w, n)
  BY <1>4, FullSame, Zenon
<1>6. CASE i = 0
  BY <1>1, <1>5, <1>6, Zenon
<1>7. CASE i # 0
  <2>1. i \in DOMAIN w.ops /\ w.ops[i].type = "Send"
    BY <1>2, <1>4, <1>7, Zenon
  <2>2. Full(PublishAcked(w, i, msg), n)
    BY <1>5, <2>1, AckedFull, Zenon
  <2> QED BY <1>1, <1>7, <2>2, Zenon
<1> QED BY <1>6, <1>7, Zenon

LEMMA PubrecFull ==
    ASSUME NEW v, NEW n \in Nat, Full(v, n), NEW msg
    PROVE  Full(HandlePubrec(v, msg), n)
<1> DEFINE S == {j \in DOMAIN v.ops : /\ ~ v.ops[j].suspended
                                      /\ v.ops[j].type = "Send" /\ v.ops[j].stage # "Register"
                                         /\ v.ops[j].msgId = msg.msgId /\ v.ops[j].qos = 2}
           i == FindIf(S)
<1>1. HandlePubrec(v, msg) = IF i = 0 THEN v ELSE Again(v, i, "Acked")
  BY Zenon DEF HandlePubrec, Answered
<1>2. i # 0 => i \in DOMAIN v.ops
  BY Found, Zenon
<1> HIDE DEF i
<1>3. CASE i = 0
  BY <1>1, <1>3, Zenon
<1>4. CASE i # 0
  <2>1. Ready(v, n, i)
    BY <1>2, <1>4, FullReady, Zenon
  <2>2. OwnedBy(v.ids, Range(v.ops))
    BY Zenon DEF Full
  <2>3. Full(Again(v, i, "Acked"), n)
    BY <2>1, <2>2, AgainFull, Zenon
  <2> QED BY <1>1, <1>4, <2>3, Zenon
<1> QED BY <1>3, <1>4, Zenon

LEMMA PubcompFull ==
    ASSUME NEW v, NEW n \in Nat, Full(v, n), NEW msg
    PROVE  Full(HandlePubcomp(v, msg), n)
<1> DEFINE S == {j \in DOMAIN v.ops : /\ ~ v.ops[j].suspended
                                      /\ v.ops[j].type = "Send" /\ v.ops[j].stage = "Acked"
                                         /\ v.ops[j].msgId = msg.msgId}
           i == FindIf(S)
<1>1. HandlePubcomp(v, msg) = IF i = 0 THEN v ELSE CompleteOpInternal(v, i, "Complete")
  BY Zenon DEF HandlePubcomp, Answered
<1>2. i # 0 => i \in DOMAIN v.ops
  BY Found, Zenon
<1> HIDE DEF i
<1> QED BY <1>1, <1>2, CompleteFull, Zenon

LEMMA SubackFull ==
    ASSUME NEW v, NEW n \in Nat, Full(v, n), NEW msg
    PROVE  Full(HandleSuback(v, msg), n)
<1> DEFINE S == {j \in DOMAIN v.ops : /\ ~ v.ops[j].suspended
                                      /\ v.ops[j].type = "Subscribe" /\ v.ops[j].msgId = msg.msgId}
           i == FindIf(S)
           topic == v.ops[i].topic
           d == IF msg.topicId # 0 /\ topic \notin DOMAIN Predefined
                THEN StoreInRegTopic(v, topic, msg.topicId) ELSE v
           w == [d EXCEPT !.filters = @ \cup {topic}]
           res == IF msg.code = "Accepted" THEN "Complete" ELSE "Rejected"
<1>1. HandleSuback(v, msg) = IF i = 0 THEN v ELSE CompleteOpInternal(w, i, res)
  BY Zenon DEF HandleSuback, Answered
<1>2. i # 0 => i \in DOMAIN v.ops
  BY Found, Zenon
<1>3. DOMAIN v = Field
  BY Zenon DEF Full, Core
<1> HIDE DEF i, topic
<1>4. DOMAIN d = Field /\ d.ops = v.ops /\ d.ids = v.ids
  BY <1>3, Zenon DEF Field, StoreInRegTopic
<1> HIDE DEF d
<1>5. DOMAIN w = Field /\ w.ops = v.ops /\ w.ids = v.ids
  BY <1>4, Zenon DEF Field
<1> HIDE DEF w, res
<1>6. Full(w, n)
  BY <1>5, FullSame, Zenon
<1> QED BY <1>1, <1>2, <1>5, <1>6, CompleteFull, Zenon

LEMMA UnsubackFull ==
    ASSUME NEW v, NEW n \in Nat, Full(v, n), NEW msg
    PROVE  Full(HandleUnsuback(v, msg), n)
<1> DEFINE S == {j \in DOMAIN v.ops : /\ ~ v.ops[j].suspended
                                      /\ v.ops[j].type = "Unsubscribe" /\ v.ops[j].msgId = msg.msgId}
           i == FindIf(S)
<1>1. HandleUnsuback(v, msg) = IF i = 0 THEN v ELSE CompleteOpInternal(v, i, "Complete")
  BY Zenon DEF HandleUnsuback, Answered
<1>2. i # 0 => i \in DOMAIN v.ops
  BY Found, Zenon
<1> HIDE DEF i
<1> QED BY <1>1, <1>2, CompleteFull, Zenon

-----------------------------------------------------------------------------
(* Requests. *)

\* Request i is new: it has no packet ids yet.
Fresh(v, n, i) ==
    /\ Ready(v, n, i) /\ OwnedBy(v.ids, Range(v.ops))
    /\ v.ops[i].registerId = 0 /\ v.ops[i].msgId = 0

Prepare(v, req) == [v EXCEPT !.ops = Append(@, NewOp(req, First(v, Lane(req.type)) # 0))]

Request(req, key) == req.key = key /\ req.type \in Type /\ req.qos \in 0 .. 2

LEMMA FreshOwned ==
    ASSUME NEW v, NEW n, NEW i, Fresh(v, n, i)
    PROVE  OwnedBy(v.ids, Range(v.ops) \ {v.ops[i]})
<1>1. v.ops[i] \in Range(v.ops)
  BY SortedIs, Zenon DEF Fresh, Ready, Core
<1>2. OwnedBy(v.ids \ {v.ops[i].registerId, v.ops[i].msgId}, Range(v.ops) \ {v.ops[i]})
  BY <1>1, Disowning, Zenon DEF Fresh
<1>3. v.ids \subseteq 1 .. MaxPacketId
  BY Zenon DEF Fresh, OwnedBy
<1>4. v.ids \ {v.ops[i].registerId, v.ops[i].msgId} = v.ids
  BY <1>3 DEF Fresh
<1> QED BY <1>2, <1>4, Zenon

\* A request is the last of its lane, and waits if it is not the only one.
LEMMA LastOfLane ==
    ASSUME NEW R, NEW x, NEW lane, \A z \in R : z.key \in Nat, x.key \in Nat, \A z \in R : z.key < x.key,
           In(x, lane), ~ x.timed,
           x.suspended <=> \E z \in R : In(z, lane), Settled(R, lane)
    PROVE  x.suspended => Settled(R \cup {x}, lane)
<1> SUFFICES ASSUME x.suspended PROVE Settled(R \cup {x}, lane)
  BY Zenon
<1>1. ASSUME NEW z \in R
      PROVE  (\E b \in R \cup {x} : In(b, lane) /\ b.key < z.key) <=> (\E b \in R : In(b, lane) /\ b.key < z.key)
  BY <1>1
<1>2. \E b \in R \cup {x} : In(b, lane) /\ b.key < x.key
  BY Zenon
<1> QED BY <1>1, <1>2, Zenon DEF Settled

IsNew(x, req, n, b) ==
    /\ IsOp(x) /\ x.key = n /\ x.type = req.type /\ x.registerId = 0 /\ x.msgId = 0
    /\ x.timed = FALSE /\ x.suspended = b

LEMMA NewOpIs ==
    ASSUME NEW n, n \in Nat, NEW req, Request(req, n), NEW b, b \in BOOLEAN
    PROVE  IsNew(NewOp(req, b), req, n, b)
<1> DEFINE x == NewOp(req, b)
<1>1. /\ DOMAIN x = OpField /\ x.key = req.key /\ x.type = req.type /\ x.qos = req.qos
      /\ x.stage = "Publish" /\ x.registerId = 0 /\ x.msgId = 0 /\ x.timed = FALSE /\ x.suspended = b
  BY Zenon DEF NewOp, OpField
<1>2. req.key = n /\ req.type \in Type /\ req.qos \in 0 .. 2
  BY Zenon DEF Request
<1>3. 0 \in Nat
  BY Zenon
<1> HIDE DEF x
<1> QED BY <1>1, <1>2, <1>3, Zenon DEF IsNew, IsOp, x

LEMMA PrepareFresh ==
    ASSUME NEW v, NEW n \in Nat, Full(v, n), NEW req, Request(req, n + 1)
    PROVE  LET w == Prepare(v, req)
           IN Fresh(w, n + 1, Len(w.ops)) /\ w.ops[Len(w.ops)].type = req.type
<1> DEFINE lane == Lane(req.type)
           b == First(v, lane) # 0
           x == NewOp(req, b)
           w == Prepare(v, req)
           R == Range(v.ops)
           i == Len(w.ops)
<1>0. n + 1 \in Nat /\ req.type \in Type
  BY DEF Request
<1>1. /\ IsOp(x) /\ x.key = n + 1 /\ x.type = req.type /\ x.registerId = 0 /\ x.msgId = 0
      /\ x.timed = FALSE /\ x.suspended = b
  <2>1. b \in BOOLEAN
    BY Zenon
  <2> HIDE DEF b
  <2>2. IsNew(x, req, n + 1, b)
    BY <1>0, <2>1, NewOpIs, Zenon
  <2> QED BY <2>2, Zenon DEF IsNew
<1>2. /\ DOMAIN v = Field /\ Sorted(v.ops) /\ Len(v.ops) <= n
      /\ \A y \in R : y.key <= n
  BY Zenon DEF Full, Core
<1>3. /\ OwnedBy(v.ids, R) /\ \A other \in Lanes : Settled(R, other)
  BY Zenon DEF Full
<1>4. DOMAIN w = Field /\ w.ops = Append(v.ops, x) /\ w.ids = v.ids
  BY <1>2, Zenon DEF Field, Prepare
<1> HIDE DEF w, x
<1>5. \A y \in R : y.key \in Nat /\ y.key < x.key
  <2>1. \A y \in R : y.key \in Nat
    BY <1>2, Zenon DEF Sorted, IsOp
  <2>2. \A j \in Nat : j <= n => j < n + 1
    OBVIOUS
  <2> QED BY <1>1, <1>2, <2>1, <2>2, Zenon
<1>6. /\ Sorted(w.ops) /\ Range(w.ops) = R \cup {x} /\ Len(w.ops) = Len(v.ops) + 1 /\ w.ops[i] = x
      /\ x \notin R
  <2>1. \A y \in Range(v.ops) : y.key < x.key
    BY <1>5, Zenon
  <2>2. /\ Sorted(Append(v.ops, x)) /\ Range(Append(v.ops, x)) = Range(v.ops) \cup {x}
        /\ Len(Append(v.ops, x)) = Len(v.ops) + 1 /\ Append(v.ops, x)[Len(Append(v.ops, x))] = x
        /\ x \notin Range(v.ops)
    BY <1>1, <1>2, <2>1, Appended, Zenon
  <2> QED BY <1>4, <2>2, Zenon
<1>7. Len(v.ops) \in Nat /\ i \in DOMAIN w.ops
  <2>1. Len(v.ops) \in Nat
    BY <1>2, SortedIs, Zenon
  <2>2. DOMAIN w.ops = 1 .. Len(w.ops)
    BY <1>6, SortedIs, Zenon
  <2>3. i \in 1 .. Len(v.ops) + 1
    <3>1. i = Len(v.ops) + 1
      BY <1>6, Zenon
    <3> QED BY <2>1, <3>1
  <2> QED BY <1>6, <2>1, <2>2, <2>3, Zenon
<1>8. Core(w, n + 1)
  <2>1. Len(v.ops) + 1 <= n + 1
    BY <1>2, <1>7
  <2>2. \A y \in R : y.key <= n + 1
    <3>1. \A j \in Nat : j <= n => j <= n + 1
      OBVIOUS
    <3> QED BY <1>2, <1>5, <3>1, Zenon
  <2>3. x.key <= n + 1
    <3>1. n + 1 <= n + 1
      OBVIOUS
    <3> QED BY <1>1, <3>1, Zenon
  <2> QED BY <1>4, <1>6, <2>1, <2>2, <2>3, Zenon DEF Core
<1>9. lane \in Lanes /\ In(x, lane) /\ \A other \in Lanes : other # lane => ~ In(x, other)
  BY <1>0, <1>1, Zenon DEF Lane, Lanes, In, Type
<1>10. x.suspended <=> \E z \in R : In(z, lane)
  <2>1. /\ First(v, lane) = 0 => \A z \in R : ~ In(z, lane)
        /\ First(v, lane) # 0 => First(v, lane) \in DOMAIN v.ops /\ In(v.ops[First(v, lane)], lane)
    BY <1>2, FirstIs, Zenon
  <2>2. \A j \in DOMAIN v.ops : v.ops[j] \in R
    BY <1>2, SortedIs, Zenon
  <2> QED BY <1>1, <2>1, <2>2, Zenon
<1> HIDE DEF R
<1>11. Elsewhere(R \cup {x}, lane)
  <2> SUFFICES ASSUME NEW other \in Lanes, other # lane PROVE Settled(R \cup {x}, other)
    BY Zenon DEF Elsewhere
  <2>1. ~ In(x, other) /\ Settled(R, other)
    BY <1>3, <1>9, Zenon
  <2> QED BY <2>1, Zenon DEF Settled
<1>12. LaneReady(R \cup {x}, x)
  <2>0. Lane(x.type) = lane
    BY <1>1, Zenon
  <2>1. CASE x.suspended
    <3>1. Settled(R, lane)
      BY <1>3, <1>9, Zenon
    <3>2. Settled(R \cup {x}, lane)
      <4> HIDE DEF lane
      <4> QED BY <1>1, <1>5, <1>9, <1>10, <2>1, <3>1, LastOfLane, SMTT(30)
    <3> QED BY <2>0, <2>1, <3>2, Zenon DEF LaneReady
  <2>2. CASE ~ x.suspended
    BY <1>10, <2>0, <2>2, Zenon DEF LaneReady
  <2> QED BY <2>1, <2>2, Zenon
<1>13. OwnedBy(v.ids, R \cup {x})
  <2>1. IdsOf(x) = {}
    BY <1>1, Zenon DEF IdsOf
  <2>2. OwnedBy(v.ids \cup {}, R \cup {x})
    BY <1>3, <2>1, Owning, Zenon
  <2> QED BY <2>2, Zenon
<1>14. Ready(w, n + 1, i)
  BY <1>1, <1>6, <1>7, <1>8, <1>11, <1>12, Zenon DEF Ready
<1>15. Fresh(w, n + 1, i)
  BY <1>1, <1>4, <1>6, <1>13, <1>14, Zenon DEF Fresh
<1> QED BY <1>1, <1>6, <1>15, Zenon DEF w

\* A subscribe or unsubscribe request takes a packet id, whatever its QoS.
LEMMA MsgIdReady ==
    ASSUME NEW v, NEW n \in Nat, n <= MaxRequests, NEW i, Fresh(v, n, i), v.ops[i].type # "Send"
    PROVE  LET a == AllocPacketId(v)
               r == [a EXCEPT !.ops[i].msgId = a.lastId]
           IN Ready(r, n, i) /\ OwnedBy(r.ids, Range(r.ops))
<1> DEFINE a == AllocPacketId(v)
           r == [a EXCEPT !.ops[i].msgId = a.lastId]
<1>1. Ready(v, n, i) /\ OwnedBy(v.ids, Range(v.ops) \ {v.ops[i]}) /\ v.ops[i].registerId = 0
  BY FreshOwned, Zenon DEF Fresh
<1>2. Core(v, n) /\ Sorted(v.ops) /\ DOMAIN v = Field /\ i \in DOMAIN v.ops
  BY <1>1, Zenon DEF Ready, Core
<1>3. IsOp(v.ops[i])
  BY <1>2, SortedIs, Zenon
<1>4. Len(v.ops) <= MaxRequests
  BY <1>2, SortedIs, UpstreamAssumption DEF Core
<1>5. PICK p \in Free(v.ids) : TRUE
  <2>1. \E p, q \in (1 .. MaxPacketId) \ v.ids : p # q
    BY <1>1, <1>2, <1>4, Room, SMTT(30)
  <2> QED BY <2>1, Zenon DEF Free
<1>6. a.lastId \in Free(v.ids) /\ Got(r, v, i, "msgId", a.lastId)
  BY <1>2, <1>5, GotMsgId, Zenon
<1> HIDE DEF a, r
<1>7. \E y : Given(r, v, i, y)
  BY <1>1, <1>2, <1>3, <1>6, MsgIdGiven, Zenon
<1>8. Ready(r, n, i) /\ OwnedBy(r.ids, Range(r.ops))
  BY <1>1, <1>7, GivenReady, Zenon
<1> QED BY <1>8, Zenon DEF r, a

LEMMA SubscribeFull ==
    ASSUME NEW v, NEW n \in Nat, n <= MaxRequests, NEW i, Fresh(v, n, i), v.ops[i].type # "Send"
    PROVE  Full(SubscribeSend(v, i), n)
<1> DEFINE a == AllocPacketId(v)
           r == [a EXCEPT !.ops[i].msgId = a.lastId]
<1>1. Ready(r, n, i) /\ OwnedBy(r.ids, Range(r.ops))
  BY MsgIdReady, Zenon
<1>2. SubscribeSend(v, i) = SendInternal(r, i)
  BY Zenon DEF SubscribeSend
<1> HIDE DEF r
<1> QED BY <1>1, <1>2, SendInternalFull, Zenon

LEMMA UnsubscribeFull ==
    ASSUME NEW v, NEW n \in Nat, n <= MaxRequests, NEW i, Fresh(v, n, i), v.ops[i].type # "Send"
    PROVE  Full(UnsubscribeSend(v, i), n)
<1> DEFINE a == AllocPacketId(v)
           r == [a EXCEPT !.ops[i].msgId = a.lastId]
           topic == v.ops[i].topic
           d == SendInternal(r, i)
           e == RemoveInRegTopic(d, NamedBy(topic))
           w == [e EXCEPT !.filters = @ \ ({topic} \cap DOMAIN Predefined)]
<1>1. Ready(r, n, i) /\ OwnedBy(r.ids, Range(r.ops))
  BY MsgIdReady, Zenon
<1>2. UnsubscribeSend(v, i) = w
  BY Zenon DEF UnsubscribeSend
<1> HIDE DEF r
<1>3. Full(d, n)
  BY <1>1, SendInternalFull, Zenon
<1> HIDE DEF d
<1>4. DOMAIN d = Field
  BY <1>3, Zenon DEF Full, Core
<1>5. DOMAIN e = Field /\ e.ops = d.ops /\ e.ids = d.ids
  BY <1>4, Zenon DEF Field, RemoveInRegTopic
<1> HIDE DEF e
<1>6. DOMAIN w = Field /\ w.ops = d.ops /\ w.ids = d.ids
  BY <1>5, Zenon DEF Field
<1> HIDE DEF w
<1>7. Full(w, n)
  BY <1>3, <1>6, FullSame, Zenon
<1> QED BY <1>2, <1>7, Zenon

\* In w publish i of v has a topic id, or registers its topic first.
Named(w, v, i, id, stage) ==
    /\ stage \in {"Register", "Publish"} /\ DOMAIN w = Field
    /\ w.ops = [v.ops EXCEPT ![i] = [v.ops[i] EXCEPT !.topicId = id, !.stage = stage]]
    /\ w.ids = v.ids

LEMMA PublishConfigIs ==
    ASSUME NEW v, DOMAIN v = Field, NEW i
    PROVE  \E id, stage : Named(PublishConfig(v, i), v, i, id, stage)
<1> DEFINE topic == v.ops[i].topic
           own == topic \in DOMAIN v.outReg
           named == NamedBy(topic)
           id == CASE named.topicId # 0 -> named.topicId
                   [] named.topicId = 0 /\ own -> v.outReg[topic]
                   [] named.topicId = 0 /\ ~ own -> FindInRegTopicId(v, topic)
           d == IF named.topicId # 0 \/ own \/ id = 0 THEN v ELSE StoreOutRegTopic(v, topic, id)
           stage == IF id = 0 THEN "Register" ELSE "Publish"
           w == [d EXCEPT !.ops[i].topicId = id, !.ops[i].stage = stage]
<1>1. PublishConfig(v, i) = w
  BY Zenon DEF PublishConfig
<1> HIDE DEF id, named, own, topic
<1>2. DOMAIN d = Field /\ d.ops = v.ops /\ d.ids = v.ids
  BY Zenon DEF Field, StoreOutRegTopic
<1>3. stage \in {"Register", "Publish"}
  BY Zenon
<1> HIDE DEF d, stage
<1>4. /\ DOMAIN w = Field /\ w.ids = d.ids
      /\ w.ops = [d.ops EXCEPT ![i] = [d.ops[i] EXCEPT !.topicId = id, !.stage = stage]]
  BY <1>2, ZenonT(30) DEF Field
<1> HIDE DEF w
<1>5. Named(w, v, i, id, stage)
  BY <1>2, <1>3, <1>4, Zenon DEF Named
<1> QED BY <1>1, <1>5, Zenon

\* A publish keeps waiting, or is sent with the packet ids it needs.
LEMMA PublishFull ==
    ASSUME NEW v, NEW n \in Nat, n <= MaxRequests, NEW i, Fresh(v, n, i), v.ops[i].type = "Send"
    PROVE  Full(PublishSend(PublishConfig(v, i), i), n)
<1> DEFINE x == v.ops[i]
           w == PublishConfig(v, i)
<1>1. Ready(v, n, i) /\ OwnedBy(v.ids, Range(v.ops)) /\ x.registerId = 0 /\ x.msgId = 0
  BY Zenon DEF Fresh
<1>2. Core(v, n) /\ Sorted(v.ops) /\ DOMAIN v = Field /\ i \in DOMAIN v.ops
  BY <1>1, Zenon DEF Ready, Core
<1>3. IsOp(x)
  BY <1>2, SortedIs, Zenon
<1>40. PICK id, stage : Named(w, v, i, id, stage)
  BY <1>2, PublishConfigIs, Zenon
<1>4. /\ stage \in {"Register", "Publish"} /\ DOMAIN w = Field
      /\ w.ops = [v.ops EXCEPT ![i] = [x EXCEPT !.topicId = id, !.stage = stage]]
      /\ w.ids = v.ids
  BY <1>40, Zenon DEF Named
<1> DEFINE y == [x EXCEPT !.topicId = id, !.stage = stage]
<1>5. Same(y, x) /\ y.registerId = 0 /\ y.msgId = 0 /\ y.type = "Send"
  <2>1. Keeps(y, x) /\ y.registerId = x.registerId /\ y.msgId = x.msgId /\ y.type = x.type
    BY <1>3, <1>4, Zenon DEF Keeps, IsOp, OpField
  <2> HIDE DEF y
  <2> QED BY <1>1, <2>1, SameIds, Zenon DEF Same
<1> HIDE DEF w
<1>6. Changed(w, v, i, y) /\ w.ids = v.ids
  <2> HIDE DEF x
  <2> QED BY <1>2, <1>4, Zenon DEF Changed
<1> HIDE DEF y
<1>7. Ready(w, n, i) /\ OwnedBy(w.ids, Range(w.ops)) /\ w.ops[i] = y
  BY <1>1, <1>5, <1>6, ChangedReady
<1>8. Fresh(w, n, i)
  BY <1>5, <1>7, Zenon DEF Fresh
<1>9. OwnedBy(w.ids, Range(w.ops) \ {w.ops[i]})
  BY <1>8, FreshOwned, Zenon
<1> DEFINE r == AllocPacketIdsInternal(w, i)
<1>10. Ready(r, n, i) /\ OwnedBy(r.ids, Range(r.ops))
  BY <1>5, <1>7, <1>9, AllocReady, Zenon
<1>11. PublishSend(w, i) = SendInternal(r, i)
  BY Zenon DEF PublishSend
<1> HIDE DEF r
<1> QED BY <1>10, <1>11, SendInternalFull, Zenon DEF w

-----------------------------------------------------------------------------
(* The steps of the system. *)

LEMMA SeqOfAny ==
    ASSUME NEW T, NEW s \in Seq(T)
    PROVE  /\ s \in Seq(Range(s)) /\ Range(s) \subseteq T /\ DOMAIN s = 1 .. Len(s) /\ Len(s) \in Nat
           /\ \A i \in DOMAIN s : s[i] \in Range(s)
           /\ \A x \in Range(s) : \E i \in DOMAIN s : x = s[i]
<1>1. Len(s) \in Nat /\ DOMAIN s = 1 .. Len(s) /\ s \in [1 .. Len(s) -> T]
  OBVIOUS
<1>2. s \in [1 .. Len(s) -> Range(s)] /\ Range(s) \subseteq T
  BY <1>1, RangeIs, Zenon
<1>3. s \in Seq(Range(s))
  BY <1>1, <1>2, IsSeq, Zenon
<1> QED BY <1>1, <1>2, <1>3, RangeIs, Zenon

LEMMA Lengthened ==
    ASSUME NEW s, s \in Seq(Range(s)), NEW m
    PROVE  LET r == Append(s, m) IN r \in Seq(Range(r)) /\ Range(r) \subseteq Range(s) \cup {m}
<1> DEFINE r == Append(s, m)
           R == Range(s)
           T == R \cup {m}
<1>1. s \in Seq(R) /\ R \subseteq T /\ m \in T
  BY Zenon
<1> HIDE DEF R, T
<1>2. s \in Seq(T)
  <2>1. Seq(R) \subseteq Seq(T)
    BY <1>1
  <2> QED BY <1>1, <2>1, Zenon
<1>3. r \in Seq(T)
  BY <1>1, <1>2
<1> HIDE DEF r
<1>4. r \in Seq(Range(r)) /\ Range(r) \subseteq T
  BY <1>3, SeqOfAny, Zenon
<1> QED BY <1>4, Zenon DEF r, T, R

LEMMA Emptied == << >> \in Seq(Range(<< >>)) /\ Range(<< >>) = {}
<1>1. << >> \in Seq(Nat) /\ Len(<< >>) = 0
  OBVIOUS
<1>2. << >> \in Seq(Range(<< >>)) /\ DOMAIN << >> = 1 .. Len(<< >>)
  BY <1>1, SeqOfAny, Zenon
<1>3. DOMAIN << >> = {}
  BY <1>1, <1>2
<1>4. Range(<< >>) = {}
  BY <1>3, RangeIs, Zenon
<1> QED BY <1>2, <1>4, Zenon

\* The requests under way are among those asked for.
Inv ==
    /\ Full(u, Len(asked)) /\ menu \in Menus
    /\ asked \in Seq(Range(asked)) /\ Len(asked) <= MaxRequests

LEMMA InvIs ==
    ASSUME Inv
    PROVE  Full(u, Len(asked)) /\ Len(asked) \in Nat /\ Len(asked) <= MaxRequests
BY SeqOfAny, Zenon DEF Inv

\* What a step of the client leaves behind, if a handler of it leaves v.
LEMMA ClientStepFull ==
    ASSUME NEW v, NEW before, NEW n, Full(v, n), ClientStep(v, before)
    PROVE  Full(u', n)
<1>1. DOMAIN v = Field
  BY Zenon DEF Full, Core
<1>2. u' = [v EXCEPT !.out = << >>, !.done = << >>]
  BY Zenon DEF ClientStep
<1>3. DOMAIN u' = Field /\ u'.ops = v.ops /\ u'.ids = v.ids
  BY <1>1, <1>2, Zenon DEF Field
<1> QED BY <1>3, FullSame, Zenon

\* The client's steps that are no requests.
LEMMA ClientInv ==
    ASSUME Inv, NEW v, Full(v, Len(asked)), ClientStep(v, result), UNCHANGED <<menu, asked>>
    PROVE  Inv'
<1>1. Full(u', Len(asked))
  BY ClientStepFull, Zenon
<1> QED BY <1>1, Zenon DEF Inv

LEMMA CancelInv ==
    ASSUME Inv, NEW i \in DOMAIN u.ops, CancelOp(i)
    PROVE  Inv'
<1>1. Full(u, Len(asked)) /\ Len(asked) \in Nat
  BY InvIs, Zenon
<1>2. Full(Cancel(u, i), Len(asked))
  BY <1>1, CompleteFull, Zenon DEF Cancel
<1>3. ClientStep(Cancel(u, i), result) /\ UNCHANGED <<menu, asked>>
  BY Zenon DEF CancelOp
<1> QED BY <1>1, <1>2, <1>3, ClientInv, Zenon

\* A request whose timer runs is under way.
LEMMA TimeoutInv ==
    ASSUME Inv, NEW type \in {"Send", "Subscribe"}, Timeout(Lane(type))
    PROVE  Inv'
<1> DEFINE lane == Lane(type)
           i == First(u, lane)
<1>1. Full(u, Len(asked)) /\ Len(asked) \in Nat
  BY InvIs, Zenon
<1>2. /\ i # 0 /\ u.ops[i].timed /\ ClientStep(TimeoutInternal(u, i), result)
      /\ UNCHANGED <<menu, asked>>
  BY Zenon DEF Timeout
<1>3. Sorted(u.ops) /\ Settled(Range(u.ops), lane)
  BY <1>1, Zenon DEF Full, Core, Lanes
<1>4. i \in DOMAIN u.ops /\ In(u.ops[i], lane)
  BY <1>2, <1>3, FirstIs, Zenon
<1> HIDE DEF i, lane
<1>5. ~ u.ops[i].suspended
  <2>1. u.ops[i] \in Range(u.ops)
    BY <1>3, <1>4, SortedIs, Zenon
  <2> QED BY <1>2, <1>3, <1>4, <2>1, Zenon DEF Settled
<1>6. Full(TimeoutInternal(u, i), Len(asked))
  BY <1>1, <1>4, <1>5, TimeoutFull, Zenon
<1> QED BY <1>1, <1>2, <1>6, ClientInv, Zenon

\* A request is made.
LEMMA AsksInv ==
    ASSUME Inv, NEW full, Len(asked) + 1 <= MaxRequests, asked' = Append(asked, full),
           NEW v, NEW before, Full(v, Len(asked) + 1), ClientStep(v, before), menu' = menu
    PROVE  Inv'
<1>1. asked' \in Seq(Range(asked'))
  BY Lengthened, Zenon DEF Inv
<1>2. Len(asked') = Len(asked) + 1
  BY DEF Inv
<1>3. Full(u', Len(asked) + 1)
  BY ClientStepFull, Zenon
<1> QED BY <1>1, <1>2, <1>3, Zenon DEF Inv

LEMMA RequestIs ==
    ASSUME Inv, NEW req \in menu
    PROVE  /\ req.type \in Type /\ req.qos \in 0 .. 2
           /\ \A key, n : Request([key |-> key, type |-> req.type, n |-> n, topic |-> req.topic,
                                   qos |-> req.qos], key)
<1>1. req \in [type : Type, topic : Topic, qos : 0 .. 2]
  BY UpstreamAssumption, Zenon DEF Inv, Type
<1>2. req.type \in Type /\ req.qos \in 0 .. 2
  BY <1>1, Zenon
<1> QED BY <1>2, Zenon DEF Request

LEMMA PublishInv ==
    ASSUME Inv, NEW req \in menu, Publish(req)
    PROVE  Inv'
<1> DEFINE n == Len(asked) + 1
           full == [key |-> n, type |-> req.type, n |-> Len(sent) + 1, topic |-> req.topic, qos |-> req.qos]
           w == PublishPrepare(u, full)
           i == Len(w.ops)
           v == PublishSend(PublishConfig(w, i), i)
<1>1. /\ req.type = "Send" /\ n <= MaxRequests /\ asked' = Append(asked, full)
      /\ ClientStep(v, Append(result, "none")) /\ menu' = menu
  BY Zenon DEF Publish, Asks
<1>2. Full(u, Len(asked)) /\ Len(asked) \in Nat
  BY InvIs, Zenon
<1>3. n \in Nat
  BY <1>2
<1>4. Request(full, n) /\ full.type = "Send"
  BY <1>1, RequestIs, Zenon
<1> HIDE DEF full
<1>5. w = Prepare(u, full)
  BY <1>4, Zenon DEF PublishPrepare, Prepare, Lane
<1>6. Fresh(w, n, i) /\ w.ops[i].type = "Send"
  BY <1>2, <1>4, <1>5, PrepareFresh, SMTT(30)
<1> HIDE DEF w, i
<1>7. Full(v, n)
  BY <1>1, <1>3, <1>6, PublishFull, Zenon
<1> HIDE DEF v
<1> QED BY <1>1, <1>7, AsksInv, Zenon

LEMMA SubscribeInv ==
    ASSUME Inv, NEW req \in menu, Subscribe(req)
    PROVE  Inv'
<1> DEFINE n == Len(asked) + 1
           full == [key |-> n, type |-> req.type, n |-> Len(sent) + 1, topic |-> req.topic, qos |-> req.qos]
           w == SubscribePrepare(u, full)
           i == Len(w.ops)
           v == SubscribeSend(w, i)
<1>1. /\ req.type = "Subscribe" /\ n <= MaxRequests /\ asked' = Append(asked, full)
      /\ ClientStep(v, Append(result, "none")) /\ menu' = menu
  BY Zenon DEF Subscribe, Asks
<1>2. Full(u, Len(asked)) /\ Len(asked) \in Nat
  BY InvIs, Zenon
<1>3. n \in Nat
  BY <1>2
<1>4. Request(full, n) /\ full.type = "Subscribe"
  BY <1>1, RequestIs, Zenon
<1> HIDE DEF full
<1>5. w = Prepare(u, full)
  BY <1>4, Zenon DEF SubscribePrepare, Prepare
<1>6. Fresh(w, n, i) /\ w.ops[i].type # "Send"
  BY <1>2, <1>4, <1>5, PrepareFresh, SMTT(30)
<1> HIDE DEF w, i
<1>7. Full(v, n)
  BY <1>1, <1>3, <1>6, SubscribeFull, Zenon
<1> HIDE DEF v
<1> QED BY <1>1, <1>7, AsksInv, Zenon

LEMMA UnsubscribeInv ==
    ASSUME Inv, NEW req \in menu, Unsubscribe(req)
    PROVE  Inv'
<1> DEFINE n == Len(asked) + 1
           full == [key |-> n, type |-> req.type, n |-> Len(sent) + 1, topic |-> req.topic, qos |-> req.qos]
           w == UnsubscribePrepare(u, full)
           i == Len(w.ops)
           v == UnsubscribeSend(w, i)
<1>1. /\ req.type = "Unsubscribe" /\ n <= MaxRequests /\ asked' = Append(asked, full)
      /\ ClientStep(v, Append(result, "none")) /\ menu' = menu
  BY Zenon DEF Unsubscribe, Asks
<1>2. Full(u, Len(asked)) /\ Len(asked) \in Nat
  BY InvIs, Zenon
<1>3. n \in Nat
  BY <1>2
<1>4. Request(full, n) /\ full.type = "Unsubscribe"
  BY <1>1, RequestIs, Zenon
<1> HIDE DEF full
<1>5. w = Prepare(u, full)
  BY <1>4, Zenon DEF UnsubscribePrepare, Prepare
<1>6. Fresh(w, n, i) /\ w.ops[i].type # "Send"
  BY <1>2, <1>4, <1>5, PrepareFresh, SMTT(30)
<1> HIDE DEF w, i
<1>7. Full(v, n)
  BY <1>1, <1>3, <1>6, UnsubscribeFull, Zenon
<1> HIDE DEF v
<1> QED BY <1>1, <1>7, AsksInv, Zenon

LEMMA ClientReceiveInv ==
    ASSUME Inv, ClientReceive
    PROVE  Inv'
<1> DEFINE msg == Head(toClient)
           n == Len(asked)
           v == CASE msg.type = "REGACK" -> HandleRegack(u, msg)
                  [] msg.type = "PUBACK" -> HandlePuback(u, msg)
                  [] msg.type = "PUBREC" -> HandlePubrec(u, msg)
                  [] msg.type = "PUBCOMP" -> HandlePubcomp(u, msg)
                  [] msg.type = "SUBACK" -> HandleSuback(u, msg)
                  [] msg.type = "UNSUBACK" -> HandleUnsuback(u, msg)
                  [] OTHER -> u
<1>1. ClientStep(v, result) /\ UNCHANGED <<menu, asked>>
  BY Zenon DEF ClientReceive
<1>2. Full(u, n) /\ n \in Nat /\ n <= MaxRequests
  BY InvIs, Zenon
<1> HIDE DEF msg, n
<1>4. Full(v, n)
  <2>1. CASE msg.type = "REGACK"
    <3>1. v = HandleRegack(u, msg)
      BY <2>1, Zenon
    <3> QED BY <1>2, <3>1, RegackFull, Zenon
  <2>2. CASE msg.type = "PUBACK"
    <3>1. v = HandlePuback(u, msg)
      BY <2>2, Zenon
    <3> QED BY <1>2, <3>1, PubackFull, Zenon
  <2>3. CASE msg.type = "PUBREC"
    <3>1. v = HandlePubrec(u, msg)
      BY <2>3, Zenon
    <3> QED BY <1>2, <3>1, PubrecFull, Zenon
  <2>4. CASE msg.type = "PUBCOMP"
    <3>1. v = HandlePubcomp(u, msg)
      BY <2>4, Zenon
    <3> QED BY <1>2, <3>1, PubcompFull, Zenon
  <2>5. CASE msg.type = "SUBACK"
    <3>1. v = HandleSuback(u, msg)
      BY <2>5, Zenon
    <3> QED BY <1>2, <3>1, SubackFull, Zenon
  <2>6. CASE msg.type = "UNSUBACK"
    <3>1. v = HandleUnsuback(u, msg)
      BY <2>6, Zenon
    <3> QED BY <1>2, <3>1, UnsubackFull, Zenon
  <2>7. CASE msg.type \notin {"REGACK", "PUBACK", "PUBREC", "PUBCOMP", "SUBACK", "UNSUBACK"}
    <3>1. v = u
      BY <2>7, Zenon
    <3> QED BY <1>2, <3>1, Zenon
  <2> HIDE DEF v
  <2> QED BY <2>1, <2>2, <2>3, <2>4, <2>5, <2>6, <2>7, Zenon
<1> HIDE DEF v
<1> QED BY <1>1, <1>4, ClientInv, Zenon DEF n

\* Nothing that happens to the gateway, the broker and the network is a step of the client.
LEMMA ElsewhereInv ==
    ASSUME Inv, \/ GwReceive \/ GwFromBroker \/ LoseDatagram
                \/ \E id \in DOMAIN g.reg : GwForget(id)
                \/ GwRestart \/ BrokerAway \/ BrokerBack
    PROVE  Inv'
<1>1. UNCHANGED <<u, menu, asked>>
  BY Zenon DEF GwReceive, GwFromBroker, LoseDatagram, GwForget, GwRestart, BrokerAway, BrokerBack, requests
<1> QED BY <1>1, Zenon DEF Inv

LEMMA InitInv ==
    ASSUME Init
    PROVE  Inv
<1>1. asked = << >> /\ menu \in Menus
  BY Zenon DEF Init
<1>2. PICK named, last : u = [InitClient(last) EXCEPT !.filters = Subscribed, !.inReg = named]
  BY Zenon DEF Init
<1>3. DOMAIN u = Field /\ u.ops = << >> /\ u.ids = {}
  BY <1>2, Zenon DEF InitClient, Field
<1>4. Range(<< >>) = {} /\ << >> \in Seq(Range(<< >>)) /\ DOMAIN << >> = {} /\ Len(<< >>) = 0
  <2>1. DOMAIN << >> = {} /\ Len(<< >>) = 0
    OBVIOUS
  <2> QED BY <2>1, Emptied, Zenon
<1>5. 0 <= MaxRequests /\ 0 <= 0
  BY UpstreamAssumption
<1>6. Core(u, 0)
  BY <1>3, <1>4, <1>5, Zenon DEF Core, Sorted
<1>7. OwnedBy({}, {}) /\ \A lane \in Lanes : Settled({}, lane)
  BY Zenon DEF OwnedBy, Settled
<1>8. Full(u, 0)
  BY <1>3, <1>4, <1>6, <1>7, Zenon DEF Full
<1> QED BY <1>1, <1>4, <1>5, <1>8, Zenon DEF Inv

LEMMA NextInv ==
    ASSUME Inv, [Next]_vars
    PROVE  Inv'
<1>1. ASSUME NEW req \in menu, Publish(req) \/ Subscribe(req) \/ Unsubscribe(req) PROVE Inv'
  BY <1>1, PublishInv, SubscribeInv, UnsubscribeInv, Zenon
<1>2. ASSUME NEW i \in DOMAIN u.ops, CancelOp(i) PROVE Inv'
  BY <1>2, CancelInv, Zenon
<1>3. ASSUME NEW type \in {"Send", "Subscribe"}, Timeout(Lane(type)) PROVE Inv'
  BY <1>3, TimeoutInv, Zenon
<1>4. UNCHANGED vars => Inv'
  BY Zenon DEF Inv, vars, requests
<1> QED BY <1>1, <1>2, <1>3, <1>4, ClientReceiveInv, ElsewhereInv, Zenon DEF Next

LEMMA InvHolds == Spec => []Inv
<1>1. Init => Inv
  BY InitInv, Zenon
<1>2. Inv /\ [Next]_vars => Inv'
  BY NextInv, Zenon
<1> QED BY <1>1, <1>2, PTL DEF Spec

LEMMA InvOneAtATime ==
    ASSUME Inv
    PROVE  OneAtATime
<1> DEFINE s == u.ops
           R == Range(s)
<1>1. Sorted(s) /\ \A lane \in Lanes : Settled(R, lane)
  BY Zenon DEF Inv, Full, Core
<1>2. /\ \A i \in DOMAIN s : s[i] \in R /\ IsOp(s[i])
      /\ \A i, j \in DOMAIN s : s[i].key = s[j].key => i = j
      /\ \A x \in R : IsOp(x)
  BY <1>1, SortedIs, Zenon DEF Sorted
<1> SUFFICES ASSUME NEW i \in DOMAIN s
             PROVE  LET oldest == i = First(u, Lane(s[i].type))
                    IN s[i].suspended = ~ oldest /\ s[i].timed = oldest
  BY Zenon DEF OneAtATime
<1> DEFINE x == s[i]
           lane == Lane(x.type)
           f == First(u, lane)
<1>3. x \in R /\ lane \in Lanes /\ In(x, lane) /\ x.suspended \in BOOLEAN /\ x.timed \in BOOLEAN
  BY <1>2, Zenon DEF Lane, Lanes, In, IsOp, Type
<1>4. /\ x.suspended <=> \E y \in R : In(y, lane) /\ y.key < x.key
      /\ x.timed <=> ~ x.suspended
  BY <1>1, <1>3, Zenon DEF Settled
<1>5. /\ f \in DOMAIN s /\ In(s[f], lane)
      /\ \A z \in R : In(z, lane) /\ z # s[f] => s[f].key < z.key
  <2>1. /\ f = 0 => \A z \in R : ~ In(z, lane)
        /\ f # 0 => /\ f \in DOMAIN s /\ In(s[f], lane)
                    /\ \A z \in R : In(z, lane) /\ z # s[f] => s[f].key < z.key
    BY <1>1, FirstIs, Zenon
  <2> QED BY <1>3, <2>1, Zenon
<1> HIDE DEF f, lane, R, x
<1>6. \A y, z \in R : y.key < z.key => y # z /\ ~ (z.key < y.key)
  <2>1. \A a, b \in Nat : a < b => a # b /\ ~ (b < a)
    OBVIOUS
  <2>2. \A y \in R : y.key \in Nat
    BY <1>2, Zenon DEF IsOp
  <2> QED BY <2>1, <2>2, Zenon
<1>7. CASE i = f
  <2>1. ~ x.suspended
    BY <1>3, <1>4, <1>5, <1>6, <1>7, Zenon DEF x
  <2> QED BY <1>3, <1>4, <1>7, <2>1, Zenon DEF x, f, lane
<1>8. CASE i # f
  <2>1. s[f] # x /\ s[f] \in R
    BY <1>2, <1>5, <1>8, Zenon DEF x
  <2>2. x.suspended
    BY <1>3, <1>4, <1>5, <2>1, Zenon
  <2> QED BY <1>3, <1>4, <1>8, <2>2, Zenon DEF x, f, lane
<1> QED BY <1>7, <1>8, Zenon

\* The client library has one publish and one subscribe or unsubscribe request under
\* way at a time, the oldest, with its timer running; all others wait.  No step of
\* the application, no answer and no timeout in any order leaves a lane without a
\* request under way, or with two: m_sendOps and the resumption in SendOp,
\* SubscribeOp and UnsubscribeOp.
THEOREM OneAtATimeHolds == Spec => []OneAtATime
<1>1. Inv => OneAtATime
  BY InvOneAtATime, Zenon
<1> QED BY <1>1, InvHolds, PTL

LEMMA InvPacketIdsOwned ==
    ASSUME Inv
    PROVE  PacketIdsOwned
<1> DEFINE s == u.ops
<1>1. Sorted(s) /\ OwnedBy(u.ids, Range(s))
  BY Zenon DEF Inv, Full, Core
<1>2. /\ \A i \in DOMAIN s : s[i] \in Range(s)
      /\ \A x \in Range(s) : \E i \in DOMAIN s : x = s[i]
      /\ \A i, j \in DOMAIN s : s[i].key = s[j].key => i = j
  BY <1>1, SortedIs, Zenon
<1>3. u.ids = UNION {IdsOf(s[i]) : i \in DOMAIN s}
  <2>1. \A k \in u.ids : \E i \in DOMAIN s : k \in IdsOf(s[i])
    BY <1>1, <1>2, Zenon DEF OwnedBy
  <2>2. \A i \in DOMAIN s : IdsOf(s[i]) \subseteq u.ids
    BY <1>1, <1>2, Zenon DEF OwnedBy
  <2> QED BY <2>1, <2>2, Zenon
<1>4. \A i, j \in DOMAIN s : i # j => IdsOf(s[i]) \cap IdsOf(s[j]) = {}
  <2>1. \A i, j \in DOMAIN s : i # j => s[i] # s[j]
    BY <1>2, Zenon
  <2> QED BY <1>1, <1>2, <2>1, Zenon DEF OwnedBy
<1> QED BY <1>3, <1>4, Zenon DEF PacketIdsOwned

\* The packet ids the client has allocated are those of its requests, and no two
\* requests share one: a request that ends or starts again releases exactly its own,
\* and allocPacketId always finds a free one (ClientImpl, SendOp).
THEOREM PacketIdsOwnedHolds == Spec => []PacketIdsOwned
<1>1. Inv => PacketIdsOwned
  BY InvPacketIdsOwned, Zenon
<1> QED BY <1>1, InvHolds, PTL
=============================================================================
