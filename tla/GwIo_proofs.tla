----------------------------- MODULE GwIo_proofs -----------------------------
(***************************************************************************)
(* Proofs about the sockets of a gateway session, for any number of        *)
(* messages, broken connections and datagrams.                             *)
(***************************************************************************)
EXTENDS GwIo, SequenceTheorems, TLAPS

Byte == Nat \X {1, 2}

\* The members the stream to the broker depends on.
SocketType ==
    /\ sock \in [state : {"Disconnected", "TryingToConnect", "Connected"},
                 sentData : Seq(Byte), writing : BOOLEAN, reading : BOOLEAN,
                 connecting : BOOLEAN, sent : Seq(Byte)]
    /\ wire \in [in : Seq(Byte), got : Seq(Byte), up : BOOLEAN]
    /\ count \in [{"in", "out", "breaks", "data"} -> Nat]

\* sentData ends with the end of a message.
EndsWhole(data) == \A i \in 1 .. Len(data) : data[i][2] = 1 => i < Len(data)

MadeOf(sent, got, waits) == sent = got \o waits

\* Until the socket is connected nothing was written; while the connection is up
\* what the broker got and what waits make up what was sent.
WriteInv ==
    /\ SocketType
    /\ EndsWhole(sock.sentData)
    /\ sock.writing => sock.sentData # << >>
    /\ sock.connecting => sock.state = "TryingToConnect"
    /\ sock.state # "Connected" =>
          ~ wire.up /\ ~ sock.writing /\ wire.got = << >> /\ sock.sent = sock.sentData
    /\ wire.up => MadeOf(sock.sent, wire.got, sock.sentData)
    /\ IsPrefix(wire.got, sock.sent)

\* While no connection was replaced within a message, what the session has not
\* yet taken of the stream, in m_brokerData and under way, is whole messages with
\* growing numbers, the last one cut off at most when the connection broke; and the
\* messages it took are whole, have growing numbers, and come before these.
Unread == gs.brokerData \o wire.in

Stream(data, taken, last) ==
    /\ data \in Seq(Byte) /\ taken \in Seq(Byte \X Byte)
    /\ \A k \in 1 .. Len(data) :
          /\ 2 * k - 1 <= Len(data) => data[2 * k - 1][2] = 1
          /\ 2 * k <= Len(data) => data[2 * k] = <<data[2 * k - 1][1], 2>>
    /\ \A j, k \in 1 .. Len(data) :
          j < k /\ 2 * k - 1 <= Len(data) => data[2 * j - 1][1] < data[2 * k - 1][1]
    /\ \A i \in 1 .. Len(data) : data[i][1] <= last
    /\ \A i \in 1 .. Len(taken) : Whole(taken[i]) /\ taken[i][1][1] <= last
    /\ \A i, j \in 1 .. Len(taken) : i < j => taken[i][1][1] < taken[j][1][1]
    /\ \A i \in 1 .. Len(taken), j \in 1 .. Len(data) : taken[i][1][1] < data[j][1]

\* The first h messages of data are taken, and rest is left.
CutAfter(h, data, taken, rest) ==
    /\ 2 * h <= Len(data)
    /\ taken \in Seq(Byte \X Byte) /\ Len(taken) = h
    /\ \A i \in 1 .. h : taken[i] = <<data[2 * i - 1], data[2 * i]>>
    /\ rest \in Seq(Byte) /\ Len(rest) = Len(data) - 2 * h
    /\ \A j \in 1 .. Len(rest) : rest[j] = data[2 * h + j]

Even(n) == \E k \in 0 .. n : n = 2 * k

ReadInv ==
    /\ gs.brokerData \in Seq(Byte) /\ parsed \in Seq(Byte \X Byte)
    /\ gs \in [brokerConnected : BOOLEAN, brokerData : Seq(Byte), reconnectTimer : BOOLEAN,
               posted : BOOLEAN]
    /\ ~ split => /\ Stream(Unread, parsed, count["in"])
                  /\ wire.up => Even(Len(Unread))
                  /\ sock.state # "Connected" => Unread = << >>

LEMMA BytesType ==
    ASSUME NEW n \in Nat
    PROVE  /\ Bytes(n) \in Seq(Byte) /\ Len(Bytes(n)) = 2
           /\ Bytes(n)[1] = <<n, 1>> /\ Bytes(n)[2] = <<n, 2>>
BY DEF Bytes, Byte

\* A sequence is a prefix of itself with more behind it.
LEMMA PrefixOfConcat ==
    ASSUME NEW S, NEW s \in Seq(S), NEW t \in Seq(S)
    PROVE  IsPrefix(s, s \o t)
<1>1. s \o t \in Seq(S) /\ Len(s \o t) = Len(s) + Len(t)
  BY ConcatProperties, Zenon
<1>2. \A i \in 1 .. Len(s) : (s \o t)[i] = s[i]
  BY ConcatProperties
<1>3. SubSeq(s, 1, Len(s)) = SubSeq(s \o t, 1, Len(s))
  BY <1>1, <1>2, SMT
<1> QED BY <1>1, <1>3, LenProperties DEF IsPrefix

\* A prefix of a sequence is one of the sequence with more behind it.
LEMMA PrefixExtends ==
    ASSUME NEW S, NEW s \in Seq(S), NEW t \in Seq(S), NEW u \in Seq(S), IsPrefix(s, t)
    PROVE  IsPrefix(s, t \o u)
<1>1. t \o u \in Seq(S) /\ Len(t \o u) = Len(t) + Len(u) /\ Len(s) <= Len(t)
  BY ConcatProperties, Zenon DEF IsPrefix
<1>2. \A i \in 1 .. Len(s) : (t \o u)[i] = t[i]
  BY <1>1, ConcatProperties, LenProperties
<1>3. SubSeq(t, 1, Len(s)) = SubSeq(t \o u, 1, Len(s))
  BY <1>1, <1>2, SMT
<1> QED BY <1>1, <1>3, LenProperties DEF IsPrefix

\* What is cut into two parts is their concatenation.
LEMMA CutInTwo ==
    ASSUME NEW S, NEW s \in Seq(S), NEW n \in 0 .. Len(s)
    PROVE  /\ SubSeq(s, 1, n) \in Seq(S) /\ Len(SubSeq(s, 1, n)) = n
           /\ SubSeq(s, n + 1, Len(s)) \in Seq(S) /\ Len(SubSeq(s, n + 1, Len(s))) = Len(s) - n
           /\ s = SubSeq(s, 1, n) \o SubSeq(s, n + 1, Len(s))
           /\ \A i \in 1 .. n : SubSeq(s, 1, n)[i] = s[i]
           /\ \A i \in 1 .. Len(s) - n : SubSeq(s, n + 1, Len(s))[i] = s[n + i]
<1>1. Len(s) \in Nat /\ n \in Nat
  BY LenProperties
<1>2. /\ SubSeq(s, 1, n) \in Seq(S) /\ Len(SubSeq(s, 1, n)) = n
      /\ \A i \in 1 .. n : SubSeq(s, 1, n)[i] = s[i]
  BY <1>1, SMT
<1>3. /\ SubSeq(s, n + 1, Len(s)) \in Seq(S) /\ Len(SubSeq(s, n + 1, Len(s))) = Len(s) - n
      /\ \A i \in 1 .. Len(s) - n : SubSeq(s, n + 1, Len(s))[i] = s[n + i]
  BY <1>1, SMT
<1>4. s = SubSeq(s, 1, n) \o SubSeq(s, n + 1, Len(s))
  <2> DEFINE a == SubSeq(s, 1, n)
             b == SubSeq(s, n + 1, Len(s))
  <2>1. a \in Seq(S) /\ b \in Seq(S) /\ Len(a) = n /\ Len(b) = Len(s) - n
    BY <1>2, <1>3, Zenon
  <2>2. \A i \in 1 .. Len(s) : s[i] = IF i <= n THEN a[i] ELSE b[i - n]
    BY <1>1, <1>2, <1>3, SMT
  <2> HIDE DEF a, b
  <2>3. a \o b \in Seq(S) /\ Len(a \o b) = Len(s)
    <3>1. a \o b \in Seq(S) /\ Len(a \o b) = Len(a) + Len(b)
      BY <2>1, ConcatProperties, Zenon
    <3> QED BY <1>1, <2>1, <3>1
  <2>4. \A i \in 1 .. Len(s) : (a \o b)[i] = IF i <= n THEN a[i] ELSE b[i - n]
    BY <1>1, <2>1, ConcatProperties, SMT
  <2>5. s = a \o b
    <3>1. \A i \in 1 .. Len(s) : s[i] = (a \o b)[i]
      BY <2>2, <2>4, Zenon
    <3> QED BY <2>3, <3>1, SeqEqual, Zenon
  <2> QED BY <2>5, Zenon DEF a, b
<1> QED BY <1>2, <1>3, <1>4, Zenon

\* Data behind what waits are data behind what was sent.
LEMMA MadeOfMore ==
    ASSUME NEW S, NEW sent \in Seq(S), NEW got \in Seq(S), NEW waits \in Seq(S),
           NEW data \in Seq(S), MadeOf(sent, got, waits)
    PROVE  MadeOf(sent \o data, got, waits \o data)
BY ConcatAssociative DEF MadeOf

\* What is written goes from what waits to what was got.
LEMMA MadeOfParts ==
    ASSUME NEW S, NEW got \in Seq(S), NEW a \in Seq(S), NEW b \in Seq(S),
           NEW sent \in Seq(S), MadeOf(sent, got, a \o b)
    PROVE  MadeOf(sent, got \o a, b)
BY ConcatAssociative, SMTT(20) DEF MadeOf

LEMMA MadeOfWritten ==
    ASSUME NEW S, NEW sent \in Seq(S), NEW got \in Seq(S), NEW waits \in Seq(S),
           NEW n \in 0 .. Len(waits), MadeOf(sent, got, waits)
    PROVE  MadeOf(sent, got \o SubSeq(waits, 1, n), SubSeq(waits, n + 1, Len(waits)))
<1> DEFINE a == SubSeq(waits, 1, n)
           b == SubSeq(waits, n + 1, Len(waits))
<1>1. a \in Seq(S) /\ b \in Seq(S) /\ waits = a \o b
  BY CutInTwo, Zenon
<1> HIDE DEF a, b
<1>2. MadeOf(sent, got \o a, b)
  BY <1>1, MadeOfParts, Zenon
<1> QED BY <1>2, Zenon DEF a, b

\* Whole messages behind make the data end with a whole message.
LEMMA WholeAppended ==
    ASSUME NEW data \in Seq(Byte), NEW n \in Nat, EndsWhole(data)
    PROVE  EndsWhole(data \o Bytes(n))
<1>1. /\ Bytes(n) \in Seq(Byte) /\ Len(Bytes(n)) = 2
      /\ Bytes(n)[1] = <<n, 1>> /\ Bytes(n)[2] = <<n, 2>>
  BY BytesType, Zenon
<1>2. Len(data) \in Nat /\ Len(data \o Bytes(n)) = Len(data) + 2
  <2>1. Len(data) \in Nat
    BY LenProperties, Zenon
  <2>2. Len(data \o Bytes(n)) = Len(data) + Len(Bytes(n))
    BY <1>1, ConcatProperties, Zenon
  <2> QED BY <1>1, <2>1, <2>2, Zenon
<1>3. (data \o Bytes(n))[Len(data) + 2] = <<n, 2>>
  BY <1>1, <1>2, ConcatProperties, SMT
<1> QED BY <1>2, <1>3, SMT DEF EndsWhole

\* So does taking bytes away in front.
LEMMA WholeCut ==
    ASSUME NEW data \in Seq(Byte), NEW n \in 0 .. Len(data), EndsWhole(data)
    PROVE  EndsWhole(SubSeq(data, n + 1, Len(data)))
<1>1. Len(data) \in Nat
  BY LenProperties, Zenon
<1> QED BY <1>1, CutInTwo, SMT DEF EndsWhole
-----------------------------------------------------------------------------
(* What is written: WrittenInOrder. *)

SocketRecord ==
    [state : {"Disconnected", "TryingToConnect", "Connected"}, sentData : Seq(Byte),
     writing : BOOLEAN, reading : BOOLEAN, connecting : BOOLEAN, sent : Seq(Byte)]

\* What sendDataImpl makes of the members of a socket.
LEMMA SendDataImplFields ==
    ASSUME NEW s \in SocketRecord, NEW data \in Seq(Byte)
    PROVE  LET t == SendDataImpl(s, data) IN
           /\ t \in SocketRecord
           /\ t.sentData = s.sentData \o data /\ t.sent = s.sent \o data
           /\ t.writing => s.writing \/ (s.state = "Connected" /\ t.sentData # << >>)
           /\ t.connecting => s.connecting \/ t.state = "TryingToConnect"
           /\ t.state = IF s.state = "Disconnected" THEN "TryingToConnect" ELSE s.state
<1>1. s.sentData \o data \in Seq(Byte) /\ s.sent \o data \in Seq(Byte)
  BY ConcatProperties, Zenon DEF SocketRecord
<1>2. CASE s.state = "Connected" /\ s.sentData = << >>
  BY <1>1, <1>2, Zenon DEF SendDataImpl, SendPendingWrites, SocketRecord
<1>3. CASE s.state = "Connected" /\ s.sentData # << >>
  BY <1>1, <1>3, Zenon DEF SendDataImpl, SocketRecord
<1>4. CASE s.state = "TryingToConnect"
  BY <1>1, <1>4, Zenon DEF SendDataImpl, SocketRecord
<1>5. CASE s.state = "Disconnected"
  BY <1>1, <1>5, Zenon DEF SendDataImpl, SocketRecord
<1> QED BY <1>2, <1>3, <1>4, <1>5, Zenon DEF SocketRecord

LEMMA WriteInvInit ==
    Init => WriteInv
<1> SUFFICES ASSUME Init PROVE WriteInv
  BY Zenon
<1>1. SocketType
  BY DEF Init, SocketType, NewSocket, NoWire, Byte
<1>2. IsPrefix(wire.got, sock.sent)
  <2>1. << >> \in Seq(Byte) /\ << >> \o << >> = << >>
    BY ConcatEmptySeq
  <2> QED BY <2>1, PrefixOfConcat, Zenon DEF Init, NewSocket, NoWire
<1> QED BY <1>1, <1>2 DEF Init, WriteInv, NewSocket, NoWire, EndsWhole

\* sendDataImpl puts a message behind what waits, and behind what was sent.
LEMMA WriteInvSend ==
    ASSUME WriteInv, SessionSend
    PROVE  WriteInv'
<1> DEFINE data == Bytes(count.out + 1)
<1>1. /\ sock \in SocketRecord /\ wire.got \in Seq(Byte) /\ wire' = wire
      /\ count' \in [{"in", "out", "breaks", "data"} -> Nat] /\ count.out + 1 \in Nat
      /\ wire \in [in : Seq(Byte), got : Seq(Byte), up : BOOLEAN]
  BY DEF WriteInv, SocketType, SocketRecord, SessionSend, Counted
<1>2. data \in Seq(Byte) /\ EndsWhole(sock.sentData \o data)
  BY <1>1, BytesType, WholeAppended, Zenon DEF WriteInv, SocketType
<1>3. sock' = SendDataImpl(sock, data)
  BY Zenon DEF SessionSend
<1> HIDE DEF data
<1>4. /\ sock' \in SocketRecord
      /\ sock'.sentData = sock.sentData \o data /\ sock'.sent = sock.sent \o data
      /\ sock'.writing => sock.writing \/ (sock.state = "Connected" /\ sock'.sentData # << >>)
      /\ sock'.connecting => sock.connecting \/ sock'.state = "TryingToConnect"
      /\ sock'.state = IF sock.state = "Disconnected" THEN "TryingToConnect" ELSE sock.state
  BY <1>1, <1>2, <1>3, SendDataImplFields, Zenon
<1>5. sock.sent \in Seq(Byte) /\ sock.sentData \in Seq(Byte)
  BY <1>1, Zenon DEF SocketRecord
<1>6. IsPrefix(wire.got, sock'.sent)
  BY <1>1, <1>2, <1>4, <1>5, PrefixExtends DEF WriteInv
<1>7. wire.up => MadeOf(sock'.sent, wire.got, sock'.sentData)
  BY <1>1, <1>2, <1>4, <1>5, MadeOfMore, SMTT(20) DEF WriteInv
<1>8. sock'.writing => sock'.sentData # << >>
  <2>1. sock.sentData # << >> => sock.sentData \o data # << >>
    BY <1>2, <1>5, ConcatProperties, LenProperties
  <2> QED BY <1>4, <2>1, Zenon DEF WriteInv
<1>9. SocketType'
  BY <1>1, <1>4, Zenon DEF SocketType, SocketRecord
<1>10. sock'.state # "Connected" =>
          ~ wire.up /\ ~ sock'.writing /\ wire.got = << >> /\ sock'.sent = sock'.sentData
  BY <1>4, <1>5, Zenon DEF WriteInv
<1> QED BY <1>1, <1>2, <1>4, <1>6, <1>7, <1>8, <1>9, <1>10, Zenon DEF WriteInv

\* sendPendingWrites completed: the bytes written are the first that wait.
LEMMA WriteInvWrite ==
    ASSUME WriteInv, NEW n \in 1 .. 2, WriteDone(n)
    PROVE  WriteInv'
<1> DEFINE waits == sock.sentData
           first == SubSeq(waits, 1, n)
           rest == SubSeq(waits, n + 1, Len(waits))
<1>1. /\ sock \in SocketRecord /\ wire \in [in : Seq(Byte), got : Seq(Byte), up : BOOLEAN]
      /\ waits \in Seq(Byte) /\ wire.got \in Seq(Byte) /\ sock.sent \in Seq(Byte)
      /\ waits # << >> /\ EndsWhole(waits)
  BY Zenon DEF WriteInv, SocketType, SocketRecord, WriteDone
<1>2. n \in 0 .. Len(waits)
  <2>1. Len(waits) \in Nat /\ Len(waits) # 0
    BY <1>1, EmptySeq, LenProperties, Zenon
  <2>2. Head(waits) = waits[1]
    BY <1>1
  <2>3. waits[1][2] = 1 => 1 < Len(waits)
    BY <1>1, <2>1 DEF EndsWhole
  <2>4. n \in 1 .. IF Head(waits)[2] = 1 THEN 2 ELSE 1
    BY Zenon DEF WriteDone
  <2> QED BY <2>1, <2>2, <2>3, <2>4
<1>3. first \in Seq(Byte) /\ rest \in Seq(Byte) /\ EndsWhole(rest)
  BY <1>1, <1>2, CutInTwo, WholeCut, Zenon
<1>4. MadeOf(sock.sent, wire.got, waits) => MadeOf(sock.sent, wire.got \o first, rest)
  BY <1>1, <1>2, MadeOfWritten, Zenon
<1>5. sock' = SendPendingWrites([sock EXCEPT !.sentData = rest])
  BY Zenon DEF WriteDone
<1>6. wire' = IF wire.up THEN [wire EXCEPT !.got = @ \o first] ELSE wire
  BY Zenon DEF WriteDone
<1> HIDE DEF first, rest
<1>7. /\ sock' \in SocketRecord
      /\ sock'.sentData = rest /\ sock'.sent = sock.sent /\ sock'.writing = (rest # << >>)
      /\ sock'.state = sock.state /\ sock'.connecting = sock.connecting
  BY <1>1, <1>3, <1>5, Zenon DEF SendPendingWrites, SocketRecord
<1>8. sock.state = "Connected"
  BY Zenon DEF WriteInv, WriteDone
<1>9. count' = count
  BY Zenon DEF WriteDone
<1>10. CASE wire.up
  <2>1. wire' = [wire EXCEPT !.got = wire.got \o first] /\ wire.got \o first \in Seq(Byte)
    BY <1>1, <1>3, <1>6, <1>10, ConcatProperties, Zenon
  <2>2. wire'.got = wire.got \o first /\ wire'.up
        /\ wire' \in [in : Seq(Byte), got : Seq(Byte), up : BOOLEAN]
    BY <1>1, <1>10, <2>1, Zenon
  <2>3. MadeOf(sock.sent, wire'.got, rest)
    BY <1>4, <1>10, <2>2, Zenon DEF WriteInv
  <2>4. IsPrefix(wire'.got, sock.sent)
    BY <1>3, <2>2, <2>3, PrefixOfConcat, Zenon DEF MadeOf
  <2>5. SocketType'
    BY <1>7, <1>9, <2>2, Zenon DEF WriteInv, SocketType, SocketRecord
  <2> QED BY <1>3, <1>7, <1>8, <2>2, <2>3, <2>4, <2>5, Zenon DEF WriteInv
<1>11. CASE ~ wire.up
  BY <1>1, <1>3, <1>6, <1>7, <1>8, <1>9, <1>11, Zenon DEF WriteInv, SocketType, SocketRecord
<1> QED BY <1>10, <1>11, Zenon

\* async_connect completed: all that was sent waits.
LEMMA WriteInvConnect ==
    ASSUME WriteInv, NEW ok \in BOOLEAN, ConnectDone(ok)
    PROVE  WriteInv'
<1>1. /\ sock \in SocketRecord /\ wire \in [in : Seq(Byte), got : Seq(Byte), up : BOOLEAN]
      /\ sock.connecting /\ sock.state = "TryingToConnect" /\ sock.sent = sock.sentData
      /\ ~ wire.up /\ wire.got = << >> /\ count \in [{"in", "out", "breaks", "data"} -> Nat]
  BY Zenon DEF WriteInv, SocketType, SocketRecord, ConnectDone
<1>2. CASE ok
  <2>1. sock' = ConnectedSocket(sock) /\ wire' = [NoWire EXCEPT !.up = TRUE] /\ count' = count
    BY <1>2, Zenon DEF ConnectDone
  <2>2. /\ sock' \in SocketRecord /\ sock'.sentData = sock.sentData /\ sock'.sent = sock.sent
        /\ sock'.writing = (sock.sentData # << >>) /\ sock'.state = "Connected" /\ ~ sock'.connecting
    BY <1>1, <2>1, Zenon DEF ConnectedSocket, SendPendingWrites, SocketRecord
  <2>3. wire' = [in |-> << >>, got |-> << >>, up |-> TRUE]
    BY <2>1, Zenon DEF NoWire
  <2>4. sock.sentData \in Seq(Byte)
    BY <1>1, Zenon DEF SocketRecord
  <2>5. MadeOf(sock'.sent, wire'.got, sock'.sentData)
    BY <1>1, <2>2, <2>3, <2>4, ConcatEmptySeq, Zenon DEF MadeOf
  <2>6. IsPrefix(wire'.got, sock'.sent)
    BY <1>1, <2>2, <2>3, Zenon DEF WriteInv
  <2>7. SocketType'
    <3>1. << >> \in Seq(Byte)
      BY ConcatEmptySeq
    <3>2. wire' \in [in : Seq(Byte), got : Seq(Byte), up : BOOLEAN]
      BY <2>3, <3>1, Zenon
    <3> QED BY <1>1, <2>1, <2>2, <3>2, Zenon DEF SocketType, SocketRecord
  <2> QED BY <2>2, <2>5, <2>6, <2>7, Zenon DEF WriteInv
<1>3. CASE ~ ok
  <2>1. sock' = [sock EXCEPT !.connecting = FALSE] /\ wire' = wire
        /\ count' = [count EXCEPT !["breaks"] = @ + 1]
    BY <1>3, Zenon DEF ConnectDone, Counted
  <2>2. count' \in [{"in", "out", "breaks", "data"} -> Nat]
    BY <1>1, <2>1
  <2>3. /\ sock' \in SocketRecord /\ ~ sock'.connecting /\ sock'.state = sock.state
        /\ sock'.sent = sock.sent /\ sock'.sentData = sock.sentData /\ sock'.writing = sock.writing
    BY <1>1, <2>1, Zenon DEF SocketRecord
  <2> QED BY <1>1, <2>1, <2>2, <2>3, Zenon DEF WriteInv, SocketType, SocketRecord
<1> QED BY <1>2, <1>3, Zenon

LEMMA WriteInvNext ==
    ASSUME WriteInv, [Next]_vars
    PROVE  WriteInv'
<1>1. CASE SessionSend
  BY <1>1, WriteInvSend, Zenon
<1>2. CASE \E ok \in BOOLEAN : ConnectDone(ok)
  BY <1>2, WriteInvConnect, Zenon
<1>3. CASE \E n \in 1 .. Len(wire.in) : ReadDone(n)
  <2> PICK n \in 1 .. Len(wire.in) : ReadDone(n)
    BY <1>3, Zenon
  <2>1. SubSeq(wire.in, n + 1, Len(wire.in)) \in Seq(Byte)
    BY DEF WriteInv, SocketType
  <2>2. /\ wire' = [wire EXCEPT !.in = SubSeq(wire.in, n + 1, Len(wire.in))]
        /\ sock' = sock /\ count' = count
    BY Zenon DEF ReadDone
  <2>3. /\ wire'.got = wire.got /\ wire'.up = wire.up
        /\ wire' \in [in : Seq(Byte), got : Seq(Byte), up : BOOLEAN]
    BY <2>1, <2>2, Zenon DEF WriteInv, SocketType
  <2> QED BY <2>2, <2>3, Zenon DEF WriteInv, SocketType
<1>4. CASE ReadFailed
  <2>1. sock' = [sock EXCEPT !.reading = FALSE] /\ wire' = wire /\ count' = count
    BY <1>4, Zenon DEF ReadFailed
  <2> QED BY <2>1, Zenon DEF WriteInv, SocketType
<1>5. CASE \E n \in 1 .. 2 : WriteDone(n)
  BY <1>5, WriteInvWrite, Zenon
<1>6. CASE WriteFailed
  <2>1. sock' = [sock EXCEPT !.writing = FALSE] /\ wire' = wire /\ count' = count
    BY <1>6, Zenon DEF WriteFailed
  <2> QED BY <2>1, Zenon DEF WriteInv, SocketType
<1>7. CASE Connected
  BY <1>7, Zenon DEF Connected, WriteInv, SocketType
<1>8. CASE BrokerReconnect
  BY <1>8, SMTT(20) DEF BrokerReconnect, Counted, WriteInv, SocketType
<1>9. CASE BrokerConnect
  <2>1. sock' = NewSocket /\ wire' = NoWire /\ count' = count
    BY <1>9, Zenon DEF BrokerConnect
  <2>2. SocketType'
    BY <2>1 DEF WriteInv, SocketType, NewSocket, NoWire
  <2>3. IsPrefix(<< >>, << >>)
    BY DEF IsPrefix
  <2> QED BY <2>1, <2>2, <2>3 DEF WriteInv, NewSocket, NoWire, EndsWhole
<1>10. CASE ClientSend
  BY <1>10, SMTT(30) DEF ClientSend, Counted, WriteInv, SocketType
<1>11. CASE ClientSent
  BY <1>11, Zenon DEF ClientSent, WriteInv, SocketType
<1>12. CASE BrokerSend
  <2>1. wire.in \o Bytes(count["in"] + 1) \in Seq(Byte)
    <3>1. wire.in \in Seq(Byte) /\ count["in"] \in Nat
      BY Zenon DEF WriteInv, SocketType
    <3>2. count["in"] + 1 \in Nat
      BY <3>1
    <3>3. Bytes(count["in"] + 1) \in Seq(Byte)
      BY <3>2, BytesType, Zenon
    <3> QED BY <3>1, <3>3, ConcatProperties, Zenon
  <2>2. /\ wire' = [wire EXCEPT !.in = wire.in \o Bytes(count["in"] + 1)]
        /\ count' = [count EXCEPT !["in"] = @ + 1] /\ sock' = sock
    BY <1>12, Zenon DEF BrokerSend, Counted
  <2>3. /\ wire'.got = wire.got /\ wire'.up = wire.up
        /\ wire' \in [in : Seq(Byte), got : Seq(Byte), up : BOOLEAN]
    BY <2>1, <2>2, Zenon DEF WriteInv, SocketType
  <2> QED BY <2>2, <2>3 DEF WriteInv, SocketType
<1>13. CASE Break
  <2>1. PICK n \in 0 .. Len(wire.in) :
           wire' = [wire EXCEPT !.up = FALSE, !.in = SubSeq(wire.in, 1, n)]
    BY <1>13, Zenon DEF Break
  <2>2. SubSeq(wire.in, 1, n) \in Seq(Byte)
    BY CutInTwo, Zenon DEF WriteInv, SocketType
  <2>3. /\ wire'.got = wire.got /\ ~ wire'.up
        /\ wire' \in [in : Seq(Byte), got : Seq(Byte), up : BOOLEAN]
    BY <2>1, <2>2, Zenon DEF WriteInv, SocketType
  <2>4. sock' = sock /\ count' = [count EXCEPT !["breaks"] = @ + 1]
    BY <1>13, Zenon DEF Break, Counted
  <2> QED BY <2>3, <2>4, SMTT(20) DEF WriteInv, SocketType
<1>14. CASE UNCHANGED vars
  BY <1>14, Zenon DEF vars, WriteInv, SocketType
<1> QED BY <1>1, <1>2, <1>3, <1>4, <1>5, <1>6, <1>7, <1>8, <1>9, <1>10, <1>11, <1>12, <1>13,
           <1>14, Zenon DEF Next

\* The broker gets on a connection what was given to the socket of that
\* connection, from the first byte on and in order, however many messages, writes
\* and connections there are.
THEOREM WrittenInOrderHolds == Spec => []WrittenInOrder
<1>1. WriteInv => WrittenInOrder
  BY Zenon DEF WriteInv, WrittenInOrder
<1> QED BY <1>1, WriteInvInit, WriteInvNext, PTL DEF Spec
-----------------------------------------------------------------------------
(* What is read: BrokerStreamWhole. *)

\* What is received goes behind what was left over.
LEMMA Joined ==
    ASSUME NEW x \in Seq(Byte), NEW y \in Seq(Byte)
    PROVE  /\ x \o y \in Seq(Byte) /\ Len(x \o y) = Len(x) + Len(y)
           /\ \A i \in 1 .. Len(x) + Len(y) :
                 (x \o y)[i] = IF i <= Len(x) THEN x[i] ELSE y[i - Len(x)]
BY ConcatProperties, Zenon

\* What a callback of reportClientData takes: the whole messages among the data
\* read so far.  What it leaves, with what is under way, is the rest of the stream.
LEMMA ReadSplit ==
    ASSUME NEW old \in Seq(Byte), NEW in \in Seq(Byte), NEW n \in 1 .. Len(in)
    PROVE  /\ Rest(old \o SubSeq(in, 1, n)) \in Seq(Byte)
           /\ \E h \in Nat : CutAfter(h, old \o in, Pairs(old \o SubSeq(in, 1, n)),
                                     Rest(old \o SubSeq(in, 1, n)) \o SubSeq(in, n + 1, Len(in)))
<1> DEFINE a == SubSeq(in, 1, n)
           b == SubSeq(in, n + 1, Len(in))
           data == old \o a
           all == old \o in
           m == Len(data)
           h == m \div 2
           r == Rest(data)
<1>1. Len(in) \in Nat /\ Len(old) \in Nat /\ n \in 0 .. Len(in) /\ n \in Nat
  BY LenProperties
<1>2. /\ a \in Seq(Byte) /\ Len(a) = n /\ b \in Seq(Byte) /\ Len(b) = Len(in) - n
      /\ \A i \in 1 .. n : a[i] = in[i]
      /\ \A i \in 1 .. Len(in) - n : b[i] = in[n + i]
  BY <1>1, CutInTwo
<1> HIDE DEF a, b
<1>3. /\ data \in Seq(Byte) /\ m = Len(old) + n
      /\ \A i \in 1 .. m : data[i] = IF i <= Len(old) THEN old[i] ELSE a[i - Len(old)]
  <2>1. /\ data \in Seq(Byte) /\ m = Len(old) + Len(a)
        /\ \A i \in 1 .. Len(old) + Len(a) :
              data[i] = IF i <= Len(old) THEN old[i] ELSE a[i - Len(old)]
    BY <1>2, Joined, Zenon
  <2> QED BY <1>2, <2>1, Zenon
<1>4. /\ all \in Seq(Byte) /\ Len(all) = Len(old) + Len(in)
      /\ \A i \in 1 .. Len(all) : all[i] = IF i <= Len(old) THEN old[i] ELSE in[i - Len(old)]
  BY <1>1, ConcatProperties, Zenon
<1>5. m \in Nat /\ m <= Len(all) /\ \A i \in 1 .. m : data[i] = all[i]
  BY <1>1, <1>2, <1>3, <1>4
<1> HIDE DEF data, all
<1>6. h \in Nat /\ 2 * h <= m /\ m <= 2 * h + 1
  BY <1>5
<1> HIDE DEF h
<1>7. /\ Pairs(data) \in Seq(Byte \X Byte) /\ Len(Pairs(data)) = h
      /\ \A i \in 1 .. h : Pairs(data)[i] = <<all[2 * i - 1], all[2 * i]>>
  <2>1. Pairs(data) = [i \in 1 .. h |-> <<data[2 * i - 1], data[2 * i]>>]
    BY Zenon DEF Pairs, h
  <2>2. \A i \in 1 .. h : 2 * i - 1 \in 1 .. m /\ 2 * i \in 1 .. m
    BY <1>5, <1>6
  <2>3. \A i \in 1 .. h : data[2 * i - 1] \in Byte /\ data[2 * i] \in Byte
    BY <1>3, <2>2, ElementOfSeq, Zenon
  <2>4. Pairs(data) \in [1 .. h -> Byte \X Byte]
    BY <2>1, <2>3
  <2>5. \A i \in 1 .. h : Pairs(data)[i] = <<data[2 * i - 1], data[2 * i]>>
    BY <2>1, Zenon
  <2> HIDE DEF m
  <2>6. \A i \in 1 .. h : Pairs(data)[i] = <<all[2 * i - 1], all[2 * i]>>
    BY <1>5, <2>2, <2>5, Zenon
  <2> QED BY <1>6, <2>4, <2>6
<1>8. /\ r \in Seq(Byte) /\ Len(r) = m - 2 * h
      /\ \A i \in 1 .. m - 2 * h : r[i] = data[2 * h + i]
  <2>1. r = SubSeq(data, 2 * h + 1, m)
    BY Zenon DEF Rest, h
  <2>2. PICK q \in 0 .. m : q = 2 * h
    BY <1>5, <1>6
  <2>3. /\ SubSeq(data, q + 1, m) \in Seq(Byte) /\ Len(SubSeq(data, q + 1, m)) = m - q
        /\ \A i \in 1 .. m - q : SubSeq(data, q + 1, m)[i] = data[q + i]
    BY <1>3, CutInTwo, Zenon
  <2> HIDE DEF m, r
  <2>4. r \in Seq(Byte) /\ Len(r) = m - q /\ \A i \in 1 .. m - q : r[i] = data[q + i]
    <3>1. r = SubSeq(data, q + 1, m)
      BY <2>1, <2>2, Zenon
    <3> QED BY <2>3, <3>1, Zenon
  <2> QED BY <2>2, <2>4, Zenon
<1> HIDE DEF r
<1>9. /\ r \o b \in Seq(Byte) /\ Len(r \o b) = Len(all) - 2 * h
      /\ \A j \in 1 .. Len(r \o b) : (r \o b)[j] = IF j <= Len(r) THEN r[j] ELSE b[j - Len(r)]
  <2>1. /\ r \o b \in Seq(Byte) /\ Len(r \o b) = Len(r) + Len(b)
        /\ \A j \in 1 .. Len(r) + Len(b) : (r \o b)[j] = IF j <= Len(r) THEN r[j] ELSE b[j - Len(r)]
    BY <1>2, <1>8, Joined, Zenon
  <2>2. Len(r) + Len(b) = Len(all) - 2 * h
    BY <1>1, <1>2, <1>3, <1>4, <1>6, <1>8
  <2> QED BY <2>1, <2>2, Zenon
<1>10. \A j \in 1 .. Len(r \o b) : (r \o b)[j] = all[2 * h + j]
  <2> SUFFICES ASSUME NEW j \in 1 .. Len(r \o b)
               PROVE  (r \o b)[j] = all[2 * h + j]
    BY Zenon
  <2>1. j \in 1 .. Len(all) - 2 * h
    BY <1>9, Zenon
  <2> HIDE DEF m
  <2>2. CASE j <= m - 2 * h
    <3>1. (r \o b)[j] = r[j] /\ r[j] = data[2 * h + j]
      <4>1. j \in 1 .. m - 2 * h
        BY <1>5, <1>6, <2>1, <2>2
      <4> QED BY <1>8, <1>9, <2>2, <4>1, Zenon
    <3>2. 2 * h + j \in 1 .. m
      BY <1>5, <1>6, <2>1, <2>2
    <3> QED BY <1>5, <3>1, <3>2, Zenon
  <2>3. CASE ~ (j <= m - 2 * h)
    <3>1. (r \o b)[j] = b[j - (m - 2 * h)]
      BY <1>5, <1>6, <1>8, <1>9, <2>1, <2>3, Zenon
    <3>2. j - (m - 2 * h) \in 1 .. Len(in) - n
      <4>1. m = Len(old) + n /\ Len(all) = Len(old) + Len(in)
        BY <1>3, <1>4, Zenon
      <4> QED BY <1>1, <1>5, <1>6, <2>1, <2>3, <4>1
    <3>3. b[j - (m - 2 * h)] = in[n + (j - (m - 2 * h))]
      BY <1>2, <3>2, Zenon
    <3>4. all[2 * h + j] = in[2 * h + j - Len(old)]
      BY <1>1, <1>3, <1>4, <1>5, <1>6, <2>1, <2>3
    <3>5. n + (j - (m - 2 * h)) = 2 * h + j - Len(old)
      BY <1>1, <1>3, <1>5, <1>6, <2>1
    <3> QED BY <3>1, <3>3, <3>4, <3>5, Zenon
  <2> QED BY <2>2, <2>3, Zenon
<1>11. 2 * h <= Len(all)
  BY <1>5, <1>6
<1>12. CutAfter(h, all, Pairs(data), r \o b)
  BY <1>7, <1>9, <1>10, <1>11, Zenon DEF CutAfter
<1> QED BY <1>6, <1>8, <1>12, Zenon DEF r, data, all, a, b

\* Taking whole messages off the front of a stream leaves a stream.
LEMMA StreamTaken ==
    ASSUME NEW all, NEW taken, NEW last \in Nat, Stream(all, taken, last),
           NEW h \in Nat, NEW ps, NEW rest, CutAfter(h, all, ps, rest)
    PROVE  Stream(rest, taken \o ps, last) /\ (Even(Len(all)) => Even(Len(rest)))
<1> DEFINE both == taken \o ps
<1>1. /\ all \in Seq(Byte) /\ taken \in Seq(Byte \X Byte)
      /\ ps \in Seq(Byte \X Byte) /\ rest \in Seq(Byte) /\ Len(ps) = h
      /\ Len(all) \in Nat /\ Len(taken) \in Nat /\ Len(rest) \in Nat
      /\ 2 * h <= Len(all) /\ Len(rest) = Len(all) - 2 * h
  BY LenProperties, Zenon DEF Stream, CutAfter
<1>r. \A j \in 1 .. Len(rest) : 2 * h + j \in 1 .. Len(all) /\ rest[j] = all[2 * h + j]
  BY <1>1 DEF CutAfter
<1>2. /\ both \in Seq(Byte \X Byte) /\ Len(both) = Len(taken) + h
      /\ \A i \in 1 .. Len(taken) + h : both[i] = IF i <= Len(taken) THEN taken[i] ELSE ps[i - Len(taken)]
  BY <1>1, ConcatProperties, Zenon
<1> HIDE DEF both
<1>3. \A i \in 1 .. Len(all) : all[i] \in Byte /\ all[i][1] \in Nat
  BY <1>1, ElementOfSeq DEF Byte
<1>4. \A i \in 1 .. h : /\ 2 * i - 1 \in 1 .. Len(all) /\ 2 * i \in 1 .. Len(all)
                        /\ ps[i][1] = all[2 * i - 1] /\ ps[i][2] = all[2 * i]
  <2> SUFFICES ASSUME NEW i \in 1 .. h
               PROVE  /\ 2 * i - 1 \in 1 .. Len(all) /\ 2 * i \in 1 .. Len(all)
                      /\ ps[i][1] = all[2 * i - 1] /\ ps[i][2] = all[2 * i]
    BY Zenon
  <2>1. ps[i] = <<all[2 * i - 1], all[2 * i]>>
    BY Zenon DEF CutAfter
  <2> QED BY <1>1, <2>1
<1>5. \A k \in 1 .. Len(rest) :
          /\ 2 * k - 1 <= Len(rest) => rest[2 * k - 1][2] = 1
          /\ 2 * k <= Len(rest) => rest[2 * k] = <<rest[2 * k - 1][1], 2>>
  <2> SUFFICES ASSUME NEW k \in 1 .. Len(rest)
               PROVE  /\ 2 * k - 1 <= Len(rest) => rest[2 * k - 1][2] = 1
                      /\ 2 * k <= Len(rest) => rest[2 * k] = <<rest[2 * k - 1][1], 2>>
    BY Zenon
  <2>1. /\ 2 * (k + h) - 1 = 2 * h + (2 * k - 1) /\ 2 * (k + h) = 2 * h + 2 * k
        /\ 2 * k <= Len(rest) => 2 * k - 1 <= Len(rest)
    BY <1>1
  <2>2. CASE 2 * k - 1 <= Len(rest)
    <3>1. k + h \in 1 .. Len(all) /\ 2 * k - 1 \in 1 .. Len(rest)
      BY <1>1, <2>2
    <3>2. 2 * h + (2 * k - 1) \in 1 .. Len(all) /\ rest[2 * k - 1] = all[2 * h + (2 * k - 1)]
      BY <1>r, <3>1, Zenon
    <3>3. 2 * (k + h) - 1 <= Len(all) /\ rest[2 * k - 1] = all[2 * (k + h) - 1]
      BY <1>1, <2>1, <3>2
    <3>4. 2 * k <= Len(rest) => 2 * (k + h) <= Len(all) /\ rest[2 * k] = all[2 * (k + h)]
      <4> SUFFICES ASSUME 2 * k <= Len(rest)
                   PROVE  2 * (k + h) <= Len(all) /\ rest[2 * k] = all[2 * (k + h)]
        BY Zenon
      <4>1. 2 * k \in 1 .. Len(rest)
        BY <1>1
      <4>2. 2 * h + 2 * k \in 1 .. Len(all) /\ rest[2 * k] = all[2 * h + 2 * k]
        BY <1>r, <4>1, Zenon
      <4>3. 2 * h + 2 * k <= Len(all)
        BY <1>1, <4>2
      <4> QED BY <2>1, <4>2, <4>3, Zenon
    <3>5. /\ 2 * (k + h) - 1 <= Len(all) => all[2 * (k + h) - 1][2] = 1
          /\ 2 * (k + h) <= Len(all) => all[2 * (k + h)] = <<all[2 * (k + h) - 1][1], 2>>
      BY <3>1, Zenon DEF Stream
    <3> QED BY <3>3, <3>4, <3>5, Zenon
  <2> QED BY <2>1, <2>2, Zenon
<1>6. \A j, k \in 1 .. Len(rest) :
          j < k /\ 2 * k - 1 <= Len(rest) => rest[2 * j - 1][1] < rest[2 * k - 1][1]
  <2> SUFFICES ASSUME NEW j \in 1 .. Len(rest), NEW k \in 1 .. Len(rest), j < k, 2 * k - 1 <= Len(rest)
               PROVE  rest[2 * j - 1][1] < rest[2 * k - 1][1]
    BY <1>1, Zenon
  <2>1. /\ j + h \in 1 .. Len(all) /\ k + h \in 1 .. Len(all) /\ j + h < k + h
        /\ 2 * (k + h) - 1 = 2 * h + (2 * k - 1) /\ 2 * (j + h) - 1 = 2 * h + (2 * j - 1)
        /\ 2 * k - 1 \in 1 .. Len(rest) /\ 2 * j - 1 \in 1 .. Len(rest)
    BY <1>1
  <2>2. /\ 2 * (k + h) - 1 <= Len(all) /\ rest[2 * k - 1] = all[2 * (k + h) - 1]
        /\ rest[2 * j - 1] = all[2 * (j + h) - 1]
    <3>1. /\ 2 * h + (2 * k - 1) \in 1 .. Len(all) /\ rest[2 * k - 1] = all[2 * h + (2 * k - 1)]
          /\ rest[2 * j - 1] = all[2 * h + (2 * j - 1)]
      BY <1>r, <2>1, Zenon
    <3>2. 2 * h + (2 * k - 1) <= Len(all)
      BY <1>1, <3>1
    <3> QED BY <2>1, <3>1, <3>2, Zenon
  <2> QED BY <2>1, <2>2, Zenon DEF Stream
<1>7. \A i \in 1 .. Len(rest) : rest[i][1] <= last
  BY <1>r, Zenon DEF Stream
<1>8. \A i \in 1 .. h : Whole(ps[i]) /\ ps[i][1][1] <= last
  <2> SUFFICES ASSUME NEW i \in 1 .. h
               PROVE  Whole(ps[i]) /\ ps[i][1][1] <= last
    BY Zenon
  <2>1. i \in 1 .. Len(all) /\ 2 * i - 1 <= Len(all) /\ 2 * i <= Len(all)
    BY <1>1
  <2>2. all[2 * i - 1][2] = 1 /\ all[2 * i] = <<all[2 * i - 1][1], 2>>
    BY <2>1, Zenon DEF Stream
  <2>3. all[2 * i - 1][1] <= last
    BY <1>4, Zenon DEF Stream
  <2>4. ps[i][1] = all[2 * i - 1] /\ ps[i][2] = all[2 * i]
    BY <1>4, Zenon
  <2> HIDE DEF Stream
  <2>5. all[2 * i][1] = all[2 * i - 1][1] /\ all[2 * i][2] = 2
    BY <2>2
  <2> QED BY <2>2, <2>3, <2>4, <2>5, Zenon DEF Whole
<1>9. \A i \in 1 .. Len(both) : Whole(both[i]) /\ both[i][1][1] <= last
  <2> SUFFICES ASSUME NEW i \in 1 .. Len(taken) + h
               PROVE  Whole(both[i]) /\ both[i][1][1] <= last
    BY <1>2, Zenon
  <2>1. CASE i <= Len(taken)
    <3>1. i \in 1 .. Len(taken) /\ both[i] = taken[i]
      BY <1>1, <1>2, <2>1
    <3> QED BY <3>1, Zenon DEF Stream
  <2>2. CASE ~ (i <= Len(taken))
    <3>1. i - Len(taken) \in 1 .. h /\ both[i] = ps[i - Len(taken)]
      BY <1>1, <1>2, <2>2
    <3> QED BY <1>8, <3>1, Zenon
  <2> QED BY <2>1, <2>2, Zenon
<1>10. \A i, j \in 1 .. Len(both) : i < j => both[i][1][1] < both[j][1][1]
  <2> SUFFICES ASSUME NEW i \in 1 .. Len(taken) + h, NEW j \in 1 .. Len(taken) + h, i < j
               PROVE  both[i][1][1] < both[j][1][1]
    BY <1>2, Zenon
  <2>1. CASE j <= Len(taken)
    <3>1. i \in 1 .. Len(taken) /\ j \in 1 .. Len(taken) /\ both[i] = taken[i] /\ both[j] = taken[j]
      <4>1. i <= Len(taken) /\ i \in 1 .. Len(taken) /\ j \in 1 .. Len(taken)
        BY <1>1, <2>1
      <4> QED BY <1>2, <2>1, <4>1, Zenon
    <3> QED BY <3>1, Zenon DEF Stream
  <2>2. CASE i <= Len(taken) /\ ~ (j <= Len(taken))
    <3>1. /\ i \in 1 .. Len(taken) /\ both[i] = taken[i]
          /\ j - Len(taken) \in 1 .. h /\ both[j] = ps[j - Len(taken)]
      <4>1. i \in 1 .. Len(taken) /\ j - Len(taken) \in 1 .. h
        BY <1>1, <2>2
      <4> QED BY <1>2, <2>2, <4>1, Zenon
    <3>2. both[j][1] = all[2 * (j - Len(taken)) - 1] /\ 2 * (j - Len(taken)) - 1 \in 1 .. Len(all)
      BY <1>4, <3>1, Zenon
    <3> QED BY <3>1, <3>2, Zenon DEF Stream
  <2>3. CASE ~ (i <= Len(taken))
    <3>1. /\ i - Len(taken) \in 1 .. h /\ both[i] = ps[i - Len(taken)]
          /\ j - Len(taken) \in 1 .. h /\ both[j] = ps[j - Len(taken)]
      <4>1. ~ (j <= Len(taken)) /\ i - Len(taken) \in 1 .. h /\ j - Len(taken) \in 1 .. h
        BY <1>1, <2>3
      <4> QED BY <1>2, <2>3, <4>1, Zenon
    <3>2. PICK u \in 1 .. h, v \in 1 .. h : u = i - Len(taken) /\ v = j - Len(taken)
      BY <3>1, Zenon
    <3>3. /\ both[i][1] = all[2 * u - 1] /\ both[j][1] = all[2 * v - 1] /\ u < v
          /\ u \in 1 .. Len(all) /\ v \in 1 .. Len(all) /\ 2 * v - 1 <= Len(all)
      <4>1. both[i] = ps[u] /\ both[j] = ps[v] /\ u < v
        <5>1. i - Len(taken) < j - Len(taken)
          BY <1>1
        <5> QED BY <3>1, <3>2, <5>1, Zenon
      <4>2. 2 * v - 1 \in 1 .. Len(all) /\ u \in 1 .. Len(all) /\ v \in 1 .. Len(all)
        BY <1>1
      <4>3. 2 * v - 1 <= Len(all)
        BY <1>1, <4>2
      <4> QED BY <1>4, <4>1, <4>2, <4>3, Zenon
    <3> QED BY <3>3, Zenon DEF Stream
  <2> QED BY <1>1, <2>1, <2>2, <2>3, Zenon
<1>11. \A i \in 1 .. Len(both), j \in 1 .. Len(rest) : both[i][1][1] < rest[j][1]
  <2> SUFFICES ASSUME NEW i \in 1 .. Len(taken) + h, NEW j \in 1 .. Len(rest)
               PROVE  both[i][1][1] < rest[j][1]
    BY <1>2, Zenon
  <2>1. 2 * h + j \in 1 .. Len(all) /\ rest[j] = all[2 * h + j]
    BY <1>r, Zenon
  <2>2. CASE i <= Len(taken)
    <3>1. i \in 1 .. Len(taken) /\ both[i] = taken[i]
      BY <1>1, <1>2, <2>2
    <3> QED BY <2>1, <3>1, Zenon DEF Stream
  <2>3. CASE ~ (i <= Len(taken))
    <3>1. PICK u \in 1 .. h : u = i - Len(taken) /\ both[i] = ps[u]
      <4>1. i - Len(taken) \in 1 .. h
        BY <1>1, <2>3
      <4> QED BY <1>2, <2>3, <4>1, Zenon
    <3>2. both[i][1] = all[2 * u - 1] /\ u \in 1 .. Len(all)
      BY <1>1, <1>4, <3>1, SMTT(20)
    <3>3. PICK w \in 1 .. Len(rest) : j = 2 * w - 1 \/ j = 2 * w
      <4>1. j = 2 * ((j + 1) \div 2) - 1 \/ j = 2 * ((j + 1) \div 2)
        BY <1>1
      <4>2. (j + 1) \div 2 \in 1 .. Len(rest)
        BY <1>1
      <4> QED BY <4>1, <4>2, Zenon
    <3>4. 2 * w - 1 \in 1 .. Len(rest) /\ 2 * (w + h) - 1 = 2 * h + (2 * w - 1)
      BY <1>1, <3>3
    <3>5. rest[j][1] = rest[2 * w - 1][1]
      BY <1>5, <3>3
    <3>6. 2 * (w + h) - 1 <= Len(all) /\ rest[2 * w - 1] = all[2 * (w + h) - 1]
      BY <1>r, <3>4, SMTT(20)
    <3>7. w + h \in 1 .. Len(all) /\ u < w + h
      BY <1>1, <3>4, <3>6
    <3> QED BY <3>2, <3>5, <3>6, <3>7, Zenon DEF Stream
  <2> QED BY <2>2, <2>3, Zenon
<1>12. Even(Len(all)) => Even(Len(rest))
  <2> SUFFICES ASSUME NEW k \in 0 .. Len(all), Len(all) = 2 * k
               PROVE  Even(Len(rest))
    BY Zenon DEF Even
  <2>1. Len(rest) = 2 * (k - h) /\ k - h \in 0 .. Len(rest)
    BY <1>1
  <2> QED BY <2>1, Zenon DEF Even
<1> QED BY <1>1, <1>2, <1>5, <1>6, <1>7, <1>9, <1>10, <1>11, <1>12, Zenon DEF Stream, both

\* What is left of a stream when its end is lost is a stream.
LEMMA StreamLost ==
    ASSUME NEW all, NEW taken, NEW last \in Nat, Stream(all, taken, last),
           NEW short \in Seq(Byte), Len(short) <= Len(all),
           \A i \in 1 .. Len(short) : short[i] = all[i]
    PROVE  Stream(short, taken, last)
<1>1. all \in Seq(Byte) /\ Len(all) \in Nat /\ Len(short) \in Nat
  BY LenProperties, Zenon DEF Stream
<1>2. \A i \in 1 .. Len(short) : i \in 1 .. Len(all)
  BY <1>1
<1>3. \A k \in 1 .. Len(short) :
          /\ 2 * k - 1 <= Len(short) => short[2 * k - 1][2] = 1
          /\ 2 * k <= Len(short) => short[2 * k] = <<short[2 * k - 1][1], 2>>
  <2> SUFFICES ASSUME NEW k \in 1 .. Len(short)
               PROVE  /\ 2 * k - 1 <= Len(short) => short[2 * k - 1][2] = 1
                      /\ 2 * k <= Len(short) => short[2 * k] = <<short[2 * k - 1][1], 2>>
    BY Zenon
  <2>1. /\ 2 * k - 1 <= Len(short) => 2 * k - 1 \in 1 .. Len(short) /\ 2 * k - 1 <= Len(all)
        /\ 2 * k <= Len(short) => 2 * k \in 1 .. Len(short) /\ 2 * k <= Len(all) /\ 2 * k - 1 <= Len(short)
    BY <1>1
  <2> QED BY <1>2, <2>1, Zenon DEF Stream
<1>4. \A j, k \in 1 .. Len(short) :
          j < k /\ 2 * k - 1 <= Len(short) => short[2 * j - 1][1] < short[2 * k - 1][1]
  <2> SUFFICES ASSUME NEW j \in 1 .. Len(short), NEW k \in 1 .. Len(short), j < k,
                      2 * k - 1 <= Len(short)
               PROVE  short[2 * j - 1][1] < short[2 * k - 1][1]
    BY Zenon
  <2>1. 2 * j - 1 \in 1 .. Len(short) /\ 2 * k - 1 \in 1 .. Len(short) /\ 2 * k - 1 <= Len(all)
    BY <1>1
  <2> QED BY <1>2, <2>1, Zenon DEF Stream
<1> QED BY <1>2, <1>3, <1>4, Zenon DEF Stream

\* One more message behind whole ones, with a new number, makes a stream.
LEMMA StreamMore ==
    ASSUME NEW all, NEW taken, NEW last \in Nat, Stream(all, taken, last), Even(Len(all))
    PROVE  Stream(all \o Bytes(last + 1), taken, last + 1) /\ Even(Len(all \o Bytes(last + 1)))
<1> DEFINE more == all \o Bytes(last + 1)
<1>1. /\ all \in Seq(Byte) /\ taken \in Seq(Byte \X Byte) /\ Len(all) \in Nat /\ Len(taken) \in Nat
      /\ \A i \in 1 .. Len(all) : all[i] \in Byte /\ all[i][1] \in Nat
      /\ \A i \in 1 .. Len(taken) : taken[i][1][1] \in Nat
  <2>1. all \in Seq(Byte) /\ taken \in Seq(Byte \X Byte)
    BY Zenon DEF Stream
  <2>2. \A i \in 1 .. Len(all) : all[i] \in Byte
    BY <2>1, ElementOfSeq, Zenon
  <2>3. \A i \in 1 .. Len(taken) : taken[i] \in Byte \X Byte
    BY <2>1, ElementOfSeq, Zenon
  <2> QED BY <2>1, <2>2, <2>3, LenProperties, Zenon DEF Byte
<1>2. /\ Bytes(last + 1) \in Seq(Byte) /\ Len(Bytes(last + 1)) = 2
      /\ Bytes(last + 1)[1] = <<last + 1, 1>> /\ Bytes(last + 1)[2] = <<last + 1, 2>>
  BY BytesType
<1>3. more \in Seq(Byte) /\ Len(more) = Len(all) + 2
  <2>1. more \in Seq(Byte) /\ Len(more) = Len(all) + Len(Bytes(last + 1))
    BY <1>1, <1>2, ConcatProperties, Zenon
  <2> QED BY <1>2, <2>1, Zenon
<1>4. /\ \A i \in 1 .. Len(all) : more[i] = all[i]
      /\ more[Len(all) + 1] = <<last + 1, 1>> /\ more[Len(all) + 2] = <<last + 1, 2>>
  <2>1. \A i \in 1 .. Len(all) + Len(Bytes(last + 1)) :
           more[i] = IF i <= Len(all) THEN all[i] ELSE Bytes(last + 1)[i - Len(all)]
    BY <1>1, <1>2, ConcatProperties, Zenon
  <2> HIDE DEF more
  <2>2. \A i \in 1 .. Len(all) : more[i] = all[i]
    BY <1>1, <1>2, <2>1
  <2>3. more[Len(all) + 1] = Bytes(last + 1)[1] /\ more[Len(all) + 2] = Bytes(last + 1)[2]
    <3>1. /\ Len(all) + 1 \in 1 .. Len(all) + Len(Bytes(last + 1)) /\ ~ (Len(all) + 1 <= Len(all))
          /\ Len(all) + 2 \in 1 .. Len(all) + Len(Bytes(last + 1)) /\ ~ (Len(all) + 2 <= Len(all))
          /\ Len(all) + 1 - Len(all) = 1 /\ Len(all) + 2 - Len(all) = 2
      BY <1>1, <1>2
    <3> QED BY <2>1, <3>1
  <2> QED BY <1>2, <2>2, <2>3, Zenon
<1> HIDE DEF more
<1>5. PICK e \in 0 .. Len(all) : Len(all) = 2 * e
  BY Zenon DEF Even
<1>6. \A i \in 1 .. Len(more) : \/ i \in 1 .. Len(all) /\ more[i] = all[i]
                                \/ i > Len(all) /\ more[i][1] = last + 1
  <2> SUFFICES ASSUME NEW i \in 1 .. Len(more)
               PROVE  \/ i \in 1 .. Len(all) /\ more[i] = all[i]
                      \/ i > Len(all) /\ more[i][1] = last + 1
    BY Zenon
  <2>1. i \in 1 .. Len(all) \/ i = Len(all) + 1 \/ i = Len(all) + 2
    BY <1>1, <1>3
  <2> QED BY <1>1, <1>4, <2>1
<1>7. \A k \in 1 .. Len(more) :
          /\ 2 * k - 1 <= Len(more) => more[2 * k - 1][2] = 1
          /\ 2 * k <= Len(more) => more[2 * k] = <<more[2 * k - 1][1], 2>>
  <2> SUFFICES ASSUME NEW k \in 1 .. Len(more)
               PROVE  /\ 2 * k - 1 <= Len(more) => more[2 * k - 1][2] = 1
                      /\ 2 * k <= Len(more) => more[2 * k] = <<more[2 * k - 1][1], 2>>
    BY Zenon
  <2>1. CASE k <= e
    <3>1. 2 * k - 1 \in 1 .. Len(all) /\ 2 * k \in 1 .. Len(all) /\ k \in 1 .. Len(all)
      BY <1>1, <1>5, <2>1
    <3>2. more[2 * k - 1] = all[2 * k - 1] /\ more[2 * k] = all[2 * k]
      BY <1>4, <3>1, Zenon
    <3>3. all[2 * k - 1][2] = 1 /\ all[2 * k] = <<all[2 * k - 1][1], 2>>
      <4>1. 2 * k - 1 <= Len(all) /\ 2 * k <= Len(all)
        BY <1>1, <3>1
      <4> QED BY <3>1, <4>1, Zenon DEF Stream
    <3> QED BY <3>2, <3>3, Zenon
  <2>2. CASE k = e + 1
    <3>1. 2 * k - 1 = Len(all) + 1 /\ 2 * k = Len(all) + 2
      BY <1>5, <2>2
    <3> QED BY <1>4, <3>1
  <2>3. CASE k > e + 1
    <3>1. ~ (2 * k - 1 <= Len(more)) /\ ~ (2 * k <= Len(more))
      BY <1>1, <1>3, <1>5, <2>3
    <3> QED BY <3>1, Zenon
  <2> QED BY <1>5, <2>1, <2>2, <2>3
<1>8. \A j, k \in 1 .. Len(more) :
          j < k /\ 2 * k - 1 <= Len(more) => more[2 * j - 1][1] < more[2 * k - 1][1]
  <2> SUFFICES ASSUME NEW j \in 1 .. Len(more), NEW k \in 1 .. Len(more), j < k, 2 * k - 1 <= Len(more)
               PROVE  more[2 * j - 1][1] < more[2 * k - 1][1]
    BY Zenon
  <2>1. j \in 1 .. Len(all) /\ 2 * j - 1 \in 1 .. Len(all) /\ more[2 * j - 1] = all[2 * j - 1]
    <3>1. j <= e
      BY <1>1, <1>3, <1>5
    <3>2. j \in 1 .. Len(all) /\ 2 * j - 1 \in 1 .. Len(all)
      BY <1>1, <1>5, <3>1
    <3> QED BY <1>4, <3>2, Zenon
  <2>2. CASE 2 * k - 1 <= Len(all)
    <3>1. k \in 1 .. Len(all) /\ 2 * k - 1 \in 1 .. Len(all)
      BY <1>1, <2>2
    <3>2. more[2 * k - 1] = all[2 * k - 1]
      BY <1>4, <3>1, Zenon
    <3>3. all[2 * j - 1][1] < all[2 * k - 1][1]
      BY <2>1, <2>2, <3>1, Zenon DEF Stream
    <3> QED BY <2>1, <3>2, <3>3, Zenon
  <2>3. CASE ~ (2 * k - 1 <= Len(all))
    <3>1. 2 * k - 1 \in 1 .. Len(more) /\ ~ (2 * k - 1 \in 1 .. Len(all))
      BY <1>1, <1>3, <2>3, SMTT(20)
    <3>2. more[2 * k - 1][1] = last + 1
      BY <1>6, <3>1, Zenon
    <3>3. all[2 * j - 1][1] <= last /\ all[2 * j - 1][1] \in Nat
      BY <1>1, <2>1, Zenon DEF Stream
    <3> QED BY <2>1, <3>2, <3>3, SMTT(20)
  <2> QED BY <2>2, <2>3, Zenon
<1>9. \A i \in 1 .. Len(more) : more[i][1] <= last + 1
  <2> SUFFICES ASSUME NEW i \in 1 .. Len(more)
               PROVE  more[i][1] <= last + 1
    BY Zenon
  <2>1. CASE i \in 1 .. Len(all) /\ more[i] = all[i]
    <3>1. all[i][1] <= last /\ all[i][1] \in Nat
      BY <1>1, <2>1, Zenon DEF Stream
    <3> QED BY <2>1, <3>1, SMTT(20)
  <2> QED BY <1>6, <2>1
<1>10. \A i \in 1 .. Len(taken) : /\ Whole(taken[i]) /\ taken[i][1][1] <= last
                                  /\ taken[i][1][1] <= last + 1 /\ taken[i][1][1] < last + 1
  <2>1. \A i \in 1 .. Len(taken) : Whole(taken[i]) /\ taken[i][1][1] <= last
    BY Zenon DEF Stream
  <2> QED BY <1>1, <2>1
<1>11. \A i \in 1 .. Len(taken), j \in 1 .. Len(more) : taken[i][1][1] < more[j][1]
  <2> SUFFICES ASSUME NEW i \in 1 .. Len(taken), NEW j \in 1 .. Len(more)
               PROVE  taken[i][1][1] < more[j][1]
    BY Zenon
  <2>1. CASE j \in 1 .. Len(all) /\ more[j] = all[j]
    BY <2>1, Zenon DEF Stream
  <2>2. CASE more[j][1] = last + 1
    BY <1>10, <2>2, Zenon
  <2> QED BY <1>6, <2>1, <2>2, Zenon
<1>12. \A i, j \in 1 .. Len(taken) : i < j => taken[i][1][1] < taken[j][1][1]
  BY Zenon DEF Stream
<1>13. Even(Len(more))
  <2>1. Len(more) = 2 * (e + 1) /\ e + 1 \in 0 .. Len(more)
    BY <1>1, <1>3, <1>5, SMTT(20)
  <2> QED BY <2>1, Zenon DEF Even
<1>14. Stream(more, taken, last + 1)
  BY <1>1, <1>3, <1>7, <1>8, <1>9, <1>10, <1>11, <1>12, Zenon DEF Stream
<1> QED BY <1>13, <1>14, Zenon DEF more

\* A callback of reportClientData takes whole messages off the stream.
LEMMA ReadInvRead ==
    ASSUME WriteInv, ReadInv, NEW n \in 1 .. Len(wire.in), ReadDone(n)
    PROVE  ReadInv'
<1> DEFINE data == gs.brokerData \o SubSeq(wire.in, 1, n)
<1>1. gs.brokerData \in Seq(Byte) /\ wire.in \in Seq(Byte) /\ parsed \in Seq(Byte \X Byte)
      /\ count["in"] \in Nat
  BY Zenon DEF WriteInv, SocketType, ReadInv
<1>2. /\ parsed' = parsed \o Pairs(data) /\ gs' = [gs EXCEPT !.brokerData = Rest(data)]
      /\ wire' = [wire EXCEPT !.in = SubSeq(wire.in, n + 1, Len(wire.in))]
      /\ sock' = sock /\ split' = split /\ count' = count
  BY Zenon DEF ReadDone, DataReport
<1>3. wire'.in = SubSeq(wire.in, n + 1, Len(wire.in)) /\ wire'.up = wire.up
  BY <1>2, Zenon DEF WriteInv, SocketType
<1>4. Rest(data) \in Seq(Byte)
      /\ \E h \in Nat : CutAfter(h, Unread, Pairs(data), Rest(data) \o wire'.in)
  BY <1>1, <1>3, ReadSplit, Zenon DEF Unread
<1> HIDE DEF data
<1>5. PICK h \in Nat : CutAfter(h, Unread, Pairs(data), Rest(data) \o wire'.in)
  BY <1>4, Zenon
<1>6. gs'.brokerData = Rest(data) /\ Unread' = Rest(data) \o wire'.in
      /\ gs' \in [brokerConnected : BOOLEAN, brokerData : Seq(Byte), reconnectTimer : BOOLEAN,
                  posted : BOOLEAN]
  BY <1>2, <1>4, Zenon DEF ReadInv, Unread
<1>7. parsed' \in Seq(Byte \X Byte)
  BY <1>1, <1>2, <1>5, ConcatProperties, Zenon DEF CutAfter
<1>8. ASSUME ~ split
      PROVE  Stream(Unread', parsed', count["in"]) /\ (Even(Len(Unread)) => Even(Len(Unread')))
  <2>1. Stream(Unread, parsed, count["in"])
    BY <1>8, Zenon DEF ReadInv
  <2>2. /\ Stream(Rest(data) \o wire'.in, parsed \o Pairs(data), count["in"])
        /\ Even(Len(Unread)) => Even(Len(Rest(data) \o wire'.in))
    <3> DEFINE rest == Rest(data) \o wire'.in
               ps == Pairs(data)
               last == count["in"]
    <3>1. Stream(Unread, parsed, last) /\ last \in Nat /\ CutAfter(h, Unread, ps, rest)
      BY <1>1, <1>5, <2>1, Zenon
    <3> HIDE DEF rest, ps, last
    <3>2. Stream(rest, parsed \o ps, last) /\ (Even(Len(Unread)) => Even(Len(rest)))
      BY <3>1, StreamTaken, Zenon
    <3> QED BY <3>2, Zenon DEF rest, ps, last
  <2> QED BY <1>2, <1>6, <2>2, Zenon
<1>9. ASSUME ~ split
      PROVE  sock.state = "Connected"
  <2>1. Unread # << >>
    <3>1. Len(Unread) = Len(gs.brokerData) + Len(wire.in)
      BY <1>1, ConcatProperties, Zenon DEF Unread
    <3>2. Len(wire.in) \in Nat /\ Len(gs.brokerData) \in Nat /\ Len(wire.in) >= 1
      BY <1>1, LenProperties
    <3>3. Len(gs.brokerData) + Len(wire.in) # 0
      <4>1. \A a, b \in Nat : b >= 1 => a + b # 0
        OBVIOUS
      <4> QED BY <3>2, <4>1, Zenon
    <3>4. Len(Unread) # 0
      BY <3>1, <3>3, Zenon
    <3> QED BY <3>4
  <2> QED BY <1>9, <2>1, Zenon DEF ReadInv
<1>10. gs'.brokerData \in Seq(Byte)
  BY <1>4, <1>6, Zenon
<1>11. ASSUME ~ split
       PROVE  /\ Stream(Unread', parsed', count'["in"])
              /\ wire'.up => Even(Len(Unread'))
              /\ sock'.state # "Connected" => Unread' = << >>
  <2>1. wire.up => Even(Len(Unread))
    BY <1>11, Zenon DEF ReadInv
  <2> QED BY <1>2, <1>3, <1>8, <1>9, <1>11, <2>1, Zenon
<1> QED BY <1>2, <1>6, <1>7, <1>10, <1>11, Zenon DEF ReadInv

\* Steps that leave what is read alone keep the stream as it is.
LEMMA ReadInvOther ==
    ASSUME ReadInv, gs'.brokerData = gs.brokerData, wire'.in = wire.in, parsed' = parsed,
           gs' \in [brokerConnected : BOOLEAN, brokerData : Seq(Byte), reconnectTimer : BOOLEAN,
                    posted : BOOLEAN],
           split' = split, count'["in"] = count["in"], wire'.up => wire.up,
           sock'.state # "Connected" => sock.state # "Connected"
    PROVE  ReadInv'
<1>1. Unread' = Unread
  BY Zenon DEF Unread
<1> QED BY <1>1, Zenon DEF ReadInv

LEMMA ReadInvInit ==
    Init => ReadInv
<1> SUFFICES ASSUME Init PROVE ReadInv
  BY Zenon
<1>1. << >> \in Seq(Byte) /\ << >> \in Seq(Byte \X Byte) /\ << >> \o << >> = << >> /\ Len(<< >>) = 0
  BY ConcatEmptySeq
<1>2. Unread = << >> /\ parsed = << >> /\ count["in"] = 0
  BY <1>1, Zenon DEF Init, Unread, NoWire
<1>3. Stream(Unread, parsed, count["in"])
  BY <1>1, <1>2 DEF Stream
<1> QED BY <1>1, <1>2, <1>3, Zenon DEF Init, ReadInv, NoWire

LEMMA ReadInvNext ==
    ASSUME WriteInv, ReadInv, [Next]_vars
    PROVE  ReadInv'
<1>0. /\ sock \in SocketRecord /\ wire \in [in : Seq(Byte), got : Seq(Byte), up : BOOLEAN]
      /\ count \in [{"in", "out", "breaks", "data"} -> Nat] /\ count["in"] \in Nat
      /\ gs \in [brokerConnected : BOOLEAN, brokerData : Seq(Byte), reconnectTimer : BOOLEAN,
                 posted : BOOLEAN]
      /\ gs.brokerData \in Seq(Byte) /\ wire.in \in Seq(Byte) /\ parsed \in Seq(Byte \X Byte)
  BY Zenon DEF WriteInv, SocketType, SocketRecord, ReadInv
<1>r. /\ ReportError(gs).brokerData = gs.brokerData
      /\ ReportError(gs) \in [brokerConnected : BOOLEAN, brokerData : Seq(Byte),
                              reconnectTimer : BOOLEAN, posted : BOOLEAN]
  BY <1>0, Zenon DEF ReportError
<1>e. << >> \in Seq(Byte) /\ << >> \o << >> = << >> /\ Len(<< >>) = 0 /\ Even(0)
  BY ConcatEmptySeq DEF Even
<1>1. CASE SessionSend
  <2>1. /\ gs' = gs /\ wire' = wire /\ parsed' = parsed /\ split' = split
        /\ count'["in"] = count["in"] /\ count.out + 1 \in Nat
        /\ sock' = SendDataImpl(sock, Bytes(count.out + 1))
    BY <1>0, <1>1 DEF SessionSend, Counted
  <2>2. Bytes(count.out + 1) \in Seq(Byte)
    BY <2>1, BytesType, Zenon
  <2>3. sock'.state = IF sock.state = "Disconnected" THEN "TryingToConnect" ELSE sock.state
    BY <1>0, <2>1, <2>2, SendDataImplFields, Zenon
  <2> QED BY <1>0, <2>1, <2>3, ReadInvOther, Zenon
<1>2. CASE \E ok \in BOOLEAN : ConnectDone(ok)
  <2>1. PICK ok \in BOOLEAN : ConnectDone(ok)
    BY <1>2, Zenon
  <2>2. sock.state = "TryingToConnect" /\ ~ wire.up /\ parsed' = parsed /\ split' = split
    BY <2>1, Zenon DEF ConnectDone, WriteInv
  <2>3. CASE ok
    <3>1. /\ wire'.in = << >> /\ gs' = gs /\ count' = count
      BY <2>1, <2>3, Zenon DEF ConnectDone, NoWire
    <3>2. ~ split => wire.in = << >> /\ gs.brokerData = << >> /\ Unread = << >>
      <4>1. ~ split => Unread = << >>
        BY <2>2, Zenon DEF ReadInv
      <4>2. Unread = << >> => wire.in = << >> /\ gs.brokerData = << >>
        BY <1>0, ConcatProperties DEF Unread
      <4> QED BY <4>1, <4>2, Zenon
    <3>3. ~ split => Unread' = << >>
      BY <1>e, <3>1, <3>2, Zenon DEF Unread
    <3>4. ~ split => Stream(Unread', parsed', count'["in"])
      BY <2>2, <3>1, <3>2, <3>3, Zenon DEF ReadInv
    <3> QED BY <1>0, <1>e, <2>2, <3>1, <3>3, <3>4, Zenon DEF ReadInv
  <2>4. CASE ~ ok
    <3>1. /\ wire' = wire /\ sock' = [sock EXCEPT !.connecting = FALSE] /\ gs' = ReportError(gs)
          /\ count' = [count EXCEPT !["breaks"] = @ + 1]
      BY <2>1, <2>4, Zenon DEF ConnectDone, Counted
    <3>2. count'["in"] = count["in"] /\ sock'.state = sock.state
      BY <1>0, <3>1, Zenon DEF SocketRecord
    <3> QED BY <1>r, <2>2, <3>1, <3>2, ReadInvOther, Zenon
  <2> QED BY <2>3, <2>4, Zenon
<1>3. CASE \E n \in 1 .. Len(wire.in) : ReadDone(n)
  BY <1>3, ReadInvRead, Zenon
<1>4. CASE ReadFailed
  <2>1. /\ sock' = [sock EXCEPT !.reading = FALSE] /\ gs' = ReportError(gs) /\ wire' = wire
        /\ parsed' = parsed /\ split' = split /\ count' = count
    BY <1>4, Zenon DEF ReadFailed
  <2>2. sock'.state = sock.state
    BY <1>0, <2>1, Zenon DEF SocketRecord
  <2> QED BY <1>r, <2>1, <2>2, ReadInvOther, Zenon
<1>5. CASE \E n \in 1 .. 2 : WriteDone(n)
  <2>1. PICK n \in 1 .. 2 : WriteDone(n)
    BY <1>5, Zenon
  <2>2. /\ wire' = IF wire.up THEN [wire EXCEPT !.got = @ \o SubSeq(sock.sentData, 1, n)] ELSE wire
        /\ sock' = SendPendingWrites([sock EXCEPT !.sentData = SubSeq(@, n + 1, Len(@))])
        /\ gs' = gs /\ parsed' = parsed /\ split' = split /\ count' = count
    BY <2>1, Zenon DEF WriteDone
  <2>3. wire'.in = wire.in /\ wire'.up = wire.up
    BY <1>0, <2>2, Zenon
  <2>4. sock'.state = sock.state
    BY <1>0, <2>2, Zenon DEF SocketRecord, SendPendingWrites
  <2> QED BY <1>0, <2>2, <2>3, <2>4, ReadInvOther, Zenon
<1>6. CASE WriteFailed
  <2>1. /\ sock' = [sock EXCEPT !.writing = FALSE] /\ gs' = ReportError(gs) /\ wire' = wire
        /\ parsed' = parsed /\ split' = split /\ count' = count
    BY <1>6, Zenon DEF WriteFailed
  <2>2. sock'.state = sock.state
    BY <1>0, <2>1, Zenon DEF SocketRecord
  <2> QED BY <1>r, <2>1, <2>2, ReadInvOther, Zenon
<1>7. CASE Connected
  <2>1. /\ gs' = [gs EXCEPT !.posted = FALSE, !.brokerConnected = TRUE]
        /\ sock' = sock /\ wire' = wire /\ parsed' = parsed /\ split' = split /\ count' = count
    BY <1>7, Zenon DEF Connected
  <2>2. gs'.brokerData = gs.brokerData
        /\ gs' \in [brokerConnected : BOOLEAN, brokerData : Seq(Byte), reconnectTimer : BOOLEAN,
                    posted : BOOLEAN]
    BY <1>0, <2>1, Zenon
  <2> QED BY <2>1, <2>2, ReadInvOther, Zenon
<1>8. CASE BrokerReconnect
  <2>1. /\ gs' = [gs EXCEPT !.reconnectTimer = TRUE] /\ count' = [count EXCEPT !["breaks"] = @ + 1]
        /\ sock' = sock /\ wire' = wire /\ parsed' = parsed /\ split' = split
    BY <1>8, Zenon DEF BrokerReconnect, Counted
  <2>2. gs'.brokerData = gs.brokerData
        /\ gs' \in [brokerConnected : BOOLEAN, brokerData : Seq(Byte), reconnectTimer : BOOLEAN,
                    posted : BOOLEAN]
    BY <1>0, <2>1, Zenon
  <2>3. count'["in"] = count["in"]
    BY <1>0, <2>1, Zenon
  <2> QED BY <2>1, <2>2, <2>3, ReadInvOther, Zenon
<1>9. CASE BrokerConnect
  <2>1. /\ sock' = NewSocket /\ wire' = NoWire /\ parsed' = parsed /\ count' = count
        /\ gs' = [gs EXCEPT !.brokerConnected = FALSE, !.reconnectTimer = FALSE, !.posted = TRUE]
        /\ split' = (split \/ gs.brokerData # << >>)
    BY <1>9, Zenon DEF BrokerConnect
  <2>2. gs'.brokerData = gs.brokerData
        /\ gs' \in [brokerConnected : BOOLEAN, brokerData : Seq(Byte), reconnectTimer : BOOLEAN,
                    posted : BOOLEAN]
    BY <1>0, <2>1, Zenon
  <2>3. wire'.in = << >> /\ ~ wire'.up
    BY <2>1, Zenon DEF NoWire
  <2>4. ASSUME ~ split'
        PROVE  Unread' = << >> /\ Stream(<< >>, parsed, count["in"])
    <3>1. ~ split /\ gs.brokerData = << >>
      BY <2>1, <2>4, Zenon
    <3>2. Unread' = << >>
      BY <1>e, <2>2, <2>3, <3>1, Zenon DEF Unread
    <3>3. Stream(Unread, parsed, count["in"])
      BY <3>1, Zenon DEF ReadInv
    <3>4. Len(<< >>) <= Len(Unread) /\ \A i \in 1 .. Len(<< >>) : << >>[i] = Unread[i]
      <4>1. Unread \in Seq(Byte)
        BY <3>3, Zenon DEF Stream
      <4> QED BY <1>e, <4>1, LenProperties
    <3> QED BY <1>0, <1>e, <3>2, <3>3, <3>4, StreamLost, Zenon
  <2> QED BY <1>0, <2>1, <2>2, <2>3, <2>4, Zenon DEF ReadInv
<1>10. CASE ClientSend
  <2>1. /\ gs' = gs /\ count' = [count EXCEPT !["data"] = @ + 1]
        /\ sock' = sock /\ wire' = wire /\ parsed' = parsed /\ split' = split
    BY <1>10, Zenon DEF ClientSend, Counted
  <2>2. count'["in"] = count["in"]
    BY <1>0, <2>1, Zenon
  <2> QED BY <1>0, <2>1, <2>2, ReadInvOther, Zenon
<1>11. CASE ClientSent
  <2>1. /\ gs' = gs /\ count' = count
        /\ sock' = sock /\ wire' = wire /\ parsed' = parsed /\ split' = split
    BY <1>11, Zenon DEF ClientSent
  <2> QED BY <1>0, <2>1, ReadInvOther, Zenon
<1>12. CASE BrokerSend
  <2>1. /\ wire' = [wire EXCEPT !.in = wire.in \o Bytes(count["in"] + 1)] /\ wire.up
        /\ count' = [count EXCEPT !["in"] = @ + 1]
        /\ sock' = sock /\ gs' = gs /\ parsed' = parsed /\ split' = split
    BY <1>12, Zenon DEF BrokerSend, Counted
  <2>2. /\ wire'.in = wire.in \o Bytes(count["in"] + 1) /\ wire'.up
        /\ count'["in"] = count["in"] + 1 /\ Bytes(count["in"] + 1) \in Seq(Byte)
    <3>1. Bytes(count["in"] + 1) \in Seq(Byte)
      BY <1>0, BytesType
    <3>2. wire'.in = wire.in \o Bytes(count["in"] + 1) /\ wire'.up
      BY <1>0, <2>1, Zenon
    <3>3. count'["in"] = count["in"] + 1
      BY <1>0, <2>1, Zenon
    <3> QED BY <3>1, <3>2, <3>3, Zenon
  <2>3. Unread' = Unread \o Bytes(count["in"] + 1)
    <3>1. MadeOf(Unread, gs.brokerData, wire.in) /\ Unread \in Seq(Byte)
      BY <1>0, ConcatProperties, Zenon DEF MadeOf, Unread
    <3>2. MadeOf(Unread \o Bytes(count["in"] + 1), gs.brokerData, wire.in \o Bytes(count["in"] + 1))
      BY <1>0, <2>2, <3>1, MadeOfMore, Zenon
    <3> QED BY <2>1, <2>2, <3>2, Zenon DEF MadeOf, Unread
  <2>4. ASSUME ~ split
        PROVE  Stream(Unread', parsed, count["in"] + 1) /\ Even(Len(Unread'))
    <3>1. Stream(Unread, parsed, count["in"]) /\ Even(Len(Unread))
      BY <2>1, <2>4, Zenon DEF ReadInv
    <3> QED BY <1>0, <2>3, <3>1, StreamMore, Zenon
  <2>5. sock.state = "Connected"
    BY <2>1, Zenon DEF WriteInv
  <2> QED BY <1>0, <2>1, <2>2, <2>4, <2>5, Zenon DEF ReadInv
<1>13. CASE Break
  <2>1. PICK n \in 0 .. Len(wire.in) :
           wire' = [wire EXCEPT !.up = FALSE, !.in = SubSeq(wire.in, 1, n)]
    BY <1>13, Zenon DEF Break
  <2>2. /\ count' = [count EXCEPT !["breaks"] = @ + 1] /\ wire.up
        /\ sock' = sock /\ gs' = gs /\ parsed' = parsed /\ split' = split
    BY <1>13, Zenon DEF Break, Counted
  <2>3. /\ SubSeq(wire.in, 1, n) \in Seq(Byte) /\ Len(SubSeq(wire.in, 1, n)) = n
        /\ \A i \in 1 .. n : SubSeq(wire.in, 1, n)[i] = wire.in[i]
    BY <1>0, CutInTwo
  <2>4. wire'.in = SubSeq(wire.in, 1, n) /\ ~ wire'.up /\ count'["in"] = count["in"]
    BY <1>0, <2>1, <2>2, Zenon
  <2>5. /\ Unread' \in Seq(Byte) /\ Len(Unread') = Len(gs.brokerData) + n
        /\ \A i \in 1 .. Len(gs.brokerData) + n : Unread'[i] =
              IF i <= Len(gs.brokerData) THEN gs.brokerData[i] ELSE wire.in[i - Len(gs.brokerData)]
    <3>1. Unread' = gs.brokerData \o SubSeq(wire.in, 1, n)
      BY <2>2, <2>4, Zenon DEF Unread
    <3>2. /\ Unread' \in Seq(Byte)
          /\ Len(Unread') = Len(gs.brokerData) + Len(SubSeq(wire.in, 1, n))
          /\ \A i \in 1 .. Len(gs.brokerData) + Len(SubSeq(wire.in, 1, n)) : Unread'[i] =
                IF i <= Len(gs.brokerData) THEN gs.brokerData[i]
                ELSE SubSeq(wire.in, 1, n)[i - Len(gs.brokerData)]
      BY <1>0, <2>3, <3>1, ConcatProperties, SMTT(20)
    <3> HIDE DEF Unread
    <3>3. Len(gs.brokerData) \in Nat
      BY <1>0, LenProperties, Zenon
    <3>4. \A i \in 1 .. Len(gs.brokerData) + n :
             i <= Len(gs.brokerData) \/ i - Len(gs.brokerData) \in 1 .. n
      BY <3>3
    <3> QED BY <2>3, <3>2, <3>4, Zenon
  <2>6. /\ Len(Unread) = Len(gs.brokerData) + Len(wire.in)
        /\ \A i \in 1 .. Len(gs.brokerData) + Len(wire.in) : Unread[i] =
              IF i <= Len(gs.brokerData) THEN gs.brokerData[i] ELSE wire.in[i - Len(gs.brokerData)]
    BY <1>0, ConcatProperties DEF Unread
  <2>7. Len(gs.brokerData) \in Nat /\ Len(wire.in) \in Nat /\ n \in Nat /\ n <= Len(wire.in)
    <3>1. Len(gs.brokerData) \in Nat /\ Len(wire.in) \in Nat
      BY <1>0, LenProperties, Zenon
    <3> QED BY <3>1
  <2>8. Len(Unread') <= Len(Unread)
    BY <2>5, <2>6, <2>7
  <2>9. \A i \in 1 .. Len(Unread') : Unread'[i] = Unread[i]
    <3>1. \A i \in 1 .. Len(gs.brokerData) + n : i \in 1 .. Len(gs.brokerData) + Len(wire.in)
      <4>1. \A a, b, m \in Nat : m <= b => \A i \in 1 .. a + m : i \in 1 .. a + b
        OBVIOUS
      <4> QED BY <2>7, <4>1, Zenon
    <3> QED BY <2>5, <2>6, <3>1, Zenon
  <2>10. ~ split => Stream(Unread', parsed, count["in"])
    <3>1. ~ split => Stream(Unread, parsed, count["in"])
      BY Zenon DEF ReadInv
    <3>2. count["in"] \in Nat /\ Unread' \in Seq(Byte)
      BY <1>0, <2>5, Zenon
    <3> HIDE DEF Unread
    <3> QED BY <2>8, <2>9, <3>1, <3>2, StreamLost, ZenonT(30)
  <2>11. sock.state = "Connected"
    BY <2>2, Zenon DEF WriteInv
  <2> QED BY <1>0, <2>2, <2>4, <2>10, <2>11, Zenon DEF ReadInv
<1>14. CASE UNCHANGED vars
  <2>1. /\ gs' = gs /\ count' = count
        /\ sock' = sock /\ wire' = wire /\ parsed' = parsed /\ split' = split
    BY <1>14, Zenon DEF vars
  <2> QED BY <1>0, <2>1, ReadInvOther, Zenon
<1> QED BY <1>1, <1>2, <1>3, <1>4, <1>5, <1>6, <1>7, <1>8, <1>9, <1>10, <1>11, <1>12, <1>13,
           <1>14, Zenon DEF Next

\* However the network cuts the stream of the broker up and however often the
\* connection is replaced, the session is given whole messages in their order as
\* long as no connection broke within a message.
THEOREM BrokerStreamWholeHolds == Spec => []BrokerStreamWhole
<1>1. ReadInv => BrokerStreamWhole
  <2> SUFFICES ASSUME ReadInv, ~ split
               PROVE  /\ \A i \in DOMAIN parsed : Whole(parsed[i])
                      /\ \A i, j \in DOMAIN parsed : i < j => parsed[i][1][1] < parsed[j][1][1]
    BY Zenon DEF BrokerStreamWhole
  <2>1. DOMAIN parsed = 1 .. Len(parsed)
    BY LenProperties, Zenon DEF ReadInv
  <2> QED BY <2>1, Zenon DEF ReadInv, Stream
<1> QED BY <1>1, WriteInvInit, WriteInvNext, ReadInvInit, ReadInvNext, PTL, SMTT(20) DEF Spec
=============================================================================
