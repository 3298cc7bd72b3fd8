-------------------------- MODULE HandshakeProofs --------------------------
(***************************************************************************)
(* Proofs about Handshake, for any number of clients, any link layers and  *)
(* any number of failed verbs calls.                                       *)
(*                                                                         *)
(* The two ends of a connection have no framing to hold on to.  What keeps *)
(* them in step is that each end sends the same four units in the same     *)
(* order: ChanInv says that what an end has sent, by its place in the      *)
(* script, is what the other end has used up, by its own place, then what  *)
(* is in its buffer, then what is in the stream.                           *)
(***************************************************************************)
EXTENDS Handshake, SequenceTheorems, TLAPS

\* The i-th unit an end sends.
Word(e, i) == IF i = 2 THEN <<e, 1>> ELSE IF i = 3 THEN <<e, 2>> ELSE "Q"

\* How many units an end at p has sent, and how many it has used up.
Sent(p) ==
    IF p \in {"idle", "open"} THEN 0
    ELSE IF p \in {"hello", "ready"} THEN 1
    ELSE IF p \in {"closing", "joined"} THEN 4 ELSE 3

Used(p) ==
    IF p \in {"idle", "open", "hello"} THEN 0
    ELSE IF p \in {"ready", "info"} THEN 1
    ELSE IF p = "joined" THEN 4 ELSE 3

\* Of n units sent by e, u are used up, the next are in the buffer b and the
\* rest in the stream s.
Chan(e, n, u, b, s) ==
    /\ b \in Seq(Unit) /\ s \in Seq(Unit)
    /\ u + Len(b) + Len(s) = n
    /\ \A i \in 1..Len(b) : b[i] = Word(e, u + i)
    /\ \A i \in 1..Len(s) : s[i] = Word(e, u + Len(b) + i)

ChanInv ==
    \A e \in End : Chan(e, Sent(pc[e]), Used(pc[Other(e)]), buf[Other(e)], stream[e])

\* A buffer holds no more than the sync under way asks for.
BufInv ==
    \A e \in End : Len(buf[e]) <= IF pc[e] \in Receiving THEN XferSize(e) ELSE 0

\* An end that is past the exchange has the AdapterInfo of its peer.
RemoteInv ==
    \A e \in End : remote[e] = IF Used(pc[e]) >= 3 THEN InfoOf(Other(e)) ELSE <<>>

\* The state of the QP that the place in the script asks for.
QpAt(p) ==
    IF p \in {"idle", "open", "hello", "ready"} THEN "none"
    ELSE IF p \in {"info", "peer"} THEN "RESET"
    ELSE IF p = "init" THEN "INIT" ELSE IF p = "rtr" THEN "RTR" ELSE "RTS"

QpInv == faults = 0 => \A e \in End : qp[e] = QpAt(pc[e])

\* An Ethernet end gets past the transition to RTR with an Ethernet peer only.
ModeInv ==
    \A e \in End :
        pc[e] \in {"rtr", "rts", "closing", "joined"} /\ LinkLayer(e) = "eth" =>
            LinkLayer(Other(e)) = "eth"

\* An end without a link layer does not outlive the exchange.
LayerInv ==
    \A e \in End : LinkLayer(e) = "unspecified" =>
        /\ pc[e] \notin {"init", "rtr", "rts", "closing", "joined"}
        /\ pc[e] = "peer" => Owner(e) \in dead

\* A client connects once, and is accepted once.
AcceptInv ==
    /\ \A c \in Clients : main[c] = "start" => pc[<<c, "client">>] = "idle"
    /\ \A i, j \in 1..Len(backlog) : backlog[i] = backlog[j] => i = j
    /\ \A i \in 1..Len(backlog) :
          main[backlog[i]] # "start" /\ pc[<<backlog[i], "server">>] = "idle"
    /\ \A c \in Clients : main[c] = "start" => pc[<<c, "server">>] = "idle"

IndInv ==
    TypeOK /\ ChanInv /\ BufInv /\ RemoteInv /\ QpInv /\ ModeInv /\ AcceptInv

-----------------------------------------------------------------------------
(* Ends, and places in the script *)

\* The other end of a connection.
LEMMA OtherEnd ==
    ASSUME NEW e \in End
    PROVE  Other(e) \in End /\ Other(e) # e /\ Other(Other(e)) = e
  BY DEF End, Other

\* An end has an owner.
LEMMA OwnerProcess == ASSUME NEW e \in End PROVE Owner(e) \in Process
  BY DEF End, Owner, Process

\* The two ends of a client.
LEMMA ClientEnds ==
    ASSUME NEW c \in Clients
    PROVE  /\ <<c, "client">> \in End /\ <<c, "server">> \in End
           /\ <<c, "client">> # <<c, "server">>
           /\ c \in Process /\ "server" \in Process /\ c # "server"
  BY HandshakeAssumption DEF End, Process

\* What an end sends are units.
LEMMA WordUnit ==
    ASSUME NEW e \in End, NEW i \in Nat
    PROVE  Word(e, i) \in Unit
  BY DEF Word, Unit

\* The pieces of an AdapterInfo.
LEMMA InfoUnits ==
    ASSUME NEW e \in End
    PROVE  /\ InfoOf(e) \in Seq(Unit) /\ Len(InfoOf(e)) = 2
           /\ InfoOf(e)[1] = <<e, 1>> /\ InfoOf(e)[2] = <<e, 2>>
           /\ InfoOf(e)[1][1] = e
  BY DEF InfoOf, Unit

\* Counts of units.
LEMMA CountTypes ==
    ASSUME NEW p
    PROVE  Sent(p) \in Nat /\ Used(p) \in Nat
  BY DEF Sent, Used

-----------------------------------------------------------------------------
(* Channels *)

\* A short sequence, given its elements.
LEMMA ShortSeq ==
    ASSUME NEW S, NEW q \in Seq(S), Len(q) <= 2
    PROVE  \/ Len(q) = 0 /\ q = <<>>
           \/ Len(q) = 1 /\ q = <<q[1]>>
           \/ Len(q) = 2 /\ q = <<q[1], q[2]>>
  <1>1. Len(q) = 0 \/ Len(q) = 1 \/ Len(q) = 2
    <2> DEFINE k == Len(q)
    <2>1. k \in Nat /\ k <= 2
      BY LenProperties
    <2> HIDE DEF k
    <2>2. k = 0 \/ k = 1 \/ k = 2
      BY <2>1
    <2>3. QED
      BY <2>2 DEF k
  <1>2. CASE Len(q) = 0
    BY <1>2, EmptySeq
  <1>3. CASE Len(q) = 1
    <2>1. q[1] \in S
      BY <1>3, ElementOfSeq
    <2>2. <<q[1]>> \in Seq(S) /\ Len(<<q[1]>>) = 1 /\ <<q[1]>>[1] = q[1]
      BY <2>1
    <2>3. QED
      BY <1>3, <2>2, SeqEqual
  <1>4. CASE Len(q) = 2
    <2>1. q[1] \in S /\ q[2] \in S
      BY <1>4, ElementOfSeq
    <2>2. /\ <<q[1], q[2]>> \in Seq(S) /\ Len(<<q[1], q[2]>>) = 2
          /\ <<q[1], q[2]>>[1] = q[1] /\ <<q[1], q[2]>>[2] = q[2]
      BY <2>1
    <2>3. QED
      BY <1>4, <2>2, SeqEqual
  <1>5. QED
    BY <1>1, <1>2, <1>3, <1>4

\* e sends a unit or more.
LEMMA ChanSend ==
    ASSUME NEW e, NEW n \in Nat, NEW u \in Nat, NEW b, NEW s, Chan(e, n, u, b, s),
           NEW v \in Seq(Unit), \A i \in 1..Len(v) : v[i] = Word(e, n + i)
    PROVE  Chan(e, n + Len(v), u, b, s \o v)
  <1>1. /\ b \in Seq(Unit) /\ s \in Seq(Unit) /\ u + Len(b) + Len(s) = n
        /\ Len(b) \in Nat /\ Len(s) \in Nat /\ Len(v) \in Nat
    BY DEF Chan
  <1>2. /\ s \o v \in Seq(Unit) /\ Len(s \o v) = Len(s) + Len(v)
        /\ \A i \in 1..(Len(s) + Len(v)) :
              (s \o v)[i] = IF i <= Len(s) THEN s[i] ELSE v[i - Len(s)]
    BY <1>1, ConcatProperties
  <1>3. ASSUME NEW i \in 1..Len(s \o v)
        PROVE  (s \o v)[i] = Word(e, u + Len(b) + i)
    <2>1. CASE i <= Len(s)
      BY <1>1, <1>2, <2>1 DEF Chan
    <2>2. CASE i > Len(s)
      <3>1. i - Len(s) \in 1..Len(v) /\ (s \o v)[i] = v[i - Len(s)]
        BY <1>1, <1>2, <2>2
      <3>2. n + (i - Len(s)) = u + Len(b) + i
        <4> DEFINE x == Len(b)  y == Len(s)
        <4>1. x \in Nat /\ y \in Nat /\ i \in Nat /\ u + x + y = n
          BY <1>1, <1>2
        <4> HIDE DEF x, y
        <4>2. n + (i - y) = u + x + i
          BY <4>1
        <4>3. QED
          BY <4>2 DEF x, y
      <3>3. v[i - Len(s)] = Word(e, n + (i - Len(s)))
        BY <3>1
      <3>4. QED
        BY <3>1, <3>2, <3>3
    <2>3. QED
      BY <1>1, <1>2, <2>1, <2>2
  <1>4. u + Len(b) + Len(s \o v) = n + Len(v)
    <2> DEFINE x == Len(b)  y == Len(s)  z == Len(v)
    <2>1. x \in Nat /\ y \in Nat /\ z \in Nat /\ u + x + y = n /\ Len(s \o v) = y + z
      BY <1>1, <1>2
    <2> HIDE DEF x, y, z
    <2>2. u + x + Len(s \o v) = n + z
      BY <2>1
    <2>3. QED
      BY <2>2 DEF x, z
  <1>5. QED
    BY <1>1, <1>2, <1>3, <1>4 DEF Chan

\* The other end reads k units.
LEMMA ChanRead ==
    ASSUME NEW e, NEW n \in Nat, NEW u \in Nat, NEW b, NEW s, Chan(e, n, u, b, s),
           NEW k \in 1..Len(s)
    PROVE  /\ Chan(e, n, u, b \o SubSeq(s, 1, k), SubSeq(s, k + 1, Len(s)))
           /\ Len(b \o SubSeq(s, 1, k)) = Len(b) + k
  <1> DEFINE v == SubSeq(s, 1, k)
             r == SubSeq(s, k + 1, Len(s))
  <1>1. /\ b \in Seq(Unit) /\ s \in Seq(Unit) /\ u + Len(b) + Len(s) = n
        /\ Len(b) \in Nat /\ Len(s) \in Nat /\ k \in Nat /\ k >= 1 /\ k <= Len(s)
        /\ \A i \in 1..Len(b) : b[i] = Word(e, u + i)
        /\ \A i \in 1..Len(s) : s[i] = Word(e, u + Len(b) + i)
    BY DEF Chan
  <1>2. /\ v \in Seq(Unit) /\ Len(v) = k
        /\ \A i \in 1..k : v[i] = s[i]
    BY <1>1
  <1>3. /\ r \in Seq(Unit) /\ Len(r) = Len(s) - k
        /\ \A i \in 1..(Len(s) - k) : r[i] = s[k + i]
    BY <1>1
  <1> HIDE DEF v, r
  <1>4. /\ b \o v \in Seq(Unit) /\ Len(b \o v) = Len(b) + k
        /\ \A i \in 1..(Len(b) + k) :
              (b \o v)[i] = IF i <= Len(b) THEN b[i] ELSE v[i - Len(b)]
    <2>1. b \in Seq(Unit) /\ v \in Seq(Unit)
      BY <1>1, <1>2
    <2>2. /\ b \o v \in Seq(Unit) /\ Len(b \o v) = Len(b) + Len(v)
          /\ \A i \in 1..(Len(b) + Len(v)) :
                (b \o v)[i] = IF i <= Len(b) THEN b[i] ELSE v[i - Len(b)]
      BY <2>1, ConcatProperties, Zenon
    <2>3. QED
      BY <1>2, <2>2
  <1>5. ASSUME NEW i \in 1..Len(b \o v) PROVE (b \o v)[i] = Word(e, u + i)
    <2>1. CASE i <= Len(b)
      BY <1>1, <1>2, <1>4, <2>1
    <2>2. CASE i > Len(b)
      <3>1. i - Len(b) \in 1..k /\ (b \o v)[i] = v[i - Len(b)]
        BY <1>1, <1>2, <1>4, <2>2
      <3>2. v[i - Len(b)] = s[i - Len(b)] /\ i - Len(b) \in 1..Len(s)
        BY <1>1, <1>2, <3>1
      <3>3. u + Len(b) + (i - Len(b)) = u + i
        BY <1>1, <1>4
      <3>4. s[i - Len(b)] = Word(e, u + Len(b) + (i - Len(b)))
        BY <1>1, <3>2
      <3>5. QED
        BY <3>1, <3>2, <3>3, <3>4
    <2>3. QED
      BY <1>1, <1>4, <2>1, <2>2
  <1>6. ASSUME NEW i \in 1..Len(r) PROVE r[i] = Word(e, u + Len(b \o v) + i)
    <2>1. r[i] = s[k + i] /\ k + i \in 1..Len(s)
      BY <1>1, <1>3
    <2>2. u + Len(b) + (k + i) = u + Len(b \o v) + i
      BY <1>1, <1>3, <1>4
    <2>3. s[k + i] = Word(e, u + Len(b) + (k + i))
      BY <1>1, <2>1
    <2>4. QED
      BY <2>1, <2>2, <2>3
  <1>7. u + Len(b \o v) + Len(r) = n
    <2>1. PICK x \in Nat, y \in Nat : x = Len(b) /\ y = Len(s) /\ u + x + y = n
      BY <1>1
    <2>2. Len(b \o v) = x + k /\ Len(r) = y - k
      BY <1>3, <1>4, <2>1
    <2>3. k \in Int
      OBVIOUS
    <2>4. u + (x + k) + (y - k) = n
      BY <2>1, <2>3
    <2>5. QED
      BY <2>2, <2>4
  <1>8. Chan(e, n, u, b \o v, r)
    BY <1>3, <1>4, <1>5, <1>6, <1>7 DEF Chan
  <1>9. QED
    BY <1>4, <1>8 DEF v, r

\* The other end uses up what is in its buffer.
LEMMA ChanUse ==
    ASSUME NEW e, NEW n \in Nat, NEW u \in Nat, NEW b, NEW s, Chan(e, n, u, b, s)
    PROVE  Chan(e, n, u + Len(b), <<>>, s)
  <1>1. /\ b \in Seq(Unit) /\ s \in Seq(Unit) /\ u + Len(b) + Len(s) = n
        /\ Len(b) \in Nat /\ Len(s) \in Nat
        /\ \A i \in 1..Len(s) : s[i] = Word(e, u + Len(b) + i)
    BY DEF Chan
  <1>2. <<>> \in Seq(Unit) /\ Len(<<>>) = 0
    OBVIOUS
  <1>3. (u + Len(b)) + Len(<<>>) + Len(s) = n
    BY <1>1, <1>2
  <1>4. ASSUME NEW i \in 1..Len(s)
        PROVE  s[i] = Word(e, (u + Len(b)) + Len(<<>>) + i)
    <2>1. (u + Len(b)) + Len(<<>>) + i = u + Len(b) + i
      BY <1>1, <1>2
    <2>2. QED
      BY <1>1, <2>1
  <1>5. QED
    BY <1>1, <1>2, <1>3, <1>4 DEF Chan

-----------------------------------------------------------------------------
(* What the steps do to the channels *)

\* What the invariant says of the two channels of an end.
LEMMA ChanFacts ==
    ASSUME IndInv, NEW e \in End
    PROVE  /\ Chan(e, Sent(pc[e]), Used(pc[Other(e)]), buf[Other(e)], stream[e])
           /\ Chan(Other(e), Sent(pc[Other(e)]), Used(pc[e]), buf[e], stream[Other(e)])
           /\ buf[e] \in Seq(Unit) /\ stream[e] \in Seq(Unit) /\ Len(buf[e]) \in Nat
           /\ pc[e] \in Pc /\ pc[Other(e)] \in Pc
  <1>1. Other(e) \in End /\ Other(Other(e)) = e
    BY OtherEnd
  <1>2. QED
    BY <1>1 DEF IndInv, TypeOK, ChanInv

\* A step that leaves streams and buffers alone, and moves no end past a sync.
LEMMA QuietChan ==
    ASSUME IndInv, UNCHANGED <<stream, buf>>,
           \A e \in End : /\ Sent(pc'[e]) = Sent(pc[e]) /\ Used(pc'[e]) = Used(pc[e])
                          /\ pc'[e] # pc[e] => pc[e] \notin Receiving
    PROVE  ChanInv' /\ BufInv'
  <1>1. ChanInv'
    BY OtherEnd DEF IndInv, ChanInv
  <1>2. ASSUME NEW e \in End
        PROVE  Len(buf[e]) <= IF pc'[e] \in Receiving THEN XferSize(e)' ELSE 0
    <2>1. Len(buf[e]) \in Nat
      BY ChanFacts
    <2>2. CASE pc'[e] = pc[e]
      BY <2>2 DEF IndInv, BufInv, XferSize
    <2>3. CASE pc'[e] # pc[e]
      <3>1. Len(buf[e]) <= 0
        BY <2>3 DEF IndInv, BufInv
      <3>2. QED
        BY <2>1, <3>1 DEF XferSize
    <2>4. QED
      BY <2>2, <2>3
  <1>3. BufInv'
    BY <1>2 DEF BufInv
  <1>4. QED
    BY <1>1, <1>3

\* The first half of a sync.
LEMMA SendChan ==
    ASSUME IndInv, NEW e \in End, NEW from, NEW to, NEW v \in Seq(Unit),
           SendData(e, from, to, v), UNCHANGED buf,
           from \notin Receiving, Used(to) = Used(from), Sent(to) = Sent(from) + Len(v),
           \A i \in 1..Len(v) : v[i] = Word(e, Sent(from) + i)
    PROVE  ChanInv' /\ BufInv' /\ stream' \in [End -> Seq(Unit)]
  <1>1. /\ pc[e] = from /\ pc' = [pc EXCEPT ![e] = to]
        /\ stream' = [stream EXCEPT ![e] = stream[e] \o v]
    BY DEF SendData
  <1>2. /\ pc \in [End -> Pc] /\ stream \in [End -> Seq(Unit)]
    BY DEF IndInv, TypeOK
  <1>3. /\ \A f \in End : f # e => pc'[f] = pc[f] /\ stream'[f] = stream[f]
        /\ pc'[e] = to /\ stream'[e] = stream[e] \o v
    BY <1>1, <1>2
  <1>4. \A f \in End : Used(pc'[f]) = Used(pc[f])
    BY <1>1, <1>3
  <1>5. ASSUME NEW f \in End
        PROVE  Chan(f, Sent(pc'[f]), Used(pc'[Other(f)]), buf[Other(f)], stream'[f])
    <2>1. Other(f) \in End
      BY OtherEnd
    <2>2. Chan(f, Sent(pc[f]), Used(pc[Other(f)]), buf[Other(f)], stream[f])
      BY ChanFacts
    <2>3. CASE f # e
      BY <1>3, <1>4, <2>1, <2>2, <2>3
    <2>4. CASE f = e
      <3>1. Sent(from) \in Nat /\ Used(pc[Other(e)]) \in Nat
        BY CountTypes
      <3>2. Chan(e, Sent(from) + Len(v), Used(pc[Other(e)]), buf[Other(e)], stream[e] \o v)
        BY <1>1, <2>2, <2>4, <3>1, ChanSend
      <3>3. QED
        BY <1>3, <1>4, <2>1, <2>4, <3>2
    <2>5. QED
      BY <2>3, <2>4
  <1>6. ChanInv'
    BY <1>5 DEF ChanInv
  <1>7. ASSUME NEW f \in End
        PROVE  Len(buf[f]) <= IF pc'[f] \in Receiving THEN XferSize(f)' ELSE 0
    <2>1. Len(buf[f]) \in Nat
      BY ChanFacts
    <2>2. CASE f # e
      BY <1>3, <2>2 DEF IndInv, BufInv, XferSize
    <2>3. CASE f = e
      <3>1. Len(buf[f]) <= 0
        BY <1>1, <2>3 DEF IndInv, BufInv
      <3>2. QED
        BY <2>1, <3>1 DEF XferSize
    <2>4. QED
      BY <2>2, <2>3
  <1>8. BufInv'
    BY <1>7 DEF BufInv
  <1>9. stream[e] \o v \in Seq(Unit)
    BY <1>2, ConcatProperties
  <1>10. QED
    BY <1>1, <1>2, <1>6, <1>8, <1>9

\* One recv of recv_data_force.
LEMMA ReadChan ==
    ASSUME IndInv, NEW e \in End, RecvData(e)
    PROVE  ChanInv' /\ BufInv' /\ stream' \in [End -> Seq(Unit)] /\ buf' \in [End -> Seq(Unit)]
  <1> DEFINE o == Other(e)
  <1>1. PICK k \in 1..(XferSize(e) - Len(buf[e])) :
          /\ k <= Len(stream[o])
          /\ buf' = [buf EXCEPT ![e] = buf[e] \o SubSeq(stream[o], 1, k)]
          /\ stream' = [stream EXCEPT ![o] = SubSeq(stream[o], k + 1, Len(stream[o]))]
    BY DEF RecvData
  <1>2. UNCHANGED pc /\ pc[e] \in Receiving
    BY DEF RecvData
  <1>3. buf \in [End -> Seq(Unit)] /\ stream \in [End -> Seq(Unit)]
    BY DEF IndInv, TypeOK
  <1>4. o \in End /\ o # e /\ Other(o) = e
    BY OtherEnd
  <1> HIDE DEF o
  <1>5. /\ \A f \in End : f # e => buf'[f] = buf[f]
        /\ \A f \in End : f # o => stream'[f] = stream[f]
        /\ buf'[e] = buf[e] \o SubSeq(stream[o], 1, k)
        /\ stream'[o] = SubSeq(stream[o], k + 1, Len(stream[o]))
    BY <1>1, <1>3, <1>4
  <1>6. XferSize(e) \in Nat /\ XferSize(e)' = XferSize(e) /\ Len(buf[e]) \in Nat
    BY <1>2, ChanFacts DEF XferSize
  <1>7. k \in 1..Len(stream[o]) /\ k <= XferSize(e) - Len(buf[e]) /\ k \in Nat
    BY <1>1, <1>3, <1>4, <1>6, LenProperties
  <1>8. /\ Chan(o, Sent(pc[o]), Used(pc[e]), buf'[e], stream'[o])
        /\ Len(buf'[e]) = Len(buf[e]) + k
    <2>1. Sent(pc[o]) \in Nat /\ Used(pc[e]) \in Nat
      BY CountTypes
    <2>2. Chan(o, Sent(pc[o]), Used(pc[e]), buf[e], stream[o])
      BY ChanFacts DEF o
    <2>3. QED
      BY <1>5, <1>7, <2>1, <2>2, ChanRead
  <1>9. ASSUME NEW f \in End
        PROVE  Chan(f, Sent(pc[f]), Used(pc[Other(f)]), buf'[Other(f)], stream'[f])
    <2>1. CASE f = o
      BY <1>4, <1>8, <2>1
    <2>2. CASE f # o
      <3>1. Other(f) # e /\ Other(f) \in End
        BY <2>2, OtherEnd DEF o
      <3>2. Chan(f, Sent(pc[f]), Used(pc[Other(f)]), buf[Other(f)], stream[f])
        BY ChanFacts
      <3>3. QED
        BY <1>5, <2>2, <3>1, <3>2
    <2>3. QED
      BY <2>1, <2>2
  <1>10. ChanInv'
    BY <1>2, <1>9 DEF ChanInv
  <1>11. Len(buf'[e]) <= XferSize(e)
    <2> DEFINE x == Len(buf[e])  y == XferSize(e)
    <2>1. x \in Nat /\ y \in Nat /\ k <= y - x /\ Len(buf'[e]) = x + k
      BY <1>6, <1>7, <1>8
    <2> HIDE DEF x, y
    <2>2. Len(buf'[e]) <= y
      BY <2>1, <1>7
    <2>3. QED
      BY <2>2 DEF y
  <1>12. \A f \in End : XferSize(f)' = XferSize(f)
    BY <1>2 DEF XferSize
  <1>13. BufInv'
    <2>1. ASSUME NEW f \in End
          PROVE  Len(buf'[f]) <= IF pc'[f] \in Receiving THEN XferSize(f)' ELSE 0
      <3>1. CASE f = e
        BY <1>2, <1>11, <1>12, <3>1
      <3>2. CASE f # e
        BY <1>2, <1>5, <1>12, <3>2 DEF IndInv, BufInv
      <3>3. QED
        BY <3>1, <3>2
    <2>2. QED
      BY <2>1 DEF BufInv
  <1>14. buf'[e] \in Seq(Unit) /\ stream'[o] \in Seq(Unit)
    BY <1>8 DEF Chan
  <1>15. stream' \in [End -> Seq(Unit)] /\ buf' \in [End -> Seq(Unit)]
    BY <1>1, <1>3, <1>4, <1>5, <1>14
  <1>16. QED
    BY <1>10, <1>13, <1>15

\* recv_data_force returns: the end uses what it has read.
LEMMA UseChan ==
    ASSUME IndInv, NEW e \in End, NEW from \in Receiving, NEW to, Received(e, from),
           pc' = [pc EXCEPT ![e] = to], UNCHANGED stream,
           to \notin Receiving, Sent(to) = Sent(from),
           Used(to) = Used(from) + (IF from = "info" THEN 2 ELSE 1)
    PROVE  ChanInv' /\ BufInv' /\ buf' \in [End -> Seq(Unit)]
  <1>1. /\ pc[e] = from /\ Len(buf[e]) = XferSize(e)
        /\ buf' = [buf EXCEPT ![e] = <<>>]
    BY DEF Received
  <1>2. buf \in [End -> Seq(Unit)] /\ pc \in [End -> Pc]
    BY DEF IndInv, TypeOK
  <1>3. /\ \A f \in End : f # e => buf'[f] = buf[f] /\ pc'[f] = pc[f]
        /\ buf'[e] = <<>> /\ pc'[e] = to
    BY <1>1, <1>2
  <1>4. Used(to) = Used(from) + Len(buf[e])
    BY <1>1 DEF XferSize
  <1>5. ASSUME NEW f \in End
        PROVE  Chan(f, Sent(pc'[f]), Used(pc'[Other(f)]), buf'[Other(f)], stream[f])
    <2>1. Other(f) \in End /\ Other(Other(f)) = f
      BY OtherEnd
    <2>2. Chan(f, Sent(pc[f]), Used(pc[Other(f)]), buf[Other(f)], stream[f])
      BY ChanFacts
    <2>3. Sent(pc'[f]) = Sent(pc[f])
      BY <1>1, <1>3
    <2>4. CASE Other(f) # e
      BY <1>3, <2>1, <2>2, <2>3, <2>4
    <2>5. CASE Other(f) = e
      <3>1. Sent(pc[f]) \in Nat /\ Used(from) \in Nat
        BY CountTypes
      <3>2. Chan(f, Sent(pc[f]), Used(from) + Len(buf[e]), <<>>, stream[f])
        BY <1>1, <2>2, <2>5, <3>1, ChanUse
      <3>3. QED
        BY <1>3, <1>4, <2>3, <2>5, <3>2
    <2>6. QED
      BY <2>4, <2>5
  <1>6. ChanInv'
    BY <1>5 DEF ChanInv
  <1>7. BufInv'
    <2>1. ASSUME NEW f \in End
          PROVE  Len(buf'[f]) <= IF pc'[f] \in Receiving THEN XferSize(f)' ELSE 0
      <3>1. CASE f = e
        BY <1>3, <3>1
      <3>2. CASE f # e
        BY <1>3, <3>2 DEF IndInv, BufInv, XferSize
      <3>3. QED
        BY <3>1, <3>2
    <2>2. QED
      BY <2>1 DEF BufInv
  <1>8. buf' \in [End -> Seq(Unit)]
    BY <1>1, <1>2
  <1>9. QED
    BY <1>6, <1>7, <1>8

\* What a sync reads is what the other end sent for it.
LEMMA SyncReads ==
    ASSUME IndInv, NEW e \in End
    PROVE  /\ pc[e] \in {"hello", "closing"} => buf[e] \in {<<>>, <<"Q">>}
           /\ pc[e] = "info" =>
                 /\ buf[e] \in {<<>>, <<<<Other(e), 1>>>>, InfoOf(Other(e))}
                 /\ Len(buf[e]) = 2 => buf[e] = InfoOf(Other(e))
  <1>1. /\ buf[e] \in Seq(Unit) /\ Len(buf[e]) \in Nat
        /\ \A i \in 1..Len(buf[e]) : buf[e][i] = Word(Other(e), Used(pc[e]) + i)
    BY ChanFacts DEF Chan
  <1>2. ASSUME pc[e] \in {"hello", "closing"} PROVE buf[e] \in {<<>>, <<"Q">>}
    <2>1. Len(buf[e]) <= 1
      BY <1>2 DEF IndInv, BufInv, Receiving, XferSize
    <2>2. Len(buf[e]) = 1 => buf[e][1] = "Q"
      BY <1>1, <1>2 DEF Word, Used
    <2>3. \/ Len(buf[e]) = 0 /\ buf[e] = <<>>
          \/ Len(buf[e]) = 1 /\ buf[e] = <<buf[e][1]>>
          \/ Len(buf[e]) = 2
      <3>1. Len(buf[e]) <= 2
        BY <1>1, <2>1
      <3>2. QED
        BY <1>1, <3>1, ShortSeq
    <2>4. QED
      BY <2>1, <2>2, <2>3
  <1>3. ASSUME pc[e] = "info"
        PROVE  /\ buf[e] \in {<<>>, <<<<Other(e), 1>>>>, InfoOf(Other(e))}
               /\ Len(buf[e]) = 2 => buf[e] = InfoOf(Other(e))
    <2>1. Len(buf[e]) <= 2
      BY <1>3 DEF IndInv, BufInv, Receiving, XferSize
    <2>2. Len(buf[e]) >= 1 => buf[e][1] = <<Other(e), 1>>
      BY <1>1, <1>3 DEF Word, Used
    <2>3. Len(buf[e]) >= 2 => buf[e][2] = <<Other(e), 2>>
      BY <1>1, <1>3 DEF Word, Used
    <2>4. \/ Len(buf[e]) = 0 /\ buf[e] = <<>>
          \/ Len(buf[e]) = 1 /\ buf[e] = <<buf[e][1]>>
          \/ Len(buf[e]) = 2 /\ buf[e] = <<buf[e][1], buf[e][2]>>
      BY <1>1, <2>1, ShortSeq
    <2>5. CASE Len(buf[e]) = 0
      BY <2>4, <2>5
    <2>6. CASE Len(buf[e]) = 1
      <3>1. buf[e][1] = <<Other(e), 1>>
        BY <2>2, <2>6
      <3>2. buf[e] = <<buf[e][1]>>
        BY <2>4, <2>6
      <3>3. buf[e] = <<<<Other(e), 1>>>>
        BY <3>1, <3>2, Zenon
      <3>4. Len(buf[e]) # 2
        BY <2>6
      <3>5. QED
        BY <3>3, <3>4
    <2>7. CASE Len(buf[e]) = 2
      <3>1. buf[e][1] = <<Other(e), 1>> /\ buf[e][2] = <<Other(e), 2>>
        BY <2>2, <2>3, <2>7
      <3>2. buf[e] = <<buf[e][1], buf[e][2]>>
        BY <2>4, <2>7
      <3>3. buf[e] = InfoOf(Other(e))
        BY <3>1, <3>2, Zenon DEF InfoOf
      <3>4. QED
        BY <3>3
    <2>8. QED
      BY <2>4, <2>5, <2>6, <2>7
  <1>4. QED
    BY <1>2, <1>3

-----------------------------------------------------------------------------
(* The steps *)

Late == {"rtr", "rts", "closing", "joined"}

\* An end moves on in the script: what that leaves alone.
LEMMA MoveKeeps ==
    ASSUME IndInv, NEW e \in End, NEW from, NEW to \in Pc, from # "idle",
           pc[e] = from, pc' = [pc EXCEPT ![e] = to], UNCHANGED <<backlog, port>>,
           \A c \in Clients : main'[c] = "start" <=> main[c] = "start"
    PROVE  /\ AcceptInv' /\ pc' \in [End -> Pc]
           /\ (to \in Late => from \in Late) => ModeInv'
           /\ UNCHANGED remote /\ (Used(from) >= 3 <=> Used(to) >= 3) => RemoteInv'
           /\ UNCHANGED <<qp, faults>> /\ QpAt(from) = QpAt(to) => QpInv'
  <1>1. pc \in [End -> Pc] /\ backlog \in Seq(Clients)
    BY DEF IndInv, TypeOK
  <1>2. /\ pc' \in [End -> Pc] /\ pc'[e] = to
        /\ \A f \in End : f # e => pc'[f] = pc[f]
    BY <1>1
  <1>3. \A f \in End : pc[f] = "idle" => pc'[f] = "idle"
    BY <1>2
  <1>4. AcceptInv'
    <2>1. \A i \in 1..Len(backlog) : backlog[i] \in Clients
      BY <1>1, ElementOfSeq
    <2>2. QED
      BY <1>3, <2>1, ClientEnds DEF IndInv, AcceptInv
  <1>5. (to \in Late => from \in Late) => ModeInv'
    <2>1. \A f \in End : LinkLayer(f)' = LinkLayer(f) /\ LinkLayer(Other(f))' = LinkLayer(Other(f))
      BY DEF LinkLayer, Owner, Other
    <2>2. QED
      BY <1>2, <2>1 DEF IndInv, ModeInv, Late
  <1>6. UNCHANGED remote /\ (Used(from) >= 3 <=> Used(to) >= 3) => RemoteInv'
    BY <1>2 DEF IndInv, RemoteInv
  <1>7. UNCHANGED <<qp, faults>> /\ QpAt(from) = QpAt(to) => QpInv'
    BY <1>2 DEF IndInv, QpInv
  <1>8. QED
    BY <1>2, <1>4, <1>5, <1>6, <1>7

\* A step that moves no end, reads and sends nothing.
LEMMA StillStep ==
    ASSUME IndInv, UNCHANGED <<pc, stream, buf, remote, qp, port>>,
           main' \in [Process -> Main], tries' \in [Clients -> 0..MaxTries],
           endpoints' \in Seq(Clients), faults' \in 0..MaxFaults, dead' \subseteq Process,
           faults' = 0 => faults = 0, UNCHANGED backlog,
           \A c \in Clients : main'[c] = "start" <=> main[c] = "start"
    PROVE  IndInv'
  <1>1. TypeOK'
    BY DEF IndInv, TypeOK
  <1>2. ChanInv' /\ BufInv'
    BY QuietChan
  <1>3. RemoteInv' /\ QpInv'
    BY DEF IndInv, RemoteInv, QpInv
  <1>4. ModeInv'
    BY DEF IndInv, ModeInv, LinkLayer
  <1>5. AcceptInv'
    <2>1. \A i \in 1..Len(backlog) : backlog[i] \in Clients
      BY ElementOfSeq DEF IndInv, TypeOK
    <2>2. QED
      BY <2>1 DEF IndInv, AcceptInv
  <1>6. QED
    BY <1>1, <1>2, <1>3, <1>4, <1>5 DEF IndInv

LEMMA ListenStep == ASSUME IndInv, Listen PROVE IndInv'
  <1>1. /\ main' = [main EXCEPT !["server"] = "accept"]
        /\ UNCHANGED <<tries, backlog, endpoints, pc, stream, buf, remote, qp, port,
                       faults, dead>>
    BY DEF Listen
  <1>2. TypeOK
    BY DEF IndInv
  <1>3. main' \in [Process -> Main] /\ \A c \in Clients : main'[c] = main[c]
    BY <1>1, <1>2, HandshakeAssumption DEF TypeOK, Main, Process
  <1>4. QED
    BY <1>1, <1>2, <1>3, StillStep DEF TypeOK

LEMMA ConnectFailsStep ==
    ASSUME IndInv, NEW c \in Clients, ConnectFails(c) PROVE IndInv'
  <1>1. /\ tries[c] < MaxTries /\ tries' = [tries EXCEPT ![c] = @ + 1]
        /\ dead' = IF tries'[c] = MaxTries THEN dead \cup {c} ELSE dead
        /\ UNCHANGED <<main, backlog, endpoints, pc, stream, buf, remote, qp, port, faults>>
    BY DEF ConnectFails
  <1>2. TypeOK
    BY DEF IndInv
  <1>3. tries' \in [Clients -> 0..MaxTries]
    BY <1>1, <1>2, HandshakeAssumption DEF TypeOK
  <1>4. dead' \subseteq Process
    BY <1>1, <1>2, ClientEnds DEF TypeOK
  <1>5. QED
    BY <1>1, <1>2, <1>3, <1>4, StillStep DEF TypeOK

LEMMA SocketFailsStep ==
    ASSUME IndInv, NEW p \in Process, SocketFails(p) PROVE IndInv'
  <1>1. /\ dead' = dead \cup {p}
        /\ UNCHANGED <<main, tries, backlog, endpoints, pc, stream, buf, remote, qp, port,
                       faults>>
    BY DEF SocketFails
  <1>2. TypeOK
    BY DEF IndInv
  <1>3. dead' \subseteq Process
    BY <1>1, <1>2 DEF TypeOK
  <1>4. QED
    BY <1>1, <1>2, <1>3, StillStep DEF TypeOK

LEMMA RunStep == ASSUME IndInv, NEW p \in Process, Run(p) PROVE IndInv'
  <1>1. /\ main[p] = "connecting" /\ main' = [main EXCEPT ![p] = "running"]
        /\ UNCHANGED <<tries, backlog, endpoints, pc, stream, buf, remote, qp, port,
                       faults, dead>>
    BY DEF Run
  <1>2. TypeOK
    BY DEF IndInv
  <1>3. /\ main' \in [Process -> Main]
        /\ \A c \in Clients : main'[c] = "start" <=> main[c] = "start"
    BY <1>1, <1>2 DEF TypeOK, Main, Process
  <1>4. QED
    BY <1>1, <1>2, <1>3, StillStep DEF TypeOK

LEMMA DieStep ==
    ASSUME IndInv, NEW e \in End, LoadFails(e) \/ Reset(e) PROVE IndInv'
  <1>1. /\ dead' = dead \cup {Owner(e)}
        /\ UNCHANGED <<main, tries, backlog, endpoints, pc, stream, buf, remote, qp, port>>
        /\ faults' = faults \/ (faults < MaxFaults /\ faults' = faults + 1)
    BY DEF LoadFails, Reset
  <1>2. TypeOK
    BY DEF IndInv
  <1>3. dead' \subseteq Process
    BY <1>1, <1>2, OwnerProcess DEF TypeOK
  <1>4. faults' \in 0..MaxFaults /\ (faults' = 0 => faults = 0)
    BY <1>1, <1>2, HandshakeAssumption DEF TypeOK
  <1>5. QED
    BY <1>1, <1>2, <1>3, <1>4, StillStep DEF TypeOK

\* connect: the client's end opens, and the client joins the backlog.
LEMMA ConnectStep == ASSUME IndInv, NEW c \in Clients, Connect(c) PROVE IndInv'
  <1> DEFINE e == <<c, "client">>
  <1>1. /\ main[c] = "start" /\ main' = [main EXCEPT ![c] = "greet"]
        /\ tries' = [tries EXCEPT ![c] = 0]
        /\ backlog' = Append(backlog, c) /\ pc' = [pc EXCEPT ![e] = "open"]
        /\ UNCHANGED <<endpoints, stream, buf, remote, qp, port, faults, dead>>
    BY DEF Connect
  <1>2. TypeOK
    BY DEF IndInv
  <1>3. e \in End /\ <<c, "server">> \in End /\ e # <<c, "server">> /\ c \in Process
    BY ClientEnds
  <1>4. pc[e] = "idle" /\ pc[<<c, "server">>] = "idle"
    BY <1>1 DEF IndInv, AcceptInv
  <1>5. pc \in [End -> Pc] /\ main \in [Process -> Main] /\ backlog \in Seq(Clients)
    BY <1>2 DEF TypeOK
  <1>6. \A d \in Clients : <<d, "server">> \in End /\ <<d, "server">> # e
                           /\ <<d, "client">> \in End /\ (d # c => <<d, "client">> # e)
    BY ClientEnds
  <1> HIDE DEF e
  <1>7. /\ pc'[e] = "open" /\ \A f \in End : f # e => pc'[f] = pc[f]
        /\ main'[c] = "greet" /\ \A p \in Process : p # c => main'[p] = main[p]
    BY <1>1, <1>3, <1>5
  <1>8. /\ backlog' \in Seq(Clients) /\ Len(backlog') = Len(backlog) + 1
        /\ \A i \in 1..Len(backlog) : backlog'[i] = backlog[i] /\ backlog[i] \in Clients
        /\ backlog'[Len(backlog) + 1] = c /\ Len(backlog) \in Nat
    BY <1>1, <1>5, AppendProperties, ElementOfSeq, LenProperties
  <1>9. \A i \in 1..Len(backlog) : backlog[i] # c
    BY <1>1 DEF IndInv, AcceptInv
  <1>10. TypeOK'
    <2>1. pc' \in [End -> Pc]
      BY <1>1, <1>5 DEF Pc
    <2>2. main' \in [Process -> Main]
      BY <1>1, <1>5 DEF Main
    <2>3. tries' \in [Clients -> 0..MaxTries]
      BY <1>1, <1>2, HandshakeAssumption DEF TypeOK
    <2>4. QED
      BY <1>1, <1>2, <1>8, <2>1, <2>2, <2>3 DEF TypeOK
  <1>11. ChanInv' /\ BufInv'
    <2>1. \A f \in End : /\ Sent(pc'[f]) = Sent(pc[f]) /\ Used(pc'[f]) = Used(pc[f])
                         /\ pc'[f] # pc[f] => pc[f] \notin Receiving
      BY <1>4, <1>7 DEF Sent, Used, Receiving
    <2>2. QED
      BY <1>1, <2>1, QuietChan
  <1>12. RemoteInv' /\ QpInv'
    <2>1. \A f \in End : Used(pc'[f]) = Used(pc[f]) /\ QpAt(pc'[f]) = QpAt(pc[f])
      BY <1>4, <1>7 DEF Used, QpAt
    <2>2. QED
      BY <1>1, <2>1 DEF IndInv, RemoteInv, QpInv
  <1>13. ModeInv'
    BY <1>1, <1>7 DEF IndInv, ModeInv, LinkLayer
  <1>14. AcceptInv'
    <2>1. \A d \in Clients : main'[d] = "start" =>
              pc'[<<d, "client">>] = "idle" /\ pc'[<<d, "server">>] = "idle"
      BY <1>6, <1>7, ClientEnds DEF IndInv, AcceptInv
    <2>2. \A i \in 1..Len(backlog') : i \in 1..Len(backlog) \/ i = Len(backlog) + 1
      BY <1>8
    <2>3. \A i, j \in 1..Len(backlog') : backlog'[i] = backlog'[j] => i = j
      BY <1>8, <1>9, <2>2 DEF IndInv, AcceptInv
    <2>4. ASSUME NEW i \in 1..Len(backlog')
          PROVE  main'[backlog'[i]] # "start" /\ pc'[<<backlog'[i], "server">>] = "idle"
      <3>1. CASE i = Len(backlog) + 1
        BY <1>4, <1>6, <1>7, <1>8, <3>1
      <3>2. CASE i \in 1..Len(backlog)
        <4>1. backlog'[i] = backlog[i] /\ backlog[i] \in Clients /\ backlog[i] # c
          BY <1>8, <1>9, <3>2
        <4>2. main[backlog[i]] # "start" /\ pc[<<backlog[i], "server">>] = "idle"
          BY <3>2 DEF IndInv, AcceptInv
        <4>3. QED
          BY <1>6, <1>7, <4>1, <4>2, ClientEnds
      <3>3. QED
        BY <2>2, <3>1, <3>2
    <2>5. QED
      BY <2>1, <2>3, <2>4 DEF AcceptInv
  <1>15. QED
    BY <1>10, <1>11, <1>12, <1>13, <1>14 DEF IndInv

\* accept: the server's end opens.
LEMMA AcceptStep == ASSUME IndInv, Accept PROVE IndInv'
  <1>0. PICK c : c = Head(backlog)
    OBVIOUS
  <1> DEFINE e == <<c, "server">>
  <1>1. /\ backlog # <<>> /\ main' = [main EXCEPT !["server"] = "greet"]
        /\ backlog' = Tail(backlog) /\ pc' = [pc EXCEPT ![e] = "open"]
        /\ UNCHANGED <<tries, endpoints, stream, buf, remote, qp, port, faults, dead>>
    BY <1>0 DEF Accept
  <1>2. TypeOK
    BY DEF IndInv
  <1>3. pc \in [End -> Pc] /\ main \in [Process -> Main] /\ backlog \in Seq(Clients)
    BY <1>2 DEF TypeOK
  <1>4. /\ backlog' \in Seq(Clients) /\ Len(backlog') = Len(backlog) - 1
        /\ \A i \in 1..Len(backlog') : backlog'[i] = backlog[i + 1]
        /\ Len(backlog) \in Nat \ {0} /\ c \in Clients
    BY <1>0, <1>1, <1>3, HeadTailProperties, EmptySeq
  <1>5. c = backlog[1]
    BY <1>0, <1>1, <1>3
  <1>6. e \in End /\ c \in Process /\ c # "server"
    BY <1>4, ClientEnds
  <1>7. pc[e] = "idle" /\ main[c] # "start"
    BY <1>4, <1>5 DEF IndInv, AcceptInv
  <1>8. \A d \in Clients : /\ <<d, "server">> \in End /\ (d # c => <<d, "server">> # e)
                           /\ <<d, "client">> \in End /\ <<d, "client">> # e
    BY ClientEnds
  <1> HIDE DEF e
  <1>9. /\ pc'[e] = "open" /\ \A f \in End : f # e => pc'[f] = pc[f]
        /\ \A p \in Process : p # "server" => main'[p] = main[p]
    BY <1>1, <1>3, <1>6
  <1>10. TypeOK'
    <2>1. pc' \in [End -> Pc]
      BY <1>1, <1>3 DEF Pc
    <2>2. main' \in [Process -> Main]
      BY <1>1, <1>3 DEF Main
    <2>3. QED
      BY <1>1, <1>2, <1>4, <2>1, <2>2 DEF TypeOK
  <1>11. ChanInv' /\ BufInv'
    <2>1. \A f \in End : /\ Sent(pc'[f]) = Sent(pc[f]) /\ Used(pc'[f]) = Used(pc[f])
                         /\ pc'[f] # pc[f] => pc[f] \notin Receiving
      BY <1>7, <1>9 DEF Sent, Used, Receiving
    <2>2. QED
      BY <1>1, <2>1, QuietChan
  <1>12. RemoteInv' /\ QpInv'
    <2>1. \A f \in End : Used(pc'[f]) = Used(pc[f]) /\ QpAt(pc'[f]) = QpAt(pc[f])
      BY <1>7, <1>9 DEF Used, QpAt
    <2>2. QED
      BY <1>1, <2>1 DEF IndInv, RemoteInv, QpInv
  <1>13. ModeInv'
    BY <1>1, <1>9 DEF IndInv, ModeInv, LinkLayer
  <1>14. AcceptInv'
    <2>1. \A d \in Clients : d \in Process /\ main'[d] = main[d]
      BY <1>9, ClientEnds
    <2>2. \A d \in Clients : main'[d] = "start" =>
              pc'[<<d, "client">>] = "idle" /\ pc'[<<d, "server">>] = "idle"
      BY <1>7, <1>8, <1>9, <2>1 DEF IndInv, AcceptInv
    <2>3. \A i \in 1..Len(backlog') :
              /\ i + 1 \in 1..Len(backlog) /\ i + 1 # 1 /\ i \in Nat
              /\ backlog'[i] = backlog[i + 1] /\ backlog[i + 1] \in Clients
      BY <1>3, <1>4, ElementOfSeq
    <2>4. 1 \in 1..Len(backlog)
      BY <1>4
    <2>5. \A i, j \in 1..Len(backlog') : backlog'[i] = backlog'[j] => i = j
      <3>1. \A i, j \in 1..Len(backlog) : backlog[i] = backlog[j] => i = j
        BY DEF IndInv, AcceptInv
      <3>2. SUFFICES ASSUME NEW i \in 1..Len(backlog'), NEW j \in 1..Len(backlog'),
                            backlog'[i] = backlog'[j]
                     PROVE  i = j
        OBVIOUS
      <3>3. backlog[i + 1] = backlog[j + 1] /\ i + 1 \in 1..Len(backlog)
            /\ j + 1 \in 1..Len(backlog)
        BY <2>3, <3>2
      <3>4. i + 1 = j + 1
        BY <3>1, <3>3
      <3>5. QED
        BY <2>3, <3>4
    <2>6. ASSUME NEW i \in 1..Len(backlog')
          PROVE  main'[backlog'[i]] # "start" /\ pc'[<<backlog'[i], "server">>] = "idle"
      <3>1. PICK k \in 1..Len(backlog) : k = i + 1 /\ k # 1
        BY <2>3
      <3>2. backlog'[i] = backlog[k] /\ backlog[k] \in Clients
        BY <2>3, <3>1
      <3>3. backlog[k] # c
        BY <1>5, <2>4, <3>1 DEF IndInv, AcceptInv
      <3>4. main[backlog[k]] # "start" /\ pc[<<backlog[k], "server">>] = "idle"
        BY DEF IndInv, AcceptInv
      <3>5. QED
        BY <1>8, <1>9, <2>1, <3>2, <3>3, <3>4
    <2>7. QED
      BY <2>2, <2>5, <2>6 DEF AcceptInv
  <1>15. QED
    BY <1>10, <1>11, <1>12, <1>13, <1>14 DEF IndInv

\* The three sends: hello, AdapterInfo, closing.
LEMMA SendStep ==
    ASSUME IndInv, NEW e \in End,
           SendHello(e) \/ LoadAndSendInfo(e) \/ SendClosing(e)
    PROVE  IndInv'
  <1>1. TypeOK
    BY DEF IndInv
  <1>2. Other(e) \in End /\ pc \in [End -> Pc] /\ qp \in [End -> QpState]
    BY <1>1, OtherEnd DEF TypeOK
  <1>3. <<"Q">> \in Seq(Unit) /\ Len(<<"Q">>) = 1 /\ <<"Q">>[1] = "Q"
    BY DEF Unit
  <1>4. CASE SendHello(e)
    <2>1. /\ SendData(e, "open", "hello", <<"Q">>)
          /\ UNCHANGED <<main, tries, backlog, endpoints, buf, remote, qp, port, faults, dead>>
      BY <1>4 DEF SendHello
    <2>2. /\ "open" \notin Receiving /\ Used("hello") = Used("open")
          /\ Sent("open") = 0 /\ Sent("hello") = Sent("open") + 1
          /\ (Used("open") >= 3 <=> Used("hello") >= 3) /\ QpAt("open") = QpAt("hello")
          /\ "hello" \in Pc /\ "hello" \notin Late /\ "open" # "idle"
      BY DEF Receiving, Used, Sent, QpAt, Pc, Late
    <2>3. \A i \in 1..Len(<<"Q">>) : <<"Q">>[i] = Word(e, Sent("open") + i)
      BY <1>3, <2>2 DEF Word
    <2>4. ChanInv' /\ BufInv' /\ stream' \in [End -> Seq(Unit)]
      BY <1>3, <2>1, <2>2, <2>3, SendChan
    <2>5. pc[e] = "open" /\ pc' = [pc EXCEPT ![e] = "hello"]
      BY <2>1 DEF SendData
    <2>6. AcceptInv' /\ ModeInv' /\ RemoteInv' /\ QpInv' /\ pc' \in [End -> Pc]
      BY <2>1, <2>2, <2>5, MoveKeeps
    <2>7. TypeOK'
      BY <1>1, <2>1, <2>4, <2>6 DEF TypeOK
    <2>8. QED
      BY <2>4, <2>6, <2>7 DEF IndInv
  <1>5. CASE LoadAndSendInfo(e)
    <2>1. /\ SendData(e, "ready", "info", InfoOf(e))
          /\ qp' = [qp EXCEPT ![e] = "RESET"]
          /\ UNCHANGED <<main, tries, backlog, endpoints, buf, remote, port, faults, dead>>
      BY <1>5 DEF LoadAndSendInfo
    <2>2. /\ "ready" \notin Receiving /\ Used("info") = Used("ready")
          /\ Sent("ready") = 1 /\ Sent("info") = Sent("ready") + 2
          /\ (Used("ready") >= 3 <=> Used("info") >= 3) /\ QpAt("info") = "RESET"
          /\ "info" \in Pc /\ "info" \notin Late /\ "ready" # "idle"
      BY DEF Receiving, Used, Sent, QpAt, Pc, Late
    <2>3. \A i \in 1..Len(InfoOf(e)) : InfoOf(e)[i] = Word(e, Sent("ready") + i)
      <3>1. Word(e, 1 + 1) = <<e, 1>> /\ Word(e, 1 + 2) = <<e, 2>>
        BY DEF Word
      <3>2. \A i \in 1..2 : i = 1 \/ i = 2
        OBVIOUS
      <3>3. QED
        BY <2>2, <3>1, <3>2, InfoUnits
    <2>4. ChanInv' /\ BufInv' /\ stream' \in [End -> Seq(Unit)]
      BY InfoUnits, <2>1, <2>2, <2>3, SendChan
    <2>5. pc[e] = "ready" /\ pc' = [pc EXCEPT ![e] = "info"]
      BY <2>1 DEF SendData
    <2>6. AcceptInv' /\ ModeInv' /\ RemoteInv' /\ pc' \in [End -> Pc]
      BY <2>1, <2>2, <2>5, MoveKeeps
    <2>7. QpInv'
      BY <1>2, <2>1, <2>2, <2>5 DEF IndInv, QpInv
    <2>8. qp' \in [End -> QpState]
      BY <1>2, <2>1 DEF QpState
    <2>9. TypeOK'
      BY <1>1, <2>1, <2>4, <2>6, <2>8 DEF TypeOK
    <2>10. QED
      BY <2>4, <2>6, <2>7, <2>9 DEF IndInv
  <1>6. CASE SendClosing(e)
    <2>1. /\ SendData(e, "rts", "closing", <<"Q">>)
          /\ UNCHANGED <<main, tries, backlog, endpoints, buf, remote, qp, port, faults, dead>>
      BY <1>6 DEF SendClosing
    <2>2. /\ "rts" \notin Receiving /\ Used("closing") = Used("rts")
          /\ Sent("rts") = 3 /\ Sent("closing") = Sent("rts") + 1
          /\ (Used("rts") >= 3 <=> Used("closing") >= 3) /\ QpAt("rts") = QpAt("closing")
          /\ "closing" \in Pc /\ "closing" \in Late /\ "rts" \in Late /\ "rts" # "idle"
      BY DEF Receiving, Used, Sent, QpAt, Pc, Late
    <2>3. \A i \in 1..Len(<<"Q">>) : <<"Q">>[i] = Word(e, Sent("rts") + i)
      BY <1>3, <2>2 DEF Word
    <2>4. ChanInv' /\ BufInv' /\ stream' \in [End -> Seq(Unit)]
      BY <1>3, <2>1, <2>2, <2>3, SendChan
    <2>5. pc[e] = "rts" /\ pc' = [pc EXCEPT ![e] = "closing"]
      BY <2>1 DEF SendData
    <2>6. AcceptInv' /\ ModeInv' /\ RemoteInv' /\ QpInv' /\ pc' \in [End -> Pc]
      BY <2>1, <2>2, <2>5, MoveKeeps
    <2>7. TypeOK'
      BY <1>1, <2>1, <2>4, <2>6 DEF TypeOK
    <2>8. QED
      BY <2>4, <2>6, <2>7 DEF IndInv
  <1>7. QED
    BY <1>4, <1>5, <1>6

\* recv reads a piece.
LEMMA RecvDataStep == ASSUME IndInv, NEW e \in End, RecvData(e) PROVE IndInv'
  <1>1. UNCHANGED <<main, tries, backlog, endpoints, pc, remote, qp, port, faults, dead>>
    BY DEF RecvData
  <1>2. ChanInv' /\ BufInv' /\ stream' \in [End -> Seq(Unit)] /\ buf' \in [End -> Seq(Unit)]
    BY ReadChan
  <1>3. TypeOK'
    BY <1>1, <1>2 DEF IndInv, TypeOK
  <1>4. RemoteInv' /\ QpInv' /\ AcceptInv'
    BY <1>1 DEF IndInv, RemoteInv, QpInv, AcceptInv
  <1>5. ModeInv'
    BY <1>1 DEF IndInv, ModeInv, LinkLayer
  <1>6. QED
    BY <1>2, <1>3, <1>4, <1>5 DEF IndInv

\* The hello sync is over.
LEMMA RecvHelloStep == ASSUME IndInv, NEW e \in End, RecvHello(e) PROVE IndInv'
  <1>1. /\ Received(e, "hello") /\ pc' = [pc EXCEPT ![e] = "ready"]
        /\ UNCHANGED <<tries, backlog, stream, remote, qp, port, faults, dead>>
    BY DEF RecvHello
  <1>2. TypeOK
    BY DEF IndInv
  <1>3. e[1] \in Clients /\ e \in Clients \X {"client", "server"}
    BY DEF End
  <1>4. /\ "hello" \in Receiving /\ "ready" \notin Receiving /\ Sent("ready") = Sent("hello")
        /\ Used("ready") = Used("hello") + 1
        /\ (Used("hello") >= 3 <=> Used("ready") >= 3) /\ QpAt("hello") = QpAt("ready")
        /\ "ready" \in Pc /\ "ready" \notin Late /\ "hello" # "idle" /\ "hello" # "info"
    BY DEF Receiving, Used, Sent, QpAt, Pc, Late
  <1>5. ChanInv' /\ BufInv' /\ buf' \in [End -> Seq(Unit)]
    BY <1>1, <1>4, UseChan
  <1>6. pc[e] = "hello"
    BY <1>1 DEF Received
  <1>7. /\ main' \in [Process -> Main] /\ endpoints' \in Seq(Clients)
        /\ \A c \in Clients : main'[c] = "start" <=> main[c] = "start"
    <2>1. CASE e[2] = "client"
      <3>1. /\ main' = [main EXCEPT ![e[1]] = "connecting"] /\ UNCHANGED endpoints
        BY <2>1 DEF RecvHello
      <3>2. main[e[1]] # "start"
        <4>1. e = <<e[1], "client">>
          BY <1>3, <2>1
        <4>2. QED
          BY <1>3, <1>6, <4>1 DEF IndInv, AcceptInv
      <3>3. QED
        BY <1>2, <1>3, <3>1, <3>2 DEF TypeOK, Main, Process
    <2>2. CASE e[2] # "client"
      <3>1. /\ endpoints' = Append(endpoints, e[1])
            /\ \/ main' = [main EXCEPT !["server"] = "connecting"]
               \/ main' = [main EXCEPT !["server"] = "accept"]
        BY <2>2 DEF RecvHello
      <3>2. endpoints' \in Seq(Clients)
        BY <1>2, <1>3, <3>1, AppendProperties DEF TypeOK
      <3>3. QED
        BY <1>2, <3>1, <3>2, HandshakeAssumption DEF TypeOK, Main, Process
    <2>3. QED
      BY <2>1, <2>2
  <1>8. AcceptInv' /\ ModeInv' /\ RemoteInv' /\ QpInv' /\ pc' \in [End -> Pc]
    BY <1>1, <1>4, <1>6, <1>7, MoveKeeps
  <1>9. TypeOK'
    BY <1>1, <1>2, <1>5, <1>7, <1>8 DEF TypeOK
  <1>10. QED
    BY <1>5, <1>8, <1>9 DEF IndInv

\* The AdapterInfo of the peer is stored.
LEMMA StorePeerInfoStep == ASSUME IndInv, NEW e \in End, StorePeerInfo(e) PROVE IndInv'
  <1>1. /\ Received(e, "info") /\ pc' = [pc EXCEPT ![e] = "peer"]
        /\ remote' = [remote EXCEPT ![e] = buf[e]]
        /\ dead' = dead \/ dead' = dead \cup {Owner(e)}
        /\ UNCHANGED <<main, tries, backlog, endpoints, stream, qp, port, faults>>
    BY DEF StorePeerInfo
  <1>2. TypeOK /\ pc \in [End -> Pc] /\ remote \in [End -> Seq(Unit)]
    BY DEF IndInv, TypeOK
  <1>3. /\ "info" \in Receiving /\ "peer" \notin Receiving /\ Sent("peer") = Sent("info")
        /\ Used("peer") = Used("info") + 2 /\ Used("peer") = 3
        /\ QpAt("peer") = QpAt("info")
        /\ "peer" \in Pc /\ "peer" \notin Late /\ "info" # "idle"
    BY DEF Receiving, Used, Sent, QpAt, Pc, Late
  <1>4. ChanInv' /\ BufInv' /\ buf' \in [End -> Seq(Unit)]
    BY <1>1, <1>3, UseChan
  <1>5. pc[e] = "info" /\ Len(buf[e]) = 2
    BY <1>1 DEF Received, XferSize
  <1>6. buf[e] = InfoOf(Other(e)) /\ buf[e] \in Seq(Unit)
    BY <1>5, SyncReads, ChanFacts
  <1>7. AcceptInv' /\ ModeInv' /\ QpInv' /\ pc' \in [End -> Pc]
    BY <1>1, <1>3, <1>5, MoveKeeps
  <1>8. RemoteInv'
    <2>1. ASSUME NEW f \in End
          PROVE  remote'[f] = IF Used(pc'[f]) >= 3 THEN InfoOf(Other(f)) ELSE <<>>
      <3>1. CASE f = e
        BY <1>1, <1>2, <1>3, <1>6, <3>1
      <3>2. CASE f # e
        BY <1>1, <1>2, <3>2 DEF IndInv, RemoteInv
      <3>3. QED
        BY <3>1, <3>2
    <2>2. QED
      BY <2>1 DEF RemoteInv
  <1>9. remote' \in [End -> Seq(Unit)]
    BY <1>1, <1>2, <1>6
  <1>10. dead' \subseteq Process
    BY <1>1, <1>2, OwnerProcess DEF TypeOK
  <1>11. TypeOK'
    BY <1>1, <1>2, <1>4, <1>7, <1>9, <1>10 DEF TypeOK
  <1>12. QED
    BY <1>4, <1>7, <1>8, <1>11 DEF IndInv

\* The closing sync is over.
LEMMA RecvClosingStep == ASSUME IndInv, NEW e \in End, RecvClosing(e) PROVE IndInv'
  <1>1. /\ Received(e, "closing") /\ pc' = [pc EXCEPT ![e] = "joined"]
        /\ UNCHANGED <<main, tries, backlog, endpoints, stream, remote, qp, port, faults, dead>>
    BY DEF RecvClosing
  <1>2. /\ "closing" \in Receiving /\ "joined" \notin Receiving
        /\ Sent("joined") = Sent("closing") /\ Used("joined") = Used("closing") + 1
        /\ (Used("closing") >= 3 <=> Used("joined") >= 3) /\ QpAt("joined") = QpAt("closing")
        /\ "joined" \in Pc /\ "closing" \in Late /\ "closing" # "idle" /\ "closing" # "info"
    BY DEF Receiving, Used, Sent, QpAt, Pc, Late
  <1>3. ChanInv' /\ BufInv' /\ buf' \in [End -> Seq(Unit)]
    BY <1>1, <1>2, UseChan
  <1>4. pc[e] = "closing"
    BY <1>1 DEF Received
  <1>5. AcceptInv' /\ ModeInv' /\ RemoteInv' /\ QpInv' /\ pc' \in [End -> Pc]
    BY <1>1, <1>2, <1>4, MoveKeeps
  <1>6. TypeOK'
    BY <1>1, <1>3, <1>5 DEF IndInv, TypeOK
  <1>7. QED
    BY <1>3, <1>5, <1>6 DEF IndInv

\* A transition of the QP, carried out, out of turn or refused.
LEMMA ModifyStep ==
    ASSUME IndInv, NEW e \in End,
           NEW from \in {"peer", "init", "rtr"}, NEW to \in {"init", "rtr", "rts"},
           \/ from = "peer" /\ to = "init"
           \/ from = "init" /\ to = "rtr"
           \/ from = "rtr" /\ to = "rts",
           pc[e] = from, pc' = [pc EXCEPT ![e] = to],
           ModifyQp(e, QpAt(from), QpAt(to)),
           from = "init" /\ LinkLayer(e) = "eth" => LinkLayer(Other(e)) = "eth",
           UNCHANGED <<main, tries, backlog, endpoints, stream, buf, remote, port, dead>>
    PROVE  IndInv'
  <1>1. TypeOK /\ pc \in [End -> Pc] /\ qp \in [End -> QpState] /\ faults \in 0..MaxFaults
    BY DEF IndInv, TypeOK
  <1>2. /\ Sent(to) = Sent(from) /\ Used(to) = Used(from) /\ from \notin Receiving
        /\ to \in Pc /\ from # "idle" /\ QpAt(to) \in QpState
        /\ to # "init" => to \in Late
        /\ from = "rtr" <=> from \in Late
    BY DEF Sent, Used, Receiving, Pc, QpAt, QpState, Late
  <1>3. /\ pc' \in [End -> Pc] /\ pc'[e] = to
        /\ \A f \in End : f # e => pc'[f] = pc[f]
    BY <1>1, <1>2
  <1>4. ChanInv' /\ BufInv'
    <2>1. \A f \in End : /\ Sent(pc'[f]) = Sent(pc[f]) /\ Used(pc'[f]) = Used(pc[f])
                         /\ pc'[f] # pc[f] => pc[f] \notin Receiving
      BY <1>2, <1>3
    <2>2. QED
      BY <2>1, QuietChan
  <1>5. AcceptInv' /\ RemoteInv'
    BY <1>2, MoveKeeps
  <1>6. /\ qp' \in [End -> QpState] /\ faults' \in 0..MaxFaults
        /\ faults' = 0 => /\ faults = 0
                          /\ qp[e] = QpAt(from) => qp' = [qp EXCEPT ![e] = QpAt(to)]
    BY <1>1, <1>2, HandshakeAssumption DEF ModifyQp
  <1>7. QpInv'
    <2> SUFFICES ASSUME faults' = 0, NEW f \in End PROVE qp'[f] = QpAt(pc'[f])
      BY DEF QpInv
    <2>1. qp[e] = QpAt(from) /\ qp[f] = QpAt(pc[f])
      BY <1>6 DEF IndInv, QpInv
    <2>2. QED
      BY <1>1, <1>3, <1>6, <2>1
  <1>8. ModeInv'
    <2> SUFFICES ASSUME NEW f \in End, pc'[f] \in Late, LinkLayer(f) = "eth"
                 PROVE  LinkLayer(Other(f)) = "eth"
      BY DEF ModeInv, LinkLayer, Late
    <2>1. pc[f] \in Late => LinkLayer(Other(f)) = "eth"
      BY DEF IndInv, ModeInv, Late
    <2>2. CASE f # e
      BY <1>3, <2>1, <2>2
    <2>3. CASE f = e
      BY <1>2, <1>3, <2>1, <2>3 DEF Late
    <2>4. QED
      BY <2>2, <2>3
  <1>9. TypeOK'
    BY <1>1, <1>3, <1>6 DEF TypeOK
  <1>10. QED
    BY <1>4, <1>5, <1>7, <1>8, <1>9 DEF IndInv

\* What an end in Ethernet mode compares is the link layer of its peer.
LEMMA RtrStep == ASSUME IndInv, NEW e \in End, ModifyQpToRtr(e) PROVE IndInv'
  <1>1. /\ pc[e] = "init"
        /\ UNCHANGED <<main, tries, backlog, endpoints, stream, buf, remote, port>>
    BY DEF ModifyQpToRtr
  <1>2. Used(pc[e]) >= 3
    BY <1>1 DEF Used
  <1>3. RemoteLinkLayer(e) = LinkLayer(Other(e))
    <2>1. remote[e] = InfoOf(Other(e))
      BY <1>2 DEF IndInv, RemoteInv
    <2>2. remote[e][1][1] = Other(e)
      BY <2>1, OtherEnd, InfoUnits
    <2>3. QED
      BY <2>2 DEF RemoteLinkLayer
  <1>4. CASE LinkLayer(e) = "eth" /\ RemoteLinkLayer(e) # LinkLayer(e)
    <2>1. dead' = dead \cup {Owner(e)} /\ UNCHANGED <<pc, qp, faults>>
      BY <1>4 DEF ModifyQpToRtr
    <2>2. TypeOK
      BY DEF IndInv
    <2>3. dead' \subseteq Process
      BY <2>1, <2>2, OwnerProcess DEF TypeOK
    <2>4. QED
      BY <1>1, <2>1, <2>2, <2>3, StillStep DEF TypeOK
  <1>5. CASE ~(LinkLayer(e) = "eth" /\ RemoteLinkLayer(e) # LinkLayer(e))
    <2>1. /\ pc' = [pc EXCEPT ![e] = "rtr"] /\ ModifyQp(e, "INIT", "RTR") /\ UNCHANGED dead
      BY <1>5 DEF ModifyQpToRtr
    <2>2. QpAt("init") = "INIT" /\ QpAt("rtr") = "RTR"
      BY DEF QpAt
    <2>3. LinkLayer(e) = "eth" => LinkLayer(Other(e)) = "eth"
      BY <1>3, <1>5
    <2>4. QED
      BY <1>1, <2>1, <2>2, <2>3, ModifyStep
  <1>6. QED
    BY <1>4, <1>5

\* The transitions to INIT and RTS compare nothing.
LEMMA InitRtsStep ==
    ASSUME IndInv, NEW e \in End, ModifyQpToInit(e) \/ ModifyQpToRts(e) PROVE IndInv'
  <1>1. QpAt("peer") = "RESET" /\ QpAt("init") = "INIT" /\ QpAt("rtr") = "RTR" /\ QpAt("rts") = "RTS"
    BY DEF QpAt
  <1>2. CASE ModifyQpToInit(e)
    <2>1. /\ pc[e] = "peer" /\ pc' = [pc EXCEPT ![e] = "init"]
          /\ ModifyQp(e, QpAt("peer"), QpAt("init"))
          /\ UNCHANGED <<main, tries, backlog, endpoints, stream, buf, remote, port, dead>>
      BY <1>1, <1>2 DEF ModifyQpToInit
    <2>2. QED
      BY <2>1, ModifyStep
  <1>3. CASE ModifyQpToRts(e)
    <2>1. /\ pc[e] = "rtr" /\ pc' = [pc EXCEPT ![e] = "rts"]
          /\ ModifyQp(e, QpAt("rtr"), QpAt("rts"))
          /\ UNCHANGED <<main, tries, backlog, endpoints, stream, buf, remote, port, dead>>
      BY <1>1, <1>3 DEF ModifyQpToRts
    <2>2. QED
      BY <2>1, ModifyStep
  <1>4. QED
    BY <1>2, <1>3

\* The sessions before they start.
LEMMA InitInv == ASSUME Init PROVE IndInv
  <1>1. <<>> \in Seq(Unit) /\ <<>> \in Seq(Clients) /\ Len(<<>>) = 0
    BY EmptySeq
  <1>2. TypeOK
    BY <1>1, HandshakeAssumption DEF Init, TypeOK, Main, Pc, QpState
  <1>3. /\ Sent("idle") = 0 /\ Used("idle") = 0 /\ QpAt("idle") = "none"
        /\ "idle" \notin Receiving
    BY DEF Sent, Used, QpAt, Receiving
  <1>4. ChanInv
    <2>1. ASSUME NEW e \in End
          PROVE  Chan(e, Sent(pc[e]), Used(pc[Other(e)]), buf[Other(e)], stream[e])
      <3>1. /\ pc[e] = "idle" /\ pc[Other(e)] = "idle" /\ buf[Other(e)] = <<>>
            /\ stream[e] = <<>>
        BY OtherEnd DEF Init
      <3>2. QED
        BY <1>1, <1>3, <3>1 DEF Chan
    <2>2. QED
      BY <2>1 DEF ChanInv
  <1>5. BufInv /\ RemoteInv /\ QpInv
    BY <1>1, <1>3 DEF Init, BufInv, RemoteInv, QpInv
  <1>6. ModeInv
    BY DEF Init, ModeInv
  <1>7. AcceptInv
    <2>1. backlog = <<>> /\ \A e \in End : pc[e] = "idle"
      BY DEF Init
    <2>2. 1..Len(backlog) = {}
      BY <1>1, <2>1
    <2>3. \A c \in Clients : pc[<<c, "client">>] = "idle" /\ pc[<<c, "server">>] = "idle"
      BY <2>1, ClientEnds
    <2>4. QED
      BY <2>2, <2>3, Zenon DEF AcceptInv
  <1>8. QED
    BY <1>2, <1>4, <1>5, <1>6, <1>7 DEF IndInv

\* Every step, and stuttering, preserves the invariant.
LEMMA StepInv == ASSUME IndInv, [Next]_vars PROVE IndInv'
  <1>1. ASSUME NEW c \in Clients, Connect(c) \/ ConnectFails(c) PROVE IndInv'
    BY <1>1, ConnectStep, ConnectFailsStep
  <1>2. ASSUME NEW e \in End, Script(e) PROVE IndInv'
    BY <1>2, SendStep, RecvHelloStep, StorePeerInfoStep, RtrStep, InitRtsStep,
       RecvClosingStep, RecvDataStep DEF Script
  <1>3. ASSUME NEW e \in End, LoadFails(e) \/ Reset(e) PROVE IndInv'
    BY <1>3, DieStep
  <1>4. ASSUME NEW p \in Process, SocketFails(p) \/ Run(p) PROVE IndInv'
    BY <1>4, SocketFailsStep, RunStep
  <1>5. CASE UNCHANGED vars
    <2>1. UNCHANGED <<main, tries, backlog, endpoints, pc, stream, buf, remote, qp, port,
                      faults, dead>>
      BY <1>5 DEF vars
    <2>2. TypeOK
      BY DEF IndInv
    <2>3. QED
      BY <2>1, <2>2, StillStep DEF TypeOK
  <1>6. QED
    BY <1>1, <1>2, <1>3, <1>4, <1>5, ListenStep, AcceptStep DEF Next

-----------------------------------------------------------------------------
(* Ends without a link layer *)

\* A step that takes no end without a link layer past the exchange alive.
LEMMA LayerKeeps ==
    ASSUME LayerInv, UNCHANGED port, dead \subseteq dead',
           \A f \in End : LinkLayer(f) = "unspecified" =>
               \/ pc'[f] = pc[f]
               \/ pc'[f] \notin {"peer", "init", "rtr", "rts", "closing", "joined"}
               \/ pc'[f] = "peer" /\ Owner(f) \in dead'
    PROVE  LayerInv'
  <1>1. \A f \in End : LinkLayer(f)' = LinkLayer(f)
    BY DEF LinkLayer
  <1>2. QED
    BY <1>1 DEF LayerInv

\* The end e moves on.
LEMMA LayerMove ==
    ASSUME TypeOK, LayerInv, UNCHANGED port, dead \subseteq dead',
           NEW e \in End, NEW to, pc' = [pc EXCEPT ![e] = to],
           LinkLayer(e) = "unspecified" =>
               \/ to \notin {"peer", "init", "rtr", "rts", "closing", "joined"}
               \/ to = "peer" /\ Owner(e) \in dead'
    PROVE  LayerInv'
  <1>1. pc'[e] = to /\ \A f \in End : f # e => pc'[f] = pc[f]
    BY DEF TypeOK
  <1>2. QED
    BY <1>1, LayerKeeps

\* Every step is of that kind.
LEMMA LayerStep == ASSUME TypeOK, LayerInv, [Next]_vars PROVE LayerInv'
  <1>1. CASE \/ Listen \/ UNCHANGED vars
             \/ \E c \in Clients : ConnectFails(c)
             \/ \E p \in Process : SocketFails(p) \/ Run(p)
             \/ \E e \in End : RecvData(e) \/ LoadFails(e) \/ Reset(e)
    <2>1. UNCHANGED <<pc, port>> /\ dead \subseteq dead'
      BY <1>1 DEF Listen, vars, ConnectFails, SocketFails, Run, RecvData, LoadFails, Reset
    <2>2. QED
      BY <2>1, LayerKeeps
  <1>2. ASSUME NEW c \in Clients, Connect(c) PROVE LayerInv'
    <2>1. pc' = [pc EXCEPT ![<<c, "client">>] = "open"] /\ UNCHANGED <<port, dead>>
      BY <1>2 DEF Connect
    <2>2. QED
      BY <2>1, ClientEnds, LayerMove
  <1>3. CASE Accept
    <2>1. /\ pc' = [pc EXCEPT ![<<Head(backlog), "server">>] = "open"]
          /\ UNCHANGED <<port, dead>> /\ backlog # <<>>
      BY <1>3 DEF Accept
    <2>2. Head(backlog) \in Clients
      BY <2>1 DEF TypeOK
    <2>3. QED
      BY <2>1, <2>2, ClientEnds, LayerMove
  <1>4. ASSUME NEW e \in End,
               SendHello(e) \/ RecvHello(e) \/ LoadAndSendInfo(e)
        PROVE  LayerInv'
    <2>1. PICK to \in {"hello", "ready", "info"} : pc' = [pc EXCEPT ![e] = to]
      BY <1>4 DEF SendHello, RecvHello, LoadAndSendInfo, SendData
    <2>2. UNCHANGED <<port, dead>>
      BY <1>4 DEF SendHello, RecvHello, LoadAndSendInfo
    <2>3. QED
      BY <2>1, <2>2, LayerMove
  <1>5. ASSUME NEW e \in End, StorePeerInfo(e) PROVE LayerInv'
    <2>1. /\ pc' = [pc EXCEPT ![e] = "peer"] /\ UNCHANGED port /\ dead \subseteq dead'
          /\ LinkLayer(e) = "unspecified" => Owner(e) \in dead'
      BY <1>5 DEF StorePeerInfo
    <2>2. QED
      BY <2>1, LayerMove
  <1>6. ASSUME NEW e \in End,
               \/ ModifyQpToInit(e)
               \/ ModifyQpToRtr(e)
               \/ ModifyQpToRts(e)
               \/ SendClosing(e)
               \/ RecvClosing(e)
        PROVE  LayerInv'
    <2>1. /\ Alive(e) /\ pc[e] \in {"peer", "init", "rtr", "rts", "closing"}
          /\ UNCHANGED port /\ dead \subseteq dead'
      BY <1>6 DEF ModifyQpToInit, ModifyQpToRtr, ModifyQpToRts, SendClosing, RecvClosing,
                  SendData, Received
    <2>2. LinkLayer(e) # "unspecified"
      BY <2>1 DEF LayerInv, Alive
    <2>3. UNCHANGED pc \/ \E to \in Pc : pc' = [pc EXCEPT ![e] = to]
      BY <1>6 DEF ModifyQpToInit, ModifyQpToRtr, ModifyQpToRts, SendClosing, RecvClosing,
                  SendData, Pc
    <2>4. QED
      BY <2>1, <2>2, <2>3, LayerMove, LayerKeeps
  <1>7. QED
    BY <1>1, <1>2, <1>3, <1>4, <1>5, <1>6 DEF Next, Script

\* An end without a link layer aborts when it stores its peer's AdapterInfo.
LEMMA LayerInvariant == Spec => []LayerInv
  <1>1. Init => LayerInv
    BY DEF Init, LayerInv
  <1>2. IndInv /\ LayerInv /\ [Next]_vars => LayerInv'
    BY LayerStep DEF IndInv
  <1>3. Spec => []IndInv
    BY InitInv, StepInv, PTL DEF Spec
  <1>4. QED
    BY <1>1, <1>2, <1>3, PTL DEF Spec

-----------------------------------------------------------------------------
(* The theorems *)

\* An end past the closing sync has a peer that has sent it.
LEMMA PeerOfJoined ==
    ASSUME IndInv, NEW e \in End, pc[e] = "joined"
    PROVE  Other(e) \in End /\ pc[Other(e)] \in {"closing", "joined"}
  <1>1. Other(e) \in End
    BY OtherEnd
  <1>2. Used(pc[e]) = 4
    BY DEF Used
  <1>3. Chan(Other(e), Sent(pc[Other(e)]), 4, buf[e], stream[Other(e)])
    BY <1>2, ChanFacts
  <1>4. 4 + Len(buf[e]) + Len(stream[Other(e)]) = Sent(pc[Other(e)])
    BY <1>3 DEF Chan
  <1>5. Len(buf[e]) \in Nat /\ Len(stream[Other(e)]) \in Nat
    BY <1>1, LenProperties DEF IndInv, TypeOK
  <1>6. Sent(pc[Other(e)]) >= 4
    <2> DEFINE x == Len(buf[e])  y == Len(stream[Other(e)])
    <2>1. x \in Nat /\ y \in Nat /\ 4 + x + y = Sent(pc[Other(e)])
      BY <1>4, <1>5
    <2> HIDE DEF x, y
    <2>2. QED
      BY <2>1
  <1>7. QED
    BY <1>1, <1>6 DEF Sent

\* The properties that follow from the invariant.
LEMMA InvImplies ==
    ASSUME IndInv
    PROVE  FramesAligned /\ ReadyWhenJoined /\ (LayerInv => MixedPairNeverJoins)
  <1>1. FramesAligned
    <2> SUFFICES ASSUME NEW e \in End
                 PROVE  /\ pc[e] \in {"hello", "closing"} => buf[e] \in {<<>>, <<"Q">>}
                        /\ pc[e] = "info" =>
                              buf[e] \in {<<>>, SubSeq(InfoOf(Other(e)), 1, 1), InfoOf(Other(e))}
                        /\ remote[e] \in {<<>>, InfoOf(Other(e))}
      BY DEF FramesAligned
    <2>1. SubSeq(InfoOf(Other(e)), 1, 1) = <<<<Other(e), 1>>>>
      <3>1. /\ InfoOf(Other(e)) \in Seq(Unit) /\ Len(InfoOf(Other(e))) = 2
            /\ InfoOf(Other(e))[1] = <<Other(e), 1>>
        BY OtherEnd, InfoUnits
      <3>2. SubSeq(InfoOf(Other(e)), 1, 1) = <<InfoOf(Other(e))[1]>>
        <4> DEFINE q == InfoOf(Other(e))
                   r == SubSeq(q, 1, 1)
        <4>2. r \in Seq(Unit) /\ Len(r) = 1 /\ r[1] = q[1]
          BY <3>1
        <4> HIDE DEF q, r
        <4>3. r = <<r[1]>>
          <5>1. Len(r) <= 2
            BY <4>2
          <5>2. QED
            BY <4>2, <5>1, ShortSeq
        <4>4. r = <<q[1]>>
          BY <4>2, <4>3, Zenon
        <4>5. QED
          BY <4>4 DEF q, r
      <3>3. QED
        BY <3>1, <3>2, Zenon
    <2>2. remote[e] \in {<<>>, InfoOf(Other(e))}
      BY DEF IndInv, RemoteInv
    <2>3. QED
      BY <2>1, <2>2, SyncReads
  <1>2. ReadyWhenJoined
    <2> SUFFICES ASSUME NEW e \in End, pc[e] = "joined"
                 PROVE  /\ remote[e] = InfoOf(Other(e)) /\ remote[Other(e)] = InfoOf(e)
                        /\ faults > 0 \/ (qp[e] = "RTS" /\ qp[Other(e)] = "RTS")
      BY DEF ReadyWhenJoined
    <2>1. Other(e) \in End /\ pc[Other(e)] \in {"closing", "joined"} /\ Other(Other(e)) = e
      BY PeerOfJoined, OtherEnd
    <2>2. Used(pc[e]) >= 3 /\ Used(pc[Other(e)]) >= 3
      BY <2>1 DEF Used
    <2>3. remote[e] = InfoOf(Other(e)) /\ remote[Other(e)] = InfoOf(e)
      BY <2>1, <2>2 DEF IndInv, RemoteInv
    <2>4. faults = 0 => qp[e] = "RTS" /\ qp[Other(e)] = "RTS"
      BY <2>1 DEF IndInv, QpInv, QpAt
    <2>5. faults = 0 \/ faults > 0
      BY HandshakeAssumption DEF IndInv, TypeOK
    <2>6. QED
      BY <2>3, <2>4, <2>5
  <1>3. ASSUME LayerInv PROVE MixedPairNeverJoins
    <2> SUFFICES ASSUME NEW e \in End, pc[e] = "joined"
                 PROVE  LinkLayer(e) = LinkLayer(Other(e))
      BY DEF MixedPairNeverJoins
    <2>1. Other(e) \in End /\ pc[Other(e)] \in {"closing", "joined"} /\ Other(Other(e)) = e
      BY PeerOfJoined, OtherEnd
    <2>2. /\ LinkLayer(e) = "eth" => LinkLayer(Other(e)) = "eth"
          /\ LinkLayer(Other(e)) = "eth" => LinkLayer(e) = "eth"
      BY <2>1 DEF IndInv, ModeInv
    <2>3. LinkLayer(e) \in {"eth", "ib"} /\ LinkLayer(Other(e)) \in {"eth", "ib"}
      BY <1>3, <2>1, OwnerProcess DEF IndInv, TypeOK, LayerInv, LinkLayer, LinkLayers
    <2>4. QED
      BY <2>2, <2>3
  <1>4. QED
    BY <1>1, <1>2, <1>3

\* The invariant holds in every reachable state.
THEOREM HandshakeInductive == Spec => []IndInv
  BY InitInv, StepInv, PTL DEF Spec

\* Every process, end and stream has its type throughout the handshake
\* (rdma_session.cc:440-469, rdma_endpoint.cc:9-63).
THEOREM HandshakeTypeCorrect == Spec => []TypeOK
  <1>1. IndInv => TypeOK
    BY DEF IndInv
  <1>2. QED
    BY HandshakeInductive, <1>1, PTL

\* Whatever pieces TCP delivers, every sync reads what the peer sent for it
\* (tcp_connector.cc:43-55, 89-114), for any number of clients.
THEOREM FramingSafe == Spec => []FramesAligned
  <1>1. IndInv => FramesAligned
    BY InvImplies
  <1>2. QED
    BY HandshakeInductive, <1>1, PTL

\* An end that returns from connecting has a peer that is connected to it
\* (rdma_endpoint.cc:59-63), for any number of clients.
THEOREM JoinSafe == Spec => []ReadyWhenJoined
  <1>1. IndInv => ReadyWhenJoined
    BY InvImplies
  <1>2. QED
    BY HandshakeInductive, <1>1, PTL

\* No handshake between ports on different link layers completes
\* (rdma_adapter.cc:312-315), whatever the other clients' ports are.
THEOREM LinkLayerSafe == Spec => []MixedPairNeverJoins
  <1>1. IndInv /\ LayerInv => MixedPairNeverJoins
    BY InvImplies
  <1>2. QED
    BY HandshakeInductive, LayerInvariant, <1>1, PTL
=============================================================================
