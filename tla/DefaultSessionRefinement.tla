---------------------- MODULE DefaultSessionRefinement ----------------------
(***************************************************************************)
(* DefaultSession implements RemoteStore, for every number of posted       *)
(* receives.  The step simulation rests on IndInv: without RdmaInv the     *)
(* operation of a side is not a function of its queues, and without        *)
(* DescInv and the phases the descriptor learnt need not be the first one. *)
(***************************************************************************)
EXTENDS DefaultSessionProofs

-----------------------------------------------------------------------------
(* The kinds of work request in a send queue. *)

\* Taking the head.
LEMMA KindsTail ==
    ASSUME NEW q \in Seq(WorkRequest), q # <<>>
    PROVE  Kinds(q) = Kinds(Tail(q)) \cup {Head(q).kind}
  <1>1. /\ Len(q) \in Nat /\ Len(q) >= 1 /\ Len(Tail(q)) = Len(q) - 1
        /\ \A i \in 1..Len(Tail(q)) : Tail(q)[i] = q[i + 1]
        /\ Head(q) = q[1]
    BY TailFacts
  <1>2. ASSUME NEW k \in Kinds(q) PROVE k \in Kinds(Tail(q)) \cup {Head(q).kind}
    <2>1. PICK i \in 1..Len(q) : q[i].kind = k
      BY <1>2 DEF Kinds
    <2>2. CASE i = 1
      BY <1>1, <2>1, <2>2
    <2>3. CASE i # 1
      <3>1. i - 1 \in 1..Len(Tail(q)) /\ (i - 1) + 1 = i
        BY <1>1, <2>1, <2>3
      <3>2. Tail(q)[i - 1] = q[i]
        BY <1>1, <3>1
      <3>3. QED
        BY <2>1, <3>1, <3>2 DEF Kinds
    <2>4. QED
      BY <2>2, <2>3
  <1>3. ASSUME NEW k \in Kinds(Tail(q)) PROVE k \in Kinds(q)
    <2>1. PICK i \in 1..Len(Tail(q)) : Tail(q)[i].kind = k
      BY <1>3 DEF Kinds
    <2>2. i + 1 \in 1..Len(q) /\ q[i + 1].kind = k
      BY <1>1, <2>1
    <2>3. QED
      BY <2>2 DEF Kinds
  <1>4. Head(q).kind \in Kinds(q)
    BY <1>1 DEF Kinds
  <1>5. QED
    BY <1>2, <1>3, <1>4

\* Posting, after a buffer was refilled or not.
LEMMA KindsPost ==
    ASSUME NEW q \in Seq(WorkRequest), NEW k \in Kind, NEW d \in Payload
    PROVE  Kinds(Post(q, k, d)) = Kinds(q) \cup {k}
  <1>1. /\ Len(Post(q, k, d)) = Len(q) + 1 /\ Len(q) \in Nat
        /\ \A i \in 1..Len(q) : Post(q, k, d)[i] = q[i]
        /\ Post(q, k, d)[Len(q) + 1].kind = k
    BY PostFacts
  <1>2. 1..(Len(q) + 1) = 1..Len(q) \cup {Len(q) + 1}
    BY <1>1
  <1>3. QED
    BY <1>1, <1>2 DEF Kinds

\* Refilling a buffer changes what a request carries, not its kind.
LEMMA KindsTorn ==
    ASSUME NEW q \in Seq(WorkRequest), NEW K
    PROVE  Torn(q, K) \in Seq(WorkRequest) /\ Kinds(Torn(q, K)) = Kinds(q)
  BY TornFacts DEF Kinds

-----------------------------------------------------------------------------
(* The operation of a side. *)

Op(s) == OpOf(sq[s], comp[s])

\* What IndInv says of the one RDMA operation of a side.
LEMMA OneRdma ==
    ASSUME IndInv, NEW s \in Side
    PROVE  /\ sq[s] \in Seq(WorkRequest) /\ comp[s] \in Seq({"WRITE", "READ"})
           /\ comp[s] # <<>> => Tail(comp[s]) = <<>> /\ Kinds(sq[s]) \cap RdmaKind = {}
           /\ sq[s] # <<>> /\ Head(sq[s]).kind \in RdmaKind =>
                 /\ comp[s] = <<>>
                 /\ Kinds(Tail(sq[s])) \cap RdmaKind = {}
                 /\ Head(sq[s]).kind \in WriteKind => Head(sq[s]).data = "text"
           /\ peerbuf[s] = "none" => comp[s] = <<>> /\ Kinds(sq[s]) \cap RdmaKind = {}
  <1>1. /\ RdmaInv(s)
        /\ sq[s] \in Seq(WorkRequest) /\ Len(sq[s]) \in Nat
        /\ comp[s] \in Seq({"WRITE", "READ"}) /\ Len(comp[s]) \in Nat
    BY InvAt, QueueFacts DEF IndInv
  <1>2. ASSUME comp[s] # <<>>
        PROVE  Len(comp[s]) = 1 /\ Tail(comp[s]) = <<>> /\ Kinds(sq[s]) \cap RdmaKind = {}
               /\ peerbuf[s] # "none"
    <2>1. Len(comp[s]) >= 1 /\ Len(Tail(comp[s])) = Len(comp[s]) - 1
          /\ Tail(comp[s]) \in Seq({"WRITE", "READ"})
      BY <1>1, <1>2, TailFacts
    <2>2. Len(comp[s]) <= 1
      BY <1>1 DEF RdmaInv
    <2>3. \A n \in Nat : n <= 1 /\ n >= 1 => n = 1
      OBVIOUS
    <2>4. Len(comp[s]) = 1
      BY <1>1, <2>1, <2>2, <2>3
    <2>5. Tail(comp[s]) = <<>>
      <3>1. Len(Tail(comp[s])) = 0
        BY <2>1, <2>4
      <3>2. QED
        BY <2>1, <3>1, EmptySeq
    <2>6. \A i \in 1..Len(sq[s]) : sq[s][i].kind \notin RdmaKind
      BY <1>1, <2>4 DEF RdmaInv
    <2>7. peerbuf[s] # "none"
      BY <1>1, <2>4 DEF RdmaInv
    <2>8. QED
      BY <2>4, <2>5, <2>6, <2>7 DEF Kinds
  <1>3. ASSUME sq[s] # <<>>, Head(sq[s]).kind \in RdmaKind
        PROVE  /\ comp[s] = <<>>
               /\ Kinds(Tail(sq[s])) \cap RdmaKind = {}
               /\ Head(sq[s]).kind \in WriteKind => Head(sq[s]).data = "text"
    <2>1. /\ Len(sq[s]) >= 1 /\ Head(sq[s]) = sq[s][1] /\ 1 \in 1..Len(sq[s])
          /\ Len(Tail(sq[s])) = Len(sq[s]) - 1
          /\ \A i \in 1..Len(Tail(sq[s])) : Tail(sq[s])[i] = sq[s][i + 1]
      BY <1>1, <1>3, TailFacts
    <2>2. /\ \A j \in 1..Len(sq[s]) : sq[s][j].kind \in RdmaKind => 1 = j
          /\ Len(comp[s]) = 0
          /\ sq[s][1].kind \in WriteKind => sq[s][1].data = "text"
      BY <1>1, <1>3, <2>1 DEF RdmaInv
    <2>3. ASSUME NEW i \in 1..Len(Tail(sq[s])) PROVE Tail(sq[s])[i].kind \notin RdmaKind
      <3>1. i + 1 \in 1..Len(sq[s]) /\ 1 # i + 1 /\ Tail(sq[s])[i] = sq[s][i + 1]
        BY <1>1, <2>1, <2>3
      <3>2. QED
        BY <2>2, <3>1
    <2>4. comp[s] = <<>>
      BY <1>1, <2>2
    <2>5. QED
      BY <2>1, <2>2, <2>3, <2>4 DEF Kinds
  <1>4. ASSUME peerbuf[s] = "none" PROVE Kinds(sq[s]) \cap RdmaKind = {}
    <2>1. \A i \in 1..Len(sq[s]) : sq[s][i].kind \notin RdmaKind
      BY <1>1, <1>4 DEF RdmaInv
    <2>2. QED
      BY <2>1 DEF Kinds
  <1>5. QED
    BY <1>1, <1>2, <1>3, <1>4
\* The operation of a side is the one it was when its RDMA work requests and
\* completions are the same.
LEMMA OpSame ==
    ASSUME NEW s \in Side, comp'[s] = comp[s],
           Kinds(sq'[s]) \cap RdmaKind = Kinds(sq[s]) \cap RdmaKind
    PROVE  Op(s)' = Op(s)
  <1>1. \A k \in RdmaKind : k \in Kinds(sq'[s]) <=> k \in Kinds(sq[s])
    OBVIOUS
  <1>2. \A Q : Q \cap WriteKind # {} <=> "WIMM" \in Q \/ "WRITE" \in Q
    BY DEF WriteKind
  <1>3. {"WIMM", "WRITE", "READ"} \subseteq RdmaKind
    BY DEF RdmaKind, WriteKind
  <1>4. QED
    BY <1>1, <1>2, <1>3 DEF Op, OpOf

\* The operations of both sides, as the variable of RemoteStore.
OpVar == [s \in Side |-> Op(s)]

\* A step that gives side s a new operation and leaves that of its peer alone.
LEMMA OpMoves ==
    ASSUME NEW s \in Side, NEW p \in Side, \A t \in Side : t = s \/ t = p, p # s,
           Op(p)' = Op(p), NEW o, Op(s)' = o
    PROVE  OpVar' = [OpVar EXCEPT ![s] = o]
  BY DEF OpVar

\* A step that changes no operation.
LEMMA OpStays ==
    ASSUME \A t \in Side : Op(t)' = Op(t)
    PROVE  OpVar' = OpVar
  BY DEF OpVar

-----------------------------------------------------------------------------
(* What each action does, seen from RemoteStore. *)

\* The variables of RemoteStore but for the operations.
Data == <<peerbuf, sink, readbuf>>

\* The thread's and the NIC's steps that RemoteStore does not see.
LEMMA Hidden ==
    ASSUME IndInv, NEW s \in Side,
           \/ PostReceives(s) \/ SyncSend(s) \/ SyncRecv(s) \/ FirstSend(s)
           \/ ExecuteSend(s) \/ ProcessSync(s) \/ ProcessOther(s)
           \/ ProcessRecvWriteWithImm(s)
    PROVE  OpVar' = OpVar /\ Data' = Data
  <1>1. Data' = Data /\ comp' = comp
    BY DEF PostReceives, SyncSend, SyncRecv, FirstSend, ExecuteSend, ProcessSync,
           ProcessOther, ProcessRecvWriteWithImm, Data
  <1>2. SendKind \cap RdmaKind = {} /\ SendKind \subseteq Kind
    BY DEF SendKind, RdmaKind, WriteKind, Kind
  <1>3. sq \in [Side -> Seq(WorkRequest)] /\ sq[s] \in Seq(WorkRequest)
    BY DEF IndInv, TypeOK
  <1>4. CASE UNCHANGED sq
    BY <1>1, <1>4, OpStays DEF Op
  <1>5. CASE \E d \in Payload, k \in SendKind : FillAndSend(s, d, k)
    <2>1. PICK d \in Payload, k \in SendKind : FillAndSend(s, d, k)
      BY <1>5
    <2> DEFINE q == Torn(sq[s], SendKind)
    <2>2. q \in Seq(WorkRequest) /\ Kinds(q) = Kinds(sq[s])
      BY <1>3, KindsTorn
    <2>3. sq' = [sq EXCEPT ![s] = Post(q, k, d)]
      BY <2>1 DEF FillAndSend
    <2> HIDE DEF q
    <2>4. Kinds(sq'[s]) = Kinds(sq[s]) \cup {k}
      BY <1>2, <1>3, <2>2, <2>3, KindsPost
    <2>5. \A t \in Side : Kinds(sq'[t]) \cap RdmaKind = Kinds(sq[t]) \cap RdmaKind
      BY <1>2, <1>3, <2>3, <2>4
    <2>6. QED
      BY <1>1, <2>5, OpSame, OpStays
  <1>6. CASE ExecuteSend(s)
    <2>1. sq[s] # <<>> /\ Head(sq[s]).kind \in SendKind /\ sq' = [sq EXCEPT ![s] = Tail(@)]
      BY <1>6 DEF ExecuteSend
    <2>2. Kinds(sq[s]) = Kinds(sq'[s]) \cup {Head(sq[s]).kind}
      BY <1>3, <2>1, KindsTail
    <2>3. \A t \in Side : Kinds(sq'[t]) \cap RdmaKind = Kinds(sq[t]) \cap RdmaKind
      BY <1>2, <1>3, <2>1, <2>2
    <2>4. QED
      BY <1>1, <2>3, OpSame, OpStays
  <1>7. {"hello", "desc", "greet"} \subseteq Payload
        /\ {"SYNC", "REQ", "UNSET"} \subseteq SendKind
    BY DEF Payload, SendKind
  <1>8. QED
    BY <1>4, <1>5, <1>6, <1>7
       DEF PostReceives, SyncSend, SyncRecv, FirstSend, ProcessSync, ProcessOther,
           ProcessRecvWriteWithImm

\* A write, with or without notification, is a store.
LEMMA WriteStores ==
    ASSUME IndInv, NEW s \in Side, NEW p \in Side, Pair(s, p),
           \A t \in Side : t = s \/ t = p,
           ExecuteWriteWithImm(s) \/ ExecuteWrite(s)
    PROVE  /\ Op(s) = "storing"
           /\ OpVar' = [OpVar EXCEPT ![s] = "stored"]
           /\ sink' = [sink EXCEPT ![p] = "text"]
           /\ UNCHANGED <<peerbuf, readbuf>>
  <1>1. /\ sq[s] # <<>> /\ Head(sq[s]).kind \in WriteKind
        /\ sq' = [sq EXCEPT ![s] = Tail(@)]
        /\ comp' = [comp EXCEPT ![s] = Append(@, "WRITE")]
        /\ sink' = [sink EXCEPT ![p] = Head(sq[s]).data]
        /\ UNCHANGED <<peerbuf, readbuf>>
    BY DEF ExecuteWriteWithImm, ExecuteWrite, WriteKind, Pair
  <1>2. WriteKind \subseteq RdmaKind
    BY DEF RdmaKind
  <1>3. /\ comp[s] = <<>> /\ Head(sq[s]).data = "text"
        /\ sq[s] \in Seq(WorkRequest)
    BY <1>1, <1>2, OneRdma
  <1>4. comp \in [Side -> Seq({"WRITE", "READ"})] /\ sq \in [Side -> Seq(WorkRequest)]
    BY DEF IndInv, TypeOK
  <1>5. Head(sq[s]).kind \in Kinds(sq[s])
    BY <1>1, <1>3, KindsTail
  <1>6. Op(s) = "storing"
    BY <1>1, <1>3, <1>5 DEF Op, OpOf
  <1>7. comp'[s] = <<"WRITE">>
    BY <1>1, <1>3, <1>4
  <1>8. Op(s)' = "stored"
    BY <1>7 DEF Op, OpOf
  <1>9. p # s
    BY DEF Pair
  <1>10. comp'[p] = comp[p] /\ sq'[p] = sq[p]
    BY <1>1, <1>4, <1>9
  <1>11. Op(p)' = Op(p)
    BY <1>10 DEF Op
  <1>12. OpVar' = [OpVar EXCEPT ![s] = "stored"]
    BY <1>8, <1>9, <1>11, OpMoves
  <1>13. QED
    BY <1>1, <1>3, <1>6, <1>12

\* A read is a fetch.
LEMMA ReadFetches ==
    ASSUME IndInv, NEW s \in Side, NEW p \in Side, Pair(s, p),
           \A t \in Side : t = s \/ t = p,
           ExecuteRead(s)
    PROVE  /\ Op(s) = "fetching"
           /\ OpVar' = [OpVar EXCEPT ![s] = "fetched"]
           /\ readbuf' = [readbuf EXCEPT ![s] = sink[p]]
           /\ UNCHANGED <<peerbuf, sink>>
  <1>1. /\ sq[s] # <<>> /\ Head(sq[s]).kind = "READ"
        /\ sq' = [sq EXCEPT ![s] = Tail(@)]
        /\ comp' = [comp EXCEPT ![s] = Append(@, "READ")]
        /\ readbuf' = [readbuf EXCEPT ![s] = sink[p]]
        /\ UNCHANGED <<peerbuf, sink>>
    BY DEF ExecuteRead, Pair
  <1>2. "READ" \in RdmaKind /\ WriteKind \subseteq RdmaKind /\ "READ" \notin WriteKind
    BY DEF RdmaKind, WriteKind
  <1>3. /\ comp[s] = <<>> /\ Kinds(Tail(sq[s])) \cap RdmaKind = {}
        /\ sq[s] \in Seq(WorkRequest)
    BY <1>1, <1>2, OneRdma
  <1>4. comp \in [Side -> Seq({"WRITE", "READ"})] /\ sq \in [Side -> Seq(WorkRequest)]
    BY DEF IndInv, TypeOK
  <1>5. Kinds(sq[s]) = Kinds(Tail(sq[s])) \cup {"READ"}
    BY <1>1, <1>3, KindsTail
  <1>6. Kinds(sq[s]) \cap WriteKind = {} /\ "READ" \in Kinds(sq[s])
    BY <1>2, <1>3, <1>5
  <1>7. Op(s) = "fetching"
    BY <1>3, <1>6 DEF Op, OpOf
  <1>8. comp'[s] = <<"READ">>
    BY <1>1, <1>3, <1>4
  <1>9. Op(s)' = "fetched"
    BY <1>8 DEF Op, OpOf
  <1>10. p # s
    BY DEF Pair
  <1>11. comp'[p] = comp[p] /\ sq'[p] = sq[p]
    BY <1>1, <1>4, <1>10
  <1>12. Op(p)' = Op(p)
    BY <1>11 DEF Op
  <1>13. OpVar' = [OpVar EXCEPT ![s] = "fetched"]
    BY <1>9, <1>10, <1>12, OpMoves
  <1>14. QED
    BY <1>1, <1>7, <1>13

\* The handler of a write completion starts a fetch.
LEMMA WriteDoneStartsFetch ==
    ASSUME IndInv, NEW s \in Side, NEW p \in Side, Pair(s, p),
           \A t \in Side : t = s \/ t = p,
           ProcessWriteDone(s)
    PROVE  /\ Op(s) = "stored"
           /\ OpVar' = [OpVar EXCEPT ![s] = "fetching"]
           /\ readbuf' = [readbuf EXCEPT ![s] = "zero"]
           /\ UNCHANGED <<peerbuf, sink>>
  <1>1. /\ comp[s] # <<>> /\ Head(comp[s]) = "WRITE"
        /\ comp' = [comp EXCEPT ![s] = Tail(@)]
        /\ sq' = [sq EXCEPT ![s] = Post(@, "READ", "zero")]
        /\ readbuf' = [readbuf EXCEPT ![s] = "zero"]
        /\ UNCHANGED <<peerbuf, sink>>
    BY DEF ProcessWriteDone, PolledComp
  <1>2. /\ Tail(comp[s]) = <<>> /\ Kinds(sq[s]) \cap RdmaKind = {}
        /\ sq[s] \in Seq(WorkRequest)
    BY <1>1, OneRdma
  <1>3. comp \in [Side -> Seq({"WRITE", "READ"})] /\ sq \in [Side -> Seq(WorkRequest)]
    BY DEF IndInv, TypeOK
  <1>4. /\ "READ" \in Kind /\ "zero" \in Payload
        /\ WriteKind \subseteq RdmaKind /\ "READ" \notin WriteKind
    BY DEF Kind, Payload, RdmaKind, WriteKind
  <1>5. Kinds(sq'[s]) = Kinds(sq[s]) \cup {"READ"}
    BY <1>1, <1>2, <1>3, <1>4, KindsPost
  <1>6. Kinds(sq'[s]) \cap WriteKind = {} /\ "READ" \in Kinds(sq'[s]) /\ comp'[s] = <<>>
    BY <1>1, <1>2, <1>3, <1>4, <1>5
  <1>7. Op(s) = "stored" /\ Op(s)' = "fetching"
    BY <1>1, <1>6 DEF Op, OpOf
  <1>8. p # s
    BY DEF Pair
  <1>9. comp'[p] = comp[p] /\ sq'[p] = sq[p]
    BY <1>1, <1>3, <1>8
  <1>10. Op(p)' = Op(p)
    BY <1>9 DEF Op
  <1>11. OpVar' = [OpVar EXCEPT ![s] = "fetching"]
    BY <1>7, <1>8, <1>10, OpMoves
  <1>12. QED
    BY <1>1, <1>7, <1>11

\* A send queue without RDMA operations in which a write is posted.
LEMMA PostedWrite ==
    ASSUME NEW s \in Side, NEW q \in Seq(WorkRequest), NEW k \in WriteKind,
           sq \in [Side -> Seq(WorkRequest)], FillAndWrite(s, q, k), comp'[s] = <<>>
    PROVE  /\ Op(s)' = "storing"
           /\ \A t \in Side : t # s => sq'[t] = sq[t]
  <1> DEFINE r == Torn(q, WriteKind)
  <1>1. r \in Seq(WorkRequest)
    BY KindsTorn
  <1>2. sq' = [sq EXCEPT ![s] = Post(r, k, "text")]
    BY DEF FillAndWrite
  <1> HIDE DEF r
  <1>3. k \in Kind /\ "text" \in Payload
    BY DEF Kind, Payload
  <1>4. Kinds(sq'[s]) = Kinds(r) \cup {k}
    BY <1>1, <1>2, <1>3, KindsPost
  <1>5. Kinds(sq'[s]) \cap WriteKind # {}
    BY <1>4
  <1>6. QED
    BY <1>2, <1>5 DEF Op, OpOf

\* The handler of a read completion starts a store.
LEMMA ReadDoneStartsStore ==
    ASSUME IndInv, NEW s \in Side, NEW p \in Side, Pair(s, p),
           \A t \in Side : t = s \/ t = p,
           ProcessReadDone(s)
    PROVE  /\ Op(s) = "fetched"
           /\ OpVar' = [OpVar EXCEPT ![s] = "storing"]
           /\ UNCHANGED <<peerbuf, sink, readbuf>>
  <1>1. /\ comp[s] # <<>> /\ Head(comp[s]) = "READ"
        /\ comp' = [comp EXCEPT ![s] = Tail(@)]
        /\ FillAndWrite(s, sq[s], "WRITE")
        /\ UNCHANGED <<peerbuf, sink, readbuf>>
    BY DEF ProcessReadDone, PolledComp
  <1>2. Tail(comp[s]) = <<>> /\ sq[s] \in Seq(WorkRequest)
    BY <1>1, OneRdma
  <1>3. comp \in [Side -> Seq({"WRITE", "READ"})] /\ sq \in [Side -> Seq(WorkRequest)]
    BY DEF IndInv, TypeOK
  <1>4. p # s
    BY DEF Pair
  <1>5. comp'[s] = <<>> /\ comp'[p] = comp[p] /\ "WRITE" \in WriteKind
    BY <1>1, <1>2, <1>3, <1>4 DEF WriteKind
  <1>6. Op(s)' = "storing" /\ sq'[p] = sq[p]
    BY <1>1, <1>2, <1>3, <1>4, <1>5, PostedWrite
  <1>7. Op(s) = "fetched"
    BY <1>1 DEF Op, OpOf
  <1>8. Op(p)' = Op(p)
    BY <1>5, <1>6 DEF Op
  <1>9. OpVar' = [OpVar EXCEPT ![s] = "storing"]
    BY <1>4, <1>6, <1>8, OpMoves
  <1>10. QED
    BY <1>1, <1>7, <1>9

\* The handler of REQUEST_EXCHANGE_KEY learns the descriptor, for the first time and
\* intact, and starts the first store.
LEMMA RequestLearns ==
    ASSUME IndInv, IndInv', NEW s \in Side, NEW p \in Side, Pair(s, p),
           \A t \in Side : t = s \/ t = p,
           ProcessRequest(s)
    PROVE  /\ peerbuf[s] = "none" /\ Op(s) = "idle"
           /\ peerbuf' = [peerbuf EXCEPT ![s] = "desc"]
           /\ OpVar' = [OpVar EXCEPT ![s] = "storing"]
           /\ UNCHANGED <<sink, readbuf>>
  <1> DEFINE q == Post(sq[s], "RESP", sendbuf[s])
  <1>1. /\ stage[s] = "running" /\ inbox[s] # <<>> /\ Head(inbox[s]) = "REQ"
        /\ InsertPeerBuffer(s, recvbuf[s])
        /\ FillAndWrite(s, q, "WIMM")
        /\ UNCHANGED <<sink, readbuf, comp>>
    BY DEF ProcessRequest, PolledRecv
  <1>2. Phase(s) = 2
    BY <1>1, HeadPhase
  <1>3. peerbuf[s] = "none"
    BY <1>2, InvAt DEF PhaseInv
  <1>4. /\ comp[s] = <<>> /\ Kinds(sq[s]) \cap RdmaKind = {}
        /\ sq[s] \in Seq(WorkRequest)
    BY <1>3, OneRdma
  <1>5. WriteKind \subseteq RdmaKind /\ "READ" \in RdmaKind /\ "WIMM" \in WriteKind
        /\ "RESP" \in Kind
    BY DEF RdmaKind, WriteKind, Kind, SendKind
  <1>6. Op(s) = "idle"
    BY <1>4, <1>5 DEF Op, OpOf
  <1>7. /\ sq \in [Side -> Seq(WorkRequest)] /\ sendbuf[s] \in Payload
        /\ recvbuf[s] \in Payload /\ peerbuf \in [Side -> Payload \cup {"none"}]
    BY DEF IndInv, TypeOK
  <1>8. q \in Seq(WorkRequest)
    BY <1>4, <1>5, <1>7, PostFacts
  <1> HIDE DEF q
  <1>9. Op(s)' = "storing" /\ \A t \in Side : t # s => sq'[t] = sq[t]
    BY <1>1, <1>4, <1>5, <1>7, <1>8, PostedWrite
  <1>10. p # s
    BY DEF Pair
  <1>11. Op(p)' = Op(p)
    BY <1>1, <1>9, <1>10 DEF Op
  <1>12. OpVar' = [OpVar EXCEPT ![s] = "storing"]
    BY <1>9, <1>10, <1>11, OpMoves
  <1>13. peerbuf' = [peerbuf EXCEPT ![s] = recvbuf[s]]
    BY <1>1, <1>3, <1>7 DEF InsertPeerBuffer
  <1>14. DescInv(s)'
    BY DEF IndInv
  <1>15. peerbuf'[s] \in {"none", "desc"}
    BY <1>14 DEF DescInv
  <1>16. recvbuf[s] = "desc"
    BY <1>7, <1>13, <1>15 DEF Payload
  <1>17. QED
    BY <1>1, <1>3, <1>6, <1>12, <1>13, <1>16

-----------------------------------------------------------------------------
\* The initial state is one of RemoteStore.
LEMMA StoreInit == Init => Store!Init
  <1> SUFFICES ASSUME Init PROVE Store!Init
    OBVIOUS
  <1>1. \A s \in Side : Kinds(sq[s]) = {} /\ comp[s] = <<>>
    BY DEF Init, Kinds
  <1>2. \A s \in Side : OpOf(sq[s], comp[s]) = "idle"
    BY <1>1 DEF OpOf
  <1>3. QED
    BY <1>2 DEF Init, Store!Init

\* Every step is one of RemoteStore, or none: one case per action.
LEMMA StoreNext == IndInv /\ IndInv' /\ [Next]_vars => [Store!Next]_(Store!vars)
  <1> SUFFICES ASSUME IndInv, IndInv', [Next]_vars PROVE [Store!Next]_(Store!vars)
    OBVIOUS
  <1>0. OpVar = [s \in Side |-> OpOf(sq[s], comp[s])]
    BY DEF OpVar, Op
  <1>1. ASSUME OpVar' = OpVar, Data' = Data PROVE UNCHANGED Store!vars
    BY <1>1 DEF Store!vars, OpVar, Op, Data
  <1>2. ASSUME NEW s \in Side, Establish(s) \/ Nic(s) \/ HandleRecv(s) \/ HandleComp(s)
        PROVE  [Store!Next]_(Store!vars)
    <2>1. PICK p \in Side : Pair(s, p) /\ \A t \in Side : t = s \/ t = p
      BY PairFacts
    <2>2. Peer(s) = p /\ OpVar[s] = Op(s)
      BY <2>1 DEF Pair, OpVar
    <2>3. CASE \/ PostReceives(s) \/ SyncSend(s) \/ SyncRecv(s) \/ FirstSend(s)
               \/ ExecuteSend(s) \/ ProcessSync(s) \/ ProcessOther(s)
               \/ ProcessRecvWriteWithImm(s)
      BY <1>1, <2>3, Hidden
    <2>4. CASE ExecuteWriteWithImm(s) \/ ExecuteWrite(s)
      <3>1. Store!Store(s)
        BY <2>1, <2>2, <2>4, WriteStores DEF Store!Store, OpVar, Op
      <3>2. QED
        BY <3>1 DEF Store!Next, Store!Step
    <2>5. CASE ExecuteRead(s)
      <3>1. Store!Fetch(s)
        BY <2>1, <2>2, <2>5, ReadFetches DEF Store!Fetch, OpVar, Op
      <3>2. QED
        BY <3>1 DEF Store!Next, Store!Step
    <2>6. CASE ProcessWriteDone(s)
      <3>1. Store!StartFetch(s)
        BY <2>1, <2>2, <2>6, WriteDoneStartsFetch DEF Store!StartFetch, OpVar, Op
      <3>2. QED
        BY <3>1 DEF Store!Next, Store!Step
    <2>7. CASE ProcessReadDone(s)
      <3>1. Store!StartStore(s)
        BY <2>1, <2>2, <2>7, ReadDoneStartsStore DEF Store!StartStore, OpVar, Op
      <3>2. QED
        BY <3>1 DEF Store!Next, Store!Step
    <2>8. CASE ProcessRequest(s)
      <3>1. Store!Learn(s)
        BY <2>1, <2>2, <2>8, RequestLearns DEF Store!Learn, OpVar, Op
      <3>2. QED
        BY <3>1 DEF Store!Next, Store!Step
    <2>9. QED
      BY <1>2, <2>3, <2>4, <2>5, <2>6, <2>7, <2>8
         DEF Establish, Nic, HandleRecv, HandleComp
  <1>3. CASE UNCHANGED vars
    BY <1>1, <1>3 DEF vars, OpVar, Op, Data
  <1>4. QED
    BY <1>2, <1>3 DEF Next

\* The default session implements RemoteStore: whatever the interleaving of the two
\* threads and the two send queues, each side learns the right descriptor once and
\* then stores and fetches in turn, and a fetch returns the text
\* (rdma_session.cc:278-361, 363-417).
THEOREM SessionImplementsStore == Spec => ImplementsStore
  <1>1. QED
    BY StoreInit, StoreNext, Inductive, PTL DEF Spec, ImplementsStore, Store!Spec
=============================================================================
