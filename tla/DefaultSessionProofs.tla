------------------------ MODULE DefaultSessionProofs ------------------------
(***************************************************************************)
(* Proofs about DefaultSession, for every number of posted receives: type  *)
(* correctness, the inductive invariant IndInv, and from it the safety     *)
(* properties of the key exchange and of the write / read-back loop.       *)
(*                                                                         *)
(* The argument is about the pipe from a side s to its peer p: the inbox   *)
(* of p followed by the send queue of s.  The Pipe lemmas say what the NIC *)
(* and the two threads do to it, once and for all; each action then has    *)
(* one lemma that says which of them it is.                                *)
(***************************************************************************)
EXTENDS DefaultSession, FiniteSetTheorems, SequenceTheorems, TLAPS

\* The two sides are each other's peers.
LEMMA PeerFacts ==
    ASSUME NEW s \in Side
    PROVE  /\ Peer(s) \in Side
           /\ Peer(s) # s
           /\ Peer(Peer(s)) = s
           /\ \A t \in Side : t = s \/ t = Peer(s)
  BY DEF Side, Peer

\* Refilling a buffer keeps the send queue's length and kinds, and disturbs only
\* the work requests that point at it.
LEMMA TornFacts ==
    ASSUME NEW q \in Seq(WorkRequest), NEW K
    PROVE  /\ Torn(q, K) \in Seq(WorkRequest)
           /\ Len(Torn(q, K)) = Len(q)
           /\ \A i \in 1..Len(q) :
                 /\ Torn(q, K)[i].kind = q[i].kind
                 /\ q[i].kind \notin K => Torn(q, K)[i] = q[i]
  <1>1. \A i \in 1..Len(q) : q[i] \in WorkRequest
    OBVIOUS
  <1>2. \A i \in 1..Len(q) : Torn(q, K)[i] \in WorkRequest
    BY <1>1 DEF Torn, WorkRequest, Payload
  <1>3. Torn(q, K) \in [1..Len(q) -> WorkRequest]
    BY <1>2 DEF Torn
  <1>4. Torn(q, K) \in Seq(WorkRequest) /\ Len(Torn(q, K)) = Len(q)
    BY <1>3, SeqDef
  <1>5. \A i \in 1..Len(q) :
                 /\ Torn(q, K)[i].kind = q[i].kind
                 /\ q[i].kind \notin K => Torn(q, K)[i] = q[i]
    BY <1>1 DEF Torn, WorkRequest
  <1>6. QED
    BY <1>4, <1>5

\* Posting appends one work request and leaves the others alone.
LEMMA PostFacts ==
    ASSUME NEW q \in Seq(WorkRequest), NEW k \in Kind, NEW d \in Payload
    PROVE  /\ Post(q, k, d) \in Seq(WorkRequest)
           /\ Len(Post(q, k, d)) = Len(q) + 1
           /\ \A i \in 1..Len(q) : Post(q, k, d)[i] = q[i]
           /\ Post(q, k, d)[Len(q) + 1].kind = k
           /\ Post(q, k, d)[Len(q) + 1].data = d
  BY DEF Post, WorkRequest

\* Taking the head of a non-empty queue.
LEMMA TailFacts ==
    ASSUME NEW S, NEW q \in Seq(S), q # <<>>
    PROVE  /\ Tail(q) \in Seq(S)
           /\ Len(q) \in Nat /\ Len(q) >= 1
           /\ Len(Tail(q)) = Len(q) - 1
           /\ \A i \in 1..Len(Tail(q)) : Tail(q)[i] = q[i + 1]
           /\ Head(q) = q[1]
           /\ q[1] \in S
  OBVIOUS

\* Adding to the tail of a queue.
LEMMA AppendFacts ==
    ASSUME NEW S, NEW q \in Seq(S), NEW e \in S
    PROVE  /\ Append(q, e) \in Seq(S)
           /\ Len(q) \in Nat
           /\ Len(Append(q, e)) = Len(q) + 1
           /\ \A i \in 1..Len(q) : Append(q, e)[i] = q[i]
           /\ Append(q, e)[Len(q) + 1] = e
  OBVIOUS

\* fill_in followed by send_remote: one SEND more, RDMA operations untouched.
LEMMA FillAndSendFacts ==
    ASSUME NEW s \in Side, TypeOK, NEW d \in Payload, NEW k \in SendKind,
           FillAndSend(s, d, k)
    PROVE  /\ sendbuf' \in [Side -> Payload]
           /\ sendbuf' = [sendbuf EXCEPT ![s] = d]
           /\ sq' \in [Side -> Seq(WorkRequest)]
           /\ \A t \in Side : t # s => sq'[t] = sq[t]
           /\ Len(sq'[s]) = Len(sq[s]) + 1
           /\ \A i \in 1..Len(sq[s]) :
                 /\ sq'[s][i].kind = sq[s][i].kind
                 /\ sq[s][i].kind \in RdmaKind => sq'[s][i] = sq[s][i]
           /\ sq'[s][Len(sq[s]) + 1].kind = k
           /\ sq'[s][Len(sq[s]) + 1].data = d
  <1> DEFINE q == Torn(sq[s], SendKind)
  <1>1. sq \in [Side -> Seq(WorkRequest)] /\ sq[s] \in Seq(WorkRequest)
    BY DEF TypeOK
  <1>2. k \in Kind
    BY DEF Kind
  <1>3. /\ q \in Seq(WorkRequest)
        /\ Len(q) = Len(sq[s])
        /\ \A i \in 1..Len(sq[s]) :
              /\ q[i].kind = sq[s][i].kind
              /\ sq[s][i].kind \notin SendKind => q[i] = sq[s][i]
    BY <1>1, TornFacts
  <1>4. sq' = [sq EXCEPT ![s] = Post(q, k, d)] /\ sendbuf' = [sendbuf EXCEPT ![s] = d]
    BY DEF FillAndSend
  <1> HIDE DEF q
  <1>5. /\ Post(q, k, d) \in Seq(WorkRequest)
        /\ Len(Post(q, k, d)) = Len(q) + 1
        /\ \A i \in 1..Len(q) : Post(q, k, d)[i] = q[i]
        /\ Post(q, k, d)[Len(q) + 1].kind = k
        /\ Post(q, k, d)[Len(q) + 1].data = d
    BY <1>2, <1>3, PostFacts
  <1>6. RdmaKind \cap SendKind = {}
    BY DEF RdmaKind, SendKind, WriteKind
  <1>7. sendbuf' \in [Side -> Payload]
    BY <1>4 DEF TypeOK
  <1>8. QED
    BY <1>1, <1>3, <1>4, <1>5, <1>6, <1>7

\* fill_in followed by write_remote: one write more, SENDs untouched.
LEMMA FillAndWriteFacts ==
    ASSUME NEW s \in Side, TypeOK, NEW q \in Seq(WorkRequest), NEW k \in WriteKind,
           FillAndWrite(s, q, k)
    PROVE  /\ writebuf' \in [Side -> Text]
           /\ sq' \in [Side -> Seq(WorkRequest)]
           /\ \A t \in Side : t # s => sq'[t] = sq[t]
           /\ Len(sq'[s]) = Len(q) + 1
           /\ \A i \in 1..Len(q) :
                 /\ sq'[s][i].kind = q[i].kind
                 /\ q[i].kind \notin WriteKind => sq'[s][i] = q[i]
           /\ sq'[s][Len(q) + 1].kind = k
           /\ sq'[s][Len(q) + 1].data = "text"
  <1> DEFINE r == Torn(q, WriteKind)
  <1>1. sq \in [Side -> Seq(WorkRequest)]
    BY DEF TypeOK
  <1>2. k \in Kind /\ "text" \in Payload
    BY DEF Kind, Payload
  <1>3. /\ r \in Seq(WorkRequest)
        /\ Len(r) = Len(q)
        /\ \A i \in 1..Len(q) :
              /\ r[i].kind = q[i].kind
              /\ q[i].kind \notin WriteKind => r[i] = q[i]
    BY TornFacts
  <1>4. sq' = [sq EXCEPT ![s] = Post(r, k, "text")] /\ writebuf' = [writebuf EXCEPT ![s] = "text"]
    BY DEF FillAndWrite
  <1> HIDE DEF r
  <1>5. /\ Post(r, k, "text") \in Seq(WorkRequest)
        /\ Len(Post(r, k, "text")) = Len(r) + 1
        /\ \A i \in 1..Len(r) : Post(r, k, "text")[i] = r[i]
        /\ Post(r, k, "text")[Len(r) + 1].kind = k
        /\ Post(r, k, "text")[Len(r) + 1].data = "text"
    BY <1>2, <1>3, PostFacts
  <1>6. writebuf' \in [Side -> Text]
    BY <1>4 DEF TypeOK, Text
  <1>7. QED
    BY <1>1, <1>3, <1>4, <1>5, <1>6

-----------------------------------------------------------------------------
\* Type correctness holds initially.
LEMMA TypeInit == Init => TypeOK
  BY DEF Init, TypeOK, Stage, Payload, Text

\* Every step keeps the types.  That a write carries the test text is a matter of
\* the invariant on RDMA operations.
LEMMA TypeNext ==
    ASSUME TypeOK, \A t \in Side : RdmaInv(t), [Next]_vars
    PROVE  TypeOK'
  <1>1. CASE UNCHANGED vars
    BY <1>1 DEF TypeOK, vars
  <1> SUFFICES ASSUME NEW s \in Side,
                      Establish(s) \/ Nic(s) \/ HandleRecv(s) \/ HandleComp(s)
               PROVE  TypeOK'
    BY <1>1 DEF Next
  <1> Peer(s) \in Side
    BY PeerFacts
  <1>k. /\ {"zero", "hello", "desc", "greet", "text"} \subseteq Payload
        /\ {"SYNC", "REQ", "UNSET"} \subseteq SendKind
        /\ {"WIMM", "WRITE"} \subseteq WriteKind
    BY DEF Payload, SendKind, WriteKind
  <1>2. CASE PostReceives(s)
    BY <1>2, PostedRecvsAssumption DEF TypeOK, PostReceives, Stage, Payload
  <1>3. CASE SyncSend(s)
    BY <1>3 DEF TypeOK, SyncSend, Stage
  <1>4. CASE SyncRecv(s)
    BY <1>4 DEF TypeOK, SyncRecv, Stage
  <1>5. CASE FirstSend(s)
    <2>1. sendbuf' \in [Side -> Payload] /\ sq' \in [Side -> Seq(WorkRequest)]
      <3>1. FillAndSend(s, "hello", "SYNC")
        BY <1>5 DEF FirstSend
      <3>2. QED
        BY <3>1, <1>k, FillAndSendFacts
    <2>2. QED
      BY <1>5, <2>1 DEF TypeOK, FirstSend, Stage
  <1>6. CASE Nic(s)
    <2> DEFINE w == Head(sq[s])
    <2>1. sq[s] # <<>>
      BY <1>6 DEF Nic, ExecuteSend, ExecuteWriteWithImm, ExecuteWrite, ExecuteRead
    <2>2. Tail(sq[s]) \in Seq(WorkRequest) /\ w \in WorkRequest
      BY <2>1, TailFacts DEF TypeOK
    <2>3. w.data \in Payload
      BY <2>2 DEF WorkRequest
    <2>w. w.kind \in WriteKind => w.data \in Text
      <3>1. w = sq[s][1] /\ 1 \in 1..Len(sq[s])
        BY <2>1, TailFacts DEF TypeOK
      <3>2. sq[s][1].kind \in WriteKind => sq[s][1].data = "text"
        BY <3>1 DEF RdmaInv, RdmaKind
      <3>3. QED
        BY <3>1, <3>2 DEF Text
    <2> HIDE DEF w
    <2>4. CASE ExecuteSend(s)
      <3>1. Append(inbox[Peer(s)], w.kind) \in Seq(RecvKind)
        BY <2>4, AppendFacts DEF ExecuteSend, TypeOK, RecvKind, w
      <3>2. recvs[Peer(s)] - 1 \in Nat
        BY <2>4 DEF ExecuteSend, TypeOK
      <3>3. QED
        BY <2>2, <2>3, <2>4, <3>1, <3>2 DEF TypeOK, ExecuteSend, w
    <2>5. CASE ExecuteWriteWithImm(s)
      <3>1. Append(inbox[Peer(s)], "WIMM") \in Seq(RecvKind)
        BY AppendFacts DEF TypeOK, RecvKind
      <3>2. recvs[Peer(s)] - 1 \in Nat
        BY <2>5 DEF ExecuteWriteWithImm, TypeOK
      <3>3. Append(comp[s], "WRITE") \in Seq({"WRITE", "READ"})
        BY AppendFacts DEF TypeOK
      <3>4. QED
        BY <2>2, <2>w, <2>5, <3>1, <3>2, <3>3 DEF TypeOK, ExecuteWriteWithImm, WriteKind, w
    <2>6. CASE ExecuteWrite(s)
      <3>1. Append(comp[s], "WRITE") \in Seq({"WRITE", "READ"})
        BY AppendFacts DEF TypeOK
      <3>2. QED
        BY <2>2, <2>w, <2>6, <3>1 DEF TypeOK, ExecuteWrite, WriteKind, w
    <2>7. CASE ExecuteRead(s)
      <3>1. Append(comp[s], "READ") \in Seq({"WRITE", "READ"})
        BY AppendFacts DEF TypeOK
      <3>2. QED
        BY <2>2, <2>7, <3>1 DEF TypeOK, ExecuteRead, w
    <2>8. QED
      BY <1>6, <2>4, <2>5, <2>6, <2>7 DEF Nic
  <1>7. CASE HandleRecv(s)
    <2>1. inbox' \in [Side -> Seq(RecvKind)]
      <3>1. inbox[s] # <<>> /\ inbox' = [inbox EXCEPT ![s] = Tail(@)]
        BY <1>7 DEF HandleRecv, ProcessRequest, ProcessSync, ProcessOther,
           ProcessRecvWriteWithImm, PolledRecv
      <3>2. QED
        BY <3>1, TailFacts DEF TypeOK
    <2>2. recvs' \in [Side -> Nat]
      <3>1. RecvRemote(s)
        BY <1>7 DEF HandleRecv, ProcessRequest, ProcessSync, ProcessOther,
           ProcessRecvWriteWithImm
      <3>2. QED
        BY <3>1 DEF RecvRemote, TypeOK
    <2>3. CASE ProcessRequest(s)
      <3>1. Post(sq[s], "RESP", sendbuf[s]) \in Seq(WorkRequest)
        BY PostFacts DEF TypeOK, Kind, SendKind
      <3>2. writebuf' \in [Side -> Text] /\ sq' \in [Side -> Seq(WorkRequest)]
        <4>1. FillAndWrite(s, Post(sq[s], "RESP", sendbuf[s]), "WIMM")
          BY <2>3 DEF ProcessRequest
        <4>2. QED
          BY <4>1, <3>1, <1>k, FillAndWriteFacts
      <3>3. peerbuf' \in [Side -> Payload \cup {"none"}]
        BY <2>3 DEF ProcessRequest, InsertPeerBuffer, TypeOK
      <3>4. QED
        BY <2>1, <2>2, <2>3, <3>2, <3>3 DEF TypeOK, ProcessRequest
    <2>4. CASE ProcessSync(s)
      <3>1. sendbuf' \in [Side -> Payload] /\ sq' \in [Side -> Seq(WorkRequest)]
        <4>1. FillAndSend(s, "desc", "REQ")
          BY <2>4 DEF ProcessSync
        <4>2. QED
          BY <4>1, <1>k, FillAndSendFacts
      <3>2. QED
        BY <2>1, <2>2, <2>4, <3>1 DEF TypeOK, ProcessSync
    <2>5. CASE ProcessOther(s)
      <3>1. sendbuf' \in [Side -> Payload] /\ sq' \in [Side -> Seq(WorkRequest)]
        <4>1. FillAndSend(s, "greet", "UNSET")
          BY <2>5 DEF ProcessOther
        <4>2. QED
          BY <4>1, <1>k, FillAndSendFacts
      <3>2. QED
        BY <2>1, <2>2, <2>5, <3>1 DEF TypeOK, ProcessOther
    <2>6. CASE ProcessRecvWriteWithImm(s)
      BY <2>1, <2>2, <2>6 DEF TypeOK, ProcessRecvWriteWithImm
    <2>7. QED
      BY <1>7, <2>3, <2>4, <2>5, <2>6 DEF HandleRecv
  <1>8. CASE HandleComp(s)
    <2>1. comp' \in [Side -> Seq({"WRITE", "READ"})]
      <3>1. comp[s] # <<>> /\ comp' = [comp EXCEPT ![s] = Tail(@)]
        BY <1>8 DEF HandleComp, ProcessWriteDone, ProcessReadDone, PolledComp
      <3>2. QED
        BY <3>1, TailFacts DEF TypeOK
    <2>2. CASE ProcessWriteDone(s)
      <3>1. Post(sq[s], "READ", "zero") \in Seq(WorkRequest)
        BY PostFacts DEF TypeOK, Kind, Payload
      <3>2. QED
        BY <2>1, <2>2, <3>1 DEF TypeOK, ProcessWriteDone, Text
    <2>3. CASE ProcessReadDone(s)
      <3>1. writebuf' \in [Side -> Text] /\ sq' \in [Side -> Seq(WorkRequest)]
        <4>1. FillAndWrite(s, sq[s], "WRITE") /\ sq[s] \in Seq(WorkRequest)
          BY <2>3 DEF ProcessReadDone, TypeOK
        <4>2. QED
          BY <4>1, <1>k, FillAndWriteFacts
      <3>2. QED
        BY <2>1, <2>3, <3>1 DEF TypeOK, ProcessReadDone
    <2>4. QED
      BY <1>8, <2>2, <2>3 DEF HandleComp
  <1>9. QED
    BY <1>2, <1>3, <1>4, <1>5, <1>6, <1>7, <1>8 DEF Establish

-----------------------------------------------------------------------------
(* Phases and ranks. *)

\* The rank determines the kind, up to the repeatable kinds of the last rank.
LEMMA RankFacts ==
    /\ \A k \in Kind : Rank(k) \in 1..5
    /\ \A k \in Kind :
          /\ (Rank(k) = 1) <=> (k = "SYNC")
          /\ (Rank(k) = 2) <=> (k = "REQ")
          /\ (Rank(k) = 3) <=> (k = "RESP")
          /\ (Rank(k) = 4) <=> (k = "WIMM")
          /\ (Rank(k) = 5) <=> (k \in {"UNSET", "WRITE", "READ"})
    /\ Kind = {"SYNC", "REQ", "RESP", "UNSET", "WIMM", "WRITE", "READ"}
    /\ RecvKind = {"SYNC", "REQ", "RESP", "UNSET", "WIMM"}
    /\ SendKind = {"SYNC", "REQ", "RESP", "UNSET"}
    /\ WriteKind = {"WIMM", "WRITE"}
    /\ RdmaKind = {"WIMM", "WRITE", "READ"}
  <1>1. /\ Kind = {"SYNC", "REQ", "RESP", "UNSET", "WIMM", "WRITE", "READ"}
        /\ RecvKind = {"SYNC", "REQ", "RESP", "UNSET", "WIMM"}
        /\ SendKind = {"SYNC", "REQ", "RESP", "UNSET"}
        /\ WriteKind = {"WIMM", "WRITE"}
        /\ RdmaKind = {"WIMM", "WRITE", "READ"}
    BY DEF Kind, SendKind, WriteKind, RecvKind, RdmaKind
  <1>2. QED
    BY <1>1 DEF Rank

\* Phases are numbers from 0 to 4, and 0 means not yet running.
LEMMA PhaseFacts ==
    ASSUME NEW s \in Side
    PROVE  /\ Phase(s) \in 0..4
           /\ Phase(s) = 0 <=> stage[s] # "running"
  BY DEF Phase

\* The elements of the queues have their types.
LEMMA QueueFacts ==
    ASSUME TypeOK, NEW s \in Side
    PROVE  /\ sq[s] \in Seq(WorkRequest) /\ Len(sq[s]) \in Nat
           /\ inbox[s] \in Seq(RecvKind) /\ Len(inbox[s]) \in Nat
           /\ comp[s] \in Seq({"WRITE", "READ"}) /\ Len(comp[s]) \in Nat
           /\ \A i \in 1..Len(sq[s]) : sq[s][i].kind \in Kind /\ sq[s][i].data \in Payload
           /\ \A i \in 1..Len(inbox[s]) : inbox[s][i] \in RecvKind
           /\ \A i \in 1..Len(comp[s]) : comp[s][i] \in {"WRITE", "READ"}
  <1>1. \A i \in 1..Len(sq[s]) : sq[s][i] \in WorkRequest
    BY DEF TypeOK
  <1>2. \A i \in 1..Len(sq[s]) : sq[s][i].kind \in Kind /\ sq[s][i].data \in Payload
    BY <1>1 DEF WorkRequest
  <1>3. /\ sq[s] \in Seq(WorkRequest) /\ Len(sq[s]) \in Nat
        /\ inbox[s] \in Seq(RecvKind) /\ Len(inbox[s]) \in Nat
        /\ comp[s] \in Seq({"WRITE", "READ"}) /\ Len(comp[s]) \in Nat
    BY DEF TypeOK
  <1>4. /\ \A i \in 1..Len(inbox[s]) : inbox[s][i] \in RecvKind
        /\ \A i \in 1..Len(comp[s]) : comp[s][i] \in {"WRITE", "READ"}
    BY <1>3
  <1>5. QED
    BY <1>2, <1>3, <1>4

\* The parts of the invariant, at one side.
LEMMA InvAt ==
    ASSUME IndInv, NEW s \in Side
    PROVE  /\ PhaseInv(s) /\ RankInv(s) /\ OrderInv(s)
           /\ PresenceInv(s) /\ DescInv(s) /\ RdmaInv(s)
  BY DEF IndInv

\* What a polled receive completion says about the phases of the two sides.
LEMMA HeadPhase ==
    ASSUME IndInv, NEW s \in Side, stage[s] = "running", inbox[s] # <<>>
    PROVE  /\ Head(inbox[s]) = inbox[s][1] /\ Len(inbox[s]) >= 1
           /\ Head(inbox[s]) = "SYNC" => Phase(s) = 1 /\ Phase(Peer(s)) >= 1
           /\ Head(inbox[s]) = "REQ" => Phase(s) = 2 /\ Phase(Peer(s)) >= 2
           /\ Head(inbox[s]) = "RESP" => Phase(s) = 3 /\ Phase(Peer(s)) >= 3
           /\ Head(inbox[s]) = "UNSET" => Phase(s) = 4 /\ Phase(Peer(s)) = 4
           /\ Head(inbox[s]) = "WIMM" => Phase(s) = 4 /\ Phase(Peer(s)) >= 3
  <1> DEFINE p == Peer(s)
  <1>1. p \in Side /\ Peer(p) = s /\ Phase(s) \in 1..4 /\ Phase(p) \in 0..4
    BY PeerFacts, PhaseFacts
  <1>2. Head(inbox[s]) = inbox[s][1] /\ Len(inbox[s]) \in Nat /\ Len(inbox[s]) >= 1
        /\ inbox[s][1] \in RecvKind
    BY TailFacts DEF IndInv, TypeOK
  <1>i. RankInv(p) /\ OrderInv(p) /\ PresenceInv(p)
    BY <1>1, InvAt
  <1>3. /\ Rank(inbox[s][1]) >= Phase(s)
        /\ Rank(inbox[s][1]) <= Phase(p) \/ Phase(p) >= 3
        /\ inbox[s][1] = "UNSET" => Phase(p) = 4
        /\ Rank(inbox[s][1]) \in 1..5
    BY <1>1, <1>2, <1>i, RankFacts DEF RankInv
  <1>4. ASSUME NEW r \in 1..3, Phase(s) = r, r <= Phase(p)
        PROVE  Rank(inbox[s][1]) <= r
    <2>1. InPipe(p, r)
      BY <1>1, <1>4, <1>i DEF PresenceInv
    <2>2. CASE \E i \in 1..Len(inbox[s]) : Rank(inbox[s][i]) = r
      BY <1>1, <1>2, <1>3, <1>i, <2>2 DEF OrderInv, Ordered
    <2>3. CASE \E i \in 1..Len(sq[p]) : Rank(sq[p][i].kind) = r
      BY <1>1, <1>2, <1>3, <1>i, <2>3 DEF OrderInv, Ordered
    <2>4. QED
      BY <1>1, <2>1, <2>2, <2>3 DEF InPipe
  <1>5. QED
    BY <1>1, <1>2, <1>3, <1>4, RankFacts

-----------------------------------------------------------------------------
(***************************************************************************)
(* What a step does to the pipe from s to p: the NIC moves its head from   *)
(* the send queue to the inbox, or drops a silent RDMA operation; the      *)
(* thread of p pops it; the thread of s pushes a work request.             *)
(***************************************************************************)
PipeInv(s) == RankInv(s) /\ OrderInv(s) /\ PresenceInv(s)

Pair(s, p) == s \in Side /\ p \in Side /\ p # s /\ Peer(s) = p /\ Peer(p) = s

\* Every side has its peer, and there is no third.
LEMMA PairFacts ==
    ASSUME NEW s \in Side
    PROVE  \E p \in Side : Pair(s, p) /\ \A t \in Side : t = s \/ t = p
  BY PeerFacts DEF Pair

\* The invariant from its parts at the two sides.
LEMMA InvFromSides ==
    ASSUME TypeOK', ReceivesConserved', NEW s \in Side, NEW p \in Side,
           \A t \in Side : t = s \/ t = p,
           PhaseInv(s)', PipeInv(s)', DescInv(s)', RdmaInv(s)',
           PhaseInv(p)', PipeInv(p)', DescInv(p)', RdmaInv(p)'
    PROVE  IndInv'
  <1>1. ASSUME NEW t \in Side
        PROVE  (PhaseInv(t) /\ PipeInv(t) /\ DescInv(t) /\ RdmaInv(t))'
    <2>1. CASE t = s
      BY <2>1
    <2>2. CASE t = p
      BY <2>2
    <2>3. QED
      BY <2>1, <2>2
  <1>2. QED
    BY <1>1 DEF IndInv, PipeInv

\* Types of the two halves of a pipe.
LEMMA PipeFacts ==
    ASSUME TypeOK, NEW s, NEW p, Pair(s, p)
    PROVE  /\ Len(sq[s]) \in Nat /\ Len(inbox[p]) \in Nat
           /\ Phase(s) \in 0..4 /\ Phase(p) \in 0..4
           /\ \A i \in 1..Len(sq[s]) : sq[s][i].kind \in Kind /\ Rank(sq[s][i].kind) \in 1..5
           /\ \A i \in 1..Len(inbox[p]) : inbox[p][i] \in RecvKind /\ Rank(inbox[p][i]) \in 1..5
  <1>1. s \in Side /\ p \in Side
    BY DEF Pair
  <1>2. \A k \in RecvKind : k \in Kind
    BY DEF RecvKind, Kind, SendKind, WriteKind
  <1>3. \A i \in 1..Len(sq[s]) : sq[s][i].kind \in Kind
    BY <1>1, QueueFacts
  <1>4. \A i \in 1..Len(inbox[p]) : inbox[p][i] \in RecvKind
    BY <1>1, QueueFacts
  <1>5. \A k \in Kind : Rank(k) \in 1..5
    BY RankFacts
  <1>6. Len(sq[s]) \in Nat /\ Len(inbox[p]) \in Nat
    BY <1>1, QueueFacts
  <1>7. Phase(s) \in 0..4 /\ Phase(p) \in 0..4
    BY <1>1, PhaseFacts
  <1>8. QED
    BY <1>2, <1>3, <1>4, <1>5, <1>6, <1>7

\* A step that touches neither half nor phase keeps the pipe invariant.
LEMMA PipeSame ==
    ASSUME NEW s, NEW p, Pair(s, p), PipeInv(s),
           sq'[s] = sq[s], inbox'[p] = inbox[p],
           Phase(s)' = Phase(s), Phase(p)' = Phase(p)
    PROVE  PipeInv(s)'
  <1>1. Peer(s) = p
    BY DEF Pair
  <1>2. RankInv(s)'
    BY <1>1 DEF PipeInv, RankInv
  <1>3. OrderInv(s)'
    BY <1>1 DEF PipeInv, OrderInv
  <1>4. PresenceInv(s)'
    BY <1>1 DEF PipeInv, PresenceInv, InPipe
  <1>5. QED
    BY <1>2, <1>3, <1>4 DEF PipeInv

\* The NIC delivers the head of the send queue: it moves to the peer's inbox.
LEMMA PipeMove ==
    ASSUME TypeOK, NEW s, NEW p, Pair(s, p), PipeInv(s),
           Len(sq[s]) >= 1,
           Len(sq'[s]) = Len(sq[s]) - 1,
           \A i \in 1..Len(sq'[s]) : sq'[s][i] = sq[s][i + 1],
           Len(inbox'[p]) = Len(inbox[p]) + 1,
           \A i \in 1..Len(inbox[p]) : inbox'[p][i] = inbox[p][i],
           inbox'[p][Len(inbox[p]) + 1] = sq[s][1].kind,
           Phase(s)' = Phase(s), Phase(p)' = Phase(p)
    PROVE  PipeInv(s)'
  <1>1. Peer(s) = p
    BY DEF Pair
  <1>2. /\ Len(sq[s]) \in Nat /\ Len(inbox[p]) \in Nat
        /\ Phase(s) \in 0..4 /\ Phase(p) \in 0..4
    BY PipeFacts
  <1>3. RankInv(s) /\ OrderInv(s) /\ PresenceInv(s)
    BY DEF PipeInv
  <1>4. RankInv(s)'
    <2>1. ASSUME NEW i \in 1..Len(sq'[s])
          PROVE  /\ Rank(sq'[s][i].kind) >= Phase(p)
                 /\ Rank(sq'[s][i].kind) <= Phase(s) \/ Phase(s) >= 3
                 /\ sq'[s][i].kind = "UNSET" => Phase(s) = 4
      <3>1. sq'[s][i] = sq[s][i + 1] /\ i + 1 \in 1..Len(sq[s])
        BY <1>2
      <3>2. QED
        BY <1>1, <1>3, <3>1 DEF RankInv
    <2>2. ASSUME NEW i \in 1..Len(inbox'[p])
          PROVE  /\ Rank(inbox'[p][i]) >= Phase(p)
                 /\ Rank(inbox'[p][i]) <= Phase(s) \/ Phase(s) >= 3
                 /\ inbox'[p][i] = "UNSET" => Phase(s) = 4
      <3>1. CASE i \in 1..Len(inbox[p])
        BY <1>1, <1>2, <1>3, <3>1 DEF RankInv
      <3>2. CASE i = Len(inbox[p]) + 1
        BY <1>1, <1>2, <1>3, <3>2 DEF RankInv
      <3>3. QED
        BY <1>2, <3>1, <3>2
    <2>3. QED
      BY <1>1, <2>1, <2>2 DEF RankInv
  <1>5. OrderInv(s)'
    <2>1. ASSUME NEW i \in 1..Len(sq'[s]), NEW j \in 1..Len(sq'[s]), i < j
          PROVE  Ordered(Rank(sq'[s][i].kind), Rank(sq'[s][j].kind))
      <3>a. sq'[s][i] = sq[s][i + 1] /\ sq'[s][j] = sq[s][j + 1]
        OBVIOUS
      <3>b. i + 1 \in 1..Len(sq[s]) /\ j + 1 \in 1..Len(sq[s]) /\ i + 1 < j + 1
        BY <1>2, <2>1
      <3>1. /\ i + 1 \in 1..Len(sq[s]) /\ j + 1 \in 1..Len(sq[s]) /\ i + 1 < j + 1
            /\ sq'[s][i] = sq[s][i + 1] /\ sq'[s][j] = sq[s][j + 1]
        BY <3>a, <3>b
      <3>2. \A x, y \in 1..Len(sq[s]) :
               x < y => Ordered(Rank(sq[s][x].kind), Rank(sq[s][y].kind))
        BY <1>3 DEF OrderInv
      <3>3. Ordered(Rank(sq[s][i + 1].kind), Rank(sq[s][j + 1].kind))
        BY <3>1, <3>2
      <3>4. QED
        BY <3>1, <3>3
    <2>2. ASSUME NEW i \in 1..Len(inbox'[p]), NEW j \in 1..Len(inbox'[p]), i < j
          PROVE  Ordered(Rank(inbox'[p][i]), Rank(inbox'[p][j]))
      <3>1. i \in 1..Len(inbox[p]) /\ inbox'[p][i] = inbox[p][i]
        BY <1>2, <2>2
      <3>2. CASE j \in 1..Len(inbox[p])
        BY <1>1, <1>2, <1>3, <2>2, <3>1, <3>2 DEF OrderInv
      <3>3. CASE j = Len(inbox[p]) + 1
        BY <1>1, <1>2, <1>3, <3>1, <3>3 DEF OrderInv
      <3>4. QED
        BY <1>2, <3>2, <3>3
    <2>3. ASSUME NEW i \in 1..Len(inbox'[p]), NEW j \in 1..Len(sq'[s])
          PROVE  Ordered(Rank(inbox'[p][i]), Rank(sq'[s][j].kind))
      <3>1. sq'[s][j] = sq[s][j + 1] /\ j + 1 \in 1..Len(sq[s]) /\ 1 < j + 1
        BY <1>2
      <3>2. CASE i \in 1..Len(inbox[p])
        BY <1>1, <1>2, <1>3, <3>1, <3>2 DEF OrderInv
      <3>3. CASE i = Len(inbox[p]) + 1
        BY <1>1, <1>2, <1>3, <3>1, <3>3 DEF OrderInv
      <3>4. QED
        BY <1>2, <3>2, <3>3
    <2>4. QED
      BY <1>1, <2>1, <2>2, <2>3 DEF OrderInv
  <1>6. PresenceInv(s)'
    <2> SUFFICES ASSUME NEW r \in 1..3, Phase(p) <= r, r <= Phase(s)
                 PROVE  InPipe(s, r)'
      BY <1>1 DEF PresenceInv
    <2>1. InPipe(s, r)
      BY <1>1, <1>3 DEF PresenceInv
    <2>2. CASE \E i \in 1..Len(inbox[p]) : Rank(inbox[p][i]) = r
      BY <1>1, <1>2, <2>2 DEF InPipe
    <2>3. ASSUME NEW i \in 1..Len(sq[s]), Rank(sq[s][i].kind) = r
          PROVE  InPipe(s, r)'
      <3>1. CASE i = 1
        BY <1>1, <1>2, <2>3, <3>1 DEF InPipe
      <3>2. CASE i # 1
        <4>1. i - 1 \in 1..Len(sq'[s]) /\ sq'[s][i - 1] = sq[s][i]
          BY <1>2, <3>2
        <4>2. QED
          BY <1>1, <2>3, <4>1 DEF InPipe
      <3>3. QED
        BY <3>1, <3>2
    <2>4. QED
      BY <1>1, <2>1, <2>2, <2>3 DEF InPipe
  <1>7. QED
    BY <1>4, <1>5, <1>6 DEF PipeInv

\* The NIC executes a silent RDMA operation: it leaves the send queue.
LEMMA PipeDrop ==
    ASSUME TypeOK, NEW s, NEW p, Pair(s, p), PipeInv(s),
           Len(sq[s]) >= 1, Rank(sq[s][1].kind) = 5,
           Len(sq'[s]) = Len(sq[s]) - 1,
           \A i \in 1..Len(sq'[s]) : sq'[s][i] = sq[s][i + 1],
           inbox'[p] = inbox[p],
           Phase(s)' = Phase(s), Phase(p)' = Phase(p)
    PROVE  PipeInv(s)'
  <1>1. Peer(s) = p
    BY DEF Pair
  <1>2. /\ Len(sq[s]) \in Nat /\ Len(inbox[p]) \in Nat
        /\ Phase(s) \in 0..4 /\ Phase(p) \in 0..4
    BY PipeFacts
  <1>3. RankInv(s) /\ OrderInv(s) /\ PresenceInv(s)
    BY DEF PipeInv
  <1>4. RankInv(s)'
    <2>1. ASSUME NEW i \in 1..Len(sq'[s])
          PROVE  /\ Rank(sq'[s][i].kind) >= Phase(p)
                 /\ Rank(sq'[s][i].kind) <= Phase(s) \/ Phase(s) >= 3
                 /\ sq'[s][i].kind = "UNSET" => Phase(s) = 4
      <3>1. sq'[s][i] = sq[s][i + 1] /\ i + 1 \in 1..Len(sq[s])
        BY <1>2
      <3>2. QED
        BY <1>1, <1>3, <3>1 DEF RankInv
    <2>2. QED
      BY <1>1, <1>3, <2>1 DEF RankInv
  <1>5. OrderInv(s)'
    <2>1. ASSUME NEW i \in 1..Len(sq'[s]), NEW j \in 1..Len(sq'[s]), i < j
          PROVE  Ordered(Rank(sq'[s][i].kind), Rank(sq'[s][j].kind))
      <3>a. sq'[s][i] = sq[s][i + 1] /\ sq'[s][j] = sq[s][j + 1]
        OBVIOUS
      <3>b. i + 1 \in 1..Len(sq[s]) /\ j + 1 \in 1..Len(sq[s]) /\ i + 1 < j + 1
        BY <1>2, <2>1
      <3>1. /\ i + 1 \in 1..Len(sq[s]) /\ j + 1 \in 1..Len(sq[s]) /\ i + 1 < j + 1
            /\ sq'[s][i] = sq[s][i + 1] /\ sq'[s][j] = sq[s][j + 1]
        BY <3>a, <3>b
      <3>2. \A x, y \in 1..Len(sq[s]) :
               x < y => Ordered(Rank(sq[s][x].kind), Rank(sq[s][y].kind))
        BY <1>3 DEF OrderInv
      <3>3. Ordered(Rank(sq[s][i + 1].kind), Rank(sq[s][j + 1].kind))
        BY <3>1, <3>2
      <3>4. QED
        BY <3>1, <3>3
    <2>2. ASSUME NEW i \in 1..Len(inbox[p]), NEW j \in 1..Len(sq'[s])
          PROVE  Ordered(Rank(inbox[p][i]), Rank(sq'[s][j].kind))
      <3>1. sq'[s][j] = sq[s][j + 1] /\ j + 1 \in 1..Len(sq[s])
        BY <1>2
      <3>2. QED
        BY <1>1, <1>3, <3>1 DEF OrderInv
    <2>3. QED
      BY <1>1, <1>3, <2>1, <2>2 DEF OrderInv
  <1>6. PresenceInv(s)'
    <2> SUFFICES ASSUME NEW r \in 1..3, Phase(p) <= r, r <= Phase(s)
                 PROVE  InPipe(s, r)'
      BY <1>1 DEF PresenceInv
    <2>1. InPipe(s, r)
      BY <1>1, <1>3 DEF PresenceInv
    <2>2. CASE \E i \in 1..Len(inbox[p]) : Rank(inbox[p][i]) = r
      BY <1>1, <2>2 DEF InPipe
    <2>3. ASSUME NEW i \in 1..Len(sq[s]), Rank(sq[s][i].kind) = r
          PROVE  InPipe(s, r)'
      <3>1. i # 1
        BY <2>3
      <3>2. i - 1 \in 1..Len(sq'[s]) /\ sq'[s][i - 1] = sq[s][i]
        BY SMTT(30), <1>2, <3>1
      <3>3. QED
        BY <1>1, <2>3, <3>2 DEF InPipe
    <2>4. QED
      BY <1>1, <2>1, <2>2, <2>3 DEF InPipe
  <1>7. QED
    BY <1>4, <1>5, <1>6 DEF PipeInv

\* The thread of p handles the head of its inbox and moves to the next phase, or
\* stays in the last.
LEMMA PipePop ==
    ASSUME TypeOK, NEW s, NEW p, Pair(s, p), PipeInv(s),
           Len(inbox[p]) >= 1,
           Len(inbox'[p]) = Len(inbox[p]) - 1,
           \A i \in 1..Len(inbox'[p]) : inbox'[p][i] = inbox[p][i + 1],
           sq'[s] = sq[s],
           Phase(s)' = Phase(s),
           \/ Phase(p) <= 3 /\ Rank(inbox[p][1]) = Phase(p) /\ Phase(p)' = Phase(p) + 1
           \/ Phase(p) = 4 /\ Phase(p)' = Phase(p)
    PROVE  PipeInv(s)'
  <1>1. Peer(s) = p
    BY DEF Pair
  <1>2. /\ Len(sq[s]) \in Nat /\ Len(inbox[p]) \in Nat
        /\ Phase(s) \in 0..4 /\ Phase(p) \in 0..4
        /\ \A i \in 1..Len(sq[s]) : Rank(sq[s][i].kind) \in 1..5
        /\ \A i \in 1..Len(inbox[p]) : Rank(inbox[p][i]) \in 1..5
    BY PipeFacts
  <1>3. RankInv(s) /\ OrderInv(s) /\ PresenceInv(s)
    BY DEF PipeInv
  <1>t. \A i \in 1..Len(inbox'[p]) : i + 1 \in 1..Len(inbox[p]) /\ 1 < i + 1
    BY <1>2
  <1>4. RankInv(s)'
    <2>1. ASSUME NEW i \in 1..Len(inbox'[p])
          PROVE  /\ Rank(inbox'[p][i]) >= Phase(p)'
                 /\ Rank(inbox'[p][i]) <= Phase(s) \/ Phase(s) >= 3
                 /\ inbox'[p][i] = "UNSET" => Phase(s) = 4
      <3>1. /\ inbox'[p][i] = inbox[p][i + 1] /\ i + 1 \in 1..Len(inbox[p]) /\ 1 < i + 1
            /\ 1 \in 1..Len(inbox[p])
        BY <1>2, <1>t
      <3>2. /\ Rank(inbox[p][i + 1]) >= Phase(p)
            /\ Rank(inbox[p][i + 1]) <= Phase(s) \/ Phase(s) >= 3
            /\ inbox[p][i + 1] = "UNSET" => Phase(s) = 4
            /\ Rank(inbox[p][i + 1]) \in 1..5
        BY <1>1, <1>2, <1>3, <3>1 DEF RankInv
      <3>3. Ordered(Rank(inbox[p][1]), Rank(inbox[p][i + 1]))
        BY <1>1, <1>3, <3>1 DEF OrderInv
      <3>4. QED
        BY SMTT(30), <1>2, <3>1, <3>2, <3>3 DEF Ordered
    <2>2. ASSUME NEW i \in 1..Len(sq[s])
          PROVE  Rank(sq[s][i].kind) >= Phase(p)'
      <3>1. Rank(sq[s][i].kind) >= Phase(p) /\ Rank(sq[s][i].kind) \in 1..5
        BY <1>1, <1>2, <1>3 DEF RankInv
      <3>2. 1 \in 1..Len(inbox[p])
        BY <1>2
      <3>3. Ordered(Rank(inbox[p][1]), Rank(sq[s][i].kind))
        BY <1>1, <1>3, <3>2 DEF OrderInv
      <3>4. QED
        BY <1>2, <3>1, <3>3 DEF Ordered
    <2>3. QED
      BY <1>1, <1>3, <2>1, <2>2 DEF RankInv
  <1>5. OrderInv(s)'
    <2>1. ASSUME NEW i \in 1..Len(inbox'[p]), NEW j \in 1..Len(inbox'[p]), i < j
          PROVE  Ordered(Rank(inbox'[p][i]), Rank(inbox'[p][j]))
      <3>1. i + 1 < j + 1
        BY <1>2, <2>1
      <3>2. QED
        BY <1>1, <1>3, <1>t, <3>1 DEF OrderInv
    <2>2. ASSUME NEW i \in 1..Len(inbox'[p]), NEW j \in 1..Len(sq[s])
          PROVE  Ordered(Rank(inbox'[p][i]), Rank(sq[s][j].kind))
      BY <1>1, <1>3, <1>t DEF OrderInv
    <2>3. QED
      BY <1>1, <1>3, <2>1, <2>2 DEF OrderInv
  <1>6. PresenceInv(s)'
    <2> SUFFICES ASSUME NEW r \in 1..3, Phase(p)' <= r, r <= Phase(s)
                 PROVE  InPipe(s, r)'
      BY <1>1 DEF PresenceInv
    <2>1. InPipe(s, r) /\ Rank(inbox[p][1]) # r
      BY <1>1, <1>2, <1>3 DEF PresenceInv
    <2>2. CASE \E i \in 1..Len(sq[s]) : Rank(sq[s][i].kind) = r
      BY <1>1, <2>2 DEF InPipe
    <2>3. ASSUME NEW i \in 1..Len(inbox[p]), Rank(inbox[p][i]) = r
          PROVE  InPipe(s, r)'
      <3>1. i # 1
        BY <2>1, <2>3
      <3>2. i - 1 \in 1..Len(inbox'[p]) /\ inbox'[p][i - 1] = inbox[p][i]
        BY SMTT(30), <1>2, <3>1
      <3>3. QED
        BY <1>1, <2>3, <3>2 DEF InPipe
    <2>4. QED
      BY <1>1, <2>1, <2>2, <2>3 DEF InPipe
  <1>7. QED
    BY <1>4, <1>5, <1>6 DEF PipeInv

\* The thread of s posts one work request: a control message as it enters the
\* phase of that message, or a message of the last rank from phase 3 on.
LEMMA PipePush ==
    ASSUME TypeOK, NEW s, NEW p, Pair(s, p), PipeInv(s), PhaseInv(p), NEW k \in Kind,
           Len(sq'[s]) = Len(sq[s]) + 1,
           \A i \in 1..Len(sq[s]) : sq'[s][i].kind = sq[s][i].kind,
           sq'[s][Len(sq[s]) + 1].kind = k,
           inbox'[p] = inbox[p],
           Phase(p)' = Phase(p),
           \/ Phase(s) <= 1 /\ Rank(k) = Phase(s) + 1 /\ Phase(s)' = Phase(s) + 1
           \/ /\ Phase(s) >= 3 /\ Rank(k) = 5
              /\ Phase(s)' = Phase(s) \/ Phase(s)' = 4
              /\ k = "UNSET" => Phase(s)' = 4
    PROVE  PipeInv(s)'
  <1>1. Peer(s) = p /\ Peer(p) = s
    BY DEF Pair
  <1>2. /\ Len(sq[s]) \in Nat /\ Len(inbox[p]) \in Nat
        /\ Phase(s) \in 0..4 /\ Phase(p) \in 0..4
        /\ \A i \in 1..Len(sq[s]) : Rank(sq[s][i].kind) \in 1..5
        /\ \A i \in 1..Len(inbox[p]) : Rank(inbox[p][i]) \in 1..5
    BY PipeFacts
  <1>3. RankInv(s) /\ OrderInv(s) /\ PresenceInv(s)
    BY DEF PipeInv
  <1>4. ASSUME NEW i \in 1..Len(sq'[s])
        PROVE  \/ i \in 1..Len(sq[s]) /\ sq'[s][i].kind = sq[s][i].kind
               \/ i = Len(sq[s]) + 1 /\ sq'[s][i].kind = k
    BY <1>2
  <1>5. Rank(k) >= Phase(p) /\ Rank(k) \in 1..5
    BY <1>1, <1>2 DEF PhaseInv
  <1>6. RankInv(s)'
    <2>1. ASSUME NEW i \in 1..Len(sq'[s])
          PROVE  /\ Rank(sq'[s][i].kind) >= Phase(p)
                 /\ Rank(sq'[s][i].kind) <= Phase(s)' \/ Phase(s)' >= 3
                 /\ sq'[s][i].kind = "UNSET" => Phase(s)' = 4
      <3>1. CASE i \in 1..Len(sq[s]) /\ sq'[s][i].kind = sq[s][i].kind
        <4>1. /\ Rank(sq[s][i].kind) >= Phase(p)
              /\ Rank(sq[s][i].kind) <= Phase(s) \/ Phase(s) >= 3
              /\ sq[s][i].kind = "UNSET" => Phase(s) = 4
              /\ Rank(sq[s][i].kind) \in 1..5
          BY <1>1, <1>2, <1>3, <3>1 DEF RankInv
        <4>2. QED
          BY <1>2, <3>1, <4>1
      <3>2. CASE i = Len(sq[s]) + 1 /\ sq'[s][i].kind = k
        BY <1>2, <1>5, <3>2, RankFacts
      <3>3. QED
        BY <1>4, <3>1, <3>2
    <2>2. ASSUME NEW i \in 1..Len(inbox[p])
          PROVE  /\ Rank(inbox[p][i]) >= Phase(p)
                 /\ Rank(inbox[p][i]) <= Phase(s)' \/ Phase(s)' >= 3
                 /\ inbox[p][i] = "UNSET" => Phase(s)' = 4
      <3>1. /\ Rank(inbox[p][i]) >= Phase(p)
            /\ Rank(inbox[p][i]) <= Phase(s) \/ Phase(s) >= 3
            /\ inbox[p][i] = "UNSET" => Phase(s) = 4
            /\ Rank(inbox[p][i]) \in 1..5
        BY <1>1, <1>2, <1>3 DEF RankInv
      <3>2. QED
        BY <1>2, <3>1
    <2>3. QED
      BY <1>1, <2>1, <2>2 DEF RankInv
  <1>7. OrderInv(s)'
    <2>1. ASSUME NEW m \in 1..5, m <= Phase(s) \/ Phase(s) >= 3
          PROVE  Ordered(m, Rank(k))
      BY <1>2, <2>1 DEF Ordered
    <2>2. ASSUME NEW i \in 1..Len(sq'[s]), NEW j \in 1..Len(sq'[s]), i < j
          PROVE  Ordered(Rank(sq'[s][i].kind), Rank(sq'[s][j].kind))
      <3>1. i \in 1..Len(sq[s]) /\ sq'[s][i].kind = sq[s][i].kind
        BY <1>2, <2>2
      <3>2. CASE j \in 1..Len(sq[s]) /\ sq'[s][j].kind = sq[s][j].kind
        <4>1. Ordered(Rank(sq[s][i].kind), Rank(sq[s][j].kind))
          BY <1>3, <2>2, <3>1, <3>2 DEF OrderInv
        <4>2. QED
          BY <3>1, <3>2, <4>1
      <3>3. CASE sq'[s][j].kind = k
        <4>1. /\ Rank(sq[s][i].kind) <= Phase(s) \/ Phase(s) >= 3
              /\ Rank(sq[s][i].kind) \in 1..5
          BY <1>1, <1>2, <1>3, <3>1 DEF RankInv
        <4>2. QED
          BY <2>1, <3>1, <3>3, <4>1
      <3>4. QED
        BY <1>4, <3>2, <3>3
    <2>3. ASSUME NEW i \in 1..Len(inbox[p]), NEW j \in 1..Len(sq'[s])
          PROVE  Ordered(Rank(inbox[p][i]), Rank(sq'[s][j].kind))
      <3>1. CASE j \in 1..Len(sq[s]) /\ sq'[s][j].kind = sq[s][j].kind
        <4>1. Ordered(Rank(inbox[p][i]), Rank(sq[s][j].kind))
          BY <1>1, <1>3, <3>1 DEF OrderInv
        <4>2. QED
          BY <3>1, <4>1
      <3>2. CASE sq'[s][j].kind = k
        <4>1. /\ Rank(inbox[p][i]) <= Phase(s) \/ Phase(s) >= 3
              /\ Rank(inbox[p][i]) \in 1..5
          BY <1>1, <1>2, <1>3 DEF RankInv
        <4>2. QED
          BY <2>1, <3>2, <4>1
      <3>3. QED
        BY <1>4, <3>1, <3>2
    <2>4. QED
      BY <1>1, <1>3, <2>2, <2>3 DEF OrderInv
  <1>8. PresenceInv(s)'
    <2> SUFFICES ASSUME NEW r \in 1..3, Phase(p) <= r, r <= Phase(s)'
                 PROVE  InPipe(s, r)'
      BY <1>1 DEF PresenceInv
    <2>1. CASE r <= Phase(s)
      <3>1. InPipe(s, r)
        BY <1>1, <1>3, <2>1 DEF PresenceInv
      <3>2. CASE \E i \in 1..Len(inbox[p]) : Rank(inbox[p][i]) = r
        BY <1>1, <3>2 DEF InPipe
      <3>3. ASSUME NEW i \in 1..Len(sq[s]), Rank(sq[s][i].kind) = r
            PROVE  InPipe(s, r)'
        <4>1. i \in 1..Len(sq'[s]) /\ Rank(sq'[s][i].kind) = r
          BY <1>2, <3>3
        <4>2. QED
          BY <4>1 DEF InPipe
      <3>4. QED
        BY <1>1, <3>1, <3>2, <3>3 DEF InPipe
    <2>2. CASE ~(r <= Phase(s))
      <3>1. Rank(k) = r
        BY <1>2, <2>2
      <3>2. Len(sq[s]) + 1 \in 1..Len(sq'[s])
        BY <1>2
      <3>3. QED
        BY <3>1, <3>2 DEF InPipe
    <2>3. QED
      BY <2>1, <2>2
  <1>9. QED
    BY <1>6, <1>7, <1>8 DEF PipeInv

\* The handler of REQUEST_EXCHANGE_KEY posts its two work requests.
LEMMA PipePushTwo ==
    ASSUME TypeOK, NEW s, NEW p, Pair(s, p), PipeInv(s),
           Len(sq'[s]) = Len(sq[s]) + 2,
           \A i \in 1..Len(sq[s]) : sq'[s][i].kind = sq[s][i].kind,
           sq'[s][Len(sq[s]) + 1].kind = "RESP",
           sq'[s][Len(sq[s]) + 2].kind = "WIMM",
           inbox'[p] = inbox[p],
           Phase(p)' = Phase(p), Phase(p) <= 3,
           Phase(s) = 2, Phase(s)' = 3
    PROVE  PipeInv(s)'
  <1>1. Peer(s) = p /\ Peer(p) = s
    BY DEF Pair
  <1>2. /\ Len(sq[s]) \in Nat /\ Len(inbox[p]) \in Nat /\ Phase(p) \in 0..4
        /\ \A i \in 1..Len(sq[s]) : Rank(sq[s][i].kind) \in 1..5
        /\ \A i \in 1..Len(inbox[p]) : Rank(inbox[p][i]) \in 1..5
    BY PipeFacts
  <1>3. RankInv(s) /\ OrderInv(s) /\ PresenceInv(s)
    BY DEF PipeInv
  <1>4. ASSUME NEW i \in 1..Len(sq'[s])
        PROVE  \/ i \in 1..Len(sq[s]) /\ sq'[s][i].kind = sq[s][i].kind
               \/ i = Len(sq[s]) + 1 /\ sq'[s][i].kind = "RESP"
               \/ i = Len(sq[s]) + 2 /\ sq'[s][i].kind = "WIMM"
    <2>1. i \in 1..Len(sq[s]) \/ i = Len(sq[s]) + 1 \/ i = Len(sq[s]) + 2
      BY <1>2
    <2>2. CASE i \in 1..Len(sq[s])
      BY <2>2
    <2>3. CASE i = Len(sq[s]) + 1
      BY <2>3
    <2>4. CASE i = Len(sq[s]) + 2
      BY <2>4
    <2>5. QED
      BY <2>1, <2>2, <2>3, <2>4
  <1>5. Rank("RESP") = 3 /\ Rank("WIMM") = 4
    BY DEF Rank
  <1>6. \A i \in 1..Len(sq[s]) : /\ Rank(sq[s][i].kind) <= 2
                                 /\ Rank(sq[s][i].kind) >= Phase(p)
                                 /\ sq[s][i].kind # "UNSET"
    BY <1>1, <1>2, <1>3 DEF RankInv
  <1>7. \A i \in 1..Len(inbox[p]) : /\ Rank(inbox[p][i]) <= 2
                                    /\ Rank(inbox[p][i]) >= Phase(p)
                                    /\ inbox[p][i] # "UNSET"
    BY <1>1, <1>2, <1>3 DEF RankInv
  <1>8. RankInv(s)'
    <2>1. ASSUME NEW i \in 1..Len(sq'[s])
          PROVE  /\ Rank(sq'[s][i].kind) >= Phase(p)
                 /\ sq'[s][i].kind # "UNSET"
      <3>1. CASE i \in 1..Len(sq[s]) /\ sq'[s][i].kind = sq[s][i].kind
        BY <1>6, <3>1
      <3>2. CASE sq'[s][i].kind \in {"RESP", "WIMM"}
        BY SMTT(30), <1>2, <1>5, <3>2
      <3>3. QED
        BY <1>4, <3>1, <3>2
    <2>2. QED
      BY SMTT(30), <1>1, <1>7, <2>1 DEF RankInv
  <1>9. OrderInv(s)'
    <2>1. ASSUME NEW m \in 1..5, m <= 2
          PROVE  Ordered(m, 3) /\ Ordered(m, 4)
      BY <2>1 DEF Ordered
    <2>2. Ordered(3, 4)
      BY DEF Ordered
    <2>3. ASSUME NEW i \in 1..Len(sq'[s]), NEW j \in 1..Len(sq'[s]), i < j
          PROVE  Ordered(Rank(sq'[s][i].kind), Rank(sq'[s][j].kind))
      <3>1. CASE i \in 1..Len(sq[s]) /\ sq'[s][i].kind = sq[s][i].kind
        <4>1. Rank(sq[s][i].kind) \in 1..5 /\ Rank(sq[s][i].kind) <= 2
          BY <1>2, <1>6, <3>1
        <4>2. CASE j \in 1..Len(sq[s]) /\ sq'[s][j].kind = sq[s][j].kind
          <5>1. Ordered(Rank(sq[s][i].kind), Rank(sq[s][j].kind))
            BY <1>3, <2>3, <3>1, <4>2 DEF OrderInv
          <5>2. QED
            BY <3>1, <4>2, <5>1
        <4>3. CASE sq'[s][j].kind \in {"RESP", "WIMM"}
          BY <1>5, <2>1, <3>1, <4>1, <4>3
        <4>4. QED
          BY <1>4, <4>2, <4>3
      <3>2. CASE i = Len(sq[s]) + 1 /\ sq'[s][i].kind = "RESP"
        <4>1. j = Len(sq[s]) + 2
          BY <1>2, <2>3, <3>2
        <4>2. QED
          BY <1>5, <2>2, <3>2, <4>1
      <3>3. CASE i = Len(sq[s]) + 2
        BY <1>2, <2>3, <3>3
      <3>4. QED
        BY <1>4, <3>1, <3>2, <3>3
    <2>4. ASSUME NEW i \in 1..Len(inbox[p]), NEW j \in 1..Len(sq'[s])
          PROVE  Ordered(Rank(inbox[p][i]), Rank(sq'[s][j].kind))
      <3>1. Rank(inbox[p][i]) \in 1..5 /\ Rank(inbox[p][i]) <= 2
        BY <1>2, <1>7
      <3>2. CASE j \in 1..Len(sq[s]) /\ sq'[s][j].kind = sq[s][j].kind
        <4>1. Ordered(Rank(inbox[p][i]), Rank(sq[s][j].kind))
          BY <1>1, <1>3, <3>2 DEF OrderInv
        <4>2. QED
          BY <3>2, <4>1
      <3>3. CASE sq'[s][j].kind \in {"RESP", "WIMM"}
        BY <1>5, <2>1, <3>1, <3>3
      <3>4. QED
        BY <1>4, <3>2, <3>3
    <2>5. QED
      BY <1>1, <1>3, <2>3, <2>4 DEF OrderInv
  <1>10. PresenceInv(s)'
    <2> SUFFICES ASSUME NEW r \in 1..3, Phase(p) <= r
                 PROVE  InPipe(s, r)'
      BY <1>1 DEF PresenceInv
    <2>1. CASE r <= 2
      <3>1. InPipe(s, r)
        BY <1>1, <1>3, <2>1 DEF PresenceInv
      <3>2. CASE \E i \in 1..Len(inbox[p]) : Rank(inbox[p][i]) = r
        BY <1>1, <3>2 DEF InPipe
      <3>3. ASSUME NEW i \in 1..Len(sq[s]), Rank(sq[s][i].kind) = r
            PROVE  InPipe(s, r)'
        <4>1. i \in 1..Len(sq'[s]) /\ Rank(sq'[s][i].kind) = r
          BY <1>2, <3>3
        <4>2. QED
          BY <4>1 DEF InPipe
      <3>4. QED
        BY <1>1, <3>1, <3>2, <3>3 DEF InPipe
    <2>2. CASE r = 3
      <3>1. Len(sq[s]) + 1 \in 1..Len(sq'[s])
        BY <1>2
      <3>2. QED
        BY <1>5, <2>2, <3>1 DEF InPipe
    <2>3. QED
      BY <2>1, <2>2
  <1>11. QED
    BY <1>8, <1>9, <1>10 DEF PipeInv

-----------------------------------------------------------------------------
(* The other parts of the invariant, at a side the step leaves alone. *)

\* A step that touches none of its state keeps the descriptor invariant.
LEMMA DescSame ==
    ASSUME NEW s, NEW p, Pair(s, p), DescInv(s),
           sq'[s] = sq[s], inbox'[p] = inbox[p], recvbuf'[p] = recvbuf[p],
           sendbuf' = sendbuf, peerbuf' = peerbuf,
           Phase(s)' = Phase(s), Phase(p)' = Phase(p)
    PROVE  DescInv(s)'
  <1>1. Peer(s) = p
    BY DEF Pair
  <1>2. QED
    BY <1>1 DEF DescInv

\* A step that touches none of its state keeps the RDMA invariant.
LEMMA RdmaSame ==
    ASSUME NEW s, NEW p, Pair(s, p), RdmaInv(s),
           sq'[s] = sq[s], comp'[s] = comp[s], sink'[p] = sink[p],
           readbuf'[s] = readbuf[s], peerbuf'[s] = peerbuf[s]
    PROVE  RdmaInv(s)'
  <1>1. Peer(s) = p
    BY DEF Pair
  <1>2. QED
    BY <1>1 DEF RdmaInv

\* The NIC takes the head of the send queue, and nothing lands in recv_buffer.
LEMMA DescTail ==
    ASSUME TypeOK, NEW s, NEW p, Pair(s, p), DescInv(s),
           Len(sq[s]) >= 1,
           Len(sq'[s]) = Len(sq[s]) - 1,
           \A i \in 1..Len(sq'[s]) : sq'[s][i] = sq[s][i + 1],
           \A i \in 1..Len(inbox'[p]) :
              inbox'[p][i] = "REQ" => \E j \in 1..Len(inbox[p]) : inbox[p][j] = "REQ",
           recvbuf'[p] = recvbuf[p], sendbuf' = sendbuf, peerbuf' = peerbuf,
           Phase(s)' = Phase(s), Phase(p)' = Phase(p)
    PROVE  DescInv(s)'
  <1>1. Peer(s) = p /\ Len(sq[s]) \in Nat
    BY PipeFacts DEF Pair
  <1>2. ASSUME Phase(p) <= 2, NEW i \in 1..Len(sq'[s]), sq'[s][i].kind \in {"REQ", "RESP"}
        PROVE  sq'[s][i].data = "desc"
    <2>1. sq'[s][i] = sq[s][i + 1] /\ i + 1 \in 1..Len(sq[s])
      BY <1>1
    <2>2. QED
      BY <1>1, <1>2, <2>1 DEF DescInv
  <1>3. ASSUME Phase(p) <= 2, NEW i \in 1..Len(inbox'[p]), inbox'[p][i] = "REQ"
        PROVE  recvbuf'[p] = "desc"
    BY <1>1, <1>3 DEF DescInv
  <1>4. /\ Phase(s) \in {2, 3} => sendbuf[s] = "desc"
        /\ peerbuf[s] \in {"none", "desc"}
    BY DEF DescInv
  <1>5. QED
    BY <1>1, <1>2, <1>3, <1>4 DEF DescInv

\* The NIC completes the one RDMA operation of s.
LEMMA RdmaComplete ==
    ASSUME TypeOK, NEW s, NEW p, Pair(s, p), RdmaInv(s), NEW c,
           Len(sq[s]) >= 1, sq[s][1].kind \in RdmaKind,
           Len(sq'[s]) = Len(sq[s]) - 1,
           \A i \in 1..Len(sq'[s]) : sq'[s][i] = sq[s][i + 1],
           Len(comp'[s]) = Len(comp[s]) + 1, comp'[s][Len(comp[s]) + 1] = c,
           peerbuf' = peerbuf, sink'[p] = "text",
           c = "READ" => readbuf'[s] = "text"
    PROVE  RdmaInv(s)'
  <1>1. Peer(s) = p /\ Len(sq[s]) \in Nat
    BY PipeFacts DEF Pair
  <1>2. 1 \in 1..Len(sq[s])
    BY <1>1
  <1>3. Len(comp[s]) = 0 /\ peerbuf[s] # "none"
    BY <1>2 DEF RdmaInv
  <1>4. ASSUME NEW i \in 1..Len(sq'[s])
        PROVE  sq'[s][i].kind \notin RdmaKind
    <2>1. sq'[s][i] = sq[s][i + 1] /\ i + 1 \in 1..Len(sq[s]) /\ i + 1 # 1
      BY <1>1
    <2>2. QED
      BY <1>2, <2>1 DEF RdmaInv
  <1>5. Len(comp'[s]) = 1 /\ comp'[s][1] = c
    BY <1>3
  <1>6. QED
    BY <1>1, <1>3, <1>4, <1>5 DEF RdmaInv

\* The thread of p handles a message from s.
LEMMA DescPop ==
    ASSUME TypeOK, NEW s, NEW p, Pair(s, p), DescInv(s),
           sq'[s] = sq[s],
           Len(inbox[p]) >= 1,
           Len(inbox'[p]) = Len(inbox[p]) - 1,
           \A i \in 1..Len(inbox'[p]) : inbox'[p][i] = inbox[p][i + 1],
           recvbuf' = recvbuf, sendbuf'[s] = sendbuf[s], peerbuf'[s] = peerbuf[s],
           Phase(s)' = Phase(s), Phase(p)' >= Phase(p), Phase(p)' \in 0..4
    PROVE  DescInv(s)'
  <1>1. Peer(s) = p /\ Len(inbox[p]) \in Nat /\ Phase(p) \in 0..4
    BY PipeFacts DEF Pair
  <1>2. ASSUME Phase(p)' <= 2, NEW i \in 1..Len(sq[s]), sq[s][i].kind \in {"REQ", "RESP"}
        PROVE  sq[s][i].data = "desc"
    <2>1. Phase(p) <= 2
      BY <1>1, <1>2
    <2>2. QED
      BY <1>1, <1>2, <2>1 DEF DescInv
  <1>3. ASSUME Phase(p)' <= 2, NEW i \in 1..Len(inbox'[p]), inbox'[p][i] = "REQ"
        PROVE  recvbuf[p] = "desc"
    <2>1. Phase(p) <= 2 /\ i + 1 \in 1..Len(inbox[p]) /\ inbox[p][i + 1] = "REQ"
      BY <1>1, <1>3
    <2>2. QED
      BY <1>1, <2>1 DEF DescInv
  <1>4. /\ Phase(s) \in {2, 3} => sendbuf[s] = "desc"
        /\ peerbuf[s] \in {"none", "desc"}
    BY DEF DescInv
  <1>5. QED
    BY <1>1, <1>2, <1>3, <1>4 DEF DescInv

\* The thread of s posts a SEND: its RDMA operation is not disturbed.
LEMMA RdmaPost ==
    ASSUME TypeOK, NEW s, NEW p, Pair(s, p), RdmaInv(s), NEW k \in SendKind,
           Len(sq'[s]) = Len(sq[s]) + 1,
           \A i \in 1..Len(sq[s]) :
              /\ sq'[s][i].kind = sq[s][i].kind
              /\ sq[s][i].kind \in RdmaKind => sq'[s][i] = sq[s][i],
           sq'[s][Len(sq[s]) + 1].kind = k,
           comp' = comp, sink' = sink, readbuf' = readbuf, peerbuf' = peerbuf
    PROVE  RdmaInv(s)'
  <1>1. Peer(s) = p /\ Len(sq[s]) \in Nat
    BY PipeFacts DEF Pair
  <1>2. k \notin RdmaKind
    BY DEF SendKind, RdmaKind, WriteKind
  <1>3. ASSUME NEW i \in 1..Len(sq'[s]), sq'[s][i].kind \in RdmaKind
        PROVE  i \in 1..Len(sq[s]) /\ sq[s][i].kind \in RdmaKind /\ sq'[s][i] = sq[s][i]
    <2>1. i # Len(sq[s]) + 1
      BY <1>2, <1>3
    <2>2. i \in 1..Len(sq[s])
      BY <1>1, <2>1
    <2>3. QED
      BY <1>3, <2>2
  <1>4. ASSUME NEW i \in 1..Len(sq'[s]), NEW j \in 1..Len(sq'[s]),
               sq'[s][i].kind \in RdmaKind, sq'[s][j].kind \in RdmaKind
        PROVE  i = j
    BY <1>3, <1>4 DEF RdmaInv
  <1>5. ASSUME NEW i \in 1..Len(sq'[s]), sq'[s][i].kind \in RdmaKind
        PROVE  /\ Len(comp[s]) = 0
               /\ peerbuf[s] # "none"
               /\ sq'[s][i].kind \in WriteKind => sq'[s][i].data = "text"
               /\ sq'[s][i].kind = "READ" => sink[p] = "text"
    BY <1>1, <1>3, <1>5 DEF RdmaInv
  <1>6. /\ Len(comp[s]) <= 1
        /\ Len(comp[s]) = 1 => /\ peerbuf[s] # "none"
                               /\ sink[p] = "text"
                               /\ comp[s][1] = "READ" => readbuf[s] = "text"
    BY <1>1 DEF RdmaInv
  <1>7. QED
    BY <1>1, <1>4, <1>5, <1>6 DEF RdmaInv

\* The thread of s posts an RDMA operation when none is outstanding.
LEMMA RdmaLaunch ==
    ASSUME TypeOK, NEW s, NEW p, Pair(s, p),
           \A i \in 1..Len(sq[s]) : sq[s][i].kind \notin RdmaKind,
           NEW n \in Nat, n >= Len(sq[s]),
           Len(sq'[s]) = n + 1,
           \A i \in 1..Len(sq[s]) : sq'[s][i].kind = sq[s][i].kind,
           \A i \in (Len(sq[s]) + 1)..n : sq'[s][i].kind \notin RdmaKind,
           sq'[s][n + 1].kind \in WriteKind => sq'[s][n + 1].data = "text",
           sq'[s][n + 1].kind = "READ" => sink'[p] = "text",
           Len(comp'[s]) = 0, peerbuf'[s] # "none"
    PROVE  RdmaInv(s)'
  <1>1. Peer(s) = p /\ Len(sq[s]) \in Nat
    BY PipeFacts DEF Pair
  <1>2. ASSUME NEW i \in 1..Len(sq'[s]), sq'[s][i].kind \in RdmaKind
        PROVE  i = n + 1
    <2>1. i \notin 1..Len(sq[s])
      BY <1>2
    <2>2. i \notin (Len(sq[s]) + 1)..n
      BY <1>2
    <2>3. QED
      BY <1>1, <2>1, <2>2
  <1>3. ASSUME NEW i \in 1..Len(sq'[s]), NEW j \in 1..Len(sq'[s]),
               sq'[s][i].kind \in RdmaKind, sq'[s][j].kind \in RdmaKind
        PROVE  i = j
    BY <1>2, <1>3
  <1>4. ASSUME NEW i \in 1..Len(sq'[s]), sq'[s][i].kind \in RdmaKind
        PROVE  /\ sq'[s][i].kind \in WriteKind => sq'[s][i].data = "text"
               /\ sq'[s][i].kind = "READ" => sink'[p] = "text"
    BY <1>2, <1>4
  <1>5. Len(comp'[s]) <= 1 /\ Len(comp'[s]) # 1
    OBVIOUS
  <1>6. QED
    BY <1>1, <1>3, <1>4, <1>5 DEF RdmaInv

\* Moving one unit between two counters leaves their sum alone: a receive posted
\* or consumed against a completion handled or added.
LEMMA MovedOne ==
    \A m, n \in Nat : (m - 1) + (n + 1) = m + n /\ (m + 1) + (n - 1) = m + n
  OBVIOUS

\* The receives of both sides after a step that consumes or reposts one.
LEMMA ConservedStep ==
    ASSUME TypeOK, ReceivesConserved, NEW s \in Side, NEW p \in Side, p # s,
           \A t \in Side : t = s \/ t = p,
           stage' = stage \/ stage[s] # "start",
           stage'[p] = stage[p],
           inbox'[s] = inbox[s], recvs'[s] = recvs[s],
           \/ /\ Len(inbox'[p]) = Len(inbox[p]) + 1
              /\ recvs'[p] = recvs[p] - 1
           \/ /\ Len(inbox'[p]) = Len(inbox[p]) - 1
              /\ recvs'[p] = recvs[p] + 1
           \/ /\ inbox'[p] = inbox[p]
              /\ recvs'[p] = recvs[p]
    PROVE  ReceivesConserved'
  <1>1. recvs[p] \in Nat /\ Len(inbox[p]) \in Nat
    BY DEF TypeOK
  <1>2. stage[p] # "start" => recvs[p] + Len(inbox[p]) = PostedRecvs
    BY DEF ReceivesConserved
  <1>3. stage[s] # "start" => recvs[s] + Len(inbox[s]) = PostedRecvs
    BY DEF ReceivesConserved
  <1>4. stage'[p] # "start" => recvs'[p] + Len(inbox'[p]) = PostedRecvs
    <2>1. recvs'[p] + Len(inbox'[p]) = recvs[p] + Len(inbox[p])
      BY <1>1, MovedOne
    <2>2. QED
      BY <1>2, <2>1
  <1>5. stage'[s] # "start" => recvs'[s] + Len(inbox'[s]) = PostedRecvs
    BY <1>3
  <1>6. QED
    BY <1>4, <1>5 DEF ReceivesConserved

-----------------------------------------------------------------------------
(* Each action keeps the invariant. *)

\* The NIC executes a SEND: no descriptor is overwritten, for the only messages
\* behind REQUEST_EXCHANGE_KEY carry the same descriptor.
LEMMA ExecuteSendStep ==
    ASSUME IndInv, TypeOK', NEW s, NEW p, Pair(s, p), \A t \in Side : t = s \/ t = p,
           ExecuteSend(s)
    PROVE  IndInv'
  <1>0. /\ TypeOK /\ ReceivesConserved
        /\ s \in Side /\ p \in Side /\ p # s /\ Peer(s) = p /\ Peer(p) = s /\ Pair(p, s)
        /\ PhaseInv(s) /\ DescInv(s) /\ RdmaInv(s) /\ PipeInv(s)
        /\ PhaseInv(p) /\ DescInv(p) /\ RdmaInv(p) /\ PipeInv(p)
    BY InvAt DEF Pair, PipeInv, IndInv
  <1>1. /\ sq[s] # <<>> /\ Len(sq[s]) >= 1 /\ Head(sq[s]) = sq[s][1]
        /\ sq[s][1].kind \in SendKind
        /\ sq'[p] = sq[p]
        /\ Len(sq'[s]) = Len(sq[s]) - 1
        /\ \A i \in 1..Len(sq'[s]) : sq'[s][i] = sq[s][i + 1]
    BY <1>0, TailFacts DEF ExecuteSend, TypeOK
  <1>2. /\ inbox'[s] = inbox[s]
        /\ Len(inbox'[p]) = Len(inbox[p]) + 1
        /\ \A i \in 1..Len(inbox[p]) : inbox'[p][i] = inbox[p][i]
        /\ inbox'[p][Len(inbox[p]) + 1] = sq[s][1].kind
    <2>1. sq[s][1].kind \in RecvKind
      BY <1>1 DEF RecvKind
    <2>2. inbox' = [inbox EXCEPT ![p] = Append(@, sq[s][1].kind)]
      BY <1>0, <1>1 DEF ExecuteSend
    <2>3. QED
      BY <1>0, <2>1, <2>2, AppendFacts DEF TypeOK
  <1>3. Phase(s)' = Phase(s) /\ Phase(p)' = Phase(p)
    BY DEF ExecuteSend, Phase
  <1>4. /\ stage' = stage /\ sendbuf' = sendbuf /\ sink' = sink /\ readbuf' = readbuf
        /\ peerbuf' = peerbuf /\ comp' = comp
        /\ recvs[p] \in Nat /\ recvs[p] > 0
        /\ recvs'[p] = recvs[p] - 1 /\ recvs'[s] = recvs[s]
        /\ recvbuf'[p] = sq[s][1].data /\ recvbuf'[s] = recvbuf[s]
    BY <1>0, <1>1 DEF ExecuteSend, TypeOK
  <1>5. /\ Len(sq[s]) \in Nat /\ Len(inbox[p]) \in Nat
        /\ Phase(s) \in 0..4 /\ Phase(p) \in 0..4
    BY <1>0, PipeFacts
  <1>6. ReceivesConserved'
    BY <1>0, <1>2, <1>4, <1>5, ConservedStep
  <1>7. PhaseInv(s)' /\ PhaseInv(p)'
    BY <1>0, <1>3, <1>4, <1>5 DEF PhaseInv
  <1>8. PipeInv(s)'
    BY <1>0, <1>1, <1>2, <1>3, PipeMove
  <1>9. PipeInv(p)'
    BY <1>0, <1>1, <1>2, <1>3, PipeSame
  <1>10. DescInv(p)'
    BY <1>0, <1>1, <1>2, <1>3, <1>4, DescSame
  <1>11. DescInv(s)'
    <2>1. ASSUME Phase(p) <= 2, NEW i \in 1..Len(sq'[s]), sq'[s][i].kind \in {"REQ", "RESP"}
          PROVE  sq'[s][i].data = "desc"
      <3>1. sq'[s][i] = sq[s][i + 1] /\ i + 1 \in 1..Len(sq[s])
        BY <1>1, <1>5
      <3>2. QED
        BY <1>0, <2>1, <3>1 DEF DescInv
    <2>2. ASSUME Phase(p) <= 2, NEW i \in 1..Len(inbox'[p]), inbox'[p][i] = "REQ"
          PROVE  recvbuf'[p] = "desc"
      <3>0. 1 \in 1..Len(sq[s])
        BY <1>1, <1>5
      <3>1. sq[s][1].kind \in {"REQ", "RESP"} => sq[s][1].data = "desc"
        BY <1>0, <2>2, <3>0 DEF DescInv
      <3>2. sq[s][1].kind # "UNSET"
        BY <1>0, <1>5, <2>2, <3>0 DEF PipeInv, RankInv, PhaseInv
      <3>3. sq[s][1].kind # "SYNC"
        <4>1. SUFFICES ASSUME sq[s][1].kind = "SYNC" PROVE FALSE
          OBVIOUS
        <4>2. i # Len(inbox[p]) + 1
          BY <1>2, <2>2, <4>1
        <4>3. i \in 1..Len(inbox[p]) /\ inbox[p][i] = "REQ"
          BY <1>2, <1>5, <2>2, <4>2
        <4>4. Ordered(Rank("REQ"), Rank("SYNC"))
          BY <1>0, <3>0, <4>1, <4>3 DEF PipeInv, OrderInv
        <4>5. QED
          BY <4>4 DEF Ordered, Rank
      <3>4. QED
        BY <1>1, <1>4, <3>1, <3>2, <3>3 DEF SendKind
    <2>3. QED
      BY <1>0, <1>3, <1>4, <2>1, <2>2 DEF DescInv
  <1>12. RdmaInv(p)'
    BY <1>0, <1>1, <1>4, RdmaSame
  <1>13. RdmaInv(s)'
    <2>1. \A i \in 1..Len(sq'[s]) : sq'[s][i] = sq[s][i + 1] /\ i + 1 \in 1..Len(sq[s])
      BY <1>1, <1>5
    <2>2. ASSUME NEW i \in 1..Len(sq'[s]), NEW j \in 1..Len(sq'[s]),
                 sq'[s][i].kind \in RdmaKind, sq'[s][j].kind \in RdmaKind
          PROVE  i = j
      <3>1. i + 1 = j + 1
        BY <1>0, <2>1, <2>2 DEF RdmaInv
      <3>2. QED
        BY <3>1
    <2>3. ASSUME NEW i \in 1..Len(sq'[s]), sq'[s][i].kind \in RdmaKind
          PROVE  /\ Len(comp[s]) = 0
                 /\ peerbuf[s] # "none"
                 /\ sq'[s][i].kind \in WriteKind => sq'[s][i].data = "text"
                 /\ sq'[s][i].kind = "READ" => sink[p] = "text"
      BY <1>0, <2>1, <2>3 DEF RdmaInv
    <2>4. /\ Len(comp[s]) <= 1
          /\ Len(comp[s]) = 1 => /\ peerbuf[s] # "none"
                                 /\ sink[p] = "text"
                                 /\ comp[s][1] = "READ" => readbuf[s] = "text"
      BY <1>0 DEF RdmaInv
    <2>5. QED
      BY <1>0, <1>4, <2>2, <2>3, <2>4 DEF RdmaInv
  <1>14. QED
    BY <1>0, <1>6, <1>7, <1>8, <1>9, <1>10, <1>11, <1>12, <1>13, InvFromSides

\* The NIC executes the notifying write.
LEMMA ExecuteWriteWithImmStep ==
    ASSUME IndInv, TypeOK', NEW s, NEW p, Pair(s, p), \A t \in Side : t = s \/ t = p,
           ExecuteWriteWithImm(s)
    PROVE  IndInv'
  <1>0. /\ TypeOK /\ ReceivesConserved
        /\ s \in Side /\ p \in Side /\ p # s /\ Peer(s) = p /\ Peer(p) = s /\ Pair(p, s)
        /\ PhaseInv(s) /\ DescInv(s) /\ RdmaInv(s) /\ PipeInv(s)
        /\ PhaseInv(p) /\ DescInv(p) /\ RdmaInv(p) /\ PipeInv(p)
    BY InvAt DEF Pair, PipeInv, IndInv
  <1>1. /\ sq[s] # <<>> /\ Len(sq[s]) >= 1 /\ Head(sq[s]) = sq[s][1]
        /\ sq[s][1].kind = "WIMM"
        /\ sq'[p] = sq[p]
        /\ Len(sq'[s]) = Len(sq[s]) - 1
        /\ \A i \in 1..Len(sq'[s]) : sq'[s][i] = sq[s][i + 1]
    BY <1>0, TailFacts DEF ExecuteWriteWithImm, TypeOK
  <1>2. /\ inbox'[s] = inbox[s]
        /\ Len(inbox'[p]) = Len(inbox[p]) + 1
        /\ \A i \in 1..Len(inbox[p]) : inbox'[p][i] = inbox[p][i]
        /\ inbox'[p][Len(inbox[p]) + 1] = sq[s][1].kind
    <2>1. "WIMM" \in RecvKind
      BY DEF RecvKind
    <2>2. inbox' = [inbox EXCEPT ![p] = Append(@, "WIMM")]
      BY <1>0 DEF ExecuteWriteWithImm
    <2>3. QED
      BY <1>0, <1>1, <2>1, <2>2, AppendFacts DEF TypeOK
  <1>3. Phase(s)' = Phase(s) /\ Phase(p)' = Phase(p)
    BY DEF ExecuteWriteWithImm, Phase
  <1>4. /\ stage' = stage /\ sendbuf' = sendbuf /\ readbuf' = readbuf
        /\ peerbuf' = peerbuf /\ recvbuf' = recvbuf
        /\ recvs[p] \in Nat /\ recvs[p] > 0
        /\ recvs'[p] = recvs[p] - 1 /\ recvs'[s] = recvs[s]
        /\ sink'[p] = sq[s][1].data /\ sink'[s] = sink[s]
    BY <1>0, <1>1 DEF ExecuteWriteWithImm, TypeOK
  <1>c. /\ comp'[p] = comp[p]
        /\ Len(comp'[s]) = Len(comp[s]) + 1
        /\ comp'[s][Len(comp[s]) + 1] = "WRITE"
    BY <1>0, AppendFacts DEF ExecuteWriteWithImm, TypeOK
  <1>5. /\ Len(sq[s]) \in Nat /\ Len(inbox[p]) \in Nat
        /\ Phase(s) \in 0..4 /\ Phase(p) \in 0..4
    BY <1>0, PipeFacts
  <1>6. ReceivesConserved'
    BY <1>0, <1>2, <1>4, <1>5, ConservedStep
  <1>7. PhaseInv(s)' /\ PhaseInv(p)'
    BY <1>0, <1>3, <1>4, <1>5 DEF PhaseInv
  <1>8. PipeInv(s)'
    BY <1>0, <1>1, <1>2, <1>3, PipeMove
  <1>9. PipeInv(p)'
    BY <1>0, <1>1, <1>2, <1>3, PipeSame
  <1>10. DescInv(p)'
    BY <1>0, <1>1, <1>2, <1>3, <1>4, DescSame
  <1>11. DescInv(s)'
    <2>1. ASSUME NEW i \in 1..Len(inbox'[p]), inbox'[p][i] = "REQ"
          PROVE  \E j \in 1..Len(inbox[p]) : inbox[p][j] = "REQ"
      BY <1>1, <1>2, <1>5, <2>1
    <2>2. QED
      BY <1>0, <1>1, <1>3, <1>4, <2>1, DescTail
  <1>12. RdmaInv(p)'
    BY <1>0, <1>1, <1>4, <1>c, RdmaSame
  <1>13. RdmaInv(s)'
    <2>1. 1 \in 1..Len(sq[s])
      BY <1>1, <1>5
    <2>2. sq[s][1].kind \in RdmaKind /\ sq[s][1].kind \in WriteKind
      BY <1>1 DEF RdmaKind, WriteKind
    <2>3. sink'[p] = "text"
      BY <1>0, <1>4, <2>1, <2>2 DEF RdmaInv
    <2>4. QED
      BY <1>0, <1>1, <1>4, <1>c, <2>2, <2>3, RdmaComplete
  <1>14. QED
    BY <1>0, <1>6, <1>7, <1>8, <1>9, <1>10, <1>11, <1>12, <1>13, InvFromSides

\* The NIC executes a silent write.
LEMMA ExecuteWriteStep ==
    ASSUME IndInv, TypeOK', NEW s, NEW p, Pair(s, p), \A t \in Side : t = s \/ t = p,
           ExecuteWrite(s)
    PROVE  IndInv'
  <1>0. /\ TypeOK /\ ReceivesConserved
        /\ s \in Side /\ p \in Side /\ p # s /\ Peer(s) = p /\ Peer(p) = s /\ Pair(p, s)
        /\ PhaseInv(s) /\ DescInv(s) /\ RdmaInv(s) /\ PipeInv(s)
        /\ PhaseInv(p) /\ DescInv(p) /\ RdmaInv(p) /\ PipeInv(p)
    BY InvAt DEF Pair, PipeInv, IndInv
  <1>1. /\ sq[s] # <<>> /\ Len(sq[s]) >= 1 /\ Head(sq[s]) = sq[s][1]
        /\ sq[s][1].kind = "WRITE"
        /\ sq'[p] = sq[p]
        /\ Len(sq'[s]) = Len(sq[s]) - 1
        /\ \A i \in 1..Len(sq'[s]) : sq'[s][i] = sq[s][i + 1]
    BY <1>0, TailFacts DEF ExecuteWrite, TypeOK
  <1>3. Phase(s)' = Phase(s) /\ Phase(p)' = Phase(p)
    BY DEF ExecuteWrite, Phase
  <1>4. /\ stage' = stage /\ sendbuf' = sendbuf /\ readbuf' = readbuf
        /\ peerbuf' = peerbuf /\ recvbuf' = recvbuf /\ recvs' = recvs /\ inbox' = inbox
        /\ sink'[p] = sq[s][1].data /\ sink'[s] = sink[s]
    BY <1>0, <1>1 DEF ExecuteWrite, TypeOK
  <1>c. /\ comp'[p] = comp[p]
        /\ Len(comp'[s]) = Len(comp[s]) + 1
        /\ comp'[s][Len(comp[s]) + 1] = "WRITE"
    BY <1>0, AppendFacts DEF ExecuteWrite, TypeOK
  <1>5. /\ Len(sq[s]) \in Nat
        /\ Phase(s) \in 0..4 /\ Phase(p) \in 0..4
    BY <1>0, PipeFacts
  <1>6. ReceivesConserved'
    BY <1>0, <1>4 DEF ReceivesConserved
  <1>7. PhaseInv(s)' /\ PhaseInv(p)'
    BY <1>0, <1>3, <1>4, <1>5 DEF PhaseInv
  <1>8. PipeInv(s)'
    <2>1. Rank(sq[s][1].kind) = 5
      BY <1>1 DEF Rank
    <2>2. QED
      BY <1>0, <1>1, <1>3, <1>4, <2>1, PipeDrop
  <1>9. PipeInv(p)'
    BY <1>0, <1>1, <1>3, <1>4, PipeSame
  <1>10. DescInv(p)'
    BY <1>0, <1>1, <1>3, <1>4, DescSame
  <1>11. DescInv(s)'
    BY <1>0, <1>1, <1>3, <1>4, DescTail
  <1>12. RdmaInv(p)'
    BY <1>0, <1>1, <1>4, <1>c, RdmaSame
  <1>13. RdmaInv(s)'
    <2>1. 1 \in 1..Len(sq[s])
      BY <1>1, <1>5
    <2>2. sq[s][1].kind \in RdmaKind /\ sq[s][1].kind \in WriteKind
      BY <1>1 DEF RdmaKind, WriteKind
    <2>3. sink'[p] = "text"
      BY <1>0, <1>4, <2>1, <2>2 DEF RdmaInv
    <2>4. QED
      BY <1>0, <1>1, <1>4, <1>c, <2>2, <2>3, RdmaComplete
  <1>14. QED
    BY <1>0, <1>6, <1>7, <1>8, <1>9, <1>10, <1>11, <1>12, <1>13, InvFromSides

\* The NIC executes the read-back.
LEMMA ExecuteReadStep ==
    ASSUME IndInv, TypeOK', NEW s, NEW p, Pair(s, p), \A t \in Side : t = s \/ t = p,
           ExecuteRead(s)
    PROVE  IndInv'
  <1>0. /\ TypeOK /\ ReceivesConserved
        /\ s \in Side /\ p \in Side /\ p # s /\ Peer(s) = p /\ Peer(p) = s /\ Pair(p, s)
        /\ PhaseInv(s) /\ DescInv(s) /\ RdmaInv(s) /\ PipeInv(s)
        /\ PhaseInv(p) /\ DescInv(p) /\ RdmaInv(p) /\ PipeInv(p)
    BY InvAt DEF Pair, PipeInv, IndInv
  <1>1. /\ sq[s] # <<>> /\ Len(sq[s]) >= 1 /\ Head(sq[s]) = sq[s][1]
        /\ sq[s][1].kind = "READ"
        /\ sq'[p] = sq[p]
        /\ Len(sq'[s]) = Len(sq[s]) - 1
        /\ \A i \in 1..Len(sq'[s]) : sq'[s][i] = sq[s][i + 1]
    BY <1>0, TailFacts DEF ExecuteRead, TypeOK
  <1>3. Phase(s)' = Phase(s) /\ Phase(p)' = Phase(p)
    BY DEF ExecuteRead, Phase
  <1>4. /\ stage' = stage /\ sendbuf' = sendbuf /\ sink' = sink
        /\ peerbuf' = peerbuf /\ recvbuf' = recvbuf /\ recvs' = recvs /\ inbox' = inbox
        /\ readbuf'[s] = sink[p] /\ readbuf'[p] = readbuf[p]
    BY <1>0, <1>1 DEF ExecuteRead, TypeOK
  <1>c. /\ comp'[p] = comp[p]
        /\ Len(comp'[s]) = Len(comp[s]) + 1
        /\ comp'[s][Len(comp[s]) + 1] = "READ"
    BY <1>0, AppendFacts DEF ExecuteRead, TypeOK
  <1>5. /\ Len(sq[s]) \in Nat
        /\ Phase(s) \in 0..4 /\ Phase(p) \in 0..4
    BY <1>0, PipeFacts
  <1>6. ReceivesConserved'
    BY <1>0, <1>4 DEF ReceivesConserved
  <1>7. PhaseInv(s)' /\ PhaseInv(p)'
    BY <1>0, <1>3, <1>4, <1>5 DEF PhaseInv
  <1>8. PipeInv(s)'
    <2>1. Rank(sq[s][1].kind) = 5
      BY <1>1 DEF Rank
    <2>2. QED
      BY <1>0, <1>1, <1>3, <1>4, <2>1, PipeDrop
  <1>9. PipeInv(p)'
    BY <1>0, <1>1, <1>3, <1>4, PipeSame
  <1>10. DescInv(p)'
    BY <1>0, <1>1, <1>3, <1>4, DescSame
  <1>11. DescInv(s)'
    BY <1>0, <1>1, <1>3, <1>4, DescTail
  <1>12. RdmaInv(p)'
    BY <1>0, <1>1, <1>4, <1>c, RdmaSame
  <1>13. RdmaInv(s)'
    <2>1. 1 \in 1..Len(sq[s])
      BY <1>1, <1>5
    <2>2. sq[s][1].kind \in RdmaKind
      BY <1>1 DEF RdmaKind
    <2>3. sink'[p] = "text" /\ readbuf'[s] = "text"
      BY <1>0, <1>1, <1>4, <2>1, <2>2 DEF RdmaInv
    <2>4. QED
      BY <1>0, <1>1, <1>4, <1>c, <2>2, <2>3, RdmaComplete
  <1>14. QED
    BY <1>0, <1>6, <1>7, <1>8, <1>9, <1>10, <1>11, <1>12, <1>13, InvFromSides

\* What the polling of a receive completion does.
LEMMA PolledRecvFacts ==
    ASSUME TypeOK, NEW s, NEW p, Pair(s, p), NEW k, PolledRecv(s, k), RecvRemote(s)
    PROVE  /\ stage[s] = "running" /\ inbox[s] # <<>> /\ Head(inbox[s]) = k
           /\ inbox[s][1] = k /\ Len(inbox[s]) >= 1 /\ Len(inbox[s]) \in Nat
           /\ inbox'[p] = inbox[p]
           /\ Len(inbox'[s]) = Len(inbox[s]) - 1
           /\ \A i \in 1..Len(inbox'[s]) : inbox'[s][i] = inbox[s][i + 1]
           /\ recvs'[p] = recvs[p] /\ recvs'[s] = recvs[s] + 1
  <1>1. s \in Side /\ p \in Side /\ p # s
    BY DEF Pair
  <1>2. inbox[s] # <<>> /\ inbox' = [inbox EXCEPT ![s] = Tail(@)] /\ Head(inbox[s]) = k
        /\ stage[s] = "running"
    BY DEF PolledRecv
  <1>3. /\ inbox[s][1] = k /\ Len(inbox[s]) >= 1 /\ Len(inbox[s]) \in Nat
        /\ inbox'[p] = inbox[p]
        /\ Len(inbox'[s]) = Len(inbox[s]) - 1
        /\ \A i \in 1..Len(inbox'[s]) : inbox'[s][i] = inbox[s][i + 1]
    BY <1>1, <1>2, TailFacts DEF TypeOK
  <1>4. recvs'[p] = recvs[p] /\ recvs'[s] = recvs[s] + 1
    BY <1>1 DEF RecvRemote, TypeOK
  <1>5. QED
    BY <1>2, <1>3, <1>4

\* The handler of TEST_FOR_SYNC_DATA sends the descriptor.
LEMMA ProcessSyncStep ==
    ASSUME IndInv, TypeOK', NEW s, NEW p, Pair(s, p), \A t \in Side : t = s \/ t = p,
           ProcessSync(s)
    PROVE  IndInv'
  <1>0. /\ TypeOK /\ ReceivesConserved
        /\ s \in Side /\ p \in Side /\ p # s /\ Peer(s) = p /\ Peer(p) = s /\ Pair(p, s)
        /\ PhaseInv(s) /\ DescInv(s) /\ RdmaInv(s) /\ PipeInv(s)
        /\ PhaseInv(p) /\ DescInv(p) /\ RdmaInv(p) /\ PipeInv(p)
    BY InvAt DEF Pair, PipeInv, IndInv
  <1>1. /\ stage[s] = "running" /\ inbox[s] # <<>> /\ Head(inbox[s]) = "SYNC"
        /\ inbox[s][1] = "SYNC" /\ Len(inbox[s]) >= 1 /\ Len(inbox[s]) \in Nat
        /\ inbox'[p] = inbox[p]
        /\ Len(inbox'[s]) = Len(inbox[s]) - 1
        /\ \A i \in 1..Len(inbox'[s]) : inbox'[s][i] = inbox[s][i + 1]
        /\ recvs'[p] = recvs[p] /\ recvs'[s] = recvs[s] + 1
    BY <1>0, PolledRecvFacts DEF ProcessSync
  <1>2. /\ sendbuf' = [sendbuf EXCEPT ![s] = "desc"]
        /\ \A t \in Side : t # s => sq'[t] = sq[t]
        /\ Len(sq'[s]) = Len(sq[s]) + 1
        /\ \A i \in 1..Len(sq[s]) :
              /\ sq'[s][i].kind = sq[s][i].kind
              /\ sq[s][i].kind \in RdmaKind => sq'[s][i] = sq[s][i]
        /\ sq'[s][Len(sq[s]) + 1].kind = "REQ"
        /\ sq'[s][Len(sq[s]) + 1].data = "desc"
    <2>1. FillAndSend(s, "desc", "REQ")
      BY DEF ProcessSync
    <2>2. "desc" \in Payload /\ "REQ" \in SendKind
      BY DEF Payload, SendKind
    <2>3. QED
      BY <1>0, <2>1, <2>2, FillAndSendFacts
  <1>3. /\ stage' = stage /\ recvbuf' = recvbuf /\ readbuf' = readbuf /\ sink' = sink
        /\ peerbuf' = peerbuf /\ comp' = comp
        /\ sendbuf'[s] = "desc" /\ sendbuf'[p] = sendbuf[p] /\ sq'[p] = sq[p]
    BY <1>0, <1>2 DEF ProcessSync, TypeOK
  <1>4. /\ Len(sq[s]) \in Nat /\ Phase(s) \in 0..4 /\ Phase(p) \in 0..4
        /\ \A i \in 1..Len(sq[s]) : sq[s][i].kind \in Kind /\ Rank(sq[s][i].kind) \in 1..5
    BY <1>0, PipeFacts
  <1>5. Phase(s) = 1 /\ Phase(p) >= 1
    BY <1>0, <1>1, HeadPhase
  <1>6. peerbuf[s] = "none"
    BY <1>0, <1>5 DEF PhaseInv
  <1>7. Phase(p)' = Phase(p)
    BY <1>3 DEF Phase
  <1>8. Phase(s)' = 2
    BY <1>1, <1>3, <1>6 DEF Phase
  <1>9. ReceivesConserved'
    BY <1>0, <1>1, <1>3, ConservedStep
  <1>10. PhaseInv(s)' /\ PhaseInv(p)'
    BY <1>0, <1>1, <1>3, <1>4, <1>5, <1>6, <1>7, <1>8 DEF PhaseInv
  <1>11. PipeInv(p)'
    <2>1. Rank(inbox[s][1]) = 1
      BY <1>1 DEF Rank
    <2>2. QED
      BY <1>0, <1>1, <1>3, <1>5, <1>7, <1>8, <2>1, PipePop
  <1>12. PipeInv(s)'
    <2>1. Rank("REQ") = 2 /\ "REQ" \in Kind
      BY DEF Rank, Kind, SendKind
    <2>2. QED
      BY <1>0, <1>1, <1>2, <1>5, <1>7, <1>8, <2>1, PipePush
  <1>13. DescInv(p)'
    BY <1>0, <1>1, <1>3, <1>5, <1>7, <1>8, DescPop
  <1>14. DescInv(s)'
    <2>1. ASSUME NEW i \in 1..Len(sq'[s]), sq'[s][i].kind \in {"REQ", "RESP"}
          PROVE  sq'[s][i].data = "desc"
      <3>1. i \notin 1..Len(sq[s])
        <4>1. SUFFICES ASSUME i \in 1..Len(sq[s]) PROVE FALSE
          OBVIOUS
        <4>2. Rank(sq[s][i].kind) <= 1
          BY <1>0, <1>4, <1>5, <4>1 DEF PipeInv, RankInv
        <4>3. Rank(sq[s][i].kind) \in {2, 3}
          BY <1>2, <2>1, <4>1 DEF Rank
        <4>4. QED
          BY <4>2, <4>3
      <3>2. i = Len(sq[s]) + 1
        BY <1>2, <1>4, <3>1
      <3>3. QED
        BY <1>2, <3>2
    <2>2. /\ Phase(p) <= 2 => \A i \in 1..Len(inbox[p]) :
                inbox[p][i] = "REQ" => recvbuf[p] = "desc"
          /\ peerbuf[s] \in {"none", "desc"}
      BY <1>0 DEF DescInv
    <2>3. QED
      BY <1>0, <1>1, <1>3, <1>7, <1>8, <2>1, <2>2 DEF DescInv
  <1>15. RdmaInv(p)'
    BY <1>0, <1>3, RdmaSame
  <1>16. RdmaInv(s)'
    <2>1. "REQ" \in SendKind
      BY DEF SendKind
    <2>2. QED
      BY <1>0, <1>2, <1>3, <2>1, RdmaPost
  <1>17. QED
    BY <1>0, <1>9, <1>10, <1>11, <1>12, <1>13, <1>14, <1>15, <1>16, InvFromSides

\* The handler of RESPONSE_EXCHANGE_KEY and UNSET refills send_buffer only when
\* the peer has stored the descriptor.
LEMMA ProcessOtherStep ==
    ASSUME IndInv, TypeOK', NEW s, NEW p, Pair(s, p), \A t \in Side : t = s \/ t = p,
           ProcessOther(s)
    PROVE  IndInv'
  <1>0. /\ TypeOK /\ ReceivesConserved
        /\ s \in Side /\ p \in Side /\ p # s /\ Peer(s) = p /\ Peer(p) = s /\ Pair(p, s)
        /\ PhaseInv(s) /\ DescInv(s) /\ RdmaInv(s) /\ PipeInv(s)
        /\ PhaseInv(p) /\ DescInv(p) /\ RdmaInv(p) /\ PipeInv(p)
    BY InvAt DEF Pair, PipeInv, IndInv
  <1>k. PICK k \in {"RESP", "UNSET"} : PolledRecv(s, k)
    BY DEF ProcessOther
  <1>1. /\ stage[s] = "running" /\ inbox[s] # <<>> /\ Head(inbox[s]) = k
        /\ inbox[s][1] = k /\ Len(inbox[s]) >= 1 /\ Len(inbox[s]) \in Nat
        /\ inbox'[p] = inbox[p]
        /\ Len(inbox'[s]) = Len(inbox[s]) - 1
        /\ \A i \in 1..Len(inbox'[s]) : inbox'[s][i] = inbox[s][i + 1]
        /\ recvs'[p] = recvs[p] /\ recvs'[s] = recvs[s] + 1
    <2>1. RecvRemote(s)
      BY DEF ProcessOther
    <2>2. QED
      BY <1>0, <1>k, <2>1, PolledRecvFacts
  <1>2. /\ sendbuf' = [sendbuf EXCEPT ![s] = "greet"]
        /\ \A t \in Side : t # s => sq'[t] = sq[t]
        /\ Len(sq'[s]) = Len(sq[s]) + 1
        /\ \A i \in 1..Len(sq[s]) :
              /\ sq'[s][i].kind = sq[s][i].kind
              /\ sq[s][i].kind \in RdmaKind => sq'[s][i] = sq[s][i]
        /\ sq'[s][Len(sq[s]) + 1].kind = "UNSET"
    <2>1. FillAndSend(s, "greet", "UNSET")
      BY DEF ProcessOther
    <2>2. "greet" \in Payload /\ "UNSET" \in SendKind
      BY DEF Payload, SendKind
    <2>3. QED
      BY <1>0, <2>1, <2>2, FillAndSendFacts
  <1>3. /\ stage' = stage /\ recvbuf' = recvbuf /\ readbuf' = readbuf /\ sink' = sink
        /\ peerbuf' = peerbuf /\ comp' = comp
        /\ sendbuf'[s] = "greet" /\ sendbuf'[p] = sendbuf[p] /\ sq'[p] = sq[p]
    BY <1>0, <1>2 DEF ProcessOther, TypeOK
  <1>4. Phase(s) \in 0..4 /\ Phase(p) \in 0..4
    BY <1>0, PipeFacts
  <1>5. /\ k = "RESP" => Phase(s) = 3 /\ Phase(p) >= 3
        /\ k = "UNSET" => Phase(s) = 4 /\ Phase(p) = 4
    BY <1>0, <1>1, <1>k, HeadPhase
  <1>6. Phase(s) \in {3, 4} /\ Phase(p) \in {3, 4}
    BY <1>k, <1>4, <1>5
  <1>7. Phase(p)' = Phase(p) /\ Phase(s)' = 4
    BY <1>1, <1>3 DEF Phase
  <1>8. peerbuf[s] # "none"
    BY <1>0, <1>1, <1>6 DEF Phase, PhaseInv
  <1>9. ReceivesConserved'
    BY <1>0, <1>1, <1>3, ConservedStep
  <1>10. PhaseInv(s)' /\ PhaseInv(p)'
    BY <1>0, <1>1, <1>3, <1>6, <1>7, <1>8 DEF PhaseInv
  <1>11. PipeInv(p)'
    <2>1. Rank("RESP") = 3
      BY DEF Rank
    <2>2. \/ Phase(s) <= 3 /\ Rank(inbox[s][1]) = Phase(s) /\ Phase(s)' = Phase(s) + 1
          \/ Phase(s) = 4 /\ Phase(s)' = Phase(s)
      BY <1>k, <1>1, <1>5, <1>7, <2>1
    <2>3. QED
      BY <1>0, <1>1, <1>3, <1>7, <2>2, PipePop
  <1>12. PipeInv(s)'
    <2>1. Rank("UNSET") = 5 /\ "UNSET" \in Kind
      BY DEF Rank, Kind, SendKind
    <2>2. QED
      BY <1>0, <1>1, <1>2, <1>6, <1>7, <2>1, PipePush
  <1>13. DescInv(p)'
    BY SMTT(30), <1>0, <1>1, <1>3, <1>6, <1>7, DescPop
  <1>14. DescInv(s)'
    <2>1. peerbuf'[s] \in {"none", "desc"}
      BY <1>0, <1>3 DEF DescInv
    <2>2. Peer(s) = p
      BY <1>0 DEF Pair
    <2>3. ~ (Phase(s)' \in {2, 3}) /\ ~ (Phase(p)' <= 2)
      BY <1>6, <1>7
    <2>4. QED
      BY <2>1, <2>2, <2>3 DEF DescInv
  <1>15. RdmaInv(p)'
    BY <1>0, <1>3, RdmaSame
  <1>16. RdmaInv(s)'
    <2>1. "UNSET" \in SendKind
      BY DEF SendKind
    <2>2. QED
      BY <1>0, <1>2, <1>3, <2>1, RdmaPost
  <1>17. QED
    BY <1>0, <1>9, <1>10, <1>11, <1>12, <1>13, <1>14, <1>15, <1>16, InvFromSides

\* The handler of the notifying write only reposts the receive.
LEMMA ProcessRecvWriteWithImmStep ==
    ASSUME IndInv, TypeOK', NEW s, NEW p, Pair(s, p), \A t \in Side : t = s \/ t = p,
           ProcessRecvWriteWithImm(s)
    PROVE  IndInv'
  <1>0. /\ TypeOK /\ ReceivesConserved
        /\ s \in Side /\ p \in Side /\ p # s /\ Peer(s) = p /\ Peer(p) = s /\ Pair(p, s)
        /\ PhaseInv(s) /\ DescInv(s) /\ RdmaInv(s) /\ PipeInv(s)
        /\ PhaseInv(p) /\ DescInv(p) /\ RdmaInv(p) /\ PipeInv(p)
    BY InvAt DEF Pair, PipeInv, IndInv
  <1>1. /\ stage[s] = "running" /\ inbox[s] # <<>> /\ Head(inbox[s]) = "WIMM"
        /\ inbox[s][1] = "WIMM" /\ Len(inbox[s]) >= 1 /\ Len(inbox[s]) \in Nat
        /\ inbox'[p] = inbox[p]
        /\ Len(inbox'[s]) = Len(inbox[s]) - 1
        /\ \A i \in 1..Len(inbox'[s]) : inbox'[s][i] = inbox[s][i + 1]
        /\ recvs'[p] = recvs[p] /\ recvs'[s] = recvs[s] + 1
    BY <1>0, PolledRecvFacts DEF ProcessRecvWriteWithImm
  <1>3. /\ stage' = stage /\ recvbuf' = recvbuf /\ readbuf' = readbuf /\ sink' = sink
        /\ peerbuf' = peerbuf /\ comp' = comp /\ sendbuf' = sendbuf /\ sq' = sq
    BY DEF ProcessRecvWriteWithImm
  <1>4. Phase(s) \in 0..4 /\ Phase(p) \in 0..4
    BY <1>0, PipeFacts
  <1>5. Phase(s) = 4 /\ Phase(p) >= 3
    BY <1>0, <1>1, HeadPhase
  <1>7. Phase(p)' = Phase(p) /\ Phase(s)' = Phase(s)
    BY <1>3 DEF Phase
  <1>9. ReceivesConserved'
    BY <1>0, <1>1, <1>3, ConservedStep
  <1>10. PhaseInv(s)' /\ PhaseInv(p)'
    BY <1>0, <1>1, <1>3, <1>4, <1>7 DEF PhaseInv
  <1>11. PipeInv(p)'
    BY <1>0, <1>1, <1>3, <1>5, <1>7, PipePop
  <1>12. PipeInv(s)'
    BY <1>0, <1>1, <1>3, <1>7, PipeSame
  <1>13. DescInv(p)'
    BY <1>0, <1>1, <1>3, <1>4, <1>7, DescPop
  <1>14. DescInv(s)'
    BY <1>0, <1>1, <1>3, <1>7, DescSame
  <1>15. RdmaInv(p)' /\ RdmaInv(s)'
    BY <1>0, <1>3, RdmaSame
  <1>16. QED
    BY <1>0, <1>9, <1>10, <1>11, <1>12, <1>13, <1>14, <1>15, InvFromSides

\* The handler of REQUEST_EXCHANGE_KEY stores the descriptor, answers and
\* launches the first write.
LEMMA ProcessRequestStep ==
    ASSUME IndInv, TypeOK', NEW s, NEW p, Pair(s, p), \A t \in Side : t = s \/ t = p,
           ProcessRequest(s)
    PROVE  IndInv'
  <1>0. /\ TypeOK /\ ReceivesConserved
        /\ s \in Side /\ p \in Side /\ p # s /\ Peer(s) = p /\ Peer(p) = s /\ Pair(p, s)
        /\ PhaseInv(s) /\ DescInv(s) /\ RdmaInv(s) /\ PipeInv(s)
        /\ PhaseInv(p) /\ DescInv(p) /\ RdmaInv(p) /\ PipeInv(p)
    BY InvAt DEF Pair, PipeInv, IndInv
  <1>1. /\ stage[s] = "running" /\ inbox[s] # <<>> /\ Head(inbox[s]) = "REQ"
        /\ inbox[s][1] = "REQ" /\ Len(inbox[s]) >= 1 /\ Len(inbox[s]) \in Nat
        /\ inbox'[p] = inbox[p]
        /\ Len(inbox'[s]) = Len(inbox[s]) - 1
        /\ \A i \in 1..Len(inbox'[s]) : inbox'[s][i] = inbox[s][i + 1]
        /\ recvs'[p] = recvs[p] /\ recvs'[s] = recvs[s] + 1
    BY <1>0, PolledRecvFacts DEF ProcessRequest
  <1>2. /\ Len(sq[s]) \in Nat /\ Phase(s) \in 0..4 /\ Phase(p) \in 0..4
        /\ \A i \in 1..Len(sq[s]) : sq[s][i].kind \in Kind /\ Rank(sq[s][i].kind) \in 1..5
    BY <1>0, PipeFacts
  <1>3. Phase(s) = 2 /\ Phase(p) \in {2, 3}
    <2>1. Phase(s) = 2 /\ Phase(p) >= 2
      BY <1>0, <1>1, HeadPhase
    <2>2. Phase(p) <= 3
      BY <1>0, <1>2, <2>1 DEF PhaseInv
    <2>3. QED
      BY <1>2, <2>1, <2>2
  <1>4. /\ \A t \in Side : t # s => sq'[t] = sq[t]
        /\ Len(sq'[s]) = Len(sq[s]) + 2
        /\ \A i \in 1..Len(sq[s]) :
              /\ sq'[s][i].kind = sq[s][i].kind
              /\ sq[s][i].kind \notin WriteKind => sq'[s][i] = sq[s][i]
        /\ sq'[s][Len(sq[s]) + 1].kind = "RESP"
        /\ sq'[s][Len(sq[s]) + 1].data = sendbuf[s]
        /\ sq'[s][Len(sq[s]) + 2].kind = "WIMM"
        /\ sq'[s][Len(sq[s]) + 2].data = "text"
    <2> DEFINE q == Post(sq[s], "RESP", sendbuf[s])
    <2>1. FillAndWrite(s, q, "WIMM")
      BY DEF ProcessRequest
    <2>2. "RESP" \in Kind /\ "WIMM" \in WriteKind /\ "RESP" \notin WriteKind
          /\ sendbuf[s] \in Payload /\ sq[s] \in Seq(WorkRequest)
      BY <1>0 DEF Kind, SendKind, WriteKind, TypeOK
    <2>3. /\ q \in Seq(WorkRequest)
          /\ Len(q) = Len(sq[s]) + 1
          /\ \A i \in 1..Len(sq[s]) : q[i] = sq[s][i]
          /\ q[Len(sq[s]) + 1].kind = "RESP"
          /\ q[Len(sq[s]) + 1].data = sendbuf[s]
      BY <2>2, PostFacts
    <2> HIDE DEF q
    <2>4. /\ \A t \in Side : t # s => sq'[t] = sq[t]
          /\ Len(sq'[s]) = Len(q) + 1
          /\ \A i \in 1..Len(q) :
                /\ sq'[s][i].kind = q[i].kind
                /\ q[i].kind \notin WriteKind => sq'[s][i] = q[i]
          /\ sq'[s][Len(q) + 1].kind = "WIMM"
          /\ sq'[s][Len(q) + 1].data = "text"
      BY <1>0, <2>1, <2>2, <2>3, FillAndWriteFacts
    <2>5. Len(q) + 1 = Len(sq[s]) + 2 /\ Len(sq[s]) + 1 \in 1..Len(q)
          /\ \A i \in 1..Len(sq[s]) : i \in 1..Len(q)
      BY <1>2, <2>3
    <2>6. QED
      BY <2>2, <2>3, <2>4, <2>5
  <1>5. recvbuf[s] = "desc" /\ sendbuf[s] = "desc" /\ peerbuf[s] = "none"
    <2>1. 1 \in 1..Len(inbox[s])
      BY <1>1
    <2>2. QED
      BY <1>0, <1>1, <1>2, <1>3, <2>1 DEF DescInv, PhaseInv
  <1>6. /\ stage' = stage /\ recvbuf' = recvbuf /\ readbuf' = readbuf /\ sink' = sink
        /\ comp' = comp /\ sendbuf' = sendbuf /\ sq'[p] = sq[p]
        /\ peerbuf'[s] = "desc" /\ peerbuf'[p] = peerbuf[p]
    BY <1>0, <1>4, <1>5 DEF ProcessRequest, InsertPeerBuffer, TypeOK
  <1>7. Phase(p)' = Phase(p) /\ Phase(s)' = 3
    BY <1>1, <1>5, <1>6 DEF Phase
  <1>8. \A i \in 1..Len(sq[s]) : sq[s][i].kind \in {"SYNC", "REQ"}
    <2>1. \A i \in 1..Len(sq[s]) : Rank(sq[s][i].kind) <= 2
      BY <1>0, <1>2, <1>3 DEF PipeInv, RankInv
    <2>2. QED
      BY <1>2, <2>1, RankFacts
  <1>9. ReceivesConserved'
    BY <1>0, <1>1, <1>6, ConservedStep
  <1>10. PhaseInv(s)' /\ PhaseInv(p)'
    BY <1>0, <1>1, <1>2, <1>3, <1>5, <1>6, <1>7 DEF PhaseInv
  <1>11. PipeInv(p)'
    <2>1. Rank(inbox[s][1]) = 2
      BY <1>1 DEF Rank
    <2>2. QED
      BY <1>0, <1>1, <1>3, <1>6, <1>7, <2>1, PipePop
  <1>12. PipeInv(s)'
    BY <1>0, <1>1, <1>3, <1>4, <1>7, PipePushTwo
  <1>13. DescInv(p)'
    BY <1>0, <1>1, <1>3, <1>6, <1>7, DescPop
  <1>14. DescInv(s)'
    <2>1. ASSUME NEW i \in 1..Len(sq'[s]), sq'[s][i].kind \in {"REQ", "RESP"}, Phase(p) <= 2
          PROVE  sq'[s][i].data = "desc"
      <3>1. i \in 1..Len(sq[s]) \/ i = Len(sq[s]) + 1 \/ i = Len(sq[s]) + 2
        BY <1>2, <1>4
      <3>2. CASE i \in 1..Len(sq[s])
        <4>1. sq[s][i].kind \notin WriteKind
          BY <1>8, <3>2 DEF WriteKind
        <4>2. sq'[s][i] = sq[s][i]
          BY <1>4, <3>2, <4>1
        <4>3. QED
          BY <1>0, <2>1, <3>2, <4>2 DEF DescInv
      <3>3. CASE i = Len(sq[s]) + 1
        BY <1>4, <1>5, <3>3
      <3>4. CASE i = Len(sq[s]) + 2
        BY <1>4, <2>1, <3>4
      <3>5. QED
        BY <3>1, <3>2, <3>3, <3>4
    <2>2. Phase(p) <= 2 => \A i \in 1..Len(inbox[p]) :
                inbox[p][i] = "REQ" => recvbuf[p] = "desc"
      BY <1>0 DEF DescInv
    <2>3. QED
      BY <1>0, <1>1, <1>5, <1>6, <1>7, <2>1, <2>2 DEF DescInv
  <1>15. RdmaInv(p)'
    BY <1>0, <1>6, RdmaSame
  <1>16. RdmaInv(s)'
    <2> DEFINE n == Len(sq[s]) + 1
    <2>1. \A i \in 1..Len(sq[s]) : sq[s][i].kind \notin RdmaKind
      BY <1>8, RankFacts
    <2>2. \A i \in (Len(sq[s]) + 1)..n : sq'[s][i].kind \notin RdmaKind
      <3>1. "RESP" \notin RdmaKind
        BY RankFacts
      <3>2. QED
        BY <1>2, <1>4, <3>1
    <2>3. Len(comp'[s]) = 0
      <3>1. Len(comp[s]) \in Nat
        BY <1>0, QueueFacts
      <3>2. QED
        <4>0. RdmaInv(s) /\ Peer(s) = p
          BY <1>0
        <4>1. Len(comp[s]) <= 1 /\ (Len(comp[s]) = 1 => peerbuf[s] # "none")
          BY <4>0 DEF RdmaInv
        <4>2. \A n_0 \in Nat : n_0 <= 1 /\ n_0 # 1 => n_0 = 0
          OBVIOUS
        <4>a. Len(comp[s]) = 0
          BY <1>5, <3>1, <4>1, <4>2
        <4>3. QED
          BY <1>6, <4>a
    <2>4. n \in Nat /\ n >= Len(sq[s]) /\ Len(sq'[s]) = n + 1
          /\ sq'[s][n + 1].kind = "WIMM" /\ sq'[s][n + 1].data = "text"
      <3>1. Len(sq[s]) + 1 + 1 = Len(sq[s]) + 2
        BY <1>2
      <3>2. QED
        BY <1>2, <1>4, <3>1
    <2>5. peerbuf'[s] # "none"
      BY <1>6
    <2>6. \A i \in 1..Len(sq[s]) : sq'[s][i].kind = sq[s][i].kind
      BY <1>4
    <2> HIDE DEF n
    <2>7. QED
      BY <1>0, <2>1, <2>2, <2>3, <2>4, <2>5, <2>6, RdmaLaunch
  <1>17. QED
    BY <1>0, <1>9, <1>10, <1>11, <1>12, <1>13, <1>14, <1>15, <1>16, InvFromSides

\* What the polling of the completion of the one RDMA operation of s does.
LEMMA PolledCompFacts ==
    ASSUME TypeOK, NEW s, NEW p, Pair(s, p), RdmaInv(s), PhaseInv(s),
           NEW k, PolledComp(s, k)
    PROVE  /\ stage[s] = "running" /\ comp[s][1] = k /\ Len(comp[s]) = 1
           /\ comp'[p] = comp[p] /\ Len(comp'[s]) = 0
           /\ \A i \in 1..Len(sq[s]) : sq[s][i].kind \notin RdmaKind
           /\ peerbuf[s] # "none" /\ sink[p] = "text"
           /\ Phase(s) \in {3, 4}
  <1>1. s \in Side /\ p \in Side /\ p # s /\ Peer(s) = p
    BY DEF Pair
  <1>2. comp[s] # <<>> /\ comp' = [comp EXCEPT ![s] = Tail(@)] /\ Head(comp[s]) = k
        /\ stage[s] = "running"
    BY DEF PolledComp
  <1>3. /\ comp[s][1] = k /\ Len(comp[s]) >= 1 /\ Len(comp[s]) \in Nat
        /\ comp'[p] = comp[p]
        /\ Len(comp'[s]) = Len(comp[s]) - 1
    BY <1>1, <1>2, TailFacts DEF TypeOK
  <1>4. Len(comp[s]) = 1
    <2>1. Len(comp[s]) <= 1
      BY <1>1 DEF RdmaInv
    <2>2. \A n \in Nat : n <= 1 /\ n >= 1 => n = 1
      OBVIOUS
    <2>3. QED
      BY <1>3, <2>1, <2>2
  <1>5. \A i \in 1..Len(sq[s]) : sq[s][i].kind \notin RdmaKind
    <2>1. ~(Len(comp[s]) = 0)
      BY <1>4
    <2>2. QED
      BY <2>1 DEF RdmaInv
  <1>6. peerbuf[s] # "none" /\ sink[p] = "text"
    BY <1>1, <1>4 DEF RdmaInv
  <1>7. Phase(s) \in {3, 4}
    <2>1. Phase(s) \in 0..4 /\ ~(Phase(s) <= 2)
      BY <1>1, <1>6, PhaseFacts DEF PhaseInv
    <2>2. QED
      BY <2>1
  <1>8. QED
    BY <1>2, <1>3, <1>4, <1>5, <1>6, <1>7

\* The handler of an RDMA completion posts the next RDMA operation: what it
\* does to the invariant depends only on the work request it posts.
LEMMA LoopStep ==
    ASSUME IndInv, TypeOK', NEW s, NEW p, Pair(s, p), \A t \in Side : t = s \/ t = p,
           NEW k \in {"READ", "WRITE"},
           stage' = stage, sendbuf' = sendbuf, recvbuf' = recvbuf, sink' = sink,
           peerbuf' = peerbuf, recvs' = recvs, inbox' = inbox,
           readbuf'[p] = readbuf[p],
           comp'[p] = comp[p], Len(comp'[s]) = 0,
           \A i \in 1..Len(sq[s]) : sq[s][i].kind \notin RdmaKind,
           peerbuf[s] # "none", sink[p] = "text", Phase(s) \in {3, 4},
           sq'[p] = sq[p],
           Len(sq'[s]) = Len(sq[s]) + 1,
           \A i \in 1..Len(sq[s]) : sq'[s][i] = sq[s][i],
           sq'[s][Len(sq[s]) + 1].kind = k,
           k = "WRITE" => sq'[s][Len(sq[s]) + 1].data = "text"
    PROVE  IndInv'
  <1>0. /\ TypeOK /\ ReceivesConserved
        /\ s \in Side /\ p \in Side /\ p # s /\ Peer(s) = p /\ Peer(p) = s /\ Pair(p, s)
        /\ PhaseInv(s) /\ DescInv(s) /\ RdmaInv(s) /\ PipeInv(s)
        /\ PhaseInv(p) /\ DescInv(p) /\ RdmaInv(p) /\ PipeInv(p)
    BY InvAt DEF Pair, PipeInv, IndInv
  <1>1. Len(sq[s]) \in Nat /\ Phase(s) \in 0..4 /\ Phase(p) \in 0..4
    BY <1>0, PipeFacts
  <1>2. Phase(p)' = Phase(p) /\ Phase(s)' = Phase(s)
    BY DEF Phase
  <1>3. /\ stage'[s] = stage[s] /\ inbox'[p] = inbox[p] /\ inbox'[s] = inbox[s]
        /\ sink'[s] = sink[s] /\ sink'[p] = sink[p]
        /\ recvbuf'[s] = recvbuf[s] /\ recvbuf'[p] = recvbuf[p]
        /\ peerbuf'[p] = peerbuf[p] /\ peerbuf'[s] = peerbuf[s]
    OBVIOUS
  <1>4. ReceivesConserved'
    BY <1>0 DEF ReceivesConserved
  <1>5. PhaseInv(s)' /\ PhaseInv(p)'
    BY <1>0, <1>1, <1>2 DEF PhaseInv
  <1>6. PipeInv(p)'
    BY <1>0, <1>2, <1>3, PipeSame
  <1>7. PipeInv(s)'
    <2>1. Rank(k) = 5 /\ k \in Kind /\ k # "UNSET"
      BY DEF Rank, Kind, WriteKind
    <2>2. QED
      BY <1>0, <1>2, <1>3, <2>1, PipePush
  <1>8. DescInv(p)'
    BY <1>0, <1>2, <1>3, DescSame
  <1>9. DescInv(s)'
    <2>1. ASSUME NEW i \in 1..Len(sq'[s]), sq'[s][i].kind \in {"REQ", "RESP"}, Phase(p) <= 2
          PROVE  sq'[s][i].data = "desc"
      <3>1. i # Len(sq[s]) + 1
        BY <2>1
      <3>2. i \in 1..Len(sq[s])
        BY <1>1, <3>1
      <3>3. QED
        BY <1>0, <2>1, <3>2 DEF DescInv
    <2>2. /\ Phase(p) <= 2 => \A i \in 1..Len(inbox[p]) :
                inbox[p][i] = "REQ" => recvbuf[p] = "desc"
          /\ Phase(s) \in {2, 3} => sendbuf[s] = "desc"
          /\ peerbuf[s] \in {"none", "desc"}
      BY <1>0 DEF DescInv
    <2>3. QED
      BY <1>0, <1>2, <1>3, <2>1, <2>2 DEF DescInv
  <1>10. RdmaInv(p)'
    BY <1>0, <1>3, RdmaSame
  <1>11. RdmaInv(s)'
    <2> DEFINE n == Len(sq[s])
    <2>1. n \in Nat /\ n >= Len(sq[s]) /\ Len(sq'[s]) = n + 1
      BY <1>1
    <2>2. \A i \in (Len(sq[s]) + 1)..n : sq'[s][i].kind \notin RdmaKind
      BY <1>1
    <2>3. /\ sq'[s][n + 1].kind \in WriteKind => sq'[s][n + 1].data = "text"
          /\ sq'[s][n + 1].kind = "READ" => sink'[p] = "text"
      BY <1>3 DEF WriteKind
    <2>4. \A i \in 1..Len(sq[s]) : sq'[s][i].kind = sq[s][i].kind
      OBVIOUS
    <2>5. peerbuf'[s] # "none"
      BY <1>3
    <2> HIDE DEF n
    <2>6. QED
      BY <1>0, <2>1, <2>2, <2>3, <2>4, <2>5, RdmaLaunch
  <1>12. QED
    BY <1>0, <1>4, <1>5, <1>6, <1>7, <1>8, <1>9, <1>10, <1>11, InvFromSides

\* The handler of a write completion launches the read-back.
LEMMA ProcessWriteDoneStep ==
    ASSUME IndInv, TypeOK', NEW s, NEW p, Pair(s, p), \A t \in Side : t = s \/ t = p,
           ProcessWriteDone(s)
    PROVE  IndInv'
  <1>0. /\ TypeOK /\ s \in Side /\ p \in Side /\ p # s
        /\ RdmaInv(s) /\ PhaseInv(s) /\ sq[s] \in Seq(WorkRequest)
    BY InvAt DEF Pair, IndInv, TypeOK
  <1>1. PolledComp(s, "WRITE")
    BY DEF ProcessWriteDone
  <1>2. /\ comp'[p] = comp[p] /\ Len(comp'[s]) = 0
        /\ \A i \in 1..Len(sq[s]) : sq[s][i].kind \notin RdmaKind
        /\ peerbuf[s] # "none" /\ sink[p] = "text"
        /\ Phase(s) \in {3, 4}
    BY <1>0, <1>1, PolledCompFacts
  <1>3. /\ stage' = stage /\ sendbuf' = sendbuf /\ recvbuf' = recvbuf /\ sink' = sink
        /\ peerbuf' = peerbuf /\ recvs' = recvs /\ inbox' = inbox
        /\ readbuf'[p] = readbuf[p]
        /\ sq'[p] = sq[p] /\ sq'[s] = Post(sq[s], "READ", "zero")
    BY <1>0 DEF ProcessWriteDone, TypeOK
  <1>4. "READ" \in Kind /\ "zero" \in Payload
    BY DEF Kind, Payload
  <1>5. /\ Len(sq'[s]) = Len(sq[s]) + 1
        /\ \A i \in 1..Len(sq[s]) : sq'[s][i] = sq[s][i]
        /\ sq'[s][Len(sq[s]) + 1].kind = "READ"
    BY <1>0, <1>3, <1>4, PostFacts
  <1>6. QED
    BY <1>2, <1>3, <1>5, LoopStep

\* The handler of a read completion launches the next write.
LEMMA ProcessReadDoneStep ==
    ASSUME IndInv, TypeOK', NEW s, NEW p, Pair(s, p), \A t \in Side : t = s \/ t = p,
           ProcessReadDone(s)
    PROVE  IndInv'
  <1>0. /\ TypeOK /\ s \in Side /\ p \in Side /\ p # s
        /\ RdmaInv(s) /\ PhaseInv(s) /\ sq[s] \in Seq(WorkRequest)
    BY InvAt DEF Pair, IndInv, TypeOK
  <1>1. PolledComp(s, "READ")
    BY DEF ProcessReadDone
  <1>2. /\ comp'[p] = comp[p] /\ Len(comp'[s]) = 0
        /\ \A i \in 1..Len(sq[s]) : sq[s][i].kind \notin RdmaKind
        /\ peerbuf[s] # "none" /\ sink[p] = "text"
        /\ Phase(s) \in {3, 4}
    BY <1>0, <1>1, PolledCompFacts
  <1>3. FillAndWrite(s, sq[s], "WRITE") /\ "WRITE" \in WriteKind
    BY DEF ProcessReadDone, WriteKind
  <1>4. /\ \A t \in Side : t # s => sq'[t] = sq[t]
        /\ Len(sq'[s]) = Len(sq[s]) + 1
        /\ \A i \in 1..Len(sq[s]) :
              /\ sq'[s][i].kind = sq[s][i].kind
              /\ sq[s][i].kind \notin WriteKind => sq'[s][i] = sq[s][i]
        /\ sq'[s][Len(sq[s]) + 1].kind = "WRITE"
        /\ sq'[s][Len(sq[s]) + 1].data = "text"
    BY ZenonT(30), <1>0, <1>3, FillAndWriteFacts
  <1>5. /\ stage' = stage /\ sendbuf' = sendbuf /\ recvbuf' = recvbuf /\ sink' = sink
        /\ peerbuf' = peerbuf /\ recvs' = recvs /\ inbox' = inbox
        /\ readbuf'[p] = readbuf[p] /\ sq'[p] = sq[p]
    BY <1>0, <1>4 DEF ProcessReadDone
  <1>6. \A i \in 1..Len(sq[s]) : sq'[s][i] = sq[s][i]
    BY <1>2, <1>4 DEF RdmaKind
  <1>7. QED
    BY <1>2, <1>4, <1>5, <1>6, LoopStep

\* Before its first SEND a side only moves its establishment forward.
LEMMA SyncStep ==
    ASSUME IndInv, TypeOK', NEW s, NEW p, Pair(s, p), \A t \in Side : t = s \/ t = p,
           \/ SyncSend(s)
           \/ SyncRecv(s)
    PROVE  IndInv'
  <1>0. /\ TypeOK /\ ReceivesConserved
        /\ s \in Side /\ p \in Side /\ p # s /\ Peer(s) = p /\ Peer(p) = s /\ Pair(p, s)
        /\ PhaseInv(s) /\ DescInv(s) /\ RdmaInv(s) /\ PipeInv(s)
        /\ PhaseInv(p) /\ DescInv(p) /\ RdmaInv(p) /\ PipeInv(p)
    BY InvAt DEF Pair, PipeInv, IndInv
  <1>1. /\ sendbuf' = sendbuf /\ recvbuf' = recvbuf /\ readbuf' = readbuf /\ sink' = sink
        /\ peerbuf' = peerbuf /\ recvs' = recvs /\ sq' = sq /\ inbox' = inbox /\ comp' = comp
    BY DEF SyncSend, SyncRecv
  <1>2. /\ stage[s] \in {"posted", "sent"} /\ stage'[s] \in {"sent", "synced"}
        /\ stage'[p] = stage[p]
        /\ stage'[s] = "synced" => stage[p] \in {"sent", "synced", "running"}
    BY <1>0 DEF SyncSend, SyncRecv, TypeOK
  <1>3. Phase(s) = 0 /\ Phase(s)' = 0 /\ Phase(p)' = Phase(p) /\ Phase(p) \in 0..4
    BY <1>0, <1>1, <1>2, PhaseFacts DEF Phase
  <1>4. ReceivesConserved'
    <2>1. /\ recvs'[s] + Len(inbox'[s]) = PostedRecvs
          /\ stage'[p] # "start" => recvs'[p] + Len(inbox'[p]) = PostedRecvs
      BY <1>0, <1>1, <1>2 DEF ReceivesConserved
    <2>2. QED
      BY <2>1 DEF ReceivesConserved
  <1>5. PhaseInv(s)' /\ PhaseInv(p)'
    BY <1>0, <1>1, <1>2, <1>3 DEF PhaseInv
  <1>6. PipeInv(s)' /\ PipeInv(p)'
    BY <1>0, <1>1, <1>3, PipeSame
  <1>7. DescInv(s)' /\ DescInv(p)'
    BY <1>0, <1>1, <1>3, DescSame
  <1>8. RdmaInv(s)' /\ RdmaInv(p)'
    BY <1>0, <1>1, RdmaSame
  <1>9. QED
    BY <1>0, <1>4, <1>5, <1>6, <1>7, <1>8, InvFromSides

\* The receives are posted before the peer may send anything.
LEMMA PostReceivesStep ==
    ASSUME IndInv, TypeOK', NEW s, NEW p, Pair(s, p), \A t \in Side : t = s \/ t = p,
           PostReceives(s)
    PROVE  IndInv'
  <1>0. /\ TypeOK /\ ReceivesConserved
        /\ s \in Side /\ p \in Side /\ p # s /\ Peer(s) = p /\ Peer(p) = s /\ Pair(p, s)
        /\ PhaseInv(s) /\ DescInv(s) /\ RdmaInv(s) /\ PipeInv(s)
        /\ PhaseInv(p) /\ DescInv(p) /\ RdmaInv(p) /\ PipeInv(p)
    BY InvAt DEF Pair, PipeInv, IndInv
  <1>1. /\ sendbuf' = sendbuf /\ readbuf' = readbuf /\ sink' = sink
        /\ peerbuf' = peerbuf /\ sq' = sq /\ inbox' = inbox /\ comp' = comp
    BY DEF PostReceives
  <1>2. /\ stage[s] = "start" /\ stage'[s] = "posted" /\ stage'[p] = stage[p]
        /\ recvbuf'[p] = recvbuf[p]
        /\ recvs'[s] = recvs[s] + PostedRecvs /\ recvs'[p] = recvs[p]
    BY <1>0 DEF PostReceives, TypeOK
  <1>3. /\ Phase(s) = 0 /\ Phase(s)' = 0 /\ Phase(p)' = Phase(p) /\ Phase(p) = 0
        /\ stage[p] \notin {"synced", "running"}
    <2>1. stage[p] \notin {"synced", "running"}
      BY <1>0, <1>2 DEF PhaseInv
    <2>2. QED
      BY <1>1, <1>2, <2>1 DEF Phase
  <1>4. Len(inbox[s]) = 0
    <2>1. /\ Len(inbox[s]) \in Nat
          /\ \A i \in 1..Len(inbox[s]) : Rank(inbox[s][i]) \in 1..5
      BY <1>0, PipeFacts
    <2>2. ASSUME NEW i \in 1..Len(inbox[s]) PROVE FALSE
      <3>1. Rank(inbox[s][i]) <= Phase(p) \/ Phase(p) >= 3
        BY <1>0 DEF PipeInv, RankInv
      <3>2. QED
        BY <1>3, <2>1, <3>1
    <2>3. QED
      BY <2>1, <2>2
  <1>5. ReceivesConserved'
    <2>1. recvs[s] = 0
      BY <1>0, <1>2 DEF PhaseInv
    <2>2. recvs'[s] + Len(inbox'[s]) = PostedRecvs
      BY <1>1, <1>2, <1>4, <2>1, PostedRecvsAssumption
    <2>3. stage'[p] # "start" => recvs'[p] + Len(inbox'[p]) = PostedRecvs
      BY <1>0, <1>1, <1>2 DEF ReceivesConserved
    <2>4. QED
      BY <2>2, <2>3 DEF ReceivesConserved
  <1>6. PhaseInv(s)' /\ PhaseInv(p)'
    BY <1>0, <1>1, <1>2, <1>3 DEF PhaseInv
  <1>7. PipeInv(s)' /\ PipeInv(p)'
    BY <1>0, <1>1, <1>3, PipeSame
  <1>8. DescInv(s)'
    BY <1>0, <1>1, <1>2, <1>3, DescSame
  <1>9. DescInv(p)'
    <2>1. \A i \in 1..Len(inbox[s]) : FALSE
      BY <1>4
    <2>2. /\ \A i \in 1..Len(sq[p]) :
                sq[p][i].kind \in {"REQ", "RESP"} => sq[p][i].data = "desc"
          /\ peerbuf[p] \in {"none", "desc"}
      BY <1>0, <1>3 DEF DescInv
    <2>3. QED
      BY <1>0, <1>1, <1>3, <2>1, <2>2 DEF DescInv
  <1>10. RdmaInv(s)' /\ RdmaInv(p)'
    BY <1>0, <1>1, RdmaSame
  <1>11. QED
    BY <1>0, <1>5, <1>6, <1>7, <1>8, <1>9, <1>10, InvFromSides

\* The first SEND opens the pipe.
LEMMA FirstSendStep ==
    ASSUME IndInv, TypeOK', NEW s, NEW p, Pair(s, p), \A t \in Side : t = s \/ t = p,
           FirstSend(s)
    PROVE  IndInv'
  <1>0. /\ TypeOK /\ ReceivesConserved
        /\ s \in Side /\ p \in Side /\ p # s /\ Peer(s) = p /\ Peer(p) = s /\ Pair(p, s)
        /\ PhaseInv(s) /\ DescInv(s) /\ RdmaInv(s) /\ PipeInv(s)
        /\ PhaseInv(p) /\ DescInv(p) /\ RdmaInv(p) /\ PipeInv(p)
    BY InvAt DEF Pair, PipeInv, IndInv
  <1>2. /\ sendbuf' = [sendbuf EXCEPT ![s] = "hello"]
        /\ \A t \in Side : t # s => sq'[t] = sq[t]
        /\ Len(sq'[s]) = Len(sq[s]) + 1
        /\ \A i \in 1..Len(sq[s]) :
              /\ sq'[s][i].kind = sq[s][i].kind
              /\ sq[s][i].kind \in RdmaKind => sq'[s][i] = sq[s][i]
        /\ sq'[s][Len(sq[s]) + 1].kind = "SYNC"
    <2>1. FillAndSend(s, "hello", "SYNC")
      BY DEF FirstSend
    <2>2. "hello" \in Payload /\ "SYNC" \in SendKind
      BY DEF Payload, SendKind
    <2>3. QED
      BY <1>0, <2>1, <2>2, FillAndSendFacts
  <1>3. /\ recvbuf' = recvbuf /\ readbuf' = readbuf /\ sink' = sink /\ recvs' = recvs
        /\ peerbuf' = peerbuf /\ comp' = comp /\ inbox' = inbox
        /\ sendbuf'[s] = "hello" /\ sendbuf'[p] = sendbuf[p] /\ sq'[p] = sq[p]
        /\ stage[s] = "synced" /\ stage'[s] = "running" /\ stage'[p] = stage[p]
    BY <1>0, <1>2 DEF FirstSend, TypeOK
  <1>4. /\ Len(sq[s]) \in Nat /\ Phase(p) \in 0..4
        /\ \A i \in 1..Len(sq[s]) : Rank(sq[s][i].kind) \in 1..5
    BY <1>0, PipeFacts
  <1>5. Phase(s) = 0 /\ Phase(s)' = 1 /\ Phase(p)' = Phase(p)
    BY <1>3 DEF Phase
  <1>6. Phase(p) <= 1 /\ peerbuf[s] = "none"
    BY <1>0, <1>4, <1>5 DEF PhaseInv
  <1>7. ReceivesConserved'
    <2>1. /\ recvs'[s] + Len(inbox'[s]) = PostedRecvs
          /\ stage'[p] # "start" => recvs'[p] + Len(inbox'[p]) = PostedRecvs
      BY <1>0, <1>3 DEF ReceivesConserved
    <2>2. QED
      BY <2>1 DEF ReceivesConserved
  <1>8. PhaseInv(s)' /\ PhaseInv(p)'
    BY <1>0, <1>3, <1>4, <1>5, <1>6 DEF PhaseInv
  <1>9. PipeInv(s)'
    <2>1. Rank("SYNC") = 1 /\ "SYNC" \in Kind /\ inbox'[p] = inbox[p]
      BY <1>3 DEF Rank, Kind, SendKind
    <2>2. QED
      BY <1>0, <1>2, <1>5, <2>1, PipePush
  <1>10. PipeInv(p)'
    <2>1. RankInv(p) /\ OrderInv(p) /\ PresenceInv(p)
      BY <1>0 DEF PipeInv
    <2>2. RankInv(p)'
      <3>1. Len(sq[p]) \in Nat /\ Len(inbox[s]) \in Nat
            /\ (\A i \in 1..Len(sq[p]) : Rank(sq[p][i].kind) \in 1..5)
            /\ (\A i \in 1..Len(inbox[s]) : Rank(inbox[s][i]) \in 1..5)
        BY <1>0, PipeFacts
      <3>2. QED
        <4>1. ASSUME NEW i \in 1..Len(sq[p])
              PROVE  /\ Rank(sq[p][i].kind) >= 1
                     /\ Rank(sq[p][i].kind) <= Phase(p) \/ Phase(p) >= 3
                     /\ sq[p][i].kind = "UNSET" => Phase(p) = 4
          BY <2>1, <3>1 DEF RankInv
        <4>2. ASSUME NEW i \in 1..Len(inbox[s])
              PROVE  /\ Rank(inbox[s][i]) >= 1
                     /\ Rank(inbox[s][i]) <= Phase(p) \/ Phase(p) >= 3
                     /\ inbox[s][i] = "UNSET" => Phase(p) = 4
          BY <1>0, <2>1, <3>1 DEF RankInv
        <4>3. QED
          BY <1>0, <1>3, <1>5, <4>1, <4>2 DEF RankInv
    <2>3. OrderInv(p)'
      BY <1>0, <1>3, <2>1 DEF OrderInv
    <2>4. PresenceInv(p)'
      BY <1>0, <1>3, <1>5, <2>1 DEF PresenceInv, InPipe
    <2>5. QED
      BY <2>2, <2>3, <2>4 DEF PipeInv
  <1>11. DescInv(p)'
    BY <1>0, <1>3, <1>5 DEF DescInv
  <1>12. DescInv(s)'
    <2>1. ASSUME NEW i \in 1..Len(sq'[s]), sq'[s][i].kind \in {"REQ", "RESP"}
          PROVE  FALSE
      <3>1. i # Len(sq[s]) + 1
        BY <1>2, <2>1
      <3>2. i \in 1..Len(sq[s])
        BY <1>2, <1>4, <3>1
      <3>3. Rank(sq[s][i].kind) <= 0
        BY <1>0, <1>5, <3>2 DEF PipeInv, RankInv
      <3>4. QED
        BY <1>4, <3>2, <3>3
    <2>2. /\ \A i \in 1..Len(inbox[p]) :
                inbox[p][i] = "REQ" => recvbuf[p] = "desc"
          /\ peerbuf[s] \in {"none", "desc"}
      BY <1>0, <1>4, <1>6 DEF DescInv
    <2>3. QED
      BY <1>0, <1>3, <1>5, <2>1, <2>2 DEF DescInv
  <1>13. RdmaInv(p)'
    BY <1>0, <1>3, RdmaSame
  <1>14. RdmaInv(s)'
    <2>1. "SYNC" \in SendKind
      BY DEF SendKind
    <2>2. QED
      BY <1>0, <1>2, <1>3, <2>1, RdmaPost
  <1>15. QED
    BY <1>0, <1>7, <1>8, <1>9, <1>10, <1>11, <1>12, <1>13, <1>14, InvFromSides

-----------------------------------------------------------------------------
\* The inductive invariant holds initially.
LEMMA IndInit == Init => IndInv
  <1> SUFFICES ASSUME Init PROVE IndInv
    OBVIOUS
  <1>1. TypeOK
    BY TypeInit
  <1>2. ReceivesConserved
    BY DEF Init, ReceivesConserved
  <1>3. ASSUME NEW s \in Side
        PROVE  /\ PhaseInv(s) /\ RankInv(s) /\ OrderInv(s)
               /\ PresenceInv(s) /\ DescInv(s) /\ RdmaInv(s)
    <2>1. Peer(s) \in Side
      BY PeerFacts
    <2>2. /\ Phase(s) = 0 /\ Phase(Peer(s)) = 0
          /\ Len(sq[s]) = 0 /\ Len(inbox[Peer(s)]) = 0 /\ Len(comp[s]) = 0
          /\ stage[s] = "start" /\ recvs[s] = 0 /\ peerbuf[s] = "none"
      BY <2>1 DEF Init, Phase
    <2>3. PhaseInv(s)
      BY <2>2 DEF PhaseInv
    <2>4. RankInv(s)
      BY <2>2 DEF RankInv
    <2>5. OrderInv(s)
      BY <2>2 DEF OrderInv
    <2>6. PresenceInv(s)
      BY <2>2 DEF PresenceInv
    <2>7. DescInv(s)
      BY <2>2 DEF DescInv
    <2>8. RdmaInv(s)
      BY <2>2 DEF RdmaInv
    <2>9. QED
      BY <2>3, <2>4, <2>5, <2>6, <2>7, <2>8
  <1>4. QED
    BY <1>1, <1>2, <1>3 DEF IndInv

\* Every step keeps the inductive invariant: one case per action.
LEMMA IndNext == IndInv /\ [Next]_vars => IndInv'
  <1> SUFFICES ASSUME IndInv, [Next]_vars PROVE IndInv'
    OBVIOUS
  <1>1. TypeOK'
    BY TypeNext DEF IndInv
  <1>2. ASSUME NEW s \in Side, Establish(s) \/ Nic(s) \/ HandleRecv(s) \/ HandleComp(s)
        PROVE  IndInv'
    <2>1. PICK p \in Side : Pair(s, p) /\ \A t \in Side : t = s \/ t = p
      BY PairFacts
    <2>2. CASE Establish(s)
      BY <1>1, <2>1, <2>2, PostReceivesStep, SyncStep, FirstSendStep DEF Establish
    <2>3. CASE Nic(s)
      BY <1>1, <2>1, <2>3, ExecuteSendStep, ExecuteWriteWithImmStep, ExecuteWriteStep,
         ExecuteReadStep DEF Nic
    <2>4. CASE HandleRecv(s)
      BY <1>1, <2>1, <2>4, ProcessRequestStep, ProcessSyncStep, ProcessOtherStep,
         ProcessRecvWriteWithImmStep DEF HandleRecv
    <2>5. CASE HandleComp(s)
      BY <1>1, <2>1, <2>5, ProcessWriteDoneStep, ProcessReadDoneStep DEF HandleComp
    <2>6. QED
      BY <1>2, <2>2, <2>3, <2>4, <2>5
  <1>3. CASE UNCHANGED vars
    <2>1. /\ ReceivesConserved' = ReceivesConserved
          /\ \A s \in Side : /\ PhaseInv(s)' = PhaseInv(s)
                             /\ RankInv(s)' = RankInv(s)
                             /\ OrderInv(s)' = OrderInv(s)
                             /\ PresenceInv(s)' = PresenceInv(s)
                             /\ DescInv(s)' = DescInv(s)
                             /\ RdmaInv(s)' = RdmaInv(s)
      BY <1>3 DEF vars, ReceivesConserved, PhaseInv, RankInv, OrderInv, PresenceInv,
                  InPipe, DescInv, RdmaInv, Phase
    <2>2. QED
      BY <1>1, <2>1 DEF IndInv
  <1>4. QED
    BY <1>2, <1>3 DEF Next

\* The inductive invariant holds for every number of posted receives.
THEOREM Inductive == Spec => []IndInv
  <1>1. QED
    BY IndInit, IndNext, PTL DEF Spec

\* Every variable of the two sides keeps its type; in particular no message and
\* no torn write ever reaches a sink (rdma_session.cc:316-323, 408-414).
THEOREM TypeCorrect == Spec => []TypeOK
  <1>1. IndInv => TypeOK
    BY DEF IndInv
  <1>2. QED
    BY Inductive, <1>1, PTL

\* Nothing overwrites recv_buffer between the landing of REQUEST_EXCHANGE_KEY
\* and its handler, and what is stored is the peer's descriptor
\* (rdma_session.cc:289-323).
THEOREM DescriptorSafe == Spec => []DescriptorIntact
  <1>1. IndInv => DescriptorIntact
    <2> SUFFICES ASSUME IndInv, NEW s \in Side
                 PROVE  /\ "REQ" \in Pending(s) => recvbuf[s] = "desc"
                        /\ peerbuf[s] \in {"none", "desc"}
      BY DEF DescriptorIntact
    <2>1. PICK p \in Side : Pair(s, p)
      BY PairFacts
    <2>2. Peer(p) = s /\ Pair(p, s) /\ TypeOK
      BY <2>1 DEF Pair, IndInv
    <2>3. DescInv(s) /\ DescInv(p) /\ RankInv(p)
      BY InvAt
    <2>4. ASSUME "REQ" \in Pending(s) PROVE recvbuf[s] = "desc"
      <3>1. PICK i \in 1..Len(inbox[s]) : inbox[s][i] = "REQ"
        BY <2>4 DEF Pending
      <3>2. Rank(inbox[s][i]) = 2 /\ Phase(s) \in 0..4
        BY <3>1, PhaseFacts DEF Rank
      <3>3. Phase(s) <= 2
        BY <2>2, <2>3, <3>1, <3>2 DEF RankInv
      <3>4. QED
        BY <2>2, <2>3, <3>1, <3>3 DEF DescInv
    <2>5. QED
      BY <2>3, <2>4 DEF DescInv
  <1>2. QED
    BY <1>1, Inductive, PTL

\* The CHECKs on the peer's descriptor in default_process_write_done and
\* default_process_read_done never fail (rdma_session.cc:375, 400).
THEOREM ChecksNeverFail == Spec => []PeerBufferKnown
  <1>1. IndInv => PeerBufferKnown
    <2> SUFFICES ASSUME IndInv, NEW s \in Side, comp[s] # <<>>
                 PROVE  peerbuf[s] # "none"
      BY DEF PeerBufferKnown
    <2>1. RdmaInv(s) /\ TypeOK
      BY InvAt DEF IndInv
    <2>2. Len(comp[s]) \in Nat /\ Len(comp[s]) >= 1
      BY <2>1, TailFacts DEF TypeOK
    <2>3. Len(comp[s]) <= 1 /\ (Len(comp[s]) = 1 => peerbuf[s] # "none")
      BY <2>1 DEF RdmaInv
    <2>4. \A n \in Nat : n <= 1 /\ n >= 1 => n = 1
      OBVIOUS
    <2>5. QED
      BY <2>2, <2>3, <2>4
  <1>2. QED
    BY <1>1, Inductive, PTL

\* The write / read-back loop uses its buffers for one operation at a time, and
\* reads back what it wrote (rdma_session.cc:316-321, 383-386, 408-412).
THEOREM ReadBackSafe == Spec => []ReadBackIntact
  <1>1. IndInv => ReadBackIntact
    <2> SUFFICES ASSUME IndInv, NEW s \in Side
                 PROVE  /\ \A i, j \in 1..Len(sq[s]) :
                              sq[s][i].kind \in RdmaKind /\ sq[s][j].kind \in RdmaKind => i = j
                        /\ comp[s] # <<>> =>
                              Len(comp[s]) = 1 /\ Kinds(sq[s]) \cap RdmaKind = {}
                        /\ comp[s] = <<"READ">> => readbuf[s] = "text"
      BY DEF ReadBackIntact
    <2>1. RdmaInv(s) /\ TypeOK
      BY InvAt DEF IndInv
    <2>2. \A i, j \in 1..Len(sq[s]) :
             sq[s][i].kind \in RdmaKind /\ sq[s][j].kind \in RdmaKind => i = j
      BY <2>1 DEF RdmaInv
    <2>3. ASSUME comp[s] # <<>> PROVE Len(comp[s]) = 1
      <3>1. Len(comp[s]) \in Nat /\ Len(comp[s]) >= 1
        BY <2>1, <2>3, TailFacts DEF TypeOK
      <3>2. Len(comp[s]) <= 1
        BY <2>1 DEF RdmaInv
      <3>3. \A n \in Nat : n <= 1 /\ n >= 1 => n = 1
        OBVIOUS
      <3>4. QED
        BY <3>1, <3>2, <3>3
    <2>4. ASSUME comp[s] # <<>> PROVE Kinds(sq[s]) \cap RdmaKind = {}
      <3>1. ~(Len(comp[s]) = 0)
        BY <2>3, <2>4
      <3>2. \A i \in 1..Len(sq[s]) : sq[s][i].kind \notin RdmaKind
        BY <2>1, <3>1 DEF RdmaInv
      <3>3. QED
        BY <3>2 DEF Kinds
    <2>5. ASSUME comp[s] = <<"READ">> PROVE readbuf[s] = "text"
      <3>1. Len(comp[s]) = 1 /\ comp[s][1] = "READ"
        BY <2>5
      <3>2. QED
        BY <2>1, <3>1 DEF RdmaInv
    <2>6. QED
      BY <2>2, <2>3, <2>4, <2>5
  <1>2. QED
    BY <1>1, Inductive, PTL

\* No receive is lost, whatever the interleaving: every handler reposts exactly
\* the one its completion consumed (rdma_session.cc:243-244, 311, 328, 358, 436).
THEOREM ReceivesSafe == Spec => []ReceivesConserved
  <1>1. IndInv => ReceivesConserved
    BY DEF IndInv
  <1>2. QED
    BY <1>1, Inductive, PTL

\* The first message finds a posted receive at the peer, which is what the TCP
\* sync before it is for (rdma_session.cc:243-255).
THEOREM FirstSendSafe == Spec => []FirstSendMeetsReceive
  <1>1. IndInv => FirstSendMeetsReceive
    <2> SUFFICES ASSUME IndInv, NEW s \in Side, sq[s] # <<>>, Head(sq[s]).kind = "SYNC"
                 PROVE  recvs[Peer(s)] > 0
      BY DEF FirstSendMeetsReceive
    <2>1. PICK p \in Side : Pair(s, p)
      BY PairFacts
    <2>2. Peer(s) = p /\ TypeOK /\ ReceivesConserved
      BY <2>1 DEF Pair, IndInv
    <2>3. PhaseInv(s) /\ RankInv(s) /\ OrderInv(s)
      BY InvAt
    <2>4. Len(sq[s]) >= 1 /\ Head(sq[s]) = sq[s][1] /\ 1 \in 1..Len(sq[s])
      <3>1. Len(sq[s]) \in Nat /\ Len(sq[s]) >= 1 /\ Head(sq[s]) = sq[s][1]
        BY <2>2, TailFacts DEF TypeOK
      <3>2. QED
        BY <3>1
    <2>5. /\ Len(inbox[p]) \in Nat /\ Phase(s) \in 0..4 /\ recvs[p] \in Nat
          /\ \A i \in 1..Len(inbox[p]) : Rank(inbox[p][i]) \in 1..5
      BY <2>1, <2>2, PipeFacts DEF TypeOK
    <2>6. Rank(sq[s][1].kind) = 1
      BY <2>4 DEF Rank
    <2>7. Phase(s) # 0
      BY <2>3, <2>4, <2>5, <2>6 DEF RankInv
    <2>8. stage[p] # "start"
      BY <2>2, <2>3, <2>7, PhaseFacts DEF PhaseInv
    <2>9. Len(inbox[p]) = 0
      <3>1. ASSUME NEW i \in 1..Len(inbox[p]) PROVE FALSE
        <4>1. Ordered(Rank(inbox[p][i]), 1)
          BY <2>2, <2>3, <2>4, <2>6 DEF OrderInv
        <4>2. QED
          BY <2>5, <4>1 DEF Ordered
      <3>2. QED
        BY <2>5, <3>1
    <2>10. recvs[p] + Len(inbox[p]) = PostedRecvs
      BY <2>2, <2>8 DEF ReceivesConserved
    <2>11. QED
      BY <2>2, <2>5, <2>9, <2>10, PostedRecvsAssumption
  <1>2. QED
    BY <1>1, Inductive, PTL

-----------------------------------------------------------------------------
(***************************************************************************)
(* The greetings: a side sends the first one, and from then on each SEND   *)
(* answers one that was handled.  So there are never more SENDs under way, *)
(* in both directions together, than sides that run.                       *)
(***************************************************************************)
SendsIn(q) == {i \in 1..Len(q) : q[i].kind \in SendKind}
GreetingsIn(q) == {i \in 1..Len(q) : q[i] \in SendKind}

\* The SENDs from s that its peer has not handled.
UnderWay(s) == Cardinality(SendsIn(sq[s])) + Cardinality(GreetingsIn(inbox[Peer(s)]))

Runs(s) == IF stage[s] = "running" THEN 1 ELSE 0

TokenInv ==
    \A s \in Side : UnderWay(s) + UnderWay(Peer(s)) = Runs(s) + Runs(Peer(s))

\* Sets of places in a queue are finite.
LEMMA PlacesFinite ==
    ASSUME NEW n \in Nat, NEW P, P \subseteq 1..n
    PROVE  IsFiniteSet(P) /\ Cardinality(P) \in Nat /\ Cardinality(P) <= n
  <1>1. IsFiniteSet(1..n) /\ Cardinality(1..n) = n
    BY FS_Interval
  <1>2. P \in SUBSET (1..n)
    OBVIOUS
  <1>3. IsFiniteSet(P) /\ Cardinality(P) <= Cardinality(1..n)
    BY <1>1, <1>2, FS_Subset
  <1>4. QED
    BY <1>1, <1>3, FS_CardinalityType

\* Taking the head moves the places by one.
LEMMA PlacesTail ==
    ASSUME NEW n \in Nat, n >= 1, NEW P, P \subseteq 1..n, NEW Q, Q \subseteq 1..(n - 1),
           \A i \in 1..(n - 1) : i \in Q <=> i + 1 \in P
    PROVE  Cardinality(P) = Cardinality(Q) + IF 1 \in P THEN 1 ELSE 0
  <1> DEFINE f == [i \in Q |-> i + 1]
  <1>1. IsFiniteSet(P) /\ Cardinality(P) \in Nat
    BY PlacesFinite
  <1>2. IsFiniteSet(Q) /\ Cardinality(Q) \in Nat
    <2>1. n - 1 \in Nat
      OBVIOUS
    <2>2. QED
      BY <2>1, PlacesFinite
  <1>3. f \in [Q -> P \ {1}]
    OBVIOUS
  <1>4. \A i, j \in Q : f[i] = f[j] => i = j
    OBVIOUS
  <1>5. ASSUME NEW p \in P \ {1} PROVE \E i \in Q : f[i] = p
    <2>1. p - 1 \in 1..(n - 1) /\ (p - 1) + 1 = p
      OBVIOUS
    <2>2. p - 1 \in Q
      BY <2>1
    <2>3. QED
      BY <2>1, <2>2
  <1> HIDE DEF f
  <1>6. f \in Bijection(Q, P \ {1})
    BY <1>3, <1>4, <1>5 DEF Bijection, Injection, Surjection, IsInjective
  <1>7. ExistsBijection(Q, P \ {1})
    BY <1>6 DEF ExistsBijection
  <1>8. Cardinality(P \ {1}) = Cardinality(Q)
    BY <1>2, <1>7, FS_Bijection
  <1>9. Cardinality(P \ {1}) = IF 1 \in P THEN Cardinality(P) - 1 ELSE Cardinality(P)
    BY <1>1, FS_RemoveElement
  <1>10. QED
    BY <1>1, <1>2, <1>8, <1>9

\* A new last element is one more place, or none.
LEMMA PlacesAppend ==
    ASSUME NEW n \in Nat, NEW P, P \subseteq 1..n, NEW Q, Q \subseteq 1..(n + 1),
           \A i \in 1..n : i \in Q <=> i \in P
    PROVE  Cardinality(Q) = Cardinality(P) + IF n + 1 \in Q THEN 1 ELSE 0
  <1>1. IsFiniteSet(P) /\ Cardinality(P) \in Nat
    BY PlacesFinite
  <1>i. (\A i \in Q : i \in P \/ i = n + 1) /\ (\A i \in P : i \in Q) /\ n + 1 \notin P
    <2>1. \A i \in 1..(n + 1) : i \in 1..n \/ i = n + 1
      OBVIOUS
    <2>2. n + 1 \notin 1..n
      OBVIOUS
    <2>3. QED
      BY <2>1, <2>2
  <1>2. CASE n + 1 \in Q
    <2>1. Q = P \cup {n + 1}
      BY <1>2, <1>i
    <2>2. QED
      BY <1>1, <1>2, <1>i, <2>1, FS_AddElement
  <1>3. CASE n + 1 \notin Q
    <2>1. Q = P
      BY <1>3, <1>i
    <2>2. QED
      BY <1>1, <1>3, <2>1
  <1>4. QED
    BY <1>2, <1>3

\* The SENDs of a send queue that lost its head.
LEMMA SendsTail ==
    ASSUME NEW q, NEW r, Len(q) \in Nat, Len(q) >= 1, Len(r) = Len(q) - 1,
           \A i \in 1..Len(r) : r[i] = q[i + 1]
    PROVE  Cardinality(SendsIn(q)) =
              Cardinality(SendsIn(r)) + IF q[1].kind \in SendKind THEN 1 ELSE 0
  <1> DEFINE n == Len(q)
             P == SendsIn(q)
             Q == SendsIn(r)
  <1>1. P \subseteq 1..n /\ (1 \in P <=> q[1].kind \in SendKind)
    BY DEF SendsIn
  <1>2. Q \subseteq 1..(n - 1) /\ \A i \in 1..(n - 1) : i \in Q <=> i + 1 \in P
    BY DEF SendsIn
  <1> HIDE DEF n, P, Q
  <1>3. Cardinality(P) = Cardinality(Q) + IF 1 \in P THEN 1 ELSE 0
    BY <1>1, <1>2, PlacesTail DEF n
  <1>4. QED
    BY <1>1, <1>3 DEF P, Q

\* The SENDs of a send queue with one more work request.
LEMMA SendsPost ==
    ASSUME NEW q, NEW r, Len(q) \in Nat, Len(r) = Len(q) + 1,
           \A i \in 1..Len(q) : r[i].kind = q[i].kind
    PROVE  Cardinality(SendsIn(r)) = Cardinality(SendsIn(q))
              + IF r[Len(q) + 1].kind \in SendKind THEN 1 ELSE 0
  <1> DEFINE n == Len(q)
             P == SendsIn(q)
             Q == SendsIn(r)
  <1>1. P \subseteq 1..n
    BY DEF SendsIn
  <1>2. /\ Q \subseteq 1..(n + 1) /\ \A i \in 1..n : i \in Q <=> i \in P
        /\ n + 1 \in Q <=> r[n + 1].kind \in SendKind
    BY DEF SendsIn
  <1> HIDE DEF n, P, Q
  <1>3. Cardinality(Q) = Cardinality(P) + IF n + 1 \in Q THEN 1 ELSE 0
    BY <1>1, <1>2, PlacesAppend DEF n
  <1>4. QED
    BY <1>2, <1>3 DEF P, Q, n

\* The greetings of an inbox that lost its head.
LEMMA GreetingsTail ==
    ASSUME NEW q, NEW r, Len(q) \in Nat, Len(q) >= 1, Len(r) = Len(q) - 1,
           \A i \in 1..Len(r) : r[i] = q[i + 1]
    PROVE  Cardinality(GreetingsIn(q)) =
              Cardinality(GreetingsIn(r)) + IF q[1] \in SendKind THEN 1 ELSE 0
  <1> DEFINE n == Len(q)
             P == GreetingsIn(q)
             Q == GreetingsIn(r)
  <1>1. P \subseteq 1..n /\ (1 \in P <=> q[1] \in SendKind)
    BY DEF GreetingsIn
  <1>2. Q \subseteq 1..(n - 1) /\ \A i \in 1..(n - 1) : i \in Q <=> i + 1 \in P
    BY DEF GreetingsIn
  <1> HIDE DEF n, P, Q
  <1>3. Cardinality(P) = Cardinality(Q) + IF 1 \in P THEN 1 ELSE 0
    BY <1>1, <1>2, PlacesTail DEF n
  <1>4. QED
    BY <1>1, <1>3 DEF P, Q

\* The greetings of an inbox with one more completion.
LEMMA GreetingsPost ==
    ASSUME NEW q, NEW r, Len(q) \in Nat, Len(r) = Len(q) + 1,
           \A i \in 1..Len(q) : r[i] = q[i]
    PROVE  Cardinality(GreetingsIn(r)) = Cardinality(GreetingsIn(q))
              + IF r[Len(q) + 1] \in SendKind THEN 1 ELSE 0
  <1> DEFINE n == Len(q)
             P == GreetingsIn(q)
             Q == GreetingsIn(r)
  <1>1. P \subseteq 1..n
    BY DEF GreetingsIn
  <1>2. /\ Q \subseteq 1..(n + 1) /\ \A i \in 1..n : i \in Q <=> i \in P
        /\ n + 1 \in Q <=> r[n + 1] \in SendKind
    BY DEF GreetingsIn
  <1> HIDE DEF n, P, Q
  <1>3. Cardinality(Q) = Cardinality(P) + IF n + 1 \in Q THEN 1 ELSE 0
    BY <1>1, <1>2, PlacesAppend DEF n
  <1>4. QED
    BY <1>2, <1>3 DEF P, Q, n

\* The places of a queue are those in P and at most one other.
LEMMA OthersOne ==
    ASSUME NEW n \in Nat, NEW P, P \subseteq 1..n,
           \A i, j \in (1..n) \ P : i = j
    PROVE  /\ n = Cardinality(P) + Cardinality((1..n) \ P)
           /\ Cardinality((1..n) \ P) <= 1 /\ Cardinality((1..n) \ P) \in Nat
           /\ Cardinality(P) \in Nat
  <1> DEFINE R == (1..n) \ P
  <1>1. P \cup R = 1..n /\ P \cap R = {} /\ R \subseteq 1..n
    OBVIOUS
  <1>2. \A i, j \in R : i = j
    OBVIOUS
  <1> HIDE DEF R
  <1>3. IsFiniteSet(P) /\ Cardinality(P) \in Nat
    BY PlacesFinite
  <1>4. IsFiniteSet(R) /\ Cardinality(R) \in Nat
    BY <1>1, PlacesFinite
  <1>5. Cardinality(1..n) = n
    BY FS_Interval
  <1>6. Cardinality(P \cup R) = Cardinality(P) + Cardinality(R) - Cardinality(P \cap R)
    BY <1>3, <1>4, FS_Union
  <1>7. Cardinality(P \cap R) = 0
    BY <1>1, FS_EmptySet
  <1>8. Cardinality(R) <= 1
    <2>1. CASE R = {}
      BY <2>1, FS_EmptySet
    <2>2. CASE R # {}
      <3>1. PICK i \in R : TRUE
        BY <2>2
      <3>2. R = {i}
        BY <1>2, <3>1
      <3>3. Cardinality(R) = 1
        BY <3>2, FS_Singleton
      <3>4. QED
        BY <3>3
    <2>3. QED
      BY <2>1, <2>2
  <1>9. n = Cardinality(P) + Cardinality(R)
    <2>1. PICK a \in Nat, b \in Nat : a = Cardinality(P) /\ b = Cardinality(R)
      BY <1>3, <1>4
    <2>2. Cardinality(P \cup R) = n
      BY <1>1, <1>5
    <2>3. n = a + b - 0
      BY <1>6, <1>7, <2>1, <2>2
    <2>4. QED
      BY <2>1, <2>3
  <1>10. QED
    BY <1>3, <1>4, <1>8, <1>9 DEF R

\* The counts are natural numbers.
LEMMA CountFacts ==
    ASSUME TypeOK, NEW s \in Side
    PROVE  /\ Cardinality(SendsIn(sq[s])) \in Nat
           /\ Cardinality(GreetingsIn(inbox[s])) \in Nat
           /\ Runs(s) \in Nat
  <1>1. Len(sq[s]) \in Nat /\ Len(inbox[s]) \in Nat
    BY QueueFacts
  <1>2. SendsIn(sq[s]) \subseteq 1..Len(sq[s])
    BY DEF SendsIn
  <1>3. GreetingsIn(inbox[s]) \subseteq 1..Len(inbox[s])
    BY DEF GreetingsIn
  <1>4. Cardinality(SendsIn(sq[s])) \in Nat
    BY <1>1, <1>2, PlacesFinite
  <1>5. Cardinality(GreetingsIn(inbox[s])) \in Nat
    BY <1>1, <1>3, PlacesFinite
  <1>6. Runs(s) \in Nat
    BY DEF Runs
  <1>7. QED
    BY <1>4, <1>5, <1>6

\* A step of s adds a SENDs to its send queue, b greetings to its inbox and c to
\* that of its peer: the balance is kept if s begins to run exactly when one is new.
LEMMA TokenBalance ==
    ASSUME TypeOK, TokenInv, NEW s, NEW p, Pair(s, p), \A t \in Side : t = s \/ t = p,
           NEW a \in Int, NEW b \in Int, NEW c \in Int,
           Cardinality(SendsIn(sq'[s])) = Cardinality(SendsIn(sq[s])) + a,
           sq'[p] = sq[p],
           Cardinality(GreetingsIn(inbox'[s])) = Cardinality(GreetingsIn(inbox[s])) + b,
           Cardinality(GreetingsIn(inbox'[p])) = Cardinality(GreetingsIn(inbox[p])) + c,
           Runs(s)' = Runs(s) + (a + b + c), stage'[p] = stage[p]
    PROVE  TokenInv'
  <1>1. s \in Side /\ p \in Side /\ Peer(s) = p /\ Peer(p) = s
    BY DEF Pair
  <1>2. PICK x \in Nat, y \in Nat, z \in Nat, w \in Nat, m \in Nat, n \in Nat :
           /\ x = Cardinality(SendsIn(sq[s])) /\ y = Cardinality(SendsIn(sq[p]))
           /\ z = Cardinality(GreetingsIn(inbox[s])) /\ w = Cardinality(GreetingsIn(inbox[p]))
           /\ m = Runs(s) /\ n = Runs(p)
    BY <1>1, CountFacts
  <1>3. x + w + (y + z) = m + n
    BY <1>1, <1>2 DEF TokenInv, UnderWay
  <1>4. /\ UnderWay(s)' = (x + a) + (w + c)
        /\ UnderWay(p)' = y + (z + b)
        /\ Runs(s)' = m + (a + b + c) /\ Runs(p)' = n
    BY <1>1, <1>2 DEF UnderWay, Runs
  <1>5. /\ UnderWay(s)' + UnderWay(p)' = Runs(s)' + Runs(p)'
        /\ UnderWay(p)' + UnderWay(s)' = Runs(p)' + Runs(s)'
    <2>1. /\ (x + a) + (w + c) + (y + (z + b)) = (m + (a + b + c)) + n
          /\ (y + (z + b)) + ((x + a) + (w + c)) = n + (m + (a + b + c))
      BY <1>3
    <2>2. QED
      BY <1>4, <2>1
  <1>6. ASSUME NEW t \in Side PROVE UnderWay(t)' + UnderWay(Peer(t))' = Runs(t)' + Runs(Peer(t))'
    <2>1. CASE t = s
      BY <1>1, <1>5, <2>1
    <2>2. CASE t = p
      BY <1>1, <1>5, <2>2
    <2>3. QED
      BY <2>1, <2>2
  <1>7. QED
    BY <1>6 DEF TokenInv

\* The establishment posts the first greeting and nothing else.
LEMMA TokenEstablish ==
    ASSUME TypeOK, TokenInv, NEW s, NEW p, Pair(s, p), \A t \in Side : t = s \/ t = p,
           Establish(s)
    PROVE  TokenInv'
  <1>1. s \in Side /\ p \in Side /\ p # s
    BY DEF Pair
  <1>2. /\ Cardinality(SendsIn(sq[s])) \in Nat /\ Cardinality(GreetingsIn(inbox[s])) \in Nat
        /\ Cardinality(GreetingsIn(inbox[p])) \in Nat /\ Runs(s) \in Nat
    BY <1>1, CountFacts
  <1>3. inbox' = inbox /\ stage'[p] = stage[p]
    BY <1>1 DEF Establish, PostReceives, SyncSend, SyncRecv, FirstSend, TypeOK
  <1>4. CASE FirstSend(s)
    <2>1. FillAndSend(s, "hello", "SYNC") /\ stage' = [stage EXCEPT ![s] = "running"]
          /\ stage[s] = "synced"
      BY <1>4 DEF FirstSend
    <2>2. "hello" \in Payload /\ "SYNC" \in SendKind
      BY DEF Payload, SendKind
    <2>3. /\ sq'[p] = sq[p] /\ Len(sq'[s]) = Len(sq[s]) + 1
          /\ \A i \in 1..Len(sq[s]) : sq'[s][i].kind = sq[s][i].kind
          /\ sq'[s][Len(sq[s]) + 1].kind = "SYNC"
      BY <1>1, <2>1, <2>2, FillAndSendFacts
    <2>4. Len(sq[s]) \in Nat
      BY <1>1, QueueFacts
    <2>5. Cardinality(SendsIn(sq'[s])) = Cardinality(SendsIn(sq[s])) + 1
      BY <2>2, <2>3, <2>4, SendsPost
    <2>6. Runs(s) = 0 /\ Runs(s)' = 1
      BY <1>1, <2>1 DEF Runs, TypeOK
    <2>7. QED
      <3>1. PICK a \in Int, b \in Int : a = 1 /\ b = 0
        OBVIOUS
      <3>2. Runs(s)' = Runs(s) + (a + b + b)
        BY <2>6, <3>1
      <3>3. /\ Cardinality(GreetingsIn(inbox'[s])) = Cardinality(GreetingsIn(inbox[s])) + b
            /\ Cardinality(GreetingsIn(inbox'[p])) = Cardinality(GreetingsIn(inbox[p])) + b
        BY <1>2, <1>3, <3>1
      <3>4. Cardinality(SendsIn(sq'[s])) = Cardinality(SendsIn(sq[s])) + a
        BY <2>5, <3>1
      <3>5. stage'[p] = stage[p] /\ sq'[p] = sq[p]
        BY <1>3, <2>3
      <3>6. QED
        BY <3>2, <3>3, <3>4, <3>5, TokenBalance
  <1>5. CASE PostReceives(s) \/ SyncSend(s) \/ SyncRecv(s)
    <2>1. sq' = sq /\ Runs(s)' = Runs(s)
      BY <1>1, <1>5 DEF PostReceives, SyncSend, SyncRecv, Runs, TypeOK
    <2>2. PICK a \in Int : a = 0
      OBVIOUS
    <2>3. /\ Cardinality(GreetingsIn(inbox'[s])) = Cardinality(GreetingsIn(inbox[s])) + a
          /\ Cardinality(GreetingsIn(inbox'[p])) = Cardinality(GreetingsIn(inbox[p])) + a
          /\ Cardinality(SendsIn(sq'[s])) = Cardinality(SendsIn(sq[s])) + a
          /\ Runs(s)' = Runs(s) + (a + a + a)
      BY <1>2, <1>3, <2>1, <2>2
    <2>4. sq'[p] = sq[p] /\ stage'[p] = stage[p]
      BY <1>3, <2>1
    <2>5. QED
      BY <2>3, <2>4, TokenBalance
  <1>6. QED
    BY <1>4, <1>5 DEF Establish

\* The NIC moves a greeting from the send queue to the inbox of the peer.
LEMMA TokenNic ==
    ASSUME TypeOK, TokenInv, NEW s, NEW p, Pair(s, p), \A t \in Side : t = s \/ t = p,
           Nic(s)
    PROVE  TokenInv'
  <1>1. s \in Side /\ p \in Side /\ p # s /\ Peer(s) = p
    BY DEF Pair
  <1>2. /\ Cardinality(SendsIn(sq[s])) \in Nat /\ Cardinality(GreetingsIn(inbox[s])) \in Nat
        /\ Cardinality(GreetingsIn(inbox[p])) \in Nat /\ Runs(s) \in Nat
    BY <1>1, CountFacts
  <1>3. /\ stage' = stage /\ sq[s] # <<>> /\ sq' = [sq EXCEPT ![s] = Tail(@)]
    BY DEF Nic, ExecuteSend, ExecuteWriteWithImm, ExecuteWrite, ExecuteRead
  <1>4. /\ sq'[p] = sq[p] /\ Len(sq[s]) \in Nat /\ Len(sq[s]) >= 1
        /\ Len(sq'[s]) = Len(sq[s]) - 1 /\ Head(sq[s]) = sq[s][1]
        /\ \A i \in 1..Len(sq'[s]) : sq'[s][i] = sq[s][i + 1]
    BY <1>1, <1>3, TailFacts DEF TypeOK
  <1>5. Runs(s)' = Runs(s) /\ stage'[p] = stage[p]
    BY <1>3 DEF Runs
  <1>6. Cardinality(SendsIn(sq[s])) =
           Cardinality(SendsIn(sq'[s])) + IF sq[s][1].kind \in SendKind THEN 1 ELSE 0
    BY <1>4, SendsTail
  <1>7. Cardinality(SendsIn(sq'[s])) \in Nat
    <2>1. Len(sq'[s]) \in Nat
      BY <1>4
    <2>2. SendsIn(sq'[s]) \subseteq 1..Len(sq'[s])
      BY DEF SendsIn
    <2>3. QED
      BY <2>1, <2>2, PlacesFinite
  <1>8. inbox \in [Side -> Seq(RecvKind)] /\ inbox[p] \in Seq(RecvKind) /\ Len(inbox[p]) \in Nat
    BY <1>1 DEF TypeOK
  <1>9. CASE ExecuteSend(s)
    <2>1. sq[s][1].kind \in SendKind /\ inbox' = [inbox EXCEPT ![p] = Append(@, sq[s][1].kind)]
      BY <1>1, <1>4, <1>9 DEF ExecuteSend
    <2>2. PICK k \in RecvKind : k = sq[s][1].kind /\ k \in SendKind
      BY <2>1 DEF RecvKind
    <2>3. inbox'[s] = inbox[s] /\ inbox'[p] = Append(inbox[p], k)
      BY <1>1, <1>8, <2>1, <2>2
    <2>4. /\ Len(inbox'[p]) = Len(inbox[p]) + 1 /\ inbox'[p][Len(inbox[p]) + 1] = k
          /\ \A i \in 1..Len(inbox[p]) : inbox'[p][i] = inbox[p][i]
      BY <1>8, <2>3, AppendFacts
    <2>5. Cardinality(GreetingsIn(inbox'[p])) = Cardinality(GreetingsIn(inbox[p])) + 1
      BY <1>8, <2>2, <2>4, GreetingsPost, ZenonT(30)
    <2>6. Cardinality(SendsIn(sq'[s])) = Cardinality(SendsIn(sq[s])) + (-1)
      BY <1>6, <1>7, <2>1
    <2>7. PICK a \in Int, b \in Int, c \in Int : a = -1 /\ b = 0 /\ c = 1
      OBVIOUS
    <2>8. /\ Cardinality(SendsIn(sq'[s])) = Cardinality(SendsIn(sq[s])) + a
          /\ Cardinality(GreetingsIn(inbox'[s])) = Cardinality(GreetingsIn(inbox[s])) + b
          /\ Cardinality(GreetingsIn(inbox'[p])) = Cardinality(GreetingsIn(inbox[p])) + c
          /\ Runs(s)' = Runs(s) + (a + b + c)
      BY <1>2, <1>5, <2>3, <2>5, <2>6, <2>7
    <2>9. sq'[p] = sq[p] /\ stage'[p] = stage[p]
      BY <1>4, <1>5
    <2>10. QED
      BY <2>8, <2>9, TokenBalance
  <1>10. CASE ExecuteWriteWithImm(s) \/ ExecuteWrite(s) \/ ExecuteRead(s)
    <2>1. sq[s][1].kind \notin SendKind
      BY <1>4, <1>10 DEF ExecuteWriteWithImm, ExecuteWrite, ExecuteRead, SendKind
    <2>2. Cardinality(SendsIn(sq'[s])) = Cardinality(SendsIn(sq[s])) + 0
      BY <1>6, <1>7, <2>1
    <2>3. inbox'[s] = inbox[s]
      BY <1>1, <1>8, <1>10 DEF ExecuteWriteWithImm, ExecuteWrite, ExecuteRead
    <2>4. Cardinality(GreetingsIn(inbox'[p])) = Cardinality(GreetingsIn(inbox[p])) + 0
      <3>1. CASE inbox'[p] = inbox[p]
        BY <1>2, <3>1
      <3>2. CASE inbox'[p] = Append(inbox[p], "WIMM")
        <4>1. "WIMM" \in RecvKind /\ "WIMM" \notin SendKind
          BY DEF RecvKind, SendKind
        <4>2. /\ Len(inbox'[p]) = Len(inbox[p]) + 1 /\ inbox'[p][Len(inbox[p]) + 1] = "WIMM"
              /\ \A i \in 1..Len(inbox[p]) : inbox'[p][i] = inbox[p][i]
          BY <1>8, <3>2, <4>1, AppendFacts
        <4>3. QED
          BY <1>8, <4>1, <4>2, GreetingsPost
      <3>3. QED
        BY <1>1, <1>8, <1>10, <3>1, <3>2 DEF ExecuteWriteWithImm, ExecuteWrite, ExecuteRead
    <2>5. PICK a \in Int : a = 0
      OBVIOUS
    <2>6. /\ Cardinality(SendsIn(sq'[s])) = Cardinality(SendsIn(sq[s])) + a
          /\ Cardinality(GreetingsIn(inbox'[s])) = Cardinality(GreetingsIn(inbox[s])) + a
          /\ Cardinality(GreetingsIn(inbox'[p])) = Cardinality(GreetingsIn(inbox[p])) + a
          /\ Runs(s)' = Runs(s) + (a + a + a)
      BY <1>2, <1>5, <2>2, <2>3, <2>4, <2>5
    <2>7. sq'[p] = sq[p] /\ stage'[p] = stage[p]
      BY <1>4, <1>5
    <2>8. QED
      BY <2>6, <2>7, TokenBalance
  <1>11. QED
    BY <1>9, <1>10 DEF Nic

\* A handler of a receive completion takes one message from the inbox; where that
\* is a greeting, it posts one SEND.
LEMMA TokenHandleRecv ==
    ASSUME TypeOK, TokenInv, NEW s, NEW p, Pair(s, p), \A t \in Side : t = s \/ t = p,
           HandleRecv(s)
    PROVE  TokenInv'
  <1>1. s \in Side /\ p \in Side /\ p # s
    BY DEF Pair
  <1>2. /\ Cardinality(SendsIn(sq[s])) \in Nat /\ Cardinality(GreetingsIn(inbox[s])) \in Nat
        /\ Cardinality(GreetingsIn(inbox[p])) \in Nat /\ Runs(s) \in Nat
    BY <1>1, CountFacts
  <1>3. PICK k : PolledRecv(s, k) /\ RecvRemote(s)
    BY DEF HandleRecv, ProcessRequest, ProcessSync, ProcessOther, ProcessRecvWriteWithImm
  <1>4. /\ inbox[s][1] = k /\ Len(inbox[s]) >= 1 /\ Len(inbox[s]) \in Nat
        /\ inbox'[p] = inbox[p] /\ Len(inbox'[s]) = Len(inbox[s]) - 1
        /\ \A i \in 1..Len(inbox'[s]) : inbox'[s][i] = inbox[s][i + 1]
        /\ Head(inbox[s]) = k
    BY <1>3, PolledRecvFacts
  <1>5. stage' = stage
    BY DEF HandleRecv, ProcessRequest, ProcessSync, ProcessOther, ProcessRecvWriteWithImm
  <1>6. Runs(s)' = Runs(s)
    BY <1>5 DEF Runs
  <1>7. Cardinality(GreetingsIn(inbox[s])) =
           Cardinality(GreetingsIn(inbox'[s])) + IF k \in SendKind THEN 1 ELSE 0
    BY <1>4, GreetingsTail
  <1>8. Cardinality(GreetingsIn(inbox'[s])) \in Nat
    <2>1. Len(inbox'[s]) \in Nat
      BY <1>4
    <2>2. GreetingsIn(inbox'[s]) \subseteq 1..Len(inbox'[s])
      BY DEF GreetingsIn
    <2>3. QED
      BY <2>1, <2>2, PlacesFinite
  <1>9. sq \in [Side -> Seq(WorkRequest)] /\ sq[s] \in Seq(WorkRequest) /\ Len(sq[s]) \in Nat
    BY <1>1 DEF TypeOK
  <1>10. /\ sq'[p] = sq[p]
         /\ Cardinality(SendsIn(sq'[s])) =
               Cardinality(SendsIn(sq[s])) + IF k \in SendKind THEN 1 ELSE 0
    <2>1. ASSUME NEW d \in Payload, NEW m \in SendKind, k \in SendKind, FillAndSend(s, d, m)
          PROVE  /\ sq'[p] = sq[p]
                 /\ Cardinality(SendsIn(sq'[s])) = Cardinality(SendsIn(sq[s])) + 1
      <3>1. /\ sq'[p] = sq[p] /\ Len(sq'[s]) = Len(sq[s]) + 1
            /\ \A i \in 1..Len(sq[s]) : sq'[s][i].kind = sq[s][i].kind
            /\ sq'[s][Len(sq[s]) + 1].kind = m
        BY <1>1, <2>1, FillAndSendFacts
      <3>2. QED
        BY <1>9, <2>1, <3>1, SendsPost
    <2>2. CASE ProcessRequest(s)
      <3>1. k = "REQ" /\ FillAndWrite(s, Post(sq[s], "RESP", sendbuf[s]), "WIMM")
        BY <1>4, <2>2 DEF ProcessRequest, PolledRecv
      <3>2. "RESP" \in Kind /\ "RESP" \in SendKind /\ "REQ" \in SendKind /\ "WIMM" \notin SendKind
            /\ "WIMM" \in WriteKind /\ sendbuf[s] \in Payload
        BY <1>1 DEF Kind, SendKind, WriteKind, TypeOK
      <3>3. PICK q \in Seq(WorkRequest) :
               /\ q = Post(sq[s], "RESP", sendbuf[s])
               /\ Len(q) = Len(sq[s]) + 1 /\ q[Len(sq[s]) + 1].kind = "RESP"
               /\ \A i \in 1..Len(sq[s]) : q[i] = sq[s][i]
        BY <1>9, <3>2, PostFacts
      <3>4. /\ sq'[p] = sq[p] /\ Len(sq'[s]) = Len(q) + 1
            /\ \A i \in 1..Len(q) : sq'[s][i].kind = q[i].kind
            /\ sq'[s][Len(q) + 1].kind = "WIMM"
        BY <1>1, <3>1, <3>2, <3>3, FillAndWriteFacts
      <3>5. Cardinality(SendsIn(q)) = Cardinality(SendsIn(sq[s])) + 1
        BY <1>9, <3>2, <3>3, SendsPost
      <3>6. Len(q) \in Nat
        OBVIOUS
      <3>7. Cardinality(SendsIn(sq'[s])) = Cardinality(SendsIn(q)) + 0
        BY <3>2, <3>4, <3>6, SendsPost
      <3>8. QED
        BY <1>2, <3>1, <3>2, <3>4, <3>5, <3>7
    <2>3. CASE ProcessSync(s)
      <3>1. k = "SYNC" /\ FillAndSend(s, "desc", "REQ")
        BY <1>4, <2>3 DEF ProcessSync, PolledRecv
      <3>2. "desc" \in Payload /\ "REQ" \in SendKind /\ "SYNC" \in SendKind
        BY DEF Payload, SendKind
      <3>3. QED
        BY <2>1, <3>1, <3>2
    <2>4. CASE ProcessOther(s)
      <3>1. k \in {"RESP", "UNSET"} /\ FillAndSend(s, "greet", "UNSET")
        BY <1>4, <2>4 DEF ProcessOther, PolledRecv
      <3>2. "greet" \in Payload /\ "UNSET" \in SendKind /\ "RESP" \in SendKind
        BY DEF Payload, SendKind
      <3>3. QED
        BY <2>1, <3>1, <3>2
    <2>5. CASE ProcessRecvWriteWithImm(s)
      <3>1. k = "WIMM" /\ sq' = sq
        BY <1>4, <2>5 DEF ProcessRecvWriteWithImm, PolledRecv
      <3>2. k \notin SendKind
        BY <3>1 DEF SendKind
      <3>3. QED
        BY <1>2, <3>1, <3>2
    <2>6. QED
      BY <2>2, <2>3, <2>4, <2>5 DEF HandleRecv
  <1>11. PICK a \in Int, b \in Int, c \in Int :
            a = (IF k \in SendKind THEN 1 ELSE 0) /\ b = -a /\ c = 0
    OBVIOUS
  <1>12. /\ Cardinality(SendsIn(sq'[s])) = Cardinality(SendsIn(sq[s])) + a
         /\ Cardinality(GreetingsIn(inbox'[p])) = Cardinality(GreetingsIn(inbox[p])) + c
    BY <1>2, <1>4, <1>10, <1>11
  <1>13. Cardinality(GreetingsIn(inbox'[s])) = Cardinality(GreetingsIn(inbox[s])) + b
    BY <1>7, <1>8, <1>11
  <1>14. Runs(s)' = Runs(s) + (a + b + c)
    BY <1>2, <1>6, <1>11
  <1>15. sq'[p] = sq[p] /\ stage'[p] = stage[p]
    BY <1>5, <1>10
  <1>16. QED
    BY <1>12, <1>13, <1>14, <1>15, TokenBalance

\* A handler of an RDMA completion posts no SEND.
LEMMA TokenHandleComp ==
    ASSUME TypeOK, TokenInv, NEW s, NEW p, Pair(s, p), \A t \in Side : t = s \/ t = p,
           HandleComp(s)
    PROVE  TokenInv'
  <1>1. s \in Side /\ p \in Side /\ p # s
    BY DEF Pair
  <1>2. /\ Cardinality(SendsIn(sq[s])) \in Nat /\ Cardinality(GreetingsIn(inbox[s])) \in Nat
        /\ Cardinality(GreetingsIn(inbox[p])) \in Nat /\ Runs(s) \in Nat
    BY <1>1, CountFacts
  <1>3. stage' = stage /\ inbox' = inbox
    BY DEF HandleComp, ProcessWriteDone, ProcessReadDone
  <1>4. sq \in [Side -> Seq(WorkRequest)] /\ sq[s] \in Seq(WorkRequest) /\ Len(sq[s]) \in Nat
    BY <1>1 DEF TypeOK
  <1>5. PICK k \in Kind :
           /\ k \notin SendKind /\ sq'[p] = sq[p] /\ Len(sq'[s]) = Len(sq[s]) + 1
           /\ \A i \in 1..Len(sq[s]) : sq'[s][i].kind = sq[s][i].kind
           /\ sq'[s][Len(sq[s]) + 1].kind = k
    <2>1. CASE ProcessWriteDone(s)
      <3>1. sq' = [sq EXCEPT ![s] = Post(@, "READ", "zero")]
        BY <2>1 DEF ProcessWriteDone
      <3>2. "READ" \in Kind /\ "READ" \notin SendKind /\ "zero" \in Payload
        BY DEF Kind, SendKind, Payload
      <3>3. PICK q \in Seq(WorkRequest) :
               /\ q = Post(sq[s], "READ", "zero")
               /\ Len(q) = Len(sq[s]) + 1 /\ q[Len(sq[s]) + 1].kind = "READ"
               /\ \A i \in 1..Len(sq[s]) : q[i] = sq[s][i]
        BY <1>4, <3>2, PostFacts
      <3>4. sq'[s] = q /\ sq'[p] = sq[p]
        BY <1>1, <1>4, <3>1, <3>3
      <3>5. QED
        BY <3>2, <3>3, <3>4
    <2>2. CASE ProcessReadDone(s)
      <3>1. FillAndWrite(s, sq[s], "WRITE")
        BY <2>2 DEF ProcessReadDone
      <3>2. "WRITE" \in Kind /\ "WRITE" \in WriteKind /\ "WRITE" \notin SendKind
        BY DEF Kind, WriteKind, SendKind
      <3>3. /\ sq'[p] = sq[p] /\ Len(sq'[s]) = Len(sq[s]) + 1
            /\ \A i \in 1..Len(sq[s]) : sq'[s][i].kind = sq[s][i].kind
            /\ sq'[s][Len(sq[s]) + 1].kind = "WRITE"
        BY <1>1, <1>4, <3>1, <3>2, FillAndWriteFacts
      <3>4. QED
        BY <3>2, <3>3
    <2>3. QED
      BY <2>1, <2>2 DEF HandleComp
  <1>6. Cardinality(SendsIn(sq'[s])) = Cardinality(SendsIn(sq[s])) + 0
    BY <1>4, <1>5, SendsPost
  <1>7. PICK a \in Int : a = 0
    OBVIOUS
  <1>8. /\ Cardinality(SendsIn(sq'[s])) = Cardinality(SendsIn(sq[s])) + a
        /\ Cardinality(GreetingsIn(inbox'[s])) = Cardinality(GreetingsIn(inbox[s])) + a
        /\ Cardinality(GreetingsIn(inbox'[p])) = Cardinality(GreetingsIn(inbox[p])) + a
    BY <1>2, <1>3, <1>6, <1>7
  <1>9. Runs(s)' = Runs(s) + (a + a + a)
    BY <1>2, <1>3, <1>7 DEF Runs
  <1>10. sq'[p] = sq[p] /\ stage'[p] = stage[p]
    BY <1>3, <1>5
  <1>11. QED
    BY <1>8, <1>9, <1>10, TokenBalance

\* The balance holds initially.
LEMMA TokenInit == Init => TokenInv
  <1> SUFFICES ASSUME Init, NEW s \in Side
               PROVE  UnderWay(s) + UnderWay(Peer(s)) = Runs(s) + Runs(Peer(s))
    BY DEF TokenInv
  <1>1. Peer(s) \in Side
    BY PeerFacts
  <1>2. ASSUME NEW t \in Side PROVE UnderWay(t) = 0 /\ Runs(t) = 0
    <2>1. sq[t] = <<>> /\ inbox[Peer(t)] = <<>> /\ stage[t] = "start"
      BY PeerFacts DEF Init
    <2>2. SendsIn(sq[t]) = {} /\ GreetingsIn(inbox[Peer(t)]) = {}
      BY <2>1 DEF SendsIn, GreetingsIn
    <2>3. Cardinality(SendsIn(sq[t])) = 0 /\ Cardinality(GreetingsIn(inbox[Peer(t)])) = 0
      BY <2>2, FS_EmptySet
    <2>4. QED
      BY <2>1, <2>3 DEF UnderWay, Runs
  <1>3. QED
    BY <1>1, <1>2

\* Every step keeps the balance.
LEMMA TokenNext == TypeOK /\ TokenInv /\ [Next]_vars => TokenInv'
  <1> SUFFICES ASSUME TypeOK, TokenInv, [Next]_vars PROVE TokenInv'
    OBVIOUS
  <1>1. CASE Next
    <2>1. PICK s \in Side : Establish(s) \/ Nic(s) \/ HandleRecv(s) \/ HandleComp(s)
      BY <1>1 DEF Next
    <2>2. PICK p \in Side : Pair(s, p) /\ \A t \in Side : t = s \/ t = p
      BY PairFacts
    <2>3. QED
      BY <2>1, <2>2, TokenEstablish, TokenNic, TokenHandleRecv, TokenHandleComp
  <1>2. CASE UNCHANGED vars
    BY <1>2 DEF vars, TokenInv, UnderWay, Runs
  <1>3. QED
    BY <1>1, <1>2

\* A send queue has its SENDs and at most one RDMA operation, an inbox its greetings
\* and at most one notification.
LEMMA QueueLengths ==
    ASSUME IndInv, NEW s \in Side
    PROVE  /\ Len(sq[s]) + Len(comp[s]) <= Cardinality(SendsIn(sq[s])) + 1
           /\ Len(inbox[Peer(s)]) <= Cardinality(GreetingsIn(inbox[Peer(s)])) + 1
  <1> DEFINE n == Len(sq[s])
             P == SendsIn(sq[s])
             R == (1..n) \ P
             m == Len(inbox[Peer(s)])
             Q == GreetingsIn(inbox[Peer(s)])
             W == (1..m) \ Q
  <1>1. TypeOK /\ RdmaInv(s) /\ OrderInv(s) /\ Peer(s) \in Side
    BY InvAt, PeerFacts DEF IndInv
  <1>2. /\ n \in Nat /\ m \in Nat /\ Len(comp[s]) \in Nat
        /\ P \subseteq 1..n /\ Q \subseteq 1..m
    BY <1>1, QueueFacts DEF SendsIn, GreetingsIn
  <1>3. \A i, j \in R : i = j
    <2>1. ASSUME NEW i \in R PROVE i \in 1..n /\ sq[s][i].kind \in RdmaKind
      BY <1>1, QueueFacts DEF SendsIn, Kind, RdmaKind
    <2>2. QED
      BY <1>1, <2>1 DEF RdmaInv
  <1>4. Len(comp[s]) <= 1 /\ (Len(comp[s]) # 0 => R = {})
    <2>1. ASSUME NEW i \in R PROVE i \in 1..n /\ sq[s][i].kind \in RdmaKind
      BY <1>1, QueueFacts DEF SendsIn, Kind, RdmaKind
    <2>2. QED
      BY <1>1, <2>1 DEF RdmaInv
  <1>5. \A i, j \in W : i = j
    <2>1. ASSUME NEW i \in W PROVE i \in 1..m /\ inbox[Peer(s)][i] = "WIMM"
      BY <1>1, QueueFacts DEF GreetingsIn, RecvKind
    <2>2. ASSUME NEW i \in W, NEW j \in W, i < j PROVE FALSE
      <3>1. Ordered(Rank("WIMM"), Rank("WIMM"))
        BY <1>1, <2>1, <2>2 DEF OrderInv
      <3>2. QED
        BY <3>1 DEF Ordered, Rank
    <2>3. \A i, j \in W : i < j \/ j < i \/ i = j
      BY <1>2
    <2>4. QED
      BY <2>2, <2>3
  <1> HIDE DEF n, P, R, m, Q, W
  <1>6. /\ n = Cardinality(P) + Cardinality(R)
        /\ Cardinality(R) <= 1 /\ Cardinality(R) \in Nat /\ Cardinality(P) \in Nat
    BY <1>2, <1>3, OthersOne DEF R
  <1>7. /\ m = Cardinality(Q) + Cardinality(W)
        /\ Cardinality(W) <= 1 /\ Cardinality(W) \in Nat /\ Cardinality(Q) \in Nat
    BY <1>2, <1>5, OthersOne DEF W
  <1>8. n + Len(comp[s]) <= Cardinality(P) + 1
    <2>1. CASE Len(comp[s]) = 0
      BY <1>6, <2>1
    <2>2. CASE Len(comp[s]) # 0
      <3>1. Cardinality(R) = 0
        BY <1>4, <2>2, FS_EmptySet
      <3>2. QED
        BY <1>2, <1>4, <1>6, <3>1
    <2>3. QED
      BY <2>1, <2>2
  <1>9. m <= Cardinality(Q) + 1
    BY <1>7
  <1>10. QED
    BY <1>8, <1>9 DEF n, P, m, Q

\* Never more than four work requests of a side are posted and not handled, for any
\* number of posted receives, although nothing in the code counts them before it
\* posts (rdma_session.cc:278-417).
THEOREM OutstandingSafe == Spec => []OutstandingBounded
  <1>1. Spec => []TokenInv
    <2>1. Spec => []TypeOK
      BY TypeCorrect
    <2>2. QED
      BY <2>1, TokenInit, TokenNext, PTL DEF Spec
  <1>2. IndInv /\ TokenInv => OutstandingBounded
    <2> SUFFICES ASSUME IndInv, TokenInv, NEW s \in Side PROVE Outstanding(s) <= 4
      BY DEF OutstandingBounded
    <2>1. TypeOK /\ Peer(s) \in Side /\ Peer(Peer(s)) = s
      BY PeerFacts DEF IndInv
    <2>2. PICK a \in Nat, b \in Nat, x \in Nat, y \in Nat :
             /\ a = Cardinality(SendsIn(sq[s])) /\ b = Cardinality(GreetingsIn(inbox[Peer(s)]))
             /\ x = Cardinality(SendsIn(sq[Peer(s)])) /\ y = Cardinality(GreetingsIn(inbox[s]))
      BY <2>1, CountFacts
    <2>3. PICK k \in Nat, c \in Nat, m \in Nat :
             k = Len(sq[s]) /\ c = Len(comp[s]) /\ m = Len(inbox[Peer(s)])
      BY <2>1, QueueFacts
    <2>4. k + c <= a + 1 /\ m <= b + 1
      BY <2>2, <2>3, QueueLengths
    <2>5. PICK g \in Nat, h \in Nat : g = Runs(s) /\ h = Runs(Peer(s)) /\ g <= 1 /\ h <= 1
      BY DEF Runs
    <2>6. a + b + (x + y) = g + h
      BY <2>1, <2>2, <2>5 DEF TokenInv, UnderWay
    <2>7. k + c + m <= 4
      BY <2>4, <2>5, <2>6
    <2>8. QED
      BY <2>3, <2>7 DEF Outstanding
  <1>3. QED
    BY <1>1, <1>2, Inductive, PTL
=============================================================================
