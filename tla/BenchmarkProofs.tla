-------------------------- MODULE BenchmarkProofs --------------------------
(***************************************************************************)
(* Proofs about Benchmark, for any number of clients, operations and       *)
(* message sizes.  The first part holds with or without the sleep of 1 ms, *)
(* the second, from Connected on, where the sleep covers the               *)
(* acknowledgement; a third bounds the counters of the rings.              *)
(*                                                                         *)
(* The threads of the server work on active_channel; HoldAt says that it   *)
(* is their own from register_buffer on, since they hold m_mutex.  The     *)
(* response with the descriptor is the first SEND on its connection        *)
(* (FirstAt), so a client that has received anything has received it.      *)
(***************************************************************************)
EXTENDS Benchmark, FiniteSetTheorems, SequenceTheorems, TLAPS

\* TypeOK without the limit of the ring counters.
ClientState == [pc : ClientPc, round : 1..Rounds, index : 0..Count, confirm : 0..Count,
                sent : BOOLEAN, rcvd : BOOLEAN]
ServerState == [pc : ServerPc, round : 1..Rounds, index : 0..Count]

ShapeInv ==
    /\ client \in [Clients -> ClientState]
    /\ server \in [Clients -> ServerState]
    /\ m_mutex \in Clients \cup {"none"}
    /\ active \in Clients \cup {"none"}
    /\ said \in [End -> BOOLEAN]
    /\ at0 \in [Clients -> Content]
    /\ buffer_peer \in [Clients -> Content \cup {"unset"}]
    /\ ring \in [End -> [next : Int, last : Int]]
    /\ recvs \in [End -> Seq(Receive)]
    /\ sq \in [End -> Seq(Request)]
    /\ unacked \in [End -> Seq(Request)]
    /\ cq \in [End -> Seq(Completion)]
    /\ aborted \subseteq Clients \cup {"server"}

\* The loops of the tests leave before their counters reach Count.
LoopAt(c) ==
    /\ client[c].confirm < Count
    /\ server[c].pc = "data" => server[c].index < Count

\* A thread of the server holds the mutex, and has made its channel the active one.
HoldAt(c) ==
    /\ server[c].pc \notin {"start", "done"} => m_mutex = c
    /\ server[c].pc \notin {"start", "register", "done"} => active = c

\* The response with the descriptor of the buffer for c.
Response(c) == Send("RESPONSE_TO_REQUEST_BUFFER", CtlBytes, 1, c)

\* The thread of the server has not responded; the client waits for the response.
Unasked == {"start", "register", "sync", "synced", "exchange"}
Waiting == {"start", "sync", "synced", "exchange"}

\* Nothing has arrived at client c: the response comes first.
Nothing(c) ==
    /\ client[c].pc \in Waiting /\ ~client[c].rcvd /\ buffer_peer[c] = "unset"
    /\ \A i \in 1..Len(cq[Client(c)]) : cq[Client(c)][i].op # "RECV"
    /\ server[c].pc \in Unasked <=> sq[Server(c)] = <<>>
    /\ sq[Server(c)] # <<>> => sq[Server(c)][1] = Response(c)

FirstAt(c) ==
    /\ server[c].pc \in Unasked => Nothing(c)
    /\ at0[c] = c \/ Nothing(c)
    /\ \A i \in 1..Len(sq[Server(c)]) :
          LET w == sq[Server(c)][i] IN w.op = "SEND" /\ (w.len > 0 => w.data = c)
    /\ buffer_peer[c] = IF client[c].pc \in Waiting THEN "unset" ELSE c

IndInv ==
    ShapeInv /\ \A c \in Clients : LoopAt(c) /\ HoldAt(c) /\ FirstAt(c)

-----------------------------------------------------------------------------
(* Constants, ends and queues *)

\* The constants are numbers.
LEMMA Constants ==
    /\ Count \in Nat /\ Count > 1 /\ Rounds \in Nat /\ Rounds >= 1
    /\ CtlBytes \in Nat /\ CtlBytes >= 1 /\ AskBytes \in Nat /\ AskBytes >= 1
    /\ MaxWr \in Nat /\ MaxWr >= 1 /\ Batch \in Nat /\ Batch >= 1
    /\ Count <= MaxWr /\ AskBytes <= CtlBytes
    /\ SleepCovers \in BOOLEAN /\ "server" \notin Clients /\ "none" \notin Clients
  BY BenchmarkAssumption

\* A message size is a natural number, and none is larger than a block.
LEMMA Sizes ==
    /\ \A r \in 1..Rounds : Size(r) \in Nat /\ Size(r) <= BlockBytes
    /\ BlockBytes \in Nat /\ CtlBytes <= BlockBytes
  <1>1. ASSUME NEW n \in Nat
        PROVE  /\ IsFiniteSet(SUBSET (1..n)) /\ Cardinality(SUBSET (1..n)) = 2^n /\ 2^n \in Nat
    <2>1. IsFiniteSet(1..n) /\ Cardinality(1..n) = n
      BY FS_Interval
    <2>2. IsFiniteSet(SUBSET (1..n)) /\ Cardinality(SUBSET (1..n)) = 2^Cardinality(1..n)
      BY <2>1, FS_SUBSET
    <2>3. Cardinality(SUBSET (1..n)) \in Nat
      BY <2>2, FS_CardinalityType
    <2>4. QED
      BY <2>1, <2>2, <2>3
  <1>2. ASSUME NEW m \in Nat, NEW n \in Nat, m <= n PROVE 2^m <= 2^n
    <2>1. SUBSET (1..m) \in SUBSET (SUBSET (1..n))
      <3>1. \A i \in 1..m : i \in 1..n
        BY <1>2
      <3>2. QED
        BY <3>1
    <2>2. Cardinality(SUBSET (1..m)) <= Cardinality(SUBSET (1..n))
      BY <1>1, <2>1, FS_Subset
    <2>3. QED
      BY <1>1, <2>2
  <1>3. ASSUME NEW r \in 1..Rounds PROVE Size(r) \in Nat /\ Size(r) <= BlockBytes
    <2>1. PICK m \in Nat, n \in Nat : m = r - 1 /\ n = Rounds - 1 /\ m <= n
      BY Constants
    <2>2. QED
      BY <1>1, <1>2, <2>1 DEF Size, BlockBytes
  <1>4. BlockBytes \in Nat /\ CtlBytes <= BlockBytes
    <2>1. PICK n \in Nat : n = Rounds - 1
      BY Constants
    <2>2. QED
      BY <1>1, <2>1, BenchmarkAssumption DEF Size, BlockBytes
  <1>5. QED
    BY <1>3, <1>4

\* Every connection has two ends.
LEMMA EndFacts ==
    /\ \A c \in Clients : Client(c) \in End /\ Server(c) \in End /\ Client(c) # Server(c)
    /\ \A c \in Clients : Client(c)[1] = c /\ Server(c)[1] = c
    /\ \A c \in Clients : Other(Client(c)) = Server(c) /\ Other(Server(c)) = Client(c)
    /\ \A c, d \in Clients : c # d =>
          Client(c) # Client(d) /\ Server(c) # Server(d)
    /\ \A c, d \in Clients : Client(c) # Server(d)
    /\ \A e \in End : e[1] \in Clients /\ (e = Client(e[1]) \/ e = Server(e[1]))
                      /\ Other(e) \in End
  BY DEF End, Client, Server, Other

\* Taking the head of a queue, and adding to its tail.
LEMMA TailFacts ==
    ASSUME NEW S, NEW q \in Seq(S), q # <<>>
    PROVE  /\ Tail(q) \in Seq(S) /\ Len(q) \in Nat /\ Len(q) >= 1
           /\ Len(Tail(q)) = Len(q) - 1
           /\ \A i \in 1..Len(Tail(q)) : Tail(q)[i] = q[i + 1]
           /\ Head(q) = q[1] /\ q[1] \in S
  OBVIOUS

LEMMA AppendFacts ==
    ASSUME NEW S, NEW q \in Seq(S), NEW x \in S
    PROVE  /\ Append(q, x) \in Seq(S) /\ Len(q) \in Nat
           /\ Len(Append(q, x)) = Len(q) + 1
           /\ \A i \in 1..Len(q) : Append(q, x)[i] = q[i]
           /\ Append(q, x)[Len(q) + 1] = x
  OBVIOUS

\* poll_cq_batch takes at least one and at most n completions off the queue.
LEMMA PollFacts ==
    ASSUME ShapeInv, NEW e \in End, NEW n \in Nat, n >= 1, Poll(e, n)
    PROVE  \E k \in Nat :
              /\ k >= 1 /\ k <= n /\ k <= Len(cq[e])
              /\ Len(Polled(e, n)) = k
              /\ \A i \in 1..k : Polled(e, n)[i] = cq[e][i]
              /\ cq' \in [End -> Seq(Completion)]
              /\ \A f \in End : f # e => cq'[f] = cq[f]
              /\ Len(cq'[e]) = Len(cq[e]) - k
              /\ \A i \in 1..Len(cq'[e]) : cq'[e][i] = cq[e][i + k]
              /\ Head(cq[e]) = cq[e][1] /\ cq[e][1] \in Completion
  <1>1. PICK q \in Seq(Completion) : q = cq[e] /\ q # <<>>
    BY DEF ShapeInv, Poll
  <1>2. Len(q) \in Nat /\ Len(q) >= 1 /\ Head(q) = q[1] /\ q[1] \in Completion
    BY <1>1, TailFacts
  <1>3. PICK k \in Nat : k = IF Len(q) < n THEN Len(q) ELSE n
    BY <1>2
  <1>4. k >= 1 /\ k <= n /\ k <= Len(q)
    BY <1>2, <1>3
  <1>5. Polled(e, n) = SubSeq(q, 1, k)
    BY <1>1, <1>3 DEF Polled
  <1>6. Len(Polled(e, n)) = k /\ \A i \in 1..k : Polled(e, n)[i] = q[i]
    BY <1>2, <1>4, <1>5
  <1>7. PICK r \in Seq(Completion) :
           /\ r = SubSeq(q, k + 1, Len(q)) /\ Len(r) = Len(q) - k
           /\ \A i \in 1..(Len(q) - k) : r[i] = q[k + i]
    <2>1. /\ SubSeq(q, k + 1, Len(q)) \in Seq(Completion)
          /\ Len(SubSeq(q, k + 1, Len(q))) = Len(q) - k
      BY <1>2, <1>4
    <2>2. \A i \in 1..(Len(q) - k) : SubSeq(q, k + 1, Len(q))[i] = q[k + i]
      BY <1>2, <1>4
    <2>3. QED
      BY <2>1, <2>2
  <1>8. cq' = [cq EXCEPT ![e] = r]
    BY <1>1, <1>6, <1>7 DEF Poll
  <1>9. cq' \in [End -> Seq(Completion)] /\ cq'[e] = r /\ \A f \in End : f # e => cq'[f] = cq[f]
    BY <1>8 DEF ShapeInv
  <1>10. \A i \in 1..Len(r) : r[i] = q[i + k]
    BY <1>2, <1>4, <1>7
  <1>11. QED
    BY <1>1, <1>2, <1>4, <1>6, <1>7, <1>9, <1>10

-----------------------------------------------------------------------------
(* What a step does to the variables *)

\* A client moves on.
LEMMA ClientMoves ==
    ASSUME ShapeInv, NEW c \in Clients, NEW r \in ClientState,
           client' = [client EXCEPT ![c] = r]
    PROVE  /\ client' \in [Clients -> ClientState] /\ client'[c] = r
           /\ \A d \in Clients : d # c => client'[d] = client[d]
  BY DEF ShapeInv

\* A thread of the server moves on.
LEMMA ServerMoves ==
    ASSUME ShapeInv, NEW c \in Clients, NEW r \in ServerState,
           server' = [server EXCEPT ![c] = r]
    PROVE  /\ server' \in [Clients -> ServerState] /\ server'[c] = r
           /\ \A d \in Clients : d # c => server'[d] = server[d]
  BY DEF ShapeInv

\* The place of a client or of a thread changes, and its counters stay.
LEMMA NewPlace ==
    ASSUME ShapeInv, NEW c \in Clients
    PROVE  /\ \A pc \in ClientPc : [client[c] EXCEPT !.pc = pc] \in ClientState
           /\ \A pc \in ServerPc : [server[c] EXCEPT !.pc = pc] \in ServerState
  <1>1. client[c] \in ClientState /\ server[c] \in ServerState
    BY DEF ShapeInv
  <1>2. ASSUME NEW r \in ClientState, NEW pc \in ClientPc
        PROVE  [r EXCEPT !.pc = pc] \in ClientState
    BY Zenon DEF ClientState
  <1>3. ASSUME NEW r \in ServerState, NEW pc \in ServerPc
        PROVE  [r EXCEPT !.pc = pc] \in ServerState
    BY Zenon DEF ServerState
  <1>4. QED
    BY <1>1, <1>2, <1>3

\* A work request is posted.
LEMMA PostFacts ==
    ASSUME ShapeInv, NEW e \in End, NEW w \in Request, Post(e, w)
    PROVE  /\ sq' \in [End -> Seq(Request)] /\ sq'[e] = Append(sq[e], w)
           /\ \A f \in End : f # e => sq'[f] = sq[f]
  <1>1. PICK q \in Seq(Request) : q = sq[e]
    BY DEF ShapeInv
  <1>2. Append(q, w) \in Seq(Request)
    OBVIOUS
  <1>3. QED
    BY <1>1, <1>2 DEF ShapeInv, Post

\* A receive is posted.
LEMMA PostRecvFacts ==
    ASSUME ShapeInv, NEW e \in End, NEW n \in Nat, PostRecv(e, n)
    PROVE  recvs' \in [End -> Seq(Receive)]
  <1>1. PICK q \in Seq(Receive) : q = recvs[e]
    BY DEF ShapeInv
  <1>2. PICK w \in Receive : w = [len |-> n, block |-> 0]
    <2>1. 0 \in Block
      BY Constants DEF Block
    <2>2. QED
      BY <2>1 DEF Receive
  <1>3. Append(q, w) \in Seq(Receive)
    OBVIOUS
  <1>4. QED
    BY <1>1, <1>2, <1>3 DEF ShapeInv, PostRecv

\* The control messages are work requests.
LEMMA SendType ==
    ASSUME NEW msg \in Msg, NEW len \in Nat, NEW block \in {0, 1}, NEW data \in Content
    PROVE  Send(msg, len, block, data) \in Request
  <1>1. block \in Block
    BY Constants DEF Block
  <1>2. QED
    BY <1>1 DEF Send, Request

\* A CHECK may end its process.
LEMMA CheckFacts ==
    ASSUME ShapeInv, NEW p \in Clients \cup {"server"}, NEW good, Check(p, good)
    PROVE  aborted' \subseteq Clients \cup {"server"}
  BY DEF ShapeInv, Check

-----------------------------------------------------------------------------
(* What a step leaves alone *)

\* The connection of c is as it was, as far as the response is concerned.
LEMMA FirstSame ==
    ASSUME NEW c \in Clients, FirstAt(c),
           client'[c].pc \in Waiting <=> client[c].pc \in Waiting,
           client'[c].rcvd = client[c].rcvd,
           server'[c].pc \in Unasked <=> server[c].pc \in Unasked,
           at0'[c] = at0[c], buffer_peer'[c] = buffer_peer[c],
           sq'[Server(c)] = sq[Server(c)],
           (\A i \in 1..Len(cq[Client(c)]) : cq[Client(c)][i].op # "RECV") =>
               \A i \in 1..Len(cq'[Client(c)]) : cq'[Client(c)][i].op # "RECV"
    PROVE  FirstAt(c)'
  <1>1. Nothing(c) => Nothing(c)'
    BY DEF Nothing
  <1>2. QED
    BY <1>1 DEF FirstAt

\* A step of the client's end: the thread of the server stays where it is.
LEMMA ClientFrame ==
    ASSUME IndInv, ShapeInv', NEW c \in Clients,
           server' = server, m_mutex' = m_mutex, active' = active,
           \A d \in Clients : d # c =>
              /\ client'[d] = client[d] /\ at0'[d] = at0[d] /\ buffer_peer'[d] = buffer_peer[d]
              /\ sq'[Server(d)] = sq[Server(d)] /\ cq'[Client(d)] = cq[Client(d)],
           client'[c].confirm < Count, FirstAt(c)'
    PROVE  IndInv'
  <1>1. \A d \in Clients : LoopAt(d) /\ HoldAt(d) /\ FirstAt(d)
    BY DEF IndInv
  <1>2. ASSUME NEW d \in Clients PROVE LoopAt(d)' /\ HoldAt(d)' /\ FirstAt(d)'
    <2>1. HoldAt(d)'
      BY <1>1 DEF HoldAt
    <2>2. LoopAt(d)'
      <3>1. CASE d = c
        BY <1>1, <3>1 DEF LoopAt
      <3>2. CASE d # c
        BY <1>1, <3>2 DEF LoopAt
      <3>3. QED
        BY <3>1, <3>2
    <2>3. FirstAt(d)'
      <3>1. CASE d = c
        BY <3>1
      <3>2. CASE d # c
        <4>1. /\ client'[d] = client[d] /\ server'[d] = server[d] /\ at0'[d] = at0[d]
              /\ buffer_peer'[d] = buffer_peer[d] /\ sq'[Server(d)] = sq[Server(d)]
              /\ cq'[Client(d)] = cq[Client(d)] /\ FirstAt(d)
          BY <1>1, <3>2
        <4>2. QED
          BY <4>1, FirstSame
      <3>3. QED
        BY <3>1, <3>2
    <2>4. QED
      BY <2>1, <2>2, <2>3
  <1>3. QED
    BY <1>2 DEF IndInv

\* A step of the thread of the server for c: it keeps the mutex, or is done.
LEMMA ServerFrame ==
    ASSUME IndInv, ShapeInv', NEW c \in Clients,
           client' = client, at0' = at0, buffer_peer' = buffer_peer,
           \A d \in Clients : d # c =>
              /\ server'[d] = server[d]
              /\ sq'[Server(d)] = sq[Server(d)],
           \A d \in Clients : cq'[Client(d)] = cq[Client(d)],
           \A d \in Clients : d # c /\ server[d].pc \notin {"start", "done"} =>
              m_mutex' = m_mutex /\ active' = active,
           LoopAt(c)', HoldAt(c)', FirstAt(c)'
    PROVE  IndInv'
  <1>1. \A d \in Clients : LoopAt(d) /\ HoldAt(d) /\ FirstAt(d)
    BY DEF IndInv
  <1>2. ASSUME NEW d \in Clients, d # c PROVE LoopAt(d)' /\ HoldAt(d)' /\ FirstAt(d)'
    <2>1. HoldAt(d)'
      BY <1>1, <1>2 DEF HoldAt
    <2>2. LoopAt(d)'
      BY <1>1, <1>2 DEF LoopAt
    <2>3. FirstAt(d)'
      <3>1. /\ client'[d] = client[d] /\ server'[d] = server[d] /\ at0'[d] = at0[d]
            /\ buffer_peer'[d] = buffer_peer[d] /\ sq'[Server(d)] = sq[Server(d)]
            /\ cq'[Client(d)] = cq[Client(d)] /\ FirstAt(d)
        BY <1>1, <1>2
      <3>2. QED
        BY <3>1, FirstSame
    <2>4. QED
      BY <2>1, <2>2, <2>3
  <1>3. ASSUME NEW d \in Clients PROVE LoopAt(d)' /\ HoldAt(d)' /\ FirstAt(d)'
    BY <1>2
  <1>4. QED
    BY <1>3 DEF IndInv

\* A step of client c that takes no message and does not end its wait for one.
LEMMA ClientQuiet ==
    ASSUME IndInv, ShapeInv', NEW c \in Clients,
           server' = server, m_mutex' = m_mutex, active' = active,
           at0' = at0, buffer_peer' = buffer_peer,
           \A d \in Clients : d # c => client'[d] = client[d] /\ cq'[Client(d)] = cq[Client(d)],
           \A d \in Clients : sq'[Server(d)] = sq[Server(d)],
           client'[c].pc \in Waiting <=> client[c].pc \in Waiting,
           client'[c].rcvd = client[c].rcvd, client'[c].confirm < Count,
           (\A i \in 1..Len(cq[Client(c)]) : cq[Client(c)][i].op # "RECV") =>
               \A i \in 1..Len(cq'[Client(c)]) : cq'[Client(c)][i].op # "RECV"
    PROVE  IndInv'
  <1>1. FirstAt(c)
    BY DEF IndInv
  <1>2. /\ server'[c] = server[c] /\ at0'[c] = at0[c] /\ buffer_peer'[c] = buffer_peer[c]
        /\ sq'[Server(c)] = sq[Server(c)]
    OBVIOUS
  <1>3. FirstAt(c)'
    BY <1>1, <1>2, FirstSame
  <1>4. QED
    BY <1>3, ClientFrame

\* A client changes its place only.
LEMMA ClientGoes ==
    ASSUME IndInv, NEW c \in Clients, NEW pc \in ClientPc,
           client' = [client EXCEPT ![c].pc = pc]
    PROVE  /\ client' \in [Clients -> ClientState]
           /\ \A d \in Clients : d # c => client'[d] = client[d]
           /\ client'[c].pc = pc /\ client'[c].rcvd = client[c].rcvd
           /\ client'[c].confirm < Count
  <1>1. ShapeInv /\ LoopAt(c) /\ client[c] \in ClientState
    BY DEF IndInv, ShapeInv
  <1>2. PICK r : r = [client[c] EXCEPT !.pc = pc]
    OBVIOUS
  <1>3. r \in ClientState
    BY <1>1, <1>2, NewPlace
  <1>4. client' = [client EXCEPT ![c] = r]
    BY <1>2
  <1>5. /\ client' \in [Clients -> ClientState] /\ client'[c] = r
        /\ \A d \in Clients : d # c => client'[d] = client[d]
    BY <1>1, <1>3, <1>4, ClientMoves
  <1>6. r.pc = pc /\ r.rcvd = client[c].rcvd /\ r.confirm = client[c].confirm
    BY <1>1, <1>2 DEF ClientState
  <1>7. QED
    BY <1>1, <1>5, <1>6 DEF LoopAt

\* The places a client is sent to.
LEMMA Places ==
    /\ Waiting \subseteq ClientPc /\ Unasked \subseteq ServerPc
    /\ {"request", "answer", "bye", "leaving", "exited"} \subseteq ClientPc \ Waiting
    /\ Tests \subseteq ClientPc \ Waiting
  BY DEF Waiting, Unasked, ClientPc, ServerPc, Tests

-----------------------------------------------------------------------------
(* The steps of a client *)

LEMMA ClientRegisterStep ==
    ASSUME IndInv, NEW c \in Clients, ClientRegister(c) PROVE IndInv'
  <1>1. ShapeInv /\ Client(c) \in End
    BY EndFacts DEF IndInv
  <1>2. /\ client[c].pc = "start" /\ client' = [client EXCEPT ![c].pc = "sync"]
        /\ PostRecv(Client(c), BlockBytes)
        /\ UNCHANGED <<server, m_mutex, active, said, at0, buffer_peer, ring, sq, unacked,
                       cq, aborted>>
    BY DEF ClientRegister, Running
  <1>3. /\ client' \in [Clients -> ClientState]
        /\ \A d \in Clients : d # c => client'[d] = client[d]
        /\ client'[c].pc = "sync" /\ client'[c].rcvd = client[c].rcvd
        /\ client'[c].confirm < Count
    <2>1. "sync" \in ClientPc
      BY DEF ClientPc
    <2>2. QED
      BY <1>2, <2>1, ClientGoes
  <1>4. recvs' \in [End -> Seq(Receive)]
    BY <1>1, <1>2, Sizes, PostRecvFacts
  <1>5. ShapeInv'
    BY <1>1, <1>2, <1>3, <1>4 DEF ShapeInv
  <1>6. client'[c].pc \in Waiting <=> client[c].pc \in Waiting
    BY <1>2, <1>3 DEF Waiting
  <1>7. QED
    BY <1>2, <1>3, <1>5, <1>6, ClientQuiet

LEMMA ClientSyncSendStep ==
    ASSUME IndInv, NEW c \in Clients, ClientSyncSend(c) PROVE IndInv'
  <1>1. ShapeInv /\ Client(c) \in End
    BY EndFacts DEF IndInv
  <1>2. /\ client[c].pc = "sync" /\ client' = [client EXCEPT ![c].pc = "synced"]
        /\ said' = [said EXCEPT ![Client(c)] = TRUE]
        /\ UNCHANGED <<server, m_mutex, active, at0, buffer_peer, ring, recvs, sq, unacked,
                       cq, aborted>>
    BY DEF ClientSyncSend, Running, nic
  <1>3. /\ client' \in [Clients -> ClientState]
        /\ \A d \in Clients : d # c => client'[d] = client[d]
        /\ client'[c].pc = "synced" /\ client'[c].rcvd = client[c].rcvd
        /\ client'[c].confirm < Count
    <2>1. "synced" \in ClientPc
      BY DEF ClientPc
    <2>2. QED
      BY <1>2, <2>1, ClientGoes
  <1>4. said' \in [End -> BOOLEAN]
    BY <1>1, <1>2, Zenon DEF ShapeInv
  <1>5. ShapeInv'
    BY <1>1, <1>2, <1>3, <1>4 DEF ShapeInv
  <1>6. client'[c].pc \in Waiting <=> client[c].pc \in Waiting
    BY <1>2, <1>3 DEF Waiting
  <1>7. QED
    BY <1>2, <1>3, <1>5, <1>6, ClientQuiet

LEMMA ClientSyncRecvStep ==
    ASSUME IndInv, NEW c \in Clients, ClientSyncRecv(c) PROVE IndInv'
  <1>1. ShapeInv /\ Client(c) \in End
    BY EndFacts DEF IndInv
  <1>2. PICK w \in Request : w = Send("REQUEST_BUFFER", AskBytes, 1, "zero")
    <2>1. "REQUEST_BUFFER" \in Msg /\ AskBytes \in Nat /\ 1 \in {0, 1} /\ "zero" \in Content
      BY Constants DEF Msg, Content
    <2>2. QED
      BY <2>1, SendType
  <1>3. /\ client[c].pc = "synced" /\ client' = [client EXCEPT ![c].pc = "exchange"]
        /\ Post(Client(c), w)
        /\ UNCHANGED <<server, m_mutex, active, said, at0, buffer_peer, ring, recvs,
                       unacked, cq, aborted>>
    BY <1>2 DEF ClientSyncRecv, Running
  <1>4. /\ client' \in [Clients -> ClientState]
        /\ \A d \in Clients : d # c => client'[d] = client[d]
        /\ client'[c].pc = "exchange" /\ client'[c].rcvd = client[c].rcvd
        /\ client'[c].confirm < Count
    <2>1. "exchange" \in ClientPc
      BY DEF ClientPc
    <2>2. QED
      BY <1>3, <2>1, ClientGoes
  <1>5. sq' \in [End -> Seq(Request)] /\ \A f \in End : f # Client(c) => sq'[f] = sq[f]
    BY <1>1, <1>3, PostFacts
  <1>6. ShapeInv'
    BY <1>1, <1>3, <1>4, <1>5 DEF ShapeInv
  <1>7. client'[c].pc \in Waiting <=> client[c].pc \in Waiting
    BY <1>3, <1>4 DEF Waiting
  <1>8. \A d \in Clients : sq'[Server(d)] = sq[Server(d)]
    BY <1>5, EndFacts
  <1>9. QED
    BY <1>3, <1>4, <1>6, <1>7, <1>8, ClientQuiet

LEMMA ClientRequestStep ==
    ASSUME IndInv, NEW c \in Clients, ClientRequest(c) PROVE IndInv'
  <1>1. ShapeInv /\ Client(c) \in End
    BY EndFacts DEF IndInv
  <1>2. PICK w \in Request : w = Send("SEND_TEST_REQUEST", AskBytes, 1, "zero")
    <2>1. "SEND_TEST_REQUEST" \in Msg /\ AskBytes \in Nat /\ 1 \in {0, 1} /\ "zero" \in Content
      BY Constants DEF Msg, Content
    <2>2. QED
      BY <2>1, SendType
  <1>3. /\ client[c].pc = "request" /\ client' = [client EXCEPT ![c].pc = "answer"]
        /\ PostRecv(Client(c), CtlBytes) /\ Post(Client(c), w)
        /\ UNCHANGED <<server, m_mutex, active, said, at0, buffer_peer, ring,
                       unacked, cq, aborted>>
    BY <1>2 DEF ClientRequest, Running
  <1>4. /\ client' \in [Clients -> ClientState]
        /\ \A d \in Clients : d # c => client'[d] = client[d]
        /\ client'[c].pc = "answer" /\ client'[c].rcvd = client[c].rcvd
        /\ client'[c].confirm < Count
    <2>1. "answer" \in ClientPc
      BY DEF ClientPc
    <2>2. QED
      BY <1>3, <2>1, ClientGoes
  <1>5. sq' \in [End -> Seq(Request)] /\ \A f \in End : f # Client(c) => sq'[f] = sq[f]
    BY <1>1, <1>3, PostFacts
  <1>6. recvs' \in [End -> Seq(Receive)]
    BY <1>1, <1>3, Constants, PostRecvFacts
  <1>7. ShapeInv'
    BY <1>1, <1>3, <1>4, <1>5, <1>6 DEF ShapeInv
  <1>8. client'[c].pc \in Waiting <=> client[c].pc \in Waiting
    BY <1>3, <1>4 DEF Waiting
  <1>9. \A d \in Clients : sq'[Server(d)] = sq[Server(d)]
    BY <1>5, EndFacts
  <1>10. QED
    BY <1>3, <1>4, <1>7, <1>8, <1>9, ClientQuiet

LEMMA ClientByeStep ==
    ASSUME IndInv, NEW c \in Clients, ClientBye(c) PROVE IndInv'
  <1>1. ShapeInv /\ Client(c) \in End
    BY EndFacts DEF IndInv
  <1>2. PICK w \in Request : w = Send("BYEBYE", CtlBytes, 0, "zero")
    <2>1. "BYEBYE" \in Msg /\ CtlBytes \in Nat /\ 0 \in {0, 1} /\ "zero" \in Content
      BY Constants DEF Msg, Content
    <2>2. QED
      BY <2>1, SendType
  <1>3. /\ client[c].pc = "bye" /\ client' = [client EXCEPT ![c].pc = "leaving"]
        /\ Post(Client(c), w)
        /\ UNCHANGED <<server, m_mutex, active, said, at0, buffer_peer, ring, recvs,
                       unacked, cq, aborted>>
    BY <1>2 DEF ClientBye, Running
  <1>4. /\ client' \in [Clients -> ClientState]
        /\ \A d \in Clients : d # c => client'[d] = client[d]
        /\ client'[c].pc = "leaving" /\ client'[c].rcvd = client[c].rcvd
        /\ client'[c].confirm < Count
    <2>1. "leaving" \in ClientPc
      BY DEF ClientPc
    <2>2. QED
      BY <1>3, <2>1, ClientGoes
  <1>5. sq' \in [End -> Seq(Request)] /\ \A f \in End : f # Client(c) => sq'[f] = sq[f]
    BY <1>1, <1>3, PostFacts
  <1>6. ShapeInv'
    BY <1>1, <1>3, <1>4, <1>5 DEF ShapeInv
  <1>7. client'[c].pc \in Waiting <=> client[c].pc \in Waiting
    BY <1>3, <1>4 DEF Waiting
  <1>8. \A d \in Clients : sq'[Server(d)] = sq[Server(d)]
    BY <1>5, EndFacts
  <1>9. QED
    BY <1>3, <1>4, <1>6, <1>7, <1>8, ClientQuiet

LEMMA ClientExitStep ==
    ASSUME IndInv, NEW c \in Clients, ClientExit(c) PROVE IndInv'
  <1>1. ShapeInv /\ Client(c) \in End
    BY EndFacts DEF IndInv
  <1>2. /\ client[c].pc = "leaving" /\ client' = [client EXCEPT ![c].pc = "exited"]
        /\ sq' = [sq EXCEPT ![Client(c)] = <<>>]
        /\ unacked' = [unacked EXCEPT ![Client(c)] = <<>>]
        /\ cq' = [cq EXCEPT ![Client(c)] = <<>>]
        /\ UNCHANGED <<server, m_mutex, active, said, at0, buffer_peer, ring, recvs, aborted>>
    BY DEF ClientExit, Running
  <1>3. /\ client' \in [Clients -> ClientState]
        /\ \A d \in Clients : d # c => client'[d] = client[d]
        /\ client'[c].pc = "exited" /\ client'[c].rcvd = client[c].rcvd
        /\ client'[c].confirm < Count
    <2>1. "exited" \in ClientPc
      BY DEF ClientPc
    <2>2. QED
      BY <1>2, <2>1, ClientGoes
  <1>4. /\ sq' \in [End -> Seq(Request)] /\ unacked' \in [End -> Seq(Request)]
        /\ cq' \in [End -> Seq(Completion)] /\ cq'[Client(c)] = <<>>
        /\ \A f \in End : f # Client(c) => sq'[f] = sq[f] /\ cq'[f] = cq[f]
    <2>1. sq \in [End -> Seq(Request)] /\ unacked \in [End -> Seq(Request)]
          /\ cq \in [End -> Seq(Completion)]
      BY <1>1 DEF ShapeInv
    <2>2. QED
      BY <1>1, <1>2, <2>1
  <1>5. ShapeInv'
    BY <1>1, <1>2, <1>3, <1>4 DEF ShapeInv
  <1>6. client'[c].pc \in Waiting <=> client[c].pc \in Waiting
    BY <1>2, <1>3 DEF Waiting
  <1>7. /\ \A d \in Clients : sq'[Server(d)] = sq[Server(d)]
        /\ \A d \in Clients : d # c => cq'[Client(d)] = cq[Client(d)]
    BY <1>4, EndFacts
  <1>8. \A i \in 1..Len(cq'[Client(c)]) : cq'[Client(c)][i].op # "RECV"
    BY <1>4
  <1>9. QED
    BY <1>2, <1>3, <1>5, <1>6, <1>7, <1>8, ClientQuiet

\* A remainder is a block.
LEMMA BlockType == \A k \in Int : k % Count \in Block
  BY Constants DEF Block

\* The work request of a test; all but the SENDs carry the descriptor of the client's
\* own buffer at the server.
LEMMA TestRequestFacts ==
    ASSUME IndInv, NEW c \in Clients, NEW test \in Tests, client[c].pc = test
    PROVE  /\ TestRequest(c, test) \in Request
           /\ TestRequest(c, test).op = TestOp(test)
           /\ TestRequest(c, test).msg = "TEST_RAW_DATA"
           /\ TestRequest(c, test).len <= BlockBytes
           /\ test # "data" => TestRequest(c, test).data = c
  <1>1. /\ ShapeInv /\ Client(c) \in End /\ client[c] \in ClientState
        /\ FirstAt(c) /\ ring \in [End -> [next : Int, last : Int]]
    BY EndFacts DEF IndInv, ShapeInv
  <1>2. buffer_peer[c] = c
    BY <1>1, Places DEF FirstAt
  <1>3. TestOp(test) \in {"SEND", "WRITE", "READ", "ERROR"}
    BY DEF TestOp
  <1>4. "TEST_RAW_DATA" \in Msg
    BY DEF Msg
  <1>5. Size(client[c].round) \in Nat /\ Size(client[c].round) <= BlockBytes
    BY <1>1, Sizes DEF ClientState
  <1>6. PICK b \in Block : b = IF test = "fake" THEN 0 ELSE NextBlock(Client(c), 1)
    <2>1. 0 \in Block
      BY Constants DEF Block
    <2>2. ring[Client(c)].next + 1 \in Int
      BY <1>1
    <2>3. NextBlock(Client(c), 1) \in Block
      BY <2>2, BlockType DEF NextBlock
    <2>4. QED
      BY <2>1, <2>3
  <1>7. PICK d \in Content : d = IF test = "data" THEN "zero" ELSE c
    BY DEF Content
  <1>8. TestRequest(c, test) = [op |-> TestOp(test), msg |-> "TEST_RAW_DATA",
                               len |-> Size(client[c].round), block |-> b, data |-> d]
    BY <1>2, <1>6, <1>7 DEF TestRequest
  <1>9. QED
    BY <1>3, <1>4, <1>5, <1>7, <1>8 DEF Request

\* A client counts an operation.
LEMMA ClientCounts ==
    ASSUME ShapeInv, NEW c \in Clients, client[c].index < Count,
           client' = [client EXCEPT ![c].index = @ + 1]
    PROVE  /\ client' \in [Clients -> ClientState]
           /\ client'[c].pc = client[c].pc /\ client'[c].round = client[c].round
           /\ client'[c].index = client[c].index + 1 /\ client'[c].confirm = client[c].confirm
           /\ client'[c].sent = client[c].sent /\ client'[c].rcvd = client[c].rcvd
           /\ \A d \in Clients : d # c => client'[d] = client[d]
  <1>1. client[c] \in ClientState
    BY DEF ShapeInv
  <1>2. PICK i \in 0..Count : i = client[c].index + 1
    BY <1>1, Constants DEF ClientState
  <1>3. PICK r : r = [client[c] EXCEPT !.index = i]
    OBVIOUS
  <1>4. /\ r \in ClientState /\ r.pc = client[c].pc /\ r.rcvd = client[c].rcvd
        /\ r.confirm = client[c].confirm /\ r.index = i /\ r.round = client[c].round
        /\ r.sent = client[c].sent
    BY <1>1, <1>3, Zenon DEF ClientState
  <1>5. client' = [client EXCEPT ![c] = r]
    BY <1>2, <1>3
  <1>6. /\ client' \in [Clients -> ClientState] /\ client'[c] = r
        /\ \A d \in Clients : d # c => client'[d] = client[d]
    BY <1>4, <1>5, ClientMoves
  <1>7. QED
    BY <1>2, <1>4, <1>6

\* The CHECKs of write_remote and read_remote hold.
LEMMA PostChecked ==
    ASSUME IndInv, NEW c \in Clients, NEW test \in Tests, ClientPost(c, test)
    PROVE  aborted' = aborted
  <1>1. client[c].pc = test /\ FirstAt(c)
    BY DEF ClientPost, Running, IndInv
  <1>2. buffer_peer[c] = c
    BY <1>1, Places DEF FirstAt
  <1>3. Check(c, test = "data" \/ buffer_peer[c] \in Clients)
    BY DEF ClientPost
  <1>4. QED
    BY <1>2, <1>3 DEF Check

LEMMA ClientPostStep ==
    ASSUME IndInv, NEW c \in Clients, NEW test \in Tests, ClientPost(c, test) PROVE IndInv'
  <1>1. /\ ShapeInv /\ Client(c) \in End /\ LoopAt(c)
        /\ ring \in [End -> [next : Int, last : Int]]
    BY EndFacts DEF IndInv, ShapeInv
  <1>2. /\ client[c].pc = test /\ client[c].index < Count
        /\ client' = [client EXCEPT ![c].index = @ + 1]
        /\ Post(Client(c), TestRequest(c, test))
        /\ ring' = IF test = "fake" THEN ring ELSE [ring EXCEPT ![Client(c)].next = @ + 1]
        /\ UNCHANGED <<server, m_mutex, active, said, at0, buffer_peer, recvs, unacked, cq,
                       aborted>>
    BY PostChecked DEF ClientPost, Running, More
  <1>3. TestRequest(c, test) \in Request
    BY <1>2, TestRequestFacts
  <1>4. /\ client' \in [Clients -> ClientState]
        /\ client'[c].pc = client[c].pc /\ client'[c].rcvd = client[c].rcvd
        /\ client'[c].confirm = client[c].confirm
        /\ \A d \in Clients : d # c => client'[d] = client[d]
    BY <1>1, <1>2, ClientCounts
  <1>5. sq' \in [End -> Seq(Request)] /\ \A f \in End : f # Client(c) => sq'[f] = sq[f]
    BY <1>1, <1>2, <1>3, PostFacts
  <1>6. ring' \in [End -> [next : Int, last : Int]]
    BY <1>1, <1>2
  <1>7. ShapeInv'
    BY <1>1, <1>2, <1>4, <1>5, <1>6 DEF ShapeInv
  <1>8. /\ client'[c].pc \in Waiting <=> client[c].pc \in Waiting
        /\ client'[c].rcvd = client[c].rcvd /\ client'[c].confirm < Count
    BY <1>1, <1>4 DEF LoopAt
  <1>9. \A d \in Clients : sq'[Server(d)] = sq[Server(d)]
    BY <1>5, EndFacts
  <1>10. QED
    BY <1>2, <1>4, <1>7, <1>8, <1>9, ClientQuiet

\* The test that follows another.
LEMMA FollowsFacts ==
    ASSUME NEW r \in [pc : ClientPc, round : 1..Rounds, index : 0..Count, confirm : Nat,
                      sent : BOOLEAN, rcvd : BOOLEAN],
           NEW test \in Tests, r.pc = test
    PROVE  /\ Follows(r) \in ClientState /\ Follows(r).pc \notin Waiting
           /\ Follows(r).rcvd = r.rcvd /\ Follows(r).sent = r.sent
           /\ Follows(r).index = 0 /\ Follows(r).confirm = 0
           /\ test # "data" => Follows(r).pc \in {"write", "read", "bw", "fake", "bye"}
           /\ test = "data" =>
                 \/ r.round < Rounds /\ Follows(r).pc = "request"
                    /\ Follows(r).round = r.round + 1
                 \/ r.round = Rounds /\ Follows(r).pc = "write"
  <1>1. r.round \in 1..Rounds /\ r.pc \in {"data", "write", "read", "bw", "fake"}
    BY DEF Tests
  <1>2. PICK p \in ClientPc \ Waiting :
           /\ p = IF r.round < Rounds THEN (IF r.pc = "data" THEN "request" ELSE r.pc)
                  ELSE CASE r.pc = "data" -> "write" [] r.pc = "write" -> "read"
                         [] r.pc = "read" -> "bw"    [] r.pc = "bw" -> "fake"
                         [] r.pc = "fake" -> "bye"
           /\ test # "data" => p \in {"write", "read", "bw", "fake", "bye"}
           /\ test = "data" => p = IF r.round < Rounds THEN "request" ELSE "write"
    BY <1>1 DEF ClientPc, Waiting, Tests
  <1>3. PICK n \in 1..Rounds : n = IF r.round < Rounds THEN r.round + 1 ELSE 1
    BY Constants
  <1>4. PICK z \in 0..Count : z = 0
    BY Constants
  <1>5. Follows(r) = [r EXCEPT !.pc = p, !.round = n, !.index = z, !.confirm = z]
    BY <1>2, <1>3, <1>4 DEF Follows
  <1>6. /\ Follows(r) \in ClientState /\ Follows(r).pc = p /\ Follows(r).round = n
        /\ Follows(r).rcvd = r.rcvd /\ Follows(r).sent = r.sent
        /\ Follows(r).index = z /\ Follows(r).confirm = z
    BY <1>5, Zenon DEF ClientState
  <1>7. r.round < Rounds \/ r.round = Rounds
    BY <1>1, Constants
  <1>8. test = "data" =>
                 \/ r.round < Rounds /\ Follows(r).pc = "request"
                    /\ Follows(r).round = r.round + 1
                 \/ r.round = Rounds /\ Follows(r).pc = "write"
    BY <1>1, <1>2, <1>3, <1>6, <1>7, Constants
  <1>9. QED
    BY <1>2, <1>4, <1>6, <1>8

\* The k completions a client polls in a test, and where it is after that.
LEMMA ClientPollFacts ==
    ASSUME IndInv, NEW c \in Clients, NEW test \in Tests, ClientPoll(c, test)
    PROVE  \E k \in Nat, D \in ClientState :
              /\ k >= 1 /\ k <= Len(cq[Client(c)])
              /\ cq' \in [End -> Seq(Completion)]
              /\ \A f \in End : f # Client(c) => cq'[f] = cq[f]
              /\ Len(cq'[Client(c)]) = Len(cq[Client(c)]) - k
              /\ \A i \in 1..Len(cq'[Client(c)]) : cq'[Client(c)][i] = cq[Client(c)][i + k]
              /\ client' \in [Clients -> ClientState] /\ client'[c] = D
              /\ \A d \in Clients : d # c => client'[d] = client[d]
              /\ D.sent = client[c].sent /\ D.rcvd = client[c].rcvd
              /\ D.confirm < Count /\ D.pc \notin Waiting
              /\ client[c].confirm + k < Count =>
                    /\ D.pc = test /\ D.round = client[c].round
                    /\ D.index = client[c].index /\ D.confirm = client[c].confirm + k
              /\ client[c].confirm + k >= Count =>
                    /\ D.index = 0 /\ D.confirm = 0
                    /\ test # "data" => D.pc \in {"write", "read", "bw", "fake", "bye"}
                    /\ test = "data" =>
                          \/ client[c].round < Rounds /\ D.pc = "request"
                             /\ D.round = client[c].round + 1
                          \/ client[c].round = Rounds /\ D.pc = "write"
              /\ ring' = IF test = "fake" THEN ring
                         ELSE [ring EXCEPT ![Client(c)].last = @ + k]
              /\ aborted' \subseteq Clients \cup {"server"}
              /\ client[c].confirm + k <= Count
                    /\ (\A i \in 1..k : cq[Client(c)][i].op = TestOp(test))
                 => aborted' = aborted
  <1> DEFINE n == IF test \in Bursts THEN Batch ELSE 1
             got == Polled(Client(c), n)
             confirm == client[c].confirm + Len(got)
             r == [client[c] EXCEPT !.confirm = confirm]
             x == IF confirm >= Count THEN Follows(r) ELSE r
  <1>1. ShapeInv /\ Client(c) \in End /\ client[c] \in ClientState
    BY EndFacts DEF IndInv, ShapeInv
  <1>2. /\ client[c].pc = test /\ Poll(Client(c), n)
        /\ client' = [client EXCEPT ![c] = x]
        /\ ring' = IF test = "fake" THEN ring
                   ELSE [ring EXCEPT ![Client(c)].last = @ + Len(got)]
        /\ Check(c, /\ \A i \in 1..Len(got) : got[i].op = TestOp(test)
                    /\ confirm <= Count)
    BY DEF ClientPoll, Running
  <1>3. client[c].pc \notin Waiting
    BY <1>2, Places
  <1>4. PICK m \in Nat : m = n /\ m >= 1
    BY Constants
  <1>5. PICK k \in Nat :
              /\ k >= 1 /\ k <= Len(cq[Client(c)])
              /\ Len(got) = k
              /\ \A i \in 1..k : got[i] = cq[Client(c)][i]
              /\ cq' \in [End -> Seq(Completion)]
              /\ \A f \in End : f # Client(c) => cq'[f] = cq[f]
              /\ Len(cq'[Client(c)]) = Len(cq[Client(c)]) - k
              /\ \A i \in 1..Len(cq'[Client(c)]) : cq'[Client(c)][i] = cq[Client(c)][i + k]
    <2>1. Poll(Client(c), m) /\ got = Polled(Client(c), m)
      BY <1>2, <1>4
    <2> HIDE DEF got, n
    <2>2. QED
      BY <1>1, <1>4, <2>1, PollFacts
  <1>6. aborted' \subseteq Clients \cup {"server"}
    BY <1>1, <1>2, CheckFacts
  <1>7. (\A i \in 1..Len(got) : got[i].op = TestOp(test)) /\ confirm <= Count
           => aborted' = aborted
    BY <1>2 DEF Check
  <1> HIDE DEF n, got
  <1>8. PICK t \in Nat : t = client[c].confirm + k /\ confirm = t
    <2>1. client[c].confirm \in Nat
      BY <1>1 DEF ClientState
    <2>2. client[c].confirm + k \in Nat
      BY <2>1
    <2>3. Len(got) = k
      BY <1>5
    <2>4. confirm = client[c].confirm + k
      BY <2>3
    <2> HIDE DEF confirm
    <2>5. QED
      BY <2>2, <2>4
  <1> HIDE DEF confirm
  <1>9. t <= Count /\ (\A i \in 1..k : cq[Client(c)][i].op = TestOp(test))
           => aborted' = aborted
    BY <1>5, <1>7, <1>8
  <1>10. /\ r \in [pc : ClientPc, round : 1..Rounds, index : 0..Count, confirm : Nat,
                 sent : BOOLEAN, rcvd : BOOLEAN]
         /\ r.pc = test /\ r.rcvd = client[c].rcvd /\ r.sent = client[c].sent
         /\ r.confirm = t /\ r.round = client[c].round /\ r.index = client[c].index
         /\ t \in 0..Count => r \in ClientState
    <2>1. r = [client[c] EXCEPT !.confirm = t]
      BY <1>8
    <2> HIDE DEF r
    <2>2. QED
      BY <1>1, <1>2, <2>1, Zenon DEF ClientState
  <1> HIDE DEF r
  <1>11. PICK D \in ClientState :
            /\ D = x /\ D.sent = client[c].sent /\ D.rcvd = client[c].rcvd
            /\ D.confirm < Count /\ D.pc \notin Waiting
            /\ t < Count => /\ D.pc = test /\ D.round = client[c].round
                            /\ D.index = client[c].index /\ D.confirm = t
            /\ t >= Count =>
                  /\ D.index = 0 /\ D.confirm = 0
                  /\ test # "data" => D.pc \in {"write", "read", "bw", "fake", "bye"}
                  /\ test = "data" =>
                        \/ client[c].round < Rounds /\ D.pc = "request"
                           /\ D.round = client[c].round + 1
                        \/ client[c].round = Rounds /\ D.pc = "write"
    <2>1. CASE t >= Count
      <3>1. x = Follows(r) /\ ~(t < Count)
        BY <1>8, <2>1, Constants
      <3>2. /\ Follows(r) \in ClientState /\ Follows(r).pc \notin Waiting
            /\ Follows(r).rcvd = r.rcvd /\ Follows(r).sent = r.sent
            /\ Follows(r).index = 0 /\ Follows(r).confirm = 0
            /\ test # "data" => Follows(r).pc \in {"write", "read", "bw", "fake", "bye"}
            /\ test = "data" =>
                  \/ r.round < Rounds /\ Follows(r).pc = "request"
                     /\ Follows(r).round = r.round + 1
                  \/ r.round = Rounds /\ Follows(r).pc = "write"
        BY <1>10, FollowsFacts
      <3>3. 0 < Count
        BY Constants
      <3>4. Follows(r) \in ClientState
        BY <3>2
      <3> USE <3>4
      <3> WITNESS Follows(r) \in ClientState
      <3>5. QED
        BY <3>1, <3>2, <3>3, <1>10, Zenon
    <2>2. CASE ~(t >= Count)
      <3>1. x = r /\ t \in 0..Count /\ t < Count
        BY <1>8, <2>2, Constants
      <3>2. r.pc \notin Waiting /\ r \in ClientState
        BY <1>2, <1>3, <1>10, <3>1
      <3>3. r \in ClientState
        BY <3>2
      <3> USE <3>3
      <3> WITNESS r \in ClientState
      <3>4. QED
        BY <1>10, <2>2, <3>1, <3>2, Zenon
    <2>3. QED
      BY <2>1, <2>2
  <1> HIDE DEF x
  <1>12. /\ client' \in [Clients -> ClientState] /\ client'[c] = D
         /\ \A d \in Clients : d # c => client'[d] = client[d]
    BY <1>1, <1>2, <1>11, ClientMoves
  <1>13. ring' = IF test = "fake" THEN ring ELSE [ring EXCEPT ![Client(c)].last = @ + k]
    BY <1>2, <1>5
  <1>14. WITNESS k \in Nat, D \in ClientState
  <1>15. QED
    BY <1>5, <1>6, <1>8, <1>9, <1>11, <1>12, <1>13, Zenon

LEMMA ClientPollStep ==
    ASSUME IndInv, NEW c \in Clients, NEW test \in Tests, ClientPoll(c, test) PROVE IndInv'
  <1>1. /\ ShapeInv /\ Client(c) \in End /\ ring \in [End -> [next : Int, last : Int]]
    BY EndFacts DEF IndInv, ShapeInv
  <1>2. /\ client[c].pc = test
        /\ UNCHANGED <<server, m_mutex, active, said, at0, buffer_peer, recvs, sq, unacked>>
    BY DEF ClientPoll, Running
  <1>3. client[c].pc \notin Waiting
    BY <1>2, Places
  <1>4. PICK k \in Nat :
              /\ k >= 1 /\ k <= Len(cq[Client(c)])
              /\ cq' \in [End -> Seq(Completion)]
              /\ \A f \in End : f # Client(c) => cq'[f] = cq[f]
              /\ Len(cq'[Client(c)]) = Len(cq[Client(c)]) - k
              /\ \A i \in 1..Len(cq'[Client(c)]) : cq'[Client(c)][i] = cq[Client(c)][i + k]
              /\ client' \in [Clients -> ClientState]
              /\ \A d \in Clients : d # c => client'[d] = client[d]
              /\ client'[c].rcvd = client[c].rcvd
              /\ client'[c].confirm < Count /\ client'[c].pc \notin Waiting
              /\ ring' = IF test = "fake" THEN ring
                         ELSE [ring EXCEPT ![Client(c)].last = @ + k]
              /\ aborted' \subseteq Clients \cup {"server"}
    BY ClientPollFacts
  <1>5. ring' \in [End -> [next : Int, last : Int]]
    <2>1. PICK z \in [next : Int, last : Int] :
             z = [ring[Client(c)] EXCEPT !.last = @ + k]
      <3>1. PICK y \in [next : Int, last : Int] : y = ring[Client(c)]
        BY <1>1
      <3>2. PICK l \in Int : l = y.last + k
        BY <1>4
      <3>3. [y EXCEPT !.last = l] \in [next : Int, last : Int]
        OBVIOUS
      <3>4. QED
        BY <3>1, <3>2, <3>3
    <2>2. ring' = ring \/ ring' = [ring EXCEPT ![Client(c)] = z]
      BY <1>4, <2>1
    <2>3. QED
      BY <1>1, <2>2
  <1>6. ShapeInv'
    BY <1>1, <1>2, <1>4, <1>5 DEF ShapeInv
  <1>7. \A i \in 1..Len(cq'[Client(c)]) : i + k \in 1..Len(cq[Client(c)])
    <2>1. Len(cq[Client(c)]) \in Nat
      BY <1>1 DEF ShapeInv
    <2>2. QED
      BY <1>4, <2>1
  <1>8. (\A i \in 1..Len(cq[Client(c)]) : cq[Client(c)][i].op # "RECV") =>
               \A i \in 1..Len(cq'[Client(c)]) : cq'[Client(c)][i].op # "RECV"
    <2>1. SUFFICES ASSUME \A i \in 1..Len(cq[Client(c)]) : cq[Client(c)][i].op # "RECV",
                          NEW i \in 1..Len(cq'[Client(c)])
                   PROVE  cq'[Client(c)][i].op # "RECV"
      OBVIOUS
    <2>2. PICK j \in 1..Len(cq[Client(c)]) : j = i + k
      BY <1>7
    <2>3. cq'[Client(c)][i] = cq[Client(c)][j]
      BY <1>4, <2>2
    <2>4. QED
      BY <2>1, <2>3
  <1>9. \A d \in Clients : d # c => cq'[Client(d)] = cq[Client(d)]
    BY <1>1, <1>4, EndFacts
  <1>10. QED
    BY <1>2, <1>3, <1>4, <1>6, <1>8, <1>9, ClientQuiet

\* What ClientAwait does: it takes wc off the queue, and the client goes to D.
Awaited(c, pc, D, wc, s, t) ==
    /\ 1 \in 1..Len(cq[Client(c)]) /\ wc = cq[Client(c)][1]
    /\ cq' \in [End -> Seq(Completion)]
    /\ \A f \in End : f # Client(c) => cq'[f] = cq[f]
    /\ Len(cq'[Client(c)]) = Len(cq[Client(c)]) - 1
    /\ \A i \in 1..Len(cq'[Client(c)]) : cq'[Client(c)][i] = cq[Client(c)][i + 1]
    /\ s <=> client[c].sent \/ wc.op = "SEND"
    /\ t <=> client[c].rcvd \/ wc.op = "RECV"
    /\ client' \in [Clients -> ClientState] /\ client'[c] = D
    /\ \A d \in Clients : d # c => client'[d] = client[d]
    /\ D.round = client[c].round
    /\ s /\ t => /\ D.pc = IF pc = "exchange" THEN "request" ELSE "data"
                 /\ D.index = 0 /\ D.confirm = 0 /\ ~D.sent /\ ~D.rcvd
    /\ ~(s /\ t) => /\ D.pc = pc /\ D.index = client[c].index
                    /\ D.confirm = client[c].confirm /\ D.sent = s /\ D.rcvd = t
    /\ buffer_peer' = IF s /\ t /\ pc = "exchange"
                      THEN [buffer_peer EXCEPT ![c] = at0[c]] ELSE buffer_peer
    /\ aborted' \subseteq Clients \cup {"server"}
    /\ \/ wc.op = "SEND" /\ ~client[c].sent
       \/ wc.op = "RECV" /\ wc.msg = Expected(pc) /\ ~client[c].rcvd
       => aborted' = aborted

\* The completion a client takes while it waits, and where it is after that.
LEMMA ClientAwaitFacts ==
    ASSUME IndInv, NEW c \in Clients, NEW pc \in {"exchange", "answer"}, ClientAwait(c, pc)
    PROVE  \E D \in ClientState, wc \in Completion, s \in BOOLEAN, t \in BOOLEAN :
              Awaited(c, pc, D, wc, s, t)
  <1> DEFINE v == Head(cq[Client(c)])
             sent == client[c].sent \/ v.op = "SEND"
             rcvd == client[c].rcvd \/ v.op = "RECV"
             next == IF pc = "exchange" THEN "request" ELSE "data"
             x == IF Both(sent, rcvd)
                  THEN [client[c] EXCEPT !.pc = next, !.index = 0, !.confirm = 0,
                                         !.sent = FALSE, !.rcvd = FALSE]
                  ELSE [client[c] EXCEPT !.sent = sent, !.rcvd = rcvd]
  <1>1. ShapeInv /\ Client(c) \in End /\ client[c] \in ClientState
    BY EndFacts DEF IndInv, ShapeInv
  <1>2. /\ client[c].pc = pc /\ Poll(Client(c), 1)
        /\ client' = [client EXCEPT ![c] = x]
        /\ buffer_peer' = IF Both(sent, rcvd) /\ pc = "exchange"
                          THEN [buffer_peer EXCEPT ![c] = at0[c]] ELSE buffer_peer
        /\ Check(c, \/ v.op = "SEND" /\ ~client[c].sent
                    \/ v.op = "RECV" /\ v.msg = Expected(pc) /\ ~client[c].rcvd)
    BY DEF ClientAwait, Running
  <1>3. PICK m \in Nat : m = 1 /\ m >= 1
    OBVIOUS
  <1>4. PICK k \in Nat :
              /\ k >= 1 /\ k <= m /\ k <= Len(cq[Client(c)])
              /\ cq' \in [End -> Seq(Completion)]
              /\ \A f \in End : f # Client(c) => cq'[f] = cq[f]
              /\ Len(cq'[Client(c)]) = Len(cq[Client(c)]) - k
              /\ \A i \in 1..Len(cq'[Client(c)]) : cq'[Client(c)][i] = cq[Client(c)][i + k]
              /\ v = cq[Client(c)][1] /\ cq[Client(c)][1] \in Completion
    <2>1. Poll(Client(c), m)
      BY <1>2, <1>3
    <2>2. QED
      BY <1>1, <1>3, <2>1, PollFacts
  <1>5. aborted' \subseteq Clients \cup {"server"}
    BY <1>1, <1>2, CheckFacts
  <1>6. Len(cq[Client(c)]) \in Nat /\ 1 \in 1..Len(cq[Client(c)]) /\ k = 1
    <2>1. Len(cq[Client(c)]) \in Nat
      BY <1>1 DEF ShapeInv
    <2>2. QED
      BY <1>3, <1>4, <2>1
  <1>7. PICK wc \in Completion : wc = v /\ wc = cq[Client(c)][1]
    BY <1>4
  <1>8. \/ wc.op = "SEND" /\ ~client[c].sent
        \/ wc.op = "RECV" /\ wc.msg = Expected(pc) /\ ~client[c].rcvd
        => aborted' = aborted
    BY <1>2, <1>7 DEF Check
  <1> HIDE DEF v
  <1>9. PICK s \in BOOLEAN, t \in BOOLEAN : s = sent /\ t = rcvd
    BY Zenon
  <1>10. /\ s <=> client[c].sent \/ wc.op = "SEND"
         /\ t <=> client[c].rcvd \/ wc.op = "RECV"
    BY <1>7, <1>9
  <1>11. PICK D \in ClientState :
            /\ D = x /\ D.round = client[c].round
            /\ s /\ t => /\ D.pc = next /\ D.index = 0 /\ D.confirm = 0
                         /\ ~D.sent /\ ~D.rcvd
            /\ ~(s /\ t) => /\ D.pc = pc /\ D.index = client[c].index
                            /\ D.confirm = client[c].confirm /\ D.sent = s /\ D.rcvd = t
    <2>1. PICK z \in 0..Count : z = 0
      BY Constants
    <2>2. next \in ClientPc
      BY DEF ClientPc, Tests
    <2>3. x = IF s /\ t
              THEN [client[c] EXCEPT !.pc = next, !.index = z, !.confirm = z,
                                     !.sent = FALSE, !.rcvd = FALSE]
              ELSE [client[c] EXCEPT !.sent = s, !.rcvd = t]
      BY <1>9, <2>1 DEF Both
    <2> HIDE DEF x, next, sent, rcvd
    <2>4. CASE s /\ t
      <3>1. x = [client[c] EXCEPT !.pc = next, !.index = z, !.confirm = z,
                                  !.sent = FALSE, !.rcvd = FALSE]
        BY <2>3, <2>4
      <3>2. /\ x \in ClientState /\ x.confirm = z /\ x.pc = next /\ x.index = z
            /\ ~x.sent /\ ~x.rcvd /\ x.round = client[c].round
        BY <1>1, <2>2, <3>1, Zenon DEF ClientState
      <3>3. QED
        BY <2>1, <2>4, <3>2, Zenon
    <2>5. CASE ~(s /\ t)
      <3>1. x = [client[c] EXCEPT !.sent = s, !.rcvd = t]
        BY <2>3, <2>5
      <3>2. /\ x \in ClientState /\ x.confirm = client[c].confirm /\ x.pc = client[c].pc
            /\ x.sent = s /\ x.rcvd = t /\ x.index = client[c].index
            /\ x.round = client[c].round
        BY <1>1, <3>1, Zenon DEF ClientState
      <3>3. QED
        BY <1>2, <2>5, <3>2, Zenon
    <2>6. QED
      BY <2>4, <2>5
  <1>12. buffer_peer' = IF s /\ t /\ pc = "exchange"
                        THEN [buffer_peer EXCEPT ![c] = at0[c]] ELSE buffer_peer
    BY <1>2, <1>9 DEF Both
  <1> HIDE DEF x, sent, rcvd
  <1>13. /\ client' \in [Clients -> ClientState] /\ client'[c] = D
         /\ \A d \in Clients : d # c => client'[d] = client[d]
    BY <1>1, <1>2, <1>11, ClientMoves
  <1>14. /\ Len(cq'[Client(c)]) = Len(cq[Client(c)]) - 1
         /\ \A i \in 1..Len(cq'[Client(c)]) : cq'[Client(c)][i] = cq[Client(c)][i + 1]
    BY <1>4, <1>6
  <1>15. Awaited(c, pc, D, wc, s, t)
    BY <1>4, <1>5, <1>6, <1>7, <1>8, <1>10, <1>11, <1>12, <1>13, <1>14, Zenon DEF Awaited
  <1>16. QED
    BY <1>15, Zenon

\* A client that has a message has the response, and with it the descriptor.
LEMMA ClientAwaitStep ==
    ASSUME IndInv, NEW c \in Clients, NEW pc \in {"exchange", "answer"}, ClientAwait(c, pc)
    PROVE  IndInv'
  <1>1. /\ ShapeInv /\ Client(c) \in End /\ client[c] \in ClientState
        /\ LoopAt(c) /\ FirstAt(c) /\ at0 \in [Clients -> Content]
        /\ buffer_peer \in [Clients -> Content \cup {"unset"}]
    BY EndFacts DEF IndInv, ShapeInv
  <1>2. /\ client[c].pc = pc
        /\ UNCHANGED <<server, m_mutex, active, said, at0, ring, recvs, sq, unacked>>
    BY DEF ClientAwait, Running
  <1>d. PICK D \in ClientState, wc \in Completion, s \in BOOLEAN, t \in BOOLEAN :
           Awaited(c, pc, D, wc, s, t)
    BY ClientAwaitFacts
  <1>3. /\ 1 \in 1..Len(cq[Client(c)]) /\ wc = cq[Client(c)][1]
        /\ cq' \in [End -> Seq(Completion)]
        /\ \A f \in End : f # Client(c) => cq'[f] = cq[f]
        /\ Len(cq'[Client(c)]) = Len(cq[Client(c)]) - 1
        /\ \A i \in 1..Len(cq'[Client(c)]) : cq'[Client(c)][i] = cq[Client(c)][i + 1]
        /\ t <=> client[c].rcvd \/ wc.op = "RECV"
        /\ client' \in [Clients -> ClientState] /\ client'[c] = D
        /\ \A d \in Clients : d # c => client'[d] = client[d]
        /\ s /\ t => /\ D.pc = IF pc = "exchange" THEN "request" ELSE "data"
                     /\ D.confirm = 0
        /\ ~(s /\ t) => D.pc = pc /\ D.confirm = client[c].confirm /\ D.rcvd = t
        /\ buffer_peer' = IF s /\ t /\ pc = "exchange"
                          THEN [buffer_peer EXCEPT ![c] = at0[c]] ELSE buffer_peer
        /\ aborted' \subseteq Clients \cup {"server"}
    BY <1>d, Zenon DEF Awaited
  <1>4. (\A i \in 1..Len(cq[Client(c)]) : cq[Client(c)][i].op # "RECV") =>
               \A i \in 1..Len(cq'[Client(c)]) : cq'[Client(c)][i].op # "RECV"
    <2>1. Len(cq[Client(c)]) \in Nat
      BY <1>1 DEF ShapeInv
    <2>2. \A i \in 1..Len(cq'[Client(c)]) : i + 1 \in 1..Len(cq[Client(c)])
      BY <1>3, <2>1
    <2>3. \A i \in 1..Len(cq'[Client(c)]) : cq'[Client(c)][i] = cq[Client(c)][i + 1]
      BY <1>3
    <2>4. QED
      BY <2>2, <2>3
  <1>5. Nothing(c) => ~t
    BY <1>3 DEF Nothing
  <1>6. t => at0[c] = c
    BY <1>1, <1>5 DEF FirstAt
  <1>7. /\ buffer_peer' \in [Clients -> Content \cup {"unset"}]
        /\ \A d \in Clients : d # c => buffer_peer'[d] = buffer_peer[d]
        /\ buffer_peer'[c] = IF s /\ t /\ pc = "exchange" THEN at0[c] ELSE buffer_peer[c]
    BY <1>1, <1>3
  <1>8. ShapeInv'
    BY <1>1, <1>2, <1>3, <1>7 DEF ShapeInv
  <1>9. FirstAt(c)'
    <2>1. buffer_peer'[c] = IF client'[c].pc \in Waiting THEN "unset" ELSE c
      <3>1. CASE s /\ t
        BY <1>1, <1>2, <1>3, <1>6, <1>7, <3>1 DEF FirstAt, Waiting
      <3>2. CASE ~(s /\ t)
        <4>1. client'[c].pc = pc /\ buffer_peer'[c] = buffer_peer[c]
          BY <1>3, <1>7, <3>2
        <4>2. QED
          BY <1>1, <1>2, <4>1 DEF FirstAt
      <3>3. QED
        BY <3>1, <3>2
    <2>2. Nothing(c) => Nothing(c)'
      <3>1. SUFFICES ASSUME Nothing(c) PROVE Nothing(c)'
        OBVIOUS
      <3>2. /\ client'[c].pc = client[c].pc /\ ~client'[c].rcvd
            /\ buffer_peer'[c] = buffer_peer[c]
        BY <1>2, <1>3, <1>5, <1>7, <3>1
      <3>3. QED
        BY <1>2, <1>4, <3>1, <3>2 DEF Nothing
    <2>3. QED
      BY <1>1, <1>2, <2>1, <2>2 DEF FirstAt
  <1>10. \A d \in Clients : d # c => cq'[Client(d)] = cq[Client(d)]
    BY <1>1, <1>3, EndFacts
  <1>11. client'[c].confirm < Count
    BY <1>1, <1>3, Constants DEF LoopAt
  <1>12. QED
    BY <1>2, <1>3, <1>7, <1>8, <1>9, <1>10, <1>11, ClientFrame

-----------------------------------------------------------------------------
(* The steps of a thread of the server *)

\* The thread that holds the mutex is alone.
LEMMA ServerHolds ==
    ASSUME IndInv, NEW c \in Clients, server[c].pc \notin {"start", "done"}
    PROVE  /\ m_mutex = c
           /\ \A d \in Clients : d # c => server[d].pc \in {"start", "done"}
  <1>1. \A d \in Clients : HoldAt(d)
    BY DEF IndInv
  <1>2. m_mutex = c
    BY <1>1 DEF HoldAt
  <1>3. QED
    BY <1>1, <1>2 DEF HoldAt

\* A step of a thread that sends nothing, and does not end the time before the response.
LEMMA ServerQuiet ==
    ASSUME IndInv, ShapeInv', NEW c \in Clients,
           client' = client, at0' = at0, buffer_peer' = buffer_peer,
           \A d \in Clients : d # c => server'[d] = server[d],
           \A d \in Clients : sq'[Server(d)] = sq[Server(d)],
           \A d \in Clients : cq'[Client(d)] = cq[Client(d)],
           \A d \in Clients : d # c /\ server[d].pc \notin {"start", "done"} =>
              m_mutex' = m_mutex /\ active' = active,
           server'[c].pc \in Unasked <=> server[c].pc \in Unasked,
           LoopAt(c)', HoldAt(c)'
    PROVE  IndInv'
  <1>1. FirstAt(c)
    BY DEF IndInv
  <1>2. /\ client'[c] = client[c] /\ at0'[c] = at0[c] /\ buffer_peer'[c] = buffer_peer[c]
        /\ sq'[Server(c)] = sq[Server(c)] /\ cq'[Client(c)] = cq[Client(c)]
    OBVIOUS
  <1>3. FirstAt(c)'
    BY <1>1, <1>2, FirstSame
  <1>4. QED
    BY <1>3, ServerFrame

\* A thread changes its place only.
LEMMA ServerGoes ==
    ASSUME IndInv, NEW c \in Clients, NEW pc \in ServerPc,
           server' = [server EXCEPT ![c].pc = pc]
    PROVE  /\ server' \in [Clients -> ServerState]
           /\ \A d \in Clients : d # c => server'[d] = server[d]
           /\ server'[c].pc = pc /\ server'[c].index = server[c].index
  <1>1. ShapeInv /\ server[c] \in ServerState
    BY DEF IndInv, ShapeInv
  <1>2. PICK r : r = [server[c] EXCEPT !.pc = pc]
    OBVIOUS
  <1>3. r \in ServerState
    BY <1>1, <1>2, NewPlace
  <1>4. server' = [server EXCEPT ![c] = r]
    BY <1>2
  <1>5. /\ server' \in [Clients -> ServerState] /\ server'[c] = r
        /\ \A d \in Clients : d # c => server'[d] = server[d]
    BY <1>1, <1>3, <1>4, ServerMoves
  <1>6. r.pc = pc /\ r.index = server[c].index
    BY <1>1, <1>2 DEF ServerState
  <1>7. QED
    BY <1>5, <1>6

\* A thread after register_buffer polls its own channel.
LEMMA ServerPollsFacts ==
    ASSUME IndInv, NEW c \in Clients, NEW pc, pc \notin {"start", "register", "done"},
           NEW good, ServerPolls(c, pc, good)
    PROVE  /\ server[c].pc = pc /\ Active = Server(c) /\ active = c /\ m_mutex = c
           /\ cq' \in [End -> Seq(Completion)]
           /\ \A d \in Clients : cq'[Client(d)] = cq[Client(d)]
           /\ aborted' \subseteq Clients \cup {"server"}
  <1>1. ShapeInv /\ HoldAt(c) /\ Server(c) \in End
    BY EndFacts DEF IndInv
  <1>2. server[c].pc = pc /\ Poll(Active, 1) /\ Check("server", good)
    BY DEF ServerPolls, Serving
  <1>3. active = c /\ m_mutex = c /\ Active = Server(c)
    BY <1>1, <1>2 DEF HoldAt, Active
  <1>4. PICK m \in Nat : m = 1 /\ m >= 1
    OBVIOUS
  <1>5. Poll(Server(c), m)
    BY <1>2, <1>3, <1>4
  <1>6. cq' \in [End -> Seq(Completion)] /\ \A f \in End : f # Server(c) => cq'[f] = cq[f]
    BY <1>1, <1>4, <1>5, PollFacts
  <1>7. \A d \in Clients : cq'[Client(d)] = cq[Client(d)]
    BY <1>6, EndFacts
  <1>8. aborted' \subseteq Clients \cup {"server"}
    BY <1>1, <1>2, CheckFacts
  <1>9. QED
    BY <1>2, <1>3, <1>6, <1>7, <1>8

LEMMA ServerLockStep ==
    ASSUME IndInv, NEW c \in Clients, ServerLock(c) PROVE IndInv'
  <1>1. ShapeInv /\ LoopAt(c) /\ \A d \in Clients : HoldAt(d)
    BY DEF IndInv
  <1>2. /\ server[c].pc = "start" /\ m_mutex = "none" /\ m_mutex' = c
        /\ server' = [server EXCEPT ![c].pc = "register"]
        /\ UNCHANGED <<client, active, said, at0, buffer_peer, ring, recvs, sq, unacked,
                       cq, aborted>>
    BY DEF ServerLock, Serving, nic
  <1>3. /\ server' \in [Clients -> ServerState]
        /\ \A d \in Clients : d # c => server'[d] = server[d]
        /\ server'[c].pc = "register"
    <2>1. "register" \in ServerPc
      BY DEF ServerPc
    <2>2. QED
      BY <1>2, <2>1, ServerGoes
  <1>4. ShapeInv'
    BY <1>1, <1>2, <1>3 DEF ShapeInv
  <1>5. \A d \in Clients : server[d].pc \in {"start", "done"}
    BY <1>1, <1>2, Constants DEF HoldAt
  <1>6. server'[c].pc \in Unasked <=> server[c].pc \in Unasked
    BY <1>2, <1>3 DEF Unasked
  <1>7. LoopAt(c)' /\ HoldAt(c)'
    BY <1>1, <1>2, <1>3 DEF LoopAt, HoldAt
  <1>8. QED
    BY <1>2, <1>3, <1>4, <1>5, <1>6, <1>7, ServerQuiet

LEMMA ServerRegisterStep ==
    ASSUME IndInv, NEW c \in Clients, ServerRegister(c) PROVE IndInv'
  <1>1. ShapeInv /\ LoopAt(c) /\ Server(c) \in End
    BY EndFacts DEF IndInv
  <1>2. /\ server[c].pc = "register" /\ active' = c
        /\ server' = [server EXCEPT ![c].pc = "sync"]
        /\ PostRecv(Server(c), BlockBytes)
        /\ UNCHANGED <<client, m_mutex, said, at0, buffer_peer, ring, sq, unacked, cq,
                       aborted>>
    BY DEF ServerRegister, Serving
  <1>3. m_mutex = c /\ \A d \in Clients : d # c => server[d].pc \in {"start", "done"}
    BY <1>2, ServerHolds
  <1>4. /\ server' \in [Clients -> ServerState]
        /\ \A d \in Clients : d # c => server'[d] = server[d]
        /\ server'[c].pc = "sync"
    <2>1. "sync" \in ServerPc
      BY DEF ServerPc
    <2>2. QED
      BY <1>2, <2>1, ServerGoes
  <1>5. recvs' \in [End -> Seq(Receive)]
    BY <1>1, <1>2, Sizes, PostRecvFacts
  <1>6. ShapeInv'
    BY <1>1, <1>2, <1>4, <1>5 DEF ShapeInv
  <1>7. server'[c].pc \in Unasked <=> server[c].pc \in Unasked
    BY <1>2, <1>4 DEF Unasked
  <1>8. LoopAt(c)' /\ HoldAt(c)'
    BY <1>1, <1>2, <1>3, <1>4 DEF LoopAt, HoldAt
  <1>9. QED
    BY <1>2, <1>3, <1>4, <1>6, <1>7, <1>8, ServerQuiet

LEMMA ServerSyncStep ==
    ASSUME IndInv, NEW c \in Clients, ServerSyncSend(c) \/ ServerSyncRecv(c) PROVE IndInv'
  <1>1. ShapeInv /\ LoopAt(c) /\ HoldAt(c) /\ Server(c) \in End
    BY EndFacts DEF IndInv
  <1>2. PICK to \in {"synced", "exchange"} :
           /\ server[c].pc \in {"sync", "synced"}
           /\ server' = [server EXCEPT ![c].pc = to]
           /\ said' \in [End -> BOOLEAN]
           /\ UNCHANGED <<client, m_mutex, active, at0, buffer_peer, ring, recvs, sq, unacked,
                          cq, aborted>>
    <2>1. said \in [End -> BOOLEAN]
      BY <1>1 DEF ShapeInv
    <2>2. CASE ServerSyncSend(c)
      <3>1. said' \in [End -> BOOLEAN]
        BY <1>1, <2>1, <2>2, Zenon DEF ServerSyncSend
      <3>2. QED
        BY <2>2, <3>1 DEF ServerSyncSend, Serving, nic
    <2>3. CASE ServerSyncRecv(c)
      <3>1. said' \in [End -> BOOLEAN]
        BY <2>1, <2>3 DEF ServerSyncRecv
      <3>2. QED
        BY <2>3, <3>1 DEF ServerSyncRecv, Serving, nic
    <2>4. QED
      BY <2>2, <2>3
  <1>3. /\ server' \in [Clients -> ServerState]
        /\ \A d \in Clients : d # c => server'[d] = server[d]
        /\ server'[c].pc = to
    <2>1. to \in ServerPc
      BY DEF ServerPc
    <2>2. QED
      BY <1>2, <2>1, ServerGoes
  <1>4. ShapeInv'
    BY <1>1, <1>2, <1>3 DEF ShapeInv
  <1>5. server'[c].pc \in Unasked <=> server[c].pc \in Unasked
    BY <1>2, <1>3 DEF Unasked
  <1>6. LoopAt(c)' /\ HoldAt(c)'
    BY <1>1, <1>2, <1>3 DEF LoopAt, HoldAt
  <1>7. QED
    BY <1>2, <1>3, <1>4, <1>5, <1>6, ServerQuiet

\* The response is the first work request of the server.
LEMMA ServerExchangeStep ==
    ASSUME IndInv, NEW c \in Clients, ServerExchange(c) PROVE IndInv'
  <1>1. ShapeInv /\ LoopAt(c) /\ HoldAt(c) /\ FirstAt(c) /\ Server(c) \in End
    BY EndFacts DEF IndInv
  <1>2. /\ server[c].pc = "exchange" /\ Active = Server(c) /\ active = c /\ m_mutex = c
        /\ cq' \in [End -> Seq(Completion)]
        /\ \A d \in Clients : cq'[Client(d)] = cq[Client(d)]
        /\ aborted' \subseteq Clients \cup {"server"}
    <2>1. PICK good : ServerPolls(c, "exchange", good)
      BY DEF ServerExchange
    <2>2. QED
      BY <2>1, ServerPollsFacts
  <1>3. /\ server' = [server EXCEPT ![c].pc = "responded"]
        /\ Post(Server(c), Response(c))
        /\ UNCHANGED <<client, m_mutex, active, said, at0, buffer_peer, ring, recvs, unacked>>
    BY <1>2 DEF ServerExchange, Response
  <1>4. PICK w \in Request : w = Response(c) /\ w.op = "SEND" /\ w.data = c
    <2>1. /\ "RESPONSE_TO_REQUEST_BUFFER" \in Msg /\ CtlBytes \in Nat /\ 1 \in {0, 1}
          /\ c \in Content
      BY Constants DEF Msg, Content
    <2>2. Response(c) \in Request
      BY <2>1, SendType DEF Response
    <2>3. Response(c).op = "SEND" /\ Response(c).data = c
      BY DEF Response, Send
    <2>4. QED
      BY <2>2, <2>3
  <1>5. /\ server' \in [Clients -> ServerState]
        /\ \A d \in Clients : d # c => server'[d] = server[d]
        /\ server'[c].pc = "responded"
    <2>1. "responded" \in ServerPc
      BY DEF ServerPc
    <2>2. QED
      BY <1>3, <2>1, ServerGoes
  <1>6. /\ sq' \in [End -> Seq(Request)] /\ sq'[Server(c)] = Append(sq[Server(c)], w)
        /\ \A f \in End : f # Server(c) => sq'[f] = sq[f]
    BY <1>1, <1>3, <1>4, PostFacts
  <1>7. ShapeInv'
    BY <1>1, <1>2, <1>3, <1>5, <1>6 DEF ShapeInv
  <1>8. Nothing(c) /\ sq[Server(c)] = <<>>
    BY <1>1, <1>2 DEF FirstAt, Nothing, Unasked
  <1>9. /\ sq'[Server(c)] # <<>> /\ Len(sq'[Server(c)]) = 1 /\ sq'[Server(c)][1] = w
    BY <1>6, <1>8
  <1>10. Nothing(c)'
    BY <1>2, <1>3, <1>4, <1>5, <1>8, <1>9 DEF Nothing, Unasked, Response
  <1>11. FirstAt(c)'
    <2>1. \A i \in 1..Len(sq'[Server(c)]) :
             sq'[Server(c)][i].op = "SEND" /\ sq'[Server(c)][i].data = c
      BY <1>4, <1>9
    <2>2. buffer_peer'[c] = IF client'[c].pc \in Waiting THEN "unset" ELSE c
      BY <1>1, <1>3 DEF FirstAt
    <2>3. QED
      BY <1>10, <2>1, <2>2 DEF FirstAt
  <1>12. LoopAt(c)' /\ HoldAt(c)'
    BY <1>1, <1>2, <1>3, <1>5 DEF LoopAt, HoldAt
  <1>13. \A d \in Clients : d # c => sq'[Server(d)] = sq[Server(d)]
    BY <1>1, <1>6, EndFacts
  <1>14. QED
    BY <1>2, <1>3, <1>5, <1>7, <1>11, <1>12, <1>13, ServerFrame

LEMMA ServerSentStep ==
    ASSUME IndInv, NEW c \in Clients, NEW pc \in {"responded", "answered"}, ServerSent(c, pc)
    PROVE  IndInv'
  <1>1. ShapeInv /\ LoopAt(c) /\ HoldAt(c) /\ server[c] \in ServerState
    BY DEF IndInv, ShapeInv
  <1>2. /\ server[c].pc = pc /\ Active = Server(c) /\ active = c /\ m_mutex = c
        /\ cq' \in [End -> Seq(Completion)]
        /\ \A d \in Clients : cq'[Client(d)] = cq[Client(d)]
        /\ aborted' \subseteq Clients \cup {"server"}
    <2>1. PICK good : ServerPolls(c, pc, good)
      BY DEF ServerSent
    <2>2. QED
      BY <2>1, ServerPollsFacts
  <1>3. PICK to \in {"round", "data"} : to = IF pc = "responded" THEN "round" ELSE "data"
    OBVIOUS
  <1>4. PICK z \in 0..Count : z = 0 /\ z < Count
    BY Constants
  <1>5. /\ server' = [server EXCEPT ![c] = [server[c] EXCEPT !.pc = to, !.index = z]]
        /\ UNCHANGED <<client, m_mutex, active, said, at0, buffer_peer, ring, recvs, sq,
                       unacked>>
    BY <1>1, <1>3, <1>4 DEF ServerSent, ShapeInv
  <1>6. PICK r \in ServerState : r = [server[c] EXCEPT !.pc = to, !.index = z]
                                  /\ r.pc = to /\ r.index = z
    <2>1. to \in ServerPc
      BY DEF ServerPc
    <2>2. PICK r : r = [server[c] EXCEPT !.pc = to, !.index = z]
      OBVIOUS
    <2>3. r \in ServerState /\ r.pc = to /\ r.index = z
      BY <1>1, <2>1, <2>2, Zenon DEF ServerState
    <2>4. QED
      BY <2>2, <2>3
  <1>7. /\ server' \in [Clients -> ServerState] /\ server'[c] = r
        /\ \A d \in Clients : d # c => server'[d] = server[d]
    BY <1>1, <1>5, <1>6, ServerMoves
  <1>8. ShapeInv'
    BY <1>1, <1>2, <1>5, <1>7 DEF ShapeInv
  <1>9. server'[c].pc \in Unasked <=> server[c].pc \in Unasked
    BY <1>2, <1>6, <1>7 DEF Unasked
  <1>10. LoopAt(c)' /\ HoldAt(c)'
    BY <1>1, <1>2, <1>4, <1>5, <1>6, <1>7 DEF LoopAt, HoldAt
  <1>11. QED
    BY <1>2, <1>5, <1>7, <1>8, <1>9, <1>10, ServerQuiet

LEMMA ServerPostControlStep ==
    ASSUME IndInv, NEW c \in Clients, NEW pc \in {"round", "final"}, ServerPostControl(c, pc)
    PROVE  IndInv'
  <1>1. ShapeInv /\ LoopAt(c) /\ HoldAt(c) /\ Server(c) \in End
    BY EndFacts DEF IndInv
  <1>2. PICK to \in {"request", "bye"} : to = IF pc = "round" THEN "request" ELSE "bye"
    OBVIOUS
  <1>3. /\ server[c].pc = pc /\ server' = [server EXCEPT ![c].pc = to]
        /\ PostRecv(Active, CtlBytes)
        /\ UNCHANGED <<client, m_mutex, active, said, at0, buffer_peer, ring, sq, unacked,
                       cq, aborted>>
    BY <1>2 DEF ServerPostControl, Serving
  <1>4. active = c /\ m_mutex = c /\ Active = Server(c)
    BY <1>1, <1>3 DEF HoldAt, Active
  <1>5. /\ server' \in [Clients -> ServerState]
        /\ \A d \in Clients : d # c => server'[d] = server[d]
        /\ server'[c].pc = to
    <2>1. to \in ServerPc
      BY DEF ServerPc
    <2>2. QED
      BY <1>3, <2>1, ServerGoes
  <1>6. recvs' \in [End -> Seq(Receive)]
    BY <1>1, <1>3, <1>4, Constants, PostRecvFacts
  <1>7. ShapeInv'
    BY <1>1, <1>3, <1>5, <1>6 DEF ShapeInv
  <1>8. server'[c].pc \in Unasked <=> server[c].pc \in Unasked
    BY <1>3, <1>5 DEF Unasked
  <1>9. LoopAt(c)' /\ HoldAt(c)'
    BY <1>1, <1>3, <1>4, <1>5 DEF LoopAt, HoldAt
  <1>10. QED
    BY <1>3, <1>5, <1>7, <1>8, <1>9, ServerQuiet

\* A work request of the server behind the response.
LEMMA FirstBehind ==
    ASSUME NEW c \in Clients, FirstAt(c), server[c].pc \notin Unasked,
           server'[c].pc \notin Unasked, client' = client, at0' = at0,
           buffer_peer' = buffer_peer, cq'[Client(c)] = cq[Client(c)],
           sq[Server(c)] \in Seq(Request), NEW w \in Request, w.op = "SEND", w.len = 0,
           sq'[Server(c)] = Append(sq[Server(c)], w)
    PROVE  FirstAt(c)'
  <1>1. PICK q \in Seq(Request) : q = sq[Server(c)]
    OBVIOUS
  <1>2. PICK r \in Seq(Request) : r = sq'[Server(c)] /\ r = Append(q, w)
    <2>1. Append(q, w) \in Seq(Request)
      OBVIOUS
    <2>2. QED
      BY <1>1, <2>1
  <1>3. /\ Len(q) \in Nat /\ Len(r) = Len(q) + 1 /\ r[Len(q) + 1] = w
        /\ \A i \in 1..Len(q) : r[i] = q[i]
    BY <1>1, <1>2, AppendFacts
  <1>4. r # <<>> /\ \A i \in 1..Len(r) : i \in 1..Len(q) \/ i = Len(q) + 1
    BY <1>2, <1>3
  <1>5. \A i \in 1..Len(q) : q[i].op = "SEND" /\ (q[i].len > 0 => q[i].data = c)
    BY <1>1 DEF FirstAt
  <1>6. \A i \in 1..Len(r) : r[i].op = "SEND" /\ (r[i].len > 0 => r[i].data = c)
    BY <1>3, <1>4, <1>5
  <1>7. Nothing(c) => Nothing(c)'
    <2> SUFFICES ASSUME Nothing(c) PROVE Nothing(c)'
      OBVIOUS
    <2>1. q # <<>> /\ q[1] = Response(c)
      BY <1>1 DEF Nothing
    <2>2. r[1] = Response(c)
      <3>1. 1 \in 1..Len(q)
        BY <2>1, <1>3
      <3>2. QED
        BY <1>3, <2>1, <3>1
    <2>3. /\ client'[c] = client[c] /\ buffer_peer'[c] = buffer_peer[c]
          /\ cq'[Client(c)] = cq[Client(c)]
      OBVIOUS
    <2>4. QED
      BY <1>2, <1>4, <2>2, <2>3 DEF Nothing, Response
  <1>8. /\ at0'[c] = at0[c] /\ buffer_peer'[c] = IF client'[c].pc \in Waiting THEN "unset" ELSE c
    BY DEF FirstAt
  <1>9. QED
    BY <1>2, <1>6, <1>7, <1>8 DEF FirstAt

\* The receives of a round.
LEMMA RoundReceives ==
    ASSUME IndInv, NEW c \in Clients, NEW new,
           new = [k \in 1..Count |-> [len |-> BlockBytes, block |-> NextBlock(Server(c), k)]]
    PROVE  /\ new \in Seq(Receive) /\ Len(new) = Count
           /\ \A k \in 1..Count : new[k].len = BlockBytes
  <1>1. ShapeInv /\ Server(c) \in End
    BY EndFacts DEF IndInv
  <1>2. \A k \in 1..Count : NextBlock(Server(c), k) \in Block
    <2>1. \A k \in 1..Count : ring[Server(c)].next + k \in Int
      BY <1>1 DEF ShapeInv
    <2>2. QED
      BY <2>1, BlockType DEF NextBlock
  <1>3. \A k \in 1..Count : [len |-> BlockBytes, block |-> NextBlock(Server(c), k)] \in Receive
    BY <1>2, Sizes DEF Receive
  <1>4. Count \in Nat
    BY Constants
  <1>5. new \in [1..Count -> Receive]
    BY <1>3
  <1>6. new \in Seq(Receive) /\ Len(new) = Count
    BY <1>4, <1>5
  <1>7. QED
    BY <1>6

LEMMA ServerRequestStep ==
    ASSUME IndInv, NEW c \in Clients, ServerRequest(c) PROVE IndInv'
  <1>1. ShapeInv /\ LoopAt(c) /\ HoldAt(c) /\ FirstAt(c) /\ Server(c) \in End
    BY EndFacts DEF IndInv
  <1>2. /\ server[c].pc = "request" /\ Active = Server(c) /\ active = c /\ m_mutex = c
        /\ cq' \in [End -> Seq(Completion)]
        /\ \A d \in Clients : cq'[Client(d)] = cq[Client(d)]
        /\ aborted' \subseteq Clients \cup {"server"}
    <2>1. PICK good : ServerPolls(c, "request", good)
      BY DEF ServerRequest
    <2>2. QED
      BY <2>1, ServerPollsFacts
  <1>3. PICK new : new = [k \in 1..Count |->
                             [len |-> BlockBytes, block |-> NextBlock(Server(c), k)]]
    OBVIOUS
  <1>4. PICK w : w = Send("RESPONSE_TO_SEND_TEST_REQUEST", AnswerBytes, 1, "zero")
    OBVIOUS
  <1>5. /\ server' = [server EXCEPT ![c].pc = "answered"]
        /\ recvs' = [recvs EXCEPT ![Server(c)] = @ \o new]
        /\ ring' = [ring EXCEPT ![Server(c)].next = @ + Count]
        /\ Post(Server(c), w)
        /\ UNCHANGED <<client, m_mutex, active, said, at0, buffer_peer, unacked>>
    BY <1>2, <1>3, <1>4 DEF ServerRequest
  <1>6. w \in Request /\ w.op = "SEND" /\ w.len = 0
    <2>1. /\ "RESPONSE_TO_SEND_TEST_REQUEST" \in Msg /\ AnswerBytes \in Nat /\ 1 \in {0, 1}
          /\ "zero" \in Content
      BY DEF Msg, Content, AnswerBytes
    <2>2. w \in Request
      BY <1>4, <2>1, SendType
    <2>3. QED
      BY <1>4, <2>2 DEF Send, AnswerBytes
  <1>7. new \in Seq(Receive)
    BY <1>3, RoundReceives
  <1>8. recvs' \in [End -> Seq(Receive)]
    <2>1. PICK q \in Seq(Receive) : q = recvs[Server(c)]
      BY <1>1 DEF ShapeInv
    <2>2. q \o new \in Seq(Receive)
      BY <1>7, ConcatProperties
    <2>3. QED
      BY <1>1, <1>5, <2>1, <2>2 DEF ShapeInv
  <1>9. ring' \in [End -> [next : Int, last : Int]]
    <2>1. PICK y \in [next : Int, last : Int] : y = ring[Server(c)]
      BY <1>1 DEF ShapeInv
    <2>2. PICK l \in Int : l = y.next + Count
      BY Constants
    <2>3. PICK z \in [next : Int, last : Int] : z = [y EXCEPT !.next = l]
      OBVIOUS
    <2>4. ring' = [ring EXCEPT ![Server(c)] = z]
      BY <1>5, <2>1, <2>2, <2>3
    <2>5. QED
      BY <1>1, <2>4 DEF ShapeInv
  <1>10. /\ server' \in [Clients -> ServerState]
         /\ \A d \in Clients : d # c => server'[d] = server[d]
         /\ server'[c].pc = "answered"
    <2>1. "answered" \in ServerPc
      BY DEF ServerPc
    <2>2. QED
      BY <1>5, <2>1, ServerGoes
  <1>11. /\ sq' \in [End -> Seq(Request)] /\ sq'[Server(c)] = Append(sq[Server(c)], w)
         /\ \A f \in End : f # Server(c) => sq'[f] = sq[f]
    BY <1>1, <1>5, <1>6, PostFacts
  <1>12. ShapeInv'
    BY <1>1, <1>2, <1>5, <1>8, <1>9, <1>10, <1>11 DEF ShapeInv
  <1>13. FirstAt(c)'
    <2>1. server[c].pc \notin Unasked /\ server'[c].pc \notin Unasked
      BY <1>2, <1>10 DEF Unasked
    <2>2. sq[Server(c)] \in Seq(Request)
      BY <1>1 DEF ShapeInv
    <2>3. QED
      BY <1>1, <1>2, <1>5, <1>6, <1>11, <2>1, <2>2, FirstBehind
  <1>14. LoopAt(c)' /\ HoldAt(c)'
    BY <1>1, <1>2, <1>5, <1>10 DEF LoopAt, HoldAt
  <1>15. \A d \in Clients : d # c => sq'[Server(d)] = sq[Server(d)]
    BY <1>1, <1>11, EndFacts
  <1>16. QED
    BY <1>2, <1>5, <1>10, <1>12, <1>13, <1>14, <1>15, ServerFrame

\* A thread counts a message of raw data.
LEMMA ServerCounts ==
    ASSUME IndInv, NEW c \in Clients, server[c].pc = "data", ServerData(c)
    PROVE  /\ server' \in [Clients -> ServerState] /\ server'[c].index = server[c].index + 1
           /\ \A d \in Clients : d # c => server'[d] = server[d]
           /\ server[c].index + 1 # Count =>
                 server'[c].pc = "data" /\ server'[c].round = server[c].round
           /\ server[c].index + 1 = Count =>
                 \/ /\ server[c].round < Rounds /\ server'[c].pc = "round"
                    /\ server'[c].round = server[c].round + 1
                 \/ /\ server[c].round = Rounds /\ server'[c].pc = "final"
                    /\ server'[c].round = server[c].round
  <1>1. ShapeInv /\ LoopAt(c) /\ server[c] \in ServerState
    BY DEF IndInv, ShapeInv
  <1>2. PICK i \in 0..Count : i = server[c].index + 1
    BY <1>1, Constants DEF LoopAt, ServerState
  <1>3. PICK n \in 1..Rounds :
           n = IF i = Count /\ server[c].round < Rounds THEN server[c].round + 1
               ELSE server[c].round
    BY <1>1, Constants DEF ServerState
  <1>4. PICK to \in {"data", "round", "final"} :
           to = IF i # Count THEN server[c].pc
                ELSE IF server[c].round < Rounds THEN "round" ELSE "final"
    OBVIOUS
  <1>5. PICK r : r = [server[c] EXCEPT !.index = i, !.pc = to, !.round = n]
    OBVIOUS
  <1>6. server' = [server EXCEPT ![c] = r]
    BY <1>1, <1>2, <1>3, <1>4, <1>5 DEF ServerData, ShapeInv
  <1>7. r \in ServerState /\ r.pc = to /\ r.index = i /\ r.round = n
    <2>1. to \in ServerPc
      BY DEF ServerPc
    <2>2. QED
      BY <1>1, <1>5, <2>1, Zenon DEF ServerState
  <1>8. /\ server' \in [Clients -> ServerState] /\ server'[c] = r
        /\ \A d \in Clients : d # c => server'[d] = server[d]
    BY <1>1, <1>6, <1>7, ServerMoves
  <1>9. server[c].round < Rounds \/ server[c].round = Rounds
    BY <1>1, Constants DEF ServerState
  <1>10. i # Count => to = "data" /\ n = server[c].round
    BY <1>3, <1>4
  <1>11. i = Count => \/ server[c].round < Rounds /\ to = "round" /\ n = server[c].round + 1
                      \/ server[c].round = Rounds /\ to = "final" /\ n = server[c].round
    BY <1>1, <1>3, <1>4, <1>9, Constants DEF ServerState
  <1>12. QED
    BY <1>2, <1>7, <1>8, <1>10, <1>11

LEMMA ServerDataStep ==
    ASSUME IndInv, NEW c \in Clients, ServerData(c) PROVE IndInv'
  <1>1. /\ ShapeInv /\ LoopAt(c) /\ HoldAt(c) /\ Server(c) \in End
        /\ server[c] \in ServerState
    BY EndFacts DEF IndInv, ShapeInv
  <1>2. /\ server[c].pc = "data" /\ Active = Server(c) /\ active = c /\ m_mutex = c
        /\ cq' \in [End -> Seq(Completion)]
        /\ \A d \in Clients : cq'[Client(d)] = cq[Client(d)]
        /\ aborted' \subseteq Clients \cup {"server"}
    <2>1. PICK good : ServerPolls(c, "data", good)
      BY DEF ServerData
    <2>2. QED
      BY <2>1, ServerPollsFacts
  <1>3. /\ ring' = [ring EXCEPT ![Server(c)].last = @ + 1]
        /\ UNCHANGED <<client, m_mutex, active, said, at0, buffer_peer, recvs, sq, unacked>>
    BY <1>2 DEF ServerData
  <1>4. /\ server' \in [Clients -> ServerState] /\ server'[c].index = server[c].index + 1
        /\ \A d \in Clients : d # c => server'[d] = server[d]
        /\ server'[c].pc \in {"data", "round", "final"}
        /\ server'[c].pc = "data" => server[c].index + 1 # Count
    BY <1>2, ServerCounts
  <1>5. ring' \in [End -> [next : Int, last : Int]]
    <2>1. PICK y \in [next : Int, last : Int] : y = ring[Server(c)]
      BY <1>1 DEF ShapeInv
    <2>2. PICK l \in Int : l = y.last + 1
      OBVIOUS
    <2>3. PICK z \in [next : Int, last : Int] : z = [y EXCEPT !.last = l]
      OBVIOUS
    <2>4. ring' = [ring EXCEPT ![Server(c)] = z]
      BY <1>3, <2>1, <2>2, <2>3
    <2>5. QED
      BY <1>1, <2>4 DEF ShapeInv
  <1>6. ShapeInv'
    BY <1>1, <1>2, <1>3, <1>4, <1>5 DEF ShapeInv
  <1>7. server'[c].pc \in Unasked <=> server[c].pc \in Unasked
    BY <1>2, <1>4 DEF Unasked
  <1>8. LoopAt(c)'
    <2>1. server'[c].pc = "data" => server'[c].index < Count
      BY <1>1, <1>2, <1>4, Constants DEF LoopAt, ServerState
    <2>2. QED
      BY <1>1, <1>3, <2>1 DEF LoopAt
  <1>9. HoldAt(c)'
    BY <1>2, <1>3 DEF HoldAt
  <1>10. QED
    BY <1>2, <1>3, <1>4, <1>6, <1>7, <1>8, <1>9, ServerQuiet

LEMMA ServerByeStep ==
    ASSUME IndInv, NEW c \in Clients, ServerBye(c) PROVE IndInv'
  <1>1. ShapeInv /\ LoopAt(c) /\ HoldAt(c)
    BY DEF IndInv
  <1>2. /\ server[c].pc = "bye" /\ Active = Server(c) /\ active = c /\ m_mutex = c
        /\ cq' \in [End -> Seq(Completion)]
        /\ \A d \in Clients : cq'[Client(d)] = cq[Client(d)]
        /\ aborted' \subseteq Clients \cup {"server"}
    <2>1. PICK good : ServerPolls(c, "bye", good)
      BY DEF ServerBye
    <2>2. QED
      BY <2>1, ServerPollsFacts
  <1>3. /\ server' = [server EXCEPT ![c].pc = "done"] /\ m_mutex' = "none"
        /\ UNCHANGED <<client, active, said, at0, buffer_peer, ring, recvs, sq, unacked>>
    BY DEF ServerBye
  <1>4. \A d \in Clients : d # c => server[d].pc \in {"start", "done"}
    BY <1>2, ServerHolds
  <1>5. /\ server' \in [Clients -> ServerState]
        /\ \A d \in Clients : d # c => server'[d] = server[d]
        /\ server'[c].pc = "done"
    <2>1. "done" \in ServerPc
      BY DEF ServerPc
    <2>2. QED
      BY <1>3, <2>1, ServerGoes
  <1>6. ShapeInv'
    BY <1>1, <1>2, <1>3, <1>5 DEF ShapeInv
  <1>7. server'[c].pc \in Unasked <=> server[c].pc \in Unasked
    BY <1>2, <1>5 DEF Unasked
  <1>8. LoopAt(c)' /\ HoldAt(c)'
    BY <1>1, <1>3, <1>5 DEF LoopAt, HoldAt
  <1>9. QED
    BY <1>2, <1>3, <1>4, <1>5, <1>6, <1>7, <1>8, ServerQuiet

-----------------------------------------------------------------------------
(* The steps of the NIC *)

\* A work request is executed: it leaves the send queue for the ones that wait for
\* their acknowledgement, with its outcome.
LEMMA ExecuteFacts ==
    ASSUME ShapeInv, NEW e \in End, sq[e] # <<>>, sq' = [sq EXCEPT ![e] = Tail(@)],
           NEW good \in BOOLEAN,
           unacked' = [unacked EXCEPT ![e] =
                          Append(@, IF good THEN Head(sq[e])
                                    ELSE [Head(sq[e]) EXCEPT !.op = "ERROR"])]
    PROVE  /\ sq' \in [End -> Seq(Request)] /\ unacked' \in [End -> Seq(Request)]
           /\ \A f \in End : f # e => sq'[f] = sq[f]
           /\ Head(sq[e]) \in Request /\ Head(sq[e]) = sq[e][1] /\ Len(sq[e]) \in Nat
           /\ 1 \in 1..Len(sq[e])
           /\ \A i \in 1..Len(sq'[e]) : sq'[e][i] = sq[e][i + 1] /\ i + 1 \in 1..Len(sq[e])
  <1>1. PICK q \in Seq(Request) : q = sq[e] /\ q # <<>>
    BY DEF ShapeInv
  <1>2. PICK r \in Seq(Request) : r = Tail(q)
    BY <1>1, TailFacts
  <1>3. /\ Len(q) \in Nat /\ Len(q) >= 1 /\ Len(r) = Len(q) - 1
        /\ \A i \in 1..Len(r) : r[i] = q[i + 1]
        /\ Head(q) = q[1] /\ q[1] \in Request
    BY <1>1, <1>2, TailFacts
  <1>4. sq' \in [End -> Seq(Request)] /\ sq'[e] = r /\ \A f \in End : f # e => sq'[f] = sq[f]
    BY <1>1, <1>2 DEF ShapeInv
  <1>5. PICK w \in Request : w = IF good THEN Head(q) ELSE [Head(q) EXCEPT !.op = "ERROR"]
    <2>1. ASSUME NEW x \in Request PROVE [x EXCEPT !.op = "ERROR"] \in Request
      BY DEF Request
    <2>2. QED
      BY <1>3, <2>1
  <1>6. PICK u \in Seq(Request) : u = unacked[e]
    BY DEF ShapeInv
  <1>7. Append(u, w) \in Seq(Request)
    OBVIOUS
  <1>8. unacked' \in [End -> Seq(Request)]
    BY <1>1, <1>5, <1>6, <1>7 DEF ShapeInv
  <1>9. \A i \in 1..Len(r) : i + 1 \in 1..Len(q)
    BY <1>3
  <1>10. 1 \in 1..Len(q)
    BY <1>3
  <1>11. QED
    BY <1>1, <1>3, <1>4, <1>8, <1>9, <1>10

\* A completion comes in.
LEMMA CompleteFacts ==
    ASSUME ShapeInv, NEW e \in End, NEW x \in Completion,
           cq' = [cq EXCEPT ![e] = Append(@, x)]
    PROVE  /\ cq' \in [End -> Seq(Completion)] /\ \A f \in End : f # e => cq'[f] = cq[f]
           /\ \A i \in 1..Len(cq'[e]) :
                 cq'[e][i] = x \/ (i \in 1..Len(cq[e]) /\ cq'[e][i] = cq[e][i])
  <1>1. PICK q \in Seq(Completion) : q = cq[e]
    BY DEF ShapeInv
  <1>2. PICK r \in Seq(Completion) : r = Append(q, x)
    BY <1>1, AppendFacts
  <1>3. cq' \in [End -> Seq(Completion)] /\ cq'[e] = r /\ \A f \in End : f # e => cq'[f] = cq[f]
    BY <1>1, <1>2 DEF ShapeInv
  <1>4. \A i \in 1..Len(r) : r[i] = x \/ (i \in 1..Len(q) /\ r[i] = q[i])
    <2>1. /\ Len(q) \in Nat /\ Len(r) = Len(q) + 1 /\ r[Len(q) + 1] = x
          /\ \A i \in 1..Len(q) : r[i] = q[i]
      BY <1>2, AppendFacts
    <2>2. \A i \in 1..Len(r) : i \in 1..Len(q) \/ i = Len(q) + 1
      BY <2>1
    <2>3. QED
      BY <2>1, <2>2
  <1>5. QED
    BY <1>1, <1>3, <1>4

\* A SEND of the server takes the descriptor to the client if it carries anything.
LEMMA ExecuteSendStep ==
    ASSUME IndInv, NEW e \in End, ExecuteSend(e) PROVE IndInv'
  <1>1. ShapeInv /\ at0 \in [Clients -> Content] /\ aborted' = aborted
    BY DEF IndInv, ShapeInv, ExecuteSend
  <1>2. PICK c \in Clients, p \in End :
           /\ c = e[1] /\ p = Other(e) /\ p # e
           /\ \/ e = Client(c) /\ p = Server(c)
              \/ e = Server(c) /\ p = Client(c)
    <2>1. e[1] \in Clients /\ (e = Client(e[1]) \/ e = Server(e[1])) /\ Other(e) \in End
      BY EndFacts
    <2>2. e = Client(e[1]) => Other(e) = Server(e[1]) /\ Other(e) # e
      BY <2>1, EndFacts
    <2>3. e = Server(e[1]) => Other(e) = Client(e[1]) /\ Other(e) # e
      BY <2>1, EndFacts
    <2>4. QED
      BY <2>1, <2>2, <2>3
  <1>3. PICK w, r : w = Head(sq[e]) /\ r = Head(recvs[p])
    OBVIOUS
  <1>4. PICK good \in BOOLEAN : good <=> w.len <= r.len
    BY Zenon
  <1>5. PICK x : x = [op |-> IF good THEN "RECV" ELSE "ERROR", msg |-> w.msg,
                      block |-> r.block]
    OBVIOUS
  <1>6. /\ sq[e] # <<>> /\ recvs[p] # <<>>
        /\ sq' = [sq EXCEPT ![e] = Tail(@)]
        /\ recvs' = [recvs EXCEPT ![p] = Tail(@)]
        /\ unacked' = [unacked EXCEPT ![e] =
                          Append(@, IF good THEN w ELSE [w EXCEPT !.op = "ERROR"])]
        /\ cq' = [cq EXCEPT ![p] = Append(@, x)]
        /\ at0' = IF p = Client(c) /\ w.len > 0 THEN [at0 EXCEPT ![c] = w.data] ELSE at0
        /\ UNCHANGED <<client, server, m_mutex, active, said, buffer_peer, ring>>
    BY <1>2, <1>3, <1>4, <1>5 DEF ExecuteSend
  <1>7. /\ sq' \in [End -> Seq(Request)] /\ unacked' \in [End -> Seq(Request)]
        /\ \A f \in End : f # e => sq'[f] = sq[f]
        /\ w \in Request /\ w = sq[e][1] /\ 1 \in 1..Len(sq[e])
        /\ \A i \in 1..Len(sq'[e]) : sq'[e][i] = sq[e][i + 1] /\ i + 1 \in 1..Len(sq[e])
    BY <1>1, <1>3, <1>6, ExecuteFacts
  <1>8. recvs' \in [End -> Seq(Receive)] /\ r \in Receive
    <2>1. PICK q \in Seq(Receive) : q = recvs[p] /\ q # <<>>
      BY <1>1, <1>6 DEF ShapeInv
    <2>2. Tail(q) \in Seq(Receive) /\ Head(q) \in Receive
      BY <2>1, TailFacts
    <2>3. QED
      BY <1>1, <1>3, <1>6, <2>1, <2>2 DEF ShapeInv
  <1>9. x \in Completion
    BY <1>5, <1>7, <1>8 DEF Request, Receive, Completion
  <1>10. cq' \in [End -> Seq(Completion)] /\ \A f \in End : f # p => cq'[f] = cq[f]
    BY <1>1, <1>6, <1>9, CompleteFacts
  <1>11. /\ at0' \in [Clients -> Content] /\ \A d \in Clients : d # c => at0'[d] = at0[d]
         /\ at0'[c] = IF p = Client(c) /\ w.len > 0 THEN w.data ELSE at0[c]
    <2>1. w.data \in Content
      BY <1>7 DEF Request
    <2>2. QED
      BY <1>1, <1>6, <2>1
  <1>12. ShapeInv'
    BY <1>1, <1>6, <1>7, <1>8, <1>10, <1>11 DEF ShapeInv
  <1>13. FirstAt(c) /\ client[c].confirm < Count
    BY DEF IndInv, LoopAt
  <1>14. FirstAt(c)'
    <2>1. CASE e = Client(c)
      <3>1. /\ sq'[Server(c)] = sq[Server(c)] /\ cq'[Client(c)] = cq[Client(c)]
            /\ at0'[c] = at0[c]
        BY <1>2, <1>7, <1>10, <1>11, <2>1, EndFacts
      <3>2. /\ client'[c] = client[c] /\ server'[c] = server[c]
            /\ buffer_peer'[c] = buffer_peer[c]
        BY <1>6
      <3>3. QED
        BY <1>13, <3>1, <3>2, FirstSame
    <2>2. CASE e = Server(c)
      <3>1. p = Client(c)
        BY <1>2, <2>2, EndFacts
      <3>2. w.op = "SEND" /\ (w.len > 0 => w.data = c)
        BY <1>7, <1>13, <2>2 DEF FirstAt
      <3>3. at0'[c] = c
        <4>1. CASE at0[c] = c
          BY <1>11, <3>2, <4>1
        <4>2. CASE Nothing(c)
          <5>1. w = Response(c)
            BY <1>6, <1>7, <2>2, <4>2 DEF Nothing
          <5>2. w.len > 0
            BY <5>1, Constants DEF Response, Send
          <5>3. QED
            BY <1>11, <3>1, <3>2, <5>2
        <4>3. QED
          BY <1>13, <4>1, <4>2 DEF FirstAt
      <3>4. server[c].pc \notin Unasked
        BY <1>6, <1>13, <2>2 DEF FirstAt, Nothing
      <3>5. \A i \in 1..Len(sq'[Server(c)]) :
               LET v == sq'[Server(c)][i] IN v.op = "SEND" /\ (v.len > 0 => v.data = c)
        <4>1. \A j \in 1..Len(sq[Server(c)]) :
                 /\ sq[Server(c)][j].op = "SEND"
                 /\ sq[Server(c)][j].len > 0 => sq[Server(c)][j].data = c
          BY <1>13 DEF FirstAt
        <4>2. SUFFICES ASSUME NEW i \in 1..Len(sq'[Server(c)])
                       PROVE  LET v == sq'[Server(c)][i]
                              IN  v.op = "SEND" /\ (v.len > 0 => v.data = c)
          OBVIOUS
        <4>3. sq'[Server(c)][i] = sq[Server(c)][i + 1] /\ i + 1 \in 1..Len(sq[Server(c)])
          BY <1>7, <2>2
        <4>4. QED
          BY <4>1, <4>3
      <3>6. buffer_peer'[c] = IF client'[c].pc \in Waiting THEN "unset" ELSE c
        BY <1>6, <1>13 DEF FirstAt
      <3>7. server'[c].pc \notin Unasked
        BY <1>6, <3>4
      <3>8. QED
        BY <3>3, <3>5, <3>6, <3>7 DEF FirstAt
    <2>3. QED
      BY <1>2, <2>1, <2>2
  <1>15. ASSUME NEW d \in Clients, d # c
         PROVE  sq'[Server(d)] = sq[Server(d)] /\ cq'[Client(d)] = cq[Client(d)]
    <2>1. Server(d) \in End /\ Server(d) # e /\ Client(d) \in End /\ Client(d) # p
      BY <1>2, <1>15, EndFacts
    <2>2. QED
      BY <1>7, <1>10, <2>1
  <1>16. QED
    BY <1>6, <1>11, <1>12, <1>13, <1>14, <1>15, ClientFrame

\* Only a client writes and reads.
LEMMA ExecuteRdmaStep ==
    ASSUME IndInv, NEW e \in End, ExecuteRdma(e) PROVE IndInv'
  <1>1. ShapeInv
    BY DEF IndInv
  <1>2. PICK c \in Clients : e = Client(c) \/ e = Server(c)
    BY EndFacts
  <1>3. PICK w : w = Head(sq[e])
    OBVIOUS
  <1>4. PICK good \in BOOLEAN : good <=> w.data \in Clients
    BY Zenon
  <1>5. /\ sq[e] # <<>> /\ w.op \in {"WRITE", "READ"}
        /\ sq' = [sq EXCEPT ![e] = Tail(@)]
        /\ unacked' = [unacked EXCEPT ![e] =
                          Append(@, IF good THEN w ELSE [w EXCEPT !.op = "ERROR"])]
        /\ UNCHANGED <<client, server, m_mutex, active, said, at0, buffer_peer, ring, recvs,
                       cq, aborted>>
    BY <1>3, <1>4 DEF ExecuteRdma
  <1>6. /\ sq' \in [End -> Seq(Request)] /\ unacked' \in [End -> Seq(Request)]
        /\ \A f \in End : f # e => sq'[f] = sq[f]
        /\ w = sq[e][1] /\ 1 \in 1..Len(sq[e])
    BY <1>1, <1>3, <1>5, ExecuteFacts
  <1>7. ShapeInv'
    BY <1>1, <1>5, <1>6 DEF ShapeInv
  <1>8. FirstAt(c) /\ client[c].confirm < Count
    BY DEF IndInv, LoopAt
  <1>9. e = Client(c)
    <2>1. e = Server(c) => w.op = "SEND"
      BY <1>6, <1>8 DEF FirstAt
    <2>2. QED
      BY <1>2, <1>5, <2>1
  <1>10. \A d \in Clients : sq'[Server(d)] = sq[Server(d)]
    BY <1>6, <1>9, EndFacts
  <1>11. QED
    BY <1>5, <1>7, <1>8, <1>10, ClientQuiet

\* An acknowledgement is not a message.
LEMMA AcknowledgeStep ==
    ASSUME IndInv, NEW e \in End, Acknowledge(e) PROVE IndInv'
  <1>1. ShapeInv
    BY DEF IndInv
  <1>2. PICK c \in Clients : e = Client(c) \/ e = Server(c)
    BY EndFacts
  <1>3. PICK u \in Seq(Request) : u = unacked[e] /\ u # <<>>
    BY <1>1 DEF ShapeInv, Acknowledge
  <1>4. PICK w \in Request : w = Head(u)
    BY <1>3, TailFacts
  <1>5. Tail(u) \in Seq(Request)
    BY <1>3, TailFacts
  <1>6. PICK x \in Completion : x = [op |-> w.op, msg |-> w.msg, block |-> w.block]
                                 /\ x.op # "RECV"
    <2>1. w.op \in {"SEND", "WRITE", "READ", "ERROR"} /\ w.msg \in Msg /\ w.block \in Block
      BY <1>4 DEF Request
    <2>2. PICK x : x = [op |-> w.op, msg |-> w.msg, block |-> w.block]
      OBVIOUS
    <2>3. x \in Completion /\ x.op # "RECV"
      BY <2>1, <2>2 DEF Completion
    <2>4. QED
      BY <2>2, <2>3
  <1>7. /\ unacked' = [unacked EXCEPT ![e] = Tail(u)]
        /\ cq' = [cq EXCEPT ![e] = Append(@, x)]
        /\ UNCHANGED <<client, server, m_mutex, active, said, at0, buffer_peer, ring, recvs,
                       sq, aborted>>
    BY <1>3, <1>4, <1>6 DEF Acknowledge
  <1>8. unacked' \in [End -> Seq(Request)]
    BY <1>1, <1>5, <1>7 DEF ShapeInv
  <1>9. /\ cq' \in [End -> Seq(Completion)] /\ \A f \in End : f # e => cq'[f] = cq[f]
        /\ \A i \in 1..Len(cq'[e]) :
              cq'[e][i] = x \/ (i \in 1..Len(cq[e]) /\ cq'[e][i] = cq[e][i])
    BY <1>1, <1>6, <1>7, CompleteFacts
  <1>10. ShapeInv'
    BY <1>1, <1>7, <1>8, <1>9 DEF ShapeInv
  <1>11. client[c].confirm < Count
    BY DEF IndInv, LoopAt
  <1>12. (\A i \in 1..Len(cq[Client(c)]) : cq[Client(c)][i].op # "RECV") =>
               \A i \in 1..Len(cq'[Client(c)]) : cq'[Client(c)][i].op # "RECV"
    <2>1. CASE e = Client(c)
      BY <1>6, <1>9, <2>1
    <2>2. CASE e # Client(c)
      <3>1. cq'[Client(c)] = cq[Client(c)]
        BY <1>9, <2>2, EndFacts
      <3>2. QED
        BY <3>1
    <2>3. QED
      BY <2>1, <2>2
  <1>13. \A d \in Clients : d # c => cq'[Client(d)] = cq[Client(d)]
    BY <1>2, <1>9, EndFacts
  <1>14. QED
    BY <1>7, <1>10, <1>11, <1>12, <1>13, ClientQuiet

-----------------------------------------------------------------------------
(* The theorems *)

LEMMA InitInv == Init => IndInv
  <1> SUFFICES ASSUME Init PROVE IndInv
    OBVIOUS
  <1>1. ShapeInv
    <2>1. /\ client \in [Clients -> ClientState]
      <3>1. PICK r : r = [pc |-> "start", round |-> 1, index |-> 0, confirm |-> 0,
                          sent |-> FALSE, rcvd |-> FALSE]
        OBVIOUS
      <3>2. "start" \in ClientPc /\ 1 \in 1..Rounds /\ 0 \in 0..Count
        BY Constants DEF ClientPc
      <3>3. r \in ClientState
        BY <3>1, <3>2, Zenon DEF ClientState
      <3>4. client = [c \in Clients |-> r]
        BY <3>1 DEF Init
      <3>5. QED
        BY <3>3, <3>4
    <2>2. server \in [Clients -> ServerState]
      BY Constants DEF Init, ServerState, ServerPc
    <2>3. said \in [End -> BOOLEAN]
      BY Zenon DEF Init
    <2>4. /\ m_mutex \in Clients \cup {"none"} /\ active \in Clients \cup {"none"}
          /\ at0 \in [Clients -> Content] /\ buffer_peer \in [Clients -> Content \cup {"unset"}]
          /\ aborted \subseteq Clients \cup {"server"}
      BY DEF Init, Content
    <2>5. ring \in [End -> [next : Int, last : Int]]
      BY DEF Init
    <2>6. /\ recvs \in [End -> Seq(Receive)] /\ sq \in [End -> Seq(Request)]
          /\ unacked \in [End -> Seq(Request)] /\ cq \in [End -> Seq(Completion)]
      BY DEF Init
    <2>7. QED
      BY <2>1, <2>2, <2>3, <2>4, <2>5, <2>6 DEF ShapeInv
  <1>2. ASSUME NEW c \in Clients PROVE LoopAt(c) /\ HoldAt(c) /\ FirstAt(c)
    <2>1. /\ client[c].pc = "start" /\ client[c].confirm = 0 /\ server[c].pc = "start"
          /\ buffer_peer[c] = "unset" /\ at0[c] = "zero"
      BY DEF Init
    <2>2. ~client[c].rcvd
      BY Zenon DEF Init
    <2>3. sq[Server(c)] = <<>> /\ cq[Client(c)] = <<>>
      BY EndFacts DEF Init
    <2>4. LoopAt(c) /\ HoldAt(c)
      BY <2>1, Constants DEF LoopAt, HoldAt
    <2>5. Nothing(c)
      BY <2>1, <2>2, <2>3 DEF Nothing, Waiting, Unasked
    <2>6. FirstAt(c)
      BY <2>1, <2>3, <2>5 DEF FirstAt, Waiting
    <2>7. QED
      BY <2>4, <2>6
  <1>3. QED
    BY <1>1, <1>2 DEF IndInv

\* Every step, and stuttering, preserves the invariant.
LEMMA StepInv == ASSUME IndInv, [Next]_vars PROVE IndInv'
  <1>1. ASSUME NEW c \in Clients, ClientStep(c) PROVE IndInv'
    <2>1. CASE \E pc \in {"exchange", "answer"} : ClientAwait(c, pc)
      BY <2>1, ClientAwaitStep
    <2>2. CASE \E test \in Tests : ClientPost(c, test) \/ ClientPoll(c, test)
      BY <2>2, ClientPostStep, ClientPollStep
    <2>3. QED
      BY <1>1, <2>1, <2>2, ClientRegisterStep, ClientSyncSendStep, ClientSyncRecvStep,
         ClientRequestStep, ClientByeStep, ClientExitStep DEF ClientStep
  <1>2. ASSUME NEW c \in Clients, ServerStep(c) PROVE IndInv'
    <2>1. CASE \E pc \in {"responded", "answered"} : ServerSent(c, pc)
      BY <2>1, ServerSentStep
    <2>2. CASE \E pc \in {"round", "final"} : ServerPostControl(c, pc)
      BY <2>2, ServerPostControlStep
    <2>3. QED
      BY <1>2, <2>1, <2>2, ServerLockStep, ServerRegisterStep, ServerSyncStep,
         ServerExchangeStep, ServerRequestStep, ServerDataStep, ServerByeStep DEF ServerStep
  <1>3. ASSUME NEW e \in End, Execute(e) \/ Acknowledge(e) PROVE IndInv'
    BY <1>3, ExecuteSendStep, ExecuteRdmaStep, AcknowledgeStep DEF Execute
  <1>4. CASE UNCHANGED vars
    BY <1>4 DEF vars, nic, IndInv, ShapeInv, LoopAt, HoldAt, FirstAt, Nothing
  <1>5. QED
    BY <1>1, <1>2, <1>3, <1>4 DEF Next

\* The invariant the theorems below rest on.
THEOREM Inductive == Spec => []IndInv
  <1>1. IndInv /\ [Next]_vars => IndInv'
    BY StepInv
  <1>2. QED
    BY InitInv, <1>1, PTL DEF Spec

\* The descriptor a client writes to and reads from is that of the buffer the server
\* registered for it, in whatever order its threads get m_mutex: the thread that
\* responds has it, so the benchmark_buffer it reads is the one it registered
\* (lat_bw_benchmark.cc:382, 445).
THEOREM DescriptorSafe == Spec => []OwnDescriptor
  <1>1. IndInv => OwnDescriptor
    BY DEF IndInv, FirstAt, OwnDescriptor
  <1>2. QED
    BY <1>1, Inductive, PTL

-----------------------------------------------------------------------------
(***************************************************************************)
(* When the sleep covers the acknowledgement, no CHECK fails.  A           *)
(* connection is described by the places of its two processes: which       *)
(* message is in which queue, and how many.                                *)
(***************************************************************************)

\* Places of a client that writes and reads, or is about to say BYEBYE.
Rdma == {"write", "read", "bw", "fake"}

\* The last message of a round has left.
Finished(C, a) == C.pc = "data" /\ C.index = Count /\ a = 0

\* The request of the server's round has not left the client: a is the length of its
\* send queue.
Before(C, S, a) ==
    \/ C.pc = "exchange" /\ a = 0 /\ S.round = 1
    \/ C.pc = "request" /\ C.round = S.round
    \/ C.pc = "answer" /\ C.round = S.round /\ a > 0
    \/ C.round + 1 = S.round /\ Finished(C, a)

\* The client has run all its rounds, and its BYEBYE has not left.
After(C, a) ==
    \/ C.pc \in Rdma \cup {"bye", "exited"}
    \/ C.pc = "leaving" /\ a > 0

\* All raw data of the server's round has left the client.
Beyond(C, S, a) ==
    \/ C.round = S.round + 1 /\ C.pc = "request"
    \/ C.round = S.round + 1 /\ C.pc = "answer" /\ a > 0
    \/ S.round = Rounds /\ After(C, a)

Asking(C, S, a) == C.pc = "answer" /\ C.round = S.round /\ a = 0

Left(C, a) ==
    \/ C.pc = "exited"
    \/ C.pc = "leaving" /\ a = 0

Last(C, a) ==
    \/ After(C, a)
    \/ C.round = Rounds /\ Finished(C, a)

\* Where the two processes of a connection can be, and the receives n that the server
\* has posted and the NIC not taken.
Place(C, S, a, n) ==
    /\ S.pc \in {"start", "register"} => n = 0 /\ C.pc \in {"start", "sync", "synced"}
    /\ S.pc = "sync" => n = 1 /\ C.pc \in {"start", "sync", "synced"}
    /\ S.pc \in {"synced", "exchange"} =>
          \/ C.pc \in {"start", "sync", "synced"} /\ n = 1
          \/ C.pc = "exchange" /\ n = a
    /\ S.pc \in {"responded", "round"} => n = 0 /\ Before(C, S, a)
    /\ S.pc = "request" => (n = 1 /\ Before(C, S, a)) \/ (n = 0 /\ Asking(C, S, a))
    /\ S.pc \in {"answered", "data"} =>
          \/ n = Count /\ Asking(C, S, a)
          \/ n = Count - C.index + a /\ C.pc = "data" /\ C.round = S.round
          \/ n = 0 /\ Beyond(C, S, a)
    /\ S.pc = "final" => n = 0 /\ Last(C, a)
    /\ S.pc = "bye" =>
          \/ n = 1 /\ Last(C, a)
          \/ n = 0 /\ Left(C, a)
    /\ S.pc = "done" => n = 0 /\ Left(C, a)
    /\ S.pc \in Unasked \cup {"responded"} => S.round = 1
    /\ C.pc \in Waiting => C.round = 1

\* The message of the server, if it has one on its way: x in the send queue, y executed.
Token(C, S, x, y) ==
    /\ x + y <= 1
    /\ S.pc \notin {"responded", "answered"} => x = 0 /\ y = 0
    /\ x > 0 /\ S.pc = "responded" => C.pc = "exchange"
    /\ x > 0 /\ S.pc = "answered" => C.pc = "answer" /\ C.round = S.round
    /\ y > 0 /\ S.pc = "answered" =>
          \/ C.pc = "answer" /\ C.round = S.round
          \/ C.pc = "data" /\ C.round = S.round /\ C.index = 0

\* The message a client waits for has arrived.
Answered(C, S, x) ==
    /\ x = 0
    /\ \/ C.pc = "exchange" /\ S.pc \notin Unasked
       \/ C.pc = "answer" /\ S.pc \in {"answered", "data"} /\ S.round = C.round

Own(S, x, y) == IF S.pc \in {"responded", "answered"} /\ x = 0 /\ y = 0 THEN 1 ELSE 0

Cap(S) == CASE S.pc \in {"sync", "synced", "exchange", "request", "bye"} -> 1
            [] S.pc = "answered" -> Count
            [] S.pc = "data" -> Count - S.index
            [] OTHER -> 0

Wanted(pc) == CASE pc = "request" -> "SEND_TEST_REQUEST"
                [] pc \in {"answered", "data"} -> "TEST_RAW_DATA"
                [] pc = "bye" -> "BYEBYE"
                [] OTHER -> "REQUEST_BUFFER"

ServerQueue(c) ==
    LET e == Server(c) S == server[c] o == Own(S, Len(sq[e]), Len(unacked[e])) IN
    /\ Len(cq[e]) = o + Cap(S) - Len(recvs[e])
    /\ \A i \in 1..Len(cq[e]) :
          IF i <= o THEN cq[e][i].op = "SEND"
          ELSE cq[e][i].op = "RECV" /\ cq[e][i].msg = Wanted(S.pc)
    /\ \A i \in 1..Len(recvs[e]) :
          recvs[e][i].len = IF S.pc \in {"request", "bye"} THEN CtlBytes ELSE BlockBytes
    /\ \A i \in 1..Len(unacked[e]) : unacked[e][i].op = "SEND"
    /\ \A i \in 1..Len(sq[e]) :
          /\ sq[e][i].op = "SEND" /\ sq[e][i].len <= CtlBytes
          /\ sq[e][i].msg = IF S.pc = "responded" THEN "RESPONSE_TO_REQUEST_BUFFER"
                            ELSE "RESPONSE_TO_SEND_TEST_REQUEST"

\* What a client has posted and not polled: the operations of its place.
InFlight(C) ==
    CASE C.pc \in {"exchange", "answer"} -> IF C.sent THEN 0 ELSE 1
      [] C.pc \in Tests -> C.index - C.confirm
      [] C.pc = "leaving" -> 1
      [] OTHER -> 0

ClientOp(pc) == IF pc \in Tests THEN TestOp(pc) ELSE "SEND"

ClientMsg(pc) ==
    CASE pc = "exchange" -> "REQUEST_BUFFER" [] pc = "answer" -> "SEND_TEST_REQUEST"
      [] pc = "leaving" -> "BYEBYE" [] OTHER -> "TEST_RAW_DATA"

ClientLen(pc) ==
    CASE pc \in {"exchange", "answer"} -> AskBytes [] pc = "leaving" -> CtlBytes
      [] OTHER -> BlockBytes

\* A client that waits for a completion and a message, and the others.
Waits(C) == C.pc \in {"exchange", "answer"}

Got(c, op) == \E i \in 1..Len(cq[Client(c)]) : cq[Client(c)][i].op = op

Here(c) == Answered(client[c], server[c], Len(sq[Server(c)]))

WaitQueue(c) ==
    LET e == Client(c) C == client[c] IN
    Waits(C) =>
        /\ ~(C.sent /\ C.rcvd)
        /\ Len(sq[e]) + Len(unacked[e]) + (IF Got(c, "SEND") THEN 1 ELSE 0) = InFlight(C)
        /\ \A i, j \in 1..Len(cq[e]) : cq[e][i].op = cq[e][j].op => i = j
        /\ \A i \in 1..Len(cq[e]) :
              \/ cq[e][i].op = "SEND"
              \/ cq[e][i].op = "RECV" /\ cq[e][i].msg = Expected(C.pc)
        /\ Here(c) <=> C.rcvd \/ Got(c, "RECV")
        /\ C.rcvd => ~Got(c, "RECV")

WorkQueue(c) ==
    LET e == Client(c) C == client[c] IN
    ~Waits(C) =>
        /\ ~C.sent /\ ~C.rcvd
        /\ Len(sq[e]) + Len(unacked[e]) + Len(cq[e]) = InFlight(C)
        /\ \A i \in 1..Len(cq[e]) : cq[e][i].op = ClientOp(C.pc)
        /\ C.pc \in Tests =>
              C.confirm <= C.index /\ (C.pc \notin Bursts => C.index <= C.confirm + 1)

PostedQueue(c) ==
    LET e == Client(c) pc == client[c].pc IN
    /\ \A i \in 1..Len(unacked[e]) : unacked[e][i].op = ClientOp(pc)
    /\ \A i \in 1..Len(sq[e]) :
          /\ sq[e][i].op = ClientOp(pc) /\ sq[e][i].msg = ClientMsg(pc)
          /\ sq[e][i].len <= ClientLen(pc)
          /\ pc \in Rdma => sq[e][i].data = c

RecvQueue(c) ==
    LET e == Client(c) C == client[c] IN
    /\ Len(recvs[e]) = IF C.pc \in {"sync", "synced"} \/ (Waits(C) /\ ~Here(c)) THEN 1 ELSE 0
    /\ \A i \in 1..Len(recvs[e]) : recvs[e][i].len >= CtlBytes

SaidAt(c) == said[Server(c)] <=> server[c].pc \notin {"start", "register", "sync"}

Conn(c) ==
    /\ Place(client[c], server[c], Len(sq[Client(c)]), Len(recvs[Server(c)]))
    /\ Token(client[c], server[c], Len(sq[Server(c)]), Len(unacked[Server(c)]))
    /\ ServerQueue(c)
    /\ WaitQueue(c) /\ WorkQueue(c) /\ PostedQueue(c) /\ RecvQueue(c)
    /\ SaidAt(c)

FullInv == IndInv /\ aborted = {} /\ \A c \in Clients : Conn(c)

\* The types of what belongs to a connection.
LEMMA ConnTypes ==
    ASSUME ShapeInv, NEW c \in Clients
    PROVE  /\ client[c] \in ClientState /\ server[c] \in ServerState
           /\ \A e \in {Client(c), Server(c)} :
                 /\ e \in End
                 /\ sq[e] \in Seq(Request) /\ Len(sq[e]) \in Nat
                 /\ unacked[e] \in Seq(Request) /\ Len(unacked[e]) \in Nat
                 /\ cq[e] \in Seq(Completion) /\ Len(cq[e]) \in Nat
                 /\ recvs[e] \in Seq(Receive) /\ Len(recvs[e]) \in Nat
  <1>1. \A e \in {Client(c), Server(c)} : e \in End
    BY EndFacts
  <1>2. client[c] \in ClientState /\ server[c] \in ServerState
    BY DEF ShapeInv
  <1>3. ASSUME NEW e \in End
        PROVE  /\ sq[e] \in Seq(Request) /\ unacked[e] \in Seq(Request)
               /\ cq[e] \in Seq(Completion) /\ recvs[e] \in Seq(Receive)
    BY DEF ShapeInv
  <1>4. \A S, q : q \in Seq(S) => Len(q) \in Nat
    OBVIOUS
  <1>5. QED
    BY <1>1, <1>2, <1>3, <1>4

\* The fields of the two records.
LEMMA Fields ==
    /\ \A C \in ClientState :
          /\ C.pc \in ClientPc /\ C.round \in 1..Rounds /\ C.round \in Nat /\ C.round >= 1
          /\ C.index \in Nat /\ C.index <= Count /\ C.confirm \in Nat /\ C.confirm <= Count
    /\ \A S \in ServerState :
          /\ S.pc \in ServerPc /\ S.round \in 1..Rounds /\ S.round \in Nat /\ S.round >= 1
          /\ S.round <= Rounds /\ S.index \in Nat /\ S.index <= Count
  BY Constants DEF ClientState, ServerState

\* A connection nothing happens to.
LEMMA ConnSame ==
    ASSUME NEW c \in Clients, Conn(c), client'[c] = client[c], server'[c] = server[c],
           said'[Server(c)] = said[Server(c)],
           \A e \in {Client(c), Server(c)} :
              /\ sq'[e] = sq[e] /\ unacked'[e] = unacked[e]
              /\ cq'[e] = cq[e] /\ recvs'[e] = recvs[e]
    PROVE  Conn(c)'
  <1>1. /\ sq'[Client(c)] = sq[Client(c)] /\ unacked'[Client(c)] = unacked[Client(c)]
        /\ cq'[Client(c)] = cq[Client(c)] /\ recvs'[Client(c)] = recvs[Client(c)]
        /\ sq'[Server(c)] = sq[Server(c)] /\ unacked'[Server(c)] = unacked[Server(c)]
        /\ cq'[Server(c)] = cq[Server(c)] /\ recvs'[Server(c)] = recvs[Server(c)]
    OBVIOUS
  <1>2. ServerQueue(c)'
    BY <1>1 DEF Conn, ServerQueue
  <1>3. (Here(c)' <=> Here(c)) /\ (Got(c, "SEND")' <=> Got(c, "SEND"))
        /\ (Got(c, "RECV")' <=> Got(c, "RECV"))
    BY <1>1 DEF Here, Got
  <1>4. WaitQueue(c)'
    BY <1>1, <1>3 DEF Conn, WaitQueue
  <1>5. WorkQueue(c)' /\ PostedQueue(c)'
    BY <1>1 DEF Conn, WorkQueue, PostedQueue
  <1>6. RecvQueue(c)' /\ SaidAt(c)'
    BY <1>1, <1>3 DEF Conn, RecvQueue, SaidAt
  <1>7. QED
    BY <1>1, <1>2, <1>4, <1>5, <1>6 DEF Conn

\* A step at the connection of c.
LEMMA OneConn ==
    ASSUME FullInv, IndInv', aborted' = {}, NEW c \in Clients,
           \A d \in Clients : d # c =>
              /\ client'[d] = client[d] /\ server'[d] = server[d]
              /\ said'[Server(d)] = said[Server(d)],
           \A e \in End : e \notin {Client(c), Server(c)} =>
              /\ sq'[e] = sq[e] /\ unacked'[e] = unacked[e]
              /\ cq'[e] = cq[e] /\ recvs'[e] = recvs[e],
           Conn(c)'
    PROVE  FullInv'
  <1>1. ASSUME NEW d \in Clients, d # c PROVE Conn(d)'
    <2>1. Conn(d)
      BY DEF FullInv
    <2>2. ASSUME NEW e \in {Client(d), Server(d)} PROVE e \in End /\ e \notin {Client(c), Server(c)}
      BY <1>1, EndFacts
    <2>3. QED
      BY <1>1, <2>1, <2>2, ConnSame
  <1>2. QED
    BY <1>1 DEF FullInv

-----------------------------------------------------------------------------
(* Where the processes can be: the moves of a client *)

\* A client that keeps its place, its round and its index.
LEMMA PlaceStays ==
    ASSUME NEW C, NEW D, NEW S, NEW a, NEW n, NEW x, NEW y,
           Place(C, S, a, n), Token(C, S, x, y),
           D.pc = C.pc, D.round = C.round, D.index = C.index
    PROVE  Place(D, S, a, n) /\ Token(D, S, x, y)
  <1>1. /\ Before(C, S, a) <=> Before(D, S, a)
        /\ After(C, a) <=> After(D, a)
        /\ Last(C, a) <=> Last(D, a)
        /\ Beyond(C, S, a) <=> Beyond(D, S, a)
        /\ Asking(C, S, a) <=> Asking(D, S, a)
        /\ Left(C, a) <=> Left(D, a)
    BY DEF Before, After, Beyond, Asking, Left, Last, Finished
  <1>2. QED
    BY <1>1 DEF Place, Token

LEMMA PlaceStart ==
    ASSUME NEW C, NEW D, NEW S \in ServerState, NEW a, NEW n, NEW x, NEW y,
           Place(C, S, a, n), Token(C, S, x, y),
           C.pc \in {"start", "sync", "synced"}, D.pc \in {"start", "sync", "synced"},
           D.round = C.round
    PROVE  Place(D, S, a, n) /\ Token(D, S, x, y) /\ S.pc \in Unasked
  <1>1. S.pc \in ServerPc
    BY Fields
  <1>2. S.pc \in Unasked
    BY <1>1 DEF Place, Before, After, Beyond, Asking, Left, Last, Finished, Rdma, Unasked, ServerPc
  <1>3. Place(D, S, a, n)
    BY <1>2 DEF Place, Unasked, Waiting
  <1>4. Token(D, S, x, y)
    BY <1>2 DEF Token, Unasked
  <1>5. QED
    BY <1>2, <1>3, <1>4

LEMMA PlaceAsk ==
    ASSUME NEW C, NEW D, NEW S \in ServerState, NEW a, NEW n, NEW x, NEW y,
           Place(C, S, a, n), Token(C, S, x, y),
           C.pc = "synced", D.pc = "exchange", D.round = C.round,
           S.pc \notin {"start", "register", "sync"}
    PROVE  Place(D, S, 1, n) /\ Token(D, S, x, y) /\ S.pc \in {"synced", "exchange"}
  <1>1. S.pc \in Unasked
    BY PlaceStart
  <1>2. S.pc \in {"synced", "exchange"}
    BY <1>1 DEF Unasked
  <1>3. Place(D, S, 1, n)
    BY <1>2 DEF Place, Unasked, Waiting
  <1>4. Token(D, S, x, y)
    BY <1>2 DEF Token
  <1>5. QED
    BY <1>2, <1>3, <1>4

\* The descriptor has arrived.
LEMMA PlaceExchanged ==
    ASSUME NEW C, NEW D, NEW S \in ServerState, NEW n, NEW x, NEW y,
           Place(C, S, 0, n), Token(C, S, x, y), Answered(C, S, x),
           C.pc = "exchange", D.pc = "request", D.round = C.round
    PROVE  Place(D, S, 0, n) /\ Token(D, S, x, y)
  <1>1. S.pc \in ServerPc /\ S.pc \notin Unasked /\ x = 0
    BY Fields DEF Answered
  <1>2. S.pc \in {"responded", "round", "request"} /\ C.round = 1
    BY <1>1 DEF Place, Before, After, Beyond, Asking, Left, Last, Finished, Rdma, Unasked,
                ServerPc, Waiting
  <1>3. Before(D, S, 0) /\ n = IF S.pc = "request" THEN 1 ELSE 0
    BY <1>2 DEF Place, Before, Asking, Finished
  <1>4. Place(D, S, 0, n)
    BY <1>2, <1>3 DEF Place, Unasked, Waiting
  <1>5. Token(D, S, x, y)
    BY <1>1, <1>2 DEF Token
  <1>6. QED
    BY <1>4, <1>5

LEMMA PlaceRequest ==
    ASSUME NEW C \in ClientState, NEW D, NEW S \in ServerState, NEW n, NEW x, NEW y,
           Place(C, S, 0, n), Token(C, S, x, y),
           C.pc = "request", D.pc = "answer", D.round = C.round
    PROVE  /\ Place(D, S, 1, n) /\ Token(D, S, x, y)
           /\ ~(S.pc \in {"answered", "data"} /\ S.round = D.round)
  <1>1. S.pc \in ServerPc /\ C.round \in Nat /\ S.round \in Nat
    BY Fields
  <1>2. S.pc \in {"responded", "round", "request", "answered", "data"}
    BY <1>1 DEF Place, Before, After, Beyond, Asking, Left, Last, Finished, Rdma, Unasked,
                ServerPc, Waiting
  <1>3. Before(C, S, 0) => Before(D, S, 1)
    BY DEF Before, Finished
  <1>4. Beyond(C, S, 0) => Beyond(D, S, 1) /\ C.round = S.round + 1
    BY DEF Beyond, After, Rdma
  <1>5. ~Asking(C, S, 0) /\ C.pc # "data"
    BY DEF Asking
  <1>6. Place(D, S, 1, n)
    BY <1>2, <1>3, <1>4, <1>5 DEF Place, Unasked, Waiting
  <1>7. Token(D, S, x, y)
    BY DEF Token
  <1>8. ~(S.pc \in {"answered", "data"} /\ S.round = D.round)
    BY <1>1, <1>4, <1>5 DEF Place
  <1>9. QED
    BY <1>6, <1>7, <1>8

\* The answer has arrived.
LEMMA PlaceAnswered ==
    ASSUME NEW C \in ClientState, NEW D, NEW S \in ServerState, NEW n \in Nat, NEW x, NEW y,
           Place(C, S, 0, n), Token(C, S, x, y), Answered(C, S, x),
           C.pc = "answer", D.pc = "data", D.round = C.round, D.index = 0
    PROVE  Place(D, S, 0, n) /\ Token(D, S, x, y)
  <1>1. /\ S.pc \in {"answered", "data"} /\ x = 0 /\ S.round = C.round
        /\ C.round \in Nat /\ S.round \in Nat
    BY Fields DEF Answered
  <1>2. ~Beyond(C, S, 0)
    BY <1>1 DEF Beyond, After, Rdma
  <1>3. n = Count
    BY <1>1, <1>2 DEF Place
  <1>4. n = Count - D.index + 0
    BY <1>3, Constants
  <1>5. Place(D, S, 0, n)
    BY <1>1, <1>4 DEF Place, Unasked, Waiting
  <1>6. Token(D, S, x, y)
    BY <1>1 DEF Token
  <1>7. QED
    BY <1>5, <1>6

\* A message of raw data is posted: the answer of the round has been acknowledged.
LEMMA PlaceData ==
    ASSUME NEW C \in ClientState, NEW D \in ClientState, NEW S \in ServerState,
           NEW a \in Nat, NEW n \in Nat, NEW x \in Nat, NEW y \in Nat,
           Place(C, S, a, n), Token(C, S, x, y), C.index = 0 => y = 0,
           C.pc = "data", D.pc = "data", D.round = C.round, D.index = C.index + 1
    PROVE  Place(D, S, a + 1, n) /\ Token(D, S, x, y)
  <1>1. /\ S.pc \in ServerPc /\ C.index < Count /\ C.index \in Nat /\ Count \in Nat
    BY Fields, Constants
  <1>2. ~Finished(C, a) /\ ~Asking(C, S, a) /\ ~Left(C, a) /\ ~After(C, a)
    BY <1>1 DEF Finished, Asking, Left, After, Rdma
  <1>3. S.pc \in {"answered", "data"}
    BY <1>1, <1>2 DEF Place, Before, Last, Unasked, ServerPc, Waiting
  <1>4. ~Beyond(C, S, a)
    BY <1>2 DEF Beyond
  <1>5. n = Count - C.index + a /\ C.round = S.round
    BY <1>2, <1>3, <1>4 DEF Place
  <1>6. n = Count - D.index + (a + 1)
    BY <1>1, <1>5
  <1>7. Place(D, S, a + 1, n)
    BY <1>3, <1>5, <1>6 DEF Place, Unasked, Waiting
  <1>8. x = 0 /\ y = 0
    BY <1>3 DEF Token
  <1>9. Token(D, S, x, y)
    BY <1>8 DEF Token
  <1>10. QED
    BY <1>7, <1>9

\* The last message of a round is confirmed.
LEMMA PlaceRound ==
    ASSUME NEW C \in ClientState, NEW D \in ClientState, NEW S \in ServerState,
           NEW n \in Nat, NEW x \in Nat, NEW y \in Nat,
           Place(C, S, 0, n), Token(C, S, x, y), C.pc = "data", C.index = Count,
           \/ C.round < Rounds /\ D.pc = "request" /\ D.round = C.round + 1
           \/ C.round = Rounds /\ D.pc = "write"
    PROVE  Place(D, S, 0, n) /\ Token(D, S, x, y)
  <1>1. /\ S.pc \in ServerPc /\ Count \in Nat /\ Count > 1 /\ C.round \in Nat /\ S.round \in Nat
        /\ C.round >= 1 /\ S.round <= Rounds /\ Rounds \in Nat
    BY Fields, Constants
  <1>2. ~Asking(C, S, 0) /\ ~Left(C, 0) /\ ~After(C, 0) /\ ~Beyond(C, S, 0)
    BY DEF Asking, Left, After, Rdma, Beyond
  <1>3. S.pc \in {"responded", "round", "request", "answered", "data", "final", "bye"}
    BY <1>1, <1>2 DEF Place, Unasked, ServerPc
  <1>4. Before(C, S, 0) => Before(D, S, 0)
    BY <1>1 DEF Before, Finished
  <1>5. Last(C, 0) => Last(D, 0)
    BY <1>1, <1>2 DEF Last, After, Rdma, Finished
  <1>6. C.round = S.round => Beyond(D, S, 0)
    BY <1>1 DEF Beyond, After, Rdma
  <1>7. S.pc \in {"answered", "data"} => n = 0 /\ C.round = S.round
    BY <1>1, <1>2 DEF Place
  <1>8. Place(D, S, 0, n)
    BY <1>2, <1>3, <1>4, <1>5, <1>6, <1>7 DEF Place, Unasked, Waiting
  <1>9. S.pc \in {"responded", "answered"} => x = 0 /\ y = 0
    <2>1. S.pc # "responded"
      <3>1. S.pc = "responded" => S.round = 1 /\ Before(C, S, 0)
        BY DEF Place
      <3>2. QED
        BY <1>1, <3>1 DEF Before
    <2>2. S.pc = "answered" => x = 0 /\ y = 0
      BY <1>1 DEF Token
    <2>3. QED
      BY <2>1, <2>2
  <1>10. Token(D, S, x, y)
    BY <1>9 DEF Token
  <1>11. QED
    BY <1>8, <1>10

\* A client that has run its rounds goes on, in whatever order.
LEMMA PlaceAfter ==
    ASSUME NEW C, NEW D, NEW S \in ServerState, NEW a \in Nat, NEW b \in Nat, NEW n \in Nat,
           NEW x \in Nat, NEW y \in Nat,
           Place(C, S, a, n), Token(C, S, x, y), C.pc \in Rdma \cup {"bye"}, After(D, b)
    PROVE  Place(D, S, b, n) /\ Token(D, S, x, y)
  <1>1. S.pc \in ServerPc
    BY Fields
  <1>2. ~Asking(C, S, a) /\ ~Left(C, a) /\ ~Before(C, S, a) /\ C.pc # "data"
    BY DEF Asking, Left, Before, Finished, Rdma
  <1>3. S.pc \in {"answered", "data", "final", "bye"}
    BY <1>1, <1>2 DEF Place, Unasked, ServerPc, Rdma
  <1>4. Beyond(C, S, a) => Beyond(D, S, b)
    BY DEF Beyond, Rdma
  <1>5. Last(D, b) /\ D.pc \notin Waiting
    BY DEF Last, After, Rdma, Waiting
  <1>6. Place(D, S, b, n)
    BY <1>2, <1>3, <1>4, <1>5 DEF Place, Unasked
  <1>7. x = 0 /\ y = 0
    BY <1>3 DEF Token, Rdma
  <1>8. Token(D, S, x, y)
    BY <1>7 DEF Token
  <1>9. QED
    BY <1>6, <1>8

LEMMA PlaceExit ==
    ASSUME NEW C, NEW D, NEW S \in ServerState, NEW a \in Nat, NEW n \in Nat,
           NEW x \in Nat, NEW y \in Nat,
           Place(C, S, a, n), Token(C, S, x, y), C.pc = "leaving", D.pc = "exited"
    PROVE  Place(D, S, 0, n) /\ Token(D, S, x, y)
  <1>1. S.pc \in ServerPc
    BY Fields
  <1>2. ~Asking(C, S, a) /\ ~Before(C, S, a) /\ C.pc # "data"
    BY DEF Asking, Before, Finished
  <1>3. S.pc \in {"answered", "data", "final", "bye", "done"}
    BY <1>1, <1>2 DEF Place, Unasked, ServerPc
  <1>4. Beyond(C, S, a) => Beyond(D, S, 0)
    BY DEF Beyond, After
  <1>5. Last(D, 0) /\ Left(D, 0) /\ D.pc \notin Waiting
    BY DEF Last, Left, After, Waiting
  <1>6. Place(D, S, 0, n)
    BY <1>2, <1>3, <1>4, <1>5 DEF Place, Unasked
  <1>7. x = 0 /\ y = 0
    BY <1>3 DEF Token
  <1>8. Token(D, S, x, y)
    BY <1>7 DEF Token
  <1>9. QED
    BY <1>6, <1>8

-----------------------------------------------------------------------------
(* The steps of a client, and its queues *)

\* A step of client c.
LEMMA ClientConn ==
    ASSUME FullInv, IndInv', aborted' = {}, NEW c \in Clients, server' = server,
           \A d \in Clients : d # c => client'[d] = client[d],
           \A d \in Clients : said'[Server(d)] = said[Server(d)],
           \A e \in End : e # Client(c) =>
              /\ sq'[e] = sq[e] /\ unacked'[e] = unacked[e]
              /\ cq'[e] = cq[e] /\ recvs'[e] = recvs[e],
           Place(client'[c], server[c], Len(sq'[Client(c)]), Len(recvs[Server(c)])),
           Token(client'[c], server[c], Len(sq[Server(c)]), Len(unacked[Server(c)])),
           WaitQueue(c)', WorkQueue(c)', PostedQueue(c)', RecvQueue(c)'
    PROVE  FullInv'
  <1>1. Server(c) \in End /\ Server(c) # Client(c) /\ Conn(c)
    BY EndFacts DEF FullInv
  <1>2. /\ sq'[Server(c)] = sq[Server(c)] /\ unacked'[Server(c)] = unacked[Server(c)]
        /\ cq'[Server(c)] = cq[Server(c)] /\ recvs'[Server(c)] = recvs[Server(c)]
        /\ server'[c] = server[c] /\ said'[Server(c)] = said[Server(c)]
    BY <1>1
  <1>3. ServerQueue(c)' /\ SaidAt(c)'
    BY <1>1, <1>2 DEF Conn, ServerQueue, SaidAt
  <1>4. Conn(c)'
    BY <1>2, <1>3 DEF Conn
  <1>5. \A e \in End : e \notin {Client(c), Server(c)} =>
              /\ sq'[e] = sq[e] /\ unacked'[e] = unacked[e]
              /\ cq'[e] = cq[e] /\ recvs'[e] = recvs[e]
    OBVIOUS
  <1>6. \A d \in Clients : server'[d] = server[d]
    OBVIOUS
  <1>7. QED
    BY <1>4, <1>5, <1>6, OneConn

\* What is known of a connection.
LEMMA Known ==
    ASSUME FullInv, NEW c \in Clients
    PROVE  /\ IndInv /\ ShapeInv /\ aborted = {} /\ Client(c) \in End /\ Server(c) \in End
           /\ client[c] \in ClientState /\ server[c] \in ServerState
           /\ Place(client[c], server[c], Len(sq[Client(c)]), Len(recvs[Server(c)]))
           /\ Token(client[c], server[c], Len(sq[Server(c)]), Len(unacked[Server(c)]))
           /\ ServerQueue(c) /\ WaitQueue(c) /\ WorkQueue(c) /\ PostedQueue(c)
           /\ RecvQueue(c) /\ SaidAt(c)
           /\ Len(sq[Client(c)]) \in Nat /\ Len(unacked[Client(c)]) \in Nat
           /\ Len(cq[Client(c)]) \in Nat /\ Len(recvs[Client(c)]) \in Nat
           /\ Len(sq[Server(c)]) \in Nat /\ Len(unacked[Server(c)]) \in Nat
           /\ Len(cq[Server(c)]) \in Nat /\ Len(recvs[Server(c)]) \in Nat
  <1>1. IndInv /\ ShapeInv /\ aborted = {} /\ Conn(c)
    BY DEF FullInv, IndInv
  <1>2. QED
    BY <1>1, ConnTypes DEF Conn

\* A client changes its place only.
LEMMA ClientFields ==
    ASSUME ShapeInv, NEW c \in Clients, NEW pc, client' = [client EXCEPT ![c].pc = pc]
    PROVE  /\ client'[c].pc = pc /\ client'[c].round = client[c].round
           /\ client'[c].index = client[c].index /\ client'[c].confirm = client[c].confirm
           /\ client'[c].sent = client[c].sent /\ client'[c].rcvd = client[c].rcvd
           /\ \A d \in Clients : d # c => client'[d] = client[d]
  <1>1. client \in [Clients -> ClientState]
    BY DEF ShapeInv
  <1>2. client'[c] = [client[c] EXCEPT !.pc = pc] /\ \A d \in Clients : d # c => client'[d] = client[d]
    BY <1>1
  <1>3. client[c] \in ClientState
    BY <1>1
  <1>4. QED
    BY <1>2, <1>3 DEF ClientState

\* Nothing is in the queues of a client that neither waits nor works.
LEMMA IdleEmpty ==
    ASSUME FullInv, NEW c \in Clients,
           client[c].pc \in {"start", "sync", "synced", "request", "bye", "exited"}
    PROVE  /\ Len(sq[Client(c)]) = 0 /\ Len(unacked[Client(c)]) = 0 /\ Len(cq[Client(c)]) = 0
           /\ ~client[c].sent /\ ~client[c].rcvd
  <1>1. /\ WorkQueue(c) /\ Len(sq[Client(c)]) \in Nat /\ Len(unacked[Client(c)]) \in Nat
        /\ Len(cq[Client(c)]) \in Nat
    BY Known
  <1>2. ~Waits(client[c]) /\ InFlight(client[c]) = 0
    BY DEF Waits, InFlight, Tests
  <1>3. ~client[c].sent /\ ~client[c].rcvd
    BY <1>1, <1>2, Zenon DEF WorkQueue
  <1>4. Len(sq[Client(c)]) + Len(unacked[Client(c)]) + Len(cq[Client(c)]) = 0
    BY <1>1, <1>2 DEF WorkQueue
  <1>5. \A i, j, k \in Nat : i + j + k = 0 => i = 0 /\ j = 0 /\ k = 0
    OBVIOUS
  <1>6. Len(sq[Client(c)]) = 0 /\ Len(unacked[Client(c)]) = 0 /\ Len(cq[Client(c)]) = 0
    BY <1>1, <1>4, <1>5
  <1>7. QED
    BY <1>3, <1>6, Zenon

\* A client without work: what its queues have to be like.
LEMMA IdleQueues ==
    ASSUME NEW c \in Clients,
           client'[c].pc \in {"start", "sync", "synced", "request", "bye", "exited"},
           ~client'[c].sent, ~client'[c].rcvd,
           Len(sq'[Client(c)]) = 0, Len(unacked'[Client(c)]) = 0, Len(cq'[Client(c)]) = 0
    PROVE  WaitQueue(c)' /\ WorkQueue(c)' /\ PostedQueue(c)'
  <1>1. ~Waits(client'[c]) /\ InFlight(client'[c]) = 0 /\ client'[c].pc \notin Tests
    BY DEF Waits, InFlight, Tests
  <1>2. WaitQueue(c)' /\ PostedQueue(c)'
    BY <1>1 DEF WaitQueue, PostedQueue
  <1>3. WorkQueue(c)'
    BY <1>1 DEF WorkQueue
  <1>4. QED
    BY <1>2, <1>3

\* A receive, and a work request, are posted to an empty queue.
LEMMA FirstRecv ==
    ASSUME ShapeInv, NEW e \in End, NEW n \in Nat, PostRecv(e, n), Len(recvs[e]) = 0
    PROVE  /\ Len(recvs'[e]) = 1 /\ recvs'[e][1] = [len |-> n, block |-> 0]
           /\ \A f \in End : f # e => recvs'[f] = recvs[f]
  <1>1. recvs \in [End -> Seq(Receive)] /\ recvs[e] \in Seq(Receive)
    BY DEF ShapeInv
  <1>2. recvs[e] = <<>>
    BY <1>1
  <1>3. recvs' = [recvs EXCEPT ![e] = Append(<<>>, [len |-> n, block |-> 0])]
    BY <1>2 DEF PostRecv
  <1>4. recvs'[e] = <<[len |-> n, block |-> 0]>> /\ \A f \in End : f # e => recvs'[f] = recvs[f]
    BY <1>1, <1>3
  <1>5. QED
    BY <1>4

LEMMA FirstPost ==
    ASSUME ShapeInv, NEW e \in End, NEW w, Post(e, w), Len(sq[e]) = 0
    PROVE  /\ Len(sq'[e]) = 1 /\ sq'[e][1] = w
           /\ \A f \in End : f # e => sq'[f] = sq[f]
  <1>1. sq \in [End -> Seq(Request)] /\ sq[e] \in Seq(Request)
    BY DEF ShapeInv
  <1>2. sq[e] = <<>>
    BY <1>1
  <1>3. sq' = [sq EXCEPT ![e] = Append(<<>>, w)]
    BY <1>2 DEF Post
  <1>4. sq'[e] = <<w>> /\ \A f \in End : f # e => sq'[f] = sq[f]
    BY <1>1, <1>3
  <1>5. QED
    BY <1>4

LEMMA ClientRegisterConn ==
    ASSUME FullInv, IndInv', NEW c \in Clients, ClientRegister(c) PROVE FullInv'
  <1> USE Known
  <1>1. /\ client[c].pc = "start" /\ client' = [client EXCEPT ![c].pc = "sync"]
        /\ PostRecv(Client(c), BlockBytes)
        /\ UNCHANGED <<server, m_mutex, active, said, at0, buffer_peer, ring, sq, unacked,
                       cq, aborted>>
    BY DEF ClientRegister, Running
  <1>2. /\ client'[c].pc = "sync" /\ client'[c].round = client[c].round
        /\ client'[c].sent = client[c].sent /\ client'[c].rcvd = client[c].rcvd
        /\ \A d \in Clients : d # c => client'[d] = client[d]
    BY <1>1, ClientFields
  <1>3. /\ Len(sq[Client(c)]) = 0 /\ Len(unacked[Client(c)]) = 0 /\ Len(cq[Client(c)]) = 0
        /\ ~client[c].sent /\ ~client[c].rcvd
    BY <1>1, IdleEmpty
  <1>4. Len(recvs[Client(c)]) = 0
    BY <1>1 DEF RecvQueue, Waits
  <1>5. /\ Len(recvs'[Client(c)]) = 1 /\ recvs'[Client(c)][1] = [len |-> BlockBytes, block |-> 0]
        /\ \A f \in End : f # Client(c) => recvs'[f] = recvs[f]
    BY <1>1, <1>4, Sizes, FirstRecv
  <1>6. WaitQueue(c)' /\ WorkQueue(c)' /\ PostedQueue(c)'
    BY <1>1, <1>2, <1>3, IdleQueues
  <1>7. RecvQueue(c)'
    <2>1. \A i \in 1..1 : recvs'[Client(c)][i].len >= CtlBytes
      BY <1>5, Sizes
    <2>2. QED
      BY <1>2, <1>5, <2>1 DEF RecvQueue
  <1>8. /\ Place(client'[c], server[c], Len(sq[Client(c)]), Len(recvs[Server(c)]))
        /\ Token(client'[c], server[c], Len(sq[Server(c)]), Len(unacked[Server(c)]))
    BY <1>1, <1>2, PlaceStart
  <1>9. aborted' = {}
    BY <1>1
  <1>10. QED
    BY <1>1, <1>2, <1>5, <1>6, <1>7, <1>8, <1>9, ClientConn

LEMMA ClientSyncSendConn ==
    ASSUME FullInv, IndInv', NEW c \in Clients, ClientSyncSend(c) PROVE FullInv'
  <1> USE Known
  <1>1. /\ client[c].pc = "sync" /\ client' = [client EXCEPT ![c].pc = "synced"]
        /\ said' = [said EXCEPT ![Client(c)] = TRUE]
        /\ UNCHANGED <<server, m_mutex, active, at0, buffer_peer, ring, recvs, sq, unacked,
                       cq, aborted>>
    BY DEF ClientSyncSend, Running, nic
  <1>2. /\ client'[c].pc = "synced" /\ client'[c].round = client[c].round
        /\ client'[c].sent = client[c].sent /\ client'[c].rcvd = client[c].rcvd
        /\ \A d \in Clients : d # c => client'[d] = client[d]
    BY <1>1, ClientFields
  <1>3. /\ Len(sq[Client(c)]) = 0 /\ Len(unacked[Client(c)]) = 0 /\ Len(cq[Client(c)]) = 0
        /\ ~client[c].sent /\ ~client[c].rcvd
    BY <1>1, IdleEmpty
  <1>4. WaitQueue(c)' /\ WorkQueue(c)' /\ PostedQueue(c)'
    BY <1>1, <1>2, <1>3, IdleQueues
  <1>5. RecvQueue(c)'
    BY <1>1, <1>2 DEF RecvQueue
  <1>6. /\ Place(client'[c], server[c], Len(sq[Client(c)]), Len(recvs[Server(c)]))
        /\ Token(client'[c], server[c], Len(sq[Server(c)]), Len(unacked[Server(c)]))
    BY <1>1, <1>2, PlaceStart
  <1>7. \A d \in Clients : said'[Server(d)] = said[Server(d)]
    <2>1. said \in [End -> BOOLEAN]
      BY DEF ShapeInv
    <2>2. \A d \in Clients : Server(d) \in End /\ Server(d) # Client(c)
      BY EndFacts
    <2>3. QED
      BY <1>1, <2>1, <2>2, Zenon
  <1>8. aborted' = {}
    BY <1>1
  <1>9. QED
    BY <1>1, <1>2, <1>4, <1>5, <1>6, <1>7, <1>8, ClientConn

\* A client has just asked, and nothing has come back.
LEMMA AskQueues ==
    ASSUME NEW c \in Clients, client'[c].pc \in {"exchange", "answer"},
           ~client'[c].sent, ~client'[c].rcvd,
           Len(sq'[Client(c)]) = 1,
           sq'[Client(c)][1] = Send(ClientMsg(client'[c].pc), AskBytes, 1, "zero"),
           Len(unacked'[Client(c)]) = 0, Len(cq'[Client(c)]) = 0, ~Here(c)',
           Len(recvs'[Client(c)]) = 1, recvs'[Client(c)][1].len >= CtlBytes
    PROVE  WaitQueue(c)' /\ WorkQueue(c)' /\ PostedQueue(c)' /\ RecvQueue(c)'
  <1>1. Waits(client'[c]) /\ InFlight(client'[c]) = 1 /\ client'[c].pc \notin Tests \cup Rdma
    BY DEF Waits, InFlight, Tests, Rdma
  <1>2. ~Got(c, "SEND")' /\ ~Got(c, "RECV")'
    BY DEF Got
  <1>3. WaitQueue(c)'
    BY <1>1, <1>2 DEF WaitQueue
  <1>4. WorkQueue(c)'
    BY <1>1 DEF WorkQueue
  <1>5. PostedQueue(c)'
    BY <1>1, Constants DEF PostedQueue, ClientOp, ClientLen, Send
  <1>6. RecvQueue(c)'
    BY <1>1 DEF RecvQueue
  <1>7. QED
    BY <1>3, <1>4, <1>5, <1>6

LEMMA ClientSyncRecvConn ==
    ASSUME FullInv, IndInv', NEW c \in Clients, ClientSyncRecv(c) PROVE FullInv'
  <1> USE Known
  <1>1. /\ client[c].pc = "synced" /\ client' = [client EXCEPT ![c].pc = "exchange"]
        /\ said[Server(c)]
        /\ Post(Client(c), Send("REQUEST_BUFFER", AskBytes, 1, "zero"))
        /\ UNCHANGED <<server, m_mutex, active, said, at0, buffer_peer, ring, recvs,
                       unacked, cq, aborted>>
    BY DEF ClientSyncRecv, Running
  <1>2. /\ client'[c].pc = "exchange" /\ client'[c].round = client[c].round
        /\ client'[c].sent = client[c].sent /\ client'[c].rcvd = client[c].rcvd
        /\ \A d \in Clients : d # c => client'[d] = client[d]
    BY <1>1, ClientFields
  <1>3. /\ Len(sq[Client(c)]) = 0 /\ Len(unacked[Client(c)]) = 0 /\ Len(cq[Client(c)]) = 0
        /\ ~client[c].sent /\ ~client[c].rcvd
    BY <1>1, IdleEmpty
  <1>4. /\ Len(sq'[Client(c)]) = 1
        /\ sq'[Client(c)][1] = Send("REQUEST_BUFFER", AskBytes, 1, "zero")
        /\ \A f \in End : f # Client(c) => sq'[f] = sq[f]
    BY <1>1, <1>3, FirstPost
  <1>5. server[c].pc \notin {"start", "register", "sync"}
    BY <1>1 DEF SaidAt
  <1>6. /\ Place(client'[c], server[c], 1, Len(recvs[Server(c)]))
        /\ Token(client'[c], server[c], Len(sq[Server(c)]), Len(unacked[Server(c)]))
        /\ server[c].pc \in {"synced", "exchange"}
    BY <1>1, <1>2, <1>5, PlaceAsk
  <1>7. ~Here(c)'
    BY <1>1, <1>2, <1>6 DEF Here, Answered, Unasked
  <1>8. Len(recvs[Client(c)]) = 1 /\ recvs[Client(c)][1].len >= CtlBytes
    <2>1. Len(recvs[Client(c)]) = 1
      BY <1>1 DEF RecvQueue
    <2>2. 1 \in 1..Len(recvs[Client(c)])
      BY <2>1
    <2>3. QED
      BY <2>1, <2>2, Zenon DEF RecvQueue
  <1>9. ClientMsg("exchange") = "REQUEST_BUFFER"
    BY DEF ClientMsg
  <1>10. WaitQueue(c)' /\ WorkQueue(c)' /\ PostedQueue(c)' /\ RecvQueue(c)'
    BY <1>1, <1>2, <1>3, <1>4, <1>7, <1>8, <1>9, AskQueues
  <1>11. aborted' = {}
    BY <1>1
  <1>12. QED
    BY <1>1, <1>2, <1>4, <1>6, <1>10, <1>11, ClientConn

LEMMA ClientRequestConn ==
    ASSUME FullInv, IndInv', NEW c \in Clients, ClientRequest(c) PROVE FullInv'
  <1> USE Known
  <1>1. /\ client[c].pc = "request" /\ client' = [client EXCEPT ![c].pc = "answer"]
        /\ PostRecv(Client(c), CtlBytes)
        /\ Post(Client(c), Send("SEND_TEST_REQUEST", AskBytes, 1, "zero"))
        /\ UNCHANGED <<server, m_mutex, active, said, at0, buffer_peer, ring, unacked, cq,
                       aborted>>
    BY DEF ClientRequest, Running
  <1>2. /\ client'[c].pc = "answer" /\ client'[c].round = client[c].round
        /\ client'[c].sent = client[c].sent /\ client'[c].rcvd = client[c].rcvd
        /\ \A d \in Clients : d # c => client'[d] = client[d]
    BY <1>1, ClientFields
  <1>3. /\ Len(sq[Client(c)]) = 0 /\ Len(unacked[Client(c)]) = 0 /\ Len(cq[Client(c)]) = 0
        /\ ~client[c].sent /\ ~client[c].rcvd
    BY <1>1, IdleEmpty
  <1>4. /\ Len(sq'[Client(c)]) = 1
        /\ sq'[Client(c)][1] = Send("SEND_TEST_REQUEST", AskBytes, 1, "zero")
        /\ \A f \in End : f # Client(c) => sq'[f] = sq[f]
    BY <1>1, <1>3, FirstPost
  <1>5. Len(recvs[Client(c)]) = 0
    BY <1>1 DEF RecvQueue, Waits
  <1>6. /\ Len(recvs'[Client(c)]) = 1 /\ recvs'[Client(c)][1] = [len |-> CtlBytes, block |-> 0]
        /\ \A f \in End : f # Client(c) => recvs'[f] = recvs[f]
    BY <1>1, <1>5, Constants, FirstRecv
  <1>7. /\ Place(client'[c], server[c], 1, Len(recvs[Server(c)]))
        /\ Token(client'[c], server[c], Len(sq[Server(c)]), Len(unacked[Server(c)]))
        /\ ~(server[c].pc \in {"answered", "data"} /\ server[c].round = client'[c].round)
    <2>1. Place(client[c], server[c], 0, Len(recvs[Server(c)]))
      BY <1>3
    <2>2. PICK C \in ClientState, S \in ServerState : C = client[c] /\ S = server[c]
      OBVIOUS
    <2>3. PICK D, n, x, y : /\ D = client'[c] /\ n = Len(recvs[Server(c)])
                            /\ x = Len(sq[Server(c)]) /\ y = Len(unacked[Server(c)])
      OBVIOUS
    <2>4. /\ Place(C, S, 0, n) /\ Token(C, S, x, y)
          /\ C.pc = "request" /\ D.pc = "answer" /\ D.round = C.round
      BY <1>1, <1>2, <2>1, <2>2, <2>3
    <2>5. /\ Place(D, S, 1, n) /\ Token(D, S, x, y)
          /\ ~(S.pc \in {"answered", "data"} /\ S.round = D.round)
      BY <2>4, PlaceRequest
    <2>6. QED
      BY <2>2, <2>3, <2>5
  <1>8. ~Here(c)'
    BY <1>1, <1>2, <1>7 DEF Here, Answered, Unasked
  <1>9. recvs'[Client(c)][1].len >= CtlBytes
    BY <1>6, Constants
  <1>10. ClientMsg("answer") = "SEND_TEST_REQUEST"
    BY DEF ClientMsg
  <1>11. WaitQueue(c)' /\ WorkQueue(c)' /\ PostedQueue(c)' /\ RecvQueue(c)'
    BY <1>1, <1>2, <1>3, <1>4, <1>6, <1>8, <1>9, <1>10, AskQueues
  <1>12. aborted' = {}
    BY <1>1
  <1>13. QED
    BY <1>1, <1>2, <1>4, <1>6, <1>7, <1>11, <1>12, ClientConn

LEMMA ClientByeConn ==
    ASSUME FullInv, IndInv', NEW c \in Clients, ClientBye(c) PROVE FullInv'
  <1> USE Known
  <1>1. /\ client[c].pc = "bye" /\ client' = [client EXCEPT ![c].pc = "leaving"]
        /\ Post(Client(c), Send("BYEBYE", CtlBytes, 0, "zero"))
        /\ UNCHANGED <<server, m_mutex, active, said, at0, buffer_peer, ring, recvs,
                       unacked, cq, aborted>>
    BY DEF ClientBye, Running
  <1>2. /\ client'[c].pc = "leaving" /\ client'[c].round = client[c].round
        /\ client'[c].sent = client[c].sent /\ client'[c].rcvd = client[c].rcvd
        /\ \A d \in Clients : d # c => client'[d] = client[d]
    BY <1>1, ClientFields
  <1>3. /\ Len(sq[Client(c)]) = 0 /\ Len(unacked[Client(c)]) = 0 /\ Len(cq[Client(c)]) = 0
        /\ ~client[c].sent /\ ~client[c].rcvd
    BY <1>1, IdleEmpty
  <1>4. /\ Len(sq'[Client(c)]) = 1
        /\ sq'[Client(c)][1] = Send("BYEBYE", CtlBytes, 0, "zero")
        /\ \A f \in End : f # Client(c) => sq'[f] = sq[f]
    BY <1>1, <1>3, FirstPost
  <1>5. After(client'[c], 1)
    BY <1>2 DEF After
  <1>6. /\ Place(client'[c], server[c], 1, Len(recvs[Server(c)]))
        /\ Token(client'[c], server[c], Len(sq[Server(c)]), Len(unacked[Server(c)]))
    <2>1. client[c].pc \in Rdma \cup {"bye"} /\ 1 \in Nat
      BY <1>1
    <2>2. QED
      BY <1>5, <2>1, PlaceAfter
  <1>7. ~Waits(client'[c]) /\ InFlight(client'[c]) = 1 /\ client'[c].pc \notin Tests \cup Rdma
    BY <1>2 DEF Waits, InFlight, Tests, Rdma
  <1>8. WaitQueue(c)' /\ WorkQueue(c)'
    <2>1. Len(sq'[Client(c)]) + Len(unacked'[Client(c)]) + Len(cq'[Client(c)]) = 1
      BY <1>1, <1>3, <1>4
    <2>2. \A i \in 1..Len(cq'[Client(c)]) : FALSE
      BY <1>1, <1>3
    <2>3. ~client'[c].sent /\ ~client'[c].rcvd
      BY <1>2, <1>3, Zenon
    <2>4. QED
      BY <1>7, <2>1, <2>2, <2>3 DEF WaitQueue, WorkQueue
  <1>9. PostedQueue(c)'
    <2>1. ClientOp("leaving") = "SEND" /\ ClientMsg("leaving") = "BYEBYE" /\ ClientLen("leaving") = CtlBytes
      BY DEF ClientOp, ClientMsg, ClientLen, Tests
    <2>2. /\ sq'[Client(c)][1].op = "SEND" /\ sq'[Client(c)][1].msg = "BYEBYE"
          /\ sq'[Client(c)][1].len <= CtlBytes
      BY <1>4, Constants DEF Send
    <2>3. \A i \in 1..Len(unacked'[Client(c)]) : FALSE
      BY <1>1, <1>3
    <2>4. \A i \in 1..Len(sq'[Client(c)]) : i = 1
      BY <1>4
    <2>5. QED
      BY <1>2, <1>7, <2>1, <2>2, <2>3, <2>4 DEF PostedQueue
  <1>10. RecvQueue(c)'
    <2>1. Len(recvs[Client(c)]) = 0
      BY <1>1 DEF RecvQueue, Waits
    <2>2. QED
      BY <1>1, <1>2, <1>7, <2>1 DEF RecvQueue
  <1>11. aborted' = {}
    BY <1>1
  <1>12. QED
    BY <1>1, <1>2, <1>4, <1>6, <1>8, <1>9, <1>10, <1>11, ClientConn

LEMMA ClientExitConn ==
    ASSUME FullInv, IndInv', NEW c \in Clients, ClientExit(c) PROVE FullInv'
  <1> USE Known
  <1>1. /\ client[c].pc = "leaving" /\ client' = [client EXCEPT ![c].pc = "exited"]
        /\ sq' = [sq EXCEPT ![Client(c)] = <<>>]
        /\ unacked' = [unacked EXCEPT ![Client(c)] = <<>>]
        /\ cq' = [cq EXCEPT ![Client(c)] = <<>>]
        /\ UNCHANGED <<server, m_mutex, active, said, at0, buffer_peer, ring, recvs, aborted>>
    BY DEF ClientExit, Running
  <1>2. /\ client'[c].pc = "exited" /\ client'[c].round = client[c].round
        /\ client'[c].sent = client[c].sent /\ client'[c].rcvd = client[c].rcvd
        /\ \A d \in Clients : d # c => client'[d] = client[d]
    BY <1>1, ClientFields
  <1>3. ~client[c].sent /\ ~client[c].rcvd
    <2>1. ~Waits(client[c])
      BY <1>1 DEF Waits
    <2>2. QED
      BY <2>1, Zenon DEF WorkQueue
  <1>4. /\ sq'[Client(c)] = <<>> /\ unacked'[Client(c)] = <<>> /\ cq'[Client(c)] = <<>>
        /\ \A f \in End : f # Client(c) =>
              sq'[f] = sq[f] /\ unacked'[f] = unacked[f] /\ cq'[f] = cq[f]
    <2>1. /\ sq \in [End -> Seq(Request)] /\ unacked \in [End -> Seq(Request)]
          /\ cq \in [End -> Seq(Completion)]
      BY DEF ShapeInv
    <2>2. QED
      BY <1>1, <2>1
  <1>5. Len(sq'[Client(c)]) = 0 /\ Len(unacked'[Client(c)]) = 0 /\ Len(cq'[Client(c)]) = 0
    BY <1>4
  <1>6. WaitQueue(c)' /\ WorkQueue(c)' /\ PostedQueue(c)'
    BY <1>2, <1>3, <1>5, IdleQueues
  <1>7. RecvQueue(c)'
    <2>1. Len(recvs[Client(c)]) = 0
      BY <1>1 DEF RecvQueue, Waits
    <2>2. QED
      BY <1>1, <1>2, <2>1 DEF RecvQueue, Waits
  <1>8. /\ Place(client'[c], server[c], 0, Len(recvs[Server(c)]))
        /\ Token(client'[c], server[c], Len(sq[Server(c)]), Len(unacked[Server(c)]))
    BY <1>1, <1>2, PlaceExit
  <1>9. aborted' = {}
    BY <1>1
  <1>10. QED
    BY <1>1, <1>2, <1>4, <1>5, <1>6, <1>7, <1>8, <1>9, ClientConn

\* A work request joins a send queue.
LEMMA PostMore ==
    ASSUME ShapeInv, NEW e \in End, NEW w \in Request, Post(e, w)
    PROVE  /\ Len(sq'[e]) = Len(sq[e]) + 1
           /\ \A i \in 1..Len(sq'[e]) :
                 sq'[e][i] = w \/ (i \in 1..Len(sq[e]) /\ sq'[e][i] = sq[e][i])
           /\ \A f \in End : f # e => sq'[f] = sq[f]
  <1>1. PICK q \in Seq(Request) : q = sq[e]
    BY DEF ShapeInv
  <1>2. sq'[e] = Append(q, w) /\ \A f \in End : f # e => sq'[f] = sq[f]
    BY <1>1, PostFacts
  <1>3. PICK r : r = Append(q, w)
    OBVIOUS
  <1>4. /\ Len(q) \in Nat /\ Len(r) = Len(q) + 1 /\ r[Len(q) + 1] = w
        /\ \A i \in 1..Len(q) : r[i] = q[i]
    BY <1>3, AppendFacts
  <1>5. \A i \in 1..Len(r) : i \in 1..Len(q) \/ i = Len(q) + 1
    BY <1>4
  <1>6. \A i \in 1..Len(r) : r[i] = w \/ (i \in 1..Len(q) /\ r[i] = q[i])
    BY <1>4, <1>5
  <1>7. QED
    BY <1>1, <1>2, <1>3, <1>4, <1>6

LEMMA ClientPostConn ==
    ASSUME FullInv, IndInv', SleepCovers, NEW c \in Clients, NEW test \in Tests,
           ClientPost(c, test)
    PROVE  FullInv'
  <1> USE Known
  <1>1. /\ client[c].pc = test /\ client[c].index < Count
        /\ client' = [client EXCEPT ![c].index = @ + 1]
        /\ Post(Client(c), TestRequest(c, test))
        /\ UNCHANGED <<server, m_mutex, active, said, at0, buffer_peer, recvs, unacked, cq,
                       aborted>>
    BY PostChecked DEF ClientPost, Running, More
  <1>2. /\ test \in Bursts \/ client[c].index = client[c].confirm
        /\ test = "data" /\ client[c].index = 0 => unacked[Server(c)] = <<>>
    BY DEF ClientPost, Window
  <1>3. /\ client'[c].pc = client[c].pc /\ client'[c].round = client[c].round
        /\ client'[c].index = client[c].index + 1 /\ client'[c].confirm = client[c].confirm
        /\ client'[c].sent = client[c].sent /\ client'[c].rcvd = client[c].rcvd
        /\ client'[c] \in ClientState
        /\ \A d \in Clients : d # c => client'[d] = client[d]
    BY <1>1, ClientCounts
  <1>4. PICK w \in Request :
           /\ w = TestRequest(c, test) /\ w.op = TestOp(test) /\ w.msg = "TEST_RAW_DATA"
           /\ w.len <= BlockBytes /\ (test # "data" => w.data = c)
    BY <1>1, TestRequestFacts
  <1>5. Post(Client(c), w)
    BY <1>1, <1>4
  <1>6. /\ Len(sq'[Client(c)]) = Len(sq[Client(c)]) + 1
        /\ \A i \in 1..Len(sq'[Client(c)]) :
              \/ sq'[Client(c)][i] = w
              \/ i \in 1..Len(sq[Client(c)]) /\ sq'[Client(c)][i] = sq[Client(c)][i]
        /\ \A f \in End : f # Client(c) => sq'[f] = sq[f]
    BY <1>5, PostMore
  <1>7. /\ ~Waits(client[c]) /\ ~Waits(client'[c]) /\ client[c].pc \in Tests
        /\ client'[c].pc \in Tests /\ client[c].pc \notin {"exchange", "answer", "leaving"}
    BY <1>1, <1>3 DEF Waits, Tests
  <1>8. WaitQueue(c)'
    BY <1>7 DEF WaitQueue
  <1>9. WorkQueue(c)'
    <2>1. ~client'[c].sent /\ ~client'[c].rcvd
      BY <1>3, <1>7, Zenon DEF WorkQueue
    <2>2. /\ Len(sq[Client(c)]) + Len(unacked[Client(c)]) + Len(cq[Client(c)])
                = client[c].index - client[c].confirm
          /\ client[c].confirm <= client[c].index
      BY <1>7 DEF WorkQueue, InFlight
    <2>3. client[c].index \in Nat /\ client[c].confirm \in Nat
      BY Fields
    <2>4. InFlight(client'[c]) = client'[c].index - client'[c].confirm
      BY <1>3, <1>7 DEF InFlight
    <2>5. Len(sq'[Client(c)]) + Len(unacked'[Client(c)]) + Len(cq'[Client(c)])
                = InFlight(client'[c])
      <3>1. PICK i, j, u, v, d \in Nat :
               /\ i = client[c].index /\ j = client[c].confirm /\ u = Len(sq[Client(c)])
               /\ v = Len(unacked[Client(c)]) /\ d = Len(cq[Client(c)])
        BY <2>3
      <3>2. u + v + d = i - j
        BY <2>2, <3>1
      <3>3. (u + 1) + v + d = (i + 1) - j
        BY <3>2
      <3>4. QED
        BY <1>1, <1>3, <1>6, <2>4, <3>1, <3>3
    <2>6. \A i \in 1..Len(cq'[Client(c)]) : cq'[Client(c)][i].op = ClientOp(client'[c].pc)
      BY <1>1, <1>3, <1>7 DEF WorkQueue
    <2>7. /\ client'[c].confirm <= client'[c].index
          /\ client'[c].pc \notin Bursts => client'[c].index <= client'[c].confirm + 1
      BY <1>1, <1>2, <1>3, <2>2, <2>3
    <2>8. QED
      BY <2>1, <2>5, <2>6, <2>7 DEF WorkQueue
  <1>10. PostedQueue(c)'
    <2>1. /\ ClientOp(test) = TestOp(test) /\ ClientMsg(test) = "TEST_RAW_DATA"
          /\ ClientLen(test) = BlockBytes
      BY <1>1, <1>7 DEF ClientOp, ClientMsg, ClientLen
    <2>2. test \in Rdma => test # "data"
      BY DEF Rdma
    <2>3. \A i \in 1..Len(sq'[Client(c)]) :
             /\ sq'[Client(c)][i].op = ClientOp(test)
             /\ sq'[Client(c)][i].msg = ClientMsg(test)
             /\ sq'[Client(c)][i].len <= ClientLen(test)
             /\ test \in Rdma => sq'[Client(c)][i].data = c
      <3>1. \A i \in 1..Len(sq[Client(c)]) :
               /\ sq[Client(c)][i].op = ClientOp(test)
               /\ sq[Client(c)][i].msg = ClientMsg(test)
               /\ sq[Client(c)][i].len <= ClientLen(test)
               /\ test \in Rdma => sq[Client(c)][i].data = c
        BY <1>1 DEF PostedQueue
      <3>2. w.op = ClientOp(test) /\ w.msg = ClientMsg(test) /\ w.len <= ClientLen(test)
            /\ (test \in Rdma => w.data = c)
        BY <1>4, <2>1, <2>2
      <3>3. QED
        BY <1>6, <3>1, <3>2
    <2>4. \A i \in 1..Len(unacked'[Client(c)]) : unacked'[Client(c)][i].op = ClientOp(test)
      BY <1>1 DEF PostedQueue
    <2>5. client'[c].pc = test
      BY <1>1, <1>3
    <2>6. QED
      BY <2>3, <2>4, <2>5 DEF PostedQueue
  <1>11. RecvQueue(c)'
    <2>1. client[c].pc \notin {"sync", "synced"}
      BY <1>7 DEF Tests
    <2>2. Len(recvs[Client(c)]) = 0
      BY <1>7, <2>1 DEF RecvQueue
    <2>3. QED
      BY <1>1, <1>3, <1>7, <2>1, <2>2 DEF RecvQueue
  <1>12. /\ Place(client'[c], server[c], Len(sq'[Client(c)]), Len(recvs[Server(c)]))
         /\ Token(client'[c], server[c], Len(sq[Server(c)]), Len(unacked[Server(c)]))
    <2>1. CASE test = "data"
      <3>1. client[c].index = 0 => Len(unacked[Server(c)]) = 0
        BY <1>2, <2>1
      <3>2. client[c].pc = "data" /\ client'[c].pc = "data"
        BY <1>1, <1>3, <2>1
      <3>3. /\ Place(client'[c], server[c], Len(sq[Client(c)]) + 1, Len(recvs[Server(c)]))
            /\ Token(client'[c], server[c], Len(sq[Server(c)]), Len(unacked[Server(c)]))
        BY <1>3, <3>1, <3>2, PlaceData
      <3>4. QED
        BY <1>6, <3>3
    <2>2. CASE test # "data"
      <3>1. client[c].pc \in Rdma \cup {"bye"} /\ Len(sq[Client(c)]) + 1 \in Nat
        BY <1>1, <2>2 DEF Tests, Rdma
      <3>2. After(client'[c], Len(sq[Client(c)]) + 1)
        BY <1>1, <1>3, <2>2 DEF After, Tests, Rdma
      <3>3. /\ Place(client'[c], server[c], Len(sq[Client(c)]) + 1, Len(recvs[Server(c)]))
            /\ Token(client'[c], server[c], Len(sq[Server(c)]), Len(unacked[Server(c)]))
        BY <3>1, <3>2, PlaceAfter
      <3>4. QED
        BY <1>6, <3>3
    <2>3. QED
      BY <2>1, <2>2
  <1>13. aborted' = {}
    BY <1>1
  <1>14. QED
    BY <1>1, <1>3, <1>6, <1>8, <1>9, <1>10, <1>11, <1>12, <1>13, ClientConn

LEMMA ClientPollConn ==
    ASSUME FullInv, IndInv', NEW c \in Clients, NEW test \in Tests, ClientPoll(c, test)
    PROVE  FullInv'
  <1> USE Known
  <1>1. /\ client[c].pc = test
        /\ UNCHANGED <<server, m_mutex, active, said, at0, buffer_peer, recvs, sq, unacked>>
    BY DEF ClientPoll, Running
  <1>2. PICK k \in Nat, D \in ClientState :
              /\ k >= 1 /\ k <= Len(cq[Client(c)])
              /\ \A f \in End : f # Client(c) => cq'[f] = cq[f]
              /\ Len(cq'[Client(c)]) = Len(cq[Client(c)]) - k
              /\ \A i \in 1..Len(cq'[Client(c)]) : cq'[Client(c)][i] = cq[Client(c)][i + k]
              /\ client'[c] = D /\ \A d \in Clients : d # c => client'[d] = client[d]
              /\ D.sent = client[c].sent /\ D.rcvd = client[c].rcvd
              /\ client[c].confirm + k < Count =>
                    /\ D.pc = test /\ D.round = client[c].round
                    /\ D.index = client[c].index /\ D.confirm = client[c].confirm + k
              /\ client[c].confirm + k >= Count =>
                    /\ D.index = 0 /\ D.confirm = 0
                    /\ test # "data" => D.pc \in {"write", "read", "bw", "fake", "bye"}
                    /\ test = "data" =>
                          \/ client[c].round < Rounds /\ D.pc = "request"
                             /\ D.round = client[c].round + 1
                          \/ client[c].round = Rounds /\ D.pc = "write"
              /\ client[c].confirm + k <= Count
                    /\ (\A i \in 1..k : cq[Client(c)][i].op = TestOp(test))
                 => aborted' = aborted
    BY ClientPollFacts
  <1>3. /\ ~Waits(client[c]) /\ client[c].pc \in Tests
        /\ client[c].pc \notin {"exchange", "answer", "leaving", "sync", "synced"}
    BY <1>1 DEF Waits, Tests
  <1>4. PICK i, j, u, v, q \in Nat :
           /\ i = client[c].index /\ j = client[c].confirm /\ u = Len(sq[Client(c)])
           /\ v = Len(unacked[Client(c)]) /\ q = Len(cq[Client(c)])
           /\ i <= Count
    BY Fields
  <1>5. /\ u + v + q = i - j /\ j <= i
        /\ test \notin Bursts => i <= j + 1
    BY <1>1, <1>3, <1>4 DEF WorkQueue, InFlight
  <1>6. ~client[c].sent /\ ~client[c].rcvd
    BY <1>3, Zenon DEF WorkQueue
  <1>7. \A m \in 1..Len(cq[Client(c)]) : cq[Client(c)][m].op = TestOp(test)
    BY <1>1, <1>3 DEF WorkQueue, ClientOp
  <1>8. k <= q /\ u + v + (q - k) = i - (j + k) /\ j + k <= i /\ j + k <= Count /\ Count \in Nat
    <2>1. k <= q /\ Count \in Nat
      BY <1>2, <1>4, Constants
    <2>2. u + v + (q - k) = i - (j + k) /\ j + k <= i
      <3>1. u + v + q = i - j /\ k <= q
        BY <1>5, <2>1
      <3>2. \A d, e, f, g, h, l \in Nat :
               d + e + f = g - h /\ l <= f => d + e + (f - l) = g - (h + l) /\ h + l <= g
        OBVIOUS
      <3>3. QED
        BY <3>1, <3>2
    <2>3. j + k <= Count
      BY <1>4, <2>1, <2>2
    <2>4. QED
      BY <2>1, <2>2, <2>3
  <1>9. aborted' = {}
    <2>1. \A m \in 1..k : m \in 1..Len(cq[Client(c)])
      BY <1>4, <1>8
    <2>2. QED
      BY <1>2, <1>4, <1>7, <1>8, <2>1
  <1>10. \A m \in 1..Len(cq'[Client(c)]) :
            cq'[Client(c)][m].op = TestOp(test)
    <2> HIDE Known
    <2>0. PICK l \in Nat : l = Len(cq'[Client(c)]) /\ l = q - k
      <3>1. k <= q
        BY <1>8
      <3>2. PICK l \in Nat : l = q - k
        BY <3>1
      <3>3. Len(cq'[Client(c)]) = q - k
        BY <1>2, <1>4
      <3>4. QED
        BY <3>2, <3>3
    <2>1. \A m \in 1..Len(cq'[Client(c)]) : m + k \in 1..Len(cq[Client(c)])
      <3>1. \A m \in 1..l : m + k \in 1..q
        BY <2>0
      <3>2. QED
        BY <1>4, <2>0, <3>1
    <2>2. ASSUME NEW m \in 1..Len(cq'[Client(c)]) PROVE cq'[Client(c)][m].op = TestOp(test)
      <3>1. PICK h \in 1..Len(cq[Client(c)]) : h = m + k
        BY <2>1
      <3>2. cq'[Client(c)][m] = cq[Client(c)][h]
        BY <1>2, <3>1
      <3>3. cq[Client(c)][h].op = TestOp(test)
        BY <1>7
      <3>4. QED
        BY <3>2, <3>3
    <2>3. QED
      BY <2>2
  <1>11. Len(recvs[Client(c)]) = 0
    BY <1>3 DEF RecvQueue
  <1>12. ~client'[c].sent /\ ~client'[c].rcvd
    BY <1>2, <1>6, Zenon
  <1>13. CASE j + k < Count
    <2>1. /\ D.pc = test /\ D.round = client[c].round
          /\ D.index = i /\ D.confirm = j + k
      BY <1>2, <1>4, <1>13
    <2>2. /\ Place(D, server[c], Len(sq[Client(c)]), Len(recvs[Server(c)]))
          /\ Token(D, server[c], Len(sq[Server(c)]), Len(unacked[Server(c)]))
      BY <1>1, <1>4, <2>1, PlaceStays
    <2>3. ~Waits(D) /\ InFlight(D) = i - (j + k) /\ D.pc = client[c].pc
      BY <1>1, <1>3, <2>1 DEF Waits, InFlight
    <2>4. WaitQueue(c)'
      BY <1>2, <2>3 DEF WaitQueue
    <2>5. WorkQueue(c)'
      <3>1. Len(sq'[Client(c)]) + Len(unacked'[Client(c)]) + Len(cq'[Client(c)]) = InFlight(D)
        BY <1>1, <1>2, <1>4, <1>8, <2>3
      <3>2. D.confirm <= D.index /\ (D.pc \notin Bursts => D.index <= D.confirm + 1)
        BY <1>2, <1>5, <1>8, <2>1
      <3>3. ClientOp(D.pc) = TestOp(test)
        BY <2>1 DEF ClientOp
      <3>4. QED
        BY <1>2, <1>10, <1>12, <2>3, <3>1, <3>2, <3>3 DEF WorkQueue
    <2>6. PostedQueue(c)' /\ RecvQueue(c)'
      <3>1. PostedQueue(c)'
        <4>1. /\ client'[c].pc = client[c].pc /\ sq'[Client(c)] = sq[Client(c)]
              /\ unacked'[Client(c)] = unacked[Client(c)] /\ PostedQueue(c)
          BY <1>1, <1>2, <2>3
        <4>2. QED
          BY <4>1, Zenon DEF PostedQueue
      <3>2. RecvQueue(c)'
        BY <1>1, <1>2, <1>3, <1>11, <2>3 DEF RecvQueue
      <3>3. QED
        BY <3>1, <3>2
    <2>7. QED
      BY <1>1, <1>2, <1>9, <2>2, <2>4, <2>5, <2>6, ClientConn
  <1>14. CASE j + k >= Count
    <2>1. /\ D.index = 0 /\ D.confirm = 0
          /\ test # "data" => D.pc \in {"write", "read", "bw", "fake", "bye"}
          /\ test = "data" =>
                \/ client[c].round < Rounds /\ D.pc = "request"
                   /\ D.round = client[c].round + 1
                \/ client[c].round = Rounds /\ D.pc = "write"
      BY <1>2, <1>4, <1>14
    <2>2. i = Count /\ u = 0 /\ v = 0 /\ Len(cq'[Client(c)]) = 0
      <3>1. i = Count /\ u = 0 /\ v = 0 /\ q - k = 0
        <4>1. PICK d \in Nat : d = q - k
          BY <1>8
        <4>2. i = Count /\ j + k = i
          <5>1. i <= Count /\ Count \in Nat
            BY <1>4, <1>8
          <5>2. QED
            BY <1>8, <1>14, <5>1
        <4> HIDE Known
        <4>3. u + v + d = 0
          <5>1. u + v + (q - k) = i - (j + k)
            BY <1>8
          <5>2. u + v + d = i - i
            BY <4>1, <4>2, <5>1
          <5>3. QED
            BY <5>2
        <4>4. QED
          BY <4>1, <4>2, <4>3
      <3>2. Len(cq'[Client(c)]) = q - k
        BY <1>2, <1>4
      <3>3. QED
        BY <3>1, <3>2
    <2>3. D.pc \in {"request", "write", "read", "bw", "fake", "bye"}
      BY <2>1
    <2>4. /\ Place(D, server[c], 0, Len(recvs[Server(c)]))
          /\ Token(D, server[c], Len(sq[Server(c)]), Len(unacked[Server(c)]))
      <3>1. CASE test = "data"
        <4>1. Place(client[c], server[c], 0, Len(recvs[Server(c)]))
          BY <1>4, <2>2
        <4>2. client[c].pc = "data" /\ client[c].index = Count
          BY <1>1, <1>4, <2>2, <3>1
        <4>3. QED
          BY <2>1, <3>1, <4>1, <4>2, PlaceRound
      <3>2. CASE test # "data"
        <4>1. client[c].pc \in Rdma \cup {"bye"} /\ After(D, 0) /\ 0 \in Nat
          BY <1>1, <2>1, <3>2 DEF Tests, Rdma, After
        <4>2. QED
          BY <4>1, PlaceAfter
      <3>3. QED
        BY <3>1, <3>2
    <2>5. ~Waits(D) /\ InFlight(D) = 0
      BY <2>1, <2>3 DEF Waits, InFlight
    <2>6. Len(sq'[Client(c)]) = 0 /\ Len(unacked'[Client(c)]) = 0
      BY <1>1, <1>4, <2>2
    <2>7. WaitQueue(c)'
      BY <1>2, <2>5 DEF WaitQueue
    <2>8. WorkQueue(c)'
      <3>1. Len(sq'[Client(c)]) + Len(unacked'[Client(c)]) + Len(cq'[Client(c)]) = InFlight(D)
        BY <2>2, <2>5, <2>6
      <3>2. D.confirm <= D.index /\ D.index <= D.confirm + 1
        BY <2>1
      <3>3. \A m \in 1..Len(cq'[Client(c)]) : FALSE
        BY <2>2
      <3>4. QED
        BY <1>2, <1>12, <2>5, <3>1, <3>2, <3>3 DEF WorkQueue
    <2>9. PostedQueue(c)' /\ RecvQueue(c)'
      <3>1. /\ \A m \in 1..Len(sq'[Client(c)]) : FALSE
            /\ \A m \in 1..Len(unacked'[Client(c)]) : FALSE
        BY <2>6
      <3>2. PostedQueue(c)'
        BY <3>1 DEF PostedQueue
      <3>3. D.pc \notin {"sync", "synced"}
        BY <2>3
      <3>4. RecvQueue(c)'
        BY <1>1, <1>2, <1>11, <2>5, <3>3 DEF RecvQueue
      <3>5. QED
        BY <3>2, <3>4
    <2>10. QED
      BY <1>1, <1>2, <1>9, <2>4, <2>6, <2>7, <2>8, <2>9, ClientConn
  <1>15. QED
    BY <1>8, <1>13, <1>14

\* A client that waits has its SEND to confirm.
LEMMA WaitsInFlight ==
    ASSUME NEW C, Waits(C)
    PROVE  (C.sent => InFlight(C) = 0) /\ (~C.sent => InFlight(C) = 1)
  <1>1. CASE C.sent
    BY <1>1 DEF Waits, InFlight, Tests
  <1>2. CASE ~C.sent
    BY <1>2 DEF Waits, InFlight, Tests
  <1>3. QED
    BY <1>1, <1>2

LEMMA ClientAwaitConn ==
    ASSUME FullInv, IndInv', NEW c \in Clients, NEW pc \in {"exchange", "answer"},
           ClientAwait(c, pc)
    PROVE  FullInv'
  <1>0. /\ IndInv /\ aborted = {} /\ Client(c) \in End
        /\ client[c] \in ClientState /\ server[c] \in ServerState
        /\ Place(client[c], server[c], Len(sq[Client(c)]), Len(recvs[Server(c)]))
        /\ Token(client[c], server[c], Len(sq[Server(c)]), Len(unacked[Server(c)]))
        /\ WaitQueue(c) /\ PostedQueue(c) /\ RecvQueue(c)
        /\ Len(sq[Client(c)]) \in Nat /\ Len(unacked[Client(c)]) \in Nat
        /\ Len(cq[Client(c)]) \in Nat /\ Len(recvs[Server(c)]) \in Nat
        /\ cq[Client(c)] \in Seq(Completion)
    BY Known, ConnTypes
  <1>1. /\ client[c].pc = pc
        /\ UNCHANGED <<server, m_mutex, active, said, at0, ring, recvs, sq, unacked>>
    BY DEF ClientAwait, Running
  <1>d. PICK D \in ClientState, wc \in Completion, s \in BOOLEAN, t \in BOOLEAN :
           Awaited(c, pc, D, wc, s, t)
    BY <1>0, ClientAwaitFacts
  <1>2. /\ 1 \in 1..Len(cq[Client(c)]) /\ wc = cq[Client(c)][1]
        /\ \A f \in End : f # Client(c) => cq'[f] = cq[f]
        /\ Len(cq'[Client(c)]) = Len(cq[Client(c)]) - 1
        /\ \A i \in 1..Len(cq'[Client(c)]) : cq'[Client(c)][i] = cq[Client(c)][i + 1]
        /\ s <=> client[c].sent \/ wc.op = "SEND"
        /\ t <=> client[c].rcvd \/ wc.op = "RECV"
        /\ client'[c] = D /\ \A d \in Clients : d # c => client'[d] = client[d]
        /\ D.round = client[c].round
        /\ s /\ t => /\ D.pc = IF pc = "exchange" THEN "request" ELSE "data"
                     /\ D.index = 0 /\ D.confirm = 0 /\ ~D.sent /\ ~D.rcvd
        /\ ~(s /\ t) => /\ D.pc = pc /\ D.index = client[c].index
                        /\ D.confirm = client[c].confirm /\ D.sent = s /\ D.rcvd = t
        /\ \/ wc.op = "SEND" /\ ~client[c].sent
           \/ wc.op = "RECV" /\ wc.msg = Expected(pc) /\ ~client[c].rcvd
           => aborted' = aborted
    BY <1>d, Zenon DEF Awaited
  <1>3. Waits(client[c])
    BY <1>1 DEF Waits
  \* The completions of one queue before and after.
  <1>4. PICK q \in Seq(Completion) : q = cq[Client(c)]
    BY <1>0
  <1>5. /\ \A i, j \in 1..Len(q) : q[i].op = q[j].op => i = j
        /\ \A i \in 1..Len(q) :
              q[i].op = "SEND" \/ (q[i].op = "RECV" /\ q[i].msg = Expected(pc))
        /\ Here(c) <=> client[c].rcvd \/ Got(c, "RECV")
        /\ client[c].rcvd => ~Got(c, "RECV")
        /\ ~(client[c].sent /\ client[c].rcvd)
    BY <1>0, <1>1, <1>3, <1>4, Zenon DEF WaitQueue
  <1>6. PICK u, v \in Nat : u = Len(sq[Client(c)]) /\ v = Len(unacked[Client(c)])
    BY <1>0
  <1>7. u + v + (IF Got(c, "SEND") THEN 1 ELSE 0) = IF client[c].sent THEN 0 ELSE 1
    <2>1. u + v + (IF Got(c, "SEND") THEN 1 ELSE 0) = InFlight(client[c])
      BY <1>0, <1>3, <1>6, Zenon DEF WaitQueue
    <2>2. InFlight(client[c]) = IF client[c].sent THEN 0 ELSE 1
      BY <1>3, WaitsInFlight, Zenon
    <2>3. QED
      BY <2>1, <2>2
  <1>8. Len(q) \in Nat /\ 1 \in 1..Len(q) /\ wc = q[1] /\ Len(cq'[Client(c)]) = Len(q) - 1
        /\ \A i \in 1..(Len(q) - 1) : cq'[Client(c)][i] = q[i + 1] /\ i + 1 \in 1..Len(q)
    BY <1>0, <1>2, <1>4
  <1>9. /\ wc.op = "SEND" \/ (wc.op = "RECV" /\ wc.msg = Expected(pc))
        /\ wc.op = "SEND" => Got(c, "SEND")
        /\ wc.op = "RECV" => Got(c, "RECV")
    BY <1>4, <1>5, <1>8 DEF Got
  <1>10. /\ wc.op = "SEND" => ~client[c].sent
         /\ wc.op = "RECV" => ~client[c].rcvd
    <2>1. Got(c, "SEND") => ~client[c].sent
      BY <1>7
    <2>2. QED
      BY <1>5, <1>9, <2>1
  <1>11. aborted' = {}
    BY <1>0, <1>2, <1>9, <1>10
  <1>12. ASSUME NEW op \in {"SEND", "RECV"}
         PROVE  Got(c, op)' <=> Got(c, op) /\ wc.op # op
    <2>1. ASSUME Got(c, op)' PROVE Got(c, op) /\ wc.op # op
      <3>1. PICK i \in 1..(Len(q) - 1) : cq'[Client(c)][i].op = op
        BY <1>8, <2>1 DEF Got
      <3>2. q[i + 1].op = op /\ i + 1 \in 1..Len(q) /\ i + 1 # 1
        BY <1>8, <3>1
      <3>3. wc.op # op
        BY <1>5, <1>8, <3>2
      <3>4. QED
        BY <1>4, <3>2, <3>3 DEF Got
    <2>2. ASSUME Got(c, op), wc.op # op PROVE Got(c, op)'
      <3>1. PICK i \in 1..Len(q) : q[i].op = op
        BY <1>4, <2>2 DEF Got
      <3>2. i # 1
        BY <1>8, <2>2, <3>1
      <3>3. PICK m \in 1..(Len(q) - 1) : m + 1 = i
        BY <1>8, <3>1, <3>2
      <3>4. cq'[Client(c)][m].op = op /\ m \in 1..Len(cq'[Client(c)])
        BY <1>8, <3>1, <3>3
      <3>5. QED
        BY <3>4 DEF Got
    <2>3. QED
      BY <2>1, <2>2
  <1>13. CASE ~(s /\ t)
    <2>1. /\ D.pc = pc /\ D.index = client[c].index /\ D.sent = s /\ D.rcvd = t
          /\ D.round = client[c].round
      BY <1>2, <1>13
    <2>2. /\ Place(D, server[c], Len(sq[Client(c)]), Len(recvs[Server(c)]))
          /\ Token(D, server[c], Len(sq[Server(c)]), Len(unacked[Server(c)]))
      BY <1>0, <1>1, <2>1, PlaceStays
    <2>3. Waits(D) /\ InFlight(D) = IF s THEN 0 ELSE 1
      <3>1. Waits(D)
        BY <2>1 DEF Waits
      <3>2. InFlight(D) = IF D.sent THEN 0 ELSE 1
        BY <3>1, WaitsInFlight, Zenon
      <3>3. QED
        BY <2>1, <3>1, <3>2, Zenon
    <2>4. Here(c)' <=> Here(c)
      BY <1>1, <1>2, <2>1 DEF Here, Answered
    <2>5. WaitQueue(c)'
      <3>1. u + v + (IF Got(c, "SEND")' THEN 1 ELSE 0) = IF s THEN 0 ELSE 1
        <4>1. CASE wc.op = "SEND"
          BY <1>2, <1>7, <1>9, <1>10, <1>12, <4>1
        <4>2. CASE wc.op # "SEND"
          BY <1>2, <1>7, <1>12, <4>2
        <4>3. QED
          BY <4>1, <4>2
      <3>2. \A i, j \in 1..Len(cq'[Client(c)]) :
               cq'[Client(c)][i].op = cq'[Client(c)][j].op => i = j
        <4>1. SUFFICES ASSUME NEW i \in 1..(Len(q) - 1), NEW j \in 1..(Len(q) - 1),
                              cq'[Client(c)][i].op = cq'[Client(c)][j].op
                       PROVE  i = j
          BY <1>8
        <4>2. q[i + 1].op = q[j + 1].op /\ i + 1 \in 1..Len(q) /\ j + 1 \in 1..Len(q)
          BY <1>8, <4>1
        <4>3. i + 1 = j + 1
          BY <1>5, <4>2
        <4>4. QED
          BY <1>8, <4>3
      <3>3. \A i \in 1..Len(cq'[Client(c)]) :
               \/ cq'[Client(c)][i].op = "SEND"
               \/ cq'[Client(c)][i].op = "RECV" /\ cq'[Client(c)][i].msg = Expected(pc)
        BY <1>5, <1>8
      <3>4. Here(c)' <=> t \/ Got(c, "RECV")'
        BY <1>2, <1>5, <1>9, <1>12, <2>4
      <3>5. t => ~Got(c, "RECV")'
        BY <1>2, <1>5, <1>12
      <3>6. Len(sq'[Client(c)]) = u /\ Len(unacked'[Client(c)]) = v
        BY <1>1, <1>6
      <3>7. Len(sq'[Client(c)]) + Len(unacked'[Client(c)])
               + (IF Got(c, "SEND")' THEN 1 ELSE 0) = InFlight(D)
        BY <2>3, <3>1, <3>6
      <3>8. QED
        BY <1>2, <1>13, <2>1, <3>2, <3>3, <3>4, <3>5, <3>7, Zenon DEF WaitQueue
    <2>6. WorkQueue(c)'
      BY <1>2, <2>3 DEF WorkQueue
    <2>7. PostedQueue(c)'
      <3>1. /\ client'[c].pc = client[c].pc /\ sq'[Client(c)] = sq[Client(c)]
            /\ unacked'[Client(c)] = unacked[Client(c)]
        BY <1>1, <1>2, <2>1
      <3>2. QED
        BY <1>0, <3>1, Zenon DEF PostedQueue
    <2>8. RecvQueue(c)'
      BY <1>0, <1>1, <1>2, <1>3, <2>1, <2>3, <2>4 DEF RecvQueue
    <2>9. QED
      BY <1>0, <1>1, <1>2, <1>11, <2>2, <2>5, <2>6, <2>7, <2>8, ClientConn
  <1>14. CASE s /\ t
    <2>1. /\ D.pc = IF pc = "exchange" THEN "request" ELSE "data"
          /\ D.index = 0 /\ D.confirm = 0 /\ ~D.sent /\ ~D.rcvd
          /\ D.round = client[c].round
      BY <1>2, <1>14
    <2>2. u = 0 /\ v = 0 /\ ~Got(c, "SEND")'
      <3>1. CASE wc.op = "SEND"
        BY <1>7, <1>9, <1>10, <1>12, <3>1
      <3>2. CASE wc.op # "SEND"
        <4>1. client[c].sent
          BY <1>2, <1>14, <3>2
        <4>2. QED
          BY <1>7, <1>12, <3>2, <4>1
      <3>3. QED
        BY <3>1, <3>2
    <2>3. Here(c) /\ ~Got(c, "RECV")'
      BY <1>2, <1>5, <1>9, <1>12, <1>14
    <2>4. Len(cq'[Client(c)]) = 0
      <3>1. Len(q) \in Nat /\ 1 \in 1..Len(q) /\ Len(cq'[Client(c)]) = Len(q) - 1
        BY <1>8
      <3>2. ASSUME 1 \in 1..(Len(q) - 1) PROVE FALSE
        <4>1. 1 \in 1..Len(cq'[Client(c)])
          BY <3>1, <3>2
        <4>2. cq'[Client(c)][1].op \in {"SEND", "RECV"}
          BY <1>5, <1>8, <3>2
        <4>3. QED
          BY <2>2, <2>3, <4>1, <4>2 DEF Got
      <3>3. PICK m \in Nat : m = Len(q)
        BY <3>1
      <3>4. m = 1
        BY <3>1, <3>2, <3>3
      <3>5. QED
        BY <3>1, <3>3, <3>4
    <2>5. /\ Place(D, server[c], 0, Len(recvs[Server(c)]))
          /\ Token(D, server[c], Len(sq[Server(c)]), Len(unacked[Server(c)]))
      <3>1. /\ Place(client[c], server[c], 0, Len(recvs[Server(c)]))
            /\ Answered(client[c], server[c], Len(sq[Server(c)]))
        BY <1>0, <1>6, <2>2, <2>3 DEF Here
      <3>2. CASE pc = "exchange"
        BY <1>0, <1>1, <2>1, <3>1, <3>2, PlaceExchanged
      <3>3. CASE pc = "answer"
        BY <1>0, <1>1, <2>1, <3>1, <3>3, PlaceAnswered
      <3>4. QED
        BY <3>2, <3>3
    <2>6. ~Waits(D) /\ InFlight(D) = 0 /\ D.pc \notin {"sync", "synced"}
      BY <2>1 DEF Waits, InFlight
    <2>7. Len(sq'[Client(c)]) = 0 /\ Len(unacked'[Client(c)]) = 0
      BY <1>1, <1>6, <2>2
    <2>8. WaitQueue(c)'
      BY <1>2, <2>6 DEF WaitQueue
    <2>9. WorkQueue(c)'
      <3>1. Len(sq'[Client(c)]) + Len(unacked'[Client(c)]) + Len(cq'[Client(c)]) = InFlight(D)
        BY <2>4, <2>6, <2>7
      <3>2. \A m \in 1..Len(cq'[Client(c)]) : FALSE
        BY <2>4
      <3>3. D.confirm <= D.index /\ D.index <= D.confirm + 1
        BY <2>1
      <3>4. QED
        BY <1>2, <2>1, <2>6, <3>1, <3>2, <3>3 DEF WorkQueue
    <2>10. PostedQueue(c)'
      <3>1. /\ \A m \in 1..Len(sq'[Client(c)]) : FALSE
            /\ \A m \in 1..Len(unacked'[Client(c)]) : FALSE
        BY <2>7
      <3>2. QED
        BY <3>1 DEF PostedQueue
    <2>11. RecvQueue(c)'
      <3>1. Len(recvs[Client(c)]) = 0
        BY <1>0, <1>1, <2>3 DEF RecvQueue
      <3>2. QED
        BY <1>1, <1>2, <2>6, <3>1 DEF RecvQueue
    <2>12. QED
      BY <1>0, <1>1, <1>2, <1>11, <2>5, <2>7, <2>8, <2>9, <2>10, <2>11, ClientConn
  <1>15. QED
    BY <1>13, <1>14

-----------------------------------------------------------------------------
(* Where the processes can be: the moves of a thread of the server *)

LEMMA PlaceEarly ==
    ASSUME NEW C, NEW S, NEW T, NEW a, NEW n \in Nat, NEW m, NEW x, NEW y,
           Place(C, S, a, n), Token(C, S, x, y), T.round = S.round,
           \/ S.pc = "start" /\ T.pc = "register" /\ m = n
           \/ S.pc = "register" /\ T.pc = "sync" /\ m = n + 1
           \/ S.pc = "sync" /\ T.pc = "synced" /\ m = n
           \/ S.pc = "synced" /\ T.pc = "exchange" /\ m = n
    PROVE  Place(C, T, a, m) /\ Token(C, T, x, y)
  <1>1. S.round = 1 /\ (C.pc \in Waiting => C.round = 1)
    BY DEF Place, Unasked
  <1>2. Place(C, T, a, m)
    <2>1. CASE S.pc = "start" /\ T.pc = "register" /\ m = n
      BY <1>1, <2>1 DEF Place
    <2>2. CASE S.pc = "register" /\ T.pc = "sync" /\ m = n + 1
      <3>1. m = 1 /\ C.pc \in {"start", "sync", "synced"}
        BY <2>2 DEF Place
      <3>2. QED
        BY <1>1, <2>2, <3>1 DEF Place
    <2>3. CASE S.pc = "sync" /\ T.pc = "synced" /\ m = n
      BY <1>1, <2>3 DEF Place
    <2>4. CASE S.pc = "synced" /\ T.pc = "exchange" /\ m = n
      BY <1>1, <2>4 DEF Place
    <2>5. QED
      BY <2>1, <2>2, <2>3, <2>4
  <1>3. Token(C, T, x, y)
    BY DEF Token
  <1>4. QED
    BY <1>2, <1>3

\* The request for the descriptor has been polled.
LEMMA PlaceResponds ==
    ASSUME NEW C, NEW S, NEW T, NEW a, NEW x, NEW y,
           Place(C, S, a, 0), Token(C, S, x, y), T.round = S.round,
           S.pc = "exchange", T.pc = "responded"
    PROVE  /\ Place(C, T, a, 0) /\ Token(C, T, 1, 0) /\ x = 0 /\ y = 0
           /\ C.pc = "exchange"
  <1>1. C.pc = "exchange" /\ a = 0 /\ S.round = 1 /\ (C.pc \in Waiting => C.round = 1)
    BY DEF Place, Unasked
  <1>2. Before(C, T, a)
    BY <1>1 DEF Before
  <1>3. Place(C, T, a, 0)
    BY <1>1, <1>2 DEF Place
  <1>4. Token(C, T, 1, 0) /\ x = 0 /\ y = 0
    BY <1>1 DEF Token
  <1>5. QED
    BY <1>1, <1>3, <1>4

\* The response is confirmed.
LEMMA PlaceResponded ==
    ASSUME NEW C, NEW S, NEW T, NEW a, NEW n,
           Place(C, S, a, n), Token(C, S, 0, 0), T.round = S.round,
           S.pc = "responded", T.pc = "round"
    PROVE  Place(C, T, a, n) /\ Token(C, T, 0, 0) /\ n = 0
  <1>1. Before(C, S, a) /\ n = 0 /\ (C.pc \in Waiting => C.round = 1)
    BY DEF Place
  <1>2. Before(C, T, a)
    BY <1>1 DEF Before
  <1>3. Place(C, T, a, n)
    BY <1>1, <1>2 DEF Place, Unasked
  <1>4. Token(C, T, 0, 0)
    BY DEF Token
  <1>5. QED
    BY <1>1, <1>3, <1>4

\* The receive for a request, or for BYEBYE.
LEMMA PlaceControl ==
    ASSUME NEW C, NEW S, NEW T, NEW a, NEW n, NEW x, NEW y,
           Place(C, S, a, n), Token(C, S, x, y), T.round = S.round,
           \/ S.pc = "round" /\ T.pc = "request"
           \/ S.pc = "final" /\ T.pc = "bye"
    PROVE  Place(C, T, a, 1) /\ Token(C, T, x, y) /\ n = 0 /\ x = 0 /\ y = 0
  <1>1. n = 0 /\ (C.pc \in Waiting => C.round = 1)
    BY DEF Place
  <1>2. S.pc = "round" => Before(C, T, a)
    BY DEF Place, Before
  <1>3. Place(C, T, a, 1)
    BY <1>1, <1>2 DEF Place, Unasked
  <1>4. Token(C, T, x, y) /\ x = 0 /\ y = 0
    BY DEF Token
  <1>5. QED
    BY <1>1, <1>3, <1>4

\* The request of a round has been polled.
LEMMA PlaceRequested ==
    ASSUME NEW C, NEW S, NEW T, NEW a, NEW x, NEW y,
           Place(C, S, a, 0), Token(C, S, x, y), T.round = S.round,
           S.pc = "request", T.pc = "answered"
    PROVE  /\ Place(C, T, a, Count) /\ Token(C, T, 1, 0) /\ x = 0 /\ y = 0
           /\ C.pc = "answer" /\ C.round = S.round
  <1>1. Asking(C, S, a)
    BY DEF Place
  <1>2. Asking(C, T, a) /\ C.pc = "answer" /\ C.round = S.round
    BY <1>1 DEF Asking
  <1>3. Place(C, T, a, Count)
    BY <1>2 DEF Place, Unasked, Waiting
  <1>4. Token(C, T, 1, 0) /\ x = 0 /\ y = 0
    BY <1>2 DEF Token
  <1>5. QED
    BY <1>2, <1>3, <1>4

\* No message of raw data arrives before the answer is confirmed.
LEMMA PlaceConfirmed ==
    ASSUME NEW C, NEW S \in ServerState, NEW a \in Nat, NEW n \in Nat, NEW x \in Nat, NEW y \in Nat,
           Place(C, S, a, n), Token(C, S, x, y), S.pc = "answered", n < Count
    PROVE  x = 0 /\ y = 0
  <1>1. Count \in Nat /\ S.round \in Nat
    BY Constants, Fields
  <1>2. ~(C.pc = "answer" /\ C.round = S.round)
    <2>1. SUFFICES ASSUME C.pc = "answer", C.round = S.round PROVE FALSE
      OBVIOUS
    <2>2. ~Beyond(C, S, a)
      BY <1>1, <2>1 DEF Beyond, After, Rdma
    <2>3. n = Count
      BY <2>1, <2>2 DEF Place
    <2>4. QED
      BY <1>1, <2>3
  <1>3. ~(C.pc = "data" /\ C.round = S.round /\ C.index = 0)
    <2>1. SUFFICES ASSUME C.pc = "data", C.round = S.round, C.index = 0 PROVE FALSE
      OBVIOUS
    <2>2. ~Beyond(C, S, a) /\ ~Asking(C, S, a)
      BY <1>1, <2>1 DEF Beyond, After, Rdma, Asking
    <2>3. n = Count - 0 + a
      BY <2>1, <2>2 DEF Place
    <2>4. QED
      BY <1>1, <2>3
  <1>4. QED
    BY <1>2, <1>3 DEF Token

\* The answer is confirmed, or a message of raw data polled that is not the last.
LEMMA PlaceRaw ==
    ASSUME NEW C, NEW S, NEW T, NEW a, NEW n,
           Place(C, S, a, n), Token(C, S, 0, 0), T.round = S.round,
           S.pc \in {"answered", "data"}, T.pc = "data"
    PROVE  Place(C, T, a, n) /\ Token(C, T, 0, 0)
  <1>1. (Beyond(C, S, a) => Beyond(C, T, a)) /\ (Asking(C, S, a) => Asking(C, T, a))
    BY DEF Beyond, Asking
  <1>2. Place(C, T, a, n)
    BY <1>1 DEF Place, Unasked
  <1>3. Token(C, T, 0, 0)
    BY DEF Token
  <1>4. QED
    BY <1>2, <1>3

\* The last message of a round has been polled.
LEMMA PlaceLast ==
    ASSUME NEW C \in ClientState, NEW S \in ServerState, NEW T \in ServerState, NEW a \in Nat,
           Place(C, S, a, 0), Token(C, S, 0, 0), S.pc = "data",
           \/ S.round < Rounds /\ T.pc = "round" /\ T.round = S.round + 1
           \/ S.round = Rounds /\ T.pc = "final" /\ T.round = S.round
    PROVE  Place(C, T, a, 0) /\ Token(C, T, 0, 0)
  <1>1. /\ Count \in Nat /\ Count > 1 /\ C.index \in Nat /\ C.index <= Count
        /\ C.round \in Nat /\ C.round <= Rounds /\ S.round \in Nat /\ S.round >= 1
        /\ Rounds \in Nat
    BY Constants, Fields
  <1>2. \/ C.pc = "data" /\ C.round = S.round /\ Finished(C, a)
        \/ Beyond(C, S, a)
    <2>1. ~(0 = Count /\ Asking(C, S, a))
      BY <1>1
    <2>2. 0 = Count - C.index + a => C.index = Count /\ a = 0
      BY <1>1
    <2>3. QED
      BY <2>1, <2>2 DEF Place, Finished
  <1>3. T.pc = "round" => Before(C, T, a)
    <2>1. SUFFICES ASSUME S.round < Rounds, T.round = S.round + 1 PROVE Before(C, T, a)
      OBVIOUS
    <2>2. CASE C.pc = "data" /\ C.round = S.round /\ Finished(C, a)
      BY <1>1, <2>1, <2>2 DEF Before
    <2>3. CASE Beyond(C, S, a)
      BY <1>1, <2>1, <2>3 DEF Before, Beyond
    <2>4. QED
      BY <1>2, <2>2, <2>3
  <1>4. T.pc = "final" => Last(C, a)
    <2>1. SUFFICES ASSUME S.round = Rounds PROVE Last(C, a)
      OBVIOUS
    <2>2. QED
      BY <1>1, <1>2, <2>1 DEF Beyond, Last
  <1>5. Place(C, T, a, 0)
    <2>1. C.pc \notin Waiting
      BY <1>2 DEF Beyond, After, Rdma, Waiting
    <2>2. QED
      BY <1>3, <1>4, <2>1 DEF Place, Unasked
  <1>6. Token(C, T, 0, 0)
    BY DEF Token
  <1>7. QED
    BY <1>5, <1>6

LEMMA PlaceDone ==
    ASSUME NEW C, NEW S, NEW T, NEW a, NEW x, NEW y,
           Place(C, S, a, 0), Token(C, S, x, y), S.pc = "bye", T.pc = "done"
    PROVE  Place(C, T, a, 0) /\ Token(C, T, x, y)
  <1>1. Left(C, a) /\ (C.pc \in Waiting => C.round = 1)
    BY DEF Place
  <1>2. Place(C, T, a, 0)
    BY <1>1 DEF Place, Unasked
  <1>3. Token(C, T, x, y)
    BY DEF Token
  <1>4. QED
    BY <1>2, <1>3

-----------------------------------------------------------------------------
(* The steps of a thread of the server, and its queues *)

\* A step of the thread for c.
LEMMA ServerConn ==
    ASSUME FullInv, IndInv', aborted' = {}, NEW c \in Clients, client' = client,
           \A d \in Clients : d # c =>
              server'[d] = server[d] /\ said'[Server(d)] = said[Server(d)],
           \A e \in End : e # Server(c) =>
              /\ sq'[e] = sq[e] /\ unacked'[e] = unacked[e]
              /\ cq'[e] = cq[e] /\ recvs'[e] = recvs[e],
           Place(client[c], server'[c], Len(sq[Client(c)]), Len(recvs'[Server(c)])),
           Token(client[c], server'[c], Len(sq'[Server(c)]), Len(unacked'[Server(c)])),
           ServerQueue(c)', SaidAt(c)', Here(c)' <=> Here(c)
    PROVE  FullInv'
  <1>1. Client(c) \in End /\ Client(c) # Server(c) /\ Conn(c)
    BY EndFacts DEF FullInv
  <1>2. /\ sq'[Client(c)] = sq[Client(c)] /\ unacked'[Client(c)] = unacked[Client(c)]
        /\ cq'[Client(c)] = cq[Client(c)] /\ recvs'[Client(c)] = recvs[Client(c)]
        /\ client'[c] = client[c]
    BY <1>1
  <1>3. (Got(c, "SEND")' <=> Got(c, "SEND")) /\ (Got(c, "RECV")' <=> Got(c, "RECV"))
    BY <1>2 DEF Got
  <1>4. WaitQueue(c)'
    <2>1. WaitQueue(c) /\ (Here(c)' <=> Here(c))
      BY <1>1 DEF Conn
    <2>2. CASE ~Waits(client[c])
      BY <1>2, <2>2, Zenon DEF WaitQueue
    <2>3. CASE Waits(client[c])
      <3>1. /\ ~(client'[c].sent /\ client'[c].rcvd)
            /\ client'[c].rcvd => ~Got(c, "RECV")'
            /\ Here(c)' <=> client'[c].rcvd \/ Got(c, "RECV")'
        BY <1>2, <1>3, <2>1, <2>3, Zenon DEF WaitQueue
      <3>2. (IF Got(c, "SEND")' THEN 1 ELSE 0) = (IF Got(c, "SEND") THEN 1 ELSE 0)
        BY <1>3, Zenon
      <3>3. Len(sq'[Client(c)]) + Len(unacked'[Client(c)])
               + (IF Got(c, "SEND")' THEN 1 ELSE 0) = InFlight(client'[c])
        BY <1>2, <2>1, <2>3, <3>2, Zenon DEF WaitQueue
      <3>4. /\ \A i, j \in 1..Len(cq'[Client(c)]) :
                  cq'[Client(c)][i].op = cq'[Client(c)][j].op => i = j
            /\ \A i \in 1..Len(cq'[Client(c)]) :
                  \/ cq'[Client(c)][i].op = "SEND"
                  \/ /\ cq'[Client(c)][i].op = "RECV"
                     /\ cq'[Client(c)][i].msg = Expected(client'[c].pc)
        <4>1. /\ \A i, j \in 1..Len(cq[Client(c)]) :
                    cq[Client(c)][i].op = cq[Client(c)][j].op => i = j
              /\ \A i \in 1..Len(cq[Client(c)]) :
                    \/ cq[Client(c)][i].op = "SEND"
                    \/ /\ cq[Client(c)][i].op = "RECV"
                       /\ cq[Client(c)][i].msg = Expected(client[c].pc)
          BY <2>1, <2>3, Zenon DEF WaitQueue
        <4>2. cq'[Client(c)] = cq[Client(c)] /\ client'[c].pc = client[c].pc
          BY <1>2
        <4>3. QED
          BY <4>1, <4>2
      <3>5. QED
        BY <3>1, <3>3, <3>4, Zenon DEF WaitQueue
    <2>4. QED
      BY <2>2, <2>3
  <1>5. WorkQueue(c)' /\ PostedQueue(c)'
    BY <1>1, <1>2 DEF Conn, WorkQueue, PostedQueue
  <1>6. RecvQueue(c)'
    BY <1>1, <1>2 DEF Conn, RecvQueue
  <1>7. Conn(c)'
    BY <1>2, <1>4, <1>5, <1>6 DEF Conn
  <1>8. \A e \in End : e \notin {Client(c), Server(c)} =>
              /\ sq'[e] = sq[e] /\ unacked'[e] = unacked[e]
              /\ cq'[e] = cq[e] /\ recvs'[e] = recvs[e]
    OBVIOUS
  <1>9. \A d \in Clients : client'[d] = client[d]
    OBVIOUS
  <1>10. QED
    BY <1>7, <1>8, <1>9, OneConn

\* A thread changes its place only.
LEMMA ServerFields ==
    ASSUME ShapeInv, NEW c \in Clients, NEW pc, server' = [server EXCEPT ![c].pc = pc]
    PROVE  /\ server'[c].pc = pc /\ server'[c].round = server[c].round
           /\ server'[c].index = server[c].index
           /\ \A d \in Clients : d # c => server'[d] = server[d]
  <1>1. server \in [Clients -> ServerState]
    BY DEF ShapeInv
  <1>2. server'[c] = [server[c] EXCEPT !.pc = pc] /\ \A d \in Clients : d # c => server'[d] = server[d]
    BY <1>1
  <1>3. server[c] \in ServerState
    BY <1>1
  <1>4. QED
    BY <1>2, <1>3 DEF ServerState

\* A thread with no message on its way: its completions are messages of the client.
LEMMA QuietQueue ==
    ASSUME FullInv, NEW c \in Clients,
           \/ server[c].pc \notin {"responded", "answered"}
           \/ Len(sq[Server(c)]) + Len(unacked[Server(c)]) = 1
    PROVE  /\ server[c].pc \notin {"responded", "answered"} =>
                 Len(sq[Server(c)]) = 0 /\ Len(unacked[Server(c)]) = 0
           /\ Len(cq[Server(c)]) = Cap(server[c]) - Len(recvs[Server(c)])
           /\ \A i \in 1..Len(cq[Server(c)]) :
                 /\ cq[Server(c)][i].op = "RECV"
                 /\ cq[Server(c)][i].msg = Wanted(server[c].pc)
  <1>1. /\ Len(sq[Server(c)]) \in Nat /\ Len(unacked[Server(c)]) \in Nat
        /\ Len(recvs[Server(c)]) \in Nat /\ Len(cq[Server(c)]) \in Nat /\ ServerQueue(c)
        /\ Token(client[c], server[c], Len(sq[Server(c)]), Len(unacked[Server(c)]))
        /\ server[c] \in ServerState
    BY Known
  <1>2. server[c].pc \notin {"responded", "answered"} =>
                 Len(sq[Server(c)]) = 0 /\ Len(unacked[Server(c)]) = 0
    BY <1>1 DEF Token
  <1>3. Own(server[c], Len(sq[Server(c)]), Len(unacked[Server(c)])) = 0
    <2>1. PICK x, y \in Nat : x = Len(sq[Server(c)]) /\ y = Len(unacked[Server(c)])
      BY <1>1
    <2>2. x = 0 /\ y = 0 => x + y # 1
      OBVIOUS
    <2>3. QED
      BY <2>1, <2>2 DEF Own
  <1>4. Cap(server[c]) \in Int
    <2>1. server[c].index \in Nat /\ Count \in Nat
      BY <1>1, Fields, Constants
    <2>2. QED
      BY <2>1 DEF Cap
  <1>5. Len(cq[Server(c)]) = 0 + Cap(server[c]) - Len(recvs[Server(c)])
    BY <1>1, <1>3 DEF ServerQueue
  <1>6. \A i \in 1..Len(cq[Server(c)]) : ~(i <= 0)
    BY <1>1
  <1>7. \A i \in 1..Len(cq[Server(c)]) :
                 /\ cq[Server(c)][i].op = "RECV"
                 /\ cq[Server(c)][i].msg = Wanted(server[c].pc)
    BY <1>1, <1>3, <1>6 DEF ServerQueue
  <1>8. QED
    BY <1>1, <1>2, <1>4, <1>5, <1>7

\* The queues of a thread that has polled all there was.
LEMMA FreshQueue ==
    ASSUME NEW c \in Clients, NEW n \in Nat,
           Len(cq'[Server(c)]) = 0, Len(unacked'[Server(c)]) = 0,
           Len(recvs'[Server(c)]) = n, Cap(server'[c]) = n,
           Own(server'[c], Len(sq'[Server(c)]), 0) = 0,
           \A i \in 1..n : recvs'[Server(c)][i].len =
              IF server'[c].pc \in {"request", "bye"} THEN CtlBytes ELSE BlockBytes,
           \A i \in 1..Len(sq'[Server(c)]) :
              /\ sq'[Server(c)][i].op = "SEND" /\ sq'[Server(c)][i].len <= CtlBytes
              /\ sq'[Server(c)][i].msg = IF server'[c].pc = "responded"
                                         THEN "RESPONSE_TO_REQUEST_BUFFER"
                                         ELSE "RESPONSE_TO_SEND_TEST_REQUEST"
    PROVE  ServerQueue(c)'
  <1>1. 0 = 0 + n - n
    OBVIOUS
  <1>2. \A i \in 1..Len(cq'[Server(c)]) : FALSE
    OBVIOUS
  <1>3. \A i \in 1..Len(unacked'[Server(c)]) : FALSE
    OBVIOUS
  <1>4. QED
    BY <1>1, <1>2, <1>3 DEF ServerQueue

\* A thread after register_buffer takes a completion off its own queue.
LEMMA ServerTakes ==
    ASSUME IndInv, NEW c \in Clients, NEW pc, pc \notin {"start", "register", "done"},
           NEW good, ServerPolls(c, pc, good)
    PROVE  /\ server[c].pc = pc /\ Active = Server(c) /\ active = c
           /\ Len(cq[Server(c)]) \in Nat /\ Len(cq[Server(c)]) >= 1 /\ Wc = cq[Server(c)][1]
           /\ Len(cq'[Server(c)]) = Len(cq[Server(c)]) - 1
           /\ \A i \in 1..Len(cq'[Server(c)]) : cq'[Server(c)][i] = cq[Server(c)][i + 1]
           /\ \A f \in End : f # Server(c) => cq'[f] = cq[f]
           /\ good => aborted' = aborted
  <1>1. ShapeInv /\ Server(c) \in End
    BY EndFacts DEF IndInv
  <1>2. server[c].pc = pc /\ Poll(Active, 1) /\ Check("server", good)
    BY DEF ServerPolls, Serving
  <1>3. active = c /\ Active = Server(c)
    BY ServerPollsFacts
  <1>4. PICK m \in Nat : m = 1 /\ m >= 1
    OBVIOUS
  <1>5. Poll(Server(c), m)
    BY <1>2, <1>3, <1>4
  <1>6. PICK k \in Nat :
           /\ k >= 1 /\ k <= m /\ k <= Len(cq[Server(c)])
           /\ \A f \in End : f # Server(c) => cq'[f] = cq[f]
           /\ Len(cq'[Server(c)]) = Len(cq[Server(c)]) - k
           /\ \A i \in 1..Len(cq'[Server(c)]) : cq'[Server(c)][i] = cq[Server(c)][i + k]
           /\ Head(cq[Server(c)]) = cq[Server(c)][1]
    BY <1>1, <1>4, <1>5, PollFacts
  <1>7. k = 1
    BY <1>4, <1>6
  <1>8. Len(cq[Server(c)]) \in Nat
    BY <1>1 DEF ShapeInv
  <1>9. Wc = cq[Server(c)][1]
    BY <1>3, <1>6 DEF Wc
  <1>10. good => aborted' = aborted
    BY <1>2 DEF Check
  <1>11. QED
    BY <1>2, <1>3, <1>6, <1>7, <1>8, <1>9, <1>10

LEMMA ServerLockConn ==
    ASSUME FullInv, IndInv', NEW c \in Clients, ServerLock(c) PROVE FullInv'
  <1>0. /\ ShapeInv /\ aborted = {} /\ SaidAt(c)
        /\ Place(client[c], server[c], Len(sq[Client(c)]), Len(recvs[Server(c)]))
        /\ Token(client[c], server[c], Len(sq[Server(c)]), Len(unacked[Server(c)]))
        /\ Len(recvs[Server(c)]) \in Nat
    BY Known
  <1>1. /\ server[c].pc = "start" /\ server' = [server EXCEPT ![c].pc = "register"]
        /\ UNCHANGED <<client, active, said, at0, buffer_peer, ring, recvs, sq, unacked, cq,
                       aborted>>
    BY DEF ServerLock, Serving, nic
  <1>2. /\ server'[c].pc = "register" /\ server'[c].round = server[c].round
        /\ \A d \in Clients : d # c => server'[d] = server[d]
    BY <1>0, <1>1, ServerFields
  <1>3. /\ Place(client[c], server'[c], Len(sq[Client(c)]), Len(recvs[Server(c)]))
        /\ Token(client[c], server'[c], Len(sq[Server(c)]), Len(unacked[Server(c)]))
    BY <1>0, <1>1, <1>2, PlaceEarly
  <1>4. Len(recvs[Server(c)]) = 0
    BY <1>0, <1>1 DEF Place
  <1>5. Len(sq[Server(c)]) = 0 /\ Len(unacked[Server(c)]) = 0 /\ Len(cq[Server(c)]) = 0
    <2>1. Cap(server[c]) = 0
      BY <1>1 DEF Cap
    <2>2. /\ Len(sq[Server(c)]) = 0 /\ Len(unacked[Server(c)]) = 0
          /\ Len(cq[Server(c)]) = Cap(server[c]) - Len(recvs[Server(c)])
      BY <1>1, QuietQueue
    <2>3. QED
      BY <1>4, <2>1, <2>2
  <1>6. ServerQueue(c)'
    <2>1. Cap(server'[c]) = 0 /\ Own(server'[c], 0, 0) = 0
      BY <1>2 DEF Cap, Own
    <2>2. QED
      BY <1>1, <1>4, <1>5, <2>1, FreshQueue
  <1>7. SaidAt(c)' /\ (Here(c)' <=> Here(c))
    BY <1>0, <1>1, <1>2 DEF SaidAt, Here, Answered, Unasked
  <1>8. QED
    BY <1>0, <1>1, <1>2, <1>3, <1>6, <1>7, ServerConn

LEMMA ServerRegisterConn ==
    ASSUME FullInv, IndInv', NEW c \in Clients, ServerRegister(c) PROVE FullInv'
  <1>0. /\ ShapeInv /\ aborted = {} /\ SaidAt(c) /\ Server(c) \in End
        /\ Place(client[c], server[c], Len(sq[Client(c)]), Len(recvs[Server(c)]))
        /\ Token(client[c], server[c], Len(sq[Server(c)]), Len(unacked[Server(c)]))
        /\ Len(recvs[Server(c)]) \in Nat
    BY Known
  <1>1. /\ server[c].pc = "register" /\ server' = [server EXCEPT ![c].pc = "sync"]
        /\ PostRecv(Server(c), BlockBytes)
        /\ UNCHANGED <<client, said, at0, buffer_peer, ring, sq, unacked, cq, aborted>>
    BY DEF ServerRegister, Serving
  <1>2. /\ server'[c].pc = "sync" /\ server'[c].round = server[c].round
        /\ \A d \in Clients : d # c => server'[d] = server[d]
    BY <1>0, <1>1, ServerFields
  <1>3. Len(recvs[Server(c)]) = 0
    BY <1>0, <1>1 DEF Place
  <1>4. /\ Len(recvs'[Server(c)]) = 1 /\ recvs'[Server(c)][1] = [len |-> BlockBytes, block |-> 0]
        /\ \A f \in End : f # Server(c) => recvs'[f] = recvs[f]
    BY <1>0, <1>1, <1>3, Sizes, FirstRecv
  <1>5. /\ Place(client[c], server'[c], Len(sq[Client(c)]), 1)
        /\ Token(client[c], server'[c], Len(sq[Server(c)]), Len(unacked[Server(c)]))
    <2>1. 1 = Len(recvs[Server(c)]) + 1
      BY <1>3
    <2>2. QED
      BY <1>0, <1>1, <1>2, <2>1, PlaceEarly
  <1>6. Len(sq[Server(c)]) = 0 /\ Len(unacked[Server(c)]) = 0 /\ Len(cq[Server(c)]) = 0
    <2>1. Cap(server[c]) = 0
      BY <1>1 DEF Cap
    <2>2. /\ Len(sq[Server(c)]) = 0 /\ Len(unacked[Server(c)]) = 0
          /\ Len(cq[Server(c)]) = Cap(server[c]) - Len(recvs[Server(c)])
      BY <1>1, QuietQueue
    <2>3. QED
      BY <1>3, <2>1, <2>2
  <1>7. ServerQueue(c)'
    <2>1. Cap(server'[c]) = 1 /\ Own(server'[c], 0, 0) = 0
      BY <1>2 DEF Cap, Own
    <2>2. \A i \in 1..1 : recvs'[Server(c)][i].len =
             IF server'[c].pc \in {"request", "bye"} THEN CtlBytes ELSE BlockBytes
      BY <1>2, <1>4
    <2>3. /\ Len(sq'[Server(c)]) = 0 /\ Len(unacked'[Server(c)]) = 0
          /\ Len(cq'[Server(c)]) = 0
      BY <1>1, <1>6
    <2>4. Own(server'[c], Len(sq'[Server(c)]), 0) = 0 /\ \A i \in 1..Len(sq'[Server(c)]) : FALSE
      BY <2>1, <2>3
    <2>5. QED
      BY <1>4, <2>1, <2>2, <2>3, <2>4, FreshQueue
  <1>8. SaidAt(c)' /\ (Here(c)' <=> Here(c))
    BY <1>0, <1>1, <1>2 DEF SaidAt, Here, Answered, Unasked
  <1>9. QED
    BY <1>0, <1>1, <1>2, <1>4, <1>5, <1>8, <1>7, ServerConn

\* The two halves of the sync.
LEMMA ServerSyncConn ==
    ASSUME FullInv, IndInv', NEW c \in Clients, ServerSyncSend(c) \/ ServerSyncRecv(c)
    PROVE  FullInv'
  <1>0. /\ ShapeInv /\ aborted = {} /\ SaidAt(c) /\ Server(c) \in End /\ ServerQueue(c)
        /\ Place(client[c], server[c], Len(sq[Client(c)]), Len(recvs[Server(c)]))
        /\ Token(client[c], server[c], Len(sq[Server(c)]), Len(unacked[Server(c)]))
        /\ Len(recvs[Server(c)]) \in Nat
    BY Known
  <1>1. PICK pc \in {"synced", "exchange"} :
           /\ server[c].pc = IF pc = "synced" THEN "sync" ELSE "synced"
           /\ server' = [server EXCEPT ![c].pc = pc]
           /\ said' = IF pc = "synced" THEN [said EXCEPT ![Server(c)] = TRUE] ELSE said
           /\ UNCHANGED <<client, active, at0, buffer_peer, ring, recvs, sq, unacked, cq,
                          aborted>>
    BY DEF ServerSyncSend, ServerSyncRecv, Serving, nic
  <1>2. /\ server'[c].pc = pc /\ server'[c].round = server[c].round
        /\ \A d \in Clients : d # c => server'[d] = server[d]
    BY <1>0, <1>1, ServerFields
  <1>3. /\ Place(client[c], server'[c], Len(sq[Client(c)]), Len(recvs[Server(c)]))
        /\ Token(client[c], server'[c], Len(sq[Server(c)]), Len(unacked[Server(c)]))
    BY <1>0, <1>1, <1>2, PlaceEarly
  <1>4. ServerQueue(c)'
    <2>1. /\ Cap(server[c]) = 1 /\ Cap(server'[c]) = 1
          /\ \A x, y : Own(server[c], x, y) = Own(server'[c], x, y)
          /\ Wanted(server[c].pc) = Wanted(server'[c].pc)
          /\ server[c].pc \notin {"request", "bye", "responded"}
          /\ server'[c].pc \notin {"request", "bye", "responded"}
      BY <1>1, <1>2 DEF Cap, Own, Wanted
    <2>2. QED
      BY <1>0, <1>1, <2>1 DEF ServerQueue
  <1>5. SaidAt(c)' /\ \A d \in Clients : d # c => said'[Server(d)] = said[Server(d)]
    <2>1. said \in [End -> BOOLEAN]
      BY <1>0 DEF ShapeInv
    <2>2. \A d \in Clients : d # c => Server(d) \in End /\ Server(d) # Server(c)
      BY EndFacts
    <2>3. said'[Server(c)] = TRUE
      <3>1. CASE pc = "synced"
        BY <1>0, <1>1, <2>1, <3>1, Zenon
      <3>2. CASE pc = "exchange"
        <4>1. said[Server(c)]
          BY <1>0, <1>1, <3>2 DEF SaidAt
        <4>2. said[Server(c)] \in BOOLEAN
          BY <1>0, <2>1
        <4>3. QED
          BY <1>1, <3>2, <4>1, <4>2
      <3>3. QED
        BY <3>1, <3>2
    <2>4. \A d \in Clients : d # c => said'[Server(d)] = said[Server(d)]
      BY <1>1, <2>1, <2>2, Zenon
    <2>5. SaidAt(c)'
      BY <1>2, <2>3 DEF SaidAt
    <2>6. QED
      BY <2>4, <2>5
  <1>6. Here(c)' <=> Here(c)
    BY <1>0, <1>1, <1>2 DEF Here, Answered, Unasked
  <1>7. QED
    BY <1>0, <1>1, <1>2, <1>3, <1>4, <1>5, <1>6, ServerConn

LEMMA ServerExchangeConn ==
    ASSUME FullInv, IndInv', NEW c \in Clients, ServerExchange(c) PROVE FullInv'
  <1>0. /\ IndInv /\ ShapeInv /\ aborted = {} /\ SaidAt(c) /\ Server(c) \in End
        /\ Place(client[c], server[c], Len(sq[Client(c)]), Len(recvs[Server(c)]))
        /\ Token(client[c], server[c], Len(sq[Server(c)]), Len(unacked[Server(c)]))
        /\ Len(recvs[Server(c)]) \in Nat
    BY Known
  <1>1. /\ server' = [server EXCEPT ![c].pc = "responded"]
        /\ ServerPolls(c, "exchange", IsMsg("REQUEST_BUFFER"))
        /\ Post(Active, Send("RESPONSE_TO_REQUEST_BUFFER", CtlBytes, 1, active))
        /\ UNCHANGED <<client, said, at0, buffer_peer, ring, recvs, unacked>>
    BY DEF ServerExchange
  <1>2. /\ server[c].pc = "exchange" /\ Active = Server(c) /\ active = c
        /\ Len(cq[Server(c)]) \in Nat /\ Len(cq[Server(c)]) >= 1 /\ Wc = cq[Server(c)][1]
        /\ Len(cq'[Server(c)]) = Len(cq[Server(c)]) - 1
        /\ \A f \in End : f # Server(c) => cq'[f] = cq[f]
        /\ IsMsg("REQUEST_BUFFER") => aborted' = aborted
    BY <1>0, <1>1, ServerTakes
  <1>3. /\ server'[c].pc = "responded" /\ server'[c].round = server[c].round
        /\ \A d \in Clients : d # c => server'[d] = server[d]
    BY <1>0, <1>1, ServerFields
  <1>4. /\ Len(cq[Server(c)]) = Cap(server[c]) - Len(recvs[Server(c)])
        /\ Len(sq[Server(c)]) = 0 /\ Len(unacked[Server(c)]) = 0
        /\ \A i \in 1..Len(cq[Server(c)]) :
              cq[Server(c)][i].op = "RECV" /\ cq[Server(c)][i].msg = Wanted(server[c].pc)
    BY <1>2, QuietQueue
  <1>5. Cap(server[c]) = 1 /\ Wanted(server[c].pc) = "REQUEST_BUFFER"
    BY <1>2 DEF Cap, Wanted
  <1>6. Len(recvs[Server(c)]) = 0 /\ Len(cq'[Server(c)]) = 0
    BY <1>0, <1>2, <1>4, <1>5
  <1>7. aborted' = {}
    <2>1. 1 \in 1..Len(cq[Server(c)])
      BY <1>2
    <2>2. QED
      BY <1>0, <1>2, <1>4, <1>5, <2>1 DEF IsMsg
  <1>8. Post(Server(c), Send("RESPONSE_TO_REQUEST_BUFFER", CtlBytes, 1, c))
    BY <1>1, <1>2
  <1>9. /\ Len(sq'[Server(c)]) = 1
        /\ sq'[Server(c)][1] = Send("RESPONSE_TO_REQUEST_BUFFER", CtlBytes, 1, c)
        /\ \A f \in End : f # Server(c) => sq'[f] = sq[f]
    BY <1>0, <1>4, <1>8, FirstPost
  <1>10. /\ Place(client[c], server'[c], Len(sq[Client(c)]), 0)
         /\ Token(client[c], server'[c], 1, 0)
    <2>1. /\ Place(client[c], server[c], Len(sq[Client(c)]), 0)
          /\ Token(client[c], server[c], Len(sq[Server(c)]), Len(unacked[Server(c)]))
          /\ server'[c].round = server[c].round
          /\ server[c].pc = "exchange" /\ server'[c].pc = "responded"
      BY <1>0, <1>2, <1>3, <1>6
    <2>2. QED
      BY <2>1, PlaceResponds
  <1>11. ServerQueue(c)'
    <2>1. Cap(server'[c]) = 0 /\ Own(server'[c], 1, 0) = 0
      BY <1>3 DEF Cap, Own
    <2>2. \A i \in 1..Len(sq'[Server(c)]) :
              /\ sq'[Server(c)][i].op = "SEND" /\ sq'[Server(c)][i].len <= CtlBytes
              /\ sq'[Server(c)][i].msg = "RESPONSE_TO_REQUEST_BUFFER"
      BY <1>9, Constants DEF Send
    <2>3. Len(unacked'[Server(c)]) = 0 /\ Len(recvs'[Server(c)]) = 0
      BY <1>1, <1>4, <1>6
    <2>4. Own(server'[c], Len(sq'[Server(c)]), 0) = 0 /\ \A i \in 1..0 : FALSE
      BY <1>9, <2>1
    <2>5. QED
      BY <1>3, <1>6, <2>1, <2>2, <2>3, <2>4, FreshQueue
  <1>12. SaidAt(c)' /\ (Here(c)' <=> Here(c))
    BY <1>0, <1>1, <1>2, <1>3, <1>9 DEF SaidAt, Here, Answered, Unasked
  <1>13. /\ Place(client[c], server'[c], Len(sq[Client(c)]), Len(recvs'[Server(c)]))
         /\ Token(client[c], server'[c], Len(sq'[Server(c)]), Len(unacked'[Server(c)]))
    BY <1>1, <1>4, <1>6, <1>9, <1>10
  <1>14. QED
    BY <1>0, <1>1, <1>2, <1>3, <1>7, <1>9, <1>11, <1>12, <1>13, ServerConn

\* The queues of a thread in the loop over the raw data.
LEMMA DataQueue ==
    ASSUME NEW c \in Clients, server'[c].pc = "data",
           Len(sq'[Server(c)]) = 0, Len(unacked'[Server(c)]) = 0,
           Count - server'[c].index \in Int, Len(recvs'[Server(c)]) \in Nat,
           Len(cq'[Server(c)]) = (Count - server'[c].index) - Len(recvs'[Server(c)]),
           Len(cq'[Server(c)]) \in Nat,
           \A i \in 1..Len(cq'[Server(c)]) :
              cq'[Server(c)][i].op = "RECV" /\ cq'[Server(c)][i].msg = "TEST_RAW_DATA",
           \A i \in 1..Len(recvs'[Server(c)]) : recvs'[Server(c)][i].len = BlockBytes
    PROVE  ServerQueue(c)'
  <1>1. /\ Cap(server'[c]) = Count - server'[c].index /\ Wanted("data") = "TEST_RAW_DATA"
        /\ Own(server'[c], 0, 0) = 0
    BY DEF Cap, Wanted, Own
  <1>2. \A i \in 1..Len(cq'[Server(c)]) : ~(i <= 0)
    OBVIOUS
  <1>3. /\ \A i \in 1..Len(sq'[Server(c)]) : FALSE
        /\ \A i \in 1..Len(unacked'[Server(c)]) : FALSE
    OBVIOUS
  <1>4. Len(cq'[Server(c)]) = 0 + Cap(server'[c]) - Len(recvs'[Server(c)])
    BY <1>1
  <1>5. QED
    BY <1>1, <1>2, <1>3, <1>4 DEF ServerQueue

LEMMA ServerSentConn ==
    ASSUME FullInv, IndInv', NEW c \in Clients, NEW pc \in {"responded", "answered"},
           ServerSent(c, pc)
    PROVE  FullInv'
  <1>0. /\ IndInv /\ ShapeInv /\ aborted = {} /\ SaidAt(c) /\ Server(c) \in End
        /\ Place(client[c], server[c], Len(sq[Client(c)]), Len(recvs[Server(c)]))
        /\ Token(client[c], server[c], Len(sq[Server(c)]), Len(unacked[Server(c)]))
        /\ ServerQueue(c) /\ server[c] \in ServerState
        /\ Len(recvs[Server(c)]) \in Nat /\ Len(sq[Server(c)]) \in Nat
        /\ Len(unacked[Server(c)]) \in Nat /\ Len(sq[Client(c)]) \in Nat
    BY Known
  <1>1. /\ server' = [server EXCEPT ![c].pc = IF pc = "responded" THEN "round" ELSE "data",
                                    ![c].index = 0]
        /\ ServerPolls(c, pc, Wc.op = "SEND")
        /\ UNCHANGED <<client, said, at0, buffer_peer, ring, recvs, sq, unacked>>
    BY DEF ServerSent
  <1>2. /\ server[c].pc = pc /\ Len(cq[Server(c)]) \in Nat /\ Len(cq[Server(c)]) >= 1
        /\ Wc = cq[Server(c)][1] /\ Len(cq'[Server(c)]) = Len(cq[Server(c)]) - 1
        /\ \A i \in 1..Len(cq'[Server(c)]) : cq'[Server(c)][i] = cq[Server(c)][i + 1]
        /\ \A f \in End : f # Server(c) => cq'[f] = cq[f]
        /\ Wc.op = "SEND" => aborted' = aborted
    BY <1>0, <1>1, ServerTakes
  <1>3. /\ server'[c].pc = IF pc = "responded" THEN "round" ELSE "data"
        /\ server'[c].round = server[c].round /\ server'[c].index = 0
        /\ \A d \in Clients : d # c => server'[d] = server[d]
    <2>1. server \in [Clients -> ServerState]
      BY <1>0 DEF ShapeInv
    <2>2. /\ server'[c] = [server[c] EXCEPT !.pc = IF pc = "responded" THEN "round" ELSE "data",
                                           !.index = 0]
          /\ \A d \in Clients : d # c => server'[d] = server[d]
      BY <1>1, <2>1
    <2>3. QED
      BY <1>0, <2>2 DEF ServerState
  <1>4. PICK x, y, n, q \in Nat :
           /\ x = Len(sq[Server(c)]) /\ y = Len(unacked[Server(c)])
           /\ n = Len(recvs[Server(c)]) /\ q = Len(cq[Server(c)]) /\ q >= 1
    BY <1>0, <1>2
  <1>5. pc = "responded" => n = 0
    BY <1>0, <1>2, <1>4 DEF Place
  <1>6. Cap(server[c]) = IF pc = "responded" THEN 0 ELSE Count
    BY <1>2 DEF Cap
  <1>7. x = 0 /\ y = 0
    <2>1. x + y <= 1
      BY <1>0, <1>4 DEF Token
    <2>2. SUFFICES ASSUME x + y = 1 PROVE x = 0 /\ y = 0
      BY <2>1
    <2>3. q = Cap(server[c]) - n
      BY <1>4, <2>2, QuietQueue
    <2>4. pc = "answered" /\ n < Count
      BY <1>4, <1>5, <1>6, <2>3, Constants
    <2>5. QED
      BY <1>0, <1>2, <1>4, <2>4, PlaceConfirmed
  <1>8. Own(server[c], x, y) = 1
    BY <1>2, <1>7 DEF Own
  <1>9. /\ q = 1 + Cap(server[c]) - n
        /\ \A i \in 1..q : IF i <= 1 THEN cq[Server(c)][i].op = "SEND"
                           ELSE /\ cq[Server(c)][i].op = "RECV"
                                /\ cq[Server(c)][i].msg = Wanted(server[c].pc)
        /\ \A i \in 1..n : recvs[Server(c)][i].len =
              IF server[c].pc \in {"request", "bye"} THEN CtlBytes ELSE BlockBytes
    BY <1>0, <1>4, <1>8 DEF ServerQueue
  <1>10. aborted' = {}
    <2>1. 1 \in 1..q /\ 1 <= 1
      BY <1>4
    <2>2. QED
      BY <1>0, <1>2, <1>9, <2>1
  <1>11. SaidAt(c)' /\ (Here(c)' <=> Here(c))
    BY <1>0, <1>1, <1>2, <1>3 DEF SaidAt, Here, Answered, Unasked
  <1>12. /\ Len(sq'[Server(c)]) = 0 /\ Len(unacked'[Server(c)]) = 0
         /\ Len(recvs'[Server(c)]) = n /\ recvs'[Server(c)] = recvs[Server(c)]
         /\ Token(client[c], server[c], 0, 0)
    BY <1>0, <1>1, <1>4, <1>7
  <1>13. CASE pc = "responded"
    <2>1. server[c].pc = "responded" /\ server'[c].pc = "round" /\ n = 0
      BY <1>2, <1>3, <1>5, <1>13
    <2>2. /\ Place(client[c], server'[c], Len(sq[Client(c)]), Len(recvs[Server(c)]))
          /\ Token(client[c], server'[c], 0, 0)
      BY <1>0, <1>3, <1>12, <2>1, PlaceResponded
    <2>3. Len(cq'[Server(c)]) = 0
      BY <1>2, <1>4, <1>6, <1>9, <1>13, <2>1
    <2>4. ServerQueue(c)'
      <3>1. Cap(server'[c]) = 0 /\ Own(server'[c], Len(sq'[Server(c)]), 0) = 0
        BY <2>1 DEF Cap, Own
      <3>2. /\ \A i \in 1..0 : FALSE
            /\ \A i \in 1..Len(sq'[Server(c)]) : FALSE
        BY <1>12
      <3>3. QED
        BY <1>12, <2>1, <2>3, <3>1, <3>2, FreshQueue
    <2>5. QED
      BY <1>0, <1>1, <1>2, <1>3, <1>10, <1>11, <1>12, <2>2, <2>4, ServerConn
  <1>14. CASE pc = "answered"
    <2>1. server[c].pc = "answered" /\ server'[c].pc = "data"
      BY <1>2, <1>3, <1>14
    <2>2. /\ Place(client[c], server'[c], Len(sq[Client(c)]), Len(recvs[Server(c)]))
          /\ Token(client[c], server'[c], 0, 0)
      BY <1>0, <1>3, <1>12, <2>1, PlaceRaw
    <2>3. Len(cq'[Server(c)]) = q - 1 /\ q - 1 = (Count - 0) - n /\ q - 1 \in Nat
          /\ Count - 0 \in Int
      <3>1. q = 1 + Count - n
        BY <1>6, <1>9, <1>14
      <3>2. QED
        BY <1>2, <1>4, <3>1, Constants
    <2>4. \A i \in 1..Len(cq'[Server(c)]) :
              cq'[Server(c)][i].op = "RECV" /\ cq'[Server(c)][i].msg = "TEST_RAW_DATA"
      <3>1. Wanted(server[c].pc) = "TEST_RAW_DATA"
        BY <2>1 DEF Wanted
      <3>2. \A i \in 1..(q - 1) : i + 1 \in 1..q /\ ~(i + 1 <= 1)
        OBVIOUS
      <3>3. \A i \in 1..(q - 1) : cq'[Server(c)][i] = cq[Server(c)][i + 1]
        BY <1>2, <2>3
      <3>4. ASSUME NEW i \in 1..(q - 1)
            PROVE  cq'[Server(c)][i].op = "RECV" /\ cq'[Server(c)][i].msg = "TEST_RAW_DATA"
        <4>1. PICK j \in 1..q : j = i + 1 /\ ~(j <= 1)
          BY <3>2
        <4>2. cq[Server(c)][j].op = "RECV" /\ cq[Server(c)][j].msg = "TEST_RAW_DATA"
          BY <1>9, <3>1, <4>1
        <4>3. QED
          BY <3>3, <4>1, <4>2
      <3>5. QED
        BY <2>3, <3>4
    <2>5. \A i \in 1..Len(recvs'[Server(c)]) : recvs'[Server(c)][i].len = BlockBytes
      BY <1>9, <1>12, <2>1
    <2>6. ServerQueue(c)'
      BY <1>3, <1>12, <2>1, <2>3, <2>4, <2>5, DataQueue
    <2>7. QED
      BY <1>0, <1>1, <1>2, <1>3, <1>10, <1>11, <1>12, <2>2, <2>6, ServerConn
  <1>15. QED
    BY <1>13, <1>14

LEMMA ServerPostControlConn ==
    ASSUME FullInv, IndInv', NEW c \in Clients, NEW pc \in {"round", "final"},
           ServerPostControl(c, pc)
    PROVE  FullInv'
  <1>0. /\ IndInv /\ ShapeInv /\ aborted = {} /\ SaidAt(c) /\ Server(c) \in End
        /\ Place(client[c], server[c], Len(sq[Client(c)]), Len(recvs[Server(c)]))
        /\ Token(client[c], server[c], Len(sq[Server(c)]), Len(unacked[Server(c)]))
        /\ Len(recvs[Server(c)]) \in Nat
    BY Known
  <1>1. /\ server[c].pc = pc
        /\ server' = [server EXCEPT ![c].pc = IF pc = "round" THEN "request" ELSE "bye"]
        /\ PostRecv(Active, CtlBytes)
        /\ UNCHANGED <<client, said, at0, buffer_peer, ring, sq, unacked, cq, aborted>>
    BY DEF ServerPostControl, Serving
  <1>2. PostRecv(Server(c), CtlBytes)
    <2>1. HoldAt(c)
      BY <1>0 DEF IndInv
    <2>2. Active = Server(c)
      BY <1>1, <2>1 DEF HoldAt, Active
    <2>3. QED
      BY <1>1, <2>2
  <1>3. /\ server'[c].pc = IF pc = "round" THEN "request" ELSE "bye"
        /\ server'[c].round = server[c].round
        /\ \A d \in Clients : d # c => server'[d] = server[d]
    <2>1. PICK to : /\ to = IF pc = "round" THEN "request" ELSE "bye"
                    /\ server' = [server EXCEPT ![c].pc = to]
      BY <1>1
    <2>2. /\ server'[c].pc = to /\ server'[c].round = server[c].round
          /\ \A d \in Clients : d # c => server'[d] = server[d]
      <3>1. ShapeInv /\ server' = [server EXCEPT ![c].pc = to]
        BY <1>0, <2>1
      <3>2. QED
        BY <3>1, ServerFields
    <2>3. QED
      BY <2>1, <2>2
  <1>4. /\ Place(client[c], server'[c], Len(sq[Client(c)]), 1)
        /\ Token(client[c], server'[c], Len(sq[Server(c)]), Len(unacked[Server(c)]))
        /\ Len(recvs[Server(c)]) = 0 /\ Len(sq[Server(c)]) = 0 /\ Len(unacked[Server(c)]) = 0
    <2>1. \/ server[c].pc = "round" /\ server'[c].pc = "request"
          \/ server[c].pc = "final" /\ server'[c].pc = "bye"
      BY <1>1, <1>3
    <2>2. server'[c].round = server[c].round
      BY <1>3
    <2>3. PICK C, S, T, a, n, x, y :
             /\ C = client[c] /\ S = server[c] /\ T = server'[c] /\ a = Len(sq[Client(c)])
             /\ n = Len(recvs[Server(c)]) /\ x = Len(sq[Server(c)])
             /\ y = Len(unacked[Server(c)])
      OBVIOUS
    <2>4. /\ Place(C, S, a, n) /\ Token(C, S, x, y) /\ T.round = S.round
          /\ \/ S.pc = "round" /\ T.pc = "request"
             \/ S.pc = "final" /\ T.pc = "bye"
      BY <1>0, <2>1, <2>2, <2>3
    <2>5. Place(C, T, a, 1) /\ Token(C, T, x, y) /\ n = 0 /\ x = 0 /\ y = 0
      BY <2>4, PlaceControl
    <2>6. QED
      BY <2>3, <2>5
  <1>5. /\ Len(recvs'[Server(c)]) = 1 /\ recvs'[Server(c)][1] = [len |-> CtlBytes, block |-> 0]
        /\ \A f \in End : f # Server(c) => recvs'[f] = recvs[f]
    BY <1>0, <1>2, <1>4, Constants, FirstRecv
  <1>6. Len(cq[Server(c)]) = 0
    <2>1. Cap(server[c]) = 0
      BY <1>1 DEF Cap
    <2>2. Len(cq[Server(c)]) = Cap(server[c]) - Len(recvs[Server(c)])
      BY <1>1, QuietQueue
    <2>3. QED
      BY <1>4, <2>1, <2>2
  <1>7. ServerQueue(c)'
    <2>1. Cap(server'[c]) = 1 /\ Own(server'[c], Len(sq'[Server(c)]), 0) = 0
      BY <1>3 DEF Cap, Own
    <2>2. \A i \in 1..1 : recvs'[Server(c)][i].len =
             IF server'[c].pc \in {"request", "bye"} THEN CtlBytes ELSE BlockBytes
      BY <1>3, <1>5
    <2>3. /\ Len(sq'[Server(c)]) = 0 /\ Len(unacked'[Server(c)]) = 0
          /\ Len(cq'[Server(c)]) = 0
      BY <1>1, <1>4, <1>6
    <2>4. \A i \in 1..Len(sq'[Server(c)]) : FALSE
      BY <2>3
    <2>5. QED
      BY <1>5, <2>1, <2>2, <2>3, <2>4, FreshQueue
  <1>8. SaidAt(c)' /\ (Here(c)' <=> Here(c))
    BY <1>0, <1>1, <1>3 DEF SaidAt, Here, Answered, Unasked
  <1>9. QED
    BY <1>0, <1>1, <1>3, <1>4, <1>5, <1>7, <1>8, ServerConn

LEMMA ServerRequestConn ==
    ASSUME FullInv, IndInv', NEW c \in Clients, ServerRequest(c) PROVE FullInv'
  <1>0. /\ IndInv /\ ShapeInv /\ aborted = {} /\ SaidAt(c) /\ Server(c) \in End
        /\ Place(client[c], server[c], Len(sq[Client(c)]), Len(recvs[Server(c)]))
        /\ Token(client[c], server[c], Len(sq[Server(c)]), Len(unacked[Server(c)]))
        /\ Len(recvs[Server(c)]) \in Nat /\ recvs[Server(c)] \in Seq(Receive)
    BY Known, ConnTypes
  <1>1. /\ server' = [server EXCEPT ![c].pc = "answered"]
        /\ ServerPolls(c, "request", Wc.op = "RECV")
        /\ UNCHANGED <<client, said, at0, buffer_peer, unacked>>
    BY DEF ServerRequest
  <1>2. /\ server[c].pc = "request" /\ Active = Server(c)
        /\ Len(cq[Server(c)]) \in Nat /\ Len(cq[Server(c)]) >= 1 /\ Wc = cq[Server(c)][1]
        /\ Len(cq'[Server(c)]) = Len(cq[Server(c)]) - 1
        /\ \A f \in End : f # Server(c) => cq'[f] = cq[f]
        /\ Wc.op = "RECV" => aborted' = aborted
    BY <1>0, <1>1, ServerTakes
  <1>3. PICK new : new = [k \in 1..Count |->
                             [len |-> BlockBytes, block |-> NextBlock(Server(c), k)]]
    OBVIOUS
  <1>4. /\ recvs' = [recvs EXCEPT ![Server(c)] = @ \o new]
        /\ Post(Server(c), Send("RESPONSE_TO_SEND_TEST_REQUEST", AnswerBytes, 1, "zero"))
    BY <1>2, <1>3 DEF ServerRequest
  <1>5. /\ server'[c].pc = "answered" /\ server'[c].round = server[c].round
        /\ \A d \in Clients : d # c => server'[d] = server[d]
    BY <1>0, <1>1, ServerFields
  <1>6. /\ Len(cq[Server(c)]) = Cap(server[c]) - Len(recvs[Server(c)])
        /\ Len(sq[Server(c)]) = 0 /\ Len(unacked[Server(c)]) = 0
        /\ \A i \in 1..Len(cq[Server(c)]) : cq[Server(c)][i].op = "RECV"
    BY <1>2, QuietQueue
  <1>7. Cap(server[c]) = 1
    BY <1>2 DEF Cap
  <1>8. Len(recvs[Server(c)]) = 0 /\ Len(cq'[Server(c)]) = 0
    BY <1>0, <1>2, <1>6, <1>7
  <1>9. aborted' = {}
    <2>1. 1 \in 1..Len(cq[Server(c)])
      BY <1>2
    <2>2. QED
      BY <1>0, <1>2, <1>6, <2>1
  <1>10. /\ Len(sq'[Server(c)]) = 1
         /\ sq'[Server(c)][1] = Send("RESPONSE_TO_SEND_TEST_REQUEST", AnswerBytes, 1, "zero")
         /\ \A f \in End : f # Server(c) => sq'[f] = sq[f]
    BY <1>0, <1>4, <1>6, FirstPost
  <1>11. /\ Len(recvs'[Server(c)]) = Count
         /\ \A i \in 1..Count : recvs'[Server(c)][i].len = BlockBytes
         /\ \A f \in End : f # Server(c) => recvs'[f] = recvs[f]
    <2>1. new \in Seq(Receive) /\ Len(new) = Count /\ \A k \in 1..Count : new[k].len = BlockBytes
      BY <1>0, <1>3, RoundReceives
    <2>2. recvs[Server(c)] = <<>>
      BY <1>0, <1>8
    <2>3. <<>> \o new = new
      BY <2>1, ConcatEmptySeq
    <2>4. recvs' = [recvs EXCEPT ![Server(c)] = new]
      BY <1>4, <2>2, <2>3
    <2>5. recvs \in [End -> Seq(Receive)]
      BY <1>0 DEF ShapeInv
    <2>6. recvs'[Server(c)] = new /\ \A f \in End : f # Server(c) => recvs'[f] = recvs[f]
      BY <1>0, <2>4, <2>5
    <2>7. QED
      BY <2>1, <2>6
  <1>12. /\ Place(client[c], server'[c], Len(sq[Client(c)]), Count)
         /\ Token(client[c], server'[c], 1, 0) /\ client[c].pc = "answer"
    <2>1. Place(client[c], server[c], Len(sq[Client(c)]), 0)
      BY <1>0, <1>8
    <2>2. PICK C, S, T, a, x, y :
             /\ C = client[c] /\ S = server[c] /\ T = server'[c] /\ a = Len(sq[Client(c)])
             /\ x = Len(sq[Server(c)]) /\ y = Len(unacked[Server(c)])
      OBVIOUS
    <2>3. /\ Place(C, S, a, 0) /\ Token(C, S, x, y) /\ S.pc = "request"
          /\ T.pc = "answered" /\ T.round = S.round
      BY <1>0, <1>2, <1>5, <2>1, <2>2
    <2>4. Place(C, T, a, Count) /\ Token(C, T, 1, 0) /\ C.pc = "answer"
      BY <2>3, PlaceRequested
    <2>5. QED
      BY <2>2, <2>4
  <1>13. ServerQueue(c)'
    <2>1. Cap(server'[c]) = Count /\ Own(server'[c], Len(sq'[Server(c)]), 0) = 0
      BY <1>5, <1>10 DEF Cap, Own
    <2>2. \A i \in 1..Len(sq'[Server(c)]) :
              /\ sq'[Server(c)][i].op = "SEND" /\ sq'[Server(c)][i].len <= CtlBytes
              /\ sq'[Server(c)][i].msg = "RESPONSE_TO_SEND_TEST_REQUEST"
      BY <1>10, Constants DEF Send, AnswerBytes
    <2>3. Len(unacked'[Server(c)]) = 0 /\ Count \in Nat
      BY <1>1, <1>6, Constants
    <2>4. QED
      BY <1>5, <1>8, <1>11, <2>1, <2>2, <2>3, FreshQueue
  <1>14. SaidAt(c)' /\ (Here(c)' <=> Here(c))
    BY <1>0, <1>1, <1>2, <1>5, <1>10, <1>12 DEF SaidAt, Here, Answered, Unasked
  <1>15. /\ Place(client[c], server'[c], Len(sq[Client(c)]), Len(recvs'[Server(c)]))
         /\ Token(client[c], server'[c], Len(sq'[Server(c)]), Len(unacked'[Server(c)]))
    BY <1>1, <1>6, <1>10, <1>11, <1>12
  <1>16. QED
    BY <1>0, <1>1, <1>2, <1>5, <1>9, <1>10, <1>11, <1>13, <1>14, <1>15, ServerConn

LEMMA ServerDataConn ==
    ASSUME FullInv, IndInv', NEW c \in Clients, ServerData(c) PROVE FullInv'
  <1>0. /\ IndInv /\ ShapeInv /\ aborted = {} /\ SaidAt(c) /\ Server(c) \in End
        /\ client[c] \in ClientState /\ server[c] \in ServerState /\ ServerQueue(c)
        /\ Place(client[c], server[c], Len(sq[Client(c)]), Len(recvs[Server(c)]))
        /\ Token(client[c], server[c], Len(sq[Server(c)]), Len(unacked[Server(c)]))
        /\ Len(recvs[Server(c)]) \in Nat /\ Len(sq[Client(c)]) \in Nat
    BY Known
  <1>1. /\ ServerPolls(c, "data", IsMsg("TEST_RAW_DATA"))
        /\ UNCHANGED <<client, said, at0, buffer_peer, recvs, sq, unacked>>
    BY DEF ServerData
  <1>2. /\ server[c].pc = "data"
        /\ Len(cq[Server(c)]) \in Nat /\ Len(cq[Server(c)]) >= 1 /\ Wc = cq[Server(c)][1]
        /\ Len(cq'[Server(c)]) = Len(cq[Server(c)]) - 1
        /\ \A i \in 1..Len(cq'[Server(c)]) : cq'[Server(c)][i] = cq[Server(c)][i + 1]
        /\ \A f \in End : f # Server(c) => cq'[f] = cq[f]
        /\ IsMsg("TEST_RAW_DATA") => aborted' = aborted
    BY <1>0, <1>1, ServerTakes
  <1>3. /\ server'[c].index = server[c].index + 1 /\ server'[c] \in ServerState
        /\ \A d \in Clients : d # c => server'[d] = server[d]
        /\ server[c].index + 1 # Count =>
              server'[c].pc = "data" /\ server'[c].round = server[c].round
        /\ server[c].index + 1 = Count =>
              \/ /\ server[c].round < Rounds /\ server'[c].pc = "round"
                 /\ server'[c].round = server[c].round + 1
              \/ /\ server[c].round = Rounds /\ server'[c].pc = "final"
                 /\ server'[c].round = server[c].round
    BY <1>0, <1>2, ServerCounts
  <1>4. /\ Len(cq[Server(c)]) = Cap(server[c]) - Len(recvs[Server(c)])
        /\ Len(sq[Server(c)]) = 0 /\ Len(unacked[Server(c)]) = 0
        /\ \A i \in 1..Len(cq[Server(c)]) :
              cq[Server(c)][i].op = "RECV" /\ cq[Server(c)][i].msg = Wanted(server[c].pc)
    BY <1>2, QuietQueue
  <1>5. Cap(server[c]) = Count - server[c].index /\ Wanted(server[c].pc) = "TEST_RAW_DATA"
    BY <1>2 DEF Cap, Wanted
  <1>6. PICK n, q, i \in Nat :
           /\ n = Len(recvs[Server(c)]) /\ q = Len(cq[Server(c)]) /\ i = server[c].index
           /\ q >= 1 /\ q = (Count - i) - n /\ Count \in Nat
    <2>1. server[c].index \in Nat
      BY <1>0, Fields
    <2>2. Len(cq[Server(c)]) = (Count - server[c].index) - Len(recvs[Server(c)])
      BY <1>4, <1>5
    <2>3. QED
      BY <1>0, <1>2, <2>1, <2>2, Constants
  <1>6a. /\ i + 1 = Count => n = 0 /\ q = 1 /\ q - 1 = 0
         /\ n + q + i = Count
    <2>1. q >= 1 /\ q = (Count - i) - n /\ Count \in Nat
      BY <1>6
    <2>2. n + q + i = Count
      BY <2>1
    <2>3. QED
      BY <2>1, <2>2
  <1>7. aborted' = {}
    <2>1. 1 \in 1..Len(cq[Server(c)])
      BY <1>2
    <2>2. QED
      BY <1>0, <1>2, <1>4, <1>5, <2>1 DEF IsMsg
  <1>8. Token(client[c], server[c], 0, 0)
    BY <1>0, <1>4
  <1>9. /\ Len(sq'[Server(c)]) = 0 /\ Len(unacked'[Server(c)]) = 0
        /\ Len(recvs'[Server(c)]) = n /\ recvs'[Server(c)] = recvs[Server(c)]
        /\ Len(cq'[Server(c)]) = q - 1
    BY <1>1, <1>2, <1>4, <1>6
  <1>10. /\ Place(client[c], server'[c], Len(sq[Client(c)]), n)
         /\ Token(client[c], server'[c], 0, 0)
    <2>1. CASE i + 1 # Count
      <3>1. server'[c].pc = "data" /\ server'[c].round = server[c].round
        BY <1>3, <1>6, <2>1
      <3>2. Place(client[c], server[c], Len(sq[Client(c)]), n)
        BY <1>0, <1>6
      <3>3. QED
        BY <1>2, <1>8, <3>1, <3>2, PlaceRaw
    <2>2. CASE i + 1 = Count
      <3>1. n = 0
        BY <1>6a, <2>2
      <3>2. Place(client[c], server[c], Len(sq[Client(c)]), 0)
        BY <1>0, <1>6, <3>1
      <3>3. \/ /\ server[c].round < Rounds /\ server'[c].pc = "round"
               /\ server'[c].round = server[c].round + 1
            \/ /\ server[c].round = Rounds /\ server'[c].pc = "final"
               /\ server'[c].round = server[c].round
        BY <1>3, <1>6, <2>2
      <3>4. QED
        BY <1>0, <1>2, <1>3, <1>8, <3>1, <3>2, <3>3, PlaceLast
    <2>3. QED
      BY <2>1, <2>2
  <1>11. ServerQueue(c)'
    <2>1. CASE i + 1 # Count
      <3>1. server'[c].pc = "data" /\ server'[c].index = i + 1
        BY <1>3, <1>6, <2>1
      <3>2. /\ Count - (i + 1) \in Int /\ q - 1 = (Count - (i + 1)) - n /\ q - 1 \in Nat
        <4>1. q >= 1 /\ q = (Count - i) - n /\ Count \in Nat
          BY <1>6
        <4>2. QED
          BY <4>1
      <3>3. \A j \in 1..Len(cq'[Server(c)]) :
                cq'[Server(c)][j].op = "RECV" /\ cq'[Server(c)][j].msg = "TEST_RAW_DATA"
        <4>1. ASSUME NEW j \in 1..(q - 1)
              PROVE  cq'[Server(c)][j].op = "RECV" /\ cq'[Server(c)][j].msg = "TEST_RAW_DATA"
          <5>1. PICK m \in 1..q : m = j + 1
            OBVIOUS
          <5>2. cq'[Server(c)][j] = cq[Server(c)][m]
            BY <1>2, <1>9, <5>1
          <5>3. cq[Server(c)][m].op = "RECV" /\ cq[Server(c)][m].msg = "TEST_RAW_DATA"
            BY <1>4, <1>5, <1>6
          <5>4. QED
            BY <5>2, <5>3
        <4>2. QED
          BY <1>9, <4>1
      <3>4. \A j \in 1..Len(recvs'[Server(c)]) : recvs'[Server(c)][j].len = BlockBytes
        BY <1>0, <1>2, <1>9 DEF ServerQueue
      <3>5. QED
        BY <1>9, <3>1, <3>2, <3>3, <3>4, DataQueue
    <2>2. CASE i + 1 = Count
      <3>1. n = 0 /\ q - 1 = 0
        BY <1>6a, <2>2
      <3>2. server'[c].pc \in {"round", "final"}
        BY <1>3, <1>6, <2>2
      <3>3. Cap(server'[c]) = 0 /\ Own(server'[c], Len(sq'[Server(c)]), 0) = 0
        BY <3>2 DEF Cap, Own
      <3>4. /\ \A j \in 1..0 : FALSE
            /\ \A j \in 1..Len(sq'[Server(c)]) : FALSE
        BY <1>9
      <3>5. QED
        BY <1>9, <3>1, <3>3, <3>4, FreshQueue
    <2>3. QED
      BY <2>1, <2>2
  <1>12. SaidAt(c)'
    BY <1>0, <1>1, <1>2, <1>3 DEF SaidAt
  <1>13. Here(c)' <=> Here(c)
    <2>1. CASE i + 1 # Count
      BY <1>1, <1>2, <1>3, <1>6, <2>1 DEF Here, Answered, Unasked
    <2>2. CASE i + 1 = Count
      <3>1. server'[c].pc \in {"round", "final"}
        BY <1>3, <1>6, <2>2
      <3>2. n = 0
        BY <1>6a, <2>2
      <3>3. ~(client[c].pc = "answer" /\ client[c].round = server[c].round)
        <4>1. SUFFICES ASSUME client[c].pc = "answer", client[c].round = server[c].round
                       PROVE  FALSE
          OBVIOUS
        <4>2. server[c].round \in Nat
          BY <1>0, Fields
        <4>3. ~Beyond(client[c], server[c], Len(sq[Client(c)]))
          BY <4>1, <4>2 DEF Beyond, After, Rdma
        <4>4. n = Count
          BY <1>0, <1>2, <1>6, <4>1, <4>3 DEF Place
        <4>5. QED
          BY <3>2, <4>4, Constants
      <3>4. QED
        BY <1>1, <1>2, <3>1, <3>3 DEF Here, Answered, Unasked
    <2>3. QED
      BY <2>1, <2>2
  <1>14. QED
    BY <1>0, <1>1, <1>2, <1>3, <1>7, <1>9, <1>10, <1>11, <1>12, <1>13, ServerConn

LEMMA ServerByeConn ==
    ASSUME FullInv, IndInv', NEW c \in Clients, ServerBye(c) PROVE FullInv'
  <1>0. /\ IndInv /\ ShapeInv /\ aborted = {} /\ SaidAt(c) /\ Server(c) \in End
        /\ Place(client[c], server[c], Len(sq[Client(c)]), Len(recvs[Server(c)]))
        /\ Token(client[c], server[c], Len(sq[Server(c)]), Len(unacked[Server(c)]))
        /\ Len(recvs[Server(c)]) \in Nat
    BY Known
  <1>1. /\ server' = [server EXCEPT ![c].pc = "done"]
        /\ ServerPolls(c, "bye", IsMsg("BYEBYE"))
        /\ UNCHANGED <<client, said, at0, buffer_peer, ring, recvs, sq, unacked>>
    BY DEF ServerBye
  <1>2. /\ server[c].pc = "bye"
        /\ Len(cq[Server(c)]) \in Nat /\ Len(cq[Server(c)]) >= 1 /\ Wc = cq[Server(c)][1]
        /\ Len(cq'[Server(c)]) = Len(cq[Server(c)]) - 1
        /\ \A f \in End : f # Server(c) => cq'[f] = cq[f]
        /\ IsMsg("BYEBYE") => aborted' = aborted
    BY <1>0, <1>1, ServerTakes
  <1>3. /\ server'[c].pc = "done" /\ server'[c].round = server[c].round
        /\ \A d \in Clients : d # c => server'[d] = server[d]
    BY <1>0, <1>1, ServerFields
  <1>4. /\ Len(cq[Server(c)]) = Cap(server[c]) - Len(recvs[Server(c)])
        /\ Len(sq[Server(c)]) = 0 /\ Len(unacked[Server(c)]) = 0
        /\ \A i \in 1..Len(cq[Server(c)]) :
              cq[Server(c)][i].op = "RECV" /\ cq[Server(c)][i].msg = Wanted(server[c].pc)
    BY <1>2, QuietQueue
  <1>5. Cap(server[c]) = 1 /\ Wanted(server[c].pc) = "BYEBYE"
    BY <1>2 DEF Cap, Wanted
  <1>6. Len(recvs[Server(c)]) = 0 /\ Len(cq'[Server(c)]) = 0
    BY <1>0, <1>2, <1>4, <1>5
  <1>7. aborted' = {}
    <2>1. 1 \in 1..Len(cq[Server(c)])
      BY <1>2
    <2>2. QED
      BY <1>0, <1>2, <1>4, <1>5, <2>1 DEF IsMsg
  <1>8. /\ Place(client[c], server'[c], Len(sq[Client(c)]), 0)
        /\ Token(client[c], server'[c], Len(sq[Server(c)]), Len(unacked[Server(c)]))
    BY <1>0, <1>2, <1>3, <1>6, PlaceDone
  <1>9. ServerQueue(c)'
    <2>1. Cap(server'[c]) = 0 /\ Own(server'[c], Len(sq'[Server(c)]), 0) = 0
      BY <1>3 DEF Cap, Own
    <2>2. /\ Len(sq'[Server(c)]) = 0 /\ Len(unacked'[Server(c)]) = 0
          /\ Len(recvs'[Server(c)]) = 0
      BY <1>1, <1>4, <1>6
    <2>3. (\A i \in 1..0 : FALSE) /\ \A i \in 1..Len(sq'[Server(c)]) : FALSE
      BY <2>2
    <2>4. QED
      BY <1>6, <2>1, <2>2, <2>3, FreshQueue
  <1>10. SaidAt(c)' /\ (Here(c)' <=> Here(c))
    BY <1>0, <1>1, <1>2, <1>3 DEF SaidAt, Here, Answered, Unasked
  <1>11. /\ Place(client[c], server'[c], Len(sq[Client(c)]), Len(recvs'[Server(c)]))
         /\ Token(client[c], server'[c], Len(sq'[Server(c)]), Len(unacked'[Server(c)]))
    BY <1>1, <1>6, <1>8
  <1>12. QED
    BY <1>0, <1>1, <1>2, <1>3, <1>7, <1>9, <1>10, <1>11, ServerConn

-----------------------------------------------------------------------------
(* The steps of the NIC *)

\* A queue of an end loses its head, or gets one more element.
LEMMA PopFacts ==
    ASSUME NEW T, NEW f \in [End -> Seq(T)], NEW g, NEW e \in End, f[e] # <<>>,
           g = [f EXCEPT ![e] = Tail(@)]
    PROVE  /\ Len(f[e]) \in Nat /\ Len(f[e]) >= 1 /\ Len(g[e]) = Len(f[e]) - 1
           /\ \A i \in 1..Len(g[e]) : \E j \in 1..Len(f[e]) : g[e][i] = f[e][j]
           /\ Head(f[e]) = f[e][1] /\ f[e][1] \in T /\ 1 \in 1..Len(f[e])
           /\ \A d \in End : d # e => g[d] = f[d]
  <1>1. PICK q \in Seq(T) : q = f[e] /\ q # <<>>
    OBVIOUS
  <1>2. PICK r \in Seq(T) : r = Tail(q)
    BY <1>1, TailFacts
  <1>3. /\ Len(q) \in Nat /\ Len(q) >= 1 /\ Len(r) = Len(q) - 1
        /\ \A i \in 1..Len(r) : r[i] = q[i + 1]
        /\ Head(q) = q[1] /\ q[1] \in T
    BY <1>1, <1>2, TailFacts
  <1>4. g[e] = r /\ \A d \in End : d # e => g[d] = f[d]
    BY <1>1, <1>2
  <1>5. ASSUME NEW i \in 1..Len(r) PROVE \E j \in 1..Len(q) : r[i] = q[j]
    <2>1. i + 1 \in 1..Len(q)
      BY <1>3
    <2>2. QED
      BY <1>3, <2>1
  <1>6. 1 \in 1..Len(q)
    BY <1>3
  <1>7. QED
    BY <1>1, <1>3, <1>4, <1>5, <1>6

LEMMA PushFacts ==
    ASSUME NEW T, NEW f \in [End -> Seq(T)], NEW g, NEW e \in End, NEW w \in T,
           g = [f EXCEPT ![e] = Append(@, w)]
    PROVE  /\ Len(f[e]) \in Nat /\ Len(g[e]) = Len(f[e]) + 1 /\ g[e][Len(f[e]) + 1] = w
           /\ \A i \in 1..Len(f[e]) : g[e][i] = f[e][i]
           /\ \A i \in 1..Len(g[e]) : i \in 1..Len(f[e]) \/ i = Len(f[e]) + 1
           /\ \A d \in End : d # e => g[d] = f[d]
  <1>1. PICK q \in Seq(T) : q = f[e]
    OBVIOUS
  <1>2. PICK r \in Seq(T) : r = Append(q, w)
    BY <1>1, AppendFacts
  <1>3. /\ Len(q) \in Nat /\ Len(r) = Len(q) + 1 /\ r[Len(q) + 1] = w
        /\ \A i \in 1..Len(q) : r[i] = q[i]
    BY <1>1, <1>2, AppendFacts
  <1>4. g[e] = r /\ \A d \in End : d # e => g[d] = f[d]
    BY <1>1, <1>2
  <1>5. \A i \in 1..Len(r) : i \in 1..Len(q) \/ i = Len(q) + 1
    BY <1>3
  <1>6. QED
    BY <1>1, <1>3, <1>4, <1>5

\* A message of the client takes a receive of the server: it is the one the server
\* waits for, and it fits.
LEMMA PlaceTakes ==
    ASSUME NEW C \in ClientState, NEW S \in ServerState, NEW a \in Nat, NEW n \in Nat,
           NEW x \in Nat, NEW y \in Nat,
           Place(C, S, a, n), Token(C, S, x, y), a >= 1, n >= 1,
           C.pc \in {"exchange", "answer", "leaving", "data"},
           C.pc # "data" => a = 1, C.pc = "data" => a <= C.index
    PROVE  /\ Place(C, S, a - 1, n - 1)
           /\ ClientMsg(C.pc) = Wanted(S.pc)
           /\ ClientLen(C.pc) <= IF S.pc \in {"request", "bye"} THEN CtlBytes ELSE BlockBytes
           /\ S.pc \in {"synced", "exchange", "request", "answered", "data", "bye"}
           /\ S.pc = "answered" => x = 0 /\ y = 0 /\ n <= Count
  <1>1. /\ S.pc \in ServerPc /\ Count \in Nat /\ C.index \in Nat /\ C.index <= Count
        /\ (C.pc \in Waiting => C.round = 1)
        /\ (S.pc \in Unasked \cup {"responded"} => S.round = 1)
    BY Fields, Constants DEF Place
  <1>2. a # 0 /\ n # 0 /\ a > 0 /\ 1 - 1 = 0
    OBVIOUS
  <1>3. S.pc \in {"synced", "exchange", "request", "answered", "data", "bye"}
    BY <1>1, <1>2 DEF Place, ServerPc
  <1>4. CASE S.pc \in {"synced", "exchange"}
    <2>1. C.pc = "exchange" /\ n = a
      BY <1>4 DEF Place
    <2>2. a = 1 /\ n = 1
      BY <2>1
    <2>3. Place(C, S, 0, 0)
      BY <1>1, <1>4, <2>1 DEF Place, Unasked
    <2>4. /\ ClientMsg(C.pc) = "REQUEST_BUFFER" /\ Wanted(S.pc) = "REQUEST_BUFFER"
          /\ ClientLen(C.pc) = AskBytes
      BY <1>4, <2>1 DEF ClientMsg, Wanted, ClientLen
    <2>5. AskBytes <= BlockBytes
      BY Constants, Sizes
    <2>6. QED
      BY <1>2, <1>3, <1>4, <2>2, <2>3, <2>4, <2>5
  <1>5. CASE S.pc = "request"
    <2>1. n = 1 /\ Before(C, S, a)
      BY <1>2, <1>5 DEF Place, Asking
    <2>2. C.pc = "answer" /\ C.round = S.round /\ a = 1
      BY <1>2, <2>1 DEF Before, Finished
    <2>3. Asking(C, S, 0)
      BY <2>2 DEF Asking
    <2>4. Place(C, S, 0, 0)
      BY <1>1, <1>5, <2>2, <2>3 DEF Place, Unasked
    <2>5. /\ ClientMsg(C.pc) = "SEND_TEST_REQUEST" /\ Wanted(S.pc) = "SEND_TEST_REQUEST"
          /\ ClientLen(C.pc) = AskBytes /\ AskBytes <= CtlBytes
      BY <1>5, <2>2, Constants DEF ClientMsg, Wanted, ClientLen
    <2>6. QED
      BY <1>2, <1>3, <1>5, <2>1, <2>2, <2>4, <2>5
  <1>6. CASE S.pc \in {"answered", "data"}
    <2>1. n = Count - C.index + a /\ C.pc = "data" /\ C.round = S.round
      BY <1>2, <1>6 DEF Place, Asking
    <2>2. n - 1 = Count - C.index + (a - 1) /\ n <= Count /\ C.index # 0
      <3>1. PICK i \in Nat : i = C.index /\ i <= Count /\ a <= i
        BY <1>1, <2>1
      <3>2. n = Count - i + a
        BY <2>1, <3>1
      <3>3. n - 1 = Count - i + (a - 1) /\ n <= Count /\ i # 0
        BY <1>1, <3>1, <3>2
      <3>4. QED
        BY <3>1, <3>3
    <2>3. PICK b, m : b = a - 1 /\ m = n - 1 /\ m = Count - C.index + b
      BY <2>2
    <2>4. Place(C, S, b, m)
      BY <1>1, <1>6, <2>1, <2>3 DEF Place, Unasked, Waiting
    <2>5. S.pc = "answered" => x = 0 /\ y = 0
      BY <2>1, <2>2 DEF Token
    <2>6. /\ ClientMsg(C.pc) = "TEST_RAW_DATA" /\ Wanted(S.pc) = "TEST_RAW_DATA"
          /\ ClientLen(C.pc) = BlockBytes /\ BlockBytes <= BlockBytes
      BY <1>6, <2>1, Sizes DEF ClientMsg, Wanted, ClientLen
    <2>7. QED
      BY <1>3, <1>6, <2>2, <2>3, <2>4, <2>5, <2>6
  <1>7. CASE S.pc = "bye"
    <2>1. n = 1 /\ Last(C, a)
      BY <1>2, <1>7 DEF Place
    <2>2. C.pc = "leaving" /\ a = 1
      BY <1>2, <2>1 DEF Last, After, Finished, Rdma
    <2>3. Left(C, 0)
      BY <2>2 DEF Left
    <2>4. Place(C, S, 0, 0)
      BY <1>1, <1>7, <2>2, <2>3 DEF Place, Unasked
    <2>5. /\ ClientMsg(C.pc) = "BYEBYE" /\ Wanted(S.pc) = "BYEBYE"
          /\ ClientLen(C.pc) = CtlBytes /\ CtlBytes <= CtlBytes
      BY <1>7, <2>2, Constants DEF ClientMsg, Wanted, ClientLen
    <2>6. QED
      BY <1>2, <1>3, <1>7, <2>1, <2>2, <2>4, <2>5
  <1>8. QED
    BY <1>3, <1>4, <1>5, <1>6, <1>7

\* What a client has in its send queue.
LEMMA PostedBound ==
    ASSUME FullInv, NEW c \in Clients, Len(sq[Client(c)]) >= 1
    PROVE  /\ client[c].pc \in Tests \cup {"exchange", "answer", "leaving"}
           /\ client[c].pc \notin Tests => Len(sq[Client(c)]) = 1
           /\ client[c].pc \in Tests => Len(sq[Client(c)]) <= client[c].index
  <1>0. /\ WaitQueue(c) /\ WorkQueue(c) /\ client[c] \in ClientState
        /\ Len(sq[Client(c)]) \in Nat /\ Len(unacked[Client(c)]) \in Nat
        /\ Len(cq[Client(c)]) \in Nat
    BY Known
  <1>1. PICK a, u, q \in Nat : /\ a = Len(sq[Client(c)]) /\ u = Len(unacked[Client(c)])
                               /\ q = Len(cq[Client(c)]) /\ a >= 1
    BY <1>0
  <1>2. client[c].pc \in ClientPc /\ client[c].index \in Nat /\ client[c].confirm \in Nat
    BY <1>0, Fields
  <1>3. client[c].pc \in Tests \cup {"exchange", "answer", "leaving"}
    BY <1>1, <1>2, IdleEmpty DEF ClientPc
  <1>4. CASE Waits(client[c])
    <2>1. InFlight(client[c]) \in {0, 1}
      BY <1>4, WaitsInFlight
    <2>2. PICK g \in Nat : g = IF Got(c, "SEND") THEN 1 ELSE 0
      OBVIOUS
    <2>3. a + u + g = InFlight(client[c])
      BY <1>0, <1>1, <1>4, <2>2 DEF WaitQueue
    <2>4. a = 1
      <3>1. a + u + g \in {0, 1} /\ a >= 1
        BY <1>1, <2>1, <2>3
      <3>2. QED
        BY <3>1
    <2>5. client[c].pc \notin Tests
      BY <1>4 DEF Waits, Tests
    <2>6. QED
      BY <1>1, <1>3, <2>4, <2>5
  <1>5. CASE ~Waits(client[c])
    <2>1. a + u + q = InFlight(client[c])
      BY <1>0, <1>1, <1>5 DEF WorkQueue
    <2>2. CASE client[c].pc \in Tests
      <3>1. InFlight(client[c]) = client[c].index - client[c].confirm
        BY <2>2 DEF InFlight, Tests
      <3>2. PICK i, k \in Nat : i = client[c].index /\ k = client[c].confirm
        BY <1>2
      <3>3. a + u + q = i - k
        BY <2>1, <3>1, <3>2
      <3>4. a <= i
        BY <3>3
      <3>5. QED
        BY <1>1, <1>3, <2>2, <3>2, <3>4
    <2>3. CASE client[c].pc \notin Tests
      <3>1. client[c].pc = "leaving"
        BY <1>3, <1>5, <2>3 DEF Waits
      <3>2. InFlight(client[c]) = 1
        BY <3>1 DEF InFlight, Tests
      <3>3. a = 1
        <4>1. a + u + q = 1 /\ a >= 1
          BY <1>1, <2>1, <3>2
        <4>2. QED
          BY <4>1
      <3>4. QED
        BY <1>1, <1>3, <2>3, <3>3
    <2>4. QED
      BY <2>2, <2>3
  <1>6. QED
    BY <1>4, <1>5

\* An operation of the client is executed.
LEMMA ClientExecutes ==
    ASSUME FullInv, NEW c \in Clients, client'[c] = client[c], Here(c)' <=> Here(c),
           cq'[Client(c)] = cq[Client(c)], recvs'[Client(c)] = recvs[Client(c)],
           sq[Client(c)] # <<>>, sq' = [sq EXCEPT ![Client(c)] = Tail(@)],
           unacked' = [unacked EXCEPT ![Client(c)] = Append(@, Head(sq[Client(c)]))]
    PROVE  /\ WaitQueue(c)' /\ WorkQueue(c)' /\ PostedQueue(c)' /\ RecvQueue(c)'
           /\ Len(sq[Client(c)]) >= 1 /\ Len(sq'[Client(c)]) = Len(sq[Client(c)]) - 1
           /\ Head(sq[Client(c)]) = sq[Client(c)][1] /\ 1 \in 1..Len(sq[Client(c)])
           /\ \A d \in End : d # Client(c) => sq'[d] = sq[d] /\ unacked'[d] = unacked[d]
  <1>0. /\ Client(c) \in End /\ WaitQueue(c) /\ WorkQueue(c) /\ PostedQueue(c)
        /\ RecvQueue(c) /\ sq \in [End -> Seq(Request)] /\ unacked \in [End -> Seq(Request)]
        /\ Len(cq[Client(c)]) \in Nat
    BY Known DEF ShapeInv
  <1>1. PICK w \in Request : w = Head(sq[Client(c)]) /\ w = sq[Client(c)][1]
    BY <1>0, PopFacts
  <1>2. /\ Len(sq[Client(c)]) \in Nat /\ Len(sq[Client(c)]) >= 1
        /\ Len(sq'[Client(c)]) = Len(sq[Client(c)]) - 1 /\ 1 \in 1..Len(sq[Client(c)])
        /\ \A i \in 1..Len(sq'[Client(c)]) : \E j \in 1..Len(sq[Client(c)]) :
              sq'[Client(c)][i] = sq[Client(c)][j]
        /\ \A d \in End : d # Client(c) => sq'[d] = sq[d]
    BY <1>0, PopFacts
  <1>3. unacked' = [unacked EXCEPT ![Client(c)] = Append(@, w)]
    BY <1>1
  <1>4. /\ Len(unacked[Client(c)]) \in Nat
        /\ Len(unacked'[Client(c)]) = Len(unacked[Client(c)]) + 1
        /\ unacked'[Client(c)][Len(unacked[Client(c)]) + 1] = w
        /\ \A i \in 1..Len(unacked[Client(c)]) : unacked'[Client(c)][i] = unacked[Client(c)][i]
        /\ \A i \in 1..Len(unacked'[Client(c)]) :
              i \in 1..Len(unacked[Client(c)]) \/ i = Len(unacked[Client(c)]) + 1
        /\ \A d \in End : d # Client(c) => unacked'[d] = unacked[d]
    BY <1>0, <1>3, PushFacts
  <1>5. PICK a, u, b, v \in Nat :
           /\ a = Len(sq[Client(c)]) /\ u = Len(unacked[Client(c)])
           /\ b = Len(sq'[Client(c)]) /\ v = Len(unacked'[Client(c)])
           /\ b = a - 1 /\ v = u + 1
    BY <1>2, <1>4
  <1>6. \A k \in Nat : a + u + k = b + v + k
    <2>1. b = a - 1 /\ v = u + 1
      BY <1>5
    <2>2. QED
      BY <2>1
  <1>7. (Got(c, "SEND")' <=> Got(c, "SEND")) /\ (Got(c, "RECV")' <=> Got(c, "RECV"))
    BY DEF Got
  <1>8. WaitQueue(c)'
    <2>1. SUFFICES ASSUME Waits(client[c]) PROVE WaitQueue(c)'
      BY DEF WaitQueue
    <2>2. PICK g \in Nat : g = IF Got(c, "SEND") THEN 1 ELSE 0
      OBVIOUS
    <2>3. a + u + g = InFlight(client[c])
      BY <1>0, <1>5, <2>1, <2>2 DEF WaitQueue
    <2>4. b + v + g = InFlight(client[c])
      BY <1>6, <2>3
    <2>5. Len(sq'[Client(c)]) + Len(unacked'[Client(c)]) + (IF Got(c, "SEND") THEN 1 ELSE 0)
             = InFlight(client[c])
      BY <1>5, <2>2, <2>4
    <2>6. QED
      BY <1>0, <1>7, <2>1, <2>5 DEF WaitQueue
  <1>9. WorkQueue(c)'
    <2>1. SUFFICES ASSUME ~Waits(client[c]) PROVE WorkQueue(c)'
      BY DEF WorkQueue
    <2>2. a + u + Len(cq[Client(c)]) = InFlight(client[c])
      BY <1>0, <1>5, <2>1 DEF WorkQueue
    <2>3. b + v + Len(cq[Client(c)]) = InFlight(client[c])
      BY <1>0, <1>6, <2>2
    <2>4. Len(sq'[Client(c)]) + Len(unacked'[Client(c)]) + Len(cq'[Client(c)])
             = InFlight(client[c])
      BY <1>5, <2>3
    <2>5. QED
      BY <1>0, <2>1, <2>4 DEF WorkQueue
  <1>10. PostedQueue(c)'
    <2>1. w.op = ClientOp(client[c].pc)
      BY <1>0, <1>1, <1>2 DEF PostedQueue
    <2>2. \A i \in 1..Len(unacked'[Client(c)]) :
             unacked'[Client(c)][i].op = ClientOp(client[c].pc)
      BY <1>0, <1>4, <2>1 DEF PostedQueue
    <2>3. QED
      BY <1>0, <1>2, <2>2 DEF PostedQueue
  <1>11. RecvQueue(c)'
    BY <1>0 DEF RecvQueue
  <1>12. QED
    BY <1>1, <1>2, <1>4, <1>8, <1>9, <1>10, <1>11

\* A WRITE or a READ is the client's, and goes to the buffer of its descriptor.
LEMMA ExecuteRdmaConn ==
    ASSUME FullInv, IndInv', NEW e \in End, ExecuteRdma(e) PROVE FullInv'
  <1>1. PICK c \in Clients : e = Client(c) \/ e = Server(c)
    BY EndFacts
  <1>2. PICK w : w = Head(sq[e])
    OBVIOUS
  <1>3. /\ sq[e] # <<>> /\ w.op \in {"WRITE", "READ"}
        /\ sq' = [sq EXCEPT ![e] = Tail(@)]
        /\ unacked' = [unacked EXCEPT ![e] =
              Append(@, IF w.data \in Clients THEN w ELSE [w EXCEPT !.op = "ERROR"])]
        /\ UNCHANGED <<client, server, said, recvs, cq, aborted>>
    BY <1>2 DEF ExecuteRdma
  <1>4. /\ IndInv /\ aborted = {} /\ ServerQueue(c) /\ PostedQueue(c)
        /\ Server(c) \in End /\ Client(c) \in End /\ server[c] \in ServerState
        /\ Place(client[c], server[c], Len(sq[Client(c)]), Len(recvs[Server(c)]))
        /\ Token(client[c], server[c], Len(sq[Server(c)]), Len(unacked[Server(c)]))
        /\ sq \in [End -> Seq(Request)]
        /\ Len(sq[Client(c)]) \in Nat /\ Len(recvs[Server(c)]) \in Nat
        /\ Len(sq[Server(c)]) \in Nat /\ Len(unacked[Server(c)]) \in Nat
    BY Known DEF ShapeInv
  <1>5. w = sq[e][1] /\ 1 \in 1..Len(sq[e])
    BY <1>2, <1>3, <1>4, PopFacts
  <1>6. e = Client(c)
    BY <1>1, <1>3, <1>4, <1>5 DEF ServerQueue
  <1>7. client[c].pc \in Rdma
    <2>1. w.op = ClientOp(client[c].pc)
      BY <1>4, <1>5, <1>6 DEF PostedQueue
    <2>2. QED
      BY <1>3, <2>1 DEF ClientOp, TestOp, Tests, Rdma
  <1>8. w.data = c
    BY <1>4, <1>5, <1>6, <1>7 DEF PostedQueue
  <1>9. unacked' = [unacked EXCEPT ![Client(c)] = Append(@, Head(sq[Client(c)]))]
    BY <1>2, <1>3, <1>6, <1>8
  <1>10. Here(c)' <=> Here(c)
    <2>1. ~Waits(client[c])
      BY <1>7 DEF Waits, Rdma
    <2>2. QED
      BY <1>3, <2>1 DEF Here, Answered, Waits
  <1>11. /\ WaitQueue(c)' /\ WorkQueue(c)' /\ PostedQueue(c)' /\ RecvQueue(c)'
         /\ Len(sq[Client(c)]) >= 1 /\ Len(sq'[Client(c)]) = Len(sq[Client(c)]) - 1
         /\ \A d \in End : d # Client(c) => sq'[d] = sq[d] /\ unacked'[d] = unacked[d]
    BY <1>3, <1>6, <1>9, <1>10, ClientExecutes
  <1>12. Place(client[c], server[c], Len(sq'[Client(c)]), Len(recvs[Server(c)]))
    <2>1. PICK b \in Nat : b = Len(sq'[Client(c)])
      BY <1>4, <1>11
    <2>2. After(client[c], b)
      BY <1>7 DEF After
    <2>3. QED
      BY <1>4, <1>7, <2>1, <2>2, PlaceAfter
  <1>13. QED
    BY <1>3, <1>4, <1>11, <1>12, ClientConn

\* An operation of the client is acknowledged.
LEMMA AcknowledgeClientConn ==
    ASSUME FullInv, IndInv', NEW c \in Clients, Acknowledge(Client(c)) PROVE FullInv'
  <1>0. /\ aborted = {} /\ Client(c) \in End /\ WaitQueue(c) /\ WorkQueue(c) /\ PostedQueue(c)
        /\ RecvQueue(c) /\ unacked \in [End -> Seq(Request)] /\ cq \in [End -> Seq(Completion)]
        /\ Place(client[c], server[c], Len(sq[Client(c)]), Len(recvs[Server(c)]))
        /\ Token(client[c], server[c], Len(sq[Server(c)]), Len(unacked[Server(c)]))
        /\ Len(sq[Client(c)]) \in Nat
    BY Known DEF ShapeInv
  <1>1. PICK w : w = Head(unacked[Client(c)])
    OBVIOUS
  <1>2. PICK z : z = [op |-> w.op, msg |-> w.msg, block |-> w.block]
    OBVIOUS
  <1>3. /\ unacked[Client(c)] # <<>> /\ unacked' = [unacked EXCEPT ![Client(c)] = Tail(@)]
        /\ cq' = [cq EXCEPT ![Client(c)] = Append(@, z)]
        /\ UNCHANGED <<client, server, said, recvs, sq, aborted>>
    BY <1>1, <1>2 DEF Acknowledge
  <1>4. /\ Len(unacked[Client(c)]) \in Nat /\ Len(unacked[Client(c)]) >= 1
        /\ Len(unacked'[Client(c)]) = Len(unacked[Client(c)]) - 1
        /\ w = unacked[Client(c)][1] /\ w \in Request /\ 1 \in 1..Len(unacked[Client(c)])
        /\ \A i \in 1..Len(unacked'[Client(c)]) : \E j \in 1..Len(unacked[Client(c)]) :
              unacked'[Client(c)][i] = unacked[Client(c)][j]
        /\ \A d \in End : d # Client(c) => unacked'[d] = unacked[d]
    BY <1>0, <1>1, <1>3, PopFacts
  <1>5. z \in Completion /\ z.op = w.op
    BY <1>2, <1>4 DEF Request, Completion
  <1>6. /\ Len(cq[Client(c)]) \in Nat /\ Len(cq'[Client(c)]) = Len(cq[Client(c)]) + 1
        /\ cq'[Client(c)][Len(cq[Client(c)]) + 1] = z
        /\ \A i \in 1..Len(cq[Client(c)]) : cq'[Client(c)][i] = cq[Client(c)][i]
        /\ \A i \in 1..Len(cq'[Client(c)]) :
              i \in 1..Len(cq[Client(c)]) \/ i = Len(cq[Client(c)]) + 1
        /\ \A d \in End : d # Client(c) => cq'[d] = cq[d]
    BY <1>0, <1>3, <1>5, PushFacts
  <1>7. z.op = ClientOp(client[c].pc)
    BY <1>0, <1>4, <1>5 DEF PostedQueue
  <1>8. PICK a, u, v, q, p \in Nat :
           /\ a = Len(sq[Client(c)]) /\ u = Len(unacked[Client(c)])
           /\ v = Len(unacked'[Client(c)]) /\ q = Len(cq[Client(c)])
           /\ p = Len(cq'[Client(c)]) /\ v = u - 1 /\ p = q + 1 /\ u >= 1
    BY <1>0, <1>4, <1>6
  <1>9. Here(c)' <=> Here(c)
    BY <1>3 DEF Here
  <1>10. WaitQueue(c)'
    <2>1. SUFFICES ASSUME Waits(client[c]) PROVE WaitQueue(c)'
      BY <1>3 DEF WaitQueue
    <2>2. PICK g \in Nat : g = IF Got(c, "SEND") THEN 1 ELSE 0
      OBVIOUS
    <2>3. a + u + g = InFlight(client[c])
      BY <1>0, <1>8, <2>1, <2>2 DEF WaitQueue
    <2>4. InFlight(client[c]) \in {0, 1}
      BY <2>1, WaitsInFlight
    <2>5. a = 0 /\ v = 0 /\ g = 0 /\ InFlight(client[c]) = 1
      <3>1. PICK f \in {0, 1} : f = InFlight(client[c])
        BY <2>4
      <3>2. a + u + g = f /\ v = u - 1 /\ u >= 1
        BY <1>8, <2>3, <3>1
      <3>3. a = 0 /\ v = 0 /\ g = 0 /\ f = 1
        BY <3>2
      <3>4. QED
        BY <3>1, <3>3
    <2>6. ~Got(c, "SEND")
      BY <2>2, <2>5
    <2>7. z.op = "SEND"
      BY <1>7, <2>1 DEF ClientOp, Waits, Tests
    <2>8. q + 1 \in 1..p
      <3>1. p = q + 1
        BY <1>8
      <3>2. QED
        BY <3>1
    <2>9. cq'[Client(c)][q + 1] = z
      BY <1>6, <1>8
    <2>10. Got(c, "SEND")'
      BY <1>8, <2>7, <2>8, <2>9 DEF Got
    <2>11. Got(c, "RECV")' <=> Got(c, "RECV")
      <3>1. ASSUME Got(c, "RECV")' PROVE Got(c, "RECV")
        <4>1. PICK i \in 1..Len(cq'[Client(c)]) : cq'[Client(c)][i].op = "RECV"
          BY <3>1 DEF Got
        <4>2. i \in 1..Len(cq[Client(c)])
          BY <1>6, <2>7, <4>1
        <4>3. QED
          BY <1>6, <4>1, <4>2 DEF Got
      <3>2. ASSUME Got(c, "RECV") PROVE Got(c, "RECV")'
        <4>1. PICK i \in 1..Len(cq[Client(c)]) : cq[Client(c)][i].op = "RECV"
          BY <3>2 DEF Got
        <4>2. i \in 1..p
          <5>1. i \in 1..q /\ p = q + 1
            BY <1>8
          <5>2. QED
            BY <5>1
        <4>3. cq'[Client(c)][i].op = "RECV"
          BY <1>6, <4>1
        <4>4. QED
          BY <1>8, <4>2, <4>3 DEF Got
      <3>3. QED
        BY <3>1, <3>2
    <2>12. \A i \in 1..q : cq[Client(c)][i].op # "SEND"
      BY <1>8, <2>6 DEF Got
    <2>13. /\ \A i, j \in 1..q : cq[Client(c)][i].op = cq[Client(c)][j].op => i = j
           /\ \A i \in 1..q : \/ cq[Client(c)][i].op = "SEND"
                              \/ /\ cq[Client(c)][i].op = "RECV"
                                 /\ cq[Client(c)][i].msg = Expected(client[c].pc)
           /\ ~(client[c].sent /\ client[c].rcvd)
           /\ Here(c) <=> client[c].rcvd \/ Got(c, "RECV")
           /\ client[c].rcvd => ~Got(c, "RECV")
      BY <1>0, <1>8, <2>1 DEF WaitQueue
    <2>14. ASSUME NEW i \in 1..Len(cq'[Client(c)]), NEW j \in 1..Len(cq'[Client(c)]),
                  cq'[Client(c)][i].op = cq'[Client(c)][j].op
           PROVE  i = j
      <3>1. CASE i \in 1..q
        <4>1. cq'[Client(c)][i] = cq[Client(c)][i] /\ cq[Client(c)][i].op # "SEND"
          BY <1>6, <1>8, <2>12, <3>1
        <4>2. j \in 1..q
          BY <1>6, <1>8, <2>7, <2>9, <2>14, <4>1
        <4>3. QED
          BY <1>6, <1>8, <2>13, <2>14, <3>1, <4>1, <4>2
      <3>2. CASE i = q + 1
        <4>1. cq'[Client(c)][j].op = "SEND"
          BY <2>7, <2>9, <2>14, <3>2
        <4>2. j \notin 1..q
          BY <1>6, <1>8, <2>12, <4>1
        <4>3. QED
          BY <1>6, <1>8, <3>2, <4>2
      <3>3. QED
        BY <1>6, <1>8, <3>1, <3>2
    <2>15. \A i \in 1..Len(cq'[Client(c)]) :
              \/ cq'[Client(c)][i].op = "SEND"
              \/ /\ cq'[Client(c)][i].op = "RECV"
                 /\ cq'[Client(c)][i].msg = Expected(client[c].pc)
      BY <1>6, <1>8, <2>7, <2>9, <2>13
    <2>16. Len(sq'[Client(c)]) + Len(unacked'[Client(c)]) + (IF Got(c, "SEND")' THEN 1 ELSE 0)
             = InFlight(client[c])
      <3>1. Len(sq'[Client(c)]) = 0 /\ Len(unacked'[Client(c)]) = 0
        BY <1>3, <1>8, <2>5
      <3>2. QED
        BY <2>5, <2>10, <3>1
    <2>17. client'[c] = client[c]
      BY <1>3
    <2>18. QED
      BY <1>9, <2>11, <2>13, <2>14, <2>15, <2>16, <2>17 DEF WaitQueue
  <1>11. WorkQueue(c)'
    <2>1. SUFFICES ASSUME ~Waits(client[c]) PROVE WorkQueue(c)'
      BY <1>3 DEF WorkQueue
    <2>2. a + u + q = InFlight(client[c])
      BY <1>0, <1>8, <2>1 DEF WorkQueue
    <2>3. a + u + q = a + v + p
      <3>1. v = u - 1 /\ p = q + 1
        BY <1>8
      <3>2. QED
        BY <3>1
    <2>4. Len(sq'[Client(c)]) + Len(unacked'[Client(c)]) + Len(cq'[Client(c)])
             = InFlight(client[c])
      BY <1>3, <1>8, <2>2, <2>3
    <2>5. \A i \in 1..Len(cq'[Client(c)]) : cq'[Client(c)][i].op = ClientOp(client[c].pc)
      BY <1>0, <1>6, <1>7, <2>1 DEF WorkQueue
    <2>6. QED
      BY <1>0, <1>3, <2>1, <2>4, <2>5 DEF WorkQueue
  <1>12. PostedQueue(c)' /\ RecvQueue(c)'
    BY <1>0, <1>3, <1>4, <1>9 DEF PostedQueue, RecvQueue
  <1>13. QED
    BY <1>0, <1>3, <1>4, <1>6, <1>10, <1>11, <1>12, ClientConn

\* The message of the server is acknowledged before any message that answers it.
LEMMA AcknowledgeServerConn ==
    ASSUME FullInv, IndInv', NEW c \in Clients, Acknowledge(Server(c)) PROVE FullInv'
  <1>0. /\ aborted = {} /\ Server(c) \in End /\ ServerQueue(c) /\ SaidAt(c)
        /\ unacked \in [End -> Seq(Request)] /\ cq \in [End -> Seq(Completion)]
        /\ Place(client[c], server[c], Len(sq[Client(c)]), Len(recvs[Server(c)]))
        /\ Token(client[c], server[c], Len(sq[Server(c)]), Len(unacked[Server(c)]))
        /\ Len(sq[Client(c)]) \in Nat /\ Len(sq[Server(c)]) \in Nat
        /\ Len(recvs[Server(c)]) \in Nat /\ server[c] \in ServerState
    BY Known DEF ShapeInv
  <1>1. PICK w : w = Head(unacked[Server(c)])
    OBVIOUS
  <1>2. PICK z : z = [op |-> w.op, msg |-> w.msg, block |-> w.block]
    OBVIOUS
  <1>3. /\ unacked[Server(c)] # <<>> /\ unacked' = [unacked EXCEPT ![Server(c)] = Tail(@)]
        /\ cq' = [cq EXCEPT ![Server(c)] = Append(@, z)]
        /\ UNCHANGED <<client, server, said, recvs, sq, aborted>>
    BY <1>1, <1>2 DEF Acknowledge
  <1>4. /\ Len(unacked[Server(c)]) \in Nat /\ Len(unacked[Server(c)]) >= 1
        /\ Len(unacked'[Server(c)]) = Len(unacked[Server(c)]) - 1
        /\ w = unacked[Server(c)][1] /\ w \in Request /\ 1 \in 1..Len(unacked[Server(c)])
        /\ \A d \in End : d # Server(c) => unacked'[d] = unacked[d]
    BY <1>0, <1>1, <1>3, PopFacts
  <1>5. z \in Completion /\ z.op = w.op
    BY <1>2, <1>4 DEF Request, Completion
  <1>6. /\ Len(cq[Server(c)]) \in Nat /\ Len(cq'[Server(c)]) = Len(cq[Server(c)]) + 1
        /\ cq'[Server(c)][Len(cq[Server(c)]) + 1] = z
        /\ \A d \in End : d # Server(c) => cq'[d] = cq[d]
    BY <1>0, <1>3, <1>5, PushFacts
  <1>7. z.op = "SEND"
    BY <1>0, <1>4, <1>5 DEF ServerQueue
  <1>8. PICK x, y, n, q \in Nat :
           /\ x = Len(sq[Server(c)]) /\ y = Len(unacked[Server(c)]) /\ y >= 1
           /\ n = Len(recvs[Server(c)]) /\ q = Len(cq[Server(c)])
    BY <1>0, <1>4, <1>6
  <1>9. x = 0 /\ y = 1 /\ server[c].pc \in {"responded", "answered"}
    <2>1. x + y <= 1 /\ (server[c].pc \notin {"responded", "answered"} => y = 0) /\ y >= 1
      BY <1>0, <1>8 DEF Token
    <2>2. QED
      BY <2>1
  <1>10. q = Cap(server[c]) - n
    <2>1. 0 + 1 = 1
      OBVIOUS
    <2>2. Len(sq[Server(c)]) + Len(unacked[Server(c)]) = 1
      BY <1>8, <1>9, <2>1
    <2>3. Len(cq[Server(c)]) = Cap(server[c]) - Len(recvs[Server(c)])
      BY <2>2, QuietQueue
    <2>4. QED
      BY <1>8, <2>3
  <1>11. q = 0 /\ n = Cap(server[c])
    <2>1. CASE server[c].pc = "responded"
      <3>1. n = 0
        BY <1>0, <1>8, <2>1 DEF Place
      <3>2. Cap(server[c]) = 0
        BY <2>1 DEF Cap
      <3>3. QED
        BY <1>10, <3>1, <3>2
    <2>2. CASE server[c].pc = "answered"
      <3>1. Cap(server[c]) = Count /\ Count \in Nat
        BY <2>2, Constants DEF Cap
      <3>2. ~(n < Count)
        <4>1. SUFFICES ASSUME n < Count PROVE FALSE
          OBVIOUS
        <4>2. y = 0
          BY <1>0, <1>4, <1>8, <2>2, <4>1, PlaceConfirmed
        <4>3. QED
          BY <1>9, <4>2
      <3>3. q = Count - n
        BY <1>10, <3>1
      <3>4. QED
        BY <3>1, <3>2, <3>3
    <2>3. QED
      BY <1>9, <2>1, <2>2
  <1>12. /\ server'[c] = server[c] /\ sq'[Server(c)] = sq[Server(c)]
         /\ recvs'[Server(c)] = recvs[Server(c)]
         /\ Len(unacked'[Server(c)]) = 0 /\ Len(sq'[Server(c)]) = 0
         /\ Len(cq'[Server(c)]) = 1 /\ cq'[Server(c)][1] = z
    BY <1>3, <1>4, <1>6, <1>8, <1>9, <1>11
  <1>13. ServerQueue(c)'
    <2>1. Own(server'[c], Len(sq'[Server(c)]), Len(unacked'[Server(c)])) = 1
      BY <1>9, <1>12 DEF Own
    <2>2. Len(cq'[Server(c)]) = 1 + Cap(server'[c]) - Len(recvs'[Server(c)])
      <3>1. 1 = 1 + n - n
        OBVIOUS
      <3>2. QED
        BY <1>8, <1>11, <1>12, <3>1
    <2>3. \A i \in 1..Len(cq'[Server(c)]) : i <= 1 /\ cq'[Server(c)][i].op = "SEND"
      BY <1>7, <1>12
    <2>4. /\ \A i \in 1..Len(unacked'[Server(c)]) : FALSE
          /\ \A i \in 1..Len(sq'[Server(c)]) : FALSE
      BY <1>12
    <2>5. \A i \in 1..Len(recvs'[Server(c)]) : recvs'[Server(c)][i].len =
             IF server'[c].pc \in {"request", "bye"} THEN CtlBytes ELSE BlockBytes
      BY <1>0, <1>12 DEF ServerQueue
    <2>6. QED
      BY <2>1, <2>2, <2>3, <2>4, <2>5 DEF ServerQueue
  <1>14. SaidAt(c)' /\ (Here(c)' <=> Here(c))
    BY <1>0, <1>3 DEF SaidAt, Here
  <1>15. Token(client[c], server[c], 0, 0)
    BY <1>0 DEF Token
  <1>16. /\ Place(client[c], server'[c], Len(sq[Client(c)]), Len(recvs'[Server(c)]))
         /\ Token(client[c], server'[c], Len(sq'[Server(c)]), Len(unacked'[Server(c)]))
    BY <1>0, <1>12, <1>15
  <1>17. QED
    BY <1>0, <1>3, <1>4, <1>6, <1>13, <1>14, <1>16, ServerConn

\* What ExecuteSend of message w, which takes receive r, does to the queues of its ends.
Sent(e, p, w, r) ==
    /\ w = sq[e][1] /\ w = Head(sq[e]) /\ w.op = "SEND" /\ 1 \in 1..Len(sq[e])
    /\ r = recvs[p][1] /\ 1 \in 1..Len(recvs[p])
    /\ sq[e] # <<>> /\ sq' = [sq EXCEPT ![e] = Tail(@)]
    /\ w.len <= r.len => unacked' = [unacked EXCEPT ![e] = Append(@, w)]
    /\ Len(recvs[p]) \in Nat /\ Len(recvs[p]) >= 1 /\ Len(recvs'[p]) = Len(recvs[p]) - 1
    /\ \A i \in 1..Len(recvs'[p]) : \E j \in 1..Len(recvs[p]) : recvs'[p][i] = recvs[p][j]
    /\ \A d \in End : d # p => recvs'[d] = recvs[d] /\ cq'[d] = cq[d]
    /\ Len(cq[p]) \in Nat /\ Len(cq'[p]) = Len(cq[p]) + 1
    /\ \A i \in 1..Len(cq[p]) : cq'[p][i] = cq[p][i]
    /\ \A i \in 1..Len(cq'[p]) : i \in 1..Len(cq[p]) \/ i = Len(cq[p]) + 1
    /\ w.len <= r.len => /\ cq'[p][Len(cq[p]) + 1].op = "RECV"
                         /\ cq'[p][Len(cq[p]) + 1].msg = w.msg
    /\ UNCHANGED <<client, server, said, aborted>>

LEMMA SendFacts ==
    ASSUME FullInv, NEW e \in End, NEW p \in End, p = Other(e), ExecuteSend(e)
    PROVE  \E w \in Request, r \in Receive : Sent(e, p, w, r)
  <1>0. /\ sq \in [End -> Seq(Request)] /\ recvs \in [End -> Seq(Receive)]
        /\ cq \in [End -> Seq(Completion)]
    BY DEF FullInv, IndInv, ShapeInv
  <1>1. PICK w, r : w = Head(sq[e]) /\ r = Head(recvs[p])
    OBVIOUS
  <1>2. PICK good \in BOOLEAN : good <=> w.len <= r.len
    BY Zenon
  <1>3. PICK z : z = [op |-> IF good THEN "RECV" ELSE "ERROR", msg |-> w.msg,
                      block |-> r.block]
    OBVIOUS
  <1>4. /\ sq[e] # <<>> /\ w.op = "SEND" /\ recvs[p] # <<>>
        /\ sq' = [sq EXCEPT ![e] = Tail(@)]
        /\ recvs' = [recvs EXCEPT ![p] = Tail(@)]
        /\ unacked' = [unacked EXCEPT ![e] =
                          Append(@, IF good THEN w ELSE [w EXCEPT !.op = "ERROR"])]
        /\ cq' = [cq EXCEPT ![p] = Append(@, z)]
        /\ UNCHANGED <<client, server, said, aborted>>
    BY <1>1, <1>2, <1>3 DEF ExecuteSend
  <1>5. w = sq[e][1] /\ w \in Request /\ 1 \in 1..Len(sq[e])
    BY <1>0, <1>1, <1>4, PopFacts
  <1>6. /\ r = recvs[p][1] /\ r \in Receive /\ 1 \in 1..Len(recvs[p])
        /\ Len(recvs[p]) \in Nat /\ Len(recvs[p]) >= 1 /\ Len(recvs'[p]) = Len(recvs[p]) - 1
        /\ \A i \in 1..Len(recvs'[p]) : \E j \in 1..Len(recvs[p]) : recvs'[p][i] = recvs[p][j]
        /\ \A d \in End : d # p => recvs'[d] = recvs[d]
    BY <1>0, <1>1, <1>4, PopFacts
  <1>7. z \in Completion /\ (good => z.op = "RECV" /\ z.msg = w.msg)
    BY <1>3, <1>5, <1>6 DEF Request, Receive, Completion
  <1>8. /\ Len(cq[p]) \in Nat /\ Len(cq'[p]) = Len(cq[p]) + 1 /\ cq'[p][Len(cq[p]) + 1] = z
        /\ \A i \in 1..Len(cq[p]) : cq'[p][i] = cq[p][i]
        /\ \A i \in 1..Len(cq'[p]) : i \in 1..Len(cq[p]) \/ i = Len(cq[p]) + 1
        /\ \A d \in End : d # p => cq'[d] = cq[d]
    <2>1. cq \in [End -> Seq(Completion)] /\ z \in Completion /\ cq' = [cq EXCEPT ![p] = Append(@, z)]
      BY <1>0, <1>4, <1>7
    <2>2. QED
      BY <2>1, PushFacts
  <1>9. good => unacked' = [unacked EXCEPT ![e] = Append(@, w)]
    BY <1>4
  <1>10. Sent(e, p, w, r)
    BY <1>1, <1>2, <1>4, <1>5, <1>6, <1>7, <1>8, <1>9 DEF Sent
  <1>11. QED
    BY <1>5, <1>6, <1>10

\* The message of the server arrives at the client, which waits for it.
LEMMA SendServerConn ==
    ASSUME FullInv, IndInv', NEW c \in Clients, ExecuteSend(Server(c)) PROVE FullInv'
  <1>0. /\ aborted = {} /\ Client(c) \in End /\ Server(c) \in End /\ ServerQueue(c)
        /\ WaitQueue(c) /\ WorkQueue(c) /\ PostedQueue(c) /\ RecvQueue(c) /\ SaidAt(c)
        /\ sq \in [End -> Seq(Request)] /\ unacked \in [End -> Seq(Request)]
        /\ Place(client[c], server[c], Len(sq[Client(c)]), Len(recvs[Server(c)]))
        /\ Token(client[c], server[c], Len(sq[Server(c)]), Len(unacked[Server(c)]))
        /\ Client(c) # Server(c) /\ Other(Server(c)) = Client(c)
        /\ Len(unacked[Server(c)]) \in Nat
    BY Known, EndFacts DEF ShapeInv
  <1>1. PICK w \in Request, r \in Receive : Sent(Server(c), Client(c), w, r)
    BY <1>0, SendFacts
  <1>2. /\ Len(sq[Server(c)]) \in Nat /\ Len(sq[Server(c)]) >= 1
        /\ Len(sq'[Server(c)]) = Len(sq[Server(c)]) - 1
        /\ \A d \in End : d # Server(c) => sq'[d] = sq[d]
    <2>1. sq[Server(c)] # <<>> /\ sq' = [sq EXCEPT ![Server(c)] = Tail(@)]
      BY <1>1 DEF Sent
    <2>2. QED
      BY <1>0, <2>1, PopFacts
  <1>3. w.len <= r.len
    <2>1. w.len <= CtlBytes /\ r.len >= CtlBytes
      BY <1>0, <1>1 DEF ServerQueue, RecvQueue, Sent
    <2>2. PICK k, m \in Nat : k = w.len /\ m = r.len
      BY <1>1 DEF Request, Receive
    <2>3. k <= CtlBytes /\ m >= CtlBytes
      BY <2>1, <2>2
    <2>4. k <= m
      BY <2>3, Constants
    <2>5. QED
      BY <2>2, <2>4
  <1>4. PICK z, q \in Nat :
           /\ q = Len(cq[Client(c)]) /\ z = q + 1 /\ z = Len(cq'[Client(c)])
           /\ cq'[Client(c)][z].op = "RECV" /\ cq'[Client(c)][z].msg = w.msg
           /\ \A i \in 1..q : cq'[Client(c)][i] = cq[Client(c)][i]
           /\ \A i \in 1..z : i \in 1..q \/ i = z
           /\ \A i \in 1..q : i \in 1..z
           /\ z \in 1..z /\ z \notin 1..q
    <2>1. PICK q \in Nat : q = Len(cq[Client(c)])
      BY <1>1 DEF Sent
    <2>2. PICK z \in Nat : z = q + 1
      OBVIOUS
    <2>3. z \in 1..z /\ z \notin 1..q /\ \A i \in 1..q : i \in 1..z
      BY <2>2
    <2>4. QED
      BY <1>1, <1>3, <2>1, <2>2, <2>3 DEF Sent
  <1>5. unacked' = [unacked EXCEPT ![Server(c)] = Append(@, w)]
    BY <1>1, <1>3 DEF Sent
  <1>6. /\ Len(unacked'[Server(c)]) = Len(unacked[Server(c)]) + 1
        /\ unacked'[Server(c)][Len(unacked[Server(c)]) + 1] = w
        /\ \A d \in End : d # Server(c) => unacked'[d] = unacked[d]
    BY <1>0, <1>5, PushFacts
  <1>7. /\ Len(sq[Server(c)]) = 1 /\ Len(unacked[Server(c)]) = 0
        /\ server[c].pc \in {"responded", "answered"}
    <2>1. PICK x, y \in Nat : x = Len(sq[Server(c)]) /\ y = Len(unacked[Server(c)]) /\ x >= 1
      BY <1>0, <1>2
    <2>2. x + y <= 1 /\ (server[c].pc \notin {"responded", "answered"} => x = 0)
      BY <1>0, <2>1 DEF Token
    <2>3. x = 1 /\ y = 0 /\ x # 0
      <3>1. x + y <= 1 /\ x >= 1
        BY <2>1, <2>2
      <3>2. QED
        BY <3>1
    <2>4. QED
      BY <2>1, <2>2, <2>3
  <1>8. /\ Len(sq'[Server(c)]) = 0 /\ Len(unacked'[Server(c)]) = 1
        /\ unacked'[Server(c)][1] = w
    BY <1>2, <1>6, <1>7
  <1>9. /\ server[c].pc = "responded" => client[c].pc = "exchange"
        /\ server[c].pc = "answered" => client[c].pc = "answer" /\ client[c].round = server[c].round
    <2>1. 1 > 0
      OBVIOUS
    <2>2. QED
      BY <1>0, <1>7, <2>1 DEF Token
  <1>10. Token(client[c], server[c], 0, 1)
    <2>1. 0 + 1 <= 1 /\ ~(0 > 0)
      OBVIOUS
    <2>2. QED
      BY <1>7, <1>9, <2>1 DEF Token
  <1>11. /\ client'[c] = client[c] /\ server'[c] = server[c] /\ said' = said /\ aborted' = {}
         /\ sq'[Client(c)] = sq[Client(c)] /\ unacked'[Client(c)] = unacked[Client(c)]
         /\ recvs'[Server(c)] = recvs[Server(c)] /\ cq'[Server(c)] = cq[Server(c)]
    BY <1>0, <1>1, <1>2, <1>6 DEF Sent
  <1>12. Waits(client[c]) /\ ~Here(c) /\ Here(c)' /\ w.msg = Expected(client[c].pc)
    <2>1. Waits(client[c])
      BY <1>7, <1>9 DEF Waits
    <2>2. ~Here(c)
      BY <1>7 DEF Here, Answered
    <2>3. Answered(client[c], server[c], 0)
      BY <1>7, <1>9 DEF Answered, Unasked
    <2>4. Here(c)'
      BY <1>8, <1>11, <2>3 DEF Here
    <2>5. w.msg = IF server[c].pc = "responded" THEN "RESPONSE_TO_REQUEST_BUFFER"
                  ELSE "RESPONSE_TO_SEND_TEST_REQUEST"
      <3>1. w = sq[Server(c)][1] /\ 1 \in 1..Len(sq[Server(c)])
        BY <1>1 DEF Sent
      <3>2. QED
        BY <1>0, <3>1 DEF ServerQueue
    <2>6. QED
      BY <1>7, <1>9, <2>1, <2>2, <2>4, <2>5 DEF Expected
  <1>13. WaitQueue(c)'
    <2>1. /\ ~(client[c].sent /\ client[c].rcvd)
          /\ \A i, j \in 1..q : cq[Client(c)][i].op = cq[Client(c)][j].op => i = j
          /\ \A i \in 1..q : \/ cq[Client(c)][i].op = "SEND"
                             \/ /\ cq[Client(c)][i].op = "RECV"
                                /\ cq[Client(c)][i].msg = Expected(client[c].pc)
          /\ Here(c) <=> client[c].rcvd \/ Got(c, "RECV")
      BY <1>0, <1>4, <1>12 DEF WaitQueue
    <2>2. /\ Len(sq[Client(c)]) + Len(unacked[Client(c)]) + (IF Got(c, "SEND") THEN 1 ELSE 0)
                = InFlight(client[c])
      BY <1>0, <1>12 DEF WaitQueue
    <2>3. ~client[c].rcvd /\ ~Got(c, "RECV")
      BY <1>12, <2>1
    <2>4. \A i \in 1..q : cq[Client(c)][i].op # "RECV"
      BY <1>4, <2>3 DEF Got
    <2>5. Got(c, "RECV")'
      BY <1>4 DEF Got
    <2>6. Got(c, "SEND")' <=> Got(c, "SEND")
      <3>1. ASSUME Got(c, "SEND")' PROVE Got(c, "SEND")
        <4>1. PICK i \in 1..z : cq'[Client(c)][i].op = "SEND"
          BY <1>4, <3>1 DEF Got
        <4>2. i \in 1..q
          BY <1>4, <4>1
        <4>3. QED
          BY <1>4, <4>1, <4>2 DEF Got
      <3>2. ASSUME Got(c, "SEND") PROVE Got(c, "SEND")'
        <4>1. PICK i \in 1..q : cq[Client(c)][i].op = "SEND"
          BY <1>4, <3>2 DEF Got
        <4>2. QED
          BY <1>4, <4>1 DEF Got
      <3>3. QED
        BY <3>1, <3>2
    <2>7. Len(sq'[Client(c)]) + Len(unacked'[Client(c)]) + (IF Got(c, "SEND")' THEN 1 ELSE 0)
             = InFlight(client[c])
      BY <1>11, <2>2, <2>6
    <2>8. ASSUME NEW i \in 1..z, NEW j \in 1..z, cq'[Client(c)][i].op = cq'[Client(c)][j].op
          PROVE  i = j
      <3>1. CASE i \in 1..q
        <4>1. cq'[Client(c)][i] = cq[Client(c)][i] /\ cq[Client(c)][i].op # "RECV"
          BY <1>4, <2>4, <3>1
        <4>2. j \in 1..q
          BY <1>4, <2>8, <4>1
        <4>3. QED
          BY <1>4, <2>1, <2>8, <3>1, <4>2
      <3>2. CASE i = z
        <4>1. cq'[Client(c)][j].op = "RECV"
          BY <1>4, <2>8, <3>2
        <4>2. j \notin 1..q
          BY <1>4, <2>4, <4>1
        <4>3. QED
          BY <1>4, <3>2, <4>2
      <3>3. QED
        BY <1>4, <3>1, <3>2
    <2>9. \A i \in 1..z : \/ cq'[Client(c)][i].op = "SEND"
                          \/ /\ cq'[Client(c)][i].op = "RECV"
                             /\ cq'[Client(c)][i].msg = Expected(client[c].pc)
      BY <1>4, <1>12, <2>1
    <2>10. z = Len(cq'[Client(c)])
      BY <1>4
    <2>11. QED
      BY <1>11, <1>12, <2>1, <2>3, <2>5, <2>7, <2>8, <2>9, <2>10 DEF WaitQueue
  <1>14. WorkQueue(c)' /\ PostedQueue(c)'
    BY <1>0, <1>11, <1>12 DEF WorkQueue, PostedQueue
  <1>15. RecvQueue(c)'
    <2>1. Len(recvs[Client(c)]) <= 1
      BY <1>0 DEF RecvQueue
    <2>2. Len(recvs'[Client(c)]) = 0
      <3>1. PICK k \in Nat : k = Len(recvs[Client(c)]) /\ k >= 1 /\ Len(recvs'[Client(c)]) = k - 1
        BY <1>1 DEF Sent
      <3>2. k <= 1 /\ k >= 1
        BY <2>1, <3>1
      <3>3. k = 1 /\ 1 - 1 = 0
        BY <3>2
      <3>4. QED
        BY <3>1, <3>3
    <2>3. \A i \in 1..Len(recvs'[Client(c)]) : FALSE
      BY <2>2
    <2>4. client[c].pc \notin {"sync", "synced"}
      BY <1>12 DEF Waits
    <2>5. QED
      BY <1>11, <1>12, <2>2, <2>3, <2>4 DEF RecvQueue
  <1>16. ServerQueue(c)'
    <2>1. /\ Own(server[c], Len(sq[Server(c)]), Len(unacked[Server(c)])) = 0
          /\ Own(server'[c], Len(sq'[Server(c)]), Len(unacked'[Server(c)])) = 0
      BY <1>7, <1>8 DEF Own
    <2>2. /\ \A i \in 1..Len(sq'[Server(c)]) : FALSE
          /\ \A i \in 1..Len(unacked'[Server(c)]) : unacked'[Server(c)][i].op = "SEND"
      <3>1. (\A i \in 1..0 : FALSE) /\ (\A i \in 1..1 : i = 1)
        OBVIOUS
      <3>2. w.op = "SEND"
        BY <1>1 DEF Sent
      <3>3. QED
        BY <1>8, <3>1, <3>2
    <2>3. /\ Len(cq[Server(c)]) = 0 + Cap(server[c]) - Len(recvs[Server(c)])
          /\ \A i \in 1..Len(cq[Server(c)]) :
                IF i <= 0 THEN cq[Server(c)][i].op = "SEND"
                ELSE cq[Server(c)][i].op = "RECV" /\ cq[Server(c)][i].msg = Wanted(server[c].pc)
          /\ \A i \in 1..Len(recvs[Server(c)]) : recvs[Server(c)][i].len =
                IF server[c].pc \in {"request", "bye"} THEN CtlBytes ELSE BlockBytes
      BY <1>0, <2>1 DEF ServerQueue
    <2>4. QED
      BY <1>11, <2>1, <2>2, <2>3 DEF ServerQueue
  <1>17. SaidAt(c)'
    BY <1>0, <1>11 DEF SaidAt
  <1>18. Conn(c)'
    BY <1>0, <1>8, <1>10, <1>11, <1>13, <1>14, <1>15, <1>16, <1>17 DEF Conn
  <1>19. \A e \in End : e \notin {Client(c), Server(c)} =>
              /\ sq'[e] = sq[e] /\ unacked'[e] = unacked[e]
              /\ cq'[e] = cq[e] /\ recvs'[e] = recvs[e]
    BY <1>1, <1>2, <1>6 DEF Sent
  <1>20. UNCHANGED <<client, server, said>>
    BY <1>1 DEF Sent
  <1>21. QED
    BY <1>11, <1>18, <1>19, <1>20, OneConn

\* A message of the client arrives at the server, which waits for it.
LEMMA SendClientConn ==
    ASSUME FullInv, IndInv', NEW c \in Clients, ExecuteSend(Client(c)) PROVE FullInv'
  <1>0. /\ aborted = {} /\ Client(c) \in End /\ Server(c) \in End /\ ServerQueue(c)
        /\ PostedQueue(c) /\ SaidAt(c)
        /\ client[c] \in ClientState /\ server[c] \in ServerState
        /\ Place(client[c], server[c], Len(sq[Client(c)]), Len(recvs[Server(c)]))
        /\ Token(client[c], server[c], Len(sq[Server(c)]), Len(unacked[Server(c)]))
        /\ Client(c) # Server(c) /\ Other(Client(c)) = Server(c)
        /\ Len(sq[Client(c)]) \in Nat /\ Len(recvs[Server(c)]) \in Nat
        /\ Len(sq[Server(c)]) \in Nat /\ Len(unacked[Server(c)]) \in Nat
        /\ Len(cq[Server(c)]) \in Nat
    BY Known, EndFacts
  <1>1. PICK w \in Request, r \in Receive : Sent(Client(c), Server(c), w, r)
    BY <1>0, SendFacts
  <1>2. /\ w = sq[Client(c)][1] /\ 1 \in 1..Len(sq[Client(c)]) /\ w.op = "SEND"
        /\ r = recvs[Server(c)][1] /\ 1 \in 1..Len(recvs[Server(c)])
        /\ w = Head(sq[Client(c)]) /\ sq[Client(c)] # <<>>
        /\ sq' = [sq EXCEPT ![Client(c)] = Tail(@)]
        /\ Len(recvs[Server(c)]) >= 1 /\ Len(recvs'[Server(c)]) = Len(recvs[Server(c)]) - 1
        /\ \A i \in 1..Len(recvs'[Server(c)]) : \E j \in 1..Len(recvs[Server(c)]) :
              recvs'[Server(c)][i] = recvs[Server(c)][j]
        /\ \A d \in End : d # Server(c) => recvs'[d] = recvs[d] /\ cq'[d] = cq[d]
        /\ UNCHANGED <<client, server, said, aborted>>
    BY <1>1 DEF Sent
  <1>3. /\ w.op = ClientOp(client[c].pc) /\ w.msg = ClientMsg(client[c].pc)
        /\ w.len <= ClientLen(client[c].pc)
    BY <1>0, <1>2 DEF PostedQueue
  <1>4. PICK a, n, x, y, q \in Nat :
           /\ a = Len(sq[Client(c)]) /\ n = Len(recvs[Server(c)])
           /\ x = Len(sq[Server(c)]) /\ y = Len(unacked[Server(c)])
           /\ q = Len(cq[Server(c)]) /\ a >= 1 /\ n >= 1
    <2>1. Len(sq[Client(c)]) >= 1 /\ Len(recvs[Server(c)]) >= 1
      BY <1>0, <1>2
    <2>2. QED
      BY <1>0, <2>1
  <1>5. PICK C \in ClientState, S \in ServerState : C = client[c] /\ S = server[c]
    BY <1>0
  <1>6. /\ C.pc \in {"exchange", "answer", "leaving", "data"}
        /\ C.pc # "data" => a = 1
        /\ C.pc = "data" => a <= C.index
    <2>1. /\ C.pc \in Tests \cup {"exchange", "answer", "leaving"}
          /\ C.pc \notin Tests => a = 1
          /\ C.pc \in Tests => a <= C.index
      BY <1>4, <1>5, PostedBound
    <2>2. C.pc \in Tests => C.pc = "data"
      BY <1>2, <1>3, <1>5 DEF ClientOp, TestOp, Tests
    <2>3. QED
      BY <2>1, <2>2 DEF Tests
  <1>7. /\ Place(C, S, a - 1, n - 1) /\ ClientMsg(C.pc) = Wanted(S.pc)
        /\ ClientLen(C.pc) <= IF S.pc \in {"request", "bye"} THEN CtlBytes ELSE BlockBytes
        /\ S.pc \in {"synced", "exchange", "request", "answered", "data", "bye"}
        /\ S.pc = "answered" => x = 0 /\ y = 0 /\ n <= Count
    <2>1. Place(C, S, a, n) /\ Token(C, S, x, y) /\ a >= 1 /\ n >= 1
      BY <1>0, <1>4, <1>5
    <2>2. QED
      BY <1>6, <2>1, PlaceTakes
  <1>8. w.len <= r.len
    <2>1. r.len = IF S.pc \in {"request", "bye"} THEN CtlBytes ELSE BlockBytes
      BY <1>0, <1>2, <1>5 DEF ServerQueue
    <2>2. PICK k, m \in Nat : k = w.len /\ m = r.len
      BY DEF Request, Receive
    <2>3. PICK l \in Nat : l = ClientLen(C.pc)
      BY Constants, Sizes DEF ClientLen
    <2>4. k <= l /\ l <= m
      BY <1>3, <1>5, <1>7, <2>1, <2>2, <2>3
    <2>5. k <= m
      BY <2>4
    <2>6. QED
      BY <2>2, <2>5
  <1>9. unacked' = [unacked EXCEPT ![Client(c)] = Append(@, Head(sq[Client(c)]))]
    BY <1>1, <1>2, <1>8 DEF Sent
  <1>10. /\ Len(cq'[Server(c)]) = q + 1
         /\ cq'[Server(c)][q + 1].op = "RECV" /\ cq'[Server(c)][q + 1].msg = Wanted(S.pc)
         /\ \A i \in 1..q : cq'[Server(c)][i] = cq[Server(c)][i]
         /\ \A i \in 1..Len(cq'[Server(c)]) : i \in 1..q \/ i = q + 1
    BY <1>1, <1>3, <1>4, <1>5, <1>7, <1>8 DEF Sent
  <1>11. /\ client'[c] = C /\ server'[c] = S /\ client'[c] = client[c] /\ aborted' = {}
         /\ cq'[Client(c)] = cq[Client(c)] /\ recvs'[Client(c)] = recvs[Client(c)]
    BY <1>0, <1>2, <1>5
  <1>12. \A d \in End : d # Client(c) => sq'[d] = sq[d]
    <2>1. sq \in [End -> Seq(Request)]
      BY DEF FullInv, IndInv, ShapeInv
    <2>2. QED
      BY <1>0, <1>2, <2>1, PopFacts
  <1>13. Here(c)' <=> Here(c)
    BY <1>0, <1>5, <1>11, <1>12 DEF Here
  <1>14. /\ WaitQueue(c)' /\ WorkQueue(c)' /\ PostedQueue(c)' /\ RecvQueue(c)'
         /\ Len(sq'[Client(c)]) = Len(sq[Client(c)]) - 1
         /\ \A d \in End : d # Client(c) => sq'[d] = sq[d] /\ unacked'[d] = unacked[d]
    BY <1>2, <1>9, <1>11, <1>13, ClientExecutes
  <1>15. /\ sq'[Server(c)] = sq[Server(c)] /\ unacked'[Server(c)] = unacked[Server(c)]
         /\ Len(sq'[Server(c)]) = x /\ Len(unacked'[Server(c)]) = y
         /\ Len(sq'[Client(c)]) = a - 1 /\ Len(recvs'[Server(c)]) = n - 1
    BY <1>0, <1>2, <1>4, <1>14
  <1>16. ServerQueue(c)'
    <2>1. PICK o \in {0, 1} : o = Own(S, x, y)
      BY DEF Own
    <2>2. PICK k \in Nat : k = Cap(S)
      <3>1. S.index \in Nat /\ S.index <= Count /\ Count \in Nat
        BY Fields, Constants
      <3>2. Count - S.index \in Nat
        BY <3>1
      <3>3. QED
        BY <3>1, <3>2 DEF Cap
    <2>3. /\ q = o + k - n
          /\ \A i \in 1..q : IF i <= o THEN cq[Server(c)][i].op = "SEND"
                             ELSE /\ cq[Server(c)][i].op = "RECV"
                                  /\ cq[Server(c)][i].msg = Wanted(S.pc)
          /\ \A i \in 1..n : recvs[Server(c)][i].len =
                IF S.pc \in {"request", "bye"} THEN CtlBytes ELSE BlockBytes
      BY <1>0, <1>4, <1>5, <2>1, <2>2 DEF ServerQueue
    <2>4. o <= q
      <3>1. CASE S.pc = "answered"
        <4>1. k = Count /\ n <= Count
          BY <1>7, <2>2, <3>1 DEF Cap
        <4>2. n <= k
          BY <4>1
        <4>3. QED
          BY <2>3, <4>2
      <3>2. CASE S.pc # "answered"
        <4>1. o = 0
          BY <1>7, <2>1, <3>2 DEF Own
        <4>2. QED
          BY <4>1
      <3>3. QED
        BY <3>1, <3>2
    <2>5. q + 1 = o + k - (n - 1) /\ ~(q + 1 <= o)
      <3>1. q = o + k - n
        BY <2>3
      <3>2. QED
        BY <2>4, <3>1
    <2>6. \A i \in 1..Len(cq'[Server(c)]) :
             IF i <= o THEN cq'[Server(c)][i].op = "SEND"
             ELSE cq'[Server(c)][i].op = "RECV" /\ cq'[Server(c)][i].msg = Wanted(S.pc)
      <3>1. SUFFICES ASSUME NEW i \in 1..Len(cq'[Server(c)])
                     PROVE  IF i <= o THEN cq'[Server(c)][i].op = "SEND"
                            ELSE /\ cq'[Server(c)][i].op = "RECV"
                                 /\ cq'[Server(c)][i].msg = Wanted(S.pc)
        OBVIOUS
      <3>2. CASE i \in 1..q
        BY <1>10, <2>3, <3>2
      <3>3. CASE i = q + 1
        BY <1>10, <2>5, <3>3
      <3>4. QED
        BY <1>10, <3>2, <3>3
    <2>7. \A i \in 1..Len(recvs'[Server(c)]) : recvs'[Server(c)][i].len =
             IF S.pc \in {"request", "bye"} THEN CtlBytes ELSE BlockBytes
      BY <1>2, <1>4, <2>3
    <2>8. /\ \A i \in 1..Len(unacked[Server(c)]) : unacked[Server(c)][i].op = "SEND"
          /\ \A i \in 1..Len(sq[Server(c)]) :
                /\ sq[Server(c)][i].op = "SEND" /\ sq[Server(c)][i].len <= CtlBytes
                /\ sq[Server(c)][i].msg = IF S.pc = "responded"
                                          THEN "RESPONSE_TO_REQUEST_BUFFER"
                                          ELSE "RESPONSE_TO_SEND_TEST_REQUEST"
      BY <1>0, <1>5 DEF ServerQueue
    <2>9. Own(server'[c], Len(sq'[Server(c)]), Len(unacked'[Server(c)])) = o
      BY <1>11, <1>15, <2>1
    <2>10. Len(cq'[Server(c)]) = o + Cap(server'[c]) - Len(recvs'[Server(c)])
      BY <1>10, <1>11, <1>15, <2>2, <2>5
    <2>11. /\ server'[c] = S /\ sq'[Server(c)] = sq[Server(c)]
           /\ unacked'[Server(c)] = unacked[Server(c)]
      BY <1>11, <1>15
    <2>12. \A i \in 1..Len(cq'[Server(c)]) :
              IF i <= Own(server'[c], Len(sq'[Server(c)]), Len(unacked'[Server(c)]))
              THEN cq'[Server(c)][i].op = "SEND"
              ELSE /\ cq'[Server(c)][i].op = "RECV"
                   /\ cq'[Server(c)][i].msg = Wanted(server'[c].pc)
      BY <2>6, <2>9, <2>11, Zenon
    <2>13. /\ Len(cq'[Server(c)]) =
                 Own(server'[c], Len(sq'[Server(c)]), Len(unacked'[Server(c)]))
                    + Cap(server'[c]) - Len(recvs'[Server(c)])
           /\ \A i \in 1..Len(recvs'[Server(c)]) : recvs'[Server(c)][i].len =
                 IF server'[c].pc \in {"request", "bye"} THEN CtlBytes ELSE BlockBytes
      BY <2>7, <2>9, <2>10, <2>11, Zenon
    <2>14. /\ \A i \in 1..Len(unacked'[Server(c)]) : unacked'[Server(c)][i].op = "SEND"
           /\ \A i \in 1..Len(sq'[Server(c)]) :
                 /\ sq'[Server(c)][i].op = "SEND" /\ sq'[Server(c)][i].len <= CtlBytes
                 /\ sq'[Server(c)][i].msg = IF server'[c].pc = "responded"
                                           THEN "RESPONSE_TO_REQUEST_BUFFER"
                                           ELSE "RESPONSE_TO_SEND_TEST_REQUEST"
      BY <2>8, <2>11, Zenon
    <2>15. QED
      BY <2>12, <2>13, <2>14, Zenon DEF ServerQueue
  <1>17. SaidAt(c)'
    BY <1>0, <1>2 DEF SaidAt
  <1>18. /\ Place(client'[c], server'[c], Len(sq'[Client(c)]), Len(recvs'[Server(c)]))
         /\ Token(client'[c], server'[c], Len(sq'[Server(c)]), Len(unacked'[Server(c)]))
    BY <1>0, <1>4, <1>5, <1>7, <1>11, <1>15
  <1>19. Conn(c)'
    BY <1>14, <1>16, <1>17, <1>18 DEF Conn
  <1>20. \A e \in End : e \notin {Client(c), Server(c)} =>
              /\ sq'[e] = sq[e] /\ unacked'[e] = unacked[e]
              /\ cq'[e] = cq[e] /\ recvs'[e] = recvs[e]
    BY <1>2, <1>14
  <1>21. UNCHANGED <<client, server, said>>
    BY <1>2
  <1>22. QED
    BY <1>11, <1>19, <1>20, <1>21, OneConn

-----------------------------------------------------------------------------
(* What the connections say *)

LEMMA InitFull == Init => FullInv
  <1> SUFFICES ASSUME Init PROVE FullInv
    OBVIOUS
  <1>1. IndInv /\ aborted = {}
    BY InitInv DEF Init
  <1>2. ASSUME NEW c \in Clients PROVE Conn(c)
    <2>1. /\ client[c].pc = "start" /\ client[c].round = 1
          /\ server[c].pc = "start" /\ server[c].round = 1
      BY DEF Init
    <2>2. ~client[c].rcvd /\ ~client[c].sent /\ ~said[Server(c)]
      BY EndFacts, Zenon DEF Init
    <2>3. ASSUME NEW e \in {Client(c), Server(c)}
          PROVE  Len(sq[e]) = 0 /\ Len(unacked[e]) = 0 /\ Len(cq[e]) = 0 /\ Len(recvs[e]) = 0
      BY EndFacts DEF Init
    <2>4. /\ Len(sq[Client(c)]) = 0 /\ Len(unacked[Client(c)]) = 0
          /\ Len(cq[Client(c)]) = 0 /\ Len(recvs[Client(c)]) = 0
          /\ Len(sq[Server(c)]) = 0 /\ Len(unacked[Server(c)]) = 0
          /\ Len(cq[Server(c)]) = 0 /\ Len(recvs[Server(c)]) = 0
      BY <2>3
    <2>5. \A i \in 1..0 : FALSE
      OBVIOUS
    <2>6. Place(client[c], server[c], 0, 0) /\ Token(client[c], server[c], 0, 0)
      <3>1. 0 + 0 <= 1 /\ ~(0 > 0)
        OBVIOUS
      <3>2. QED
        BY <2>1, <3>1 DEF Place, Token
    <2>7. ServerQueue(c)
      <3>1. Cap(server[c]) = 0 /\ Own(server[c], 0, 0) = 0 /\ 0 = 0 + 0 - 0
        BY <2>1 DEF Cap, Own
      <3>2. QED
        BY <2>4, <2>5, <3>1 DEF ServerQueue
    <2>8. ~Waits(client[c]) /\ InFlight(client[c]) = 0 /\ client[c].pc \notin Tests
      BY <2>1 DEF Waits, InFlight, Tests
    <2>9. 0 + 0 + 0 = 0
      OBVIOUS
    <2>10. WaitQueue(c) /\ WorkQueue(c) /\ PostedQueue(c)
      BY <2>2, <2>4, <2>5, <2>8, <2>9 DEF WaitQueue, WorkQueue, PostedQueue
    <2>11. RecvQueue(c)
      BY <2>1, <2>4, <2>5, <2>8 DEF RecvQueue
    <2>12. SaidAt(c)
      BY <2>1, <2>2 DEF SaidAt
    <2>13. QED
      BY <2>4, <2>6, <2>7, <2>10, <2>11, <2>12 DEF Conn
  <1>3. QED
    BY <1>1, <1>2 DEF FullInv

LEMMA StepFull == ASSUME SleepCovers, FullInv, [Next]_vars PROVE FullInv'
  <1>0. IndInv'
    BY StepInv DEF FullInv
  <1>1. ASSUME NEW c \in Clients, ClientStep(c) PROVE FullInv'
    <2>1. CASE \E pc \in {"exchange", "answer"} : ClientAwait(c, pc)
      BY <1>0, <2>1, ClientAwaitConn
    <2>2. CASE \E test \in Tests : ClientPost(c, test) \/ ClientPoll(c, test)
      BY <1>0, <2>2, ClientPostConn, ClientPollConn
    <2>3. QED
      BY <1>0, <1>1, <2>1, <2>2, ClientRegisterConn, ClientSyncSendConn, ClientSyncRecvConn,
         ClientRequestConn, ClientByeConn, ClientExitConn DEF ClientStep
  <1>2. ASSUME NEW c \in Clients, ServerStep(c) PROVE FullInv'
    <2>1. CASE \E pc \in {"responded", "answered"} : ServerSent(c, pc)
      BY <1>0, <2>1, ServerSentConn
    <2>2. CASE \E pc \in {"round", "final"} : ServerPostControl(c, pc)
      BY <1>0, <2>2, ServerPostControlConn
    <2>3. QED
      BY <1>0, <1>2, <2>1, <2>2, ServerLockConn, ServerRegisterConn, ServerSyncConn,
         ServerExchangeConn, ServerRequestConn, ServerDataConn, ServerByeConn DEF ServerStep
  <1>3. ASSUME NEW e \in End, Execute(e) \/ Acknowledge(e) PROVE FullInv'
    <2>1. PICK c \in Clients : e = Client(c) \/ e = Server(c)
      BY EndFacts
    <2>2. CASE ExecuteSend(e)
      BY <1>0, <2>1, <2>2, SendClientConn, SendServerConn
    <2>3. CASE Acknowledge(e)
      BY <1>0, <2>1, <2>3, AcknowledgeClientConn, AcknowledgeServerConn
    <2>4. QED
      BY <1>0, <1>3, <2>2, <2>3, ExecuteRdmaConn DEF Execute
  <1>4. CASE UNCHANGED vars
    <2>1. UNCHANGED <<client, server, said, recvs, sq, unacked, cq, aborted>>
      BY <1>4 DEF vars, nic
    <2>2. ASSUME NEW c \in Clients PROVE Conn(c)'
      <3>1. Conn(c)
        BY DEF FullInv
      <3>2. QED
        BY <2>1, <3>1, ConnSame
    <2>3. aborted' = {}
      BY <2>1 DEF FullInv
    <2>4. QED
      BY <1>0, <2>2, <2>3 DEF FullInv
  <1>5. QED
    BY <1>1, <1>2, <1>3, <1>4 DEF Next

\* Where the sleep covers the acknowledgement, every connection is in one of its places.
THEOREM Connected == SleepCovers => (Spec => []FullInv)
  <1>1. SUFFICES ASSUME SleepCovers PROVE Spec => []FullInv
    OBVIOUS
  <1>2. FullInv /\ [Next]_vars => FullInv'
    BY <1>1, StepFull
  <1>3. QED
    BY InitFull, <1>2, PTL DEF Spec

\* No CHECK of the client or of the server fails in any interleaving of the processes
\* and the NIC, for any number of clients, operations and sizes, provided the sleep of
\* 1 ms before the first SEND of raw data is longer than an acknowledgement takes
\* (lat_bw_benchmark.cc:79-94, 120-136, 434-439, 459-463, 496-512).
THEOREM ChecksSafe == SleepCovers => (Spec => []ChecksHold)
  <1>1. SUFFICES ASSUME SleepCovers PROVE Spec => []ChecksHold
    OBVIOUS
  <1>2. FullInv => ChecksHold
    BY DEF FullInv, ChecksHold
  <1>3. QED
    BY <1>1, <1>2, Connected, PTL

\* A thread of the server is done only after the last WRITE and READ of its client
\* (lat_bw_benchmark.cc:548-561).
THEOREM OutlivesSafe == SleepCovers => (Spec => []ServerOutlivesClient)
  <1>1. SUFFICES ASSUME SleepCovers PROVE Spec => []ServerOutlivesClient
    OBVIOUS
  <1>2. ASSUME FullInv, NEW c \in Clients, server[c].pc = "done",
               NEW i \in DOMAIN sq[Client(c)]
        PROVE  sq[Client(c)][i].op = "SEND"
    <2>0. /\ Place(client[c], server[c], Len(sq[Client(c)]), Len(recvs[Server(c)]))
          /\ PostedQueue(c) /\ sq[Client(c)] \in Seq(Request)
      BY <1>2, Known, ConnTypes
    <2>1. client[c].pc \in {"leaving", "exited"}
      BY <1>2, <2>0 DEF Place, Left
    <2>2. i \in 1..Len(sq[Client(c)])
      BY <1>2, <2>0
    <2>3. QED
      BY <2>0, <2>1, <2>2 DEF PostedQueue, ClientOp, Tests
  <1>3. FullInv => ServerOutlivesClient
    BY <1>2 DEF ServerOutlivesClient
  <1>4. QED
    BY <1>1, <1>3, Connected, PTL

-----------------------------------------------------------------------------
(* The queues are long enough *)

\* As many places of a queue as it has from a on; and one place at most.
LEMMA FewPlaces ==
    ASSUME NEW a \in Nat, NEW q \in Nat, a <= q, NEW I \in SUBSET ((a + 1)..q)
    PROVE  Cardinality(I) \in Nat /\ Cardinality(I) <= q - a
  <1>1. /\ IsFiniteSet((a + 1)..q)
        /\ Cardinality((a + 1)..q) = IF a + 1 > q THEN 0 ELSE q - (a + 1) + 1
    BY FS_Interval
  <1>2. Cardinality((a + 1)..q) = q - a
    BY <1>1
  <1>3. IsFiniteSet(I) /\ Cardinality(I) <= Cardinality((a + 1)..q)
    BY <1>1, FS_Subset
  <1>4. QED
    BY <1>2, <1>3, FS_CardinalityType

LEMMA OnePlace ==
    ASSUME NEW I, \A i, j \in I : i = j
    PROVE  /\ Cardinality(I) \in Nat /\ Cardinality(I) <= 1
           /\ I = {} => Cardinality(I) = 0
  <1>1. CASE I = {}
    BY <1>1, FS_EmptySet
  <1>2. CASE I # {}
    <2>1. PICK x : I = {x}
      BY <1>2
    <2>2. Cardinality({x}) = 1
      BY FS_Singleton
    <2>3. QED
      BY <1>2, <2>1, <2>2
  <1>3. QED
    BY <1>1, <1>2

LEMMA ClientFits ==
    ASSUME FullInv, NEW c \in Clients
    PROVE  /\ Len(sq[Client(c)]) + Len(unacked[Client(c)]) + Cardinality(Completed(Client(c)))
                 <= MaxWr
           /\ Len(recvs[Client(c)]) + Cardinality(Arrived(Client(c))) <= MaxWr
  <1>0. /\ WaitQueue(c) /\ WorkQueue(c) /\ RecvQueue(c) /\ client[c] \in ClientState
        /\ cq[Client(c)] \in Seq(Completion)
        /\ Len(sq[Client(c)]) \in Nat /\ Len(unacked[Client(c)]) \in Nat
        /\ Len(recvs[Client(c)]) \in Nat /\ Len(cq[Client(c)]) \in Nat
    BY Known, ConnTypes
  <1>1. /\ Completed(Client(c)) =
              {i \in 1..Len(cq[Client(c)]) : cq[Client(c)][i].op # "RECV"}
        /\ Arrived(Client(c)) = {i \in 1..Len(cq[Client(c)]) : cq[Client(c)][i].op = "RECV"}
    BY <1>0 DEF Completed, Arrived
  <1>2. PICK a, u, n, q \in Nat :
           /\ a = Len(sq[Client(c)]) /\ u = Len(unacked[Client(c)])
           /\ n = Len(recvs[Client(c)]) /\ q = Len(cq[Client(c)])
    BY <1>0
  <1>3. PICK I, J : I = Completed(Client(c)) /\ J = Arrived(Client(c))
    OBVIOUS
  <1>4. n <= 1
    BY <1>0, <1>2 DEF RecvQueue
  <1>5. MaxWr \in Nat /\ Count \in Nat /\ Count > 1 /\ Count <= MaxWr
    BY Constants
  <1>6. CASE Waits(client[c])
    <2>1. PICK g \in Nat : g = IF Got(c, "SEND") THEN 1 ELSE 0
      OBVIOUS
    <2>2. a + u + g = InFlight(client[c]) /\ InFlight(client[c]) \in {0, 1}
      BY <1>0, <1>2, <1>6, <2>1, WaitsInFlight DEF WaitQueue
    <2>3. /\ \A i, j \in 1..q : cq[Client(c)][i].op = cq[Client(c)][j].op => i = j
          /\ \A i \in 1..q : cq[Client(c)][i].op \in {"SEND", "RECV"}
      BY <1>0, <1>2, <1>6 DEF WaitQueue
    <2>4. (\A i, j \in I : i = j) /\ (\A i, j \in J : i = j)
      <3>1. \A i \in I : i \in 1..q /\ cq[Client(c)][i].op # "RECV"
        BY <1>1, <1>2, <1>3
      <3>2. \A i \in J : i \in 1..q /\ cq[Client(c)][i].op = "RECV"
        BY <1>1, <1>2, <1>3
      <3>3. \A i \in I : cq[Client(c)][i].op = "SEND"
        BY <2>3, <3>1, Zenon
      <3>4. \A i, j \in I : i = j
        BY <2>3, <3>1, <3>3, Zenon
      <3>5. \A i, j \in J : i = j
        BY <2>3, <3>2, Zenon
      <3>6. QED
        BY <3>4, <3>5
    <2>5. /\ Cardinality(I) \in Nat /\ Cardinality(I) <= 1 /\ (I = {} => Cardinality(I) = 0)
          /\ Cardinality(J) \in Nat /\ Cardinality(J) <= 1
      BY <2>4, OnePlace
    <2>6. a + u <= 1
      <3>1. a + u + g <= 1
        BY <2>2
      <3>2. QED
        BY <3>1
    <2>7. a + u + Cardinality(I) <= MaxWr /\ n + Cardinality(J) <= MaxWr
      BY <1>4, <1>5, <2>5, <2>6
    <2>8. QED
      BY <1>2, <1>3, <2>7
  <1>7. CASE ~Waits(client[c])
    <2>1. a + u + q = InFlight(client[c])
      BY <1>0, <1>2, <1>7 DEF WorkQueue
    <2>2. J = {}
      <3>1. \A i \in 1..q : cq[Client(c)][i].op = ClientOp(client[c].pc)
        BY <1>0, <1>2, <1>7 DEF WorkQueue
      <3>2. ClientOp(client[c].pc) # "RECV"
        BY DEF ClientOp, TestOp, Tests
      <3>3. QED
        BY <1>1, <1>2, <1>3, <3>1, <3>2
    <2>3. Cardinality(J) = 0
      BY <2>2, FS_EmptySet
    <2>4. Cardinality(I) \in Nat /\ Cardinality(I) <= q
      <3>1. I \in SUBSET ((0 + 1)..q) /\ 0 <= q /\ q - 0 = q
        BY <1>1, <1>2, <1>3
      <3>2. QED
        BY <3>1, FewPlaces
    <2>5. a + u + q <= Count
      <3>1. PICK i, k \in Nat : i = client[c].index /\ k = client[c].confirm /\ i <= Count
        BY <1>0, Fields
      <3>2. InFlight(client[c]) \in {i - k, 1, 0}
        BY <1>7, <3>1 DEF InFlight, Waits
      <3>3. i - k <= Count /\ 1 <= Count /\ 0 <= Count
        BY <1>5, <3>1
      <3>4. QED
        BY <2>1, <3>2, <3>3
    <2>6. a + u + Cardinality(I) <= MaxWr
      BY <1>5, <2>4, <2>5
    <2>7. n + Cardinality(J) <= MaxWr
      BY <1>4, <1>5, <2>3
    <2>8. QED
      BY <1>2, <1>3, <2>6, <2>7
  <1>8. QED
    BY <1>6, <1>7

\* The receives of a thread do not exceed what it waits for.
LEMMA ServerBound ==
    ASSUME FullInv, NEW c \in Clients
    PROVE  /\ Cap(server[c]) \in Nat /\ Cap(server[c]) <= Count
           /\ Len(recvs[Server(c)]) <= Cap(server[c])
  <1>0. /\ ServerQueue(c) /\ server[c] \in ServerState /\ client[c] \in ClientState
        /\ Place(client[c], server[c], Len(sq[Client(c)]), Len(recvs[Server(c)]))
        /\ Len(sq[Server(c)]) \in Nat /\ Len(unacked[Server(c)]) \in Nat
        /\ Len(recvs[Server(c)]) \in Nat /\ Len(cq[Server(c)]) \in Nat
        /\ Len(sq[Client(c)]) \in Nat
    BY Known
  <1>1. PICK i \in Nat : i = server[c].index /\ i <= Count
    BY <1>0, Fields
  <1>2. Count \in Nat /\ Count > 1
    BY Constants
  <1>3. Cap(server[c]) \in Nat /\ Cap(server[c]) <= Count
    <2>1. Cap(server[c]) \in {1, Count, Count - i, 0}
      BY <1>1 DEF Cap
    <2>2. \A k \in {1, Count, Count - i, 0} : k \in Nat /\ k <= Count
      BY <1>1, <1>2
    <2>3. QED
      BY <2>1, <2>2
  <1>4. PICK n, q, k, x, y \in Nat :
           /\ n = Len(recvs[Server(c)]) /\ q = Len(cq[Server(c)]) /\ k = Cap(server[c])
           /\ x = Len(sq[Server(c)]) /\ y = Len(unacked[Server(c)])
    BY <1>0, <1>3
  <1>5. n <= k
    <2>1. CASE Own(server[c], x, y) = 0
      <3>1. q = 0 + k - n
        BY <1>0, <1>4, <2>1 DEF ServerQueue
      <3>2. QED
        BY <3>1
    <2>2. CASE server[c].pc = "responded"
      <3>1. n = 0
        BY <1>0, <1>4, <2>2 DEF Place
      <3>2. QED
        BY <3>1
    <2>3. CASE server[c].pc = "answered"
      <3>1. k = Count
        BY <1>4, <2>3 DEF Cap
      <3>2. PICK a, l \in Nat : a = Len(sq[Client(c)]) /\ l = client[c].index /\ l <= Count
        BY <1>0, Fields
      <3>3. n = Count \/ n = 0 \/ (n = Count - l + a /\ client[c].pc = "data")
        BY <1>0, <1>4, <2>3, <3>2 DEF Place
      <3>4. client[c].pc = "data" => a <= l
        <4>1. CASE a = 0
          BY <3>2, <4>1
        <4>2. CASE a # 0
          <5>1. a >= 1
            BY <4>2
          <5>2. client[c].pc \in Tests => a <= l
            BY <3>2, <5>1, PostedBound
          <5>3. QED
            BY <5>2 DEF Tests
        <4>3. QED
          BY <4>1, <4>2
      <3>5. CASE n = Count \/ n = 0
        BY <1>2, <3>1, <3>5
      <3>6. CASE n = Count - l + a /\ client[c].pc = "data"
        <4>1. n = Count - l + a /\ a <= l
          BY <3>4, <3>6
        <4>2. n <= Count
          BY <1>2, <4>1
        <4>3. QED
          BY <3>1, <4>2
      <3>7. QED
        BY <3>3, <3>5, <3>6
    <2>4. QED
      BY <2>1, <2>2, <2>3 DEF Own
  <1>6. QED
    BY <1>3, <1>4, <1>5

LEMMA ServerFits ==
    ASSUME FullInv, NEW c \in Clients
    PROVE  /\ Len(sq[Server(c)]) + Len(unacked[Server(c)]) + Cardinality(Completed(Server(c)))
                 <= MaxWr
           /\ Len(recvs[Server(c)]) + Cardinality(Arrived(Server(c))) <= MaxWr
  <1>0. /\ ServerQueue(c) /\ cq[Server(c)] \in Seq(Completion)
        /\ Token(client[c], server[c], Len(sq[Server(c)]), Len(unacked[Server(c)]))
        /\ Len(sq[Server(c)]) \in Nat /\ Len(unacked[Server(c)]) \in Nat
        /\ Len(recvs[Server(c)]) \in Nat /\ Len(cq[Server(c)]) \in Nat
    BY Known, ConnTypes
  <1>1. /\ Completed(Server(c)) =
              {i \in 1..Len(cq[Server(c)]) : cq[Server(c)][i].op # "RECV"}
        /\ Arrived(Server(c)) = {i \in 1..Len(cq[Server(c)]) : cq[Server(c)][i].op = "RECV"}
    BY <1>0 DEF Completed, Arrived
  <1>2. PICK I, J : I = Completed(Server(c)) /\ J = Arrived(Server(c))
    OBVIOUS
  <1>3. PICK x, y, n, q, k \in Nat :
           /\ x = Len(sq[Server(c)]) /\ y = Len(unacked[Server(c)])
           /\ n = Len(recvs[Server(c)]) /\ q = Len(cq[Server(c)])
           /\ k = Cap(server[c]) /\ k <= Count /\ n <= k
    BY <1>0, ServerBound
  <1>4. PICK o \in {0, 1} : o = Own(server[c], x, y)
    BY DEF Own
  <1>5. /\ q = o + k - n
        /\ \A i \in 1..q : IF i <= o THEN cq[Server(c)][i].op = "SEND"
                           ELSE cq[Server(c)][i].op = "RECV"
    BY <1>0, <1>3, <1>4 DEF ServerQueue
  <1>6. MaxWr \in Nat /\ Count \in Nat /\ Count > 1 /\ Count <= MaxWr
    BY Constants
  <1>7. o <= q /\ q - o = k - n
    <2>1. q = o + k - n /\ n <= k
      BY <1>3, <1>5
    <2>2. QED
      BY <2>1
  <1>8. Cardinality(J) \in Nat /\ Cardinality(J) <= q - o
    <2>1. ASSUME NEW i \in J PROVE i \in (o + 1)..q
      <3>1. i \in 1..q /\ cq[Server(c)][i].op = "RECV"
        BY <1>1, <1>2, <1>3, <2>1
      <3>2. ~(i <= o)
        BY <1>5, <3>1
      <3>3. QED
        BY <3>1, <3>2
    <2>2. J \in SUBSET ((o + 1)..q) /\ o \in Nat
      BY <2>1
    <2>3. QED
      BY <1>7, <2>2, FewPlaces
  <1>9. Cardinality(I) \in Nat /\ Cardinality(I) <= 1
    <2>1. ASSUME NEW i \in I PROVE i = 1
      <3>1. i \in 1..q /\ cq[Server(c)][i].op # "RECV"
        BY <1>1, <1>2, <1>3, <2>1
      <3>2. i <= o
        BY <1>5, <3>1
      <3>3. QED
        BY <3>1, <3>2
    <2>2. QED
      BY <2>1, OnePlace
  <1>10. x + y <= 1
    BY <1>0, <1>3 DEF Token
  <1>11. x + y + Cardinality(I) <= MaxWr
    BY <1>6, <1>9, <1>10
  <1>12. n + Cardinality(J) <= MaxWr
    <2>1. n + Cardinality(J) <= k
      BY <1>7, <1>8
    <2>2. QED
      BY <1>3, <1>6, <1>8, <2>1
  <1>13. QED
    BY <1>2, <1>3, <1>11, <1>12

\* No queue of a queue pair overflows, and no completion queue: a full bandwidth test
\* and the receives of a round fit in for any Count up to max_send_wr
\* (lat_bw_benchmark.cc:212, 484, 548).
THEOREM QueuesSafe == SleepCovers => (Spec => []QueuesFit)
  <1>1. SUFFICES ASSUME SleepCovers PROVE Spec => []QueuesFit
    OBVIOUS
  <1>2. ASSUME FullInv, NEW e \in End
        PROVE  /\ Len(sq[e]) + Len(unacked[e]) + Cardinality(Completed(e)) <= MaxWr
               /\ Len(recvs[e]) + Cardinality(Arrived(e)) <= MaxWr
    <2>1. PICK c \in Clients : e = Client(c) \/ e = Server(c)
      BY EndFacts
    <2>2. QED
      BY <1>2, <2>1, ClientFits, ServerFits
  <1>3. FullInv => QueuesFit
    BY <1>2 DEF QueuesFit
  <1>4. QED
    BY <1>1, <1>3, Connected, PTL

-----------------------------------------------------------------------------
(* The blocks of the buffers *)

\* Consecutive blocks of the ring are different, as long as there are not more than Count.
LEMMA Multiple ==
    ASSUME NEW n \in Nat, n > 0, NEW d \in Int, NEW p \in Int, d = n * p, d < n, -n < d
    PROVE  d = 0
  <1>1. CASE p >= 1
    <2>1. n * p >= n
      BY <1>1
    <2>2. QED
      BY <2>1
  <1>2. CASE p <= -1
    <2>1. n * p <= -n
      BY <1>2
    <2>2. QED
      BY <2>1
  <1>3. CASE p = 0
    BY <1>3
  <1>4. QED
    BY <1>1, <1>2, <1>3

LEMMA RingBlocks ==
    ASSUME NEW n \in Nat, n > 0, NEW b \in Int, NEW i \in 1..n, NEW j \in 1..n,
           (b + i) % n = (b + j) % n
    PROVE  i = j
  <1>1. PICK x, y \in Int : x = b + i /\ y = b + j
    OBVIOUS
  <1>2. \A z \in Int : z % n \in Int /\ z \div n \in Int /\ z = n * (z \div n) + (z % n)
    OBVIOUS
  <1>3. PICK p, q, r \in Int : p = x \div n /\ q = y \div n /\ r = x % n /\ r = y % n
    BY <1>1, <1>2
  <1>4. x = n * p + r /\ y = n * q + r
    BY <1>2, <1>3
  <1>5. PICK s \in Int : s = p - q
    OBVIOUS
  <1>6. x - y = n * s
    BY <1>4, <1>5
  <1>7. x - y = i - j /\ i - j < n /\ -n < i - j
    BY <1>1
  <1>8. i - j = 0
    BY <1>6, <1>7, Multiple
  <1>9. QED
    BY <1>8

\* The blocks of the receives at an end are different: r are the receives posted, q the
\* completions.
Distinct(q, r) ==
    /\ \A i, j \in 1..Len(r) : r[i].block = r[j].block => i = j
    /\ \A i, j \in 1..Len(q) :
          q[i].op = "RECV" /\ q[j].op = "RECV" /\ q[i].block = q[j].block => i = j
    /\ \A i \in 1..Len(r), j \in 1..Len(q) : q[j].op = "RECV" => r[i].block # q[j].block

\* They stay so when completions are polled, ...
LEMMA DistinctPop ==
    ASSUME NEW q, NEW r, NEW p, Distinct(q, r), Len(q) \in Nat,
           Len(q) >= 1, Len(p) = Len(q) - 1, \A i \in 1..Len(p) : p[i] = q[i + 1]
    PROVE  Distinct(p, r)
  <1>1. PICK a \in Nat : a = Len(q) /\ Len(p) = a - 1
    OBVIOUS
  <1>2. ASSUME NEW i \in 1..Len(p)
        PROVE  i + 1 \in 1..Len(q) /\ p[i] = q[i + 1] /\ i \in Int
    BY <1>1
  <1>3. ASSUME NEW i \in 1..Len(p), NEW j \in 1..Len(p),
               p[i].op = "RECV", p[j].op = "RECV", p[i].block = p[j].block
        PROVE  i = j
    <2>1. PICK k \in 1..Len(q), l \in 1..Len(q) :
             k = i + 1 /\ l = j + 1 /\ p[i] = q[k] /\ p[j] = q[l]
      BY <1>2
    <2>2. k = l
      BY <1>3, <2>1 DEF Distinct
    <2>3. QED
      BY <1>2, <2>1, <2>2
  <1>4. ASSUME NEW i \in 1..Len(r), NEW j \in 1..Len(p), p[j].op = "RECV"
        PROVE  r[i].block # p[j].block
    <2>1. PICK l \in 1..Len(q) : p[j] = q[l]
      BY <1>2
    <2>2. QED
      BY <1>4, <2>1 DEF Distinct
  <1>5. QED
    BY <1>3, <1>4 DEF Distinct

\* ... when an operation of the end itself completes, ...
LEMMA DistinctPush ==
    ASSUME NEW q, NEW r, NEW p, Distinct(q, r), Len(q) \in Nat,
           \A i \in 1..Len(p) : i \in 1..Len(q) \/ i = Len(q) + 1,
           \A i \in 1..Len(q) : p[i] = q[i], p[Len(q) + 1].op # "RECV"
    PROVE  Distinct(p, r)
  <1>1. ASSUME NEW i \in 1..Len(p), p[i].op = "RECV"
        PROVE  i \in 1..Len(q) /\ p[i] = q[i]
    BY <1>1
  <1>2. ASSUME NEW i \in 1..Len(p), NEW j \in 1..Len(p),
               p[i].op = "RECV", p[j].op = "RECV", p[i].block = p[j].block
        PROVE  i = j
    <2>1. i \in 1..Len(q) /\ p[i] = q[i] /\ j \in 1..Len(q) /\ p[j] = q[j]
      BY <1>1, <1>2
    <2>2. QED
      BY <1>2, <2>1 DEF Distinct
  <1>3. ASSUME NEW i \in 1..Len(r), NEW j \in 1..Len(p), p[j].op = "RECV"
        PROVE  r[i].block # p[j].block
    <2>1. j \in 1..Len(q) /\ p[j] = q[j]
      BY <1>1, <1>3
    <2>2. QED
      BY <1>3, <2>1 DEF Distinct
  <1>4. QED
    BY <1>2, <1>3 DEF Distinct

\* ... and when a message takes the oldest receive.
LEMMA DistinctTake ==
    ASSUME NEW q, NEW r, NEW p, NEW s, Distinct(q, r), Len(q) \in Nat, Len(r) \in Nat,
           Len(r) >= 1, Len(s) = Len(r) - 1, \A i \in 1..Len(s) : s[i] = r[i + 1],
           \A i \in 1..Len(p) : i \in 1..Len(q) \/ i = Len(q) + 1,
           \A i \in 1..Len(q) : p[i] = q[i], p[Len(q) + 1].block = r[1].block
    PROVE  Distinct(p, s)
  <1>1. PICK n \in Nat : n = Len(r) /\ Len(s) = n - 1 /\ n >= 1
    OBVIOUS
  <1>2. 1 \in 1..Len(r)
    BY <1>1
  <1>3. ASSUME NEW i \in 1..Len(s)
        PROVE  \E k \in 1..Len(r) : k = i + 1 /\ k # 1 /\ s[i] = r[k] /\ i \in Int
    <2>1. i + 1 \in 1..Len(r) /\ i + 1 # 1 /\ i \in Int
      BY <1>1
    <2>2. QED
      BY <2>1
  <1>4. ASSUME NEW i \in 1..Len(s), NEW j \in 1..Len(s), s[i].block = s[j].block
        PROVE  i = j
    <2>1. PICK k \in 1..Len(r) : k = i + 1 /\ s[i] = r[k] /\ i \in Int
      BY <1>3
    <2>2. PICK l \in 1..Len(r) : l = j + 1 /\ s[j] = r[l] /\ j \in Int
      BY <1>3
    <2>3. k = l
      BY <1>4, <2>1, <2>2 DEF Distinct
    <2>4. QED
      BY <2>1, <2>2, <2>3
  <1>5. ASSUME NEW i \in 1..Len(p), NEW j \in 1..Len(p),
               p[i].op = "RECV", p[j].op = "RECV", p[i].block = p[j].block
        PROVE  i = j
    <2>1. CASE i \in 1..Len(q) /\ j \in 1..Len(q)
      <3>1. p[i] = q[i] /\ p[j] = q[j]
        BY <2>1
      <3>2. QED
        BY <1>5, <2>1, <3>1 DEF Distinct
    <2>2. CASE i \in 1..Len(q) /\ j = Len(q) + 1
      <3>1. p[i] = q[i] /\ p[j].block = r[1].block
        BY <2>2
      <3>2. r[1].block # q[i].block
        BY <1>2, <1>5, <2>2, <3>1 DEF Distinct
      <3>3. QED
        BY <1>5, <3>1, <3>2
    <2>3. CASE j \in 1..Len(q) /\ i = Len(q) + 1
      <3>1. p[j] = q[j] /\ p[i].block = r[1].block
        BY <2>3
      <3>2. r[1].block # q[j].block
        BY <1>2, <1>5, <2>3, <3>1 DEF Distinct
      <3>3. QED
        BY <1>5, <3>1, <3>2
    <2>4. QED
      BY <2>1, <2>2, <2>3
  <1>6. ASSUME NEW i \in 1..Len(s), NEW j \in 1..Len(p), p[j].op = "RECV"
        PROVE  s[i].block # p[j].block
    <2>1. PICK k \in 1..Len(r) : k # 1 /\ s[i] = r[k]
      BY <1>3
    <2>2. CASE j \in 1..Len(q)
      <3>1. p[j] = q[j]
        BY <2>2
      <3>2. QED
        BY <1>6, <2>1, <2>2, <3>1 DEF Distinct
    <2>3. CASE j = Len(q) + 1
      <3>1. p[j].block = r[1].block
        BY <2>3
      <3>2. r[k].block # r[1].block
        BY <1>2, <2>1 DEF Distinct
      <3>3. QED
        BY <2>1, <3>1, <3>2
    <2>4. QED
      BY <2>2, <2>3
  <1>7. QED
    BY <1>4, <1>5, <1>6 DEF Distinct

\* A thread receives into different blocks, and answers with an empty message.
ServerBlocks(c) ==
    /\ Distinct(cq[Server(c)], recvs[Server(c)])
    /\ server[c].pc = "answered" =>
          \A i \in 1..Len(sq[Server(c)]) : sq[Server(c)][i].len = 0

\* A client receives into its first block, and asks from the second.
ClientBlocks(c) ==
    LET e == Client(c) IN
    /\ \A i \in 1..Len(recvs[e]) : recvs[e][i].block = 0
    /\ \A i \in 1..Len(cq[e]) : cq[e][i].op = "RECV" => cq[e][i].block = 0
    /\ Waits(client[c]) => \A i \in 1..Len(sq[e]) : sq[e][i].block = 1

BlockInv == \A c \in Clients : ServerBlocks(c) /\ ClientBlocks(c)

\* Outside of the loop over the raw data a thread has one receive at most.
FewBlocks ==
    \A c \in Clients : server[c].pc \notin {"answered", "data"} => ServerBlocks(c)

LEMMA OneBlock == FullInv => FewBlocks
  <1>1. SUFFICES ASSUME FullInv, NEW c \in Clients, server[c].pc \notin {"answered", "data"}
                 PROVE  ServerBlocks(c)
    BY DEF FewBlocks
  <1>2. /\ ServerQueue(c)
        /\ Place(client[c], server[c], Len(sq[Client(c)]), Len(recvs[Server(c)]))
        /\ Len(recvs[Server(c)]) \in Nat /\ Len(cq[Server(c)]) \in Nat
    BY <1>1, Known
  <1>3. PICK n, q \in Nat : n = Len(recvs[Server(c)]) /\ q = Len(cq[Server(c)])
    BY <1>2
  <1>4. PICK o \in {0, 1} : o = Own(server[c], Len(sq[Server(c)]), Len(unacked[Server(c)]))
    BY DEF Own
  <1>5. q = o + Cap(server[c]) - n
    BY <1>2, <1>3, <1>4 DEF ServerQueue
  <1>6. q + n <= 1
    <2>1. CASE server[c].pc = "responded"
      <3>1. n = 0 /\ Cap(server[c]) = 0
        BY <1>2, <1>3, <2>1 DEF Place, Cap
      <3>2. QED
        BY <1>4, <1>5, <3>1
    <2>2. CASE server[c].pc # "responded"
      <3>1. o = 0
        BY <1>1, <1>4, <2>2 DEF Own
      <3>2. Cap(server[c]) \in {0, 1}
        BY <1>1 DEF Cap
      <3>3. QED
        BY <1>5, <3>1, <3>2
    <2>3. QED
      BY <2>1, <2>2
  <1>7. /\ \A i, j \in 1..n : i = j
        /\ \A i, j \in 1..q : i = j
        /\ \A i \in 1..n, j \in 1..q : FALSE
    BY <1>6
  <1>8. QED
    BY <1>1, <1>3, <1>7 DEF ServerBlocks, Distinct

\* The blocks of a connection nothing happens to, and of its two ends.
LEMMA ServerBlocksSame ==
    ASSUME NEW c \in Clients, ServerBlocks(c),
           server'[c].pc = "answered" => server[c].pc = "answered",
           sq'[Server(c)] = sq[Server(c)], cq'[Server(c)] = cq[Server(c)],
           recvs'[Server(c)] = recvs[Server(c)]
    PROVE  ServerBlocks(c)'
  BY DEF ServerBlocks

LEMMA ClientBlocksSame ==
    ASSUME NEW c \in Clients, ClientBlocks(c),
           Waits(client'[c]) => Waits(client[c]),
           sq'[Client(c)] = sq[Client(c)], cq'[Client(c)] = cq[Client(c)],
           recvs'[Client(c)] = recvs[Client(c)]
    PROVE  ClientBlocks(c)'
  BY DEF ClientBlocks

\* Nothing happens to the blocks of a connection whose queues stay as they are.
LEMMA OneBlockInv ==
    ASSUME BlockInv, NEW c \in Clients, ServerBlocks(c)', ClientBlocks(c)',
           \A d \in Clients : d # c => client'[d] = client[d] /\ server'[d] = server[d],
           \A e \in End : e \notin {Client(c), Server(c)} =>
              sq'[e] = sq[e] /\ cq'[e] = cq[e] /\ recvs'[e] = recvs[e]
    PROVE  BlockInv'
  <1>1. SUFFICES ASSUME NEW d \in Clients, d # c PROVE ServerBlocks(d)' /\ ClientBlocks(d)'
    BY DEF BlockInv
  <1>2. ServerBlocks(d) /\ ClientBlocks(d)
    BY DEF BlockInv
  <1>3. /\ Client(d) \in End /\ Server(d) \in End
        /\ Client(d) \notin {Client(c), Server(c)} /\ Server(d) \notin {Client(c), Server(c)}
    BY <1>1, EndFacts
  <1>4. /\ sq'[Client(d)] = sq[Client(d)] /\ sq'[Server(d)] = sq[Server(d)]
        /\ cq'[Client(d)] = cq[Client(d)] /\ cq'[Server(d)] = cq[Server(d)]
        /\ recvs'[Client(d)] = recvs[Client(d)] /\ recvs'[Server(d)] = recvs[Server(d)]
        /\ client'[d] = client[d] /\ server'[d] = server[d]
    BY <1>1, <1>3
  <1>5. ServerBlocks(d)'
    BY <1>2, <1>4, ServerBlocksSame
  <1>6. ClientBlocks(d)'
    BY <1>2, <1>4, ClientBlocksSame
  <1>7. QED
    BY <1>5, <1>6

\* The block of a receive goes with its completion.
LEMMA SendBlocks ==
    ASSUME ShapeInv, NEW e \in End, NEW p \in End, p = Other(e), e # p, ExecuteSend(e)
    PROVE  /\ Len(recvs[p]) \in Nat /\ Len(recvs[p]) >= 1 /\ 1 \in 1..Len(recvs[p])
           /\ Len(recvs'[p]) = Len(recvs[p]) - 1
           /\ \A i \in 1..Len(recvs'[p]) : recvs'[p][i] = recvs[p][i + 1]
           /\ \A i \in 1..Len(recvs'[p]) : i + 1 \in 1..Len(recvs[p])
           /\ Len(cq[p]) \in Nat
           /\ \A i \in 1..Len(cq'[p]) : i \in 1..Len(cq[p]) \/ i = Len(cq[p]) + 1
           /\ \A i \in 1..Len(cq[p]) : cq'[p][i] = cq[p][i]
           /\ cq'[p][Len(cq[p]) + 1].block = recvs[p][1].block
           /\ \A d \in End : d # p => recvs'[d] = recvs[d] /\ cq'[d] = cq[d]
           /\ \A d \in End : d # e => sq'[d] = sq[d]
           /\ \A i \in 1..Len(sq'[e]) : \E j \in 1..Len(sq[e]) : sq'[e][i] = sq[e][j]
           /\ UNCHANGED <<client, server>>
  <1>0. /\ sq \in [End -> Seq(Request)] /\ recvs \in [End -> Seq(Receive)]
        /\ cq \in [End -> Seq(Completion)]
    BY DEF ShapeInv
  <1>1. PICK w, r : w = Head(sq[e]) /\ r = Head(recvs[p])
    OBVIOUS
  <1>2. PICK z : z = [op |-> IF w.len <= r.len THEN "RECV" ELSE "ERROR", msg |-> w.msg,
                      block |-> r.block]
    OBVIOUS
  <1>3. /\ sq[e] # <<>> /\ recvs[p] # <<>>
        /\ sq' = [sq EXCEPT ![e] = Tail(@)]
        /\ recvs' = [recvs EXCEPT ![p] = Tail(@)]
        /\ cq' = [cq EXCEPT ![p] = Append(@, z)]
        /\ UNCHANGED <<client, server>>
    BY <1>1, <1>2 DEF ExecuteSend
  <1>4. /\ w \in Request
        /\ \A d \in End : d # e => sq'[d] = sq[d]
        /\ \A i \in 1..Len(sq'[e]) : \E j \in 1..Len(sq[e]) : sq'[e][i] = sq[e][j]
    <2>1. /\ sq \in [End -> Seq(Request)] /\ sq[e] # <<>> /\ w = Head(sq[e])
          /\ sq' = [sq EXCEPT ![e] = Tail(@)]
      BY <1>0, <1>1, <1>3
    <2>2. QED
      BY <2>1, PopFacts
  <1>5. /\ r = recvs[p][1] /\ r \in Receive /\ 1 \in 1..Len(recvs[p])
        /\ Len(recvs[p]) \in Nat /\ Len(recvs[p]) >= 1 /\ Len(recvs'[p]) = Len(recvs[p]) - 1
        /\ \A d \in End : d # p => recvs'[d] = recvs[d]
    <2>1. /\ recvs \in [End -> Seq(Receive)] /\ recvs[p] # <<>> /\ r = Head(recvs[p])
          /\ recvs' = [recvs EXCEPT ![p] = Tail(@)]
      BY <1>0, <1>1, <1>3
    <2>2. QED
      BY <2>1, PopFacts
  <1>6. recvs'[p] = Tail(recvs[p]) /\ recvs[p] \in Seq(Receive)
    BY <1>0, <1>3
  <1>7. \A i \in 1..Len(recvs'[p]) : recvs'[p][i] = recvs[p][i + 1]
    <2>1. PICK q, t : q \in Seq(Receive) /\ q = recvs[p] /\ q # <<>> /\ t = Tail(q)
      BY <1>3, <1>6
    <2>2. \A i \in 1..Len(t) : t[i] = q[i + 1]
      BY <2>1, TailFacts
    <2>3. recvs'[p] = t /\ recvs[p] = q
      BY <1>6, <2>1
    <2>4. QED
      BY <2>2, <2>3
  <1>8. \A i \in 1..Len(recvs'[p]) : i + 1 \in 1..Len(recvs[p])
    <2>1. PICK n \in Nat : n = Len(recvs[p]) /\ Len(recvs'[p]) = n - 1
      BY <1>5
    <2>2. \A i \in 1..(n - 1) : i + 1 \in 1..n
      OBVIOUS
    <2>3. QED
      BY <2>1, <2>2
  <1>9. z \in Completion /\ z.block = r.block
    BY <1>2, <1>4, <1>5 DEF Request, Receive, Completion
  <1>10. /\ Len(cq[p]) \in Nat /\ cq'[p][Len(cq[p]) + 1] = z
         /\ \A i \in 1..Len(cq[p]) : cq'[p][i] = cq[p][i]
         /\ \A i \in 1..Len(cq'[p]) : i \in 1..Len(cq[p]) \/ i = Len(cq[p]) + 1
         /\ \A d \in End : d # p => cq'[d] = cq[d]
    BY <1>0, <1>3, <1>9, PushFacts
  <1>11. QED
    BY <1>3, <1>4, <1>5, <1>7, <1>8, <1>9, <1>10

LEMMA SendBlockInv ==
    ASSUME ShapeInv, BlockInv, NEW e \in End, ExecuteSend(e) PROVE BlockInv'
  <1>1. PICK c \in Clients : e = Client(c) \/ e = Server(c)
    BY EndFacts
  <1>2. /\ Client(c) \in End /\ Server(c) \in End /\ Client(c) # Server(c)
        /\ Other(Client(c)) = Server(c) /\ Other(Server(c)) = Client(c)
        /\ ServerBlocks(c) /\ ClientBlocks(c)
    BY EndFacts DEF BlockInv
  <1>3. CASE e = Client(c)
    <2>1. /\ Len(recvs[Server(c)]) \in Nat /\ Len(recvs[Server(c)]) >= 1
          /\ Len(recvs'[Server(c)]) = Len(recvs[Server(c)]) - 1
          /\ \A i \in 1..Len(recvs'[Server(c)]) :
                recvs'[Server(c)][i] = recvs[Server(c)][i + 1]
          /\ Len(cq[Server(c)]) \in Nat
          /\ \A i \in 1..Len(cq'[Server(c)]) :
                i \in 1..Len(cq[Server(c)]) \/ i = Len(cq[Server(c)]) + 1
          /\ \A i \in 1..Len(cq[Server(c)]) : cq'[Server(c)][i] = cq[Server(c)][i]
          /\ cq'[Server(c)][Len(cq[Server(c)]) + 1].block = recvs[Server(c)][1].block
          /\ \A d \in End : d # Server(c) => recvs'[d] = recvs[d] /\ cq'[d] = cq[d]
          /\ \A d \in End : d # Client(c) => sq'[d] = sq[d]
          /\ \A i \in 1..Len(sq'[Client(c)]) :
                \E j \in 1..Len(sq[Client(c)]) : sq'[Client(c)][i] = sq[Client(c)][j]
          /\ UNCHANGED <<client, server>>
      BY <1>2, <1>3, SendBlocks
    <2>2. Distinct(cq'[Server(c)], recvs'[Server(c)])
      <3>1. Distinct(cq[Server(c)], recvs[Server(c)])
        BY <1>2 DEF ServerBlocks
      <3>2. PICK q, r, p, s : /\ q = cq[Server(c)] /\ r = recvs[Server(c)]
                              /\ p = cq'[Server(c)] /\ s = recvs'[Server(c)]
        OBVIOUS
      <3>3. /\ Distinct(q, r) /\ Len(q) \in Nat /\ Len(r) \in Nat
            /\ Len(r) >= 1 /\ Len(s) = Len(r) - 1 /\ \A i \in 1..Len(s) : s[i] = r[i + 1]
            /\ \A i \in 1..Len(p) : i \in 1..Len(q) \/ i = Len(q) + 1
            /\ \A i \in 1..Len(q) : p[i] = q[i]
            /\ p[Len(q) + 1].block = r[1].block
        BY <2>1, <3>1, <3>2
      <3>4. Distinct(p, s)
        BY <3>3, DistinctTake
      <3>5. QED
        BY <3>2, <3>4
    <2>3. ServerBlocks(c)'
      <3>1. sq'[Server(c)] = sq[Server(c)] /\ server'[c] = server[c]
        BY <1>2, <2>1
      <3>2. QED
        BY <1>2, <2>2, <3>1 DEF ServerBlocks
    <2>4. ClientBlocks(c)'
      <3>1. /\ cq'[Client(c)] = cq[Client(c)] /\ recvs'[Client(c)] = recvs[Client(c)]
            /\ client'[c] = client[c]
        BY <1>2, <2>1
      <3>2. ASSUME Waits(client[c]), NEW i \in 1..Len(sq'[Client(c)])
            PROVE  sq'[Client(c)][i].block = 1
        <4>1. PICK j \in 1..Len(sq[Client(c)]) : sq'[Client(c)][i] = sq[Client(c)][j]
          BY <2>1
        <4>2. sq[Client(c)][j].block = 1
          BY <1>2, <3>2 DEF ClientBlocks
        <4>3. QED
          BY <4>1, <4>2
      <3>3. QED
        BY <1>2, <3>1, <3>2 DEF ClientBlocks
    <2>5. QED
      BY <1>2, <2>1, <2>3, <2>4, OneBlockInv
  <1>4. CASE e = Server(c)
    <2>1. /\ Len(recvs[Client(c)]) \in Nat /\ 1 \in 1..Len(recvs[Client(c)])
          /\ \A i \in 1..Len(recvs'[Client(c)]) :
                recvs'[Client(c)][i] = recvs[Client(c)][i + 1]
          /\ \A i \in 1..Len(recvs'[Client(c)]) : i + 1 \in 1..Len(recvs[Client(c)])
          /\ Len(cq[Client(c)]) \in Nat
          /\ \A i \in 1..Len(cq'[Client(c)]) :
                i \in 1..Len(cq[Client(c)]) \/ i = Len(cq[Client(c)]) + 1
          /\ \A i \in 1..Len(cq[Client(c)]) : cq'[Client(c)][i] = cq[Client(c)][i]
          /\ cq'[Client(c)][Len(cq[Client(c)]) + 1].block = recvs[Client(c)][1].block
          /\ \A d \in End : d # Client(c) => recvs'[d] = recvs[d] /\ cq'[d] = cq[d]
          /\ \A d \in End : d # Server(c) => sq'[d] = sq[d]
          /\ \A i \in 1..Len(sq'[Server(c)]) :
                \E j \in 1..Len(sq[Server(c)]) : sq'[Server(c)][i] = sq[Server(c)][j]
          /\ UNCHANGED <<client, server>>
      BY <1>2, <1>4, SendBlocks
    <2>2. ServerBlocks(c)'
      <3>1. /\ cq'[Server(c)] = cq[Server(c)] /\ recvs'[Server(c)] = recvs[Server(c)]
            /\ server'[c] = server[c]
        BY <1>2, <2>1
      <3>2. server[c].pc = "answered" =>
               \A i \in 1..Len(sq'[Server(c)]) : sq'[Server(c)][i].len = 0
        BY <1>2, <2>1 DEF ServerBlocks
      <3>3. QED
        BY <1>2, <3>1, <3>2 DEF ServerBlocks
    <2>3. ASSUME NEW i \in 1..Len(recvs'[Client(c)]) PROVE recvs'[Client(c)][i].block = 0
      <3>1. PICK j \in 1..Len(recvs[Client(c)]) : recvs'[Client(c)][i] = recvs[Client(c)][j]
        BY <2>1
      <3>2. recvs[Client(c)][j].block = 0
        BY <1>2 DEF ClientBlocks
      <3>3. QED
        BY <3>1, <3>2
    <2>4. ASSUME NEW i \in 1..Len(cq'[Client(c)]), cq'[Client(c)][i].op = "RECV"
          PROVE  cq'[Client(c)][i].block = 0
      <3>1. CASE i \in 1..Len(cq[Client(c)])
        BY <1>2, <2>1, <2>4, <3>1 DEF ClientBlocks
      <3>2. CASE i = Len(cq[Client(c)]) + 1
        BY <1>2, <2>1, <3>2 DEF ClientBlocks
      <3>3. QED
        BY <2>1, <3>1, <3>2
    <2>5. ClientBlocks(c)'
      <3>1. sq'[Client(c)] = sq[Client(c)] /\ client'[c] = client[c]
        BY <1>2, <2>1
      <3>2. QED
        BY <1>2, <2>3, <2>4, <3>1 DEF ClientBlocks
    <2>6. QED
      BY <1>2, <2>1, <2>2, <2>5, OneBlockInv
  <1>5. QED
    BY <1>1, <1>3, <1>4

LEMMA RdmaBlockInv ==
    ASSUME ShapeInv, BlockInv, NEW e \in End, ExecuteRdma(e) PROVE BlockInv'
  <1>1. PICK c \in Clients : e = Client(c) \/ e = Server(c)
    BY EndFacts
  <1>2. /\ Client(c) \in End /\ Server(c) \in End /\ Client(c) # Server(c)
        /\ ServerBlocks(c) /\ ClientBlocks(c)
    BY EndFacts DEF BlockInv
  <1>3. /\ sq[e] # <<>> /\ sq' = [sq EXCEPT ![e] = Tail(@)]
        /\ UNCHANGED <<client, server, recvs, cq>>
    BY DEF ExecuteRdma
  <1>4. /\ \A d \in End : d # e => sq'[d] = sq[d]
        /\ \A i \in 1..Len(sq'[e]) : \E j \in 1..Len(sq[e]) : sq'[e][i] = sq[e][j]
    <2>1. sq \in [End -> Seq(Request)]
      BY DEF ShapeInv
    <2>2. QED
      BY <1>3, <2>1, PopFacts
  <1>5. /\ \A i \in 1..Len(sq'[Client(c)]) :
              \E j \in 1..Len(sq[Client(c)]) : sq'[Client(c)][i] = sq[Client(c)][j]
        /\ \A i \in 1..Len(sq'[Server(c)]) :
              \E j \in 1..Len(sq[Server(c)]) : sq'[Server(c)][i] = sq[Server(c)][j]
    BY <1>1, <1>2, <1>4
  <1>6. ServerBlocks(c)'
    <2>1. server[c].pc = "answered" =>
               \A i \in 1..Len(sq'[Server(c)]) : sq'[Server(c)][i].len = 0
      BY <1>2, <1>5 DEF ServerBlocks
    <2>2. QED
      BY <1>2, <1>3, <2>1 DEF ServerBlocks
  <1>7. ClientBlocks(c)'
    <2>1. Waits(client[c]) => \A i \in 1..Len(sq'[Client(c)]) : sq'[Client(c)][i].block = 1
      BY <1>2, <1>5 DEF ClientBlocks
    <2>2. QED
      BY <1>2, <1>3, <2>1 DEF ClientBlocks
  <1>8. QED
    BY <1>1, <1>2, <1>3, <1>4, <1>6, <1>7, OneBlockInv

\* An operation of the end itself is not a receive.
LEMMA AckBlockInv ==
    ASSUME ShapeInv, BlockInv, NEW e \in End, Acknowledge(e) PROVE BlockInv'
  <1>1. PICK c \in Clients : e = Client(c) \/ e = Server(c)
    BY EndFacts
  <1>2. /\ Client(c) \in End /\ Server(c) \in End /\ Client(c) # Server(c)
        /\ ServerBlocks(c) /\ ClientBlocks(c)
    BY EndFacts DEF BlockInv
  <1>3. PICK w, z : /\ w = Head(unacked[e])
                    /\ z = [op |-> w.op, msg |-> w.msg, block |-> w.block]
    OBVIOUS
  <1>4. /\ unacked[e] # <<>> /\ cq' = [cq EXCEPT ![e] = Append(@, z)]
        /\ UNCHANGED <<client, server, recvs, sq>>
    BY <1>3 DEF Acknowledge
  <1>5. unacked[e] \in Seq(Request) /\ cq \in [End -> Seq(Completion)]
    BY DEF ShapeInv
  <1>6. w \in Request
    BY <1>3, <1>4, <1>5, TailFacts
  <1>7. z \in Completion /\ z.op # "RECV"
    BY <1>3, <1>6 DEF Request, Completion
  <1>8. /\ Len(cq[e]) \in Nat /\ cq'[e][Len(cq[e]) + 1].op # "RECV"
        /\ \A i \in 1..Len(cq[e]) : cq'[e][i] = cq[e][i]
        /\ \A i \in 1..Len(cq'[e]) : i \in 1..Len(cq[e]) \/ i = Len(cq[e]) + 1
        /\ \A d \in End : d # e => cq'[d] = cq[d]
    BY <1>4, <1>5, <1>7, PushFacts
  <1>9. ServerBlocks(c)'
    <2>1. Distinct(cq[Server(c)], recvs[Server(c)])
      BY <1>2 DEF ServerBlocks
    <2>2. CASE e = Server(c)
      <3>1. Distinct(cq'[Server(c)], recvs[Server(c)])
        BY <1>8, <2>1, <2>2, DistinctPush
      <3>2. QED
        BY <1>2, <1>4, <3>1 DEF ServerBlocks
    <2>3. CASE e # Server(c)
      <3>1. cq'[Server(c)] = cq[Server(c)]
        BY <1>2, <1>8, <2>3
      <3>2. QED
        BY <1>2, <1>4, <3>1, ServerBlocksSame
    <2>4. QED
      BY <2>2, <2>3
  <1>10. ClientBlocks(c)'
    <2>1. CASE e = Client(c)
      <3>1. \A i \in 1..Len(cq'[e]) : cq'[e][i].op = "RECV" => cq'[e][i].block = 0
        BY <1>2, <1>8, <2>1 DEF ClientBlocks
      <3>2. QED
        BY <1>2, <1>4, <2>1, <3>1 DEF ClientBlocks
    <2>2. CASE e # Client(c)
      <3>1. cq'[Client(c)] = cq[Client(c)]
        BY <1>2, <1>8, <2>2
      <3>2. QED
        BY <1>2, <1>4, <3>1, ClientBlocksSame
    <2>3. QED
      BY <2>1, <2>2
  <1>11. QED
    BY <1>1, <1>2, <1>4, <1>8, <1>9, <1>10, OneBlockInv

\* A step of client c touches the blocks of its own end only.
LEMMA ClientEnd ==
    ASSUME BlockInv, NEW c \in Clients, server' = server, ClientBlocks(c)',
           \A d \in Clients : d # c => client'[d] = client[d],
           \A e \in End : e # Client(c) =>
              sq'[e] = sq[e] /\ cq'[e] = cq[e] /\ recvs'[e] = recvs[e]
    PROVE  BlockInv'
  <1>1. ServerBlocks(c) /\ Server(c) \in End /\ Server(c) # Client(c)
    BY EndFacts DEF BlockInv
  <1>2. /\ sq'[Server(c)] = sq[Server(c)] /\ cq'[Server(c)] = cq[Server(c)]
        /\ recvs'[Server(c)] = recvs[Server(c)] /\ server'[c] = server[c]
    BY <1>1
  <1>3. ServerBlocks(c)'
    BY <1>1, <1>2, ServerBlocksSame
  <1>4. \A d \in Clients : d # c => server'[d] = server[d]
    OBVIOUS
  <1>5. \A e \in End : e \notin {Client(c), Server(c)} =>
           sq'[e] = sq[e] /\ cq'[e] = cq[e] /\ recvs'[e] = recvs[e]
    OBVIOUS
  <1>6. QED
    BY <1>3, <1>4, <1>5, OneBlockInv

LEMMA ClientSetUpBlocks ==
    ASSUME FullInv, BlockInv, NEW c \in Clients,
           \/ ClientRegister(c) \/ ClientSyncSend(c)
           \/ ClientSyncRecv(c) \/ ClientRequest(c)
    PROVE  BlockInv'
  <1>0. ShapeInv /\ RecvQueue(c) /\ ClientBlocks(c) /\ Client(c) \in End
    BY Known DEF BlockInv
  <1>1. CASE ClientRegister(c)
    <2>1. /\ client[c].pc = "start" /\ client' = [client EXCEPT ![c].pc = "sync"]
          /\ PostRecv(Client(c), BlockBytes) /\ UNCHANGED <<server, sq, cq>>
      BY <1>1 DEF ClientRegister, Running
    <2>2. client'[c].pc = "sync" /\ \A d \in Clients : d # c => client'[d] = client[d]
      BY <1>0, <2>1, ClientFields
    <2>3. Len(recvs[Client(c)]) = 0
      BY <1>0, <2>1 DEF RecvQueue, Waits
    <2>4. /\ Len(recvs'[Client(c)]) = 1
          /\ recvs'[Client(c)][1] = [len |-> BlockBytes, block |-> 0]
          /\ \A f \in End : f # Client(c) => recvs'[f] = recvs[f]
      BY <1>0, <2>1, <2>3, Sizes, FirstRecv
    <2>5. \A i \in 1..Len(recvs'[Client(c)]) : recvs'[Client(c)][i].block = 0
      BY <2>4
    <2>6. ~Waits(client'[c])
      BY <2>2 DEF Waits
    <2>7. ClientBlocks(c)'
      BY <1>0, <2>1, <2>5, <2>6 DEF ClientBlocks
    <2>8. QED
      BY <2>1, <2>2, <2>4, <2>7, ClientEnd
  <1>2. CASE ClientSyncSend(c)
    <2>1. /\ client[c].pc = "sync" /\ client' = [client EXCEPT ![c].pc = "synced"]
          /\ UNCHANGED <<server, recvs, sq, cq>>
      BY <1>2 DEF ClientSyncSend, Running, nic
    <2>2. client'[c].pc = "synced" /\ \A d \in Clients : d # c => client'[d] = client[d]
      BY <1>0, <2>1, ClientFields
    <2>3. ~Waits(client'[c])
      BY <2>2 DEF Waits
    <2>4. ClientBlocks(c)'
      BY <1>0, <2>1, <2>3 DEF ClientBlocks
    <2>5. QED
      BY <2>1, <2>2, <2>4, ClientEnd
  <1>3. CASE ClientSyncRecv(c)
    <2>1. /\ client[c].pc = "synced" /\ client' = [client EXCEPT ![c].pc = "exchange"]
          /\ Post(Client(c), Send("REQUEST_BUFFER", AskBytes, 1, "zero"))
          /\ UNCHANGED <<server, recvs, cq>>
      BY <1>3 DEF ClientSyncRecv, Running
    <2>2. \A d \in Clients : d # c => client'[d] = client[d]
      BY <1>0, <2>1, ClientFields
    <2>3. Len(sq[Client(c)]) = 0
      BY <2>1, IdleEmpty
    <2>4. /\ Len(sq'[Client(c)]) = 1
          /\ sq'[Client(c)][1] = Send("REQUEST_BUFFER", AskBytes, 1, "zero")
          /\ \A f \in End : f # Client(c) => sq'[f] = sq[f]
      BY <1>0, <2>1, <2>3, FirstPost
    <2>5. \A i \in 1..Len(sq'[Client(c)]) : sq'[Client(c)][i].block = 1
      BY <2>4 DEF Send
    <2>6. ClientBlocks(c)'
      BY <1>0, <2>1, <2>5 DEF ClientBlocks
    <2>7. QED
      BY <2>1, <2>2, <2>4, <2>6, ClientEnd
  <1>4. CASE ClientRequest(c)
    <2>1. /\ client[c].pc = "request" /\ client' = [client EXCEPT ![c].pc = "answer"]
          /\ PostRecv(Client(c), CtlBytes)
          /\ Post(Client(c), Send("SEND_TEST_REQUEST", AskBytes, 1, "zero"))
          /\ UNCHANGED <<server, cq>>
      BY <1>4 DEF ClientRequest, Running
    <2>2. \A d \in Clients : d # c => client'[d] = client[d]
      BY <1>0, <2>1, ClientFields
    <2>3. Len(sq[Client(c)]) = 0 /\ Len(recvs[Client(c)]) = 0
      BY <1>0, <2>1, IdleEmpty DEF RecvQueue, Waits
    <2>4. /\ Len(sq'[Client(c)]) = 1
          /\ sq'[Client(c)][1] = Send("SEND_TEST_REQUEST", AskBytes, 1, "zero")
          /\ \A f \in End : f # Client(c) => sq'[f] = sq[f]
      BY <1>0, <2>1, <2>3, FirstPost
    <2>5. /\ Len(recvs'[Client(c)]) = 1
          /\ recvs'[Client(c)][1] = [len |-> CtlBytes, block |-> 0]
          /\ \A f \in End : f # Client(c) => recvs'[f] = recvs[f]
      BY <1>0, <2>1, <2>3, Constants, FirstRecv
    <2>6. \A i \in 1..Len(sq'[Client(c)]) : sq'[Client(c)][i].block = 1
      BY <2>4 DEF Send
    <2>7. \A i \in 1..Len(recvs'[Client(c)]) : recvs'[Client(c)][i].block = 0
      BY <2>5
    <2>8. ClientBlocks(c)'
      BY <1>0, <2>1, <2>6, <2>7 DEF ClientBlocks
    <2>9. QED
      BY <2>1, <2>2, <2>4, <2>5, <2>8, ClientEnd
  <1>5. QED
    BY <1>1, <1>2, <1>3, <1>4

LEMMA ClientAwaitBlocks ==
    ASSUME FullInv, BlockInv, NEW c \in Clients, NEW pc \in {"exchange", "answer"},
           ClientAwait(c, pc)
    PROVE  BlockInv'
  <1>0. IndInv /\ ClientBlocks(c) /\ Client(c) \in End /\ Len(cq[Client(c)]) \in Nat
    BY Known DEF BlockInv
  <1>1. client[c].pc = pc /\ UNCHANGED <<server, recvs, sq>>
    BY DEF ClientAwait, Running
  <1>2. PICK D \in ClientState, wc \in Completion, s \in BOOLEAN, t \in BOOLEAN :
           Awaited(c, pc, D, wc, s, t)
    BY <1>0, ClientAwaitFacts
  <1>3. /\ \A f \in End : f # Client(c) => cq'[f] = cq[f]
        /\ Len(cq'[Client(c)]) = Len(cq[Client(c)]) - 1
        /\ \A i \in 1..Len(cq'[Client(c)]) : cq'[Client(c)][i] = cq[Client(c)][i + 1]
        /\ \A d \in Clients : d # c => client'[d] = client[d]
    BY <1>2 DEF Awaited
  <1>4. ASSUME NEW i \in 1..Len(cq'[Client(c)]), cq'[Client(c)][i].op = "RECV"
        PROVE  cq'[Client(c)][i].block = 0
    <2>1. i + 1 \in 1..Len(cq[Client(c)])
      BY <1>0, <1>3
    <2>2. PICK j \in 1..Len(cq[Client(c)]) : cq'[Client(c)][i] = cq[Client(c)][j]
      BY <1>3, <2>1
    <2>3. QED
      BY <1>0, <1>4, <2>2 DEF ClientBlocks
  <1>5. Waits(client[c])
    BY <1>1 DEF Waits
  <1>6. ClientBlocks(c)'
    BY <1>0, <1>1, <1>4, <1>5 DEF ClientBlocks
  <1>7. QED
    BY <1>1, <1>3, <1>6, ClientEnd

LEMMA ClientTestBlocks ==
    ASSUME FullInv, BlockInv, NEW c \in Clients, NEW test \in Tests,
           ClientPost(c, test) \/ ClientPoll(c, test)
    PROVE  BlockInv'
  <1>0. /\ IndInv /\ ShapeInv /\ WorkQueue(c) /\ ClientBlocks(c) /\ Client(c) \in End
        /\ Len(cq[Client(c)]) \in Nat
    BY Known DEF BlockInv
  <1>1. CASE ClientPost(c, test)
    <2>1. /\ client[c].pc = test /\ client' = [client EXCEPT ![c].index = @ + 1]
          /\ Post(Client(c), TestRequest(c, test)) /\ UNCHANGED <<server, recvs, cq>>
      BY <1>1 DEF ClientPost, Running
    <2>2. /\ client'[c].pc = test /\ \A d \in Clients : d # c => client'[d] = client[d]
          /\ \A f \in End : f # Client(c) => sq'[f] = sq[f]
      BY <1>0, <2>1 DEF ShapeInv, ClientState, Post
    <2>3. ~Waits(client'[c])
      BY <2>2 DEF Waits, Tests
    <2>4. ClientBlocks(c)'
      BY <1>0, <2>1, <2>3 DEF ClientBlocks
    <2>5. QED
      BY <2>1, <2>2, <2>4, ClientEnd
  <1>2. CASE ClientPoll(c, test)
    <2>1. client[c].pc = test /\ UNCHANGED <<server, recvs, sq>>
      BY <1>2 DEF ClientPoll, Running
    <2>2. PICK k \in Nat, D \in ClientState :
             /\ k >= 1 /\ k <= Len(cq[Client(c)])
             /\ \A f \in End : f # Client(c) => cq'[f] = cq[f]
             /\ Len(cq'[Client(c)]) = Len(cq[Client(c)]) - k
             /\ \A i \in 1..Len(cq'[Client(c)]) : cq'[Client(c)][i] = cq[Client(c)][i + k]
             /\ client'[c] = D /\ \A d \in Clients : d # c => client'[d] = client[d]
             /\ client[c].confirm + k < Count =>
                   /\ D.pc = test /\ D.round = client[c].round
                   /\ D.index = client[c].index /\ D.confirm = client[c].confirm + k
             /\ client[c].confirm + k >= Count =>
                   /\ D.index = 0 /\ D.confirm = 0
                   /\ test # "data" => D.pc \in {"write", "read", "bw", "fake", "bye"}
                   /\ test = "data" =>
                         \/ client[c].round < Rounds /\ D.pc = "request"
                            /\ D.round = client[c].round + 1
                         \/ client[c].round = Rounds /\ D.pc = "write"
             /\ client[c].confirm + k <= Count
                   /\ (\A i \in 1..k : cq[Client(c)][i].op = TestOp(test))
                => aborted' = aborted
      <3>1. IndInv /\ ClientPoll(c, test)
        BY <1>0, <1>2
      <3>2. QED
        BY <3>1, ClientPollFacts
    <2>3. client[c].confirm + k < Count \/ client[c].confirm + k >= Count
      <3>1. client[c].confirm \in Nat /\ Count \in Nat
        BY <1>0, Constants DEF ShapeInv, ClientState
      <3>2. QED
        BY <3>1
    <2>4. ~Waits(client'[c])
      BY <2>2, <2>3 DEF Waits, Tests
    <2>5. ASSUME NEW i \in 1..Len(cq'[Client(c)]), cq'[Client(c)][i].op = "RECV"
          PROVE  cq'[Client(c)][i].block = 0
      <3>1. i + k \in 1..Len(cq[Client(c)])
        <4>1. PICK n \in Nat : n = Len(cq[Client(c)]) /\ i \in 1..(n - k) /\ k <= n
          BY <1>0, <2>2
        <4>2. i + k \in 1..n
          BY <4>1
        <4>3. QED
          BY <4>1, <4>2
      <3>2. PICK j \in 1..Len(cq[Client(c)]) : cq'[Client(c)][i] = cq[Client(c)][j]
        BY <2>2, <3>1
      <3>3. QED
        BY <1>0, <2>5, <3>2 DEF ClientBlocks
    <2>6. ClientBlocks(c)'
      BY <1>0, <2>1, <2>4, <2>5 DEF ClientBlocks
    <2>7. QED
      BY <2>1, <2>2, <2>6, ClientEnd
  <1>3. QED
    BY <1>1, <1>2

LEMMA ClientLeaveBlocks ==
    ASSUME FullInv, BlockInv, NEW c \in Clients, ClientBye(c) \/ ClientExit(c)
    PROVE  BlockInv'
  <1>0. ShapeInv /\ ClientBlocks(c) /\ Client(c) \in End
    BY Known DEF BlockInv
  <1>1. CASE ClientBye(c)
    <2>1. /\ client' = [client EXCEPT ![c].pc = "leaving"]
          /\ Post(Client(c), Send("BYEBYE", CtlBytes, 0, "zero"))
          /\ UNCHANGED <<server, recvs, cq>>
      BY <1>1 DEF ClientBye
    <2>2. client'[c].pc = "leaving" /\ \A d \in Clients : d # c => client'[d] = client[d]
      BY <1>0, <2>1, ClientFields
    <2>3. \A f \in End : f # Client(c) => sq'[f] = sq[f]
      BY <1>0, <2>1 DEF ShapeInv, Post
    <2>4. ~Waits(client'[c])
      BY <2>2 DEF Waits
    <2>5. ClientBlocks(c)'
      BY <1>0, <2>1, <2>4 DEF ClientBlocks
    <2>6. QED
      BY <2>1, <2>2, <2>3, <2>5, ClientEnd
  <1>2. CASE ClientExit(c)
    <2>1. /\ client' = [client EXCEPT ![c].pc = "exited"]
          /\ sq' = [sq EXCEPT ![Client(c)] = <<>>] /\ cq' = [cq EXCEPT ![Client(c)] = <<>>]
          /\ UNCHANGED <<server, recvs>>
      BY <1>2 DEF ClientExit
    <2>2. client'[c].pc = "exited" /\ \A d \in Clients : d # c => client'[d] = client[d]
      BY <1>0, <2>1, ClientFields
    <2>3. /\ Len(cq'[Client(c)]) = 0
          /\ \A f \in End : f # Client(c) => sq'[f] = sq[f] /\ cq'[f] = cq[f]
      BY <1>0, <2>1 DEF ShapeInv
    <2>4. ~Waits(client'[c]) /\ \A i \in 1..0 : FALSE
      BY <2>2 DEF Waits
    <2>5. ClientBlocks(c)'
      BY <1>0, <2>1, <2>3, <2>4 DEF ClientBlocks
    <2>6. QED
      BY <2>1, <2>2, <2>3, <2>5, ClientEnd
  <1>3. QED
    BY <1>1, <1>2

\* A step of the thread for c touches the blocks of its own end only.
LEMMA ServerEnd ==
    ASSUME BlockInv, NEW c \in Clients, client' = client, ServerBlocks(c)',
           \A d \in Clients : d # c => server'[d] = server[d],
           \A e \in End : e # Server(c) =>
              sq'[e] = sq[e] /\ cq'[e] = cq[e] /\ recvs'[e] = recvs[e]
    PROVE  BlockInv'
  <1>1. ClientBlocks(c) /\ Client(c) \in End /\ Client(c) # Server(c)
    BY EndFacts DEF BlockInv
  <1>2. /\ sq'[Client(c)] = sq[Client(c)] /\ cq'[Client(c)] = cq[Client(c)]
        /\ recvs'[Client(c)] = recvs[Client(c)] /\ client'[c] = client[c]
    BY <1>1
  <1>3. ClientBlocks(c)'
    BY <1>1, <1>2, ClientBlocksSame
  <1>4. \A d \in Clients : d # c => client'[d] = client[d]
    OBVIOUS
  <1>5. \A e \in End : e \notin {Client(c), Server(c)} =>
           sq'[e] = sq[e] /\ cq'[e] = cq[e] /\ recvs'[e] = recvs[e]
    OBVIOUS
  <1>6. QED
    BY <1>3, <1>4, <1>5, OneBlockInv

\* The steps after which the thread has at most one receive.
LEMMA ServerFewBlocks ==
    ASSUME FullInv, FullInv', BlockInv, NEW c \in Clients,
           \/ ServerLock(c) \/ ServerRegister(c) \/ ServerSyncSend(c) \/ ServerSyncRecv(c)
           \/ ServerExchange(c) \/ (\E pc \in {"round", "final"} : ServerPostControl(c, pc))
           \/ ServerSent(c, "responded") \/ ServerBye(c)
    PROVE  BlockInv'
  <1>0. IndInv /\ ShapeInv /\ Server(c) \in End
    BY Known
  <1>1. FewBlocks'
    BY OneBlock, PTL
  <1>2. SUFFICES /\ client' = client /\ server'[c].pc \notin {"answered", "data"}
                 /\ \A d \in Clients : d # c => server'[d] = server[d]
                 /\ \A e \in End : e # Server(c) =>
                       sq'[e] = sq[e] /\ cq'[e] = cq[e] /\ recvs'[e] = recvs[e]
    BY <1>1, ServerEnd DEF FewBlocks
  <1>3. ASSUME NEW pc, server' = [server EXCEPT ![c].pc = pc]
        PROVE  server'[c].pc = pc /\ \A d \in Clients : d # c => server'[d] = server[d]
    BY <1>0, <1>3, ServerFields
  <1>4. ASSUME NEW n, PostRecv(Server(c), n)
        PROVE  \A e \in End : e # Server(c) => recvs'[e] = recvs[e]
    BY <1>0, <1>4 DEF ShapeInv, PostRecv
  <1>5. ASSUME NEW pc, pc \notin {"start", "register", "done"}, NEW good,
               ServerPolls(c, pc, good)
        PROVE  Active = Server(c) /\ \A e \in End : e # Server(c) => cq'[e] = cq[e]
    BY <1>0, <1>5, ServerTakes
  <1>6. CASE ServerLock(c) \/ ServerSyncSend(c) \/ ServerSyncRecv(c)
    <2>1. UNCHANGED <<client, sq, cq, recvs>>
      BY <1>6 DEF ServerLock, ServerSyncSend, ServerSyncRecv, nic
    <2>2. \E pc \in {"register", "synced", "exchange"} :
             server' = [server EXCEPT ![c].pc = pc]
      BY <1>6 DEF ServerLock, ServerSyncSend, ServerSyncRecv
    <2>3. PICK pc \in {"register", "synced", "exchange"} :
             server'[c].pc = pc /\ \A d \in Clients : d # c => server'[d] = server[d]
      BY <1>3, <2>2
    <2>4. QED
      BY <2>1, <2>3
  <1>7. CASE ServerRegister(c)
    <2>1. /\ server' = [server EXCEPT ![c].pc = "sync"] /\ PostRecv(Server(c), BlockBytes)
          /\ UNCHANGED <<client, sq, cq>>
      BY <1>7 DEF ServerRegister
    <2>2. server'[c].pc = "sync" /\ \A d \in Clients : d # c => server'[d] = server[d]
      BY <1>3, <2>1
    <2>3. \A e \in End : e # Server(c) => recvs'[e] = recvs[e]
      BY <1>4, <2>1
    <2>4. QED
      BY <2>1, <2>2, <2>3
  <1>8. CASE ServerExchange(c)
    <2>1. /\ server' = [server EXCEPT ![c].pc = "responded"]
          /\ ServerPolls(c, "exchange", IsMsg("REQUEST_BUFFER"))
          /\ Post(Active, Send("RESPONSE_TO_REQUEST_BUFFER", CtlBytes, 1, active))
          /\ UNCHANGED <<client, recvs>>
      BY <1>8 DEF ServerExchange
    <2>2. server'[c].pc = "responded" /\ \A d \in Clients : d # c => server'[d] = server[d]
      BY <1>3, <2>1
    <2>3. Active = Server(c) /\ \A e \in End : e # Server(c) => cq'[e] = cq[e]
      BY <1>5, <2>1
    <2>4. \A e \in End : e # Server(c) => sq'[e] = sq[e]
      BY <1>0, <2>1, <2>3 DEF ShapeInv, Post
    <2>5. QED
      BY <2>1, <2>2, <2>3, <2>4
  <1>9. CASE \E pc \in {"round", "final"} : ServerPostControl(c, pc)
    <2>1. PICK pc \in {"round", "final"} : ServerPostControl(c, pc)
      BY <1>9
    <2>2. /\ server[c].pc = pc /\ PostRecv(Active, CtlBytes)
          /\ server' = [server EXCEPT ![c].pc = IF pc = "round" THEN "request" ELSE "bye"]
          /\ UNCHANGED <<client, sq, cq>>
      BY <2>1 DEF ServerPostControl, Serving
    <2>3. /\ server'[c].pc = IF pc = "round" THEN "request" ELSE "bye"
          /\ \A d \in Clients : d # c => server'[d] = server[d]
      BY <1>3, <2>2
    <2>4. Active = Server(c)
      BY <1>0, <2>2 DEF IndInv, HoldAt, Active
    <2>5. \A e \in End : e # Server(c) => recvs'[e] = recvs[e]
      BY <1>4, <2>2, <2>4
    <2>6. QED
      BY <2>2, <2>3, <2>5
  <1>10. CASE ServerSent(c, "responded")
    <2>1. /\ ServerPolls(c, "responded", Wc.op = "SEND")
          /\ server' = [server EXCEPT ![c].pc = "round", ![c].index = 0]
          /\ UNCHANGED <<client, recvs, sq>>
      BY <1>10 DEF ServerSent
    <2>2. server'[c].pc = "round" /\ \A d \in Clients : d # c => server'[d] = server[d]
      BY <1>0, <2>1 DEF ShapeInv, ServerState
    <2>3. \A e \in End : e # Server(c) => cq'[e] = cq[e]
      BY <1>5, <2>1
    <2>4. QED
      BY <2>1, <2>2, <2>3
  <1>11. CASE ServerBye(c)
    <2>1. /\ ServerPolls(c, "bye", IsMsg("BYEBYE"))
          /\ server' = [server EXCEPT ![c].pc = "done"] /\ UNCHANGED <<client, recvs, sq>>
      BY <1>11 DEF ServerBye
    <2>2. server'[c].pc = "done" /\ \A d \in Clients : d # c => server'[d] = server[d]
      BY <1>3, <2>1
    <2>3. \A e \in End : e # Server(c) => cq'[e] = cq[e]
      BY <1>5, <2>1
    <2>4. QED
      BY <2>1, <2>2, <2>3
  <1>12. QED
    BY <1>6, <1>7, <1>8, <1>9, <1>10, <1>11

\* The thread polls in the loop over the raw data, or before it.
LEMMA ServerPollBlocks ==
    ASSUME FullInv, BlockInv, NEW c \in Clients, ServerSent(c, "answered") \/ ServerData(c)
    PROVE  BlockInv'
  <1>0. /\ IndInv /\ ShapeInv /\ ServerBlocks(c) /\ server[c] \in ServerState
        /\ server \in [Clients -> ServerState]
    BY Known DEF BlockInv, ShapeInv
  <1>1. PICK pc, good : pc \in {"answered", "data"} /\ ServerPolls(c, pc, good)
    BY DEF ServerSent, ServerData
  <1>2. /\ Len(cq[Server(c)]) \in Nat /\ Len(cq[Server(c)]) >= 1
        /\ Len(cq'[Server(c)]) = Len(cq[Server(c)]) - 1
        /\ \A i \in 1..Len(cq'[Server(c)]) : cq'[Server(c)][i] = cq[Server(c)][i + 1]
        /\ \A f \in End : f # Server(c) => cq'[f] = cq[f]
    BY <1>0, <1>1, ServerTakes
  <1>3. UNCHANGED <<client, recvs, sq>>
    BY DEF ServerSent, ServerData
  <1>4. server'[c].pc # "answered" /\ \A d \in Clients : d # c => server'[d] = server[d]
    <2>1. CASE ServerSent(c, "answered")
      <3>1. server' = [server EXCEPT ![c].pc = "data", ![c].index = 0]
        BY <2>1 DEF ServerSent
      <3>2. QED
        BY <1>0, <3>1 DEF ServerState
    <2>2. CASE ServerData(c)
      <3>1. server[c].pc = "data"
        BY <2>2 DEF ServerData, ServerPolls, Serving
      <3>2. /\ \A d \in Clients : d # c => server'[d] = server[d]
            /\ server'[c].pc \in {"data", "round", "final"}
        BY <1>0, <2>2, <3>1, ServerCounts
      <3>3. QED
        BY <3>2
    <2>3. QED
      BY <2>1, <2>2
  <1>5. Distinct(cq'[Server(c)], recvs'[Server(c)])
    <2>1. PICK q, r, p : /\ q = cq[Server(c)] /\ r = recvs[Server(c)]
                         /\ p = cq'[Server(c)] /\ r = recvs'[Server(c)]
      BY <1>3
    <2>2. /\ Distinct(q, r) /\ Len(q) \in Nat /\ Len(q) >= 1
          /\ Len(p) = Len(q) - 1 /\ \A i \in 1..Len(p) : p[i] = q[i + 1]
      BY <1>0, <1>2, <2>1 DEF ServerBlocks
    <2>3. Distinct(p, r)
      BY <2>2, DistinctPop
    <2>4. QED
      BY <2>1, <2>3
  <1>6. ServerBlocks(c)'
    BY <1>4, <1>5 DEF ServerBlocks
  <1>7. QED
    BY <1>2, <1>3, <1>4, <1>6, ServerEnd

\* The receives of a round have every block of the buffer once.
LEMMA ServerRequestBlocks ==
    ASSUME FullInv, BlockInv, NEW c \in Clients, ServerRequest(c) PROVE BlockInv'
  <1>0. /\ IndInv /\ ShapeInv /\ Server(c) \in End /\ Len(recvs[Server(c)]) \in Nat
        /\ recvs[Server(c)] \in Seq(Receive) /\ recvs \in [End -> Seq(Receive)]
        /\ ring[Server(c)].next \in Int
    BY Known, ConnTypes DEF ShapeInv
  <1>1. /\ server' = [server EXCEPT ![c].pc = "answered"]
        /\ ServerPolls(c, "request", Wc.op = "RECV") /\ client' = client
    BY DEF ServerRequest
  <1>2. /\ server[c].pc = "request" /\ Active = Server(c)
        /\ Len(cq[Server(c)]) \in Nat /\ Len(cq[Server(c)]) >= 1
        /\ Len(cq'[Server(c)]) = Len(cq[Server(c)]) - 1
        /\ \A f \in End : f # Server(c) => cq'[f] = cq[f]
    BY <1>0, <1>1, ServerTakes
  <1>3. PICK new : new = [k \in 1..Count |->
                             [len |-> BlockBytes, block |-> NextBlock(Server(c), k)]]
    OBVIOUS
  <1>4. /\ recvs' = [recvs EXCEPT ![Server(c)] = @ \o new]
        /\ Post(Server(c), Send("RESPONSE_TO_SEND_TEST_REQUEST", AnswerBytes, 1, "zero"))
    BY <1>2, <1>3 DEF ServerRequest
  <1>5. \A d \in Clients : d # c => server'[d] = server[d]
    BY <1>0, <1>1, ServerFields
  <1>6. /\ Len(cq[Server(c)]) = Cap(server[c]) - Len(recvs[Server(c)])
        /\ Len(sq[Server(c)]) = 0 /\ Cap(server[c]) = 1
    BY <1>2, QuietQueue DEF Cap
  <1>7. Len(recvs[Server(c)]) = 0 /\ Len(cq'[Server(c)]) = 0
    BY <1>0, <1>2, <1>6
  <1>8. /\ Len(sq'[Server(c)]) = 1
        /\ sq'[Server(c)][1] = Send("RESPONSE_TO_SEND_TEST_REQUEST", AnswerBytes, 1, "zero")
        /\ \A f \in End : f # Server(c) => sq'[f] = sq[f]
    BY <1>0, <1>4, <1>6, FirstPost
  <1>9. \A i \in 1..Len(sq'[Server(c)]) : sq'[Server(c)][i].len = 0
    BY <1>8 DEF Send, AnswerBytes
  <1>10. recvs'[Server(c)] = new /\ \A f \in End : f # Server(c) => recvs'[f] = recvs[f]
    <2>1. new \in Seq(Receive)
      BY <1>0, <1>3, RoundReceives
    <2>2. recvs[Server(c)] = <<>>
      BY <1>0, <1>7
    <2>3. <<>> \o new = new
      BY <2>1, ConcatEmptySeq
    <2>4. recvs' = [recvs EXCEPT ![Server(c)] = new]
      BY <1>4, <2>2, <2>3
    <2>5. QED
      BY <1>0, <2>4
  <1>11. ASSUME NEW i \in 1..Len(new), NEW j \in 1..Len(new), new[i].block = new[j].block
         PROVE  i = j
    <2>1. PICK b \in Int : b = ring[Server(c)].next
      BY <1>0
    <2>2. Len(new) = Count /\ Count \in Nat /\ Count > 0
      BY <1>0, <1>3, RoundReceives, Constants
    <2>3. i \in 1..Count /\ j \in 1..Count
      BY <2>2
    <2>4. new[i].block = (b + i) % Count /\ new[j].block = (b + j) % Count
      BY <1>3, <2>1, <2>3 DEF NextBlock
    <2>5. QED
      BY <1>11, <2>2, <2>3, <2>4, RingBlocks
  <1>12. Distinct(cq'[Server(c)], recvs'[Server(c)])
    <2>1. \A i \in 1..Len(cq'[Server(c)]) : FALSE
      BY <1>7
    <2>2. QED
      BY <1>10, <1>11, <2>1 DEF Distinct
  <1>13. ServerBlocks(c)'
    BY <1>9, <1>12 DEF ServerBlocks
  <1>14. QED
    BY <1>1, <1>2, <1>5, <1>8, <1>10, <1>13, ServerEnd

LEMMA InitBlocks == Init => BlockInv
  <1>1. SUFFICES ASSUME Init, NEW c \in Clients PROVE ServerBlocks(c) /\ ClientBlocks(c)
    BY DEF BlockInv
  <1>2. ASSUME NEW e \in {Client(c), Server(c)}
        PROVE  Len(sq[e]) = 0 /\ Len(cq[e]) = 0 /\ Len(recvs[e]) = 0
    BY <1>1, EndFacts DEF Init
  <1>3. \A i \in 1..0 : FALSE
    OBVIOUS
  <1>4. QED
    BY <1>2, <1>3 DEF ServerBlocks, ClientBlocks, Distinct

LEMMA StepBlocks == ASSUME FullInv, FullInv', BlockInv, [Next]_vars PROVE BlockInv'
  <1>0. ShapeInv
    BY DEF FullInv, IndInv
  <1>1. ASSUME NEW c \in Clients, ClientStep(c) PROVE BlockInv'
    <2>1. CASE \E pc \in {"exchange", "answer"} : ClientAwait(c, pc)
      BY <2>1, ClientAwaitBlocks
    <2>2. CASE \E test \in Tests : ClientPost(c, test) \/ ClientPoll(c, test)
      BY <2>2, ClientTestBlocks
    <2>3. QED
      BY <1>1, <2>1, <2>2, ClientSetUpBlocks, ClientLeaveBlocks DEF ClientStep
  <1>2. ASSUME NEW c \in Clients, ServerStep(c) PROVE BlockInv'
    <2>1. CASE \E pc \in {"responded", "answered"} : ServerSent(c, pc)
      BY <2>1, ServerFewBlocks, ServerPollBlocks
    <2>2. CASE \E pc \in {"round", "final"} : ServerPostControl(c, pc)
      BY <2>2, ServerFewBlocks
    <2>3. QED
      BY <1>2, <2>1, <2>2, ServerFewBlocks, ServerPollBlocks, ServerRequestBlocks
      DEF ServerStep
  <1>3. ASSUME NEW e \in End, Execute(e) \/ Acknowledge(e) PROVE BlockInv'
    BY <1>0, <1>3, SendBlockInv, RdmaBlockInv, AckBlockInv DEF Execute
  <1>4. CASE UNCHANGED vars
    <2>1. UNCHANGED <<client, server, recvs, sq, cq>>
      BY <1>4 DEF vars, nic
    <2>2. ASSUME NEW c \in Clients PROVE ServerBlocks(c)' /\ ClientBlocks(c)'
      <3>1. ServerBlocks(c) /\ ClientBlocks(c)
        BY DEF BlockInv
      <3>2. QED
        BY <2>1, <3>1, ServerBlocksSame, ClientBlocksSame
    <2>3. QED
      BY <2>2 DEF BlockInv
  <1>5. QED
    BY <1>1, <1>2, <1>3, <1>4 DEF Next

\* No message leaves from a block with a receive.
Apart(e) ==
    \A i \in 1..Len(sq[e]) : sq[e][i].len > 0 =>
       /\ \A j \in 1..Len(recvs[e]) : recvs[e][j].block # sq[e][i].block
       /\ \A j \in 1..Len(cq[e]) : cq[e][j].op = "RECV" => cq[e][j].block # sq[e][i].block

LEMMA ClientApart ==
    ASSUME FullInv, BlockInv, NEW c \in Clients
    PROVE  Distinct(cq[Client(c)], recvs[Client(c)]) /\ Apart(Client(c))
  <1>0. /\ WaitQueue(c) /\ WorkQueue(c) /\ RecvQueue(c) /\ ClientBlocks(c)
        /\ Len(recvs[Client(c)]) \in Nat
    BY Known DEF BlockInv
  <1>1. \A i, j \in 1..Len(recvs[Client(c)]) : i = j
    <2>1. Len(recvs[Client(c)]) = 0 \/ Len(recvs[Client(c)]) = 1
      BY <1>0 DEF RecvQueue
    <2>2. (\A i, j \in 1..0 : i = j) /\ (\A i, j \in 1..1 : i = j)
      OBVIOUS
    <2>3. QED
      BY <2>1, <2>2
  <1>2. CASE Waits(client[c])
    <2>1. /\ \A i, j \in 1..Len(cq[Client(c)]) :
                cq[Client(c)][i].op = cq[Client(c)][j].op => i = j
          /\ Got(c, "RECV") => Here(c)
      BY <1>0, <1>2, Zenon DEF WaitQueue
    <2>2. ASSUME NEW i \in 1..Len(recvs[Client(c)]), NEW j \in 1..Len(cq[Client(c)]),
                 cq[Client(c)][j].op = "RECV"
          PROVE  FALSE
      <3>1. Here(c)
        BY <2>1, <2>2 DEF Got
      <3>2. Len(recvs[Client(c)]) = 0
        BY <1>0, <1>2, <3>1 DEF RecvQueue, Waits
      <3>3. QED
        BY <2>2, <3>2
    <2>3. Distinct(cq[Client(c)], recvs[Client(c)])
      BY <1>1, <2>1, <2>2 DEF Distinct
    <2>4. Apart(Client(c))
      <3>1. /\ \A j \in 1..Len(recvs[Client(c)]) : recvs[Client(c)][j].block = 0
            /\ \A j \in 1..Len(cq[Client(c)]) :
                  cq[Client(c)][j].op = "RECV" => cq[Client(c)][j].block = 0
            /\ \A i \in 1..Len(sq[Client(c)]) : sq[Client(c)][i].block = 1
        BY <1>0, <1>2, Zenon DEF ClientBlocks
      <3>2. 0 # 1
        OBVIOUS
      <3>3. QED
        BY <3>1, <3>2, Zenon DEF Apart
    <2>5. QED
      BY <2>3, <2>4
  <1>3. CASE ~Waits(client[c])
    <2>1. \A i \in 1..Len(cq[Client(c)]) : cq[Client(c)][i].op # "RECV"
      <3>1. ClientOp(client[c].pc) # "RECV"
        BY DEF ClientOp, TestOp
      <3>2. QED
        BY <1>0, <1>3, <3>1 DEF WorkQueue
    <2>2. Distinct(cq[Client(c)], recvs[Client(c)])
      BY <1>1, <2>1 DEF Distinct
    <2>3. ASSUME NEW i \in 1..Len(sq[Client(c)]), NEW j \in 1..Len(recvs[Client(c)])
          PROVE  FALSE
      <3>1. CASE client[c].pc \in {"sync", "synced"}
        <4>1. Len(sq[Client(c)]) = 0
          BY <3>1, IdleEmpty
        <4>2. QED
          BY <2>3, <4>1
      <3>2. CASE client[c].pc \notin {"sync", "synced"}
        <4>1. Len(recvs[Client(c)]) = 0
          BY <1>0, <1>3, <3>2 DEF RecvQueue
        <4>2. QED
          BY <2>3, <4>1
      <3>3. QED
        BY <3>1, <3>2
    <2>4. Apart(Client(c))
      BY <2>1, <2>3 DEF Apart
    <2>5. QED
      BY <2>2, <2>4
  <1>4. QED
    BY <1>2, <1>3

LEMMA ServerApart ==
    ASSUME FullInv, BlockInv, NEW c \in Clients
    PROVE  Distinct(cq[Server(c)], recvs[Server(c)]) /\ Apart(Server(c))
  <1>0. /\ ServerQueue(c) /\ ServerBlocks(c)
        /\ Place(client[c], server[c], Len(sq[Client(c)]), Len(recvs[Server(c)]))
        /\ Token(client[c], server[c], Len(sq[Server(c)]), Len(unacked[Server(c)]))
        /\ Len(sq[Server(c)]) \in Nat
    BY Known DEF BlockInv
  <1>1. SUFFICES ASSUME NEW i \in 1..Len(sq[Server(c)]), sq[Server(c)][i].len > 0
                 PROVE  Len(recvs[Server(c)]) = 0 /\ Len(cq[Server(c)]) = 0
    <2>1. \A j \in 1..0 : FALSE
      OBVIOUS
    <2>2. QED
      BY <1>0, <2>1 DEF ServerBlocks, Apart
  <1>2. Len(sq[Server(c)]) # 0
    BY <1>1
  <1>3. server[c].pc = "responded"
    <2>1. server[c].pc \in {"responded", "answered"}
      BY <1>0, <1>2 DEF Token
    <2>2. server[c].pc = "answered" => sq[Server(c)][i].len = 0
      BY <1>0, <1>1 DEF ServerBlocks
    <2>3. QED
      BY <1>1, <2>1, <2>2
  <1>4. Len(recvs[Server(c)]) = 0
    BY <1>0, <1>3 DEF Place
  <1>5. /\ Cap(server[c]) = 0
        /\ Own(server[c], Len(sq[Server(c)]), Len(unacked[Server(c)])) = 0
    BY <1>2, <1>3 DEF Cap, Own
  <1>6. Len(cq[Server(c)]) = 0 + 0 - 0
    BY <1>0, <1>4, <1>5 DEF ServerQueue
  <1>7. QED
    BY <1>4, <1>6

LEMMA BlocksApart == ASSUME FullInv, BlockInv PROVE NoBlockInUseTwice
  <1>1. SUFFICES ASSUME NEW e \in End
                 PROVE  LET posted == {recvs[e][i].block : i \in DOMAIN recvs[e]}
                            arrived == {cq[e][i].block : i \in Arrived(e)}
                        IN
                        /\ \A i, j \in DOMAIN recvs[e] :
                              recvs[e][i].block = recvs[e][j].block => i = j
                        /\ \A i, j \in Arrived(e) : cq[e][i].block = cq[e][j].block => i = j
                        /\ posted \cap arrived = {}
                        /\ \A i \in DOMAIN sq[e] :
                              sq[e][i].len > 0 => sq[e][i].block \notin posted \cup arrived
    BY DEF NoBlockInUseTwice
  <1>2. Distinct(cq[e], recvs[e]) /\ Apart(e)
    <2>1. PICK c \in Clients : e = Client(c) \/ e = Server(c)
      BY EndFacts
    <2>2. QED
      BY <2>1, ClientApart, ServerApart
  <1>3. /\ DOMAIN recvs[e] = 1..Len(recvs[e]) /\ DOMAIN sq[e] = 1..Len(sq[e])
        /\ DOMAIN cq[e] = 1..Len(cq[e])
    <2>1. recvs[e] \in Seq(Receive) /\ sq[e] \in Seq(Request) /\ cq[e] \in Seq(Completion)
      BY DEF FullInv, IndInv, ShapeInv
    <2>2. \A S, q : q \in Seq(S) => DOMAIN q = 1..Len(q)
      OBVIOUS
    <2>3. QED
      BY <2>1, <2>2
  <1>4. \A i : i \in Arrived(e) <=> i \in 1..Len(cq[e]) /\ cq[e][i].op = "RECV"
    BY <1>3 DEF Arrived
  <1>5. \A i, j \in DOMAIN recvs[e] : recvs[e][i].block = recvs[e][j].block => i = j
    BY <1>2, <1>3 DEF Distinct
  <1>6. \A i, j \in Arrived(e) : cq[e][i].block = cq[e][j].block => i = j
    BY <1>2, <1>4 DEF Distinct
  <1>7. {recvs[e][i].block : i \in DOMAIN recvs[e]} \cap {cq[e][i].block : i \in Arrived(e)} = {}
    <2>1. \A i \in DOMAIN recvs[e], j \in Arrived(e) : recvs[e][i].block # cq[e][j].block
      BY <1>2, <1>3, <1>4 DEF Distinct
    <2>2. QED
      BY <2>1
  <1>8. \A i \in DOMAIN sq[e] : sq[e][i].len > 0 =>
           sq[e][i].block \notin {recvs[e][j].block : j \in DOMAIN recvs[e]}
                                    \cup {cq[e][j].block : j \in Arrived(e)}
    <2>1. ASSUME NEW i \in DOMAIN sq[e], sq[e][i].len > 0
          PROVE  /\ \A j \in DOMAIN recvs[e] : recvs[e][j].block # sq[e][i].block
                 /\ \A j \in Arrived(e) : cq[e][j].block # sq[e][i].block
      BY <1>2, <1>3, <1>4, <2>1 DEF Apart
    <2>2. QED
      BY <2>1
  <1>9. QED
    BY <1>5, <1>6, <1>7, <1>8

\* A block that has a receive in flight is neither that of another receive nor sent,
\* written or read from, for any number of clients, blocks and rounds: the Count receives
\* of a round take the ring exactly once around, and the answer of a round, which leaves
\* from a block with a receive, has no bytes (rdma_buffer.h:105, 116,
\* lat_bw_benchmark.cc:483-489).
THEOREM BlocksSafe == SleepCovers => (Spec => []NoBlockInUseTwice)
  <1>1. SUFFICES ASSUME SleepCovers PROVE Spec => []NoBlockInUseTwice
    OBVIOUS
  <1>2. Spec => []FullInv
    BY <1>1, Connected
  <1>3. Init => BlockInv
    BY InitBlocks
  <1>4. FullInv /\ FullInv' /\ BlockInv /\ [Next]_vars => BlockInv'
    BY StepBlocks
  <1>5. FullInv /\ BlockInv => NoBlockInUseTwice
    BY BlocksApart
  <1>6. QED
    BY <1>2, <1>3, <1>4, <1>5, PTL DEF Spec

-----------------------------------------------------------------------------
(* The counters of the rings *)

\* The tests of a client that take blocks from the ring, and how many rounds of them
\* are behind it.
Loops == {"data", "write", "read", "bw"}

Turn(C) ==
    CASE C.pc = "write" -> Rounds + (C.round - 1)
      [] C.pc = "read" -> 2 * Rounds + (C.round - 1)
      [] C.pc = "bw" -> 3 * Rounds + (C.round - 1)
      [] C.pc \in {"fake", "bye", "leaving", "exited"} -> 4 * Rounds
      [] OTHER -> C.round - 1

\* A counter starts at -1, and has been advanced for t rounds and i operations at most.
Within(x, t, i) == -1 <= x /\ x + 1 <= t * Count + i

ClientRing(c) ==
    LET C == client[c] IN
    /\ Within(ring[Client(c)].next, Turn(C), IF C.pc \in Loops THEN C.index ELSE 0)
    /\ Within(ring[Client(c)].last, Turn(C), IF C.pc \in Loops THEN C.confirm ELSE 0)

\* The rounds a thread has posted receives for, and the receives of its round that it
\* has polled.
Given(S) ==
    IF S.pc \in {"answered", "data", "final", "bye", "done"} THEN S.round ELSE S.round - 1
Taken(S) ==
    CASE S.pc = "data" -> S.index [] S.pc \in {"final", "bye", "done"} -> Count [] OTHER -> 0

ServerRing(c) ==
    /\ Within(ring[Server(c)].next, Given(server[c]), 0)
    /\ Within(ring[Server(c)].last, server[c].round - 1, Taken(server[c]))

RingInv == \A c \in Clients : ClientRing(c) /\ ServerRing(c)

\* Rounds of Count operations.
LEMMA Times ==
    \A t \in Nat : t * Count \in Nat /\ (t + 1) * Count = t * Count + Count
  BY Constants

LEMMA TimesMore == \A t, u \in Nat : t <= u => t * Count <= u * Count
  <1>1. SUFFICES ASSUME NEW t \in Nat, NEW u \in Nat, t <= u PROVE t * Count <= u * Count
    OBVIOUS
  <1>2. PICK d \in Nat : u = t + d
    <2>1. u - t \in Nat /\ u = t + (u - t)
      BY <1>1
    <2>2. QED
      BY <2>1
  <1>3. d * Count \in Nat /\ t * Count \in Nat
    BY Times
  <1>4. u * Count = t * Count + d * Count
    BY <1>2, Constants
  <1>5. QED
    BY <1>3, <1>4

LEMMA TurnType ==
    ASSUME NEW C \in ClientState
    PROVE  /\ Turn(C) \in Nat /\ Turn(C) <= 4 * Rounds
           /\ C.pc \in Loops => Turn(C) + 1 <= 4 * Rounds
  <1>1. PICK r, n \in Nat : r = C.round /\ n = Rounds /\ r >= 1 /\ r <= n
    BY Fields, Constants
  <1>2. /\ r - 1 \in Nat /\ r - 1 + 1 <= 4 * n /\ n + (r - 1) \in Nat
        /\ n + (r - 1) + 1 <= 4 * n /\ 2 * n + (r - 1) \in Nat
        /\ 2 * n + (r - 1) + 1 <= 4 * n /\ 3 * n + (r - 1) \in Nat
        /\ 3 * n + (r - 1) + 1 <= 4 * n /\ 4 * n \in Nat
    BY <1>1
  <1>3. CASE C.pc \in {"write", "read", "bw"}
    BY <1>1, <1>2, <1>3 DEF Turn
  <1>4. CASE C.pc \in {"fake", "bye", "leaving", "exited"}
    BY <1>1, <1>2, <1>4 DEF Turn, Loops
  <1>5. CASE C.pc \notin {"write", "read", "bw", "fake", "bye", "leaving", "exited"}
    BY <1>1, <1>2, <1>5 DEF Turn
  <1>6. QED
    BY <1>3, <1>4, <1>5

\* The bounds of TypeOK.
LEMMA RingBound ==
    ASSUME NEW x \in Int, NEW t \in Nat, NEW i \in Nat, Within(x, t, i), i <= Count,
           t <= 4 * Rounds, i = 0 \/ t + 1 <= 4 * Rounds
    PROVE  x \in -1..(4 * Rounds * Count)
  <1>1. PICK m, n \in Nat : m = 4 * Rounds /\ n = Count
    BY Constants
  <1>2. PICK a, b \in Nat : a = t * Count /\ b = m * Count
    BY <1>1, Times
  <1>3. -1 <= x /\ x + 1 <= a + i
    BY <1>2 DEF Within
  <1>4. a + i <= b
    <2>1. CASE i = 0
      BY <1>1, <1>2, <2>1, TimesMore
    <2>2. CASE t + 1 <= m
      <3>1. PICK s \in Nat : s = t + 1 /\ s <= m
        BY <2>2
      <3>2. s * Count <= m * Count
        BY <3>1, TimesMore
      <3>3. s * Count = a + n
        BY <1>1, <1>2, <3>1, Times
      <3>4. i <= n
        BY <1>1
      <3>5. QED
        BY <1>2, <3>2, <3>3, <3>4
    <2>3. QED
      BY <1>1, <2>1, <2>2
  <1>5. -1 <= x /\ x <= b
    BY <1>3, <1>4
  <1>6. b = 4 * Rounds * Count
    BY <1>1, <1>2
  <1>7. QED
    BY <1>5, <1>6

LEMMA OneRing ==
    ASSUME RingInv, NEW c \in Clients, ClientRing(c)', ServerRing(c)',
           \A d \in Clients : d # c => client'[d] = client[d] /\ server'[d] = server[d],
           \A e \in End : e \notin {Client(c), Server(c)} => ring'[e] = ring[e]
    PROVE  RingInv'
  <1>1. SUFFICES ASSUME NEW d \in Clients, d # c PROVE ClientRing(d)' /\ ServerRing(d)'
    BY DEF RingInv
  <1>2. ClientRing(d) /\ ServerRing(d)
    BY DEF RingInv
  <1>3. /\ Client(d) \in End /\ Server(d) \in End
        /\ Client(d) \notin {Client(c), Server(c)} /\ Server(d) \notin {Client(c), Server(c)}
    BY <1>1, EndFacts
  <1>4. /\ ring'[Client(d)] = ring[Client(d)] /\ ring'[Server(d)] = ring[Server(d)]
        /\ client'[d] = client[d] /\ server'[d] = server[d]
    BY <1>1, <1>3
  <1>5. ClientRing(d)'
    BY <1>2, <1>4 DEF ClientRing
  <1>6. ServerRing(d)'
    BY <1>2, <1>4 DEF ServerRing
  <1>7. QED
    BY <1>5, <1>6

LEMMA RingOfClient ==
    ASSUME RingInv, NEW c \in Clients, ClientRing(c)', server' = server,
           \A d \in Clients : d # c => client'[d] = client[d],
           \A e \in End : e # Client(c) => ring'[e] = ring[e]
    PROVE  RingInv'
  <1>1. Server(c) \in End /\ Server(c) # Client(c) /\ ServerRing(c)
    BY EndFacts DEF RingInv
  <1>2. ring'[Server(c)] = ring[Server(c)] /\ server'[c] = server[c]
    BY <1>1
  <1>3. ServerRing(c)'
    BY <1>1, <1>2 DEF ServerRing
  <1>4. /\ \A e \in End : e \notin {Client(c), Server(c)} => ring'[e] = ring[e]
        /\ \A d \in Clients : d # c => server'[d] = server[d]
    OBVIOUS
  <1>5. QED
    BY <1>3, <1>4, OneRing

LEMMA RingOfServer ==
    ASSUME RingInv, NEW c \in Clients, ServerRing(c)', client' = client,
           \A d \in Clients : d # c => server'[d] = server[d],
           \A e \in End : e # Server(c) => ring'[e] = ring[e]
    PROVE  RingInv'
  <1>1. Client(c) \in End /\ Server(c) # Client(c) /\ ClientRing(c)
    BY EndFacts DEF RingInv
  <1>2. ring'[Client(c)] = ring[Client(c)] /\ client'[c] = client[c]
    BY <1>1
  <1>3. ClientRing(c)'
    BY <1>1, <1>2 DEF ClientRing
  <1>4. /\ \A e \in End : e \notin {Client(c), Server(c)} => ring'[e] = ring[e]
        /\ \A d \in Clients : d # c => client'[d] = client[d]
    OBVIOUS
  <1>5. QED
    BY <1>3, <1>4, OneRing

\* The steps of a client outside of the tests.
LEMMA ClientSameTurn ==
    ASSUME FullInv, RingInv, NEW c \in Clients,
           \/ ClientRegister(c) \/ ClientSyncSend(c) \/ ClientSyncRecv(c) \/ ClientRequest(c)
           \/ (\E pc \in {"exchange", "answer"} : ClientAwait(c, pc))
           \/ ClientBye(c) \/ ClientExit(c)
    PROVE  RingInv'
  <1>0. IndInv /\ ShapeInv /\ ClientRing(c)
    BY Known DEF RingInv
  <1>1. ring' = ring /\ server' = server
    BY DEF ClientRegister, ClientSyncSend, ClientSyncRecv, ClientRequest, ClientAwait,
           ClientBye, ClientExit
  <1>2. SUFFICES /\ client'[c].round = client[c].round /\ client[c].pc \notin Loops
                 /\ \/ /\ client[c].pc \in {"bye", "leaving"}
                       /\ client'[c].pc \in {"leaving", "exited"}
                    \/ /\ client[c].pc \in {"start", "sync", "synced", "exchange", "request",
                                           "answer"}
                       /\ client'[c].pc \in {"sync", "synced", "exchange", "request",
                                            "answer", "data"}
                       /\ client'[c].pc = "data" =>
                             client'[c].index = 0 /\ client'[c].confirm = 0
                 /\ \A d \in Clients : d # c => client'[d] = client[d]
    <2>1. Turn(client'[c]) = Turn(client[c])
      BY <1>2 DEF Turn
    <2>2. /\ (IF client[c].pc \in Loops THEN client[c].index ELSE 0) = 0
          /\ (IF client[c].pc \in Loops THEN client[c].confirm ELSE 0) = 0
          /\ (IF client'[c].pc \in Loops THEN client'[c].index ELSE 0) = 0
          /\ (IF client'[c].pc \in Loops THEN client'[c].confirm ELSE 0) = 0
      BY <1>2 DEF Loops
    <2>3. ClientRing(c)'
      BY <1>0, <1>1, <2>1, <2>2 DEF ClientRing
    <2>4. QED
      BY <1>1, <1>2, <2>3, RingOfClient
  <1>3. CASE \E pc \in {"exchange", "answer"} : ClientAwait(c, pc)
    <2>1. PICK pc \in {"exchange", "answer"} : ClientAwait(c, pc)
      BY <1>3
    <2>2. client[c].pc = pc
      BY <2>1 DEF ClientAwait, Running
    <2>3. PICK D \in ClientState, wc \in Completion, s \in BOOLEAN, t \in BOOLEAN :
             Awaited(c, pc, D, wc, s, t)
      BY <1>0, <2>1, ClientAwaitFacts
    <2>4. /\ client'[c] = D /\ D.round = client[c].round
          /\ \A d \in Clients : d # c => client'[d] = client[d]
          /\ \/ D.pc = pc
             \/ /\ D.pc = IF pc = "exchange" THEN "request" ELSE "data"
                /\ D.index = 0 /\ D.confirm = 0
      BY <2>3, Zenon DEF Awaited
    <2>5. QED
      BY <2>2, <2>4 DEF Loops
  <1>4. CASE \/ ClientRegister(c) \/ ClientSyncSend(c) \/ ClientSyncRecv(c)
             \/ ClientRequest(c) \/ ClientBye(c) \/ ClientExit(c)
    <2> DEFINE Goes(pc, to) == client[c].pc = pc /\ client' = [client EXCEPT ![c].pc = to]
    <2>1. \/ Goes("start", "sync") \/ Goes("sync", "synced") \/ Goes("synced", "exchange")
          \/ Goes("request", "answer") \/ Goes("bye", "leaving") \/ Goes("leaving", "exited")
      BY <1>4 DEF ClientRegister, ClientSyncSend, ClientSyncRecv, ClientRequest, ClientBye,
                  ClientExit, Running
    <2>2. ASSUME NEW pc, NEW to, Goes(pc, to)
          PROVE  /\ client[c].pc = pc /\ client'[c].pc = to
                 /\ client'[c].round = client[c].round
                 /\ \A d \in Clients : d # c => client'[d] = client[d]
      <3>1. client' = [client EXCEPT ![c].pc = to]
        BY <2>2
      <3>2. QED
        BY <1>0, <2>2, <3>1, ClientFields
    <2> HIDE DEF Goes
    <2>3. /\ client'[c].round = client[c].round
          /\ \A d \in Clients : d # c => client'[d] = client[d]
          /\ \/ client[c].pc = "start" /\ client'[c].pc = "sync"
             \/ client[c].pc = "sync" /\ client'[c].pc = "synced"
             \/ client[c].pc = "synced" /\ client'[c].pc = "exchange"
             \/ client[c].pc = "request" /\ client'[c].pc = "answer"
             \/ client[c].pc = "bye" /\ client'[c].pc = "leaving"
             \/ client[c].pc = "leaving" /\ client'[c].pc = "exited"
      BY <2>1, <2>2, Zenon
    <2>4. QED
      BY <2>3 DEF Loops
  <1>5. QED
    BY <1>3, <1>4

LEMMA ClientPostRing ==
    ASSUME FullInv, RingInv, NEW c \in Clients, NEW test \in Tests, ClientPost(c, test)
    PROVE  RingInv'
  <1>0. /\ ShapeInv /\ ClientRing(c) /\ Client(c) \in End /\ client[c] \in ClientState
        /\ ring \in [End -> [next : Int, last : Int]] /\ client \in [Clients -> ClientState]
    BY Known DEF RingInv, ShapeInv
  <1>1. /\ client[c].pc = test /\ client' = [client EXCEPT ![c].index = @ + 1]
        /\ ring' = IF test = "fake" THEN ring ELSE [ring EXCEPT ![Client(c)].next = @ + 1]
        /\ server' = server
    BY DEF ClientPost, Running
  <1>2. /\ client'[c].pc = test /\ client'[c].round = client[c].round
        /\ client'[c].index = client[c].index + 1 /\ client'[c].confirm = client[c].confirm
        /\ \A d \in Clients : d # c => client'[d] = client[d]
    BY <1>0, <1>1 DEF ClientState
  <1>3. Turn(client'[c]) = Turn(client[c])
    BY <1>1, <1>2 DEF Turn
  <1>4. CASE test = "fake"
    <2>1. ClientRing(c)'
      BY <1>0, <1>1, <1>2, <1>3, <1>4 DEF ClientRing, Loops
    <2>2. QED
      BY <1>1, <1>2, <1>4, <2>1, RingOfClient
  <1>5. CASE test # "fake"
    <2>1. /\ ring'[Client(c)].next = ring[Client(c)].next + 1
          /\ ring'[Client(c)].last = ring[Client(c)].last
          /\ \A e \in End : e # Client(c) => ring'[e] = ring[e]
      BY <1>0, <1>1, <1>5
    <2>2. test \in Loops
      BY <1>5 DEF Loops, Tests
    <2>3. PICK x \in Int, a \in Nat, i \in Nat :
             x = ring[Client(c)].next /\ a = Turn(client[c]) * Count /\ i = client[c].index
      BY <1>0, TurnType, Times, Fields
    <2>4. -1 <= x /\ x + 1 <= a + i
      BY <1>0, <1>1, <2>2, <2>3 DEF ClientRing, Within
    <2>5. -1 <= x + 1 /\ x + 1 + 1 <= a + (i + 1)
      BY <2>4
    <2>6. Within(ring'[Client(c)].next, Turn(client'[c]), client'[c].index)
      BY <1>2, <1>3, <2>1, <2>3, <2>5 DEF Within
    <2>7. Within(ring'[Client(c)].last, Turn(client'[c]), client'[c].confirm)
      BY <1>0, <1>1, <1>2, <1>3, <2>1, <2>2 DEF ClientRing
    <2>8. ClientRing(c)'
      BY <1>2, <2>2, <2>6, <2>7 DEF ClientRing
    <2>9. QED
      BY <1>1, <1>2, <2>1, <2>8, RingOfClient
  <1>6. QED
    BY <1>4, <1>5

\* The last poll of a round: the next round, or the next test.
LEMMA FollowsTurn ==
    ASSUME NEW r \in [pc : ClientPc, round : 1..Rounds, index : 0..Count, confirm : Nat,
                      sent : BOOLEAN, rcvd : BOOLEAN],
           r.pc \in Tests
    PROVE  /\ Follows(r).index = 0 /\ Follows(r).confirm = 0
           /\ r.pc # "fake" => Turn(Follows(r)) = Turn(r) + 1
           /\ r.pc = "fake" => Follows(r).pc \in {"fake", "bye"}
  <1>1. r.round \in Nat /\ r.round >= 1 /\ r.round <= Rounds /\ Rounds \in Nat
    BY Constants
  <1>2. PICK p, n : /\ p = IF r.round < Rounds THEN (IF r.pc = "data" THEN "request" ELSE r.pc)
                           ELSE CASE r.pc = "data" -> "write" [] r.pc = "write" -> "read"
                                  [] r.pc = "read" -> "bw"    [] r.pc = "bw" -> "fake"
                                  [] r.pc = "fake" -> "bye"
                    /\ n = IF r.round < Rounds THEN r.round + 1 ELSE 1
    OBVIOUS
  <1>3. Follows(r) = [r EXCEPT !.pc = p, !.round = n, !.index = 0, !.confirm = 0]
    BY <1>2 DEF Follows
  <1>4. /\ Follows(r).pc = p /\ Follows(r).round = n
        /\ Follows(r).index = 0 /\ Follows(r).confirm = 0
    BY <1>3
  <1>5. r.pc \in {"data", "write", "read", "bw", "fake"}
    BY DEF Tests
  <1>6. r.pc = "fake" => p \in {"fake", "bye"}
    BY <1>2
  <1>7. ASSUME r.pc # "fake" PROVE Turn(Follows(r)) = Turn(r) + 1
    <2>1. CASE r.round < Rounds
      <3>1. n = r.round + 1 /\ p = IF r.pc = "data" THEN "request" ELSE r.pc
        BY <1>2, <2>1
      <3>2. QED
        BY <1>1, <1>4, <1>5, <1>7, <3>1 DEF Turn
    <2>2. CASE ~(r.round < Rounds)
      <3>1. r.round = Rounds /\ n = 1
        BY <1>1, <1>2, <2>2
      <3>2. p = CASE r.pc = "data" -> "write" [] r.pc = "write" -> "read"
                  [] r.pc = "read" -> "bw"    [] r.pc = "bw" -> "fake"
                  [] r.pc = "fake" -> "bye"
        BY <1>2, <2>2
      <3>3. \/ r.pc = "data" /\ p = "write"
            \/ r.pc = "write" /\ p = "read"
            \/ r.pc = "read" /\ p = "bw"
            \/ r.pc = "bw" /\ p = "fake"
        BY <1>5, <1>7, <3>2
      <3>4. QED
        BY <1>1, <1>4, <3>1, <3>3 DEF Turn
    <2>3. QED
      BY <2>1, <2>2
  <1>8. QED
    BY <1>4, <1>6, <1>7

LEMMA PollTurn ==
    ASSUME IndInv, NEW c \in Clients, NEW test \in Tests, ClientPoll(c, test),
           client'[c].confirm = 0
    PROVE  /\ test # "fake" => Turn(client'[c]) = Turn(client[c]) + 1
           /\ test = "fake" => client'[c].pc \in {"fake", "bye"}
           /\ client'[c].index = 0
  <1> DEFINE n == IF test \in Bursts THEN Batch ELSE 1
             got == Polled(Client(c), n)
             confirm == client[c].confirm + Len(got)
             r == [client[c] EXCEPT !.confirm = confirm]
  <1>1. /\ ShapeInv /\ Client(c) \in End /\ client[c] \in ClientState
        /\ client \in [Clients -> ClientState]
    BY EndFacts DEF IndInv, ShapeInv
  <1>2. /\ client[c].pc = test /\ Poll(Client(c), n)
        /\ client' = [client EXCEPT ![c] = IF confirm >= Count THEN Follows(r) ELSE r]
    BY DEF ClientPoll, Running
  <1>3. PICK m \in Nat : m = n /\ m >= 1
    BY Constants
  <1>4. PICK k \in Nat : k >= 1 /\ Len(got) = k
    <2>1. Poll(Client(c), m) /\ got = Polled(Client(c), m)
      BY <1>2, <1>3
    <2> HIDE DEF got, n
    <2>2. QED
      BY <1>1, <1>3, <2>1, PollFacts
  <1>5. client'[c] = IF confirm >= Count THEN Follows(r) ELSE r
    BY <1>1, <1>2
  <1> HIDE DEF n, got
  <1>6. PICK t \in Nat : t = confirm /\ t >= 1
    <2>1. client[c].confirm \in Nat
      BY <1>1, Fields
    <2>2. confirm = client[c].confirm + k
      BY <1>4
    <2> HIDE DEF confirm
    <2>3. QED
      BY <2>1, <2>2, <1>4
  <1> HIDE DEF confirm
  <1>7. /\ r \in [pc : ClientPc, round : 1..Rounds, index : 0..Count, confirm : Nat,
                 sent : BOOLEAN, rcvd : BOOLEAN]
        /\ r.pc = test /\ r.confirm = t /\ r.round = client[c].round
    <2>1. r = [client[c] EXCEPT !.confirm = t]
      BY <1>6
    <2> HIDE DEF r
    <2>2. QED
      BY <1>1, <1>2, <2>1, Zenon DEF ClientState
  <1> HIDE DEF r
  <1>8. client'[c] = Follows(r)
    <2>1. r.confirm # 0
      BY <1>6, <1>7
    <2>2. QED
      BY <1>5, <2>1
  <1>9. Turn(r) = Turn(client[c])
    BY <1>2, <1>7 DEF Turn
  <1>10. QED
    BY <1>7, <1>8, <1>9, FollowsTurn

LEMMA ClientPollRing ==
    ASSUME FullInv, RingInv, NEW c \in Clients, NEW test \in Tests, ClientPoll(c, test)
    PROVE  RingInv'
  <1>0. /\ IndInv /\ ClientRing(c) /\ Client(c) \in End /\ client[c] \in ClientState
        /\ ring \in [End -> [next : Int, last : Int]] /\ WorkQueue(c)
        /\ Len(sq[Client(c)]) \in Nat /\ Len(unacked[Client(c)]) \in Nat
        /\ Len(cq[Client(c)]) \in Nat
    BY Known DEF RingInv, ShapeInv
  <1>1. client[c].pc = test /\ server' = server
    BY DEF ClientPoll, Running
  <1>2. PICK k \in Nat, D \in ClientState :
           /\ k >= 1 /\ k <= Len(cq[Client(c)])
           /\ client'[c] = D /\ \A d \in Clients : d # c => client'[d] = client[d]
           /\ client[c].confirm + k < Count =>
                 /\ D.pc = test /\ D.round = client[c].round
                 /\ D.index = client[c].index /\ D.confirm = client[c].confirm + k
           /\ client[c].confirm + k >= Count =>
                 /\ D.index = 0 /\ D.confirm = 0
                 /\ test # "data" => D.pc \in {"write", "read", "bw", "fake", "bye"}
                 /\ test = "data" =>
                       \/ client[c].round < Rounds /\ D.pc = "request"
                          /\ D.round = client[c].round + 1
                       \/ client[c].round = Rounds /\ D.pc = "write"
           /\ ring' = IF test = "fake" THEN ring
                      ELSE [ring EXCEPT ![Client(c)].last = @ + k]
    <2>1. IndInv /\ ClientPoll(c, test)
      BY <1>0
    <2>2. QED
      BY <2>1, ClientPollFacts
  <1>3. PICK i, j, q, n \in Nat : /\ i = client[c].index /\ j = client[c].confirm
                                  /\ q = Len(cq[Client(c)]) /\ n = Count /\ i <= n
    BY <1>0, Fields, Constants
  <1>4. j + k <= i
    <2>1. PICK u, v \in Nat : u = Len(sq[Client(c)]) /\ v = Len(unacked[Client(c)])
      BY <1>0
    <2>2. ~Waits(client[c]) /\ InFlight(client[c]) = i - j
      BY <1>1, <1>3 DEF Waits, InFlight, Tests
    <2>3. u + v + q = i - j
      BY <1>0, <1>3, <2>1, <2>2 DEF WorkQueue
    <2>4. k <= q
      BY <1>2, <1>3
    <2>5. QED
      BY <2>3, <2>4
  <1>5. CASE test = "fake"
    <2>1. D.pc \in {"fake", "bye"}
      <3>1. CASE j + k < n
        BY <1>2, <1>3, <1>5, <3>1
      <3>2. CASE j + k >= n
        <4>1. client'[c].confirm = 0
          BY <1>2, <1>3, <3>2
        <4>2. QED
          BY <1>0, <1>2, <1>5, <4>1, PollTurn
      <3>3. QED
        BY <3>1, <3>2
    <2>2. Turn(D) = Turn(client[c]) /\ D.pc \notin Loops /\ client[c].pc \notin Loops
      BY <1>1, <1>5, <2>1 DEF Turn, Loops
    <2>3. ring' = ring
      BY <1>2, <1>5
    <2>4. ClientRing(c)'
      BY <1>0, <1>2, <2>2, <2>3 DEF ClientRing
    <2>5. QED
      BY <1>1, <1>2, <2>3, <2>4, RingOfClient
  <1>6. CASE test # "fake"
    <2>1. /\ ring'[Client(c)].last = ring[Client(c)].last + k
          /\ ring'[Client(c)].next = ring[Client(c)].next
          /\ \A e \in End : e # Client(c) => ring'[e] = ring[e]
      <3>1. ring' = [ring EXCEPT ![Client(c)].last = @ + k]
        BY <1>2, <1>6
      <3>2. QED
        BY <1>0, <3>1
    <2>2. PICK x, y \in Int, t, a \in Nat :
             /\ x = ring[Client(c)].next /\ y = ring[Client(c)].last
             /\ t = Turn(client[c]) /\ a = t * Count
      BY <1>0, TurnType, Times
    <2>3. client[c].pc \in Loops
      BY <1>1, <1>6 DEF Loops, Tests
    <2>4. -1 <= x /\ x + 1 <= a + i /\ -1 <= y /\ y + 1 <= a + j
      BY <1>0, <1>3, <2>2, <2>3 DEF ClientRing, Within
    <2>5. CASE j + k < n
      <3>1. D.pc = test /\ D.round = client[c].round /\ D.index = i /\ D.confirm = j + k
        BY <1>2, <1>3, <2>5
      <3>2. Turn(D) = t
        BY <1>1, <2>2, <3>1 DEF Turn
      <3>3. -1 <= y + k /\ (y + k) + 1 <= a + (j + k)
        BY <2>4
      <3>4. Within(x, t, i) /\ Within(y + k, t, j + k)
        BY <2>2, <2>4, <3>3 DEF Within
      <3>5. D.pc \in Loops
        BY <1>1, <2>3, <3>1
      <3>6. ClientRing(c)'
        BY <1>2, <2>1, <2>2, <3>1, <3>2, <3>4, <3>5 DEF ClientRing
      <3>7. QED
        BY <1>1, <1>2, <2>1, <3>6, RingOfClient
    <2>6. CASE j + k >= n
      <3>1. D.index = 0 /\ D.confirm = 0
        BY <1>2, <1>3, <2>6
      <3>2. Turn(D) = t + 1
        BY <1>0, <1>2, <1>6, <2>2, <3>1, PollTurn
      <3>3. (t + 1) * Count = a + n
        BY <1>3, <2>2, Times
      <3>4. -1 <= y + k /\ (y + k) + 1 <= (a + n) + 0 /\ x + 1 <= (a + n) + 0
        <4>1. j + k <= n /\ i <= n
          BY <1>3, <1>4
        <4>2. y + k + 1 <= a + (j + k) /\ -1 <= y + k
          BY <2>4
        <4>3. a + (j + k) <= a + n /\ a + i <= a + n
          BY <4>1
        <4>4. x + 1 <= a + i
          BY <2>4
        <4>5. QED
          BY <4>2, <4>3, <4>4
      <3>5. Within(x, t + 1, 0) /\ Within(y + k, t + 1, 0)
        BY <2>4, <3>3, <3>4 DEF Within
      <3>6. /\ (IF D.pc \in Loops THEN D.index ELSE 0) = 0
            /\ (IF D.pc \in Loops THEN D.confirm ELSE 0) = 0
        BY <3>1
      <3>7. ClientRing(c)'
        BY <1>2, <2>1, <2>2, <3>2, <3>5, <3>6 DEF ClientRing
      <3>8. QED
        BY <1>1, <1>2, <2>1, <3>7, RingOfClient
    <2>7. QED
      BY <2>5, <2>6
  <1>7. QED
    BY <1>5, <1>6

\* The steps of a thread that leave the counters of its ring alone.
LEMMA ServerSameRing ==
    ASSUME FullInv, RingInv, NEW c \in Clients,
           \/ ServerLock(c) \/ ServerRegister(c) \/ ServerSyncSend(c) \/ ServerSyncRecv(c)
           \/ ServerExchange(c) \/ (\E pc \in {"round", "final"} : ServerPostControl(c, pc))
           \/ (\E pc \in {"responded", "answered"} : ServerSent(c, pc)) \/ ServerBye(c)
    PROVE  RingInv'
  <1>0. ShapeInv /\ ServerRing(c) /\ server \in [Clients -> ServerState]
    BY Known DEF RingInv, ShapeInv
  <1>1. ring' = ring /\ client' = client
    BY DEF ServerLock, ServerRegister, ServerSyncSend, ServerSyncRecv, ServerExchange,
           ServerPostControl, ServerSent, ServerBye
  <1> DEFINE Early == {"start", "register", "sync", "synced", "exchange", "responded",
                       "round", "request"}
             Late == {"final", "bye", "done"}
  <1>2. SUFFICES /\ server'[c].round = server[c].round
                 /\ \A d \in Clients : d # c => server'[d] = server[d]
                 /\ \/ server[c].pc \in Early /\ server'[c].pc \in Early
                    \/ server[c].pc \in Late /\ server'[c].pc \in Late
                    \/ /\ server[c].pc = "answered" /\ server'[c].pc = "data"
                       /\ server'[c].index = 0
    <2>1. Given(server'[c]) = Given(server[c]) /\ Taken(server'[c]) = Taken(server[c])
      <3>1. CASE server[c].pc \in Early /\ server'[c].pc \in Early
        BY <1>2, <3>1 DEF Given, Taken
      <3>2. CASE server[c].pc \in Late /\ server'[c].pc \in Late
        BY <1>2, <3>2 DEF Given, Taken
      <3>3. CASE server[c].pc = "answered" /\ server'[c].pc = "data" /\ server'[c].index = 0
        BY <1>2, <3>3 DEF Given, Taken
      <3>4. QED
        BY <1>2, <3>1, <3>2, <3>3
    <2>2. ServerRing(c)'
      BY <1>0, <1>1, <1>2, <2>1 DEF ServerRing
    <2>3. QED
      BY <1>1, <1>2, <2>2, RingOfServer
  <1>3. ASSUME NEW pc, server' = [server EXCEPT ![c].pc = pc]
        PROVE  /\ server'[c].pc = pc /\ server'[c].round = server[c].round
               /\ \A d \in Clients : d # c => server'[d] = server[d]
    BY <1>0, <1>3, ServerFields
  <1>4. CASE \/ ServerLock(c) \/ ServerRegister(c) \/ ServerSyncSend(c) \/ ServerSyncRecv(c)
             \/ ServerExchange(c)
    <2>1. /\ server[c].pc \in Early
          /\ \E pc \in Early : server' = [server EXCEPT ![c].pc = pc]
      BY <1>4 DEF ServerLock, ServerRegister, ServerSyncSend, ServerSyncRecv, ServerExchange,
                  ServerPolls, Serving
    <2>2. PICK pc \in Early : server' = [server EXCEPT ![c].pc = pc]
      BY <2>1
    <2>3. QED
      BY <1>3, <2>1, <2>2
  <1>5. CASE \E pc \in {"round", "final"} : ServerPostControl(c, pc)
    <2>1. PICK pc \in {"round", "final"} : ServerPostControl(c, pc)
      BY <1>5
    <2>2. /\ server[c].pc = pc
          /\ server' = [server EXCEPT ![c].pc = IF pc = "round" THEN "request" ELSE "bye"]
      BY <2>1 DEF ServerPostControl, Serving
    <2>3. /\ server'[c].pc = IF pc = "round" THEN "request" ELSE "bye"
          /\ server'[c].round = server[c].round
          /\ \A d \in Clients : d # c => server'[d] = server[d]
      BY <1>3, <2>2
    <2>4. QED
      BY <2>2, <2>3
  <1>6. CASE \E pc \in {"responded", "answered"} : ServerSent(c, pc)
    <2>1. PICK pc \in {"responded", "answered"} : ServerSent(c, pc)
      BY <1>6
    <2>2. PICK to : to = IF pc = "responded" THEN "round" ELSE "data"
      OBVIOUS
    <2>3. server[c].pc = pc /\ server' = [server EXCEPT ![c].pc = to, ![c].index = 0]
      BY <2>1, <2>2 DEF ServerSent, ServerPolls, Serving
    <2>4. /\ server'[c].pc = to /\ server'[c].index = 0
          /\ server'[c].round = server[c].round
          /\ \A d \in Clients : d # c => server'[d] = server[d]
      BY <1>0, <2>3 DEF ServerState
    <2>5. QED
      BY <2>1, <2>2, <2>3, <2>4
  <1>7. CASE ServerBye(c)
    <2>1. server[c].pc = "bye" /\ server' = [server EXCEPT ![c].pc = "done"]
      BY <1>7 DEF ServerBye, ServerPolls, Serving
    <2>2. QED
      BY <1>3, <2>1
  <1>8. QED
    BY <1>4, <1>5, <1>6, <1>7

LEMMA ServerRequestRing ==
    ASSUME FullInv, RingInv, NEW c \in Clients, ServerRequest(c)
    PROVE  RingInv'
  <1>0. /\ IndInv /\ ShapeInv /\ ServerRing(c) /\ server[c] \in ServerState /\ Server(c) \in End
        /\ ring \in [End -> [next : Int, last : Int]]
    BY Known DEF RingInv, ShapeInv
  <1>1. /\ ServerPolls(c, "request", Wc.op = "RECV") /\ client' = client
        /\ server' = [server EXCEPT ![c].pc = "answered"]
        /\ ring' = [ring EXCEPT ![Active].next = @ + Count]
    BY DEF ServerRequest
  <1>2. server[c].pc = "request" /\ Active = Server(c)
    BY <1>0, <1>1, ServerTakes
  <1>3. /\ server'[c].pc = "answered" /\ server'[c].round = server[c].round
        /\ \A d \in Clients : d # c => server'[d] = server[d]
    BY <1>0, <1>1, ServerFields
  <1>4. /\ ring'[Server(c)].next = ring[Server(c)].next + Count
        /\ ring'[Server(c)].last = ring[Server(c)].last
        /\ \A e \in End : e # Server(c) => ring'[e] = ring[e]
    BY <1>0, <1>1, <1>2
  <1>5. PICK x \in Int, t, r, a, n \in Nat :
           /\ x = ring[Server(c)].next /\ r = server[c].round /\ t = r - 1 /\ r = t + 1
           /\ n = Count /\ a = t * Count
    <2>1. /\ server[c].round \in Nat /\ server[c].round - 1 \in Nat
          /\ server[c].round = (server[c].round - 1) + 1
      BY <1>0, Fields
    <2>2. (server[c].round - 1) * Count \in Nat /\ Count \in Nat
      BY <2>1, Times, Constants
    <2>3. QED
      BY <1>0, <2>1, <2>2
  <1>6. Given(server[c]) = t /\ Taken(server[c]) = 0
    BY <1>2, <1>5 DEF Given, Taken
  <1>7. Given(server'[c]) = r /\ Taken(server'[c]) = 0
    BY <1>3, <1>5 DEF Given, Taken
  <1>8. -1 <= x /\ x + 1 <= a + 0
    BY <1>0, <1>5, <1>6 DEF ServerRing, Within
  <1>9. -1 <= x + n /\ (x + n) + 1 <= (a + n) + 0
    BY <1>8
  <1>10. r * Count = a + n
    BY <1>5, Times
  <1>11. Within(x + n, r, 0)
    BY <1>9, <1>10 DEF Within
  <1>12. Within(ring[Server(c)].last, server[c].round - 1, 0)
    BY <1>0, <1>6 DEF ServerRing
  <1>13. ServerRing(c)'
    BY <1>3, <1>4, <1>5, <1>7, <1>11, <1>12 DEF ServerRing
  <1>14. QED
    BY <1>1, <1>3, <1>4, <1>13, RingOfServer

LEMMA ServerDataRing ==
    ASSUME FullInv, RingInv, NEW c \in Clients, ServerData(c)
    PROVE  RingInv'
  <1>0. /\ IndInv /\ ShapeInv /\ ServerRing(c) /\ server[c] \in ServerState /\ Server(c) \in End
        /\ ring \in [End -> [next : Int, last : Int]]
    BY Known DEF RingInv, ShapeInv
  <1>1. /\ ServerPolls(c, "data", IsMsg("TEST_RAW_DATA")) /\ client' = client
        /\ ring' = [ring EXCEPT ![Active].last = @ + 1]
    BY DEF ServerData
  <1>2. server[c].pc = "data" /\ Active = Server(c)
    BY <1>0, <1>1, ServerTakes
  <1>3. /\ server'[c].index = server[c].index + 1
        /\ \A d \in Clients : d # c => server'[d] = server[d]
        /\ server[c].index + 1 # Count =>
              server'[c].pc = "data" /\ server'[c].round = server[c].round
        /\ server[c].index + 1 = Count =>
              \/ /\ server[c].round < Rounds /\ server'[c].pc = "round"
                 /\ server'[c].round = server[c].round + 1
              \/ /\ server[c].round = Rounds /\ server'[c].pc = "final"
                 /\ server'[c].round = server[c].round
    BY <1>0, <1>2, ServerCounts
  <1>4. /\ ring'[Server(c)].next = ring[Server(c)].next
        /\ ring'[Server(c)].last = ring[Server(c)].last + 1
        /\ \A e \in End : e # Server(c) => ring'[e] = ring[e]
    BY <1>0, <1>1, <1>2
  <1>5. PICK x, y \in Int, t, r, a, n, i \in Nat :
           /\ x = ring[Server(c)].next /\ y = ring[Server(c)].last
           /\ r = server[c].round /\ t = r - 1 /\ r = t + 1
           /\ n = Count /\ a = t * Count /\ i = server[c].index
    <2>1. /\ server[c].round \in Nat /\ server[c].round - 1 \in Nat
          /\ server[c].round = (server[c].round - 1) + 1 /\ server[c].index \in Nat
      BY <1>0, Fields
    <2>2. (server[c].round - 1) * Count \in Nat /\ Count \in Nat
      BY <2>1, Times, Constants
    <2>3. QED
      BY <1>0, <2>1, <2>2
  <1>6. Given(server[c]) = r /\ Taken(server[c]) = i
    BY <1>2, <1>5 DEF Given, Taken
  <1>7. Within(x, r, 0) /\ -1 <= y /\ y + 1 <= a + i
    BY <1>0, <1>5, <1>6 DEF ServerRing, Within
  <1>8. -1 <= y + 1 /\ (y + 1) + 1 <= a + (i + 1)
    BY <1>7
  <1>9. CASE i + 1 # n
    <2>1. server'[c].pc = "data" /\ server'[c].round = r /\ server'[c].index = i + 1
      BY <1>3, <1>5, <1>9
    <2>2. Given(server'[c]) = r /\ Taken(server'[c]) = i + 1 /\ server'[c].round - 1 = t
      BY <1>5, <2>1 DEF Given, Taken
    <2>3. Within(y + 1, t, i + 1)
      BY <1>5, <1>8 DEF Within
    <2>4. ServerRing(c)'
      BY <1>4, <1>5, <1>7, <2>2, <2>3 DEF ServerRing
    <2>5. QED
      BY <1>1, <1>3, <1>4, <2>4, RingOfServer
  <1>10. CASE i + 1 = n
    <2>1. -1 <= y + 1 /\ (y + 1) + 1 <= a + n
      BY <1>8, <1>10
    <2>2. CASE server'[c].pc = "round" /\ server'[c].round = r + 1
      <3>1. Given(server'[c]) = r /\ Taken(server'[c]) = 0 /\ server'[c].round - 1 = r
        BY <1>5, <2>2 DEF Given, Taken
      <3>2. r * Count = a + n /\ (a + n) + 0 = a + n
        <4>1. r = t + 1 /\ a = t * Count /\ n = Count
          BY <1>5
        <4>2. (t + 1) * Count = t * Count + Count
          BY Times
        <4>3. r * Count = a + n
          BY <4>1, <4>2
        <4>4. QED
          BY <4>3
      <3>3. Within(y + 1, r, 0)
        BY <2>1, <3>2 DEF Within
      <3>4. ServerRing(c)'
        BY <1>4, <1>5, <1>7, <3>1, <3>3 DEF ServerRing
      <3>5. QED
        BY <1>1, <1>3, <1>4, <3>4, RingOfServer
    <2>3. CASE server'[c].pc = "final" /\ server'[c].round = r
      <3>1. Given(server'[c]) = r /\ Taken(server'[c]) = n /\ server'[c].round - 1 = t
        BY <1>5, <2>3 DEF Given, Taken
      <3>2. Within(y + 1, t, n)
        BY <1>5, <2>1 DEF Within
      <3>3. ServerRing(c)'
        BY <1>4, <1>5, <1>7, <3>1, <3>2 DEF ServerRing
      <3>4. QED
        BY <1>1, <1>3, <1>4, <3>3, RingOfServer
    <2>4. QED
      BY <1>3, <1>5, <1>10, <2>2, <2>3
  <1>11. QED
    BY <1>9, <1>10

LEMMA InitRing == Init => RingInv
  <1>1. SUFFICES ASSUME Init, NEW c \in Clients PROVE ClientRing(c) /\ ServerRing(c)
    BY DEF RingInv
  <1>2. /\ client[c].pc = "start" /\ client[c].round = 1
        /\ server[c].pc = "start" /\ server[c].round = 1
    BY <1>1 DEF Init
  <1>3. ASSUME NEW e \in {Client(c), Server(c)} PROVE ring[e].next = -1 /\ ring[e].last = -1
    BY <1>1, EndFacts DEF Init
  <1>4. Within(-1, 0, 0)
    BY Times DEF Within
  <1>5. Turn(client[c]) = 0 /\ client[c].pc \notin Loops
    BY <1>2 DEF Turn, Loops
  <1>6. Given(server[c]) = 0 /\ Taken(server[c]) = 0 /\ server[c].round - 1 = 0
    BY <1>2 DEF Given, Taken
  <1>7. ClientRing(c)
    BY <1>3, <1>4, <1>5 DEF ClientRing
  <1>8. ServerRing(c)
    BY <1>3, <1>4, <1>6 DEF ServerRing
  <1>9. QED
    BY <1>7, <1>8

LEMMA StepRing == ASSUME FullInv, RingInv, [Next]_vars PROVE RingInv'
  <1>1. ASSUME NEW c \in Clients, ClientStep(c) PROVE RingInv'
    <2>1. CASE \E pc \in {"exchange", "answer"} : ClientAwait(c, pc)
      BY <2>1, ClientSameTurn
    <2>2. CASE \E test \in Tests : ClientPost(c, test) \/ ClientPoll(c, test)
      BY <2>2, ClientPostRing, ClientPollRing
    <2>3. CASE \/ ClientRegister(c) \/ ClientSyncSend(c) \/ ClientSyncRecv(c)
               \/ ClientRequest(c) \/ ClientBye(c) \/ ClientExit(c)
      BY <2>3, ClientSameTurn
    <2>4. QED
      BY <1>1, <2>1, <2>2, <2>3 DEF ClientStep
  <1>2. ASSUME NEW c \in Clients, ServerStep(c) PROVE RingInv'
    <2>1. CASE \E pc \in {"responded", "answered"} : ServerSent(c, pc)
      BY <2>1, ServerSameRing
    <2>2. CASE \E pc \in {"round", "final"} : ServerPostControl(c, pc)
      BY <2>2, ServerSameRing
    <2>3. CASE \/ ServerLock(c) \/ ServerRegister(c) \/ ServerSyncSend(c)
               \/ ServerSyncRecv(c) \/ ServerExchange(c) \/ ServerBye(c)
      BY <2>3, ServerSameRing
    <2>4. QED
      BY <1>2, <2>1, <2>2, <2>3, ServerRequestRing, ServerDataRing DEF ServerStep
  <1>3. ASSUME UNCHANGED <<client, server, ring>> PROVE RingInv'
    <2>1. ASSUME NEW c \in Clients PROVE ClientRing(c)' /\ ServerRing(c)'
      <3>1. ClientRing(c) /\ ServerRing(c)
        BY DEF RingInv
      <3>2. ClientRing(c)'
        BY <1>3, <3>1 DEF ClientRing
      <3>3. ServerRing(c)'
        BY <1>3, <3>1 DEF ServerRing
      <3>4. QED
        BY <3>2, <3>3
    <2>2. QED
      BY <2>1 DEF RingInv
  <1>4. ASSUME NEW e \in End, Execute(e) \/ Acknowledge(e) PROVE RingInv'
    <2>1. UNCHANGED <<client, server, ring>>
      BY <1>4 DEF Execute, ExecuteSend, ExecuteRdma, Acknowledge
    <2>2. QED
      BY <1>3, <2>1
  <1>5. CASE UNCHANGED vars
    BY <1>3, <1>5 DEF vars
  <1>6. QED
    BY <1>1, <1>2, <1>4, <1>5 DEF Next

\* The counters of the two ends of a connection are in their bounds.
LEMMA ClientRingBound ==
    ASSUME ShapeInv, RingInv, NEW c \in Clients
    PROVE  /\ ring[Client(c)].next \in -1..(4 * Rounds * Count)
           /\ ring[Client(c)].last \in -1..(4 * Rounds * Count)
  <1>1. /\ client[c] \in ClientState /\ Client(c) \in End /\ ClientRing(c)
        /\ ring[Client(c)].next \in Int /\ ring[Client(c)].last \in Int
    BY EndFacts DEF ShapeInv, RingInv
  <1>2. PICK t \in Nat : /\ t = Turn(client[c]) /\ t <= 4 * Rounds
                         /\ client[c].pc \in Loops => t + 1 <= 4 * Rounds
    BY <1>1, TurnType
  <1>3. PICK i, j \in Nat :
           /\ i = (IF client[c].pc \in Loops THEN client[c].index ELSE 0) /\ i <= Count
           /\ j = (IF client[c].pc \in Loops THEN client[c].confirm ELSE 0) /\ j <= Count
    <2>1. /\ client[c].index \in Nat /\ client[c].index <= Count
          /\ client[c].confirm \in Nat /\ client[c].confirm <= Count
          /\ 0 \in Nat /\ 0 <= Count
      BY <1>1, Fields, Constants
    <2>2. QED
      BY <2>1
  <1>4. /\ Within(ring[Client(c)].next, t, i) /\ Within(ring[Client(c)].last, t, j)
        /\ i = 0 \/ t + 1 <= 4 * Rounds
        /\ j = 0 \/ t + 1 <= 4 * Rounds
    BY <1>1, <1>2, <1>3 DEF ClientRing
  <1>5. QED
    BY <1>1, <1>2, <1>3, <1>4, RingBound

LEMMA ServerRingBound ==
    ASSUME ShapeInv, RingInv, NEW c \in Clients
    PROVE  /\ ring[Server(c)].next \in -1..(4 * Rounds * Count)
           /\ ring[Server(c)].last \in -1..(4 * Rounds * Count)
  <1>1. /\ server[c] \in ServerState /\ Server(c) \in End /\ ServerRing(c)
        /\ ring[Server(c)].next \in Int /\ ring[Server(c)].last \in Int
    BY EndFacts DEF ShapeInv, RingInv
  <1>2. PICK r, t, i, n, m \in Nat :
           /\ r = server[c].round /\ t = r - 1 /\ i = server[c].index /\ m = Count
           /\ r >= 1 /\ n = Rounds /\ r <= n /\ i <= m
    <2>1. /\ server[c].round \in Nat /\ server[c].round - 1 \in Nat /\ server[c].index \in Nat
          /\ server[c].round >= 1 /\ server[c].round <= Rounds /\ server[c].index <= Count
      BY <1>1, Fields
    <2>2. QED
      BY <2>1, Constants
  <1>3. t + 1 <= 4 * n /\ t <= 4 * n /\ r <= 4 * n
    BY <1>2
  <1>4. PICK g \in Nat : g = Given(server[c]) /\ g <= 4 * Rounds
    BY <1>2, <1>3 DEF Given
  <1>5. PICK k \in Nat : k = Taken(server[c]) /\ k <= Count
    <2>1. CASE server[c].pc = "data"
      BY <1>2, <2>1 DEF Taken
    <2>2. CASE server[c].pc \in {"final", "bye", "done"}
      BY <1>2, <2>2 DEF Taken
    <2>3. CASE server[c].pc \notin {"data", "final", "bye", "done"}
      BY <1>2, <2>3 DEF Taken
    <2>4. QED
      BY <2>1, <2>2, <2>3
  <1>6. Within(ring[Server(c)].next, g, 0) /\ Within(ring[Server(c)].last, t, k)
    BY <1>1, <1>2, <1>4, <1>5 DEF ServerRing
  <1>7. t <= 4 * Rounds /\ t + 1 <= 4 * Rounds /\ 0 <= Count
    BY <1>2, <1>3
  <1>8. ring[Server(c)].next \in -1..(4 * Rounds * Count)
    BY <1>1, <1>4, <1>6, <1>7, RingBound
  <1>9. ring[Server(c)].last \in -1..(4 * Rounds * Count)
    BY <1>1, <1>5, <1>6, <1>7, RingBound
  <1>10. QED
    BY <1>8, <1>9

LEMMA RingTypes == ASSUME FullInv, RingInv PROVE TypeOK
  <1>1. ShapeInv
    BY DEF FullInv, IndInv
  <1>2. ASSUME NEW e \in End
        PROVE  ring[e] \in [next : -1..(4 * Rounds * Count), last : -1..(4 * Rounds * Count)]
    <2>1. PICK c \in Clients : e = Client(c) \/ e = Server(c)
      BY EndFacts
    <2>2. /\ ring[e].next \in -1..(4 * Rounds * Count)
          /\ ring[e].last \in -1..(4 * Rounds * Count)
      BY <1>1, <2>1, ClientRingBound, ServerRingBound
    <2>3. ring[e] \in [next : Int, last : Int]
      BY <1>1 DEF ShapeInv
    <2>4. QED
      BY <2>2, <2>3
  <1>3. ring \in [End -> [next : -1..(4 * Rounds * Count), last : -1..(4 * Rounds * Count)]]
    <2>1. ring \in [End -> [next : Int, last : Int]]
      BY <1>1 DEF ShapeInv
    <2>2. QED
      BY <1>2, <2>1
  <1>4. QED
    BY <1>1, <1>3, Zenon DEF ShapeInv, TypeOK, ClientState, ServerState

\* Every variable of the benchmark stays in its type, for any number of clients, blocks
\* and rounds.  What is hard is the bound of the counters of the two rings, which are
\* never set back: next_active and last_active advance for the four tests that take
\* blocks, by Count in each of their Rounds rounds, and no further (rdma_buffer.h:116-129).
THEOREM BenchmarkTypeCorrect == SleepCovers => (Spec => []TypeOK)
  <1>1. SUFFICES ASSUME SleepCovers PROVE Spec => []TypeOK
    OBVIOUS
  <1>2. Spec => []FullInv
    BY <1>1, Connected
  <1>3. Init => RingInv
    BY InitRing
  <1>4. FullInv /\ RingInv /\ [Next]_vars => RingInv'
    BY StepRing
  <1>5. FullInv /\ RingInv => TypeOK
    BY RingTypes
  <1>6. QED
    BY <1>2, <1>3, <1>4, <1>5, PTL DEF Spec
=============================================================================
