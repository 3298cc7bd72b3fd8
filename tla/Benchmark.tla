----------------------------- MODULE Benchmark -----------------------------
(***************************************************************************)
(* The latency and bandwidth benchmark (example/lat_bw_benchmark.cc): one  *)
(* SchedulingServer and its SchedulingClients, each a process of its own.  *)
(* No completion queue is shared, so the server has a thread per client;   *)
(* process_CQ holds m_mutex from its first to its last line, because the   *)
(* threads work on the session's active_channel and benchmark_buffer.      *)
(*                                                                         *)
(* A client asks for the descriptor of the server's buffer, then runs five *)
(* tests, each for Rounds message sizes and with Count operations a size:  *)
(* "data" (SEND), "write" and "read" wait for every completion before the  *)
(* next operation, "bw" and "fake" post all operations first.  Then it     *)
(* sends BYEBYE and exits without polling for its completion.              *)
(*                                                                         *)
(* A CHECK that fails aborts its process.  The NIC is external: it         *)
(* executes a send queue in order, waits for a receive (rnr_retry is 7),   *)
(* and reports an operation when the peer's acknowledgement arrives.       *)
(***************************************************************************)
EXTENDS Integers, Sequences, FiniteSets

CONSTANTS
    Clients,     \* the slavers of the cluster
    Count,       \* operations of a test, and blocks of a benchmark_buffer (1000)
    Rounds,      \* message sizes 1, 2, 4 ... of a test (24, up to 8 MB)
    CtlBytes,    \* length of a control receive, of the response with the descriptor
                 \*   and of BYEBYE (64)
    AskBytes,    \* length of a client's requests (2)
    MaxWr,       \* max_send_wr and max_recv_wr (1024); cq_size is their sum
    Batch,       \* completions polled at a time in the bandwidth tests (128)
    SleepCovers  \* the sleep of 1 ms before the first SEND of raw data is longer
                 \*   than an acknowledgement needs to reach the server

ASSUME BenchmarkAssumption ==
    /\ Clients # {} /\ {"server", "none"} \cap Clients = {}
    /\ {Count, Rounds, CtlBytes, AskBytes, MaxWr, Batch} \subseteq Nat \ {0}
    /\ Count > 1 /\ Count <= MaxWr /\ AskBytes <= CtlBytes /\ CtlBytes <= 2^(Rounds - 1)
    /\ SleepCovers \in BOOLEAN

\* Two ends of a connection; the process an end belongs to.
End == Clients \X {"client", "server"}
Client(c) == <<c, "client">>
Server(c) == <<c, "server">>
Other(e) == IF e = Client(e[1]) THEN Server(e[1]) ELSE Client(e[1])
Owner(e) == IF e = Client(e[1]) THEN e[1] ELSE "server"

Block == 0..(Count - 1)

\* What the first bytes of a block hold: cleared memory, or the descriptor of
\* the server's buffer for a client.
Content == Clients \cup {"zero"}

Msg == {"REQUEST_BUFFER", "RESPONSE_TO_REQUEST_BUFFER", "SEND_TEST_REQUEST",
        "RESPONSE_TO_SEND_TEST_REQUEST", "TEST_RAW_DATA", "BYEBYE"}

Request == [op : {"SEND", "WRITE", "READ", "ERROR"}, msg : Msg, len : Nat,
            block : Block, data : Content]
Receive == [len : Nat, block : Block]
Completion == [op : {"SEND", "WRITE", "READ", "RECV", "ERROR"}, msg : Msg,
               block : Block]

Tests == {"data", "write", "read", "bw", "fake"}
Bursts == {"bw", "fake"}

VARIABLES
    client,      \* client[c]: place in process_CQ, with its loop counters and
                 \*   send_completion and recv_completion
    server,      \* server[c]: the same for the server's thread for c
    m_mutex,     \* the server thread that holds it, or "none"
    active,      \* the channel of active_channel and benchmark_buffer
    said,        \* said[e]: end e has sent its byte of sync_with_peer
    at0,         \* at0[c]: the first block of the client's buffer
    buffer_peer, \* buffer_peer[c]: the client's copy of the descriptor
    ring,        \* ring[e]: next_active and last_active of the buffer at e
    recvs,       \* recvs[e]: receives posted, oldest first
    sq,          \* sq[e]: operations posted, not executed
    unacked,     \* unacked[e]: operations executed, not acknowledged
    cq,          \* cq[e]: completions not yet polled
    aborted      \* processes in which a CHECK has failed

nic == <<recvs, sq, unacked, cq>>
vars == <<client, server, m_mutex, active, said, at0, buffer_peer, ring, nic, aborted>>

ClientPc == {"start", "sync", "synced", "exchange", "request", "answer", "bye",
             "leaving", "exited"} \cup Tests
ServerPc == {"start", "register", "sync", "synced", "exchange", "responded", "round",
             "request", "answered", "data", "final", "bye", "done"}

TypeOK ==
    /\ client \in [Clients -> [pc : ClientPc, round : 1..Rounds, index : 0..Count,
                               confirm : 0..Count, sent : BOOLEAN, rcvd : BOOLEAN]]
    /\ server \in [Clients -> [pc : ServerPc, round : 1..Rounds, index : 0..Count]]
    /\ m_mutex \in Clients \cup {"none"}
    /\ active \in Clients \cup {"none"}
    /\ said \in [End -> BOOLEAN]
    /\ at0 \in [Clients -> Content]
    /\ buffer_peer \in [Clients -> Content \cup {"unset"}]
    /\ ring \in [End -> [next : -1..(4 * Rounds * Count), last : -1..(4 * Rounds * Count)]]
    /\ recvs \in [End -> Seq(Receive)]
    /\ sq \in [End -> Seq(Request)]
    /\ unacked \in [End -> Seq(Request)]
    /\ cq \in [End -> Seq(Completion)]
    /\ aborted \subseteq Clients \cup {"server"}

Init ==
    /\ client = [c \in Clients |-> [pc |-> "start", round |-> 1, index |-> 0,
                                    confirm |-> 0, sent |-> FALSE, rcvd |-> FALSE]]
    /\ server = [c \in Clients |-> [pc |-> "start", round |-> 1, index |-> 0]]
    /\ m_mutex = "none" /\ active = "none"
    /\ said = [e \in End |-> FALSE]
    /\ at0 = [c \in Clients |-> "zero"]
    /\ buffer_peer = [c \in Clients |-> "unset"]
    /\ ring = [e \in End |-> [next |-> -1, last |-> -1]]
    /\ recvs = [e \in End |-> <<>>] /\ sq = [e \in End |-> <<>>]
    /\ unacked = [e \in End |-> <<>>] /\ cq = [e \in End |-> <<>>]
    /\ aborted = {}

-----------------------------------------------------------------------------
(* Work requests *)

\* The message size of a round.
Size(round) == 2^(round - 1)
BlockBytes == Size(Rounds)

\* The block of the k-th next call of next() at e.
NextBlock(e, k) == (ring[e].next + k) % Count

Send(msg, len, block, data) ==
    [op |-> "SEND", msg |-> msg, len |-> len, block |-> block, data |-> data]

Post(e, w) == sq' = [sq EXCEPT ![e] = Append(@, w)]

PostRecv(e, len) ==
    recvs' = [recvs EXCEPT ![e] = Append(@, [len |-> len, block |-> 0])]

\* poll_cq_batch(global_wc, n) returns at e, with at least one completion.
Polled(e, n) == SubSeq(cq[e], 1, IF Len(cq[e]) < n THEN Len(cq[e]) ELSE n)

Poll(e, n) ==
    /\ cq[e] # <<>>
    /\ cq' = [cq EXCEPT ![e] = SubSeq(@, Len(Polled(e, n)) + 1, Len(@))]

\* A CHECK of process p.  When it fails, the rest of the action is never seen: the
\* process takes no step any more and its queue pairs are gone.
Check(p, good) == aborted' = IF good THEN aborted ELSE aborted \cup {p}

-----------------------------------------------------------------------------
(* SchedulingClient::process_CQ *)

Running(c, pc) == c \notin aborted /\ client[c].pc = pc

\* register_buffer: the receive for the descriptor is the whole first block.
ClientRegister(c) ==
    /\ Running(c, "start")
    /\ client' = [client EXCEPT ![c].pc = "sync"]
    /\ PostRecv(Client(c), BlockBytes)
    /\ UNCHANGED <<server, m_mutex, active, said, at0, buffer_peer, ring, sq, unacked,
                   cq, aborted>>

ClientSyncSend(c) ==
    /\ Running(c, "sync")
    /\ client' = [client EXCEPT ![c].pc = "synced"]
    /\ said' = [said EXCEPT ![Client(c)] = TRUE]
    /\ UNCHANGED <<server, m_mutex, active, at0, buffer_peer, ring, nic, aborted>>

\* The server has synced too: ask for its buffer.
ClientSyncRecv(c) ==
    /\ Running(c, "synced") /\ said[Server(c)]
    /\ client' = [client EXCEPT ![c].pc = "exchange"]
    /\ Post(Client(c), Send("REQUEST_BUFFER", AskBytes, 1, "zero"))
    /\ UNCHANGED <<server, m_mutex, active, said, at0, buffer_peer, ring, recvs,
                   unacked, cq, aborted>>

\* The start of lat_send.
ClientRequest(c) ==
    /\ Running(c, "request")
    /\ client' = [client EXCEPT ![c].pc = "answer"]
    /\ PostRecv(Client(c), CtlBytes)
    /\ Post(Client(c), Send("SEND_TEST_REQUEST", AskBytes, 1, "zero"))
    /\ UNCHANGED <<server, m_mutex, active, said, at0, buffer_peer, ring, unacked, cq,
                   aborted>>

\* The message a client waits for, next to the completion of its own SEND.
Expected(pc) == IF pc = "exchange" THEN "RESPONSE_TO_REQUEST_BUFFER"
                ELSE "RESPONSE_TO_SEND_TEST_REQUEST"

\* Mutant: the completion of the SEND is enough.
BothSentOnly(sent, rcvd) == sent

\* send_completion && recv_completion
Both(sent, rcvd) == sent /\ rcvd

\* The loops of exchange_buffer_info and lat_send that wait for the two
\* completions, in either order.
ClientAwait(c, pc) ==
    LET wc == Head(cq[Client(c)])
        r == client[c]
        sent == r.sent \/ wc.op = "SEND"
        rcvd == r.rcvd \/ wc.op = "RECV"
        next == IF pc = "exchange" THEN "request" ELSE "data"
    IN
    /\ Running(c, pc) /\ Poll(Client(c), 1)
    /\ Check(c, \/ wc.op = "SEND" /\ ~r.sent
                \/ wc.op = "RECV" /\ wc.msg = Expected(pc) /\ ~r.rcvd)
    /\ client' = [client EXCEPT ![c] =
          IF Both(sent, rcvd)
          THEN [r EXCEPT !.pc = next, !.index = 0, !.confirm = 0,
                         !.sent = FALSE, !.rcvd = FALSE]
          ELSE [r EXCEPT !.sent = sent, !.rcvd = rcvd]]
    /\ buffer_peer' = IF Both(sent, rcvd) /\ pc = "exchange"
                      THEN [buffer_peer EXCEPT ![c] = at0[c]] ELSE buffer_peer
    /\ UNCHANGED <<server, m_mutex, active, said, at0, ring, recvs, sq, unacked>>

\* The work request of an operation of a test; "fake" uses the first block only.
TestOp(test) ==
    CASE test = "data" -> "SEND" [] test = "read" -> "READ" [] OTHER -> "WRITE"

TestRequest(c, test) ==
    [op |-> TestOp(test), msg |-> "TEST_RAW_DATA", len |-> Size(client[c].round),
     block |-> IF test = "fake" THEN 0 ELSE NextBlock(Client(c), 1),
     data |-> IF test = "data" THEN "zero" ELSE buffer_peer[c]]

\* Mutant: index <= 1000.
MoreOneToMany(c) == client[c].index <= Count

\* The loop condition index < 1000.
More(c) == client[c].index < Count

\* A latency test has one operation in flight.
Window(c, test) == test \in Bursts \/ client[c].index = client[c].confirm

\* One operation of a test is posted.  write_remote and read_remote CHECK its length
\* against the one in the descriptor, which is not there before the exchange.
ClientPost(c, test) ==
    /\ Running(c, test)
    /\ More(c) /\ Window(c, test)
    /\ test = "data" /\ client[c].index = 0 /\ SleepCovers => unacked[Server(c)] = <<>>
    /\ client' = [client EXCEPT ![c].index = @ + 1]
    /\ Post(Client(c), TestRequest(c, test))
    /\ ring' = IF test = "fake" THEN ring ELSE [ring EXCEPT ![Client(c)].next = @ + 1]
    /\ Check(c, test = "data" \/ buffer_peer[c] \in Clients)
    /\ UNCHANGED <<server, m_mutex, active, said, at0, buffer_peer, recvs, unacked, cq>>

\* Mutant: the size is not set back for the next test.
FollowsLarger(r) ==
    LET again == IF r.pc = "data" THEN "request" ELSE r.pc
        after == CASE r.pc = "data" -> "write" [] r.pc = "write" -> "read"
                   [] r.pc = "read" -> "bw"    [] r.pc = "bw" -> "fake"
                   [] r.pc = "fake" -> "bye"
    IN [r EXCEPT !.pc = IF r.round < Rounds THEN again ELSE after,
                 !.round = @ + 1,
                 !.index = 0, !.confirm = 0]

\* The test, and its size, that follow the one of client record r.
Follows(r) ==
    LET again == IF r.pc = "data" THEN "request" ELSE r.pc
        after == CASE r.pc = "data" -> "write" [] r.pc = "write" -> "read"
                   [] r.pc = "read" -> "bw"    [] r.pc = "bw" -> "fake"
                   [] r.pc = "fake" -> "bye"
    IN [r EXCEPT !.pc = IF r.round < Rounds THEN again ELSE after,
                 !.round = IF r.round < Rounds THEN @ + 1 ELSE 1,
                 !.index = 0, !.confirm = 0]

\* Completions of a test are polled: one at a time in a latency test, a batch when
\* everything is posted in a bandwidth test.  A poll confirms one operation at
\* least, so the loop over Count polls ends with confirm >= Count, and
\* CHECK(confirm == 1000) says that it is not more.
ClientPoll(c, test) ==
    LET n == IF test \in Bursts THEN Batch ELSE 1
        got == Polled(Client(c), n)
        confirm == client[c].confirm + Len(got)
        r == [client[c] EXCEPT !.confirm = confirm]
    IN
    /\ Running(c, test)
    /\ client[c].index > client[c].confirm
    /\ test \in Bursts => client[c].index = Count
    /\ Poll(Client(c), n)
    /\ Check(c, /\ \A i \in 1..Len(got) : got[i].op = TestOp(test)
                /\ confirm <= Count)
    /\ client' = [client EXCEPT ![c] = IF confirm >= Count THEN Follows(r) ELSE r]
    /\ ring' = IF test = "fake" THEN ring
               ELSE [ring EXCEPT ![Client(c)].last = @ + Len(got)]
    /\ UNCHANGED <<server, m_mutex, active, said, at0, buffer_peer, recvs, sq, unacked>>

ClientBye(c) ==
    /\ Running(c, "bye")
    /\ client' = [client EXCEPT ![c].pc = "leaving"]
    /\ Post(Client(c), Send("BYEBYE", CtlBytes, 0, "zero"))
    /\ UNCHANGED <<server, m_mutex, active, said, at0, buffer_peer, ring, recvs,
                   unacked, cq, aborted>>

\* process_CQ, running and main return.  The queue pair goes with the process, and
\* with it a BYEBYE the NIC has not sent.
ClientExit(c) ==
    /\ Running(c, "leaving")
    /\ client' = [client EXCEPT ![c].pc = "exited"]
    /\ sq' = [sq EXCEPT ![Client(c)] = <<>>]
    /\ unacked' = [unacked EXCEPT ![Client(c)] = <<>>]
    /\ cq' = [cq EXCEPT ![Client(c)] = <<>>]
    /\ UNCHANGED <<server, m_mutex, active, said, at0, buffer_peer, ring, recvs, aborted>>

-----------------------------------------------------------------------------
(* SchedulingServer::process_CQ, by the thread for c *)

Serving(c, pc) == "server" \notin aborted /\ server[c].pc = pc

\* Where active_channel points; the thread for c never looks at c again.
Active == Server(active)

\* Mutant: m_mutex is not taken.
ServerLockFree(c) ==
    /\ Serving(c, "start")
    /\ m_mutex' = m_mutex
    /\ server' = [server EXCEPT ![c].pc = "register"]
    /\ UNCHANGED <<client, active, said, at0, buffer_peer, ring, nic, aborted>>

ServerLock(c) ==
    /\ Serving(c, "start") /\ m_mutex = "none"
    /\ m_mutex' = c
    /\ server' = [server EXCEPT ![c].pc = "register"]
    /\ UNCHANGED <<client, active, said, at0, buffer_peer, ring, nic, aborted>>

ServerRegister(c) ==
    /\ Serving(c, "register")
    /\ active' = c
    /\ server' = [server EXCEPT ![c].pc = "sync"]
    /\ PostRecv(Server(c), BlockBytes)
    /\ UNCHANGED <<client, m_mutex, said, at0, buffer_peer, ring, sq, unacked, cq, aborted>>

\* The sync is with the thread's own channel.
ServerSyncSend(c) ==
    /\ Serving(c, "sync")
    /\ server' = [server EXCEPT ![c].pc = "synced"]
    /\ said' = [said EXCEPT ![Server(c)] = TRUE]
    /\ UNCHANGED <<client, m_mutex, active, at0, buffer_peer, ring, nic, aborted>>

ServerSyncRecv(c) ==
    /\ Serving(c, "synced") /\ said[Client(c)]
    /\ server' = [server EXCEPT ![c].pc = "exchange"]
    /\ UNCHANGED <<client, m_mutex, active, said, at0, buffer_peer, ring, nic, aborted>>

\* A completion is polled, and a CHECK made on it.
ServerPolls(c, pc, good) ==
    /\ Serving(c, pc)
    /\ Poll(Active, 1)
    /\ Check("server", good)

Wc == Head(cq[Active])
IsMsg(msg) == Wc.op = "RECV" /\ Wc.msg = msg

\* exchange_buffer_info: answer with the descriptor of benchmark_buffer.
ServerExchange(c) ==
    /\ ServerPolls(c, "exchange", IsMsg("REQUEST_BUFFER"))
    /\ server' = [server EXCEPT ![c].pc = "responded"]
    /\ Post(Active, Send("RESPONSE_TO_REQUEST_BUFFER", CtlBytes, 1, active))
    /\ UNCHANGED <<client, m_mutex, active, said, at0, buffer_peer, ring, recvs, unacked>>

\* Wait for the completion of the response, here and in lat_send.
ServerSent(c, pc) ==
    /\ ServerPolls(c, pc, Wc.op = "SEND")
    /\ server' = [server EXCEPT ![c].pc = IF pc = "responded" THEN "round" ELSE "data",
                                ![c].index = 0]
    /\ UNCHANGED <<client, m_mutex, active, said, at0, buffer_peer, ring, recvs, sq,
                   unacked>>

\* Mutant: the server does not wait for BYEBYE.
ServerLeavesEarly(c, pc) ==
    /\ Serving(c, pc)
    /\ server' = [server EXCEPT ![c].pc = IF pc = "round" THEN "request" ELSE "done"]
    /\ PostRecv(Active, CtlBytes)
    /\ UNCHANGED <<client, m_mutex, active, said, at0, buffer_peer, ring, sq, unacked,
                   cq, aborted>>

\* The receive for the request of a round, and for BYEBYE after the last one.
ServerPostControl(c, pc) ==
    /\ Serving(c, pc)
    /\ server' = [server EXCEPT ![c].pc = IF pc = "round" THEN "request" ELSE "bye"]
    /\ PostRecv(Active, CtlBytes)
    /\ UNCHANGED <<client, m_mutex, active, said, at0, buffer_peer, ring, sq, unacked,
                   cq, aborted>>

\* Mutant: the answer has as many bytes as the other control messages.
AnswerBytesSome == CtlBytes

\* The answer to a SEND_TEST_REQUEST is sent from at(1), which has a receive
\* posted by then, and has no bytes.
AnswerBytes == 0

\* lat_send: the request is not looked at; post a receive for every block, answer.
ServerRequest(c) ==
    /\ ServerPolls(c, "request", Wc.op = "RECV")
    /\ server' = [server EXCEPT ![c].pc = "answered"]
    /\ recvs' = [recvs EXCEPT ![Active] = @ \o [k \in 1..Count |->
                    [len |-> BlockBytes, block |-> NextBlock(Active, k)]]]
    /\ ring' = [ring EXCEPT ![Active].next = @ + Count]
    /\ Post(Active, Send("RESPONSE_TO_SEND_TEST_REQUEST", AnswerBytes, 1, "zero"))
    /\ UNCHANGED <<client, m_mutex, active, said, at0, buffer_peer, unacked>>

\* lat_send: a message of raw data.
ServerData(c) ==
    LET last == server[c].index + 1 = Count IN
    /\ ServerPolls(c, "data", IsMsg("TEST_RAW_DATA"))
    /\ ring' = [ring EXCEPT ![Active].last = @ + 1]
    /\ server' = [server EXCEPT
          ![c].index = @ + 1,
          ![c].pc = IF ~last THEN @
                    ELSE IF server[c].round < Rounds THEN "round" ELSE "final",
          ![c].round = IF last /\ @ < Rounds THEN @ + 1 ELSE @]
    /\ UNCHANGED <<client, m_mutex, active, said, at0, buffer_peer, recvs, sq, unacked>>

\* Mutant: the thread returns and m_mutex stays locked.
ServerByeLocked(c) ==
    /\ ServerPolls(c, "bye", IsMsg("BYEBYE"))
    /\ server' = [server EXCEPT ![c].pc = "done"]
    /\ m_mutex' = m_mutex
    /\ UNCHANGED <<client, active, said, at0, buffer_peer, ring, recvs, sq, unacked>>

\* BYEBYE: the thread returns and unlocks.
ServerBye(c) ==
    /\ ServerPolls(c, "bye", IsMsg("BYEBYE"))
    /\ server' = [server EXCEPT ![c].pc = "done"]
    /\ m_mutex' = "none"
    /\ UNCHANGED <<client, active, said, at0, buffer_peer, ring, recvs, sq, unacked>>

-----------------------------------------------------------------------------
(* The NIC; the queue pairs of an aborted process are gone *)

Live(e) == {Owner(e), Owner(Other(e))} \cap aborted = {}

\* A SEND takes the oldest receive of the peer, which may be too short for it.
ExecuteSend(e) ==
    LET w == Head(sq[e]) p == Other(e) r == Head(recvs[p]) fits == w.len <= r.len IN
    /\ Live(e)
    /\ sq[e] # <<>> /\ w.op = "SEND" /\ recvs[p] # <<>>
    /\ sq' = [sq EXCEPT ![e] = Tail(@)]
    /\ recvs' = [recvs EXCEPT ![p] = Tail(@)]
    /\ unacked' = [unacked EXCEPT ![e] =
                      Append(@, IF fits THEN w ELSE [w EXCEPT !.op = "ERROR"])]
    /\ cq' = [cq EXCEPT ![p] = Append(@, [op |-> IF fits THEN "RECV" ELSE "ERROR",
                                          msg |-> w.msg, block |-> r.block])]
    /\ at0' = IF p = Client(e[1]) /\ w.len > 0 THEN [at0 EXCEPT ![e[1]] = w.data] ELSE at0
    /\ UNCHANGED <<client, server, m_mutex, active, said, buffer_peer, ring, aborted>>

\* A WRITE or a READ goes to the block in the descriptor; the NIC refuses an address
\* that is not in one.
ExecuteRdma(e) ==
    LET w == Head(sq[e]) IN
    /\ Live(e)
    /\ sq[e] # <<>> /\ w.op \in {"WRITE", "READ"}
    /\ sq' = [sq EXCEPT ![e] = Tail(@)]
    /\ unacked' = [unacked EXCEPT ![e] =
          Append(@, IF w.data \in Clients THEN w ELSE [w EXCEPT !.op = "ERROR"])]
    /\ UNCHANGED <<client, server, m_mutex, active, said, at0, buffer_peer, ring, recvs,
                   cq, aborted>>

Acknowledge(e) ==
    LET w == Head(unacked[e]) IN
    /\ Live(e)
    /\ unacked[e] # <<>>
    /\ unacked' = [unacked EXCEPT ![e] = Tail(@)]
    /\ cq' = [cq EXCEPT ![e] =
                 Append(@, [op |-> w.op, msg |-> w.msg, block |-> w.block])]
    /\ UNCHANGED <<client, server, m_mutex, active, said, at0, buffer_peer, ring, recvs,
                   sq, aborted>>

-----------------------------------------------------------------------------
ClientStep(c) ==
    \/ ClientRegister(c) \/ ClientSyncSend(c) \/ ClientSyncRecv(c) \/ ClientRequest(c)
    \/ \E pc \in {"exchange", "answer"} : ClientAwait(c, pc)
    \/ \E test \in Tests : ClientPost(c, test) \/ ClientPoll(c, test)
    \/ ClientBye(c) \/ ClientExit(c)

ServerStep(c) ==
    \/ ServerLock(c) \/ ServerRegister(c) \/ ServerSyncSend(c) \/ ServerSyncRecv(c)
    \/ ServerExchange(c)
    \/ \E pc \in {"responded", "answered"} : ServerSent(c, pc)
    \/ \E pc \in {"round", "final"} : ServerPostControl(c, pc)
    \/ ServerRequest(c) \/ ServerData(c) \/ ServerBye(c)

Execute(e) == ExecuteSend(e) \/ ExecuteRdma(e)

Next ==
    \/ \E c \in Clients : ClientStep(c) \/ ServerStep(c)
    \/ \E e \in End : Execute(e) \/ Acknowledge(e)

Spec == Init /\ [][Next]_vars

\* Every thread runs, m_mutex is handed on, and the NIC makes progress.
FairSpec ==
    /\ Spec
    /\ \A c \in Clients : WF_vars(ClientStep(c)) /\ WF_vars(ServerStep(c))
    /\ \A e \in End : WF_vars(Execute(e)) /\ WF_vars(Acknowledge(e))

-----------------------------------------------------------------------------
(* Properties *)

\* No CHECK of process_CQ fails, in any order of completions that the sleep of
\* 1 ms allows (lat_bw_benchmark.cc:79-94, 120-136, 434-439, 459-463, 496-512).
ChecksHold == aborted = {}

\* What CHECK(global_wc[0].opcode == IBV_WC_SEND) at lat_bw_benchmark.cc:498 takes
\* for granted: what the server polls after it has posted its answer is the
\* completion of that answer, never a message of the client.
AnswerCompletesFirst ==
    \A c \in Clients :
        server[c].pc = "answered" /\ cq[Server(c)] # <<>> =>
            Head(cq[Server(c)]).op = "SEND"

\* Completions not yet polled: of operations of the end itself, and of receives.
Completed(e) == {i \in DOMAIN cq[e] : cq[e][i].op # "RECV"}
Arrived(e) == {i \in DOMAIN cq[e] : cq[e][i].op = "RECV"}

\* The send and the receive queue of an end and its completion queue do not
\* overflow: a full bandwidth test and the Count receives of a round fit in, since
\* nothing of the test before is left (lat_bw_benchmark.cc:212, 484, 548).
QueuesFit ==
    \A e \in End :
        /\ Len(sq[e]) + Len(unacked[e]) + Cardinality(Completed(e)) <= MaxWr
        /\ Len(recvs[e]) + Cardinality(Arrived(e)) <= MaxWr

\* A block that has a receive in flight is not the block of another receive, and
\* is not sent from, written from or read into: at() and next() hand out the same
\* blocks without a check (rdma_buffer.h:105, 116), and the answer of a round
\* leaves from a block that has a receive posted.
NoBlockInUseTwice ==
    \A e \in End :
        LET posted == {recvs[e][i].block : i \in DOMAIN recvs[e]}
            arrived == {cq[e][i].block : i \in Arrived(e)}
        IN
        /\ \A i, j \in DOMAIN recvs[e] : recvs[e][i].block = recvs[e][j].block => i = j
        /\ \A i, j \in Arrived(e) : cq[e][i].block = cq[e][j].block => i = j
        /\ posted \cap arrived = {}
        /\ \A i \in DOMAIN sq[e] :
               sq[e][i].len > 0 => sq[e][i].block \notin posted \cup arrived

\* The descriptor a client writes to is that of the buffer the server registered
\* for it, although the threads share benchmark_buffer (lat_bw_benchmark.cc:445).
OwnDescriptor == \A c \in Clients : buffer_peer[c] \in {"unset", c}

\* The server thread of a client is done only after the client's last RDMA
\* operation: the server never leaves while its memory is written to or read
\* (lat_bw_benchmark.cc:548-561).
ServerOutlivesClient ==
    \A c \in Clients :
        server[c].pc = "done" =>
            \A w \in {sq[Client(c)][i] : i \in DOMAIN sq[Client(c)]} :
                w.op \notin {"WRITE", "READ"}

\* The client is gone, and its BYEBYE never left the send queue.
ByeLost(c) ==
    /\ client[c].pc = "exited" /\ server[c].pc # "done"
    /\ \A i \in DOMAIN cq[Server(c)] : cq[Server(c)][i].msg # "BYEBYE"

\* The server serves all its clients, one after the other, unless one of them
\* exits before its BYEBYE has left: then the thread polls for ever with m_mutex
\* locked (lat_bw_benchmark.cc:382, 534, 550).
AllServedUnlessByeLost ==
    <>(\/ \A c \in Clients : server[c].pc = "done"
       \/ \E c \in Clients : ByeLost(c))
=============================================================================
