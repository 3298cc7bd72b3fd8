--------------------------- MODULE DefaultSession ---------------------------
(***************************************************************************)
(* The default data-plane protocol of an RDMASession, run over one         *)
(* connected channel by the client and the server: the establishment       *)
(* callback, then the completion handlers of src/src/rdma_session.cc that  *)
(* exchange greetings, swap the descriptor of the read/write sink buffer,  *)
(* and loop write / read-back for ever.                                    *)
(*                                                                         *)
(* The reliable-connection queue pair (the NIC) is external: it executes   *)
(* the send queue in order, consumes one posted receive per SEND and per   *)
(* WRITE_WITH_IMM, and waits (rnr_retry = 7, for ever) when the responder  *)
(* has none.  Each side runs one process_CQ thread per completion queue,   *)
(* so a handler is one atomic step of its side; between the verbs calls of *)
(* a handler the NIC can only do what it could do before or after it.      *)
(*                                                                         *)
(* Payloads keep only what the handlers tell apart.  Filling a buffer      *)
(* while a posted work request still points at it is a data race with the  *)
(* NIC: "mixed" stands for whatever mixture of old and new bytes the NIC   *)
(* reads.  No guard looks at a payload.                                    *)
(***************************************************************************)
EXTENDS Naturals, Sequences

CONSTANT PostedRecvs   \* receives posted on recv_buffer by default_established_fn

ASSUME PostedRecvsAssumption == PostedRecvs \in Nat \ {0}

Side == {"client", "server"}

Peer(s) == IF s = "client" THEN "server" ELSE "client"

(***************************************************************************)
(* Contents of a buffer: zeroed, the greeting of default_established_fn,   *)
(* the CommDescriptor of the local sink, the greeting of the UNSET replies, *)
(* the read/write test text, or a torn mixture.                            *)
(***************************************************************************)
Payload == {"zero", "hello", "desc", "greet", "text", "mixed"}
Text    == {"zero", "text"}

(***************************************************************************)
(* Work requests by the opcode the posting functions of RDMADevice set and *)
(* by immediate value: IBV_WR_SEND_WITH_IMM tagged TEST_FOR_SYNC_DATA,     *)
(* REQUEST_EXCHANGE_KEY, RESPONSE_EXCHANGE_KEY and UNSET; the notifying    *)
(* IBV_WR_RDMA_WRITE_WITH_IMM (WIMM), the silent IBV_WR_RDMA_WRITE and     *)
(* IBV_WR_RDMA_READ.                                                       *)
(***************************************************************************)
SendKind  == {"SYNC", "REQ", "RESP", "UNSET"}
WriteKind == {"WIMM", "WRITE"}
RecvKind  == SendKind \cup {"WIMM"}            \* consume a posted receive
Kind      == SendKind \cup WriteKind \cup {"READ"}
WorkRequest == [kind : Kind, data : Payload]

(***************************************************************************)
(* Progress of default_established_fn on the channel, then "running" once  *)
(* the thread is in the polling loop of process_CQ.                        *)
(***************************************************************************)
Stage == {"start", "posted", "sent", "synced", "running"}

VARIABLES
    stage,     \* stage[s]: where side s is
    sendbuf,   \* contents of send_buffer_for_test
    recvbuf,   \* contents of recv_buffer_for_test (all receives share it)
    writebuf,  \* contents of write_buffer_for_test
    readbuf,   \* contents of read_buffer_for_test
    sink,      \* contents of read_write_sink_buffer_for_test
    peerbuf,   \* "none", or what is stored as the peer's sink descriptor
    recvs,     \* receives posted and not yet consumed
    sq,        \* send queue: work requests posted and not yet executed
    inbox,     \* receive completions not yet handled, oldest first
    comp       \* WRITE and READ completions not yet handled, oldest first

vars == <<stage, sendbuf, recvbuf, writebuf, readbuf, sink, peerbuf,
          recvs, sq, inbox, comp>>

\* Of the payloads, only the test text ever gets into the buffers of the RDMA
\* operations: no message and no torn write reaches a sink, or is read back from
\* one (rdma_session.cc:316-323, 383-388, 408-414).
TypeOK ==
    /\ stage \in [Side -> Stage]
    /\ sendbuf \in [Side -> Payload]
    /\ recvbuf \in [Side -> Payload]
    /\ writebuf \in [Side -> Text]
    /\ readbuf \in [Side -> Text]
    /\ sink \in [Side -> Text]
    /\ peerbuf \in [Side -> Payload \cup {"none"}]
    /\ recvs \in [Side -> Nat]
    /\ sq \in [Side -> Seq(WorkRequest)]
    /\ inbox \in [Side -> Seq(RecvKind)]
    /\ comp \in [Side -> Seq({"WRITE", "READ"})]

Init ==
    /\ stage = [s \in Side |-> "start"]
    /\ sendbuf = [s \in Side |-> "zero"]
    /\ recvbuf = [s \in Side |-> "zero"]
    /\ writebuf = [s \in Side |-> "zero"]
    /\ readbuf = [s \in Side |-> "zero"]
    /\ sink = [s \in Side |-> "zero"]
    /\ peerbuf = [s \in Side |-> "none"]
    /\ recvs = [s \in Side |-> 0]
    /\ sq = [s \in Side |-> <<>>]
    /\ inbox = [s \in Side |-> <<>>]
    /\ comp = [s \in Side |-> <<>>]

-----------------------------------------------------------------------------
(* The verbs a handler uses. *)

\* The send queue q after the buffer behind the work requests of the given
\* kinds was refilled: the ones the NIC has not executed yet are torn.
Torn(q, kinds) ==
    [i \in 1..Len(q) |->
        IF q[i].kind \in kinds THEN [q[i] EXCEPT !.data = "mixed"] ELSE q[i]]

\* A work request, posted at the tail of a send queue.
Post(q, k, d) == Append(q, [kind |-> k, data |-> d])

\* recv_remote(recv_buffer): one more receive on the shared recv_buffer.
RecvRemote(s) == recvs' = [recvs EXCEPT ![s] = @ + 1]

\* send_buffer->fill_in(d), then send_remote(send_buffer, imm k).
FillAndSend(s, d, k) ==
    /\ sendbuf' = [sendbuf EXCEPT ![s] = d]
    /\ sq' = [sq EXCEPT ![s] = Post(Torn(@, SendKind), k, d)]

\* write_buffer->fill_in(text), then write_remote to the peer's sink, with or
\* without notification; q is the send queue at that point.
FillAndWrite(s, q, k) ==
    /\ writebuf' = [writebuf EXCEPT ![s] = "text"]
    /\ sq' = [sq EXCEPT ![s] = Post(Torn(q, WriteKind), k, "text")]

\* insert_peer_buffer: the first descriptor stored under the name stays.
InsertPeerBuffer(s, d) ==
    peerbuf' = [peerbuf EXCEPT ![s] = IF @ = "none" THEN d ELSE @]

-----------------------------------------------------------------------------
(* default_established_fn *)

\* Allocate and register the five buffers, clear recv_buffer, and post it as
\* every one of the initial receives.
PostReceives(s) ==
    /\ stage[s] = "start"
    /\ stage' = [stage EXCEPT ![s] = "posted"]
    /\ recvbuf' = [recvbuf EXCEPT ![s] = "zero"]
    /\ recvs' = [recvs EXCEPT ![s] = @ + PostedRecvs]
    /\ UNCHANGED <<sendbuf, writebuf, readbuf, sink, peerbuf, sq, inbox, comp>>

\* sync_with_peer over TCP, first half: send_data.
SyncSend(s) ==
    /\ stage[s] = "posted"
    /\ stage' = [stage EXCEPT ![s] = "sent"]
    /\ UNCHANGED <<sendbuf, recvbuf, writebuf, readbuf, sink, peerbuf, recvs,
                   sq, inbox, comp>>

\* Mutant: the sync does not wait for the peer's message.
SyncRecvAtOnce(s) ==
    /\ stage[s] = "sent"
    /\ stage' = [stage EXCEPT ![s] = "synced"]
    /\ UNCHANGED <<sendbuf, recvbuf, writebuf, readbuf, sink, peerbuf, recvs,
                   sq, inbox, comp>>

\* Second half: recv_data_force returns once the peer's message is complete.
SyncRecv(s) ==
    /\ stage[s] = "sent"
    /\ stage[Peer(s)] \in {"sent", "synced", "running"}
    /\ stage' = [stage EXCEPT ![s] = "synced"]
    /\ UNCHANGED <<sendbuf, recvbuf, writebuf, readbuf, sink, peerbuf, recvs,
                   sq, inbox, comp>>

\* The first SEND, tagged TEST_FOR_SYNC_DATA; the thread then starts polling.
FirstSend(s) ==
    /\ stage[s] = "synced"
    /\ stage' = [stage EXCEPT ![s] = "running"]
    /\ FillAndSend(s, "hello", "SYNC")
    /\ UNCHANGED <<recvbuf, writebuf, readbuf, sink, peerbuf, recvs, inbox, comp>>

-----------------------------------------------------------------------------
(* The NIC executes the head of the send queue. *)

\* SEND with immediate: consumes a receive of the peer and lands in its
\* recv_buffer.  Its own completion is handled by default_process_send_done,
\* which changes nothing, and is left out.
ExecuteSend(s) ==
    LET p == Peer(s) w == Head(sq[s]) IN
    /\ sq[s] # <<>> /\ w.kind \in SendKind
    /\ recvs[p] > 0
    /\ sq' = [sq EXCEPT ![s] = Tail(@)]
    /\ recvs' = [recvs EXCEPT ![p] = @ - 1]
    /\ recvbuf' = [recvbuf EXCEPT ![p] = w.data]
    /\ inbox' = [inbox EXCEPT ![p] = Append(@, w.kind)]
    /\ UNCHANGED <<stage, sendbuf, writebuf, readbuf, sink, peerbuf, comp>>

\* WRITE with immediate: writes the peer's sink, consumes a receive of the
\* peer (whose buffer stays untouched) and completes at both ends.
ExecuteWriteWithImm(s) ==
    LET p == Peer(s) w == Head(sq[s]) IN
    /\ sq[s] # <<>> /\ w.kind = "WIMM"
    /\ recvs[p] > 0
    /\ sq' = [sq EXCEPT ![s] = Tail(@)]
    /\ recvs' = [recvs EXCEPT ![p] = @ - 1]
    /\ sink' = [sink EXCEPT ![p] = w.data]
    /\ inbox' = [inbox EXCEPT ![p] = Append(@, "WIMM")]
    /\ comp' = [comp EXCEPT ![s] = Append(@, "WRITE")]
    /\ UNCHANGED <<stage, sendbuf, recvbuf, writebuf, readbuf, peerbuf>>

\* Plain WRITE: the peer sees no completion.
ExecuteWrite(s) ==
    LET p == Peer(s) w == Head(sq[s]) IN
    /\ sq[s] # <<>> /\ w.kind = "WRITE"
    /\ sq' = [sq EXCEPT ![s] = Tail(@)]
    /\ sink' = [sink EXCEPT ![p] = w.data]
    /\ comp' = [comp EXCEPT ![s] = Append(@, "WRITE")]
    /\ UNCHANGED <<stage, sendbuf, recvbuf, writebuf, readbuf, peerbuf, recvs, inbox>>

\* READ: fetches the peer's sink into read_buffer.
ExecuteRead(s) ==
    LET p == Peer(s) w == Head(sq[s]) IN
    /\ sq[s] # <<>> /\ w.kind = "READ"
    /\ sq' = [sq EXCEPT ![s] = Tail(@)]
    /\ readbuf' = [readbuf EXCEPT ![s] = sink[p]]
    /\ comp' = [comp EXCEPT ![s] = Append(@, "READ")]
    /\ UNCHANGED <<stage, sendbuf, recvbuf, writebuf, sink, peerbuf, recvs, inbox>>

-----------------------------------------------------------------------------
(* The handlers process_CQ dispatches to. *)

\* process_CQ has polled a receive completion of kind k.
PolledRecv(s, k) ==
    /\ stage[s] = "running"
    /\ inbox[s] # <<>> /\ Head(inbox[s]) = k
    /\ inbox' = [inbox EXCEPT ![s] = Tail(@)]

\* process_CQ has polled the completion of an RDMA operation k of its own.
PolledComp(s, k) ==
    /\ stage[s] = "running"
    /\ comp[s] # <<>> /\ Head(comp[s]) = k
    /\ comp' = [comp EXCEPT ![s] = Tail(@)]

\* Mutant: the greeting is filled into send_buffer before the response.
ProcessRequestRefilled(s) ==
    /\ PolledRecv(s, "REQ")
    /\ InsertPeerBuffer(s, recvbuf[s])
    /\ RecvRemote(s)
    /\ sendbuf' = [sendbuf EXCEPT ![s] = "greet"]
    /\ FillAndWrite(s, Post(Torn(sq[s], SendKind), "RESP", "greet"), "WIMM")
    /\ UNCHANGED <<stage, recvbuf, readbuf, sink, comp>>

\* Mutant: the descriptor is used for the write but never stored.
ProcessRequestForgotten(s) ==
    /\ PolledRecv(s, "REQ")
    /\ RecvRemote(s)
    /\ FillAndWrite(s, Post(sq[s], "RESP", sendbuf[s]), "WIMM")
    /\ UNCHANGED <<stage, sendbuf, recvbuf, readbuf, sink, peerbuf, comp>>

\* Mutant: the notifying write is posted from send_buffer.
ProcessRequestWrongBuffer(s) ==
    /\ PolledRecv(s, "REQ")
    /\ InsertPeerBuffer(s, recvbuf[s])
    /\ RecvRemote(s)
    /\ writebuf' = [writebuf EXCEPT ![s] = "text"]
    /\ sq' = [sq EXCEPT ![s] = Post(Post(@, "RESP", sendbuf[s]), "WIMM", sendbuf[s])]
    /\ UNCHANGED <<stage, sendbuf, recvbuf, readbuf, sink, comp>>

\* default_process_recv_done, REQUEST_EXCHANGE_KEY: store the descriptor found
\* in recv_buffer, repost the receive, answer from send_buffer as it stands
\* (it is not refilled), then launch the first, notifying write.
ProcessRequest(s) ==
    /\ PolledRecv(s, "REQ")
    /\ InsertPeerBuffer(s, recvbuf[s])
    /\ RecvRemote(s)
    /\ FillAndWrite(s, Post(sq[s], "RESP", sendbuf[s]), "WIMM")
    /\ UNCHANGED <<stage, sendbuf, recvbuf, readbuf, sink, comp>>

\* Mutant: TEST_FOR_SYNC_DATA falls through to the branch of the other messages.
ProcessSyncAsOther(s) ==
    /\ PolledRecv(s, "SYNC")
    /\ RecvRemote(s)
    /\ FillAndSend(s, "greet", "UNSET")
    /\ UNCHANGED <<stage, recvbuf, writebuf, readbuf, sink, peerbuf, comp>>

\* default_process_recv_done, TEST_FOR_SYNC_DATA: repost the receive and send
\* the descriptor of the local sink.
ProcessSync(s) ==
    /\ PolledRecv(s, "SYNC")
    /\ RecvRemote(s)
    /\ FillAndSend(s, "desc", "REQ")
    /\ UNCHANGED <<stage, recvbuf, writebuf, readbuf, sink, peerbuf, comp>>

\* Mutant: two greetings are sent for one received.
ProcessOtherTwice(s) ==
    /\ \E k \in {"RESP", "UNSET"} : PolledRecv(s, k)
    /\ RecvRemote(s)
    /\ sendbuf' = [sendbuf EXCEPT ![s] = "greet"]
    /\ sq' = [sq EXCEPT ![s] = Post(Post(Torn(@, SendKind), "UNSET", "greet"),
                                    "UNSET", "greet")]
    /\ UNCHANGED <<stage, recvbuf, writebuf, readbuf, sink, peerbuf, comp>>

\* Mutant: a greeting is not answered.
ProcessOtherSilent(s) ==
    /\ \E k \in {"RESP", "UNSET"} : PolledRecv(s, k)
    /\ RecvRemote(s)
    /\ sendbuf' = [sendbuf EXCEPT ![s] = "greet"]
    /\ UNCHANGED <<stage, recvbuf, writebuf, readbuf, sink, peerbuf, sq, comp>>

\* default_process_recv_done, any other message (RESPONSE_EXCHANGE_KEY and
\* UNSET): repost the receive and send the next greeting.
ProcessOther(s) ==
    /\ \E k \in {"RESP", "UNSET"} : PolledRecv(s, k)
    /\ RecvRemote(s)
    /\ FillAndSend(s, "greet", "UNSET")
    /\ UNCHANGED <<stage, recvbuf, writebuf, readbuf, sink, peerbuf, comp>>

\* Mutant: the receive consumed by the notifying write is not reposted.
ProcessRecvWriteWithImmDry(s) ==
    /\ PolledRecv(s, "WIMM")
    /\ UNCHANGED <<stage, sendbuf, recvbuf, writebuf, readbuf, sink, peerbuf,
                   recvs, sq, comp>>

\* default_process_recv_write_with_imm_done: repost the receive.
ProcessRecvWriteWithImm(s) ==
    /\ PolledRecv(s, "WIMM")
    /\ RecvRemote(s)
    /\ UNCHANGED <<stage, sendbuf, recvbuf, writebuf, readbuf, sink, peerbuf,
                   sq, comp>>

\* Mutant: the next write is launched together with the read-back.
ProcessWriteDonePipelined(s) ==
    /\ PolledComp(s, "WRITE")
    /\ peerbuf[s] # "none"
    /\ readbuf' = [readbuf EXCEPT ![s] = "zero"]
    /\ FillAndWrite(s, Post(sq[s], "READ", "zero"), "WRITE")
    /\ UNCHANGED <<stage, sendbuf, recvbuf, sink, peerbuf, recvs, inbox>>

\* default_process_write_done: the peer's descriptor must be known (CHECK);
\* clear read_buffer and read the sink back.
ProcessWriteDone(s) ==
    /\ PolledComp(s, "WRITE")
    /\ peerbuf[s] # "none"
    /\ readbuf' = [readbuf EXCEPT ![s] = "zero"]
    /\ sq' = [sq EXCEPT ![s] = Post(@, "READ", "zero")]
    /\ UNCHANGED <<stage, sendbuf, recvbuf, writebuf, sink, peerbuf, recvs, inbox>>

\* Mutant: nothing is written after the first read-back.
ProcessReadDoneOnce(s) ==
    /\ PolledComp(s, "READ")
    /\ peerbuf[s] # "none"
    /\ UNCHANGED <<stage, sendbuf, recvbuf, writebuf, readbuf, sink, peerbuf,
                   recvs, sq, inbox>>

\* default_process_read_done: the peer's descriptor must be known (CHECK);
\* write again, without notifying the peer.
ProcessReadDone(s) ==
    /\ PolledComp(s, "READ")
    /\ peerbuf[s] # "none"
    /\ FillAndWrite(s, sq[s], "WRITE")
    /\ UNCHANGED <<stage, sendbuf, recvbuf, readbuf, sink, peerbuf, recvs, inbox>>

-----------------------------------------------------------------------------
Establish(s) == PostReceives(s) \/ SyncSend(s) \/ SyncRecv(s) \/ FirstSend(s)

Nic(s) == ExecuteSend(s) \/ ExecuteWriteWithImm(s) \/ ExecuteWrite(s) \/ ExecuteRead(s)

HandleRecv(s) == ProcessRequest(s) \/ ProcessSync(s) \/ ProcessOther(s)
                    \/ ProcessRecvWriteWithImm(s)

HandleComp(s) == ProcessWriteDone(s) \/ ProcessReadDone(s)

Next == \E s \in Side : Establish(s) \/ Nic(s) \/ HandleRecv(s) \/ HandleComp(s)

\* The thread keeps running and polling and takes every completion it polls;
\* the NIC executes what is posted as soon as a receive is there.
Fairness == \A s \in Side :
    /\ WF_vars(Establish(s))
    /\ WF_vars(Nic(s))
    /\ WF_vars(HandleRecv(s))
    /\ WF_vars(HandleComp(s))

Spec == Init /\ [][Next]_vars

FairSpec == Spec /\ Fairness

-----------------------------------------------------------------------------
(* What makes the protocol correct. *)

Kinds(q) == {q[i].kind : i \in 1..Len(q)}

Pending(s) == {inbox[s][i] : i \in 1..Len(inbox[s])}

\* An RDMA operation of s that is posted and not yet reported to its handler.
RdmaKind == WriteKind \cup {"READ"}

\* The descriptor a side stores is the one its peer sent, although every
\* receive lands in the same recv_buffer and the requester goes on using the
\* send_buffer the descriptor was sent from (rdma_session.cc:243-244, 291-314,
\* 349): nothing overwrites it between the landing of REQUEST_EXCHANGE_KEY and
\* its handler.
DescriptorIntact ==
    \A s \in Side :
        /\ "REQ" \in Pending(s) => recvbuf[s] = "desc"
        /\ peerbuf[s] \in {"none", "desc"}

\* The CHECKs of default_process_write_done and default_process_read_done
\* (rdma_session.cc:375, 400) never fail: no RDMA completion is polled before
\* the peer's descriptor is stored.
PeerBufferKnown ==
    \A s \in Side : comp[s] # <<>> => peerbuf[s] # "none"

\* write_buffer, read_buffer and the descriptor are used by one RDMA operation
\* at a time, so no fill_in or clear races with the NIC and what is read back
\* from the peer's sink is what was written (rdma_session.cc:316-321, 383-386,
\* 408-412).
ReadBackIntact ==
    \A s \in Side :
        /\ \A i, j \in 1..Len(sq[s]) :
               sq[s][i].kind \in RdmaKind /\ sq[s][j].kind \in RdmaKind => i = j
        /\ comp[s] # <<>> => Len(comp[s]) = 1 /\ Kinds(sq[s]) \cap RdmaKind = {}
        /\ comp[s] = <<"READ">> => readbuf[s] = "text"

\* No receive is ever lost: once posted, the receives still on the queue and
\* the completions waiting for a handler (which reposts) add up to the initial
\* number (rdma_session.cc:243-244, 311, 328, 358, 436).
ReceivesConserved ==
    \A s \in Side : stage[s] # "start" => recvs[s] + Len(inbox[s]) = PostedRecvs

\* Purpose of the TCP sync between posting the receives and the first SEND
\* (rdma_session.cc:243-255): the first message never meets an empty receive
\* queue.
FirstSendMeetsReceive ==
    \A s \in Side :
        sq[s] # <<>> /\ Head(sq[s]).kind = "SYNC" => recvs[Peer(s)] > 0

\* Although each message is answered by another one, the work requests of one
\* side that the NIC has not executed, or whose effect no thread has handled yet,
\* never exceed four: nothing in the code compares them with max_send_wr,
\* max_recv_wr (128) or cq_size (1024) before posting.  SEND completions have no
\* effect and are not in the model: a slot of the send queue, which the NIC frees
\* when the completion of the request, or of a later one, is polled, may be taken
\* longer than its request is counted here.
Outstanding(s) == Len(sq[s]) + Len(comp[s]) + Len(inbox[Peer(s)])

OutstandingBounded == \A s \in Side : Outstanding(s) <= 4

\* What the comment at src/src/rdma_device.cc:420 says of a posted SEND: "there
\* is a Receive Request in the responder side, so we won't get any into RNR
\* flow".
SendMeetsReceive ==
    \A s \in Side :
        sq[s] # <<>> /\ Head(sq[s]).kind \in SendKind => recvs[Peer(s)] > 0

\* The greetings go on for ever, next to the RDMA operations: each side receives
\* one again and again (rdma_session.cc:345-359).
GreetingsForever == \A s \in Side : []<>("UNSET" \in Pending(s))

-----------------------------------------------------------------------------
(***************************************************************************)
(* The refinement of RemoteStore.  The operation of a side is the RDMA     *)
(* work request in its send queue or the completion its handler has not    *)
(* taken yet; the memory its peer works on is the sink, and the answer of  *)
(* a fetch is read_buffer.                                                 *)
(***************************************************************************)
OpOf(q, c) ==
    IF c # <<>> THEN IF Head(c) = "WRITE" THEN "stored" ELSE "fetched"
    ELSE IF Kinds(q) \cap WriteKind # {} THEN "storing"
    ELSE IF "READ" \in Kinds(q) THEN "fetching"
    ELSE "idle"

Store == INSTANCE RemoteStore
    WITH key <- peerbuf, op <- [s \in Side |-> OpOf(sq[s], comp[s])],
         mem <- sink, got <- readbuf

\* The handlers and the NIC together do what RemoteStore promises, whatever the
\* order in which the two sides start and their queues are served: the descriptor
\* is learnt once and intact, one RDMA operation of a side runs at a time, and a
\* read-back returns the text (rdma_session.cc:278-361, 363-417).
ImplementsStore == Store!Spec

\* And they go on for ever: both sides learn the descriptor of the other, and
\* neither gets stuck in a store or in a fetch (rdma_session.cc:278-361, 363-417).
StoresForever == Store!Fairness

-----------------------------------------------------------------------------
(***************************************************************************)
(* The inductive invariant behind the properties above.                    *)
(*                                                                         *)
(* A side goes through five phases; its phase says what it has sent and    *)
(* which messages of the peer it has handled.  Messages carry the rank of  *)
(* the phase they are sent in, and the pipe from s to its peer p, inbox[p] *)
(* followed by sq[s], is sorted by rank: it starts at the phase of p and   *)
(* stops at the phase of s.                                                *)
(***************************************************************************)
Phase(s) ==
    IF stage[s] # "running" THEN 0
    ELSE IF sendbuf[s] = "hello" THEN 1
    ELSE IF sendbuf[s] = "greet" THEN 4
    ELSE IF peerbuf[s] = "none" THEN 2 ELSE 3

Rank(k) ==
    IF k = "SYNC" THEN 1
    ELSE IF k = "REQ" THEN 2
    ELSE IF k = "RESP" THEN 3
    ELSE IF k = "WIMM" THEN 4 ELSE 5

\* Two messages of one pipe, the first of rank m ahead of the second of rank n.
Ordered(m, n) == m < n \/ (m = 5 /\ n = 5)

\* A message of rank r is under way from s.
InPipe(s, r) ==
    \/ \E i \in 1..Len(inbox[Peer(s)]) : Rank(inbox[Peer(s)][i]) = r
    \/ \E i \in 1..Len(sq[s]) : Rank(sq[s][i].kind) = r

\* A side has no receive before it posts the first ones, starts sending only
\* after its peer posted them, and is at most one phase ahead of its peer.
PhaseInv(s) ==
    /\ stage[s] = "start" => recvs[s] = 0
    /\ stage[s] \in {"synced", "running"} => stage[Peer(s)] \notin {"start", "posted"}
    /\ stage[s] = "running" => sendbuf[s] \in {"hello", "desc", "greet"}
    /\ Phase(s) <= 2 => peerbuf[s] = "none"
    /\ Phase(s) = 4 => peerbuf[s] # "none"
    /\ Phase(s) >= 2 => Phase(s) <= Phase(Peer(s)) + 1

\* No message from s is ahead of the phase of s or behind that of its peer.
RankInv(s) ==
    /\ \A i \in 1..Len(sq[s]) :
          /\ Rank(sq[s][i].kind) >= Phase(Peer(s))
          /\ Rank(sq[s][i].kind) <= Phase(s) \/ Phase(s) >= 3
          /\ sq[s][i].kind = "UNSET" => Phase(s) = 4
    /\ \A i \in 1..Len(inbox[Peer(s)]) :
          /\ Rank(inbox[Peer(s)][i]) >= Phase(Peer(s))
          /\ Rank(inbox[Peer(s)][i]) <= Phase(s) \/ Phase(s) >= 3
          /\ inbox[Peer(s)][i] = "UNSET" => Phase(s) = 4

\* The pipe from s is sorted.
OrderInv(s) ==
    /\ \A i, j \in 1..Len(sq[s]) :
          i < j => Ordered(Rank(sq[s][i].kind), Rank(sq[s][j].kind))
    /\ \A i, j \in 1..Len(inbox[Peer(s)]) :
          i < j => Ordered(Rank(inbox[Peer(s)][i]), Rank(inbox[Peer(s)][j]))
    /\ \A i \in 1..Len(inbox[Peer(s)]), j \in 1..Len(sq[s]) :
          Ordered(Rank(inbox[Peer(s)][i]), Rank(sq[s][j].kind))

\* A control message of s that its peer has not handled yet is in the pipe.
PresenceInv(s) ==
    \A r \in 1..3 : Phase(Peer(s)) <= r /\ r <= Phase(s) => InPipe(s, r)

\* As long as the peer has not stored the descriptor of s, every SEND from
\* REQUEST_EXCHANGE_KEY on carries it, the RESPONSE_EXCHANGE_KEY sent from the
\* same buffer included.
DescInv(s) ==
    /\ Phase(s) \in {2, 3} => sendbuf[s] = "desc"
    /\ Phase(Peer(s)) <= 2 =>
          /\ \A i \in 1..Len(sq[s]) :
                sq[s][i].kind \in {"REQ", "RESP"} => sq[s][i].data = "desc"
          /\ \A i \in 1..Len(inbox[Peer(s)]) :
                inbox[Peer(s)][i] = "REQ" => recvbuf[Peer(s)] = "desc"
    /\ peerbuf[s] \in {"none", "desc"}

\* One RDMA operation at a time, from the handler of REQUEST_EXCHANGE_KEY on.
RdmaInv(s) ==
    /\ \A i \in 1..Len(sq[s]) : sq[s][i].kind \in RdmaKind =>
          /\ \A j \in 1..Len(sq[s]) : sq[s][j].kind \in RdmaKind => i = j
          /\ Len(comp[s]) = 0
          /\ peerbuf[s] # "none"
          /\ sq[s][i].kind \in WriteKind => sq[s][i].data = "text"
          /\ sq[s][i].kind = "READ" => sink[Peer(s)] = "text"
    /\ Len(comp[s]) <= 1
    /\ Len(comp[s]) = 1 =>
          /\ peerbuf[s] # "none"
          /\ sink[Peer(s)] = "text"
          /\ comp[s][1] = "READ" => readbuf[s] = "text"

IndInv ==
    /\ TypeOK
    /\ ReceivesConserved
    /\ \A s \in Side : /\ PhaseInv(s)
                       /\ RankInv(s)
                       /\ OrderInv(s)
                       /\ PresenceInv(s)
                       /\ DescInv(s)
                       /\ RdmaInv(s)
=============================================================================
