---------------------------- MODULE MeshService ----------------------------
(***************************************************************************)
(* The data plane of the mesh service (example/mesh_comm_service.cc): the  *)
(* ServerTower, one thread polling the completion queue its channels       *)
(* share, and the ClientTowers connected to it, one thread each.  A client *)
(* asks for the descriptor of the server's buffer and then keeps           *)
(* NUM_BLOCK - 1 writes to it in flight.                                   *)
(*                                                                         *)
(* Each end of a connection splits a send and a receive buffer into        *)
(* NUM_BLOCK blocks and uses them as rings: next() hands out a block,      *)
(* last() takes the oldest one back (rdma_buffer.h).  Nothing ties a block *)
(* to its work request: a completion carries its channel only, so the      *)
(* block is implied by the order of completions.  The model carries it     *)
(* along in work requests and completions as a history variable that no    *)
(* guard or assignment of a handler looks at.                              *)
(*                                                                         *)
(* The NIC is external.  It executes a send queue in order, and reports a  *)
(* work request as completed when the peer's acknowledgement arrives,      *)
(* which may be after a later message of the peer.                         *)
(***************************************************************************)
EXTENDS Integers, Sequences, FiniteSets

CONSTANTS
    Channels,   \* aggregated_channels of the server, one per client, in order
    NUM_BLOCK,  \* blocks of a buffer, max_send_wr and max_recv_wr (128)
    IntRange    \* number of values of the int counters of a ring (2^32)

Clients == {Channels[i] : i \in 1..Len(Channels)}

ASSUME MeshAssumption ==
    /\ Channels \in Seq(Clients) /\ Channels # <<>>
    /\ Cardinality(Clients) = Len(Channels)
    /\ "server" \notin Clients
    /\ NUM_BLOCK \in Nat /\ NUM_BLOCK > 1
    /\ IntRange \in Nat /\ IntRange > NUM_BLOCK /\ IntRange % NUM_BLOCK = 0

Thread == Clients \cup {"server"}

\* The client's and the server's end of the connection of client c.
End == Clients \X {"client", "server"}
Client(c) == <<c, "client">>
Server(c) == <<c, "server">>
Other(e) == IF e = Client(e[1]) THEN Server(e[1]) ELSE Client(e[1])
Owner(e) == IF e = Client(e[1]) THEN e[1] ELSE "server"

Block == 0..(NUM_BLOCK - 1)

\* Contents of a block: cleared, never initialised, or a CommDescriptor.
Content == {"zero", "junk", "desc"}

Op == {"SEND", "WRITE", "RECV"}
Request == [op : {"SEND", "WRITE"}, block : Block]
Completion == [end : End, op : Op, block : Block]

VARIABLES
    stage,     \* stage[t]: where thread t is before its polling loop
    syncing,   \* the channel the server is about to sync with
    said,      \* said[e]: end e has sent its byte of the FinalSync
    ring,      \* ring[e]: next_active and last_active of the two buffers of e
    sendmem,   \* sendmem[e]: the send buffer of e; the server's is also the target
               \*   of the client's writes
    recvmem,   \* recvmem[c]: the receive buffer of client c
    peer_comm, \* peer_comm[c]: what c holds as the descriptor of its peer
    recvs,     \* recvs[e]: blocks posted as receives, oldest first
    sq,        \* sq[e]: work requests not yet executed
    unacked,   \* unacked[e]: executed, not yet acknowledged
    cq         \* cq[t]: completions not yet handled by thread t

vars == <<stage, syncing, said, ring, sendmem, recvmem, peer_comm, recvs, sq,
          unacked, cq>>

Counter == 0..(IntRange - 1)
Ring == [snext : Counter, slast : Counter, rnext : Counter, rlast : Counter]

\* Above all, every index that next() and last() take out of the running counters
\* is a block of buffer_mgr_ (rdma_buffer.h:116-129).
TypeOK ==
    /\ stage \in [Thread -> {"start", "posted", "sent", "running"}]
    /\ syncing \in 1..(Len(Channels) + 1)
    /\ said \in [End -> BOOLEAN]
    /\ ring \in [End -> Ring]
    /\ sendmem \in [End -> [Block -> Content]]
    /\ recvmem \in [Clients -> [Block -> Content]]
    /\ peer_comm \in [Clients -> Content \cup {"unset"}]
    /\ recvs \in [End -> Seq(Block)]
    /\ sq \in [End -> Seq(Request)]
    /\ unacked \in [End -> Seq(Request)]
    /\ cq \in [Thread -> Seq(Completion)]

-----------------------------------------------------------------------------
(* RDMABuffer *)

\* Counters of type int, as unsigned values: -1 is IntRange - 1.
MinusOne == IntRange - 1

\* ++next_active and ++last_active.  Past the largest int the increment is
\* undefined in C++; the counters live in memory and are converted to size_t for
\* the index, and the builds wrap.
Inc(n) == (n + 1) % IntRange

\* Mutant: the index may be one past the last block of buffer_mgr_.
BlockOfOneMore(n) == n % (NUM_BLOCK + 1)

\* buffer_mgr_[n % blocks_]; IntRange is a multiple of NUM_BLOCK, so the
\* conversion of a negative int to size_t does not disturb it.
BlockOf(n) == n % NUM_BLOCK

\* The constructor clears the first block only.
FreshBuffer == [b \in Block |-> IF b = 0 THEN "zero" ELSE "junk"]

\* The blocks handed out by k calls of next() on a ring whose counter is n.
Handed(n, k) == [i \in 1..k |-> BlockOf((n + i) % IntRange)]

Requests(op, blocks) == [i \in 1..Len(blocks) |-> [op |-> op, block |-> blocks[i]]]

Init ==
    /\ stage = [t \in Thread |-> "start"]
    /\ syncing = 1
    /\ said = [e \in End |-> FALSE]
    /\ ring = [e \in End |-> [snext |-> MinusOne, slast |-> MinusOne,
                              rnext |-> MinusOne, rlast |-> MinusOne]]
    /\ sendmem = [e \in End |-> FreshBuffer]
    /\ recvmem = [c \in Clients |-> FreshBuffer]
    /\ peer_comm = [c \in Clients |-> "unset"]
    /\ recvs = [e \in End |-> <<>>]
    /\ sq = [e \in End |-> <<>>]
    /\ unacked = [e \in End |-> <<>>]
    /\ cq = [t \in Thread |-> <<>>]

-----------------------------------------------------------------------------
(* process_CQ before its polling loop *)

\* Post every block of the receive buffer, on every channel of the thread.
PostReceives(t) ==
    /\ stage[t] = "start"
    /\ stage' = [stage EXCEPT ![t] = "posted"]
    /\ recvs' = [e \in End |->
          IF Owner(e) = t THEN Handed(ring[e].rnext, NUM_BLOCK) ELSE recvs[e]]
    /\ ring' = [e \in End |->
          IF Owner(e) = t THEN [ring[e] EXCEPT !.rnext = (@ + NUM_BLOCK) % IntRange]
          ELSE ring[e]]
    /\ UNCHANGED <<syncing, said, sendmem, recvmem, peer_comm, sq, unacked, cq>>

\* FinalSync_for_Working: the server syncs with its channels one after the other.
ServerSyncSend ==
    /\ stage["server"] = "posted"
    /\ stage' = [stage EXCEPT !["server"] = "sent"]
    /\ said' = [said EXCEPT ![Server(Channels[syncing])] = TRUE]
    /\ UNCHANGED <<syncing, ring, sendmem, recvmem, peer_comm, recvs, sq, unacked, cq>>

ServerSyncRecv ==
    /\ stage["server"] = "sent"
    /\ said[Client(Channels[syncing])]
    /\ syncing' = syncing + 1
    /\ stage' = [stage EXCEPT !["server"] =
                    IF syncing = Len(Channels) THEN "running" ELSE "posted"]
    /\ UNCHANGED <<said, ring, sendmem, recvmem, peer_comm, recvs, sq, unacked, cq>>

ClientSyncSend(c) ==
    /\ stage[c] = "posted"
    /\ stage' = [stage EXCEPT ![c] = "sent"]
    /\ said' = [said EXCEPT ![Client(c)] = TRUE]
    /\ UNCHANGED <<syncing, ring, sendmem, recvmem, peer_comm, recvs, sq, unacked, cq>>

\* Mutant: the client asks before it has heard from the server.
ClientSyncRecvAtOnce(c) ==
    /\ stage[c] = "sent"
    /\ stage' = [stage EXCEPT ![c] = "running"]
    /\ ring' = [ring EXCEPT ![Client(c)].snext = Inc(@)]
    /\ sq' = [sq EXCEPT ![Client(c)] =
                 @ \o Requests("SEND", Handed(ring[Client(c)].snext, 1))]
    /\ UNCHANGED <<syncing, said, sendmem, recvmem, peer_comm, recvs, unacked, cq>>

\* The client has heard from the server: it sends REQUEST_BUFFER and polls.
ClientSyncRecv(c) ==
    /\ stage[c] = "sent"
    /\ said[Server(c)]
    /\ stage' = [stage EXCEPT ![c] = "running"]
    /\ ring' = [ring EXCEPT ![Client(c)].snext = Inc(@)]
    /\ sq' = [sq EXCEPT ![Client(c)] =
                 @ \o Requests("SEND", Handed(ring[Client(c)].snext, 1))]
    /\ UNCHANGED <<syncing, said, sendmem, recvmem, peer_comm, recvs, unacked, cq>>

-----------------------------------------------------------------------------
(* The NIC *)

\* A SEND takes the oldest receive of the peer.  Only the block of the server's
\* response matters to its receiver.
ExecuteSend(e) ==
    LET w == Head(sq[e]) p == Other(e) b == Head(recvs[p]) IN
    /\ sq[e] # <<>> /\ w.op = "SEND" /\ recvs[p] # <<>>
    /\ sq' = [sq EXCEPT ![e] = Tail(@)]
    /\ unacked' = [unacked EXCEPT ![e] = Append(@, w)]
    /\ recvs' = [recvs EXCEPT ![p] = Tail(@)]
    /\ recvmem' = IF p = Client(e[1])
                  THEN [recvmem EXCEPT ![e[1]][b] = sendmem[e][w.block]]
                  ELSE recvmem
    /\ cq' = [cq EXCEPT ![Owner(p)] = Append(@, [end |-> p, op |-> "RECV", block |-> b])]
    /\ UNCHANGED <<stage, syncing, said, ring, sendmem, peer_comm>>

\* A WRITE goes to the address in the descriptor: the first block of the server's
\* send buffer, whichever block it comes from.
ExecuteWrite(e) ==
    LET w == Head(sq[e]) IN
    /\ sq[e] # <<>> /\ w.op = "WRITE"
    /\ sq' = [sq EXCEPT ![e] = Tail(@)]
    /\ unacked' = [unacked EXCEPT ![e] = Append(@, w)]
    /\ sendmem' = [sendmem EXCEPT ![Other(e)][0] = sendmem[e][w.block]]
    /\ UNCHANGED <<stage, syncing, said, ring, recvmem, peer_comm, recvs, cq>>

\* The acknowledgement of the oldest executed work request arrives.
Acknowledge(e) ==
    /\ unacked[e] # <<>>
    /\ unacked' = [unacked EXCEPT ![e] = Tail(@)]
    /\ cq' = [cq EXCEPT ![Owner(e)] =
                 Append(@, [end |-> e, op |-> Head(unacked[e]).op,
                            block |-> Head(unacked[e]).block])]
    /\ UNCHANGED <<stage, syncing, said, ring, sendmem, recvmem, peer_comm, recvs, sq>>

-----------------------------------------------------------------------------
(* The polling loops *)

\* Thread t has polled a completion of kind op at end e.
Polled(t, e, op) ==
    /\ stage[t] = "running"
    /\ cq[t] # <<>> /\ Head(cq[t]).end = e /\ Head(cq[t]).op = op
    /\ cq' = [cq EXCEPT ![t] = Tail(@)]

\* IBV_WC_SEND, at either end.
SendDone(e) ==
    /\ Polled(Owner(e), e, "SEND")
    /\ ring' = [ring EXCEPT ![e].slast = Inc(@)]
    /\ UNCHANGED <<stage, syncing, said, sendmem, recvmem, peer_comm, recvs, sq, unacked>>

\* Mutant: the receive is posted on the block after the next one.
ServerRecvSkips(c) ==
    LET e == Server(c) IN
    /\ Polled("server", e, "RECV")
    /\ ring' = [ring EXCEPT ![e] = [snext |-> Inc(@.snext), slast |-> @.slast,
                                    rnext |-> Inc(@.rnext), rlast |-> Inc(@.rlast)]]
    /\ sendmem' = [sendmem EXCEPT ![e][BlockOf(Inc(ring[e].snext))] = "desc"]
    /\ sq' = [sq EXCEPT ![e] = @ \o Requests("SEND", Handed(ring[e].snext, 1))]
    /\ recvs' = [recvs EXCEPT ![e] = @ \o Handed(Inc(ring[e].rnext), 1)]
    /\ UNCHANGED <<stage, syncing, said, recvmem, peer_comm, unacked>>

\* IBV_WC_RECV of the server, always a REQUEST_BUFFER: the response describes the
\* send buffer whose next block carries it; then a receive is posted again.
ServerRecv(c) ==
    LET e == Server(c) IN
    /\ Polled("server", e, "RECV")
    /\ ring' = [ring EXCEPT ![e] = [snext |-> Inc(@.snext), slast |-> @.slast,
                                    rnext |-> Inc(@.rnext), rlast |-> Inc(@.rlast)]]
    /\ sendmem' = [sendmem EXCEPT ![e][BlockOf(Inc(ring[e].snext))] = "desc"]
    /\ sq' = [sq EXCEPT ![e] = @ \o Requests("SEND", Handed(ring[e].snext, 1))]
    /\ recvs' = [recvs EXCEPT ![e] = @ \o Handed(ring[e].rnext, 1)]
    /\ UNCHANGED <<stage, syncing, said, recvmem, peer_comm, unacked>>

\* Mutant: the loop posts a write for every block.
BurstOfAll == NUM_BLOCK

\* The writes the client starts with: one block is left for the request.
Burst == NUM_BLOCK - 1

\* Mutant: the client takes the block after the one that next() returns.
ReadBlockAfter(n) == BlockOf(Inc(Inc(n)))

\* The client reads the descriptor from the block next() returns, which is the
\* oldest receive only because all the blocks were posted and none was reposted.
ReadBlock(n) == BlockOf(Inc(n))

\* IBV_WC_RECV of a client, always a RESPONSE_TO_REQUEST_BUFFER: take the
\* descriptor and start writing.  The receive is not posted again.
ClientRecv(c) ==
    LET e == Client(c) IN
    /\ Polled(c, e, "RECV")
    /\ peer_comm' = [peer_comm EXCEPT ![c] = recvmem[c][ReadBlock(ring[e].rnext)]]
    /\ ring' = [ring EXCEPT ![e] = [snext |-> (@.snext + Burst) % IntRange,
                                    slast |-> @.slast,
                                    rnext |-> Inc(@.rnext), rlast |-> Inc(@.rlast)]]
    /\ sq' = [sq EXCEPT ![e] = @ \o Requests("WRITE", Handed(ring[e].snext, Burst))]
    /\ UNCHANGED <<stage, syncing, said, sendmem, recvmem, recvs, unacked>>

\* Mutant: a completed write is not followed by the next one.
ClientWriteDoneLast(c) ==
    /\ Polled(c, Client(c), "WRITE")
    /\ ring' = [ring EXCEPT ![Client(c)].slast = Inc(@)]
    /\ UNCHANGED <<stage, syncing, said, sendmem, recvmem, peer_comm, recvs, sq, unacked>>

\* IBV_WC_RDMA_WRITE of a client: take the block back and write the next one.
ClientWriteDone(c) ==
    LET e == Client(c) IN
    /\ Polled(c, e, "WRITE")
    /\ ring' = [ring EXCEPT ![e].slast = Inc(@), ![e].snext = Inc(@)]
    /\ sq' = [sq EXCEPT ![e] = @ \o Requests("WRITE", Handed(ring[e].snext, 1))]
    /\ UNCHANGED <<stage, syncing, said, sendmem, recvmem, peer_comm, recvs, unacked>>

-----------------------------------------------------------------------------
ServerStep ==
    \/ PostReceives("server") \/ ServerSyncSend \/ ServerSyncRecv
    \/ \E c \in Clients : SendDone(Server(c)) \/ ServerRecv(c)

ClientStep(c) ==
    \/ PostReceives(c) \/ ClientSyncSend(c) \/ ClientSyncRecv(c)
    \/ SendDone(Client(c)) \/ ClientRecv(c) \/ ClientWriteDone(c)

Execute(e) == ExecuteSend(e) \/ ExecuteWrite(e)

Next ==
    \/ ServerStep
    \/ \E c \in Clients : ClientStep(c)
    \/ \E e \in End : Execute(e) \/ Acknowledge(e)

Spec == Init /\ [][Next]_vars

\* Every thread keeps polling, the NIC executes what is posted and acknowledges
\* what it has executed.
FairSpec ==
    /\ Spec
    /\ WF_vars(ServerStep)
    /\ \A c \in Clients : WF_vars(ClientStep(c))
    /\ \A e \in End : WF_vars(Execute(e)) /\ WF_vars(Acknowledge(e))

-----------------------------------------------------------------------------
BlocksOf(q) == [i \in 1..Len(q) |-> q[i].block]

\* The completions of end e and one of the kinds ops in a completion queue, in
\* order: by their places in it, since the prover knows nothing of SelectSeq.
Places(q, e, ops) == {i \in 1..Len(q) : q[i].end = e /\ q[i].op \in ops}

Nth(P, k) == CHOOSE i \in P : Cardinality({j \in P : j <= i}) = k

Select(q, e, ops) ==
    LET P == Places(q, e, ops) IN [k \in 1..Cardinality(P) |-> q[Nth(P, k)]]

\* The completions of end e that its thread has not polled.
Done(e, ops) == Select(cq[Owner(e)], e, ops)

\* Work requests of e that still occupy its send queue: a slot is free again once
\* the completion has been polled.
Outstanding(e) ==
    BlocksOf(Done(e, {"SEND", "WRITE"})) \o BlocksOf(unacked[e]) \o BlocksOf(sq[e])

\* The send queue never overflows, which would be FATAL (rdma_device.cc:500-507):
\* NUM_BLOCK - 1 writes and a request whose completion comes late just fit in.
SendQueueFits == \A e \in End : Len(Outstanding(e)) <= NUM_BLOCK

\* The blocks of the send ring between last_active and next_active are, in order,
\* those of the work requests in flight.
SendRingFollows(e) ==
    Outstanding(e) = Handed(ring[e].slast, (ring[e].snext - ring[e].slast) % IntRange)

\* The same for the receive ring.
RecvRingFollows(e) ==
    BlocksOf(Done(e, {"RECV"})) \o recvs[e]
        = Handed(ring[e].rlast, (ring[e].rnext - ring[e].rlast) % IntRange)

\* What the CHECKs commented out in next() and last() say (rdma_buffer.h:119, 126),
\* and more: both rings follow their queue across the wrap of the counters, so a
\* completion takes back its own block and no block is handed out while the NIC
\* still uses it, although one thread of the server serves all channels from one
\* completion queue.
RingsFollowQueues ==
    /\ \A e \in End : SendRingFollows(e)
    /\ \A c \in Clients : RecvRingFollows(Server(c))

\* The client takes the descriptor from the block the response landed in
\* (mesh_comm_service.cc:313-316), and the response was sent before any write
\* could overwrite the block it was sent from.
DescriptorRead == \A c \in Clients : peer_comm[c] \in {"unset", "desc"}

\* The comment at rdma_device.cc:420 ("there is a Receive Request in the responder
\* side") holds in this service: receives are posted before the FinalSync.
SendFindsReceive ==
    \A e \in End : sq[e] # <<>> /\ Head(sq[e]).op = "SEND" => recvs[Other(e)] # <<>>

\* What the comment at rdma_buffer.cc:164 says of the memory of a new buffer,
\* "clean all the mem buf": the clients never fill their blocks, so only zeros are
\* written to the server.
OnlyCleanMemory == \A c \in Clients : sendmem[Server(c)][0] # "junk"

\* Every client writes for ever, with one server thread for all of them and a sync
\* of the server that waits for each client in turn.
WritesForever ==
    \A c \in Clients : []<>(cq[c] # <<>> /\ Head(cq[c]).op = "WRITE")
=============================================================================
