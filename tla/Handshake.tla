----------------------------- MODULE Handshake -----------------------------
(***************************************************************************)
(* How an RDMAServerSession and its RDMAClientSessions connect, from       *)
(* init_session to running (src/src/rdma_server_sess.cc,                   *)
(* rdma_client_sess.cc, rdma_session.cc, rdma_endpoint.cc, rdma_adapter.cc *)
(* and tcp_connector.cc).                                                  *)
(*                                                                         *)
(* A connection has two ends.  Each end runs the same script over one TCP  *)
(* stream: a hello byte in the constructor of RDMAEndPoint, the exchange   *)
(* of AdapterInfo, the QP transitions, and a closing byte.  There is no    *)
(* framing: each sock_sync_data relies on its peer doing the same one.     *)
(* The server constructs its endpoints one by one in the accept loop, and  *)
(* connects them in one helper thread each once it has accepted them all.  *)
(*                                                                         *)
(* TCP is external: a stream delivers in order and in arbitrary pieces; an *)
(* AdapterInfo is two pieces.  A process that fails a CHECK or logs FATAL  *)
(* is dead: its peers can read what it sent, then recv returns 0 (the code *)
(* keeps calling it, the model stutters) or fails.                         *)
(***************************************************************************)
EXTENDS Naturals, Sequences, FiniteSets

CONSTANTS
    Clients,       \* the client processes, one per entry of work_env_.cluster
    MaxTries,      \* how often a client calls connect (3001 in the code)
    Deployments,   \* link layers the ports may have: functions from processes
    MaxFaults      \* bound on the verbs calls that fail on legal arguments

Process == Clients \cup {"server"}

\* IBV_LINK_LAYER_ETHERNET, _INFINIBAND and _UNSPECIFIED, which is 0.
LinkLayers == {"eth", "ib", "unspecified"}

ASSUME HandshakeAssumption ==
    /\ IsFiniteSet(Clients) /\ Clients # {} /\ "server" \notin Clients
    /\ MaxTries \in Nat \ {0}
    /\ Deployments \subseteq [Process -> LinkLayers] /\ Deployments # {}
    /\ MaxFaults \in Nat

\* The end of the connection of client c in the client and in the server.
End == Clients \X {"client", "server"}

Other(e) == <<e[1], IF e[2] = "client" THEN "server" ELSE "client">>

Owner(e) == IF e[2] = "client" THEN e[1] ELSE "server"

EndsOf(p) == {e \in End : Owner(e) = p}

ClusterSize == Cardinality(Clients)

\* What travels on a stream: the byte 'Q', and the two pieces of the
\* AdapterInfo of an end.
Unit == {"Q"} \cup (End \X {1, 2})

InfoOf(e) == <<<<e, 1>>, <<e, 2>>>>

(***************************************************************************)
(* The script of an end.                                                   *)
(***************************************************************************)
Pc == {"idle", "open", "hello", "ready", "info", "peer", "init", "rtr",
       "rts", "closing", "joined"}

Receiving == {"hello", "info", "closing"}      \* inside recv_data_force

QpState == {"none", "RESET", "INIT", "RTR", "RTS"}

VARIABLES
    main,      \* main[p]: init_session, then connecting, then running
    tries,     \* tries[c]: failed connects of client c
    backlog,   \* connections established by TCP, not yet accepted
    endpoints, \* end_point_mgr_ of the server, in order of acceptance
    pc,        \* pc[e]: where the thread of end e is in the script
    stream,    \* stream[e]: units sent by e and not yet read by Other(e)
    buf,       \* buf[e]: what the current recv_data_force of e has read
    remote,    \* remote[e]: remote_ of the adapter of e, <<>> when unset
    qp,        \* qp[e]: state of the queue pair of e
    port,      \* port[p]: link layer of the port of process p
    faults,    \* verbs calls that have failed so far
    dead       \* processes that have aborted

vars == <<main, tries, backlog, endpoints, pc, stream, buf, remote, qp,
          port, faults, dead>>

Main == {"start", "accept", "greet", "connecting", "running"}

TypeOK ==
    /\ main \in [Process -> Main]
    /\ tries \in [Clients -> 0..MaxTries]
    /\ backlog \in Seq(Clients)
    /\ endpoints \in Seq(Clients)
    /\ pc \in [End -> Pc]
    /\ stream \in [End -> Seq(Unit)]
    /\ buf \in [End -> Seq(Unit)]
    /\ remote \in [End -> Seq(Unit)]
    /\ qp \in [End -> QpState]
    /\ port \in [Process -> LinkLayers]
    /\ faults \in 0..MaxFaults
    /\ dead \subseteq Process

Init ==
    /\ main = [p \in Process |-> "start"]
    /\ tries = [c \in Clients |-> 0]
    /\ backlog = <<>>
    /\ endpoints = <<>>
    /\ pc = [e \in End |-> "idle"]
    /\ stream = [e \in End |-> <<>>]
    /\ buf = [e \in End |-> <<>>]
    /\ remote = [e \in End |-> <<>>]
    /\ qp = [e \in End |-> "none"]
    /\ port \in Deployments
    /\ faults = 0
    /\ dead = {}

-----------------------------------------------------------------------------
(* init_session *)

\* The server allocates its socket, binds and listens.
Listen ==
    /\ "server" \notin dead /\ main["server"] = "start"
    /\ main' = [main EXCEPT !["server"] = "accept"]
    /\ UNCHANGED <<tries, backlog, endpoints, pc, stream, buf, remote, qp,
                   port, faults, dead>>

\* A failed socket call before the session has a connection of its own is FATAL:
\* socket in allocate_socket on either side, bind, listen or accept in the server.
SocketFails(p) ==
    /\ p \notin dead
    /\ \/ main[p] = "start" /\ (p \in Clients => tries[p] = 0)
       \/ p = "server" /\ main[p] = "accept"
    /\ dead' = dead \cup {p}
    /\ UNCHANGED <<main, tries, backlog, endpoints, pc, stream, buf, remote, qp,
                   port, faults>>

\* connect succeeds as soon as the server listens, accepted or not; the count of
\* failures, a local variable, is not used again.
Connect(c) ==
    /\ c \notin dead /\ main[c] = "start" /\ tries[c] < MaxTries
    /\ "server" \notin dead /\ main["server"] # "start"
    /\ main' = [main EXCEPT ![c] = "greet"]
    /\ tries' = [tries EXCEPT ![c] = 0]
    /\ backlog' = Append(backlog, c)
    /\ pc' = [pc EXCEPT ![<<c, "client">>] = "open"]
    /\ UNCHANGED <<endpoints, stream, buf, remote, qp, port, faults, dead>>

\* Mutant: the tries are counted but never run out.
ConnectFailsAgain(c) ==
    /\ c \notin dead /\ main[c] = "start"
    /\ "server" \in dead \/ main["server"] = "start"
    /\ tries' = [tries EXCEPT ![c] = @ + 1]
    /\ UNCHANGED <<main, backlog, endpoints, pc, stream, buf, remote, qp, port, faults,
                   dead>>

\* connect fails and is tried again; after the last failure the client goes on
\* with the unconnected socket, and the first send_data is FATAL.
ConnectFails(c) ==
    /\ c \notin dead /\ main[c] = "start" /\ tries[c] < MaxTries
    /\ "server" \in dead \/ main["server"] = "start"
    /\ tries' = [tries EXCEPT ![c] = @ + 1]
    /\ dead' = IF tries'[c] = MaxTries THEN dead \cup {c} ELSE dead
    /\ UNCHANGED <<main, backlog, endpoints, pc, stream, buf, remote, qp, port, faults>>

\* accept, and the constructor of RDMAEndPoint up to its sync.
Accept ==
    /\ "server" \notin dead /\ main["server"] = "accept" /\ backlog # <<>>
    /\ main' = [main EXCEPT !["server"] = "greet"]
    /\ backlog' = Tail(backlog)
    /\ pc' = [pc EXCEPT ![<<Head(backlog), "server">>] = "open"]
    /\ UNCHANGED <<tries, endpoints, stream, buf, remote, qp, port, faults, dead>>

-----------------------------------------------------------------------------
(* TCPConnector *)

Alive(e) == Owner(e) \notin dead

\* sock_sync_data, first half: send_data(u).  Towards a dead peer it may still
\* succeed, or fail (see Reset).
SendData(e, from, to, u) ==
    /\ Alive(e) /\ pc[e] = from
    /\ pc' = [pc EXCEPT ![e] = to]
    /\ stream' = [stream EXCEPT ![e] = @ \o u]

\* How many units the sock_sync_data under way asks for.
XferSize(e) == IF pc[e] = "info" THEN 2 ELSE 1

\* Second half: one recv of recv_data_force, of any length up to what is missing.
RecvData(e) ==
    /\ Alive(e) /\ pc[e] \in Receiving
    /\ \E n \in 1..(XferSize(e) - Len(buf[e])) :
          /\ n <= Len(stream[Other(e)])
          /\ buf' = [buf EXCEPT ![e] = @ \o SubSeq(stream[Other(e)], 1, n)]
          /\ stream' = [stream EXCEPT ![Other(e)] = SubSeq(@, n + 1, Len(@))]
    /\ UNCHANGED <<main, tries, backlog, endpoints, pc, remote, qp, port, faults, dead>>

\* Mutant: a short read counts as the whole message.
ReceivedSome(e, from) ==
    /\ Alive(e) /\ pc[e] = from
    /\ Len(buf[e]) > 0
    /\ buf' = [buf EXCEPT ![e] = <<>>]

\* recv_data_force returns.
Received(e, from) ==
    /\ Alive(e) /\ pc[e] = from
    /\ Len(buf[e]) = XferSize(e)
    /\ buf' = [buf EXCEPT ![e] = <<>>]

\* send or recv on a connection whose peer has died fails, which is FATAL.
Reset(e) ==
    /\ Alive(e) /\ pc[e] \in Receiving \cup {"open", "ready", "rts"}
    /\ pc[e] = "ready" => main[Owner(e)] = "connecting"
    /\ Owner(Other(e)) \in dead
    /\ dead' = dead \cup {Owner(e)}
    /\ UNCHANGED <<main, tries, backlog, endpoints, pc, stream, buf, remote, qp,
                   port, faults>>

-----------------------------------------------------------------------------
(* RDMAEndPoint::RDMAEndPoint: the hello sync *)

SendHello(e) ==
    /\ SendData(e, "open", "hello", <<"Q">>)
    /\ UNCHANGED <<main, tries, backlog, endpoints, buf, remote, qp, port, faults, dead>>

\* Mutant: the accept loop waits for one connection more than the cluster has.
RecvHelloOneMore(e) ==
    /\ Received(e, "hello")
    /\ pc' = [pc EXCEPT ![e] = "ready"]
    /\ IF e[2] = "client"
         THEN /\ main' = [main EXCEPT ![e[1]] = "connecting"]
              /\ UNCHANGED endpoints
         ELSE /\ endpoints' = Append(endpoints, e[1])
              /\ main' = [main EXCEPT !["server"] =
                     IF Len(endpoints') > ClusterSize THEN "connecting" ELSE "accept"]
    /\ UNCHANGED <<tries, backlog, stream, remote, qp, port, faults, dead>>

\* A client has one endpoint and starts connecting; the server stores it in
\* end_point_mgr_ and accepts the next, or starts connecting when it has them all.
RecvHello(e) ==
    /\ Received(e, "hello")
    /\ pc' = [pc EXCEPT ![e] = "ready"]
    /\ IF e[2] = "client"
         THEN /\ main' = [main EXCEPT ![e[1]] = "connecting"]
              /\ UNCHANGED endpoints
         ELSE /\ endpoints' = Append(endpoints, e[1])
              /\ main' = [main EXCEPT !["server"] =
                     IF Len(endpoints') >= ClusterSize THEN "connecting" ELSE "accept"]
    /\ UNCHANGED <<tries, backlog, stream, remote, qp, port, faults, dead>>

-----------------------------------------------------------------------------
(* RDMAEndPoint::connecting, in the helper thread of the endpoint *)

\* channel->loading() creates the QP; then send_data of the AdapterInfo.
LoadAndSendInfo(e) ==
    /\ main[Owner(e)] = "connecting"
    /\ SendData(e, "ready", "info", InfoOf(e))
    /\ qp' = [qp EXCEPT ![e] = "RESET"]
    /\ UNCHANGED <<main, tries, backlog, endpoints, buf, remote, port, faults, dead>>

\* A verbs call of loading() that fails (device, protection domain, completion
\* queue or queue pair) is FATAL.
LoadFails(e) ==
    /\ faults < MaxFaults /\ faults' = faults + 1
    /\ main[Owner(e)] = "connecting"
    /\ Alive(e) /\ pc[e] = "ready"
    /\ dead' = dead \cup {Owner(e)}
    /\ UNCHANGED <<main, tries, backlog, endpoints, pc, stream, buf, remote, qp,
                   port>>

\* The link layer of the port an end uses.
LinkLayer(e) == port[Owner(e)]

\* channel->connecting(peer_info) begins with update_peer_adapter_info, which
\* stores the peer's AdapterInfo.  Its CHECK assigns the end's own link layer
\* instead of comparing the two: it fails when that is 0, whatever the peer's is.
StorePeerInfo(e) ==
    /\ Received(e, "info")
    /\ pc' = [pc EXCEPT ![e] = "peer"]
    /\ remote' = [remote EXCEPT ![e] = buf[e]]
    /\ dead' = IF LinkLayer(e) = "unspecified" THEN dead \cup {Owner(e)} ELSE dead
    /\ UNCHANGED <<main, tries, backlog, endpoints, stream, qp, port, faults>>

\* ibv_modify_qp moves the QP from one state to the next, or refuses: the
\* return codes of the modify functions are logged and ignored.
ModifyQp(e, from, to) ==
    \/ qp[e] = from /\ qp' = [qp EXCEPT ![e] = to] /\ UNCHANGED faults
    \/ qp[e] # from /\ UNCHANGED <<qp, faults>>
    \/ qp[e] = from /\ faults < MaxFaults /\ faults' = faults + 1 /\ UNCHANGED qp

ModifyQpToInit(e) ==
    /\ Alive(e) /\ pc[e] = "peer"
    /\ pc' = [pc EXCEPT ![e] = "init"]
    /\ ModifyQp(e, "RESET", "INIT")
    /\ UNCHANGED <<main, tries, backlog, endpoints, stream, buf, remote, port, dead>>

\* The link layer in the AdapterInfo an end has received.
RemoteLinkLayer(e) == LinkLayer(remote[e][1][1])

\* Mutant: no link layer is compared at all.
ModifyQpToRtrUnchecked(e) ==
    /\ Alive(e) /\ pc[e] = "init"
    /\ pc' = [pc EXCEPT ![e] = "rtr"]
    /\ ModifyQp(e, "INIT", "RTR")
    /\ UNCHANGED <<main, tries, backlog, endpoints, stream, buf, remote, port, dead>>

\* Over Ethernet a peer on the other link layer fails a CHECK; over InfiniBand
\* nothing is compared.
ModifyQpToRtr(e) ==
    /\ Alive(e) /\ pc[e] = "init"
    /\ IF LinkLayer(e) = "eth" /\ RemoteLinkLayer(e) # LinkLayer(e)
         THEN dead' = dead \cup {Owner(e)} /\ UNCHANGED <<pc, qp, faults>>
         ELSE /\ pc' = [pc EXCEPT ![e] = "rtr"]
              /\ ModifyQp(e, "INIT", "RTR")
              /\ UNCHANGED dead
    /\ UNCHANGED <<main, tries, backlog, endpoints, stream, buf, remote, port>>

ModifyQpToRts(e) ==
    /\ Alive(e) /\ pc[e] = "rtr"
    /\ pc' = [pc EXCEPT ![e] = "rts"]
    /\ ModifyQp(e, "RTR", "RTS")
    /\ UNCHANGED <<main, tries, backlog, endpoints, stream, buf, remote, port, dead>>

\* The closing sync.
SendClosing(e) ==
    /\ SendData(e, "rts", "closing", <<"Q">>)
    /\ UNCHANGED <<main, tries, backlog, endpoints, buf, remote, qp, port, faults, dead>>

\* Mutant: the closing sync sends and does not wait for the peer.
RecvClosingAtOnce(e) ==
    /\ Alive(e) /\ pc[e] = "closing"
    /\ pc' = [pc EXCEPT ![e] = "joined"]
    /\ UNCHANGED <<main, tries, backlog, endpoints, stream, buf, remote, qp,
                   port, faults, dead>>

RecvClosing(e) ==
    /\ Received(e, "closing")
    /\ pc' = [pc EXCEPT ![e] = "joined"]
    /\ UNCHANGED <<main, tries, backlog, endpoints, stream, remote, qp, port, faults, dead>>

\* real_connecting has joined the helper threads of all endpoints: running.
Run(p) ==
    /\ p \notin dead /\ main[p] = "connecting"
    /\ \A e \in EndsOf(p) : pc[e] = "joined"
    /\ main' = [main EXCEPT ![p] = "running"]
    /\ UNCHANGED <<tries, backlog, endpoints, pc, stream, buf, remote, qp,
                   port, faults, dead>>

-----------------------------------------------------------------------------
Script(e) ==
    \/ SendHello(e) \/ RecvHello(e)
    \/ LoadAndSendInfo(e) \/ StorePeerInfo(e)
    \/ ModifyQpToInit(e) \/ ModifyQpToRtr(e) \/ ModifyQpToRts(e)
    \/ SendClosing(e) \/ RecvClosing(e)
    \/ RecvData(e)

Next ==
    \/ Listen
    \/ Accept
    \/ \E c \in Clients : Connect(c) \/ ConnectFails(c)
    \/ \E e \in End : Script(e) \/ LoadFails(e) \/ Reset(e)
    \/ \E p \in Process : SocketFails(p) \/ Run(p)

Spec == Init /\ [][Next]_vars

\* Every thread keeps running; blocking calls return when they can.
Fairness ==
    /\ WF_vars(Listen) /\ WF_vars(Accept)
    /\ \A c \in Clients : WF_vars(Connect(c))
    /\ \A e \in End : WF_vars(Script(e))
    /\ \A p \in Process : WF_vars(Run(p))

FairSpec == Spec /\ Fairness

-----------------------------------------------------------------------------
\* Without any framing every sock_sync_data reads exactly what its peer sent for
\* it, however TCP cuts the stream (tcp_connector.cc:43-55, 89-114): a sync byte
\* is never taken for a piece of AdapterInfo, and the AdapterInfo an end connects
\* its QP to is its peer's, complete and in order.
FramesAligned ==
    \A e \in End :
        /\ pc[e] \in {"hello", "closing"} => buf[e] \in {<<>>, <<"Q">>}
        /\ pc[e] = "info" => buf[e] \in {<<>>, SubSeq(InfoOf(Other(e)), 1, 1), InfoOf(Other(e))}
        /\ remote[e] \in {<<>>, InfoOf(Other(e))}

\* The closing sync does its work (rdma_endpoint.cc:59-63): when an end is past
\* it, its peer's QP is ready to send and receive and addresses this end, so a
\* message posted from now on finds a connected QP.  A driver that refuses a
\* transition, which connecting ignores (rdma_adapter.cc:222-227), can spoil the
\* state of the QPs, not the exchange.
ReadyWhenJoined ==
    \A e \in End :
        pc[e] = "joined" =>
            /\ remote[e] = InfoOf(Other(e)) /\ remote[Other(e)] = InfoOf(e)
            /\ faults > 0 \/ (qp[e] = "RTS" /\ qp[Other(e)] = "RTS")

\* Two ports on different link layers never complete a handshake, although only
\* the Ethernet end compares them (rdma_adapter.cc:312-315): the closing sync of
\* the InfiniBand end is never answered.
MixedPairNeverJoins ==
    \A e \in End : pc[e] = "joined" => LinkLayer(e) = LinkLayer(Other(e))

\* What may keep the sessions from coming up: a failed verbs call, a failed socket
\* call or a client that has run out of connects (nothing else ends a process that
\* has no connection under way), ports that do not go together.
Hindered ==
    \/ faults > 0
    \/ \E p \in dead : main[p] \in {"start", "accept"}
    \/ \E p, q \in Process : port[p] # port[q] \/ port[p] = "unspecified"

\* The sessions come up: every process reaches running, unless one has aborted,
\* which none does without a reason that lies outside the handshake
\* (rdma_session.cc:440-469, rdma_server_sess.cc:47-64).
EventuallyRunning ==
    <>((\A p \in Process : main[p] = "running") \/ (dead # {} /\ Hindered))

\* What the message of the CHECK at rdma_adapter.cc:314-315 says: "QP should
\* working in the same mode".
SameMode ==
    \A e \in End : qp[e] \in {"RTR", "RTS"} => LinkLayer(e) = LinkLayer(Other(e))
=============================================================================
