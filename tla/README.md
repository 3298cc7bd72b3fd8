# Verification of rdma_comm_core

TLA+ models, TLC runs and TLAPS proofs for rdma_comm_core, a C++ wrapper of RDMA
communication primitives (`src/src`, `src/include`) with its example services
(`src/example`).

## The system

A process runs one or more **sessions**. A server session listens, accepts one
TCP connection per entry of the cluster list and creates an **endpoint** for each;
a client session connects to one server and has one endpoint. An endpoint owns a
**TCP connector** and one **channel** (an adapter with buffers). Endpoints connect
in one helper thread each: the adapter obtains its resources from the shared
**device**, the ends exchange an `AdapterInfo` over TCP, take their queue pairs to
RTS and synchronise. `running` then groups the channels by completion queue and
starts one polling thread per queue, which runs the establishment callback and
then dispatches completions to handlers for ever.

| Part | State | Operations | What makes it correct |
|---|---|---|---|
| Default protocol (`rdma_session.cc`) | five buffers per channel, stored peer descriptor, posted receives, send queue, completions | `default_established_fn`, `process_CQ`, five handlers | no descriptor lost or torn, no CHECK fails, receives conserved, both loops go on |
| Connection set-up (`rdma_server_sess.cc`, `rdma_client_sess.cc`, `rdma_endpoint.cc`, `tcp_connector.cc`, `rdma_adapter.cc`) | accept backlog, TCP streams, received bytes, peer info, QP state | `init_session`, `accept_new_connection`, `sync_with_peer`, `connecting`, the QP transitions | unframed streams stay aligned, a joined end is connected to a ready peer, sessions come up |
| Device registry (`rdma_device.cc`, `rdma_adapter.cc`) | `device_map_`, `adapter_set_`, `reg_cqs_`, queue pairs | `get_device`, `register_adapter`, `create_completion_queue`, `loading`, `running` | one device per name, queues shared as configured and large enough, one poller per queue |
| Buffers (`rdma_buffer.cc`, `rdma_channel.cc`) | owner, memory region, blocks, `owning_buffers`, device regions | register, deregister, remove, both destructors | mutual ownership, no leaked or dangling region |
| Mesh service (`mesh_comm_service.cc`) | block rings, send queues, shared completion queue | towers' `process_CQ`, `next`, `last` | rings follow the work in flight, no queue overflows, clients write for ever |
| Benchmark (`lat_bw_benchmark.cc`) | place in `process_CQ`, `m_mutex`, `active_channel`, block ring, queues | both `process_CQ`, the exchange and the five tests | no CHECK fails, queues and blocks suffice, each client works on its own buffer, every client is served |
| Timer (`util/time_event.h`) | set of events, ticks, drift, handles | `set_timeout`, `set_interval`, cancel, the timer thread, the destructor | events fire in their pass, lateness does not add up |
| Configuration, logging, network helpers | | | not modelled, see below |

What is hard: the two sides of a connection progress independently, a buffer is
reused while a work request may refer to it, TCP reads are partial, helper threads
race for the device and its completion queues, verbs calls fail one by one and
some results are ignored, rings are driven by the order of completions alone, the
benchmark's threads share one active channel, and its messages are ordered by a
sleep.
`PROJECT.json` lists these hazards at their lines, with the properties that cover
them.

## Modules

| Module | Models |
|---|---|
| `DefaultSession` | both sides of one channel running the default protocol |
| `RemoteStore` | the abstract specification of it: learn a key, then store and fetch for ever |
| `DefaultSessionProofs` | the invariants' proofs |
| `DefaultSessionRefinement` | the proof that `DefaultSession` implements `RemoteStore` |
| `Handshake`, `MCHandshake` | a server and its clients from `init_session` to `running` |
| `HandshakeProofs` | its invariants' proofs, for any number of clients |
| `DeviceRegistry`, `MCDeviceRegistry` | all helper threads of one process in `loading`, then `running` |
| `DeviceRegistryProofs` | its invariants' proofs, for any number of sessions and adapters |
| `BufferRegistry`, `MCBufferRegistry` | the life of buffers, channels and regions |
| `BufferRegistryProofs` | its invariants' proofs, for any number of buffers and channels |
| `MeshService`, `MCMeshService` | server tower and client towers of the mesh service |
| `MeshServiceProofs` | its invariants' proofs, for any number of clients and blocks |
| `Benchmark` | the benchmark's server, with a thread per client, and its clients |
| `BenchmarkProofs` | its invariants' proofs, for any number of clients, operations and sizes |
| `TimeEvent` | the timer thread, its application and its callbacks |
| `TimeEventProofs` | its invariants' proofs, for any number of events |

Every action is a whole handler, or what a thread does between two points where
another actor can interfere (a lock, a blocking call, a message). `map` in
`PROJECT.json` gives the source lines of each definition. Operators whose comment
begins with "Mutant:" are deliberate errors used to show that a property can fail;
no specification uses them.

**External parts.** The reliable-connection queue pair executes a send queue in
order, consumes one posted receive per SEND and per WRITE_WITH_IMM, and waits when
there is none, because the code sets `rnr_retry` to 7 (for ever). TCP delivers in
order and in arbitrary pieces. glog's `LOG(FATAL)` and `CHECK` end the process.

**DefaultSession.** `stage[s]` is the position in `default_established_fn`;
`sendbuf`, `recvbuf`, `writebuf`, `readbuf` and `sink` are the contents of the five
test buffers, abstracted to what the handlers tell apart. Filling a buffer while a
posted request points at it yields `"mixed"`. `inbox` and `comp` split a completion
queue into receive completions and RDMA completions; letting a thread take either
first allows every order the single queue can have, and more. SEND completions only
log and are not in the model, so `OutstandingBounded` counts what is not executed or
not handled, not the slots of the send queue that wait for a SEND completion to be
polled. `TypeOK` has a claim beyond types: `writebuf`, `readbuf` and `sink` hold a whole
value in every state, never a `"mixed"` one. `Store` instantiates `RemoteStore`: the key of a side is its stored descriptor,
its memory is the buffer its peer writes to, and its operation (`OpOf`) is read off
the one RDMA request in its send queue or completion queue. The exchange of keys,
the greetings, the receives and the queues are hidden.

**Handshake.** Both ends of a connection run one script (`pc`), over `stream`.
An `AdapterInfo` is two pieces so that a read can be short. `port` gives each
process a link layer, one function of `Deployments`; an adapter whose port is
unspecified fails the CHECK at `rdma_adapter.cc:379`, which assigns and then tests the
link layer. `SocketFails` is the FATAL of `socket`, `bind`, `listen` or `accept`: no
bound, since each process dies of it at most once. `MaxFaults` bounds the verbs
calls that fail on legal arguments; `faults` counts them. A dead process sends nothing more; what it
had sent can still be read, then its peer's `recv` returns 0 for ever (the code
spins, the model stutters) or fails.

**DeviceRegistry.** `pc[a]` is the position of adapter `a` in `loading`. A failed
thread stays in `failed`, holding its mutex if it failed inside a critical section,
until `Fatal` ends the process: in between, the other threads run on. The key of a
plain server's queue is made of its role and `SessionId`. The assumption that the plain
servers of a process have different ids is ours: no process of the repository has two,
and nothing in the code would keep two with one id from sharing a queue.

**BufferRegistry.** Every public method may be called on every live object. The
history variable `disciplined` stays TRUE as long as the calls are those the
repository makes (`RepositoryCall`) and none has gone on from undefined behaviour;
ownership is claimed for these, and for all others (`OtherCall`, `Undefined`) only that
no region is deregistered twice. A channel destroyed with buffers erases from the map
it iterates over: the loop may complete, crash, or stop early or pass over entries, so
that some of the buffers still point to the channel (`DestroyChannelPartly`). A buffer
whose owner is gone crashes in its destructor, or deregisters through the freed memory
and goes on (`DestroyBufferGoesOn`). `dead` records how the process ended.

**MeshService.** The work requests and completions carry the block they refer to,
as history that no handler looks at: the code knows a block only from the order of
completions. `IntRange` is the number of values of the `int` ring counters; overflow of
an `int` is undefined in C++, and the model wraps as the builds do.

**Benchmark.** `client[c]` and `server[c]` hold the place in `process_CQ` with the
loop counters. The server's threads work on `active`, whatever channel that is, as
the code does; `m_mutex` is what keeps it their own. A test is `Rounds` message sizes
of `Count` operations; the code's sizes are 24 powers of two, and a buffer has as
many blocks as a test has operations, as in the code. All messages carry a length,
because a receive too short for its message is an error completion, and the block
they leave from. Of the sleeps only the one before raw data is modelled:
`SleepCovers` says that the server's NIC has the acknowledgement of the answer by
then. Without it the CHECK at line 498 fails (run `benchmark_slow_ack`). A client
that exits takes its queue pair along, and a BYEBYE that has not left with it. A WRITE
or READ is posted after the CHECK of `write_remote` and `read_remote`, which a client
without descriptor fails.

**TimeEvent.** `pc` is the place of the timer thread in its loop: waiting, at an
event, in the wrapper's test of the handle, or in the callback. The application and
the callbacks set events and cancel handles in between, also between the test of a
handle and the call. Time is counted in units; waits end up to `Jitter` late and
callbacks take up to `CallTime`, which may be more than a tick. `pass`, the first
pass that counts for an event, is history. There is one clock: the code measures drift
with `high_resolution_clock` (`time_event.h:144`, `170`) and waits by that of
`wait_for`, and what follows if the two part is not modelled. The application sets
events only while the timer thread waits, which the code needs and does not enforce.

## Runs

| Run | Checks | Bounds |
|---|---|---|
| `default_session` | all properties of the default protocol, that it implements `RemoteStore`, and its liveness | the code's two posted receives; otherwise unbounded, the state space is finite |
| `handshake` | alignment of the streams, readiness of joined ends, mixed pairs, sessions come up | two clients, two connection attempts, four deployments of link layers, one failing verbs call, failing sockets |
| `device_mesh` | queue sharing, queue size, pollers; the process serves or aborts | a mesh process: server tower with two endpoints, two client towers, a driver that may fail anywhere |
| `buffer_registry` | ownership and regions | three buffers, two of one name, two channels, four regions, calls in any order |
| `mesh_service` | rings, queues, descriptor, liveness | two clients, four blocks, counters that wrap after two rounds |
| `benchmark` | CHECKs, queues, blocks, descriptors, end of service | two clients, two sizes, three operations, completions polled in batches of two |
| `time_event` | schedule of the events, times of the passes | three events of one and two ticks, ten units of time with two to a tick |

Two clients are enough for the races between connections: ends of different
connections interact only through the accept loop, the device and the shared
completion queue, and each of these interactions involves two of them. Four blocks
let a burst of three writes overlap with an unacknowledged request, and the
counters wrap within the run. Handshake's two attempts include success at once,
success after a failure, and giving up. The deployments are all ports alike, one
client that differs, for both link layers of the server, and one client on a port of
unspecified link layer; the others only exchange the names of the clients or add no
pair. In `benchmark` the batch is smaller than a
test, so that a bandwidth test needs several polls, and `MaxWr` equals `Count`, so
that a single request too many overflows. A duration of five units in `time_event`
is rounded down to two ticks.

Five claims of comments and messages are stated as properties and refuted; each is
a finding in `PROJECT.json`.

| Run | Claim | What happens |
|---|---|---|
| `send_meets_receive` | a SEND always finds a receive (`rdma_device.cc:420`) | two receives do not suffice for the key exchange; retries save it. Three would do |
| `handshake_same_mode` | both QPs work in the same mode (`rdma_adapter.cc:315`) | only the Ethernet end compares; the general check (line 379) is an assignment |
| `device_null_cq` | a failed completion queue is fatal (`rdma_device.cc:327`) | the null pointer is stored and returned to another thread first |
| `mesh_clean_memory` | a new buffer is all clean (`rdma_buffer.cc:164`) | only its first block is |
| `benchmark_slow_ack` | the next completion is that of the answer (`lat_bw_benchmark.cc:498`) | with an acknowledgement slower than 1 ms it may be the client's data: the server aborts |

Other disagreements met while modelling, plain from the lines and without a run:
`connecting` ignores the results of the QP transitions, so the sync "after QPs are
connected" (`rdma_endpoint.cc:62`) can be reached without; each end limits the path
MTU by its own port only (`rdma_adapter.cc:155-163`); `--ib-dev` (`config.h:57`) does
not reach the adapters; `register_in_channel` does not keep a buffer to one channel
(`rdma_buffer.h:56`); the blocks of a deregistered buffer still pass
`security_check` (`rdma_buffer.cc:48`).

**Deadlock** is checked for `DefaultSession` and `MeshService`, which run for ever.
The other systems reach an end: sessions are running, the process has aborted, the
calls are over, or an end waits for a peer that died.

**Fairness.** Weak fairness of each thread and of the NIC: threads poll in a loop
without blocking, blocking TCP calls return when data or a connection is there, and
no lock is held for ever by a thread that runs. In `Benchmark` the mutex is held
through a whole `process_CQ`; a thread that waits for it goes on once it is free,
and with finitely many threads none is passed over for ever. In `DefaultSession` a thread
takes receive completions and RDMA completions each fairly, since both arrive
through one queue it drains in order. No fairness is assumed of failures,
of failing connection attempts, of connections that break, or of a client of the
benchmark exiting late enough: `AllServedUnlessByeLost` names the case in which the
server waits for ever.

## Proofs

`DefaultSessionProofs` proves, for every `PostedRecvs` in `Nat \ {0}`, that
`DefaultSession!Spec` always satisfies `TypeOK`, `DescriptorIntact`,
`PeerBufferKnown`, `ReadBackIntact`, `ReceivesConserved`, `FirstSendMeetsReceive`
and `OutstandingBounded`. The only assumption is `PostedRecvsAssumption`.

All of them follow from the invariant `IndInv` (theorem `Inductive`). None is
inductive alone: that a descriptor survives in a receive buffer shared by all
receives depends on which messages can follow it. The argument:

* A side passes through *phases*: before its first SEND (0), greeting sent (1),
  descriptor sent (2), peer's descriptor stored (3), replying (4). `Phase` is
  computed from the state, and `PhaseInv` says the sides are at most one apart.
* A message has the *rank* of the phase it is sent in. The *pipe* from a side,
  its peer's `inbox` followed by its own `sq`, is sorted by rank (`OrderInv`), lies
  between the phase of the receiver and that of the sender (`RankInv`), and contains
  every control message not handled yet (`PresenceInv`).
* So what lands behind a REQUEST_EXCHANGE_KEY before it is handled can only be the
  RESPONSE_EXCHANGE_KEY that was sent from the same buffer without refilling it,
  and carries the descriptor again (`DescInv`).
* RDMA operations start in the handler of REQUEST_EXCHANGE_KEY, after the
  descriptor is stored, and each starts the next in its completion handler
  (`RdmaInv`).

`OutstandingBounded` needs a count beside it (`TokenInv`): the SENDs under way in
both directions together are as many as the sides that run, since a side sends one
greeting unasked and every later SEND answers one that it handled. With at most one
RDMA operation (`RdmaInv`) and one notification (`OrderInv`: its rank does not repeat)
that makes four.

The proof has one lemma per action and conjunct it can disturb; lemmas on
`Append`, `Tail` and `Head` of a queue carry the quantified conjuncts over.

`DefaultSessionRefinement` proves from the same invariant that every step of
`DefaultSession` is a step of `RemoteStore` or leaves its variables alone (theorem
`SessionImplementsStore`). A side has at most one RDMA request in its send queue or
completion queue (lemma `OneRdma`, from `RdmaInv`), so `OpOf` is well defined and
changes only where a request is posted, executed or handled; the handlers of
REQUEST_EXCHANGE_KEY, of a finished write and of a finished read are `Learn`,
`StartFetch` and `StartStore`, and the NIC's steps `Store` and `Fetch`. The first
needs `DescInv`: what the handler stores is the descriptor.

`BufferRegistryProofs` proves, for all sets `Buffers` and `Channels`, any `NameOf`
(buffers may share names) and any `MaxMr`, that `BufferRegistry!Spec` always
satisfies `TypeOK`, `RegionKnown`, `OwnershipAgrees` and `RegionsMatch`. The
assumption is `BufferRegistryAssumption`. `RegionKnown` is not inductive: two
buffers with one region would lose it together. `MrInv` adds that no two buffers
have the same region and that region numbers are not handed out again; it holds
under every sequence of calls and every outcome of undefined behaviour in the model. The loop of `~RDMAChannel` deregisters the buffers
of the map, not the ones that point to the channel; the two sets are the same
(lemma `OwnedByOwner`) because the sides agree and because an entry of the map
stands under the name of its buffer (`NamesInv`). Lemma `CallCases` splits a step
into the ways a call can end, so that each is treated once.

`HandshakeProofs` proves `TypeOK`, `FramesAligned`, `ReadyWhenJoined` and
`MixedPairNeverJoins` of `Handshake!Spec`, for any finite set of clients, any link
layers and any `MaxFaults` and `MaxTries` (`HandshakeAssumption`). The streams have
no framing; what keeps two ends in step is that each sends the same four units in
the same order. `ChanInv` counts them: what an end has sent, by its place in the
script, is what the other end has used up, by its own place, then what is in that
end's buffer, then what is in the stream. `BufInv` bounds the buffer by the size the
sync under way asks for, so a sync that is complete has read exactly its units.
Readiness follows by counting too: an end that has used up four units has a peer
that has sent four. `AcceptInv` says that a client is accepted once, so that no
stream is started afresh under a waiting end, and `ModeInv` that an Ethernet end gets
past RTR with an Ethernet peer only; a joined InfiniBand end has a peer in `closing`
or further, to which `ModeInv` applies. `LayerInv` says that an end
of unspecified link layer does not get past `update_peer_adapter_info`, so that a joined
end that is not on Ethernet is on InfiniBand.

`DeviceRegistryProofs` proves `TypeOK`, `SharedExactlyInSession`, `CqFits` and
`OnePollerPerCq` of `DeviceRegistry!Spec`, for any finite set of adapters, any
division of them into sessions and a driver that fails anywhere
(`DeviceRegistryAssumption`: a client session has one endpoint, `main` starts at
most one server tower and plain servers have different session ids; otherwise two
sessions would share a key). The argument is about keys:
all threads look in the map of one device (`DevInv`), under keys that are equal
exactly for the endpoints of one server session; an entry is not changed once set,
and who has a completion queue has the one under its key (`CqInv`). A null pointer
under a key means that an endpoint with that key has failed (`NullInv`), so its
session never runs and no thread polls it.

`MeshServiceProofs` proves `TypeOK`, `SendQueueFits`, `RingsFollowQueues`,
`DescriptorRead` and `SendFindsReceive` of `MeshService!Spec`, for any number of
clients, of blocks (at least two) and any counter range that is a multiple of
`NUM_BLOCK` and exceeds it (`MeshAssumption`): the code has 128 and 2^32. A range of
just `NUM_BLOCK` would make a full ring look empty. `Flight(e)` is what an end has
posted and not taken back: completions in the queue, then requests that are not
acknowledged, then the send queue. The NIC moves requests along it and changes
nothing, a post appends to it, and a completion removes its head; therefore
`RingInv`, that its blocks are those between the counters of the ring, is preserved.
`RecvInv` says the same of a server's receives, of which there are always
`NUM_BLOCK`. What the NIC appends depends on how far the connection is: `PhaseInv`
has six phases (`Silent`, `Asked`, `Heard`, `Answered`, `Delivered`, `Streaming`), and
in the last one `NUM_BLOCK - 1` writes are in flight, with the request before them
while its completion is not polled: the send queue is exactly full. The server's
completion queue is shared, so the flight of a channel is selected from it; that the
selection of a shorter queue is the tail of the selection, and that a list of the
selected places exists at all, is proved by the absence of a shortest queue without
one, since induction over data cannot be cited.

`TimeEventProofs` proves `TypeOK`, `FiresOnSchedule` and `TicksOnTime` of
`TimeEvent!Spec`, for any tick, jitter and length of callbacks, any durations of at
least a tick and any number of events (`TimeEventAssumption`). `CountInv` ties the
counter of an event to the number of passes it took part in, modulo its ticks for an
interval; a pass visits events in the order of their numbers, so the number changes
only at a visit. `DriftInv` says that `drift` is how late the wait began, and that a
pass never begins early.

`BenchmarkProofs` proves `OwnDescriptor` of `Benchmark!Spec`, for any number of
clients, operations and message sizes, whether or not the sleep covers the
acknowledgement (`BenchmarkAssumption`). A thread of the server that has locked
`m_mutex` and not finished has `active_channel` for itself (`HoldAt`), so the
descriptor in its response is that of its own client. The response is the first SEND
on its connection: as long as it has not arrived the client has received nothing, and
once it has, the first block of the client holds the descriptor and no later message
overwrites it, the answers of the rounds having no bytes (`FirstAt`). A client that has
received anything at all therefore copies its own descriptor.

The other invariants of `Benchmark` are proved under the assumption `SleepCovers`, as
implications: `ChecksHold`, `ServerOutlivesClient`, `QueuesFit`,
`NoBlockInUseTwice` and `TypeOK`. It says of the sleep of 1 ms in `lat_send` what the
code relies on and does not secure: without it the CHECK at line 498 can fail, as the
run `benchmark_slow_ack` shows. That the answer completes before the raw data of its
round is little more than this assumption, and is not listed as a theorem. Together they rest on one inductive
invariant, `FullInv` (theorem `Connected`):

* `Place` says, for each place of a server's thread, where the client can be and how
  many receives the thread has left: a request is sent once, a thread with raw data to
  come has as many receives as there are messages to come, and a thread is at most a
  round ahead or behind.
* `Token` says where the server's answer is: in the send queue, unacknowledged, or
  completed, and that the client sends no raw data before. This is where `SleepCovers`
  enters: the first SEND of raw data finds `unacked` of the server empty.
* `ServerQueue`, `WaitQueue`, `WorkQueue`, `PostedQueue` and `RecvQueue` give the lengths
  of the queues and what is in them: at the server the completion of the answer first,
  then receives; at a client the two completions it waits for, in either order, or the
  operations of its test, as many as `index - confirm`.

`ChecksHold` follows because each CHECK looks at the head of a queue described there;
`QueuesFit` from the lengths and `Count <= MaxWr`; `ServerOutlivesClient` from `Place`.
For `NoBlockInUseTwice` a second invariant, `BlockInv`, says that the receives and the
receive completions of an end have different blocks: the `Count` receives of a round
are posted when no other is left and go exactly once around the ring. The answer leaves
from a block that has a receive, and is allowed to because it has no bytes. For `TypeOK`
`RingInv` bounds the counters of the rings by the rounds that are behind (`Turn`,
`Given`) and the operations of the round under way.

Only model-checked is liveness (`StoresForever`, `GreetingsForever`, `WritesForever`,
`EventuallyRunning`, `EventuallyServing` and `AllServedUnlessByeLost`), which is out of
the prover's reach.

## Not modelled

* `config.h` parsing and printing, logging, time records, socket options: no
  protocol state.
* `AutoEvent` of `util/time_event.h`, which nothing uses, and events set by another
  thread while the timer walks its set, which is a data race.
* `RDMAEndPoint::reset` and `reset_hca`, never called; `RDMABuffer::release` and
  `reset`, which only abort; destruction of the device at exit.
* Failed work completions in the default protocol and the mesh service: every
  polling loop logs FATAL on them, which ends the process. `Benchmark` has them for
  receives that are too short and addresses that are missing.
* A peer that closes its TCP connection while `recv_data_force` waits: `recv` then
  returns 0 and the loop spins for ever. The model stutters there; nothing in the
  code ends the wait, so there is no property to state.

## Plan

1. Core (done): `DefaultSession` and its proofs, `Handshake`, `DeviceRegistry`,
   `BufferRegistry`, `MeshService`.
2. Extend (done): `RemoteStore` and the refinement, `Benchmark`, `TimeEvent`, faults
   and liveness in one run each of `Handshake` and `DeviceRegistry`. Left: rounds of
   `Handshake` through `RDMAEndPoint::reset`, should the code come to call it.
3. Prove (done): every invariant a passing run checks, and the refinement, for every
   value of the constants. Left: nothing but liveness, which stays with TLC.
