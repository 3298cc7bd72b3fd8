--------------------------- MODULE DeviceRegistry ---------------------------
(***************************************************************************)
(* How the adapters of one process obtain their hardware resources         *)
(* (RDMAAdapter::loading), each in the helper thread of its endpoint, and  *)
(* how running hands the channels to the polling threads: the static map   *)
(* of RDMADevices, the map of completion queues of a device, and the       *)
(* threads of RDMASession::running (src/src/rdma_adapter.cc,               *)
(* rdma_device.cc, rdma_session.cc; the session kinds are those of         *)
(* rdma_server_sess.cc, rdma_client_sess.cc and the towers of              *)
(* example/mesh_comm_service.cc, which runs several sessions per process). *)
(*                                                                         *)
(* An action is what one thread does between two lock operations.  A       *)
(* device, and a completion queue, is named by the adapter whose call      *)
(* creates it: each adapter creates at most one of each.  The handshake    *)
(* between loading and running is the subject of Handshake.                *)
(***************************************************************************)
EXTENDS Naturals, FiniteSets

CONSTANTS
    Adapters,       \* the channels of the process, one per endpoint
    Servers,        \* its server sessions
    ClientSessions, \* its client sessions
    Towers,         \* the sessions that are towers of the mesh service
    SessionOf,      \* SessionOf[a]: the session of adapter a
    SessionId,      \* SessionId[s]: work_env_.session_id of session s
    MaxWr,          \* max_send_wr + max_recv_wr of an adapter (256)
    DefaultCqSize,  \* AdapterConfig::cq_size (1024)
    DriverMayFail   \* whether verbs calls may fail

Sessions == Servers \cup ClientSessions

EndPoints(s) == {a \in Adapters : SessionOf[a] = s}

\* The session ids in use.
Ids == {SessionId[s] : s \in Sessions}

Unset == "unset"       \* no device yet, or no entry in a map
Null  == "null"        \* the null pointer

ASSUME DeviceRegistryAssumption ==
    /\ IsFiniteSet(Adapters)
    /\ {Unset, Null} \cap Adapters = {}
    /\ Servers \cap ClientSessions = {}
    /\ Towers \subseteq Sessions
    /\ SessionOf \in [Adapters -> Sessions]
    /\ \A s \in ClientSessions : Cardinality(EndPoints(s)) = 1
    /\ \A s, r \in Servers \cap Towers : s = r   \* main starts one server tower
    /\ MaxWr \in Nat \ {0} /\ DefaultCqSize \in Nat \ {0}
    /\ DriverMayFail \in BOOLEAN
    /\ SessionId \in [Sessions -> Ids]
       \* A process runs at most one plain server, or tells them apart: two with
       \* one id, which nothing in the code refuses, would share a queue.
    /\ \A s, r \in Servers \ Towers : SessionId[s] = SessionId[r] => s = r
    /\ "GlobalSharedCQForRecv" \notin Adapters \cup Ids
    /\ Adapters \cap Ids = {}

\* Keys of completion queues: the fixed key of the server towers, the key made of
\* role and session id of a plain server, and the name of an adapter.
Key == Adapters \cup Ids \cup {"GlobalSharedCQForRecv"}

SharedKey(s) == IF s \in Towers THEN "GlobalSharedCQForRecv" ELSE SessionId[s]

\* AdapterConfig::dev_name, which nothing in the repository changes.
Names == {"mlx5_0"}

\* Where the thread of an adapter is in loading.
Pc == {"idle", "start", "got", "registered", "pd", "checked", "cq", "qp", "loaded"}

VARIABLES
    main,         \* main[s]: "init", "connecting", "running"
    config,       \* config[a]: the fields of _adapter_config_ that matter here
    pc,           \* pc[a]
    device_map,   \* device_map_: the device created under a name
    adapter_set,  \* adapter_set[d]: the adapters registered in device d
    reg_cqs,      \* reg_cqs[d][k]: the completion queue of device d under key k
    rdma_device,  \* rdma_device[a]: the device of adapter a
    used_cq,      \* used_cq[a]: its completion queue
    qp,           \* qp[a]: the completion queue its queue pair reports to
    threads,      \* threads[s]: the polling threads, each the set of its channels
    failed,       \* threads about to log FATAL
    dead          \* the process has aborted

vars == <<main, config, pc, device_map, adapter_set, reg_cqs, rdma_device,
          used_cq, qp, threads, failed, dead>>

\* Types, and the resources an adapter owns at each place of loading.
TypeOK ==
    /\ main \in [Sessions -> {"init", "connecting", "running"}]
    /\ config \in [Adapters -> [dev_name : Names, using_shared_cq : BOOLEAN,
                                cq_key : Key \cup {Unset}, cq_size : Nat]]
    /\ pc \in [Adapters -> Pc]
    /\ device_map \in [Names -> Adapters \cup {Unset}]
    /\ adapter_set \in [Adapters -> SUBSET Adapters]
    /\ reg_cqs \in [Adapters -> [Key -> Adapters \cup {Unset, Null}]]
    /\ rdma_device \in [Adapters -> Adapters \cup {Unset}]
    /\ used_cq \in [Adapters -> Adapters \cup {Unset, Null}]
    /\ qp \in [Adapters -> Adapters \cup {Unset, Null}]
    /\ threads \in [Sessions -> SUBSET SUBSET Adapters]
    /\ failed \subseteq Adapters
    /\ dead \in BOOLEAN
    /\ \A a \in Adapters :
          /\ rdma_device[a] = Unset <=> pc[a] \in {"idle", "start"}
          /\ used_cq[a] # Unset <=> pc[a] \in {"cq", "qp", "loaded"}
          /\ qp[a] # Unset <=> pc[a] \in {"qp", "loaded"}

Init ==
    /\ main = [s \in Sessions |-> "init"]
    /\ config = [a \in Adapters |-> [dev_name |-> "mlx5_0", using_shared_cq |-> TRUE,
                                     cq_key |-> Unset, cq_size |-> DefaultCqSize]]
    /\ pc = [a \in Adapters |-> "idle"]
    /\ device_map = [n \in Names |-> Unset]
    /\ adapter_set = [d \in Adapters |-> {}]
    /\ reg_cqs = [d \in Adapters |-> [k \in Key |-> Unset]]
    /\ rdma_device = [a \in Adapters |-> Unset]
    /\ used_cq = [a \in Adapters |-> Unset]
    /\ qp = [a \in Adapters |-> Unset]
    /\ threads = [s \in Sessions |-> {}]
    /\ failed = {}
    /\ dead = FALSE

-----------------------------------------------------------------------------
(* lazy_config_hca, then one helper thread per endpoint *)

\* Mutant: the size of the tower's queue does not count the endpoints.
TowerCqSizeOfOne(s) == MaxWr

\* The towers size the queue for all their endpoints.
TowerCqSize(s) == MaxWr * Cardinality(EndPoints(s))

CqSize(s) == IF s \in Towers THEN TowerCqSize(s) ELSE DefaultCqSize

StartThreads(s) ==
    /\ ~dead /\ main[s] = "init"
    /\ main' = [main EXCEPT ![s] = "connecting"]
    /\ pc' = [a \in Adapters |-> IF a \in EndPoints(s) THEN "start" ELSE pc[a]]
    /\ UNCHANGED <<device_map, adapter_set, reg_cqs, rdma_device, used_cq, qp,
                   threads, failed, dead>>

\* A server session shares one completion queue between its endpoints.
ConfigServer(s) ==
    /\ s \in Servers
    /\ config' = [a \in Adapters |->
          IF a \in EndPoints(s)
          THEN [config[a] EXCEPT !.using_shared_cq = TRUE,
                                 !.cq_key = SharedKey(s), !.cq_size = CqSize(s)]
          ELSE config[a]]
    /\ StartThreads(s)

\* A client session uses a private one.
ConfigClient(s) ==
    /\ s \in ClientSessions
    /\ config' = [a \in Adapters |->
          IF a \in EndPoints(s)
          THEN [config[a] EXCEPT !.using_shared_cq = FALSE, !.cq_size = CqSize(s)]
          ELSE config[a]]
    /\ StartThreads(s)

-----------------------------------------------------------------------------
(* RDMAAdapter::loading *)

Goto(a, p) == pc' = [pc EXCEPT ![a] = p]

Dev(a) == rdma_device[a]

\* A thread that fails inside a critical section keeps its mutex until the
\* process aborts: device_global_lock_ around the constructor of the device,
\* device_local_lock_ in query_gid.  Every other call on a device takes the
\* latter for one step.
Locked(a) ==
    \E b \in failed : IF pc[a] = "start" THEN pc[b] = "start"
                                       ELSE pc[b] = "qp" /\ Dev(b) = Dev(a)

At(a, p) == ~dead /\ a \notin failed /\ pc[a] = p /\ ~Locked(a)

\* A private queue is named after the adapter.  get_device, under
\* device_global_lock_: find the device of that name or construct it, opening
\* it and querying its ports under the lock.
GetDevice(a) ==
    LET n == config[a].dev_name
        d == IF device_map[n] = Unset THEN a ELSE device_map[n] IN
    /\ At(a, "start") /\ Goto(a, "got")
    /\ config' = [config EXCEPT ![a].cq_key =
                     IF config[a].using_shared_cq THEN @ ELSE a]
    /\ device_map' = [device_map EXCEPT ![n] = d]
    /\ rdma_device' = [rdma_device EXCEPT ![a] = d]
    /\ UNCHANGED <<main, adapter_set, reg_cqs, used_cq, qp, threads, failed, dead>>

\* register_adapter, under device_local_lock_.
RegisterAdapter(a) ==
    /\ At(a, "got") /\ Goto(a, "registered")
    /\ adapter_set' = [adapter_set EXCEPT ![Dev(a)] = @ \cup {a}]
    /\ UNCHANGED <<main, config, device_map, reg_cqs, rdma_device, used_cq, qp,
                   threads, failed, dead>>

\* Mutant: the protection domain is followed by the queue pair.
CreatePdThenQp(a) ==
    /\ At(a, "registered") /\ Goto(a, "cq")
    /\ UNCHANGED <<main, config, device_map, adapter_set, reg_cqs, rdma_device,
                   used_cq, qp, threads, failed, dead>>

\* create_pd; use_event_channel is never set, so create_compt_channel only logs.
CreatePd(a) ==
    /\ At(a, "registered") /\ Goto(a, "pd")
    /\ UNCHANGED <<main, config, device_map, adapter_set, reg_cqs, rdma_device,
                   used_cq, qp, threads, failed, dead>>

\* Mutant: the CHECK is the wrong way round.
HasCreatedCqInverted(a) ==
    /\ At(a, "pd") /\ ~config[a].using_shared_cq
    /\ IF reg_cqs[Dev(a)][config[a].cq_key] # Unset
         THEN Goto(a, "checked") /\ UNCHANGED failed
         ELSE failed' = failed \cup {a} /\ UNCHANGED pc
    /\ UNCHANGED <<main, config, device_map, adapter_set, reg_cqs, rdma_device,
                   used_cq, qp, threads, dead>>

\* create_cq of a private adapter first CHECKs that its key is new; the lock is
\* released between this test and the creation.
HasCreatedCq(a) ==
    /\ At(a, "pd") /\ ~config[a].using_shared_cq
    /\ IF reg_cqs[Dev(a)][config[a].cq_key] = Unset
         THEN Goto(a, "checked") /\ UNCHANGED failed
         ELSE failed' = failed \cup {a} /\ UNCHANGED pc
    /\ UNCHANGED <<main, config, device_map, adapter_set, reg_cqs, rdma_device,
                   used_cq, qp, threads, dead>>

\* The thread is about to call create_completion_queue.
AtCreateCq(a) ==
    IF config[a].using_shared_cq THEN At(a, "pd") ELSE At(a, "checked")

\* Mutant: the map of completion queues is written but not read.
CreateCompletionQueueAnew(a) ==
    /\ AtCreateCq(a)
    /\ used_cq' = [used_cq EXCEPT ![a] = a]
    /\ reg_cqs' = [reg_cqs EXCEPT ![Dev(a)][config[a].cq_key] = a]
    /\ Goto(a, "cq")
    /\ UNCHANGED <<main, config, device_map, adapter_set, rdma_device, qp, threads,
                   failed, dead>>

\* create_completion_queue, under device_local_lock_: return what is stored under
\* the key, a null pointer too, or create a queue and store it.
CreateCompletionQueue(a) ==
    LET found == reg_cqs[Dev(a)][config[a].cq_key] IN
    /\ AtCreateCq(a)
    /\ used_cq' = [used_cq EXCEPT ![a] = IF found = Unset THEN a ELSE found]
    /\ reg_cqs' = [reg_cqs EXCEPT ![Dev(a)][config[a].cq_key] = used_cq'[a]]
    /\ Goto(a, "cq")
    /\ UNCHANGED <<main, config, device_map, adapter_set, rdma_device, qp, threads,
                   failed, dead>>

\* ibv_create_cq fails: the null pointer is stored under the key, the lock is
\* released, and only then is the failure noticed.
CreateCqFails(a) ==
    /\ DriverMayFail
    /\ AtCreateCq(a)
    /\ reg_cqs[Dev(a)][config[a].cq_key] = Unset
    /\ reg_cqs' = [reg_cqs EXCEPT ![Dev(a)][config[a].cq_key] = Null]
    /\ failed' = failed \cup {a}
    /\ UNCHANGED <<main, config, pc, device_map, adapter_set, rdma_device, used_cq,
                   qp, threads, dead>>

\* create_qp: both queues of the pair report to the completion queue.
CreateQp(a) ==
    /\ At(a, "cq") /\ Goto(a, "qp")
    /\ qp' = [qp EXCEPT ![a] = used_cq[a]]
    /\ UNCHANGED <<main, config, device_map, adapter_set, reg_cqs, rdma_device,
                   used_cq, threads, failed, dead>>

\* update_my_adapter_info; the adapter is loaded.
UpdateMyAdapterInfo(a) ==
    /\ At(a, "qp") /\ Goto(a, "loaded")
    /\ UNCHANGED <<main, config, device_map, adapter_set, reg_cqs, rdma_device,
                   used_cq, qp, threads, failed, dead>>

\* A verbs call fails: the thread is about to log FATAL.
Fails(a) ==
    /\ DriverMayFail
    /\ failed' = failed \cup {a}
    /\ UNCHANGED <<main, config, pc, device_map, adapter_set, reg_cqs, rdma_device,
                   used_cq, qp, threads, dead>>

\* open_device and the queries of the constructor of RDMADevice, in get_device.
OpenDeviceFails(a) ==
    At(a, "start") /\ device_map[config[a].dev_name] = Unset /\ Fails(a)

CreatePdFails(a) == At(a, "registered") /\ Fails(a)

CreateQpFails(a) == At(a, "cq") /\ Fails(a)

QueryGidFails(a) == At(a, "qp") /\ Fails(a)

\* LOG(FATAL) aborts the process.
Fatal ==
    /\ ~dead /\ failed # {}
    /\ dead' = TRUE
    /\ UNCHANGED <<main, config, pc, device_map, adapter_set, reg_cqs, rdma_device,
                   used_cq, qp, threads, failed>>

-----------------------------------------------------------------------------
\* Mutant: one thread per channel.
GroupByChannel(s) == {{a} : a \in EndPoints(s)}

\* The channels of a session, grouped by completion queue.
GroupByCq(s) ==
    {{b \in EndPoints(s) : used_cq[b] = used_cq[a]} : a \in EndPoints(s)}

\* real_connecting has joined the helper threads; running starts one thread per
\* completion queue.
Running(s) ==
    /\ ~dead /\ main[s] = "connecting"
    /\ \A a \in EndPoints(s) : a \notin failed /\ pc[a] = "loaded"
    /\ main' = [main EXCEPT ![s] = "running"]
    /\ threads' = [threads EXCEPT ![s] = GroupByCq(s)]
    /\ UNCHANGED <<config, pc, device_map, adapter_set, reg_cqs, rdma_device,
                   used_cq, qp, failed, dead>>

Loading(a) ==
    \/ GetDevice(a) \/ RegisterAdapter(a) \/ CreatePd(a) \/ HasCreatedCq(a)
    \/ CreateCompletionQueue(a) \/ CreateQp(a) \/ UpdateMyAdapterInfo(a)

LoadingFails(a) ==
    \/ OpenDeviceFails(a) \/ CreatePdFails(a) \/ CreateCqFails(a)
    \/ CreateQpFails(a) \/ QueryGidFails(a)

Next ==
    \/ \E s \in Sessions : ConfigServer(s) \/ ConfigClient(s) \/ Running(s)
    \/ \E a \in Adapters : Loading(a) \/ LoadingFails(a)
    \/ Fatal

Spec == Init /\ [][Next]_vars

\* Every thread of the process keeps running; no lock is held across a step.
FairSpec ==
    /\ Spec
    /\ \A s \in Sessions : WF_vars(ConfigServer(s) \/ ConfigClient(s) \/ Running(s))
    /\ \A a \in Adapters : WF_vars(Loading(a))
    /\ WF_vars(Fatal)

-----------------------------------------------------------------------------
\* "the completion_queue id, same id means shared_cq" (rdma_adapter.h:63), and a
\* private queue is never shared although the test for its key and its creation
\* are two critical sections: two queue pairs report to one completion queue
\* exactly when both belong to one server session.  However the helper threads
\* interleave in get_device, they find one device, in whose map they look
\* (rdma_device.cc:96-122, 300-332).
SharedExactlyInSession ==
    \A a, b \in Adapters :
        a # b /\ qp[a] \notin {Unset, Null} /\ qp[b] \notin {Unset, Null} =>
            (qp[a] = qp[b] <=> SessionOf[a] = SessionOf[b] /\ SessionOf[a] \in Servers)

\* The channels of all sessions that report to completion queue q.
Users(q) == {a \in Adapters : qp[a] = q}

\* A completion queue has room for every work request its queue pairs can hold,
\* although it is created with the size of whichever adapter comes first: always
\* for the towers, and for a plain session of up to DefaultCqSize \div MaxWr
\* endpoints (four in the code).  Nothing in the code compares the two.
CqFits ==
    \A q \in Adapters :
        SessionOf[q] \in Towers \/ Cardinality(EndPoints(SessionOf[q])) * MaxWr <= DefaultCqSize
            => Cardinality(Users(q)) * MaxWr <= config[q].cq_size

\* A completion queue is polled by one thread of the process, which serves all of
\* its channels and no other: handlers of one channel never run concurrently, and
\* no session takes completions of another one (rdma_session.cc:129-156).
OnePollerPerCq ==
    \A s \in Sessions : main[s] = "running" =>
        \A a \in EndPoints(s) :
            /\ \E g \in threads[s] : g = Users(qp[a])
            /\ \A r \in Sessions : \A g \in threads[r] :
                  (\E b \in g : qp[b] = qp[a]) => r = s /\ g = Users(qp[a])

\* The thread has failed the CHECK of HasCreatedCq.
CheckFailed(a) == a \in failed /\ pc[a] = "pd" /\ ~config[a].using_shared_cq

\* Every session gets to run, unless a verbs call fails: then the process aborts.
\* The CHECK of create_cq never ends it, and no thread waits for ever for a mutex
\* whose holder has failed (rdma_adapter.cc:122, rdma_device.cc:98-122).
EventuallyServing ==
    <>(\/ \A s \in Sessions : main[s] = "running"
       \/ dead /\ \E a \in failed : ~CheckFailed(a))

\* What the FATAL at rdma_device.cc:325-328 is for ("Failed to create completion
\* queue"): create_completion_queue never returns a null pointer to its caller.
NullCqNeverReturned == \A a \in Adapters : used_cq[a] # Null
=============================================================================
