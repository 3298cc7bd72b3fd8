------------------------ MODULE DeviceRegistryProofs ------------------------
(***************************************************************************)
(* Proofs about DeviceRegistry, for any finite set of adapters, any        *)
(* division of them into sessions and a driver that may fail.              *)
(*                                                                         *)
(* The argument is about keys.  All threads look in the map of one device  *)
(* (DevInv), under keys that are equal exactly for the endpoints of one    *)
(* server session (lemma KeysShared).  An entry of the map never changes   *)
(* once it is set, and who has a completion queue has the one under its    *)
(* key (CqInv).  A null pointer under a key means that an endpoint with    *)
(* that key has failed (NullInv), so its session never gets to run.        *)
(***************************************************************************)
EXTENDS DeviceRegistry, FiniteSetTheorems, TLAPS

\* The key an adapter looks up its completion queue with.
KeyOf(a) == IF SessionOf[a] \in Servers THEN SharedKey(SessionOf[a]) ELSE a

\* What lazy_config_hca and loading have made of the configuration.
ConfInv ==
    \A a \in Adapters :
        /\ pc[a] = "idle" <=> main[SessionOf[a]] = "init"
        /\ pc[a] # "idle" =>
              /\ config[a].using_shared_cq <=> SessionOf[a] \in Servers
              /\ config[a].cq_size = CqSize(SessionOf[a])
              /\ SessionOf[a] \in Servers \/ pc[a] # "start" => config[a].cq_key = KeyOf(a)

\* All adapters that have a device have the same one.
DevInv == \A a \in Adapters : Dev(a) # Unset => Dev(a) = device_map["mlx5_0"]

\* A completion queue is the one stored under the key, by an adapter with that key.
CqInv ==
    /\ \A a \in Adapters : used_cq[a] # Unset => used_cq[a] = reg_cqs[Dev(a)][KeyOf(a)]
    /\ \A a \in Adapters : qp[a] # Unset => qp[a] = used_cq[a]
    /\ \A d, q \in Adapters, k \in Key :
          reg_cqs[d][k] = q => KeyOf(q) = k /\ pc[q] # "idle"

\* A null pointer is left behind by a thread that has failed.
NullInv ==
    \A d \in Adapters, k \in Key :
        reg_cqs[d][k] = Null => \E b \in failed : KeyOf(b) = k /\ pc[b] # "loaded"

\* A session runs with all endpoints loaded, grouped by completion queue.
RunInv ==
    \A s \in Sessions :
        /\ main[s] = "running" =>
              /\ \A a \in EndPoints(s) : a \notin failed /\ pc[a] = "loaded"
              /\ threads[s] = GroupByCq(s)
        /\ main[s] # "running" => threads[s] = {}

IndInv == TypeOK /\ ConfInv /\ DevInv /\ CqInv /\ NullInv /\ RunInv

-----------------------------------------------------------------------------
(* Constants *)

\* A configuration, as TypeOK has it.
Config == [dev_name : Names, using_shared_cq : BOOLEAN, cq_key : Key \cup {Unset},
           cq_size : Nat]

\* The configurations keep this type.
LEMMA ConfigType == ASSUME TypeOK PROVE config \in [Adapters -> Config]
  BY DEF TypeOK, Config

\* The special values are no adapters and no keys; the members of Names.
LEMMA Values ==
    /\ Unset \notin Adapters /\ Null \notin Adapters /\ Unset # Null
    /\ Names = {"mlx5_0"}
  BY DeviceRegistryAssumption DEF Unset, Null, Names

\* The endpoints of a session can be counted.
LEMMA EndPointsFinite ==
    ASSUME NEW s
    PROVE  IsFiniteSet(EndPoints(s)) /\ Cardinality(EndPoints(s)) \in Nat
  <1>1. EndPoints(s) \subseteq Adapters
    BY DEF EndPoints
  <1>2. QED
    BY <1>1, DeviceRegistryAssumption, FS_Subset, FS_CardinalityType

\* The configuration of an endpoint of a client session.
LEMMA ConfigPrivate ==
    ASSUME NEW c \in Config, NEW n \in Nat, NEW d,
           d = [c EXCEPT !.using_shared_cq = FALSE, !.cq_size = n]
    PROVE  d \in Config /\ ~d.using_shared_cq /\ d.cq_size = n
  <1>1. d \in Config
    BY DEF Config
  <1>2. ~d.using_shared_cq
    BY DEF Config
  <1>3. d.cq_size = n
    BY DEF Config
  <1>4. QED
    BY <1>1, <1>2, <1>3

\* Sizes are natural numbers.
LEMMA CqSizeType == ASSUME NEW s PROVE CqSize(s) \in Nat
  BY EndPointsFinite, DeviceRegistryAssumption DEF CqSize, TowerCqSize

\* Keys have their type.
LEMMA KeyType ==
    ASSUME NEW a \in Adapters
    PROVE  SessionOf[a] \in Sessions /\ KeyOf(a) \in Key
  BY DeviceRegistryAssumption DEF KeyOf, SharedKey, Key, Ids, Sessions

\* Two adapters have the same key exactly when they are endpoints of one server
\* session: plain sessions have different ids, and there is one server tower.
LEMMA KeysShared ==
    ASSUME NEW a \in Adapters, NEW b \in Adapters, a # b
    PROVE  KeyOf(a) = KeyOf(b) <=> SessionOf[a] = SessionOf[b] /\ SessionOf[a] \in Servers
  BY KeyType, DeviceRegistryAssumption DEF KeyOf, SharedKey, Ids, Sessions

-----------------------------------------------------------------------------
(* Steps.  What a step of loading does to the places of the threads decides which
   parts of the invariant it can disturb. *)

\* lazy_config_hca of session s and the start of its helper threads.
LEMMA ConfigStep ==
    ASSUME IndInv, NEW s \in Sessions, ConfigServer(s) \/ ConfigClient(s)
    PROVE  IndInv'
  <1> USE Values, KeyType
  <1>1. StartThreads(s)
    BY DEF ConfigServer, ConfigClient
  <1>2. \A a \in Adapters : a \in EndPoints(s) <=> SessionOf[a] = s
    BY DEF EndPoints
  <1>3. /\ main[s] = "init"
        /\ \A r \in Sessions : main'[r] = IF r = s THEN "connecting" ELSE main[r]
        /\ \A a \in Adapters : pc'[a] = IF SessionOf[a] = s THEN "start" ELSE pc[a]
        /\ UNCHANGED <<device_map, adapter_set, reg_cqs, rdma_device, used_cq, qp,
                       threads, failed, dead>>
    BY <1>1, <1>2 DEF StartThreads, IndInv, TypeOK
  <1>4. \A a \in Adapters :
            /\ config'[a] \in Config
            /\ SessionOf[a] # s => config'[a] = config[a]
            /\ SessionOf[a] = s =>
                  /\ config'[a].using_shared_cq <=> s \in Servers
                  /\ config'[a].cq_size = CqSize(s)
                  /\ s \in Servers => config'[a].cq_key = KeyOf(a)
    <2> SUFFICES ASSUME NEW a \in Adapters
                 PROVE  /\ config'[a] \in Config
                        /\ SessionOf[a] # s => config'[a] = config[a]
                        /\ SessionOf[a] = s =>
                              /\ config'[a].using_shared_cq <=> s \in Servers
                              /\ config'[a].cq_size = CqSize(s)
                              /\ s \in Servers => config'[a].cq_key = KeyOf(a)
      OBVIOUS
    <2>1. config[a] \in Config
      BY ConfigType DEF IndInv
    <2>2. CASE ConfigServer(s)
      <3>1. config'[a] = IF SessionOf[a] = s
                         THEN [config[a] EXCEPT !.using_shared_cq = TRUE,
                                  !.cq_key = SharedKey(s), !.cq_size = CqSize(s)]
                         ELSE config[a]
        BY <2>2, <1>2 DEF ConfigServer
      <3>2. s \in Servers /\ SharedKey(s) \in Key
        BY <2>2 DEF ConfigServer, SharedKey, Key, Ids, Sessions
      <3>3. QED
        <4>1. CASE SessionOf[a] # s
          BY <2>1, <3>1, <4>1
        <4>2. CASE SessionOf[a] = s
          <5>1. config'[a] = [config[a] EXCEPT !.using_shared_cq = TRUE,
                                 !.cq_key = SharedKey(s), !.cq_size = CqSize(s)]
            BY <3>1, <4>2
          <5>2. /\ config'[a] \in Config /\ config'[a].using_shared_cq = TRUE
                /\ config'[a].cq_size = CqSize(s) /\ config'[a].cq_key = SharedKey(s)
            <6> DEFINE k == SharedKey(s)
                       n == CqSize(s)
                       c == config[a]
                       d == config'[a]
            <6>1. c \in Config /\ k \in Key /\ n \in Nat
              BY <2>1, <3>2, CqSizeType
            <6>2. d = [c EXCEPT !.using_shared_cq = TRUE, !.cq_key = k, !.cq_size = n]
              BY <5>1
            <6> HIDE DEF k, n, c, d
            <6>3. d \in Config
              BY <6>1, <6>2 DEF Config
            <6>4. d.using_shared_cq = TRUE
              BY <6>1, <6>2 DEF Config
            <6>5. d.cq_key = k /\ d.cq_size = n
              BY <6>1, <6>2 DEF Config
            <6>6. QED
              BY <6>3, <6>4, <6>5 DEF k, n, d
          <5>3. KeyOf(a) = SharedKey(s)
            BY <3>2, <4>2 DEF KeyOf
          <5>4. QED
            BY <3>2, <4>2, <5>2, <5>3
        <4>3. QED
          BY <4>1, <4>2
    <2>3. CASE ConfigClient(s)
      <3>1. config'[a] = IF SessionOf[a] = s
                         THEN [config[a] EXCEPT !.using_shared_cq = FALSE,
                                                !.cq_size = CqSize(s)]
                         ELSE config[a]
        BY <2>3, <1>2 DEF ConfigClient
      <3>2. s \notin Servers
        BY <2>3, DeviceRegistryAssumption DEF ConfigClient
      <3>3. QED
        <4>1. CASE SessionOf[a] # s
          BY <2>1, <3>1, <4>1
        <4>2. CASE SessionOf[a] = s
          <5>1. config'[a] = [config[a] EXCEPT !.using_shared_cq = FALSE,
                                               !.cq_size = CqSize(s)]
            BY <3>1, <4>2
          <5>2. /\ config'[a] \in Config /\ ~config'[a].using_shared_cq
                /\ config'[a].cq_size = CqSize(s)
            BY <2>1, <5>1, CqSizeType, ConfigPrivate
          <5>3. QED
            BY <3>2, <4>2, <5>2
        <4>3. QED
          BY <4>1, <4>2
    <2>4. QED
      BY <2>2, <2>3
  <1>5. \A a \in Adapters : SessionOf[a] = s => pc[a] = "idle"
    BY <1>3 DEF IndInv, ConfInv
  <1>6. TypeOK'
    <2>1. config' \in [Adapters -> Config]
      <3>1. config' = [a \in Adapters |-> config'[a]]
        BY DEF ConfigServer, ConfigClient
      <3>2. QED
        BY <1>4, <3>1
    <2>2. main' \in [Sessions -> {"init", "connecting", "running"}] /\ pc' \in [Adapters -> Pc]
      BY <1>1 DEF StartThreads, IndInv, TypeOK, Pc
    <2>3. QED
      BY <1>3, <1>5, <2>1, <2>2 DEF IndInv, TypeOK, Config
  <1>7. ConfInv'
    BY <1>3, <1>4 DEF IndInv, ConfInv
  <1>8. DevInv' /\ CqInv'
    BY <1>3, <1>5 DEF IndInv, DevInv, CqInv, Dev, TypeOK
  <1>9. NullInv'
    BY <1>3, <1>5 DEF IndInv, NullInv, TypeOK
  <1>10. RunInv'
    <2>1. \A r \in Sessions, a \in Adapters : a \in EndPoints(r) <=> SessionOf[a] = r
      BY DEF EndPoints
    <2>2. \A r \in Sessions : EndPoints(r) \subseteq Adapters
      BY DEF EndPoints
    <2>3. \A r \in Sessions : GroupByCq(r)' = GroupByCq(r)
      BY <1>3 DEF GroupByCq
    <2>4. QED
      BY <1>3, <2>1, <2>2, <2>3 DEF IndInv, RunInv
  <1>11. QED
    BY <1>6, <1>7, <1>8, <1>9, <1>10 DEF IndInv

\* A thread that has its device goes on, and nothing but its place changes.
Moves(a, p) ==
    /\ a \notin failed
    /\ <<pc[a], p>> \in {<<"got", "registered">>, <<"registered", "pd">>,
                         <<"pd", "checked">>, <<"qp", "loaded">>}
    /\ Goto(a, p)
    /\ UNCHANGED <<main, config, device_map, reg_cqs, rdma_device, used_cq, qp, threads,
                   failed, dead>>

LEMMA MoveStep ==
    ASSUME IndInv, NEW a \in Adapters, NEW p, Moves(a, p),
           adapter_set' \in [Adapters -> SUBSET Adapters]
    PROVE  IndInv'
  <1>1. /\ \A b \in Adapters : pc'[b] = IF b = a THEN p ELSE pc[b]
        /\ pc[a] \notin {"idle", "start", "loaded"}
        /\ p \notin {"idle", "start"}
        /\ pc' \in [Adapters -> Pc]
    BY DEF Moves, Goto, IndInv, TypeOK, Pc
  <1>2. TypeOK'
    BY <1>1 DEF Moves, IndInv, TypeOK
  <1>3. ConfInv' /\ DevInv' /\ CqInv'
    BY <1>1 DEF Moves, IndInv, ConfInv, DevInv, CqInv, Dev
  <1>4. NullInv'
    BY <1>1 DEF Moves, IndInv, NullInv, TypeOK
  <1>5. RunInv'
    <2>1. \A r \in Sessions : EndPoints(r) \subseteq Adapters
      BY DEF EndPoints
    <2>2. \A r \in Sessions : GroupByCq(r)' = GroupByCq(r)
      BY DEF Moves, GroupByCq
    <2>3. QED
      BY <1>1, <2>1, <2>2 DEF Moves, IndInv, RunInv
  <1>6. QED
    BY <1>2, <1>3, <1>4, <1>5 DEF IndInv

\* A thread fails, and nothing else changes.
LEMMA FailStep ==
    ASSUME IndInv, NEW a \in Adapters, pc[a] \notin {"idle", "loaded"},
           failed' = failed \cup {a},
           UNCHANGED <<main, config, pc, device_map, adapter_set, reg_cqs, rdma_device,
                       used_cq, qp, threads, dead>>
    PROVE  IndInv'
  <1>1. TypeOK'
    BY DEF IndInv, TypeOK
  <1>2. ConfInv' /\ DevInv' /\ CqInv' /\ NullInv'
    BY DEF IndInv, ConfInv, DevInv, CqInv, Dev, NullInv
  <1>3. RunInv'
    <2>1. \A r \in Sessions : GroupByCq(r)' = GroupByCq(r)
      BY DEF GroupByCq
    <2>2. QED
      BY <2>1 DEF IndInv, RunInv
  <1>4. QED
    BY <1>1, <1>2, <1>3 DEF IndInv

\* get_device.
LEMMA GetDeviceStep ==
    ASSUME IndInv, NEW a \in Adapters, GetDevice(a)
    PROVE  IndInv'
  <1> USE Values, KeyType
  <1> DEFINE d == IF device_map["mlx5_0"] = Unset THEN a ELSE device_map["mlx5_0"]
  <1>1. /\ a \notin failed /\ pc[a] = "start"
        /\ \A b \in Adapters : pc'[b] = IF b = a THEN "got" ELSE pc[b]
        /\ pc' \in [Adapters -> Pc]
        /\ UNCHANGED <<main, adapter_set, reg_cqs, used_cq, qp, threads, failed, dead>>
    BY DEF GetDevice, At, Goto, IndInv, TypeOK, Pc
  <1>2. config[a] \in Config
    BY ConfigType DEF IndInv
  <1>3. config[a].dev_name = "mlx5_0"
    BY <1>2 DEF Config
  <1>4. /\ device_map' = [device_map EXCEPT !["mlx5_0"] = d]
        /\ rdma_device' = [rdma_device EXCEPT ![a] = d]
    BY <1>3 DEF GetDevice
  <1>5. d \in Adapters /\ device_map'["mlx5_0"] = d
    BY <1>4 DEF IndInv, TypeOK
  <1>6. \A b \in Adapters : rdma_device'[b] = IF b = a THEN d ELSE rdma_device[b]
    BY <1>4 DEF IndInv, TypeOK
  <1>7. /\ \A b \in Adapters : b # a => config'[b] = config[b]
        /\ config'[a] = [config[a] EXCEPT !.cq_key =
                            IF config[a].using_shared_cq THEN @ ELSE a]
        /\ config' = [b \in Adapters |-> config'[b]]
    BY ZenonT(30) DEF GetDevice, IndInv, TypeOK
  <1>8. /\ config'[a] \in Config
        /\ config'[a].using_shared_cq = config[a].using_shared_cq
        /\ config'[a].cq_size = config[a].cq_size
        /\ config'[a].cq_key = IF config[a].using_shared_cq THEN config[a].cq_key ELSE a
    BY <1>2, <1>7 DEF Key, Config
  <1>9. TypeOK'
    <2>1. config' \in [Adapters -> Config]
      <3>1. \A b \in Adapters : config'[b] \in Config
        BY <1>7, <1>8, ConfigType DEF IndInv
      <3>2. QED
        BY <1>7, <3>1
    <2>2. device_map' \in [Names -> Adapters \cup {Unset}]
          /\ rdma_device' \in [Adapters -> Adapters \cup {Unset}]
      BY <1>4, <1>5 DEF IndInv, TypeOK
    <2>3. QED
      BY <1>1, <1>5, <1>6, <2>1, <2>2 DEF IndInv, TypeOK, Config
  <1>10. ConfInv'
    <2>1. \A b \in Adapters \ {a} : pc'[b] = pc[b] /\ config'[b] = config[b]
      BY <1>1, <1>7
    <2>2. config'[a].cq_key = KeyOf(a)
      BY <1>1, <1>8 DEF IndInv, ConfInv, KeyOf
    <2>3. QED
      BY <1>1, <1>8, <2>1, <2>2 DEF IndInv, ConfInv
  <1>11. DevInv'
    BY <1>5, <1>6 DEF IndInv, DevInv, Dev
  <1>12. CqInv'
    <2>1. used_cq[a] = Unset
      BY <1>1 DEF IndInv, TypeOK
    <2>2. QED
      BY <1>1, <1>6, <2>1 DEF IndInv, CqInv, Dev
  <1>13. NullInv'
    BY <1>1 DEF IndInv, NullInv, TypeOK
  <1>14. RunInv'
    <2>1. \A r \in Sessions : EndPoints(r) \subseteq Adapters
      BY DEF EndPoints
    <2>2. \A r \in Sessions : GroupByCq(r)' = GroupByCq(r)
      BY <1>1 DEF GroupByCq
    <2>3. QED
      BY <1>1, <2>1, <2>2 DEF IndInv, RunInv
  <1>15. QED
    BY <1>9, <1>10, <1>11, <1>12, <1>13, <1>14 DEF IndInv

\* Where a thread is that is about to create its completion queue.
LEMMA AtCq ==
    ASSUME IndInv, NEW a \in Adapters, AtCreateCq(a)
    PROVE  /\ a \notin failed /\ pc[a] \in {"pd", "checked"}
           /\ Dev(a) \in Adapters /\ config[a].cq_key = KeyOf(a)
           /\ used_cq[a] = Unset /\ qp[a] = Unset
  <1>1. a \notin failed /\ pc[a] \in {"pd", "checked"}
    BY DEF AtCreateCq, At
  <1>2. QED
    BY <1>1, ZenonT(30) DEF IndInv, TypeOK, ConfInv, Dev

\* Sessions that run are not touched when adapter a, which is not loaded, gets its
\* completion queue.
LEMMA GroupsStay ==
    ASSUME IndInv, NEW a \in Adapters, pc[a] # "loaded",
           \A b \in Adapters : b # a => used_cq'[b] = used_cq[b],
           NEW r \in Sessions, main[r] = "running"
    PROVE  GroupByCq(r)' = GroupByCq(r)
  <1>1. \A b \in EndPoints(r) : used_cq'[b] = used_cq[b]
    BY DEF IndInv, RunInv, EndPoints
  <1>2. QED
    BY <1>1 DEF GroupByCq

\* create_completion_queue.
LEMMA CreateCqStep ==
    ASSUME IndInv, NEW a \in Adapters, CreateCompletionQueue(a)
    PROVE  IndInv'
  <1> USE Values, KeyType
  <1> DEFINE k == KeyOf(a)
             D == Dev(a)
             found == reg_cqs[D][k]
             v == IF found = Unset THEN a ELSE found
  <1>1. /\ a \notin failed /\ pc[a] \in {"pd", "checked"}
        /\ D \in Adapters /\ config[a].cq_key = k /\ k \in Key
        /\ used_cq[a] = Unset /\ qp[a] = Unset
    BY AtCq DEF CreateCompletionQueue
  <1>2. v \in Adapters \cup {Null}
    BY <1>1 DEF IndInv, TypeOK
  <1>3. used_cq' = [used_cq EXCEPT ![a] = v]
    BY <1>1 DEF CreateCompletionQueue
  <1>4. \A b \in Adapters : used_cq'[b] = IF b = a THEN v ELSE used_cq[b]
    BY <1>3 DEF IndInv, TypeOK
  <1>5. reg_cqs' = [reg_cqs EXCEPT ![D][k] = v]
    BY <1>1, <1>4 DEF CreateCompletionQueue
  <1>6. \A d \in Adapters, j \in Key :
            reg_cqs'[d][j] = IF d = D /\ j = k THEN v ELSE reg_cqs[d][j]
    BY <1>1, <1>5 DEF IndInv, TypeOK
  <1>7. /\ \A b \in Adapters : pc'[b] = IF b = a THEN "cq" ELSE pc[b]
        /\ pc' \in [Adapters -> Pc]
        /\ UNCHANGED <<main, config, device_map, adapter_set, rdma_device, qp, threads,
                       failed, dead>>
    BY DEF CreateCompletionQueue, Goto, IndInv, TypeOK, Pc
  <1> HIDE DEF k, D, found, v
  <1>8. TypeOK'
    <2>1. /\ reg_cqs' \in [Adapters -> [Key -> Adapters \cup {Unset, Null}]]
          /\ used_cq' \in [Adapters -> Adapters \cup {Unset, Null}]
      BY <1>1, <1>2, <1>3, <1>5 DEF IndInv, TypeOK
    <2>2. QED
      BY <1>1, <1>2, <1>4, <1>7, <2>1 DEF IndInv, TypeOK
  <1>9. ConfInv' /\ DevInv'
    BY <1>1, <1>7 DEF IndInv, ConfInv, DevInv, Dev
  <1>10. CqInv'
    <2>1. ASSUME NEW b \in Adapters, used_cq'[b] # Unset
          PROVE  used_cq'[b] = reg_cqs'[Dev(b)'][KeyOf(b)]
      <3>1. CASE b = a
        BY <3>1, <1>1, <1>4, <1>6, <1>7 DEF D, k, Dev
      <3>2. CASE b # a
        <4>1. used_cq[b] = reg_cqs[Dev(b)][KeyOf(b)] /\ used_cq[b] # Unset /\ Dev(b) \in Adapters
          <5>1. used_cq[b] # Unset
            BY <2>1, <3>2, <1>4
          <5>2. Dev(b) \in Adapters
            BY <5>1 DEF IndInv, TypeOK, Dev
          <5>3. QED
            BY <5>1, <5>2 DEF IndInv, CqInv
        <4>2. Dev(b) = D /\ KeyOf(b) = k => v = used_cq[b]
          BY <4>1 DEF v, found
        <4>3. QED
          BY <3>2, <4>1, <4>2, <1>4, <1>6, <1>7 DEF Dev
      <3>3. QED
        BY <3>1, <3>2
    <2>2. \A b \in Adapters : qp'[b] # Unset => qp'[b] = used_cq'[b]
      BY <1>1, <1>4, <1>7 DEF IndInv, CqInv
    <2>3. ASSUME NEW d \in Adapters, NEW q \in Adapters, NEW j \in Key, reg_cqs'[d][j] = q
          PROVE  KeyOf(q) = j /\ pc'[q] # "idle"
      <3>1. CASE reg_cqs[d][j] = q
        BY <3>1, <1>7 DEF IndInv, CqInv
      <3>2. CASE reg_cqs[d][j] # q
        BY <2>3, <3>2, <1>6, <1>7 DEF v, found, k
      <3>3. QED
        BY <3>1, <3>2
    <2>4. QED
      BY <2>1, <2>2, <2>3 DEF CqInv
  <1>11. NullInv'
    <2>1. \A d \in Adapters, j \in Key : reg_cqs'[d][j] = Null => reg_cqs[d][j] = Null
      BY <1>6 DEF v, found
    <2>2. QED
      BY <1>1, <1>7, <2>1 DEF IndInv, NullInv, TypeOK
  <1>12. RunInv'
    <2>1. \A r \in Sessions : EndPoints(r) \subseteq Adapters
      BY DEF EndPoints
    <2>2. \A r \in Sessions : main[r] = "running" => GroupByCq(r)' = GroupByCq(r)
      BY <1>1, <1>4, GroupsStay
    <2>3. QED
      BY <1>1, <1>7, <2>1, <2>2 DEF IndInv, RunInv
  <1>13. QED
    BY <1>8, <1>9, <1>10, <1>11, <1>12 DEF IndInv

\* ibv_create_cq fails.
LEMMA CreateCqFailsStep ==
    ASSUME IndInv, NEW a \in Adapters, CreateCqFails(a)
    PROVE  IndInv'
  <1> USE Values, KeyType
  <1> DEFINE k == KeyOf(a)
             D == Dev(a)
  <1>1. /\ a \notin failed /\ pc[a] \in {"pd", "checked"}
        /\ D \in Adapters /\ config[a].cq_key = k /\ k \in Key
    BY AtCq DEF CreateCqFails
  <1>2. reg_cqs[D][k] = Unset /\ reg_cqs' = [reg_cqs EXCEPT ![D][k] = Null]
    BY <1>1 DEF CreateCqFails
  <1>3. \A d \in Adapters, j \in Key :
            reg_cqs'[d][j] = IF d = D /\ j = k THEN Null ELSE reg_cqs[d][j]
    BY <1>1, <1>2 DEF IndInv, TypeOK
  <1>4. /\ failed' = failed \cup {a}
        /\ UNCHANGED <<main, config, pc, device_map, adapter_set, rdma_device, used_cq,
                       qp, threads, dead>>
    BY DEF CreateCqFails
  <1>5. TypeOK'
    <2>1. reg_cqs' \in [Adapters -> [Key -> Adapters \cup {Unset, Null}]]
      BY <1>1, <1>2 DEF IndInv, TypeOK
    <2>2. QED
      BY <1>4, <2>1 DEF IndInv, TypeOK
  <1>6. ConfInv' /\ DevInv'
    BY <1>4 DEF IndInv, ConfInv, DevInv, Dev
  <1>7. CqInv'
    <2>1. \A b \in Adapters : Dev(b)' = Dev(b) /\ (used_cq[b] # Unset => Dev(b) \in Adapters)
      BY <1>4 DEF IndInv, TypeOK, Dev
    <2>2. \A b \in Adapters : used_cq[b] # Unset => used_cq[b] = reg_cqs'[Dev(b)][KeyOf(b)]
      BY <1>2, <1>3, <2>1 DEF IndInv, CqInv
    <2>3. \A d, q \in Adapters, j \in Key :
              reg_cqs'[d][j] = q => KeyOf(q) = j /\ pc[q] # "idle"
      BY <1>3 DEF IndInv, CqInv
    <2>4. QED
      BY <1>4, <2>1, <2>2, <2>3 DEF IndInv, CqInv
  <1>8. NullInv'
    BY <1>1, <1>3, <1>4 DEF IndInv, NullInv
  <1>9. RunInv'
    <2>1. \A r \in Sessions : GroupByCq(r)' = GroupByCq(r)
      BY <1>4 DEF GroupByCq
    <2>2. QED
      BY <1>1, <1>4, <2>1 DEF IndInv, RunInv
  <1>10. QED
    BY <1>5, <1>6, <1>7, <1>8, <1>9 DEF IndInv

\* create_qp.
LEMMA CreateQpStep ==
    ASSUME IndInv, NEW a \in Adapters, CreateQp(a)
    PROVE  IndInv'
  <1> USE Values
  <1>1. /\ a \notin failed /\ pc[a] = "cq"
        /\ \A b \in Adapters : pc'[b] = IF b = a THEN "qp" ELSE pc[b]
        /\ pc' \in [Adapters -> Pc]
        /\ UNCHANGED <<main, config, device_map, adapter_set, reg_cqs, rdma_device,
                       used_cq, threads, failed, dead>>
    BY DEF CreateQp, At, Goto, IndInv, TypeOK, Pc
  <1>2. /\ qp' \in [Adapters -> Adapters \cup {Unset, Null}]
        /\ \A b \in Adapters : qp'[b] = IF b = a THEN used_cq[a] ELSE qp[b]
    BY DEF CreateQp, IndInv, TypeOK
  <1>3. used_cq[a] # Unset
    BY <1>1 DEF IndInv, TypeOK
  <1>4. TypeOK'
    BY <1>1, <1>2, <1>3 DEF IndInv, TypeOK
  <1>5. ConfInv' /\ DevInv' /\ CqInv'
    BY <1>1, <1>2 DEF IndInv, ConfInv, DevInv, CqInv, Dev
  <1>6. NullInv'
    BY <1>1 DEF IndInv, NullInv, TypeOK
  <1>7. RunInv'
    <2>1. \A r \in Sessions : EndPoints(r) \subseteq Adapters
      BY DEF EndPoints
    <2>2. \A r \in Sessions : GroupByCq(r)' = GroupByCq(r)
      BY <1>1 DEF GroupByCq
    <2>3. QED
      BY <1>1, <2>1, <2>2 DEF IndInv, RunInv
  <1>8. QED
    BY <1>4, <1>5, <1>6, <1>7 DEF IndInv

\* running.
LEMMA RunningStep ==
    ASSUME IndInv, NEW s \in Sessions, Running(s)
    PROVE  IndInv'
  <1>1. /\ main[s] = "connecting"
        /\ \A a \in EndPoints(s) : a \notin failed /\ pc[a] = "loaded"
        /\ \A r \in Sessions : main'[r] = IF r = s THEN "running" ELSE main[r]
        /\ \A r \in Sessions : threads'[r] = IF r = s THEN GroupByCq(s) ELSE threads[r]
        /\ UNCHANGED <<config, pc, device_map, adapter_set, reg_cqs, rdma_device,
                       used_cq, qp, failed, dead>>
    BY DEF Running, IndInv, TypeOK
  <1>2. TypeOK'
    <2>1. GroupByCq(s) \in SUBSET SUBSET Adapters
      BY DEF GroupByCq, EndPoints
    <2>2. /\ main' \in [Sessions -> {"init", "connecting", "running"}]
          /\ threads' \in [Sessions -> SUBSET SUBSET Adapters]
      BY <2>1 DEF Running, IndInv, TypeOK
    <2>3. QED
      BY <1>1, <2>2 DEF IndInv, TypeOK
  <1>3. ConfInv'
    BY <1>1, KeyType DEF IndInv, ConfInv
  <1>4. DevInv' /\ CqInv' /\ NullInv'
    BY <1>1 DEF IndInv, DevInv, CqInv, Dev, NullInv
  <1>5. RunInv'
    <2>1. \A r \in Sessions : GroupByCq(r)' = GroupByCq(r)
      BY <1>1 DEF GroupByCq
    <2>2. QED
      BY <1>1, <2>1 DEF IndInv, RunInv
  <1>6. QED
    BY <1>2, <1>3, <1>4, <1>5 DEF IndInv

\* The process as it starts.
LEMMA InitInv == ASSUME Init PROVE IndInv
  <1> USE Values, DeviceRegistryAssumption
  <1>1. TypeOK
    BY DEF Init, TypeOK, Pc
  <1>2. ConfInv /\ DevInv /\ NullInv /\ RunInv
    BY KeyType DEF Init, ConfInv, DevInv, Dev, NullInv, RunInv
  <1>3. CqInv
    BY DEF Init, CqInv
  <1>4. QED
    BY <1>1, <1>2, <1>3 DEF IndInv

\* Every step, and stuttering, preserves the invariant.
LEMMA StepInv == ASSUME IndInv, [Next]_vars PROVE IndInv'
  <1>1. ASSUME NEW s \in Sessions, ConfigServer(s) \/ ConfigClient(s) \/ Running(s)
        PROVE  IndInv'
    BY <1>1, ConfigStep, RunningStep
  <1>2. ASSUME NEW a \in Adapters, Loading(a) PROVE IndInv'
    <2>1. CASE RegisterAdapter(a)
      <3>1. Moves(a, "registered")
        BY <2>1 DEF RegisterAdapter, Moves, At
      <3>2. adapter_set' \in [Adapters -> SUBSET Adapters]
        <4>1. adapter_set \in [Adapters -> SUBSET Adapters]
          BY DEF IndInv, TypeOK
        <4>2. QED
          BY <2>1, <4>1 DEF RegisterAdapter
      <3>3. QED
        BY <3>1, <3>2, MoveStep
    <2>2. CASE CreatePd(a)
      <3>1. Moves(a, "pd") /\ adapter_set' = adapter_set
        BY <2>2 DEF CreatePd, Moves, At
      <3>2. QED
        BY <3>1, MoveStep DEF IndInv, TypeOK
    <2>3. CASE HasCreatedCq(a)
      <3>1. CASE reg_cqs[Dev(a)][config[a].cq_key] = Unset
        <4>1. Moves(a, "checked") /\ adapter_set' = adapter_set
          BY <2>3, <3>1 DEF HasCreatedCq, Moves, At
        <4>2. QED
          BY <4>1, MoveStep DEF IndInv, TypeOK
      <3>2. CASE reg_cqs[Dev(a)][config[a].cq_key] # Unset
        BY <2>3, <3>2, FailStep DEF HasCreatedCq, At
      <3>3. QED
        BY <3>1, <3>2
    <2>4. CASE UpdateMyAdapterInfo(a)
      <3>1. Moves(a, "loaded") /\ adapter_set' = adapter_set
        BY <2>4 DEF UpdateMyAdapterInfo, Moves, At
      <3>2. QED
        BY <3>1, MoveStep DEF IndInv, TypeOK
    <2>5. QED
      BY <1>2, <2>1, <2>2, <2>3, <2>4, GetDeviceStep, CreateCqStep, CreateQpStep
         DEF Loading
  <1>3. ASSUME NEW a \in Adapters, LoadingFails(a) PROVE IndInv'
    <2>1. CASE OpenDeviceFails(a) \/ CreatePdFails(a) \/ CreateQpFails(a) \/ QueryGidFails(a)
      BY <2>1, FailStep
         DEF OpenDeviceFails, CreatePdFails, CreateQpFails, QueryGidFails, Fails, At
    <2>2. QED
      BY <1>3, <2>1, CreateCqFailsStep DEF LoadingFails
  <1>4. CASE Fatal
    <2>1. \A r \in Sessions : GroupByCq(r)' = GroupByCq(r)
      BY <1>4 DEF Fatal, GroupByCq
    <2>2. QED
      BY <1>4, <2>1 DEF Fatal, IndInv, TypeOK, ConfInv, DevInv, CqInv, Dev, NullInv, RunInv
  <1>5. CASE UNCHANGED vars
    <2>1. \A r \in Sessions : GroupByCq(r)' = GroupByCq(r)
      BY <1>5 DEF vars, GroupByCq
    <2>2. QED
      BY <1>5, <2>1 DEF vars, IndInv, TypeOK, ConfInv, DevInv, CqInv, Dev, NullInv, RunInv
  <1>6. QED
    BY <1>1, <1>2, <1>3, <1>4, <1>5 DEF Next

-----------------------------------------------------------------------------
(* What the invariant says about completion queues *)

\* An adapter whose queue pair has a completion queue looked it up under its key,
\* and so did the adapter that created it.
LEMMA QpOfKey ==
    ASSUME IndInv, NEW a \in Adapters, qp[a] # Unset
    PROVE  /\ device_map["mlx5_0"] \in Adapters
           /\ qp[a] = used_cq[a] /\ qp[a] = reg_cqs[device_map["mlx5_0"]][KeyOf(a)]
           /\ qp[a] \in Adapters => KeyOf(qp[a]) = KeyOf(a) /\ pc[qp[a]] # "idle"
  <1> USE Values, KeyType
  <1>1. qp[a] = used_cq[a] /\ qp[a] = reg_cqs[Dev(a)][KeyOf(a)]
    BY DEF IndInv, CqInv
  <1>2. Dev(a) \in Adapters /\ Dev(a) = device_map["mlx5_0"]
    BY DEF IndInv, TypeOK, DevInv, Dev
  <1>3. QED
    BY <1>1, <1>2 DEF IndInv, CqInv

\* The device's map leads two adapters to one queue exactly when they have one key.
LEMMA SameQueue ==
    ASSUME IndInv, NEW a \in Adapters, NEW b \in Adapters,
           qp[a] \in Adapters, qp[b] \in Adapters
    PROVE  qp[a] = qp[b] <=> KeyOf(a) = KeyOf(b)
  BY QpOfKey, Values

LEMMA InvShared == ASSUME IndInv PROVE SharedExactlyInSession
  <1> SUFFICES ASSUME NEW a \in Adapters, NEW b \in Adapters, a # b,
                      qp[a] \notin {Unset, Null}, qp[b] \notin {Unset, Null}
               PROVE  qp[a] = qp[b] <=> SessionOf[a] = SessionOf[b] /\ SessionOf[a] \in Servers
    BY DEF SharedExactlyInSession
  <1>1. qp[a] \in Adapters /\ qp[b] \in Adapters
    BY DEF IndInv, TypeOK
  <1>2. QED
    BY <1>1, SameQueue, KeysShared

\* Products keep the order of their factors.
LEMMA TimesMonotonic ==
    ASSUME NEW m \in Nat, NEW i \in Nat, NEW j \in Nat, i <= j
    PROVE  i * m <= j * m /\ m * j = j * m
  OBVIOUS

LEMMA InvCqFits == ASSUME IndInv PROVE CqFits
  <1> SUFFICES ASSUME NEW q \in Adapters,
                      SessionOf[q] \in Towers \/
                          Cardinality(EndPoints(SessionOf[q])) * MaxWr <= DefaultCqSize
               PROVE  Cardinality(Users(q)) * MaxWr <= config[q].cq_size
    BY DEF CqFits
  <1> DEFINE S == EndPoints(SessionOf[q])
  <1>1. IsFiniteSet(S) /\ Cardinality(S) \in Nat
    BY EndPointsFinite
  <1>2. MaxWr \in Nat /\ DefaultCqSize \in Nat
    BY DeviceRegistryAssumption
  <1>3. CASE Users(q) = {}
    <2>1. Cardinality(Users(q)) = 0
      BY <1>3, FS_EmptySet
    <2>2. config[q].cq_size \in Nat
      BY DEF IndInv, TypeOK
    <2>3. QED
      BY <1>2, <2>1, <2>2
  <1>4. CASE Users(q) # {}
    <2>1. \A a \in Users(q) : KeyOf(a) = KeyOf(q) /\ pc[q] # "idle"
      BY QpOfKey, Values DEF Users
    <2>2. Users(q) \subseteq S
      BY <2>1, KeysShared DEF Users, EndPoints
    <2>3. Cardinality(Users(q)) \in Nat /\ Cardinality(Users(q)) <= Cardinality(S)
      BY <1>1, <2>2, FS_Subset, FS_CardinalityType
    <2>4. Cardinality(Users(q)) * MaxWr <= Cardinality(S) * MaxWr
      BY <1>1, <1>2, <2>3, TimesMonotonic
    <2>5. config[q].cq_size = CqSize(SessionOf[q])
      BY <1>4, <2>1 DEF IndInv, ConfInv
    <2>6. Cardinality(S) * MaxWr <= CqSize(SessionOf[q])
      BY <1>1, <1>2, TimesMonotonic DEF CqSize, TowerCqSize
    <2>7. Cardinality(Users(q)) * MaxWr \in Nat /\ Cardinality(S) * MaxWr \in Nat
      BY <1>1, <1>2, <2>3
    <2>8. CqSize(SessionOf[q]) \in Nat
      BY CqSizeType
    <2>9. QED
      BY <2>4, <2>5, <2>6, <2>7, <2>8
  <1>5. QED
    BY <1>3, <1>4

\* The endpoints of a session that runs have completion queues.
LEMMA RunningHasCqs ==
    ASSUME IndInv, NEW s \in Sessions, main[s] = "running", NEW a \in EndPoints(s)
    PROVE  a \in Adapters /\ SessionOf[a] = s /\ qp[a] = used_cq[a] /\ qp[a] \in Adapters
  <1> USE Values, KeyType
  <1>1. a \in Adapters /\ SessionOf[a] = s
    BY DEF EndPoints
  <1>2. pc[a] = "loaded"
    BY DEF IndInv, RunInv
  <1>3. qp[a] # Unset
    BY <1>1, <1>2 DEF IndInv, TypeOK
  <1>4. qp[a] # Null
    <2> SUFFICES ASSUME qp[a] = Null PROVE FALSE
      OBVIOUS
    <2>1. PICK b \in failed : KeyOf(b) = KeyOf(a) /\ pc[b] # "loaded"
      BY <1>1, <1>3, QpOfKey DEF IndInv, NullInv
    <2>2. b \in Adapters /\ b # a
      BY <1>2, <2>1 DEF IndInv, TypeOK
    <2>3. SessionOf[b] = s
      BY <1>1, <2>1, <2>2, KeysShared
    <2>4. b \in EndPoints(s)
      BY <2>2, <2>3 DEF EndPoints
    <2>5. QED
      BY <2>1, <2>4 DEF IndInv, RunInv
  <1>5. QED
    BY <1>1, <1>3, <1>4, QpOfKey DEF IndInv, TypeOK

\* A group of a session that runs is the users of a completion queue.
LEMMA GroupIsUsers ==
    ASSUME IndInv, NEW s \in Sessions, main[s] = "running", NEW a \in EndPoints(s)
    PROVE  {b \in EndPoints(s) : used_cq[b] = used_cq[a]} = Users(qp[a])
  <1>1. a \in Adapters /\ SessionOf[a] = s /\ qp[a] = used_cq[a] /\ qp[a] \in Adapters
    BY RunningHasCqs
  <1>2. \A b \in EndPoints(s) : b \in Adapters /\ qp[b] = used_cq[b]
    BY RunningHasCqs
  <1>3. \A b \in Users(qp[a]) : b \in EndPoints(s)
    <2> SUFFICES ASSUME NEW b \in Adapters, qp[b] = qp[a], b # a PROVE SessionOf[b] = s
      BY <1>1 DEF Users, EndPoints
    <2>1. QED
      BY <1>1, SameQueue, KeysShared
  <1>4. QED
    BY <1>1, <1>2, <1>3 DEF Users

LEMMA InvOnePoller == ASSUME IndInv PROVE OnePollerPerCq
  <1> SUFFICES ASSUME NEW s \in Sessions, main[s] = "running", NEW a \in EndPoints(s)
               PROVE  /\ \E g \in threads[s] : g = Users(qp[a])
                      /\ \A r \in Sessions : \A g \in threads[r] :
                            (\E b \in g : qp[b] = qp[a]) => r = s /\ g = Users(qp[a])
    BY DEF OnePollerPerCq
  <1>1. a \in Adapters /\ SessionOf[a] = s /\ qp[a] \in Adapters
    BY RunningHasCqs
  <1>2. \A r \in Sessions : main[r] = "running" =>
            threads[r] = {{b \in EndPoints(r) : used_cq[b] = used_cq[x]} : x \in EndPoints(r)}
    BY DEF IndInv, RunInv, GroupByCq
  <1>3. {b \in EndPoints(s) : used_cq[b] = used_cq[a]} \in threads[s]
    BY <1>2
  <1>4. \E g \in threads[s] : g = Users(qp[a])
    BY <1>3, GroupIsUsers
  <1>5. ASSUME NEW r \in Sessions, NEW g \in threads[r], NEW b \in g, qp[b] = qp[a]
        PROVE  r = s /\ g = Users(qp[a])
    <2>1. main[r] = "running"
      BY DEF IndInv, RunInv
    <2>2. PICK x \in EndPoints(r) : g = {y \in EndPoints(r) : used_cq[y] = used_cq[x]}
      BY <1>2, <2>1
    <2>3. g = Users(qp[x])
      BY <2>1, <2>2, GroupIsUsers
    <2>4. b \in Adapters /\ SessionOf[b] = r /\ qp[b] = qp[x]
      BY <2>2, <2>3 DEF Users, EndPoints
    <2>5. r = s
      BY <1>1, <1>5, <2>4, SameQueue, KeysShared
    <2>6. QED
      BY <1>5, <2>3, <2>4, <2>5
  <1>6. QED
    BY <1>4, <1>5

-----------------------------------------------------------------------------
(* The theorems *)

\* The inductive invariant holds throughout.
THEOREM DevicesInductive == Spec => []IndInv
  BY InitInv, StepInv, PTL DEF Spec

\* Every variable keeps its type, and an adapter owns at each place of loading
\* exactly the resources acquired up to there (rdma_adapter.cc:25-58).
THEOREM DevicesTypeCorrect == Spec => []TypeOK
  <1>1. IndInv => TypeOK
    BY DEF IndInv
  <1>2. QED
    BY DevicesInductive, <1>1, PTL

\* However many helper threads of however many sessions race through get_device and
\* create_completion_queue, two queue pairs share a completion queue exactly when
\* they belong to one server session (rdma_device.cc:96-122, 300-332).
THEOREM SharingSafe == Spec => []SharedExactlyInSession
  BY DevicesInductive, InvShared, PTL

\* A completion queue is large enough for all of its queue pairs, for any number of
\* endpoints of a tower and for small plain sessions (mesh_comm_service.cc,
\* rdma_adapter.cc:102-136).
THEOREM CqSizeSafe == Spec => []CqFits
  BY DevicesInductive, InvCqFits, PTL

\* A completion queue is polled by exactly one thread of the process, even if verbs
\* calls fail in other threads (rdma_session.cc:129-156).
THEOREM PollersSafe == Spec => []OnePollerPerCq
  BY DevicesInductive, InvOnePoller, PTL
=============================================================================
