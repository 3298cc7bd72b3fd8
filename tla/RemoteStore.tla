---------------------------- MODULE RemoteStore ----------------------------
(***************************************************************************)
(* What an RDMASession promises, with no queue, message or buffer in it:   *)
(* each side learns once where the memory of the other one is, and from    *)
(* then on stores the test text there and fetches it back, one operation   *)
(* after the other, for ever.                                              *)
(***************************************************************************)
CONSTANTS
    Side,     \* the ends of the connection
    Peer(_)   \* the other end

VARIABLES
    key,   \* key[s]: "desc" once s holds the descriptor of its peer's memory
    op,    \* op[s]: the operation of s under way, or just finished
    mem,   \* mem[s]: what the memory of s that its peer works on holds
    got    \* got[s]: what the fetch of s has returned

vars == <<key, op, mem, got>>

Init ==
    /\ key = [s \in Side |-> "none"]
    /\ op = [s \in Side |-> "idle"]
    /\ mem = [s \in Side |-> "zero"]
    /\ got = [s \in Side |-> "zero"]

\* The descriptor arrives, and the first store begins.
Learn(s) ==
    /\ key[s] = "none" /\ op[s] = "idle"
    /\ key' = [key EXCEPT ![s] = "desc"]
    /\ op' = [op EXCEPT ![s] = "storing"]
    /\ UNCHANGED <<mem, got>>

Store(s) ==
    /\ op[s] = "storing"
    /\ op' = [op EXCEPT ![s] = "stored"]
    /\ mem' = [mem EXCEPT ![Peer(s)] = "text"]
    /\ UNCHANGED <<key, got>>

StartFetch(s) ==
    /\ op[s] = "stored"
    /\ op' = [op EXCEPT ![s] = "fetching"]
    /\ got' = [got EXCEPT ![s] = "zero"]
    /\ UNCHANGED <<key, mem>>

Fetch(s) ==
    /\ op[s] = "fetching"
    /\ op' = [op EXCEPT ![s] = "fetched"]
    /\ got' = [got EXCEPT ![s] = mem[Peer(s)]]
    /\ UNCHANGED <<key, mem>>

StartStore(s) ==
    /\ op[s] = "fetched"
    /\ op' = [op EXCEPT ![s] = "storing"]
    /\ UNCHANGED <<key, mem, got>>

Step(s) == Learn(s) \/ Store(s) \/ StartFetch(s) \/ Fetch(s) \/ StartStore(s)

Next == \E s \in Side : Step(s)

Spec == Init /\ [][Next]_vars

Fairness == \A s \in Side : WF_vars(Step(s))
=============================================================================
