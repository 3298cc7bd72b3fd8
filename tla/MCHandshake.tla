---------------------------- MODULE MCHandshake ----------------------------
(* Deployments of a server and its clients. *)
EXTENDS Handshake

CONSTANTS c1, c2

\* All ports alike, one client on the other link layer than the server and the
\* remaining client, for either link layer of the server, and one client whose
\* driver reports none.  The others differ by the names of the clients, or add
\* no pair of link layers that is treated differently.
TypicalDeployments ==
    {[p \in Process |-> "eth"],
     [p \in Process |-> IF p = c2 THEN "ib" ELSE "eth"],
     [p \in Process |-> IF p = c2 THEN "eth" ELSE "ib"],
     [p \in Process |-> IF p = c2 THEN "unspecified" ELSE "ib"]}

AllDeployments == [Process -> LinkLayers]
=============================================================================
