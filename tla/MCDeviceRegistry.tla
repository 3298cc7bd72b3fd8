-------------------------- MODULE MCDeviceRegistry --------------------------
(* One process of the mesh service: a server tower and two client towers, or a *)
(* plain server session.                                                       *)
EXTENDS DeviceRegistry, TLC

CONSTANTS a1, a2, a3, a4, srv, cl1, cl2

\* Two endpoints of the server and one of each client.
MeshSessionOf == a1 :> srv @@ a2 :> srv @@ a3 :> cl1 @@ a4 :> cl2

\* Two endpoints of one server.
PlainSessionOf == [a \in {a1, a2} |-> srv]

\* The towers of a process all have the session id of its configuration.
CONSTANT id

OneId == [s \in Sessions |-> id]
=============================================================================
