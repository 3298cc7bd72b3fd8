--------------------------- MODULE MCMeshService ---------------------------
(* The mesh service with one and two clients of one server. *)
EXTENDS MeshService

CONSTANTS c1, c2

OneChannel == <<c1>>

TwoChannels == <<c1, c2>>
=============================================================================
