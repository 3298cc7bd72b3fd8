-------------------------- MODULE MCBufferRegistry --------------------------
(* Three buffers, two of them of the same name, and two channels. *)
EXTENDS BufferRegistry, TLC

CONSTANTS b1, b2, b3, n1, n2

ThreeNames == b1 :> n1 @@ b2 :> n1 @@ b3 :> n2

ChannelSymmetry == Permutations(Channels)
=============================================================================
