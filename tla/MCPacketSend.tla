---- MODULE MCPacketSend ----
(***************************************************************************)
(* PacketSend for TLC.  Nothing tells one connection, or one block, from   *)
(* another.                                                                *)
(***************************************************************************)
EXTENDS PacketSend, TLC

Symmetry == Permutations(Connections) \cup Permutations(Blocks)
====
