-------------------------- MODULE MCPacketPipeline --------------------------
(* Instances of PacketPipeline for TLC: symmetry would not be sound for    *)
(* the liveness properties, which are checked with the others.             *)
EXTENDS PacketPipeline
=============================================================================
