--------------------------- MODULE MCConnections ---------------------------
(* Instances of Connections for TLC.                                       *)
EXTENDS ConnectionsInvariant, TLC

Interchangeable == Permutations(Workers) \cup Permutations(Clients)
=============================================================================
