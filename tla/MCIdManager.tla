----------------------------- MODULE MCIdManager -----------------------------
(* An instance of IdManager for TLC.                                       *)
EXTENDS IdManager
=============================================================================
