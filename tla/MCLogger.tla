------------------------------ MODULE MCLogger ------------------------------
(* An instance of Logger for TLC.                                          *)
EXTENDS Logger
=============================================================================
