------------------------------ MODULE MCAgent ------------------------------
(* The agent for TLC: its constants are numbers, given in the .cfg files. *)
EXTENDS Agent
=============================================================================
