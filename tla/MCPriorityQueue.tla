-------------------------- MODULE MCPriorityQueue --------------------------
(* Small instances of PriorityQueue for TLC. *)
EXTENDS PriorityQueue
=============================================================================
