------------------- MODULE MCComputeResourceConsolidation -------------------
(* Small instances of ComputeResourceConsolidation for TLC. *)
EXTENDS ComputeResourceConsolidation
=============================================================================
