------------------------- MODULE MCPipesAndFilters -------------------------
(* Small instances of PipesAndFilters for TLC. *)
EXTENDS PipesAndFilters
=============================================================================
