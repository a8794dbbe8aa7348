------------------------ MODULE MCCompetingConsumers ------------------------
(* Small instances of CompetingConsumers for TLC. *)
EXTENDS CompetingConsumers
=============================================================================
