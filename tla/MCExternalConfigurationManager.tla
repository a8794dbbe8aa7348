------------------- MODULE MCExternalConfigurationManager -------------------
(* Small instances of ExternalConfigurationManager for TLC. *)
EXTENDS ExternalConfigurationManager
=============================================================================
