-------------------- MODULE MCExternalConfigurationRole --------------------
(* A small instance of ExternalConfigurationRole for TLC. *)
EXTENDS ExternalConfigurationRole
=============================================================================
