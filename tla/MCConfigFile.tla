---------------------------- MODULE MCConfigFile ----------------------------
(* The instance of ConfigFile for TLC. *)
EXTENDS ConfigFile
=============================================================================
