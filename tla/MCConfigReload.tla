---------------------------- MODULE MCConfigReload ----------------------------
(***************************************************************************)
(* Instances of ConfigReload for TLC: the .cfg files give all constants.   *)
(***************************************************************************)
EXTENDS ConfigReload

=============================================================================
