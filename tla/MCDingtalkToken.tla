--------------------------- MODULE MCDingtalkToken ---------------------------
(***************************************************************************)
(* Instances of DingtalkToken for TLC.                                     *)
(***************************************************************************)
EXTENDS DingtalkToken

=============================================================================
