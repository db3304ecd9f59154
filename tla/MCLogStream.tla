----------------------------- MODULE MCLogStream -----------------------------
(***************************************************************************)
(* Instances of LogStream for TLC.                                         *)
(***************************************************************************)
EXTENDS LogStream

=============================================================================
