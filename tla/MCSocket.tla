------------------------------ MODULE MCSocket ------------------------------
(***************************************************************************)
(* Socket for TLC.                                                         *)
(***************************************************************************)
EXTENDS Socket
=============================================================================
