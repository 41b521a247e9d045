-------------------------- MODULE MCSocketBuffers ---------------------------
(***************************************************************************)
(* SocketBuffers for TLC.  Bytes have four values, so that sizes of four   *)
(* and more have two significant bytes, and pointers that start at 13 wrap *)
(* at 16, in the middle of a burst.                                        *)
(***************************************************************************)
EXTENDS SocketBuffers
=============================================================================
