--------------------------- MODULE MCSocketClient ---------------------------
(***************************************************************************)
(* SocketClient for TLC, with the buffers of Socket's instance.  The       *)
(* second connection is made with what the first left in the registers.    *)
(***************************************************************************)
EXTENDS SocketClient
=============================================================================
