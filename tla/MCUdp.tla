-------------------------------- MODULE MCUdp --------------------------------
(***************************************************************************)
(* Udp for TLC.  Datagrams are smaller and larger than the buffer of       *)
(* loopback_udps, and that than one SEND, so that they are read and sent   *)
(* whole and in parts.  The receive buffer holds two of them.              *)
(***************************************************************************)
EXTENDS Udp
=============================================================================
