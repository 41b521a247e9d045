--------------------------------- MODULE Udp ---------------------------------
(***************************************************************************)
(* An echo server for datagrams on one open socket of a W5500:             *)
(* loopback_udps with recvfrom and sendto of socket.c, in block mode.      *)
(*                                                                         *)
(* The receive buffer of the chip is a stream of bytes in which each       *)
(* datagram has a header, its sender and length, in front.  The driver     *)
(* finds the headers by counting: sock_remained_size is what it has not    *)
(* read yet of a datagram larger than the caller's buffer.  Bytes are      *)
(* named by their place in the stream.  A datagram shows in Sn_RX_RSR when *)
(* it is there as a whole, and the socket stays open.  How sizes are read  *)
(* and pointers wrap is in SocketBuffers.                                  *)
(***************************************************************************)
EXTENDS Naturals, Sequences

CONSTANTS Peers, Portless,  \* senders, and those that ask for no answer: port 0
          RxMAX, TxMAX,     \* sizes of the socket's buffers in the chip
          DATA_BUF_SIZE,    \* of loopback_udps's buffer
          PackMAX,          \* bytes of the largest datagram
          Datagrams         \* bound: datagrams that come

ASSUME UdpAssumption ==
  /\ Portless \subseteq Peers
  /\ RxMAX \in Nat /\ TxMAX \in Nat \ {0} /\ DATA_BUF_SIZE \in Nat \ {0}
  /\ PackMAX \in Nat /\ Datagrams \in Nat

HEADER == 8

VARIABLES
  arrived,             \* the datagrams so far: [from, len, pos], pos the header's place
  rxOut,               \* Sn_RX_RD at the last RECV: the chip's
  Sn_RX_RD,            \* the driver's
  used, sending,       \* bytes of the transmit buffer in use; a SEND is under way
  Sn_IR,               \* interrupt register
  sock_remained_size,  \* bytes of a datagram not yet read
  pc,                  \* the driver
  dest, size, sentsize,  \* variables of loopback_udps
  buf,                 \* the place of the bytes in its buffer
  len                  \* pack_len of recvfrom, len of sendto

chip   == <<arrived, rxOut, used, sending, Sn_IR>>
locals == <<dest, size, sentsize, buf, len>>
vars   == <<chip, Sn_RX_RD, sock_remained_size, pc, locals>>

Least(a, b) == IF a < b THEN a ELSE b

Datagram == [from : Peers, len : 0 .. PackMAX, pos : Nat]
Came     == {arrived[i] : i \in DOMAIN arrived}
End(d)   == d.pos + HEADER + d.len

\* Where the next datagram goes, and Sn_RX_RSR.
Sn_RX_WR == IF arrived = <<>> THEN 0 ELSE End(arrived[Len(arrived)])
RSR      == Sn_RX_WR - rxOut

TypeOK ==
  /\ arrived \in Seq(Datagram)
  /\ rxOut \in 0 .. Sn_RX_WR /\ Sn_RX_RD \in rxOut .. Sn_RX_WR
  /\ used \in 0 .. TxMAX /\ sending \in BOOLEAN /\ Sn_IR \subseteq {"SENDOK", "TIMEOUT"}
  /\ sock_remained_size \in 0 .. PackMAX
  /\ pc \in {"idle", "header", "headerRECV", "data", "dataRECV", "sendto", "room", "SEND",
             "sendIR"}
  /\ dest \in Peers /\ size \in 0 .. DATA_BUF_SIZE /\ sentsize \in 0 .. size
  /\ buf \in 0 .. Sn_RX_WR /\ len \in 0 .. size

Init ==
  /\ arrived = <<>> /\ rxOut = 0 /\ Sn_RX_RD = 0
  /\ used = 0 /\ sending = FALSE /\ Sn_IR = {}
  /\ sock_remained_size = 0
  /\ pc = "idle"
  /\ dest \in Peers /\ size = 0 /\ sentsize = 0 /\ buf = 0 /\ len = 0

-----------------------------------------------------------------------------
(* The driver. *)

\* loopback_udps returns.
Return ==
  /\ pc' = "idle"
  /\ size' = 0 /\ sentsize' = 0 /\ len' = 0
  /\ UNCHANGED <<dest, buf>>

\* destip and destport are not initialised: whatever the stack holds.  Sn_RX_RSR,
\* which only grows, is not zero for recvfrom either.
loopback_udps ==
  /\ pc = "idle"
  /\ IF RSR = 0 THEN UNCHANGED <<pc, dest, size>>
     ELSE /\ size' = Least(RSR, DATA_BUF_SIZE)
          /\ dest' \in Peers
          /\ pc' = IF sock_remained_size = 0 THEN "header" ELSE "data"
  /\ UNCHANGED <<chip, Sn_RX_RD, sock_remained_size, sentsize, buf, len>>

\* The header that is read: any, if the bytes are none.
Headers ==
  LET here == {d \in Came : d.pos = Sn_RX_RD} IN IF here = {} THEN Datagram ELSE here

Destination_Kept(h) == dest
Destination(h)      == h.from

ReadHeader ==
  /\ pc = "header"
  /\ \E h \in Headers : dest' = Destination(h) /\ sock_remained_size' = h.len
  /\ Sn_RX_RD' = Sn_RX_RD + HEADER
  /\ pc' = "headerRECV"
  /\ UNCHANGED <<chip, size, sentsize, buf, len>>

\* RECV: the chip takes over the pointer.
HeaderTaken ==
  /\ pc = "headerRECV"
  /\ rxOut' = Sn_RX_RD
  /\ pc' = "data"
  /\ UNCHANGED <<arrived, used, sending, Sn_IR, Sn_RX_RD, sock_remained_size, locals>>

\* As much of the datagram as the caller's buffer takes.
PackLen_Asked == size
PackLen       == Least(size, sock_remained_size)

ReadData ==
  /\ pc = "data"
  /\ len' = PackLen
  /\ buf' = Sn_RX_RD /\ Sn_RX_RD' = Sn_RX_RD + PackLen
  /\ pc' = "dataRECV"
  /\ UNCHANGED <<chip, sock_remained_size, dest, size, sentsize>>

\* recvfrom returns; an empty datagram ends the call of loopback_udps.
Remains_Not == 0
Remains     == sock_remained_size - len

DataTaken ==
  /\ pc = "dataRECV"
  /\ rxOut' = Sn_RX_RD
  /\ sock_remained_size' = Remains
  /\ IF len = 0 THEN Return
     ELSE /\ size' = len /\ sentsize' = 0 /\ len' = 0
          /\ pc' = "sendto"
          /\ UNCHANGED <<dest, buf>>
  /\ UNCHANGED <<arrived, used, sending, Sn_IR, Sn_RX_RD>>

\* sendto: no address or no port, SOCKERR_PORTZERO, and the bytes are given up.
Sendto ==
  /\ pc = "sendto"
  /\ IF dest \in Portless THEN Return
     ELSE /\ len' = Least(size - sentsize, TxMAX)
          /\ pc' = "room"
          /\ UNCHANGED <<dest, size, sentsize, buf>>
  /\ UNCHANGED <<chip, Sn_RX_RD, sock_remained_size>>

\* The loop that waits for room.
HasRoom_Strict == len < TxMAX - used
HasRoom        == len <= TxMAX - used

WaitForRoom ==
  /\ pc = "room"
  /\ pc' = IF HasRoom THEN "SEND" ELSE "room"
  /\ UNCHANGED <<chip, Sn_RX_RD, sock_remained_size, locals>>

\* wiz_send_data, and SEND is given and accepted.
Send ==
  /\ pc = "SEND"
  /\ used' = used + len /\ sending' = TRUE
  /\ pc' = "sendIR"
  /\ UNCHANGED <<arrived, rxOut, Sn_IR, Sn_RX_RD, sock_remained_size, locals>>

\* How much of it has gone.
Gone_Kept == sentsize
Gone      == sentsize + len

\* The loop that waits for the end of it; on a time-out the rest is given up.
Cleared_Not(i) == Sn_IR
Cleared(i)     == Sn_IR \ {i}

SendtoReadsInterrupts ==
  /\ pc = "sendIR"
  /\ \/ /\ "SENDOK" \in Sn_IR /\ Sn_IR' = Cleared("SENDOK")
        /\ IF Gone = size THEN Return
           ELSE /\ sentsize' = Gone /\ len' = 0
                /\ pc' = "sendto"
                /\ UNCHANGED <<dest, size, buf>>
     \/ /\ "SENDOK" \notin Sn_IR /\ "TIMEOUT" \in Sn_IR /\ Sn_IR' = Cleared("TIMEOUT")
        /\ Return
  /\ UNCHANGED <<arrived, rxOut, used, sending, Sn_RX_RD, sock_remained_size>>

Driver ==
  \/ loopback_udps
  \/ ReadHeader \/ HeaderTaken \/ ReadData \/ DataTaken
  \/ Sendto \/ WaitForRoom \/ Send \/ SendtoReadsInterrupts

-----------------------------------------------------------------------------
(* The chip and the peers. *)

\* A datagram comes; one there is no room for is lost, as it would be on the way.
Receive ==
  /\ Len(arrived) < Datagrams
  /\ \E p \in Peers, n \in 0 .. PackMAX :
       /\ RSR + HEADER + n <= RxMAX
       /\ arrived' = Append(arrived, [from |-> p, len |-> n, pos |-> Sn_RX_WR])
  /\ UNCHANGED <<rxOut, used, sending, Sn_IR, Sn_RX_RD, sock_remained_size, pc, locals>>

\* The SEND is done, or nobody has the address; its room is free again.
SendEnds ==
  /\ sending /\ sending' = FALSE /\ used' = 0
  /\ \E i \in {"SENDOK", "TIMEOUT"} : Sn_IR' = Sn_IR \cup {i}
  /\ UNCHANGED <<arrived, rxOut, Sn_RX_RD, sock_remained_size, pc, locals>>

Next == Driver \/ Receive \/ SendEnds

\* The firmware runs on, and the chip ends each SEND.
Spec == Init /\ [][Next]_vars /\ WF_vars(Driver) /\ WF_vars(SendEnds)

-----------------------------------------------------------------------------
\* recvfrom takes bytes for a header only where the chip has put one, also behind
\* datagrams read in parts, or whose answer was given up in the middle.
HeadersAreHeaders == pc = "header" => \E d \in Came : d.pos = Sn_RX_RD

\* What is sent are bytes of one datagram: no header, and no two datagrams in one.
RepliesArePayload ==
  pc = "SEND" =>
    \E d \in Came : d.pos + HEADER <= buf + sentsize /\ buf + sentsize + len <= End(d)

\* It goes to the sender of that datagram, if loopback_udps's buffer takes the whole
\* of it.  For the second part of a larger one recvfrom fills in no address.
ReplyToSender ==
  pc = "SEND" =>
    \E d \in Came : /\ d.pos < buf + sentsize /\ buf + sentsize < End(d)
                    /\ d.len <= DATA_BUF_SIZE => d.from = dest

\* sendto waits for its own SEND: none is under way when it is given, and no interrupt
\* of an earlier one is left.
SendWaitsForOwn == pc = "SEND" => ~sending /\ Sn_IR = {}

\* All before this place has been sent back or given up, and what is being sent.
Handled ==
  CASE pc \in {"idle", "header", "headerRECV", "data"} -> Sn_RX_RD
    [] pc = "dataRECV" -> buf
    [] pc \in {"sendto", "room", "SEND"} -> buf + sentsize
    [] pc = "sendIR" -> buf + sentsize + len
Part ==
  IF pc = "sendIR" THEN <<dest, buf + sentsize, len>> ELSE <<>>

\* From datagram to datagram: they are taken in the order they came, and their bytes
\* sent back in order, none twice, none to a sender without a port.
Echo == INSTANCE DatagramEcho WITH
          came <- arrived, next <- Handled, part <- Part, Limit <- DATA_BUF_SIZE
ImplementsEcho == Echo!Spec

\* Every datagram leaves the receive buffer, whatever becomes of its answer.
DatagramsLeave ==
  \A i \in 1 .. Datagrams : Len(arrived) >= i ~> Len(arrived) >= i /\ rxOut >= End(arrived[i])

\* A datagram that has bytes and a port, and fits in both buffers, is sent back.
DatagramsAnswered ==
  \A i \in 1 .. Datagrams :
    /\ Len(arrived) >= i /\ rxOut <= arrived[i].pos
    /\ arrived[i].len \in 1 .. Least(DATA_BUF_SIZE, TxMAX) /\ arrived[i].from \notin Portless
    ~> Len(arrived) >= i /\ pc = "SEND" /\ buf + sentsize + len = End(arrived[i])

=============================================================================
