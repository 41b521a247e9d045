---------------------------- MODULE SocketBuffers ----------------------------
(***************************************************************************)
(* The two ring buffers of a socket of a W5500, and the driver that copies *)
(* bytes out of one and into the other for loopback_tcps, while the        *)
(* connection is open.                                                     *)
(*                                                                         *)
(* The chip counts with 16-bit pointers that run on and wrap at Word; the  *)
(* driver reads a size in single bytes, the high one first, twice over,    *)
(* while the chip changes it.  A step of the driver is one access to the   *)
(* chip: a byte of a size, a burst, or a command and its acceptance.  The  *)
(* wait for SENDOK (see Socket) is left out, so send is called earlier     *)
(* here than it may be.                                                    *)
(***************************************************************************)
EXTENDS Integers

CONSTANTS Byte,           \* values of a byte: a pointer has two
          RxMAX, TxMAX,   \* sizes of the socket's buffers in the chip
          DATA_BUF_SIZE,  \* of loopback_tcps's buffer
          Start,          \* where the pointers start
          Total           \* bound: bytes the peer sends

Word == Byte * Byte

ASSUME BuffersAssumption ==
  /\ Byte \in Nat \ {0}
  /\ RxMAX \in 1 .. Word - 1 /\ Word % RxMAX = 0
  /\ TxMAX \in 1 .. Word - 1 /\ Word % TxMAX = 0
  /\ DATA_BUF_SIZE \in Nat \ {0}
  /\ Start \in 0 .. Word - 1
  /\ Total \in Nat

VARIABLES
  rxmem, Sn_RX_WR, Sn_RX_RD,  \* receive buffer and its pointers
  rxOut,                      \* Sn_RX_RD at the last RECV: the chip's
  txmem, Sn_TX_WR, Sn_TX_RD,  \* transmit buffer and its pointers
  txEnd,                      \* Sn_TX_WR at the last SEND: the chip's
  call,                       \* loopback_tcps itself, or the call it is in
  pc, val, val1,              \* the driver, and its two readings of a size
  buf, size, sentsize, len,   \* variables of loopback_tcps, recv and send
  came, echoed, last          \* history: bytes in and out, and the last one out

rx     == <<rxmem, Sn_RX_WR, Sn_RX_RD, rxOut>>
tx     == <<txmem, Sn_TX_WR, Sn_TX_RD, txEnd>>
driver == <<call, pc, val, val1, buf, size, sentsize, len>>
peer   == <<came, echoed, last>>
vars   == <<rx, tx, driver, peer>>

Least(a, b) == IF a < b THEN a ELSE b

\* Arithmetic of pointers.
Add_Narrow(p, n) == (p + n) % (Word - 1)
Add_Wide(p, n)   == p + n
Add(p, n)        == (p + n) % Word
Minus(p, q)      == (p - q) % Word

\* The sizes the chip shows: bytes received and not given back, and room to send.
RSR == Minus(Sn_RX_WR, rxOut)
FSR == TxMAX - Minus(txEnd, Sn_TX_RD)

TypeOK ==
  /\ rxmem \in [0 .. RxMAX - 1 -> Nat] /\ txmem \in [0 .. TxMAX - 1 -> Nat]
  /\ {Sn_RX_WR, Sn_RX_RD, rxOut, Sn_TX_WR, Sn_TX_RD, txEnd} \subseteq 0 .. Word - 1
  /\ call \in {"loopback", "recv", "send"}
  /\ pc \in {"high1", "low1", "high2", "low2", "compare", "data", "command"}
  /\ val \in Nat /\ val1 \in Nat
  /\ buf \in [0 .. DATA_BUF_SIZE - 1 -> Nat]
  /\ size \in 0 .. DATA_BUF_SIZE /\ sentsize \in 0 .. size /\ len \in 0 .. size
  /\ came \in Nat /\ echoed \in Nat /\ last \in Nat

Init ==
  /\ rxmem = [a \in 0 .. RxMAX - 1 |-> 0] /\ txmem = [a \in 0 .. TxMAX - 1 |-> 0]
  /\ Sn_RX_WR = Start /\ Sn_RX_RD = Start /\ rxOut = Start
  /\ Sn_TX_WR = Start /\ Sn_TX_RD = Start /\ txEnd = Start
  /\ call = "loopback" /\ pc = "high1" /\ val = 0 /\ val1 = 0
  /\ buf = [i \in 0 .. DATA_BUF_SIZE - 1 |-> 0]
  /\ size = 0 /\ sentsize = 0 /\ len = 0
  /\ came = 0 /\ echoed = 0 /\ last = 0

-----------------------------------------------------------------------------
(* getSn_RX_RSR and getSn_TX_FSR. *)

Size == IF call = "send" THEN FSR ELSE RSR

\* A call of one of them begins.
Read == pc' = "high1" /\ val' = 0 /\ val1' = 0

ReadHigh1 ==
  /\ pc = "high1"
  /\ val1' = Size \div Byte
  /\ pc' = "low1"
  /\ UNCHANGED <<rx, tx, call, val, buf, size, sentsize, len, peer>>

\* The second reading is left out when the first is zero.
ReadLow1 ==
  /\ pc = "low1"
  /\ val1' = (val1 * Byte) + (Size % Byte)
  /\ pc' = IF val1' = 0 THEN "compare" ELSE "high2"
  /\ UNCHANGED <<rx, tx, call, val, buf, size, sentsize, len, peer>>

ReadHigh2 ==
  /\ pc = "high2"
  /\ val' = Size \div Byte
  /\ pc' = "low2"
  /\ UNCHANGED <<rx, tx, call, val1, buf, size, sentsize, len, peer>>

ReadLow2 ==
  /\ pc = "low2"
  /\ val' = (val * Byte) + (Size % Byte)
  /\ pc' = "compare"
  /\ UNCHANGED <<rx, tx, call, val1, buf, size, sentsize, len, peer>>

\* Readings that differ are thrown away; val is kept, which matters when the next
\* first reading is zero.
ReadAgain ==
  /\ pc = "compare" /\ val # val1
  /\ pc' = "high1"
  /\ UNCHANGED <<rx, tx, call, val, val1, buf, size, sentsize, len, peer>>

-----------------------------------------------------------------------------
(* loopback_tcps, recv and send. *)

Returned == pc = "compare" /\ val = val1

\* loopback_tcps begins to send the rest, from sentsize on.
SendRest(sent) ==
  /\ call' = "send" /\ sentsize' = sent /\ len' = Least(size - sent, TxMAX)
  /\ Read

LoopbackSize ==
  /\ Returned /\ call = "loopback"
  /\ IF val = 0 THEN UNCHANGED <<call, size>>
     ELSE call' = "recv" /\ size' = Least(val, DATA_BUF_SIZE)
  /\ Read
  /\ UNCHANGED <<rx, tx, buf, sentsize, len, peer>>

RecvSize ==
  /\ Returned /\ call = "recv"
  /\ IF val = 0 THEN Read /\ UNCHANGED len
     ELSE /\ len' = Least(Least(size, RxMAX), val)
          /\ pc' = "data" /\ UNCHANGED <<val, val1>>
  /\ UNCHANGED <<rx, tx, call, buf, size, sentsize, peer>>

\* wiz_recv_data: a burst from Sn_RX_RD, which then moves on.
RecvData ==
  /\ pc = "data" /\ call = "recv"
  /\ buf' = [i \in 0 .. DATA_BUF_SIZE - 1 |->
               IF i < len THEN rxmem[Add(Sn_RX_RD, i) % RxMAX] ELSE buf[i]]
  /\ Sn_RX_RD' = Add(Sn_RX_RD, len)
  /\ pc' = "command"
  /\ UNCHANGED <<rxmem, Sn_RX_WR, rxOut, tx, call, val, val1, size, sentsize, len, peer>>

\* RECV: the chip takes over the pointer.
Recv ==
  /\ pc = "command" /\ call = "recv"
  /\ rxOut' = Sn_RX_RD
  /\ SendRest(0)
  /\ UNCHANGED <<rxmem, Sn_RX_WR, Sn_RX_RD, tx, buf, size, peer>>

\* The loop that waits for room.
HasRoom_Any    == TRUE
HasRoom_Strict == len < val
HasRoom        == len <= val

SendSize ==
  /\ Returned /\ call = "send"
  /\ IF HasRoom THEN pc' = "data" /\ UNCHANGED <<val, val1>> ELSE Read
  /\ UNCHANGED <<rx, tx, call, buf, size, sentsize, len, peer>>

\* wiz_send_data: a burst to Sn_TX_WR, which then moves on.
Offset(a) == (a - Sn_TX_WR) % TxMAX

SendData ==
  /\ pc = "data" /\ call = "send"
  /\ txmem' = [a \in 0 .. TxMAX - 1 |->
                 IF Offset(a) < len THEN buf[sentsize + Offset(a)] ELSE txmem[a]]
  /\ Sn_TX_WR' = Add(Sn_TX_WR, len)
  /\ pc' = "command"
  /\ UNCHANGED <<rx, Sn_TX_RD, txEnd, call, val, val1, buf, size, sentsize, len, peer>>

\* SEND: the chip may send up to the pointer.
Send ==
  /\ pc = "command" /\ call = "send"
  /\ txEnd' = Sn_TX_WR
  /\ IF sentsize + len # size THEN SendRest(sentsize + len) /\ UNCHANGED size
     ELSE /\ call' = "loopback" /\ size' = 0 /\ sentsize' = 0 /\ len' = 0
          /\ Read
  /\ UNCHANGED <<rx, txmem, Sn_TX_WR, Sn_TX_RD, buf, peer>>

Driver ==
  \/ ReadHigh1 \/ ReadLow1 \/ ReadHigh2 \/ ReadLow2 \/ ReadAgain
  \/ LoopbackSize \/ RecvSize \/ RecvData \/ Recv
  \/ SendSize \/ SendData \/ Send

-----------------------------------------------------------------------------
(* The chip and the peer. *)

\* The peer's next byte comes.
Receive ==
  /\ RSR < RxMAX /\ came < Total
  /\ rxmem' = [rxmem EXCEPT ![Sn_RX_WR % RxMAX] = came + 1]
  /\ Sn_RX_WR' = Add(Sn_RX_WR, 1)
  /\ came' = came + 1
  /\ UNCHANGED <<Sn_RX_RD, rxOut, tx, driver, echoed, last>>

\* A byte is sent and acknowledged.
Transmit ==
  /\ Sn_TX_RD # txEnd
  /\ last' = txmem[Sn_TX_RD % TxMAX] /\ echoed' = echoed + 1
  /\ Sn_TX_RD' = Add(Sn_TX_RD, 1)
  /\ UNCHANGED <<rx, txmem, Sn_TX_WR, txEnd, driver, came>>

Next == Driver \/ Receive \/ Transmit

\* The firmware runs on, and the peer acknowledges what it is sent.
Spec == Init /\ [][Next]_vars /\ WF_vars(Driver) /\ WF_vars(Transmit)

-----------------------------------------------------------------------------
\* A size read in four bytes while the chip changes it is never too large: recv
\* reads only bytes that have come and fit into the caller's buffer, send writes
\* only where the chip is done with, and the caller's loop stays in its buffer.
InBounds ==
  pc = "data" =>
    /\ call = "recv" => len \in 1 .. RSR /\ len <= DATA_BUF_SIZE
    /\ call = "send" => len \in 1 .. FSR /\ sentsize + len <= size

\* The peer gets back what it sent, each byte once and in order, across the wraps
\* of both rings and of the pointers.
Pipe == INSTANCE EchoPipe WITH in <- came, out <- echoed, byte <- last
ImplementsPipe == Pipe!Spec

\* Every byte that came is echoed: neither the loops that read a size nor those
\* that wait for data or room go on for ever.
EchoArrives == \A n \in 1 .. Total : came >= n ~> echoed >= n

=============================================================================
