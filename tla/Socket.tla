------------------------------- MODULE Socket -------------------------------
(***************************************************************************)
(* A TCP server on one socket of a W5500: loopback_tcps calls socket,      *)
(* listen, recv, send, disconnect and close of socket.c, which drive the   *)
(* chip by its registers, while the chip and the peer go on by themselves. *)
(*                                                                         *)
(* A step of the firmware is one access to a register that the chip        *)
(* changes.  How the chip changes them is taken from w5500.h: a command is *)
(* accepted when Sn_CR reads zero again, and still being processed then;   *)
(* Sn_SR tells when it is done.  Bytes are counted, not named (SocketBuffers *)
(* has them).  The socket is in block mode, as loopback_tcps opens it.     *)
(***************************************************************************)
EXTENDS Naturals

CONSTANTS RxMAX, TxMAX,    \* sizes of the socket's buffers in the chip
          DATA_BUF_SIZE,   \* of loopback_tcps's buffer
          Data, Conns      \* bounds: bytes of a connection, connections

ASSUME SocketAssumption ==
  /\ RxMAX \in Nat \ {0} /\ TxMAX \in Nat \ {0} /\ DATA_BUF_SIZE \in Nat \ {0}
  /\ Data \in Nat /\ Conns \in Nat

VARIABLES
  Sn_SR, Sn_CR, Sn_IR,  \* status, command and interrupt registers
  doing,                \* the command, or time-out, the chip is busy with
  rsr,                  \* Sn_RX_RSR, bytes received and not given back
  used,                 \* bytes of the transmit buffer in use, TxMAX - Sn_TX_FSR
  sending,              \* a SEND is not completed
  sock_is_sending,      \* the driver's bit for this socket
  pc,                   \* where loopback_tcps is
  after,                \* where it goes when close returns
  size, sentsize, len,  \* its variables and those of recv and send
  seen,                 \* recvsize or freesize
  came, got, put,       \* history: bytes arrived, read by recv, given to SEND
  conns                 \* history: connections so far

chip   == <<Sn_SR, Sn_CR, Sn_IR, doing, rsr, used, sending>>
locals == <<size, sentsize, len, seen>>
stream == <<came, got, put>>
vars   == <<chip, sock_is_sending, pc, after, locals, stream, conns>>

Commands == {"OPEN", "CLOSE", "LISTEN", "CONNECT", "DISCON", "SEND", "RECV"}
Open     == {"SOCK_ESTABLISHED", "SOCK_CLOSE_WAIT"}
Least(a, b) == IF a < b THEN a ELSE b

\* With what SocketClient adds.
TypeOK ==
  /\ Sn_SR \in {"SOCK_CLOSED", "SOCK_INIT", "SOCK_LISTEN", "SOCK_SYNRECV", "SOCK_SYNSENT",
                "SOCK_ESTABLISHED", "SOCK_CLOSE_WAIT", "SOCK_LAST_ACK"}
  /\ Sn_CR \in Commands \cup {"none"}
  /\ Sn_IR \subseteq {"CON", "SENDOK", "TIMEOUT"}
  /\ doing \in {"none", "OPEN", "CLOSE", "LISTEN", "CONNECT", "DISCON", "TCPTO"}
  /\ rsr \in 0 .. RxMAX /\ used \in 0 .. TxMAX
  /\ sending \in BOOLEAN /\ sock_is_sending \in BOOLEAN
  /\ pc \in Commands \cup
            {"idle", "con", "rsr", "recvRSR", "recvSR", "recvData", "sendSR",
             "sendIR", "sendFSR", "sendSR2", "sendData", "disconnect", "disconSR",
             "disconIR", "listen", "listenSR", "close", "closeSR", "openSR",
             "connect", "connSR", "connIR", "connSR2"}
  /\ after \in {"idle", "close", "OPEN", "reopen"}
  /\ size \in Nat /\ sentsize \in 0 .. size /\ len \in Nat /\ seen \in Nat
  /\ came \in Nat /\ got \in Nat /\ put \in Nat /\ conns \in Nat

Init ==
  /\ Sn_SR = "SOCK_CLOSED" /\ Sn_CR = "none" /\ Sn_IR = {} /\ doing = "none"
  /\ rsr = 0 /\ used = 0 /\ sending = FALSE
  /\ sock_is_sending = FALSE
  /\ pc = "idle" /\ after = "idle"
  /\ size = 0 /\ sentsize = 0 /\ len = 0 /\ seen = 0
  /\ came = 0 /\ got = 0 /\ put = 0 /\ conns = 0

-----------------------------------------------------------------------------
(* The firmware.  pc is the command whose acceptance is awaited,           *)
(* while(getSn_CR(sn)), or the next register to be read.                   *)

\* setSn_CR(sn, c)
Command(c) ==
  /\ Sn_CR' = c /\ pc' = c
  /\ UNCHANGED <<Sn_SR, Sn_IR, doing, rsr, used, sending>>

\* loopback_tcps returns, and its variables are gone.
Return ==
  /\ pc' = "idle"
  /\ size' = 0 /\ sentsize' = 0 /\ len' = 0 /\ seen' = 0

\* close(sn), and where its caller goes then.
Close(caller) == pc' = "close" /\ after' = caller

GoTo(label) == pc' = label /\ UNCHANGED after

\* The switch of loopback_tcps; in the other states it does nothing.
loopback_tcps ==
  /\ pc = "idle"
  /\ \/ Sn_SR = "SOCK_ESTABLISHED" /\ GoTo("con")
     \/ Sn_SR = "SOCK_CLOSE_WAIT" /\ GoTo("disconnect")
     \/ Sn_SR = "SOCK_INIT" /\ GoTo("listen")
     \/ Sn_SR = "SOCK_CLOSED" /\ Close("OPEN")
     \/ Sn_SR \in {"SOCK_LISTEN", "SOCK_SYNRECV", "SOCK_LAST_ACK"} /\ GoTo("idle")
  /\ UNCHANGED <<chip, sock_is_sending, locals, stream, conns>>

\* It acknowledges the connection, and asks for the size of what came.
ClearCon ==
  /\ pc = "con"
  /\ Sn_IR' = Sn_IR \ {"CON"}
  /\ pc' = "rsr"
  /\ UNCHANGED <<Sn_SR, Sn_CR, doing, rsr, used, sending, sock_is_sending, after, locals,
                 stream, conns>>

ReadSize ==
  /\ pc = "rsr"
  /\ IF rsr = 0 THEN Return
     ELSE /\ size' = Least(rsr, DATA_BUF_SIZE)
          /\ pc' = "recvRSR"
          /\ UNCHANGED <<sentsize, len, seen>>
  /\ UNCHANGED <<chip, sock_is_sending, after, stream, conns>>

\* recv: the size first, then the status.  loopback_tcps calls it only when
\* something is there, so that its loop is left at once.
RecvReadsSize ==
  /\ pc = "recvRSR"
  /\ seen' = rsr
  /\ pc' = "recvSR"
  /\ UNCHANGED <<chip, sock_is_sending, after, size, sentsize, len, stream, conns>>

RecvReadsStatus ==
  /\ pc = "recvSR"
  /\ IF Sn_SR \in Open THEN GoTo("recvData") ELSE Close("idle")
  /\ UNCHANGED <<chip, sock_is_sending, locals, stream, conns>>

\* wiz_recv_data, and the space is given back.  How much is read: no more than
\* is there and no more than is asked for.
RecvLen_All == seen
RecvLen == Least(Least(size, RxMAX), seen)

RecvData ==
  /\ pc = "recvData"
  /\ len' = RecvLen
  /\ got' = got + RecvLen
  /\ Command("RECV")
  /\ UNCHANGED <<sock_is_sending, after, size, sentsize, seen, came, put, conns>>

\* recv returns the bytes, and loopback_tcps begins to send size of them.
RecvReturns ==
  /\ pc = "RECV" /\ Sn_CR = "none"
  /\ sentsize' = 0
  /\ pc' = "sendSR"
  /\ UNCHANGED <<chip, sock_is_sending, after, size, len, seen, stream, conns>>

\* May it send in this state?
CanSend == Sn_SR \in Open

\* send: the status, and whether the SEND before is completed.
SendReadsStatus ==
  /\ pc = "sendSR"
  /\ IF ~CanSend THEN Close("idle")
     ELSE GoTo(IF sock_is_sending THEN "sendIR" ELSE "sendFSR")
  /\ UNCHANGED <<chip, sock_is_sending, locals, stream, conns>>

\* On SOCK_BUSY loopback_tcps calls it again; on an error it closes once more.
Completed == "SENDOK" \in Sn_IR
SendReadsInterrupts ==
  /\ pc = "sendIR"
  /\ CASE Completed -> /\ Sn_IR' = Sn_IR \ {"SENDOK"}
                       /\ sock_is_sending' = FALSE
                       /\ GoTo("sendFSR")
       [] ~Completed /\ "TIMEOUT" \in Sn_IR ->
            Close("close") /\ UNCHANGED <<Sn_IR, sock_is_sending>>
       [] OTHER -> GoTo("sendSR") /\ UNCHANGED <<Sn_IR, sock_is_sending>>
  /\ UNCHANGED <<Sn_SR, Sn_CR, doing, rsr, used, sending, locals, stream, conns>>

\* The loop that waits for room.
SendReadsFree ==
  /\ pc = "sendFSR"
  /\ len' = Least(size - sentsize, TxMAX)
  /\ seen' = TxMAX - used
  /\ pc' = "sendSR2"
  /\ UNCHANGED <<chip, sock_is_sending, after, size, sentsize, stream, conns>>

HasRoom_Any == TRUE
HasRoom == len <= seen

SendReadsStatusAgain ==
  /\ pc = "sendSR2"
  /\ IF ~CanSend THEN Close("close")
     ELSE GoTo(IF HasRoom THEN "sendData" ELSE "sendFSR")
  /\ UNCHANGED <<chip, sock_is_sending, locals, stream, conns>>

\* wiz_send_data, and the chip is told to send.
SendData ==
  /\ pc = "sendData"
  /\ put' = put + len
  /\ Command("SEND")
  /\ UNCHANGED <<sock_is_sending, after, locals, came, got, conns>>

SendReturns ==
  /\ pc = "SEND" /\ Sn_CR = "none"
  /\ sock_is_sending' = TRUE
  /\ IF sentsize + len = size THEN Return
     ELSE sentsize' = sentsize + len /\ pc' = "sendSR" /\ UNCHANGED <<size, len, seen>>
  /\ UNCHANGED <<chip, after, stream, conns>>

\* disconnect, close and socket forget that a SEND is not completed.
Forget_Not == UNCHANGED sock_is_sending
Forget == sock_is_sending' = FALSE

\* disconnect
Disconnect ==
  /\ pc = "disconnect"
  /\ Command("DISCON")
  /\ UNCHANGED <<sock_is_sending, after, locals, stream, conns>>

DisconnectAccepted ==
  /\ pc = "DISCON" /\ Sn_CR = "none"
  /\ Forget
  /\ pc' = "disconSR"
  /\ UNCHANGED <<chip, after, locals, stream, conns>>

DisconnectReadsStatus ==
  /\ pc = "disconSR"
  /\ IF Sn_SR = "SOCK_CLOSED" THEN Return ELSE pc' = "disconIR" /\ UNCHANGED locals
  /\ UNCHANGED <<chip, sock_is_sending, after, stream, conns>>

DisconnectReadsInterrupts ==
  /\ pc = "disconIR"
  /\ IF "TIMEOUT" \in Sn_IR THEN Close("idle") ELSE GoTo("disconSR")
  /\ UNCHANGED <<chip, sock_is_sending, locals, stream, conns>>

\* listen; only a command leaves SOCK_INIT, so CHECK_SOCKINIT passes.
Listen ==
  /\ pc = "listen"
  /\ Command("LISTEN")
  /\ UNCHANGED <<sock_is_sending, after, locals, stream, conns>>

ListenAccepted ==
  /\ pc = "LISTEN" /\ Sn_CR = "none"
  /\ pc' = "listenSR"
  /\ UNCHANGED <<chip, sock_is_sending, after, locals, stream, conns>>

\* Its loop reads Sn_CR where Sn_SR is meant: zero, which is SOCK_CLOSED.
ListenReadsStatus ==
  /\ pc = "listenSR"
  /\ \/ Sn_SR = "SOCK_LISTEN" /\ GoTo("idle")
     \/ Sn_SR # "SOCK_LISTEN" /\ Sn_CR = "none" /\ Close("idle")
  /\ UNCHANGED <<chip, sock_is_sending, locals, stream, conns>>

\* close
CloseSocket ==
  /\ pc = "close"
  /\ Command("CLOSE")
  /\ UNCHANGED <<sock_is_sending, after, locals, stream, conns>>

ClearInterrupts_None == UNCHANGED Sn_IR
ClearInterrupts == Sn_IR' = {}

CloseAccepted ==
  /\ pc = "CLOSE" /\ Sn_CR = "none"
  /\ ClearInterrupts
  /\ Forget
  /\ pc' = "closeSR"
  /\ UNCHANGED <<Sn_SR, Sn_CR, doing, rsr, used, sending, after, locals, stream, conns>>

\* Its loop ends when the chip has closed the socket; socket goes on to open it.
CloseReadsStatus ==
  /\ pc = "closeSR" /\ Sn_SR = "SOCK_CLOSED" /\ after # "reopen"
  /\ after' = "idle"
  /\ CASE after = "idle" -> Return /\ UNCHANGED Sn_CR
       [] after = "close" -> pc' = "close" /\ UNCHANGED <<Sn_CR, locals>>
       [] after = "OPEN" -> pc' = "OPEN" /\ Sn_CR' = "OPEN" /\ UNCHANGED locals
  /\ UNCHANGED <<Sn_SR, Sn_IR, doing, rsr, used, sending, sock_is_sending, stream, conns>>

SocketAccepted ==
  /\ pc = "OPEN" /\ Sn_CR = "none"
  /\ Forget
  /\ pc' = "openSR"
  /\ UNCHANGED <<chip, after, locals, stream, conns>>

SocketReadsStatus ==
  /\ pc = "openSR" /\ Sn_SR # "SOCK_CLOSED"
  /\ Return
  /\ UNCHANGED <<chip, sock_is_sending, after, stream, conns>>

Firmware ==
  \/ loopback_tcps \/ ClearCon \/ ReadSize
  \/ RecvReadsSize \/ RecvReadsStatus \/ RecvData \/ RecvReturns
  \/ SendReadsStatus \/ SendReadsInterrupts \/ SendReadsFree \/ SendReadsStatusAgain
  \/ SendData \/ SendReturns
  \/ Disconnect \/ DisconnectAccepted \/ DisconnectReadsStatus \/ DisconnectReadsInterrupts
  \/ Listen \/ ListenAccepted \/ ListenReadsStatus
  \/ CloseSocket \/ CloseAccepted \/ CloseReadsStatus
  \/ SocketAccepted \/ SocketReadsStatus

-----------------------------------------------------------------------------
(* The chip and the peer. *)

\* A command that is accepted moves the pointers at once; what it does to the
\* state of the socket comes later.
Accept ==
  /\ Sn_CR # "none" /\ Sn_CR' = "none"
  /\ \/ Sn_CR = "RECV" /\ rsr' = rsr - len /\ UNCHANGED <<doing, used, sending>>
     \/ /\ Sn_CR = "SEND" /\ Sn_SR \in Open
        /\ used' = used + len /\ sending' = TRUE
        /\ UNCHANGED <<doing, rsr>>
     \/ /\ Sn_CR = "SEND" /\ Sn_SR \notin Open
        /\ UNCHANGED <<doing, rsr, used, sending>>
     \/ /\ Sn_CR \notin {"RECV", "SEND"}
        /\ doing' = Sn_CR
        /\ UNCHANGED <<rsr, used, sending>>
  /\ UNCHANGED <<Sn_SR, Sn_IR, sock_is_sending, pc, after, locals, stream, conns>>

Become(status) == Sn_SR' = status /\ UNCHANGED <<rsr, used, sending, stream>>

Vanish ==
  /\ Sn_SR' = "SOCK_CLOSED" /\ sending' = FALSE
  /\ UNCHANGED <<rsr, used, stream>>

Execute ==
  /\ doing # "none" /\ doing' = "none"
  /\ \/ doing \in {"CLOSE", "TCPTO"} /\ Vanish
     \/ /\ doing = "OPEN" /\ Sn_SR' = "SOCK_INIT"
        /\ rsr' = 0 /\ used' = 0 /\ sending' = FALSE
        /\ came' = 0 /\ got' = 0 /\ put' = 0
     \/ doing = "LISTEN" /\ Become("SOCK_LISTEN")
     \/ doing = "DISCON" /\ Sn_SR = "SOCK_CLOSE_WAIT" /\ Become("SOCK_LAST_ACK")
     \/ doing = "DISCON" /\ Sn_SR = "SOCK_CLOSED" /\ Vanish
  /\ UNCHANGED <<Sn_CR, Sn_IR, sock_is_sending, pc, after, locals, conns>>

\* The connection goes on, a CLOSE accepted or not, until it is given up or closed.
Alive == doing # "TCPTO"

\* A peer asks for a connection, and completes it.
Syn ==
  /\ Alive /\ Sn_SR = "SOCK_LISTEN" /\ conns < Conns
  /\ Sn_SR' = "SOCK_SYNRECV" /\ conns' = conns + 1
  /\ UNCHANGED <<Sn_CR, Sn_IR, doing, rsr, used, sending, sock_is_sending, pc, after, locals,
                 stream>>

Established ==
  /\ Alive /\ Sn_SR = "SOCK_SYNRECV"
  /\ Sn_SR' = "SOCK_ESTABLISHED" /\ Sn_IR' = Sn_IR \cup {"CON"}
  /\ UNCHANGED <<Sn_CR, doing, rsr, used, sending, sock_is_sending, pc, after, locals, stream,
                 conns>>

\* A byte comes, or the peer's FIN after the last.
Receive ==
  /\ Alive /\ Sn_SR = "SOCK_ESTABLISHED" /\ rsr < RxMAX /\ came < Data
  /\ rsr' = rsr + 1 /\ came' = came + 1
  /\ UNCHANGED <<Sn_SR, Sn_CR, Sn_IR, doing, used, sending, sock_is_sending, pc, after, locals,
                 got, put, conns>>

Fin ==
  /\ Alive /\ Sn_SR = "SOCK_ESTABLISHED"
  /\ Sn_SR' = "SOCK_CLOSE_WAIT"
  /\ UNCHANGED <<Sn_CR, Sn_IR, doing, rsr, used, sending, sock_is_sending, pc, after, locals,
                 stream, conns>>

\* The SEND is completed; the peer acknowledges a byte.
SendOk ==
  /\ Alive /\ sending
  /\ sending' = FALSE /\ Sn_IR' = Sn_IR \cup {"SENDOK"}
  /\ UNCHANGED <<Sn_SR, Sn_CR, doing, rsr, used, sock_is_sending, pc, after, locals, stream,
                 conns>>

Ack ==
  /\ Alive /\ Sn_SR \in Open /\ used > 0
  /\ used' = used - 1
  /\ UNCHANGED <<Sn_SR, Sn_CR, Sn_IR, doing, rsr, sending, sock_is_sending, pc, after, locals,
                 stream, conns>>

\* The peer acknowledges our FIN, or resets the connection.
Gone ==
  /\ Alive /\ Sn_SR \in Open \cup {"SOCK_SYNRECV", "SOCK_LAST_ACK"}
  /\ Vanish
  /\ UNCHANGED <<Sn_CR, Sn_IR, doing, sock_is_sending, pc, after, locals, conns>>

\* The retransmissions are used up: the interrupt first, then the socket closes.
Timeout ==
  /\ Alive
  /\ \/ Sn_SR \in {"SOCK_SYNRECV", "SOCK_LAST_ACK"}
     \/ Sn_SR \in Open /\ (sending \/ used > 0)
  /\ Sn_IR' = Sn_IR \cup {"TIMEOUT"} /\ doing' = "TCPTO"
  /\ UNCHANGED <<Sn_SR, Sn_CR, rsr, used, sending, sock_is_sending, pc, after, locals, stream,
                 conns>>

Next ==
  \/ Firmware
  \/ Accept \/ Execute
  \/ Syn \/ Established \/ Receive \/ Fin \/ SendOk \/ Ack \/ Gone \/ Timeout

\* The firmware runs, the chip processes commands, and retransmission ends.  The
\* peer need not end a connection.
Fairness ==
  /\ WF_vars(Firmware) /\ WF_vars(Accept) /\ WF_vars(Execute)
  /\ WF_vars(SendOk \/ Timeout) /\ WF_vars(Ack \/ Timeout)
  /\ WF_vars((Gone /\ Sn_SR \notin Open) \/ Timeout)

Spec == Init /\ [][Next]_vars /\ Fairness

-----------------------------------------------------------------------------
\* A SEND is given to the chip only when the one before is completed and its
\* SENDOK is taken: send waits for it, whatever the connection before left.
OneSendAtATime ==
  [][pc = "sendData" /\ pc' = "SEND" /\ Sn_SR \in Open =>
       ~sending /\ "SENDOK" \notin Sn_IR]_vars

\* While the connection is open, the bytes read and not yet given back are those
\* loopback_tcps still has to send, none when it returns: partial sends and the
\* busy answers of send lose and repeat nothing.
OwedIsLeft ==
  Sn_SR \in Open =>
    got - put = CASE pc \in {"RECV", "sendSR", "sendIR", "sendFSR", "sendSR2", "sendData"} ->
                       size - sentsize
                  [] pc = "SEND" -> size - (sentsize + len)
                  [] pc \in {"idle", "con", "rsr", "recvRSR", "recvSR", "recvData"} -> 0
                  [] OTHER -> got - put

\* send can tell: while it waits for a SEND, that is under way, or an interrupt or
\* the status of the socket says how it ended.
SendIsAnswered ==
  sock_is_sending => sending \/ Sn_IR \cap {"SENDOK", "TIMEOUT"} # {} \/ Sn_SR \notin Open

\* listen gives up only a socket that is closed, as SOCKERR_SOCKCLOSED says.  TLC
\* finds it closing one the chip has yet to make listen, or has connected already.
ListenClosesOnlyClosed ==
  [][pc = "listenSR" /\ pc' = "close" => Sn_SR = "SOCK_CLOSED"]_vars

=============================================================================
