---------------------------- MODULE SocketClient ----------------------------
(***************************************************************************)
(* A TCP client on the socket of Socket: loopback_tcpc, which differs from *)
(* loopback_tcps in how a connection is made.  It closes the socket once   *)
(* more before it opens it, and connect takes the place of listen; what    *)
(* comes then is sent back in the same way.                                *)
(*                                                                         *)
(* loopback.c leaves it to the caller which of the two is called for a     *)
(* socket, and each call starts from nothing but the status: here each     *)
(* call is of either one.  A server alone, and a client alone, are what is *)
(* left when only one is ever called.                                      *)
(***************************************************************************)
EXTENDS Socket

-----------------------------------------------------------------------------
(* The firmware. *)

\* The switch of loopback_tcpc; in the other states it does nothing.
loopback_tcpc ==
  /\ pc = "idle"
  /\ \/ Sn_SR = "SOCK_ESTABLISHED" /\ GoTo("con")
     \/ Sn_SR = "SOCK_CLOSE_WAIT" /\ GoTo("disconnect")
     \/ Sn_SR = "SOCK_INIT" /\ GoTo("connect")
     \/ Sn_SR = "SOCK_CLOSED" /\ Close("reopen")
     \/ /\ Sn_SR \in {"SOCK_LISTEN", "SOCK_SYNRECV", "SOCK_SYNSENT", "SOCK_LAST_ACK"}
        /\ GoTo("idle")
  /\ UNCHANGED <<chip, sock_is_sending, locals, stream, conns>>

\* Its own close, then that of socket.
CloseBeforeSocket ==
  /\ pc = "closeSR" /\ after = "reopen" /\ Sn_SR = "SOCK_CLOSED"
  /\ Close("OPEN")
  /\ UNCHANGED <<chip, sock_is_sending, locals, stream, conns>>

\* connect; only a command leaves SOCK_INIT, so CHECK_SOCKINIT passes.
Connect ==
  /\ pc = "connect"
  /\ Command("CONNECT")
  /\ UNCHANGED <<sock_is_sending, after, locals, stream, conns>>

ConnectAccepted ==
  /\ pc = "CONNECT" /\ Sn_CR = "none"
  /\ pc' = "connSR"
  /\ UNCHANGED <<chip, sock_is_sending, after, locals, stream, conns>>

\* The loop: connected, timed out, or closed?
Connected == Sn_SR = "SOCK_ESTABLISHED"

ConnectReadsStatus ==
  /\ pc = "connSR"
  /\ IF Connected THEN Return ELSE pc' = "connIR" /\ UNCHANGED locals
  /\ UNCHANGED <<chip, sock_is_sending, after, stream, conns>>

ConnectReadsInterrupts ==
  /\ pc = "connIR"
  /\ IF "TIMEOUT" \in Sn_IR THEN Return /\ Sn_IR' = Sn_IR \ {"TIMEOUT"}
     ELSE pc' = "connSR2" /\ UNCHANGED <<locals, Sn_IR>>
  /\ UNCHANGED <<Sn_SR, Sn_CR, doing, rsr, used, sending, sock_is_sending, after, stream, conns>>

GivesUp_Never == FALSE
GivesUp == Sn_SR = "SOCK_CLOSED"

ConnectReadsStatusAgain ==
  /\ pc = "connSR2"
  /\ IF GivesUp THEN Return ELSE pc' = "connSR" /\ UNCHANGED locals
  /\ UNCHANGED <<chip, sock_is_sending, after, stream, conns>>

ClientFirmware ==
  \/ loopback_tcpc \/ CloseBeforeSocket
  \/ Connect \/ ConnectAccepted
  \/ ConnectReadsStatus \/ ConnectReadsInterrupts \/ ConnectReadsStatusAgain

-----------------------------------------------------------------------------
(* The chip and the peer. *)

\* The chip sends the request for a connection.
SynSent ==
  /\ doing = "CONNECT" /\ doing' = "none"
  /\ Become("SOCK_SYNSENT")
  /\ UNCHANGED <<Sn_CR, Sn_IR, sock_is_sending, pc, after, locals, conns>>

\* The peer accepts it, refuses it, or says nothing until the retries are used up.
SynAck ==
  /\ Alive /\ Sn_SR = "SOCK_SYNSENT" /\ conns < Conns
  /\ Sn_SR' = "SOCK_ESTABLISHED" /\ Sn_IR' = Sn_IR \cup {"CON"} /\ conns' = conns + 1
  /\ UNCHANGED <<Sn_CR, doing, rsr, used, sending, sock_is_sending, pc, after, locals, stream>>

Refused ==
  /\ Alive /\ Sn_SR = "SOCK_SYNSENT"
  /\ Vanish
  /\ UNCHANGED <<Sn_CR, Sn_IR, doing, sock_is_sending, pc, after, locals, conns>>

NoAnswer ==
  /\ Alive /\ Sn_SR = "SOCK_SYNSENT"
  /\ Sn_IR' = Sn_IR \cup {"TIMEOUT"} /\ doing' = "TCPTO"
  /\ UNCHANGED <<Sn_SR, Sn_CR, rsr, used, sending, sock_is_sending, pc, after, locals, stream,
                 conns>>

EchoNext ==
  \/ Next
  \/ ClientFirmware
  \/ SynSent \/ SynAck \/ Refused \/ NoAnswer

\* As in Socket, and a request is sent and accepted, refused or given up.
EchoFairness ==
  /\ WF_vars(Firmware \/ ClientFirmware) /\ WF_vars(Accept) /\ WF_vars(Execute \/ SynSent)
  /\ WF_vars(SynAck \/ Refused \/ NoAnswer)
  /\ WF_vars(SendOk \/ Timeout) /\ WF_vars(Ack \/ Timeout)
  /\ WF_vars((Gone /\ Sn_SR \notin Open) \/ Timeout)

EchoSpec == Init /\ [][EchoNext]_vars /\ EchoFairness

-----------------------------------------------------------------------------
\* connect says that it timed out only of its own request: none of the interrupts
\* that an earlier connection, or request, left behind is taken for it.
TimeoutIsOwn ==
  [][pc = "connIR" /\ pc' = "idle" => doing = "TCPTO" \/ Sn_SR = "SOCK_CLOSED"]_vars

\* Every call returns, but for a connect whose connection the peer has half closed.
ReturnsUnlessHalfClosed ==
  pc # "idle" ~>
    pc = "idle" \/ (pc \in {"connSR", "connIR", "connSR2"} /\ Sn_SR = "SOCK_CLOSE_WAIT")

\* socket.h:194, "it does not return until connection is completed": then it does.
\* TLC finds one that is completed and half closed between two readings of the
\* status, which connect waits for without end.
ConnectReturns == pc = "CONNECT" ~> pc = "idle"

=============================================================================
