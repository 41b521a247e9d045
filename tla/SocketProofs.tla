---------------------------- MODULE SocketProofs ----------------------------
(***************************************************************************)
(* Proofs about Socket and SocketClient for every size of the buffers, any *)
(* number of bytes and of connections.                                     *)
(***************************************************************************)
EXTENDS SocketClient, TLAPS

-----------------------------------------------------------------------------
(* The inductive invariant.                                                *)

Opening == {"SOCK_INIT", "SOCK_LISTEN", "SOCK_SYNRECV", "SOCK_SYNSENT"}
Closing == {"SOCK_CLOSE_WAIT", "SOCK_LAST_ACK", "SOCK_CLOSED"}

\* What the chip may show and do while the firmware is where it is.
Reading  == {"idle", "con", "rsr", "recvRSR", "recvSR", "recvData"}
Sending  == {"sendSR", "sendIR", "sendFSR", "sendSR2", "sendData", "SEND"}
Quiet    == {"none", "TCPTO"}
Request  == {"connSR", "connIR", "connSR2"}
Opened   == <<doing, Sn_SR>> \in {<<"OPEN", "SOCK_CLOSED">>, <<"none", "SOCK_INIT">>}
Waiting  == Sn_SR = "SOCK_INIT" /\ doing = "none"
Left     ==
  Sn_SR \in Closing /\ (doing \in Quiet \/ (doing = "DISCON" /\ Sn_SR # "SOCK_LAST_ACK"))
Closable ==
  /\ doing # "OPEN"
  /\ doing = "CLOSE" => Sn_SR = "SOCK_CLOSED"
  /\ doing = "LISTEN" => Sn_SR = "SOCK_INIT"
  /\ doing # "CONNECT"
  /\ doing = "DISCON" => Sn_SR \in {"SOCK_CLOSE_WAIT", "SOCK_CLOSED"}

ControlInv ==
  /\ Sn_CR # "none" => pc = Sn_CR
  /\ doing = "TCPTO" => Sn_SR \in Open \cup {"SOCK_SYNRECV", "SOCK_SYNSENT", "SOCK_LAST_ACK"}
  /\ pc = "idle" =>
       /\ Sn_SR # "SOCK_LAST_ACK"
       /\ doing \in Quiet \/ (Sn_SR = "SOCK_CLOSED" /\ doing \in {"CLOSE", "DISCON"})
  /\ pc \in (Reading \cup Sending \cup {"RECV"}) \ {"idle"} =>
       Sn_SR \in Open \cup {"SOCK_CLOSED"} /\ doing \in Quiet
  /\ pc = "disconnect" \/ Sn_CR = "DISCON" =>
       Sn_SR \in {"SOCK_CLOSE_WAIT", "SOCK_CLOSED"} /\ doing \in Quiet
  /\ pc \in {"DISCON", "disconSR", "disconIR"} => Left
  /\ pc \in {"listen", "connect"} \/ Sn_CR \in {"LISTEN", "CONNECT"} => Waiting
  /\ (pc = "LISTEN" /\ Sn_CR = "none") \/ pc = "listenSR" =>
       \/ Sn_SR = "SOCK_INIT" /\ doing = "LISTEN"
       \/ Sn_SR \notin {"SOCK_INIT", "SOCK_LAST_ACK"} /\ doing \in Quiet
  /\ (pc = "CONNECT" /\ Sn_CR = "none") \/ pc \in Request =>
       \/ Sn_SR = "SOCK_INIT" /\ doing = "CONNECT"
       \/ Sn_SR \notin {"SOCK_INIT", "SOCK_LAST_ACK"} /\ doing \in Quiet
  /\ pc = "close" \/ Sn_CR = "CLOSE" => Closable
  /\ (pc = "CLOSE" /\ Sn_CR = "none") \/ pc = "closeSR" =>
       doing \in {"CLOSE", "TCPTO"} \/ (doing = "none" /\ Sn_SR = "SOCK_CLOSED")
  /\ pc \in {"close", "CLOSE", "closeSR"} /\ after \in {"OPEN", "reopen"} => Sn_SR = "SOCK_CLOSED"
  /\ Sn_CR = "OPEN" => Sn_SR = "SOCK_CLOSED" /\ doing \in {"none", "CLOSE", "DISCON"}
  /\ (pc = "OPEN" /\ Sn_CR = "none") \/ pc = "openSR" => Opened

\* Nothing of an earlier connection is left when one begins, and the sizes in
\* hand are those of bytes that are there and of room that is there.
StreamInv ==
  /\ Sn_SR \in Opening => got = 0 /\ put = 0
  /\ Sn_SR \in Open /\ pc \in {"CONNECT"} \cup Request => got = 0 /\ put = 0
  /\ pc \in Reading \cup {"RECV", "listen", "LISTEN", "listenSR"} \cup
          {"connect", "CONNECT"} \cup Request => sentsize = 0
  /\ pc \in {"recvRSR", "recvSR", "recvData"} => size > 0 /\ size <= rsr
  /\ pc \in {"recvSR", "recvData"} => size <= seen
  /\ pc = "RECV" => size > 0 /\ len = size
  /\ Sn_CR = "RECV" => len <= rsr
  /\ pc \in Sending => sentsize < size
  /\ pc \in {"sendSR2", "sendData", "SEND"} => len <= size - sentsize /\ len > 0
  /\ pc \in {"sendSR2", "sendData"} => seen <= TxMAX - used
  /\ pc = "sendData" => len <= seen
  /\ Sn_CR = "SEND" => len <= TxMAX - used

\* No SEND is under way that the driver does not wait for.
Nothing == ~sock_is_sending /\ ~sending /\ "SENDOK" \notin Sn_IR
SendInv ==
  /\ sending => "SENDOK" \notin Sn_IR
  /\ Sn_SR = "SOCK_CLOSED" => ~sending
  /\ Sn_SR \in Opening => Nothing
  /\ Sn_SR \in Open /\ pc \in {"CONNECT"} \cup Request => Nothing
  /\ (pc = "closeSR" /\ after = "OPEN") \/ pc \in {"OPEN", "openSR"} =>
       ~sock_is_sending /\ "SENDOK" \notin Sn_IR
  /\ Sn_SR \in Open /\ pc \in Reading \cup {"RECV", "sendSR", "sendIR"} /\ ~sock_is_sending =>
       Nothing
  /\ Sn_SR \in Open /\ (pc \in {"sendFSR", "sendSR2", "sendData"} \/ Sn_CR = "SEND") => Nothing
  /\ Sn_SR \in Open /\ pc = "SEND" /\ Sn_CR = "none" =>
       sending \/ Sn_IR \cap {"SENDOK", "TIMEOUT"} # {}

\* A time-out that shows while a connection is made is one of this connection.
TimeoutInv ==
  "TIMEOUT" \in Sn_IR =>
    /\ Sn_SR \in Opening => doing \in {"TCPTO", "CLOSE"}
    /\ ~((pc = "closeSR" /\ after = "OPEN") \/ pc \in {"OPEN", "openSR"})
    /\ pc \in {"CONNECT"} \cup Request => doing = "TCPTO" \/ Sn_SR = "SOCK_CLOSED"

Rest ==
  ControlInv /\ StreamInv /\ SendInv /\ TimeoutInv /\ OwedIsLeft /\ SendIsAnswered
IInv == TypeOK /\ Rest

-----------------------------------------------------------------------------
(* Type correctness, step by step.                                         *)

\* Sizes stay those of the buffers: RECV gives back no more than is there, SEND is
\* given no more than there is room for.
LEMMA TypeStep == IInv /\ [EchoNext]_vars => TypeOK'
<1> SUFFICES ASSUME IInv, [EchoNext]_vars PROVE TypeOK'
  OBVIOUS
<1> USE SocketAssumption DEF IInv, Rest, TypeOK, StreamInv, Commands, chip, locals, stream
<1>1. CASE loopback_tcps BY <1>1 DEF loopback_tcps, GoTo, Close
<1>2. CASE ClearCon BY <1>2 DEF ClearCon
<1>3. CASE ReadSize
  <2>1. size' \in Nat /\ sentsize' \in 0 .. size' /\ len' \in Nat /\ seen' \in Nat
    BY <1>3 DEF ReadSize, Return, Least, Reading
  <2> QED BY <1>3, <2>1 DEF ReadSize, Return
<1>4. CASE RecvReadsSize BY <1>4 DEF RecvReadsSize
<1>5. CASE RecvReadsStatus BY <1>5 DEF RecvReadsStatus, GoTo, Close
<1>6. CASE RecvData BY <1>6 DEF RecvData, RecvLen, Least, Command
<1>7. CASE RecvReturns BY <1>7 DEF RecvReturns
<1>8. CASE SendReadsStatus BY <1>8 DEF SendReadsStatus, CanSend, GoTo, Close
<1>9. CASE SendReadsInterrupts
  <2>1. Sn_IR' \subseteq Sn_IR /\ sock_is_sending' \in BOOLEAN
    BY <1>9 DEF SendReadsInterrupts, Completed
  <2>2. pc' \in {"sendFSR", "close", "sendSR"} /\ after' \in {after, "close"}
    BY <1>9 DEF SendReadsInterrupts, Completed, GoTo, Close
  <2> QED BY <1>9, <2>1, <2>2 DEF SendReadsInterrupts
<1>10. CASE SendReadsFree BY <1>10 DEF SendReadsFree, Least
<1>11. CASE SendReadsStatusAgain BY <1>11 DEF SendReadsStatusAgain, CanSend, HasRoom, GoTo, Close
<1>12. CASE SendData BY <1>12 DEF SendData, Command
<1>13. CASE SendReturns BY <1>13 DEF SendReturns, Return
<1>14. CASE Disconnect BY <1>14 DEF Disconnect, Command
<1>15. CASE DisconnectAccepted BY <1>15 DEF DisconnectAccepted, Forget
<1>16. CASE DisconnectReadsStatus BY <1>16 DEF DisconnectReadsStatus, Return
<1>17. CASE DisconnectReadsInterrupts BY <1>17 DEF DisconnectReadsInterrupts, GoTo, Close
<1>18. CASE Listen BY <1>18 DEF Listen, Command
<1>19. CASE ListenAccepted BY <1>19 DEF ListenAccepted
<1>20. CASE ListenReadsStatus BY <1>20 DEF ListenReadsStatus, GoTo, Close
<1>21. CASE CloseSocket BY <1>21 DEF CloseSocket, Command
<1>22. CASE CloseAccepted BY <1>22 DEF CloseAccepted, ClearInterrupts, Forget
<1>23. CASE CloseReadsStatus
  <2>1. CASE after = "idle" BY <1>23, <2>1 DEF CloseReadsStatus, Return
  <2>2. CASE after = "close" BY <1>23, <2>2 DEF CloseReadsStatus
  <2>3. CASE after = "OPEN" BY <1>23, <2>3 DEF CloseReadsStatus
  <2> QED BY <1>23, <2>1, <2>2, <2>3 DEF CloseReadsStatus
<1>24. CASE SocketAccepted BY <1>24 DEF SocketAccepted, Forget
<1>25. CASE SocketReadsStatus BY <1>25 DEF SocketReadsStatus, Return
<1>26. CASE Accept
  <2>1. rsr' \in 0 .. RxMAX BY <1>26 DEF Accept
  <2>2. used' \in 0 .. TxMAX BY <1>26 DEF Accept, Sending
  <2>3. sending' \in BOOLEAN BY <1>26 DEF Accept
  <2>4. doing' \in {"none", "OPEN", "CLOSE", "LISTEN", "CONNECT", "DISCON", "TCPTO"}
    BY <1>26 DEF Accept
  <2> QED BY <1>26, <2>1, <2>2, <2>3, <2>4 DEF Accept
<1>27. CASE Execute
  <2>1. sending' \in BOOLEAN BY <1>27 DEF Execute, Become, Vanish
  <2>2. rsr' \in 0 .. RxMAX /\ used' \in 0 .. TxMAX BY <1>27 DEF Execute, Become, Vanish
  <2>3. came' \in Nat /\ got' \in Nat /\ put' \in Nat BY <1>27 DEF Execute, Become, Vanish
  <2>4. Sn_SR' \in {"SOCK_CLOSED", "SOCK_INIT", "SOCK_LISTEN", "SOCK_LAST_ACK"}
    BY <1>27 DEF Execute, Become, Vanish
  <2> QED BY <1>27, <2>1, <2>2, <2>3, <2>4 DEF Execute
<1>28. CASE Syn BY <1>28 DEF Syn, Alive
<1>29. CASE Established BY <1>29 DEF Established, Alive
<1>30. CASE Receive BY <1>30 DEF Receive, Alive
<1>31. CASE Fin BY <1>31 DEF Fin, Alive
<1>32. CASE SendOk
  <2>1. sending' \in BOOLEAN BY <1>32 DEF SendOk
  <2>2. Sn_IR' = Sn_IR \cup {"SENDOK"} BY <1>32 DEF SendOk
  <2> QED BY <1>32, <2>1, <2>2 DEF SendOk
<1>33. CASE Ack BY <1>33 DEF Ack, Alive
<1>34. CASE Gone
  <2>1. sending' \in BOOLEAN /\ Sn_SR' = "SOCK_CLOSED" BY <1>34 DEF Gone, Vanish
  <2> QED BY <1>34, <2>1 DEF Gone, Vanish
<1>35. CASE Timeout BY <1>35 DEF Timeout, Alive
<1>36. CASE UNCHANGED vars BY <1>36 DEF vars
<1>37. CASE loopback_tcpc BY <1>37 DEF loopback_tcpc, GoTo, Close
<1>38. CASE CloseBeforeSocket BY <1>38 DEF CloseBeforeSocket, Close
<1>39. CASE Connect BY <1>39 DEF Connect, Command
<1>40. CASE ConnectAccepted BY <1>40 DEF ConnectAccepted
<1>41. CASE ConnectReadsStatus BY <1>41 DEF ConnectReadsStatus, Connected, Return
<1>42. CASE ConnectReadsInterrupts
  <2>1. Sn_IR' \subseteq Sn_IR BY <1>42 DEF ConnectReadsInterrupts
  <2>2. pc' \in {"idle", "connSR2"} /\ size' \in Nat /\ sentsize' \in 0 .. size' /\ len' \in Nat
        /\ seen' \in Nat
    BY <1>42 DEF ConnectReadsInterrupts, Return
  <2> QED BY <1>42, <2>1, <2>2 DEF ConnectReadsInterrupts
<1>43. CASE ConnectReadsStatusAgain BY <1>43 DEF ConnectReadsStatusAgain, GivesUp, Return
<1>44. CASE SynSent BY <1>44 DEF SynSent, Become
<1>45. CASE SynAck BY <1>45 DEF SynAck, Alive
<1>46. CASE Refused
  <2>1. sending' \in BOOLEAN /\ Sn_SR' = "SOCK_CLOSED" BY <1>46 DEF Refused, Vanish
  <2> QED BY <1>46, <2>1 DEF Refused, Vanish
<1>47. CASE NoAnswer BY <1>47 DEF NoAnswer, Alive
<1> QED BY <1>1, <1>2, <1>3, <1>4, <1>5, <1>6, <1>7, <1>8, <1>9, <1>10, <1>11, <1>12,
          <1>13, <1>14, <1>15, <1>16, <1>17, <1>18, <1>19, <1>20, <1>21, <1>22, <1>23,
          <1>24, <1>25, <1>26, <1>27, <1>28, <1>29, <1>30, <1>31, <1>32, <1>33, <1>34,
          <1>35, <1>36, <1>37, <1>38, <1>39, <1>40, <1>41, <1>42, <1>43, <1>44, <1>45,
          <1>46, <1>47 DEF EchoNext, Next, Firmware, ClientFirmware

-----------------------------------------------------------------------------
(* The rest of the invariant, step by step.                                *)

\* The chip and the firmware keep in step, whatever the peer does in between.
LEMMA RestStep == IInv /\ [EchoNext]_vars => Rest'
<1> SUFFICES ASSUME IInv, [EchoNext]_vars PROVE Rest'
  OBVIOUS
<1> USE SocketAssumption
    DEF IInv, Rest, TypeOK, ControlInv, StreamInv, SendInv, TimeoutInv, OwedIsLeft, SendIsAnswered,
        Nothing, Reading, Sending, Quiet, Request, Opened, Waiting, Left, Closable, Opening, Closing,
        Commands, Open, chip, locals, stream
<1>1. CASE loopback_tcps
  <2>1. CASE Sn_SR \in {"SOCK_ESTABLISHED", "SOCK_CLOSE_WAIT"}
    BY <1>1, <2>1 DEF loopback_tcps, GoTo
  <2>2. CASE Sn_SR = "SOCK_INIT" BY <1>1, <2>2 DEF loopback_tcps, GoTo
  <2>3. CASE Sn_SR = "SOCK_CLOSED" BY <1>1, <2>3 DEF loopback_tcps, Close
  <2>4. CASE Sn_SR \in {"SOCK_LISTEN", "SOCK_SYNRECV", "SOCK_LAST_ACK"}
    BY <1>1, <2>4 DEF loopback_tcps, GoTo
  <2> QED BY <1>1, <2>1, <2>2, <2>3, <2>4 DEF loopback_tcps
<1>2. CASE ClearCon BY <1>2 DEF ClearCon
<1>3. CASE ReadSize BY <1>3 DEF ReadSize, Return, Least
<1>4. CASE RecvReadsSize BY <1>4 DEF RecvReadsSize
<1>5. CASE RecvReadsStatus BY <1>5 DEF RecvReadsStatus, GoTo, Close
<1>6. CASE RecvData BY <1>6 DEF RecvData, RecvLen, Least, Command
<1>7. CASE RecvReturns BY <1>7 DEF RecvReturns
<1>8. CASE SendReadsStatus BY <1>8 DEF SendReadsStatus, CanSend, GoTo, Close
<1>9. CASE SendReadsInterrupts BY <1>9 DEF SendReadsInterrupts, Completed, GoTo, Close
<1>10. CASE SendReadsFree BY <1>10 DEF SendReadsFree, Least
<1>11. CASE SendReadsStatusAgain BY <1>11 DEF SendReadsStatusAgain, CanSend, HasRoom, GoTo, Close
<1>12. CASE SendData BY <1>12 DEF SendData, Command
<1>13. CASE SendReturns BY <1>13 DEF SendReturns, Return
<1>14. CASE Disconnect BY <1>14 DEF Disconnect, Command
<1>15. CASE DisconnectAccepted BY <1>15 DEF DisconnectAccepted, Forget
<1>16. CASE DisconnectReadsStatus BY <1>16 DEF DisconnectReadsStatus, Return
<1>17. CASE DisconnectReadsInterrupts BY <1>17 DEF DisconnectReadsInterrupts, GoTo, Close
<1>18. CASE Listen BY <1>18 DEF Listen, Command
<1>19. CASE ListenAccepted BY <1>19 DEF ListenAccepted
<1>20. CASE ListenReadsStatus BY <1>20 DEF ListenReadsStatus, GoTo, Close
<1>21. CASE CloseSocket BY <1>21 DEF CloseSocket, Command
<1>22. CASE CloseAccepted BY <1>22 DEF CloseAccepted, ClearInterrupts, Forget
<1>23. CASE CloseReadsStatus
  <2>1. CASE after = "idle" BY <1>23, <2>1 DEF CloseReadsStatus, Return
  <2>2. CASE after = "close" BY <1>23, <2>2 DEF CloseReadsStatus
  <2>3. CASE after = "OPEN" BY <1>23, <2>3 DEF CloseReadsStatus
  <2> QED BY <1>23, <2>1, <2>2, <2>3 DEF CloseReadsStatus
<1>24. CASE SocketAccepted BY <1>24 DEF SocketAccepted, Forget
<1>25. CASE SocketReadsStatus BY <1>25 DEF SocketReadsStatus, Return
<1>26. CASE Accept
  <2>1. CASE Sn_CR = "RECV" BY <1>26, <2>1 DEF Accept
  <2>2. CASE Sn_CR = "SEND" /\ Sn_SR \in Open BY <1>26, <2>2 DEF Accept
  <2>3. CASE Sn_CR = "SEND" /\ Sn_SR \notin Open BY <1>26, <2>3 DEF Accept
  <2>4. CASE Sn_CR \notin {"RECV", "SEND"}
    <3>1. pc = Sn_CR /\ Sn_CR \in {"OPEN", "CLOSE", "LISTEN", "CONNECT", "DISCON"}
          /\ doing' = Sn_CR
      BY <1>26, <2>4 DEF Accept
    <3> QED BY <1>26, <2>4, <3>1 DEF Accept
  <2> QED BY <1>26, <2>1, <2>2, <2>3, <2>4 DEF Accept
<1>27. CASE Execute BY <1>27 DEF Execute, Become, Vanish
<1>28. CASE Syn BY <1>28 DEF Syn, Alive
<1>29. CASE Established BY <1>29 DEF Established, Alive
<1>30. CASE Receive BY <1>30 DEF Receive, Alive
<1>31. CASE Fin BY <1>31 DEF Fin, Alive
<1>32. CASE SendOk BY <1>32 DEF SendOk, Alive
<1>33. CASE Ack BY <1>33 DEF Ack, Alive
<1>34. CASE Gone BY <1>34 DEF Gone, Alive, Vanish
<1>35. CASE Timeout BY <1>35 DEF Timeout, Alive
<1>36. CASE UNCHANGED vars BY <1>36 DEF vars
<1>37. CASE loopback_tcpc BY <1>37 DEF loopback_tcpc, GoTo, Close
<1>38. CASE CloseBeforeSocket BY <1>38 DEF CloseBeforeSocket, Close
<1>39. CASE Connect BY <1>39 DEF Connect, Command
<1>40. CASE ConnectAccepted BY <1>40 DEF ConnectAccepted
<1>41. CASE ConnectReadsStatus BY <1>41 DEF ConnectReadsStatus, Connected, Return
<1>42. CASE ConnectReadsInterrupts BY <1>42 DEF ConnectReadsInterrupts, Return
<1>43. CASE ConnectReadsStatusAgain BY <1>43 DEF ConnectReadsStatusAgain, GivesUp, Return
<1>44. CASE SynSent BY <1>44 DEF SynSent, Become
<1>45. CASE SynAck BY <1>45 DEF SynAck, Alive
<1>46. CASE Refused BY <1>46 DEF Refused, Alive, Vanish
<1>47. CASE NoAnswer BY <1>47 DEF NoAnswer, Alive
<1> QED BY <1>1, <1>2, <1>3, <1>4, <1>5, <1>6, <1>7, <1>8, <1>9, <1>10, <1>11, <1>12,
          <1>13, <1>14, <1>15, <1>16, <1>17, <1>18, <1>19, <1>20, <1>21, <1>22, <1>23,
          <1>24, <1>25, <1>26, <1>27, <1>28, <1>29, <1>30, <1>31, <1>32, <1>33, <1>34,
          <1>35, <1>36, <1>37, <1>38, <1>39, <1>40, <1>41, <1>42, <1>43, <1>44, <1>45,
          <1>46, <1>47 DEF EchoNext, Next, Firmware, ClientFirmware

-----------------------------------------------------------------------------
LEMMA InitIInv == Init => IInv
<1> SUFFICES ASSUME Init PROVE IInv
  OBVIOUS
<1>1. TypeOK
  <2>1. sending \in BOOLEAN /\ sock_is_sending \in BOOLEAN BY DEF Init
  <2>2. rsr \in 0 .. RxMAX /\ used \in 0 .. TxMAX BY SocketAssumption DEF Init
  <2> QED BY <2>1, <2>2 DEF Init, TypeOK
<1>2. ControlInv
  BY DEF Init, ControlInv, Reading, Sending, Quiet, Request
<1>3. StreamInv BY DEF Init, StreamInv, Opening, Reading, Sending, Request, Open
<1>4. SendInv /\ TimeoutInv BY DEF Init, SendInv, TimeoutInv, Opening, Open
<1>5. OwedIsLeft /\ SendIsAnswered BY DEF Init, OwedIsLeft, SendIsAnswered, Open
<1> QED BY <1>1, <1>2, <1>3, <1>4, <1>5 DEF IInv, Rest

LEMMA NextIInv == IInv /\ [EchoNext]_vars => IInv'
BY TypeStep, RestStep DEF IInv

-----------------------------------------------------------------------------
\* Every state that the firmware, as a server or as a client, and the chip reach
\* satisfies IInv.
THEOREM Invariance == EchoSpec => []IInv
BY InitIInv, NextIInv, PTL DEF EchoSpec

\* The registers, the sizes and the counters keep their ranges: RECV gives back no
\* more than is there, and SEND is given no more than there is room for.
THEOREM TypeCorrect == EchoSpec => []TypeOK
<1>1. IInv => TypeOK BY DEF IInv
<1> QED BY <1>1, Invariance, PTL

\* Partial sends and busy answers lose and repeat nothing, for any sizes of the
\* buffers and any number of bytes and connections.
THEOREM EchoIsComplete == EchoSpec => []OwedIsLeft
<1>1. IInv => OwedIsLeft BY DEF IInv, Rest
<1> QED BY <1>1, Invariance, PTL

\* send never waits for a SEND of which nothing will be heard.
THEOREM SendAnswered == EchoSpec => []SendIsAnswered
<1>1. IInv => SendIsAnswered BY DEF IInv, Rest
<1> QED BY <1>1, Invariance, PTL

\* What two readings of the registers keep apart: a SEND is given only when none is
\* under way, a time-out is taken by connect only when it is its own.
LEMMA Steps ==
  IInv => /\ pc = "sendData" /\ Sn_SR \in Open => ~sending /\ "SENDOK" \notin Sn_IR
          /\ pc = "connIR" /\ "TIMEOUT" \in Sn_IR => doing = "TCPTO" \/ Sn_SR = "SOCK_CLOSED"
BY DEF IInv, Rest, SendInv, TimeoutInv, Nothing, Request

\* No SEND is given to the chip before the last is completed and taken note of.
THEOREM SendsAreSerial == EchoSpec => OneSendAtATime
<1> DEFINE Serial == pc = "sendData" /\ pc' = "SEND" /\ Sn_SR \in Open =>
                       ~sending /\ "SENDOK" \notin Sn_IR
<1>1. IInv /\ [EchoNext]_vars => [Serial]_vars BY Steps
<1> QED BY <1>1, Invariance, PTL DEF EchoSpec, OneSendAtATime

\* connect never takes a time-out of an earlier request or connection for its own.
THEOREM TimeoutsAreOwn == EchoSpec => TimeoutIsOwn
<1> DEFINE Own == pc = "connIR" /\ pc' = "idle" => doing = "TCPTO" \/ Sn_SR = "SOCK_CLOSED"
<1>1. ASSUME IInv, [EchoNext]_vars, pc = "connIR", pc' = "idle"
      PROVE  "TIMEOUT" \in Sn_IR
  <2>1. ConnectReadsInterrupts \/ UNCHANGED pc
    BY <1>1 DEF EchoNext, Next, Firmware, ClientFirmware, Execute, Accept, vars,
       loopback_tcps, ClearCon, ReadSize, RecvReadsSize, RecvReadsStatus, RecvData, RecvReturns,
       SendReadsStatus, SendReadsInterrupts, SendReadsFree, SendReadsStatusAgain, SendData,
       SendReturns, Disconnect, DisconnectAccepted, DisconnectReadsStatus,
       DisconnectReadsInterrupts, Listen, ListenAccepted, ListenReadsStatus, CloseSocket,
       CloseAccepted, CloseReadsStatus, SocketAccepted, SocketReadsStatus, Syn, Established,
       Receive, Fin, SendOk, Ack, Gone, Timeout, loopback_tcpc, CloseBeforeSocket, Connect,
       ConnectAccepted, ConnectReadsStatus, ConnectReadsStatusAgain, SynSent, SynAck, Refused,
       NoAnswer
  <2> QED BY <1>1, <2>1 DEF ConnectReadsInterrupts
<1>2. IInv /\ [EchoNext]_vars => [Own]_vars BY <1>1, Steps
<1> QED BY <1>2, Invariance, PTL DEF EchoSpec, TimeoutIsOwn

\* What holds with either loop holds with loopback_tcps alone.
THEOREM ServerInvariance == Spec => []IInv
<1>1. [Next]_vars => [EchoNext]_vars BY DEF EchoNext
<1> QED BY <1>1, InitIInv, NextIInv, PTL DEF Spec
-----------------------------------------------------------------------------
(* What the loops wait for.  That every call returns (but for the connect   *)
(* that ReturnsUnlessHalfClosed excepts) is left to TLC; this is its core:  *)
(* in every loop something is under way that ends it.                       *)

\* What must be known besides: the room asked for is in the buffer at all, DISCON is
\* not forgotten, and nobody makes a server of a socket that connects.
WaitInv ==
  /\ pc = "sendSR2" => len <= TxMAX
  /\ (pc = "DISCON" /\ Sn_CR = "none") \/ pc \in {"disconSR", "disconIR"} =>
       (Sn_SR = "SOCK_CLOSE_WAIT" => doing # "none")
  /\ (pc = "CONNECT" /\ Sn_CR = "none") \/ pc \in Request =>
       Sn_SR \notin {"SOCK_LISTEN", "SOCK_SYNRECV"}

\* In its loops the firmware waits for bytes that are being acknowledged or room that
\* is there by now; for the answer to a FIN, or for a command that the chip is busy
\* with or has done; and connect for its request, unless the peer has half closed.
WaitsForSomething ==
  /\ pc = "sendSR2" /\ Sn_SR \in Open /\ ~HasRoom => used > 0 \/ seen < TxMAX - used
  /\ pc \in {"disconSR", "disconIR"} =>
       Sn_SR \in {"SOCK_CLOSED", "SOCK_LAST_ACK"} \/ doing \in {"DISCON", "TCPTO"}
  /\ pc = "closeSR" => Sn_SR = "SOCK_CLOSED" \/ doing \in {"CLOSE", "TCPTO"}
  /\ pc = "openSR" => Sn_SR = "SOCK_INIT" \/ doing = "OPEN"
  /\ pc = "listenSR" => Sn_SR = "SOCK_LISTEN" \/ Sn_CR = "none"
  /\ pc \in Request =>
       \/ Sn_SR \in {"SOCK_SYNSENT", "SOCK_ESTABLISHED", "SOCK_CLOSED"} \/ doing = "CONNECT"
       \/ Sn_SR = "SOCK_CLOSE_WAIT"

LEMMA WaitStep == IInv /\ WaitInv /\ [EchoNext]_vars => WaitInv'
<1> SUFFICES ASSUME IInv, WaitInv, [EchoNext]_vars PROVE WaitInv'
  OBVIOUS
<1> USE SocketAssumption
    DEF IInv, Rest, TypeOK, ControlInv, WaitInv, Quiet, Request, Left, Waiting, Commands, Open,
        chip, locals, stream, Alive
<1>1. CASE loopback_tcps \/ loopback_tcpc BY <1>1 DEF loopback_tcps, loopback_tcpc, GoTo, Close
<1>2. CASE ClearCon \/ ReadSize \/ RecvReadsSize \/ RecvReadsStatus \/ RecvReturns
  BY <1>2 DEF ClearCon, ReadSize, RecvReadsSize, RecvReadsStatus, RecvReturns, Return, GoTo, Close
<1>3. CASE RecvData \/ SendData \/ Disconnect \/ Listen \/ CloseSocket \/ Connect
  BY <1>3 DEF RecvData, SendData, Disconnect, Listen, CloseSocket, Connect, Command
<1>4. CASE SendReadsStatus \/ SendReadsInterrupts \/ SendReadsStatusAgain \/ SendReturns
  BY <1>4 DEF SendReadsStatus, SendReadsInterrupts, SendReadsStatusAgain, SendReturns, Return, GoTo,
              Close
<1>5. CASE SendReadsFree BY <1>5 DEF SendReadsFree, Least
<1>6. CASE DisconnectAccepted \/ DisconnectReadsStatus \/ DisconnectReadsInterrupts
  BY <1>6 DEF DisconnectAccepted, DisconnectReadsStatus, DisconnectReadsInterrupts, Return, GoTo,
              Close
<1>7. CASE ListenAccepted \/ ListenReadsStatus \/ CloseAccepted \/ SocketAccepted
           \/ SocketReadsStatus \/ CloseBeforeSocket
  BY <1>7 DEF ListenAccepted, ListenReadsStatus, CloseAccepted, SocketAccepted, SocketReadsStatus,
              CloseBeforeSocket, Return, GoTo, Close
<1>8. CASE CloseReadsStatus
  <2>1. pc' \in {"idle", "close", "OPEN"} /\ Sn_CR' \in {Sn_CR, "OPEN"}
    BY <1>8 DEF CloseReadsStatus, Return
  <2> QED BY <2>1
<1>9. CASE ConnectAccepted \/ ConnectReadsStatus \/ ConnectReadsStatusAgain
  BY <1>9 DEF ConnectAccepted, ConnectReadsStatus, ConnectReadsStatusAgain, Return
<1>10. CASE ConnectReadsInterrupts BY <1>10 DEF ConnectReadsInterrupts, Return
<1>11. CASE Accept
  <2>1. pc = Sn_CR /\ UNCHANGED <<pc, Sn_SR, len>> BY <1>11 DEF Accept
  <2>2. Sn_CR = "DISCON" => doing' = "DISCON" BY <1>11 DEF Accept
  <2> QED BY <2>1, <2>2
<1>12. CASE Execute
  <2>1. doing # "none" /\ doing' = "none" /\ UNCHANGED <<pc, Sn_CR, len>> BY <1>12 DEF Execute
  <2>2. /\ doing = "LISTEN" \/ Sn_SR' # "SOCK_LISTEN"
        /\ Sn_SR' \notin {"SOCK_SYNRECV", "SOCK_CLOSE_WAIT"}
    BY <1>12 DEF Execute, Become, Vanish
  <2> QED BY <2>1, <2>2
<1>13. CASE Syn \/ Established \/ Receive \/ Fin \/ Timeout \/ NoAnswer
  BY <1>13 DEF Syn, Established, Receive, Fin, Timeout, NoAnswer, Closing
<1>14. CASE SendOk \/ Ack BY <1>14 DEF SendOk, Ack
<1>15. CASE Gone \/ Refused BY <1>15 DEF Gone, Refused, Vanish
<1>16. CASE SynSent \/ SynAck BY <1>16 DEF SynSent, SynAck, Become
<1>17. CASE UNCHANGED vars BY <1>17 DEF vars
<1> QED BY <1>1, <1>2, <1>3, <1>4, <1>5, <1>6, <1>7, <1>8, <1>9, <1>10, <1>11, <1>12,
          <1>13, <1>14, <1>15, <1>16, <1>17 DEF EchoNext, Next, Firmware, ClientFirmware

\* The firmware, as a server or as a client, waits in none of its loops for nothing,
\* but for a connect whose connection the peer has half closed.
THEOREM NoEmptyWait == EchoSpec => []WaitsForSomething
<1>1. Init => WaitInv BY DEF Init, WaitInv, Request
<1>2. IInv /\ WaitInv => WaitsForSomething
  <2> SUFFICES ASSUME IInv, WaitInv PROVE WaitsForSomething
    OBVIOUS
  <2> USE DEF IInv, Rest, WaitInv
  <2>1. pc = "sendSR2" /\ ~HasRoom => used > 0 \/ seen < TxMAX - used
    BY SocketAssumption DEF TypeOK, StreamInv, HasRoom
  <2>2. pc \in {"disconSR", "disconIR"} =>
          Sn_SR \in {"SOCK_CLOSED", "SOCK_LAST_ACK"} \/ doing \in {"DISCON", "TCPTO"}
    BY DEF ControlInv, Left, Closing, Quiet
  <2>3. pc = "closeSR" => Sn_SR = "SOCK_CLOSED" \/ doing \in {"CLOSE", "TCPTO"}
    BY DEF ControlInv
  <2>4. pc = "openSR" => Sn_SR = "SOCK_INIT" \/ doing = "OPEN" BY DEF ControlInv, Opened
  <2>5. pc = "listenSR" => Sn_CR = "none" BY DEF ControlInv, TypeOK, Commands
  <2>6. pc \in Request =>
          \/ Sn_SR \in {"SOCK_SYNSENT", "SOCK_ESTABLISHED", "SOCK_CLOSED"} \/ doing = "CONNECT"
          \/ Sn_SR = "SOCK_CLOSE_WAIT"
    BY DEF ControlInv, TypeOK
  <2> QED BY <2>1, <2>2, <2>3, <2>4, <2>5, <2>6 DEF WaitsForSomething
<1> QED BY <1>1, <1>2, WaitStep, Invariance, PTL DEF EchoSpec
=============================================================================
