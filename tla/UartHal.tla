------------------------------ MODULE UartHal -------------------------------
(***************************************************************************)
(* The handle huart1 and the buffer txbuf, shared by the command echoes of *)
(* uart1Task, the printk of ethInitTask and the receive interrupt.         *)
(* (Src/usart_common.c, Src/debug.c and the HAL functions they call.)      *)
(*                                                                         *)
(* ethInitTask has realtime priority: while it is not blocked on the SPI   *)
(* bus, uart1Task does not move.  An interrupt handler runs to its end at  *)
(* any point of either task.  A step of a task is one access to something  *)
(* another party also uses: the text in txbuf, State, Lock, ErrorCode, the *)
(* stream.                                                                 *)
(***************************************************************************)
EXTENDS Naturals

CONSTANTS Echoes,    \* texts uart1Task sends
          Messages,  \* texts ethInitTask prints
          Printks,   \* bound: how many lines ethInitTask prints before it ends
          Errors     \* bound: how often a DMA stream meets an error

None  == "no text"
Mixed == "parts of texts"

ASSUME UartAssumption ==
  /\ Echoes \cap Messages = {}
  /\ None \notin Echoes \cup Messages
  /\ Printks \in Nat
  /\ Errors \in Nat

VARIABLES
  State,     \* huart1.State
  Lock,      \* huart1.Lock
  ErrorCode, \* huart1.ErrorCode is not HAL_UART_ERROR_NONE
  rx,        \* the receive stream is enabled
  tx,        \* the transmission: "off", "dma", "tc" (the last byte is leaving)
  txlock,    \* hdma_usart1_tx.Lock
  txbuf,     \* the text in txbuf
  out,       \* what the running or last transmission put on the wire
  pc,        \* where each task is
  text,      \* the text each task is sending
  seen,      \* State as the task read it in the HAL call
  printed,   \* lines ethInitTask has printed or lost
  errors     \* errors the streams have met

streams == <<rx, tx, txlock, out>>
vars == <<State, Lock, ErrorCode, streams, txbuf, pc, text, seen, printed, errors>>

Task  == {"uart1", "ethInit"}
Text  == Echoes \cup Messages \cup {None}
Busy  == {"BUSY_TX", "BUSY_RX", "BUSY_TX_RX"}

\* In a HAL call, from the lock to the unlock.
Locked == {"clear", "read", "write", "start", "restart", "unlock"}
Call   == {"enter", "test", "set"} \cup Locked
Sender == {"fill", "spin"} \cup Call
AtRest == {"spi", "terminated"}     \* ethInitTask leaves the CPU to uart1Task

TypeOK ==
  /\ State \in {"READY"} \cup Busy
  /\ Lock \in BOOLEAN
  /\ ErrorCode \in BOOLEAN
  /\ rx \in BOOLEAN
  /\ tx \in {"off", "dma", "tc"}
  /\ txlock \in BOOLEAN
  /\ txbuf \in Text
  /\ out \in Text \cup {Mixed}
  /\ pc \in [Task -> Sender \cup AtRest \cup {"command"}]
  /\ text \in [Task -> Text]
  /\ seen \in [Task -> {"READY"} \cup Busy]
  /\ printed \in 0 .. Printks
  /\ errors \in 0 .. Errors

Init ==
  /\ State = "READY"
  /\ Lock = FALSE
  /\ ErrorCode = FALSE
  /\ rx = FALSE
  /\ tx = "off"
  /\ txlock = FALSE
  /\ txbuf = None
  /\ out = None
  /\ pc = [t \in Task |-> IF t = "uart1" THEN "enter" ELSE "spi"]
  /\ text = [t \in Task |-> None]
  /\ seen = [t \in Task |-> "READY"]
  /\ printed = 0
  /\ errors = 0

BusyTx == State \in {"BUSY_TX", "BUSY_TX_RX"}

\* The scheduler: uart1Task runs while ethInitTask is blocked or gone.
Runs(t) == t = "uart1" => pc["ethInit"] \in AtRest

Goto(t, from, to) ==
  /\ Runs(t)
  /\ pc[t] = from
  /\ pc' = [pc EXCEPT ![t] = to]

-----------------------------------------------------------------------------
(* UART_TransmitContent, for either task: vsprintf into txbuf,             *)
(* HAL_UART_Transmit_DMA, and the wait for the end.  HAL_UART_Receive_DMA, *)
(* which uart1Task calls once, at its start, is the same but for the half  *)
(* of State it is about and the stream it starts.                          *)

\* The call is that of HAL_UART_Receive_DMA: uart1Task has had no text to send yet.
Receives(t) == text[t] = None

OtherHalf(t) == IF Receives(t) THEN "BUSY_TX" ELSE "BUSY_RX"
OwnHalf(t)   == IF Receives(t) THEN "BUSY_RX" ELSE "BUSY_TX"

\* The call returns: the loop on State follows, or uart1Task waits for commands.
Leave(t, from) == Goto(t, from, IF Receives(t) THEN "command" ELSE "spin")

\* vsprintf(txbuf, ...): a transmission that runs goes on with the new text.
Fill(t) ==
  /\ Goto(t, "fill", "enter")
  /\ txbuf' = text[t]
  /\ out' = IF tx = "dma" /\ text[t] # txbuf THEN Mixed ELSE out
  /\ UNCHANGED <<State, Lock, ErrorCode, rx, tx, txlock, text, seen, printed, errors>>

\* HAL_BUSY is what the call returns when State says its half is in use; the caller
\* ignores it.
Enter(t) ==
  /\ \/ State \in {"READY", OtherHalf(t)} /\ Goto(t, "enter", "test")
     \/ State \notin {"READY", OtherHalf(t)} /\ Leave(t, "enter")
  /\ UNCHANGED <<State, Lock, ErrorCode, streams, txbuf, text, seen, printed, errors>>

\* __HAL_LOCK(huart) reads Lock, HAL_BUSY again when it is taken, ...
TestLock_Unchecked(t) ==
  /\ Goto(t, "test", "set")
  /\ UNCHANGED <<State, Lock, ErrorCode, streams, txbuf, text, seen, printed, errors>>
TestLock(t) ==
  /\ \/ ~Lock /\ Goto(t, "test", "set")
     \/ Lock /\ Leave(t, "test")
  /\ UNCHANGED <<State, Lock, ErrorCode, streams, txbuf, text, seen, printed, errors>>

\* ... and then writes it.
SetLock(t) ==
  /\ Goto(t, "set", "clear")
  /\ Lock' = TRUE
  /\ UNCHANGED <<State, ErrorCode, streams, txbuf, text, seen, printed, errors>>

ClearError(t) ==
  /\ Goto(t, "clear", "read")
  /\ ErrorCode' = FALSE
  /\ UNCHANGED <<State, Lock, streams, txbuf, text, seen, printed, errors>>

ReadState(t) ==
  /\ Goto(t, "read", "write")
  /\ seen' = [seen EXCEPT ![t] = State]
  /\ UNCHANGED <<State, Lock, ErrorCode, streams, txbuf, text, printed, errors>>

WriteState(t) ==
  /\ Goto(t, "write", "start")
  /\ State' = IF seen[t] = OtherHalf(t) THEN "BUSY_TX_RX" ELSE OwnHalf(t)
  /\ UNCHANGED <<Lock, ErrorCode, streams, txbuf, text, seen, printed, errors>>

\* HAL_DMA_Start_IT, and DMAT, without which no byte moves; hdma_usart1_tx.Lock is
\* tested and set in one step, as only the holder of huart1 gets here.
StartTransmit(t) ==
  /\ ~Receives(t)
  /\ ~txlock /\ tx # "dma"
  /\ Goto(t, "start", "unlock")
  /\ tx' = "dma" /\ txlock' = TRUE /\ out' = txbuf
  /\ UNCHANGED <<State, Lock, ErrorCode, rx, txbuf, text, seen, printed, errors>>

\* HAL_BUSY, which nobody looks at: the stream still sends what it was sending when
\* an error of the other stream made the handle ready.
StreamBusy(t) ==
  /\ ~Receives(t)
  /\ txlock
  /\ Goto(t, "start", "unlock")
  /\ UNCHANGED <<State, Lock, ErrorCode, streams, txbuf, text, seen, printed, errors>>

\* An error has released the stream, which goes on: HAL_DMA_Start_IT disables it,
\* and that is a transfer complete, whose handler (UART_DMATransmitCplt) runs
\* before the stream is started anew.
CutShort(t) ==
  /\ ~Receives(t)
  /\ ~txlock /\ tx = "dma"
  /\ Goto(t, "start", "restart")
  /\ tx' = "tc" /\ out' = Mixed
  /\ UNCHANGED <<State, Lock, ErrorCode, rx, txlock, txbuf, text, seen, printed, errors>>

Restart(t) ==
  /\ ~Receives(t)
  /\ Goto(t, "restart", "unlock")
  /\ tx' = "dma" /\ out' = txbuf
  /\ UNCHANGED <<State, Lock, ErrorCode, rx, txlock, txbuf, text, seen, printed, errors>>

StartReceive(t) ==
  /\ Receives(t)
  /\ Goto(t, "start", "unlock")
  /\ rx' = TRUE
  /\ UNCHANGED <<State, Lock, ErrorCode, tx, txlock, out, txbuf, text, seen, printed,
                 errors>>

StartDMA(t) == \/ StartTransmit(t) \/ StreamBusy(t) \/ CutShort(t) \/ Restart(t)
               \/ StartReceive(t)

ReleaseLock(t) ==
  /\ Leave(t, "unlock")
  /\ Lock' = FALSE
  /\ UNCHANGED <<State, ErrorCode, streams, txbuf, text, seen, printed, errors>>

\* while(State == BUSY_TX || State == BUSY_TX_RX)
Waiting_TxOnly == State = "BUSY_TX"
Waiting == BusyTx

Return(t) ==
  /\ ~Waiting
  /\ Goto(t, "spin", IF t = "uart1" THEN "command" ELSE "spi")
  /\ printed' = IF t = "uart1" THEN printed ELSE printed + 1
  /\ UNCHANGED <<State, Lock, ErrorCode, streams, txbuf, text, seen, errors>>

HalCall(t)  == \/ Enter(t) \/ TestLock(t) \/ SetLock(t) \/ ClearError(t) \/ ReadState(t)
               \/ WriteState(t) \/ StartDMA(t) \/ ReleaseLock(t)
Transmit(t) == Fill(t) \/ HalCall(t) \/ Return(t)

-----------------------------------------------------------------------------
(* The tasks.                                                              *)

\* A command was received and is executed: one echo.
ExcuteCommand ==
  /\ Goto("uart1", "command", "fill")
  /\ \E e \in Echoes : text' = [text EXCEPT !["uart1"] = e]
  /\ UNCHANGED <<State, Lock, ErrorCode, streams, txbuf, seen, printed, errors>>

\* The SPI transfer ethInitTask waits for is over, and it prints the next line.
Printk ==
  /\ printed < Printks
  /\ Goto("ethInit", "spi", "fill")
  /\ \E m \in Messages : text' = [text EXCEPT !["ethInit"] = m]
  /\ UNCHANGED <<State, Lock, ErrorCode, streams, txbuf, seen, printed, errors>>

\* osThreadTerminate at the end of StartEthInitTask.
ThreadTerminate ==
  /\ printed = Printks
  /\ Goto("ethInit", "spi", "terminated")
  /\ UNCHANGED <<State, Lock, ErrorCode, streams, txbuf, text, seen, printed, errors>>

-----------------------------------------------------------------------------
(* The interrupt handlers.                                                 *)

\* UART_DMATransmitCplt: the stream has moved the last byte.
DMATransmitCplt ==
  /\ tx = "dma"
  /\ tx' = "tc"
  /\ txlock' = FALSE
  /\ UNCHANGED <<State, Lock, ErrorCode, rx, out, txbuf, pc, text, seen, printed, errors>>

\* UART_EndTransmit_IT: the last byte has left.  HAL_UART_IRQHandler, whose last
\* call it is, makes the handle ready when an error has been noted.
EndTransmit_Ready == "READY"
EndTransmit_OtherHalf == IF State = "BUSY_TX_RX" THEN "BUSY_TX" ELSE "READY"
EndTransmit == IF State = "BUSY_TX_RX" THEN "BUSY_RX" ELSE "READY"

EndTransmit_IT ==
  /\ tx = "tc"
  /\ tx' = "off"
  /\ State' = IF ErrorCode THEN "READY" ELSE EndTransmit
  /\ UNCHANGED <<Lock, ErrorCode, rx, txlock, out, txbuf, pc, text, seen, printed, errors>>

\* HAL_UART_IRQHandler after any other interrupt of USART1: that of IDLE, which is
\* enabled with the first reception and stays so.
IdleAfterError ==
  /\ ErrorCode
  /\ rx \/ ~Receives("uart1")
  /\ State' = "READY"
  /\ UNCHANGED <<Lock, ErrorCode, streams, txbuf, pc, text, seen, printed, errors>>

\* UART_DMAReceiveCplt, and the restart by HAL_UART_RxCpltCallback, which does
\* nothing when the handle is locked.
AfterReceive_Ready == "READY"
AfterReceive == IF State = "BUSY_TX_RX" THEN "BUSY_TX" ELSE "READY"

DMAReceiveCplt ==
  /\ rx
  /\ IF Lock THEN rx' = FALSE /\ State' = AfterReceive /\ ErrorCode' = ErrorCode
     ELSE /\ rx' = TRUE
          /\ State' = IF AfterReceive = "BUSY_TX" THEN "BUSY_TX_RX" ELSE "BUSY_RX"
          /\ ErrorCode' = FALSE
  /\ UNCHANGED <<Lock, tx, txlock, out, txbuf, pc, text, seen, printed, errors>>

\* UART_DMAError, for either stream: the handle is made ready, whatever the other
\* stream is doing.
DMAError ==
  /\ errors < Errors
  /\ errors' = errors + 1
  /\ State' = "READY"
  /\ ErrorCode' = TRUE
  /\ UNCHANGED <<Lock, txbuf, pc, text, seen, printed>>

\* A transfer error stops the stream, and no transfer is complete; a FIFO error lets
\* it go on.
TransmitError ==
  /\ tx = "dma"
  /\ \/ tx' = "off" /\ out' = Mixed
     \/ UNCHANGED <<tx, out>>
  /\ txlock' = FALSE
  /\ DMAError
  /\ UNCHANGED rx

ReceiveError ==
  /\ rx
  /\ rx' \in BOOLEAN
  /\ DMAError
  /\ UNCHANGED <<tx, txlock, out>>

-----------------------------------------------------------------------------
Uart1      == Transmit("uart1") \/ ExcuteCommand
EthInit    == Transmit("ethInit") \/ Printk \/ ThreadTerminate
Interrupts == \/ DMATransmitCplt \/ EndTransmit_IT \/ IdleAfterError \/ DMAReceiveCplt
              \/ TransmitError \/ ReceiveError

Next == Uart1 \/ EthInit \/ Interrupts

Spec == Init /\ [][Next]_vars

\* The CPU goes to the task that may run, the SPI transfers of ethInitTask end,
\* and a transmission ends.  Neither the host nor the wire owes a reception.
Fairness ==
  /\ WF_vars(Transmit("uart1"))
  /\ WF_vars(EthInit)
  /\ WF_vars(DMATransmitCplt)
  /\ WF_vars(EndTransmit_IT)

FairSpec == Spec /\ Fairness

-----------------------------------------------------------------------------
(* Properties.                                                             *)

\* A task that has said in State that it transmits and has yet to start the stream.
Announced(t) == pc[t] \in {"start", "restart"} /\ ~Receives(t)

\* State never says that a transmission is on when none is, or is about to be
\* started by the task that has announced it, whatever errors the streams meet:
\* nobody waits for nothing.  And as long as there was no error it never says that
\* none is on when one is; in particular no interrupt that comes between the read
\* and the write of State makes it lose the transmission.
StateTellsTx ==
  /\ BusyTx => tx # "off" \/ \E t \in Task : Announced(t)
  /\ errors = 0 => (tx # "off" \/ (\E t \in Task : Announced(t)) => BusyTx)

\* A task between the lock and the unlock of a HAL call.
Holds(t) == pc[t] \in Locked

\* The handle is locked exactly while a task is between the lock and the unlock of
\* a HAL call, and never two are, although the test of Lock and its setting are two
\* steps and ethInitTask comes in between.  As long as there was no error, whoever
\* is about to set up the transmit stream finds it at rest.
HandleExclusive ==
  /\ Lock <=> \E t \in Task : Holds(t)
  /\ \A t, u \in Task : Holds(t) /\ Holds(u) => t = u
  /\ errors = 0 => \A t \in Task : Announced(t) => tx = "off"

\* As long as no stream has met an error, State never forgets a receiver that is on,
\* whatever order the end of a transmission, the end of a reception and the two
\* steps of ReadState and WriteState come in.
StateTellsRx == errors = 0 /\ rx => State \in {"BUSY_RX", "BUSY_TX_RX"}

\* ethInitTask has printed nothing yet and is not about to.
OneSender == printed = 0 /\ pc["ethInit"] \in AtRest

\* While uart1Task is the only sender and no stream has met an error, nothing that is
\* being sent is written over: the loop on State in UART_TransmitContent waits long
\* enough, also when the receive interrupt changes State meanwhile.
TxbufStable == [][errors = 0 /\ OneSender /\ tx = "dma" => txbuf' = txbuf]_vars

\* usart_common.c:124 "Transmit the control command echoes": when the call
\* returns, the echo has gone out, whole ...
EchoSent ==
  [][pc["uart1"] = "spin" /\ pc'["uart1"] = "command" => out = text["uart1"]]_vars

\* ... and that is so while uart1Task is the only sender, as long as no stream has
\* met an error.
EchoSentAlone ==
  [][errors = 0 /\ OneSender /\ pc["uart1"] = "spin" /\ pc'["uart1"] = "command" =>
       out = text["uart1"]]_vars

\* An echo once begun ends, when ethInitTask has ended before it, whatever errors the
\* streams meet.
EchoEnds ==
  pc["uart1"] = "fill" /\ pc["ethInit"] = "terminated" ~> pc["uart1"] = "command"

\* freertos.c:293 "Inititalize the network of ethernet modules": it gets done, and
\* the task ends.
EthInitTerminates == <>(pc["ethInit"] = "terminated")
=============================================================================
