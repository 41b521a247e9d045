--------------------------- MODULE UartHalProofs ----------------------------
(***************************************************************************)
(* State and Lock of huart1 agree with the streams and with the tasks, for *)
(* any texts, any number of printed lines and any number of errors of the  *)
(* streams.  The argument: State and Lock are tested, read and written in  *)
(* separate steps, but ethInitTask is not preempted, so what it has tested *)
(* stays so; and when uart1Task may move, ethInitTask is at rest, where it *)
(* leaves neither the lock nor a transmission behind.  An error breaks the *)
(* tie of State to the streams, not that of Lock to the tasks.             *)
(***************************************************************************)
EXTENDS UartHal, TLAPS

\* Each task keeps to its own steps, and sends only what it has a text for.
PcInv ==
  /\ pc["uart1"] \in Sender \cup {"command"}
  /\ pc["uart1"] \in {"fill", "spin"} => ~Receives("uart1")
  /\ pc["ethInit"] \in Sender \cup AtRest
  /\ pc["ethInit"] \in Sender => ~Receives("ethInit") /\ printed < Printks

\* ethInitTask, which nobody preempts, finds State and Lock as it left them.
TestsStillTrue ==
  /\ pc["ethInit"] \in {"test", "set", "clear", "read", "write"} => ~BusyTx
  /\ pc["ethInit"] = "set" => ~Lock

\* With ethInitTask at rest a transmission is one of uart1Task's.
RestInv ==
  pc["ethInit"] \in AtRest /\ BusyTx =>
    pc["uart1"] \in {"start", "restart", "unlock", "spin"} /\ ~Receives("uart1")

\* What uart1Task has read when it starts to receive is no transmission, and State
\* tells the receiver before it is on.
ArmInv ==
  Receives("uart1") =>
    /\ pc["uart1"] \in {"enter", "test", "set", "clear", "read", "write", "start"} => ~rx
    /\ pc["uart1"] = "write" => seen["uart1"] \notin {"BUSY_TX", "BUSY_TX_RX"}
    /\ pc["uart1"] = "start" /\ errors = 0 => State \in {"BUSY_RX", "BUSY_TX_RX"}

\* What was read of the receiver is still so when it is written, if it is on.
SeenInv == \A t \in Task : errors = 0 /\ pc[t] = "write" /\ rx => seen[t] = "BUSY_RX"

\* The transmit stream is locked while it runs, unless an error has released it, and
\* ErrorCode tells of nothing but errors.
StreamInv == /\ txlock => tx = "dma"
             /\ ErrorCode => errors # 0

\* While uart1Task is the only sender, from the formatting to the return nobody else
\* writes its text.
AloneInv ==
  errors = 0 /\ OneSender =>
    /\ pc["uart1"] \in Call \ {"unlock"} => txbuf = text["uart1"]
    /\ pc["uart1"] \in {"unlock", "spin"} \/ Receives("uart1") => out = text["uart1"]

IInv == /\ TypeOK /\ PcInv
        /\ StateTellsTx /\ HandleExclusive /\ StateTellsRx
        /\ TestsStillTrue /\ RestInv /\ ArmInv /\ SeenInv /\ StreamInv /\ AloneInv

USE UartAssumption DEF Task, Text, Busy, streams

-----------------------------------------------------------------------------
\* The invariant holds when the firmware starts.
LEMMA InitIInv == Init => IInv
<1> SUFFICES ASSUME Init PROVE IInv OBVIOUS
<1>1. TypeOK
  <2>1. /\ State \in {"READY"} \cup Busy
        /\ tx \in {"off", "dma", "tc"}
        /\ txbuf \in Text /\ out \in Text \cup {Mixed}
        /\ printed \in 0 .. Printks /\ errors \in 0 .. Errors
    BY DEF Init
  <2>2. /\ Lock \in BOOLEAN /\ ErrorCode \in BOOLEAN
        /\ rx \in BOOLEAN /\ txlock \in BOOLEAN
    BY DEF Init
  <2>3. pc \in [Task -> Sender \cup AtRest \cup {"command"}]
    BY DEF Init, Sender, Call, AtRest
  <2>4. text \in [Task -> Text] /\ seen \in [Task -> {"READY"} \cup Busy]
    BY DEF Init
  <2> QED BY <2>1, <2>2, <2>3, <2>4 DEF TypeOK
<1>2. PcInv BY DEF Init, PcInv, Sender, Call, Locked, AtRest
<1>3. StateTellsTx /\ HandleExclusive /\ StateTellsRx
  BY DEF Init, StateTellsTx, HandleExclusive, StateTellsRx, BusyTx, Announced, Holds, Locked
<1>4. TestsStillTrue /\ RestInv /\ ArmInv /\ SeenInv /\ StreamInv /\ AloneInv
  BY DEF Init, TestsStillTrue, RestInv, ArmInv, SeenInv, StreamInv, AloneInv, BusyTx
<1> QED BY <1>1, <1>2, <1>3, <1>4 DEF IInv

USE DEF BusyTx, Holds, Announced, Receives, OtherHalf, OwnHalf, Locked, Call, Sender,
        AtRest, Runs, Goto, Leave

\* Every step keeps the variables in their types and the tasks on their paths.
LEMMA TypeStep == IInv /\ [Next]_vars => TypeOK' /\ PcInv'
<1> SUFFICES ASSUME IInv, [Next]_vars PROVE TypeOK' /\ PcInv'
  OBVIOUS
<1> USE DEF IInv, TypeOK, PcInv
<1>1. ASSUME NEW t \in Task, Transmit(t) PROVE TypeOK' /\ PcInv'
  <2>1. CASE Fill(t) BY <2>1 DEF Fill
  <2>2. CASE Enter(t) BY <2>2 DEF Enter
  <2>3. CASE TestLock(t) BY <2>3 DEF TestLock
  <2>4. CASE SetLock(t) BY <2>4 DEF SetLock
  <2>5. CASE ClearError(t)
    <3>1. ErrorCode' \in BOOLEAN BY <2>5 DEF ClearError
    <3>2. /\ pc[t] = "clear" /\ pc' = [pc EXCEPT ![t] = "read"]
          /\ UNCHANGED <<State, Lock, streams, txbuf, text, seen, printed, errors>>
      BY <2>5 DEF ClearError
    <3> QED BY <3>1, <3>2
  <2>6. CASE ReadState(t) BY <2>6 DEF ReadState
  <2>7. CASE WriteState(t) BY <2>7 DEF WriteState
  <2>8. CASE StartTransmit(t) BY <2>8 DEF StartTransmit
  <2>9. CASE StreamBusy(t) BY <2>9 DEF StreamBusy
  <2>10. CASE CutShort(t) BY <2>10 DEF CutShort
  <2>11. CASE Restart(t) BY <2>11 DEF Restart
  <2>12. CASE StartReceive(t) BY <2>12 DEF StartReceive
  <2>13. CASE ReleaseLock(t)
    <3>1. Lock' \in BOOLEAN BY <2>13 DEF ReleaseLock
    <3>2. /\ pc[t] = "unlock"
          /\ pc' = [pc EXCEPT ![t] = IF Receives(t) THEN "command" ELSE "spin"]
          /\ UNCHANGED <<State, ErrorCode, streams, txbuf, text, seen, printed, errors>>
      BY <2>13 DEF ReleaseLock
    <3>3. CASE Receives(t) BY <3>1, <3>2, <3>3
    <3>4. CASE ~Receives(t) BY <3>1, <3>2, <3>4
    <3> QED BY <3>3, <3>4
  <2>14. CASE Return(t) BY <2>14 DEF Return
  <2> QED
    BY <1>1, <2>1, <2>2, <2>3, <2>4, <2>5, <2>6, <2>7, <2>8, <2>9, <2>10, <2>11, <2>12, <2>13,
       <2>14
    DEF Transmit, HalCall, StartDMA
<1>2. CASE ExcuteCommand BY <1>2 DEF ExcuteCommand
<1>3. CASE Printk BY <1>3 DEF Printk
<1>4. CASE ThreadTerminate BY <1>4 DEF ThreadTerminate
<1>5. CASE DMATransmitCplt
  <2>1. txlock' \in BOOLEAN BY <1>5 DEF DMATransmitCplt
  <2>2. /\ tx' = "tc"
        /\ UNCHANGED <<State, Lock, ErrorCode, rx, out, txbuf, pc, text, seen, printed,
                       errors>>
    BY <1>5 DEF DMATransmitCplt
  <2> QED BY <2>1, <2>2
<1>6. CASE EndTransmit_IT BY <1>6 DEF EndTransmit_IT, EndTransmit
<1>7. CASE IdleAfterError BY <1>7 DEF IdleAfterError
<1>8. CASE DMAReceiveCplt
  <2>1. rx' \in BOOLEAN /\ ErrorCode' \in BOOLEAN BY <1>8 DEF DMAReceiveCplt
  <2>2. /\ State' \in {"READY"} \cup Busy
        /\ UNCHANGED <<Lock, tx, txlock, out, txbuf, pc, text, seen, printed, errors>>
    BY <1>8 DEF DMAReceiveCplt, AfterReceive
  <2> QED BY <2>1, <2>2
<1>9. CASE TransmitError
  <2>1. txlock' \in BOOLEAN /\ ErrorCode' \in BOOLEAN
    BY <1>9 DEF TransmitError, DMAError
  <2>2. /\ State' = "READY" /\ tx' \in {"off", "dma", "tc"} /\ out' \in Text \cup {Mixed}
        /\ errors' \in 0 .. Errors
        /\ UNCHANGED <<Lock, rx, txbuf, pc, text, seen, printed>>
    BY <1>9 DEF TransmitError, DMAError
  <2> QED BY <2>1, <2>2
<1>10. CASE ReceiveError BY <1>10 DEF ReceiveError, DMAError
<1>11. CASE UNCHANGED vars BY <1>11 DEF vars
<1> QED
  BY <1>1, <1>2, <1>3, <1>4, <1>5, <1>6, <1>7, <1>8, <1>9, <1>10, <1>11
  DEF Next, Uart1, EthInit, Interrupts

-----------------------------------------------------------------------------
(* The part of the invariant that ties the handle to the tasks.            *)
Coupled == /\ StateTellsTx /\ HandleExclusive /\ StateTellsRx
           /\ TestsStillTrue /\ RestInv /\ ArmInv /\ SeenInv /\ StreamInv

\* The steps of UART_TransmitContent and of the HAL calls keep it.
LEMMA TransmitStep ==
  ASSUME IInv, NEW t \in Task, Transmit(t)
  PROVE  Coupled'
<1> USE DEF IInv, TypeOK, PcInv
<1>1. CASE Fill(t)
  BY <1>1 DEF Fill, Coupled, StateTellsTx, HandleExclusive, StateTellsRx,
              TestsStillTrue, RestInv, ArmInv, SeenInv, StreamInv
<1>2. CASE Enter(t)
  BY <1>2 DEF Enter, Coupled, StateTellsTx, HandleExclusive, StateTellsRx,
              TestsStillTrue, RestInv, ArmInv, SeenInv, StreamInv
<1>3. CASE TestLock(t)
  BY <1>3 DEF TestLock, Coupled, StateTellsTx, HandleExclusive, StateTellsRx,
              TestsStillTrue, RestInv, ArmInv, SeenInv, StreamInv
<1>4. CASE SetLock(t)
  BY <1>4 DEF SetLock, Coupled, StateTellsTx, HandleExclusive, StateTellsRx,
              TestsStillTrue, RestInv, ArmInv, SeenInv, StreamInv
<1>5. CASE ClearError(t)
  BY <1>5 DEF ClearError, Coupled, StateTellsTx, HandleExclusive, StateTellsRx,
              TestsStillTrue, RestInv, ArmInv, SeenInv, StreamInv
<1>6. CASE ReadState(t)
  BY <1>6 DEF ReadState, Coupled, StateTellsTx, HandleExclusive, StateTellsRx,
              TestsStillTrue, RestInv, ArmInv, SeenInv, StreamInv
<1>7. CASE WriteState(t)
  BY <1>7 DEF WriteState, Coupled, StateTellsTx, HandleExclusive, StateTellsRx,
              TestsStillTrue, RestInv, ArmInv, SeenInv, StreamInv
<1>8. CASE StartTransmit(t)
  BY <1>8 DEF StartTransmit, Coupled, StateTellsTx, HandleExclusive, StateTellsRx,
              TestsStillTrue, RestInv, ArmInv, SeenInv, StreamInv
<1>9. CASE StreamBusy(t)
  BY <1>9 DEF StreamBusy, Coupled, StateTellsTx, HandleExclusive, StateTellsRx,
              TestsStillTrue, RestInv, ArmInv, SeenInv, StreamInv
<1>10. CASE CutShort(t)
  BY <1>10 DEF CutShort, Coupled, StateTellsTx, HandleExclusive, StateTellsRx,
              TestsStillTrue, RestInv, ArmInv, SeenInv, StreamInv
<1>11. CASE Restart(t)
  BY <1>11 DEF Restart, Coupled, StateTellsTx, HandleExclusive, StateTellsRx,
              TestsStillTrue, RestInv, ArmInv, SeenInv, StreamInv
<1>12. CASE StartReceive(t)
  BY <1>12 DEF StartReceive, Coupled, StateTellsTx, HandleExclusive, StateTellsRx,
              TestsStillTrue, RestInv, ArmInv, SeenInv, StreamInv
<1>13. CASE ReleaseLock(t)
  BY <1>13 DEF ReleaseLock, Coupled, StateTellsTx, HandleExclusive, StateTellsRx,
              TestsStillTrue, RestInv, ArmInv, SeenInv, StreamInv
<1>14. CASE Return(t)
  BY <1>14 DEF Return, Waiting, Coupled, StateTellsTx, HandleExclusive, StateTellsRx,
              TestsStillTrue, RestInv, ArmInv, SeenInv, StreamInv
<1> QED
  BY <1>1, <1>2, <1>3, <1>4, <1>5, <1>6, <1>7, <1>8, <1>9, <1>10, <1>11, <1>12, <1>13, <1>14
  DEF Transmit, HalCall, StartDMA

\* So do the other steps of the two tasks.
LEMMA TaskStep ==
  ASSUME IInv, ExcuteCommand \/ Printk \/ ThreadTerminate
  PROVE  Coupled'
<1> USE DEF IInv, TypeOK, PcInv
<1>1. CASE ExcuteCommand
  BY <1>1 DEF ExcuteCommand, Coupled, StateTellsTx, HandleExclusive, StateTellsRx,
              TestsStillTrue, RestInv, ArmInv, SeenInv, StreamInv
<1>2. CASE Printk
  BY <1>2 DEF Printk, Coupled, StateTellsTx, HandleExclusive, StateTellsRx,
              TestsStillTrue, RestInv, ArmInv, SeenInv, StreamInv
<1>3. CASE ThreadTerminate
  BY <1>3 DEF ThreadTerminate, Coupled, StateTellsTx, HandleExclusive, StateTellsRx,
              TestsStillTrue, RestInv, ArmInv, SeenInv, StreamInv
<1> QED BY <1>1, <1>2, <1>3

\* And the interrupt handlers.
LEMMA InterruptStep ==
  ASSUME IInv, Interrupts
  PROVE  Coupled'
<1> USE DEF IInv, TypeOK, PcInv
<1>1. CASE DMATransmitCplt
  BY <1>1 DEF DMATransmitCplt, Coupled, StateTellsTx, HandleExclusive, StateTellsRx,
              TestsStillTrue, RestInv, ArmInv, SeenInv, StreamInv
<1>2. CASE EndTransmit_IT
  BY <1>2 DEF EndTransmit_IT, EndTransmit, Coupled, StateTellsTx, HandleExclusive, StateTellsRx,
              TestsStillTrue, RestInv, ArmInv, SeenInv, StreamInv
<1>3. CASE IdleAfterError
  BY <1>3 DEF IdleAfterError, Coupled, StateTellsTx, HandleExclusive, StateTellsRx,
              TestsStillTrue, RestInv, ArmInv, SeenInv, StreamInv
<1>4. CASE DMAReceiveCplt
  BY <1>4 DEF DMAReceiveCplt, AfterReceive, Coupled, StateTellsTx, HandleExclusive, StateTellsRx,
              TestsStillTrue, RestInv, ArmInv, SeenInv, StreamInv
<1>5. CASE TransmitError
  BY <1>5 DEF TransmitError, DMAError, Coupled, StateTellsTx, HandleExclusive, StateTellsRx,
              TestsStillTrue, RestInv, ArmInv, SeenInv, StreamInv
<1>6. CASE ReceiveError
  BY <1>6 DEF ReceiveError, DMAError, Coupled, StateTellsTx, HandleExclusive, StateTellsRx,
              TestsStillTrue, RestInv, ArmInv, SeenInv, StreamInv
<1> QED BY <1>1, <1>2, <1>3, <1>4, <1>5, <1>6 DEF Interrupts

-----------------------------------------------------------------------------
\* With one sender the text goes from the buffer to the wire undisturbed.
LEMMA AloneStep == IInv /\ [Next]_vars => AloneInv'
<1> SUFFICES ASSUME IInv, [Next]_vars PROVE AloneInv' OBVIOUS
<1> USE DEF IInv, TypeOK, PcInv, AloneInv, OneSender
<1>1. CASE Transmit("uart1")
  <2>1. CASE Fill("uart1") BY <2>1 DEF Fill
  <2>2. CASE Enter("uart1") BY <2>2 DEF Enter, RestInv
  <2>3. CASE TestLock("uart1") BY <2>3 DEF TestLock, HandleExclusive
  <2>4. CASE SetLock("uart1") BY <2>4 DEF SetLock
  <2>5. CASE ClearError("uart1") BY <2>5 DEF ClearError
  <2>6. CASE ReadState("uart1") BY <2>6 DEF ReadState
  <2>7. CASE WriteState("uart1") BY <2>7 DEF WriteState
  <2>8. CASE StartTransmit("uart1") BY <2>8 DEF StartTransmit
  <2>9. CASE StreamBusy("uart1") BY <2>9 DEF StreamBusy, HandleExclusive, StreamInv
  <2>10. CASE CutShort("uart1") BY <2>10 DEF CutShort, HandleExclusive
  <2>11. CASE Restart("uart1") BY <2>11 DEF Restart
  <2>12. CASE StartReceive("uart1") BY <2>12 DEF StartReceive
  <2>13. CASE ReleaseLock("uart1") BY <2>13 DEF ReleaseLock
  <2>14. CASE Return("uart1") BY <2>14 DEF Return, Waiting
  <2> QED
    BY <1>1, <2>1, <2>2, <2>3, <2>4, <2>5, <2>6, <2>7, <2>8, <2>9, <2>10, <2>11, <2>12, <2>13,
       <2>14
    DEF Transmit, HalCall, StartDMA
<1>2. CASE Transmit("ethInit")
  BY <1>2 DEF Transmit, Fill, HalCall, Enter, TestLock, SetLock, ClearError, ReadState, WriteState,
              StartDMA, StartTransmit, StreamBusy, CutShort, Restart, StartReceive,
              ReleaseLock, Return
<1>3. CASE ExcuteCommand BY <1>3 DEF ExcuteCommand
<1>4. CASE Printk \/ ThreadTerminate BY <1>4 DEF Printk, ThreadTerminate
<1>5. CASE Interrupts
  BY <1>5 DEF Interrupts, DMATransmitCplt, EndTransmit_IT, IdleAfterError, DMAReceiveCplt,
              TransmitError, ReceiveError, DMAError
<1>6. CASE UNCHANGED vars BY <1>6 DEF vars
<1> QED BY <1>1, <1>2, <1>3, <1>4, <1>5, <1>6 DEF Next, Uart1, EthInit

\* Every step keeps the invariant.
LEMMA NextIInv == IInv /\ [Next]_vars => IInv'
<1> SUFFICES ASSUME IInv, [Next]_vars PROVE IInv' OBVIOUS
<1>1. TypeOK' /\ PcInv' BY TypeStep
<1>2. AloneInv' BY AloneStep
<1>3. Coupled'
  <2>1. CASE UNCHANGED vars
    BY <2>1 DEF vars, IInv, Coupled, StateTellsTx, HandleExclusive, StateTellsRx,
              TestsStillTrue, RestInv, ArmInv, SeenInv, StreamInv
  <2>2. CASE Next
    BY <2>2, TransmitStep, TaskStep, InterruptStep DEF Next, Uart1, EthInit
  <2> QED BY <2>1, <2>2
<1> QED BY <1>1, <1>2, <1>3 DEF IInv, Coupled

-----------------------------------------------------------------------------
\* The invariant holds in every state of the firmware.
THEOREM Invariance == Spec => []IInv
BY InitIInv, NextIInv, PTL DEF Spec

\* State, Lock, the streams, the tasks and the texts keep their types.
THEOREM TypeCorrect == Spec => []TypeOK
<1>1. IInv => TypeOK BY DEF IInv
<1> QED BY <1>1, Invariance, PTL

\* State never keeps a transmission that is over, and without errors of the streams
\* never loses one, although HAL_UART_Transmit_DMA reads and writes it in separate
\* steps.
THEOREM StateTracksTx == Spec => []StateTellsTx
<1>1. IInv => StateTellsTx BY DEF IInv
<1> QED BY <1>1, Invariance, PTL

\* Two tasks are never both between the lock and the unlock of a HAL call on huart1,
\* although __HAL_LOCK tests and sets in separate steps, and without errors the
\* transmit stream is set up only at rest.
THEOREM OneHolder == Spec => []HandleExclusive
<1>1. IInv => HandleExclusive BY DEF IInv
<1> QED BY <1>1, Invariance, PTL

\* Without errors of the streams State never forgets a receiver that is on.
THEOREM StateTracksRx == Spec => []StateTellsRx
<1>1. IInv => StateTellsRx BY DEF IInv
<1> QED BY <1>1, Invariance, PTL

\* With one sender and no errors, txbuf is not written while it is being sent.
THEOREM TextStable == Spec => TxbufStable
<1>1. IInv /\ [Next]_vars => [errors = 0 /\ OneSender /\ tx = "dma" => txbuf' = txbuf]_vars
  <2> SUFFICES ASSUME IInv, [Next]_vars, errors = 0, OneSender, tx = "dma",
                      txbuf' # txbuf
               PROVE  FALSE
    OBVIOUS
  <2>1. PICK t \in Task : Fill(t)
    BY DEF Next, Uart1, EthInit, Interrupts, Transmit, HalCall, Enter, TestLock, SetLock,
           ClearError, ReadState, WriteState, StartDMA, StartTransmit, StreamBusy,
           CutShort, Restart, StartReceive, ReleaseLock, Return, ExcuteCommand, Printk,
           ThreadTerminate, DMATransmitCplt, EndTransmit_IT, IdleAfterError,
           DMAReceiveCplt, TransmitError, ReceiveError, DMAError, vars
  <2>2. pc["uart1"] = "fill" BY <2>1 DEF Fill, OneSender
  <2>3. BusyTx BY DEF IInv, StateTellsTx
  <2> QED BY <2>2, <2>3 DEF IInv, RestInv, OneSender
<1> QED BY <1>1, Invariance, PTL DEF Spec, TxbufStable

\* With one sender and no errors, an echo has gone out whole when EchoCommand returns.
THEOREM EchoesSent == Spec => EchoSentAlone
<1>1. IInv /\ [Next]_vars =>
        [errors = 0 /\ OneSender /\ pc["uart1"] = "spin" /\ pc'["uart1"] = "command" =>
           out = text["uart1"]]_vars
  BY DEF IInv, AloneInv
<1> QED BY <1>1, Invariance, PTL DEF Spec, EchoSentAlone
-----------------------------------------------------------------------------
(* How the loops on State end, and the one way in which one does not.      *)

\* ethInitTask waits for the end of a transmission that uart1Task has announced in
\* State and cannot begin, because ethInitTask has the CPU.
Stuck == pc["ethInit"] = "spin" /\ Announced("uart1")

\* Whoever waits, waits for a transmission that is on or that ethInitTask is about to
\* begin, or it is stuck.
WaitsForSomething ==
  \A t \in Task : pc[t] = "spin" /\ BusyTx =>
    tx # "off" \/ Announced("ethInit") \/ Stuck

\* Steps of a call of UART_TransmitContent, and of its transmission, that are left.
Place(t) ==
  CASE pc[t] = "fill"    -> 10
    [] pc[t] = "enter"   -> 9
    [] pc[t] = "test"    -> 8
    [] pc[t] = "set"     -> 7
    [] pc[t] = "clear"   -> 6
    [] pc[t] = "read"    -> 5
    [] pc[t] = "write"   -> 4
    [] pc[t] = "start"   -> 3
    [] pc[t] = "restart" -> 2
    [] pc[t] = "unlock"  -> 1
    [] OTHER -> 0
Wire == CASE tx = "dma" -> 2 [] tx = "tc" -> 1 [] OTHER -> 0
StepsLeft(t) == 3 * Place(t) + Wire

\* While the other task stays where it is, a task is in a call for so many steps at
\* the most, those of the interrupts included; neither receiving nor an error of a
\* stream makes the call longer.
CallIsShort ==
  [][\A t, u \in Task : t # u /\ pc'[u] = pc[u] /\ {pc[t], pc'[t]} \subseteq Sender =>
       /\ StepsLeft(t) \in 0 .. 32 /\ StepsLeft(t)' <= StepsLeft(t)
       /\ pc'[t] # pc[t] \/ tx' # tx => StepsLeft(t)' < StepsLeft(t)]_vars

\* Stuck is for ever, unless a stream meets an error.  (EthInitTerminates is violated
\* in this state; here it is shown that nothing leads out of it, whatever is
\* received.)
THEOREM StuckForEver == Spec => [][errors = 0 /\ Stuck => Stuck']_vars
<1>1. IInv /\ [Next]_vars => [errors = 0 /\ Stuck => Stuck']_vars
  <2> SUFFICES ASSUME IInv, Next, errors = 0, Stuck PROVE Stuck'
    OBVIOUS
  <2>1. BusyTx /\ tx = "off" BY DEF IInv, StateTellsTx, HandleExclusive, Stuck
  <2>2. pc["ethInit"] = "spin" /\ pc["uart1"] \in {"start", "restart"} /\ ~Receives("uart1")
    BY DEF Stuck
  <2>3. ~Uart1
    BY <2>2 DEF Uart1, Transmit, HalCall, Fill, Enter, TestLock, SetLock, ClearError,
           ReadState, WriteState, StartDMA, StartTransmit, StreamBusy, CutShort, Restart,
           StartReceive, ReleaseLock, Return, ExcuteCommand
  <2>4. ~EthInit
    BY <2>1, <2>2 DEF EthInit, Transmit, HalCall, Fill, Enter, TestLock, SetLock, ClearError,
           ReadState, WriteState, StartDMA, StartTransmit, StreamBusy, CutShort, Restart,
           StartReceive, ReleaseLock, Return,
           Waiting, Printk, ThreadTerminate
  <2>5. UNCHANGED <<pc, text>>
    BY <2>1, <2>3, <2>4 DEF Next, Interrupts, DMATransmitCplt, EndTransmit_IT,
           IdleAfterError, DMAReceiveCplt, TransmitError, ReceiveError, DMAError
  <2> QED BY <2>2, <2>5 DEF Stuck
<1> QED BY <1>1, Invariance, PTL DEF Spec

\* A loop on State waits for a transmission, except in that state: it is the only
\* way in which UART_TransmitContent hangs.
THEOREM NoEmptyWait == Spec => []WaitsForSomething
<1>1. ASSUME IInv PROVE WaitsForSomething
  <2> SUFFICES ASSUME NEW t \in Task, pc[t] = "spin", BusyTx, tx = "off"
               PROVE  Announced("ethInit") \/ Stuck
    BY DEF WaitsForSomething
  <2>1. PICK u \in Task : Announced(u) BY <1>1 DEF IInv, StateTellsTx
  <2> QED BY <2>1 DEF Stuck
<1> QED BY <1>1, Invariance, PTL

\* A call of UART_TransmitContent takes a bounded number of steps.
THEOREM CallsShort == Spec => CallIsShort
<1> DEFINE A == \A t, u \in Task :
                  t # u /\ pc'[u] = pc[u] /\ {pc[t], pc'[t]} \subseteq Sender =>
                    /\ StepsLeft(t) \in 0 .. 32 /\ StepsLeft(t)' <= StepsLeft(t)
                    /\ pc'[t] # pc[t] \/ tx' # tx => StepsLeft(t)' < StepsLeft(t)
<1>1. IInv /\ [Next]_vars => [A]_vars
  <2> SUFFICES ASSUME IInv, Next, NEW t \in Task, NEW u \in Task, t # u, pc'[u] = pc[u],
                      {pc[t], pc'[t]} \subseteq Sender
               PROVE  /\ StepsLeft(t) \in 0 .. 32 /\ StepsLeft(t)' <= StepsLeft(t)
                      /\ pc'[t] # pc[t] \/ tx' # tx => StepsLeft(t)' < StepsLeft(t)
    OBVIOUS
  <2>1. Place(t) \in 0 .. 10 /\ Wire \in 0 .. 2 BY DEF Place, Wire
  <2>2. \A v \in Task : pc[v] # pc'[v] => v = t BY DEF Task
  <2>3. \/ pc' = pc /\ tx' = tx
        \/ pc' = pc /\ tx = "dma" /\ tx' \in {"tc", "off"}
        \/ pc' = pc /\ tx = "tc" /\ tx' = "off"
        \/ Place(t)' < Place(t) /\ tx' \in {tx, "dma", "tc"}
    <3>1. CASE Interrupts
      BY <3>1 DEF Interrupts, DMATransmitCplt, EndTransmit_IT, IdleAfterError,
             DMAReceiveCplt, TransmitError, ReceiveError, DMAError
    <3>2. ASSUME NEW v \in Task, Transmit(v)
          PROVE  Place(t)' < Place(t) /\ tx' \in {tx, "dma", "tc"}
      <4> USE DEF IInv, TypeOK
      <4>1. pc'[v] # pc[v]
        BY <3>2 DEF Transmit, HalCall, Fill, Enter, TestLock, SetLock, ClearError,
                    ReadState, WriteState, StartDMA, StartTransmit, StreamBusy, CutShort, Restart,
                    StartReceive, ReleaseLock, Return
      <4>2. v = t BY <2>2, <4>1
      <4>3. CASE Return(t) BY <4>3 DEF Return
      <4>4. CASE Fill(t) \/ Enter(t) \/ TestLock(t) \/ SetLock(t)
        BY <4>4 DEF Fill, Enter, TestLock, SetLock, Place
      <4>5. CASE ClearError(t) \/ ReadState(t) \/ WriteState(t) \/ ReleaseLock(t)
        BY <4>5 DEF ClearError, ReadState, WriteState, ReleaseLock, Place
      <4>6. CASE StartDMA(t)
        BY <4>6 DEF StartDMA, StartTransmit, StreamBusy, CutShort, Restart, StartReceive,
                    Place
      <4> QED BY <3>2, <4>2, <4>3, <4>4, <4>5, <4>6 DEF Transmit, HalCall
    <3>3. CASE ExcuteCommand
      BY <3>3, <2>2 DEF ExcuteCommand, IInv, TypeOK
    <3>4. CASE Printk \/ ThreadTerminate
      BY <3>4, <2>2 DEF Printk, ThreadTerminate, IInv, TypeOK
    <3> QED BY <3>1, <3>2, <3>3, <3>4 DEF Next, Uart1, EthInit
  <2>4. Place(t)' \in 0 .. 10 /\ Wire' \in 0 .. 2 BY DEF Place, Wire
  <2>5. pc' = pc => Place(t)' = Place(t) BY DEF Place
  <2>6. tx' = tx => Wire' = Wire BY DEF Wire
  <2> QED BY <2>1, <2>3, <2>4, <2>5, <2>6 DEF StepsLeft, Wire
<1> QED BY <1>1, Invariance, PTL DEF Spec, CallIsShort

-----------------------------------------------------------------------------
(* After ethInitTask.  EchoSent, which TLC finds violated, holds of every  *)
(* echo that begins when ethInitTask has ended, whatever it left behind.   *)

\* ethInitTask has ended, no stream has met an error, and txbuf or what went out of it
\* is the text that uart1Task sends.  This is so of an echo that has yet to be formatted.
Undisturbed ==
  /\ errors = 0 /\ pc["ethInit"] = "terminated" /\ ~Receives("uart1")
  /\ pc["uart1"] \in Call \ {"unlock"} => txbuf = text["uart1"]
  /\ pc["uart1"] \in {"unlock", "spin"} => out = text["uart1"]

EchoSentAfterwards ==
  [][/\ pc["uart1"] = "fill" /\ pc["ethInit"] = "terminated" /\ errors = 0 => Undisturbed
     /\ Undisturbed /\ pc["uart1"] # "command" /\ errors' = 0 => Undisturbed'
     /\ Undisturbed /\ pc["uart1"] = "spin" /\ pc'["uart1"] = "command" =>
          out = text["uart1"]]_vars

LEMMA UndisturbedStep ==
  ASSUME IInv, [Next]_vars, Undisturbed, errors' = 0, pc["uart1"] # "command"
  PROVE  Undisturbed'
<1> USE DEF IInv, TypeOK, PcInv, Undisturbed
<1>1. CASE Transmit("uart1")
  <2>1. CASE Fill("uart1") BY <2>1 DEF Fill
  <2>2. CASE Enter("uart1") BY <2>2 DEF Enter, RestInv
  <2>3. CASE TestLock("uart1") BY <2>3 DEF TestLock, HandleExclusive
  <2>4. CASE SetLock("uart1") BY <2>4 DEF SetLock
  <2>5. CASE ClearError("uart1") BY <2>5 DEF ClearError
  <2>6. CASE ReadState("uart1") BY <2>6 DEF ReadState
  <2>7. CASE WriteState("uart1") BY <2>7 DEF WriteState
  <2>8. CASE StartTransmit("uart1") BY <2>8 DEF StartTransmit
  <2>9. CASE StreamBusy("uart1") BY <2>9 DEF StreamBusy, HandleExclusive, StreamInv
  <2>10. CASE CutShort("uart1") BY <2>10 DEF CutShort, HandleExclusive
  <2>11. CASE Restart("uart1") BY <2>11 DEF Restart
  <2>12. CASE StartReceive("uart1") BY <2>12 DEF StartReceive
  <2>13. CASE ReleaseLock("uart1") BY <2>13 DEF ReleaseLock
  <2>14. CASE Return("uart1") BY <2>14 DEF Return
  <2> QED
    BY <1>1, <2>1, <2>2, <2>3, <2>4, <2>5, <2>6, <2>7, <2>8, <2>9, <2>10, <2>11, <2>12, <2>13,
       <2>14
    DEF Transmit, HalCall, StartDMA
<1>2. CASE EthInit
  BY <1>2 DEF EthInit, Transmit, HalCall, Fill, Enter, TestLock, SetLock, ClearError,
              ReadState, WriteState, StartDMA, StartTransmit, StreamBusy, CutShort, Restart,
              StartReceive, ReleaseLock, Return,
              Printk, ThreadTerminate
<1>3. CASE ExcuteCommand BY <1>3 DEF ExcuteCommand
<1>4. CASE Interrupts
  BY <1>4 DEF Interrupts, DMATransmitCplt, EndTransmit_IT, IdleAfterError, DMAReceiveCplt,
              TransmitError, ReceiveError, DMAError
<1>5. CASE UNCHANGED vars BY <1>5 DEF vars
<1> QED BY <1>1, <1>2, <1>3, <1>4, <1>5 DEF Next, Uart1

\* An echo that begins after ethInitTask has ended goes out whole, if no stream meets
\* an error.
THEOREM EchoesSentAfterwards == Spec => EchoSentAfterwards
<1>1. IInv /\ [Next]_vars =>
        [/\ pc["uart1"] = "fill" /\ pc["ethInit"] = "terminated" /\ errors = 0 =>
             Undisturbed
         /\ Undisturbed /\ pc["uart1"] # "command" /\ errors' = 0 => Undisturbed'
         /\ Undisturbed /\ pc["uart1"] = "spin" /\ pc'["uart1"] = "command" =>
              out = text["uart1"]]_vars
  <2> SUFFICES ASSUME IInv, [Next]_vars
               PROVE  /\ pc["uart1"] = "fill" /\ pc["ethInit"] = "terminated" /\ errors = 0 =>
                           Undisturbed
                      /\ Undisturbed /\ pc["uart1"] # "command" /\ errors' = 0 => Undisturbed'
                      /\ Undisturbed /\ pc["uart1"] = "spin" => out = text["uart1"]
    OBVIOUS
  <2>1. /\ pc["uart1"] = "fill" /\ pc["ethInit"] = "terminated" /\ errors = 0 => Undisturbed
        /\ Undisturbed /\ pc["uart1"] = "spin" => out = text["uart1"]
    BY DEF Undisturbed, IInv, PcInv
  <2> QED BY <2>1, UndisturbedStep
<1> QED BY <1>1, Invariance, PTL DEF Spec, EchoSentAfterwards
=============================================================================
