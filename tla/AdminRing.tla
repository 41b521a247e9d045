----------------------------- MODULE AdminRing ------------------------------
(***************************************************************************)
(* Reception on the admin port (USART1): the DMA fills a row of uart1_buf, *)
(* the IDLE interrupt posts a row that ends in CR LF to the queue qUart1   *)
(* and moves uart_buf to the next row, the transfer-complete interrupt     *)
(* restarts the DMA, and uart1Task takes rows from the queue and parses    *)
(* them.  (Src/usart_common.c, Src/freertos.c, Src/admin_interface.c, the  *)
(* HAL and the FreeRTOS queue as far as this path calls them.)             *)
(*                                                                         *)
(* A row is Depth cells, and a cell holds one chunk of at least two bytes, *)
(* told apart only by how it ends: the code looks at nothing but the last  *)
(* two bytes received.  Interrupts of USART1 and of the DMA have the same  *)
(* priority, so a handler runs to its end before the task or the other     *)
(* handler moves; the hardware keeps receiving meanwhile, which is why the *)
(* IDLE handler is two steps, around the call of HAL_DMA_Abort.            *)
(***************************************************************************)
EXTENDS Integers, Sequences, Functions

CONSTANTS MAX_COUNT,   \* MAX_COUNT_UART1_BUF, rows declared
          Depth,       \* chunks that fill a row (MAX_DEPTH_UART1_BUF bytes)
          QLen,        \* length of qUart1
          Chunks,      \* chunks the host sends
          Ahead        \* what the bytes ahead of uart1_buf may look like

Nul == "nul"           \* a cell never written: uart1_buf is zero at start

ASSUME RingAssumption ==
  /\ QLen \in Nat \ {0}
  /\ Depth \in Nat \ {0}
  /\ MAX_COUNT \in Nat
  /\ MAX_COUNT >= QLen + 3
  /\ Chunks \subseteq {"text", "lf", "crlf"}
  /\ Ahead \subseteq {"nul", "text", "lf", "crlf"} /\ Ahead # {}

VARIABLES
  uart1_buf,  \* the rows: what each cell holds
  uart_buf,   \* row the next reception will use
  dma,        \* the receive stream: [on, row it writes, cells written]
  tcif,       \* transfer-complete interrupt of the stream is pending
  line,       \* USART1: [fresh bytes since the last idle, IDLE flag, IDLEIE]
  isr,        \* the IDLE handler: "none", or "abort" before HAL_DMA_Abort
  qUart1,     \* rows posted to the task
  task,       \* where uart1Task is
  pcommand,   \* row uart1Task got last
  Lock,       \* huart1.Lock: the task in a HAL call on the handle, or "none"
  failed      \* a transfer error has stopped the stream

vars == <<uart1_buf, uart_buf, dma, tcif, line, isr, qUart1, task, pcommand, Lock,
          failed>>

LastRow == MAX_COUNT - 2
Row     == 0 .. LastRow
Cell    == Chunks \cup {Nul}

TypeOK ==
  /\ uart1_buf \in [Row -> [1 .. Depth -> Cell]]
  /\ uart_buf \in Row
  /\ dma \in [on : BOOLEAN, row : Row, count : 0 .. Depth]
  /\ tcif \in BOOLEAN
  /\ line \in [fresh : BOOLEAN, idle : BOOLEAN, idleie : BOOLEAN]
  /\ isr \in {"none", "abort"}
  /\ qUart1 \in Seq(Row)
  /\ Len(qUart1) <= QLen
  /\ task \in {"init", "arm", "wait", "parse", "exec", "xmit"}
  /\ pcommand \in Row
  /\ Lock \in {"none", "uart1", "ethInit"}
  /\ failed \in BOOLEAN

Init ==
  /\ uart1_buf = [r \in Row |-> [i \in 1 .. Depth |-> Nul]]
  /\ uart_buf = 0
  /\ dma = [on |-> FALSE, row |-> 0, count |-> 0]
  /\ tcif = FALSE
  /\ line = [fresh |-> FALSE, idle |-> FALSE, idleie |-> FALSE]
  /\ isr = "none"
  /\ qUart1 = <<>>
  /\ task = "init"
  /\ pcommand = 0
  /\ Lock = "none"
  /\ failed = FALSE

-----------------------------------------------------------------------------
(* The wire and the DMA hardware.                                          *)

\* A chunk arrives and the stream stores it; a full row completes the transfer.
Receive(c) ==
  /\ dma.on
  /\ uart1_buf' = [uart1_buf EXCEPT ![dma.row][dma.count + 1] = c]
  /\ dma' = [on |-> dma.count + 1 < Depth, row |-> dma.row, count |-> dma.count + 1]
  /\ tcif' = (tcif \/ dma.count + 1 = Depth)
  /\ line' = [line EXCEPT !.fresh = TRUE]
  /\ UNCHANGED <<uart_buf, isr, qUart1, task, pcommand, Lock, failed>>

\* A chunk arrives while the stream is disabled: it is lost, the line was busy.
ReceiveLost ==
  /\ ~dma.on
  /\ line' = [line EXCEPT !.fresh = TRUE]
  /\ UNCHANGED <<uart1_buf, uart_buf, dma, tcif, isr, qUart1, task, pcommand,
                 Lock, failed>>

\* The line falls silent for a frame after some bytes: the IDLE flag.
LineIdle ==
  /\ line.fresh
  /\ line' = [line EXCEPT !.fresh = FALSE, !.idle = TRUE]
  /\ UNCHANGED <<uart1_buf, uart_buf, dma, tcif, isr, qUart1, task, pcommand,
                 Lock, failed>>

\* A transfer error: the stream is disabled, and no transfer is complete.  Of the
\* handlers behind it, HAL_DMA_IRQHandler and UART_DMAError, none restarts it; that
\* they make huart1 ready keeps no reception from starting.  (A FIFO error calls
\* them too, and the stream goes on.)
TransferError ==
  /\ dma.on
  /\ dma' = [dma EXCEPT !.on = FALSE]
  /\ failed' = TRUE
  /\ UNCHANGED <<uart1_buf, uart_buf, tcif, line, isr, qUart1, task, pcommand,
                 Lock>>

-----------------------------------------------------------------------------
(* The interrupt handlers.                                                 *)

\* What the last bytes received look like to My_HAL_UART_IdleCallback, which
\* finds them from NDTR: in the row at uart_buf, or, when no byte was counted,
\* just before it, at the end of the previous row or ahead of uart1_buf.
LastChunk ==
  IF dma.count > 0 THEN {uart1_buf[uart_buf][dma.count]}
  ELSE IF uart_buf > 0 THEN {uart1_buf[uart_buf - 1][Depth]}
  ELSE Ahead

NextRow_OffByOne(r) == IF r > LastRow THEN 0 ELSE r + 1
NextRow_OneRowLess(r) == IF r + 1 > LastRow - 1 THEN 0 ELSE r + 1
NextRow(r) == IF r + 1 > LastRow THEN 0 ELSE r + 1

xQueueIsQueueFullFromISR == Len(qUart1) = QLen

osMessagePut(r) == IF Len(qUart1) < QLen THEN Append(qUart1, r) ELSE qUart1

\* USART1_IRQHandler up to HAL_DMA_Abort: a CR LF row is posted and the row
\* pointer moves, unless the queue is full.
IdleCallback ==
  /\ isr = "none"
  /\ line.idle /\ line.idleie
  /\ \E c \in LastChunk :
       /\ c \in {"lf", "crlf"}
       /\ IF c = "crlf" /\ ~xQueueIsQueueFullFromISR
          THEN /\ qUart1' = osMessagePut(uart_buf)
               /\ uart_buf' = NextRow(uart_buf)
          ELSE UNCHANGED <<qUart1, uart_buf>>
  /\ line' = [line EXCEPT !.idle = FALSE, !.idleie = FALSE]
  /\ isr' = "abort"
  /\ UNCHANGED <<uart1_buf, dma, tcif, task, pcommand, Lock, failed>>

\* USART1 after the handler found an incomplete command: IDLE is enabled again.
AfterPartial_Masked == [line EXCEPT !.idle = FALSE, !.idleie = FALSE]
AfterPartial == [line EXCEPT !.idle = FALSE]

\* The same handler when the last byte is no line feed: the DMA goes on.
IdlePartial ==
  /\ isr = "none"
  /\ line.idle /\ line.idleie
  /\ \E c \in LastChunk : c \notin {"lf", "crlf"}
  /\ line' = AfterPartial
  /\ UNCHANGED <<uart1_buf, uart_buf, dma, tcif, isr, qUart1, task, pcommand,
                 Lock, failed>>

\* HAL_DMA_Abort: disabling an enabled stream raises transfer complete.
IdleAbort ==
  /\ isr = "abort"
  /\ dma' = [dma EXCEPT !.on = FALSE]
  /\ tcif' = (tcif \/ dma.on)
  /\ isr' = "none"
  /\ UNCHANGED <<uart1_buf, uart_buf, line, qUart1, task, pcommand, Lock,
                 failed>>

\* HAL_UART_Receive_DMA.
Reception == [on |-> TRUE, row |-> uart_buf, count |-> 0]

\* USART_Start_Receive_DMA in a handler: HAL_UART_Receive_DMA gives HAL_BUSY when a
\* task holds the handle, its result is not looked at, and IDLE is enabled anyway.
USART_Start_Receive_DMA_NotWhenFull ==
  /\ dma' = IF Lock # "none" \/ xQueueIsQueueFullFromISR THEN dma ELSE Reception
  /\ line' = [line EXCEPT !.idleie = TRUE]
USART_Start_Receive_DMA ==
  /\ dma' = IF Lock # "none" THEN dma ELSE Reception
  /\ line' = [line EXCEPT !.idleie = TRUE]

\* DMA2_Stream2_IRQHandler: the transfer ended, HAL_UART_RxCpltCallback restarts it.
RxCplt ==
  /\ isr = "none"
  /\ tcif
  /\ tcif' = FALSE
  /\ USART_Start_Receive_DMA
  /\ UNCHANGED <<uart1_buf, uart_buf, isr, qUart1, task, pcommand, Lock,
                 failed>>

-----------------------------------------------------------------------------
(* uart1Task.                                                              *)

\* No handler is at work, and ethInitTask, of higher priority, is in no HAL call.
Runs == isr = "none" /\ Lock # "ethInit"

\* USART_Start_Receive_DMA in the task, up to the start of the stream ...
InitAdminManagementInterface ==
  /\ Runs
  /\ task = "init"
  /\ Lock' = "uart1"
  /\ dma' = Reception
  /\ task' = "arm"
  /\ UNCHANGED <<uart1_buf, uart_buf, tcif, line, isr, qUart1, pcommand,
                 failed>>

\* ... and from there to its end.
InitAdminManagementInterfaceDone ==
  /\ Runs
  /\ task = "arm"
  /\ Lock' = "none"
  /\ line' = [line EXCEPT !.idleie = TRUE]
  /\ task' = "wait"
  /\ UNCHANGED <<uart1_buf, uart_buf, dma, tcif, isr, qUart1, pcommand, failed>>

osMessageGet == [value |-> Head(qUart1), rest |-> Tail(qUart1)]

WaitForCommand ==
  /\ Runs
  /\ task = "wait"
  /\ qUart1 # <<>>
  /\ pcommand' = osMessageGet.value
  /\ qUart1' = osMessageGet.rest
  /\ task' = "parse"
  /\ UNCHANGED <<uart1_buf, uart_buf, dma, tcif, line, isr, Lock, failed>>

\* ParseCommand has copied the row when it returns; only aifOK goes on to execute.
ParseCommand ==
  /\ Runs
  /\ task = "parse"
  /\ task' \in {"exec", "wait"}
  /\ UNCHANGED <<uart1_buf, uart_buf, dma, tcif, line, isr, qUart1, pcommand,
                 Lock, failed>>

\* Every EchoCommand passes through HAL_UART_Transmit_DMA, which locks huart1
\* while it sets the transfer up.
TransmitLock ==
  /\ Runs
  /\ task = "exec"
  /\ Lock' = "uart1"
  /\ task' = "xmit"
  /\ UNCHANGED <<uart1_buf, uart_buf, dma, tcif, line, isr, qUart1, pcommand,
                 failed>>

TransmitUnlock_WhileReceiving ==
  /\ Runs
  /\ task = "xmit"
  /\ dma.on
  /\ Lock' = "none"
  /\ task' = "exec"
  /\ UNCHANGED <<uart1_buf, uart_buf, dma, tcif, line, isr, qUart1, pcommand,
                 failed>>
TransmitUnlock ==
  /\ Runs
  /\ task = "xmit"
  /\ Lock' = "none"
  /\ task' = "exec"
  /\ UNCHANGED <<uart1_buf, uart_buf, dma, tcif, line, isr, qUart1, pcommand,
                 failed>>

ExcuteCommandDone ==
  /\ Runs
  /\ task = "exec"
  /\ task' = "wait"
  /\ UNCHANGED <<uart1_buf, uart_buf, dma, tcif, line, isr, qUart1, pcommand,
                 Lock, failed>>

-----------------------------------------------------------------------------
(* ethInitTask, as far as this path meets it: its printk locks huart1 too, *)
(* between any two steps of uart1Task, unless uart1Task has locked it.     *)

PrintkLock ==
  /\ isr = "none"
  /\ Lock = "none"
  /\ Lock' = "ethInit"
  /\ UNCHANGED <<uart1_buf, uart_buf, dma, tcif, line, isr, qUart1, task,
                 pcommand, failed>>

PrintkUnlock ==
  /\ isr = "none"
  /\ Lock = "ethInit"
  /\ Lock' = "none"
  /\ UNCHANGED <<uart1_buf, uart_buf, dma, tcif, line, isr, qUart1, task,
                 pcommand, failed>>

-----------------------------------------------------------------------------
Wire     == (\E c \in Chunks : Receive(c)) \/ ReceiveLost \/ LineIdle \/ TransferError
Handlers == IdleCallback \/ IdlePartial \/ IdleAbort \/ RxCplt
Uart1    == \/ InitAdminManagementInterface \/ InitAdminManagementInterfaceDone
            \/ WaitForCommand \/ ParseCommand
            \/ TransmitLock \/ TransmitUnlock \/ ExcuteCommandDone
EthInit  == PrintkLock \/ PrintkUnlock

Next == Wire \/ Handlers \/ Uart1 \/ EthInit

Spec == Init /\ [][Next]_vars

\* Pending interrupts are served, a HAL call of ethInitTask ends, and the CPU is
\* not kept from uart1Task for ever; a command echoes a bounded number of times.
\* The host owes nothing.
Fairness ==
  /\ WF_vars(Handlers)
  /\ WF_vars(PrintkUnlock)
  /\ SF_vars(\/ InitAdminManagementInterface \/ InitAdminManagementInterfaceDone
             \/ WaitForCommand \/ ParseCommand \/ TransmitUnlock)
  /\ SF_vars(ExcuteCommandDone)

FairSpec == Spec /\ Fairness
-----------------------------------------------------------------------------
(* Properties.                                                             *)

\* The row the task is reading.
Held == IF task = "parse" THEN {pcommand} ELSE {}

\* The row the next reception goes to is neither waiting in qUart1 nor being
\* parsed, the rows waiting are different rows, and outside the IDLE handler a
\* running stream writes that row and no other: the DMA never overwrites a
\* command the task has yet to read, although nothing marks a row as in use.
RowsDisjoint ==
  /\ uart_buf \notin Range(qUart1) \cup Held
  /\ Range(qUart1) \cap Held = {}
  /\ \A i, j \in DOMAIN qUart1 : qUart1[i] = qUart1[j] => i = j
  /\ dma.on /\ isr = "none" => dma.row = uart_buf

\* While the stream receives and no handler is at work, IDLE is enabled, or the task
\* that has started the stream is about to: the end of a line is noticed whatever
\* the lines before it looked like.
IdleArmed == isr = "none" /\ dma.on => line.idleie \/ task = "arm"

\* Reception is over for good: the stream is off and nothing will restart it.
RxDead == ~dma.on /\ ~tcif /\ task # "init"

\* Reception dies in two ways only: a transfer-complete interrupt finds huart1
\* locked by a task that is in a HAL call, or the stream stops on a transfer error.
\* Either way it never comes back.
RxDeathHasCause ==
  [][/\ RxDead => RxDead'
     /\ ~RxDead /\ RxDead' => \/ tcif /\ ~tcif' /\ Lock # "none"
                              \/ ~failed /\ failed']_vars

\* As long as commands are posted uart1Task comes back to parse one, even after
\* reception has died; that none is skipped is ImplementsMailbox.
PostedIsParsed == qUart1 # <<>> ~> task = "parse"

\* The row just posted, while the stream the handler is about to abort still
\* writes to it.
Unsettled == isr = "abort" /\ dma.on /\ dma.row # uart_buf

\* uart1_buf, uart_buf and qUart1 implement a bounded mailbox of row contents:
\* from the end of the IDLE handler to the end of ParseCommand no line changes,
\* and lines are taken in the order they were put.
Mailbox == INSTANCE AdminMailbox WITH
  Line  <- [1 .. Depth -> Cell],
  Cap   <- QLen,
  Empty <- <<>>,
  box   <- [i \in 1 .. Len(qUart1) - (IF Unsettled THEN 1 ELSE 0) |->
              uart1_buf[qUart1[i]]],
  hand  <- IF task = "parse" THEN uart1_buf[pcommand] ELSE <<>>

ImplementsMailbox == Mailbox!Spec

\* usart_common.c:198-199 says the DMA_Rx is restarted by the interrupt that
\* ends a transfer.
RxRestarted == tcif ~> dma.on

\* usart_common.c:180-181 says that once the row is posted the future data goes
\* to the next row.
PostedRowIsLeftAlone ==
  [][\A r \in Range(qUart1) : uart1_buf'[r] = uart1_buf[r]]_vars

\* usart_common.c:170 says a command has been received: what is posted is what
\* came in this reception, with nothing readable behind it.
PostedIsWhatCame ==
  [][Len(qUart1') > Len(qUart1) /\ dma.count > 0 =>
       \A i \in 1 .. Depth : i > dma.count => uart1_buf[uart_buf][i] = Nul]_vars
=============================================================================
