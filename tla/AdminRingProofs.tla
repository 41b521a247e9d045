-------------------------- MODULE AdminRingProofs ---------------------------
(***************************************************************************)
(* The ring of rows is safe for every number of rows, row size and queue   *)
(* length with MAX_COUNT >= QLen + 3.  The rows in qUart1, and the row the *)
(* task is parsing, lie just behind uart_buf in the order in which they    *)
(* were filled; each has a known distance to uart_buf, so none of them can *)
(* be met by uart_buf before it has gone round the ring.                   *)
(***************************************************************************)
EXTENDS AdminRing, SequenceTheorems, TLAPS

\* How many times uart_buf has moved since it was a.
Distance(a) == IF a <= uart_buf THEN uart_buf - a ELSE uart_buf - a + LastRow + 1

RingInv ==
  /\ \A i \in 1 .. Len(qUart1) : Distance(qUart1[i]) = Len(qUart1) - i + 1
  /\ task = "parse" => Distance(pcommand) = Len(qUart1) + 1

DmaInv ==
  /\ dma.on => dma.count < Depth
  /\ dma.on /\ isr = "none" => dma.row = uart_buf
  /\ Unsettled => Len(qUart1) > 0 /\ dma.row = qUart1[Len(qUart1)]

LockInv == Lock = "uart1" <=> task \in {"arm", "xmit"}

IInv == TypeOK /\ RingInv /\ DmaInv /\ LockInv

USE RingAssumption DEF Row, LastRow, Cell, Nul

-----------------------------------------------------------------------------
\* The row just left is at distance one.
LEMMA DistanceOne ==
  ASSUME uart_buf \in Row, uart_buf' = NextRow(uart_buf)
  PROVE  (IF uart_buf <= uart_buf' THEN uart_buf' - uart_buf
          ELSE uart_buf' - uart_buf + LastRow + 1) = 1
BY DEF NextRow

\* The invariant holds when the firmware starts.
LEMMA InitIInv == Init => IInv
<1> SUFFICES ASSUME Init
             PROVE  IInv
  OBVIOUS
<1>1. uart1_buf \in [Row -> [1 .. Depth -> Cell]]
  BY DEF Init
<1>2. /\ uart_buf \in Row /\ pcommand \in Row
      /\ dma \in [on : BOOLEAN, row : Row, count : 0 .. Depth]
  BY DEF Init
<1>3. /\ tcif \in BOOLEAN /\ failed \in BOOLEAN
      /\ line \in [fresh : BOOLEAN, idle : BOOLEAN, idleie : BOOLEAN]
  BY DEF Init
<1>4. /\ isr = "none" /\ task = "init" /\ Lock = "none" /\ ~dma.on
      /\ qUart1 \in Seq(Row) /\ Len(qUart1) = 0
  BY DEF Init
<1>5. TypeOK
  BY <1>1, <1>2, <1>3, <1>4 DEF TypeOK
<1>6. RingInv /\ DmaInv /\ LockInv
  BY <1>4 DEF RingInv, DmaInv, LockInv, Unsettled
<1> QED BY <1>5, <1>6 DEF IInv

-----------------------------------------------------------------------------
\* The actions that touch neither the ring nor the queue keep RingInv.
LEMMA RingUnchanged ==
  ASSUME RingInv, UNCHANGED <<uart_buf, qUart1>>,
         task' = "parse" => task = "parse" /\ pcommand' = pcommand
  PROVE  RingInv'
BY DEF RingInv, Distance

\* Storing a chunk counts it, and stops the stream when the row is full.
LEMMA ReceiveDma ==
  ASSUME IInv, NEW c \in Chunks, Receive(c)
  PROVE  /\ dma.count + 1 \in 1 .. Depth
         /\ dma' \in [on : BOOLEAN, row : Row, count : 0 .. Depth]
         /\ dma'.row = dma.row
         /\ dma'.count = dma.count + 1
         /\ dma'.on = (dma.count + 1 < Depth)
<1>1. dma.count + 1 \in 1 .. Depth
  BY DEF IInv, TypeOK, DmaInv, Receive
<1> QED BY <1>1 DEF IInv, TypeOK, Receive

\* Storing a chunk keeps the invariant: the stream writes inside its row.
LEMMA ReceiveStep ==
  ASSUME IInv, NEW c \in Chunks, Receive(c)
  PROVE  IInv'
<1>1. /\ dma.on /\ dma.count + 1 \in 1 .. Depth
      /\ UNCHANGED <<uart_buf, isr, qUart1, task, pcommand, Lock, failed>>
  BY ReceiveDma DEF Receive
<1>2. /\ dma' \in [on : BOOLEAN, row : Row, count : 0 .. Depth]
      /\ dma'.row = dma.row
      /\ dma'.count = dma.count + 1
      /\ dma'.on = (dma.count + 1 < Depth)
  BY ReceiveDma
<1>3. uart1_buf' \in [Row -> [1 .. Depth -> Cell]]
  BY <1>1 DEF IInv, TypeOK, Receive
<1>4. TypeOK'
  BY <1>1, <1>2, <1>3 DEF IInv, TypeOK, Receive
<1>5. RingInv'
  BY <1>1, RingUnchanged DEF IInv
<1>6. DmaInv'
  BY <1>1, <1>2 DEF IInv, DmaInv, Unsettled
<1>7. LockInv'
  BY <1>1 DEF IInv, LockInv
<1> QED BY <1>4, <1>5, <1>6, <1>7 DEF IInv

\* Lost chunks, the IDLE flag and an incomplete command touch only the line.
LEMMA LineStep ==
  ASSUME IInv, ReceiveLost \/ LineIdle \/ IdlePartial
  PROVE  IInv'
<1>1. /\ UNCHANGED <<uart1_buf, uart_buf, dma, tcif, isr, qUart1, task, pcommand, Lock, failed>>
      /\ line' \in [fresh : BOOLEAN, idle : BOOLEAN, idleie : BOOLEAN]
  BY DEF IInv, TypeOK, ReceiveLost, LineIdle, IdlePartial, AfterPartial
<1>2. TypeOK'
  BY <1>1 DEF IInv, TypeOK
<1>3. RingInv'
  BY <1>1, RingUnchanged DEF IInv
<1>4. DmaInv' /\ LockInv'
  BY <1>1 DEF IInv, DmaInv, LockInv, Unsettled
<1> QED BY <1>2, <1>3, <1>4 DEF IInv

\* Posting: every row still to be read gets one step further from uart_buf, the
\* row just posted is one step away, and there is room because
\* QLen + 1 <= LastRow.
LEMMA IdleCallbackStep ==
  ASSUME IInv, IdleCallback
  PROVE  IInv'
<1>1. /\ isr = "none" /\ isr' = "abort"
      /\ UNCHANGED <<uart1_buf, dma, tcif, task, pcommand, Lock, failed>>
      /\ line' \in [fresh : BOOLEAN, idle : BOOLEAN, idleie : BOOLEAN]
  BY DEF IInv, TypeOK, IdleCallback
<1>2. CASE UNCHANGED <<qUart1, uart_buf>>
  <2>1. TypeOK'
    BY <1>1, <1>2 DEF IInv, TypeOK
  <2>2. RingInv'
    BY <1>1, <1>2, RingUnchanged DEF IInv
  <2>3. DmaInv' /\ LockInv'
    BY <1>1, <1>2 DEF IInv, DmaInv, LockInv, Unsettled
  <2> QED BY <2>1, <2>2, <2>3 DEF IInv
<1>3. CASE /\ Len(qUart1) < QLen
           /\ qUart1' = Append(qUart1, uart_buf)
           /\ uart_buf' = NextRow(uart_buf)
  <2>1. uart_buf \in Row /\ qUart1 \in Seq(Row) /\ pcommand \in Row
    BY DEF IInv, TypeOK
  <2>2. /\ Len(qUart1') = Len(qUart1) + 1
        /\ qUart1' \in Seq(Row)
        /\ \A i \in 1 .. Len(qUart1) : qUart1'[i] = qUart1[i] /\ qUart1[i] \in Row
        /\ qUart1'[Len(qUart1')] = uart_buf
    BY <1>3, <2>1
  <2>3. uart_buf' \in Row
    BY <1>3, <2>1 DEF NextRow
  <2>4. TypeOK'
    BY <1>1, <1>3, <2>2, <2>3 DEF IInv, TypeOK
  <2>5. ASSUME NEW i \in 1 .. Len(qUart1')
        PROVE  Distance(qUart1[i])' = Len(qUart1') - i + 1
    <3>1. CASE i = Len(qUart1')
      BY <3>1, <1>3, <2>1, <2>2, DistanceOne DEF Distance
    <3>2. CASE i # Len(qUart1')
      <4>1. i \in 1 .. Len(qUart1)
        BY <3>2, <2>1, <2>2
      <4>2. Distance(qUart1[i]) = Len(qUart1) - i + 1
        BY <4>1 DEF IInv, RingInv
      <4>3. Distance(qUart1[i]) < LastRow
        BY <4>1, <4>2, <1>3, <2>1
      <4> DEFINE a == qUart1[i]
      <4>4. a \in Row /\ qUart1'[i] = a
        BY <4>1, <2>2
      <4>5. Distance(a) = Len(qUart1) - i + 1 /\ Distance(a) < LastRow
        BY <4>2, <4>3
      <4> HIDE DEF a
      <4>6. (IF a <= uart_buf' THEN uart_buf' - a ELSE uart_buf' - a + LastRow + 1)
            = Distance(a) + 1
        BY <4>4, <4>5, <1>3, <2>1 DEF Distance, NextRow
      <4>7. Distance(qUart1[i])' = Distance(a) + 1
        BY <4>4, <4>6 DEF Distance
      <4> QED BY <4>1, <4>5, <4>7, <2>1, <2>2
    <3> QED BY <3>1, <3>2
  <2>6. task' = "parse" => Distance(pcommand)' = Len(qUart1') + 1
    <3> SUFFICES ASSUME task = "parse"
                 PROVE  Distance(pcommand)' = Len(qUart1') + 1
      BY <1>1
    <3>1. Distance(pcommand) = Len(qUart1) + 1
      BY DEF IInv, RingInv
    <3>2. Distance(pcommand) < LastRow
      BY <3>1, <1>3, <2>1
    <3>3. (IF pcommand <= uart_buf' THEN uart_buf' - pcommand
           ELSE uart_buf' - pcommand + LastRow + 1) = Distance(pcommand) + 1
      BY <3>2, <1>3, <2>1 DEF Distance, NextRow
    <3> QED BY <3>1, <3>3, <1>1, <2>1, <2>2 DEF Distance
  <2>7. RingInv'
    BY <2>5, <2>6 DEF RingInv
  <2>8. DmaInv'
    BY <1>1, <1>3, <2>1, <2>2, <2>3 DEF IInv, DmaInv, Unsettled
  <2>9. LockInv'
    BY <1>1 DEF IInv, LockInv
  <2> QED BY <2>4, <2>7, <2>8, <2>9 DEF IInv
<1> QED BY <1>2, <1>3 DEF IdleCallback, osMessagePut, xQueueIsQueueFullFromISR,
                          IInv, TypeOK

\* Aborting the stream keeps the invariant, and so does its stop on an error.
LEMMA StopStep ==
  ASSUME IInv, IdleAbort \/ TransferError
  PROVE  IInv'
<1>1. /\ UNCHANGED <<uart1_buf, uart_buf, line, qUart1, task, pcommand, Lock>>
      /\ isr' \in {"none", "abort"} /\ tcif' \in BOOLEAN /\ failed' \in BOOLEAN
      /\ dma' \in [on : BOOLEAN, row : Row, count : 0 .. Depth]
      /\ dma'.on = FALSE
  <2>1. CASE IdleAbort BY <2>1 DEF IInv, TypeOK, IdleAbort
  <2>2. CASE TransferError
    <3>1. dma' = [dma EXCEPT !.on = FALSE] /\ failed' \in BOOLEAN
      BY <2>2 DEF TransferError
    <3>2. UNCHANGED <<uart1_buf, uart_buf, tcif, line, isr, qUart1, task, pcommand, Lock>>
      BY <2>2 DEF TransferError
    <3> QED BY <3>1, <3>2 DEF IInv, TypeOK
  <2> QED BY <2>1, <2>2
<1>2. TypeOK'
  BY <1>1 DEF IInv, TypeOK
<1>3. RingInv'
  BY <1>1, RingUnchanged DEF IInv
<1>4. DmaInv' /\ LockInv'
  BY <1>1 DEF IInv, DmaInv, LockInv, Unsettled
<1> QED BY <1>2, <1>3, <1>4 DEF IInv

\* A (re)started stream writes the row at uart_buf, or Lock left it off.
LEMMA RestartStep ==
  ASSUME IInv, RxCplt \/ InitAdminManagementInterface
  PROVE  IInv'
<1>1. /\ UNCHANGED <<uart1_buf, uart_buf, isr, qUart1, pcommand, failed>>
      /\ isr = "none"
      /\ \/ task' = task /\ Lock' = Lock
         \/ task' = "arm" /\ Lock' = "uart1"
  BY DEF IInv, TypeOK, RxCplt, InitAdminManagementInterface, Runs
<1>2. tcif' \in BOOLEAN
  BY DEF IInv, TypeOK, RxCplt, InitAdminManagementInterface
<1>3. line' \in [fresh : BOOLEAN, idle : BOOLEAN, idleie : BOOLEAN]
  BY Zenon DEF IInv, TypeOK, RxCplt, InitAdminManagementInterface, USART_Start_Receive_DMA
<1>4. dma' = dma \/ dma' = [on |-> TRUE, row |-> uart_buf, count |-> 0]
  BY DEF RxCplt, InitAdminManagementInterface, USART_Start_Receive_DMA, Reception
<1>5. dma' \in [on : BOOLEAN, row : Row, count : 0 .. Depth]
  <2>1. dma \in [on : BOOLEAN, row : Row, count : 0 .. Depth] /\ uart_buf \in Row
    BY DEF IInv, TypeOK
  <2>2. 0 \in 0 .. Depth
    OBVIOUS
  <2>3. CASE dma' = [on |-> TRUE, row |-> uart_buf, count |-> 0]
    BY <2>1, <2>2, <2>3
  <2> QED BY <1>4, <2>1, <2>3
<1>6. TypeOK'
  BY <1>1, <1>2, <1>3, <1>5 DEF IInv, TypeOK
<1>7. RingInv'
  BY <1>1, RingUnchanged DEF IInv
<1>8. DmaInv'
  BY <1>1, <1>4 DEF IInv, TypeOK, DmaInv, Unsettled
<1>9. LockInv'
  BY <1>1 DEF IInv, LockInv
<1> QED BY <1>6, <1>7, <1>8, <1>9 DEF IInv

\* The row taken is the one at the greatest distance, and every other row keeps its own.
LEMMA WaitForCommandStep ==
  ASSUME IInv, WaitForCommand
  PROVE  IInv'
<1>1. /\ UNCHANGED <<uart1_buf, uart_buf, dma, tcif, line, isr, Lock, failed>>
      /\ isr = "none" /\ task = "wait" /\ task' = "parse" /\ qUart1 # <<>>
      /\ pcommand' = Head(qUart1) /\ qUart1' = Tail(qUart1)
      /\ qUart1 \in Seq(Row) /\ Len(qUart1) <= QLen
  BY DEF IInv, TypeOK, WaitForCommand, osMessageGet, Runs
<1>2. /\ pcommand' = qUart1[1] /\ pcommand' \in Row
      /\ qUart1' \in Seq(Row) /\ Len(qUart1') = Len(qUart1) - 1
      /\ Len(qUart1) > 0
      /\ \A i \in 1 .. Len(qUart1') : qUart1'[i] = qUart1[i + 1]
  BY <1>1
<1>3. TypeOK'
  BY <1>1, <1>2 DEF IInv, TypeOK
<1>4. Distance(pcommand)' = Len(qUart1') + 1
  BY <1>1, <1>2 DEF IInv, RingInv, Distance
<1>5. ASSUME NEW i \in 1 .. Len(qUart1')
      PROVE  Distance(qUart1[i])' = Len(qUart1') - i + 1
  BY <1>1, <1>2 DEF IInv, RingInv, Distance
<1>6. RingInv'
  BY <1>4, <1>5 DEF RingInv
<1>7. DmaInv' /\ LockInv'
  BY <1>1 DEF IInv, DmaInv, LockInv, Unsettled
<1> QED BY <1>3, <1>6, <1>7 DEF IInv

\* The rest of the two tasks moves no row.
LEMMA TaskStep ==
  ASSUME IInv, \/ InitAdminManagementInterfaceDone
               \/ ParseCommand \/ TransmitLock \/ TransmitUnlock \/ ExcuteCommandDone
               \/ PrintkLock \/ PrintkUnlock
  PROVE  IInv'
<1>1. /\ UNCHANGED <<uart1_buf, uart_buf, dma, tcif, isr, qUart1, pcommand, failed>>
      /\ task' = task \/ task' \in {"wait", "exec", "xmit"}
      /\ Lock' \in {"none", "uart1", "ethInit"}
      /\ Lock' = "uart1" <=> task' \in {"arm", "xmit"}
  <2>1. CASE ParseCommand
    BY <2>1 DEF IInv, TypeOK, LockInv, ParseCommand
  <2>2. CASE TransmitLock
    BY <2>2 DEF TransmitLock
  <2>3. CASE TransmitUnlock
    BY <2>3 DEF TransmitUnlock
  <2>4. CASE ExcuteCommandDone
    BY <2>4 DEF IInv, TypeOK, LockInv, ExcuteCommandDone
  <2>5. CASE InitAdminManagementInterfaceDone
    BY <2>5 DEF InitAdminManagementInterfaceDone
  <2>6. CASE PrintkLock \/ PrintkUnlock
    BY <2>6 DEF IInv, TypeOK, LockInv, PrintkLock, PrintkUnlock
  <2> QED BY <2>1, <2>2, <2>3, <2>4, <2>5, <2>6
<1>2. line' \in [fresh : BOOLEAN, idle : BOOLEAN, idleie : BOOLEAN]
  BY Zenon DEF IInv, TypeOK, InitAdminManagementInterfaceDone, ParseCommand, TransmitLock,
               TransmitUnlock, ExcuteCommandDone, PrintkLock, PrintkUnlock
<1>3. TypeOK'
  BY <1>1, <1>2 DEF IInv, TypeOK
<1>4. RingInv'
  BY <1>1, RingUnchanged DEF IInv
<1>5. DmaInv' /\ LockInv'
  BY <1>1 DEF IInv, DmaInv, LockInv, Unsettled
<1> QED BY <1>3, <1>4, <1>5 DEF IInv

\* Every step keeps the invariant.
LEMMA NextIInv == IInv /\ [Next]_vars => IInv'
<1> SUFFICES ASSUME IInv, [Next]_vars
             PROVE  IInv'
  OBVIOUS
<1>1. CASE \E c \in Chunks : Receive(c)
  BY <1>1, ReceiveStep
<1>2. CASE ReceiveLost \/ LineIdle \/ IdlePartial
  BY <1>2, LineStep
<1>3. CASE IdleCallback
  BY <1>3, IdleCallbackStep
<1>4. CASE IdleAbort \/ TransferError
  BY <1>4, StopStep
<1>5. CASE RxCplt \/ InitAdminManagementInterface
  BY <1>5, RestartStep
<1>6. CASE WaitForCommand
  BY <1>6, WaitForCommandStep
<1>7. CASE \/ InitAdminManagementInterfaceDone
           \/ ParseCommand \/ TransmitLock \/ TransmitUnlock \/ ExcuteCommandDone
           \/ PrintkLock \/ PrintkUnlock
  BY <1>7, TaskStep
<1>8. CASE UNCHANGED vars
  BY <1>8 DEF vars, IInv, TypeOK, RingInv, DmaInv, LockInv, Distance, Unsettled
<1> QED BY <1>1, <1>2, <1>3, <1>4, <1>5, <1>6, <1>7, <1>8
        DEF Next, Wire, Handlers, Uart1, EthInit

\* The strengthened invariant, of which the properties below are parts.
THEOREM Invariance == Spec => []IInv
<1>1. Init => IInv
  BY InitIInv
<1>2. IInv /\ [Next]_vars => IInv'
  BY NextIInv
<1> QED BY <1>1, <1>2, PTL DEF Spec

-----------------------------------------------------------------------------
\* Nothing leaves its range: uart_buf stays inside uart1_buf, NDTR inside the
\* row, and qUart1 within its length (My_HAL_UART_IdleCallback).
THEOREM TypeCorrect == Spec => []TypeOK
<1>1. IInv => TypeOK
  BY DEF IInv
<1> QED BY <1>1, Invariance, PTL

\* Different distances are different rows, and no row at distance one to
\* QLen + 1 is uart_buf itself.
LEMMA IInvRowsDisjoint == IInv => RowsDisjoint
<1> SUFFICES ASSUME IInv
             PROVE  RowsDisjoint
  OBVIOUS
<1>1. /\ uart_buf \in Row /\ pcommand \in Row
      /\ qUart1 \in Seq(Row) /\ Len(qUart1) <= QLen /\ DOMAIN qUart1 = 1 .. Len(qUart1)
  BY DEF IInv, TypeOK
<1>2. \A i \in 1 .. Len(qUart1) : /\ qUart1[i] \in Row
                                  /\ Distance(qUart1[i]) = Len(qUart1) - i + 1
  BY <1>1 DEF IInv, RingInv
<1>3. \A i, j \in DOMAIN qUart1 : qUart1[i] = qUart1[j] => i = j
  BY <1>1, <1>2
<1>4. Distance(uart_buf) = 0
  BY <1>1 DEF Distance
<1>5. uart_buf \notin Range(qUart1)
  BY <1>1, <1>2, <1>4 DEF Range
<1>6. CASE task = "parse"
  <2>1. Distance(pcommand) = Len(qUart1) + 1
    BY <1>6 DEF IInv, RingInv
  <2>2. uart_buf # pcommand
    BY <1>1, <1>4, <2>1
  <2>3. pcommand \notin Range(qUart1)
    BY <1>1, <1>2, <2>1 DEF Range
  <2> QED BY <1>3, <1>5, <1>6, <2>2, <2>3 DEF RowsDisjoint, Held, IInv, DmaInv
<1>7. CASE task # "parse"
  BY <1>3, <1>5, <1>7 DEF RowsDisjoint, Held, IInv, DmaInv
<1> QED BY <1>6, <1>7

\* The DMA never overwrites a command the task has yet to read, for every row
\* size and every ring that is at least three rows longer than qUart1.
THEOREM RowsNeverShared == Spec => []RowsDisjoint
<1> QED BY IInvRowsDisjoint, Invariance, PTL

\* The stream is started only together with IDLE, and IDLE goes off only on the
\* way to HAL_DMA_Abort, which stops the stream.
LEMMA IdleArmedStep ==
  ASSUME IInv, IdleArmed, [Next]_vars
  PROVE  IdleArmed'
<1>1. /\ dma \in [on : BOOLEAN, row : Row, count : 0 .. Depth]
      /\ line \in [fresh : BOOLEAN, idle : BOOLEAN, idleie : BOOLEAN]
  BY DEF IInv, TypeOK
<1>2. CASE Wire
  <2>1. isr' = isr /\ task' = task /\ line'.idleie = line.idleie
    BY <1>1, <1>2 DEF Wire, Receive, ReceiveLost, LineIdle, TransferError
  <2>2. dma'.on => dma.on
    BY <1>1, <1>2 DEF Wire, Receive, ReceiveLost, LineIdle, TransferError
  <2> QED BY <2>1, <2>2 DEF IdleArmed
<1>3. CASE IdleCallback BY <1>3 DEF IdleCallback, IdleArmed
<1>4. CASE IdlePartial BY <1>1, <1>4 DEF IdlePartial, AfterPartial, IdleArmed
<1>5. CASE IdleAbort BY <1>1, <1>5 DEF IdleAbort, IdleArmed
<1>6. CASE RxCplt \/ InitAdminManagementInterfaceDone
  <2>1. line' = [line EXCEPT !.idleie = TRUE]
    BY <1>6 DEF RxCplt, InitAdminManagementInterfaceDone, USART_Start_Receive_DMA
  <2> QED BY <1>1, <2>1 DEF IdleArmed
<1>7. CASE \/ InitAdminManagementInterface \/ WaitForCommand \/ ParseCommand
           \/ TransmitLock \/ TransmitUnlock \/ ExcuteCommandDone
           \/ PrintkLock \/ PrintkUnlock
  BY <1>7 DEF InitAdminManagementInterface, WaitForCommand, ParseCommand, TransmitLock,
     TransmitUnlock, ExcuteCommandDone, PrintkLock, PrintkUnlock, IdleArmed
<1>8. CASE UNCHANGED vars BY <1>8 DEF vars, IdleArmed
<1> QED BY <1>2, <1>3, <1>4, <1>5, <1>6, <1>7, <1>8 DEF Next, Handlers, Uart1, EthInit

\* While the stream receives, the end of a line will be noticed.
THEOREM IdleStaysArmed == Spec => []IdleArmed
<1>1. Init => IdleArmed BY DEF Init, IdleArmed
<1>2. IInv /\ IdleArmed /\ [Next]_vars => IdleArmed' BY IdleArmedStep
<1> QED BY <1>1, <1>2, Invariance, PTL DEF Spec

\* Reception dies only in RxCplt, with Lock held, or of a transfer error, and what
\* is dead stays dead: nothing but a transfer-complete interrupt or the task's start
\* re-arms it.
RxDeathCause == \/ tcif /\ ~tcif' /\ Lock # "none"
                \/ ~failed /\ failed'

\* No error has been met while the stream runs or may still be restarted, and it is
\* not both.
FailedInv ==
  /\ failed => RxDead
  /\ dma.on => task # "init"
  /\ dma.on \/ task = "init" => ~tcif

LEMMA RxDeadStep ==
  ASSUME IInv, FailedInv, [Next]_vars
  PROVE  /\ [(RxDead => RxDead') /\ (~RxDead /\ RxDead' => RxDeathCause)]_vars
         /\ FailedInv'
<1> SUFFICES ASSUME Next
             PROVE  /\ (RxDead => RxDead') /\ (~RxDead /\ RxDead' => RxDeathCause)
                    /\ FailedInv'
  BY DEF vars, FailedInv, RxDead
<1> USE DEF FailedInv
<1>1. CASE \E c \in Chunks : Receive(c)
  <2> PICK c \in Chunks : Receive(c)
    BY <1>1
  <2>1. dma'.on = (dma.count + 1 < Depth) /\ dma.count + 1 \in 1 .. Depth
    BY ReceiveDma
  <2>2. dma.count + 1 = Depth => tcif'
    BY Zenon DEF Receive
  <2>3. dma'.on \/ tcif'
    <3>1. CASE dma.count + 1 < Depth BY <2>1, <3>1
    <3>2. CASE dma.count + 1 = Depth BY <2>2, <3>2
    <3> QED BY <2>1, <3>1, <3>2
  <2>4. dma.on /\ failed' = failed /\ task' = task
    BY DEF Receive
  <2>5. dma'.on => dma.count + 1 # Depth
    <3>1. dma.count + 1 = Depth => (dma.count + 1 < Depth) = FALSE BY <2>1
    <3>2. dma.count + 1 = Depth => dma'.on = FALSE BY <2>1, <3>1
    <3> QED BY <3>2, Zenon
  <2>6. dma'.on => tcif' = tcif
    BY <2>5 DEF Receive, IInv, TypeOK
  <2>7. ~RxDead /\ ~RxDead'
    BY <2>3, <2>4 DEF RxDead
  <2>8. ~tcif /\ ~failed /\ task # "init"
    BY <2>4, <2>7
  <2>9. FailedInv'
    BY <2>4, <2>6, <2>8
  <2> QED BY <2>7, <2>9
<1>2. CASE ReceiveLost \/ LineIdle \/ IdlePartial \/ IdleCallback
  BY <1>2 DEF ReceiveLost, LineIdle, IdlePartial, IdleCallback, RxDead
<1>3. CASE IdleAbort
  BY <1>3 DEF IdleAbort, RxDead, IInv, TypeOK
<1>4. CASE RxCplt
  <2>1. /\ tcif /\ ~tcif' /\ task' = task /\ failed' = failed
        /\ Lock = "none" => dma'.on
        /\ dma' = dma \/ dma'.on
    BY <1>4 DEF RxCplt, USART_Start_Receive_DMA, Reception
  <2>2. ~RxDead
    BY <2>1 DEF RxDead
  <2>3. RxDead' => Lock # "none"
    BY <2>1 DEF RxDead
  <2>4. RxDead' => RxDeathCause
    BY <2>1, <2>3 DEF RxDeathCause
  <2>5. ~failed /\ task # "init" /\ ~dma.on
    BY <2>1, <2>2
  <2>6. FailedInv'
    BY <2>1, <2>5
  <2> QED BY <2>2, <2>4, <2>6
<1>5. CASE InitAdminManagementInterface
  <2>1. dma'.on /\ task = "init" /\ task' # "init" /\ failed' = failed /\ tcif' = tcif
    BY <1>5 DEF InitAdminManagementInterface, Reception
  <2> QED BY <2>1, Zenon DEF RxDead
<1>6. CASE TransferError
  BY <1>6 DEF TransferError, RxDead, RxDeathCause, IInv, TypeOK
<1>7. CASE \/ InitAdminManagementInterfaceDone \/ WaitForCommand \/ ParseCommand
           \/ TransmitLock \/ TransmitUnlock \/ ExcuteCommandDone
           \/ PrintkLock \/ PrintkUnlock
  BY <1>7 DEF InitAdminManagementInterfaceDone, WaitForCommand, ParseCommand, TransmitLock,
              TransmitUnlock, ExcuteCommandDone, PrintkLock, PrintkUnlock, RxDead
<1> QED BY <1>1, <1>2, <1>3, <1>4, <1>5, <1>6, <1>7
        DEF Next, Wire, Handlers, Uart1, EthInit

\* Reception is lost for good only when the transfer-complete interrupt finds the
\* handle locked by a task, or the stream meets a transfer error.
THEOREM RxDeathCaused == Spec => RxDeathHasCause
<1>1. Init => FailedInv BY DEF Init, FailedInv
<1> QED BY <1>1, RxDeadStep, Invariance, PTL DEF Spec, RxDeathHasCause, RxDeathCause

-----------------------------------------------------------------------------
(* The ring implements the mailbox.                                        *)

Line   == [1 .. Depth -> Cell]
BoxLen == Len(qUart1) - (IF Unsettled THEN 1 ELSE 0)
Box    == [i \in 1 .. BoxLen |-> uart1_buf[qUart1[i]]]
Hand   == IF task = "parse" THEN uart1_buf[pcommand] ELSE <<>>

\* A sequence that is another with one element more is the other with that appended.
LEMMA OneMore ==
  ASSUME NEW S, NEW n \in Nat, NEW s \in [1 .. n -> S], NEW t \in [1 .. n + 1 -> S],
         \A i \in 1 .. n : t[i] = s[i]
  PROVE  Len(s) = n /\ t = Append(s, t[n + 1])
<1>1. s \in Seq(S) /\ Len(s) = n OBVIOUS
<1>2. t \in Seq(S) /\ Len(t) = n + 1 /\ t[n + 1] \in S OBVIOUS
<1> DEFINE e == t[n + 1]
<1>3. e \in S BY <1>2
<1> HIDE DEF e
<1>4. Append(s, e) \in Seq(S) BY <1>1, <1>3, AppendProperties, Zenon
<1>5. Len(Append(s, e)) = n + 1 BY <1>1, <1>3
<1>6. \A i \in 1 .. n + 1 : t[i] = Append(s, e)[i] BY <1>1, <1>3 DEF e
<1>7. t = Append(s, e) BY <1>2, <1>4, <1>5, <1>6, SeqEqual
<1> QED BY <1>1, <1>7 DEF e

\* A sequence that is another without its first element is the other's tail.
LEMMA OneLess ==
  ASSUME NEW S, NEW n \in Nat, NEW s \in [1 .. n + 1 -> S], NEW t \in [1 .. n -> S],
         \A i \in 1 .. n : t[i] = s[i + 1]
  PROVE  s # <<>> /\ t = Tail(s) /\ Head(s) = s[1]
<1>1. s \in Seq(S) /\ Len(s) = n + 1 /\ s # <<>> OBVIOUS
<1>2. t \in Seq(S) /\ Len(t) = n OBVIOUS
<1>3. Tail(s) \in Seq(S) /\ Len(Tail(s)) = n BY <1>1
<1>4. \A i \in 1 .. n : Tail(s)[i] = s[i + 1] BY <1>1
<1>5. t = Tail(s) BY <1>2, <1>3, <1>4, SeqEqual
<1>6. Head(s) = s[1] BY <1>1
<1> QED BY <1>1, <1>5, <1>6

\* The box and the hand hold lines.
BoxTypes ==
  /\ BoxLen \in 0 .. QLen /\ BoxLen <= Len(qUart1)
  /\ \A i \in 1 .. BoxLen : qUart1[i] \in Row /\ uart1_buf[qUart1[i]] \in Line
  /\ Box \in [1 .. BoxLen -> Line]
  /\ pcommand \in Row /\ uart1_buf[pcommand] \in Line

LEMMA BoxOK == IInv => BoxTypes
<1> SUFFICES ASSUME IInv PROVE BoxTypes OBVIOUS
<1>1. /\ qUart1 \in Seq(Row) /\ Len(qUart1) \in Nat /\ Len(qUart1) <= QLen
      /\ uart1_buf \in [Row -> Line] /\ pcommand \in Row
  BY DEF IInv, TypeOK, Line
<1>2. Unsettled => Len(qUart1) > 0 BY DEF IInv, DmaInv
<1>3. BoxLen \in 0 .. QLen /\ BoxLen <= Len(qUart1) BY <1>1, <1>2 DEF BoxLen
<1>4. \A i \in 1 .. BoxLen : qUart1[i] \in Row BY <1>1, <1>3
<1>5. \A i \in 1 .. BoxLen : uart1_buf[qUart1[i]] \in Line BY <1>1, <1>4
<1> HIDE DEF Row
<1>6. Box \in [1 .. BoxLen -> Line] BY <1>5 DEF Box
<1> QED BY <1>1, <1>3, <1>4, <1>5, <1>6 DEF BoxTypes

\* A running stream writes to no row in the box and not to the row in the hand.
LEMMA NotWritten ==
  ASSUME IInv, dma.on
  PROVE  /\ \A i \in 1 .. BoxLen : qUart1[i] # dma.row
         /\ task = "parse" => pcommand # dma.row
<1>1. /\ RowsDisjoint /\ BoxLen <= Len(qUart1) /\ BoxLen \in Nat
      /\ Len(qUart1) \in Nat /\ DOMAIN qUart1 = 1 .. Len(qUart1)
  <2>1. RowsDisjoint BY IInvRowsDisjoint
  <2>2. BoxLen <= Len(qUart1) /\ BoxLen \in Nat BY BoxOK DEF BoxTypes
  <2>3. qUart1 \in Seq(Row) BY DEF IInv, TypeOK
  <2>4. Len(qUart1) \in Nat /\ DOMAIN qUart1 = 1 .. Len(qUart1) BY <2>3
  <2> QED BY <2>1, <2>2, <2>4
<1>2. CASE Unsettled
  <2>1. BoxLen = Len(qUart1) - 1 /\ Len(qUart1) > 0 /\ dma.row = qUart1[Len(qUart1)]
    <3>1. DmaInv BY DEF IInv
    <3>2. Len(qUart1) > 0 /\ dma.row = qUart1[Len(qUart1)]
      BY <1>2, <3>1, Zenon DEF DmaInv
    <3>3. BoxLen = Len(qUart1) - 1 BY <1>2, Zenon DEF BoxLen
    <3> QED BY <3>2, <3>3, Zenon
  <2>2. \A i \in 1 .. BoxLen : i \in DOMAIN qUart1 /\ i # Len(qUart1)
    <3>1. \A n \in Nat : n > 0 =>
            \A i \in 1 .. n - 1 : i \in 1 .. n /\ i # n
      OBVIOUS
    <3> QED BY <1>1, <2>1, <3>1
  <2>3. Len(qUart1) \in DOMAIN qUart1 BY <1>1, <2>1
  <2>4. \A i \in 1 .. BoxLen : qUart1[i] # dma.row
    <3> TAKE i \in 1 .. BoxLen
    <3>1. i \in DOMAIN qUart1 /\ i # Len(qUart1) BY <2>2
    <3>2. \A j, k \in DOMAIN qUart1 : qUart1[j] = qUart1[k] => j = k
      BY <1>1 DEF RowsDisjoint
    <3> QED BY <2>1, <2>3, <3>1, <3>2
  <2>5. task = "parse" => pcommand # dma.row
    BY <1>1, <2>1, <2>3 DEF RowsDisjoint, Held, Range
  <2> QED BY <2>4, <2>5
<1>3. CASE ~Unsettled
  <2>1. dma.row = uart_buf BY <1>3 DEF Unsettled, IInv, TypeOK, DmaInv
  <2>2. \A i \in 1 .. BoxLen : i \in DOMAIN qUart1 BY <1>1
  <2> QED BY <1>1, <2>1, <2>2 DEF RowsDisjoint, Held, Range
<1> QED BY <1>2, <1>3

\* The three ways in which a step of the ring shows in the mailbox, or does not.
LEMMA Stutters ==
  ASSUME BoxLen' = BoxLen, Hand' = Hand,
         \A i \in 1 .. BoxLen : uart1_buf[qUart1[i]]' = uart1_buf[qUart1[i]]
  PROVE  UNCHANGED Mailbox!vars
<1>1. Box' = Box BY DEF Box
<1> QED BY <1>1 DEF Mailbox!vars, Box, BoxLen, Hand

LEMMA Puts ==
  ASSUME IInv, IInv', BoxLen' = BoxLen + 1, Hand' = Hand,
         \A i \in 1 .. BoxLen : uart1_buf[qUart1[i]]' = uart1_buf[qUart1[i]]
  PROVE  \E l \in Line : Mailbox!Put(l)
<1>1. BoxLen \in Nat /\ BoxLen + 1 <= QLen /\ Box \in [1 .. BoxLen -> Line]
  <2>1. BoxTypes /\ BoxTypes' BY BoxOK, PTL
  <2> QED BY <2>1 DEF BoxTypes
<1>2. BoxLen' \in 0 .. QLen /\ Box' \in [1 .. BoxLen + 1 -> Line]
  <2>1. BoxTypes' BY BoxOK, PTL
  <2> QED BY <2>1 DEF BoxTypes
<1>3. \A i \in 1 .. BoxLen : Box'[i] = Box[i]
  <2>1. \A i \in 1 .. BoxLen : i \in 1 .. BoxLen + 1 BY <1>1
  <2>2. \A i \in 1 .. BoxLen + 1 : Box'[i] = uart1_buf[qUart1[i]]' BY DEF Box
  <2>3. \A i \in 1 .. BoxLen : Box[i] = uart1_buf[qUart1[i]] BY DEF Box
  <2> QED BY <2>1, <2>2, <2>3
<1>4. Len(Box) = BoxLen /\ Box' = Append(Box, Box'[BoxLen + 1])
  BY <1>1, <1>2, <1>3, OneMore
<1>5. Box'[BoxLen + 1] \in Line BY <1>1, <1>2
<1>6. BoxLen < QLen BY <1>1, <1>2
<1> QED BY <1>4, <1>5, <1>6 DEF Mailbox!Put, Box, BoxLen, Hand, Line

\* The task takes the front line, and lets go of the line it has parsed.
LEMMA Takes == IInv /\ IInv' /\ WaitForCommand => Mailbox!Take
<1> SUFFICES ASSUME IInv, IInv', WaitForCommand PROVE Mailbox!Take OBVIOUS
<1>1. /\ isr = "none" /\ isr' = "none" /\ task = "wait" /\ task' = "parse"
      /\ qUart1 # <<>> /\ qUart1 \in Seq(Row)
      /\ pcommand' = Head(qUart1) /\ qUart1' = Tail(qUart1)
      /\ UNCHANGED <<uart1_buf, dma, uart_buf>>
  BY DEF WaitForCommand, osMessageGet, Runs, IInv, TypeOK
<1>2. ~Unsettled /\ ~Unsettled' BY <1>1 DEF Unsettled
<1>3. /\ Len(qUart1) \in Nat \ {0} /\ Len(qUart1') = Len(qUart1) - 1
      /\ Head(qUart1) = qUart1[1]
      /\ \A i \in 1 .. Len(qUart1) - 1 : qUart1'[i] = qUart1[i + 1]
  BY <1>1
<1>4. BoxLen = Len(qUart1) /\ BoxLen' = BoxLen - 1
  BY <1>2, <1>3 DEF BoxLen
<1> DEFINE n == BoxLen - 1
<1>5. n \in Nat /\ BoxLen = n + 1 /\ BoxLen' = n BY <1>3, <1>4
<1>6. BoxTypes /\ BoxTypes' BY BoxOK, PTL
<1>7. Box \in [1 .. n + 1 -> Line] /\ Box' \in [1 .. n -> Line]
  BY <1>5, <1>6 DEF BoxTypes
<1>8. \A i \in 1 .. n : Box'[i] = Box[i + 1]
  <2> TAKE i \in 1 .. n
  <2>1. i \in 1 .. BoxLen' /\ i + 1 \in 1 .. BoxLen BY <1>5
  <2>2. Box'[i] = uart1_buf'[qUart1'[i]] BY <2>1 DEF Box
  <2>3. Box[i + 1] = uart1_buf[qUart1[i + 1]] BY <2>1 DEF Box
  <2> QED BY <1>1, <1>3, <1>4, <2>2, <2>3
<1> HIDE DEF n
<1>9. Box # <<>> /\ Box' = Tail(Box) /\ Head(Box) = Box[1]
  BY <1>5, <1>7, <1>8, OneLess
<1>10. Box[1] = uart1_buf[pcommand']
  <2>1. 1 \in 1 .. BoxLen BY <1>5
  <2> QED BY <1>1, <1>3, <2>1 DEF Box
<1>11. Hand = <<>> /\ Hand' = Head(Box) BY <1>1, <1>9, <1>10 DEF Hand
<1> QED BY <1>9, <1>11 DEF Mailbox!Take, Box, BoxLen, Hand

LEMMA Finishes ==
  ASSUME IInv, ParseCommand
  PROVE  Mailbox!Finish
<1>1. /\ task = "parse" /\ task' # "parse" /\ isr = "none"
      /\ UNCHANGED <<uart1_buf, uart_buf, dma, isr, qUart1>>
  BY DEF ParseCommand, Runs
<1>2. uart1_buf[pcommand] \in Line BY BoxOK DEF BoxTypes
<1>3. uart1_buf[pcommand] # <<>> BY <1>2 DEF Line
<1>4. BoxLen' = BoxLen BY <1>1 DEF BoxLen, Unsettled
<1>5. Box' = Box BY <1>1, <1>4 DEF Box
<1>6. Hand # <<>> /\ Hand' = <<>> BY <1>1, <1>3 DEF Hand
<1> QED BY <1>5, <1>6 DEF Mailbox!Finish, Box, BoxLen, Hand

\* Storing a chunk shows nothing, unless it fills a row already posted: then the
\* stream stops, and the row is put.
LEMMA ReceiveShows ==
  ASSUME IInv, IInv', NEW c \in Chunks, Receive(c)
  PROVE  (\E l \in Line : Mailbox!Put(l)) \/ UNCHANGED Mailbox!vars
<1>1. /\ dma.on /\ uart1_buf \in [Row -> Line]
      /\ uart1_buf' = [uart1_buf EXCEPT ![dma.row][dma.count + 1] = c]
      /\ UNCHANGED <<uart_buf, isr, qUart1, task, pcommand>>
  BY DEF Receive, IInv, TypeOK, Line
<1>2. BoxTypes BY BoxOK
<1>3. \A r \in Row : r # dma.row => uart1_buf'[r] = uart1_buf[r]
  BY <1>1
<1>4. \A i \in 1 .. BoxLen : uart1_buf[qUart1[i]]' = uart1_buf[qUart1[i]]
  BY <1>1, <1>2, <1>3, NotWritten DEF BoxTypes
<1>5. Hand' = Hand BY <1>1, <1>2, <1>3, NotWritten DEF Hand, BoxTypes
<1>6. dma'.row = dma.row BY ReceiveDma
<1>7. Unsettled' => Unsettled BY <1>1, <1>6 DEF Unsettled
<1>8. Len(qUart1) \in Nat BY DEF IInv, TypeOK
<1>9. BoxLen' = BoxLen \/ BoxLen' = BoxLen + 1 BY <1>1, <1>7, <1>8 DEF BoxLen
<1> QED BY <1>4, <1>5, <1>9, Stutters, Puts

\* The end of a line puts the row, unless the stream still writes to it; then the
\* row is put when the stream is aborted.
LEMMA IdleShows ==
  ASSUME IInv, IInv', IdleCallback
  PROVE  (\E l \in Line : Mailbox!Put(l)) \/ UNCHANGED Mailbox!vars
<1>1. /\ isr = "none" /\ isr' = "abort"
      /\ UNCHANGED <<uart1_buf, dma, task, pcommand>>
      /\ qUart1 \in Seq(Row) /\ uart_buf \in Row
  BY DEF IdleCallback, IInv, TypeOK
<1>2. ~Unsettled BY <1>1 DEF Unsettled
<1>3. Len(qUart1) \in Nat /\ BoxLen = Len(qUart1) BY <1>1, <1>2 DEF BoxLen
<1>4. Hand' = Hand BY <1>1 DEF Hand
<1>5. CASE UNCHANGED <<qUart1, uart_buf>>
  <2>1. ~Unsettled' BY <1>1, <1>5 DEF Unsettled, IInv, DmaInv
  <2>2. BoxLen' = BoxLen BY <1>3, <1>5, <2>1 DEF BoxLen
  <2> QED BY <1>1, <1>4, <1>5, <2>2, Stutters
<1>6. CASE qUart1' = Append(qUart1, uart_buf) /\ uart_buf' = NextRow(uart_buf)
  <2>1. /\ Len(qUart1') = Len(qUart1) + 1
        /\ \A i \in 1 .. Len(qUart1) : qUart1'[i] = qUart1[i]
    BY <1>1, <1>6
  <2>2. BoxLen' = BoxLen \/ BoxLen' = BoxLen + 1 BY <1>3, <2>1 DEF BoxLen
  <2>3. \A i \in 1 .. BoxLen : uart1_buf[qUart1[i]]' = uart1_buf[qUart1[i]]
    BY <1>1, <1>3, <2>1
  <2> QED BY <1>4, <2>2, <2>3, Stutters, Puts
<1> QED BY <1>5, <1>6 DEF IdleCallback, osMessagePut, xQueueIsQueueFullFromISR, IInv, TypeOK

\* So is it when the stream stops on an error.
LEMMA StopShows ==
  ASSUME IInv, IInv', IdleAbort \/ TransferError
  PROVE  (\E l \in Line : Mailbox!Put(l)) \/ UNCHANGED Mailbox!vars
<1>1. ~dma'.on /\ UNCHANGED <<uart1_buf, uart_buf, qUart1, task, pcommand>>
  BY DEF IdleAbort, TransferError, IInv, TypeOK
<1>2. ~Unsettled' BY <1>1 DEF Unsettled
<1>3. Len(qUart1) \in Nat BY DEF IInv, TypeOK
<1>4. BoxLen' = BoxLen \/ BoxLen' = BoxLen + 1 BY <1>1, <1>2, <1>3 DEF BoxLen
<1>5. Hand' = Hand BY <1>1 DEF Hand
<1>6. \A i \in 1 .. BoxLen : uart1_buf[qUart1[i]]' = uart1_buf[qUart1[i]] BY <1>1
<1> QED BY <1>4, <1>5, <1>6, Stutters, Puts

\* Nothing else shows.
LEMMA OthersStutter ==
  ASSUME IInv,
         \/ ReceiveLost \/ LineIdle \/ IdlePartial \/ RxCplt
         \/ InitAdminManagementInterface \/ InitAdminManagementInterfaceDone
         \/ TransmitLock \/ TransmitUnlock \/ ExcuteCommandDone
         \/ PrintkLock \/ PrintkUnlock \/ UNCHANGED vars
  PROVE  UNCHANGED Mailbox!vars
<1>1. /\ UNCHANGED <<uart1_buf, uart_buf, isr, qUart1, pcommand>>
      /\ task' = task \/ (task # "parse" /\ task' # "parse")
      /\ isr = "none" \/ UNCHANGED dma
  BY DEF ReceiveLost, LineIdle, IdlePartial, RxCplt, InitAdminManagementInterface,
         InitAdminManagementInterfaceDone, TransmitLock, TransmitUnlock,
         ExcuteCommandDone, PrintkLock, PrintkUnlock, Runs, vars
<1>2. BoxLen' = BoxLen BY <1>1 DEF BoxLen, Unsettled
<1>3. Hand' = Hand BY <1>1 DEF Hand
<1>4. \A i \in 1 .. BoxLen : uart1_buf[qUart1[i]]' = uart1_buf[qUart1[i]] BY <1>1
<1> QED BY <1>2, <1>3, <1>4, Stutters

LEMMA NextShows == IInv /\ IInv' /\ [Next]_vars => [Mailbox!Next]_(Mailbox!vars)
<1> SUFFICES ASSUME IInv, IInv', [Next]_vars
             PROVE  \/ \E l \in Line : Mailbox!Put(l)
                    \/ Mailbox!Take \/ Mailbox!Finish \/ UNCHANGED Mailbox!vars
  BY DEF Mailbox!Next, Line
<1>1. CASE Wire BY <1>1, ReceiveShows, StopShows, OthersStutter DEF Wire
<1>2. CASE Handlers BY <1>2, IdleShows, StopShows, OthersStutter DEF Handlers
<1>3. CASE Uart1 BY <1>3, Takes, Finishes, OthersStutter DEF Uart1
<1>4. CASE EthInit BY <1>4, OthersStutter DEF EthInit
<1>5. CASE UNCHANGED vars BY <1>5, OthersStutter
<1> QED BY <1>1, <1>2, <1>3, <1>4, <1>5 DEF Next

\* From the end of the IDLE handler to the end of ParseCommand no line changes, and
\* lines are taken in the order they were put, for every ring.
THEOREM RingIsMailbox == Spec => ImplementsMailbox
<1>1. Init => Mailbox!Init
  BY DEF Init, Mailbox!Init, Unsettled
<1> QED
  BY <1>1, NextShows, Invariance, PTL DEF Spec, ImplementsMailbox, Mailbox!Spec
-----------------------------------------------------------------------------
(* What stays true of PostedRowIsLeftAlone, which TLC finds violated, and   *)
(* why the fairness of PostedIsParsed is justified.                        *)

\* A row that waits in qUart1 changes only if it is the one posted last, and then
\* only from the post to the end of the IDLE handler.
OnlyUnsettledChanges ==
  [][\A r \in Range(qUart1) : uart1_buf'[r] # uart1_buf[r] =>
       Unsettled /\ r = qUart1[Len(qUart1)]]_vars

\* From one chunk to the next, the interrupts keep uart1Task from the CPU for this
\* many steps at the most.
HandlersLeft ==
  (IF line.fresh THEN 6 ELSE 0) + (IF line.idle THEN 4 ELSE 0)
    + (IF isr = "abort" THEN 2 ELSE 0) + (IF tcif THEN 1 ELSE 0)

HandlersEnd ==
  [][LineIdle \/ Handlers => HandlersLeft \in 1 .. 13 /\ HandlersLeft' < HandlersLeft]_vars

\* Nothing but the late bytes of the same reception touches a row that waits, for
\* every ring.
THEOREM PostedRowSettles == Spec => OnlyUnsettledChanges
<1>1. IInv /\ [Next]_vars =>
        [\A r \in Range(qUart1) : uart1_buf'[r] # uart1_buf[r] =>
           Unsettled /\ r = qUart1[Len(qUart1)]]_vars
  <2> SUFFICES ASSUME IInv, [Next]_vars, NEW r \in Range(qUart1),
                      uart1_buf'[r] # uart1_buf[r]
               PROVE  Unsettled /\ r = qUart1[Len(qUart1)]
    OBVIOUS
  <2>1. PICK c \in Chunks : Receive(c)
    BY DEF Next, Wire, ReceiveLost, LineIdle, TransferError, Handlers, IdleCallback,
           IdlePartial, IdleAbort, RxCplt, Uart1, InitAdminManagementInterface,
           InitAdminManagementInterfaceDone, WaitForCommand, ParseCommand, TransmitLock,
           TransmitUnlock, ExcuteCommandDone, EthInit, PrintkLock, PrintkUnlock, vars
  <2>2. /\ dma.on /\ uart1_buf \in [Row -> [1 .. Depth -> Cell]]
        /\ uart1_buf' = [uart1_buf EXCEPT ![dma.row][dma.count + 1] = c]
    BY <2>1 DEF Receive, IInv, TypeOK
  <2>3. r \in Row /\ qUart1 \in Seq(Row) BY DEF Range, IInv, TypeOK
  <2>4. r = dma.row BY <2>2, <2>3
  <2>5. Unsettled
    <3>1. uart_buf \notin Range(qUart1) BY IInvRowsDisjoint DEF RowsDisjoint
    <3>2. r # uart_buf BY <3>1
    <3>3. isr \in {"none", "abort"} BY DEF IInv, TypeOK
    <3> QED BY <2>2, <2>4, <3>2, <3>3 DEF IInv, DmaInv, Unsettled
  <2> QED BY <2>4, <2>5 DEF IInv, DmaInv
<1> QED BY <1>1, Invariance, PTL DEF Spec, OnlyUnsettledChanges

\* Once no more bytes come the interrupts end, for every ring: the CPU goes to
\* uart1Task.
THEOREM HandlersShort == Spec => HandlersEnd
<1>1. IInv /\ [Next]_vars =>
        [LineIdle \/ Handlers =>
           HandlersLeft \in 1 .. 13 /\ HandlersLeft' < HandlersLeft]_vars
  <2> SUFFICES ASSUME IInv, LineIdle \/ Handlers
               PROVE  HandlersLeft \in 1 .. 13 /\ HandlersLeft' < HandlersLeft
    OBVIOUS
  <2>1. line \in [fresh : BOOLEAN, idle : BOOLEAN, idleie : BOOLEAN]
    BY DEF IInv, TypeOK
  <2>2. CASE LineIdle
    BY <2>1, <2>2 DEF LineIdle, HandlersLeft
  <2>3. CASE IdleCallback
    <3>1. /\ line.idle /\ line'.fresh = line.fresh /\ ~line'.idle
          /\ isr = "none" /\ isr' = "abort" /\ tcif' = tcif
      BY <2>1, <2>3 DEF IdleCallback
    <3> QED BY <3>1 DEF HandlersLeft
  <2>4. CASE IdlePartial
    <3>1. /\ line.idle /\ line'.fresh = line.fresh /\ ~line'.idle
          /\ isr' = isr /\ tcif' = tcif
      BY <2>1, <2>4 DEF IdlePartial, AfterPartial
    <3> QED BY <3>1 DEF HandlersLeft
  <2>5. CASE IdleAbort BY <2>5 DEF IdleAbort, HandlersLeft
  <2>6. CASE RxCplt
    <3>1. /\ line'.fresh = line.fresh /\ line'.idle = line.idle
          /\ isr' = isr /\ tcif /\ ~tcif'
      BY <2>1, <2>6 DEF RxCplt, USART_Start_Receive_DMA
    <3> QED BY <3>1 DEF HandlersLeft
  <2> QED BY <2>2, <2>3, <2>4, <2>5, <2>6 DEF Handlers
<1> QED BY <1>1, Invariance, PTL DEF Spec, HandlersEnd
=============================================================================
