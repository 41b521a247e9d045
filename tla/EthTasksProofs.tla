--------------------------- MODULE EthTasksProofs ---------------------------
(***************************************************************************)
(* No edge of an interrupt line is lost, and eth0TransTask wakes on edges  *)
(* only, for any number of chips and of tasks that wait for them.  The     *)
(* argument: an edge no task has woken for yet is in the pending bit or in *)
(* the semaphore, and as tasks move only when nothing is pending, a        *)
(* pending bit always belongs to such an edge.                             *)
(***************************************************************************)
EXTENDS EthTasks, TLAPS

\* Every edge is somewhere; before FreeRTOS, in the pending bit.
EdgeKept ==
  phase # "hung" =>
    \A k \in Chips :
      unseen[k] => pending[k] \/ (phase # "hal" /\ sem[k] = 1)

\* A pending bit comes from an edge that no task has woken for yet.
PendingIsNew == \A k \in Chips : pending[k] => unseen[k]

\* So does the token of chip 0, whose semaphore is cleared at boot.
TokenIsNew == phase \in {"kernel", "running"} /\ 0 \in Chips /\ sem[0] = 1 => unseen[0]

IInv == TypeOK /\ EdgeKept /\ PendingIsNew /\ TokenIsNew

USE ChipsAssumption DEF Semaphore

-----------------------------------------------------------------------------
\* The invariant holds when the clocks and pins are set up.
LEMMA InitIInv == Init => IInv
BY DEF Init, IInv, TypeOK, EdgeKept, PendingIsNew, TokenIsNew

\* An edge goes to the pending bit.
LEMMA EdgeStep == ASSUME IInv, NEW k \in Chips, Edge(k) PROVE IInv'
BY DEF Edge, IInv, TypeOK, EdgeKept, PendingIsNew, TokenIsNew

\* A handler moves it from there to the semaphore.
LEMMA HandlerStep == ASSUME IInv, NEW k \in Chips, EXTI_IRQHandler(k) PROVE IInv'
BY DEF EXTI_IRQHandler, HAL_GPIO_EXTI_Callback, IInv, TypeOK, EdgeKept, PendingIsNew,
       TokenIsNew

\* FreeRTOS starts when nothing is pending, so no edge is outstanding.
LEMMA BootStep == IInv /\ Boot => IInv'
<1> USE DEF IInv, TypeOK, EdgeKept, PendingIsNew, TokenIsNew
<1>1. ASSUME IInv, MX_FREERTOS_Init PROVE IInv'
  BY <1>1 DEF MX_FREERTOS_Init, NonePending, Cleared
<1>2. ASSUME IInv, osKernelStart PROVE IInv'
  BY <1>2 DEF osKernelStart
<1> QED BY <1>1, <1>2 DEF Boot

\* A task that wakes for its chip has seen its edges; one that gets the bus
\* changes nothing of the chips.
LEMMA WaitStep == ASSUME IInv, NEW k \in Waiting, SemaphoreWait(k) PROVE IInv'
BY DEF SemaphoreWait, Awaited, Thread, NonePending, IInv, TypeOK, EdgeKept,
       PendingIsNew, TokenIsNew

\* Every step keeps the invariant.
LEMMA NextIInv == IInv /\ [Next]_vars => IInv'
<1> SUFFICES ASSUME IInv, [Next]_vars PROVE IInv' OBVIOUS
<1>1. CASE EthInit
  BY <1>1 DEF EthInit, InitEternetInterface, ThreadTerminate, IInv, TypeOK, EdgeKept,
              PendingIsNew, TokenIsNew
<1>2. CASE UNCHANGED vars
  BY <1>2 DEF vars, IInv, TypeOK, EdgeKept, PendingIsNew, TokenIsNew
<1> QED
  BY <1>1, <1>2, EdgeStep, HandlerStep, BootStep, WaitStep DEF Next, Handlers

-----------------------------------------------------------------------------
\* The invariant holds in every state of the firmware.
THEOREM Invariance == Spec => []IInv
BY InitIInv, NextIInv, PTL DEF Spec

\* Pending bits, tokens and tasks keep their types; a semaphore has one token at most.
THEOREM TypeCorrect == Spec => []TypeOK
<1>1. IInv => TypeOK BY DEF IInv
<1> QED BY <1>1, Invariance, PTL

\* An edge is in the pending bit or in the semaphore until its task wakes.
THEOREM EdgesKept == Spec => []NoEdgeLost
<1>1. IInv => NoEdgeLost BY DEF IInv, EdgeKept, NoEdgeLost
<1> QED BY <1>1, Invariance, PTL

\* When there is an eth0TransTask, it wakes on an edge of its own chip only.
THEOREM Eth0OnEdge == ASSUME 0 \in Waiting PROVE Spec => Eth0WakesOnEdge
<1>1. IInv /\ [Next]_vars => [WokenByEdge(0)]_vars
  <2> SUFFICES ASSUME IInv, [Next]_vars, pc[0] = "interrupt", pc'[0] = "spi"
               PROVE  unseen[0]
    BY DEF WokenByEdge
  <2>1. PICK k \in Waiting : SemaphoreWait(k)
    BY DEF Next, Edge, Handlers, EXTI_IRQHandler, Boot, MX_FREERTOS_Init,
           osKernelStart, EthInit, InitEternetInterface, ThreadTerminate, vars
  <2>2. k = 0 BY <2>1 DEF SemaphoreWait, IInv, TypeOK
  <2>3. phase = "running" /\ sem[0] = 1 BY <2>1, <2>2 DEF SemaphoreWait, Awaited, Thread
  <2> QED BY <2>3 DEF IInv, TokenIsNew
<1> QED BY <1>1, Invariance, PTL DEF Spec, Eth0WakesOnEdge
-----------------------------------------------------------------------------
(* The other semaphore.  Nothing releases semEthSpiIdle, so that a task    *)
(* that has woken once hangs: this is why BusGranted does not hold, for    *)
(* any number of tasks, and not only for eth0TransTask.                    *)

\* The semaphore of the bus has lost its token at boot, and gets none.
NoToken == sem[SpiIdle] = 0

\* A task that waits for the bus waits for it ever after.
WaitsForEver == [][\A k \in Waiting : pc[k] = "spi" => pc'[k] = "spi"]_vars

LEMMA NoTokenStep == IInv /\ NoToken /\ [Next]_vars => NoToken'
<1> SUFFICES ASSUME IInv, NoToken, [Next]_vars PROVE NoToken' OBVIOUS
<1> USE DEF IInv, TypeOK, NoToken
<1>1. ASSUME NEW k \in Chips, EXTI_IRQHandler(k) PROVE NoToken'
  BY <1>1 DEF EXTI_IRQHandler, HAL_GPIO_EXTI_Callback
<1>2. CASE Boot BY <1>2 DEF Boot, MX_FREERTOS_Init, osKernelStart, Cleared
<1>3. ASSUME NEW k \in Waiting, SemaphoreWait(k) PROVE NoToken'
  BY <1>3 DEF SemaphoreWait, Awaited
<1>4. CASE EthInit BY <1>4 DEF EthInit, InitEternetInterface, ThreadTerminate
<1>5. ASSUME NEW k \in Chips, Edge(k) PROVE NoToken' BY <1>5 DEF Edge
<1>6. CASE UNCHANGED vars BY <1>6 DEF vars
<1> QED BY <1>1, <1>2, <1>3, <1>4, <1>5, <1>6 DEF Next, Handlers

\* eth0TransTask and eth1TransTask wake once and never get the bus.
THEOREM BusNeverGranted == Spec => WaitsForEver
<1>1. Init => NoToken BY DEF Init, NoToken
<1>2. IInv /\ NoToken /\ [Next]_vars =>
        [\A k \in Waiting : pc[k] = "spi" => pc'[k] = "spi"]_vars
  <2> SUFFICES ASSUME IInv, NoToken, [Next]_vars, NEW k \in Waiting, pc[k] = "spi"
               PROVE  pc'[k] = "spi"
    OBVIOUS
  <2>1. ASSUME NEW j \in Waiting, SemaphoreWait(j) PROVE pc'[k] = "spi"
    <3>1. pc[j] # "spi" BY <2>1 DEF SemaphoreWait, Awaited, NoToken
    <3>2. pc' = [pc EXCEPT ![j] = IF @ = "interrupt" THEN "spi" ELSE "interrupt"]
      BY <2>1 DEF SemaphoreWait
    <3> QED BY <3>1, <3>2 DEF IInv, TypeOK
  <2>2. CASE UNCHANGED pc BY <2>2
  <2> QED
    BY <2>1, <2>2 DEF Next, Edge, Handlers, EXTI_IRQHandler, Boot, MX_FREERTOS_Init,
       osKernelStart, EthInit, InitEternetInterface, ThreadTerminate, vars
<1> QED BY <1>1, <1>2, NoTokenStep, Invariance, PTL DEF Spec, WaitsForEver
=============================================================================
