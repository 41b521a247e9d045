------------------------------ MODULE EthTasks ------------------------------
(***************************************************************************)
(* The interrupt lines of the five W5500 chips, the binary semaphores they *)
(* release, and eth0TransTask and eth1TransTask, which wait for them, from *)
(* MX_GPIO_Init on.  (Src/freertos.c, HAL_GPIO_EXTI_Callback in            *)
(* Src/ethernet_common.c, the EXTI handlers in Src/stm32f4xx_it.c and the  *)
(* semaphores of cmsis_os.c and queue.c.)                                  *)
(*                                                                         *)
(* A falling edge sets the pending bit of its line, also when it is set.   *)
(* From the first call of FreeRTOS to the start of the scheduler these     *)
(* interrupts are masked.  The EXTI handlers have one priority: the lowest *)
(* line goes first, and no task moves while a line is pending.             *)
(***************************************************************************)
EXTENDS Naturals

CONSTANTS Chips,    \* interrupt lines, 0 .. 4
          Waiting,  \* chips that have a task waiting for them, 0 and 1
          SpiIdle   \* stands for semEthSpiIdle; semEth<k>Int is k

ASSUME ChipsAssumption ==
  Chips \subseteq Nat /\ Waiting \subseteq Chips /\ SpiIdle \in Nat \ Chips

VARIABLES
  phase,    \* "hal", "kernel" (FreeRTOS has been called), "running", "hung"
  pending,  \* EXTI pending bits
  sem,      \* tokens of each semaphore
  pc,       \* what each waiting task waits for: "interrupt" or "spi"
  ethInit,  \* ethInitTask: "ready", "bus" (it uses the SPI bus), "terminated"
  unseen    \* history: an edge came since the task of the chip last woke

vars == <<phase, pending, sem, pc, ethInit, unseen>>

Semaphore == Chips \cup {SpiIdle}

TypeOK ==
  /\ phase \in {"hal", "kernel", "running", "hung"}
  /\ pending \in [Chips -> BOOLEAN]
  /\ sem \in [Semaphore -> 0 .. 1]
  /\ pc \in [Waiting -> {"interrupt", "spi"}]
  /\ ethInit \in {"ready", "bus", "terminated"}
  /\ unseen \in [Chips -> BOOLEAN]

Init ==
  /\ phase = "hal"
  /\ pending = [k \in Chips |-> FALSE]
  /\ sem = [s \in Semaphore |-> 0]
  /\ pc = [k \in Waiting |-> "interrupt"]
  /\ ethInit = "ready"
  /\ unseen = [k \in Chips |-> FALSE]

NonePending == \A k \in Chips : ~pending[k]
-----------------------------------------------------------------------------
\* The line of chip k falls.
Edge(k) ==
  /\ phase # "hung"
  /\ pending' = [pending EXCEPT ![k] = TRUE]
  /\ unseen' = [unseen EXCEPT ![k] = TRUE]
  /\ UNCHANGED <<phase, sem, pc, ethInit>>

\* HAL_GPIO_EXTI_Callback releases the semaphore of the chip; a binary semaphore
\* that is full stays full.
HAL_GPIO_EXTI_Callback_Next(k) == [sem EXCEPT ![IF k + 1 \in Chips THEN k + 1 ELSE 0] = 1]
HAL_GPIO_EXTI_Callback(k) == [sem EXCEPT ![k] = 1]

\* EXTI<k>_IRQHandler.  Before the semaphores exist their handles are NULL, and
\* configASSERT in xQueueGiveFromISR stops the program.
EXTI_IRQHandler(k) ==
  /\ phase \in {"hal", "running"}
  /\ pending[k] /\ \A j \in Chips : pending[j] => k <= j
  /\ pending' = [pending EXCEPT ![k] = FALSE]
  /\ IF phase = "hal" THEN phase' = "hung" /\ UNCHANGED sem
     ELSE sem' = HAL_GPIO_EXTI_Callback(k) /\ UNCHANGED phase
  /\ UNCHANGED <<pc, ethInit, unseen>>

\* MX_FREERTOS_Init creates every semaphore with its token, and takes out these.
Cleared_OnlySpiIdle == {SpiIdle}
Cleared == {0, SpiIdle}

MX_FREERTOS_Init ==
  /\ phase = "hal" /\ NonePending
  /\ sem' = [s \in Semaphore |-> IF s \in Cleared THEN 0 ELSE 1]
  /\ phase' = "kernel"
  /\ UNCHANGED <<pending, pc, ethInit, unseen>>

osKernelStart ==
  /\ phase = "kernel"
  /\ phase' = "running"
  /\ UNCHANGED <<pending, sem, pc, ethInit, unseen>>

Thread == phase = "running" /\ NonePending

\* osSemaphoreWait with osWaitForever in Start<k>TransTask: first for the
\* interrupt, then for the bus, and so on for ever.  Nothing in the program
\* releases semEthSpiIdle.
Awaited(k) == IF pc[k] = "interrupt" THEN k ELSE SpiIdle

SemaphoreWait(k) ==
  /\ Thread
  /\ sem[Awaited(k)] = 1
  /\ sem' = [sem EXCEPT ![Awaited(k)] = 0]
  /\ pc' = [pc EXCEPT ![k] = IF @ = "interrupt" THEN "spi" ELSE "interrupt"]
  /\ unseen' = [unseen EXCEPT ![k] = @ /\ pc[k] # "interrupt"]
  /\ UNCHANGED <<phase, pending, ethInit>>

\* ethInitTask uses the bus, and terminates.
InitEternetInterface ==
  /\ Thread
  /\ ethInit = "ready" /\ ethInit' = "bus"
  /\ UNCHANGED <<phase, pending, sem, pc, unseen>>

ThreadTerminate ==
  /\ Thread
  /\ ethInit = "bus" /\ ethInit' = "terminated"
  /\ UNCHANGED <<phase, pending, sem, pc, unseen>>

-----------------------------------------------------------------------------
Handlers == \E k \in Chips : EXTI_IRQHandler(k)
Boot     == MX_FREERTOS_Init \/ osKernelStart
EthInit  == InitEternetInterface \/ ThreadTerminate

Next == \/ \E k \in Chips : Edge(k)
        \/ Handlers \/ Boot \/ EthInit
        \/ \E k \in Waiting : SemaphoreWait(k)

Spec == Init /\ [][Next]_vars

\* Interrupts are taken, and edges do not come so fast that no task runs at all:
\* the line of a W5500 stays low until the driver clears the cause.
FairSpec ==
  /\ Spec
  /\ []<>(phase = "running" => NonePending)
  /\ WF_vars(Handlers) /\ WF_vars(Boot)
  /\ SF_vars(EthInit)
  /\ \A k \in Waiting : SF_vars(SemaphoreWait(k))

-----------------------------------------------------------------------------
(* Properties.                                                             *)

\* An edge, also one that came while the interrupts were masked or on top of
\* another, is never lost: until the task of the chip wakes, either the line is
\* pending or the token is there.
NoEdgeLost ==
  phase = "running" => \A k \in Chips : unseen[k] => pending[k] \/ sem[k] = 1

\* A task wakes on an edge that came after it last woke, and never without one.
WokenByEdge(k) == pc[k] = "interrupt" /\ pc'[k] = "spi" => unseen[k]

\* eth0TransTask wakes on interrupts of its chip only, clearing at boot included.
Eth0WakesOnEdge == [][WokenByEdge(0)]_vars

\* The first edge on a line that has a task wakes the task.
EdgeWakes ==
  \A k \in Waiting : (phase = "running" /\ unseen[k]) ~> pc[k] = "spi"

\* freertos.c:341 "Await the data reception interruption...": so does
\* eth1TransTask.
Eth1WakesOnEdge == [][WokenByEdge(1)]_vars

\* freertos.c:321 "If the Spi bus is busy, await the semphore...": a task does not
\* wait for the bus once nobody uses it.
BusGranted ==
  pc[0] = "spi" /\ ethInit = "terminated" ~> pc[0] = "interrupt"
=============================================================================
