------------------------------- MODULE SpiBus -------------------------------
(***************************************************************************)
(* How ethInitTask talks to the W5500 chips over SPI1: a register access   *)
(* is a frame, chip select low, one or two DMA bursts (and a blocking byte *)
(* read), chip select high.  Between the start of a burst and its end the  *)
(* task waits on a binary semaphore that the DMA interrupt releases.       *)
(* (wizchip_conf.c and w5500.c as adapted here, ethernet_common.c, the     *)
(* boot code in freertos.c, and the HAL functions they call.)              *)
(*                                                                         *)
(* A burst is moved as a whole; what is in it is left out.  Handlers of    *)
(* the two streams have the same priority, so the one with the lower       *)
(* number, the receive stream's, goes first when both are pending, and the *)
(* task goes on only when none is.                                         *)
(***************************************************************************)
EXTENDS Naturals, Sequences

CONSTANTS Channels,  \* 0 .. 4, the chips on the bus
          Inits,     \* channels InitEternetInterface is called for, in order
          Errors     \* bound: how many bursts end with a DMA error

ASSUME BusAssumption ==
  /\ 0 \in Channels
  /\ Inits \in Seq(Channels)
  /\ Errors \in Nat

\* The parts of each kind of frame: "tx" and "rx" are bursts, "byte" is
\* wizchip_spi_readbyte.
Frames == [ WIZCHIP_READ      |-> <<"tx", "byte">>,
            WIZCHIP_WRITE     |-> <<"tx">>,
            WIZCHIP_READ_BUF  |-> <<"tx", "rx">>,
            WIZCHIP_WRITE_BUF |-> <<"tx", "tx">> ]

VARIABLES
  cs,             \* the chips whose select line is low
  last,           \* wizchip_last_cs_channel
  gW5500_ch_sel,  \* the chip the driver is to talk to
  hspi,           \* hspi1.State
  dmatx, dmarx,   \* the streams: locked, running, interrupt pending, with a
                  \* completion callback, and (dmarx) clocked by the other
  semTx, semRx,   \* tokens of semW5500TxCplt and semW5500RxCplt
  pc,             \* where ethInitTask is
  op,             \* the frame it is making
  todo,           \* parts of the frame it has yet to start
  onWire,         \* parts of the frame that the chips selected have seen
  inits,          \* channels still to be initialised
  errors          \* DMA errors so far

vars == <<cs, last, gW5500_ch_sel, hspi, dmatx, dmarx, semTx, semRx, pc, op, todo,
          onWire, inits, errors>>
streams == <<dmatx, dmarx>>
chip    == <<cs, last, gW5500_ch_sel>>

Stream  == [lock : BOOLEAN, run : BOOLEAN, pend : BOOLEAN, cplt : BOOLEAN,
            fed : BOOLEAN]
AtRest  == [lock |-> FALSE, run |-> FALSE, pend |-> FALSE, cplt |-> FALSE, fed |-> FALSE]
Kind    == DOMAIN Frames
PartSeq == UNION {[1 .. n -> {"tx", "rx", "byte"}] : n \in 0 .. 2}

TypeOK ==
  /\ cs \subseteq Channels
  /\ last \in Channels /\ gW5500_ch_sel \in Channels
  /\ hspi \in {"READY", "BUSY_TX", "BUSY_RX"}
  /\ dmatx \in Stream /\ dmarx \in Stream
  /\ semTx \in 0 .. 1 /\ semRx \in 0 .. 1
  /\ pc \in {"boot", "reset", "next", "frame", "waitTx", "waitRx", "done"}
  /\ op \in Kind
  /\ todo \in PartSeq
  /\ onWire \in PartSeq
  /\ inits \in {SubSeq(Inits, i, Len(Inits)) : i \in 1 .. Len(Inits) + 1}
  /\ errors \in 0 .. Errors

\* The select lines are low until wizchip_hw_reset, and FreeRTOS creates a
\* binary semaphore with its token in it.
Init ==
  /\ cs = Channels
  /\ last = 0 /\ gW5500_ch_sel = 0
  /\ hspi = "READY"
  /\ dmatx = AtRest /\ dmarx = AtRest
  /\ semTx = 1 /\ semRx = 1
  /\ pc = "boot"
  /\ op = "WIZCHIP_READ"
  /\ todo = <<>>
  /\ onWire = <<>>
  /\ inits = Inits
  /\ errors = 0

Thread(from) == pc = from /\ ~dmatx.pend /\ ~dmarx.pend

-----------------------------------------------------------------------------
(* Start-up.                                                               *)

\* MX_FREERTOS_Init takes the tokens out before the scheduler starts.
ClearSemaphores_NotTx == semRx' = 0 /\ UNCHANGED semTx
ClearSemaphores == semTx' = 0 /\ semRx' = 0

Boot ==
  /\ Thread("boot")
  /\ ClearSemaphores
  /\ pc' = "reset"
  /\ UNCHANGED <<chip, hspi, streams, op, todo, onWire, inits, errors>>

HardwareResetAllChips ==
  /\ Thread("reset")
  /\ cs' = {}
  /\ pc' = "next"
  /\ UNCHANGED <<last, gW5500_ch_sel, hspi, streams, semTx, semRx, op, todo, onWire,
                 inits, errors>>

\* InitEternetInterface chooses the chip; its register accesses follow.
InitEternetInterface ==
  /\ Thread("next")
  /\ inits # <<>>
  /\ gW5500_ch_sel' = Head(inits)
  /\ inits' = Tail(inits)
  /\ UNCHANGED <<cs, last, hspi, streams, semTx, semRx, pc, op, todo, onWire, errors>>

ThreadTerminate ==
  /\ Thread("next")
  /\ inits = <<>>
  /\ pc' = "done"
  /\ UNCHANGED <<chip, hspi, streams, semTx, semRx, op, todo, onWire, inits, errors>>

-----------------------------------------------------------------------------
(* One frame.                                                              *)

Select(k) ==
  /\ Thread("next")
  /\ inits # Inits
  /\ cs' = cs \cup {gW5500_ch_sel}
  /\ last' = gW5500_ch_sel
  /\ op' = k
  /\ todo' = Frames[k]
  /\ onWire' = <<>>
  /\ pc' = "frame"
  /\ UNCHANGED <<gW5500_ch_sel, hspi, streams, semTx, semRx, inits, errors>>

\* HAL_DMA_Start_IT, which does nothing for a stream that is locked.
Started(s, cplt) == IF s.lock THEN [s EXCEPT !.cplt = cplt]
                    ELSE [lock |-> TRUE, run |-> TRUE, pend |-> s.pend, cplt |-> cplt,
                          fed |-> FALSE]

\* wizchip_spi_writeburst: the result of HAL_SPI_Transmit_DMA is ignored.
WriteBurst ==
  /\ Thread("frame")
  /\ todo # <<>> /\ Head(todo) = "tx"
  /\ IF hspi = "READY"
     THEN /\ hspi' = "BUSY_TX"
          /\ dmatx' = Started(dmatx, TRUE)
     ELSE UNCHANGED <<hspi, dmatx>>
  /\ todo' = Tail(todo)
  /\ pc' = "waitTx"
  /\ UNCHANGED <<chip, dmarx, semTx, semRx, op, onWire, inits, errors>>

\* wizchip_spi_readburst: HAL_SPI_Receive_DMA runs both streams, and the end of
\* the transmit stream is to call nothing.
TxCallback_Kept == dmatx.cplt
TxCallback == FALSE

ReadBurst ==
  /\ Thread("frame")
  /\ todo # <<>> /\ Head(todo) = "rx"
  /\ IF hspi = "READY"
     THEN /\ hspi' = "BUSY_RX"
          /\ dmarx' = Started(dmarx, TRUE)
          /\ dmatx' = Started(dmatx, TxCallback)
     ELSE UNCHANGED <<hspi, streams>>
  /\ todo' = Tail(todo)
  /\ pc' = "waitRx"
  /\ UNCHANGED <<chip, semTx, semRx, op, onWire, inits, errors>>

\* wizchip_spi_readbyte polls; it gives up at once when the handle is busy.
ReadByte ==
  /\ Thread("frame")
  /\ todo # <<>> /\ Head(todo) = "byte"
  /\ onWire' = IF hspi = "READY" THEN Append(onWire, "byte") ELSE onWire
  /\ todo' = Tail(todo)
  /\ UNCHANGED <<chip, hspi, streams, semTx, semRx, pc, op, inits, errors>>

\* osSemaphoreWait with osWaitForever.
TakeTx ==
  /\ Thread("waitTx")
  /\ semTx = 1
  /\ semTx' = 0
  /\ pc' = "frame"
  /\ UNCHANGED <<chip, hspi, streams, semRx, op, todo, onWire, inits, errors>>

TakeRx ==
  /\ Thread("waitRx")
  /\ semRx = 1
  /\ semRx' = 0
  /\ pc' = "frame"
  /\ UNCHANGED <<chip, hspi, streams, semTx, op, todo, onWire, inits, errors>>

\* wizchip_cs_deselect raises the line of the chip selected last.
Deselect ==
  /\ Thread("frame")
  /\ todo = <<>>
  /\ cs' = cs \ {last}
  /\ pc' = "next"
  /\ UNCHANGED <<last, gW5500_ch_sel, hspi, streams, semTx, semRx, op, todo, onWire,
                 inits, errors>>

-----------------------------------------------------------------------------
(* The bus and the streams.                                                *)

\* The transmit stream has handed over its last byte.
TxMoved ==
  /\ dmatx.run
  /\ dmatx' = [dmatx EXCEPT !.run = FALSE, !.pend = TRUE]
  /\ onWire' = IF hspi = "BUSY_TX" THEN Append(onWire, "tx") ELSE onWire
  /\ dmarx' = [dmarx EXCEPT !.fed = (hspi = "BUSY_RX")]
  /\ UNCHANGED <<chip, hspi, semTx, semRx, pc, op, todo, inits, errors>>

\* The receive stream has stored its last byte, after the last one went out.
RxMoved ==
  /\ dmarx.run /\ dmarx.fed
  /\ dmarx' = [dmarx EXCEPT !.run = FALSE, !.pend = TRUE]
  /\ onWire' = Append(onWire, "rx")
  /\ UNCHANGED <<chip, hspi, dmatx, semTx, semRx, pc, op, todo, inits, errors>>

\* DMA2_Stream3_IRQHandler, SPI_DMATransmitCplt when it is the callback, and
\* HAL_SPI_TxCpltCallback.  A semaphore holds one token at most.
TxIRQHandler ==
  /\ dmatx.pend /\ ~dmarx.pend
  /\ dmatx' = [dmatx EXCEPT !.lock = FALSE, !.pend = FALSE]
  /\ IF dmatx.cplt THEN hspi' = "READY" /\ semTx' = 1 ELSE UNCHANGED <<hspi, semTx>>
  /\ UNCHANGED <<chip, dmarx, semRx, pc, op, todo, onWire, inits, errors>>

\* DMA2_Stream0_IRQHandler, SPI_DMAReceiveCplt and HAL_SPI_RxCpltCallback.
HAL_SPI_RxCpltCallback_Tx == semTx' = 1 /\ UNCHANGED semRx
HAL_SPI_RxCpltCallback == semRx' = 1 /\ UNCHANGED semTx

RxIRQHandler ==
  /\ dmarx.pend
  /\ dmarx' = [dmarx EXCEPT !.lock = FALSE, !.pend = FALSE]
  /\ hspi' = "READY"
  /\ HAL_SPI_RxCpltCallback
  /\ UNCHANGED <<chip, dmatx, pc, op, todo, onWire, inits, errors>>

\* A transfer error disables its stream.  SPI_DMAError makes the handle ready and
\* releases no semaphore; for the transmit stream of a read burst there is not
\* even that callback, and the receive stream is not clocked any more.
Broken(s) == [s EXCEPT !.lock = FALSE, !.run = FALSE]

DMAError ==
  /\ errors < Errors
  /\ errors' = errors + 1
  /\ \/ /\ hspi = "BUSY_TX" /\ dmatx.run
        /\ dmatx' = Broken(dmatx)
        /\ hspi' = "READY"
        /\ UNCHANGED dmarx
     \/ /\ hspi = "BUSY_RX" /\ dmarx.run
        /\ dmarx' = Broken(dmarx)
        /\ hspi' = "READY"
        /\ UNCHANGED dmatx
     \/ /\ hspi = "BUSY_RX" /\ dmatx.run
        /\ dmatx' = Broken(dmatx)
        /\ UNCHANGED <<hspi, dmarx>>
  /\ UNCHANGED <<chip, semTx, semRx, pc, op, todo, onWire, inits>>

-----------------------------------------------------------------------------
Task ==
  \/ Boot \/ HardwareResetAllChips \/ InitEternetInterface \/ ThreadTerminate
  \/ (\E k \in Kind : Select(k)) \/ WriteBurst \/ ReadBurst \/ ReadByte
  \/ TakeTx \/ TakeRx \/ Deselect
Hardware == TxMoved \/ RxMoved \/ TxIRQHandler \/ RxIRQHandler

Next == Task \/ Hardware \/ DMAError

Spec == Init /\ [][Next]_vars

\* The streams move their bytes, their interrupts are taken, and no task keeps
\* the CPU from ethInitTask, which has the highest priority.
FairSpec == Spec /\ WF_vars(Task) /\ WF_vars(Hardware)

-----------------------------------------------------------------------------
(* Properties.                                                             *)

\* A select line goes up only when the chip has seen the frame, the whole frame
\* and nothing but the frame, no other chip was listening, and the bus is quiet.
FrameWhole ==
  [][pc = "frame" /\ pc' = "next" =>
       /\ onWire = Frames[op]
       /\ cs = {gW5500_ch_sel} /\ cs' = {}
       /\ ~dmatx.run /\ ~dmarx.run]_vars

\* A burst never starts on what an earlier one left behind: no token is left in
\* either semaphore, the handle is ready and the streams are unlocked and off.
NoLeftovers ==
  pc \in {"next", "frame"} /\ ~dmatx.pend /\ ~dmarx.pend =>
    /\ semTx = 0 /\ semRx = 0
    /\ hspi = "READY"
    /\ \A s \in {dmatx, dmarx} : ~s.lock /\ ~s.run

\* A token means that what the task waits for is over, and nothing else is.
TokenIsForWaiter ==
  pc \notin {"boot"} =>
    /\ semTx = 1 => pc = "waitTx" /\ hspi = "READY"
    /\ semRx = 1 => pc = "waitRx" /\ hspi = "READY"

\* Every frame ends, unless there is a DMA error.
FrameEnds == pc = "frame" ~> pc = "next" \/ errors > 0

\* wizchip_conf.c:178 "Wait until DMA transfer is done": a burst is waited for
\* no longer than the handle is busy with it.
WaitEnds == pc = "waitRx" /\ hspi = "READY" ~> pc # "waitRx"
=============================================================================
