---------------------------- MODULE SpiBusProofs ----------------------------
(***************************************************************************)
(* A frame that is closed is whole and nothing is left of it, for any      *)
(* chips and any number of DMA errors.  The argument goes by what the task *)
(* waits for: in each wait the streams, the handle and the tokens can only *)
(* be in a few states, the one with the token is the one in which the      *)
(* burst is on the wire and both streams have come to rest, and a wait     *)
(* that an error has struck never gets the token.                          *)
(***************************************************************************)
EXTENDS SpiBus, SequenceTheorems, TLAPS

Quiet(s) == ~s.lock /\ ~s.run /\ ~s.pend

\* What the chips have seen (w) and what is to come (t) make up the frame.
Makes(w, t) ==
  \/ w = <<>> /\ t = Frames[op]
  \/ Len(Frames[op]) = 2 /\ w = <<Frames[op][1]>> /\ t = <<Frames[op][2]>>
  \/ w = Frames[op] /\ t = <<>>

StatesOK ==
  /\ pc \in {"boot", "reset", "next", "frame", "waitTx", "waitRx", "done"}
  /\ dmatx \in Stream /\ dmarx \in Stream
  /\ op \in Kind

\* Outside a wait nothing moves and nothing is pending.
RestInv ==
  pc \notin {"waitTx", "waitRx"} =>
    /\ hspi = "READY"
    /\ Quiet(dmatx) /\ Quiet(dmarx)
    /\ pc # "boot" => semTx = 0 /\ semRx = 0
    /\ pc = "frame" => Makes(onWire, todo)

\* One chip is selected within a frame, and none between frames.
ChipInv ==
  /\ pc \in {"next", "done"} => cs = {}
  /\ pc \in {"frame", "waitTx", "waitRx"} =>
       cs = {gW5500_ch_sel} /\ last = gW5500_ch_sel

\* The wait of a write burst: it moves, its interrupt is pending, or it is over.
WaitTxInv ==
  pc = "waitTx" =>
    /\ semRx = 0 /\ Quiet(dmarx)
    /\ \/ /\ hspi = "BUSY_TX" /\ semTx = 0
          /\ dmatx.lock /\ dmatx.cplt /\ dmatx.run = ~dmatx.pend
          /\ dmatx.run => Makes(Append(onWire, "tx"), todo)
          /\ dmatx.pend => Makes(onWire, todo)
       \/ /\ hspi = "READY" /\ Quiet(dmatx)
          /\ semTx = 1 => Makes(onWire, todo)

\* The wait of a read burst, during which the transmit stream calls nothing.
WaitRxInv ==
  pc = "waitRx" =>
    /\ semTx = 0
    /\ ~dmatx.cplt /\ ~(dmatx.run /\ dmatx.pend)
    /\ dmatx.lock => dmatx.run \/ dmatx.pend
    /\ \/ /\ hspi = "BUSY_RX" /\ semRx = 0
          /\ dmarx.lock /\ dmarx.run /\ ~dmarx.pend
          /\ dmarx.fed => ~dmatx.run
          /\ Makes(Append(onWire, "rx"), todo)
       \/ /\ hspi = "BUSY_RX" /\ semRx = 0
          /\ dmarx.lock /\ ~dmarx.run /\ dmarx.pend
          /\ ~dmatx.run
          /\ Makes(onWire, todo)
       \/ /\ hspi = "READY" /\ Quiet(dmarx)
          /\ semRx = 1 => ~dmatx.run /\ Makes(onWire, todo)

IInv == StatesOK /\ RestInv /\ ChipInv /\ WaitTxInv /\ WaitRxInv

-----------------------------------------------------------------------------
\* Every kind of frame has one part or two.
LEMMA FrameParts ==
  ASSUME op \in Kind
  PROVE  \/ \E a \in {"tx", "rx", "byte"} : Frames[op] = <<a>>
         \/ \E a, b \in {"tx", "rx", "byte"} : Frames[op] = <<a, b>>
BY DEF Kind, Frames

\* Appending to a sequence of one.
LEMMA AppendToOne ==
  ASSUME NEW S, NEW s \in Seq(S), Len(s) = 1, NEW b \in S
  PROVE  /\ Append(s, b) \in Seq(S) /\ Len(Append(s, b)) = 2
         /\ Append(s, b)[1] = s[1] /\ Append(s, b)[2] = b
<1>1. Append(s, b) \in Seq(S) BY AppendProperties, Zenon
<1>2. Len(Append(s, b)) = Len(s) + 1 BY AppendProperties, Zenon
<1>3. \A i \in 1 .. Len(s) : Append(s, b)[i] = s[i] OBVIOUS
<1>4. Append(s, b)[Len(s) + 1] = b BY AppendProperties, Zenon
<1>5. Len(s) + 1 = 2 /\ 1 \in 1 .. Len(s) OBVIOUS
<1> QED BY <1>1, <1>2, <1>3, <1>4, <1>5, Zenon

LEMMA AppendSecond ==
  ASSUME NEW a, NEW b
  PROVE  Append(<<a>>, b) = <<a, b>>
<1> DEFINE S == {a, b}
<1> DEFINE s == <<a>>
<1> DEFINE t == <<a, b>>
<1>1. s \in Seq(S) /\ b \in S /\ Len(s) = 1 /\ s[1] = a OBVIOUS
<1>2. t \in Seq(S) /\ Len(t) = 2 /\ t[1] = a /\ t[2] = b OBVIOUS
<1> HIDE DEF S, s, t
<1>3. /\ Append(s, b) \in Seq(S) /\ Len(Append(s, b)) = 2
      /\ Append(s, b)[1] = s[1] /\ Append(s, b)[2] = b
  BY <1>1, AppendToOne
<1>4. \A i \in 1 .. 2 : Append(s, b)[i] = t[i] BY <1>1, <1>2, <1>3
<1>5. Append(s, b) = t BY <1>2, <1>3, <1>4, SeqEqual, Zenon
<1> QED BY <1>5 DEF s, t

\* The next part of a frame moves from what is to come to what was seen.
LEMMA NextPart ==
  ASSUME op \in Kind, NEW w, NEW t, Makes(w, t), t # <<>>
  PROVE  Makes(Append(w, Head(t)), Tail(t))
<1>1. CASE \E a \in {"tx", "rx", "byte"} : Frames[op] = <<a>>
  <2>1. PICK a \in {"tx", "rx", "byte"} : Frames[op] = <<a>> BY <1>1
  <2>2. w = <<>> /\ t = <<a>> BY <2>1 DEF Makes
  <2>3. Append(w, Head(t)) = <<a>> /\ Tail(t) = <<>> BY <2>2
  <2> QED BY <2>1, <2>3 DEF Makes
<1>2. CASE \E a, b \in {"tx", "rx", "byte"} : Frames[op] = <<a, b>>
  <2>1. PICK a, b \in {"tx", "rx", "byte"} : Frames[op] = <<a, b>> BY <1>2
  <2>2. CASE w = <<>> /\ t = <<a, b>>
    <3>1. Append(w, Head(t)) = <<a>> /\ Tail(t) = <<b>> BY <2>2
    <3> QED BY <2>1, <3>1 DEF Makes
  <2>3. CASE w = <<a>> /\ t = <<b>>
    <3>1. Append(w, Head(t)) = <<a, b>> /\ Tail(t) = <<>> BY <2>3, AppendSecond
    <3> QED BY <2>1, <3>1 DEF Makes
  <2> QED BY <2>1, <2>2, <2>3 DEF Makes
<1> QED BY <1>1, <1>2, FrameParts

\* When nothing is to come, the frame is whole.
LEMMA NoPartLeft ==
  ASSUME op \in Kind, NEW w, Makes(w, <<>>)
  PROVE  w = Frames[op]
BY FrameParts DEF Makes

-----------------------------------------------------------------------------
\* The invariant holds when the firmware starts.
LEMMA InitIInv == Init => IInv
BY DEF Init, IInv, StatesOK, RestInv, ChipInv, WaitTxInv, WaitRxInv, Quiet, AtRest,
       Stream, Kind, Frames

\* Before and between frames.
LEMMA BetweenFrames ==
  ASSUME IInv, \/ Boot \/ HardwareResetAllChips \/ InitEternetInterface
               \/ ThreadTerminate \/ \E k \in Kind : Select(k)
  PROVE  IInv'
<1> USE DEF IInv, StatesOK, RestInv, ChipInv, WaitTxInv, WaitRxInv, Thread, Quiet,
            streams, chip
<1>1. CASE Boot BY <1>1 DEF Boot, ClearSemaphores
<1>2. CASE HardwareResetAllChips BY <1>2 DEF HardwareResetAllChips
<1>3. CASE InitEternetInterface BY <1>3 DEF InitEternetInterface
<1>4. CASE ThreadTerminate BY <1>4 DEF ThreadTerminate
<1>5. CASE \E k \in Kind : Select(k) BY <1>5 DEF Select, Makes
<1> QED BY <1>1, <1>2, <1>3, <1>4, <1>5

\* The start of a write burst.
LEMMA WriteBurstStep == IInv /\ WriteBurst => IInv'
<1> SUFFICES ASSUME IInv, WriteBurst PROVE IInv' OBVIOUS
<1>1. /\ pc = "frame" /\ todo # <<>> /\ Head(todo) = "tx"
      /\ hspi = "READY" /\ hspi' = "BUSY_TX"
      /\ Quiet(dmatx) /\ Quiet(dmarx) /\ semTx = 0 /\ semRx = 0
      /\ dmatx' = Started(dmatx, TRUE)
      /\ todo' = Tail(todo) /\ pc' = "waitTx"
      /\ UNCHANGED <<cs, last, gW5500_ch_sel, dmarx, semTx, semRx, op, onWire>>
  BY DEF WriteBurst, Thread, chip, IInv, RestInv
<1>2. Makes(onWire, todo) BY <1>1 DEF IInv, RestInv
<1>3. Makes(Append(onWire, "tx"), todo')
  BY <1>1, <1>2, NextPart DEF IInv, StatesOK
<1>4. /\ dmatx' \in Stream
      /\ dmatx'.lock /\ dmatx'.run /\ ~dmatx'.pend /\ dmatx'.cplt
  BY <1>1 DEF Started, Quiet, Stream, IInv, StatesOK
<1>5. StatesOK' BY <1>1, <1>4 DEF IInv, StatesOK
<1>6. ChipInv' BY <1>1 DEF IInv, ChipInv
<1>7. WaitTxInv' BY <1>1, <1>3, <1>4 DEF WaitTxInv, Quiet, Makes
<1> QED BY <1>1, <1>5, <1>6, <1>7 DEF IInv, RestInv, WaitRxInv

\* The start of a read burst.
LEMMA ReadBurstStep == IInv /\ ReadBurst => IInv'
<1> SUFFICES ASSUME IInv, ReadBurst PROVE IInv' OBVIOUS
<1>1. /\ pc = "frame" /\ todo # <<>> /\ Head(todo) = "rx"
      /\ hspi = "READY" /\ hspi' = "BUSY_RX"
      /\ Quiet(dmatx) /\ Quiet(dmarx) /\ semTx = 0 /\ semRx = 0
      /\ dmarx' = Started(dmarx, TRUE) /\ dmatx' = Started(dmatx, FALSE)
      /\ todo' = Tail(todo) /\ pc' = "waitRx"
      /\ UNCHANGED <<cs, last, gW5500_ch_sel, semTx, semRx, op, onWire>>
  BY DEF ReadBurst, TxCallback, Thread, chip, streams, IInv, RestInv
<1>2. Makes(onWire, todo) BY <1>1 DEF IInv, RestInv
<1>3. Makes(Append(onWire, "rx"), todo')
  BY <1>1, <1>2, NextPart DEF IInv, StatesOK
<1>4. /\ dmatx' \in Stream /\ dmarx' \in Stream
      /\ dmatx'.run /\ ~dmatx'.pend /\ ~dmatx'.cplt
      /\ dmarx'.lock /\ dmarx'.run /\ ~dmarx'.pend /\ ~dmarx'.fed
  BY <1>1 DEF Started, Quiet, Stream, IInv, StatesOK
<1>5. StatesOK' BY <1>1, <1>4 DEF IInv, StatesOK
<1>6. ChipInv' BY <1>1 DEF IInv, ChipInv
<1>7. WaitRxInv' BY <1>1, <1>3, <1>4 DEF WaitRxInv, Makes
<1> QED BY <1>1, <1>5, <1>6, <1>7 DEF IInv, RestInv, WaitTxInv

\* The other steps within a frame.
LEMMA ReadByteStep == IInv /\ ReadByte => IInv'
<1> SUFFICES ASSUME IInv, ReadByte PROVE IInv' OBVIOUS
<1>1. /\ pc = "frame" /\ todo # <<>> /\ Head(todo) = "byte" /\ hspi = "READY"
      /\ onWire' = Append(onWire, "byte") /\ todo' = Tail(todo)
      /\ UNCHANGED <<cs, last, gW5500_ch_sel, hspi, dmatx, dmarx, semTx, semRx, pc, op>>
  BY DEF ReadByte, Thread, chip, streams, IInv, RestInv
<1>2. Makes(onWire, todo) BY <1>1 DEF IInv, RestInv
<1>3. Makes(Append(onWire, "byte"), Tail(todo))
  BY <1>1, <1>2, NextPart DEF IInv, StatesOK
<1>4. Makes(onWire, todo)' BY <1>1, <1>3 DEF Makes
<1> QED
  BY <1>1, <1>4 DEF IInv, StatesOK, RestInv, ChipInv, WaitTxInv, WaitRxInv, Quiet

LEMMA TakeStep == IInv /\ (TakeTx \/ TakeRx) => IInv'
<1> USE DEF IInv, StatesOK, RestInv, ChipInv, WaitTxInv, WaitRxInv, Thread, Quiet,
            streams, chip, Makes
<1>1. ASSUME IInv, TakeTx PROVE IInv' BY <1>1 DEF TakeTx
<1>2. ASSUME IInv, TakeRx PROVE IInv' BY <1>2 DEF TakeRx, Stream
<1> QED BY <1>1, <1>2

LEMMA DeselectStep == IInv /\ Deselect => IInv'
BY DEF Deselect, IInv, StatesOK, RestInv, ChipInv, WaitTxInv, WaitRxInv, Thread, Quiet,
       streams, chip

-----------------------------------------------------------------------------
\* The hardware and its interrupts move only within a wait; in each case the wait
\* goes to another of its few states.
LEMMA TxMovedStep == IInv /\ TxMoved => IInv'
<1> SUFFICES ASSUME IInv, TxMoved PROVE IInv' OBVIOUS
<1>1. /\ dmatx.run
      /\ dmatx' = [dmatx EXCEPT !.run = FALSE, !.pend = TRUE]
      /\ dmarx' = [dmarx EXCEPT !.fed = (hspi = "BUSY_RX")]
      /\ onWire' = IF hspi = "BUSY_TX" THEN Append(onWire, "tx") ELSE onWire
      /\ UNCHANGED <<cs, last, gW5500_ch_sel, hspi, semTx, semRx, pc, op, todo>>
  BY DEF TxMoved, chip
<1>2. /\ dmatx' \in Stream /\ dmarx' \in Stream
      /\ dmatx'.lock = dmatx.lock /\ dmatx'.cplt = dmatx.cplt
      /\ ~dmatx'.run /\ dmatx'.pend
      /\ dmarx'.lock = dmarx.lock /\ dmarx'.run = dmarx.run /\ dmarx'.pend = dmarx.pend
  BY <1>1 DEF IInv, StatesOK, Stream
<1>3. pc \in {"waitTx", "waitRx"} BY <1>1 DEF IInv, StatesOK, RestInv, Quiet
<1>4. StatesOK' /\ RestInv' /\ ChipInv'
  BY <1>1, <1>2, <1>3 DEF IInv, StatesOK, RestInv, ChipInv
<1>5. WaitTxInv'
  <2> SUFFICES ASSUME pc = "waitTx" PROVE WaitTxInv' BY <1>1 DEF WaitTxInv
  <2>1. /\ hspi = "BUSY_TX" /\ semTx = 0 /\ semRx = 0
        /\ dmatx.lock /\ dmatx.cplt /\ Quiet(dmarx)
        /\ Makes(Append(onWire, "tx"), todo)
    BY <1>1 DEF IInv, WaitTxInv, Quiet
  <2>2. Quiet(dmarx') /\ Makes(onWire, todo)' BY <1>1, <1>2, <2>1 DEF Quiet, Makes
  <2>3. /\ semRx' = 0 /\ hspi' = "BUSY_TX" /\ semTx' = 0
        /\ dmatx'.lock /\ dmatx'.cplt /\ ~dmatx'.run /\ dmatx'.pend
    BY <1>1, <1>2, <2>1
  <2>4. dmatx'.run = ~dmatx'.pend BY <1>2, <2>3 DEF Stream
  <2> QED BY <2>2, <2>3, <2>4 DEF WaitTxInv
<1>6. WaitRxInv'
  BY <1>1, <1>2 DEF IInv, WaitRxInv, Quiet, Makes
<1> QED BY <1>4, <1>5, <1>6 DEF IInv

LEMMA RxMovedStep == IInv /\ RxMoved => IInv'
<1> SUFFICES ASSUME IInv, RxMoved PROVE IInv' OBVIOUS
<1>1. /\ dmarx.run /\ dmarx.fed
      /\ dmarx' = [dmarx EXCEPT !.run = FALSE, !.pend = TRUE]
      /\ onWire' = Append(onWire, "rx")
      /\ UNCHANGED <<cs, last, gW5500_ch_sel, hspi, dmatx, semTx, semRx, pc, op, todo>>
  BY DEF RxMoved, chip
<1>2. /\ dmarx' \in Stream
      /\ dmarx'.lock = dmarx.lock /\ ~dmarx'.run /\ dmarx'.pend
  BY <1>1 DEF IInv, StatesOK, Stream
<1>3. pc = "waitRx" /\ hspi = "BUSY_RX"
  BY <1>1 DEF IInv, StatesOK, RestInv, WaitTxInv, WaitRxInv, Quiet
<1>4. StatesOK' /\ RestInv' /\ ChipInv' /\ WaitTxInv'
  BY <1>1, <1>2, <1>3 DEF IInv, StatesOK, RestInv, ChipInv, WaitTxInv
<1>5. WaitRxInv'
  BY <1>1, <1>2, <1>3 DEF IInv, WaitRxInv, Quiet, Makes
<1> QED BY <1>4, <1>5 DEF IInv

LEMMA TxIRQStep == IInv /\ TxIRQHandler => IInv'
<1> SUFFICES ASSUME IInv, TxIRQHandler PROVE IInv' OBVIOUS
<1>1. /\ dmatx.pend /\ ~dmarx.pend
      /\ dmatx' = [dmatx EXCEPT !.lock = FALSE, !.pend = FALSE]
      /\ IF dmatx.cplt THEN hspi' = "READY" /\ semTx' = 1 ELSE UNCHANGED <<hspi, semTx>>
      /\ UNCHANGED <<cs, last, gW5500_ch_sel, dmarx, semRx, pc, op, todo, onWire>>
  BY DEF TxIRQHandler, chip
<1>2. /\ dmatx' \in Stream
      /\ dmatx'.run = dmatx.run /\ dmatx'.cplt = dmatx.cplt
      /\ ~dmatx'.lock /\ ~dmatx'.pend
  BY <1>1 DEF IInv, StatesOK, Stream
<1>3. pc \in {"waitTx", "waitRx"} BY <1>1 DEF IInv, StatesOK, RestInv, Quiet
<1>4. StatesOK' /\ RestInv' /\ ChipInv'
  BY <1>1, <1>2, <1>3 DEF IInv, StatesOK, RestInv, ChipInv
<1>5. WaitTxInv' BY <1>1, <1>2 DEF IInv, WaitTxInv, Quiet, Makes
<1>6. WaitRxInv' BY <1>1, <1>2 DEF IInv, WaitRxInv, Quiet, Makes
<1> QED BY <1>4, <1>5, <1>6 DEF IInv

LEMMA RxIRQStep == IInv /\ RxIRQHandler => IInv'
<1> SUFFICES ASSUME IInv, RxIRQHandler PROVE IInv' OBVIOUS
<1>1. /\ dmarx.pend
      /\ dmarx' = [dmarx EXCEPT !.lock = FALSE, !.pend = FALSE]
      /\ hspi' = "READY" /\ semRx' = 1
      /\ UNCHANGED <<cs, last, gW5500_ch_sel, dmatx, semTx, pc, op, todo, onWire>>
  BY DEF RxIRQHandler, HAL_SPI_RxCpltCallback, chip
<1>2. /\ dmarx' \in Stream
      /\ dmarx'.run = dmarx.run /\ ~dmarx'.lock /\ ~dmarx'.pend
  BY <1>1 DEF IInv, StatesOK, Stream
<1>3. pc = "waitRx" BY <1>1 DEF IInv, StatesOK, RestInv, WaitTxInv, Quiet
<1>4. StatesOK' /\ RestInv' /\ ChipInv' /\ WaitTxInv'
  BY <1>1, <1>2, <1>3 DEF IInv, StatesOK, RestInv, ChipInv, WaitTxInv
<1>5. WaitRxInv' BY <1>1, <1>2, <1>3 DEF IInv, WaitRxInv, Quiet, Makes
<1> QED BY <1>4, <1>5 DEF IInv

\* An error ends the wait's hope of a token, and leaves nothing locked.
LEMMA DMAErrorStep == IInv /\ DMAError => IInv'
<1> SUFFICES ASSUME IInv, DMAError PROVE IInv' OBVIOUS
<1>1. UNCHANGED <<cs, last, gW5500_ch_sel, semTx, semRx, pc, op, todo, onWire>>
  BY DEF DMAError, chip
<1>2. /\ Broken(dmatx) \in Stream /\ Broken(dmarx) \in Stream
      /\ \A s \in Stream : /\ ~Broken(s).lock /\ ~Broken(s).run
                           /\ Broken(s).pend = s.pend /\ Broken(s).cplt = s.cplt
                           /\ Broken(s).fed = s.fed
  BY DEF IInv, StatesOK, Broken, Stream
<1>3. pc \in {"waitTx", "waitRx"}
  BY DEF DMAError, IInv, StatesOK, RestInv
<1>4. CASE hspi = "BUSY_TX"
  <2>1. /\ pc = "waitTx" /\ dmatx.run /\ dmatx' = Broken(dmatx) /\ hspi' = "READY"
        /\ UNCHANGED dmarx
    BY <1>3, <1>4 DEF DMAError, IInv, WaitRxInv
  <2>2. semRx = 0 /\ semTx = 0 /\ ~dmatx.pend /\ Quiet(dmarx)
    BY <1>4, <2>1 DEF IInv, StatesOK, Stream, WaitTxInv
  <2>3. Quiet(dmatx') /\ Quiet(dmarx') BY <1>2, <2>1, <2>2 DEF IInv, StatesOK, Quiet
  <2> QED
    BY <1>1, <1>2, <2>1, <2>2, <2>3 DEF IInv, StatesOK, RestInv, ChipInv, WaitTxInv, WaitRxInv
<1>5. CASE hspi = "BUSY_RX"
  <2>1. pc = "waitRx" /\ semTx = 0 /\ semRx = 0 BY <1>3, <1>5 DEF IInv, WaitTxInv, WaitRxInv
  <2>2. StatesOK' /\ RestInv' /\ ChipInv' /\ WaitTxInv'
    BY <1>1, <1>2, <1>5, <2>1 DEF DMAError, IInv, StatesOK, RestInv, ChipInv, WaitTxInv
  <2>3. CASE dmarx.run /\ dmarx' = Broken(dmarx) /\ hspi' = "READY" /\ UNCHANGED dmatx
    <3>1. ~dmarx.pend BY <1>5, <2>1, <2>3 DEF IInv, WaitRxInv
    <3>2. Quiet(dmarx') BY <1>2, <2>3, <3>1 DEF IInv, StatesOK, Quiet
    <3> QED BY <1>1, <2>1, <2>2, <2>3, <3>2 DEF IInv, WaitRxInv
  <2>4. CASE dmatx.run /\ dmatx' = Broken(dmatx) /\ UNCHANGED <<hspi, dmarx>>
    <3>1. /\ ~dmatx'.lock /\ ~dmatx'.run /\ dmatx'.pend = dmatx.pend
          /\ dmatx'.cplt = dmatx.cplt
      BY <1>2, <2>4 DEF IInv, StatesOK
    <3>2. Makes(onWire, todo)' = Makes(onWire, todo)
          /\ Makes(Append(onWire, "rx"), todo)' = Makes(Append(onWire, "rx"), todo)
      BY <1>1 DEF Makes
    <3> QED BY <1>1, <1>5, <2>1, <2>2, <2>4, <3>1, <3>2 DEF IInv, WaitRxInv
  <2> QED BY <1>5, <2>3, <2>4 DEF DMAError
<1> QED BY <1>4, <1>5 DEF DMAError

\* Every step keeps the invariant.
LEMMA NextIInv == IInv /\ [Next]_vars => IInv'
<1> SUFFICES ASSUME IInv, [Next]_vars PROVE IInv' OBVIOUS
<1>1. CASE Task
  BY <1>1, BetweenFrames, WriteBurstStep, ReadBurstStep, ReadByteStep, TakeStep,
     DeselectStep DEF Task
<1>2. CASE Hardware
  BY <1>2, TxMovedStep, RxMovedStep, TxIRQStep, RxIRQStep DEF Hardware
<1>3. CASE DMAError BY <1>3, DMAErrorStep
<1>4. CASE UNCHANGED vars
  BY <1>4 DEF vars, IInv, StatesOK, RestInv, ChipInv, WaitTxInv, WaitRxInv, Makes, Quiet
<1> QED BY <1>1, <1>2, <1>3, <1>4 DEF Next

-----------------------------------------------------------------------------
\* What is on the wire and what is to come are sequences of at most two parts.
LEMMA PartSeqs ==
  ASSUME op \in Kind, NEW w, NEW t, Makes(w, t)
  PROVE  w \in PartSeq /\ t \in PartSeq
<1> DEFINE Part == {"tx", "rx", "byte"}
<1>1. <<>> \in [1 .. 0 -> Part] OBVIOUS
<1>2. \A a \in Part : <<a>> \in [1 .. 1 -> Part] OBVIOUS
<1>3. \A a, b \in Part : <<a, b>> \in [1 .. 2 -> Part] OBVIOUS
<1>4. /\ <<>> \in PartSeq
      /\ \A a \in Part : <<a>> \in PartSeq
      /\ \A a, b \in Part : <<a, b>> \in PartSeq
  BY <1>1, <1>2, <1>3 DEF PartSeq
<1>5. CASE \E a \in Part : Frames[op] = <<a>> BY <1>4, <1>5 DEF Makes
<1>6. CASE \E a, b \in Part : Frames[op] = <<a, b>> BY <1>4, <1>6 DEF Makes
<1> QED BY <1>5, <1>6, FrameParts

LEMMA FrameSeqs ==
  ASSUME NEW k \in Kind
  PROVE  <<>> \in PartSeq /\ Frames[k] \in PartSeq
<1> DEFINE Part == {"tx", "rx", "byte"}
<1>1. <<>> \in [1 .. 0 -> Part] OBVIOUS
<1>2. Frames[k] \in [1 .. 1 -> Part] \cup [1 .. 2 -> Part] BY DEF Kind, Frames
<1> QED BY <1>1, <1>2 DEF PartSeq

\* The channels still to be initialised are a tail of Inits.
LEMMA TailOfInits ==
  ASSUME NEW i \in 1 .. Len(Inits) + 1, SubSeq(Inits, i, Len(Inits)) # <<>>
  PROVE  /\ Tail(SubSeq(Inits, i, Len(Inits))) = SubSeq(Inits, i + 1, Len(Inits))
         /\ i + 1 \in 1 .. Len(Inits) + 1
         /\ Head(SubSeq(Inits, i, Len(Inits))) \in Channels
BY BusAssumption

\* The variables keep their types; what is on the wire needs the invariant, for
\* only a frame that is not whole grows.
LEMMA TypeStep == IInv /\ IInv' /\ TypeOK /\ [Next]_vars => TypeOK'
<1> SUFFICES ASSUME IInv, IInv', TypeOK, [Next]_vars PROVE TypeOK' OBVIOUS
<1> DEFINE Rest == {SubSeq(Inits, i, Len(Inits)) : i \in 1 .. Len(Inits) + 1}
<1> DEFINE Actions == Task \/ Hardware \/ DMAError \/ UNCHANGED vars
<1>1. Actions BY DEF Next
<1>2. /\ errors \in 0 .. Errors /\ cs \subseteq Channels
      /\ last \in Channels /\ gW5500_ch_sel \in Channels
      /\ hspi \in {"READY", "BUSY_TX", "BUSY_RX"}
      /\ semTx \in 0 .. 1 /\ semRx \in 0 .. 1
  BY Zenon DEF TypeOK
<1>3. inits \in Rest /\ todo \in PartSeq /\ onWire \in PartSeq BY Zenon DEF TypeOK
<1>4. op \in Kind BY DEF IInv, StatesOK
<1> USE DEF Task, Hardware, vars, streams, chip, Boot, HardwareResetAllChips,
            ThreadTerminate, Select, WriteBurst, ReadBurst, ReadByte, TakeTx, TakeRx,
            Deselect, TxMoved, RxMoved, TxIRQHandler, RxIRQHandler
<1>5. errors' \in 0 .. Errors
  <2>1. errors' = errors \/ (errors < Errors /\ errors' = errors + 1)
    BY <1>1 DEF DMAError, InitEternetInterface
  <2> QED BY <1>2, <2>1, BusAssumption
<1>6. inits' \in Rest /\ gW5500_ch_sel' \in Channels
  <2>1. CASE InitEternetInterface
    <3>1. PICK i \in 1 .. Len(Inits) + 1 : inits = SubSeq(Inits, i, Len(Inits))
      BY <1>3
    <3>2. inits # <<>> /\ inits' = Tail(inits) /\ gW5500_ch_sel' = Head(inits)
      BY <2>1 DEF InitEternetInterface
    <3> QED BY <3>1, <3>2, TailOfInits
  <2>2. CASE ~InitEternetInterface
    <3>1. UNCHANGED <<inits, gW5500_ch_sel>> BY <1>1, <2>2 DEF DMAError
    <3> QED BY <1>2, <1>3, <3>1
  <2> QED BY <2>1, <2>2
<1>7. cs' \subseteq Channels /\ last' \in Channels
  BY <1>1, <1>2 DEF DMAError, InitEternetInterface
<1>8. /\ hspi' \in {"READY", "BUSY_TX", "BUSY_RX"}
      /\ semTx' \in 0 .. 1 /\ semRx' \in 0 .. 1
  <2>1. CASE Task
    <3>1. hspi' \in {"READY", "BUSY_TX", "BUSY_RX"}
      BY <1>2, <2>1 DEF InitEternetInterface
    <3>2. semTx' \in 0 .. 1 /\ semRx' \in 0 .. 1
      <4>1. CASE Boot BY <4>1 DEF ClearSemaphores
      <4>2. CASE TakeTx \/ TakeRx BY <1>2, <4>2
      <4>3. CASE ~(Boot \/ TakeTx \/ TakeRx)
        <5>1. UNCHANGED <<semTx, semRx>> BY <2>1, <4>3 DEF InitEternetInterface
        <5> QED BY <1>2, <5>1
      <4> QED BY <4>1, <4>2, <4>3
    <3> QED BY <3>1, <3>2
  <2>2. CASE Hardware BY <1>2, <2>2 DEF HAL_SPI_RxCpltCallback
  <2>3. CASE DMAError \/ UNCHANGED vars BY <1>2, <2>3 DEF DMAError
  <2> QED BY <1>1, <2>1, <2>2, <2>3
<1>9. onWire' \in PartSeq /\ todo' \in PartSeq
  <2>1. CASE UNCHANGED <<onWire, todo>> BY <1>3, <2>1
  <2>2. CASE \E k \in Kind : Select(k)
    <3>1. PICK k \in Kind : onWire' = <<>> /\ todo' = Frames[k] BY <2>2
    <3> QED BY <3>1, FrameSeqs
  <2>3. CASE WriteBurst \/ ReadBurst \/ ReadByte
    <3>1. pc = "frame" /\ hspi = "READY" /\ Makes(onWire, todo) /\ todo # <<>>
      BY <2>3 DEF Thread, IInv, RestInv
    <3>2. Makes(Append(onWire, Head(todo)), Tail(todo)) BY <1>4, <3>1, NextPart
    <3>3. Append(onWire, Head(todo)) \in PartSeq /\ Tail(todo) \in PartSeq
      BY <1>4, <3>2, PartSeqs
    <3>4. todo' = Tail(todo) /\ onWire' \in {onWire, Append(onWire, Head(todo))}
      BY <2>3
    <3> QED BY <1>3, <3>3, <3>4
  <2>4. CASE TxMoved
    <3>1. hspi = "BUSY_TX" /\ dmatx.run => Makes(Append(onWire, "tx"), todo)
      BY <2>4 DEF IInv, StatesOK, RestInv, WaitTxInv, WaitRxInv, Quiet
    <3>2. hspi = "BUSY_TX" => Append(onWire, "tx") \in PartSeq
      BY <1>4, <2>4, <3>1, PartSeqs
    <3> QED BY <1>3, <2>4, <3>2
  <2>5. CASE RxMoved
    <3>1. Makes(Append(onWire, "rx"), todo)
      BY <2>5 DEF IInv, StatesOK, RestInv, WaitTxInv, WaitRxInv, Quiet
    <3>2. Append(onWire, "rx") \in PartSeq BY <1>4, <3>1, PartSeqs
    <3> QED BY <1>3, <2>5, <3>2
  <2> QED
    BY <1>1, <2>1, <2>2, <2>3, <2>4, <2>5 DEF DMAError, InitEternetInterface
<1>10. StatesOK' BY DEF IInv
<1> QED BY <1>5, <1>6, <1>7, <1>8, <1>9, <1>10, Zenon DEF TypeOK, StatesOK

\* The variables have their types when the firmware starts.
LEMMA InitTypes == Init => TypeOK
<1> SUFFICES ASSUME Init PROVE TypeOK OBVIOUS
<1>1. <<>> \in PartSeq
  <2>1. <<>> \in [1 .. 0 -> {"tx", "rx", "byte"}] OBVIOUS
  <2> QED BY <2>1 DEF PartSeq
<1>2. inits \in {SubSeq(Inits, i, Len(Inits)) : i \in 1 .. Len(Inits) + 1}
  <2>1. Inits = SubSeq(Inits, 1, Len(Inits)) /\ 1 \in 1 .. Len(Inits) + 1
    BY BusAssumption
  <2> QED BY <2>1 DEF Init
<1>3. StatesOK BY InitIInv DEF IInv
<1>4. /\ errors \in 0 .. Errors /\ cs \subseteq Channels
      /\ last \in Channels /\ gW5500_ch_sel \in Channels
      /\ hspi \in {"READY", "BUSY_TX", "BUSY_RX"}
      /\ semTx \in 0 .. 1 /\ semRx \in 0 .. 1
      /\ todo = <<>> /\ onWire = <<>>
  BY BusAssumption DEF Init
<1> QED BY <1>1, <1>2, <1>3, <1>4, Zenon DEF TypeOK, StatesOK

-----------------------------------------------------------------------------
\* The invariant holds in every state of the firmware.
THEOREM Invariance == Spec => []IInv
BY InitIInv, NextIInv, PTL DEF Spec

\* SpiBus is type correct: a frame has two parts at most, and every channel that
\* is selected is a channel.
THEOREM TypeCorrect == Spec => []TypeOK
BY InitIInv, NextIInv, InitTypes, TypeStep, PTL DEF Spec

\* A burst never starts on a token, a lock or a busy handle of an earlier one.
THEOREM NothingLeft == Spec => []NoLeftovers
<1>1. IInv => NoLeftovers BY DEF IInv, RestInv, Quiet, NoLeftovers
<1> QED BY <1>1, Invariance, PTL

\* A token is for the one who waits, and means that the handle is ready.
THEOREM TokensForWaiter == Spec => []TokenIsForWaiter
<1>1. IInv => TokenIsForWaiter
  BY DEF IInv, StatesOK, RestInv, WaitTxInv, WaitRxInv, TokenIsForWaiter
<1> QED BY <1>1, Invariance, PTL

\* Chip select goes up only behind a whole frame that one chip saw.
THEOREM FramesWhole == Spec => FrameWhole
<1>1. IInv /\ [Next]_vars =>
        [pc = "frame" /\ pc' = "next" =>
           /\ onWire = Frames[op]
           /\ cs = {gW5500_ch_sel} /\ cs' = {}
           /\ ~dmatx.run /\ ~dmarx.run]_vars
  <2> SUFFICES ASSUME IInv, [Next]_vars, pc = "frame", pc' = "next"
               PROVE  /\ onWire = Frames[op]
                      /\ cs = {gW5500_ch_sel} /\ cs' = {}
                      /\ ~dmatx.run /\ ~dmarx.run
    OBVIOUS
  <2>1. Deselect
    BY DEF Next, Task, Hardware, DMAError, vars, Thread, streams, chip, Boot,
           HardwareResetAllChips, InitEternetInterface, ThreadTerminate, Select,
           WriteBurst, ReadBurst, ReadByte, TakeTx, TakeRx, TxMoved, RxMoved,
           TxIRQHandler, RxIRQHandler
  <2>2. todo = <<>> /\ cs' = cs \ {last} BY <2>1 DEF Deselect
  <2>3. /\ Makes(onWire, <<>>) /\ op \in Kind
        /\ cs = {gW5500_ch_sel} /\ last = gW5500_ch_sel
        /\ ~dmatx.run /\ ~dmarx.run
    BY <2>2 DEF IInv, StatesOK, RestInv, ChipInv, Quiet
  <2> QED BY <2>2, <2>3, NoPartLeft
<1> QED BY <1>1, Invariance, PTL DEF Spec, FrameWhole

-----------------------------------------------------------------------------
(* Why a frame ends.  What FrameEnds says under fairness rests on two      *)
(* facts about steps: within a frame every step brings its end nearer, so  *)
(* that there are only so many, and until a DMA error strikes there is     *)
(* always one that can be taken.                                           *)

InFrame == {"frame", "waitTx", "waitRx"}

\* Steps that a stream still makes in this burst: to its interrupt, and out of it.
StepsOf(s) == IF s.run THEN 2 ELSE IF s.pend THEN 1 ELSE 0

\* Steps to the end of the frame, at the most.
StepsLeft ==
  6 * Len(todo) + IF pc = "frame" THEN 0 ELSE 1 + StepsOf(dmatx) + StepsOf(dmarx)

\* A step within a frame, of the task, the bus or an interrupt, or an error, is one of
\* those that were left, of which a frame begins with twelve at most.
FrameIsShort == [][{pc, pc'} \subseteq InFrame => StepsLeft' < StepsLeft]_vars

\* The guard of some step of the task or the hardware holds.
CanGoOn ==
  \/ pc = "frame"
  \/ dmatx.run \/ dmatx.pend \/ dmarx.pend \/ (dmarx.run /\ dmarx.fed)
  \/ pc = "waitTx" /\ semTx = 1
  \/ pc = "waitRx" /\ semRx = 1

\* Until a burst ends with an error, nobody waits for what will not come.
WaitsForSomething == errors = 0 /\ pc \in InFrame => CanGoOn

\* As long as there was no error: a burst that is over has left its token, and the
\* receive stream is clocked or will be.
AliveInv ==
  errors = 0 =>
    /\ pc = "waitTx" /\ hspi = "READY" => semTx = 1
    /\ pc = "waitRx" /\ hspi = "READY" => semRx = 1
    /\ pc = "waitRx" /\ dmarx.run => dmarx.fed \/ dmatx.run

LEMMA AliveStep == IInv /\ errors \in Nat /\ AliveInv /\ [Next]_vars => AliveInv'
<1> SUFFICES ASSUME IInv, errors \in Nat, AliveInv, [Next]_vars PROVE AliveInv' OBVIOUS
<1> USE DEF IInv, StatesOK, AliveInv, Thread, Quiet, streams, chip
<1>1. CASE \/ Boot \/ HardwareResetAllChips \/ InitEternetInterface
           \/ ThreadTerminate \/ \E k \in Kind : Select(k)
  BY <1>1 DEF Boot, HardwareResetAllChips, InitEternetInterface, ThreadTerminate, Select
<1>2. CASE WriteBurst BY <1>2 DEF WriteBurst, RestInv
<1>3. CASE ReadBurst
  <2>1. dmatx' = Started(dmatx, FALSE) /\ ~dmatx.lock /\ hspi' = "BUSY_RX" /\ pc' = "waitRx"
    BY <1>3 DEF ReadBurst, TxCallback, RestInv
  <2>2. dmatx'.run BY <2>1 DEF Started
  <2> QED BY <2>1, <2>2
<1>4. CASE ReadByte \/ TakeTx \/ TakeRx \/ Deselect
  BY <1>4 DEF ReadByte, TakeTx, TakeRx, Deselect
<1>5. CASE TxMoved
  <2>1. dmarx' = [dmarx EXCEPT !.fed = (hspi = "BUSY_RX")]
        /\ UNCHANGED <<hspi, semTx, semRx, pc, errors>>
    BY <1>5 DEF TxMoved
  <2>2. dmarx'.run = dmarx.run /\ dmarx'.fed = (hspi = "BUSY_RX") BY <2>1 DEF Stream
  <2>3. pc = "waitRx" /\ dmarx.run => hspi = "BUSY_RX" BY DEF WaitRxInv
  <2> QED BY <2>1, <2>2, <2>3
<1>6. CASE RxMoved
  <2>1. dmarx' = [dmarx EXCEPT !.run = FALSE, !.pend = TRUE]
        /\ UNCHANGED <<hspi, semTx, semRx, pc, errors>>
    BY <1>6 DEF RxMoved
  <2>2. ~dmarx'.run BY <2>1 DEF Stream
  <2> QED BY <2>1, <2>2
<1>7. CASE TxIRQHandler
  <2>1. /\ dmatx' = [dmatx EXCEPT !.lock = FALSE, !.pend = FALSE]
        /\ IF dmatx.cplt THEN hspi' = "READY" /\ semTx' = 1 ELSE UNCHANGED <<hspi, semTx>>
        /\ UNCHANGED <<dmarx, semRx, pc, errors>>
    BY <1>7 DEF TxIRQHandler
  <2>2. dmatx'.run = dmatx.run BY <2>1 DEF Stream
  <2>3. pc = "waitRx" => ~dmatx.cplt BY DEF WaitRxInv
  <2> QED BY <2>1, <2>2, <2>3
<1>8. CASE RxIRQHandler
  <2>1. dmarx' = [dmarx EXCEPT !.lock = FALSE, !.pend = FALSE] /\ semRx' = 1
        /\ UNCHANGED <<dmatx, semTx, pc, errors>>
    BY <1>8 DEF RxIRQHandler, HAL_SPI_RxCpltCallback
  <2>2. dmarx'.run = dmarx.run /\ dmarx'.fed = dmarx.fed BY <2>1 DEF Stream
  <2>3. pc # "waitTx" BY <1>8 DEF RxIRQHandler, WaitTxInv
  <2> QED BY <2>1, <2>2, <2>3
<1>9. CASE DMAError BY <1>9 DEF DMAError
<1>10. CASE UNCHANGED vars BY <1>10 DEF vars
<1> QED
  BY <1>1, <1>2, <1>3, <1>4, <1>5, <1>6, <1>7, <1>8, <1>9, <1>10 DEF Next, Task, Hardware

\* No wait is for a burst that is over, or for a stream nobody clocks, unless an error
\* broke it.
THEOREM NoEmptyWait == Spec => []WaitsForSomething
<1>1. Init => AliveInv BY DEF Init, AliveInv
<1>2. TypeOK => errors \in Nat BY BusAssumption DEF TypeOK
<1>3. IInv /\ AliveInv => WaitsForSomething
  BY DEF IInv, StatesOK, WaitTxInv, WaitRxInv, AliveInv, WaitsForSomething, CanGoOn, InFrame,
         Stream
<1> QED BY <1>1, <1>2, <1>3, AliveStep, Invariance, TypeCorrect, PTL DEF Spec

\* The steps that are left are a number.
LEMMA StepsType ==
  ASSUME NEW s \in Stream
  PROVE  StepsOf(s) \in 0 .. 2
BY DEF StepsOf

\* A part that is taken off leaves one less.
LEMMA OneLess ==
  ASSUME op \in Kind, NEW w, NEW t, Makes(w, t), t # <<>>
  PROVE  Len(Tail(t)) = Len(t) - 1
<1>1. CASE \E a : t = <<a>> BY <1>1
<1>2. CASE \E a, b : t = <<a, b>> BY <1>2
<1>3. (\E a : t = <<a>>) \/ (\E a, b : t = <<a, b>>)
  <2>1. CASE \E a \in {"tx", "rx", "byte"} : Frames[op] = <<a>> BY <2>1 DEF Makes
  <2>2. CASE \E a, b \in {"tx", "rx", "byte"} : Frames[op] = <<a, b>> BY <2>2 DEF Makes
  <2> QED BY <2>1, <2>2, FrameParts
<1> QED BY <1>1, <1>2, <1>3

LEMMA PartsType ==
  ASSUME NEW t \in PartSeq
  PROVE  Len(t) \in 0 .. 2
<1>1. PICK n \in 0 .. 2 : t \in [1 .. n -> {"tx", "rx", "byte"}] BY DEF PartSeq
<1> QED BY <1>1

\* Within a frame every step is one of those that were left.
THEOREM FramesShort == Spec => FrameIsShort
<1>1. IInv /\ IInv' /\ TypeOK /\ [Next]_vars =>
        [{pc, pc'} \subseteq InFrame => StepsLeft' < StepsLeft]_vars
  <2> SUFFICES ASSUME IInv, IInv', TypeOK, Next, pc \in InFrame, pc' \in InFrame
               PROVE  StepsLeft' < StepsLeft
    OBVIOUS
  <2>1. dmatx \in Stream /\ dmarx \in Stream /\ dmatx' \in Stream /\ dmarx' \in Stream
        /\ op \in Kind
    BY DEF IInv, StatesOK
  <2>2. /\ StepsOf(dmatx) \in 0 .. 2 /\ StepsOf(dmarx) \in 0 .. 2
        /\ StepsOf(dmatx') \in 0 .. 2 /\ StepsOf(dmarx') \in 0 .. 2
    BY <2>1, StepsType
  <2>3. Len(todo) \in 0 .. 2 BY PartsType DEF TypeOK
  <2>4. CASE WriteBurst \/ ReadBurst \/ ReadByte
    <3>1. /\ pc = "frame" /\ todo # <<>> /\ todo' = Tail(todo) /\ Makes(onWire, todo)
      BY <2>4 DEF WriteBurst, ReadBurst, ReadByte, Thread, IInv, RestInv
    <3>2. Len(todo') = Len(todo) - 1 BY <2>1, <3>1, OneLess
    <3> QED BY <2>2, <2>3, <3>1, <3>2 DEF StepsLeft
  <2>5. CASE TakeTx \/ TakeRx
    <3>1. pc # "frame" /\ pc' = "frame" /\ todo' = todo BY <2>5 DEF TakeTx, TakeRx, Thread
    <3> QED BY <2>2, <2>3, <3>1 DEF StepsLeft
  <2>6. ASSUME Hardware \/ DMAError
        PROVE  /\ pc \in {"waitTx", "waitRx"} /\ pc' = pc /\ todo' = todo
               /\ StepsOf(dmatx') <= StepsOf(dmatx) /\ StepsOf(dmarx') <= StepsOf(dmarx)
               /\ \/ StepsOf(dmatx') < StepsOf(dmatx)
                  \/ StepsOf(dmarx') < StepsOf(dmarx)
    <3>1. pc' = pc /\ todo' = todo
      BY <2>6 DEF Hardware, TxMoved, RxMoved, TxIRQHandler, RxIRQHandler, DMAError
    <3>2. pc \in {"waitTx", "waitRx"}
      BY <2>6 DEF Hardware, TxMoved, RxMoved, TxIRQHandler, RxIRQHandler, DMAError, IInv,
                  StatesOK, RestInv, Quiet
    <3>3. ~(dmatx.run /\ dmatx.pend) /\ ~(dmarx.run /\ dmarx.pend)
      BY <3>2 DEF IInv, StatesOK, Stream, WaitTxInv, WaitRxInv, Quiet
    <3>4. CASE TxMoved BY <2>1, <3>1, <3>2, <3>3, <3>4 DEF TxMoved, StepsOf, Stream
    <3>5. CASE RxMoved BY <2>1, <3>1, <3>2, <3>3, <3>5 DEF RxMoved, StepsOf, Stream
    <3>6. CASE TxIRQHandler BY <2>1, <3>1, <3>2, <3>3, <3>6 DEF TxIRQHandler, StepsOf, Stream
    <3>7. CASE RxIRQHandler BY <2>1, <3>1, <3>2, <3>3, <3>7 DEF RxIRQHandler, StepsOf, Stream
    <3>8. CASE DMAError
      <4>1. \A s \in Stream : ~Broken(s).run /\ Broken(s).pend = s.pend
        BY DEF Broken, Stream
      <4>2. /\ dmatx' = dmatx \/ (dmatx.run /\ dmatx' = Broken(dmatx))
            /\ dmarx' = dmarx \/ (dmarx.run /\ dmarx' = Broken(dmarx))
            /\ dmatx' # dmatx \/ dmarx' # dmarx
        BY <2>1, <3>8, <4>1 DEF DMAError
      <4>3. \A s \in Stream : s.run => StepsOf(Broken(s)) < StepsOf(s)
        BY <4>1 DEF StepsOf
      <4> QED BY <2>1, <2>2, <3>1, <3>2, <4>2, <4>3
    <3> QED BY <2>6, <3>4, <3>5, <3>6, <3>7, <3>8 DEF Hardware
  <2>7. CASE Hardware \/ DMAError BY <2>2, <2>3, <2>6, <2>7 DEF StepsLeft
  <2>8. CASE \/ Boot \/ HardwareResetAllChips \/ InitEternetInterface \/ ThreadTerminate
             \/ Deselect \/ \E k \in Kind : Select(k)
    BY <2>8 DEF Boot, HardwareResetAllChips, InitEternetInterface, ThreadTerminate, Deselect,
                Select, Thread, InFrame
  <2> QED BY <2>4, <2>5, <2>7, <2>8 DEF Next, Task
<1> QED BY <1>1, Invariance, TypeCorrect, PTL DEF Spec, FrameIsShort

\* A burst that an error has broken: its token will not come.
Hung == pc \in {"waitTx", "waitRx"} /\ ~CanGoOn

\* SPI_DMAError releases no semaphore: the wait never ends.
HungForEver == [][Hung => Hung']_vars

\* And nothing else wakes the task: once a broken burst has come to rest, ethInitTask
\* waits for ever, and the chips see no frame any more.
THEOREM ErrorsHang == Spec => HungForEver
<1>1. IInv /\ [Next]_vars => [Hung => Hung']_vars
  <2> SUFFICES ASSUME IInv, Next, Hung PROVE Hung'
    OBVIOUS
  <2>1. /\ pc \in {"waitTx", "waitRx"} /\ ~dmatx.run /\ ~dmatx.pend /\ ~dmarx.pend
        /\ ~(dmarx.run /\ dmarx.fed)
        /\ pc = "waitTx" => semTx # 1
        /\ pc = "waitRx" => semRx # 1
    BY DEF Hung, CanGoOn
  <2>2. DMAError
    BY <2>1 DEF Next, Task, Hardware, Thread, Boot, HardwareResetAllChips,
                InitEternetInterface, ThreadTerminate, Select, WriteBurst, ReadBurst, ReadByte,
                TakeTx, TakeRx, Deselect, TxMoved, RxMoved, TxIRQHandler, RxIRQHandler
  <2>3. UNCHANGED <<semTx, semRx, pc, dmatx>> /\ dmarx' = Broken(dmarx)
    BY <2>1, <2>2 DEF DMAError
  <2>4. ~dmarx'.run /\ ~dmarx'.pend BY <2>1, <2>3 DEF Broken, IInv, StatesOK, Stream
  <2> QED BY <2>1, <2>3, <2>4 DEF Hung, CanGoOn
<1> QED BY <1>1, Invariance, PTL DEF Spec, HungForEver
=============================================================================
