------------------------- MODULE FlashConfigProofs --------------------------
(***************************************************************************)
(* The saved configuration survives, for any number of bytes, values, lost *)
(* power and failures.  The argument: while SaveConfiguration programs,    *)
(* the bytes before address are the new ones, the others are erased, and   *)
(* memory still is what the erase made room for, because only the task     *)
(* that saves could change it.                                             *)
(*                                                                         *)
(* Then, what a command puts into memory before it is saved: the commands  *)
(* of CommandParser store what they should, for any fields, names and      *)
(* values, and what they do to the bytes is the Set of FlashConfig.        *)
(***************************************************************************)
EXTENDS FlashConfig, CommandParser, TLAPS

\* In the loop: what is saved is what is in memory, and no OK is outstanding.
ProgramInv == pc = "program" => source = SystemConfig /\ saved = None

\* As long as nothing has failed: the bytes done, and the bytes to do.
ProgressInv ==
  faults = 0 =>
    /\ flash_status = "HAL_OK"
    /\ pc = "program" =>
         \A i \in Index : flash[i] = IF i < address THEN SystemConfig[i] ELSE Erased

IInv == TypeOK /\ ProgramInv /\ ProgressInv /\ SavedIsKept /\ OneConfiguration

\* The assumptions, in the form the steps below use.
LEMMA Bounds == Size \in Nat /\ Size # 0 /\ Faults \in Nat /\ Outages \in Nat
BY FlashAssumption

LEMMA Bytes == Defaults \in Byte /\ Erased \in Byte /\ Torn \in Byte
BY FlashAssumption DEF Byte

\* Numbers and names, apart from the configurations: SMT does better on each alone.
NumbersOK == address \in 1 .. Size + 1 /\ faults \in 0 .. Faults /\ outages \in 0 .. Outages
NamesOK ==
  /\ pc \in {"off", "command", "erase", "program"}
  /\ flash_status \in {"HAL_OK", "HAL_ERROR"}
  /\ echo \in {"", "OK", "Failed"}
ConfigsOK ==
  /\ SystemConfig \in Config /\ flash \in Config /\ source \in Config
  /\ saved = None \/ saved \in Config

LEMMA TypeParts == TypeOK <=> NumbersOK /\ NamesOK /\ ConfigsOK
BY DEF TypeOK, NumbersOK, NamesOK, ConfigsOK

-----------------------------------------------------------------------------
\* The invariant holds on a new board.
LEMMA InitIInv == Init => IInv
<1> SUFFICES ASSUME Init PROVE IInv OBVIOUS
<1>1. ConfigsOK BY Bytes DEF Init, ConfigsOK, Config
<1>2. NumbersOK
  <2>1. address = 1 /\ faults = 0 /\ outages = 0 BY DEF Init
  <2> QED BY <2>1, Bounds DEF NumbersOK
<1>3. NamesOK BY DEF Init, NamesOK
<1>4. ProgramInv /\ ProgressInv /\ SavedIsKept /\ OneConfiguration
  BY DEF Init, ProgramInv, ProgressInv, SavedIsKept, OneConfiguration
<1> QED BY <1>1, <1>2, <1>3, <1>4, TypeParts DEF IInv

\* An erase leaves bytes, whether it succeeds or not.
LEMMA EraseType ==
  ASSUME TypeOK, Erase
  PROVE  /\ flash' \in Config
         /\ flash_status' \in {"HAL_OK", "HAL_ERROR"}
         /\ faults' \in 0 .. Faults
         /\ faults' = 0 => faults = 0 /\ flash_status' = "HAL_OK"
         /\ flash_status' = "HAL_OK" => flash' = [i \in Index |-> Erased]
<1>1. CASE /\ flash' = [i \in Index |-> Erased]
           /\ flash_status' = "HAL_OK"
           /\ UNCHANGED faults
  <2>1. flash' \in Config BY <1>1, Bytes DEF Config
  <2> QED BY <1>1, <2>1 DEF TypeOK
<1>2. CASE /\ faults < Faults
           /\ faults' = faults + 1
           /\ \E hit \in SUBSET Index :
                flash' = [i \in Index |-> IF i \in hit THEN Torn ELSE flash[i]]
           /\ flash_status' = "HAL_ERROR"
  <2>1. flash' \in Config BY <1>2, Bytes DEF Config, TypeOK
  <2>2. faults \in 0 .. Faults BY DEF TypeOK
  <2>3. faults' \in 0 .. Faults /\ faults' # 0 BY <1>2, <2>2, Bounds
  <2> QED BY <1>2, <2>1, <2>3
<1> QED BY <1>1, <1>2 DEF Erase

\* The beginning of SaveConfiguration keeps the invariant.
LEMMA EraseStep == IInv /\ EraseSector => IInv'
<1> SUFFICES ASSUME IInv, EraseSector PROVE IInv' OBVIOUS
<1>1. TypeOK /\ Erase BY DEF EraseSector, IInv
<1>2. TypeOK'
  <2>1. NumbersOK'
    <3>1. address' = 1 /\ outages' \in 0 .. Outages /\ faults' \in 0 .. Faults
      BY <1>1, EraseType DEF EraseSector, CONFIG_START_ADDRESS, TypeOK
    <3> QED BY <3>1, Bounds DEF NumbersOK
  <2>2. NamesOK' BY <1>1, EraseType DEF EraseSector, TypeOK, NamesOK
  <2>3. ConfigsOK' BY <1>1, EraseType DEF EraseSector, TypeOK, ConfigsOK
  <2> QED BY <2>1, <2>2, <2>3, TypeParts, PTL
<1>3. ProgramInv' /\ SavedIsKept' BY DEF EraseSector, ProgramInv, SavedIsKept
<1>4. ProgressInv'
  BY <1>1, EraseType DEF EraseSector, CONFIG_START_ADDRESS, ProgressInv, Index
<1>5. OneConfiguration' BY <1>1, EraseType DEF OneConfiguration
<1> QED BY <1>2, <1>3, <1>4, <1>5 DEF IInv

\* So does the programming of a byte.
LEMMA ProgramStep == IInv /\ Program => IInv'
<1> SUFFICES ASSUME IInv, Program PROVE IInv' OBVIOUS
<1>1. /\ pc = "program" /\ address <= Size
      /\ address' = address + 1
      /\ UNCHANGED <<SystemConfig, pc, flash_status, echo, outages, saved, source>>
  BY DEF Program, history
<1>2. address \in Index /\ faults \in 0 .. Faults /\ outages \in 0 .. Outages
  <2>1. NumbersOK BY TypeParts DEF IInv
  <2> QED BY <1>1, <2>1, Bounds DEF NumbersOK, Index
<1>3. /\ flash' = [flash EXCEPT ![address] = flash'[address]]
      /\ \/ flash'[address] = Programmed(flash[address], SystemConfig[address])
            /\ faults' = faults
         \/ flash'[address] \in {flash[address], Torn}
            /\ faults < Faults /\ faults' = faults + 1
  BY <1>2 DEF Program, IInv, TypeOK, Config
<1>4. flash'[address] \in Byte /\ flash' \in Config
  BY <1>2, <1>3, Bytes DEF Programmed, IInv, TypeOK, Config
<1>5. TypeOK'
  <2>1. faults' \in 0 .. Faults BY <1>2, <1>3, Bounds
  <2>2. address' \in 1 .. Size + 1 BY <1>1, <1>2, Bounds DEF Index
  <2>3. NumbersOK' BY <1>1, <1>2, <2>1, <2>2 DEF NumbersOK
  <2>4. NamesOK' BY <1>1 DEF IInv, TypeOK, NamesOK
  <2>5. ConfigsOK' BY <1>1, <1>4 DEF IInv, TypeOK, ConfigsOK
  <2> QED BY <2>3, <2>4, <2>5, TypeParts, PTL
<1>6. ProgramInv' /\ SavedIsKept'
  BY <1>1 DEF IInv, ProgramInv, SavedIsKept
<1>7. ProgressInv'
  <2> SUFFICES ASSUME faults' = 0 PROVE ProgressInv' BY DEF ProgressInv
  <2>1. faults = 0 /\ flash'[address] = Programmed(flash[address], SystemConfig[address])
    <3>1. faults \in Nat BY <1>2
    <3> QED BY <1>3, <3>1
  <2>2. flash[address] = Erased
    <3>1. ~(address < address) BY <1>2, Bounds DEF Index
    <3> QED BY <1>1, <1>2, <2>1, <3>1 DEF IInv, ProgressInv
  <2>3. flash'[address] = SystemConfig[address] BY <2>1, <2>2 DEF Programmed
  <2>4. \A i \in Index : i # address => flash'[i] = flash[i]
    BY <1>3 DEF IInv, TypeOK, Config
  <2>5. \A i \in Index : i # address => (i < address <=> i < address')
    BY <1>1, <1>2, Bounds DEF Index
  <2>6. address < address' /\ ~(address < address) BY <1>1, <1>2, Bounds DEF Index
  <2>7. /\ flash_status = "HAL_OK"
        /\ \A i \in Index : flash[i] = IF i < address THEN SystemConfig[i] ELSE Erased
    BY <1>1, <2>1 DEF IInv, ProgressInv
  <2>8. \A i \in Index : flash'[i] = IF i < address' THEN SystemConfig[i] ELSE Erased
    <3> TAKE i \in Index
    <3>1. CASE i = address BY <2>3, <2>6, <3>1
    <3>2. CASE i # address BY <2>4, <2>5, <2>7, <3>2
    <3> QED BY <3>1, <3>2
  <2> QED BY <1>1, <2>7, <2>8 DEF ProgressInv
<1>8. OneConfiguration'
  BY <1>1, <1>2, <1>3 DEF Programmed, IInv, TypeOK, Config, ProgramInv, OneConfiguration
<1> QED BY <1>5, <1>6, <1>7, <1>8 DEF IInv

\* And its end: when no byte is left and nothing failed, flash is memory.
LEMMA AnswerStep == IInv /\ Answer => IInv'
<1> SUFFICES ASSUME IInv, Answer PROVE IInv' OBVIOUS
<1>1. TypeOK'
  <2>1. NumbersOK' BY DEF Answer, IInv, TypeOK, NumbersOK
  <2>2. NamesOK' BY DEF Answer, IInv, TypeOK, NamesOK
  <2>3. ConfigsOK' BY DEF Answer, IInv, TypeOK, ConfigsOK
  <2> QED BY <2>1, <2>2, <2>3, TypeParts, PTL
<1>2. ProgramInv' /\ ProgressInv' /\ OneConfiguration'
  BY DEF Answer, IInv, ProgramInv, ProgressInv, OneConfiguration
<1>3. SavedIsKept'
  <2> SUFFICES ASSUME faults = 0 PROVE flash = SystemConfig
    BY DEF Answer, IInv, SavedIsKept, ProgressInv
  <2>1. \A i \in Index : i < address
    <3>1. address > Size /\ NumbersOK BY TypeParts DEF Answer, LoopDone, IInv
    <3> QED BY <3>1, Bounds DEF NumbersOK, Index
  <2>2. \A i \in Index : flash[i] = SystemConfig[i]
    BY <2>1 DEF Answer, IInv, ProgressInv
  <2>3. flash \in [Index -> Byte] /\ SystemConfig \in [Index -> Byte]
    BY DEF IInv, TypeOK, Config
  <2> QED BY <2>2, <2>3
<1> QED BY <1>1, <1>2, <1>3 DEF IInv

\* A loss of power tears at most the bytes the flash was working on.
LEMMA OutageStep == IInv /\ Outage => IInv'
<1> SUFFICES ASSUME IInv, Outage PROVE IInv' OBVIOUS
<1>1. /\ flash' \in Config
      /\ \A i \in Index : flash'[i] \in {flash[i], Torn}
  <2>1. CASE UNCHANGED <<flash, saved>> BY <2>1 DEF IInv, TypeOK
  <2>2. CASE \E hit \in SUBSET Index :
               flash' = [i \in Index |-> IF i \in hit THEN Torn ELSE flash[i]]
    BY <2>2, Bytes DEF IInv, TypeOK, Config
  <2>3. CASE flash' = [flash EXCEPT ![address] = Torn]
    BY <2>3, Bytes DEF IInv, TypeOK, Config
  <2> QED BY <2>1, <2>2, <2>3 DEF Outage
<1>2. TypeOK'
  <2>1. NumbersOK'
    <3>1. NumbersOK BY TypeParts DEF IInv
    <3>2. outages < Outages /\ outages' = outages + 1 /\ UNCHANGED <<address, faults>>
      BY DEF Outage
    <3> QED BY <3>1, <3>2, Bounds DEF NumbersOK
  <2>2. NamesOK' BY DEF Outage, IInv, TypeOK, NamesOK
  <2>3. ConfigsOK' BY <1>1 DEF Outage, IInv, TypeOK, ConfigsOK
  <2> QED BY <2>1, <2>2, <2>3, TypeParts, PTL
<1>3. ProgramInv' /\ ProgressInv' BY DEF Outage, IInv, ProgramInv, ProgressInv
<1>4. SavedIsKept'
  <2>1. CASE UNCHANGED <<flash, saved>> BY <2>1 DEF Outage, IInv, SavedIsKept
  <2>2. CASE pc = "program" /\ UNCHANGED saved BY <2>2 DEF IInv, ProgramInv, SavedIsKept
  <2>3. CASE saved' = None BY <2>3 DEF SavedIsKept
  <2> QED BY <2>1, <2>2, <2>3 DEF Outage
<1>5. OneConfiguration' BY <1>1 DEF Outage, IInv, OneConfiguration
<1> QED BY <1>2, <1>3, <1>4, <1>5 DEF IInv

\* A setting changes bytes of memory, outside SaveConfiguration.
LEMMA SetStep == IInv /\ Set => IInv'
<1> SUFFICES ASSUME IInv, Set PROVE IInv' OBVIOUS
<1>1. SystemConfig' \in Config
  <2>1. PICK part \in SUBSET Index, new \in [Index -> Values] :
          SystemConfig' = [i \in Index |-> IF i \in part THEN new[i] ELSE SystemConfig[i]]
    BY DEF Set
  <2>2. \A i \in Index : new[i] \in Byte BY DEF Byte
  <2> QED BY <2>1, <2>2 DEF IInv, TypeOK, Config
<1>2. /\ pc = "command"
      /\ UNCHANGED <<flash, pc, address, flash_status, echo, faults, outages, saved, source>>
  BY DEF Set, history
<1>3. TypeOK' BY <1>1, <1>2 DEF IInv, TypeOK
<1>4. ProgramInv' /\ ProgressInv' BY <1>2 DEF IInv, ProgramInv, ProgressInv
<1>5. SavedIsKept' /\ OneConfiguration' BY <1>2 DEF IInv, SavedIsKept, OneConfiguration
<1> QED BY <1>3, <1>4, <1>5 DEF IInv

\* Every step keeps the invariant.
LEMMA NextIInv == IInv /\ [Next]_vars => IInv'
<1> SUFFICES ASSUME IInv, [Next]_vars PROVE IInv' OBVIOUS
<1> USE DEF IInv, TypeOK, ProgramInv, ProgressInv, SavedIsKept, OneConfiguration, history
<1>1. CASE Start BY <1>1 DEF Start, ReadConfiguration
<1>2. CASE Save BY <1>2 DEF Save
<1>3. CASE UNCHANGED vars BY <1>3 DEF vars
<1> QED
  BY <1>1, <1>2, <1>3, SetStep, EraseStep, ProgramStep, AnswerStep, OutageStep DEF Next

-----------------------------------------------------------------------------
\* The invariant holds in every state of the board.
THEOREM Invariance == Spec => []IInv
BY InitIInv, NextIInv, PTL DEF Spec

\* Flash and memory hold bytes, and the address stays within the configuration.
THEOREM TypeCorrect == Spec => []TypeOK
<1>1. IInv => TypeOK BY DEF IInv
<1> QED BY <1>1, Invariance, PTL

\* As long as no flash operation fails, what SAVE answered OK for stays in flash.
THEOREM SavedSurvives == Spec => []SavedIsKept
<1>1. IInv => SavedIsKept BY DEF IInv
<1> QED BY <1>1, Invariance, PTL

\* After a successful erase the flash never mixes two configurations, whatever
\* fails and however often the power goes.
THEOREM NeverMixed == Spec => []OneConfiguration
<1>1. IInv => OneConfiguration BY DEF IInv
<1> QED BY <1>1, Invariance, PTL

\* A restart brings back what SAVE answered OK for.
THEOREM Restored == Spec => RestartRestores
<1>1. IInv /\ [Next]_vars =>
        [pc = "off" /\ pc' = "command" /\ faults = 0 /\ saved # None =>
           SystemConfig' = saved]_vars
  BY DEF IInv, SavedIsKept, Next, Start, ReadConfiguration, Set, Save, EraseSector,
         Program, Answer, Outage
<1> QED BY <1>1, Invariance, PTL DEF Spec, RestartRestores

\* As long as nothing fails, the answer OK tells that flash holds what memory does.
OkMeansSavedAlone ==
  [][pc = "program" /\ pc' = "command" /\ echo' = "OK" /\ faults = 0 =>
       flash = SystemConfig]_vars

\* OkMeansSaved, but for operations that fail: at the end of the loop each byte has been
\* programmed, on an erased one.
THEOREM OkIsSaved == Spec => OkMeansSavedAlone
<1>1. IInv /\ [Next]_vars =>
        [pc = "program" /\ pc' = "command" /\ echo' = "OK" /\ faults = 0 =>
           flash = SystemConfig]_vars
  <2> SUFFICES ASSUME IInv, Next, pc = "program", pc' = "command", faults = 0
               PROVE  flash = SystemConfig
    OBVIOUS
  <2>1. Answer
    BY DEF Next, Start, Set, Save, EraseSector, Program, Outage
  <2>2. SavedIsKept' /\ flash_status = "HAL_OK" BY <2>1, AnswerStep DEF IInv, ProgressInv
  <2>3. faults' = 0 /\ flash' = flash /\ saved' = SystemConfig BY <2>1, <2>2 DEF Answer
  <2>4. saved' # None
    <3>1. SystemConfig \in Config BY DEF IInv, TypeOK
    <3>2. 1 \in Index BY Bounds DEF Index
    <3> QED BY <2>3, <3>1, <3>2 DEF None, Config
  <2> QED BY <2>2, <2>3, <2>4 DEF SavedIsKept
<1> QED BY <1>1, Invariance, PTL DEF Spec, OkMeansSavedAlone

-----------------------------------------------------------------------------
(* What the commands put into memory.                                     *)

\* What sscanf and the length accept are the addresses that fit.
LEMMA ValidIffFits ==
  ASSUME NEW a \in Address
  PROVE  ValidateIPv4(a) <=> IsIPv4(a) /\ Length(a) <= 15
<1>1. \A i \in 1 .. 4 : a.field[i].digits \in Nat /\ a.field[i].value \in Nat
  <2>1. a.field \in [1 .. 4 -> Fields] BY DEF Address
  <2> QED BY <2>1, ParserAssumption
<1>2. PICK r \in Nat :
        r = CASE a.rest = "nothing" -> 0 [] a.rest = "CRLF" -> 2 [] a.rest = "junk" -> 1
  BY DEF Address
<1>3. /\ a.field[1].digits \in Nat /\ a.field[2].digits \in Nat
      /\ a.field[3].digits \in Nat /\ a.field[4].digits \in Nat
  BY <1>1
<1>4. Length(a) = a.field[1].digits + a.field[2].digits + a.field[3].digits
                   + a.field[4].digits + 3 + r
  BY <1>2 DEF Length
<1>5. IsIPv4(a) => Length(a) >= 7
  <2>1. IsIPv4(a) => /\ a.field[1].digits >= 1 /\ a.field[2].digits >= 1
                     /\ a.field[3].digits >= 1 /\ a.field[4].digits >= 1
    BY DEF IsIPv4
  <2> QED BY <1>3, <1>4, <2>1
<1>6. Length(a) \in Nat BY <1>3, <1>4
<1>7. Converted(a) /\ ~Tail(a) <=>
        (\A i \in 1 .. 4 : a.field[i].digits \in 1 .. 3) /\ a.rest # "junk"
  <2>1. Converted(a) /\ ~Tail(a) =>
        (\A i \in 1 .. 4 : a.field[i].digits \in 1 .. 3) /\ a.rest # "junk"
    BY <1>1 DEF Converted, Tail
  <2>2. (\A i \in 1 .. 4 : a.field[i].digits \in 1 .. 3) /\ a.rest # "junk" =>
        Converted(a) /\ ~Tail(a)
    BY <1>1 DEF Converted, Tail
  <2> QED BY <2>1, <2>2
<1>8. IsIPv4(a) <=> /\ Converted(a) /\ ~Tail(a)
                    /\ \A i \in 1 .. 4 : a.field[i].value <= 255
  <2>1. IsIPv4(a) <=> /\ \A i \in 1 .. 4 : a.field[i].digits \in 1 .. 3
                      /\ \A i \in 1 .. 4 : a.field[i].value <= 255
                      /\ a.rest # "junk"
    <3>1. ASSUME NEW i \in 1 .. 4
          PROVE  a.field[i].value \in 0 .. 255 <=> a.field[i].value <= 255
      <4>1. \A v \in Nat : v \in 0 .. 255 <=> v <= 255 OBVIOUS
      <4> QED BY <1>1, <4>1, Zenon
    <3> QED BY <3>1, Zenon DEF IsIPv4
  <2> QED BY <1>7, <2>1
<1> QED BY <1>5, <1>6, <1>8 DEF ValidateIPv4

\* Before the line is done, nothing is stored; afterwards, what should be.
ParserOK ==
  /\ line \in Line
  /\ answer = "pending" =>
       settings = [n \in Names \cup {"MAC"} |-> IF n = "MAC" THEN FirstMac ELSE FirstAddress]
  /\ StoredIffFits

\* An address is replaced if and only if the line sets it to an IPv4 address that fits.
THEOREM StoredExactly == ParserSpec => []StoredIffFits
<1>1. ParserInit => ParserOK
  BY DEF ParserInit, ParserOK, StoredIffFits
<1>2. ParserOK /\ [ParserNext]_ParserVars => ParserOK'
  <2>1. CASE UNCHANGED ParserVars
    BY <2>1 DEF ParserVars, ParserOK, StoredIffFits, Sets
  <2>2. ASSUME ParserOK, Uart1 PROVE ParserOK'
    <3>1. /\ line' = line /\ answer = "pending" /\ line \in Line
          /\ settings = [n \in Names \cup {"MAC"} |-> IF n = "MAC" THEN FirstMac ELSE FirstAddress]
      BY <2>2 DEF ParserOK, Uart1
    <3>2. answer' # "pending"
      BY <2>2 DEF Uart1, ExcuteCommand
    <3>3. ASSUME NEW n \in Names
          PROVE  settings'[n] = IF Sets(n) /\ IsIPv4(line.para) /\ Length(line.para) <= 15
                                THEN Octets(line.para) ELSE FirstAddress
      <4>1. n # "MAC" /\ n # "unknown" /\ settings[n] = FirstAddress
        BY <3>1, ParserAssumption
      <4>2. line.name \in Names => line.para \in Address /\ line.chars = 3
        BY <3>1, ParserAssumption DEF Line
      <4>3. line.sep \in {" ", "=", "?", "none"}
        BY <3>1 DEF Line, Separators
      <4>4. CASE Sets(n)
        <5>1. ParseCommand(line) = "aifOK"
          <6>1. line.chars = 3 /\ line.sep # "none" BY <4>2, <4>4 DEF Sets
          <6> QED BY <6>1 DEF ParseCommand, MAX_LEN_CMD_NAME
        <5>2. ExcuteCommand BY <5>1, <2>2 DEF Uart1
        <5>3. IF ValidateIPv4(line.para) THEN Store(n, Octets(line.para))
              ELSE UNCHANGED settings
          BY <5>2, <4>1, <4>4 DEF ExcuteCommand, Sets
        <5>4. Store(n, Octets(line.para)) => settings'[n] = Octets(line.para)
          BY <3>1 DEF Store
        <5> QED BY <5>3, <5>4, <4>1, <4>2, <4>4, ValidIffFits DEF Sets
      <4>5. CASE ~Sets(n)
        <5>1. settings'[n] = settings[n]
          <6>1. CASE line.name = n
            <7>1. line.sep = "?" \/ line.sep = "none" BY <6>1, <4>3, <4>5 DEF Sets
            <7>2. line.sep = "none" => ParseCommand(line) # "aifOK"
              BY <6>1, <4>2 DEF ParseCommand, MAX_LEN_CMD_NAME
            <7> QED BY <7>1, <7>2, <6>1, <4>1, <2>2 DEF Uart1, ExcuteCommand
          <6>2. CASE line.name # n
            BY <6>2, <2>2, <3>1 DEF Uart1, ExcuteCommand, Store
          <6> QED BY <6>1, <6>2
        <5> QED BY <5>1, <4>1, <4>5
      <4> QED BY <4>4, <4>5
    <3> QED BY <3>1, <3>2, <3>3 DEF ParserOK, StoredIffFits, Sets
  <2> QED BY <2>1, <2>2 DEF ParserNext
<1>3. ParserOK => StoredIffFits BY DEF ParserOK
<1> QED BY <1>1, <1>2, <1>3, PTL DEF ParserSpec

\* Which bytes of SystemConfig are those of an address or the MAC, and which they are.
CONSTANTS Placed, Place

\* A byte can have every value of an octet, and those of a MAC.
LayoutAssumption ==
  /\ Placed \subseteq Index
  /\ Place \in [Placed -> (Names \X (1 .. 4)) \cup ({"MAC"} \X (1 .. 6))]
  /\ 0 .. 255 \subseteq Values
  /\ Macs \subseteq [1 .. 6 -> Values]

\* The bytes in memory are those of the settings.
LaidOut == \A i \in Placed : SystemConfig[i] = settings[Place[i][1]][Place[i][2]]

\* What a line does to the settings: one of them, or none, gets bytes.
LEMMA CommandStores ==
  ASSUME LayoutAssumption,
         NEW S, settings \in [Names \cup {"MAC"} -> S], line \in Line, Uart1,
         NEW i \in Placed, settings'[Place[i][1]] # settings[Place[i][1]]
  PROVE  settings'[Place[i][1]][Place[i][2]] \in Values
<1>1. \/ Place[i][1] \in Names /\ Place[i][2] \in 1 .. 4
      \/ Place[i][1] = "MAC" /\ Place[i][2] \in 1 .. 6
  BY DEF LayoutAssumption
<1>2. ExcuteCommand BY DEF Uart1
<1> DEFINE v == IF line.name = "MAC" THEN line.para.bytes ELSE Octets(line.para)
<1>3. PICK n \in Names \cup {"MAC"} :
        /\ Store(n, v) /\ line.name = n
        /\ n \in Names => ValidateIPv4(line.para) /\ v = Octets(line.para)
        /\ n = "MAC" => v = line.para.bytes
  BY <1>2, ParserAssumption DEF ExcuteCommand
<1> HIDE DEF v
<1>4. settings' = [settings EXCEPT ![n] = v] BY <1>3 DEF Store
<1>5. n = Place[i][1] /\ settings'[Place[i][1]] = v BY <1>1, <1>4
<1>6. CASE n \in Names
  <2>1. line.para \in Address
    BY <1>3, <1>6, ParserAssumption DEF Line
  <2>2. line.para.field \in [1 .. 4 -> Fields] BY <2>1 DEF Address
  <2>3. \A j \in 1 .. 4 : line.para.field[j].value \in Nat
    BY <2>2, ParserAssumption
  <2>4. \A j \in 1 .. 4 : line.para.field[j].value <= 255
    BY <1>3, <1>6 DEF ValidateIPv4
  <2>5. \A j \in 1 .. 4 : line.para.field[j].value \in Values
    <3>1. \A w \in Nat : w <= 255 => w \in 0 .. 255 OBVIOUS
    <3> QED BY <2>3, <2>4, <3>1, Zenon DEF LayoutAssumption
  <2>6. Place[i][2] \in 1 .. 4 BY <1>1, <1>5, <1>6, ParserAssumption
  <2> QED BY <1>3, <1>5, <1>6, <2>5, <2>6 DEF Octets
<1>7. CASE n = "MAC"
  <2>1. line.para.bytes \in Macs
    BY <1>3, <1>7, ParserAssumption DEF Line, Mac
  <2>2. Place[i][2] \in 1 .. 6 BY <1>1, <1>5, <1>7, ParserAssumption
  <2> QED BY <1>3, <1>5, <1>7, <2>1, <2>2 DEF LayoutAssumption
<1> QED BY <1>6, <1>7

\* The commands are what FlashConfig takes them for: what a line does to the bytes of
\* the configuration is a Set.  No octet is stored that does not fit in a byte.
THEOREM CommandIsSet ==
  ASSUME LayoutAssumption,
         NEW S, settings \in [Names \cup {"MAC"} -> S], line \in Line, Uart1,
         pc = "command", SystemConfig' \in Config, SystemConfig \in Config,
         LaidOut, LaidOut', \A i \in Index \ Placed : SystemConfig'[i] = SystemConfig[i],
         UNCHANGED <<flash, pc, address, flash_status, echo, faults, outages, history>>
  PROVE  Set
<1> DEFINE part == {i \in Index : SystemConfig'[i] # SystemConfig[i]}
           new  == [i \in Index |-> IF i \in part THEN SystemConfig'[i] ELSE Defaults]
<1>1. part \in SUBSET Index OBVIOUS
<1>2. ASSUME NEW i \in part PROVE SystemConfig'[i] \in Values
  <2>1. i \in Placed OBVIOUS
  <2>2. /\ SystemConfig[i] = settings[Place[i][1]][Place[i][2]]
        /\ SystemConfig'[i] = settings'[Place[i][1]][Place[i][2]]
    BY <2>1 DEF LaidOut
  <2>3. settings'[Place[i][1]] # settings[Place[i][1]] BY <2>2
  <2> QED BY <2>1, <2>2, <2>3, CommandStores
<1>3. new \in [Index -> Values] BY <1>2, FlashAssumption
<1>4. SystemConfig' = [i \in Index |-> IF i \in part THEN new[i] ELSE SystemConfig[i]]
  BY DEF Config
<1> QED BY <1>1, <1>3, <1>4 DEF Set
=============================================================================
