---------------------------- MODULE FlashConfig -----------------------------
(***************************************************************************)
(* The configuration in memory, its copy in flash sector 11, the commands  *)
(* that change the one and save it to the other, and power that may go at  *)
(* any moment.  (Src/configuration_manager.c, the setting commands and     *)
(* SAVE of ExcuteCommand in Src/admin_interface.c, the start in            *)
(* Src/main.c.)                                                            *)
(*                                                                         *)
(* SystemConfig is written byte by byte; here it has Size bytes.  A byte   *)
(* of flash holds a value, Erased, or Torn: bits of more than one writing. *)
(***************************************************************************)
EXTENDS Naturals

CONSTANTS Size,      \* bytes of ConfigurationTypeDef
          Values,   \* values a byte can have, other than Erased and Torn
          Defaults, \* value main() gives every byte before it reads the flash
          Faults,   \* bound: flash operations that fail
          Outages   \* bound: how often the power goes

Erased == "erased"
Torn   == "torn"

ASSUME FlashAssumption ==
  /\ Size \in Nat \ {0}
  /\ Defaults \in Values
  /\ Erased \notin Values /\ Torn \notin Values
  /\ Faults \in Nat /\ Outages \in Nat

VARIABLES
  SystemConfig,  \* the configuration in memory
  flash,         \* the configuration sector
  pc,            \* "off", "command", or in SaveConfiguration "erase", "program"
  address,       \* address_to_save: the byte to program next
  flash_status,  \* result of the erase: "HAL_OK", "HAL_ERROR"
  echo,          \* last answer to SAVE
  faults, outages,
  saved,         \* history: the configuration that was last answered OK, until
                 \* another SAVE touches the flash
  source         \* history: the configuration the last erase made room for

vars == <<SystemConfig, flash, pc, address, flash_status, echo, faults, outages,
          saved, source>>
history == <<saved, source>>

Byte   == Values \cup {Erased, Torn}
Index  == 1 .. Size
Config == [Index -> Byte]
None   == [i \in {} |-> Erased]    \* no configuration

TypeOK ==
  /\ SystemConfig \in Config
  /\ flash \in Config
  /\ pc \in {"off", "command", "erase", "program"}
  /\ address \in 1 .. Size + 1
  /\ flash_status \in {"HAL_OK", "HAL_ERROR"}
  /\ echo \in {"", "OK", "Failed"}
  /\ faults \in 0 .. Faults
  /\ outages \in 0 .. Outages
  /\ source \in Config
  /\ saved = None \/ saved \in Config

\* A new board: nothing was ever saved.
Init ==
  /\ SystemConfig = [i \in Index |-> Defaults]
  /\ flash = [i \in Index |-> Erased]
  /\ pc = "off"
  /\ address = 1
  /\ flash_status = "HAL_OK"
  /\ echo = ""
  /\ faults = 0 /\ outages = 0
  /\ saved = None
  /\ source = flash

-----------------------------------------------------------------------------
\* main(): the defaults, and then ReadConfiguration over all of them.
ReadConfiguration_NotCalled == [i \in Index |-> Defaults]
ReadConfiguration == flash

Start ==
  /\ pc = "off"
  /\ SystemConfig' = ReadConfiguration
  /\ pc' = "command"
  /\ echo' = ""
  /\ UNCHANGED <<flash, address, flash_status, faults, outages, history>>

\* A setting command changes a part of the configuration in memory only: the bytes of
\* an address, a MAC or a number, or none if its parameter is not converted.
Set ==
  /\ pc = "command"
  /\ \E part \in SUBSET Index, new \in [Index -> Values] :
       SystemConfig' = [i \in Index |-> IF i \in part THEN new[i] ELSE SystemConfig[i]]
  /\ UNCHANGED <<flash, pc, address, flash_status, echo, faults, outages, history>>

\* SAVE calls SaveConfiguration, which begins by erasing the sector.
Save ==
  /\ pc = "command"
  /\ pc' = "erase"
  /\ UNCHANGED <<SystemConfig, flash, address, flash_status, echo, faults, outages, history>>

\* HAL_FLASHEx_Erase.  When it fails the sector is as it was, or partly erased.
Erase_Skipped ==
  /\ flash' = flash
  /\ flash_status' = "HAL_OK"
  /\ UNCHANGED faults
Erase ==
  \/ /\ flash' = [i \in Index |-> Erased]
     /\ flash_status' = "HAL_OK"
     /\ UNCHANGED faults
  \/ /\ faults < Faults
     /\ faults' = faults + 1
     /\ \E hit \in SUBSET Index :
          flash' = [i \in Index |-> IF i \in hit THEN Torn ELSE flash[i]]
     /\ flash_status' = "HAL_ERROR"

CONFIG_START_ADDRESS == 1

EraseSector ==
  /\ pc = "erase"
  /\ Erase
  /\ pc' = "program"
  /\ address' = CONFIG_START_ADDRESS
  /\ saved' = None
  /\ source' = SystemConfig
  /\ UNCHANGED <<SystemConfig, echo, outages>>

\* Programming can clear bits only: it gives the value on an erased byte.
Programmed(old, v) == IF old = Erased THEN v ELSE IF old = v THEN v ELSE Torn

\* HAL_FLASH_Program for one byte; its result is not looked at.
Program ==
  /\ pc = "program"
  /\ address <= Size
  /\ \/ /\ flash' = [flash EXCEPT ![address] = Programmed(@, SystemConfig[address])]
        /\ UNCHANGED faults
     \/ /\ faults < Faults
        /\ faults' = faults + 1
        /\ \E b \in {flash[address], Torn} : flash' = [flash EXCEPT ![address] = b]
  /\ address' = address + 1
  /\ UNCHANGED <<SystemConfig, pc, flash_status, echo, outages, history>>

\* SaveConfiguration returns the result of the erase, and SAVE answers by it.
LoopDone_OneShort == address >= Size
LoopDone == address > Size

Answer ==
  /\ pc = "program"
  /\ LoopDone
  /\ IF flash_status = "HAL_OK" THEN echo' = "OK" /\ saved' = SystemConfig
     ELSE echo' = "Failed" /\ UNCHANGED saved
  /\ pc' = "command"
  /\ UNCHANGED <<SystemConfig, flash, address, flash_status, faults, outages, source>>

\* The power goes.  An erase or the programming of a byte may be cut short.
Outage ==
  /\ pc # "off"
  /\ outages < Outages
  /\ outages' = outages + 1
  /\ pc' = "off"
  /\ \/ UNCHANGED <<flash, saved>>
     \/ /\ pc = "erase"
        /\ \E hit \in SUBSET Index :
             flash' = [i \in Index |-> IF i \in hit THEN Torn ELSE flash[i]]
        /\ saved' = None
     \/ /\ pc = "program" /\ address <= Size
        /\ flash' = [flash EXCEPT ![address] = Torn]
        /\ UNCHANGED saved
  /\ UNCHANGED <<SystemConfig, address, flash_status, echo, faults, source>>

Next == Start \/ Set \/ Save \/ EraseSector \/ Program \/ Answer \/ Outage

Spec == Init /\ [][Next]_vars

-----------------------------------------------------------------------------
(* Properties.                                                             *)

\* As long as no flash operation fails: from the answer OK on, through settings,
\* outages and restarts, the flash holds the configuration that was in memory when
\* SAVE was given; only the next SAVE ends that.
SavedIsKept == faults = 0 /\ saved # None => flash = saved

\* And a restart brings it back, byte for byte, whatever main() and the setting
\* commands had put into memory.
RestartRestores ==
  [][pc = "off" /\ pc' = "command" /\ faults = 0 /\ saved # None =>
       SystemConfig' = saved]_vars

\* However often a SAVE is cut short and whatever fails in it, unless it is the
\* last erase, the flash never holds parts of two configurations: what is neither
\* erased nor torn comes from the same SAVE.
OneConfiguration ==
  flash_status = "HAL_OK" => \A i \in Index : flash[i] \in {Erased, Torn, source[i]}

\* configuration_manager.c:75 "Method to save configurations", whose result makes
\* SAVE answer "OK" (admin_interface.c:220): the configuration is saved then.
OkMeansSaved ==
  [][pc = "program" /\ pc' = "command" /\ echo' = "OK" => flash = SystemConfig]_vars
=============================================================================
