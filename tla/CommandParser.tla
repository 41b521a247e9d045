---------------------------- MODULE CommandParser ----------------------------
(***************************************************************************)
(* What a command line does to SystemConfig: ParseCommand splits it at the *)
(* first separator, ExcuteCommand looks up the name and converts the       *)
(* parameter.  uart1Task does one line after the other (see AdminRing).    *)
(*                                                                         *)
(* A line is its name, the separator and the parameter.  An address is     *)
(* four fields of digits, each with its value, and what follows the last;  *)
(* a MAC is its bytes and where it has colons; a parameter is not longer   *)
(* than para.  SAVE is in FlashConfig.                                     *)
(***************************************************************************)
EXTENDS Naturals

CONSTANTS Fields,       \* a field of an address: [digits, value]
          Names,        \* names of addresses, as IP and GW
          NameChars,    \* lengths of names nobody knows
          Macs,         \* values of a MAC
          FirstAddress, FirstMac  \* what SystemConfig holds before

ASSUME ParserAssumption ==
  /\ Fields \subseteq [digits : Nat, value : Nat]
  /\ \A f \in Fields : f.value < 10 ^ f.digits
  /\ NameChars \subseteq Nat
  /\ "MAC" \notin Names /\ "unknown" \notin Names
  /\ FirstAddress \in [1 .. 4 -> 0 .. 255]

MAX_LEN_CMD_NAME == 15

\* The colons IS_MAC looks at, and the one it does not.
Colons == {2, 5, 8, 11}

\* What may follow an address: nothing, white space, or anything else.
Address == [field : [1 .. 4 -> Fields], rest : {"nothing", "CRLF", "junk"}]
Mac     == [colons : SUBSET (Colons \cup {14}), bytes : Macs]

Separators == {" ", "=", "?", "none"}

\* chars is the length of the name as the parser counts it, up to a separator or
\* the end of the line.
Line ==
  [name : Names, chars : {3}, sep : Separators, para : Address]
    \cup [name : {"MAC"}, chars : {3}, sep : Separators, para : Mac]
    \cup [name : {"unknown"}, chars : NameChars, sep : Separators, para : Mac]

VARIABLES settings,  \* the addresses and the MAC in SystemConfig
          line,      \* the line in the row
          answer     \* what was answered to it, "pending" before

ParserVars == <<settings, line, answer>>

ParserInit ==
  /\ settings = [n \in Names \cup {"MAC"} |-> IF n = "MAC" THEN FirstMac ELSE FirstAddress]
  /\ line \in Line
  /\ answer = "pending"

-----------------------------------------------------------------------------
ParseCommand(l) ==
  CASE l.chars >= MAX_LEN_CMD_NAME -> "aifBadName"
    [] l.chars < MAX_LEN_CMD_NAME /\ l.sep = "none" -> "aifBadPara"
    [] OTHER -> "aifOK"

\* strlen of the parameter, and the end of the line belongs to it.
Length(a) ==
  a.field[1].digits + a.field[2].digits + a.field[3].digits + a.field[4].digits + 3
    + CASE a.rest = "nothing" -> 0 [] a.rest = "CRLF" -> 2 [] a.rest = "junk" -> 1

\* sscanf: %3u takes up to three digits, then a point must follow; %s takes what is
\* left behind the fourth number, without white space.
Converted(a) ==
  (\A i \in 1 .. 4 : a.field[i].digits > 0) /\ (\A i \in 1 .. 3 : a.field[i].digits <= 3)

Tail_Ignored(a) == FALSE
Tail(a) == a.field[4].digits > 3 \/ a.rest = "junk"

ValidateIPv4(a) ==
  /\ Length(a) \in 7 .. 15
  /\ Converted(a) /\ ~Tail(a)
  /\ \A i \in 1 .. 4 : a.field[i].value <= 255

\* sscanf stores 32 bits into places of 16, in order: each number writes zeros over
\* the next place, which then gets its own.
Octets(a) == [i \in 1 .. 4 |-> a.field[i].value]

IS_MAC(m) == Colons \subseteq m.colons

Store(n, v) == settings' = [settings EXCEPT ![n] = v]

\* A setting is answered with OK whether or not its parameter was converted.
ExcuteCommand ==
  \/ line.sep = "?" /\ line.name # "unknown" /\ answer' = "value" /\ UNCHANGED settings
  \/ /\ line.sep # "?" /\ line.name \in Names /\ answer' = "OK"
     /\ IF ValidateIPv4(line.para) THEN Store(line.name, Octets(line.para))
        ELSE UNCHANGED settings
  \/ /\ line.sep # "?" /\ line.name = "MAC" /\ answer' = "OK"
     /\ IF IS_MAC(line.para) THEN Store("MAC", line.para.bytes) ELSE UNCHANGED settings
  \/ line.name = "unknown" /\ answer' = "none" /\ UNCHANGED settings

Uart1 ==
  /\ answer = "pending"
  /\ IF ParseCommand(line) = "aifOK" THEN ExcuteCommand
     ELSE answer' = "none" /\ UNCHANGED settings
  /\ UNCHANGED line

ParserNext == Uart1

ParserSpec == ParserInit /\ [][ParserNext]_ParserVars

-----------------------------------------------------------------------------
\* What IPv4 addresses look like.
IsIPv4(a) ==
  /\ \A i \in 1 .. 4 : a.field[i].digits \in 1 .. 3 /\ a.field[i].value \in 0 .. 255
  /\ a.rest # "junk"

Sets(n) == line.name = n /\ line.sep \in {" ", "="}

\* An address is replaced by the one in the line when that is an IPv4 address that
\* fits into 15 characters with the end of the line, and in no other case.
StoredIffFits ==
  answer # "pending" =>
    \A n \in Names :
      settings[n] = IF Sets(n) /\ IsIPv4(line.para) /\ Length(line.para) <= 15
                    THEN Octets(line.para) ELSE FirstAddress

\* admin_interface.c:123, "Valitdate if the input string matches the IPv4 format":
\* what matches it is stored.  TLC finds one of 14 characters and the CRLF.
StoresIPv4 ==
  answer = "OK" /\ (\E n \in Names : Sets(n)) /\ IsIPv4(line.para) =>
    settings[line.name] = Octets(line.para)

=============================================================================
