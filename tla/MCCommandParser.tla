-------------------------- MODULE MCCommandParser ---------------------------
(***************************************************************************)
(* CommandParser for TLC: fields of every length, at the edge of a byte,   *)
(* empty and too long.                                                     *)
(***************************************************************************)
EXTENDS CommandParser

Digits(d, v) == [digits |-> d, value |-> v]
SomeFields ==
  {Digits(0, 0), Digits(1, 7), Digits(2, 10), Digits(3, 255), Digits(3, 256), Digits(4, 100)}
NoAddress == [i \in 1 .. 4 |-> 0]
=============================================================================
