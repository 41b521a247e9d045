------------------------------ MODULE MCSpiBus ------------------------------
(* The board's five chips, of which two are initialised.                   *)
EXTENDS SpiBus

FiveChips == 0 .. 4
TwoInits  == <<0, 1>>
=============================================================================
