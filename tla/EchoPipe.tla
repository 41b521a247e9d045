------------------------------ MODULE EchoPipe ------------------------------
(***************************************************************************)
(* What an echo server promises its peer: the bytes that went in come out, *)
(* each once, in order, none that did not go in.  A byte is its number.    *)
(***************************************************************************)
EXTENDS Naturals

VARIABLES in, out,  \* how many bytes went in and came out
          byte      \* the last that came out

Init == in = 0 /\ out = 0 /\ byte = 0

Put == in' = in + 1 /\ UNCHANGED <<out, byte>>

Get ==
  /\ out < in
  /\ out' = out + 1 /\ byte' = out + 1
  /\ UNCHANGED in

Next == Put \/ Get

Spec == Init /\ [][Next]_<<in, out, byte>>
=============================================================================
