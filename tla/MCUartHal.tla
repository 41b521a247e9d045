----------------------------- MODULE MCUartHal ------------------------------
(* Small instances of UartHal: two echoes, two messages.                   *)
EXTENDS UartHal

CONSTANTS e1, e2, m1, m2

EchoTexts    == {e1, e2}
MessageTexts == {m1, m2}
=============================================================================
