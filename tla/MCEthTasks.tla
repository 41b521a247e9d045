----------------------------- MODULE MCEthTasks -----------------------------
(* The five lines of the board, and the two tasks that wait.               *)
EXTENDS EthTasks

FiveChips == 0 .. 4
TwoTasks  == {0, 1}
=============================================================================
