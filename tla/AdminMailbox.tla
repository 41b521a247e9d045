---------------------------- MODULE AdminMailbox ----------------------------
(***************************************************************************)
(* What the admin port promises its task, without rows, DMA or interrupts: *)
(* a bounded mailbox.  Lines are put at the back, the task takes the one   *)
(* at the front, and neither a line in the box nor the line in the task's  *)
(* hand ever changes.  When the box is full a line is simply not put.      *)
(***************************************************************************)
EXTENDS Naturals, Sequences

CONSTANTS Line,   \* contents a line can have
          Cap,    \* lines the box holds
          Empty   \* the task holds no line; not in Line

VARIABLES box,    \* lines waiting for the task, oldest first
          hand    \* the line the task is reading, or Empty

vars == <<box, hand>>

Init == box = <<>> /\ hand = Empty

Put(l) == /\ Len(box) < Cap
          /\ box' = Append(box, l)
          /\ UNCHANGED hand

Take == /\ hand = Empty
        /\ box # <<>>
        /\ hand' = Head(box)
        /\ box' = Tail(box)

Finish == /\ hand # Empty
          /\ hand' = Empty
          /\ UNCHANGED box

Next == (\E l \in Line : Put(l)) \/ Take \/ Finish

Spec == Init /\ [][Next]_vars
=============================================================================
