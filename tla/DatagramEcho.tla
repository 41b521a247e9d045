---------------------------- MODULE DatagramEcho ----------------------------
(***************************************************************************)
(* What an echo server for datagrams promises: it takes the datagrams in   *)
(* the order they came, and sends the bytes of each back in parts, in      *)
(* order, each byte at most once and none of two datagrams in one part.    *)
(* It may give up the rest of a datagram, or bytes in the middle of one.   *)
(*                                                                         *)
(* A byte is known by its place in the stream of all that came, in which a *)
(* datagram at pos has HEADER bytes in front of its own.                   *)
(***************************************************************************)
EXTENDS Naturals, Sequences

CONSTANTS Peers, Portless,  \* senders, and those that are never answered
          HEADER,           \* bytes in front of those of a datagram
          PackMAX,          \* bytes of the largest datagram
          Limit             \* parts of a larger one than this may go to anybody

VARIABLES came,  \* the datagrams, [from, len, pos]
          next,  \* the place all before which is sent or given up
          part   \* what is being sent: <<to, first, len>>, or None

None == <<>>

End(d) == d.pos + HEADER + d.len
Front  == IF came = <<>> THEN 0 ELSE End(came[Len(came)])

Init == came = <<>> /\ next = 0 /\ part = None

Come ==
  /\ \E p \in Peers, n \in 0 .. PackMAX :
       came' = Append(came, [from |-> p, len |-> n, pos |-> Front])
  /\ UNCHANGED <<next, part>>

\* The next datagram is begun.
Begin ==
  /\ \E i \in DOMAIN came : came[i].pos = next
  /\ next' = next + HEADER
  /\ UNCHANGED <<came, part>>

\* Bytes of the datagram are sent, from next on.
Answer ==
  /\ part = None
  /\ \E i \in DOMAIN came, to \in Peers \ Portless : \E n \in 1 .. came[i].len :
       /\ came[i].pos + HEADER <= next /\ next + n <= End(came[i])
       /\ came[i].len <= Limit => to = came[i].from
       /\ part' = <<to, next, n>>
       /\ next' = next + n
  /\ UNCHANGED came

\* They are sent, or nobody took them.
Done == part' = None /\ UNCHANGED <<came, next>>

\* Bytes of the datagram are given up, after a part nobody took or before one.
GiveUp ==
  /\ part' = None
  /\ \E i \in DOMAIN came :
       came[i].pos + HEADER <= next /\ next < next' /\ next' <= End(came[i])
  /\ UNCHANGED came

Next == Come \/ Begin \/ Answer \/ Done \/ GiveUp

Spec == Init /\ [][Next]_<<came, next, part>>
=============================================================================
