------------------------------ MODULE UdpProofs ------------------------------
(***************************************************************************)
(* Proofs about Udp, for every size of buffers and datagrams and any       *)
(* number of datagrams: the headers are where the driver looks for them,   *)
(* and what it sends back is what it should be.                            *)
(***************************************************************************)
EXTENDS Udp, TLAPS

\* Where a datagram may begin.
Boundary(p) == p = Sn_RX_WR \/ \E d \in Came : d.pos = p

\* d has been read to p and has n bytes left.
Reading(d, p, n) == d.pos + HEADER <= p /\ p + n = End(d)

\* loopback_udps's buffer takes the whole of d.
Whole(d) == d.len <= DATA_BUF_SIZE

Sending == {"sendto", "room", "SEND", "sendIR"}

\* Each datagram ends where the next begins, or will begin.
StreamInv == \A d \in Came : End(d) <= Sn_RX_WR /\ Boundary(End(d))

\* Between two calls of recvfrom: at a boundary, or in a datagram with
\* sock_remained_size bytes left.
RestInv ==
  pc \in {"idle"} \cup Sending =>
    /\ sock_remained_size = 0 => Boundary(Sn_RX_RD)
    /\ sock_remained_size # 0 =>
         \E d \in Came : Reading(d, Sn_RX_RD, sock_remained_size) /\ ~Whole(d)

\* In recvfrom.  size is not less than the datagram, unless the buffer is.
RecvInv ==
  /\ pc \notin {"headerRECV", "dataRECV"} => rxOut = Sn_RX_RD
  /\ pc = "header" =>
       /\ sock_remained_size = 0 /\ Boundary(Sn_RX_RD) /\ Sn_RX_RD < Sn_RX_WR
       /\ \A d \in Came :
            d.pos = Sn_RX_RD => size >= HEADER + d.len \/ size = DATA_BUF_SIZE
  /\ pc \in {"headerRECV", "data"} =>
       \E d \in Came :
         /\ Reading(d, Sn_RX_RD, sock_remained_size)
         /\ Whole(d) => d.from = dest /\ sock_remained_size <= size
  /\ pc = "dataRECV" =>
       /\ len <= sock_remained_size
       /\ \E d \in Came :
            /\ Reading(d, buf, sock_remained_size) /\ buf + len = Sn_RX_RD
            /\ Whole(d) => d.from = dest /\ len = sock_remained_size

\* In sendto, and that it has left nothing behind.
SendtoInv ==
  /\ pc \in {"idle", "header", "headerRECV", "data", "dataRECV"} => sentsize = 0
  /\ pc \in {"idle", "header", "headerRECV", "data"} => len = 0
  /\ pc \in Sending =>
       /\ sentsize < size /\ buf + size = Sn_RX_RD
       /\ \E d \in Came :
            /\ d.pos + HEADER <= buf /\ buf + size <= End(d)
            /\ Whole(d) => d.from = dest
  /\ pc \in {"room", "SEND", "sendIR"} => len \in 1 .. size - sentsize /\ len <= TxMAX
  /\ pc \in {"room", "SEND", "sendIR"} => dest \notin Portless

\* A SEND is under way, or has left its interrupt, only in the loop that waits for it.
ChipInv ==
  /\ pc # "sendIR" => ~sending /\ used = 0 /\ Sn_IR = {}
  /\ pc = "sendIR" =>
       \/ sending /\ used = len /\ Sn_IR = {}
       \/ ~sending /\ used = 0 /\ Sn_IR \in {{"SENDOK"}, {"TIMEOUT"}}

IInv == TypeOK /\ StreamInv /\ RestInv /\ RecvInv /\ SendtoInv /\ ChipInv

-----------------------------------------------------------------------------
(* The stream. *)

LEMMA StreamType ==
  ASSUME TypeOK
  PROVE  /\ Came \subseteq Datagram
         /\ \A d \in Came : d.from \in Peers /\ d.len \in 0 .. PackMAX /\ d.pos \in Nat
         /\ \A d \in Came : End(d) \in Nat /\ End(d) = d.pos + 8 + d.len
         /\ Sn_RX_WR \in Nat /\ HEADER = 8
<1>1. Came \subseteq Datagram BY DEF TypeOK, Came
<1>2. \A d \in Datagram : d.from \in Peers /\ d.len \in 0 .. PackMAX /\ d.pos \in Nat
  BY DEF Datagram
<1>3. \A d \in Datagram : End(d) \in Nat /\ End(d) = d.pos + 8 + d.len
  BY <1>2, UdpAssumption DEF End, HEADER
<1>4. Sn_RX_WR \in Nat
  <2>1. CASE arrived = <<>> BY <2>1 DEF Sn_RX_WR
  <2>2. CASE arrived # <<>>
    <3>1. arrived[Len(arrived)] \in Datagram BY <2>2 DEF TypeOK
    <3> QED BY <2>2, <3>1, <1>3 DEF Sn_RX_WR
  <2> QED BY <2>1, <2>2
<1> QED BY <1>1, <1>2, <1>3, <1>4 DEF HEADER

\* A step that leaves the stream alone leaves what is said of it.
LEMMA StreamKept ==
  ASSUME arrived' = arrived
  PROVE  Came' = Came /\ Sn_RX_WR' = Sn_RX_WR /\ (StreamInv => StreamInv')
BY Zenon DEF Came, Sn_RX_WR, StreamInv, Boundary

\* A datagram that comes is put behind the others.
LEMMA StreamGrows ==
  ASSUME TypeOK, NEW p \in Peers, NEW n \in 0 .. PackMAX,
         NEW r, r = [from |-> p, len |-> n, pos |-> Sn_RX_WR],
         arrived' = Append(arrived, r)
  PROVE  /\ r \in Datagram /\ r.pos = Sn_RX_WR /\ r.len = n
         /\ arrived' \in Seq(Datagram) /\ Came' = Came \cup {r}
         /\ Sn_RX_WR' = Sn_RX_WR + 8 + n
<1>1. r \in Datagram /\ r.pos = Sn_RX_WR /\ r.len = n BY StreamType DEF Datagram
<1>2. arrived' \in Seq(Datagram) /\ Len(arrived') = Len(arrived) + 1 /\ Len(arrived) \in Nat
  BY <1>1 DEF TypeOK
<1>3. /\ arrived'[Len(arrived')] = r
      /\ \A i \in DOMAIN arrived : arrived'[i] = arrived[i]
      /\ DOMAIN arrived' = DOMAIN arrived \cup {Len(arrived')}
  BY <1>1, <1>2 DEF TypeOK
<1>4. Came' = Came \cup {r} BY <1>3 DEF Came
<1>5. Sn_RX_WR' = End(r)
  <2>1. arrived' # <<>> BY <1>2
  <2> QED BY <2>1, <1>3 DEF Sn_RX_WR
<1>6. End(r) = Sn_RX_WR + 8 + n BY <1>1, StreamType DEF End, HEADER
<1> QED BY <1>1, <1>2, <1>4, <1>5, <1>6

-----------------------------------------------------------------------------
(* The driver. *)

LEMMA StutterStep ==
  ASSUME IInv, UNCHANGED vars
  PROVE  IInv'
<1>1. /\ arrived' = arrived /\ rxOut' = rxOut /\ used' = used /\ sending' = sending
      /\ Sn_IR' = Sn_IR /\ Sn_RX_RD' = Sn_RX_RD /\ sock_remained_size' = sock_remained_size
      /\ pc' = pc /\ dest' = dest /\ size' = size /\ sentsize' = sentsize /\ buf' = buf
      /\ len' = len
  BY DEF vars, chip, locals
<1>2. Came' = Came /\ Sn_RX_WR' = Sn_RX_WR /\ StreamInv' BY <1>1, StreamKept DEF IInv
<1>3. TypeOK' BY <1>1, <1>2 DEF IInv, TypeOK
<1>4. RestInv' BY <1>1, <1>2 DEF IInv, RestInv, Boundary, Reading, Whole
<1>5. RecvInv' BY <1>1, <1>2 DEF IInv, RecvInv, Boundary, Reading, Whole
<1>6. SendtoInv' BY <1>1, <1>2 DEF IInv, SendtoInv, Whole
<1>7. ChipInv' BY <1>1 DEF IInv, ChipInv
<1> QED BY <1>2, <1>3, <1>4, <1>5, <1>6, <1>7 DEF IInv

LEMMA LoopbackStep ==
  ASSUME IInv, loopback_udps
  PROVE  IInv'
<1> USE DEF IInv, loopback_udps, chip
<1>0. CASE RSR = 0
  <2>1. UNCHANGED vars BY <1>0 DEF vars, locals
  <2> QED BY <2>1, StutterStep
<1>1. CASE RSR # 0
  <2>1. /\ size' = Least(RSR, DATA_BUF_SIZE) /\ dest' \in Peers
        /\ pc' = IF sock_remained_size = 0 THEN "header" ELSE "data"
        /\ UNCHANGED <<sock_remained_size, Sn_RX_RD, rxOut, sentsize, buf, len,
                      used, sending, Sn_IR, arrived>>
    BY <1>1
  <2>2. pc = "idle" /\ rxOut = Sn_RX_RD BY DEF RecvInv
  <2>3. Sn_RX_WR \in Nat /\ RSR = Sn_RX_WR - Sn_RX_RD /\ Sn_RX_RD < Sn_RX_WR /\ RSR \in Nat
    BY <1>1, <2>2, StreamType DEF TypeOK, RSR
  <2>4. size' \in 1 .. DATA_BUF_SIZE /\ size' <= RSR /\ (size' = RSR \/ size' = DATA_BUF_SIZE)
    BY <1>1, <2>1, <2>3, UdpAssumption DEF Least
  <2>5. Came' = Came /\ Sn_RX_WR' = Sn_RX_WR /\ StreamInv' BY <2>1, StreamKept
  <2>6. sentsize = 0 /\ len = 0 BY <2>2 DEF SendtoInv
  <2>7. TypeOK'
    BY <2>1, <2>4, <2>5, <2>6, StreamType DEF TypeOK
  <2>8. RestInv' BY <2>1 DEF RestInv, Sending
  <2>9. RecvInv'
    <3>1. CASE sock_remained_size = 0
      <4>1. Boundary(Sn_RX_RD) BY <2>2, <3>1 DEF RestInv
      <4>2. Boundary(Sn_RX_RD)' BY <4>1, <2>1, <2>5 DEF Boundary
      <4>3. ASSUME NEW d \in Came, d.pos = Sn_RX_RD
            PROVE  size' >= HEADER + d.len \/ size' = DATA_BUF_SIZE
        <5>1. End(d) <= Sn_RX_WR BY DEF StreamInv
        <5>2. d.len \in Nat /\ End(d) = Sn_RX_RD + 8 + d.len /\ HEADER = 8 /\ Sn_RX_RD \in Nat
          BY <4>3, StreamType, UdpAssumption
        <5>3. HEADER + d.len <= RSR BY <5>1, <5>2, <2>3
        <5> QED BY <5>2, <5>3, <2>4, <2>3
      <4> QED BY <2>1, <2>2, <2>3, <2>5, <3>1, <4>2, <4>3 DEF RecvInv
    <3>2. CASE sock_remained_size # 0
      <4>1. PICK d \in Came : Reading(d, Sn_RX_RD, sock_remained_size) /\ ~Whole(d)
        BY <2>2, <3>2 DEF RestInv
      <4>3. ~Whole(d)' /\ Reading(d, Sn_RX_RD, sock_remained_size)'
        BY <2>1, <4>1 DEF Whole, Reading
      <4> QED BY <2>1, <2>2, <2>5, <3>2, <4>3 DEF RecvInv
    <3> QED BY <3>1, <3>2
  <2>10. SendtoInv' BY <2>1, <2>6 DEF SendtoInv, Sending
  <2>11. ChipInv' BY <2>1, <2>2 DEF ChipInv
  <2> QED BY <2>5, <2>7, <2>8, <2>9, <2>10, <2>11
<1> QED BY <1>0, <1>1

LEMMA ReadHeaderStep ==
  ASSUME IInv, ReadHeader
  PROVE  IInv'
<1> USE DEF IInv
<1>1. /\ pc = "header" /\ pc' = "headerRECV" /\ Sn_RX_RD' = Sn_RX_RD + HEADER
      /\ UNCHANGED <<arrived, rxOut, used, sending, Sn_IR, size, sentsize, buf, len>>
  BY DEF ReadHeader, chip
<1>2. PICK h \in Headers : dest' = Destination(h) /\ sock_remained_size' = h.len
  BY DEF ReadHeader
<1>3. Boundary(Sn_RX_RD) /\ Sn_RX_RD < Sn_RX_WR /\ rxOut = Sn_RX_RD BY <1>1 DEF RecvInv
<1>4. Sn_RX_RD \in Nat /\ rxOut \in Nat BY <1>3, StreamType DEF TypeOK
<1>5. h \in Came /\ h.pos = Sn_RX_RD
  <2>1. \E d \in Came : d.pos = Sn_RX_RD BY <1>3, <1>4, StreamType DEF Boundary
  <2>2. {d \in Came : d.pos = Sn_RX_RD} # {} BY <2>1
  <2> QED BY <2>2 DEF Headers
<1>6. /\ h.from \in Peers /\ h.len \in 0 .. PackMAX /\ End(h) = Sn_RX_RD + 8 + h.len
      /\ End(h) <= Sn_RX_WR /\ HEADER = 8 /\ Sn_RX_WR \in Nat
  BY <1>5, StreamType DEF StreamInv
<1>7. dest' = h.from /\ sock_remained_size' = h.len BY <1>2 DEF Destination
<1>8. Came' = Came /\ Sn_RX_WR' = Sn_RX_WR /\ StreamInv' BY <1>1, StreamKept
<1>9. /\ Sn_RX_RD' = Sn_RX_RD + 8 /\ Sn_RX_RD' <= Sn_RX_WR
      /\ Sn_RX_RD' + sock_remained_size' = End(h)
  BY <1>1, <1>4, <1>6, <1>7, UdpAssumption
<1>10. TypeOK' BY <1>1, <1>3, <1>4, <1>6, <1>7, <1>8, <1>9 DEF TypeOK
<1>11. RecvInv'
  <2>1. Reading(h, Sn_RX_RD, sock_remained_size)'
    BY <1>5, <1>6, <1>9, <1>4 DEF Reading, HEADER
  <2>2. Whole(h) => sock_remained_size' <= size'
    <3>1. size >= HEADER + h.len \/ size = DATA_BUF_SIZE BY <1>1, <1>5 DEF RecvInv
    <3> QED BY <3>1, <1>1, <1>6, <1>7, UdpAssumption DEF Whole, TypeOK
  <2> QED BY <1>1, <1>5, <1>7, <1>8, <2>1, <2>2 DEF RecvInv, Whole
<1>12. RestInv' /\ SendtoInv' /\ ChipInv'
  BY <1>1 DEF RestInv, SendtoInv, ChipInv, Sending
<1> QED BY <1>8, <1>10, <1>11, <1>12

LEMMA HeaderTakenStep ==
  ASSUME IInv, HeaderTaken
  PROVE  IInv'
<1> USE DEF IInv
<1>1. /\ pc = "headerRECV" /\ pc' = "data" /\ rxOut' = Sn_RX_RD
      /\ UNCHANGED <<arrived, used, sending, Sn_IR, Sn_RX_RD, sock_remained_size, dest, size,
                    sentsize, buf, len>>
  BY DEF HeaderTaken, locals
<1>2. Came' = Came /\ Sn_RX_WR' = Sn_RX_WR /\ StreamInv' BY <1>1, StreamKept
<1>3. TypeOK' BY <1>1, <1>2, StreamType DEF TypeOK
<1>4. RecvInv' BY <1>1, <1>2 DEF RecvInv, Reading, Whole
<1>5. RestInv' /\ SendtoInv' /\ ChipInv' BY <1>1 DEF RestInv, SendtoInv, ChipInv, Sending
<1> QED BY <1>2, <1>3, <1>4, <1>5

LEMMA ReadDataStep ==
  ASSUME IInv, ReadData
  PROVE  IInv'
<1> USE DEF IInv
<1>1. /\ pc = "data" /\ pc' = "dataRECV" /\ len' = PackLen
      /\ buf' = Sn_RX_RD /\ Sn_RX_RD' = Sn_RX_RD + PackLen
      /\ UNCHANGED <<arrived, rxOut, used, sending, Sn_IR, sock_remained_size, dest, size,
                    sentsize>>
  BY DEF ReadData, chip
<1>2. PICK d \in Came : /\ Reading(d, Sn_RX_RD, sock_remained_size)
                        /\ Whole(d) => d.from = dest /\ sock_remained_size <= size
  BY <1>1 DEF RecvInv
<1>3. /\ Sn_RX_RD \in Nat /\ rxOut \in Nat /\ size \in Nat /\ sock_remained_size \in Nat
      /\ sentsize = 0 /\ rxOut = Sn_RX_RD
  BY <1>1, StreamType, UdpAssumption DEF TypeOK, RecvInv, SendtoInv
<1>4. /\ PackLen \in 0 .. size /\ PackLen <= sock_remained_size
      /\ sock_remained_size <= size => PackLen = sock_remained_size
  BY <1>3 DEF PackLen, Least
<1>5. Sn_RX_RD + sock_remained_size = End(d) /\ End(d) <= Sn_RX_WR /\ Sn_RX_WR \in Nat
  BY <1>2, StreamType DEF Reading, StreamInv
<1>6. Came' = Came /\ Sn_RX_WR' = Sn_RX_WR /\ StreamInv' BY <1>1, StreamKept
<1>7. Sn_RX_RD' \in rxOut .. Sn_RX_WR /\ buf' \in 0 .. Sn_RX_WR BY <1>1, <1>3, <1>4, <1>5
<1>8. TypeOK' BY <1>1, <1>3, <1>4, <1>6, <1>7 DEF TypeOK
<1>9. RecvInv'
  <2>1. Reading(d, buf, sock_remained_size)' BY <1>1, <1>2 DEF Reading
  <2> QED BY <1>1, <1>2, <1>3, <1>4, <1>6, <2>1 DEF RecvInv, Whole
<1>10. RestInv' /\ SendtoInv' /\ ChipInv' BY <1>1 DEF RestInv, SendtoInv, ChipInv, Sending
<1> QED BY <1>6, <1>8, <1>9, <1>10

LEMMA DataTakenStep ==
  ASSUME IInv, DataTaken
  PROVE  IInv'
<1> USE DEF IInv
<1>1. /\ pc = "dataRECV" /\ rxOut' = Sn_RX_RD /\ sock_remained_size' = Remains
      /\ UNCHANGED <<arrived, used, sending, Sn_IR, Sn_RX_RD, dest, buf>>
  BY DEF DataTaken, Return
<1>2. \/ len = 0 /\ pc' = "idle" /\ size' = 0 /\ sentsize' = 0 /\ len' = 0
      \/ len # 0 /\ pc' = "sendto" /\ size' = len /\ sentsize' = 0 /\ len' = 0
  BY DEF DataTaken, Return
<1>3. PICK d \in Came : /\ Reading(d, buf, sock_remained_size) /\ buf + len = Sn_RX_RD
                        /\ Whole(d) => d.from = dest /\ len = sock_remained_size
  BY <1>1 DEF RecvInv
<1>4. /\ Sn_RX_RD \in Nat /\ len \in Nat /\ len <= DATA_BUF_SIZE /\ buf \in Nat
      /\ sock_remained_size \in Nat /\ len <= sock_remained_size /\ sock_remained_size <= PackMAX
  BY <1>1, StreamType, UdpAssumption DEF TypeOK, RecvInv
<1>5. Came' = Came /\ Sn_RX_WR' = Sn_RX_WR /\ StreamInv' /\ Sn_RX_WR \in Nat
  BY <1>1, StreamKept, StreamType
<1>6. /\ Sn_RX_RD' + sock_remained_size' = End(d) /\ d.pos + HEADER <= Sn_RX_RD'
      /\ sock_remained_size' \in 0 .. PackMAX /\ d.pos \in Nat /\ HEADER = 8
      /\ End(d) \in Nat /\ d.pos + HEADER <= buf /\ buf + len <= End(d)
      /\ Whole(d) => sock_remained_size' = 0
  BY <1>1, <1>3, <1>4, StreamType, UdpAssumption DEF Reading, Remains
<1>7. TypeOK' BY <1>1, <1>2, <1>4, <1>5, <1>6, UdpAssumption DEF TypeOK
<1>8. RestInv'
  <2>1. sock_remained_size' = 0 => Boundary(Sn_RX_RD')
    BY <1>1, <1>4, <1>6 DEF StreamInv
  <2>2. sock_remained_size' = 0 => Boundary(Sn_RX_RD)' BY <2>1, <1>5 DEF Boundary
  <2>3. Reading(d, Sn_RX_RD, sock_remained_size)' BY <1>6 DEF Reading
  <2> QED BY <1>5, <1>6, <2>2, <2>3 DEF RestInv, Whole
<1>9. SendtoInv' BY <1>1, <1>2, <1>3, <1>4, <1>5, <1>6 DEF SendtoInv, Whole, Sending
<1>10. RecvInv' BY <1>1, <1>2 DEF RecvInv
<1>11. ChipInv' BY <1>1, <1>2 DEF ChipInv
<1> QED BY <1>5, <1>7, <1>8, <1>9, <1>10, <1>11

\* A step of sendto that keeps the bytes to be sent, or returns.
LEMMA InSendto ==
  ASSUME IInv, pc \in Sending, pc' \in Sending \cup {"idle"},
         UNCHANGED <<arrived, rxOut, Sn_RX_RD, sock_remained_size, dest, buf>>,
         pc' \in Sending => size' = size
  PROVE  /\ Came' = Came /\ Sn_RX_WR' = Sn_RX_WR
         /\ StreamInv' /\ RestInv' /\ RecvInv'
         /\ pc' \in Sending => buf' + size' = Sn_RX_RD'
         /\ pc' \in Sending =>
              \E d \in Came' : /\ d.pos + HEADER <= buf' /\ buf' + size' <= End(d)
                               /\ Whole(d) => d.from = dest'
<1>1. Came' = Came /\ Sn_RX_WR' = Sn_RX_WR /\ StreamInv' BY StreamKept DEF IInv
<1>2. RestInv' BY <1>1 DEF IInv, RestInv, Boundary, Reading, Whole
<1>3. RecvInv' BY <1>1 DEF IInv, RecvInv, Sending
<1>4. pc' \in Sending =>
        \E d \in Came' : /\ d.pos + HEADER <= buf' /\ buf' + size' <= End(d)
                         /\ Whole(d) => d.from = dest'
  BY <1>1 DEF IInv, SendtoInv, Whole
<1>5. pc' \in Sending => buf' + size' = Sn_RX_RD' BY DEF IInv, SendtoInv
<1> QED BY <1>1, <1>2, <1>3, <1>4, <1>5

LEMMA SendtoStep ==
  ASSUME IInv, Sendto
  PROVE  IInv'
<1>1. /\ pc = "sendto" /\ pc \in Sending /\ pc' \in Sending \cup {"idle"}
      /\ UNCHANGED <<arrived, rxOut, Sn_RX_RD, sock_remained_size, dest, buf, used, sending,
                    Sn_IR>>
      /\ pc' \in Sending => size' = size
  BY DEF Sendto, Return, chip, Sending
<1>2. \/ pc' = "idle" /\ size' = 0 /\ sentsize' = 0 /\ len' = 0
      \/ /\ pc' = "room" /\ UNCHANGED <<size, sentsize>>
         /\ len' = Least(size - sentsize, TxMAX) /\ dest \notin Portless
  BY DEF Sendto, Return
<1>3. /\ Came' = Came /\ Sn_RX_WR' = Sn_RX_WR
      /\ StreamInv' /\ RestInv' /\ RecvInv'
      /\ pc' \in Sending => buf' + size' = Sn_RX_RD'
      /\ pc' \in Sending =>
           \E d \in Came' : /\ d.pos + HEADER <= buf' /\ buf' + size' <= End(d)
                            /\ Whole(d) => d.from = dest'
  BY <1>1, InSendto
<1>4. sentsize < size /\ size \in Nat /\ sentsize \in Nat
  BY <1>1, UdpAssumption DEF IInv, SendtoInv, TypeOK
<1>5. pc' = "room" => len' \in 1 .. size' - sentsize' /\ len' <= TxMAX /\ len' \in 0 .. size'
  BY <1>2, <1>4, UdpAssumption DEF Least
<1>6. TypeOK' BY <1>1, <1>2, <1>3, <1>5, UdpAssumption DEF IInv, TypeOK
<1>7. SendtoInv' BY <1>1, <1>2, <1>3, <1>4, <1>5 DEF SendtoInv, Sending
<1>8. ChipInv' BY <1>1, <1>2 DEF IInv, ChipInv
<1> QED BY <1>3, <1>6, <1>7, <1>8 DEF IInv

LEMMA WaitForRoomStep ==
  ASSUME IInv, WaitForRoom
  PROVE  IInv'
<1>1. /\ pc = "room" /\ pc \in Sending /\ pc' \in {"SEND", "room"}
      /\ pc' \in Sending \cup {"idle"} /\ pc' \in Sending
      /\ UNCHANGED <<arrived, rxOut, Sn_RX_RD, sock_remained_size, dest, buf, size, sentsize,
                    len, used, sending, Sn_IR>>
  BY DEF WaitForRoom, chip, locals, Sending
<1>2. /\ Came' = Came /\ Sn_RX_WR' = Sn_RX_WR
      /\ StreamInv' /\ RestInv' /\ RecvInv' /\ buf' + size' = Sn_RX_RD'
      /\ \E d \in Came' : /\ d.pos + HEADER <= buf' /\ buf' + size' <= End(d)
                          /\ Whole(d) => d.from = dest'
  BY <1>1, InSendto
<1>3. TypeOK' BY <1>1, <1>2 DEF IInv, TypeOK
<1>4. SendtoInv' BY <1>1, <1>2 DEF IInv, SendtoInv, Sending
<1>5. ChipInv' BY <1>1 DEF IInv, ChipInv
<1> QED BY <1>2, <1>3, <1>4, <1>5 DEF IInv

\* The bytes given to SEND are within a datagram.
LEMMA SendInDatagram ==
  ASSUME IInv, pc = "SEND"
  PROVE  \E d \in Came : /\ d.pos + HEADER <= buf + sentsize /\ buf + sentsize + len <= End(d)
                         /\ d.pos < buf + sentsize /\ buf + sentsize < End(d)
                         /\ Whole(d) => d.from = dest
<1>1. PICK d \in Came : /\ d.pos + HEADER <= buf /\ buf + size <= End(d)
                        /\ Whole(d) => d.from = dest
  BY DEF IInv, SendtoInv, Sending
<1>2. len \in 1 .. size - sentsize /\ sentsize \in Nat /\ size \in Nat /\ buf \in Nat
  BY StreamType, UdpAssumption DEF IInv, SendtoInv, TypeOK
<1>3. d.pos \in Nat /\ End(d) \in Nat /\ HEADER = 8 BY StreamType DEF IInv
<1> QED BY <1>1, <1>2, <1>3

LEMMA SendStep ==
  ASSUME IInv, Send
  PROVE  IInv'
<1>1. /\ pc = "SEND" /\ pc \in Sending /\ pc' = "sendIR"
      /\ pc' \in Sending \cup {"idle"} /\ pc' \in Sending
      /\ used' = used + len /\ sending' = TRUE
      /\ UNCHANGED <<arrived, rxOut, Sn_RX_RD, sock_remained_size, dest, buf, size, sentsize,
                    len, Sn_IR>>
  BY DEF Send, locals, Sending
<1>2. /\ Came' = Came /\ Sn_RX_WR' = Sn_RX_WR
      /\ StreamInv' /\ RestInv' /\ RecvInv' /\ buf' + size' = Sn_RX_RD'
      /\ \E d \in Came' : /\ d.pos + HEADER <= buf' /\ buf' + size' <= End(d)
                          /\ Whole(d) => d.from = dest'
  BY <1>1, InSendto
<1>3. used = 0 /\ Sn_IR = {} /\ len \in Nat /\ len <= TxMAX
  BY <1>1, UdpAssumption DEF IInv, ChipInv, SendtoInv, TypeOK
<1>4. TypeOK' BY <1>1, <1>2, <1>3, UdpAssumption DEF IInv, TypeOK
<1>5. SendtoInv' BY <1>1, <1>2 DEF IInv, SendtoInv, Sending
<1>6. ChipInv' BY <1>1, <1>3 DEF ChipInv
<1> QED BY <1>2, <1>4, <1>5, <1>6 DEF IInv

LEMMA InterruptsStep ==
  ASSUME IInv, SendtoReadsInterrupts
  PROVE  IInv'
<1>1. /\ pc = "sendIR" /\ pc \in Sending /\ pc' \in {"sendto", "idle"}
      /\ pc' \in Sending \cup {"idle"} /\ Sn_IR # {} /\ Sn_IR' \subseteq Sn_IR
      /\ UNCHANGED <<arrived, rxOut, Sn_RX_RD, sock_remained_size, dest, buf, used, sending>>
      /\ pc' \in Sending => size' = size
  BY DEF SendtoReadsInterrupts, Return, Gone, Sending, Cleared
<1>2. \/ pc' = "idle" /\ size' = 0 /\ sentsize' = 0 /\ len' = 0
      \/ /\ pc' = "sendto" /\ size' = size /\ sentsize + len # size
         /\ sentsize' = sentsize + len /\ len' = 0
  BY DEF SendtoReadsInterrupts, Return, Gone
<1>3. /\ Came' = Came /\ Sn_RX_WR' = Sn_RX_WR
      /\ StreamInv' /\ RestInv' /\ RecvInv'
      /\ pc' \in Sending => buf' + size' = Sn_RX_RD'
      /\ pc' \in Sending =>
           \E d \in Came' : /\ d.pos + HEADER <= buf' /\ buf' + size' <= End(d)
                            /\ Whole(d) => d.from = dest'
  BY <1>1, InSendto
<1>4. /\ len \in 1 .. size - sentsize /\ size \in Nat /\ sentsize \in Nat
      /\ ~sending /\ used = 0 /\ Sn_IR \in {{"SENDOK"}, {"TIMEOUT"}}
  <2>1. ~sending /\ used = 0 /\ Sn_IR \in {{"SENDOK"}, {"TIMEOUT"}}
    BY <1>1 DEF IInv, ChipInv
  <2>2. len \in 1 .. size - sentsize /\ size \in Nat /\ sentsize \in Nat
    BY <1>1, UdpAssumption DEF IInv, SendtoInv, TypeOK
  <2> QED BY <2>1, <2>2
<1>5. pc' = "sendto" => sentsize' \in 0 .. size' /\ sentsize' < size' BY <1>2, <1>4
<1>6. TypeOK' BY <1>1, <1>2, <1>3, <1>5, UdpAssumption DEF IInv, TypeOK
<1>7. SendtoInv' BY <1>2, <1>3, <1>5 DEF SendtoInv, Sending
<1>8. Sn_IR' = {} BY <1>1, <1>4 DEF SendtoReadsInterrupts, Cleared
<1>9. ChipInv' BY <1>1, <1>4, <1>8 DEF ChipInv
<1> QED BY <1>3, <1>6, <1>7, <1>9 DEF IInv

-----------------------------------------------------------------------------
(* The chip and the peers. *)

LEMMA ReceiveStep ==
  ASSUME IInv, Receive
  PROVE  IInv'
<1> USE DEF IInv
<1>1. PICK p \in Peers, n \in 0 .. PackMAX :
        arrived' = Append(arrived, [from |-> p, len |-> n, pos |-> Sn_RX_WR])
  BY DEF Receive
<1>2. UNCHANGED <<rxOut, used, sending, Sn_IR, Sn_RX_RD, sock_remained_size, pc, dest, size,
                  sentsize, buf, len>>
  BY DEF Receive, locals
<1>0. PICK r : r = [from |-> p, len |-> n, pos |-> Sn_RX_WR] OBVIOUS
<1>3. /\ r \in Datagram /\ r.pos = Sn_RX_WR /\ r.len = n
      /\ arrived' \in Seq(Datagram) /\ Came' = Came \cup {r}
      /\ Sn_RX_WR' = Sn_RX_WR + 8 + n
  BY <1>0, <1>1, StreamGrows
<1>4. Sn_RX_WR \in Nat /\ Sn_RX_WR' \in Nat /\ Sn_RX_WR <= Sn_RX_WR' /\ Sn_RX_WR < Sn_RX_WR'
  BY <1>3, StreamType, UdpAssumption
<1>5. TypeOK' BY <1>2, <1>3, <1>4 DEF TypeOK
<1>6. ASSUME NEW q, Boundary(q) PROVE Boundary(q)' BY <1>6, <1>3 DEF Boundary
<1>7. StreamInv'
  <2>1. End(r) = Sn_RX_WR' BY <1>3, <1>4, UdpAssumption DEF End, HEADER
  <2>2. \A d \in Came : End(d) \in Nat BY StreamType
  <2>3. ASSUME NEW d \in Came PROVE End(d) <= Sn_RX_WR' /\ Boundary(End(d))'
    <3>1. End(d) <= Sn_RX_WR /\ Boundary(End(d)) BY DEF StreamInv
    <3>2. End(d) <= Sn_RX_WR' BY <3>1, <2>2, <1>4
    <3>3. Boundary(End(d))' BY <3>1, <1>3 DEF Boundary
    <3> QED BY <3>2, <3>3
  <2>4. End(r) <= Sn_RX_WR' /\ Boundary(End(r))' BY <1>4, <2>1 DEF Boundary
  <2>5. \A d \in Came' : End(d)' <= Sn_RX_WR' /\ Boundary(End(d))'
    BY <1>3, <2>3, <2>4 DEF End
  <2> QED BY <2>5 DEF StreamInv
<1>8. RestInv'
  <2>1. sock_remained_size = 0 /\ Boundary(Sn_RX_RD) => Boundary(Sn_RX_RD)'
    BY <1>2, <1>3 DEF Boundary
  <2>2. (\E d \in Came : Reading(d, Sn_RX_RD, sock_remained_size) /\ ~Whole(d))
          => (\E d \in Came : Reading(d, Sn_RX_RD, sock_remained_size) /\ ~Whole(d))'
    BY <1>2, <1>3 DEF Reading, Whole
  <2> QED BY <1>2, <2>1, <2>2 DEF RestInv, Whole
<1>9. RecvInv'
  <2>1. CASE pc = "header"
    <3>1. /\ sock_remained_size = 0 /\ Boundary(Sn_RX_RD) /\ Sn_RX_RD < Sn_RX_WR
          /\ \A d \in Came : d.pos = Sn_RX_RD => size >= HEADER + d.len \/ size = DATA_BUF_SIZE
          /\ rxOut = Sn_RX_RD
      BY <2>1 DEF RecvInv
    <3>2. Sn_RX_RD \in Nat BY <1>4 DEF TypeOK
    <3>3. Boundary(Sn_RX_RD)' BY <1>2, <1>3, <3>1 DEF Boundary
    <3>4. Sn_RX_RD < Sn_RX_WR' /\ r.pos # Sn_RX_RD BY <1>3, <1>4, <3>1, <3>2
    <3> QED BY <1>2, <1>3, <2>1, <3>1, <3>3, <3>4 DEF RecvInv
  <2>2. CASE pc # "header"
    BY <1>2, <1>3, <2>2 DEF RecvInv, Reading, Whole
  <2> QED BY <2>1, <2>2
<1>10. SendtoInv' BY <1>2, <1>3 DEF SendtoInv, Whole
<1>11. ChipInv' BY <1>2 DEF ChipInv
<1> QED BY <1>5, <1>7, <1>8, <1>9, <1>10, <1>11

LEMMA SendEndsStep ==
  ASSUME IInv, SendEnds
  PROVE  IInv'
<1>1. /\ sending /\ sending' = FALSE /\ used' = 0
      /\ UNCHANGED <<arrived, rxOut, Sn_RX_RD, sock_remained_size, pc, dest, size, sentsize, buf,
                    len>>
  BY DEF SendEnds, locals
<1>2. PICK i \in {"SENDOK", "TIMEOUT"} : Sn_IR' = Sn_IR \cup {i} BY DEF SendEnds
<1>3. pc = "sendIR" /\ pc \in Sending /\ Sn_IR = {} BY <1>1 DEF IInv, ChipInv, Sending
<1>4. Sn_IR' \in {{"SENDOK"}, {"TIMEOUT"}} BY <1>2, <1>3
<1>5. /\ Came' = Came /\ Sn_RX_WR' = Sn_RX_WR
      /\ StreamInv' /\ RestInv' /\ RecvInv' /\ buf' + size' = Sn_RX_RD'
      /\ \E d \in Came' : /\ d.pos + HEADER <= buf' /\ buf' + size' <= End(d)
                          /\ Whole(d) => d.from = dest'
  BY <1>1, <1>3, InSendto
<1>6. TypeOK'
  <2>1. TypeOK BY DEF IInv
  <2>2. 0 \in 0 .. TxMAX /\ FALSE \in BOOLEAN /\ Sn_IR' \subseteq {"SENDOK", "TIMEOUT"}
    BY <1>4, UdpAssumption
  <2> QED BY <1>1, <1>5, <2>1, <2>2 DEF TypeOK
<1>7. SendtoInv' BY <1>1, <1>3, <1>5 DEF IInv, SendtoInv
<1>8. ChipInv' BY <1>1, <1>3, <1>4 DEF ChipInv
<1> QED BY <1>5, <1>6, <1>7, <1>8 DEF IInv

-----------------------------------------------------------------------------
(* The theorems. *)

LEMMA InitIInv == Init => IInv
<1> SUFFICES ASSUME Init PROVE IInv
  OBVIOUS
<1>1. Came = {} /\ Sn_RX_WR = 0 BY DEF Init, Came, Sn_RX_WR
<1>2. TypeOK
  <2>1. <<>> \in Seq(Datagram) OBVIOUS
  <2>2. /\ 0 \in 0 .. TxMAX /\ 0 \in 0 .. PackMAX /\ 0 \in 0 .. DATA_BUF_SIZE /\ 0 \in 0 .. 0
        /\ {} \subseteq {"SENDOK", "TIMEOUT"}
    BY UdpAssumption
  <2> QED BY <1>1, <2>1, <2>2 DEF Init, TypeOK
<1>3. StreamInv BY <1>1 DEF StreamInv
<1>4. RestInv BY <1>1 DEF Init, RestInv, Boundary
<1>5. RecvInv /\ SendtoInv /\ ChipInv BY DEF Init, RecvInv, SendtoInv, ChipInv, Sending
<1> QED BY <1>2, <1>3, <1>4, <1>5 DEF IInv

LEMMA NextIInv == IInv /\ [Next]_vars => IInv'
<1> SUFFICES ASSUME IInv, [Next]_vars PROVE IInv'
  OBVIOUS
<1>1. CASE loopback_udps BY <1>1, LoopbackStep
<1>2. CASE ReadHeader BY <1>2, ReadHeaderStep
<1>3. CASE HeaderTaken BY <1>3, HeaderTakenStep
<1>4. CASE ReadData BY <1>4, ReadDataStep
<1>5. CASE DataTaken BY <1>5, DataTakenStep
<1>6. CASE Sendto BY <1>6, SendtoStep
<1>7. CASE WaitForRoom BY <1>7, WaitForRoomStep
<1>8. CASE Send BY <1>8, SendStep
<1>9. CASE SendtoReadsInterrupts BY <1>9, InterruptsStep
<1>10. CASE Receive BY <1>10, ReceiveStep
<1>11. CASE SendEnds BY <1>11, SendEndsStep
<1>12. CASE UNCHANGED vars BY <1>12, StutterStep
<1> QED
  BY <1>1, <1>2, <1>3, <1>4, <1>5, <1>6, <1>7, <1>8, <1>9, <1>10, <1>11, <1>12 DEF Next, Driver

\* The invariant holds in every behaviour.
THEOREM Invariance == Spec => []IInv
BY InitIInv, NextIInv, PTL DEF Spec

\* Pointers stay within the stream and sizes within the buffers they are for.
THEOREM TypeCorrect == Spec => []TypeOK
<1>1. IInv => TypeOK BY DEF IInv
<1> QED BY <1>1, Invariance, PTL

\* The driver never takes bytes of a datagram for a header, however it divides them.
THEOREM HeadersFound == Spec => []HeadersAreHeaders
<1>1. IInv => HeadersAreHeaders
  <2> SUFFICES ASSUME IInv, pc = "header" PROVE \E d \in Came : d.pos = Sn_RX_RD
    BY DEF HeadersAreHeaders
  <2>1. Boundary(Sn_RX_RD) /\ Sn_RX_RD < Sn_RX_WR BY DEF IInv, RecvInv
  <2>2. Sn_RX_WR \in Nat BY StreamType DEF IInv
  <2> QED BY <2>1, <2>2 DEF Boundary
<1> QED BY <1>1, Invariance, PTL

\* What is sent back are bytes of one datagram.
THEOREM PayloadsOnly == Spec => []RepliesArePayload
<1>1. IInv => RepliesArePayload BY SendInDatagram DEF RepliesArePayload
<1> QED BY <1>1, Invariance, PTL

\* They go to the one who sent it, if the buffer takes the whole datagram.
THEOREM SentToSender == Spec => []ReplyToSender
<1>1. IInv => ReplyToSender BY SendInDatagram DEF ReplyToSender, Whole
<1> QED BY <1>1, Invariance, PTL

\* Each wait of sendto is for its own SEND.
THEOREM SendsAreOwn == Spec => []SendWaitsForOwn
<1>1. IInv => SendWaitsForOwn BY DEF IInv, ChipInv, SendWaitsForOwn
<1> QED BY <1>1, Invariance, PTL


-----------------------------------------------------------------------------
(* The refinement. *)

\* A datagram that came is one of the sequence.
LEMMA CameAt == ASSUME NEW d \in Came PROVE \E i \in DOMAIN arrived : arrived[i] = d
BY DEF Came

\* One way to see the place of a datagram that came in the abstract specification.
LEMMA SameEnd == ASSUME NEW d PROVE Echo!End(d) = End(d)
BY DEF Echo!End, End

\* An answer is given only where nothing is being sent.
LEMMA SendIsAnswer ==
  ASSUME IInv, Send
  PROVE  Echo!Answer
<1>1. pc = "SEND" /\ pc' = "sendIR" /\ UNCHANGED <<arrived, dest, buf, size, sentsize, len>>
  BY DEF Send, locals
<1>2. PICK d \in Came : /\ d.pos + HEADER <= buf + sentsize /\ buf + sentsize + len <= End(d)
                        /\ Whole(d) => d.from = dest
  BY <1>1, SendInDatagram
<1>3. PICK i \in DOMAIN arrived : arrived[i] = d BY CameAt
<1>4. dest \in Peers \ Portless /\ len \in Nat /\ len >= 1 /\ buf \in Nat /\ sentsize \in Nat
  BY <1>1, StreamType, UdpAssumption DEF IInv, TypeOK, SendtoInv
<1>5. d.pos \in Nat /\ d.len \in Nat /\ HEADER = 8 /\ End(d) = d.pos + 8 + d.len
  BY StreamType, UdpAssumption DEF IInv
<1>6. len \in 1 .. arrived[i].len BY <1>2, <1>3, <1>4, <1>5
<1>7. Handled = buf + sentsize /\ Handled' = Handled + len /\ Part = <<>>
  BY <1>1 DEF Handled, Part
<1>8. Part' = <<dest, Handled, len>> BY <1>1, <1>7 DEF Part
<1>9. /\ arrived[i].pos + HEADER <= Handled /\ Handled + len <= Echo!End(arrived[i])
      /\ arrived[i].len <= DATA_BUF_SIZE => dest = arrived[i].from
  BY <1>2, <1>3, <1>7, SameEnd DEF Whole
<1> QED BY <1>1, <1>4, <1>6, <1>7, <1>8, <1>9 DEF Echo!Answer, Echo!None

\* Whatever a return of loopback_udps leaves out is the rest of one datagram.
LEMMA ReturnGivesUp ==
  ASSUME IInv, pc \in {"sendto", "sendIR"}, pc' = "idle", UNCHANGED <<arrived, Sn_RX_RD>>
  PROVE  Echo!Done \/ Echo!GiveUp
<1>1. PICK d \in Came : d.pos + HEADER <= buf /\ buf + size <= End(d)
  BY DEF IInv, SendtoInv, Sending
<1>2. PICK i \in DOMAIN arrived : arrived[i] = d BY CameAt
<1>3. /\ buf + size = Sn_RX_RD /\ sentsize < size
      /\ pc = "sendIR" => len \in 1 .. size - sentsize
  BY DEF IInv, SendtoInv, Sending
<1>4. buf \in Nat /\ size \in Nat /\ sentsize \in Nat
  BY StreamType, UdpAssumption DEF IInv, TypeOK
<1>5. d.pos \in Nat /\ HEADER = 8 /\ End(d) \in Nat BY StreamType DEF IInv
<1>6. Handled = IF pc = "sendIR" THEN buf + sentsize + len ELSE buf + sentsize
  BY DEF Handled
<1>7. Handled' = Sn_RX_RD /\ Part' = <<>> BY DEF Handled, Part
<1>8. d.pos + HEADER <= Handled /\ Handled <= Handled' /\ Handled' <= End(d)
  BY <1>1, <1>3, <1>4, <1>5, <1>6, <1>7
<1>9. Handled \in Nat /\ Handled' \in Nat BY <1>3, <1>4, <1>6, <1>7
<1>10. CASE Handled = Handled' BY <1>7, <1>10 DEF Echo!Done, Echo!None
<1>11. CASE Handled # Handled'
  BY <1>2, <1>7, <1>8, <1>9, <1>11, SameEnd DEF Echo!GiveUp, Echo!None
<1> QED BY <1>10, <1>11

\* Each step of the driver, the chip or a peer is one of the abstract specification, or
\* none.
LEMMA EchoStep ==
  ASSUME IInv, [Next]_vars
  PROVE  [Echo!Next]_<<arrived, Handled, Part>>
<1> USE DEF IInv
<1>0. CASE UNCHANGED vars BY <1>0 DEF vars, chip, locals, Handled, Part
<1>1. CASE loopback_udps
  <2>1. pc = "idle" /\ pc' \in {"idle", "header", "data"} /\ UNCHANGED <<arrived, Sn_RX_RD>>
    BY <1>1 DEF loopback_udps, chip
  <2> QED BY <2>1 DEF Handled, Part
<1>2. CASE ReadHeader
  <2>1. pc = "header" /\ pc' = "headerRECV" /\ Sn_RX_RD' = Sn_RX_RD + HEADER
        /\ arrived' = arrived
    BY <1>2 DEF ReadHeader, chip
  <2>2. Boundary(Sn_RX_RD) /\ Sn_RX_RD < Sn_RX_WR BY <2>1 DEF RecvInv
  <2>3. PICK d \in Came : d.pos = Sn_RX_RD BY <2>2, StreamType DEF Boundary
  <2>4. \E i \in DOMAIN arrived : arrived[i].pos = Sn_RX_RD BY <2>3, CameAt
  <2>5. Handled = Sn_RX_RD /\ Handled' = Handled + HEADER /\ Part' = Part
    BY <2>1 DEF Handled, Part
  <2> QED BY <2>1, <2>4, <2>5 DEF Echo!Next, Echo!Begin
<1>3. CASE HeaderTaken BY <1>3 DEF HeaderTaken, Handled, Part
<1>4. CASE ReadData BY <1>4 DEF ReadData, chip, Handled, Part
<1>5. CASE DataTaken
  <2>1. /\ pc = "dataRECV" /\ UNCHANGED <<arrived, Sn_RX_RD, buf>>
        /\ \/ len = 0 /\ pc' = "idle"
           \/ pc' = "sendto" /\ sentsize' = 0
    BY <1>5 DEF DataTaken, Return
  <2>2. buf + len = Sn_RX_RD /\ buf \in Nat BY <2>1, StreamType DEF RecvInv, TypeOK
  <2>3. Handled' = Handled /\ Part' = Part BY <2>1, <2>2 DEF Handled, Part
  <2> QED BY <2>1, <2>3
<1>6. CASE Sendto
  <2>1. /\ pc = "sendto" /\ UNCHANGED <<arrived, Sn_RX_RD, buf>>
        /\ pc' = "idle" \/ (pc' = "room" /\ sentsize' = sentsize)
    BY <1>6 DEF Sendto, Return, chip
  <2>2. CASE pc' = "idle" BY <2>1, <2>2, ReturnGivesUp DEF Echo!Next
  <2>3. CASE pc' # "idle" BY <2>1, <2>3 DEF Handled, Part
  <2> QED BY <2>2, <2>3
<1>7. CASE WaitForRoom BY <1>7 DEF WaitForRoom, chip, locals, Handled, Part
<1>8. CASE Send BY <1>8, SendIsAnswer DEF Echo!Next
<1>9. CASE SendtoReadsInterrupts
  <2>1. /\ pc = "sendIR" /\ UNCHANGED <<arrived, Sn_RX_RD, buf>>
        /\ pc' = "idle" \/ (pc' = "sendto" /\ sentsize' = sentsize + len)
    BY <1>9 DEF SendtoReadsInterrupts, Return, Gone
  <2>2. CASE pc' = "idle" BY <2>1, <2>2, ReturnGivesUp DEF Echo!Next
  <2>3. CASE pc' # "idle"
    <3>1. buf \in Nat /\ sentsize \in Nat /\ len \in Nat
      BY StreamType, UdpAssumption DEF TypeOK
    <3>2. Handled' = Handled /\ Part' = <<>> BY <2>1, <2>3, <3>1 DEF Handled, Part
    <3> QED BY <2>1, <3>2 DEF Echo!Next, Echo!Done, Echo!None
  <2> QED BY <2>2, <2>3
<1>10. CASE Receive
  <2>1. Echo!Front = Sn_RX_WR BY SameEnd DEF Echo!Front, Sn_RX_WR
  <2>2. UNCHANGED <<pc, Sn_RX_RD, dest, buf, sentsize, len>> BY <1>10 DEF Receive, locals
  <2>3. Handled' = Handled /\ Part' = Part BY <2>2 DEF Handled, Part
  <2> QED BY <1>10, <2>1, <2>3 DEF Receive, Echo!Next, Echo!Come
<1>11. CASE SendEnds BY <1>11 DEF SendEnds, locals, Handled, Part
<1> QED
  BY <1>0, <1>1, <1>2, <1>3, <1>4, <1>5, <1>6, <1>7, <1>8, <1>9, <1>10, <1>11 DEF Next, Driver

\* Datagrams are answered in the order they came, in parts that are in order and have
\* each byte at most once, however the buffers divide them.
THEOREM EchoesDatagrams == Spec => ImplementsEcho
<1>1. Init => Echo!Init BY DEF Init, Echo!Init, Echo!None, Handled, Part
<1> QED BY <1>1, EchoStep, Invariance, PTL DEF Spec, ImplementsEcho, Echo!Spec

-----------------------------------------------------------------------------
(* Why a call of loopback_udps returns.  DatagramsLeave and                *)
(* DatagramsAnswered rest on two facts about steps: each brings the return *)
(* nearer, and there is always one that can be taken.                      *)

InCall == {"header", "headerRECV", "data", "dataRECV"} \cup Sending

\* Steps of the driver and the chip to the return of the call, at the most: five for
\* each byte that has yet to be sent, those of recvfrom before them.
StepsLeft ==
  CASE pc = "header"     -> 5 * DATA_BUF_SIZE + 4
    [] pc = "headerRECV" -> 5 * DATA_BUF_SIZE + 3
    [] pc = "data"       -> 5 * DATA_BUF_SIZE + 2
    [] pc = "dataRECV"   -> 5 * DATA_BUF_SIZE + 1
    [] pc = "sendto"     -> 5 * (size - sentsize)
    [] pc = "room"       -> 5 * (size - sentsize) - 1
    [] pc = "SEND"       -> 5 * (size - sentsize) - 2
    [] pc = "sendIR"     -> 5 * (size - sentsize) - IF sending THEN 3 ELSE 4
    [] OTHER             -> 0

\* Within a call each step is one of those that were left; datagrams that come meanwhile
\* do not make it longer.
CallIsShort ==
  [][{pc, pc'} \subseteq InCall =>
       StepsLeft \in Nat /\ StepsLeft' <= StepsLeft
         /\ (arrived' = arrived => StepsLeft' < StepsLeft)]_vars

\* sendto never waits for room that cannot come, nor for an interrupt of no SEND.
WaitsForSomething ==
  /\ pc = "room" => HasRoom
  /\ pc = "sendIR" => sending \/ Sn_IR # {}

\* The loop for room passes at once, and the other one has its SEND.
THEOREM NoEmptyWait == Spec => []WaitsForSomething
<1>1. IInv => WaitsForSomething
  <2> SUFFICES ASSUME IInv, pc = "room" PROVE HasRoom
    BY DEF IInv, ChipInv, WaitsForSomething
  <2>1. used = 0 /\ len <= TxMAX BY DEF IInv, ChipInv, SendtoInv
  <2>2. len \in Nat BY UdpAssumption DEF IInv, TypeOK
  <2> QED BY <2>1, <2>2, UdpAssumption DEF HasRoom
<1> QED BY <1>1, Invariance, PTL

\* Steps left are a number.
LEMMA StepsType ==
  ASSUME IInv, pc \in InCall
  PROVE  StepsLeft \in Nat
<1>1. size \in Nat /\ sentsize \in Nat /\ DATA_BUF_SIZE \in Nat
  BY UdpAssumption DEF IInv, TypeOK
<1>2. pc \in Sending => sentsize < size BY DEF IInv, SendtoInv
<1> QED BY <1>1, <1>2 DEF StepsLeft, InCall, Sending

\* Each step of a call is one of those that were left.
THEOREM CallsShort == Spec => CallIsShort
<1>1. IInv /\ IInv' /\ [Next]_vars =>
        [{pc, pc'} \subseteq InCall =>
           StepsLeft \in Nat /\ StepsLeft' <= StepsLeft
             /\ (arrived' = arrived => StepsLeft' < StepsLeft)]_vars
  <2> SUFFICES ASSUME IInv, IInv', Next, pc \in InCall, pc' \in InCall
               PROVE  /\ StepsLeft \in Nat /\ StepsLeft' <= StepsLeft
                      /\ arrived' = arrived => StepsLeft' < StepsLeft
    OBVIOUS
  <2>1. StepsLeft \in Nat BY StepsType
  <2>2. size \in Nat /\ sentsize \in Nat /\ len \in Nat /\ DATA_BUF_SIZE \in Nat
        /\ size <= DATA_BUF_SIZE /\ len <= size
    BY UdpAssumption DEF IInv, TypeOK
  <2>3. CASE ReadHeader \/ HeaderTaken \/ ReadData
    <3>1. \/ pc = "header" /\ pc' = "headerRECV"
          \/ pc = "headerRECV" /\ pc' = "data"
          \/ pc = "data" /\ pc' = "dataRECV"
      BY <2>3 DEF ReadHeader, HeaderTaken, ReadData
    <3> QED BY <2>1, <2>2, <3>1 DEF StepsLeft
  <2>4. CASE DataTaken
    <3>1. pc = "dataRECV" /\ pc' = "sendto" /\ size' = len /\ sentsize' = 0
      BY <2>4 DEF DataTaken, Return, InCall, Sending
    <3>2. StepsLeft = 5 * DATA_BUF_SIZE + 1 /\ StepsLeft' = 5 * len
      BY <2>2, <3>1 DEF StepsLeft
    <3> QED BY <2>1, <2>2, <3>2
  <2>5. CASE Sendto
    <3>1. pc = "sendto" /\ pc' = "room" /\ UNCHANGED <<size, sentsize>>
      BY <2>5 DEF Sendto, Return, InCall, Sending
    <3> QED BY <2>1, <2>2, <3>1 DEF StepsLeft
  <2>6. CASE WaitForRoom
    <3>1. used = 0 /\ len <= TxMAX /\ TxMAX \in Nat
      BY <2>6, UdpAssumption DEF WaitForRoom, IInv, ChipInv, SendtoInv
    <3>2. HasRoom BY <2>2, <3>1 DEF HasRoom
    <3>3. pc = "room" /\ pc' = "SEND" /\ UNCHANGED <<size, sentsize>>
      BY <2>6, <3>2 DEF WaitForRoom, locals
    <3> QED BY <2>1, <2>2, <3>3 DEF StepsLeft
  <2>7. CASE Send
    <3>1. pc = "SEND" /\ pc' = "sendIR" /\ sending' = TRUE /\ UNCHANGED <<size, sentsize>>
      BY <2>7 DEF Send, locals
    <3> QED BY <2>1, <2>2, <3>1 DEF StepsLeft
  <2>8. CASE SendtoReadsInterrupts
    <3>1. /\ pc = "sendIR" /\ pc' = "sendto" /\ size' = size /\ sentsize' = sentsize + len
      BY <2>8 DEF SendtoReadsInterrupts, Return, Gone, InCall, Sending
    <3>2. ~sending
      BY <2>8 DEF SendtoReadsInterrupts, IInv, ChipInv
    <3>3. len \in 1 .. size - sentsize BY <3>1 DEF IInv, SendtoInv
    <3>4. /\ StepsLeft = 5 * (size - sentsize) - 4
          /\ StepsLeft' = 5 * (size - (sentsize + len))
      BY <2>2, <3>1, <3>2 DEF StepsLeft
    <3> QED BY <2>1, <2>2, <3>3, <3>4
  <2>9. CASE SendEnds
    <3>1. sending /\ sending' = FALSE /\ UNCHANGED <<pc, size, sentsize>>
      BY <2>9 DEF SendEnds, locals
    <3>2. pc = "sendIR" BY <3>1 DEF IInv, ChipInv
    <3> QED BY <2>1, <2>2, <3>1, <3>2 DEF StepsLeft
  <2>10. CASE Receive
    <3>1. UNCHANGED <<pc, size, sentsize, sending>> /\ arrived' # arrived
      <4>1. UNCHANGED <<pc, size, sentsize, sending>> BY <2>10 DEF Receive, locals
      <4>2. PICK p \in Peers, n \in 0 .. PackMAX :
              arrived' = Append(arrived, [from |-> p, len |-> n, pos |-> Sn_RX_WR])
        BY <2>10 DEF Receive
      <4>3. Sn_RX_WR' = Sn_RX_WR + 8 + n BY <4>2, StreamGrows DEF IInv
      <4>4. Sn_RX_WR' # Sn_RX_WR BY <4>3, StreamType, UdpAssumption DEF IInv
      <4> QED BY <4>1, <4>4, StreamKept
    <3>2. StepsLeft' = StepsLeft BY <3>1 DEF StepsLeft
    <3> QED BY <2>1, <3>1, <3>2
  <2>11. CASE loopback_udps BY <2>11 DEF loopback_udps, InCall, Sending
  <2> QED
    BY <2>3, <2>4, <2>5, <2>6, <2>7, <2>8, <2>9, <2>10, <2>11 DEF Next, Driver
<1> QED BY <1>1, Invariance, PTL DEF Spec, CallIsShort
=============================================================================
