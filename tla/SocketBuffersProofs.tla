------------------------- MODULE SocketBuffersProofs -------------------------
(***************************************************************************)
(* Proofs about SocketBuffers for every size of a byte, of the buffers and *)
(* of loopback_tcps's buffer, and wherever the pointers start.             *)
(***************************************************************************)
EXTENDS SocketBuffers, TLAPS

-----------------------------------------------------------------------------
(* Facts about \div and % for every divisor, which the provers know of     *)
(* numbers only: what the proofs about sizes read in bytes and about rings *)
(* indexed by pointers that wrap rest on.                                  *)

\* Division leaves a quotient and a remainder,
LEMMA DivMod ==
  ASSUME NEW S \in Nat \ {0}, NEW x \in Int
  PROVE  /\ x \div S \in Int /\ x % S \in 0 .. S - 1
         /\ x = S * (x \div S) + (x % S)
OBVIOUS

\* and no other.
LEMMA Unique ==
  ASSUME NEW S \in Nat \ {0}, NEW p \in Int, NEW q \in Int,
         NEW r \in 0 .. S - 1, NEW t \in 0 .. S - 1,
         S * p + r = S * q + t
  PROVE  p = q /\ r = t
<1>1. CASE p < q
  <2>1. S * (q - p) >= S BY <1>1
  <2>2. S * (q - p) = S * q - S * p OBVIOUS
  <2> QED BY <2>1, <2>2
<1>2. CASE p > q
  <2>1. S * (p - q) >= S BY <1>2
  <2>2. S * (p - q) = S * p - S * q OBVIOUS
  <2> QED BY <2>1, <2>2
<1>3. CASE p = q BY <1>3
<1> QED BY <1>1, <1>2, <1>3

LEMMA ModOf ==
  ASSUME NEW S \in Nat \ {0}, NEW q \in Int, NEW r \in 0 .. S - 1
  PROVE  (S * q + r) \div S = q /\ (S * q + r) % S = r
<1> DEFINE x == S * q + r
<1>1. x \in Int OBVIOUS
<1>2. x \div S \in Int /\ x % S \in 0 .. S - 1 /\ S * (x \div S) + (x % S) = S * q + r
  BY <1>1, DivMod
<1> HIDE DEF x
<1>3. x \div S = q /\ x % S = r BY <1>2, Unique
<1> QED BY <1>3 DEF x

LEMMA ModSmall ==
  ASSUME NEW S \in Nat \ {0}, NEW r \in 0 .. S - 1
  PROVE  r % S = r
<1>1. S * 0 + r = r OBVIOUS
<1> QED BY <1>1, ModOf

\* Division keeps the order.
LEMMA DivMonotone ==
  ASSUME NEW S \in Nat \ {0}, NEW x \in Nat, NEW y \in Nat, x <= y
  PROVE  x \div S \in Nat /\ x \div S <= y \div S
<1> DEFINE p == x \div S  q == y \div S  r == x % S  t == y % S
<1>1. p \in Int /\ r \in 0 .. S - 1 /\ x = S * p + r BY DivMod
<1>2. q \in Int /\ t \in 0 .. S - 1 /\ y = S * q + t BY DivMod
<1> HIDE DEF p, q, r, t
<1>3. p >= 0
  <2>1. SUFFICES ASSUME p < 0 PROVE FALSE BY <1>1
  <2>2. S * (-1 - p) >= 0 BY <2>1, <1>1
  <2>3. S * (-1 - p) = -S - S * p BY <1>1
  <2> QED BY <2>2, <2>3, <1>1
<1>4. p <= q
  <2>1. SUFFICES ASSUME p > q PROVE FALSE BY <1>1, <1>2
  <2>2. S * (p - q) >= S BY <2>1, <1>1, <1>2
  <2>3. S * (p - q) = S * p - S * q BY <1>1, <1>2
  <2> QED BY <2>2, <2>3, <1>1, <1>2
<1> QED BY <1>1, <1>3, <1>4 DEF p, q

\* Numbers that differ by a multiple of S have the same remainder,
LEMMA ModShift ==
  ASSUME NEW S \in Nat \ {0}, NEW x \in Int, NEW k \in Int
  PROVE  (x + S * k) % S = x % S
<1> DEFINE q == x \div S  r == x % S
<1>1. q \in Int /\ r \in 0 .. S - 1 /\ x = S * q + r BY DivMod
<1> HIDE DEF q, r
<1>2. S * (q + k) = S * q + S * k BY <1>1
<1>3. x + S * k = S * (q + k) + r BY <1>1, <1>2
<1>4. (S * (q + k) + r) % S = r BY <1>1, ModOf
<1> QED BY <1>3, <1>4 DEF r

LEMMA ModCycle ==
  ASSUME NEW S \in Nat \ {0}, NEW x \in Int
  PROVE  (x + S) % S = x % S
<1> DEFINE k == 1
<1>1. k \in Int /\ S * k = S OBVIOUS
<1> HIDE DEF k
<1>2. (x + S * k) % S = x % S BY <1>1, ModShift
<1> QED BY <1>1, <1>2

\* so that it may be taken early, of a sum or a difference.
LEMMA ModPlus ==
  ASSUME NEW S \in Nat \ {0}, NEW x \in Int, NEW y \in Int
  PROVE  ((x % S) + y) % S = (x + y) % S
<1> DEFINE q == x \div S  r == x % S
<1>1. q \in Int /\ r \in 0 .. S - 1 /\ x = S * q + r BY DivMod
<1> HIDE DEF q, r
<1> DEFINE z == r + y
<1>2. z \in Int /\ x + y = z + S * q BY <1>1
<1> HIDE DEF z
<1>3. (z + S * q) % S = z % S BY <1>1, <1>2, ModShift
<1> QED BY <1>2, <1>3 DEF r, z

LEMMA ModMinus ==
  ASSUME NEW S \in Nat \ {0}, NEW x \in Int, NEW y \in Int
  PROVE  (y - (x % S)) % S = (y - x) % S
<1> DEFINE q == x \div S  r == x % S
<1>1. q \in Int /\ r \in 0 .. S - 1 /\ x = S * q + r BY DivMod
<1> HIDE DEF q, r
<1> DEFINE z == y - x
<1>2. z \in Int /\ y - r = z + S * q BY <1>1
<1> HIDE DEF z
<1>3. (z + S * q) % S = z % S BY <1>1, <1>2, ModShift
<1> QED BY <1>2, <1>3 DEF r, z

\* The remainder of a multiple of S loses nothing of the remainder of S.
LEMMA ModMod ==
  ASSUME NEW S \in Nat \ {0}, NEW W \in Nat \ {0}, W % S = 0, NEW x \in Int
  PROVE  (x % W) % S = x % S
<1> DEFINE k == W \div S  q == x \div W  r == x % W
<1>1. k \in Int /\ W = S * k BY DivMod
<1>2. q \in Int /\ r \in 0 .. W - 1 /\ x = W * q + r BY DivMod
<1> HIDE DEF k, q, r
<1>3. (S * k) * q = S * (k * q) BY <1>1, <1>2
<1> DEFINE n == k * q
<1>4. n \in Int /\ r \in Int /\ x = r + S * n BY <1>1, <1>2, <1>3
<1> HIDE DEF n
<1>5. (r + S * n) % S = r % S BY <1>2, <1>4, ModShift
<1> QED BY <1>4, <1>5 DEF r

\* Numbers closer than S have different remainders.
LEMMA ModDistinct ==
  ASSUME NEW S \in Nat \ {0}, NEW x \in Int, NEW y \in Int, x < y, y < x + S
  PROVE  x % S # y % S
<1> SUFFICES ASSUME x % S = y % S PROVE FALSE
  OBVIOUS
<1> DEFINE p == x \div S  q == y \div S  r == x % S
<1>1. p \in Int /\ r \in 0 .. S - 1 /\ x = S * p + r BY DivMod
<1>2. q \in Int /\ y = S * q + r BY DivMod
<1> HIDE DEF p, q, r
<1>3. S * (q - p) = S * q - S * p BY <1>1, <1>2
<1>4. S * (q - p) > 0 /\ S * (q - p) < S BY <1>1, <1>2, <1>3
<1>5. q - p >= 1 => S * (q - p) >= S BY <1>1, <1>2
<1>6. q - p <= 0 => S * (q - p) <= 0
  <2>1. S * (p - q) = S * p - S * q BY <1>1, <1>2
  <2>2. p - q >= 0 => S * (p - q) >= 0 BY <1>1, <1>2
  <2> QED BY <2>1, <2>2, <1>1, <1>2, <1>3
<1> QED BY <1>1, <1>2, <1>4, <1>5, <1>6

-----------------------------------------------------------------------------
(* Pointers.  Word is a product, which the provers had better not see.     *)

LEMMA WordType == Word \in Nat \ {0} /\ RxMAX \in Nat \ {0} /\ TxMAX \in Nat \ {0}
BY BuffersAssumption DEF Word

LEMMA AddType ==
  ASSUME NEW p \in Int, NEW n \in Int
  PROVE  Add(p, n) \in 0 .. Word - 1 /\ Minus(p, n) \in 0 .. Word - 1
BY WordType, p + n \in Int, p - n \in Int, DivMod DEF Add, Minus

LEMMA AddZero ==
  ASSUME NEW p \in 0 .. Word - 1
  PROVE  Add(p, 0) = p
BY WordType, p + 0 = p, ModSmall DEF Add

LEMMA AddAdd ==
  ASSUME NEW p \in Int, NEW m \in Int, NEW n \in Int
  PROVE  Add(Add(p, m), n) = Add(p, m + n)
<1> DEFINE x == p + m
<1>1. x \in Int OBVIOUS
<1> HIDE DEF x
<1>2. ((x % Word) + n) % Word = (x + n) % Word BY <1>1, WordType, ModPlus
<1> QED BY <1>2 DEF Add, x

\* The distance from q leads from q to p.
LEMMA AddMinus ==
  ASSUME NEW p \in 0 .. Word - 1, NEW q \in 0 .. Word - 1
  PROVE  Add(q, Minus(p, q)) = p
<1> DEFINE x == p - q
<1>1. x \in Int /\ p \in Int /\ q \in Int /\ x + q = p BY WordType
<1> HIDE DEF x
<1>2. ((x % Word) + q) % Word = (x + q) % Word BY <1>1, WordType, ModPlus
<1>3. p % Word = p BY WordType, ModSmall
<1>4. x % Word \in Int BY <1>1, WordType, DivMod
<1>5. q + (x % Word) = (x % Word) + q BY <1>1, <1>4
<1> QED BY <1>1, <1>2, <1>3, <1>5 DEF Add, Minus, x

\* Moving the one ahead adds to the distance, moving the one behind takes from it.
LEMMA MinusMore ==
  ASSUME NEW p \in 0 .. Word - 1, NEW q \in 0 .. Word - 1, NEW n \in Nat,
         Minus(p, q) + n < Word
  PROVE  Minus(Add(p, n), q) = Minus(p, q) + n
<1> DEFINE d == p - q  s == p + n  m == -q
<1>1. d \in Int /\ s \in Int /\ m \in Int /\ n \in Int /\ s + m = d + n BY WordType
<1>2. \A z \in Int : z - q = z + m BY WordType
<1> HIDE DEF d, s, m
<1>3. s % Word \in 0 .. Word - 1 /\ d % Word \in 0 .. Word - 1 BY <1>1, WordType, DivMod
<1>4. ((s % Word) + m) % Word = (s + m) % Word BY <1>1, WordType, ModPlus
<1>5. ((d % Word) + n) % Word = (d + n) % Word BY <1>1, WordType, ModPlus
<1>6. (d % Word) + n \in 0 .. Word - 1 BY <1>3, WordType DEF Minus, d
<1>7. ((d % Word) + n) % Word = (d % Word) + n BY <1>6, WordType, ModSmall
<1> QED BY <1>1, <1>2, <1>3, <1>4, <1>5, <1>7 DEF Add, Minus, d, s

LEMMA MinusLess ==
  ASSUME NEW p \in 0 .. Word - 1, NEW q \in 0 .. Word - 1, NEW n \in 0 .. Minus(p, q)
  PROVE  Minus(p, Add(q, n)) = Minus(p, q) - n
<1> DEFINE d == p - q  s == q + n  m == -n
<1>0. Minus(p, q) \in 0 .. Word - 1 /\ n \in Nat BY WordType, AddType
<1>1. d \in Int /\ s \in Int /\ m \in Int /\ p \in Int /\ p - s = d + m BY <1>0, WordType
<1> HIDE DEF d, s, m
<1>2. (p - (s % Word)) % Word = (p - s) % Word BY <1>1, WordType, ModMinus
<1>3. ((d % Word) + m) % Word = (d + m) % Word BY <1>1, WordType, ModPlus
<1>4. (d % Word) + m \in 0 .. Word - 1 /\ (d % Word) + m = (d % Word) - n
  BY <1>0, WordType DEF Minus, d, m
<1>5. ((d % Word) + m) % Word = (d % Word) + m BY <1>4, WordType, ModSmall
<1> QED BY <1>1, <1>2, <1>3, <1>4, <1>5 DEF Add, Minus, d, s

-----------------------------------------------------------------------------
(* Cells of a ring of S bytes; S divides Word.                             *)

LEMMA CellsDistinct ==
  ASSUME NEW S \in Nat \ {0}, Word % S = 0, NEW p \in Int,
         NEW i \in Int, NEW j \in Int, i < j, j < i + S
  PROVE  Add(p, i) % S # Add(p, j) % S
<1> DEFINE x == p + i  y == p + j
<1>1. x \in Int /\ y \in Int /\ x < y /\ y < x + S OBVIOUS
<1> HIDE DEF x, y
<1>2. (x % Word) % S = x % S /\ (y % Word) % S = y % S BY <1>1, WordType, ModMod
<1>3. x % S # y % S BY <1>1, ModDistinct
<1> QED BY <1>2, <1>3 DEF Add, x, y

LEMMA CellType ==
  ASSUME NEW S \in Nat \ {0}, NEW p \in Int, NEW i \in Int
  PROVE  Add(p, i) % S \in 0 .. S - 1
<1> DEFINE x == Add(p, i)
<1>1. x \in Int BY AddType, WordType
<1> HIDE DEF x
<1>2. x % S \in 0 .. S - 1 BY <1>1, DivMod
<1> QED BY <1>2 DEF x

\* How far the cell of the ith byte is behind that of the mth.
LEMMA OffsetOf ==
  ASSUME NEW S \in Nat \ {0}, Word % S = 0, NEW p \in Int, NEW i \in Int, NEW m \in Int
  PROVE  ((Add(p, i) % S) - Add(p, m)) % S = (i - m) % S
<1> DEFINE a == p + i  b == p + m  B == b % Word  n == -B
<1>1. a \in Int /\ b \in Int /\ a - b = i - m OBVIOUS
<1> HIDE DEF a, b
<1>2. B \in Int BY <1>1, WordType, DivMod
<1> HIDE DEF B
<1>3. n \in Int /\ \A z \in Int : z - B = z + n BY <1>2
<1> HIDE DEF n
<1>4. (a % Word) % S = a % S /\ B % S = b % S BY <1>1, WordType, ModMod DEF B
<1>5. a % S \in Int BY <1>1, DivMod
<1>6. ((a % S) + n) % S = (a + n) % S BY <1>1, <1>3, ModPlus
<1>7. (a - (B % S)) % S = (a - B) % S BY <1>1, <1>2, ModMinus
<1>8. (a - (b % S)) % S = (a - b) % S BY <1>1, ModMinus
<1> QED BY <1>1, <1>3, <1>4, <1>5, <1>6, <1>7, <1>8 DEF Add, a, b, B

-----------------------------------------------------------------------------
(* The inductive invariant.                                                *)

\* Bytes given to the chip to send and not sent yet, and those written behind them.
Queued == Minus(txEnd, Sn_TX_RD)
Filled == Queued + (IF call = "send" /\ pc = "command" THEN len ELSE 0)

\* The receive buffer holds the last RSR bytes that came, from rxOut on.
RxInv ==
  /\ RSR <= RxMAX /\ RSR <= came
  /\ Sn_RX_RD = IF call = "recv" /\ pc = "command" THEN Add(rxOut, len) ELSE rxOut
  /\ \A i \in 0 .. RSR - 1 : rxmem[Add(rxOut, i) % RxMAX] = came - RSR + i + 1

\* The transmit buffer holds the bytes that follow those echoed, from Sn_TX_RD on.
TxInv ==
  /\ Filled <= TxMAX
  /\ Sn_TX_WR = IF call = "send" /\ pc = "command" THEN Add(txEnd, len) ELSE txEnd
  /\ \A i \in 0 .. Filled - 1 : txmem[Add(Sn_TX_RD, i) % TxMAX] = echoed + i + 1

\* What came is in the one buffer, in the other, echoed, or still to be sent.
Owed ==
  came - RSR = echoed + Queued + (IF call = "send" THEN size - sentsize ELSE 0)

\* loopback_tcps's buffer holds what is read and to be sent.
BufInv ==
  /\ call = "recv" /\ pc = "command" => \A i \in 0 .. len - 1 : buf[i] = came - RSR + i + 1
  /\ call = "send" => \A i \in sentsize .. size - 1 : buf[i] = came - RSR - size + i + 1

CallInv ==
  /\ call = "loopback" =>
       size = 0 /\ sentsize = 0 /\ len = 0 /\ pc \notin {"data", "command"}
  /\ call = "recv" =>
       /\ size \in 1 .. RSR /\ sentsize = 0
       /\ len = IF pc \in {"data", "command"} THEN size ELSE 0
  /\ call = "send" =>
       /\ sentsize < size /\ len = Least(size - sentsize, TxMAX)
       /\ pc = "data" => len <= FSR

\* What the two readings say of the size: recv knows that it is not below size.
Between(v) == (call = "recv" => size <= v) /\ v <= Size
ReadInv ==
  /\ pc = "low1" => val1 <= Size \div Byte
  /\ pc = "high2" => /\ val1 \div Byte <= Size \div Byte
                     /\ val1 \div Byte = Size \div Byte => Between(val1)
  /\ pc = "low2" => (val = val1 \div Byte => Between(val1))
  /\ pc = "compare" => (val = val1 /\ val # 0 => Between(val))

IInv == TypeOK /\ RxInv /\ TxInv /\ Owed /\ BufInv /\ CallInv /\ ReadInv

-----------------------------------------------------------------------------
(* Reading a size.                                                         *)

\* A high byte and the low byte of a size make that size, if its high byte is the
\* one read before; the high byte can be told from the two.
LEMMA Digits ==
  ASSUME NEW h \in Nat, NEW s \in Nat, NEW v, v = (h * Byte) + (s % Byte)
  PROVE  /\ v \in Nat /\ v \div Byte = h /\ s \div Byte \in Nat
         /\ h = s \div Byte => v = s
<1>1. Byte \in Nat \ {0} BY BuffersAssumption
<1> DEFINE q == s \div Byte  r == s % Byte
<1>2. q \in Int /\ r \in 0 .. Byte - 1 /\ s = Byte * q + r BY <1>1, DivMod
<1>3. q \in Nat BY <1>1, DivMonotone, s <= s
<1>4. v = h * Byte + r OBVIOUS
<1> HIDE DEF q, r
<1>5. h \in Int /\ v = Byte * h + r BY <1>1, <1>2, <1>4
<1>6. (Byte * h + r) \div Byte = h BY <1>1, <1>2, <1>5, ModOf
<1>7. Byte * h \in Nat BY <1>1
<1>8. v \in Nat BY <1>1, <1>2, <1>5, <1>7
<1>9. h = q => v = s BY <1>2, <1>5
<1> QED BY <1>3, <1>5, <1>6, <1>8, <1>9 DEF q

SizesAre ==
  /\ RSR \in Nat /\ Queued \in Nat /\ FSR \in Nat /\ Size \in Nat
  /\ RSR \in 0 .. Word - 1 /\ Queued \in 0 .. TxMAX /\ FSR = TxMAX - Queued

LEMMA SizesInv == IInv => SizesAre
<1> SUFFICES ASSUME IInv PROVE SizesAre
  OBVIOUS
<1>1. /\ Sn_RX_WR \in Int /\ rxOut \in Int /\ txEnd \in Int /\ Sn_TX_RD \in Int /\ len \in Nat
  BY WordType DEF IInv, TypeOK
<1>2. RSR \in 0 .. Word - 1 /\ Queued \in 0 .. Word - 1 BY <1>1, AddType DEF RSR, Queued
<1>3. Queued <= TxMAX BY <1>1, <1>2, WordType DEF IInv, TxInv, Filled
<1>4. FSR = TxMAX - Queued BY DEF FSR, Queued
<1> QED BY <1>2, <1>3, <1>4, WordType DEF Size, SizesAre

LEMMA Sizes ==
  ASSUME IInv
  PROVE  /\ RSR \in Nat /\ Queued \in Nat /\ FSR \in Nat /\ Size \in Nat
         /\ RSR \in 0 .. Word - 1 /\ Queued \in 0 .. TxMAX /\ FSR = TxMAX - Queued
BY SizesInv DEF SizesAre

\* The same after a step.
LEMMA SizesNext ==
  IInv' =>
    /\ RSR' \in Nat /\ Queued' \in Nat /\ FSR' \in Nat /\ Size' \in Nat
    /\ RSR' \in 0 .. Word - 1 /\ Queued' \in 0 .. TxMAX /\ FSR' = TxMAX - Queued'
<1>1. IInv' => SizesAre' BY SizesInv, PTL
<1> QED BY <1>1 DEF SizesAre

\* Steps that change neither a buffer nor a pointer.
LEMMA QuietStep ==
  ASSUME IInv, UNCHANGED <<rx, tx, peer>>, pc # "command", pc' # "command"
  PROVE  RSR' = RSR /\ FSR' = FSR /\ Queued' = Queued /\ RxInv' /\ TxInv'
<1>1. /\ UNCHANGED <<rxmem, Sn_RX_WR, Sn_RX_RD, rxOut, txmem, Sn_TX_WR, Sn_TX_RD, txEnd>>
      /\ UNCHANGED <<came, echoed, last>>
  BY DEF rx, tx, peer
<1>2. RSR' = RSR BY <1>1 DEF RSR, Minus
<1>3. FSR' = FSR /\ Queued' = Queued BY <1>1 DEF FSR, Queued, Minus
<1>4. Filled' = Filled BY <1>3 DEF Filled
<1>5. RxInv' BY <1>1, <1>2 DEF IInv, RxInv, Add
<1>6. TxInv' BY <1>1, <1>4 DEF IInv, TxInv, Add
<1> QED BY <1>2, <1>3, <1>5, <1>6

LEMMA ReadStep ==
  ASSUME IInv, ReadHigh1 \/ ReadLow1 \/ ReadHigh2 \/ ReadLow2 \/ ReadAgain
  PROVE  IInv'
<1>1. UNCHANGED <<rx, tx, peer>> /\ UNCHANGED <<call, buf, size, sentsize, len>>
  BY DEF ReadHigh1, ReadLow1, ReadHigh2, ReadLow2, ReadAgain
<1>2. /\ pc \in {"high1", "low1", "high2", "low2", "compare"}
      /\ pc' \in {"high1", "low1", "high2", "low2", "compare"}
  BY DEF ReadHigh1, ReadLow1, ReadHigh2, ReadLow2, ReadAgain
<1>3. RSR' = RSR /\ FSR' = FSR /\ Queued' = Queued /\ RxInv' /\ TxInv'
  BY <1>1, <1>2, QuietStep
<1>4. Size' = Size BY <1>1, <1>3 DEF Size
<1>5. Size \in Nat BY Sizes
<1>6. val \in Nat /\ val1 \in Nat BY DEF IInv, TypeOK
<1>7. Byte \in Nat \ {0} /\ Size \div Byte \in Nat BY <1>5, BuffersAssumption, DivMonotone
<1>8. call = "recv" => size <= Size BY DEF IInv, CallInv, Size
<1>9. \A v \in Nat : Between(v)' = Between(v) BY <1>1, <1>4 DEF Between
<1>10. ReadInv' /\ val' \in Nat /\ val1' \in Nat
  <2>1. CASE ReadHigh1
    <3>1. val1' = Size \div Byte /\ pc' = "low1" /\ val' = val BY <2>1 DEF ReadHigh1
    <3> QED BY <3>1, <1>4, <1>6, <1>7 DEF ReadInv
  <2>2. CASE ReadLow1
    <3>1. /\ val1' = (val1 * Byte) + (Size % Byte) /\ val' = val
          /\ pc' = IF val1' = 0 THEN "compare" ELSE "high2"
      BY <2>2 DEF ReadLow1
    <3>2. val1 <= Size \div Byte BY <2>2 DEF ReadLow1, IInv, ReadInv
    <3>3. /\ val1' \in Nat /\ val1' \div Byte = val1
          /\ val1 = Size \div Byte => val1' = Size
      BY <3>1, <1>5, <1>6, Digits
    <3>4. val1 = Size \div Byte => Between(val1') BY <3>3, <1>5, <1>8 DEF Between
    <3> QED BY <3>1, <3>2, <3>3, <3>4, <1>4, <1>6, <1>9 DEF ReadInv
  <2>3. CASE ReadHigh2
    <3>1. val' = Size \div Byte /\ pc' = "low2" /\ val1' = val1 /\ pc = "high2"
      BY <2>3 DEF ReadHigh2
    <3>2. val1 \div Byte = Size \div Byte => Between(val1) BY <3>1 DEF IInv, ReadInv
    <3> QED BY <3>1, <3>2, <1>6, <1>7, <1>9 DEF ReadInv
  <2>4. CASE ReadLow2
    <3>1. /\ val' = (val * Byte) + (Size % Byte) /\ pc' = "compare" /\ val1' = val1
          /\ pc = "low2"
      BY <2>4 DEF ReadLow2
    <3>2. val' \in Nat /\ val' \div Byte = val BY <3>1, <1>5, <1>6, Digits
    <3>3. val = val1 \div Byte => Between(val1) BY <3>1 DEF IInv, ReadInv
    <3> QED BY <3>1, <3>2, <3>3, <1>6, <1>9 DEF ReadInv
  <2>5. CASE ReadAgain
    <3>1. pc' = "high1" /\ val' = val /\ val1' = val1 BY <2>5 DEF ReadAgain
    <3> QED BY <3>1, <1>6 DEF ReadInv
  <2> QED BY <2>1, <2>2, <2>3, <2>4, <2>5
<1>11. TypeOK' BY <1>1, <1>2, <1>10 DEF IInv, TypeOK, rx, tx, peer
<1>12. Owed' BY <1>1, <1>3 DEF IInv, Owed, peer
<1>13. BufInv' BY <1>1, <1>2, <1>3 DEF IInv, BufInv, peer
<1>14. CallInv' BY <1>1, <1>2, <1>3 DEF IInv, CallInv, Least
<1> QED BY <1>3, <1>10, <1>11, <1>12, <1>13, <1>14 DEF IInv

-----------------------------------------------------------------------------
(* What is done with a size.                                               *)

LEMMA SizeStep ==
  ASSUME IInv, LoopbackSize \/ RecvSize \/ SendSize
  PROVE  IInv'
<1>1. UNCHANGED <<rx, tx, peer>> /\ UNCHANGED <<buf, sentsize>>
  BY DEF LoopbackSize, RecvSize, SendSize
<1>2. pc = "compare" /\ val = val1 /\ pc' \in {"high1", "data"}
  BY DEF LoopbackSize, RecvSize, SendSize, Read, Returned
<1>3. RSR' = RSR /\ FSR' = FSR /\ Queued' = Queued /\ RxInv' /\ TxInv'
  BY <1>1, <1>2, QuietStep
<1>4. RSR \in Nat /\ FSR \in Nat /\ RSR <= RxMAX BY Sizes DEF IInv, RxInv
<1>5. /\ val \in Nat /\ val1 \in Nat /\ size \in 0 .. DATA_BUF_SIZE /\ sentsize \in 0 .. size
      /\ len \in 0 .. size
  BY DEF IInv, TypeOK
<1>6. val # 0 => Between(val) BY <1>2 DEF IInv, ReadInv
<1>7. DATA_BUF_SIZE \in Nat \ {0} BY BuffersAssumption
<1>8. TxMAX \in Nat \ {0} /\ RxMAX \in Nat \ {0} BY WordType
<1>9. ReadInv' BY <1>2 DEF ReadInv
<1>10. CASE LoopbackSize
  <2>1. call = "loopback" /\ len' = len /\ pc' = "high1" /\ val' = 0 /\ val1' = 0
    BY <1>10 DEF LoopbackSize, Read
  <2>2. size = 0 /\ sentsize = 0 /\ len = 0 BY <2>1 DEF IInv, CallInv
  <2>3. CASE val = 0
    <3>1. call' = call /\ size' = size BY <1>10, <2>3 DEF LoopbackSize
    <3>2. TypeOK' BY <1>1, <2>1, <3>1 DEF IInv, TypeOK, rx, tx, peer
    <3>3. Owed' BY <1>1, <1>3, <2>1, <3>1 DEF IInv, Owed, peer
    <3>4. BufInv' BY <2>1, <3>1 DEF BufInv
    <3>5. CallInv' BY <1>1, <2>1, <2>2, <3>1 DEF CallInv
    <3> QED BY <1>3, <1>9, <3>2, <3>3, <3>4, <3>5 DEF IInv
  <2>4. CASE val # 0
    <3>1. call' = "recv" /\ size' = Least(val, DATA_BUF_SIZE)
      BY <1>10, <2>4 DEF LoopbackSize
    <3>2. val <= RSR BY <1>6, <2>1, <2>4 DEF Between, Size
    <3>3. size' \in 1 .. RSR /\ size' \in 0 .. DATA_BUF_SIZE
      BY <1>4, <1>5, <1>7, <2>4, <3>1, <3>2 DEF Least
    <3>4. sentsize' = 0 /\ len' = 0 BY <1>1, <2>1, <2>2
    <3>5. sentsize' \in 0 .. size' /\ len' \in 0 .. size' BY <1>4, <3>3, <3>4
    <3>6. TypeOK' BY <1>1, <2>1, <3>1, <3>3, <3>5 DEF IInv, TypeOK, rx, tx, peer
    <3>7. Owed' BY <1>1, <1>3, <2>1, <3>1 DEF IInv, Owed, peer
    <3>8. BufInv' BY <2>1, <3>1 DEF BufInv
    <3>9. CallInv' BY <1>3, <2>1, <3>1, <3>3, <3>4 DEF CallInv
    <3> QED BY <1>3, <1>9, <3>6, <3>7, <3>8, <3>9 DEF IInv
  <2> QED BY <2>3, <2>4
<1>11. CASE RecvSize
  <2>1. call = "recv" /\ call' = call /\ size' = size BY <1>11 DEF RecvSize
  <2>2. size \in 1 .. RSR /\ sentsize = 0 /\ len = 0 BY <1>2, <2>1 DEF IInv, CallInv
  <2>3. Owed' BY <1>1, <1>3, <2>1 DEF IInv, Owed, peer
  <2>4. BufInv' BY <1>2, <2>1 DEF BufInv
  <2>5. CASE val = 0
    <3>1. len' = len /\ pc' = "high1" /\ val' = 0 /\ val1' = 0
      BY <1>11, <2>5 DEF RecvSize, Read
    <3>2. TypeOK' BY <1>1, <2>1, <3>1 DEF IInv, TypeOK, rx, tx, peer
    <3>3. CallInv' BY <1>1, <1>3, <2>1, <2>2, <3>1 DEF CallInv
    <3> QED BY <1>3, <1>9, <2>3, <2>4, <3>2, <3>3 DEF IInv
  <2>6. CASE val # 0
    <3>1. /\ len' = Least(Least(size, RxMAX), val) /\ pc' = "data"
          /\ val' = val /\ val1' = val1
      BY <1>11, <2>6 DEF RecvSize
    <3>2. size <= val BY <1>6, <2>1, <2>6 DEF Between
    <3>3. len' = size BY <1>4, <1>5, <1>8, <2>2, <3>1, <3>2 DEF Least
    <3>4. TypeOK' BY <1>1, <1>5, <2>1, <3>1, <3>3 DEF IInv, TypeOK, rx, tx, peer
    <3>5. CallInv' BY <1>1, <1>3, <2>1, <2>2, <3>1, <3>3 DEF CallInv
    <3> QED BY <1>3, <1>9, <2>3, <2>4, <3>4, <3>5 DEF IInv
  <2> QED BY <2>5, <2>6
<1>12. CASE SendSize
  <2>1. call = "send" /\ call' = call /\ size' = size /\ len' = len BY <1>12 DEF SendSize
  <2>2. sentsize < size /\ len = Least(size - sentsize, TxMAX)
    BY <2>1 DEF IInv, CallInv
  <2>3. val' \in Nat /\ val1' \in Nat BY <1>5, <1>12 DEF SendSize, Read
  <2>4. TypeOK' BY <1>1, <1>2, <2>1, <2>3 DEF IInv, TypeOK, rx, tx, peer
  <2>5. Owed' BY <1>1, <1>3, <2>1 DEF IInv, Owed, peer
  <2>6. BufInv' BY <1>1, <1>3, <2>1 DEF IInv, BufInv, peer
  <2>7. pc' = "data" => len <= FSR
    <3>1. SUFFICES ASSUME pc' = "data" PROVE len <= FSR OBVIOUS
    <3>2. len <= val BY <1>12, <3>1 DEF SendSize, HasRoom, Read
    <3>3. len > 0 BY <1>5, <1>8, <2>2 DEF Least
    <3>4. val # 0 BY <1>5, <3>2, <3>3
    <3>5. val <= FSR BY <1>6, <2>1, <3>4 DEF Between, Size
    <3> QED BY <1>4, <1>5, <3>2, <3>5
  <2>8. CallInv' BY <1>1, <1>3, <2>1, <2>2, <2>7 DEF CallInv, Least
  <2> QED BY <1>3, <1>9, <2>4, <2>5, <2>6, <2>8 DEF IInv
<1> QED BY <1>10, <1>11, <1>12

-----------------------------------------------------------------------------
(* Bursts and commands.                                                    *)

LEMMA Pointers ==
  ASSUME IInv
  PROVE  /\ Sn_RX_WR \in 0 .. Word - 1 /\ rxOut \in 0 .. Word - 1 /\ Sn_RX_RD \in 0 .. Word - 1
         /\ Sn_TX_WR \in 0 .. Word - 1 /\ txEnd \in 0 .. Word - 1 /\ Sn_TX_RD \in 0 .. Word - 1
         /\ Sn_RX_WR \in Int /\ rxOut \in Int /\ Sn_RX_RD \in Int
         /\ Sn_TX_WR \in Int /\ txEnd \in Int /\ Sn_TX_RD \in Int
BY WordType DEF IInv, TypeOK

LEMMA Numbers ==
  ASSUME IInv
  PROVE  /\ size \in 0 .. DATA_BUF_SIZE /\ sentsize \in 0 .. size /\ len \in 0 .. size
         /\ size \in Nat /\ sentsize \in Nat /\ len \in Nat
         /\ came \in Nat /\ echoed \in Nat /\ DATA_BUF_SIZE \in Nat \ {0}
BY BuffersAssumption DEF IInv, TypeOK

LEMMA RecvDataStep ==
  ASSUME IInv, RecvData
  PROVE  IInv'
<1>1. /\ pc = "data" /\ call = "recv" /\ pc' = "command" /\ Sn_RX_RD' = Add(Sn_RX_RD, len)
      /\ UNCHANGED <<rxmem, Sn_RX_WR, rxOut, call, val, val1, size, sentsize, len>>
      /\ UNCHANGED <<txmem, Sn_TX_WR, Sn_TX_RD, txEnd, came, echoed, last>>
  BY DEF RecvData, tx, peer
<1>2. RSR' = RSR /\ FSR' = FSR /\ Queued' = Queued BY <1>1 DEF RSR, FSR, Queued, Minus
<1>3. Sn_RX_RD = rxOut BY <1>1 DEF IInv, RxInv
<1>4. size \in 1 .. RSR /\ sentsize = 0 /\ len = size BY <1>1 DEF IInv, CallInv
<1>5. RSR \in Nat BY Sizes
<1>6. \A i \in 0 .. len - 1 : buf'[i] = came - RSR + i + 1
  <2>1. TAKE i \in 0 .. len - 1
  <2>2. i \in 0 .. DATA_BUF_SIZE - 1 /\ i < len /\ i \in 0 .. RSR - 1
    BY <1>4, <1>5, Numbers
  <2>3. buf'[i] = rxmem[Add(rxOut, i) % RxMAX] BY <1>3, <2>2 DEF RecvData
  <2> QED BY <2>2, <2>3 DEF IInv, RxInv
<1>7. buf' \in [0 .. DATA_BUF_SIZE - 1 -> Nat]
  <2>1. \A i \in 0 .. DATA_BUF_SIZE - 1 : rxmem[Add(Sn_RX_RD, i) % RxMAX] \in Nat
    <3>1. TAKE i \in 0 .. DATA_BUF_SIZE - 1
    <3>2. i \in Int BY Numbers
    <3>3. Add(Sn_RX_RD, i) % RxMAX \in 0 .. RxMAX - 1 BY <3>2, Pointers, WordType, CellType
    <3> QED BY <3>3 DEF IInv, TypeOK
  <2> QED BY <2>1 DEF RecvData, IInv, TypeOK
<1>8. Sn_RX_RD' \in 0 .. Word - 1 BY <1>1, Pointers, Numbers, AddType
<1>9. TypeOK' BY <1>1, <1>7, <1>8 DEF IInv, TypeOK
<1>10. RxInv' BY <1>1, <1>2, <1>3 DEF IInv, RxInv, Add
<1>11. Filled' = Filled BY <1>1, <1>2 DEF Filled
<1>12. TxInv' BY <1>1, <1>11 DEF IInv, TxInv, Add
<1>13. Owed' BY <1>1, <1>2 DEF IInv, Owed
<1>14. BufInv' BY <1>1, <1>2, <1>6 DEF BufInv
<1>15. CallInv' BY <1>1, <1>2, <1>4 DEF CallInv
<1>16. ReadInv' BY <1>1 DEF ReadInv
<1> QED BY <1>9, <1>10, <1>12, <1>13, <1>14, <1>15, <1>16 DEF IInv

LEMMA RecvStep ==
  ASSUME IInv, Recv
  PROVE  IInv'
<1>1. /\ pc = "command" /\ call = "recv" /\ rxOut' = Sn_RX_RD
      /\ call' = "send" /\ sentsize' = 0 /\ len' = Least(size - 0, TxMAX)
      /\ pc' = "high1" /\ val' = 0 /\ val1' = 0
      /\ UNCHANGED <<rxmem, Sn_RX_WR, Sn_RX_RD, buf, size>>
      /\ UNCHANGED <<txmem, Sn_TX_WR, Sn_TX_RD, txEnd, came, echoed, last>>
  BY DEF Recv, SendRest, Read, tx, peer
<1>2. Sn_RX_RD = Add(rxOut, len) BY <1>1 DEF IInv, RxInv
<1>3. size \in 1 .. RSR /\ sentsize = 0 /\ len = size BY <1>1 DEF IInv, CallInv
<1>4. RSR \in Nat /\ RSR <= RxMAX /\ RSR <= came BY Sizes DEF IInv, RxInv
<1>5. RSR' = RSR - len
  <2>1. len \in 0 .. Minus(Sn_RX_WR, rxOut) BY <1>3, <1>4, Numbers DEF RSR
  <2>2. Minus(Sn_RX_WR, Add(rxOut, len)) = Minus(Sn_RX_WR, rxOut) - len
    BY <2>1, Pointers, MinusLess
  <2> QED BY <1>1, <1>2, <2>2 DEF RSR, Minus
<1>6. FSR' = FSR /\ Queued' = Queued BY <1>1 DEF FSR, Queued, Minus
<1>7. TxMAX \in Nat \ {0} BY WordType
<1>8. len' \in 1 .. size /\ len' = Least(size, TxMAX) BY <1>1, <1>3, <1>4, <1>7 DEF Least
<1>9. TypeOK' BY <1>1, <1>3, <1>4, <1>8, Pointers DEF IInv, TypeOK
<1>10. RxInv'
  <2>1. RSR' <= RxMAX /\ RSR' <= came' BY <1>1, <1>3, <1>4, <1>5, WordType, Numbers
  <2>2. ASSUME NEW i \in 0 .. RSR' - 1
        PROVE  rxmem'[(Add(rxOut, i) % RxMAX)'] = came' - RSR' + i + 1
    <3>1. len \in Int /\ i \in Int /\ len + i \in 0 .. RSR - 1 BY <1>3, <1>4, <1>5, Numbers
    <3>2. Add(Add(rxOut, len), i) = Add(rxOut, len + i) BY <3>1, Pointers, AddAdd
    <3>3. rxmem[Add(rxOut, len + i) % RxMAX] = came - RSR + (len + i) + 1
      BY <3>1 DEF IInv, RxInv
    <3>4. (Add(rxOut, i) % RxMAX)' = Add(Add(rxOut, len), i) % RxMAX BY <1>1, <1>2 DEF Add
    <3> QED BY <1>1, <1>4, <1>5, <3>1, <3>2, <3>3, <3>4, Numbers
  <2> QED BY <1>1, <2>1, <2>2 DEF RxInv
<1>11. Filled' = Filled BY <1>1, <1>6 DEF Filled
<1>12. TxInv' BY <1>1, <1>11 DEF IInv, TxInv, Add
<1>13. Owed' BY <1>1, <1>3, <1>4, <1>5, <1>6, Numbers, Sizes DEF IInv, Owed
<1>14. BufInv'
  <2>1. \A i \in 0 .. size - 1 : buf[i] = came - RSR + i + 1 BY <1>1, <1>3 DEF IInv, BufInv
  <2>2. \A i \in 0 .. size - 1 : buf[i] = came - (RSR - len) - size + i + 1
    BY <1>3, <1>4, <2>1, Numbers
  <2> QED BY <1>1, <1>5, <2>2 DEF BufInv
<1>15. CallInv' BY <1>1, <1>3, <1>4, <1>8 DEF CallInv, Least
<1>16. ReadInv' BY <1>1 DEF ReadInv
<1> QED BY <1>9, <1>10, <1>12, <1>13, <1>14, <1>15, <1>16 DEF IInv

LEMMA TxOffset ==
  ASSUME Sn_TX_RD \in Int, NEW i \in Int, NEW m \in Int, Sn_TX_WR = Add(Sn_TX_RD, m)
  PROVE  Offset(Add(Sn_TX_RD, i) % TxMAX) = (i - m) % TxMAX
<1>1. TxMAX \in Nat \ {0} /\ Word % TxMAX = 0 BY WordType, BuffersAssumption
<1>2. ((Add(Sn_TX_RD, i) % TxMAX) - Add(Sn_TX_RD, m)) % TxMAX = (i - m) % TxMAX
  BY <1>1, OffsetOf
<1> QED BY <1>2 DEF Offset

LEMMA SendDataStep ==
  ASSUME IInv, SendData
  PROVE  IInv'
<1>1. /\ pc = "data" /\ call = "send" /\ pc' = "command" /\ Sn_TX_WR' = Add(Sn_TX_WR, len)
      /\ UNCHANGED <<rxmem, Sn_RX_WR, Sn_RX_RD, rxOut, Sn_TX_RD, txEnd>>
      /\ UNCHANGED <<call, val, val1, buf, size, sentsize, len, came, echoed, last>>
      /\ txmem' = [a \in 0 .. TxMAX - 1 |->
                      IF Offset(a) < len THEN buf[sentsize + Offset(a)] ELSE txmem[a]]
  BY DEF SendData, rx, peer
<1>2. RSR' = RSR /\ FSR' = FSR /\ Queued' = Queued BY <1>1 DEF RSR, FSR, Queued, Minus
<1>3. Sn_TX_WR = txEnd /\ Filled = Queued BY <1>1, Sizes DEF IInv, TxInv, Filled
<1>4. /\ sentsize < size /\ len = Least(size - sentsize, TxMAX) /\ len <= FSR
  BY <1>1 DEF IInv, CallInv
<1>5. RSR \in Nat /\ Queued \in 0 .. TxMAX /\ FSR = TxMAX - Queued BY Sizes
<1>6. TxMAX \in Nat \ {0} /\ Word % TxMAX = 0 BY WordType, BuffersAssumption
<1>7. Filled' = Queued + len BY <1>1, <1>2 DEF Filled
<1>8. len \in Nat /\ Queued + len <= TxMAX /\ sentsize + len <= size
  BY <1>4, <1>5, <1>6, Numbers DEF Least
<1>9. Add(Sn_TX_RD, Queued) = txEnd BY Pointers, AddMinus DEF Queued
\* The cells from Sn_TX_RD on: those in use keep their bytes, the next ones get theirs.
<1>10. ASSUME NEW i \in 0 .. Queued + len - 1
       PROVE  txmem'[Add(Sn_TX_RD, i) % TxMAX] = echoed + i + 1
  <2> DEFINE a == Add(Sn_TX_RD, i) % TxMAX
  <2>1. i \in Int /\ Queued \in Int BY <1>5, <1>8
  <2>2. a \in 0 .. TxMAX - 1 BY <2>1, <1>6, Pointers, CellType
  <2>3. Offset(a) = (i - Queued) % TxMAX
    <3>1. Sn_TX_RD \in Int /\ Sn_TX_WR = Add(Sn_TX_RD, Queued) BY <1>3, <1>9, Pointers
    <3> QED BY <2>1, <3>1, TxOffset
  <2>4. txmem'[a] = IF Offset(a) < len THEN buf[sentsize + Offset(a)] ELSE txmem[a]
    BY <1>1, <2>2
  <2>5. CASE i < Queued
    <3> DEFINE d == i - Queued  k == i - Queued + TxMAX
    <3>1. d \in Int /\ k \in 0 .. TxMAX - 1 /\ k = d + TxMAX /\ ~(k < len)
      BY <2>1, <2>5, <1>5, <1>6, <1>8
    <3> HIDE DEF d, k
    <3>2. (d + TxMAX) % TxMAX = d % TxMAX BY <3>1, <1>6, ModCycle
    <3>3. k % TxMAX = k BY <3>1, <1>6, ModSmall
    <3>4. Offset(a) = k BY <2>3, <3>1, <3>2, <3>3 DEF d
    <3>5. i \in 0 .. Filled - 1 BY <2>5, <1>3, <1>5, <1>8
    <3>6. txmem[a] = echoed + i + 1 BY <3>5 DEF IInv, TxInv
    <3> QED BY <2>4, <3>1, <3>4, <3>6
  <2>6. CASE i >= Queued
    <3> DEFINE d == i - Queued
    <3>1. d \in 0 .. TxMAX - 1 /\ d < len /\ i = Queued + d BY <2>1, <2>6, <1>5, <1>6, <1>8
    <3> HIDE DEF d
    <3>2. Offset(a) = d BY <2>3, <3>1, <1>6, ModSmall DEF d
    <3>3. sentsize + d \in sentsize .. size - 1 BY <3>1, <1>6, <1>8, Numbers
    <3>4. buf[sentsize + d] = came - RSR - size + (sentsize + d) + 1
      BY <1>1, <3>3 DEF IInv, BufInv
    <3>5. came - RSR = echoed + Queued + (size - sentsize) BY <1>1 DEF IInv, Owed
    <3>6. buf[sentsize + d] = echoed + i + 1 BY <3>1, <3>4, <3>5, <1>5, Numbers
    <3> QED BY <2>4, <3>1, <3>2, <3>6
  <2> QED BY <2>1, <2>5, <2>6
<1>11. txmem' \in [0 .. TxMAX - 1 -> Nat]
  <2>1. ASSUME NEW a \in 0 .. TxMAX - 1, Offset(a) < len
        PROVE  buf[sentsize + Offset(a)] \in Nat
    <3> DEFINE z == a - Sn_TX_WR
    <3>1. z \in Int BY <1>6, Pointers
    <3> HIDE DEF z
    <3>2. z % TxMAX \in 0 .. TxMAX - 1 BY <3>1, <1>6, DivMod
    <3>3. Offset(a) \in Nat BY <3>2, <1>6 DEF Offset, z
    <3>4. sentsize + Offset(a) \in 0 .. DATA_BUF_SIZE - 1 BY <2>1, <3>3, <1>8, Numbers
    <3> QED BY <3>4 DEF IInv, TypeOK
  <2>2. \A a \in 0 .. TxMAX - 1 : txmem[a] \in Nat BY DEF IInv, TypeOK
  <2> QED BY <1>1, <2>1, <2>2
<1>12. Sn_TX_WR' \in 0 .. Word - 1 BY <1>1, <1>8, Pointers, AddType
<1>13. TypeOK' BY <1>1, <1>11, <1>12 DEF IInv, TypeOK
<1>14. RxInv' BY <1>1, <1>2 DEF IInv, RxInv, Add
<1>15. TxInv'
  <2>1. Filled' <= TxMAX BY <1>7, <1>8
  <2>2. Sn_TX_WR' = Add(txEnd, len)' BY <1>1, <1>3 DEF Add
  <2>3. ASSUME NEW i \in 0 .. Queued + len - 1
        PROVE  txmem'[(Add(Sn_TX_RD, i) % TxMAX)'] = echoed' + i + 1
    <3>1. (Add(Sn_TX_RD, i) % TxMAX)' = Add(Sn_TX_RD, i) % TxMAX BY <1>1 DEF Add
    <3>2. txmem'[Add(Sn_TX_RD, i) % TxMAX] = echoed + i + 1 BY <1>10
    <3> QED BY <1>1, <3>1, <3>2
  <2>4. \A i \in 0 .. Filled' - 1 : txmem'[(Add(Sn_TX_RD, i) % TxMAX)'] = echoed' + i + 1
    BY <1>5, <1>7, <1>8, <2>3
  <2>5. (call = "send" /\ pc = "command")' BY <1>1
  <2> QED BY <2>1, <2>2, <2>4, <2>5 DEF TxInv
<1>16. Owed' BY <1>1, <1>2 DEF IInv, Owed
<1>17. BufInv' BY <1>1, <1>2 DEF IInv, BufInv
<1>18. CallInv' BY <1>1, <1>2 DEF IInv, CallInv, Least
<1>19. ReadInv' BY <1>1 DEF ReadInv
<1> QED BY <1>13, <1>14, <1>15, <1>16, <1>17, <1>18, <1>19 DEF IInv

LEMMA SendStep ==
  ASSUME IInv, Send
  PROVE  IInv'
<1>1. /\ pc = "command" /\ call = "send" /\ txEnd' = Sn_TX_WR
      /\ pc' = "high1" /\ val' = 0 /\ val1' = 0
      /\ UNCHANGED <<rxmem, Sn_RX_WR, Sn_RX_RD, rxOut, txmem, Sn_TX_WR, Sn_TX_RD>>
      /\ UNCHANGED <<buf, came, echoed, last>>
  BY DEF Send, SendRest, Read, rx, peer
<1>2. Sn_TX_WR = Add(txEnd, len) /\ Filled = Queued + len BY <1>1 DEF IInv, TxInv, Filled
<1>3. /\ Queued \in 0 .. TxMAX /\ RSR \in Nat /\ Queued + len <= TxMAX
      /\ TxMAX \in 1 .. Word - 1 /\ Word \in Nat
  BY <1>2, Sizes, BuffersAssumption, WordType DEF IInv, TxInv
<1>4. Queued' = Queued + len
  <2>1. Minus(txEnd, Sn_TX_RD) + len < Word BY <1>3, Numbers DEF Queued
  <2>2. Minus(Add(txEnd, len), Sn_TX_RD) = Minus(txEnd, Sn_TX_RD) + len
    BY <2>1, Pointers, Numbers, MinusMore
  <2> QED BY <1>1, <1>2, <2>2 DEF Queued, Minus
<1>5. RSR' = RSR BY <1>1 DEF RSR, Minus
<1>6. Filled' = Filled BY <1>1, <1>2, <1>4 DEF Filled
<1>7. RxInv' BY <1>1, <1>5 DEF IInv, RxInv, Add
<1>8. TxInv' BY <1>1, <1>6 DEF IInv, TxInv, Add
<1>9. ReadInv' BY <1>1 DEF ReadInv
<1>10. txEnd' \in 0 .. Word - 1 BY <1>1, Pointers
<1>11. /\ sentsize < size /\ len = Least(size - sentsize, TxMAX) BY <1>1 DEF IInv, CallInv
<1>12. came - RSR = echoed + Queued + (size - sentsize) BY <1>1 DEF IInv, Owed
<1>13. CASE sentsize + len = size
  <2>1. call' = "loopback" /\ size' = 0 /\ sentsize' = 0 /\ len' = 0
    BY <1>13 DEF Send
  <2>2. TypeOK' BY <1>1, <1>10, <2>1, Numbers DEF IInv, TypeOK
  <2>3. Owed' BY <1>1, <1>3, <1>4, <1>5, <1>12, <1>13, <2>1, Numbers DEF Owed
  <2>4. BufInv' BY <2>1 DEF BufInv
  <2>5. CallInv' BY <1>1, <2>1 DEF CallInv
  <2> QED BY <1>7, <1>8, <1>9, <2>2, <2>3, <2>4, <2>5 DEF IInv
<1>14. CASE sentsize + len # size
  <2>1. /\ call' = "send" /\ sentsize' = sentsize + len /\ size' = size
        /\ len' = Least(size - (sentsize + len), TxMAX)
    BY <1>14 DEF Send, SendRest
  <2>2. sentsize + len \in Nat /\ sentsize + len < size
    BY <1>3, <1>11, <1>14, Numbers DEF Least
  <2>3. len' \in 0 .. size BY <1>3, <2>1, <2>2, Numbers DEF Least
  <2>4. sentsize' \in 0 .. size BY <2>1, <2>2, Numbers
  <2>5. TypeOK' BY <1>1, <1>10, <2>1, <2>3, <2>4 DEF IInv, TypeOK
  <2>6. Owed' BY <1>1, <1>3, <1>4, <1>5, <1>12, <2>1, <2>2, Numbers DEF Owed
  <2>7. BufInv'
    <3>1. \A i \in sentsize .. size - 1 : buf[i] = came - RSR - size + i + 1
      BY <1>1 DEF IInv, BufInv
    <3>2. \A i \in sentsize + len .. size - 1 : i \in sentsize .. size - 1
      BY <2>2, Numbers
    <3> QED BY <1>1, <1>5, <2>1, <3>1, <3>2 DEF BufInv
  <2>8. CallInv' BY <1>1, <2>1, <2>2 DEF CallInv, Least
  <2> QED BY <1>7, <1>8, <1>9, <2>5, <2>6, <2>7, <2>8 DEF IInv
<1> QED BY <1>13, <1>14

-----------------------------------------------------------------------------
(* The chip.  Sizes only grow while the driver reads them.                 *)

LEMMA ReadingGrows ==
  ASSUME IInv, UNCHANGED driver, Size' \in Nat, Size <= Size'
  PROVE  ReadInv'
<1>1. UNCHANGED <<call, pc, val, val1, size>> BY DEF driver
<1>2. Size \in Nat BY Sizes
<1>3. Byte \in Nat \ {0} BY BuffersAssumption
<1> DEFINE t == Size'
<1>4. t \in Nat /\ Size <= t OBVIOUS
<1> HIDE DEF t
<1>5. Size \div Byte \in Nat /\ Size \div Byte <= t \div Byte
  BY <1>2, <1>3, <1>4, DivMonotone
<1>6. t \div Byte \in Nat BY <1>3, <1>4, t <= t, DivMonotone
<1>7. val \in Nat /\ val1 \in Nat BY DEF IInv, TypeOK
<1>8. val1 \div Byte \in Nat BY <1>3, <1>7, val1 <= val1, DivMonotone
<1>9. \A v \in Nat : Between(v) => (call = "recv" => size <= v) /\ v <= t
  BY <1>2, <1>4 DEF Between
<1>10. pc = "low1" => val1 <= t \div Byte BY <1>5, <1>6, <1>7 DEF IInv, ReadInv
<1>11. pc = "high2" => /\ val1 \div Byte <= t \div Byte
                       /\ val1 \div Byte = t \div Byte => Between(val1)
  BY <1>5, <1>6, <1>8 DEF IInv, ReadInv
<1>12. pc = "low2" => (val = val1 \div Byte => Between(val1)) BY DEF IInv, ReadInv
<1>13. pc = "compare" => (val = val1 /\ val # 0 => Between(val)) BY DEF IInv, ReadInv
<1>14. pc' = pc /\ val' = val /\ val1' = val1 /\ call' = call /\ size' = size /\ Size' = t
  BY <1>1 DEF t
<1> QED BY <1>7, <1>9, <1>10, <1>11, <1>12, <1>13, <1>14 DEF ReadInv, Between

LEMMA ReceiveStep ==
  ASSUME IInv, Receive
  PROVE  IInv' /\ RSR < RxMAX /\ RSR' = RSR + 1 /\ Queued' = Queued
<1>1. /\ RSR < RxMAX /\ Sn_RX_WR' = Add(Sn_RX_WR, 1) /\ came' = came + 1
      /\ rxmem' = [rxmem EXCEPT ![Sn_RX_WR % RxMAX] = came + 1]
      /\ UNCHANGED <<Sn_RX_RD, rxOut, txmem, Sn_TX_WR, Sn_TX_RD, txEnd, echoed, last>>
      /\ UNCHANGED driver
  BY DEF Receive, tx
<1>2. UNCHANGED <<call, pc, val, val1, buf, size, sentsize, len>> BY <1>1 DEF driver
<1>3. RSR \in 0 .. Word - 1 /\ RSR \in Nat /\ FSR \in Nat /\ Size \in Nat BY Sizes
<1>4. RxMAX \in 1 .. Word - 1 /\ Word % RxMAX = 0 /\ RxMAX \in Nat \ {0} /\ Word \in Nat
  BY BuffersAssumption, WordType
<1>5. RSR' = RSR + 1
  <2>1. Minus(Sn_RX_WR, rxOut) + 1 < Word BY <1>1, <1>3, <1>4 DEF RSR
  <2>2. Minus(Add(Sn_RX_WR, 1), rxOut) = Minus(Sn_RX_WR, rxOut) + 1
    BY <2>1, Pointers, MinusMore
  <2> QED BY <1>1, <2>2 DEF RSR, Minus
<1>6. FSR' = FSR /\ Queued' = Queued BY <1>1 DEF FSR, Queued, Minus
<1>7. Size' \in Nat /\ Size <= Size' BY <1>2, <1>3, <1>5, <1>6 DEF Size
<1>8. ReadInv' BY <1>1, <1>7, ReadingGrows
<1>9. Add(rxOut, RSR) = Sn_RX_WR BY Pointers, AddMinus DEF RSR
<1>10. Sn_RX_WR % RxMAX \in 0 .. RxMAX - 1 BY <1>3, <1>4, <1>9, Pointers, DivMod
<1>11. rxmem \in [0 .. RxMAX - 1 -> Nat] /\ came \in Nat BY DEF IInv, TypeOK
<1>12. rxmem' \in [0 .. RxMAX - 1 -> Nat] BY <1>1, <1>10, <1>11
<1>13. Sn_RX_WR' \in 0 .. Word - 1 BY <1>1, Pointers, AddType
<1>14. TypeOK' BY <1>1, <1>2, <1>11, <1>12, <1>13 DEF IInv, TypeOK
<1>15. RxInv'
  <2>1. RSR' <= RxMAX /\ RSR' <= came' BY <1>1, <1>3, <1>4, <1>5, <1>11 DEF IInv, RxInv
  <2>2. Sn_RX_RD' = (IF call = "recv" /\ pc = "command" THEN Add(rxOut, len) ELSE rxOut)'
    BY <1>1, <1>2 DEF IInv, RxInv, Add
  <2>3. ASSUME NEW i \in 0 .. RSR
        PROVE  rxmem'[Add(rxOut, i) % RxMAX] = came - RSR + i + 1
    <3>1. i \in Int /\ RSR \in Int BY <1>3
    <3>2. Add(rxOut, i) % RxMAX \in 0 .. RxMAX - 1 BY <3>1, <1>4, Pointers, CellType
    <3>3. CASE i < RSR
      <4>1. RSR < i + RxMAX BY <1>1, <1>3, <1>4
      <4>2. Add(rxOut, i) % RxMAX # Add(rxOut, RSR) % RxMAX
        BY <3>1, <3>3, <4>1, <1>4, Pointers, CellsDistinct
      <4>3. rxmem'[Add(rxOut, i) % RxMAX] = rxmem[Add(rxOut, i) % RxMAX]
        BY <1>1, <1>9, <1>10, <1>11, <3>2, <4>2
      <4>4. i \in 0 .. RSR - 1 BY <3>3, <1>3
      <4> QED BY <4>3, <4>4 DEF IInv, RxInv
    <3>4. CASE i = RSR
      <4>1. rxmem'[Add(rxOut, i) % RxMAX] = came + 1 BY <1>1, <1>9, <1>10, <1>11, <3>4
      <4> QED BY <4>1, <3>4, <1>3, <1>11
    <3> QED BY <3>3, <3>4, <1>3
  <2>4. ASSUME NEW i \in 0 .. RSR' - 1
        PROVE  rxmem'[(Add(rxOut, i) % RxMAX)'] = came' - RSR' + i + 1
    <3>1. i \in 0 .. RSR BY <1>3, <1>5
    <3>2. (Add(rxOut, i) % RxMAX)' = Add(rxOut, i) % RxMAX BY <1>1 DEF Add
    <3>3. came' - RSR' = came - RSR BY <1>1, <1>3, <1>5, <1>11
    <3> QED BY <2>3, <3>1, <3>2, <3>3
  <2> QED BY <2>1, <2>2, <2>4 DEF RxInv
<1>16. Filled' = Filled BY <1>2, <1>6 DEF Filled
<1>17. TxInv' BY <1>1, <1>2, <1>16 DEF IInv, TxInv, Add
<1>18. came' - RSR' = came - RSR BY <1>1, <1>3, <1>5, <1>11
<1>19. Owed' BY <1>1, <1>2, <1>6, <1>18 DEF IInv, Owed
<1>20. BufInv' BY <1>2, <1>18 DEF IInv, BufInv
<1>21. CallInv' BY <1>2, <1>3, <1>5, <1>6 DEF IInv, CallInv, Least
<1> QED BY <1>1, <1>5, <1>6, <1>8, <1>14, <1>15, <1>17, <1>19, <1>20, <1>21 DEF IInv

\* What goes out is the byte that follows the last.
LEMMA TransmitStep ==
  ASSUME IInv, Transmit
  PROVE  /\ IInv' /\ last' = echoed + 1 /\ echoed < came
         /\ RSR' = RSR /\ Queued # 0 /\ Queued' = Queued - 1
<1>1. /\ Sn_TX_RD # txEnd /\ Sn_TX_RD' = Add(Sn_TX_RD, 1) /\ echoed' = echoed + 1
      /\ last' = txmem[Sn_TX_RD % TxMAX]
      /\ UNCHANGED <<rxmem, Sn_RX_WR, Sn_RX_RD, rxOut, txmem, Sn_TX_WR, txEnd, came>>
      /\ UNCHANGED driver
  BY DEF Transmit, rx
<1>2. UNCHANGED <<call, pc, val, val1, buf, size, sentsize, len>> BY <1>1 DEF driver
<1>3. /\ RSR \in Nat /\ FSR \in Nat /\ Size \in Nat /\ Queued \in 0 .. TxMAX /\ Queued \in Nat
      /\ FSR = TxMAX - Queued /\ TxMAX \in Nat \ {0}
  BY Sizes, WordType
<1>4. Queued # 0
  <2>1. SUFFICES ASSUME Queued = 0 PROVE FALSE OBVIOUS
  <2>2. Add(Sn_TX_RD, 0) = txEnd BY <2>1, Pointers, AddMinus DEF Queued
  <2>3. Add(Sn_TX_RD, 0) = Sn_TX_RD BY Pointers, AddZero
  <2> QED BY <1>1, <2>2, <2>3
<1>5. Queued' = Queued - 1
  <2>1. 1 \in 0 .. Minus(txEnd, Sn_TX_RD) BY <1>3, <1>4 DEF Queued
  <2>2. Minus(txEnd, Add(Sn_TX_RD, 1)) = Minus(txEnd, Sn_TX_RD) - 1
    BY <2>1, Pointers, MinusLess
  <2> QED BY <1>1, <2>2 DEF Queued, Minus
<1>6. RSR' = RSR BY <1>1 DEF RSR, Minus
<1>7. FSR' = FSR + 1 BY <1>3, <1>5 DEF FSR, Queued
<1>8. Size' \in Nat /\ Size <= Size' BY <1>2, <1>3, <1>6, <1>7 DEF Size
<1>9. ReadInv' BY <1>1, <1>8, ReadingGrows
<1>10. Filled' = Filled - 1 /\ Filled \in Nat /\ Filled >= 1
  BY <1>2, <1>3, <1>4, <1>5, Numbers DEF Filled
<1>11. last' = echoed + 1
  <2>1. 0 \in 0 .. Filled - 1 BY <1>10
  <2>2. txmem[Add(Sn_TX_RD, 0) % TxMAX] = echoed + 0 + 1 BY <2>1 DEF IInv, TxInv
  <2>3. Add(Sn_TX_RD, 0) = Sn_TX_RD BY Pointers, AddZero
  <2> QED BY <1>1, <2>2, <2>3, Numbers
<1>12. Sn_TX_RD' \in 0 .. Word - 1 BY <1>1, Pointers, AddType
<1>13. TypeOK' BY <1>1, <1>2, <1>11, <1>12, Numbers DEF IInv, TypeOK
<1>14. RxInv' BY <1>1, <1>2, <1>6 DEF IInv, RxInv, Add
<1>15. TxInv'
  <2>1. Filled' <= TxMAX BY <1>3, <1>10 DEF IInv, TxInv
  <2>2. Sn_TX_WR' = (IF call = "send" /\ pc = "command" THEN Add(txEnd, len) ELSE txEnd)'
    BY <1>1, <1>2 DEF IInv, TxInv, Add
  <2>3. ASSUME NEW i \in 0 .. Filled' - 1
        PROVE  txmem'[(Add(Sn_TX_RD, i) % TxMAX)'] = echoed' + i + 1
    <3>1. 1 \in Int /\ i \in Int /\ 1 + i \in 0 .. Filled - 1 BY <1>10
    <3>2. Add(Add(Sn_TX_RD, 1), i) = Add(Sn_TX_RD, 1 + i) BY <3>1, Pointers, AddAdd
    <3>3. txmem[Add(Sn_TX_RD, 1 + i) % TxMAX] = echoed + (1 + i) + 1
      BY <3>1 DEF IInv, TxInv
    <3>4. (Add(Sn_TX_RD, i) % TxMAX)' = Add(Add(Sn_TX_RD, 1), i) % TxMAX BY <1>1 DEF Add
    <3> QED BY <1>1, <3>1, <3>2, <3>3, <3>4, Numbers
  <2> QED BY <2>1, <2>2, <2>3 DEF TxInv
<1>16. Owed' BY <1>1, <1>2, <1>3, <1>5, <1>6, Numbers DEF IInv, Owed
<1>17. BufInv' BY <1>1, <1>2, <1>6 DEF IInv, BufInv
<1>18. CallInv' BY <1>2, <1>3, <1>6, <1>7, Numbers DEF IInv, CallInv, Least
<1>19. echoed < came BY <1>3, <1>4, Numbers DEF IInv, Owed
<1> QED BY <1>4, <1>5, <1>6, <1>9, <1>11, <1>13, <1>14, <1>15, <1>16, <1>17, <1>18, <1>19 DEF IInv

-----------------------------------------------------------------------------
LEMMA InitIInv == Init => IInv
<1> SUFFICES ASSUME Init PROVE IInv
  OBVIOUS
<1>1. Start \in 0 .. Word - 1 /\ DATA_BUF_SIZE \in Nat \ {0} BY BuffersAssumption
<1>2. Minus(Start, Start) = 0
  <2>1. Start \in Int /\ Start - Start = 0 BY <1>1, WordType
  <2>2. 0 % Word = 0 BY WordType, ModSmall
  <2> QED BY <2>1, <2>2 DEF Minus
<1>3. RSR = 0 /\ Queued = 0 /\ FSR = TxMAX BY <1>2, WordType DEF Init, RSR, Queued, FSR
<1>4. Filled = 0 BY <1>3 DEF Init, Filled
<1>5. TypeOK BY <1>1, WordType DEF Init, TypeOK
<1>6. RxInv BY <1>3, WordType DEF Init, RxInv
<1>7. TxInv BY <1>4, WordType DEF Init, TxInv
<1>8. Owed BY <1>3 DEF Init, Owed
<1>9. BufInv /\ CallInv /\ ReadInv BY DEF Init, BufInv, CallInv, ReadInv
<1> QED BY <1>5, <1>6, <1>7, <1>8, <1>9 DEF IInv

LEMMA NextIInv == IInv /\ [Next]_vars => IInv'
<1> SUFFICES ASSUME IInv, [Next]_vars PROVE IInv'
  OBVIOUS
<1>1. CASE ReadHigh1 \/ ReadLow1 \/ ReadHigh2 \/ ReadLow2 \/ ReadAgain BY <1>1, ReadStep
<1>2. CASE LoopbackSize \/ RecvSize \/ SendSize BY <1>2, SizeStep
<1>3. CASE RecvData BY <1>3, RecvDataStep
<1>4. CASE Recv BY <1>4, RecvStep
<1>5. CASE SendData BY <1>5, SendDataStep
<1>6. CASE Send BY <1>6, SendStep
<1>7. CASE Receive BY <1>7, ReceiveStep
<1>8. CASE Transmit BY <1>8, TransmitStep
<1>9. CASE UNCHANGED vars
  <2>1. UNCHANGED <<rx, tx, driver, peer>> BY <1>9 DEF vars
  <2>2. /\ UNCHANGED <<rxmem, Sn_RX_WR, Sn_RX_RD, rxOut, txmem, Sn_TX_WR, Sn_TX_RD, txEnd>>
        /\ UNCHANGED <<call, pc, val, val1, buf, size, sentsize, len, came, echoed, last>>
    BY <2>1 DEF rx, tx, driver, peer
  <2>3. RSR' = RSR /\ FSR' = FSR /\ Queued' = Queued BY <2>2 DEF RSR, FSR, Queued, Minus
  <2>4. Filled' = Filled /\ Size' = Size BY <2>2, <2>3 DEF Filled, Size
  <2>5. TypeOK' BY <2>2 DEF IInv, TypeOK
  <2>6. RxInv' /\ TxInv' BY <2>2, <2>3, <2>4 DEF IInv, RxInv, TxInv, Add
  <2>7. Owed' /\ BufInv' /\ CallInv' BY <2>2, <2>3 DEF IInv, Owed, BufInv, CallInv, Least
  <2>8. ReadInv' BY <2>2, <2>4 DEF IInv, ReadInv, Between
  <2> QED BY <2>5, <2>6, <2>7, <2>8 DEF IInv
<1> QED BY <1>1, <1>2, <1>3, <1>4, <1>5, <1>6, <1>7, <1>8, <1>9 DEF Next, Driver

\* Every state the firmware and the chip reach satisfies IInv: both rings hold the
\* bytes that are due, and the driver knows of a size no more than is true.
THEOREM Invariance == Spec => []IInv
BY InitIInv, NextIInv, PTL DEF Spec

\* Pointers stay pointers and loopback_tcps's sizes stay in its buffer.
THEOREM TypeCorrect == Spec => []TypeOK
<1>1. IInv => TypeOK BY DEF IInv
<1> QED BY <1>1, Invariance, PTL

\* Whatever the chip does while a size is read: recv reads only bytes that have
\* come, send writes only where the chip is done with.
THEOREM CopiesInBounds == Spec => []InBounds
<1>1. IInv => InBounds
  <2> SUFFICES ASSUME IInv, pc = "data" PROVE InBounds
    BY DEF InBounds
  <2>1. RSR \in Nat /\ FSR \in Nat BY Sizes
  <2>2. CASE call = "recv"
    BY <2>1, <2>2, Numbers DEF IInv, CallInv, InBounds
  <2>3. CASE call = "send"
    <3>1. sentsize < size /\ len = Least(size - sentsize, TxMAX) /\ len <= FSR
      BY <2>3 DEF IInv, CallInv
    <3>2. len >= 1 /\ sentsize + len <= size BY <3>1, Numbers, WordType DEF Least
    <3> QED BY <2>1, <2>3, <3>1, <3>2, Numbers DEF InBounds
  <2> QED BY <2>2, <2>3 DEF InBounds
<1> QED BY <1>1, Invariance, PTL

\* The peer gets back what it sent, each byte once and in order.
THEOREM BuffersArePipe == Spec => ImplementsPipe
<1>1. Init => Pipe!Init BY DEF Init, Pipe!Init
<1>2. IInv /\ [Next]_vars => [Pipe!Next]_<<came, echoed, last>>
  <2> SUFFICES ASSUME IInv, [Next]_vars PROVE [Pipe!Next]_<<came, echoed, last>>
    OBVIOUS
  <2>1. CASE Receive BY <2>1 DEF Receive, Pipe!Next, Pipe!Put
  <2>2. CASE Transmit
    <3>1. last' = echoed + 1 /\ echoed < came BY <2>2, TransmitStep
    <3> QED BY <2>2, <3>1 DEF Transmit, Pipe!Next, Pipe!Get
  <2>3. CASE Driver
    BY <2>3 DEF Driver, ReadHigh1, ReadLow1, ReadHigh2, ReadLow2, ReadAgain,
                LoopbackSize, RecvSize, RecvData, Recv, SendSize, SendData, Send, peer
  <2>4. CASE UNCHANGED vars BY <2>4 DEF vars, peer
  <2> QED BY <2>1, <2>2, <2>3, <2>4 DEF Next
<1> QED BY <1>1, <1>2, Invariance, PTL DEF Spec, ImplementsPipe, Pipe!Spec

-----------------------------------------------------------------------------
(* Why every byte comes back.  EchoArrives rests on these facts about      *)
(* states and steps: no byte is forgotten; a size is read in a bounded     *)
(* number of steps, however often it changes meanwhile; and where the      *)
(* driver waits, there is something to wait for.                           *)

\* When the buffers are empty and loopback_tcps has nothing in hand, all is echoed.
NoneForgotten == call = "loopback" /\ RSR = 0 /\ Queued = 0 => echoed = came

Reading == {"high1", "low1", "high2", "low2", "compare"}

\* What has been read so far is of the size as it is now.
Fresh ==
  /\ pc = "low1"    => val1 = Size \div Byte
  /\ pc = "high2"   => val1 = Size
  /\ pc = "low2"    => val1 = Size /\ val = Size \div Byte
  /\ pc = "compare" => val1 = Size /\ val = Size

\* How often the size can change before the driver gives a command.
Changes == IF call = "send" THEN Queued ELSE RxMAX - RSR

Place ==
  CASE pc = "high1" -> 5
    [] pc = "low1"  -> 4
    [] pc = "high2" -> 3
    [] pc = "low2"  -> 2
    [] OTHER        -> 1

\* Steps to the end of the reading, at the most: a change makes what was read
\* worthless, but then another reading is enough.
StepsLeft == 10 * Changes + (IF Fresh THEN 0 ELSE 5) + Place

\* The reading is over: loopback_tcps has its size, or send the one there is.
Done == Returned /\ (call = "loopback" \/ (call = "send" /\ Fresh))

\* Each step until then is one of those that were left.
ReadingIsShort ==
  [][{pc, pc'} \subseteq Reading /\ call' = call /\ ~Done =>
       /\ StepsLeft \in Nat /\ StepsLeft' <= StepsLeft
       /\ driver' # driver \/ Size' # Size => StepsLeft' < StepsLeft]_vars

\* recv has its bytes, and send waits for room only while bytes are under way, which
\* the peer acknowledges.
WaitsForSomething ==
  /\ call = "recv" => RSR > 0
  /\ Done /\ call = "send" /\ ~HasRoom => Sn_TX_RD # txEnd

\* What a reading that was thrown away has left in val is a size that is still there.
ValInv == pc \in Reading /\ val # 0 => Size # 0

\* No byte is left behind.
THEOREM NothingForgotten == Spec => []NoneForgotten
<1>1. IInv => NoneForgotten
  <2> SUFFICES ASSUME IInv, call = "loopback", RSR = 0, Queued = 0 PROVE echoed = came
    BY DEF NoneForgotten
  <2> QED BY DEF IInv, TypeOK, Owed
<1> QED BY <1>1, Invariance, PTL

\* Where a pointer meets another there is nothing in between.
LEMMA NoneQueued == ASSUME IInv, Sn_TX_RD = txEnd PROVE Queued = 0
<1>1. txEnd \in Int /\ txEnd - txEnd = 0 BY WordType DEF IInv, TypeOK
<1>2. 0 % Word = 0 BY WordType, ModSmall
<1> QED BY <1>1, <1>2 DEF Queued, Minus

\* The driver waits for bytes only when they are there, for room only when it will come.
THEOREM NoEmptyWait == Spec => []WaitsForSomething
<1>1. ASSUME IInv PROVE WaitsForSomething
  <2>1. RSR \in Nat /\ Queued \in Nat /\ FSR = TxMAX - Queued /\ TxMAX \in Nat
    BY <1>1, Sizes, WordType
  <2>2. call = "recv" => RSR > 0 BY <1>1, <2>1 DEF IInv, CallInv
  <2>3. ASSUME Done, call = "send", ~HasRoom PROVE Queued # 0
    <3>1. val = FSR BY <2>3 DEF Done, Returned, Fresh, Size
    <3>2. len = Least(size - sentsize, TxMAX) /\ size \in Nat /\ sentsize \in Nat
      BY <1>1, <2>3, Numbers DEF IInv, CallInv
    <3>3. len <= TxMAX BY <2>1, <3>2 DEF Least
    <3> QED BY <2>1, <2>3, <3>1, <3>2, <3>3 DEF HasRoom, Least
  <2> QED BY <1>1, <2>2, <2>3, NoneQueued DEF WaitsForSomething
<1> QED BY <1>1, Invariance, PTL

\* The steps that read a byte of a size change no size.
LEMMA ReadersKeep ==
  ASSUME IInv, ReadHigh1 \/ ReadLow1 \/ ReadHigh2 \/ ReadLow2 \/ ReadAgain
  PROVE  Size' = Size /\ Changes' = Changes
<1>1. /\ UNCHANGED <<rxmem, Sn_RX_WR, Sn_RX_RD, rxOut, txmem, Sn_TX_WR, Sn_TX_RD, txEnd>>
      /\ UNCHANGED call
  BY DEF ReadHigh1, ReadLow1, ReadHigh2, ReadLow2, ReadAgain, rx, tx
<1> QED BY <1>1 DEF Size, RSR, FSR, Queued, Minus, Changes

\* Nothing divided is nothing.
LEMMA NoDigits == 0 \div Byte = 0 /\ 0 % Byte = 0
<1>1. Byte \in Nat \ {0} /\ 0 \in 0 .. Byte - 1 /\ Byte * 0 + 0 = 0 BY BuffersAssumption
<1> QED BY <1>1, ModOf

LEMMA ValStep == ASSUME IInv, ValInv, [Next]_vars PROVE ValInv'
<1>1. Size \in Nat /\ val \in Nat /\ Byte \in Nat \ {0}
  BY Sizes, BuffersAssumption DEF IInv, TypeOK
<1>2. CASE ReadHigh1 \/ ReadLow1 \/ ReadAgain
  <2>1. Size' = Size BY <1>2, ReadersKeep
  <2>2. val' = val /\ pc \in Reading
    BY <1>2 DEF ReadHigh1, ReadLow1, ReadAgain, Reading
  <2> QED BY <2>1, <2>2 DEF ValInv
<1>3. CASE ReadHigh2
  <2>1. Size' = Size /\ val' = Size \div Byte BY <1>3, ReadersKeep DEF ReadHigh2
  <2> QED BY <2>1, NoDigits DEF ValInv
<1>4. CASE ReadLow2
  <2>1. Size' = Size /\ val' = (val * Byte) + (Size % Byte) /\ pc \in Reading
    BY <1>4, ReadersKeep DEF ReadLow2, Reading
  <2>2. Size = 0 => val = 0 BY <2>1 DEF ValInv
  <2>3. Size = 0 => val' = 0 BY <1>1, <2>1, <2>2, NoDigits
  <2> QED BY <2>1, <2>3 DEF ValInv
<1>5. CASE LoopbackSize \/ RecvSize \/ RecvData \/ Recv \/ SendSize \/ SendData \/ Send
  <2>1. val' = 0 \/ pc' \in {"data", "command"}
    BY <1>5 DEF LoopbackSize, RecvSize, RecvData, Recv, SendSize, SendData, Send, SendRest, Read
  <2> QED BY <2>1 DEF ValInv, Reading
<1>6. CASE Receive \/ Transmit
  <2>1. UNCHANGED <<call, pc, val>> BY <1>6 DEF Receive, Transmit, driver
  <2>2. IInv' BY <1>6, ReceiveStep, TransmitStep
  <2>3. Size' \in Nat /\ Size' >= Size
    <3>1. /\ RSR \in Nat /\ Queued \in Nat /\ FSR = TxMAX - Queued
          /\ RSR' \in Nat /\ Queued' \in Nat /\ FSR' = TxMAX - Queued' /\ Size' \in Nat
      BY <2>2, Sizes, SizesNext
    <3>2. RSR' >= RSR /\ Queued' <= Queued BY <1>6, <3>1, ReceiveStep, TransmitStep
    <3>3. call' = call BY <2>1
    <3>4. FSR' >= FSR /\ RSR' >= RSR
      <4>1. TxMAX \in Int BY WordType
      <4>2. \A q, r \in Nat : r <= q => TxMAX - r >= TxMAX - q BY <4>1
      <4>3. TxMAX - Queued' >= TxMAX - Queued BY <3>1, <3>2, <4>2
      <4> QED BY <3>1, <3>2, <4>3
    <3>5. CASE call = "send"
      <4>1. Size = FSR /\ Size' = FSR' BY <3>3, <3>5 DEF Size
      <4> QED BY <3>1, <3>4, <4>1
    <3>6. CASE call # "send"
      <4>1. Size = RSR /\ Size' = RSR' BY <3>3, <3>6 DEF Size
      <4> QED BY <3>1, <3>4, <4>1
    <3> QED BY <3>5, <3>6
  <2> QED BY <1>1, <2>1, <2>3 DEF ValInv
<1>7. CASE UNCHANGED vars
  <2>1. UNCHANGED <<rx, tx, driver>> BY <1>7 DEF vars
  <2>2. Size' = Size /\ UNCHANGED <<pc, val>>
    BY <2>1 DEF rx, tx, driver, Size, RSR, FSR, Minus
  <2> QED BY <2>2 DEF ValInv
<1> QED BY <1>2, <1>3, <1>4, <1>5, <1>6, <1>7 DEF Next, Driver

LEMMA ChangesType == ASSUME IInv PROVE Changes \in Nat /\ Place \in 1 .. 5
<1>1. RSR \in Nat /\ RSR <= RxMAX /\ RxMAX \in Nat /\ Queued \in Nat
  BY Sizes, WordType DEF IInv, RxInv
<1> QED BY <1>1 DEF Changes, Place

StepsType == StepsLeft \in Nat

LEMMA StepsInv == IInv => StepsType
BY ChangesType DEF StepsLeft, StepsType

LEMMA StepsNext == IInv' => StepsType'
BY StepsInv, PTL

\* A step that reads a byte keeps a fresh reading fresh; a reading that is thrown
\* away was not, and the next one is.
LEMMA ReadersAdvance ==
  ASSUME IInv, ValInv, ReadHigh1 \/ ReadLow1 \/ ReadHigh2 \/ ReadLow2 \/ ReadAgain
  PROVE  StepsLeft' < StepsLeft
<1>1. Size' = Size /\ Changes' = Changes BY ReadersKeep
<1>2. /\ Size \in Nat /\ val \in Nat /\ val1 \in Nat /\ Changes \in Nat
      /\ Size \div Byte \in Nat
  <2>1. Size \in Nat /\ Byte \in Nat \ {0} BY Sizes, BuffersAssumption
  <2>2. Size \div Byte \in Nat BY <2>1, DivMonotone
  <2>3. val \in Nat /\ val1 \in Nat BY DEF IInv, TypeOK
  <2> QED BY <2>1, <2>2, <2>3, ChangesType
<1>3. \/ (Fresh => Fresh') /\ Place' < Place /\ Place \in Nat /\ Place' \in Nat
      \/ ~Fresh /\ Fresh' /\ Place = 1 /\ Place' = 5
  <2>1. CASE ReadHigh1
    <3>1. pc = "high1" /\ pc' = "low1" /\ val1' = Size \div Byte BY <2>1 DEF ReadHigh1
    <3> QED BY <3>1, <1>1 DEF Fresh, Place
  <2>2. CASE ReadLow1
    <3>1. /\ pc = "low1" /\ val1' = (val1 * Byte) + (Size % Byte) /\ val' = val
          /\ pc' = IF val1' = 0 THEN "compare" ELSE "high2"
      BY <2>2 DEF ReadLow1
    <3>2. val1 = Size \div Byte => val1' = Size BY <3>1, <1>2, Digits
    <3>3. Size = 0 => val = 0 BY <3>1 DEF ValInv, Reading
    <3>4. Fresh => Fresh' BY <3>1, <3>2, <3>3, <1>1 DEF Fresh
    <3>5. Place = 4 /\ Place' \in {1, 3} BY <3>1 DEF Place
    <3> QED BY <3>4, <3>5
  <2>3. CASE ReadHigh2
    <3>1. pc = "high2" /\ pc' = "low2" /\ val' = Size \div Byte /\ val1' = val1
      BY <2>3 DEF ReadHigh2
    <3> QED BY <3>1, <1>1 DEF Fresh, Place
  <2>4. CASE ReadLow2
    <3>1. /\ pc = "low2" /\ pc' = "compare" /\ val' = (val * Byte) + (Size % Byte)
          /\ val1' = val1
      BY <2>4 DEF ReadLow2
    <3>2. val = Size \div Byte => val' = Size BY <3>1, <1>2, Digits
    <3>3. Fresh => Fresh' BY <3>1, <3>2, <1>1 DEF Fresh
    <3>4. Place = 2 /\ Place' = 1 BY <3>1 DEF Place
    <3> QED BY <3>3, <3>4
  <2>5. CASE ReadAgain
    <3>1. pc = "compare" /\ val # val1 /\ pc' = "high1" BY <2>5 DEF ReadAgain
    <3> QED BY <3>1 DEF Fresh, Place
  <2> QED BY <2>1, <2>2, <2>3, <2>4, <2>5
<1> QED BY <1>1, <1>2, <1>3 DEF StepsLeft

\* So does a call that returns to its loop with a size that is out of date.
LEMMA LoopsAdvance ==
  ASSUME IInv, RecvSize \/ SendSize, pc' \in Reading, ~Done
  PROVE  StepsLeft' < StepsLeft
<1>1. /\ UNCHANGED <<rxmem, Sn_RX_WR, Sn_RX_RD, rxOut, txmem, Sn_TX_WR, Sn_TX_RD, txEnd>>
      /\ UNCHANGED call /\ Returned
  BY DEF RecvSize, SendSize, rx, tx
<1>2. Changes' = Changes /\ Changes \in Nat
  BY <1>1, ChangesType DEF Changes, Queued, RSR, Minus
<1>3. pc' = "high1" BY DEF RecvSize, SendSize, Read, Reading
<1>4. ~Fresh
  <2>1. CASE RecvSize
    <3>1. call = "recv" /\ val = 0 BY <2>1 DEF RecvSize, Reading
    <3>2. Size # 0 BY <3>1, Sizes DEF IInv, CallInv, Size
    <3> QED BY <1>1, <3>1, <3>2 DEF Fresh, Returned
  <2>2. CASE SendSize BY <1>1, <2>2 DEF SendSize, Done
  <2> QED BY <2>1, <2>2
<1>5. Fresh' /\ Place = 1 /\ Place' = 5 BY <1>1, <1>3 DEF Fresh, Place, Returned
<1> QED BY <1>2, <1>4, <1>5 DEF StepsLeft

\* A change costs a reading, but there is one change less to come.
LEMMA ChangeCosts ==
  ASSUME IInv, Receive \/ Transmit
  PROVE  StepsLeft' <= StepsLeft /\ (Size' # Size => StepsLeft' < StepsLeft)
<1>1. UNCHANGED driver /\ UNCHANGED <<call, pc, val, val1>>
  BY DEF Receive, Transmit, driver
<1>2. Changes \in Nat /\ Place \in 1 .. 5 /\ Place' = Place
  BY <1>1, ChangesType DEF Place
<1>3. \/ Size' = Size /\ Changes' = Changes
      \/ Changes' = Changes - 1
  <2>1. RSR \in Nat /\ Queued \in Nat /\ RxMAX \in Nat /\ call' = call
    BY <1>1, Sizes, WordType
  <2>2. CASE Receive
    <3>1. RSR' = RSR + 1 /\ Queued' = Queued BY <2>2, ReceiveStep
    <3>2. FSR' = FSR BY <2>2 DEF Receive, tx, FSR, Minus
    <3>3. CASE call = "send" BY <2>1, <3>1, <3>2, <3>3 DEF Size, Changes
    <3>4. CASE call # "send" BY <2>1, <3>1, <3>4 DEF Changes
    <3> QED BY <3>3, <3>4
  <2>3. CASE Transmit
    <3>1. RSR' = RSR /\ Queued' = Queued - 1 BY <2>3, TransmitStep
    <3>2. CASE call = "send" BY <2>1, <3>1, <3>2 DEF Changes
    <3>3. CASE call # "send" BY <2>1, <3>1, <3>3 DEF Size, Changes
    <3> QED BY <3>2, <3>3
  <2> QED BY <2>2, <2>3
<1>4. Size' = Size => Fresh' = Fresh BY <1>1 DEF Fresh
<1> QED BY <1>2, <1>3, <1>4 DEF StepsLeft

\* A size is read in so many steps, however often it changes meanwhile.
THEOREM ReadingsEnd == Spec => ReadingIsShort
<1> DEFINE A == {pc, pc'} \subseteq Reading /\ call' = call /\ ~Done =>
                  /\ StepsLeft \in Nat /\ StepsLeft' <= StepsLeft
                  /\ driver' # driver \/ Size' # Size => StepsLeft' < StepsLeft
<1>1. Init => ValInv BY DEF Init, ValInv
<1>2. IInv /\ ValInv /\ [Next]_vars => ValInv' BY ValStep
<1>3. IInv /\ ValInv /\ [Next]_vars => [A]_vars
  <2> SUFFICES ASSUME IInv, ValInv, Next, {pc, pc'} \subseteq Reading, call' = call, ~Done
               PROVE  /\ StepsLeft \in Nat /\ StepsLeft' <= StepsLeft
                      /\ driver' # driver \/ Size' # Size => StepsLeft' < StepsLeft
    OBVIOUS
  <2>1. StepsLeft \in Nat BY StepsInv DEF StepsType
  <2>2. StepsLeft' \in Nat BY NextIInv, StepsNext DEF StepsType
  <2>3. CASE ReadHigh1 \/ ReadLow1 \/ ReadHigh2 \/ ReadLow2 \/ ReadAgain
    BY <2>1, <2>2, <2>3, ReadersAdvance
  <2>4. CASE RecvSize \/ SendSize BY <2>1, <2>2, <2>4, LoopsAdvance
  <2>5. CASE Receive \/ Transmit
    <3>1. driver' = driver BY <2>5 DEF Receive, Transmit
    <3> QED BY <2>1, <2>5, <3>1, ChangeCosts
  <2>6. CASE LoopbackSize BY <2>6 DEF LoopbackSize, Done
  <2>7. CASE RecvData \/ Recv \/ SendData \/ Send
    BY <2>7 DEF RecvData, Recv, SendData, Send, Reading
  <2> QED BY <2>3, <2>4, <2>5, <2>6, <2>7 DEF Next, Driver
<1>4. Spec => [][A]_vars BY <1>1, <1>2, <1>3, Invariance, PTL DEF Spec
<1> QED BY <1>4 DEF ReadingIsShort
=============================================================================
