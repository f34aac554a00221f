------------------------ MODULE SocketManagerProofs ------------------------
(***************************************************************************)
(* The sockets of CPU0, for any number of slots, control blocks and        *)
(* connections, any size of the rings and of the channel, and segments of  *)
(* any length.                                                             *)
(*                                                                         *)
(* A ring is reasoned about from its head back: the j-th byte from the end *)
(* is in cell (head - j) % RingSize, before and after tail moves.          *)
(***************************************************************************)
EXTENDS MCSocketManager, SequenceTheorems, WellFoundedInduction, TLAPS

(***************************************************************************)
(* Remainders, and the largest and least of a set.                         *)
(***************************************************************************)
LEMMA SmallMultiple ==
  ASSUME NEW N \in Nat \ {0}, NEW d \in Int, -N < N * d, N * d < N PROVE d = 0
<1>1. CASE d >= 1
  BY <1>1
<1>2. CASE d <= -1
  <2>1. N * d <= -N
    BY <1>2
  <2> QED BY <2>1
<1> QED BY <1>1, <1>2

LEMMA ModIs ==
  ASSUME NEW N \in Nat \ {0}, NEW x \in Int
  PROVE  x % N \in 0 .. N - 1 /\ \E q \in Int : x = N * q + (x % N)
<1>1. x % N \in 0 .. N - 1 /\ x \div N \in Int /\ x = N * (x \div N) + (x % N)
  OBVIOUS
<1> QED BY <1>1

LEMMA ModUnique ==
  ASSUME NEW N \in Nat \ {0}, NEW q \in Int, NEW r \in 0 .. N - 1, NEW x \in Int, x = N * q + r
  PROVE  x % N = r
<1>1. PICK p \in Int : x = N * p + (x % N)
  BY ModIs
<1> DEFINE s == x % N
<1>2. s \in 0 .. N - 1
  BY ModIs
<1> HIDE DEF s
<1>3. N * p + s = N * q + r
  BY <1>1 DEF s
<1>4. N * (p - q) = r - s
  BY <1>2, <1>3
<1>5. p - q = 0
  <2>1. -N < N * (p - q) /\ N * (p - q) < N
    BY <1>2, <1>4
  <2> QED BY <2>1, SmallMultiple
<1>6. r = s
  BY <1>2, <1>4, <1>5
<1> QED BY <1>6 DEF s

(* A remainder may be taken early.                                         *)
LEMMA ModAdd ==
  ASSUME NEW N \in Nat \ {0}, NEW x \in Int, NEW y \in Int
  PROVE  ((x % N) + y) % N = (x + y) % N
<1> DEFINE s == x % N
           z == s + y
           r == z % N
<1>1. PICK p \in Int : x = N * p + s
  BY ModIs
<1>2. s \in 0 .. N - 1 /\ z \in Int
  BY ModIs
<1>3. (\E q \in Int : z = N * q + r) /\ r \in 0 .. N - 1
  <2> HIDE DEF z
  <2> QED BY <1>2, ModIs
<1>4. PICK q \in Int : z = N * q + r
  BY <1>3
<1> HIDE DEF s, r
<1>5. x + y = N * (p + q) + r /\ p + q \in Int /\ x + y \in Int
  BY <1>1, <1>2, <1>3, <1>4
<1> HIDE DEF z
<1>6. (x + y) % N = r
  <2> DEFINE w == x + y
             u == p + q
  <2>1. w \in Int /\ u \in Int /\ w = N * u + r /\ r \in 0 .. N - 1
    BY <1>3, <1>5
  <2> HIDE DEF w, u
  <2>2. w % N = r
    BY <2>1, ModUnique
  <2> QED BY <2>2 DEF w
<1> QED BY <1>6 DEF r, z, s

(* Positions closer than N are in different cells.                         *)
LEMMA ModApart ==
  ASSUME NEW N \in Nat \ {0}, NEW x \in Int, NEW y \in Int, x % N = y % N, -N < x - y, x - y < N
  PROVE  x = y
<1> DEFINE r == x % N
<1>1. r \in 0 .. N - 1 /\ (\E p \in Int : x = N * p + r) /\ (\E p \in Int : y = N * p + r)
  BY ModIs
<1> HIDE DEF r
<1>2. PICK p \in Int : x = N * p + r
  BY <1>1
<1>3. PICK q \in Int : y = N * q + r
  BY <1>1
<1>4. N * (p - q) = x - y
  <2>1. N * (p - q) = N * p - N * q /\ N * p \in Int /\ N * q \in Int /\ r \in Int
    BY <1>1
  <2> QED BY <1>2, <1>3, <2>1
<1>5. p - q = 0
  <2> DEFINE d == p - q
  <2>1. d \in Int /\ -N < N * d /\ N * d < N
    BY <1>4
  <2> HIDE DEF d
  <2>2. d = 0
    BY <2>1, SmallMultiple
  <2> QED BY <2>2 DEF d
<1> QED BY <1>2, <1>3, <1>5

LEMMA ModOf == ASSUME NEW N \in Nat \ {0}, NEW r \in 0 .. N - 1 PROVE r % N = r
BY ModUnique, r = N * 0 + r

LEMMA Least ==
  ASSUME NEW T \in SUBSET Nat, T # {} PROVE \E x \in T : \A y \in T : x <= y
<1> DEFINE R == OpToRel(<, Nat)
<1>1. IsWellFoundedOn(R, Nat)
  BY NatLessThanWellFounded
<1>2. \A a, b \in Nat : a < b => <<a, b>> \in R
  BY DEF OpToRel
<1> HIDE DEF R
<1>3. PICK x \in T : \A y \in T : ~(<<y, x>> \in R)
  BY <1>1, WFMin
<1>4. ASSUME NEW y \in T PROVE x <= y
  <2>1. x \in Nat /\ y \in Nat /\ ~(<<y, x>> \in R)
    BY <1>3
  <2>2. ~(y < x)
    BY <1>2, <2>1
  <2> QED BY <2>1, <2>2
<1> QED BY <1>4

LEMMA MinIs ==
  ASSUME NEW S \in SUBSET Nat, S # {} PROVE Min(S) \in S /\ \A y \in S : Min(S) <= y
BY Least DEF Min

LEMMA MaxIs ==
  ASSUME NEW S \in SUBSET Int, NEW m \in S, \A y \in S : m >= y PROVE Max(S) = m
<1>1. \A x \in S : (\A y \in S : x >= y) => x = m
  <2>1. \A x \in S : x \in Int /\ m \in Int
    OBVIOUS
  <2> QED BY <2>1
<1> QED BY <1>1 DEF Max

LEMMA MaxOfRange ==
  ASSUME NEW n \in Nat, NEW S \in SUBSET (1 .. n), S # {}
  PROVE  Max(S) \in S /\ \A y \in S : Max(S) >= y
<1> DEFINE T == {n - y : y \in S}
<1>1. T \in SUBSET Nat /\ T # {}
  <2>1. \A y \in S : n - y \in Nat
    OBVIOUS
  <2> QED BY <2>1
<1>2. PICK x \in T : \A y \in T : x <= y
  BY <1>1, Least
<1>3. PICK m \in S : x = n - m
  BY <1>2
<1>4. \A y \in S : m >= y
  <2>1. \A y \in S : n - m <= n - y /\ y \in Int /\ m \in Int
    BY <1>2, <1>3
  <2> QED BY <2>1
<1>5. Max(S) = m
  <2>1. S \in SUBSET Int
    OBVIOUS
  <2> QED BY <1>4, <2>1, MaxIs
<1> QED BY <1>4, <1>5

-----------------------------------------------------------------------------
(***************************************************************************)
(* The ring.  Cell j back from head, and the w bytes that wait in it.      *)
(***************************************************************************)
Back(head, j) == (head - j) % RingSize
Waits(rb, w) == w \in 0 .. Capacity /\ rb.tail = Back(rb.head, w)

LEMMA BackIs ==
  ASSUME NEW x \in Int, NEW j \in Int, NEW i \in Int
  PROVE  /\ Back(x, j) \in Cells
         /\ Back(Back(x, j), i) = Back(x, j + i)
         /\ (Back(x, j) + i) % RingSize = Back(x, j - i)
         /\ Back(x % RingSize, j) = Back(x, j)
<1>1. RingSize \in Nat \ {0}
  BY RingSizeAssumption
<1>2. Back(x, j) \in Cells
  <2>1. x - j \in Int
    OBVIOUS
  <2> QED BY <1>1, <2>1, ModIs DEF Back, Cells
<1>3. \A a, b \in Int : ((a % RingSize) + b) % RingSize = (a + b) % RingSize
  BY <1>1, ModAdd
<1>4. /\ x - j \in Int /\ -i \in Int /\ -j \in Int
      /\ (x - j) + -i = x - (j + i) /\ (x - j) + i = x - (j - i) /\ x + -j = x - j
  OBVIOUS
<1>5. /\ (((x - j) % RingSize) + -i) % RingSize = ((x - j) + -i) % RingSize
      /\ (((x - j) % RingSize) + i) % RingSize = ((x - j) + i) % RingSize
      /\ ((x % RingSize) + -j) % RingSize = (x + -j) % RingSize
  BY <1>3, <1>4
<1>6. \A a \in Int : a % RingSize \in Int
  BY <1>1
<1>7. /\ ((x - j) % RingSize) + -i = ((x - j) % RingSize) - i
      /\ (x % RingSize) + -j = (x % RingSize) - j
  <2>1. (x - j) % RingSize \in Int /\ x % RingSize \in Int
    BY <1>4, <1>6
  <2> QED BY <2>1
<1> QED BY <1>2, <1>4, <1>5, <1>7 DEF Back

LEMMA UsedIs ==
  ASSUME NEW rb, rb.head \in Cells, NEW w, Waits(rb, w)
  PROVE  BytesUsed(rb) = w /\ BytesFree(rb) = Capacity - w
<1>1. RingSize \in Nat \ {0} /\ w \in 0 .. RingSize - 1 /\ rb.head \in 0 .. RingSize - 1
  BY RingSizeAssumption DEF Waits, Capacity, Cells
<1>2. CASE w <= rb.head
  <2>1. rb.head - w \in 0 .. RingSize - 1
    BY <1>1, <1>2
  <2>2. rb.tail = rb.head - w
    BY <1>1, <2>1, ModOf DEF Waits, Back
  <2> QED BY <1>1, <1>2, <2>2 DEF BytesUsed, BytesFree, Capacity
<1>3. CASE w > rb.head
  <2> DEFINE r == rb.head - w + RingSize
  <2>1. r \in 0 .. RingSize - 1 /\ rb.head - w \in Int /\ rb.head - w = RingSize * (-1) + r
    BY <1>1, <1>3
  <2> HIDE DEF r
  <2>2. rb.tail = r
    <3>1. -1 \in Int
      OBVIOUS
    <3> QED BY <1>1, <2>1, <3>1, ModUnique DEF Waits, Back
  <2> QED BY <1>1, <1>3, <2>2 DEF BytesUsed, BytesFree, Capacity, r
<1> QED BY <1>1, <1>2, <1>3

LEMMA Later ==
  ASSUME NEW h \in Int, NEW N \in Nat \ {0}, NEW n \in Nat, NEW j \in Int, 1 <= j, j <= N,
         NEW k \in Int, k <= n, k > n - j + 1
  PROVE  LET a == h + (k - 1)
             b == (h + n) - j
         IN  a \in Int /\ b \in Int /\ -N < a - b /\ a - b < N /\ a # b
OBVIOUS

(* The bytes of the source are in the ring but for those later ones cover. *)
LEMMA FilledIs ==
  ASSUME NEW rb, rb.head \in Cells, NEW src, Len(src) \in Nat, NEW j \in 1 .. RingSize
  PROVE  LET n == Len(src)
             c == Back(rb.head + n, j)
         IN  Filled(rb, src)[c] = IF j <= n THEN src[n - j + 1] ELSE rb.buf[Back(rb.head, j - n)]
<1> DEFINE n == Len(src)
           c == Back(rb.head + n, j)
           Hits == {k \in 1 .. n : (rb.head + (k - 1)) % RingSize = c}
<1>1. /\ RingSize \in Nat \ {0} /\ n \in Nat /\ rb.head \in Int /\ rb.head + n \in Int
      /\ j \in Int /\ 1 <= j /\ j <= RingSize
  BY RingSizeAssumption DEF Cells
<1>2. c \in Cells
  BY <1>1, BackIs
<1>3. Filled(rb, src)[c] = IF Hits = {} THEN rb.buf[c] ELSE src[Max(Hits)]
  BY <1>2 DEF Filled
<1> HIDE DEF n
<1>4. ASSUME NEW k \in Hits PROVE k <= n - j + 1
  <2>1. k \in 1 .. n /\ (rb.head + (k - 1)) % RingSize = ((rb.head + n) - j) % RingSize
    <3>1. k \in 1 .. n /\ (rb.head + (k - 1)) % RingSize = c
      BY Zenon
    <3> QED BY <3>1, Zenon DEF Back
  <2>2. CASE k > n - j + 1
    <3> DEFINE a == rb.head + (k - 1)
               b == (rb.head + n) - j
    <3>1. a \in Int /\ b \in Int /\ -RingSize < a - b /\ a - b < RingSize /\ a # b
      <4>1. k \in Int /\ 1 <= k /\ k <= n
        BY <1>1, <2>1
      <4> QED BY <1>1, <4>1, <2>2, Later
    <3>2. a % RingSize = b % RingSize
      BY <2>1
    <3> HIDE DEF a, b
    <3> QED BY <1>1, <3>1, <3>2, ModApart
  <2> QED BY <1>1, <2>1, <2>2
<1>5. CASE j <= n
  <2>1. n - j + 1 \in 1 .. n /\ rb.head + ((n - j + 1) - 1) = (rb.head + n) - j
    BY <1>1, <1>5
  <2>2. n - j + 1 \in Hits
    <3> DEFINE m == n - j + 1
    <3>1. m \in 1 .. n /\ rb.head + (m - 1) = (rb.head + n) - j
      BY <2>1
    <3> HIDE DEF m
    <3>2. (rb.head + (m - 1)) % RingSize = c
      BY <3>1, Zenon DEF Back
    <3>3. m \in Hits
      BY <3>1, <3>2, Zenon
    <3> QED BY <3>3, Zenon DEF m
  <2>3. Max(Hits) = n - j + 1
    <3>1. Hits \in SUBSET Int
      BY <1>1
    <3> HIDE DEF Hits
    <3> QED BY <1>4, <2>2, <3>1, MaxIs
  <2> HIDE DEF c, Hits
  <2> QED BY <1>3, <1>5, <2>2, <2>3 DEF c, n
<1>6. CASE j > n
  <2>1. Hits = {}
    BY <1>1, <1>4, <1>6
  <2>2. c = Back(rb.head, j - n)
    <3>1. (rb.head + n) - j = rb.head - (j - n)
      BY <1>1
    <3> QED BY <3>1, Zenon DEF Back
  <2> HIDE DEF Hits
  <2>3. Filled(rb, src)[c] = rb.buf[Back(rb.head, j - n)]
    BY <1>3, <2>1, <2>2
  <2> QED BY <1>1, <1>6, <2>3 DEF n
<1> QED BY <1>1, <1>5, <1>6 DEF n

LEMMA AllTheWayRound ==
  ASSUME NEW x \in Int PROVE Back(x, Capacity) = NextP(x)
<1>1. RingSize \in Nat \ {0} /\ Capacity \in Int /\ x - Capacity = (x + 1) - RingSize
  BY RingSizeAssumption DEF Capacity
<1>2. PICK q \in Int : x + 1 = RingSize * q + ((x + 1) % RingSize)
  <2>1. x + 1 \in Int
    OBVIOUS
  <2> QED BY <1>1, <2>1, ModIs
<1> DEFINE r == (x + 1) % RingSize
           y == (x + 1) - RingSize
           p == q - 1
<1>3. r \in 0 .. RingSize - 1
  <2>1. x + 1 \in Int
    OBVIOUS
  <2> QED BY <1>1, <2>1, ModIs
<1>4. y \in Int /\ p \in Int /\ y = RingSize * p + r
  <2> HIDE DEF r
  <2>1. x + 1 = RingSize * q + r
    BY <1>2 DEF r
  <2>2. RingSize * (q - 1) = RingSize * q - RingSize
    BY <1>1
  <2> QED BY <1>1, <1>3, <2>1, <2>2
<1> HIDE DEF y, p
<1>5. y % RingSize = r
  <2> HIDE DEF r
  <2> QED BY <1>1, <1>3, <1>4, ModUnique
<1> QED BY <1>1, <1>5, Zenon DEF Back, NextP, y, r

LEMMA FilledType ==
  ASSUME NEW rb \in Rings(Bytes), NEW src \in Seq(Bytes)
  PROVE  Filled(rb, src) \in [Cells -> Bytes]
<1>1. ASSUME NEW i \in Cells
      PROVE  Filled(rb, src)[i] \in Bytes
  <2> DEFINE Hits == {k \in 1 .. Len(src) : (rb.head + k - 1) % RingSize = i}
  <2>1. Filled(rb, src)[i] = IF Hits = {} THEN rb.buf[i] ELSE src[Max(Hits)]
    BY DEF Filled
  <2>2. rb.buf[i] \in Bytes
    BY DEF Rings
  <2>3. Hits # {} => Max(Hits) \in 1 .. Len(src)
    <3>1. Hits \in SUBSET (1 .. Len(src)) /\ Len(src) \in Nat
      OBVIOUS
    <3> HIDE DEF Hits
    <3> QED BY <3>1, MaxOfRange
  <2> HIDE DEF Hits
  <2> QED BY <2>1, <2>2, <2>3
<1> QED BY <1>1 DEF Filled

(***************************************************************************)
(* What ringbuf_memcpy_into adds is what waits last; the oldest bytes go   *)
(* when there is no room.                                                  *)
(***************************************************************************)
LEMMA MemcpyIs ==
  ASSUME NEW rb \in Rings(Bytes), NEW src \in Seq(Bytes), NEW w, Waits(rb, w)
  PROVE  LET r == MemcpyInto(rb, src)
             n == Len(src)
             u == IF w + n > Capacity THEN Capacity ELSE w + n
         IN  /\ r \in Rings(Bytes) /\ Waits(r, u)
             /\ \A j \in 1 .. u : r.buf[Back(r.head, j)] =
                  IF j <= n THEN src[n - j + 1] ELSE rb.buf[Back(rb.head, j - n)]
<1> DEFINE r == MemcpyInto(rb, src)
           n == Len(src)
           u == IF w + n > Capacity THEN Capacity ELSE w + n
           h == rb.head + n
<1>1. /\ RingSize \in Nat \ {0} /\ Capacity = RingSize - 1 /\ n \in Nat /\ w \in 0 .. Capacity
      /\ rb.head \in Cells /\ rb.head \in Int /\ rb.tail \in Cells /\ h \in Int
  BY RingSizeAssumption DEF Capacity, Waits, Rings, Cells
<1>2. BytesFree(rb) = Capacity - w
  BY <1>1, UsedIs
<1>3. /\ r.buf = Filled(rb, src) /\ r.head = h % RingSize
      /\ r.tail = IF n > Capacity - w THEN NextP(h % RingSize) ELSE rb.tail
      /\ r = [buf |-> r.buf, head |-> r.head, tail |-> r.tail]
  BY <1>2 DEF MemcpyInto
<1> HIDE DEF r, n
<1>4. r.head \in Cells /\ r.head \in Int
  BY <1>1, <1>3, ModIs DEF Cells
<1>5. \A j \in Int : Back(r.head, j) = Back(h, j) /\ Back(h, j) \in Cells
  <2> HIDE DEF h
  <2> QED BY <1>1, <1>3, BackIs
<1>6. r.tail = Back(r.head, u)
  <2>1. CASE w + n > Capacity
    <3>1. n > Capacity - w /\ u = Capacity
      BY <1>1, <2>1
    <3>2. r.tail = NextP(r.head)
      BY <1>3, <3>1
    <3> QED BY <1>4, <3>1, <3>2, AllTheWayRound
  <2>2. CASE ~(w + n > Capacity)
    <3>1. ~(n > Capacity - w) /\ u = w + n /\ w + n \in Int
      BY <1>1, <2>2
    <3>2. r.tail = Back(rb.head, w)
      BY <1>3, <3>1 DEF Waits
    <3>3. h - (w + n) = rb.head - w
      BY <1>1
    <3>4. Back(h, w + n) = Back(rb.head, w)
      BY <3>3, Zenon DEF Back
    <3> QED BY <1>5, <3>1, <3>2, <3>4
  <2> QED BY <2>1, <2>2
<1>7. r.tail \in Cells /\ u \in 0 .. Capacity /\ u \in Int
  <2>1. u \in 0 .. Capacity /\ u \in Int
    BY <1>1
  <2> QED BY <1>5, <1>6, <2>1
<1>8. r \in Rings(Bytes)
  BY <1>3, <1>4, <1>7, FilledType DEF Rings
<1>9. ASSUME NEW j \in 1 .. u
      PROVE  r.buf[Back(r.head, j)] =
               IF j <= n THEN src[n - j + 1] ELSE rb.buf[Back(rb.head, j - n)]
  <2>1. j \in 1 .. RingSize /\ j \in Int
    BY <1>1, <1>7
  <2>2. r.buf[Back(r.head, j)] = Filled(rb, src)[Back(rb.head + n, j)]
    BY <1>3, <1>5, <2>1
  <2> QED BY <1>1, <2>1, <2>2, FilledIs DEF n
<1> QED BY <1>6, <1>7, <1>8, <1>9 DEF r, n, Waits

LEMMA OldestIs ==
  ASSUME NEW rb \in Rings(Bytes), NEW w, Waits(rb, w), NEW n \in 0 .. w
  PROVE  Oldest(rb, n) = [k \in 1 .. n |-> rb.buf[Back(rb.head, w + 1 - k)]]
<1>1. w \in Int /\ rb.head \in Int /\ rb.tail = Back(rb.head, w)
  BY RingSizeAssumption DEF Waits, Rings, Cells, Capacity
<1>2. ASSUME NEW k \in 1 .. n
      PROVE  (rb.tail + k - 1) % RingSize = Back(rb.head, w + 1 - k)
  <2>1. k - 1 \in Int /\ w - (k - 1) = w + 1 - k /\ rb.tail + (k - 1) = rb.tail + k - 1
    BY <1>1
  <2>2. (Back(rb.head, w) + (k - 1)) % RingSize = Back(rb.head, w - (k - 1))
    BY <1>1, <2>1, BackIs, Zenon
  <2> QED BY <1>1, <2>1, <2>2, Zenon
<1> QED BY <1>2, Zenon DEF Oldest

LEMMA WithoutIs ==
  ASSUME NEW rb \in Rings(Bytes), NEW w, Waits(rb, w), NEW n \in Nat
  PROVE  LET r == Without(rb, n)
         IN  /\ r \in Rings(Bytes) /\ r.buf = rb.buf /\ r.head = rb.head
             /\ Waits(r, IF n > w THEN w ELSE w - n)
<1>1. w \in 0 .. Capacity /\ w \in Int /\ rb.head \in Cells /\ rb.head \in Int /\ rb.tail = Back(rb.head, w)
      /\ BytesUsed(rb) = w /\ rb.tail \in Cells /\ n \in Int /\ w - n \in Int
  <2>1. rb.head \in Cells /\ rb.tail \in Cells
    BY DEF Rings
  <2>2. BytesUsed(rb) = w
    BY <2>1, UsedIs
  <2> QED BY RingSizeAssumption, <2>1, <2>2 DEF Waits, Cells, Capacity
<1>2. CASE n > w
  BY <1>1, <1>2 DEF Without, Waits
<1>3. CASE ~(n > w)
  <2> DEFINE t == (rb.tail + n) % RingSize
  <2>1. t = Back(rb.head, w - n) /\ t \in Cells
    <3>1. (Back(rb.head, w) + n) % RingSize = Back(rb.head, w - n)
      BY <1>1, BackIs, ZenonT(40)
    <3>2. Back(rb.head, w - n) \in Cells
      BY <1>1, BackIs, Zenon
    <3> QED BY <1>1, <3>1, <3>2, ZenonT(40)
  <2>2. Without(rb, n) = [rb EXCEPT !.tail = t]
    BY <1>1, <1>3 DEF Without
  <2>3. w - n \in 0 .. Capacity
    <3>1. Capacity \in Int /\ w \in Int /\ 0 <= w /\ w <= Capacity
      BY RingSizeAssumption, <1>1 DEF Capacity
    <3> QED BY <1>3, <3>1
  <2> HIDE DEF t
  <2>4. [rb EXCEPT !.tail = t] \in Rings(Bytes)
    BY <2>1 DEF Rings
  <2>5. /\ [rb EXCEPT !.tail = t].buf = rb.buf /\ [rb EXCEPT !.tail = t].head = rb.head
        /\ [rb EXCEPT !.tail = t].tail = t
    BY DEF Rings
  <2> QED BY <1>3, <2>1, <2>2, <2>3, <2>4, <2>5 DEF Waits
<1> QED BY <1>2, <1>3

-----------------------------------------------------------------------------
(***************************************************************************)
(* The invariant.  Of a slot s of number i that is in use: the connection  *)
(* is open and knows its slot; the ring holds its latest bytes; what the   *)
(* channel q holds of it was sent after what CPU1 took and before what     *)
(* waits, in order, and without a hole once it is a command socket that    *)
(* was not overrun.                                                        *)
(***************************************************************************)
SlotType == [raw_socket : Pcb \cup {NULL}, type : {"UNUSED", "IDLE", "ASCII_CMD", "LOG_VAR"},
             rx : Rings(Bytes)]
PcbType == [state : {"free", "open", "closing"}, room : Int]
HostType == [conn : Connections \cup {0}, told : Nat, arrived : Nat, waiting : Nat,
             overrun : BOOLEAN, typed : Int, reached : Nat, missed : BOOLEAN]
Cpu0Type == [stage : {"input", "rx", "send", "responses", "log"}, i : Sockets, left : Int]

TypesInv ==
  /\ socket_list \in [Sockets -> SlotType]
  /\ pcb \in [Pcb -> PcbType]
  /\ host \in [Pcb -> HostType]
  /\ connection \in 0 .. MaxConnections
  /\ commands \in Seq(Bytes)
  /\ cpu0 \in Cpu0Type

RingInv(rx, h) ==
  /\ Waits(rx, h.waiting)
  /\ \A j \in 1 .. h.waiting : LET b == rx.buf[Back(rx.head, j)]
                               IN  b.conn = h.conn /\ b.place = h.arrived + 1 - j

Sent(h) == h.arrived - h.waiting

OrderInv(q, h, type) ==
  /\ h.reached <= Sent(h) /\ h.typed <= Sent(h)
  /\ \A k \in 1 .. Len(q) : q[k].conn = h.conn =>
       /\ h.reached < q[k].place /\ q[k].place <= Sent(h) /\ (~h.overrun => h.typed < q[k].place)
       /\ \A l \in 1 .. k - 1 : q[l].conn = h.conn => q[l].place < q[k].place
  /\ type = "IDLE" /\ ~h.overrun => h.typed = Sent(h)
  /\ type = "ASCII_CMD" /\ ~h.overrun =>
       \A n \in Nat : h.reached < n /\ h.typed < n /\ n <= Sent(h)
                    => \E k \in 1 .. Len(q) : q[k].conn = h.conn /\ q[k].place = n

UsedInv(i, s, p, h, q) ==
  /\ s.type # "UNUSED" /\ p.state = "open" /\ h.told = i
  /\ RingInv(s.rx, h) /\ OrderInv(q, h, s.type)
  /\ i = 0 => ~h.missed

SlotsInv ==
  \A i \in Sockets :
    LET s == socket_list[i]
    IN  IF s.raw_socket = NULL THEN s.type = "UNUSED" /\ Waits(s.rx, 0)
        ELSE UsedInv(i, s, pcb[s.raw_socket], host[s.raw_socket], commands)

ConnectionsInv ==
  /\ \A p \in Pcb : pcb[p].state = "open" =>
       /\ host[p].conn \in 1 .. connection
       /\ \A r \in Pcb : pcb[r].state = "open" /\ host[r].conn = host[p].conn => r = p
  /\ \A k \in 1 .. Len(commands) : commands[k].conn \in 1 .. connection

SendInv ==
  cpu0.stage = "send" =>
    LET s == socket_list[cpu0.i]
    IN  s.raw_socket # NULL /\ s.type = "ASCII_CMD" /\ cpu0.left \in 1 .. host[s.raw_socket].waiting

SocketInv == TypesInv /\ SlotsInv /\ ConnectionsInv /\ SendInv

LEMMA SlotOfIs ==
  ASSUME SocketInv, NEW i \in Sockets, socket_list[i].raw_socket # NULL
  PROVE  LET p == socket_list[i].raw_socket
         IN  /\ p \in Pcb /\ SlotsOf(p) = {i} /\ SlotOf(p) = i
             /\ socket_list[i] \in SlotType /\ host[p] \in HostType /\ pcb[p] \in PcbType
             /\ UsedInv(i, socket_list[i], pcb[p], host[p], commands)
<1> DEFINE p == socket_list[i].raw_socket
<1>1. /\ p \in Pcb /\ socket_list[i] \in SlotType /\ host[p] \in HostType /\ pcb[p] \in PcbType
  <2>1. socket_list[i] \in SlotType
    BY DEF SocketInv, TypesInv
  <2>2. p \in Pcb
    BY <2>1 DEF SlotType
  <2> HIDE DEF p
  <2> QED BY <2>1, <2>2 DEF SocketInv, TypesInv
<1>2. UsedInv(i, socket_list[i], pcb[p], host[p], commands)
  BY DEF SocketInv, SlotsInv
<1>3. ASSUME NEW j \in Sockets, socket_list[j].raw_socket = p PROVE j = i
  <2>1. UsedInv(j, socket_list[j], pcb[p], host[p], commands)
    BY <1>3 DEF SocketInv, SlotsInv
  <2> HIDE DEF p
  <2> QED BY <1>2, <2>1 DEF UsedInv
<1>4. SlotsOf(p) = {i}
  BY <1>3 DEF SlotsOf
<1>5. SlotOf(p) = i
  <2>1. {i} \in SUBSET Nat
    BY DEF Sockets
  <2>2. Min({i}) \in {i}
    BY <2>1, MinIs
  <2> QED BY <1>4, <2>2 DEF SlotOf
<1> QED BY <1>1, <1>2, <1>4, <1>5

LEMMA UnusedIs ==
  ASSUME SocketInv, NEW i \in Sockets, socket_list[i].raw_socket = NULL
  PROVE  socket_list[i] \in SlotType /\ socket_list[i].type = "UNUSED" /\ Waits(socket_list[i].rx, 0)
BY DEF SocketInv, SlotsInv, TypesInv

LEMMA Constants ==
  /\ NULL \notin Pcb /\ NumSockets \in Nat /\ 0 \in Sockets /\ 1 \in Sockets /\ Sockets \subseteq Nat
  /\ MaxTry \in Int /\ Capacity \in Nat
<1>1. 0 \notin Pcb /\ NumSockets \in Nat /\ NumSockets # 0 /\ NumSockets # 1 /\ MaxTry \in Int
  BY SocketsAssumption
<1>2. Capacity \in Nat
  BY RingSizeAssumption DEF Capacity
<1> QED BY <1>1, <1>2 DEF NULL, Sockets

LEMMA Stages ==
  ASSUME cpu0 \in Cpu0Type
  PROVE  NextSocket \in Cpu0Type /\ NextSocket.stage # "send"
BY Constants DEF NextSocket, At, Cpu0Type

(* A step that moves the loop on, or changes the room of a connection.     *)
LEMMA QuietKeeps ==
  ASSUME SocketInv, UNCHANGED <<socket_list, host, connection, commands>>,
         pcb' \in [Pcb -> PcbType],
         \A p \in Pcb : pcb'[p].state = "open" <=> pcb[p].state = "open",
         cpu0' \in Cpu0Type, cpu0' = cpu0 \/ cpu0'.stage # "send"
  PROVE  SocketInv'
<1>1. TypesInv'
  BY DEF SocketInv, TypesInv
<1>2. ConnectionsInv'
  BY DEF SocketInv, ConnectionsInv
<1>3. SendInv'
  BY DEF SocketInv, SendInv
<1>4. ASSUME NEW i \in Sockets, socket_list[i].raw_socket # NULL
      PROVE  LET p == socket_list[i].raw_socket
             IN  UsedInv(i, socket_list[i], pcb'[p], host[p], commands)
  BY <1>4, SlotOfIs DEF UsedInv
<1>5. SlotsInv'
  BY <1>4, UnusedIs DEF SlotsInv
<1> QED BY <1>1, <1>2, <1>3, <1>5 DEF SocketInv

LEMMA LoopKeeps ==
  ASSUME SocketInv, InputDone \/ NothingToSend \/ BroadcastDone \/ LogDone PROVE SocketInv'
<1>1. UNCHANGED <<socket_list, host, connection, commands, pcb>>
  BY DEF InputDone, NothingToSend, BroadcastDone, LogDone, netVars, channels
<1>2. cpu0' \in Cpu0Type /\ cpu0'.stage # "send"
  <2>1. CASE NothingToSend
    BY <2>1, Stages DEF NothingToSend, SocketInv, TypesInv
  <2>2. CASE InputDone \/ BroadcastDone \/ LogDone
    <3>1. cpu0' = At("rx", 0, 0) \/ cpu0' = At("log", 1, MaxTry) \/ cpu0' = At("input", 0, 0)
      BY <2>2 DEF InputDone, BroadcastDone, LogDone, LogSocket
    <3>2. ASSUME NEW stage \in {"rx", "log", "input"}, NEW i \in Sockets, NEW left \in Int
          PROVE  At(stage, i, left) \in Cpu0Type /\ At(stage, i, left).stage # "send"
      BY DEF At, Cpu0Type
    <3> QED BY <3>1, <3>2, Constants
  <2> QED BY <2>1, <2>2
<1>3. pcb' \in [Pcb -> PcbType]
  BY <1>1 DEF SocketInv, TypesInv
<1> QED BY <1>1, <1>2, <1>3, QuietKeeps

LEMMA OutsideKeeps ==
  ASSUME SocketInv, (\E p \in Pcb : ClosedOrAcked(p)) \/ SendLog \/ CPU1Answers \/ CPU1Streams
  PROVE  SocketInv'
<1> DEFINE Closed == \E p \in Pcb : ClosedOrAcked(p)
<1>1. UNCHANGED <<socket_list, host, connection, commands>>
  BY DEF ClosedOrAcked, SendLog, CPU1Answers, CPU1Streams, netVars, channels
<1>2. cpu0' \in Cpu0Type /\ (cpu0' = cpu0 \/ cpu0'.stage # "send")
  <2>1. cpu0 \in Cpu0Type
    BY DEF SocketInv, TypesInv
  <2>2. CASE SendLog
    BY <2>1, <2>2 DEF SendLog, Cpu0Type
  <2>3. CASE Closed \/ CPU1Answers \/ CPU1Streams
    BY <2>1, <2>3 DEF ClosedOrAcked, CPU1Answers, CPU1Streams
  <2> QED BY <2>2, <2>3
<1>3. pcb \in [Pcb -> PcbType]
  BY DEF SocketInv, TypesInv
<1>4. pcb' \in [Pcb -> PcbType] /\ \A q \in Pcb : pcb'[q].state = "open" <=> pcb[q].state = "open"
  <2>1. CASE SendLog
    <3>1. pcb' = [q \in Pcb |-> [pcb[q] EXCEPT !.room = IF LogSocket \in SlotsOf(q) /\ @ > 0 THEN @ - 1 ELSE @]]
      BY <2>1 DEF SendLog
    <3>2. ASSUME NEW q \in Pcb PROVE pcb'[q] \in PcbType /\ pcb'[q].state = pcb[q].state
      BY <1>3, <3>1 DEF PcbType
    <3> QED BY <3>1, <3>2
  <2>2. CASE Closed
    <3>0. PICK p \in Pcb : ClosedOrAcked(p)
      BY <2>2
    <3>1. PICK st \in {"free", "open"}, rm \in Int :
            /\ \/ pcb[p].state = "closing" /\ st = "free" /\ pcb' = [pcb EXCEPT ![p].state = st]
               \/ pcb[p].state = "open" /\ pcb' = [pcb EXCEPT ![p].room = rm]
      BY <3>0, SocketsAssumption DEF ClosedOrAcked
    <3>2. ASSUME NEW q \in Pcb
          PROVE  pcb'[q] \in PcbType /\ (pcb'[q].state = "open" <=> pcb[q].state = "open")
      BY <1>3, <3>1 DEF PcbType
    <3> QED BY <1>3, <3>1, <3>2
  <2>3. CASE CPU1Answers \/ CPU1Streams
    BY <1>3, <2>3 DEF CPU1Answers, CPU1Streams, netVars
  <2> QED BY <2>1, <2>2, <2>3
<1> QED BY <1>1, <1>2, <1>4, QuietKeeps

LEMMA StartSendingKeeps == ASSUME SocketInv, StartSending PROVE SocketInv'
<1> DEFINE i == cpu0.i
           s == socket_list[i]
<1>1. i \in Sockets /\ cpu0 \in Cpu0Type
  BY DEF SocketInv, TypesInv, Cpu0Type
<1>2. /\ s.type = "ASCII_CMD" /\ cpu0' = At("send", i, BytesUsed(s.rx)) /\ BytesUsed(s.rx) > 0
      /\ UNCHANGED <<socket_list, pcb, host, connection, commands>>
  BY DEF StartSending, netVars, channels
<1>3. s.raw_socket # NULL
  BY <1>1, <1>2, UnusedIs
<1>4. /\ BytesUsed(s.rx) = host[s.raw_socket].waiting /\ host[s.raw_socket].waiting \in Nat
  <2>1. Waits(s.rx, host[s.raw_socket].waiting) /\ s \in SlotType /\ host[s.raw_socket] \in HostType
    BY <1>1, <1>3, SlotOfIs DEF UsedInv, RingInv
  <2>2. s.rx.head \in Cells
    BY <2>1 DEF SlotType, Rings
  <2> HIDE DEF s
  <2> QED BY <2>1, <2>2, UsedIs DEF HostType
<1> HIDE DEF i
<1>5. cpu0' \in Cpu0Type /\ cpu0'.i = i /\ cpu0'.left \in 1 .. host[s.raw_socket].waiting
  BY <1>1, <1>2, <1>4 DEF At, Cpu0Type
<1>6. TypesInv'
  BY <1>2, <1>5 DEF SocketInv, TypesInv
<1>7. SendInv'
  BY <1>2, <1>3, <1>5 DEF SendInv
<1>8. SlotsInv' /\ ConnectionsInv'
  BY <1>2 DEF SocketInv, SlotsInv, ConnectionsInv
<1> QED BY <1>6, <1>7, <1>8 DEF SocketInv

-----------------------------------------------------------------------------
(***************************************************************************)
(* The order of a connection's bytes, step by step.                        *)
(***************************************************************************)
LEMMA SameOrder ==
  ASSUME NEW q, NEW h, NEW g, NEW type, OrderInv(q, h, type),
         g.conn = h.conn, g.arrived = h.arrived, g.waiting = h.waiting, g.overrun = h.overrun,
         g.typed = h.typed, g.reached = h.reached
  PROVE  OrderInv(q, g, type) /\ Sent(g) = Sent(h)
BY DEF OrderInv, Sent

(* CPU1 takes the first byte of the channel.                               *)
LEMMA TakenOrder ==
  ASSUME NEW q \in Seq(Bytes), q # << >>, NEW h \in HostType, NEW g, NEW type, OrderInv(q, h, type),
         g.conn = h.conn, g.arrived = h.arrived, g.waiting = h.waiting, g.overrun = h.overrun,
         g.typed = h.typed,
         g.reached = IF Head(q).conn = h.conn THEN Head(q).place ELSE h.reached
  PROVE  OrderInv(Tail(q), g, type)
<1> DEFINE p == Tail(q)
<1>1. /\ Len(q) \in Nat /\ Len(q) >= 1 /\ Len(p) = Len(q) - 1 /\ Head(q) = q[1]
      /\ \A k \in 1 .. Len(p) : p[k] = q[k + 1] /\ k + 1 \in 2 .. Len(q)
      /\ \A k \in 1 .. Len(q) : q[k].place \in Nat
  <2>1. \A k \in 1 .. Len(q) : q[k] \in Bytes
    OBVIOUS
  <2>2. \A c \in Bytes : c.place \in Nat
    BY DEF Bytes
  <2> QED BY <2>1, <2>2
<1>2. Sent(g) = Sent(h) /\ Sent(h) \in Int /\ h.reached \in Nat /\ h.typed \in Int
  BY DEF Sent, HostType
<1>3. /\ h.reached <= Sent(h) /\ h.typed <= Sent(h)
      /\ \A k \in 1 .. Len(q) : q[k].conn = h.conn =>
           /\ h.reached < q[k].place /\ q[k].place <= Sent(h)
           /\ (~h.overrun => h.typed < q[k].place)
           /\ \A l \in 1 .. k - 1 : q[l].conn = h.conn => q[l].place < q[k].place
      /\ type = "ASCII_CMD" /\ ~h.overrun =>
           \A n \in Nat : h.reached < n /\ h.typed < n /\ n <= Sent(h)
                        => \E k \in 1 .. Len(q) : q[k].conn = h.conn /\ q[k].place = n
      /\ type = "IDLE" /\ ~h.overrun => h.typed = Sent(h)
  BY DEF OrderInv
<1>4. h.reached <= g.reached /\ g.reached <= Sent(h) /\ g.reached \in Nat
  BY <1>1, <1>2, <1>3
<1> HIDE DEF p
<1>5. ASSUME NEW k \in 1 .. Len(p), p[k].conn = h.conn
      PROVE  /\ g.reached < p[k].place /\ p[k].place <= Sent(h)
             /\ (~h.overrun => h.typed < p[k].place)
             /\ \A l \in 1 .. k - 1 : p[l].conn = h.conn => p[l].place < p[k].place
  <2>1. k + 1 \in 2 .. Len(q) /\ k + 1 \in 1 .. Len(q) /\ p[k] = q[k + 1] /\ 1 \in 1 .. (k + 1) - 1
    BY <1>1
  <2>2. /\ h.reached < q[k + 1].place /\ q[k + 1].place <= Sent(h)
        /\ (~h.overrun => h.typed < q[k + 1].place)
        /\ \A l \in 1 .. (k + 1) - 1 : q[l].conn = h.conn => q[l].place < q[k + 1].place
    BY <1>3, <1>5, <2>1
  <2>3. g.reached < p[k].place
    BY <1>1, <2>1, <2>2
  <2>4. ASSUME NEW l \in 1 .. k - 1, p[l].conn = h.conn PROVE p[l].place < p[k].place
    <3>1. l + 1 \in 1 .. (k + 1) - 1 /\ l \in 1 .. Len(p)
      BY <1>1
    <3>2. p[l] = q[l + 1]
      BY <1>1, <3>1
    <3> QED BY <2>1, <2>2, <2>4, <3>1, <3>2
  <2> QED BY <2>1, <2>2, <2>3, <2>4
<1>6. ASSUME type = "ASCII_CMD", ~h.overrun, NEW n \in Nat, g.reached < n, h.typed < n, n <= Sent(h)
      PROVE  \E k \in 1 .. Len(p) : p[k].conn = h.conn /\ p[k].place = n
  <2>1. h.reached < n
    BY <1>2, <1>4, <1>6
  <2>2. PICK k \in 1 .. Len(q) : q[k].conn = h.conn /\ q[k].place = n
    BY <1>3, <1>6, <2>1
  <2>3. k # 1
    BY <1>1, <1>6, <2>2
  <2>4. k - 1 \in 1 .. Len(p) /\ (k - 1) + 1 = k
    BY <1>1, <2>3
  <2>5. p[k - 1] = q[k]
    BY <1>1, <2>4
  <2> QED BY <2>2, <2>4, <2>5
<1>7. OrderInv(p, g, type)
  BY <1>2, <1>3, <1>4, <1>5, <1>6 DEF OrderInv
<1> QED BY <1>7 DEF p

(* A byte b goes into the channel: of this connection, the oldest of those *)
(* that waited, or of another.                                             *)
LEMMA SentOrder ==
  ASSUME NEW q \in Seq(Bytes), NEW b \in Bytes, NEW h \in HostType, NEW g, NEW type,
         OrderInv(q, h, type), g.conn = h.conn, g.arrived = h.arrived, g.overrun = h.overrun,
         g.typed = h.typed, g.reached = h.reached,
         \/ b.conn # h.conn /\ g.waiting = h.waiting
         \/ /\ b.conn = h.conn /\ type = "ASCII_CMD"
            /\ g.waiting = h.waiting - 1 /\ b.place = Sent(h) + 1
  PROVE  OrderInv(Append(q, b), g, type)
<1> DEFINE p == Append(q, b)
           n == Len(q)
<1>1. /\ n \in Nat /\ Len(p) = n + 1 /\ p[n + 1] = b
      /\ \A k \in 1 .. n : p[k] = q[k]
      /\ \A k \in 1 .. n : q[k].place \in Nat
  <2>1. \A k \in 1 .. Len(q) : q[k] \in Bytes
    OBVIOUS
  <2>2. \A c \in Bytes : c.place \in Nat
    BY DEF Bytes
  <2>3. n \in Nat /\ Len(p) = n + 1 /\ p[n + 1] = b /\ \A k \in 1 .. n : p[k] = q[k]
    OBVIOUS
  <2> QED BY <2>1, <2>2, <2>3
<1>2. /\ Sent(h) \in Int /\ h.reached \in Nat /\ h.typed \in Int
      /\ Sent(g) = IF b.conn = h.conn THEN Sent(h) + 1 ELSE Sent(h)
  <2>1. h.arrived \in Nat /\ h.waiting \in Nat /\ h.reached \in Nat /\ h.typed \in Int
    BY DEF HostType
  <2> QED BY <2>1 DEF Sent
<1>3. /\ h.reached <= Sent(h) /\ h.typed <= Sent(h)
      /\ \A k \in 1 .. n : q[k].conn = h.conn =>
           /\ h.reached < q[k].place /\ q[k].place <= Sent(h)
           /\ (~h.overrun => h.typed < q[k].place)
           /\ \A l \in 1 .. k - 1 : q[l].conn = h.conn => q[l].place < q[k].place
      /\ type = "ASCII_CMD" /\ ~h.overrun =>
           \A m \in Nat : h.reached < m /\ h.typed < m /\ m <= Sent(h)
                        => \E k \in 1 .. n : q[k].conn = h.conn /\ q[k].place = m
      /\ type = "IDLE" /\ ~h.overrun => h.typed = Sent(h)
  BY DEF OrderInv
<1> HIDE DEF p, n
<1>4. ASSUME NEW k \in 1 .. n + 1, p[k].conn = h.conn
      PROVE  /\ h.reached < p[k].place /\ p[k].place <= Sent(g)
             /\ (~h.overrun => h.typed < p[k].place)
             /\ \A l \in 1 .. k - 1 : p[l].conn = h.conn => p[l].place < p[k].place
  <2>0. k \in Int /\ \A l \in 1 .. k - 1 : l \in 1 .. n
    BY <1>1
  <2>1. CASE k \in 1 .. n
    <3>1. p[k] = q[k] /\ \A l \in 1 .. k - 1 : p[l] = q[l]
      BY <1>1, <2>0, <2>1
    <3>2. /\ h.reached < q[k].place /\ q[k].place <= Sent(h) /\ q[k].place \in Nat
          /\ (~h.overrun => h.typed < q[k].place)
          /\ \A l \in 1 .. k - 1 : q[l].conn = h.conn => q[l].place < q[k].place
      BY <1>1, <1>3, <1>4, <2>1, <3>1
    <3>3. q[k].place <= Sent(g)
      BY <1>2, <3>2
    <3> QED BY <3>1, <3>2, <3>3
  <2>2. CASE k = n + 1
    <3>1. p[k] = b /\ b.conn = h.conn /\ b.place = Sent(h) + 1 /\ Sent(g) = Sent(h) + 1
      BY <1>1, <1>2, <1>4, <2>2
    <3>2. ASSUME NEW l \in 1 .. k - 1, p[l].conn = h.conn PROVE p[l].place < p[k].place
      <4>1. l \in 1 .. n /\ p[l] = q[l] /\ q[l].place \in Nat
        BY <1>1, <2>0
      <4>2. q[l].place <= Sent(h)
        BY <1>3, <3>2, <4>1
      <4> QED BY <1>2, <3>1, <4>1, <4>2
    <3> QED BY <1>2, <1>3, <3>1, <3>2
  <2> QED BY <1>1, <2>0, <2>1, <2>2
<1>5. ASSUME type = "ASCII_CMD", ~h.overrun, NEW m \in Nat, h.reached < m, h.typed < m, m <= Sent(g)
      PROVE  \E k \in 1 .. n + 1 : p[k].conn = h.conn /\ p[k].place = m
  <2>1. CASE m <= Sent(h)
    <3>1. PICK k \in 1 .. n : q[k].conn = h.conn /\ q[k].place = m
      BY <1>3, <1>5, <2>1
    <3> QED BY <1>1, <3>1
  <2>2. CASE m > Sent(h)
    <3>1. b.conn = h.conn /\ m = Sent(h) + 1
      BY <1>2, <1>5, <2>2
    <3>2. n + 1 \in 1 .. n + 1 /\ p[n + 1].conn = h.conn /\ p[n + 1].place = m
      BY <1>1, <3>1
    <3> QED BY <3>2
  <2> QED BY <1>2, <2>1, <2>2
<1>6. type = "IDLE" /\ ~h.overrun => Sent(g) = Sent(h)
  BY <1>2
<1>7. OrderInv(p, g, type)
  <2>1. h.reached <= Sent(g) /\ h.typed <= Sent(g)
    BY <1>2, <1>3
  <2>2. type = "IDLE" /\ ~h.overrun => h.typed = Sent(g)
    BY <1>3, <1>6
  <2> QED BY <1>1, <1>4, <1>5, <2>1, <2>2 DEF OrderInv
<1> QED BY <1>7 DEF p

-----------------------------------------------------------------------------
(***************************************************************************)
(* The steps that move bytes.                                              *)
(***************************************************************************)
LEMMA SameConnections ==
  ASSUME SocketInv, connection' = connection,
         \A p \in Pcb : pcb'[p].state = "open" => pcb[p].state = "open" /\ host'[p].conn = host[p].conn,
         \A k \in 1 .. Len(commands') : commands'[k].conn \in 1 .. connection
  PROVE  ConnectionsInv'
<1>1. ASSUME NEW p \in Pcb, pcb'[p].state = "open"
      PROVE  /\ host'[p].conn \in 1 .. connection
             /\ \A r \in Pcb : pcb'[r].state = "open" /\ host'[r].conn = host'[p].conn => r = p
  <2>1. pcb[p].state = "open" /\ host'[p].conn = host[p].conn
    BY <1>1
  <2>2. \A r \in Pcb : pcb'[r].state = "open" => pcb[r].state = "open" /\ host'[r].conn = host[r].conn
    OBVIOUS
  <2>3. /\ host[p].conn \in 1 .. connection
        /\ \A r \in Pcb : pcb[r].state = "open" /\ host[r].conn = host[p].conn => r = p
    BY <2>1 DEF SocketInv, ConnectionsInv
  <2>4. ASSUME NEW r \in Pcb, pcb'[r].state = "open", host'[r].conn = host'[p].conn PROVE r = p
    BY <2>1, <2>2, <2>3, <2>4
  <2> QED BY <2>1, <2>3, <2>4
<1> QED BY <1>1 DEF ConnectionsInv

LEMMA BroadcastKeeps == ASSUME SocketInv, Broadcast PROVE SocketInv'
<1>1. /\ UNCHANGED <<socket_list, connection, commands>> /\ TRUE \in RoomOnSocketZero
      /\ cpu0' = [cpu0 EXCEPT !.left = @ - 1] /\ cpu0.stage = "responses"
      /\ pcb' = [p \in Pcb |->
           [pcb[p] EXCEPT !.room = IF Listening(p) /\ HasRoom(p) THEN @ - 1 ELSE @]]
      /\ host' = [p \in Pcb |->
           [host[p] EXCEPT !.missed = @ \/ (Listening(p) /\ ~HasRoom(p))]]
  BY DEF Broadcast
<1>2. pcb \in [Pcb -> PcbType] /\ host \in [Pcb -> HostType] /\ cpu0 \in Cpu0Type
  BY DEF SocketInv, TypesInv
<1>3. ASSUME NEW p \in Pcb
      PROVE  /\ pcb'[p] \in PcbType /\ pcb'[p].state = pcb[p].state
             /\ host'[p] \in HostType /\ host'[p].conn = host[p].conn
             /\ host'[p].arrived = host[p].arrived /\ host'[p].waiting = host[p].waiting
             /\ host'[p].overrun = host[p].overrun /\ host'[p].typed = host[p].typed
             /\ host'[p].reached = host[p].reached /\ host'[p].told = host[p].told
             /\ host'[p].missed = (host[p].missed \/ (Listening(p) /\ ~HasRoom(p)))
  <2>1. pcb'[p] \in PcbType /\ pcb'[p].state = pcb[p].state
    BY <1>1, <1>2 DEF PcbType
  <2>2. host[p] \in HostType /\ (Listening(p) /\ ~HasRoom(p)) \in BOOLEAN
    BY <1>2
  <2>3. host'[p] = [host[p] EXCEPT !.missed = @ \/ (Listening(p) /\ ~HasRoom(p))]
    BY <1>1
  <2> QED BY <2>1, <2>2, <2>3 DEF HostType
<1>4. cpu0' \in Cpu0Type /\ cpu0'.stage # "send"
  BY <1>1, <1>2 DEF Cpu0Type
<1>5. pcb' \in [Pcb -> PcbType] /\ host' \in [Pcb -> HostType]
  BY <1>1, <1>3
<1>6. TypesInv' /\ SendInv'
  BY <1>1, <1>4, <1>5 DEF SocketInv, TypesInv, SendInv
<1>7. ConnectionsInv'
  <2>1. \A k \in 1 .. Len(commands') : commands'[k].conn \in 1 .. connection
    BY <1>1 DEF SocketInv, ConnectionsInv
  <2> QED BY <1>1, <1>3, <2>1, SameConnections
<1>8. ASSUME NEW i \in Sockets, socket_list[i].raw_socket # NULL
      PROVE  LET p == socket_list[i].raw_socket
             IN  UsedInv(i, socket_list[i], pcb'[p], host'[p], commands)
  <2> DEFINE p == socket_list[i].raw_socket
             s == socket_list[i]
  <2>1. p \in Pcb /\ UsedInv(i, s, pcb[p], host[p], commands)
    BY <1>8, SlotOfIs
  <2>2. i = 0 => ~host'[p].missed
    <3>1. i = 0 => HasRoom(p)
      BY <1>1, <1>8 DEF RoomOnSocketZero, HasRoom
    <3> QED BY <1>3, <2>1, <3>1 DEF UsedInv
  <2> HIDE DEF p
  <2>3. OrderInv(commands, host'[p], s.type)
    BY <1>3, <2>1, SameOrder DEF UsedInv
  <2>4. RingInv(s.rx, host'[p])
    BY <1>3, <2>1 DEF UsedInv, RingInv
  <2>5. UsedInv(i, s, pcb'[p], host'[p], commands)
    BY <1>3, <2>1, <2>2, <2>3, <2>4 DEF UsedInv
  <2> QED BY <2>5 DEF p
<1>9. SlotsInv'
  BY <1>1, <1>8, UnusedIs DEF SlotsInv
<1> QED BY <1>6, <1>7, <1>9 DEF SocketInv

LEMMA TakesKeeps == ASSUME SocketInv, CPU1Takes PROVE SocketInv'
<1> DEFINE b == Head(commands)
<1>1. /\ UNCHANGED <<socket_list, pcb, connection, cpu0>> /\ commands # << >> /\ commands' = Tail(commands)
      /\ host' = [p \in Pcb |-> [host[p] EXCEPT !.reached = IF b.conn = host[p].conn THEN b.place ELSE @]]
  BY DEF CPU1Takes
<1>2. host \in [Pcb -> HostType] /\ commands \in Seq(Bytes) /\ commands' \in Seq(Bytes) /\ b \in Bytes
  BY <1>1 DEF SocketInv, TypesInv
<1>3. b.place \in Nat
  BY <1>2 DEF Bytes
<1>4. ASSUME NEW p \in Pcb
      PROVE  /\ host'[p] \in HostType /\ host'[p].conn = host[p].conn
             /\ host'[p].arrived = host[p].arrived /\ host'[p].waiting = host[p].waiting
             /\ host'[p].overrun = host[p].overrun /\ host'[p].typed = host[p].typed
             /\ host'[p].missed = host[p].missed /\ host'[p].told = host[p].told
             /\ host'[p].reached = IF b.conn = host[p].conn THEN b.place ELSE host[p].reached
  <2> HIDE DEF b
  <2>1. host'[p] = [host[p] EXCEPT !.reached = IF b.conn = host[p].conn THEN b.place ELSE @]
    BY <1>1
  <2>2. host[p] \in HostType
    BY <1>2
  <2> QED BY <1>3, <2>1, <2>2 DEF HostType
<1>5. TypesInv'
  BY <1>1, <1>2, <1>4 DEF SocketInv, TypesInv
<1>6. ConnectionsInv'
  <2>1. \A k \in 1 .. Len(commands') : k + 1 \in 1 .. Len(commands) /\ commands'[k] = commands[k + 1]
    BY <1>1, <1>2
  <2>2. \A k \in 1 .. Len(commands') : commands'[k].conn \in 1 .. connection
    BY <2>1 DEF SocketInv, ConnectionsInv
  <2> QED BY <1>1, <1>4, <2>2, SameConnections
<1>7. ASSUME NEW i \in Sockets, socket_list[i].raw_socket # NULL
      PROVE  LET p == socket_list[i].raw_socket
             IN  p \in Pcb /\ UsedInv(i, socket_list[i], pcb[p], host'[p], commands')
  <2> DEFINE p == socket_list[i].raw_socket
             s == socket_list[i]
  <2>1. p \in Pcb /\ host[p] \in HostType /\ UsedInv(i, s, pcb[p], host[p], commands)
    BY <1>7, SlotOfIs
  <2> HIDE DEF p, b
  <2>2. OrderInv(commands', host'[p], s.type)
    <3>1. OrderInv(commands, host[p], s.type)
      BY <2>1 DEF UsedInv
    <3> QED BY <1>1, <1>2, <1>4, <2>1, <3>1, TakenOrder DEF b
  <2>3. RingInv(s.rx, host'[p])
    BY <1>4, <2>1 DEF UsedInv, RingInv
  <2>4. UsedInv(i, s, pcb[p], host'[p], commands')
    BY <1>4, <2>1, <2>2, <2>3 DEF UsedInv
  <2> QED BY <2>1, <2>4 DEF p
<1>8. SlotsInv'
  BY <1>1, <1>7, UnusedIs DEF SlotsInv
<1>9. SendInv'
  <2>1. CASE cpu0.stage = "send"
    <3> DEFINE s == socket_list[cpu0.i]
    <3>1. s.raw_socket # NULL /\ s.type = "ASCII_CMD" /\ cpu0.left \in 1 .. host[s.raw_socket].waiting
          /\ cpu0.i \in Sockets
      BY <2>1 DEF SocketInv, SendInv, TypesInv, Cpu0Type
    <3>2. s.raw_socket \in Pcb
      BY <3>1, <1>7
    <3> QED BY <1>1, <1>4, <3>1, <3>2 DEF SendInv
  <2>2. CASE cpu0.stage # "send"
    BY <1>1, <2>2 DEF SendInv
  <2> QED BY <2>1, <2>2
<1> QED BY <1>5, <1>6, <1>8, <1>9 DEF SocketInv

LEMMA AppendIs ==
  ASSUME NEW S, NEW q \in Seq(S), NEW b \in S
  PROVE  q \o [k \in 1 .. 1 |-> b] = Append(q, b)
<1> DEFINE o == [k \in 1 .. 1 |-> b]
<1>1. o \in Seq(S) /\ Len(o) = 1 /\ o[1] = b
  OBVIOUS
<1> HIDE DEF o
<1>2. /\ q \o o \in Seq(S) /\ Len(q \o o) = Len(q) + 1
      /\ \A k \in 1 .. Len(q) + 1 : (q \o o)[k] = IF k <= Len(q) THEN q[k] ELSE b
  <2>1. /\ q \o o \in Seq(S) /\ Len(q \o o) = Len(q) + Len(o)
        /\ \A k \in 1 .. Len(q) + Len(o) :
             (q \o o)[k] = IF k <= Len(q) THEN q[k] ELSE o[k - Len(q)]
    BY <1>1, ConcatProperties
  <2>2. Len(q) \in Nat
    OBVIOUS
  <2>3. ASSUME NEW k \in 1 .. Len(q) + 1
        PROVE  (q \o o)[k] = IF k <= Len(q) THEN q[k] ELSE b
    <3>1. ~(k <= Len(q)) => k - Len(q) = 1
      BY <2>2
    <3> QED BY <1>1, <2>1, <3>1
  <2> QED BY <1>1, <2>1, <2>3
<1>3. /\ Append(q, b) \in Seq(S) /\ Len(Append(q, b)) = Len(q) + 1
      /\ \A k \in 1 .. Len(q) + 1 : Append(q, b)[k] = IF k <= Len(q) THEN q[k] ELSE b
  OBVIOUS
<1> QED BY <1>2, <1>3, SeqEqual DEF o

(* The oldest byte of the slot the loop is at goes to the channel.         *)
LEMMA SendKeeps == ASSUME SocketInv, SendToCPU1 PROVE SocketInv'
<1> DEFINE i == cpu0.i
           s == socket_list[i]
           p == s.raw_socket
           w == host[p].waiting
           b == s.rx.buf[Back(s.rx.head, w)]
<1>1. /\ UNCHANGED <<pcb, connection>> /\ cpu0.stage = "send"
      /\ host' = [r \in Pcb |-> IF commands' # commands /\ i \in SlotsOf(r)
                                THEN [host[r] EXCEPT !.waiting = @ - 1] ELSE host[r]]
  BY DEF SendToCPU1
<1>2. /\ host \in [Pcb -> HostType] /\ commands \in Seq(Bytes) /\ cpu0 \in Cpu0Type /\ i \in Sockets
      /\ socket_list \in [Sockets -> SlotType] /\ pcb \in [Pcb -> PcbType]
  BY DEF SocketInv, TypesInv, Cpu0Type
<1>3. p # NULL /\ s.type = "ASCII_CMD" /\ cpu0.left \in 1 .. w
  BY <1>1 DEF SocketInv, SendInv
<1>4. CASE Len(commands) = ChannelSize
  <2>1. cpu0' = NextSocket /\ UNCHANGED <<commands, socket_list>>
    BY <1>4 DEF SendToCPU1
  <2>2. host' = host
    BY <1>1, <1>2, <2>1
  <2>3. cpu0' \in Cpu0Type /\ cpu0'.stage # "send"
    BY <1>2, <2>1, Stages
  <2>4. /\ UNCHANGED <<socket_list, host, connection, commands>> /\ pcb' \in [Pcb -> PcbType]
        /\ \A r \in Pcb : pcb'[r].state = "open" <=> pcb[r].state = "open"
    BY <1>1, <1>2, <2>1, <2>2
  <2> QED BY <2>3, <2>4, QuietKeeps
<1>5. CASE Len(commands) # ChannelSize
  <2>1. /\ socket_list' = [socket_list EXCEPT ![i].rx = Without(s.rx, 1)]
        /\ commands' = commands \o Oldest(s.rx, 1)
        /\ cpu0' = IF cpu0.left = 1 THEN NextSocket ELSE [cpu0 EXCEPT !.left = @ - 1]
    BY <1>5 DEF SendToCPU1
  <2>2. /\ p \in Pcb /\ SlotsOf(p) = {i} /\ s \in SlotType /\ host[p] \in HostType
        /\ UsedInv(i, s, pcb[p], host[p], commands)
    BY <1>2, <1>3, SlotOfIs
  <2>3. /\ s.rx \in Rings(Bytes) /\ w \in Nat /\ w >= 1 /\ Waits(s.rx, w)
        /\ pcb[p].state = "open" /\ OrderInv(commands, host[p], s.type)
        /\ b.conn = host[p].conn /\ b.place = host[p].arrived + 1 - w
        /\ \A j \in 1 .. w : LET c == s.rx.buf[Back(s.rx.head, j)]
                             IN  c.conn = host[p].conn /\ c.place = host[p].arrived + 1 - j
    <3>1. s.rx \in Rings(Bytes) /\ w \in Nat /\ w >= 1
      BY <1>3, <2>2 DEF SlotType, HostType
    <3> HIDE DEF s, p, w
    <3>2. RingInv(s.rx, host[p]) /\ pcb[p].state = "open" /\ OrderInv(commands, host[p], s.type)
      BY <2>2 DEF UsedInv
    <3>3. w \in 1 .. w
      BY <3>1
    <3> QED BY <3>1, <3>2, <3>3 DEF RingInv, w
  <2> HIDE DEF s, p, w, i
  <2>4. b \in Bytes
    <3>1. Back(s.rx.head, w) \in Cells
      <4>1. s.rx.head \in Int /\ w \in Int
        BY <2>3, RingSizeAssumption DEF Rings, Cells
      <4> QED BY <4>1, BackIs
    <3> QED BY <2>3, <3>1 DEF Rings
  <2>5. commands' = Append(commands, b)
    <3>1. Oldest(s.rx, 1) = [k \in 1 .. 1 |-> b]
      <4>1. 1 \in 0 .. w
        BY <2>3
      <4>2. Oldest(s.rx, 1) = [k \in 1 .. 1 |-> s.rx.buf[Back(s.rx.head, w + 1 - k)]]
        BY <2>3, <4>1, OldestIs
      <4>3. \A k \in 1 .. 1 : w + 1 - k = w
        BY <2>3
      <4> QED BY <4>2, <4>3
    <3> HIDE DEF b
    <3> QED BY <1>2, <2>1, <2>4, <3>1, AppendIs
  <2> HIDE DEF b
  <2>6. /\ commands' \in Seq(Bytes) /\ commands' # commands
        /\ Len(commands') = Len(commands) + 1 /\ commands'[Len(commands) + 1] = b
        /\ \A k \in 1 .. Len(commands) : commands'[k] = commands[k]
    BY <1>2, <2>4, <2>5
  <2>7. ASSUME NEW r \in Pcb
        PROVE  host'[r] = IF r = p THEN [host[r] EXCEPT !.waiting = w - 1] ELSE host[r]
    <3>1. i \in SlotsOf(r) <=> r = p
      BY <1>2, <2>2 DEF SlotsOf, p, s
    <3> QED BY <1>1, <2>6, <3>1 DEF w
  <2>8. ASSUME NEW r \in Pcb
        PROVE  /\ host'[r] \in HostType /\ host'[r].conn = host[r].conn
               /\ host'[r].arrived = host[r].arrived
               /\ host'[r].waiting = (IF r = p THEN w - 1 ELSE host[r].waiting)
               /\ host'[r].overrun = host[r].overrun /\ host'[r].typed = host[r].typed
               /\ host'[r].reached = host[r].reached /\ host'[r].told = host[r].told
               /\ host'[r].missed = host[r].missed
    <3>1. host[r] \in HostType /\ w - 1 \in Nat
      BY <1>2, <2>3
    <3> QED BY <2>7, <3>1 DEF HostType
  <2>9. /\ Without(s.rx, 1) \in Rings(Bytes) /\ Without(s.rx, 1).buf = s.rx.buf
        /\ Without(s.rx, 1).head = s.rx.head /\ Waits(Without(s.rx, 1), w - 1)
    <3>1. ~(1 > w)
      BY <2>3
    <3> QED BY <2>3, <3>1, WithoutIs
  <2>10. \A j \in Sockets : /\ socket_list'[j] \in SlotType
                            /\ socket_list'[j].raw_socket = socket_list[j].raw_socket
                            /\ socket_list'[j].type = socket_list[j].type
                            /\ socket_list'[j].rx = IF j = i THEN Without(s.rx, 1) ELSE socket_list[j].rx
    BY <1>2, <2>1, <2>9 DEF SlotType
  <2>11. cpu0' \in Cpu0Type /\ (cpu0'.stage = "send" => cpu0'.i = i /\ cpu0'.left \in 1 .. w - 1)
    <3>1. CASE cpu0.left = 1
      BY <1>2, <2>1, <3>1, Stages
    <3>2. CASE cpu0.left # 1
      <4>1. cpu0.left - 1 \in 1 .. w - 1
        BY <1>3, <2>3, <3>2
      <4>2. cpu0' = [cpu0 EXCEPT !.left = @ - 1]
        BY <2>1, <3>2
      <4> QED BY <1>2, <4>1, <4>2 DEF Cpu0Type, i
    <3> QED BY <3>1, <3>2
  <2>12. TypesInv'
    <3>1. socket_list' \in [Sockets -> SlotType]
      BY <1>2, <2>1, <2>10
    <3>2. host' \in [Pcb -> HostType]
      BY <1>1, <2>8
    <3> QED BY <1>1, <1>2, <2>6, <2>11, <3>1, <3>2 DEF SocketInv, TypesInv
  <2>13. ConnectionsInv'
    <3>1. b.conn \in 1 .. connection
      BY <2>2, <2>3 DEF SocketInv, ConnectionsInv
    <3>2. \A k \in 1 .. Len(commands) : commands[k].conn \in 1 .. connection
      BY DEF SocketInv, ConnectionsInv
    <3>3. \A k \in 1 .. Len(commands') : k = Len(commands) + 1 \/ k \in 1 .. Len(commands)
      BY <1>2, <2>6
    <3>4. \A k \in 1 .. Len(commands') : commands'[k].conn \in 1 .. connection
      BY <2>6, <3>1, <3>2, <3>3
    <3> QED BY <1>1, <2>8, <3>4, SameConnections
  <2>14. SendInv'
    <3>1. i \in Sockets /\ socket_list'[i].raw_socket = p /\ socket_list'[i].type = "ASCII_CMD"
      BY <1>2, <1>3, <2>10 DEF s, p
    <3>2. host'[p].waiting = w - 1
      BY <2>2, <2>8
    <3> QED BY <1>3, <2>11, <3>1, <3>2 DEF SendInv
  <2>15. ASSUME NEW j \in Sockets, socket_list[j].raw_socket # NULL
         PROVE  UsedInv(j, socket_list'[j], pcb[socket_list[j].raw_socket],
                        host'[socket_list[j].raw_socket], commands')
    <3> DEFINE t == socket_list[j]
               r == t.raw_socket
    <3>1. /\ r \in Pcb /\ host[r] \in HostType /\ SlotsOf(r) = {j}
          /\ UsedInv(j, t, pcb[r], host[r], commands)
      BY <2>15, SlotOfIs
    <3>2. r = p <=> j = i
      BY <2>2, <3>1 DEF p, s
    <3>3. socket_list'[j].type = t.type /\ (j # i => socket_list'[j].rx = t.rx)
          /\ (j = i => socket_list'[j].rx = Without(s.rx, 1))
      BY <2>10
    <3>4. j = i => t = s
      BY DEF s
    <3> HIDE DEF r, t
    <3>5. OrderInv(commands', host'[r], t.type)
      <4>1. OrderInv(commands, host[r], t.type)
        BY <3>1 DEF UsedInv
      <4>2. CASE j = i
        <5>1. /\ b.conn = host[r].conn /\ t.type = "ASCII_CMD" /\ host'[r].waiting = host[r].waiting - 1
              /\ b.place = Sent(host[r]) + 1
          <6>1. r = p /\ t.type = "ASCII_CMD" /\ host[p].arrived \in Nat /\ w \in Nat /\ w = host[p].waiting
            BY <1>3, <2>2, <2>3, <3>2, <3>4, <4>2 DEF HostType, w
          <6> QED BY <2>3, <2>8, <3>1, <6>1 DEF Sent
        <5> QED BY <1>2, <2>4, <2>5, <2>8, <3>1, <4>1, <5>1, SentOrder
      <4>3. CASE j # i
        <5>1. r # p /\ pcb[r].state = "open"
          BY <3>1, <3>2, <4>3 DEF UsedInv
        <5>2. b.conn # host[r].conn /\ host'[r].waiting = host[r].waiting
          BY <2>2, <2>3, <2>8, <3>1, <5>1 DEF SocketInv, ConnectionsInv
        <5> QED BY <1>2, <2>4, <2>5, <2>8, <3>1, <4>1, <5>2, SentOrder
      <4> QED BY <4>2, <4>3
    <3>6. RingInv(socket_list'[j].rx, host'[r])
      <4>1. CASE j = i
        <5>1. r = p /\ host'[p].waiting = w - 1 /\ \A k \in 1 .. w - 1 : k \in 1 .. w
          BY <2>2, <2>3, <2>8, <3>2, <4>1
        <5> QED BY <2>3, <2>8, <2>9, <3>1, <3>3, <4>1, <5>1 DEF RingInv
      <4>2. CASE j # i
        <5>1. RingInv(t.rx, host[r]) /\ socket_list'[j].rx = t.rx /\ r # p
          BY <3>1, <3>2, <3>3, <4>2 DEF UsedInv
        <5> QED BY <2>8, <3>1, <5>1 DEF RingInv
      <4> QED BY <4>1, <4>2
    <3>7. UsedInv(j, socket_list'[j], pcb[r], host'[r], commands')
      BY <2>8, <3>1, <3>3, <3>5, <3>6 DEF UsedInv
    <3> QED BY <3>7 DEF r, t
  <2>16. SlotsInv'
    <3>1. ASSUME NEW j \in Sockets, socket_list[j].raw_socket = NULL
          PROVE  socket_list'[j].type = "UNUSED" /\ Waits(socket_list'[j].rx, 0)
      <4>1. j # i
        BY <1>3, <3>1 DEF p, s
      <4> QED BY <2>10, <3>1, <4>1, UnusedIs
    <3> QED BY <1>1, <2>10, <2>15, <3>1 DEF SlotsInv
  <2> QED BY <2>12, <2>13, <2>14, <2>16 DEF SocketInv
<1> QED BY <1>4, <1>5

(* The bytes that set the type go, or there was one byte only.             *)
LEMMA TypedOrder ==
  ASSUME NEW q \in Seq(Bytes), NEW h \in HostType, NEW g, NEW type, OrderInv(q, h, "IDLE"),
         g.conn = h.conn, g.arrived = h.arrived, g.overrun = h.overrun, g.reached = h.reached,
         \/ g.waiting = h.waiting /\ g.typed = h.typed
         \/ g.waiting = h.waiting - 2 /\ g.typed = h.arrived - h.waiting + 2
  PROVE  OrderInv(q, g, type)
<1>1. /\ Sent(h) \in Int /\ h.reached \in Nat /\ h.typed \in Int
      /\ \/ Sent(g) = Sent(h) /\ g.typed = h.typed
         \/ Sent(g) = Sent(h) + 2 /\ g.typed = Sent(g)
  <2>1. h.arrived \in Nat /\ h.waiting \in Nat /\ h.reached \in Nat /\ h.typed \in Int
    BY DEF HostType
  <2> QED BY <2>1 DEF Sent
<1>2. /\ h.reached <= Sent(h) /\ h.typed <= Sent(h)
      /\ \A k \in 1 .. Len(q) : q[k].conn = h.conn =>
           /\ h.reached < q[k].place /\ q[k].place <= Sent(h)
           /\ (~h.overrun => h.typed < q[k].place)
           /\ \A l \in 1 .. k - 1 : q[l].conn = h.conn => q[l].place < q[k].place
      /\ ~h.overrun => h.typed = Sent(h)
  BY DEF OrderInv
<1>3. \A k \in 1 .. Len(q) : q[k].place \in Nat
  <2>1. \A k \in 1 .. Len(q) : q[k] \in Bytes
    OBVIOUS
  <2> QED BY <2>1 DEF Bytes
<1>4. g.reached <= Sent(g) /\ g.typed <= Sent(g) /\ (~g.overrun => g.typed = Sent(g))
  BY <1>1, <1>2
<1>5. \A k \in 1 .. Len(q) : q[k].conn = h.conn => q[k].place <= Sent(g) /\ (~g.overrun => g.typed < q[k].place)
  BY <1>1, <1>2, <1>3
<1>6. \A n \in Nat : ~(~g.overrun /\ g.typed < n /\ n <= Sent(g))
  BY <1>1, <1>4
<1> QED BY <1>2, <1>4, <1>5, <1>6 DEF OrderInv

LEMMA TypeKeeps == ASSUME SocketInv, DecideType PROVE SocketInv'
<1> DEFINE i == cpu0.i
           s == socket_list[i]
           p == s.raw_socket
           w == host[p].waiting
<1>1. /\ UNCHANGED <<pcb, connection, commands>> /\ cpu0.stage = "rx" /\ cpu0' = NextSocket
      /\ s.type = "IDLE" /\ BytesUsed(s.rx) > 0
      /\ IF w < 2 THEN host' = host
         ELSE host' = [host EXCEPT ![p].waiting = @ - 2,
                                   ![p].typed = host[p].arrived - host[p].waiting + 2]
  BY DEF DecideType, channels
<1>2. PICK type \in TypesOf(s.rx) :
        socket_list' = [socket_list EXCEPT ![i].type = type, ![i].rx = Without(@, 2)]
  BY DEF DecideType
<1>3. type \in {"IDLE", "ASCII_CMD", "LOG_VAR"}
  BY <1>2 DEF TypesOf
<1>4. /\ host \in [Pcb -> HostType] /\ commands \in Seq(Bytes) /\ cpu0 \in Cpu0Type /\ i \in Sockets
      /\ socket_list \in [Sockets -> SlotType] /\ pcb \in [Pcb -> PcbType]
  BY DEF SocketInv, TypesInv, Cpu0Type
<1>5. p # NULL
  BY <1>1, <1>4, UnusedIs
<1>6. /\ p \in Pcb /\ SlotsOf(p) = {i} /\ s \in SlotType /\ host[p] \in HostType
      /\ UsedInv(i, s, pcb[p], host[p], commands)
  BY <1>4, <1>5, SlotOfIs
<1>7. /\ s.rx \in Rings(Bytes) /\ w \in Nat /\ RingInv(s.rx, host[p]) /\ Waits(s.rx, w)
      /\ OrderInv(commands, host[p], "IDLE")
  BY <1>1, <1>6 DEF SlotType, HostType, UsedInv, RingInv
<1> HIDE DEF s, p, w, i
<1>8. ASSUME NEW r \in Pcb
      PROVE  /\ host'[r] \in HostType /\ host'[r].conn = host[r].conn
             /\ host'[r].arrived = host[r].arrived
             /\ host'[r].overrun = host[r].overrun /\ host'[r].reached = host[r].reached
             /\ host'[r].told = host[r].told /\ host'[r].missed = host[r].missed
             /\ IF r = p /\ w >= 2
                THEN host'[r].waiting = w - 2 /\ host'[r].typed = host[r].arrived - w + 2
                ELSE host'[r].waiting = host[r].waiting /\ host'[r].typed = host[r].typed
  <2>1. host[r] \in HostType /\ host[p].waiting = w
    BY <1>4 DEF w
  <2>2. CASE w < 2
    BY <1>1, <1>7, <2>1, <2>2
  <2>3. CASE w >= 2
    <3> DEFINE x == host[p].arrived - w + 2
               g == [host EXCEPT ![p].waiting = w - 2]
    <3>1. host' = [g EXCEPT ![p].typed = x]
      BY <1>1, <1>6, <2>1, <2>3 DEF HostType
    <3>2. w - 2 \in Nat /\ x \in Int
      BY <1>6, <1>7, <2>3 DEF HostType
    <3>3. r # p => host'[r] = host[r]
      <4>1. r # p => g[r] = host[r]
        BY <1>4
      <4>2. DOMAIN g = Pcb
        BY <1>4
      <4> HIDE DEF g, x
      <4> QED BY <3>1, <4>1, <4>2
    <3>4. r = p => host'[r] = [[host[r] EXCEPT !.waiting = w - 2] EXCEPT !.typed = x]
      <4>1. DOMAIN g = Pcb /\ g[p] = [host[p] EXCEPT !.waiting = w - 2]
        BY <1>4, <1>6
      <4> HIDE DEF g, x
      <4> QED BY <1>6, <3>1, <4>1
    <3> QED BY <2>1, <2>3, <3>2, <3>3, <3>4 DEF HostType
  <2> QED BY <1>7, <2>2, <2>3
<1>9. LET v == IF 2 > w THEN w ELSE w - 2
          rx == Without(s.rx, 2)
      IN  rx \in Rings(Bytes) /\ rx.buf = s.rx.buf /\ rx.head = s.rx.head /\ Waits(rx, v)
  BY <1>7, WithoutIs
<1>10. \A j \in Sockets : IF j = i THEN socket_list'[j] = [raw_socket |-> p, type |-> type, rx |-> Without(s.rx, 2)]
                          ELSE socket_list'[j] = socket_list[j]
  BY <1>2, <1>4, <1>6 DEF SlotType, s, p
<1>11. TypesInv' /\ SendInv'
  <2>1. \A j \in Sockets : socket_list'[j] \in SlotType
    BY <1>3, <1>4, <1>6, <1>9, <1>10 DEF SlotType
  <2>2. socket_list' \in [Sockets -> SlotType]
    BY <1>2, <1>4, <2>1
  <2>3. host' \in [Pcb -> HostType]
    BY <1>1, <1>4, <1>8
  <2>4. cpu0' \in Cpu0Type /\ cpu0'.stage # "send"
    BY <1>1, <1>4, Stages
  <2> QED BY <1>1, <1>4, <2>2, <2>3, <2>4 DEF SocketInv, TypesInv, SendInv
<1>12. ConnectionsInv'
  <2>1. \A k \in 1 .. Len(commands') : commands'[k].conn \in 1 .. connection
    BY <1>1 DEF SocketInv, ConnectionsInv
  <2> QED BY <1>1, <1>8, <2>1, SameConnections
<1>13. UsedInv(i, socket_list'[i], pcb[p], host'[p], commands)
  <2>1. OrderInv(commands, host'[p], type)
    <3>1. host[p].waiting = w /\ host[p] \in HostType
      BY <1>6 DEF w
    <3> QED BY <1>4, <1>6, <1>7, <1>8, <3>1, TypedOrder
  <2>2. RingInv(Without(s.rx, 2), host'[p])
    <3> DEFINE v == IF 2 > w THEN w ELSE w - 2
               rx == Without(s.rx, 2)
    <3>1. host'[p].waiting = v /\ v \in Nat /\ \A j \in 1 .. v : j \in 1 .. w
      BY <1>6, <1>7, <1>8 DEF w
    <3>2. rx.buf = s.rx.buf /\ rx.head = s.rx.head /\ Waits(rx, v)
      BY <1>9
    <3> HIDE DEF v, rx
    <3>3. \A j \in 1 .. w : LET b == s.rx.buf[Back(s.rx.head, j)]
                           IN  b.conn = host[p].conn /\ b.place = host[p].arrived + 1 - j
      BY <1>7 DEF RingInv, w
    <3>4. RingInv(rx, host'[p])
      BY <1>6, <1>8, <3>1, <3>2, <3>3 DEF RingInv
    <3> QED BY <3>4 DEF rx
  <2>3. socket_list'[i].type = type /\ socket_list'[i].rx = Without(s.rx, 2) /\ type # "UNUSED"
    BY <1>3, <1>4, <1>10
  <2> QED BY <1>6, <1>8, <2>1, <2>2, <2>3 DEF UsedInv
<1>14. SlotsInv'
  <2>1. ASSUME NEW j \in Sockets, j # i
        PROVE  LET t == socket_list[j]
               IN  IF t.raw_socket = NULL THEN t.type = "UNUSED" /\ Waits(t.rx, 0)
                   ELSE UsedInv(j, t, pcb[t.raw_socket], host'[t.raw_socket], commands)
    <3> DEFINE t == socket_list[j]
               r == t.raw_socket
    <3>1. CASE r = NULL
      BY <3>1, UnusedIs
    <3>2. CASE r # NULL
      <4>1. r \in Pcb /\ SlotsOf(r) = {j} /\ UsedInv(j, t, pcb[r], host[r], commands)
        BY <3>2, SlotOfIs
      <4>2. r # p
        BY <1>6, <2>1, <4>1
      <4> HIDE DEF r, t
      <4>3. OrderInv(commands, host'[r], t.type)
        <5>1. OrderInv(commands, host[r], t.type)
          BY <4>1 DEF UsedInv
        <5> QED BY <1>8, <4>1, <4>2, <5>1, SameOrder
      <4>4. RingInv(t.rx, host'[r])
        BY <1>8, <4>1, <4>2 DEF UsedInv, RingInv
      <4>5. UsedInv(j, t, pcb[r], host'[r], commands)
        BY <1>8, <4>1, <4>3, <4>4 DEF UsedInv
      <4> QED BY <3>2, <4>5 DEF r, t
    <3> QED BY <3>1, <3>2
  <2>2. socket_list'[i].raw_socket = p
    BY <1>4, <1>10
  <2> QED BY <1>1, <1>5, <1>10, <1>13, <2>1, <2>2 DEF SlotsInv
<1> QED BY <1>11, <1>12, <1>14 DEF SocketInv

-----------------------------------------------------------------------------
(***************************************************************************)
(* The callbacks.  A slot of another connection is left alone by them.     *)
(***************************************************************************)
LEMMA ResetIs ==
  ASSUME NEW rb \in Rings(Bytes) PROVE Reset(rb) \in Rings(Bytes) /\ Waits(Reset(rb), 0)
<1>1. RingSize \in Nat \ {0} /\ 0 \in Cells /\ 0 \in 0 .. Capacity /\ 0 \in 0 .. RingSize - 1
  BY RingSizeAssumption DEF Cells, Capacity
<1>2. 0 % RingSize = 0
  BY <1>1, ModOf
<1>3. Reset(rb) \in Rings(Bytes) /\ Reset(rb).head = 0 /\ Reset(rb).tail = 0
  BY <1>1 DEF Reset, Rings
<1>4. Back(0, 0) = 0
  BY <1>2 DEF Back
<1> QED BY <1>1, <1>3, <1>4 DEF Waits

LEMMA OthersKeep ==
  ASSUME SocketInv, NEW p \in Pcb, commands' = commands,
         \A r \in Pcb : r # p => pcb'[r] = pcb[r] /\ host'[r] = host[r],
         NEW j \in Sockets, socket_list[j].raw_socket # p, socket_list'[j] = socket_list[j]
  PROVE  LET t == socket_list'[j]
         IN  IF t.raw_socket = NULL THEN t.type = "UNUSED" /\ Waits(t.rx, 0)
             ELSE UsedInv(j, t, pcb'[t.raw_socket], host'[t.raw_socket], commands')
<1> DEFINE t == socket_list[j]
<1>1. CASE t.raw_socket = NULL
  BY <1>1, UnusedIs
<1>2. CASE t.raw_socket # NULL
  <2>1. t.raw_socket \in Pcb /\ UsedInv(j, t, pcb[t.raw_socket], host[t.raw_socket], commands)
    BY <1>2, SlotOfIs
  <2> QED BY <1>2, <2>1
<1> QED BY <1>1, <1>2

LEMMA RemovedIs ==
  ASSUME SocketInv, NEW p \in Pcb, NEW j \in Sockets
  PROVE  /\ Removed(p)[j] \in SlotType
         /\ IF socket_list[j].raw_socket = p
            THEN /\ Removed(p)[j].raw_socket = NULL /\ Removed(p)[j].type = "UNUSED"
                 /\ Waits(Removed(p)[j].rx, 0)
            ELSE Removed(p)[j] = socket_list[j]
<1>1. socket_list \in [Sockets -> SlotType] /\ p # NULL
  BY Constants DEF SocketInv, TypesInv
<1>2. CASE SlotsOf(p) = {}
  <2>1. Removed(p) = socket_list
    BY <1>2 DEF Removed
  <2>2. socket_list[j].raw_socket # p
    BY <1>2 DEF SlotsOf
  <2> QED BY <1>1, <2>1, <2>2
<1>3. ASSUME NEW i \in SlotsOf(p)
      PROVE  /\ Removed(p)[j] \in SlotType
             /\ IF socket_list[j].raw_socket = p
                THEN /\ Removed(p)[j].raw_socket = NULL /\ Removed(p)[j].type = "UNUSED"
                     /\ Waits(Removed(p)[j].rx, 0)
                ELSE Removed(p)[j] = socket_list[j]
  <2>1. i \in Sockets /\ socket_list[i].raw_socket = p
    BY DEF SlotsOf
  <2>2. SlotsOf(p) = {i} /\ SlotOf(p) = i
    BY <1>1, <2>1, SlotOfIs
  <2> DEFINE n == [raw_socket |-> NULL, type |-> "UNUSED", rx |-> Reset(socket_list[i].rx)]
  <2>3. Removed(p) = [socket_list EXCEPT ![i] = n]
    BY <1>1, <2>1, <2>2 DEF Removed
  <2>4. socket_list[i].rx \in Rings(Bytes)
    BY <1>1, <2>1 DEF SlotType
  <2>5. n \in SlotType /\ Waits(n.rx, 0)
    BY <2>4, ResetIs DEF SlotType
  <2>6. n.raw_socket = NULL /\ n.type = "UNUSED"
    OBVIOUS
  <2>7. socket_list[j].raw_socket = p <=> j = i
    BY <2>1, <2>2 DEF SlotsOf
  <2> HIDE DEF n
  <2> QED BY <1>1, <2>1, <2>3, <2>5, <2>6, <2>7
<1> QED BY <1>2, <1>3

LEMMA EndedKeeps ==
  ASSUME SocketInv, NEW p \in Pcb, NEW state \in {"closing", "free"}, Ended(p, state),
         UNCHANGED <<commands, cpu0, connection>>, cpu0.stage = "input"
  PROVE  SocketInv'
<1>1. /\ pcb' = [pcb EXCEPT ![p] = [state |-> state, room |-> 0]]
      /\ host' = [host EXCEPT ![p] = NewHost]
      /\ socket_list' = Removed(p)
  BY DEF Ended
<1>2. pcb \in [Pcb -> PcbType] /\ host \in [Pcb -> HostType] /\ socket_list \in [Sockets -> SlotType]
  BY DEF SocketInv, TypesInv
<1>3. NewHost \in HostType /\ [state |-> state, room |-> 0] \in PcbType
  BY Constants DEF NewHost, HostType, PcbType
<1>4. \A r \in Pcb : r # p => pcb'[r] = pcb[r] /\ host'[r] = host[r]
  BY <1>1, <1>2
<1>5. pcb'[p].state # "open"
  BY <1>1, <1>2
<1>6. TypesInv'
  <2>1. socket_list' \in [Sockets -> SlotType]
    <3>1. \A j \in Sockets : socket_list'[j] \in SlotType
      BY <1>1, RemovedIs
    <3>2. \E f : socket_list' = [socket_list EXCEPT ![SlotOf(p)] = f] \/ socket_list' = socket_list
      BY <1>1 DEF Removed
    <3> QED BY <1>2, <3>1, <3>2
  <2> QED BY <1>1, <1>2, <1>3, <2>1 DEF SocketInv, TypesInv
<1>7. ConnectionsInv'
  <2>1. \A k \in 1 .. Len(commands') : commands'[k].conn \in 1 .. connection
    BY DEF SocketInv, ConnectionsInv
  <2> QED BY <1>4, <1>5, <2>1, SameConnections
<1>8. SendInv'
  BY DEF SendInv
<1>9. SlotsInv'
  <2>1. ASSUME NEW j \in Sockets
        PROVE  LET t == socket_list'[j]
               IN  IF t.raw_socket = NULL THEN t.type = "UNUSED" /\ Waits(t.rx, 0)
                   ELSE UsedInv(j, t, pcb'[t.raw_socket], host'[t.raw_socket], commands')
    <3>1. CASE socket_list[j].raw_socket = p
      BY <1>1, <3>1, RemovedIs
    <3>2. CASE socket_list[j].raw_socket # p
      <4>1. socket_list'[j] = socket_list[j]
        BY <1>1, <3>2, RemovedIs
      <4> QED BY <1>4, <3>2, <4>1, OthersKeep
    <3> QED BY <3>1, <3>2
  <2> QED BY <2>1 DEF SlotsInv
<1> QED BY <1>6, <1>7, <1>8, <1>9 DEF SocketInv

(* Bytes arrive; what waited longest goes when there is no room.           *)
LEMMA ReceivedOrder ==
  ASSUME NEW q \in Seq(Bytes), NEW h \in HostType, NEW g, NEW type, OrderInv(q, h, type),
         NEW n \in Nat, g.conn = h.conn, g.arrived = h.arrived + n, g.typed = h.typed,
         g.reached = h.reached,
         g.waiting = IF h.waiting + n > Capacity THEN Capacity ELSE h.waiting + n,
         g.overrun = (h.overrun \/ h.waiting + n > Capacity), h.waiting <= Capacity
  PROVE  OrderInv(q, g, type)
<1>1. /\ Sent(h) \in Int /\ h.reached \in Nat /\ h.typed \in Int /\ Sent(g) \in Int
      /\ Sent(h) <= Sent(g) /\ (~g.overrun => Sent(g) = Sent(h) /\ ~h.overrun)
  <2>1. h.arrived \in Nat /\ h.waiting \in Nat /\ h.reached \in Nat /\ h.typed \in Int
    BY DEF HostType
  <2>2. /\ g.waiting \in Int /\ g.arrived \in Int /\ g.arrived = h.arrived + n
        /\ g.waiting <= h.waiting + n
        /\ (~(h.waiting + n > Capacity) => g.waiting = h.waiting + n)
    BY Constants, <2>1
  <2>3. ~g.overrun => ~h.overrun /\ ~(h.waiting + n > Capacity)
    BY Zenon
  <2>4. Sent(g) \in Int /\ Sent(h) <= Sent(g) /\ (~(h.waiting + n > Capacity) => Sent(g) = Sent(h))
    BY <2>1, <2>2 DEF Sent
  <2> QED BY <2>1, <2>3, <2>4 DEF Sent
<1>2. /\ h.reached <= Sent(h) /\ h.typed <= Sent(h)
      /\ \A k \in 1 .. Len(q) : q[k].conn = h.conn =>
           /\ h.reached < q[k].place /\ q[k].place <= Sent(h)
           /\ (~h.overrun => h.typed < q[k].place)
           /\ \A l \in 1 .. k - 1 : q[l].conn = h.conn => q[l].place < q[k].place
      /\ type = "IDLE" /\ ~h.overrun => h.typed = Sent(h)
      /\ type = "ASCII_CMD" /\ ~h.overrun =>
           \A m \in Nat : h.reached < m /\ h.typed < m /\ m <= Sent(h)
                        => \E k \in 1 .. Len(q) : q[k].conn = h.conn /\ q[k].place = m
  BY DEF OrderInv
<1>3. \A k \in 1 .. Len(q) : q[k].place \in Nat
  <2>1. \A k \in 1 .. Len(q) : q[k] \in Bytes
    OBVIOUS
  <2> QED BY <2>1 DEF Bytes
<1>4. g.reached <= Sent(g) /\ g.typed <= Sent(g)
  BY <1>1, <1>2
<1>5. \A k \in 1 .. Len(q) : q[k].conn = h.conn => q[k].place <= Sent(g)
  BY <1>1, <1>2, <1>3
<1> QED BY <1>1, <1>2, <1>4, <1>5 DEF OrderInv

LEMMA RecvKeeps == ASSUME SocketInv, NEW p \in Pcb, NEW segment \in Segments, Recv(p, segment) PROVE SocketInv'
<1>1. /\ cpu0.stage = "input" /\ pcb[p].state = "open" /\ UNCHANGED <<commands, cpu0, connection>>
  BY DEF Recv, channels
<1>2. CASE SlotsOf(p) = {}
  <2>1. Ended(p, "closing")
    BY <1>2 DEF Recv
  <2> QED BY <1>1, <2>1, EndedKeeps
<1>3. ASSUME NEW i \in SlotsOf(p) PROVE SocketInv'
  <2> DEFINE h == host[p]
             n == Len(segment)
             rx == socket_list[i].rx
             data == [k \in 1 .. n |->
                        [conn |-> h.conn, place |-> h.arrived + k, value |-> segment[k]]]
             r == MemcpyInto(rx, data)
             u == IF h.waiting + n > Capacity THEN Capacity ELSE h.waiting + n
  <2>1. /\ i \in Sockets /\ socket_list[i].raw_socket = p /\ p # NULL
        /\ socket_list \in [Sockets -> SlotType] /\ host \in [Pcb -> HostType] /\ pcb \in [Pcb -> PcbType]
        /\ commands \in Seq(Bytes)
    BY Constants DEF SlotsOf, SocketInv, TypesInv
  <2>2. /\ SlotOf(p) = i /\ SlotsOf(p) = {i} /\ h \in HostType
        /\ UsedInv(i, socket_list[i], pcb[p], h, commands)
    BY <2>1, SlotOfIs
  <2>3. /\ socket_list' = [socket_list EXCEPT ![i].rx = r]
        /\ host' = [host EXCEPT ![p].arrived = h.arrived + n,
                               ![p].waiting = Min({h.waiting + n, Capacity}),
                               ![p].overrun = @ \/ h.waiting + n > Capacity]
        /\ pcb' = pcb
    BY <2>2 DEF Recv
  <2>4. /\ n \in Nat /\ h.waiting \in Nat /\ h.waiting <= Capacity /\ h.arrived \in Nat /\ u \in Nat
        /\ Capacity \in Nat /\ rx \in Rings(Bytes) /\ segment \in Seq(Value)
        /\ h.conn \in Connections \cup {0} /\ h.overrun \in BOOLEAN
        /\ RingInv(rx, h) /\ Waits(rx, h.waiting) /\ OrderInv(commands, h, socket_list[i].type)
    <3>1. /\ segment \in Seq(Value) /\ n \in Nat
      BY SocketsAssumption
    <3>2. rx \in Rings(Bytes)
      BY <2>1 DEF SlotType
    <3>3. /\ h.waiting \in Nat /\ h.arrived \in Nat /\ h.conn \in Connections \cup {0}
          /\ h.overrun \in BOOLEAN
      BY <2>2 DEF HostType
    <3>4. /\ RingInv(rx, h) /\ Waits(rx, h.waiting) /\ OrderInv(commands, h, socket_list[i].type)
      BY <2>2 DEF UsedInv, RingInv
    <3>5. h.waiting <= Capacity
      BY <3>4 DEF Waits
    <3> QED BY Constants, <3>1, <3>2, <3>3, <3>4, <3>5
  <2>5. Min({h.waiting + n, Capacity}) = u
    <3> DEFINE T == {h.waiting + n, Capacity}
    <3>1. T \in SUBSET Nat /\ T # {} /\ h.waiting + n \in T /\ Capacity \in T
      BY <2>4
    <3>2. Min(T) \in T /\ \A y \in T : Min(T) <= y
      BY <3>1, MinIs
    <3>3. (Min(T) = h.waiting + n \/ Min(T) = Capacity) /\ Min(T) <= h.waiting + n /\ Min(T) <= Capacity
      BY <3>1, <3>2
    <3> HIDE DEF T
    <3>4. Min(T) = u
      BY <2>4, <3>3
    <3> QED BY <3>4 DEF T
  <2> HIDE DEF u
  <2>6. data \in Seq(Bytes) /\ Len(data) = n /\ \A k \in 1 .. n : data[k].conn = h.conn /\ data[k].place = h.arrived + k
    <3>1. \A k \in 1 .. n : data[k] \in Bytes
      BY <2>4 DEF Bytes
    <3>2. \A k \in 1 .. n : data[k].conn = h.conn /\ data[k].place = h.arrived + k
      OBVIOUS
    <3>3. data = [k \in 1 .. n |-> data[k]]
      OBVIOUS
    <3> HIDE DEF data
    <3> QED BY <2>4, <3>1, <3>2, <3>3
  <2> HIDE DEF data
  <2>7. /\ r \in Rings(Bytes) /\ Waits(r, u)
        /\ \A j \in 1 .. u : r.buf[Back(r.head, j)] =
             IF j <= n THEN data[n - j + 1] ELSE rx.buf[Back(rx.head, j - n)]
    <3> HIDE DEF r, rx, h, n
    <3>1. rx \in Rings(Bytes) /\ data \in Seq(Bytes) /\ Waits(rx, h.waiting) /\ Len(data) = n
      BY <2>4, <2>6
    <3>2. LET v == IF h.waiting + Len(data) > Capacity THEN Capacity ELSE h.waiting + Len(data)
              m == MemcpyInto(rx, data)
          IN  /\ m \in Rings(Bytes) /\ Waits(m, v)
              /\ \A j \in 1 .. v : m.buf[Back(m.head, j)] =
                   IF j <= Len(data) THEN data[Len(data) - j + 1] ELSE rx.buf[Back(rx.head, j - Len(data))]
      BY <3>1, MemcpyIs, Zenon
    <3> QED BY <3>1, <3>2 DEF u, r
  <2> HIDE DEF r
  <2>8. ASSUME NEW q \in Pcb, q # p PROVE pcb'[q] = pcb[q] /\ host'[q] = host[q]
    BY <2>1, <2>3, <2>8
  <2>9. /\ host'[p] \in HostType /\ host'[p].conn = h.conn /\ host'[p].told = h.told
        /\ host'[p].arrived = h.arrived + n /\ host'[p].waiting = u /\ host'[p].typed = h.typed
        /\ host'[p].reached = h.reached /\ host'[p].missed = h.missed
        /\ host'[p].overrun = (h.overrun \/ h.waiting + n > Capacity)
    <3> DEFINE o == h.overrun \/ h.waiting + n > Capacity
    <3>1. host'[p] = [[[h EXCEPT !.arrived = h.arrived + n] EXCEPT !.waiting = u] EXCEPT !.overrun = o]
      <4> DEFINE a == [host EXCEPT ![p].arrived = h.arrived + n]
                 b == [a EXCEPT ![p].waiting = u]
      <4>1. a[p] = [h EXCEPT !.arrived = h.arrived + n] /\ DOMAIN a = Pcb
        BY <2>1
      <4>2. b[p] = [[h EXCEPT !.arrived = h.arrived + n] EXCEPT !.waiting = u] /\ DOMAIN b = Pcb
        <5> HIDE DEF a
        <5> QED BY <4>1
      <4>3. b[p].overrun = h.overrun
        <5> HIDE DEF b
        <5> QED BY <2>2, <4>2 DEF HostType
      <4>4. host' = [b EXCEPT ![p].overrun = @ \/ h.waiting + n > Capacity]
        BY <2>3, <2>5
      <4> HIDE DEF b
      <4> QED BY <4>2, <4>3, <4>4
    <3>2. o \in BOOLEAN /\ h.arrived + n \in Nat
      BY <2>4
    <3> HIDE DEF o, h
    <3> QED BY <2>2, <2>4, <3>1, <3>2 DEF HostType, o
  <2>10. \A j \in Sockets : socket_list'[j] = IF j = i THEN [socket_list[i] EXCEPT !.rx = r] ELSE socket_list[j]
    BY <2>1, <2>3
  <2>11. /\ socket_list'[i] \in SlotType /\ socket_list'[i].raw_socket = p
         /\ socket_list'[i].type = socket_list[i].type /\ socket_list'[i].rx = r
    BY <2>1, <2>7, <2>10 DEF SlotType
  <2>12. TypesInv'
    <3>1. socket_list' \in [Sockets -> SlotType]
      BY <2>1, <2>3, <2>10, <2>11
    <3>2. host' \in [Pcb -> HostType]
      BY <2>1, <2>3, <2>8, <2>9
    <3> QED BY <1>1, <2>3, <3>1, <3>2 DEF SocketInv, TypesInv
  <2>13. ConnectionsInv'
    <3>1. \A k \in 1 .. Len(commands') : commands'[k].conn \in 1 .. connection
      BY <1>1 DEF SocketInv, ConnectionsInv
    <3> QED BY <1>1, <2>3, <2>8, <2>9, <3>1, SameConnections
  <2>14. SendInv'
    BY <1>1 DEF SendInv
  <2>15. UsedInv(i, socket_list'[i], pcb'[p], host'[p], commands')
    <3>1. OrderInv(commands, host'[p], socket_list[i].type)
      BY <2>1, <2>2, <2>4, <2>9, ReceivedOrder DEF u
    <3>2. ASSUME NEW j \in 1 .. u
          PROVE  /\ r.buf[Back(r.head, j)].conn = h.conn
                 /\ r.buf[Back(r.head, j)].place = h.arrived + n + 1 - j
      <4>1. CASE j <= n
        <5>1. n - j + 1 \in 1 .. n /\ h.arrived + (n - j + 1) = h.arrived + n + 1 - j
          <6>1. \A m \in Nat, a \in Nat : \A k \in 1 .. m : m - k + 1 \in 1 .. m /\ a + (m - k + 1) = a + m + 1 - k
            OBVIOUS
          <6>2. n \in Nat /\ h.arrived \in Nat /\ j \in 1 .. n
            BY <2>4, <4>1
          <6> HIDE DEF n, h
          <6> QED BY <6>1, <6>2
        <5>2. data[n - j + 1].conn = h.conn /\ data[n - j + 1].place = h.arrived + (n - j + 1)
          BY <2>6, <5>1
        <5> QED BY <2>7, <4>1, <5>1, <5>2
      <4>2. CASE ~(j <= n)
        <5>1. j - n \in 1 .. h.waiting /\ h.arrived + 1 - (j - n) = h.arrived + n + 1 - j
          <6>1. \A m \in Nat, v \in Nat, k \in Nat, a \in Nat :
                  ~(k <= m) /\ k <= v + m => k - m \in 1 .. v /\ a + 1 - (k - m) = a + m + 1 - k
            OBVIOUS
          <6>2. j \in Nat /\ j <= h.waiting + n
            BY <2>4 DEF u
          <6>3. n \in Nat /\ h.waiting \in Nat /\ h.arrived \in Nat
            BY <2>4
          <6> HIDE DEF n, h
          <6> QED BY <4>2, <6>1, <6>2, <6>3
        <5>2. /\ rx.buf[Back(rx.head, j - n)].conn = h.conn
              /\ rx.buf[Back(rx.head, j - n)].place = h.arrived + 1 - (j - n)
          BY <2>4, <5>1 DEF RingInv
        <5> QED BY <2>7, <4>2, <5>1, <5>2
      <4> QED BY <4>1, <4>2
    <3>3. RingInv(r, host'[p])
      BY <2>7, <2>9, <3>2 DEF RingInv
    <3> QED BY <1>1, <2>2, <2>3, <2>9, <2>11, <3>1, <3>3 DEF UsedInv
  <2>16. SlotsInv'
    <3>1. ASSUME NEW j \in Sockets, j # i
          PROVE  LET t == socket_list'[j]
                 IN  IF t.raw_socket = NULL THEN t.type = "UNUSED" /\ Waits(t.rx, 0)
                     ELSE UsedInv(j, t, pcb'[t.raw_socket], host'[t.raw_socket], commands')
      <4>1. socket_list[j].raw_socket # p
        BY <2>2, <3>1 DEF SlotsOf
      <4>2. socket_list'[j] = socket_list[j]
        BY <2>10, <3>1
      <4> QED BY <1>1, <2>8, <4>1, <4>2, OthersKeep
    <3> QED BY <2>1, <2>11, <2>15, <3>1 DEF SlotsInv
  <2> QED BY <2>12, <2>13, <2>14, <2>16 DEF SocketInv
<1> QED BY <1>2, <1>3

Fresh(g, c) == /\ g \in HostType /\ g.conn = c /\ g.arrived = 0 /\ g.waiting = 0
               /\ g.typed = 0 /\ g.reached = 0 /\ ~g.missed

LEMMA FreshHost ==
  ASSUME NEW c \in Connections
  PROVE  LET g == [NewHost EXCEPT !.conn = c]
         IN  Fresh(g, c) /\ \A k \in Nat : Fresh([g EXCEPT !.told = k], c) /\ [g EXCEPT !.told = k].told = k
<1> DEFINE g == [NewHost EXCEPT !.conn = c]
<1>1. /\ NewHost \in HostType /\ NewHost.arrived = 0 /\ NewHost.waiting = 0 /\ NewHost.typed = 0
      /\ NewHost.reached = 0 /\ NewHost.missed = FALSE
  BY Constants DEF NewHost, HostType
<1>2. /\ g \in HostType /\ g.conn = c /\ g.arrived = 0 /\ g.waiting = 0 /\ g.typed = 0
      /\ g.reached = 0 /\ g.missed = FALSE
  BY <1>1 DEF HostType
<1> HIDE DEF g
<1>3. ASSUME NEW k \in Nat
      PROVE  Fresh([g EXCEPT !.told = k], c) /\ [g EXCEPT !.told = k].told = k
  <2> DEFINE f == [g EXCEPT !.told = k]
  <2>1. /\ f \in HostType /\ f.conn = c /\ f.arrived = 0 /\ f.waiting = 0 /\ f.typed = 0
        /\ f.reached = 0 /\ f.missed = FALSE /\ f.told = k
    BY <1>2 DEF HostType
  <2> QED BY <2>1 DEF Fresh
<1>4. Fresh(g, c)
  BY <1>2 DEF Fresh
<1> QED BY <1>3, <1>4 DEF g

(* No byte of a connection that is new is anywhere.                        *)
LEMMA AcceptKeeps == ASSUME SocketInv, NEW p \in Pcb, Accept(p) PROVE SocketInv'
<1> DEFINE usable == SlotsOf(NULL) \cup SlotsOf(p)
           i == Min(usable)
           new == [NewHost EXCEPT !.conn = connection + 1]
<1>1. /\ cpu0.stage = "input" /\ pcb[p].state = "free" /\ connection < MaxConnections
      /\ connection' = connection + 1 /\ UNCHANGED <<commands, cpu0>>
      /\ IF usable = {}
         THEN /\ pcb' = [pcb EXCEPT ![p] = [state |-> "open", room |-> SendRoom]]
              /\ host' = [host EXCEPT ![p] = new]
              /\ UNCHANGED socket_list
         ELSE /\ pcb' = [pcb EXCEPT ![p] = [state |-> "open", room |-> SendRoom - 1]]
              /\ host' = [host EXCEPT ![p] = [new EXCEPT !.told = i]]
              /\ socket_list' = [socket_list EXCEPT ![i].raw_socket = p, ![i].type = "IDLE"]
  BY DEF Accept, channels
<1>2. /\ pcb \in [Pcb -> PcbType] /\ host \in [Pcb -> HostType] /\ socket_list \in [Sockets -> SlotType]
      /\ connection \in 0 .. MaxConnections /\ commands \in Seq(Bytes)
  BY DEF SocketInv, TypesInv
<1>3. /\ connection + 1 \in 1 .. MaxConnections /\ connection + 1 \in Connections
      /\ connection \in Nat /\ SendRoom \in Int
  BY <1>1, <1>2, SocketsAssumption DEF Connections
<1>4. ASSUME NEW j \in Sockets PROVE socket_list[j].raw_socket # p
  <2>1. CASE socket_list[j].raw_socket = p
    <3>1. p # NULL
      BY Constants
    <3>2. pcb[p].state = "open"
      BY <2>1, <3>1, SlotOfIs DEF UsedInv
    <3> QED BY <1>1, <3>2
  <2> QED BY <2>1
<1>5. usable # {} => i \in Sockets /\ socket_list[i].raw_socket = NULL
  <2>1. usable \in SUBSET Nat
    BY Constants DEF SlotsOf
  <2>2. usable # {} => i \in usable
    <3> HIDE DEF usable
    <3> QED BY <2>1, MinIs
  <2> HIDE DEF i
  <2> QED BY <1>4, <2>2 DEF SlotsOf
<1> HIDE DEF usable, i
<1>6. ASSUME NEW r \in Pcb, r # p PROVE pcb'[r] = pcb[r] /\ host'[r] = host[r]
  BY <1>1, <1>2, <1>6
<1>7. /\ pcb'[p] \in PcbType /\ pcb'[p].state = "open"
      /\ host'[p] \in HostType /\ host'[p].conn = connection + 1
      /\ host'[p].arrived = 0 /\ host'[p].waiting = 0 /\ host'[p].typed = 0
      /\ host'[p].reached = 0 /\ ~host'[p].missed
      /\ (usable # {} => host'[p].told = i)
  <2>1. host'[p] = new \/ (i \in Nat /\ host'[p] = [new EXCEPT !.told = i])
    <3> HIDE DEF new
    <3> QED BY <1>1, <1>2, <1>5, Constants
  <2>2. usable # {} => i \in Nat /\ host'[p] = [new EXCEPT !.told = i]
    <3> HIDE DEF new
    <3> QED BY <1>1, <1>2, <1>5, Constants
  <2>3. Fresh(host'[p], connection + 1) /\ (usable # {} => host'[p].told = i)
    BY <1>3, <2>1, <2>2, FreshHost
  <2>4. pcb'[p] \in PcbType /\ pcb'[p].state = "open"
    BY <1>1, <1>2, <1>3 DEF PcbType
  <2> QED BY <2>3, <2>4 DEF Fresh
<1>8. ASSUME NEW j \in Sockets
      PROVE  /\ socket_list'[j] \in SlotType
             /\ IF usable # {} /\ j = i
                THEN /\ socket_list'[j].raw_socket = p /\ socket_list'[j].type = "IDLE"
                     /\ socket_list'[j].rx = socket_list[j].rx
                ELSE socket_list'[j] = socket_list[j]
  BY <1>1, <1>2, <1>5 DEF SlotType
<1>9. TypesInv'
  <2>1. socket_list' \in [Sockets -> SlotType]
    BY <1>1, <1>2, <1>8
  <2>2. pcb' \in [Pcb -> PcbType] /\ host' \in [Pcb -> HostType]
    BY <1>1, <1>2, <1>6, <1>7
  <2> QED BY <1>1, <1>3, <2>1, <2>2 DEF SocketInv, TypesInv
<1>10. ConnectionsInv'
  <2>1. /\ \A r \in Pcb : pcb[r].state = "open" =>
             /\ host[r].conn \in 1 .. connection
             /\ \A q \in Pcb : pcb[q].state = "open" /\ host[q].conn = host[r].conn => q = r
        /\ \A k \in 1 .. Len(commands) : commands[k].conn \in 1 .. connection
    BY DEF SocketInv, ConnectionsInv
  <2>2. ASSUME NEW r \in Pcb, pcb'[r].state = "open"
        PROVE  /\ host'[r].conn \in 1 .. connection'
               /\ \A q \in Pcb : pcb'[q].state = "open" /\ host'[q].conn = host'[r].conn => q = r
    <3>1. \A q \in Pcb : q # p /\ pcb'[q].state = "open" =>
             host'[q].conn \in 1 .. connection /\ host'[q].conn = host[q].conn /\ pcb[q].state = "open"
      BY <1>6, <2>1
    <3>2. \A c \in 1 .. connection : c # connection + 1 /\ c \in 1 .. connection'
      BY <1>1, <1>3
    <3>3. connection + 1 \in 1 .. connection'
      BY <1>1, <1>3
    <3>4. CASE r = p
      BY <1>7, <3>1, <3>2, <3>3, <3>4
    <3>5. CASE r # p
      <4>1. host'[r].conn \in 1 .. connection'
        BY <2>2, <3>1, <3>2, <3>5
      <4>2. ASSUME NEW q \in Pcb, pcb'[q].state = "open", host'[q].conn = host'[r].conn PROVE q = r
        <5>1. q # p
          BY <1>7, <2>2, <3>1, <3>2, <3>5, <4>2
        <5> QED BY <2>1, <2>2, <3>1, <3>5, <4>2, <5>1
      <4> QED BY <4>1, <4>2
    <3> QED BY <3>4, <3>5
  <2>3. \A k \in 1 .. Len(commands') : commands'[k].conn \in 1 .. connection'
    BY <1>1, <1>3, <2>1
  <2> QED BY <2>2, <2>3 DEF ConnectionsInv
<1>11. SendInv'
  BY <1>1 DEF SendInv
<1>12. ASSUME usable # {} PROVE UsedInv(i, socket_list'[i], pcb'[p], host'[p], commands')
  <2>1. i \in Sockets /\ socket_list[i].raw_socket = NULL
    BY <1>5, <1>12
  <2>2. Waits(socket_list[i].rx, 0)
    BY <2>1, UnusedIs
  <2>3. RingInv(socket_list'[i].rx, host'[p])
    BY <1>7, <1>8, <1>12, <2>1, <2>2 DEF RingInv
  <2>4. OrderInv(commands', host'[p], "IDLE")
    <3>1. Sent(host'[p]) = 0
      BY <1>7 DEF Sent
    <3>2. \A k \in 1 .. Len(commands') : commands'[k].conn # host'[p].conn
      <4>1. \A k \in 1 .. Len(commands) : commands[k].conn \in 1 .. connection
        BY DEF SocketInv, ConnectionsInv
      <4> QED BY <1>1, <1>3, <1>7, <4>1
    <3> QED BY <1>7, <3>1, <3>2 DEF OrderInv
  <2> QED BY <1>7, <1>8, <1>12, <2>1, <2>3, <2>4 DEF UsedInv
<1>13. SlotsInv'
  <2>1. ASSUME NEW j \in Sockets
        PROVE  LET t == socket_list'[j]
               IN  IF t.raw_socket = NULL THEN t.type = "UNUSED" /\ Waits(t.rx, 0)
                   ELSE UsedInv(j, t, pcb'[t.raw_socket], host'[t.raw_socket], commands')
    <3>1. CASE usable # {} /\ j = i
      <4>1. socket_list'[j].raw_socket = p /\ p # NULL
        BY <1>8, <3>1, Constants
      <4> QED BY <1>12, <3>1, <4>1
    <3>2. CASE ~(usable # {} /\ j = i)
      <4>1. socket_list'[j] = socket_list[j]
        BY <1>8, <3>2
      <4> QED BY <1>1, <1>4, <1>6, <4>1, OthersKeep
    <3> QED BY <3>1, <3>2
  <2> QED BY <2>1 DEF SlotsInv
<1> QED BY <1>9, <1>10, <1>11, <1>13 DEF SocketInv

-----------------------------------------------------------------------------
LEMMA SocketInit == ASSUME Init PROVE SocketInv
<1>1. ZeroByte \in Bytes /\ 0 \in Cells /\ Waits(NewRing(ZeroByte), 0)
  <2>1. ZeroByte \in Bytes
    BY DEF ZeroByte, Bytes, Value
  <2>2. RingSize \in Nat \ {0} /\ 0 \in 0 .. RingSize - 1 /\ 0 \in 0 .. Capacity
    BY RingSizeAssumption DEF Capacity
  <2>3. 0 % RingSize = 0
    BY <2>2, ModOf
  <2> QED BY <2>1, <2>2, <2>3 DEF Waits, NewRing, Back, Cells
<1>2. NewSlot \in SlotType
  BY <1>1 DEF NewSlot, SlotType, NewRing, Rings
<1>3. NewHost \in HostType
  BY Constants DEF NewHost, HostType
<1>4. TypesInv
  BY <1>2, <1>3, Constants, SocketsAssumption DEF Init, TypesInv, PcbType, At, Cpu0Type
<1>5. SlotsInv
  <2>1. \A i \in Sockets : socket_list[i] = NewSlot
    BY DEF Init
  <2> QED BY <1>1, <2>1 DEF SlotsInv, NewSlot
<1>6. ConnectionsInv /\ SendInv
  BY DEF Init, ConnectionsInv, SendInv, At
<1> QED BY <1>4, <1>5, <1>6 DEF SocketInv

LEMMA SocketNext == ASSUME SocketInv, [Next]_vars PROVE SocketInv'
<1>1. CASE MainLoop
  BY <1>1, LoopKeeps, TypeKeeps, StartSendingKeeps, SendKeeps, BroadcastKeeps, OutsideKeeps DEF MainLoop
<1>2. CASE Network
  <2>1. PICK p \in Pcb : \/ Accept(p) \/ RecvClose(p) \/ Error(p) \/ ClosedOrAcked(p)
                         \/ \E segment \in Segments : Recv(p, segment)
    BY <1>2 DEF Network
  <2>2. CASE RecvClose(p)
    BY <2>2, EndedKeeps DEF RecvClose, channels
  <2>3. CASE Error(p)
    BY <2>3, EndedKeeps DEF Error, channels
  <2> QED BY <2>1, <2>2, <2>3, AcceptKeeps, OutsideKeeps, RecvKeeps
<1>3. CASE CPU1Takes
  BY <1>3, TakesKeeps
<1>4. CASE CPU1Answers \/ CPU1Streams
  BY <1>4, OutsideKeeps
<1>5. CASE UNCHANGED vars
  BY <1>5 DEF vars, netVars, channels, SocketInv, TypesInv, SlotsInv, ConnectionsInv, SendInv
<1> QED BY <1>1, <1>2, <1>3, <1>4, <1>5 DEF Next

THEOREM SocketInvAlways == FairSpec => []SocketInv
BY SocketInit, SocketNext, PTL DEF FairSpec

(***************************************************************************)
(* What the runs check of a state follows.                                 *)
(***************************************************************************)
LEMMA ContentsAre ==
  ASSUME SocketInv, NEW i \in Used
  PROVE  LET h == HostOf(i)
             rx == Contents(socket_list[i].rx)
         IN  /\ i \in Sockets /\ h \in HostType /\ OrderInv(commands, h, socket_list[i].type)
             /\ rx \in Seq(Bytes) /\ Len(rx) = h.waiting
             /\ \A k \in 1 .. h.waiting : rx[k].conn = h.conn /\ rx[k].place = Sent(h) + k
<1> DEFINE s == socket_list[i]
           h == HostOf(i)
           w == h.waiting
           rx == Contents(s.rx)
<1>1. /\ i \in Sockets /\ h \in HostType /\ s \in SlotType
      /\ RingInv(s.rx, h) /\ OrderInv(commands, h, s.type)
  BY SlotOfIs DEF Used, HostOf, UsedInv
<1> HIDE DEF h, s
<1>2. /\ w \in Nat /\ h.arrived \in Nat /\ s.rx \in Rings(Bytes) /\ Waits(s.rx, w) /\ s.rx.head \in Cells
      /\ s.rx.head \in Int
  BY <1>1, RingSizeAssumption DEF HostType, SlotType, RingInv, Rings, Cells
<1>3. BytesUsed(s.rx) = w /\ w \in 0 .. w
  BY <1>2, UsedIs
<1>4. rx = [k \in 1 .. w |-> s.rx.buf[Back(s.rx.head, w + 1 - k)]]
  BY <1>2, <1>3, OldestIs, ZenonT(60) DEF Contents
<1>5. ASSUME NEW k \in 1 .. w
      PROVE  rx[k] \in Bytes /\ rx[k].conn = h.conn /\ rx[k].place = Sent(h) + k
  <2> DEFINE j == w + 1 - k
  <2>1. j \in 1 .. w /\ h.arrived + 1 - j = h.arrived - w + k /\ j \in Int
    BY <1>2
  <2>2. rx[k] = s.rx.buf[Back(s.rx.head, j)]
    BY <1>4
  <2> HIDE DEF j
  <2>3. Back(s.rx.head, j) \in Cells
    BY <1>2, <2>1, BackIs
  <2>4. rx[k] \in Bytes
    BY <1>2, <2>2, <2>3 DEF Rings
  <2> QED BY <1>1, <2>1, <2>2, <2>4 DEF RingInv, Sent
<1>6. rx \in Seq(Bytes) /\ Len(rx) = w
  <2>1. rx = [k \in 1 .. w |-> rx[k]]
    BY <1>4
  <2>2. \A k \in 1 .. w : rx[k] \in Bytes
    BY <1>5
  <2> HIDE DEF rx, w
  <2> QED BY <1>2, <2>1, <2>2
<1> QED BY <1>1, <1>5, <1>6 DEF h, s

LEMMA SlotsHold == ASSUME SocketInv PROVE SlotsHoldTheirConnection
<1>1. SlotsMatchConnections
  BY SlotOfIs DEF SlotsMatchConnections, Used, UsedInv
<1>2. RingsHoldTheLatest
  <2>1. ASSUME NEW i \in Used
        PROVE  LET rx == Contents(socket_list[i].rx)
               IN  /\ Len(rx) = HostOf(i).waiting
                   /\ \A k \in DOMAIN rx : /\ rx[k].conn = HostOf(i).conn
                                           /\ rx[k].place = HostOf(i).arrived - Len(rx) + k
    <3> DEFINE rx == Contents(socket_list[i].rx)
    <3>1. /\ rx \in Seq(Bytes) /\ Len(rx) = HostOf(i).waiting
          /\ \A k \in 1 .. HostOf(i).waiting :
               rx[k].conn = HostOf(i).conn /\ rx[k].place = Sent(HostOf(i)) + k
      BY ContentsAre
    <3> HIDE DEF rx
    <3>2. DOMAIN rx = 1 .. HostOf(i).waiting
      BY <3>1
    <3>3. Sent(HostOf(i)) = HostOf(i).arrived - Len(rx)
      BY <3>1 DEF Sent
    <3>4. /\ Len(rx) = HostOf(i).waiting
          /\ \A k \in DOMAIN rx : /\ rx[k].conn = HostOf(i).conn
                                  /\ rx[k].place = HostOf(i).arrived - Len(rx) + k
      BY <3>1, <3>2, <3>3
    <3> QED BY <3>4 DEF rx
  <2> QED BY <2>1 DEF RingsHoldTheLatest
<1> QED BY <1>1, <1>2 DEF SlotsHoldTheirConnection

Ordered(sent, h, type) ==
  LET ours == {k \in DOMAIN sent : sent[k].conn = h.conn}
  IN  /\ \A k \in ours : /\ sent[k].place > h.reached
                         /\ \A l \in ours : k < l => sent[k].place < sent[l].place
      /\ type = "ASCII_CMD" /\ ~h.overrun =>
           {sent[k].place : k \in ours} = Max({h.reached, h.typed}) + 1 .. h.arrived

(* The queue q of the channel and after it what waits, w bytes.            *)
LEMMA InOrder ==
  ASSUME NEW q \in Seq(Bytes), NEW h \in HostType, NEW type, OrderInv(q, h, type),
         NEW rx \in Seq(Bytes), Len(rx) = h.waiting,
         \A k \in 1 .. h.waiting : rx[k].conn = h.conn /\ rx[k].place = Sent(h) + k
  PROVE  Ordered(q \o rx, h, type)
<1> DEFINE sent == q \o rx
           ours == {k \in DOMAIN sent : sent[k].conn = h.conn}
           n == Len(q)
           w == h.waiting
<1>1. /\ n \in Nat /\ w \in Nat /\ DOMAIN sent = 1 .. n + w
      /\ \A k \in 1 .. n + w : sent[k] = IF k <= n THEN q[k] ELSE rx[k - n]
  <2>1. /\ sent \in Seq(Bytes) /\ Len(sent) = Len(q) + Len(rx)
        /\ \A k \in 1 .. Len(q) + Len(rx) : sent[k] = IF k <= Len(q) THEN q[k] ELSE rx[k - Len(q)]
    BY ConcatProperties
  <2>2. n \in Nat /\ w \in Nat
    BY DEF HostType
  <2> QED BY <2>1, <2>2
<1>2. /\ Sent(h) \in Int /\ h.reached \in Nat /\ h.typed \in Int /\ h.arrived \in Nat
      /\ Sent(h) + w = h.arrived
  BY <1>1 DEF Sent, HostType
<1>3. /\ h.reached <= Sent(h) /\ h.typed <= Sent(h)
      /\ \A k \in 1 .. n : q[k].conn = h.conn =>
           /\ h.reached < q[k].place /\ q[k].place <= Sent(h)
           /\ (~h.overrun => h.typed < q[k].place)
           /\ \A l \in 1 .. k - 1 : q[l].conn = h.conn => q[l].place < q[k].place
      /\ type = "ASCII_CMD" /\ ~h.overrun =>
           \A m \in Nat : h.reached < m /\ h.typed < m /\ m <= Sent(h)
                        => \E k \in 1 .. n : q[k].conn = h.conn /\ q[k].place = m
  BY DEF OrderInv
<1>4. \A k \in 1 .. n : q[k].place \in Nat
  <2>1. \A k \in 1 .. n : q[k] \in Bytes
    OBVIOUS
  <2> QED BY <2>1 DEF Bytes
<1> HIDE DEF sent, n, w
<1>5. ASSUME NEW k \in ours
      PROVE  /\ k \in Int
             /\ \/ k \in 1 .. n /\ sent[k] = q[k] /\ q[k].conn = h.conn
                \/ k - n \in 1 .. w /\ sent[k].place = Sent(h) + (k - n)
  <2>1. k \in 1 .. n + w /\ sent[k].conn = h.conn
    BY <1>1
  <2>2. CASE k <= n
    BY <1>1, <2>1, <2>2
  <2>3. CASE ~(k <= n)
    <3>1. k - n \in 1 .. w /\ sent[k] = rx[k - n]
      BY <1>1, <2>1, <2>3
    <3> QED BY <2>1, <3>1 DEF w
  <2> QED BY <2>1, <2>2, <2>3
<1>6. ASSUME NEW k \in ours
      PROVE  /\ sent[k].place \in Int /\ sent[k].place > h.reached /\ sent[k].place <= h.arrived
             /\ (~h.overrun => sent[k].place > h.typed)
             /\ \A l \in ours : k < l => sent[k].place < sent[l].place
  <2>1. CASE k \in 1 .. n /\ sent[k] = q[k] /\ q[k].conn = h.conn
    <3>1. q[k].place \in Nat /\ h.reached < q[k].place /\ q[k].place <= Sent(h) /\ (~h.overrun => h.typed < q[k].place)
      BY <1>3, <1>4, <2>1
    <3>2. ASSUME NEW l \in ours, k < l PROVE sent[k].place < sent[l].place
      <4>1. CASE l \in 1 .. n /\ sent[l] = q[l] /\ q[l].conn = h.conn
        <5>1. k \in 1 .. l - 1
          BY <1>1, <2>1, <3>2, <4>1
        <5> QED BY <1>3, <2>1, <4>1, <5>1
      <4>2. CASE l - n \in 1 .. w /\ sent[l].place = Sent(h) + (l - n)
        BY <1>1, <1>2, <2>1, <3>1, <4>2
      <4> QED BY <1>5, <4>1, <4>2
    <3> QED BY <1>1, <1>2, <2>1, <3>1, <3>2
  <2>2. CASE k - n \in 1 .. w /\ sent[k].place = Sent(h) + (k - n)
    <3>1. ASSUME NEW l \in ours, k < l PROVE sent[k].place < sent[l].place
      <4>1. k \in Int /\ l \in Int /\ ~(l \in 1 .. n)
        BY <1>1, <1>5, <2>2, <3>1
      <4>2. l - n \in 1 .. w /\ sent[l].place = Sent(h) + (l - n)
        BY <1>5, <4>1
      <4> QED BY <1>1, <1>2, <2>2, <3>1, <4>1, <4>2
    <3> HIDE DEF ours
    <3> QED BY <1>1, <1>2, <1>3, <2>2, <3>1, SMTT(30)
  <2> QED BY <1>5, <2>1, <2>2
<1>7. ASSUME type = "ASCII_CMD", ~h.overrun
      PROVE  {sent[k].place : k \in ours} = Max({h.reached, h.typed}) + 1 .. h.arrived
  <2> DEFINE m == IF h.reached >= h.typed THEN h.reached ELSE h.typed
  <2>1. Max({h.reached, h.typed}) = m
    <3>1. {h.reached, h.typed} \in SUBSET Int /\ m \in {h.reached, h.typed} /\ m \in Int
          /\ \A y \in {h.reached, h.typed} : m >= y
      BY <1>2
    <3> HIDE DEF m
    <3> QED BY <3>1, MaxIs
  <2>2. m \in Nat /\ m >= h.reached /\ m >= h.typed /\ (m = h.reached \/ m = h.typed)
    BY <1>2
  <2> HIDE DEF m
  <2>3. ASSUME NEW k \in ours PROVE sent[k].place \in m + 1 .. h.arrived
    <3>1. sent[k].place \in Int /\ sent[k].place > h.reached /\ sent[k].place <= h.arrived /\ sent[k].place > h.typed
      BY <1>6, <1>7
    <3> QED BY <1>2, <2>2, <3>1
  <2>4. ASSUME NEW x \in m + 1 .. h.arrived PROVE \E k \in ours : sent[k].place = x
    <3>1. x \in Nat /\ h.reached < x /\ h.typed < x
      BY <1>2, <2>2
    <3>2. CASE x <= Sent(h)
      <4>1. PICK k \in 1 .. n : q[k].conn = h.conn /\ q[k].place = x
        BY <1>3, <1>7, <3>1, <3>2
      <4>2. k \in 1 .. n + w /\ sent[k] = q[k]
        BY <1>1
      <4> QED BY <1>1, <4>1, <4>2
    <3>3. CASE ~(x <= Sent(h))
      <4> DEFINE k == n + (x - Sent(h))
      <4>1. k \in 1 .. n + w /\ k - n \in 1 .. w /\ ~(k <= n) /\ Sent(h) + (k - n) = x
        BY <1>1, <1>2, <3>1, <3>3, SMTT(30)
      <4> HIDE DEF k
      <4>2. sent[k] = rx[k - n]
        BY <1>1, <4>1
      <4>3. sent[k].conn = h.conn /\ sent[k].place = x
        BY <4>1, <4>2 DEF w
      <4> QED BY <1>1, <4>1, <4>3
    <3> QED BY <3>2, <3>3
  <2> QED BY <2>1, <2>3, <2>4
<1> QED BY <1>6, <1>7 DEF sent, Ordered

LEMMA BothWays == ASSUME SocketInv PROVE BothWaysInOrder
<1>1. ASSUME NEW i \in Used
      PROVE  Ordered(commands \o Contents(socket_list[i].rx), HostOf(i), socket_list[i].type)
  <2>1. commands \in Seq(Bytes)
    BY DEF SocketInv, TypesInv
  <2> QED BY <2>1, ContentsAre, InOrder
<1>2. SocketZeroHearsAll
  BY SlotOfIs DEF SocketZeroHearsAll, Used, HostOf, UsedInv
<1>3. CommandsInOrder
  BY <1>1, Zenon DEF CommandsInOrder, Ordered
<1> QED BY <1>2, <1>3 DEF BothWaysInOrder

-----------------------------------------------------------------------------
(***************************************************************************)
(* A slot in use belongs to one connection, which is open and was told its *)
(* number, and its ring holds the bytes that arrived last over it, whoever *)
(* had the slot before: accept_callback, recv_callback and                 *)
(* socket_manager_remove, in any order the network makes of them.          *)
(***************************************************************************)
THEOREM SlotsHoldTheirConnectionAlways == FairSpec => []SlotsHoldTheirConnection
BY SocketInvAlways, SlotsHold, PTL

(***************************************************************************)
(* CPU1 gets what a host sends in its order, nothing twice, and nothing    *)
(* missing after the type unless the ring of that socket was overrun,      *)
(* however the main loop, the callbacks and CPU1 interleave; and a host on *)
(* socket 0 misses no byte of a response.                                  *)
(***************************************************************************)
THEOREM BothWaysInOrderAlways == FairSpec => []BothWaysInOrder
BY SocketInvAlways, BothWays, PTL
=============================================================================
