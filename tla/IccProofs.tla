----------------------------- MODULE IccProofs -----------------------------
(***************************************************************************)
(* The safety properties of one inter-core channel for every buffer size   *)
(* and every counter width the assumption of Icc admits, the proof that    *)
(* the channel implements the bounded queue, and that what goes out        *)
(* through it, as text, as answer or as a log stream, comes out in order.  *)
(***************************************************************************)
EXTENDS MCIcc, SequenceTheorems, FiniteSetTheorems, WellFoundedInduction, TLAPS

-----------------------------------------------------------------------------
(* Arithmetic of the wrapping counts.                                      *)

LEMMA DivMod ==
  ASSUME NEW a \in Int, NEW b \in Nat \ {0}
  PROVE  /\ a % b \in 0 .. b - 1
         /\ a \div b \in Int
         /\ a = b * (a \div b) + (a % b)
OBVIOUS

LEMMA MulGap ==
  ASSUME NEW b \in Nat \ {0}, NEW q \in Int, NEW d \in Int,
         d = b * q, d > - b, d < b
  PROVE  d = 0
<1>1. CASE q = 0 BY <1>1
<1>2. CASE q >= 1 BY <1>2
<1>3. CASE q <= -1 BY <1>3
<1> QED BY <1>1, <1>2, <1>3

(* Two numbers with the same remainder that are less than b apart are equal. *)
LEMMA ModInjective ==
  ASSUME NEW a \in Int, NEW c \in Int, NEW b \in Nat \ {0},
         a % b = c % b, a - c > - b, a - c < b
  PROVE  a = c
<1> DEFINE d == a - c
           q == (a \div b) - (c \div b)
<1>1. /\ d \in Int /\ q \in Int
      /\ a = b * (a \div b) + (a % b)
      /\ c = b * (c \div b) + (c % b)
      /\ a \div b \in Int /\ c \div b \in Int
  BY DivMod
<1>2. d = b * q
  BY <1>1
<1>3. d > -b /\ d < b
  OBVIOUS
<1> HIDE DEF d, q
<1>4. d = 0
  BY <1>1, <1>2, <1>3, MulGap
<1> QED BY <1>4 DEF d

(* The remainder is the only representative in 0 .. b - 1. *)
LEMMA ModUnique ==
  ASSUME NEW a \in Int, NEW b \in Nat \ {0}, NEW q \in Int, NEW r \in 0 .. b - 1,
         a = b * q + r
  PROVE  a % b = r
<1>1. a = b * (a \div b) + (a % b) /\ a % b \in 0 .. b - 1 /\ a \div b \in Int
  BY DivMod
<1> DEFINE d == (a % b) - r
           p == q - (a \div b)
<1>2. d \in Int /\ p \in Int /\ d = b * p /\ d > -b /\ d < b
  BY <1>1
<1> HIDE DEF d, p
<1>3. d = 0
  BY <1>2, MulGap
<1> QED BY <1>3, <1>1 DEF d

(* Adding a multiple of b does not change the remainder. *)
LEMMA ModShift ==
  ASSUME NEW a \in Int, NEW b \in Nat \ {0}, NEW k \in Int
  PROVE  (a + b * k) % b = a % b
<1>1. a = b * (a \div b) + (a % b) /\ a % b \in 0 .. b - 1 /\ a \div b \in Int
  BY DivMod
<1>2. a + b * k = b * ((a \div b) + k) + (a % b)
  BY <1>1
<1> DEFINE q == (a \div b) + k
           s == a + b * k
<1>3. q \in Int /\ s \in Int /\ s = b * q + (a % b)
  BY <1>1, <1>2
<1> HIDE DEF q, s
<1>4. s % b = a % b
  BY <1>1, <1>3, ModUnique
<1> QED BY <1>4 DEF s

(* Adding to a remainder is adding to the number. *)
LEMMA ModAdd ==
  ASSUME NEW a \in Int, NEW b \in Nat \ {0}, NEW k \in Int
  PROVE  ((a % b) + k) % b = (a + k) % b
<1>1. a = b * (a \div b) + (a % b) /\ a % b \in 0 .. b - 1 /\ a \div b \in Int
  BY DivMod
<1> DEFINE s == (a % b) + k
           q == a \div b
<1>2. s \in Int /\ q \in Int /\ a + k = s + b * q
  BY <1>1
<1> HIDE DEF s, q
<1>3. (s + b * q) % b = s % b
  BY <1>2, ModShift
<1> QED BY <1>2, <1>3 DEF s

(* Subtracting a remainder is subtracting the number. *)
LEMMA ModSub ==
  ASSUME NEW a \in Int, NEW c \in Int, NEW b \in Nat \ {0}
  PROVE  (a - (c % b)) % b = (a - c) % b
<1>1. c = b * (c \div b) + (c % b) /\ c % b \in 0 .. b - 1 /\ c \div b \in Int
  BY DivMod
<1> DEFINE s == a - c
           q == c \div b
<1>2. s \in Int /\ q \in Int /\ a - (c % b) = s + b * q
  BY <1>1
<1> HIDE DEF s, q
<1>3. (s + b * q) % b = s % b
  BY <1>2, ModShift
<1> QED BY <1>2, <1>3 DEF s

LEMMA ModSmall ==
  ASSUME NEW b \in Nat \ {0}, NEW r \in 0 .. b - 1
  PROVE  r % b = r
<1>1. r = b * 0 + r
  OBVIOUS
<1> QED BY <1>1, ModUnique

LEMMA SizeFacts ==
  /\ BufferSize \in Nat \ {0}
  /\ CountWrap \in Nat \ {0}
  /\ CountWrap > BufferSize
BY SizeAssumption

(* A cell index does not see the wrap of a count: BufferSize divides CountWrap. *)
LEMMA SlotOfCount ==
  ASSUME NEW a \in Int, NEW k \in Int
  PROVE  ((a % CountWrap) + k) % BufferSize = (a + k) % BufferSize
<1> DEFINE m == CountWrap \div BufferSize
           q == a \div CountWrap
           n == - (m * q)
           s == a + k
<1>1. m \in Int /\ CountWrap = BufferSize * m
  BY DivMod, SizeAssumption
<1>2. q \in Int /\ a = CountWrap * q + (a % CountWrap) /\ a % CountWrap \in Int
  BY DivMod, SizeFacts
<1>3. n \in Int /\ s \in Int
  BY <1>1, <1>2
<1>4. CountWrap * q = BufferSize * (m * q)
  BY <1>1, <1>2, SizeFacts
<1>5. (a % CountWrap) + k = s + BufferSize * n
  <2>1. BufferSize * n = - (BufferSize * (m * q))
    BY <1>1, <1>2, SizeFacts
  <2> QED BY <1>2, <1>4, <2>1, SizeFacts
<1> HIDE DEF s, n
<1>6. (s + BufferSize * n) % BufferSize = s % BufferSize
  BY <1>3, SizeFacts, ModShift
<1> QED BY <1>5, <1>6 DEF s

-----------------------------------------------------------------------------
(* The channel.                                                            *)

LEMMA UsedType ==
  ASSUME TypeOK
  PROVE  Used \in Counts
BY DivMod, SizeFacts DEF TypeOK, Used, Counts

(* The producing core writes right behind the unread bytes. *)
LEMMA WriteSlotIsNext ==
  ASSUME TypeOK
  PROVE  /\ WriteSlot = (consumeCount + Used) % BufferSize
         /\ ReadSlot = consumeCount % BufferSize
         /\ WriteSlot \in Slots /\ ReadSlot \in Slots
<1>1. produceCount \in Int /\ consumeCount \in Int
  BY DEF TypeOK, Counts
<1> DEFINE a == produceCount - consumeCount
<1>2. a \in Int
  BY <1>1
<1>3. ((a % CountWrap) + consumeCount) % BufferSize = (a + consumeCount) % BufferSize
  BY <1>1, <1>2, SlotOfCount
<1>4. a + consumeCount = produceCount
  BY <1>1
<1>5. (a % CountWrap) + consumeCount = consumeCount + (a % CountWrap)
  BY <1>1, <1>2, DivMod, SizeFacts
<1>6. produceCount % BufferSize \in Slots /\ consumeCount % BufferSize \in Slots
  BY <1>1, DivMod, SizeFacts DEF Slots
<1> QED BY <1>3, <1>4, <1>5, <1>6 DEF Used, WriteSlot, ReadSlot

(* Cells less than BufferSize apart are different. *)
LEMMA SlotsDiffer ==
  ASSUME TypeOK, NEW i \in Nat, NEW j \in Nat, i < j, j - i < BufferSize
  PROVE  (consumeCount + i) % BufferSize # (consumeCount + j) % BufferSize
<1> DEFINE a == consumeCount + i
           c == consumeCount + j
<1>1. a \in Int /\ c \in Int /\ a - c > -BufferSize /\ a - c < BufferSize /\ a # c
  BY SizeFacts DEF TypeOK, Counts
<1> HIDE DEF a, c
<1>2. a % BufferSize # c % BufferSize
  BY <1>1, SizeFacts, ModInjective
<1> QED BY <1>2 DEF a, c

(* Publishing a byte makes one more byte unread. *)
LEMMA UsedAfterProduce ==
  ASSUME TypeOK, Used < BufferSize,
         produceCount' = (produceCount + 1) % CountWrap, consumeCount' = consumeCount
  PROVE  Used' = Used + 1
<1>1. produceCount \in Int /\ consumeCount \in Int /\ Used \in Counts
  BY UsedType DEF TypeOK, Counts
<1>2. Used' = (((produceCount + 1) % CountWrap) + (- consumeCount)) % CountWrap
  BY <1>1, DivMod, SizeFacts DEF Used
<1>3. Used' = (produceCount + 1 - consumeCount) % CountWrap
  <2> DEFINE a == produceCount + 1
             k == - consumeCount
  <2>1. a \in Int /\ k \in Int /\ a + k = produceCount + 1 - consumeCount
    BY <1>1
  <2>2. Used' = ((a % CountWrap) + k) % CountWrap
    BY <1>2
  <2> HIDE DEF a, k
  <2> QED BY <2>1, <2>2, ModAdd, SizeFacts, ZenonT(40)
<1>4. (Used + 1) % CountWrap = (produceCount - consumeCount + 1) % CountWrap
  BY <1>1, ModAdd, SizeFacts DEF Used
<1>5. (Used + 1) % CountWrap = Used + 1
  BY <1>1, ModSmall, SizeFacts DEF Counts
<1>6. produceCount + 1 - consumeCount = produceCount - consumeCount + 1
  BY <1>1
<1> QED BY <1>3, <1>4, <1>5, <1>6

(* Releasing a byte makes one byte fewer unread. *)
LEMMA UsedAfterConsume ==
  ASSUME TypeOK, Used > 0,
         consumeCount' = (consumeCount + 1) % CountWrap, produceCount' = produceCount
  PROVE  Used' = Used - 1
<1>1. produceCount \in Int /\ consumeCount \in Int /\ Used \in Counts
  BY UsedType DEF TypeOK, Counts
<1>2. Used' = (produceCount - ((consumeCount + 1) % CountWrap)) % CountWrap
  BY DEF Used
<1>3. Used' = (produceCount - (consumeCount + 1)) % CountWrap
  <2> DEFINE c == consumeCount + 1
  <2>1. c \in Int /\ Used' = (produceCount - (c % CountWrap)) % CountWrap
    BY <1>1, <1>2
  <2> HIDE DEF c
  <2>2. Used' = (produceCount - c) % CountWrap
    BY <1>1, <2>1, ModSub, SizeFacts
  <2> QED BY <2>2 DEF c
<1>4. (Used + (-1)) % CountWrap = (produceCount - consumeCount + (-1)) % CountWrap
  <2> DEFINE a == produceCount - consumeCount
             k == -1
  <2>1. a \in Int /\ k \in Int /\ Used = a % CountWrap
    BY <1>1 DEF Used
  <2> HIDE DEF a, k
  <2>2. (Used + k) % CountWrap = (a + k) % CountWrap
    BY <2>1, ModAdd, SizeFacts
  <2> QED BY <2>2 DEF a, k
<1>5. (Used + (-1)) % CountWrap = Used - 1
  BY <1>1, ModSmall, SizeFacts DEF Counts
<1>6. produceCount - (consumeCount + 1) = produceCount - consumeCount + (-1)
  BY <1>1
<1> QED BY <1>3, <1>4, <1>5, <1>6

(***************************************************************************)
(* The inductive invariant adds to the properties what each core carries   *)
(* in its local variables between two accesses: the byte the producer will *)
(* publish is in the cell behind the unread ones, the byte the consumer    *)
(* will hand on is the oldest unread one.                                  *)
(***************************************************************************)
InFlight ==
  /\ producer = "publish" => sharedBuffer[WriteSlot] = pendingByte
  /\ consumer = "release" => readByte = sharedBuffer[ReadSlot]

IInv == TypeOK /\ NoOverrun /\ NoUnderrun /\ InFlight

LEMMA InitIInv == Init => IInv
<1> SUFFICES ASSUME Init PROVE IInv
  OBVIOUS
<1>1. TypeOK
  BY SizeFacts, ByteAssumption DEF Init, TypeOK, Counts
<1>2. Used = 0
  BY ModSmall, SizeFacts DEF Init, Used
<1>3. NoOverrun /\ NoUnderrun /\ InFlight
  BY <1>2, SizeFacts DEF Init, NoOverrun, NoUnderrun, InFlight
<1> QED BY <1>1, <1>3 DEF IInv

(* What the producing core's write leaves alone: every unread cell. *)
LEMMA WriteSlotIsFree ==
  ASSUME IInv, producer # "check", NEW i \in 1 .. Used
  PROVE  UnreadSlot(i) # WriteSlot /\ UnreadSlot(i) \in Slots
<1>1. TypeOK /\ Used \in 0 .. BufferSize /\ Used < BufferSize
  BY DEF IInv, NoOverrun
<1> DEFINE j == i - 1
<1>2. j \in Nat /\ Used \in Nat /\ j < Used /\ Used - j < BufferSize
  BY <1>1, SizeFacts
<1>3. UnreadSlot(i) = (consumeCount + j) % BufferSize
  BY <1>1 DEF UnreadSlot, TypeOK, Counts
<1>4. consumeCount + j \in Int
  BY <1>1, <1>2 DEF TypeOK, Counts
<1> HIDE DEF j
<1>5. (consumeCount + j) % BufferSize # (consumeCount + Used) % BufferSize
  BY <1>1, <1>2, SlotsDiffer
<1>6. (consumeCount + j) % BufferSize \in Slots
  BY <1>4, DivMod, SizeFacts DEF Slots
<1> QED BY <1>1, <1>3, <1>5, <1>6, WriteSlotIsNext

(* The oldest unread byte is where the consuming core reads. *)
LEMMA ReadSlotIsOldest ==
  ASSUME TypeOK
  PROVE  UnreadSlot(1) = ReadSlot
<1>1. consumeCount + 1 - 1 = consumeCount
  BY DEF TypeOK, Counts
<1> QED BY <1>1 DEF UnreadSlot, ReadSlot

LEMMA NextIInv == IInv /\ [Next]_vars => IInv'
<1> SUFFICES ASSUME IInv, [Next]_vars PROVE IInv'
  OBVIOUS
<1> USE DEF IInv
<1>0. Used \in Counts /\ produceCount \in Int /\ consumeCount \in Int
  BY UsedType DEF TypeOK, Counts
<1>1. ASSUME NEW c \in Byte, ProducerCheck(c) PROVE IInv'
  <2>1. TypeOK'
    BY <1>1 DEF ProducerCheck, TypeOK, prodVars, consVars, Counts
  <2>2. Used' = Used /\ ReadSlot' = ReadSlot
    BY <1>1 DEF ProducerCheck, Used, ReadSlot, consVars
  <2>3. NoOverrun' /\ NoUnderrun' /\ InFlight'
    BY <1>1, <2>2, SizeFacts
    DEF ProducerCheck, NoOverrun, NoUnderrun, InFlight, IsBufferFull, consVars
  <2> QED BY <2>1, <2>3
<1>2. CASE WriteByte
  <2>1. TypeOK'
    BY <1>2 DEF WriteByte, TypeOK, consVars, Counts
  <2>2. Used' = Used /\ ReadSlot' = ReadSlot /\ WriteSlot' = WriteSlot
    BY <1>2 DEF WriteByte, Used, ReadSlot, WriteSlot, consVars
  <2>3. NoOverrun' /\ NoUnderrun'
    BY <1>2, <2>2 DEF WriteByte, NoOverrun, NoUnderrun, consVars
  <2>4. sharedBuffer'[WriteSlot] = pendingByte
    BY <1>2, WriteSlotIsNext DEF WriteByte, TypeOK
  <2>5. consumer = "release" => sharedBuffer'[ReadSlot] = sharedBuffer[ReadSlot]
    <3>1. CASE consumer = "release"
      <4>1. 1 \in 1 .. Used
        BY <1>0, <3>1 DEF NoUnderrun, Counts
      <4>2. ReadSlot # WriteSlot
        BY <1>2, <4>1, WriteSlotIsFree, ReadSlotIsOldest DEF WriteByte
      <4> QED BY <1>2, <4>2, WriteSlotIsNext DEF WriteByte, TypeOK
    <3> QED BY <3>1
  <2>6. InFlight'
    BY <1>2, <2>2, <2>4, <2>5 DEF WriteByte, InFlight, consVars
  <2> QED BY <2>1, <2>3, <2>6
<1>3. CASE IncProduceCount
  <2>1. TypeOK'
    BY <1>0, <1>3, DivMod, SizeFacts DEF IncProduceCount, Inc, TypeOK, consVars, Counts
  <2>2. Used' = Used + 1
    BY <1>3, UsedAfterProduce DEF IncProduceCount, Inc, NoOverrun, consVars
  <2>3. ReadSlot' = ReadSlot
    BY <1>3 DEF IncProduceCount, ReadSlot, consVars
  <2>4. NoOverrun' /\ NoUnderrun' /\ InFlight'
    BY <1>3, <2>2, <2>3, SizeFacts
    DEF IncProduceCount, NoOverrun, NoUnderrun, InFlight, consVars
  <2> QED BY <2>1, <2>4
<1>4. CASE ConsumerCheck
  <2>1. TypeOK'
    BY <1>4 DEF ConsumerCheck, TypeOK, prodVars, Counts
  <2>2. Used' = Used /\ WriteSlot' = WriteSlot
    BY <1>4 DEF ConsumerCheck, Used, WriteSlot, prodVars
  <2>3. NoOverrun' /\ NoUnderrun' /\ InFlight'
    BY <1>0, <1>4, <2>2
    DEF ConsumerCheck, NoOverrun, NoUnderrun, InFlight, IsBufferEmpty, prodVars, Counts
  <2> QED BY <2>1, <2>3
<1>5. CASE ReadByte
  <2>1. TypeOK'
    BY <1>5, WriteSlotIsNext DEF ReadByte, TypeOK, prodVars, Counts
  <2>2. Used' = Used /\ WriteSlot' = WriteSlot /\ ReadSlot' = ReadSlot
    BY <1>5 DEF ReadByte, Used, WriteSlot, ReadSlot, prodVars
  <2>3. NoOverrun' /\ NoUnderrun' /\ InFlight'
    BY <1>5, <2>2 DEF ReadByte, NoOverrun, NoUnderrun, InFlight, prodVars
  <2> QED BY <2>1, <2>3
<1>6. CASE IncConsumeCount
  <2>1. TypeOK'
    BY <1>0, <1>6, DivMod, SizeFacts DEF IncConsumeCount, Inc, TypeOK, prodVars, Counts
  <2>2. Used > 0 /\ Used' = Used - 1
    BY <1>6, UsedAfterConsume DEF IncConsumeCount, Inc, NoUnderrun, prodVars
  <2>3. WriteSlot' = WriteSlot
    BY <1>6 DEF IncConsumeCount, WriteSlot, prodVars
  <2>4. NoOverrun' /\ NoUnderrun' /\ InFlight'
    BY <1>0, <1>6, <2>2, <2>3, SizeFacts
    DEF IncConsumeCount, NoOverrun, NoUnderrun, InFlight, prodVars, Counts
  <2> QED BY <2>1, <2>4
<1>7. CASE SocketZero
  <2>1. Used' = Used /\ WriteSlot' = WriteSlot /\ ReadSlot' = ReadSlot
    BY <1>7 DEF SocketZero, prodVars, Used, WriteSlot, ReadSlot
  <2>2. TypeOK'
    BY <1>7 DEF SocketZero, prodVars, TypeOK, Counts
  <2> QED BY <1>7, <2>1, <2>2 DEF SocketZero, prodVars, NoOverrun, NoUnderrun, InFlight
<1>8. CASE UNCHANGED vars
  <2>1. Used' = Used /\ WriteSlot' = WriteSlot /\ ReadSlot' = ReadSlot
    BY <1>8 DEF vars, prodVars, consVars, Used, WriteSlot, ReadSlot
  <2> QED BY <1>8, <2>1
    DEF vars, prodVars, consVars, TypeOK, Counts, NoOverrun, NoUnderrun, InFlight
<1> QED BY <1>1, <1>2, <1>3, <1>4, <1>5, <1>6, <1>7, <1>8 DEF Next, Produce, Consume

LEMMA AlwaysIInv == Spec => []IInv
BY InitIInv, NextIInv, PTL DEF Spec

-----------------------------------------------------------------------------
(* The counts, the ring and the locals of both cores keep their types. *)
THEOREM TypeCorrect == Spec => []TypeOK
BY AlwaysIInv, PTL DEF IInv

(* Neither core runs past the other, whatever the buffer size. *)
THEOREM CountsInBounds == Spec => []CountsBounded
BY AlwaysIInv, PTL DEF IInv, CountsBounded

LEMMA SlotsApart == IInv => NoSlotConflict
<1> SUFFICES ASSUME IInv, producer \in {"write", "publish"},
                    consumer \in {"read", "release"}
             PROVE  WriteSlot # ReadSlot
  BY DEF NoSlotConflict
<1>1. TypeOK /\ Used \in 0 .. BufferSize /\ Used > 0
  BY DEF IInv, NoOverrun, NoUnderrun
<1>2. 1 \in 1 .. Used
  BY <1>1, SizeFacts
<1>3. UnreadSlot(1) # WriteSlot
  BY <1>2, WriteSlotIsFree
<1> QED BY <1>1, <1>3, ReadSlotIsOldest

(* The cores are never in the same cell of the ring. *)
THEOREM CellsExclusive == Spec => []NoSlotConflict
BY AlwaysIInv, SlotsApart, PTL

(* What a core tested holds until its step is published, on a cell of its  *)
(* own, for every buffer size and counter range.                           *)
THEOREM CoresNeverMeet == Spec => []CoresApart
BY CountsInBounds, CellsExclusive, PTL DEF CoresApart

LEMMA UnreadSlotInSlots ==
  ASSUME TypeOK, NEW i \in Int
  PROVE  UnreadSlot(i) \in Slots
BY DivMod, SizeFacts DEF UnreadSlot, Slots, TypeOK, Counts

LEMMA StepKeepsUnread ==
  ASSUME IInv, [Next]_vars, NEW i \in 1 .. Used
  PROVE  sharedBuffer'[UnreadSlot(i)] = sharedBuffer[UnreadSlot(i)]
<1>1. CASE WriteByte
  <2>1. UnreadSlot(i) # WriteSlot /\ UnreadSlot(i) \in Slots
    BY <1>1, WriteSlotIsFree DEF WriteByte
  <2> QED BY <1>1, <2>1 DEF WriteByte, IInv, TypeOK
<1>2. CASE UNCHANGED sharedBuffer
  BY <1>2
<1> QED BY <1>1, <1>2
  DEF Next, Produce, Consume, ProducerCheck, IncProduceCount, ConsumerCheck, ReadByte,
      IncConsumeCount, SocketZero, vars, prodVars, consVars

LEMMA StepLemma ==
  IInv /\ [Next]_vars
    => [\A i \in 1 .. Used : sharedBuffer'[UnreadSlot(i)] = sharedBuffer[UnreadSlot(i)]]_vars
BY StepKeepsUnread

(* No step of either core changes a byte that is waiting to be read. *)
THEOREM UnreadStable == Spec => UnreadIsStable
BY AlwaysIInv, StepLemma, PTL DEF Spec, UnreadIsStable

-----------------------------------------------------------------------------
(* The channel implements the bounded queue.                               *)

LEMMA UnreadIsSeq ==
  ASSUME TypeOK
  PROVE  /\ Unread \in Seq(Byte)
         /\ Len(Unread) = Used
         /\ \A i \in 1 .. Used : Unread[i] = sharedBuffer[UnreadSlot(i)]
<1>1. Used \in Nat
  BY UsedType DEF Counts
<1>2. \A i \in 1 .. Used : sharedBuffer[UnreadSlot(i)] \in Byte
  BY <1>1, UnreadSlotInSlots DEF TypeOK
<1> QED BY <1>1, <1>2 DEF Unread

(* Steps that move no count and touch no unread cell are invisible. *)
LEMMA UnreadUnchanged ==
  ASSUME IInv, [Next]_vars, UNCHANGED <<produceCount, consumeCount>>
  PROVE  Unread' = Unread
<1>1. Used' = Used
  BY DEF Used
<1>2. \A i \in Int : UnreadSlot(i)' = UnreadSlot(i)
  BY DEF UnreadSlot
<1>3. \A i \in 1 .. Used : sharedBuffer'[UnreadSlot(i)] = sharedBuffer[UnreadSlot(i)]
  BY StepKeepsUnread
<1>4. Used \in Nat
  BY UsedType DEF IInv, Counts
<1> QED BY <1>1, <1>2, <1>3, <1>4 DEF Unread

LEMMA ProduceAppends ==
  ASSUME IInv, IncProduceCount
  PROVE  Fifo!Put(pendingByte)
<1> DEFINE c == pendingByte
<1>0. /\ TypeOK /\ Used \in Nat /\ Used < BufferSize
      /\ Used' = Used + 1 /\ sharedBuffer' = sharedBuffer /\ consumeCount' = consumeCount
      /\ accepted' = c /\ delivered' = delivered
  BY UsedAfterProduce DEF IInv, NoOverrun, IncProduceCount, Inc, consVars
<1>1. Unread \in Seq(Byte) /\ Len(Unread) = Used
  BY <1>0, UnreadIsSeq
<1>2. \A i \in Int : UnreadSlot(i)' = UnreadSlot(i)
  BY <1>0 DEF UnreadSlot
<1>3. Unread' = [i \in 1 .. Used + 1 |-> sharedBuffer[UnreadSlot(i)]]
  BY <1>0, <1>2 DEF Unread
<1>4. UnreadSlot(Used + 1) = WriteSlot
  <2>1. consumeCount + (Used + 1) - 1 = consumeCount + Used
    BY <1>0 DEF TypeOK, Counts
  <2> QED BY <1>0, <2>1, WriteSlotIsNext DEF UnreadSlot
<1>5. sharedBuffer[UnreadSlot(Used + 1)] = c
  BY <1>4 DEF IInv, InFlight, IncProduceCount
<1>6. Unread' = Append(Unread, c)
  <2>1. c \in Byte
    BY <1>0 DEF TypeOK
  <2>2. /\ Append(Unread, c) \in Seq(Byte)
        /\ Len(Append(Unread, c)) = Used + 1
        /\ \A i \in 1 .. Used + 1 :
             Append(Unread, c)[i] = IF i <= Used THEN Unread[i] ELSE c
    BY <1>1, <2>1, AppendProperties
  <2>3. \A i \in 1 .. Used + 1 :
          sharedBuffer[UnreadSlot(i)] = IF i <= Used THEN Unread[i] ELSE c
    BY <1>0, <1>5, UnreadIsSeq
  <2>4. Unread' \in Seq(Byte) /\ Len(Unread') = Used + 1
    <3>1. \A i \in 1 .. Used + 1 : sharedBuffer[UnreadSlot(i)] \in Byte
      BY <1>0, UnreadSlotInSlots DEF TypeOK
    <3> QED BY <1>0, <1>3, <3>1
  <2>5. \A i \in 1 .. Used + 1 : Unread'[i] = Append(Unread, c)[i]
    BY <1>3, <2>2, <2>3
  <2> QED BY <2>2, <2>4, <2>5, SeqEqual
<1> QED BY <1>0, <1>1, <1>6 DEF Fifo!Put

LEMMA ConsumeTakesHead ==
  ASSUME IInv, IncConsumeCount
  PROVE  Fifo!Get
<1>0. /\ TypeOK /\ Used \in Nat /\ Used > 0
      /\ Used' = Used - 1 /\ sharedBuffer' = sharedBuffer
      /\ consumeCount' = (consumeCount + 1) % CountWrap
      /\ accepted' = accepted /\ delivered' = readByte
  BY UsedType, UsedAfterConsume DEF IInv, NoUnderrun, IncConsumeCount, Inc, prodVars, Counts
<1>1. Unread \in Seq(Byte) /\ Len(Unread) = Used
  BY <1>0, UnreadIsSeq
<1>2. \A i \in Int : UnreadSlot(i)' = UnreadSlot(i + 1)
  <2> SUFFICES ASSUME NEW i \in Int PROVE UnreadSlot(i)' = UnreadSlot(i + 1)
    OBVIOUS
  <2> DEFINE a == consumeCount + 1
             k == i - 1
  <2>1. /\ a \in Int /\ k \in Int
        /\ a + k = consumeCount + (i + 1) - 1
    BY <1>0 DEF TypeOK, Counts
  <2>2. a % CountWrap \in Int
    BY <2>1, DivMod, SizeFacts
  <2>3. UnreadSlot(i)' = ((a % CountWrap) + k) % BufferSize
    <3>1. (a % CountWrap) + i - 1 = (a % CountWrap) + k
      BY <2>2
    <3> QED BY <1>0, <3>1 DEF UnreadSlot
  <2> HIDE DEF a, k
  <2>4. ((a % CountWrap) + k) % BufferSize = (a + k) % BufferSize
    BY <2>1, SlotOfCount
  <2> QED BY <2>1, <2>3, <2>4 DEF UnreadSlot
<1>3. Unread' = [i \in 1 .. Used - 1 |-> sharedBuffer[UnreadSlot(i + 1)]]
  BY <1>0, <1>2 DEF Unread
<1>4. Unread' = Tail(Unread)
  <2>1. /\ Tail(Unread) \in Seq(Byte)
        /\ Len(Tail(Unread)) = Used - 1
        /\ \A i \in 1 .. Used - 1 : Tail(Unread)[i] = Unread[i + 1]
    BY <1>0, <1>1, HeadTailProperties
  <2>2. \A i \in 1 .. Used - 1 : sharedBuffer[UnreadSlot(i + 1)] = Unread[i + 1]
    BY <1>0, UnreadIsSeq
  <2>3. Unread' \in Seq(Byte) /\ Len(Unread') = Used - 1
    <3>1. \A i \in 1 .. Used - 1 : sharedBuffer[UnreadSlot(i + 1)] \in Byte
      BY <1>0, UnreadSlotInSlots DEF TypeOK
    <3> QED BY <1>0, <1>3, <3>1
  <2>4. \A i \in 1 .. Used - 1 : Unread'[i] = Tail(Unread)[i]
    BY <1>3, <2>1, <2>2
  <2> QED BY <2>1, <2>3, <2>4, SeqEqual
<1>5. delivered' = Head(Unread)
  <2>1. Head(Unread) = Unread[1] /\ 1 \in 1 .. Used
    BY <1>0, <1>1
  <2>2. Unread[1] = sharedBuffer[ReadSlot]
    BY <1>0, <2>1, UnreadIsSeq, ReadSlotIsOldest
  <2> QED BY <1>0, <2>1, <2>2 DEF IInv, InFlight, IncConsumeCount
<1>6. Unread # << >>
  BY <1>0, <1>1
<1> QED BY <1>0, <1>4, <1>5, <1>6 DEF Fifo!Get

LEMMA InitRefines == Init => Fifo!Init
<1> SUFFICES ASSUME Init PROVE Fifo!Init
  OBVIOUS
<1>1. TypeOK
  BY InitIInv DEF IInv
<1>2. Used = 0
  BY ModSmall, SizeFacts DEF Init, Used
<1>3. Unread = << >>
  BY <1>1, <1>2, UnreadIsSeq
<1> QED BY <1>3 DEF Init, Fifo!Init

LEMMA StepRefines == IInv /\ [Next]_vars => [Fifo!Next]_(Fifo!vars)
<1> SUFFICES ASSUME IInv, [Next]_vars PROVE [Fifo!Next]_(Fifo!vars)
  OBVIOUS
<1>1. CASE IncProduceCount
  BY <1>1, ProduceAppends DEF Fifo!Next, IInv, TypeOK
<1>2. CASE IncConsumeCount
  BY <1>2, ConsumeTakesHead DEF Fifo!Next
<1>3. CASE UNCHANGED <<produceCount, consumeCount, accepted, delivered>>
  <2>1. Unread' = Unread
    BY <1>3, UnreadUnchanged
  <2> QED BY <1>3, <2>1 DEF Fifo!vars
<1> QED BY <1>1, <1>2, <1>3
  DEF Next, Produce, Consume, ProducerCheck, WriteByte, ConsumerCheck, ReadByte,
      SocketZero, vars, prodVars, consVars

(* The two cores and the shared memory are a bounded first-in first-out queue. *)
THEOREM Refinement == Spec => ImplementsFifo
BY InitRefines, StepRefines, AlwaysIInv, PTL DEF Spec, ImplementsFifo, Fifo!Spec

-----------------------------------------------------------------------------
(***************************************************************************)
(* The two rings between the tasks of CPU1 and an output.  A ring of L     *)
(* cells holds the end of q from cell p on.                                *)
(***************************************************************************)
RingHolds(L, buf, p, q) ==
  \A i \in 1 .. Len(q) : Len(q) - i < L => buf[(p + i - 1) % L] = q[i]

(* new is buf after msg was put into it from cell start on.                *)
ComeTo(L, start, msg, c) == {k \in 1 .. Len(msg) : (start + (k - 1)) % L = c}
Puts(L, buf, start, msg, new) ==
  \A c \in 0 .. L - 1 :
    /\ ComeTo(L, start, msg, c) = {} => new[c] = buf[c]
    /\ \A k \in ComeTo(L, start, msg, c) :
         (\A j \in ComeTo(L, start, msg, c) : j <= k) => new[c] = msg[k]

LEMMA GreatestIs ==
  ASSUME NEW S \in SUBSET Int, NEW m \in S, \A j \in S : j <= m
  PROVE  serial!Max(S) = m /\ icctx!Max(S) = m
<1>1. \E k \in S : \A j \in S : k >= j
  OBVIOUS
<1> DEFINE max == CHOOSE k \in S : \A j \in S : k >= j
<1>2. max \in S /\ \A j \in S : max >= j
  BY <1>1
<1>3. serial!Max(S) = max /\ icctx!Max(S) = max
  BY DEF serial!Max, icctx!Max
<1>4. max <= m /\ m <= max /\ max \in Int /\ m \in Int
  BY <1>2
<1> HIDE DEF max
<1> QED BY <1>3, <1>4

(* What is put behind the end of a full or half empty ring is held.        *)
LEMMA RingTakes ==
  ASSUME NEW L \in Nat \ {0}, NEW p \in Int, NEW S, NEW q \in Seq(S), NEW msg \in Seq(S),
         NEW buf, NEW new, RingHolds(L, buf, p, q), Puts(L, buf, (p + Len(q)) % L, msg, new)
  PROVE  RingHolds(L, new, p, q \o msg)
<1> DEFINE n == Len(q)
           m == Len(msg)
           all == q \o msg
           start == (p + n) % L
<1>1. /\ n \in Nat /\ m \in Nat /\ Len(all) = n + m
      /\ \A i \in 1 .. n : all[i] = q[i]
      /\ \A k \in 1 .. m : all[n + k] = msg[k]
  OBVIOUS
<1>2. ASSUME NEW k \in 1 .. m PROVE (start + (k - 1)) % L = (p + (n + k) - 1) % L
  <2>1. k - 1 \in Int /\ p + n \in Int /\ (p + n) + (k - 1) = p + (n + k) - 1
    BY <1>1
  <2>2. (((p + n) % L) + (k - 1)) % L = ((p + n) + (k - 1)) % L
    BY <2>1, ModAdd
  <2> QED BY <2>1, <2>2
<1> HIDE DEF n, m, all, start
<1> SUFFICES ASSUME NEW i \in 1 .. Len(all), Len(all) - i < L
             PROVE  new[(p + i - 1) % L] = all[i]
  BY DEF RingHolds, all
<1> DEFINE c == (p + i - 1) % L
           here == ComeTo(L, start, msg, c)
<1>3. p + i - 1 \in Int /\ i \in 1 .. n + m /\ n + m - i < L
  BY <1>1
<1>4. c \in 0 .. L - 1
  BY <1>3, DivMod
<1>5. ASSUME NEW k \in 1 .. m, k \in here, n + k > i PROVE FALSE
  <2>1. (p + (n + k) - 1) % L = (p + i - 1) % L
    BY <1>2, <1>5 DEF ComeTo, m
  <2>2. /\ p + (n + k) - 1 \in Int
        /\ (p + (n + k) - 1) - (p + i - 1) > -L /\ (p + (n + k) - 1) - (p + i - 1) < L
    BY <1>1, <1>3, <1>5
  <2>3. p + (n + k) - 1 = p + i - 1
    BY <1>3, <2>1, <2>2, ModInjective
  <2> QED BY <1>1, <1>3, <1>5, <2>3
<1>6. Puts(L, buf, start, msg, new) /\ here \subseteq 1 .. m
  BY DEF start, n, ComeTo, m
<1>7. CASE i <= n
  <2>1. here = {}
    <3>1. ASSUME NEW k \in here PROVE FALSE
      <4>1. k \in 1 .. m
        BY <1>6, <3>1
      <4>2. n + k > i
        BY <1>1, <1>3, <1>7, <4>1
      <4> QED BY <1>5, <3>1, <4>1, <4>2
    <3> QED BY <3>1, Zenon
  <2>2. new[c] = buf[c]
    BY <1>4, <1>6, <2>1 DEF Puts
  <2>3. i \in 1 .. n /\ n - i < L
    BY <1>1, <1>3, <1>7
  <2>4. buf[c] = q[i]
    BY <2>3 DEF RingHolds, n
  <2> QED BY <1>1, <2>2, <2>3, <2>4
<1>8. CASE i > n
  <2> DEFINE k == i - n
  <2>1. k \in 1 .. m /\ n + k = i
    BY <1>1, <1>3, <1>8
  <2> HIDE DEF k
  <2>2. k \in here
    <3>1. (start + (k - 1)) % L = c
      BY <1>2, <2>1
    <3> QED BY <2>1, <3>1 DEF ComeTo, m
  <2>3. \A j \in here : j <= k
    <3> SUFFICES ASSUME NEW j \in here PROVE j <= k
      OBVIOUS
    <3>1. j \in 1 .. m
      BY <1>6
    <3>2. ~(n + j > i)
      BY <1>5, <3>1
    <3> QED BY <1>1, <2>1, <3>1, <3>2
  <2>4. new[c] = msg[k]
    BY <1>4, <1>6, <2>2, <2>3 DEF Puts
  <2> QED BY <1>1, <2>1, <2>4
<1> QED BY <1>1, <1>3, <1>7, <1>8

(* What is taken from its front leaves the rest where it is.               *)
LEMMA RingGives ==
  ASSUME NEW L \in Nat \ {0}, NEW p \in Int, NEW S, NEW q \in Seq(S), NEW s \in 0 .. Len(q),
         NEW buf, RingHolds(L, buf, p, q)
  PROVE  RingHolds(L, buf, (p + s) % L, SubSeq(q, s + 1, Len(q)))
<1> DEFINE n == Len(q)
           rest == SubSeq(q, s + 1, n)
<1>1. /\ n \in Nat /\ s \in 0 .. n /\ Len(rest) = n - s
      /\ \A i \in 1 .. n - s : rest[i] = q[s + i]
  OBVIOUS
<1> HIDE DEF n, rest
<1> SUFFICES ASSUME NEW i \in 1 .. Len(rest), Len(rest) - i < L
             PROVE  buf[(((p + s) % L) + i - 1) % L] = rest[i]
  BY DEF RingHolds, rest, n
<1>2. s + i \in 1 .. n /\ n - (s + i) < L /\ rest[i] = q[s + i]
  BY <1>1
<1>3. (((p + s) % L) + i - 1) % L = (p + (s + i) - 1) % L
  <2>1. i - 1 \in Int /\ p + s \in Int /\ (p + s) + (i - 1) = p + (s + i) - 1 /\ (p + s) % L \in Int
    <3>1. i \in Int /\ s \in Int
      BY <1>1
    <3>2. i - 1 \in Int /\ p + s \in Int /\ (p + s) + (i - 1) = p + (s + i) - 1
      BY <3>1
    <3>3. (p + s) % L \in Int
      BY <3>2, DivMod
    <3> QED BY <3>2, <3>3
  <2>2. (((p + s) % L) + (i - 1)) % L = ((p + s) + (i - 1)) % L
    BY <2>1, ModAdd
  <2>3. ((p + s) % L) + (i - 1) = ((p + s) % L) + i - 1
    BY <2>1
  <2> QED BY <2>1, <2>2, <2>3
<1>4. buf[(p + (s + i) - 1) % L] = q[s + i]
  BY <1>2 DEF RingHolds, n
<1> QED BY <1>2, <1>3, <1>4

-----------------------------------------------------------------------------
(***************************************************************************)
(* The UART output: the cells from the mark on hold what is owed, and the  *)
(* next text goes where it ends.  The mark may be set by an empty text.    *)
(***************************************************************************)
SerialInv ==
  /\ unprinted \in Seq(Byte) /\ print_amount = Len(unprinted)
  /\ output_idx \in serial!Cells /\ print_idx \in serial!Cells \cup {-1}
  /\ print_idx = -1 => unprinted = << >>
  /\ print_idx # -1 =>
       /\ output_idx = (print_idx + Len(unprinted)) % OUTPUT_BUFFER_LENGTH
       /\ RingHolds(OUTPUT_BUFFER_LENGTH, output_buffer, print_idx, unprinted)

LEMMA TextIsSeq ==
  ASSUME NEW n \in Nat
  PROVE  /\ \A msg \in serial!BoundedSeq(Byte, n) : msg \in Seq(Byte)
         /\ \A msg \in icctx!BoundedSeq(Byte, n) : msg \in Seq(Byte)
<1>1. \A m \in Nat : [1 .. m -> Byte] \subseteq Seq(Byte)
  OBVIOUS
<1> QED BY <1>1 DEF serial!BoundedSeq, icctx!BoundedSeq, serial!SeqOf, icctx!SeqOf

LEMMA ModSelf == ASSUME NEW b \in Nat \ {0} PROVE b % b = 0
<1>1. b = b * 1 + 0 /\ 0 \in 0 .. b - 1
  OBVIOUS
<1> QED BY <1>1, ModUnique

LEMMA SerialWrites ==
  ASSUME SerialInv, NEW msg \in Seq(Byte), serial!serial_write(msg)
  PROVE  SerialInv'
<1> DEFINE L == OUTPUT_BUFFER_LENGTH
           p == serial!Mark
           n == Len(unprinted)
           m == Len(msg)
<1>1. L \in Nat \ {0}
  BY InstancesAssumption DEF serial!SerialAssumption
<1>2. /\ print_idx' = p /\ print_amount' = print_amount + m
      /\ output_buffer' = serial!Appended(msg) /\ output_idx' = (output_idx + m) % L
      /\ unprinted' = unprinted \o msg
  BY DEF serial!serial_write, serial!IdxAfter
<1>3. /\ p \in 0 .. L - 1 /\ output_idx \in 0 .. L - 1 /\ n \in Nat /\ m \in Nat /\ unprinted \in Seq(Byte)
      /\ output_idx = (p + n) % L /\ RingHolds(L, output_buffer, p, unprinted)
  <2>1. CASE print_idx = -1
    <3>1. p = output_idx /\ unprinted = << >> /\ n = 0 /\ output_idx \in 0 .. L - 1
      BY <2>1 DEF serial!Mark, SerialInv, serial!Cells
    <3>2. p + n = output_idx
      BY <1>1, <3>1
    <3>3. (p + n) % L = output_idx
      BY <1>1, <3>1, <3>2, ModSmall
    <3>4. RingHolds(L, output_buffer, p, unprinted)
      BY <3>1 DEF RingHolds
    <3> QED BY <3>1, <3>3, <3>4 DEF SerialInv
  <2>2. CASE print_idx # -1
    BY <2>2 DEF serial!Mark, SerialInv, serial!Cells
  <2> QED BY <2>1, <2>2
<1>4. Puts(L, output_buffer, (p + n) % L, msg, output_buffer')
  <2> SUFFICES ASSUME NEW c \in 0 .. L - 1
               PROVE  LET here == ComeTo(L, output_idx, msg, c)
                      IN  /\ here = {} => output_buffer'[c] = output_buffer[c]
                          /\ \A k \in here : (\A j \in here : j <= k) => output_buffer'[c] = msg[k]
    BY <1>3 DEF Puts
  <2> DEFINE here == ComeTo(L, output_idx, msg, c)
  <2>1. here = serial!ComeTo(c, msg) /\ c \in serial!Cells /\ here \in SUBSET Int
    BY <1>3 DEF ComeTo, serial!ComeTo, serial!IdxAfter, serial!Cells
  <2> HIDE DEF here
  <2>2. output_buffer'[c] = IF here = {} THEN output_buffer[c] ELSE msg[serial!Max(here)]
    BY <1>2, <2>1 DEF serial!Appended
  <2>3. ASSUME NEW k \in here, \A j \in here : j <= k PROVE output_buffer'[c] = msg[k]
    <3>1. serial!Max(here) = k
      BY <2>1, <2>3, GreatestIs
    <3> QED BY <2>2, <2>3, <3>1
  <2> QED BY <2>2, <2>3 DEF here
<1>5. RingHolds(L, output_buffer', p, unprinted \o msg)
  BY <1>1, <1>3, <1>4, RingTakes
<1>6. /\ unprinted' \in Seq(Byte) /\ Len(unprinted') = n + m /\ print_amount' = Len(unprinted')
  BY <1>2, <1>3 DEF SerialInv
<1> HIDE DEF L, p, n, m
<1>7. output_idx' = (p + Len(unprinted')) % L /\ output_idx' \in 0 .. L - 1
  <2>1. p + n \in Int /\ (p + n) + m = p + (n + m) /\ output_idx + m \in Int
    BY <1>1, <1>3
  <2> DEFINE a == p + n
  <2>2. a \in Int /\ m \in Int /\ a + m = p + (n + m) /\ output_idx = a % L
    BY <1>3, <2>1
  <2> HIDE DEF a
  <2>3. ((a % L) + m) % L = (a + m) % L
    BY <1>1, <2>2, ModAdd
  <2>4. output_idx' = (output_idx + m) % L
    BY <1>2 DEF L, m
  <2>5. output_idx' \in 0 .. L - 1
    BY <1>1, <2>1, <2>4, DivMod
  <2> QED BY <1>6, <2>2, <2>3, <2>4, <2>5
<1>8. p # -1
  BY <1>1, <1>3
<1> QED BY <1>2, <1>3, <1>5, <1>6, <1>7, <1>8 DEF SerialInv, serial!Cells, L

LEMMA SerialPrints ==
  ASSUME SerialInv, serial!serial_callback PROVE SerialInv'
<1> DEFINE L == OUTPUT_BUFFER_LENGTH
           n == Len(unprinted)
<1>1. L \in Nat \ {0}
  BY InstancesAssumption DEF serial!SerialAssumption
<1>2. print_amount > 0 /\ UNCHANGED <<output_buffer, output_idx>>
  BY DEF serial!serial_callback
<1>3. PICK s \in 0 .. serial!TryToSend :
        /\ print_amount' = print_amount - s
        /\ print_idx' = IF print_amount' = 0 THEN -1
                        ELSE IF print_idx + s >= L THEN 0 ELSE print_idx + s
        /\ unprinted' = SubSeq(unprinted, s + 1, Len(unprinted))
  BY DEF serial!serial_callback
<1>4. /\ unprinted \in Seq(Byte) /\ print_amount = n /\ n \in Nat /\ n > 0
      /\ print_idx \in 0 .. L - 1 /\ output_idx = (print_idx + n) % L /\ output_idx \in 0 .. L - 1
      /\ RingHolds(L, output_buffer, print_idx, unprinted)
  <2>1. n = print_amount /\ n > 0 /\ n \in Nat
    BY <1>2 DEF SerialInv
  <2>2. print_idx # -1
    BY <2>1 DEF SerialInv
  <2> QED BY <2>1, <2>2 DEF SerialInv, serial!Cells
<1>5. s \in 0 .. n /\ print_idx + s <= L
  BY <1>1, <1>4 DEF serial!TryToSend
<1> DEFINE rest == SubSeq(unprinted, s + 1, n)
<1>6. rest \in Seq(Byte) /\ Len(rest) = n - s /\ unprinted' = rest /\ print_amount' = Len(rest)
  BY <1>3, <1>4, <1>5
<1>7. RingHolds(L, output_buffer, (print_idx + s) % L, rest)
  BY <1>1, <1>4, <1>5, RingGives
<1> HIDE DEF L, n, rest
<1>8. CASE n = s
  <2>1. print_amount' = 0 /\ rest = << >>
    <3>1. Len(rest) = 0 /\ rest \in Seq(Byte)
      BY <1>4, <1>6, <1>8
    <3> QED BY <1>6, <3>1
  <2>2. print_idx' = -1
    BY <1>3, <2>1
  <2> QED BY <1>2, <1>4, <1>6, <2>1, <2>2 DEF SerialInv, serial!Cells, L
<1>9. CASE n # s
  <2>1. print_amount' # 0
    BY <1>3, <1>4, <1>5, <1>9
  <2>2. print_idx' = (print_idx + s) % L /\ print_idx' \in 0 .. L - 1
    <3>1. CASE print_idx + s = L
      <4>1. print_idx' = 0
        BY <1>1, <1>3, <2>1, <3>1
      <4>2. (print_idx + s) % L = 0
        BY <1>1, <3>1, ModSelf
      <4> QED BY <1>1, <4>1, <4>2
    <3>2. CASE print_idx + s # L
      <4>1. print_idx + s < L /\ s \in Nat
        BY <1>1, <1>4, <1>5, <3>2
      <4>2. print_idx' = print_idx + s
        BY <1>1, <1>3, <1>4, <2>1, <4>1
      <4> DEFINE r == print_idx + s
      <4>3. r \in 0 .. L - 1
        BY <1>1, <1>4, <4>1
      <4> HIDE DEF r
      <4>4. r % L = r
        BY <1>1, <4>3, ModSmall
      <4> QED BY <4>2, <4>3, <4>4 DEF r
    <3> QED BY <3>1, <3>2
  <2>3. output_idx = (print_idx' + Len(rest)) % L
    <3>1. print_idx + s \in Int /\ n - s \in Int /\ (print_idx + s) + (n - s) = print_idx + n
      BY <1>1, <1>4, <1>5
    <3>2. (((print_idx + s) % L) + (n - s)) % L = ((print_idx + s) + (n - s)) % L
      BY <1>1, <3>1, ModAdd
    <3> QED BY <1>4, <1>6, <2>2, <3>1, <3>2
  <2>4. print_idx' # -1
    BY <1>1, <2>2
  <2> QED BY <1>2, <1>4, <1>6, <1>7, <2>2, <2>3, <2>4 DEF SerialInv, serial!Cells, L
<1> QED BY <1>8, <1>9

(***************************************************************************)
(* The responses: what CPU0 is owed is in the channel and then in the      *)
(* ring.  The channel holds what came out of the ring, whatever it was.    *)
(***************************************************************************)
Share == SubSeq(unsent, Len(channel0) + 1, Len(unsent))

RespondInv ==
  /\ unsent \in Seq(Byte) /\ \E S : channel0 \in Seq(S)
  /\ num_in_buffer \in Nat /\ Len(channel0) + num_in_buffer = Len(unsent)
  /\ idx_reading \in icctx!Cells
  /\ idx_writing = (idx_reading + num_in_buffer) % BUFFER_LENGTH
  /\ RingHolds(BUFFER_LENGTH, send_buffer, idx_reading, Share)

LEMMA ShareIs ==
  ASSUME RespondInv
  PROVE  /\ Share \in Seq(Byte) /\ Len(Share) = num_in_buffer /\ Len(channel0) \in Nat
         /\ \A i \in 1 .. num_in_buffer : Share[i] = unsent[Len(channel0) + i]
<1>1. PICK S : channel0 \in Seq(S)
  BY DEF RespondInv
<1>2. Len(channel0) \in Nat
  BY <1>1
<1> DEFINE a == Len(channel0)
<1>3. unsent \in Seq(Byte) /\ num_in_buffer \in Nat /\ a + num_in_buffer = Len(unsent) /\ a \in Nat
  BY <1>2 DEF RespondInv
<1>4. Share = SubSeq(unsent, a + 1, Len(unsent))
  BY DEF Share
<1> HIDE DEF a
<1>5. /\ Share \in Seq(Byte) /\ Len(Share) = Len(unsent) - a
      /\ \A i \in 1 .. Len(unsent) - a : Share[i] = unsent[a + i]
  BY <1>3, <1>4
<1> QED BY <1>2, <1>3, <1>5 DEF a

LEMMA RespondWrites ==
  ASSUME RespondInv, NEW msg \in Seq(Byte), icctx!cmd_resp_write(msg)
  PROVE  RespondInv'
<1> DEFINE L == BUFFER_LENGTH
           p == idx_reading
           n == num_in_buffer
           m == Len(msg)
<1>1. L \in Nat \ {0}
  BY InstancesAssumption DEF icctx!IccTxAssumption
<1>2. /\ send_buffer' = icctx!Pushed(msg) /\ idx_writing' = (idx_writing + m) % L
      /\ num_in_buffer' = n + m /\ unsent' = unsent \o msg /\ UNCHANGED <<idx_reading, channel0>>
  BY DEF icctx!cmd_resp_write, icctx!IdxAfter
<1>3. /\ p \in 0 .. L - 1 /\ n \in Nat /\ m \in Nat /\ unsent \in Seq(Byte)
      /\ idx_writing = (p + n) % L /\ RingHolds(L, send_buffer, p, Share)
      /\ Share \in Seq(Byte) /\ Len(Share) = n
      /\ Len(channel0) \in Nat /\ Len(channel0) + n = Len(unsent)
  BY ShareIs DEF RespondInv, icctx!Cells
<1>4. Puts(L, send_buffer, (p + n) % L, msg, send_buffer')
  <2> SUFFICES ASSUME NEW c \in 0 .. L - 1
               PROVE  LET here == ComeTo(L, idx_writing, msg, c)
                      IN  /\ here = {} => send_buffer'[c] = send_buffer[c]
                          /\ \A k \in here : (\A j \in here : j <= k) => send_buffer'[c] = msg[k]
    BY <1>3 DEF Puts
  <2> DEFINE here == ComeTo(L, idx_writing, msg, c)
  <2>1. here = icctx!ComeTo(c, msg) /\ c \in icctx!Cells /\ here \in SUBSET Int
    BY <1>3 DEF ComeTo, icctx!ComeTo, icctx!IdxAfter, icctx!Cells
  <2> HIDE DEF here
  <2>2. send_buffer'[c] = IF here = {} THEN send_buffer[c] ELSE msg[icctx!Max(here)]
    BY <1>2, <2>1 DEF icctx!Pushed
  <2>3. ASSUME NEW k \in here, \A j \in here : j <= k PROVE send_buffer'[c] = msg[k]
    <3>1. icctx!Max(here) = k
      BY <2>1, <2>3, GreatestIs
    <3> QED BY <2>2, <2>3, <3>1
  <2> QED BY <2>2, <2>3 DEF here
<1> HIDE DEF L, p, n, m
<1>5. RingHolds(L, send_buffer', p, Share \o msg)
  <2>1. Puts(L, send_buffer, (p + Len(Share)) % L, msg, send_buffer') /\ p \in Int
    BY <1>1, <1>3, <1>4
  <2> QED BY <1>1, <1>3, <2>1, RingTakes
<1>6. Share' = Share \o msg
  <2> DEFINE a == Len(channel0)
  <2>1. SubSeq(unsent \o msg, a + 1, Len(unsent \o msg)) = SubSeq(unsent, a + 1, Len(unsent)) \o msg
    <3>1. a \in Nat /\ a <= Len(unsent) /\ msg \in Seq(Byte) /\ unsent \in Seq(Byte)
      BY <1>3
    <3> HIDE DEF a
    <3> DEFINE x == SubSeq(unsent \o msg, a + 1, Len(unsent \o msg))
               y == SubSeq(unsent, a + 1, Len(unsent)) \o msg
               u == Len(unsent)
    <3>2. x \in Seq(Byte) /\ Len(x) = (u + Len(msg)) - a /\ \A i \in 1 .. (u + Len(msg)) - a : x[i] = (unsent \o msg)[a + i]
      BY <3>1, SMTT(20)
    <3>3. y \in Seq(Byte) /\ Len(y) = (u - a) + Len(msg)
      BY <3>1
    <3>4. \A i \in 1 .. (u - a) + Len(msg) : y[i] = IF i <= u - a THEN unsent[a + i] ELSE msg[i - (u - a)]
      <4>1. Len(SubSeq(unsent, a + 1, u)) = u - a /\ \A i \in 1 .. u - a : SubSeq(unsent, a + 1, u)[i] = unsent[a + i]
        BY <3>1
      <4>2. SubSeq(unsent, a + 1, u) \in Seq(Byte)
        BY <3>1
      <4> QED BY <3>1, <4>1, <4>2
    <3>5. \A i \in 1 .. u + Len(msg) : (unsent \o msg)[i] = IF i <= u THEN unsent[i] ELSE msg[i - u]
      BY <3>1
    <3>6. u \in Nat /\ Len(msg) \in Nat /\ a <= u
      BY <3>1
    <3> HIDE DEF x, y, u
    <3>7. ASSUME NEW i \in 1 .. Len(x) PROVE x[i] = y[i]
      <4>1. i \in 1 .. (u + Len(msg)) - a /\ i \in 1 .. (u - a) + Len(msg) /\ a + i \in 1 .. u + Len(msg)
            /\ (a + i <= u <=> i <= u - a) /\ (a + i) - u = i - (u - a)
        BY <3>1, <3>2, <3>6
      <4> QED BY <3>2, <3>4, <3>5, <4>1
    <3>8. x = y
      <4>1. Len(x) = Len(y)
        BY <3>1, <3>2, <3>3, <3>6
      <4> QED BY <3>2, <3>3, <3>7, <4>1, SeqEqual
    <3> QED BY <3>8 DEF x, y
  <2> QED BY <1>2, <2>1 DEF Share
<1>7. unsent' \in Seq(Byte) /\ Len(unsent') = Len(unsent) + m
  BY <1>2, <1>3 DEF m
<1>8. idx_writing' = (p + num_in_buffer') % L
  <2> DEFINE a == p + n
  <2>1. a \in Int /\ m \in Int /\ a + m = p + (n + m) /\ idx_writing = a % L
    BY <1>3
  <2> HIDE DEF a
  <2>2. ((a % L) + m) % L = (a + m) % L
    BY <1>1, <2>1, ModAdd
  <2> QED BY <1>2, <2>1, <2>2 DEF L, m, n
<1>9. \E S : channel0' \in Seq(S)
  BY <1>2 DEF RespondInv
<1>10. num_in_buffer' \in Nat /\ Len(channel0') + num_in_buffer' = Len(unsent')
  <2>1. channel0' = channel0 /\ num_in_buffer' = n + m
    BY <1>2
  <2>2. Len(channel0') = Len(channel0)
    BY <2>1
  <2> DEFINE a == Len(channel0)
             u == Len(unsent)
             v == Len(unsent')
  <2>3. Len(channel0') = a /\ a \in Nat /\ a + n = u /\ v = u + m /\ n \in Nat /\ m \in Nat /\ num_in_buffer' = n + m
    BY <1>3, <1>7, <2>1, <2>2
  <2> HIDE DEF a, u, v
  <2>4. num_in_buffer' \in Nat /\ a + num_in_buffer' = v
    BY <2>3
  <2> QED BY <2>3, <2>4 DEF v
<1> QED BY <1>2, <1>3, <1>5, <1>6, <1>7, <1>8, <1>9, <1>10 DEF RespondInv, icctx!Cells, L, p

LEMMA RestIs ==
  ASSUME NEW S, NEW u \in Seq(S), NEW a \in 0 .. Len(u)
  PROVE  /\ SubSeq(u, a + 1, Len(u)) \in Seq(S) /\ Len(SubSeq(u, a + 1, Len(u))) = Len(u) - a
         /\ \A i \in 1 .. Len(u) - a : SubSeq(u, a + 1, Len(u))[i] = u[a + i]
OBVIOUS

LEMMA RespondMoves ==
  ASSUME RespondInv, icctx!TaskTurn PROVE RespondInv'
<1> DEFINE L == BUFFER_LENGTH
           p == idx_reading
           n == num_in_buffer
           a == Len(channel0)
<1>1. L \in Nat \ {0}
  BY InstancesAssumption DEF icctx!IccTxAssumption
<1>2. UNCHANGED <<send_buffer, idx_writing, unsent>>
  BY DEF icctx!TaskTurn
<1>3. /\ p \in 0 .. L - 1 /\ n \in Nat /\ unsent \in Seq(Byte)
      /\ idx_writing = (p + n) % L /\ RingHolds(L, send_buffer, p, Share)
      /\ Share \in Seq(Byte) /\ Len(Share) = n /\ Share = SubSeq(unsent, a + 1, Len(unsent))
      /\ a \in Nat /\ a + n = Len(unsent) /\ \E S : channel0 \in Seq(S)
      /\ \A i \in 1 .. n : Share[i] = unsent[a + i]
  BY ShareIs DEF RespondInv, icctx!Cells, Share
<1>4. CASE UNCHANGED <<idx_reading, num_in_buffer, channel0>>
  BY <1>2, <1>4 DEF RespondInv, Share
<1>5. CASE icctx!Moves
  <2>1. /\ n > 0 /\ idx_reading' = (p + 1) % L /\ num_in_buffer' = n - 1
        /\ channel0' = Append(channel0, icctx!_pop)
    BY <1>5 DEF icctx!TaskTurn, icctx!Moves, icctx!IdxAfter
  <2>2. \E S : channel0' \in Seq(S) /\ Len(channel0') = a + 1
    <3>1. PICK S : channel0 \in Seq(S)
      BY <1>3
    <3> DEFINE T == S \cup {icctx!_pop}
    <3>2. channel0 \in Seq(T) /\ icctx!_pop \in T
      BY <3>1
    <3> HIDE DEF T
    <3>3. channel0' \in Seq(T) /\ Len(channel0') = a + 1
      BY <2>1, <3>2
    <3> QED BY <3>3
  <2>3. Share' = SubSeq(unsent, a + 2, Len(unsent))
    <3>1. Len(channel0') = a + 1 /\ (a + 1) + 1 = a + 2
      BY <1>3, <2>2
    <3> HIDE DEF a
    <3> QED BY <1>2, <3>1 DEF Share
  <2>4. Share' = SubSeq(Share, 1 + 1, Len(Share))
    <3> DEFINE u == Len(unsent)
               x == SubSeq(unsent, (a + 1) + 1, u)
               y == SubSeq(Share, 1 + 1, n)
    <3>1. a + 1 \in 0 .. u /\ 1 \in 0 .. n /\ u - (a + 1) = n - 1 /\ u \in Nat
      BY <1>3, <2>1
    <3>2. x \in Seq(Byte) /\ Len(x) = n - 1 /\ \A i \in 1 .. n - 1 : x[i] = unsent[(a + 1) + i]
      BY <1>3, <3>1, RestIs, SMTT(20)
    <3>3. y \in Seq(Byte) /\ Len(y) = n - 1 /\ \A i \in 1 .. n - 1 : y[i] = Share[1 + i]
      BY <1>3, <3>1, RestIs
    <3>4. Share' = x
      BY <1>3, <2>3
    <3> HIDE DEF x, y, a, n, u
    <3>5. ASSUME NEW i \in 1 .. Len(x) PROVE x[i] = y[i]
      <4>1. i \in 1 .. n - 1 /\ 1 + i \in 1 .. n /\ a + (1 + i) = (a + 1) + i
        BY <1>3, <3>2
      <4> QED BY <1>3, <3>2, <3>3, <4>1
    <3>6. x = y
      BY <3>2, <3>3, <3>5, SeqEqual
    <3> QED BY <1>3, <3>4, <3>6 DEF y
  <2> HIDE DEF L, p, n, a
  <2>5. RingHolds(L, send_buffer, (p + 1) % L, Share')
    <3>1. 1 \in 0 .. Len(Share) /\ p \in Int
      BY <1>1, <1>3, <2>1
    <3> QED BY <1>1, <1>3, <2>4, <3>1, RingGives
  <2>6. idx_writing' = (((p + 1) % L) + (n - 1)) % L
    <3> DEFINE q == p + 1
    <3>1. q \in Int /\ n - 1 \in Int /\ q + (n - 1) = p + n
      BY <1>1, <1>3, SMTT(20)
    <3> HIDE DEF q
    <3>2. ((q % L) + (n - 1)) % L = (q + (n - 1)) % L
      BY <1>1, <3>1, ModAdd
    <3> QED BY <1>2, <1>3, <3>1, <3>2 DEF q
  <2>7. (p + 1) % L \in 0 .. L - 1
    <3>1. p + 1 \in Int
      BY <1>1, <1>3
    <3> QED BY <1>1, <3>1, DivMod
  <2>8. n - 1 \in Nat /\ (a + 1) + (n - 1) = Len(unsent)
    <3>1. a \in Nat /\ n \in Nat /\ n > 0 /\ a + n = Len(unsent)
      BY <1>3, <2>1
    <3> QED BY <3>1
  <2>9. PICK S : channel0' \in Seq(S) /\ Len(channel0') = a + 1
    BY <2>2
  <2>10. /\ idx_reading' = (p + 1) % L /\ num_in_buffer' = n - 1
         /\ Len(channel0') + num_in_buffer' = Len(unsent')
    BY <1>2, <2>1, <2>8, <2>9
  <2> QED BY <1>2, <1>3, <2>5, <2>6, <2>7, <2>8, <2>9, <2>10 DEF RespondInv, icctx!Cells, L
<1> QED BY <1>4, <1>5 DEF icctx!TaskTurn

LEMMA RespondTaken ==
  ASSUME RespondInv, icctx!CPU0Takes PROVE RespondInv'
<1> DEFINE n == num_in_buffer
           a == Len(channel0)
           u == Len(unsent)
<1>1. /\ UNCHANGED <<send_buffer, idx_writing, idx_reading, num_in_buffer>>
      /\ channel0 # << >> /\ channel0' = Tail(channel0) /\ unsent' = Tail(unsent)
  BY DEF icctx!CPU0Takes
<1>2. /\ n \in Nat /\ unsent \in Seq(Byte) /\ Share = SubSeq(unsent, a + 1, u)
      /\ Share \in Seq(Byte) /\ Len(Share) = n /\ a \in Nat /\ a + n = u
      /\ \A i \in 1 .. n : Share[i] = unsent[a + i]
  BY ShareIs DEF RespondInv, Share
<1>3. PICK S : channel0 \in Seq(S)
  BY DEF RespondInv
<1>4. channel0' \in Seq(S) /\ Len(channel0') = a - 1 /\ a > 0
  BY <1>1, <1>3
<1>5. unsent' \in Seq(Byte) /\ Len(unsent') = u - 1 /\ \A i \in 1 .. u - 1 : unsent'[i] = unsent[i + 1]
  <2>1. u > 0
    BY <1>2, <1>4
  <2> QED BY <1>1, <1>2, <2>1
<1> HIDE DEF n, a, u
<1>6. Share' = Share
  <2> DEFINE x == SubSeq(unsent', (a - 1) + 1, u - 1)
  <2>1. Share' = x
    BY <1>4, <1>5 DEF Share
  <2>2. a - 1 \in 0 .. u - 1 /\ (u - 1) - (a - 1) = n
    BY <1>2, <1>4
  <2>3. x \in Seq(Byte) /\ Len(x) = n /\ \A i \in 1 .. n : x[i] = unsent'[(a - 1) + i]
    <3> DEFINE v == unsent'
               b == a - 1
    <3>1. v \in Seq(Byte) /\ b \in 0 .. Len(v) /\ Len(v) - b = n /\ x = SubSeq(v, b + 1, Len(v))
      BY <1>5, <2>2
    <3> HIDE DEF v, b, x
    <3>2. x \in Seq(Byte) /\ Len(x) = n /\ \A i \in 1 .. n : x[i] = v[b + i]
      BY <3>1, RestIs
    <3> QED BY <3>2 DEF v, b
  <2> HIDE DEF x
  <2>4. ASSUME NEW i \in 1 .. Len(x) PROVE x[i] = Share[i]
    <3>1. i \in 1 .. n /\ (a - 1) + i \in 1 .. u - 1 /\ ((a - 1) + i) + 1 = a + i
      BY <1>2, <1>4, <2>3
    <3> QED BY <1>2, <1>5, <2>3, <3>1
  <2>5. x = Share
    BY <1>2, <2>3, <2>4, SeqEqual
  <2> QED BY <2>1, <2>5
<1>7. Len(channel0') + n = Len(unsent')
  BY <1>2, <1>4, <1>5
<1> QED BY <1>1, <1>4, <1>5, <1>6, <1>7 DEF RespondInv, n

-----------------------------------------------------------------------------
(***************************************************************************)
(* What CPU1 prints, and what it answers on the network, comes out in the  *)
(* order it was written: for rings of any length, texts and responses of   *)
(* any length, an output that takes any number of bytes at a time.  A text *)
(* that overruns its ring is back in order as soon as the overrun is out.  *)
(***************************************************************************)
THEOREM OutputsComeInOrder == EitherSpec => []OutputsInOrder
<1>1. Either => SerialInv /\ RespondInv
  <2> SUFFICES ASSUME Either PROVE SerialInv /\ RespondInv
    OBVIOUS
  <2>1. OUTPUT_BUFFER_LENGTH \in Nat \ {0} /\ BUFFER_LENGTH \in Nat \ {0}
    BY InstancesAssumption DEF serial!SerialAssumption, icctx!IccTxAssumption
  <2>2. SerialInv
    <3>1. output_idx = 0 /\ print_idx = -1 /\ print_amount = 0 /\ unprinted = << >>
      BY DEF Either, serial!SerialInit
    <3> QED BY <2>1, <3>1 DEF SerialInv, serial!Cells
  <2>3. RespondInv
    <3>1. /\ idx_writing = 0 /\ idx_reading = 0 /\ num_in_buffer = 0
          /\ channel0 = << >> /\ unsent = << >>
      BY DEF Either, icctx!IccTxInit
    <3>2. 0 \in 0 .. BUFFER_LENGTH - 1 /\ 0 % BUFFER_LENGTH = 0
      BY <2>1, ModSmall
    <3>3. Share = << >> /\ unsent \in Seq(Byte) /\ \E S : channel0 \in Seq(S)
      BY <3>1 DEF Share
    <3>4. RingHolds(BUFFER_LENGTH, send_buffer, idx_reading, Share)
      BY <3>3 DEF RingHolds
    <3> QED BY <3>1, <3>2, <3>3, <3>4 DEF RespondInv, icctx!Cells
  <2> QED BY <2>2, <2>3
<1>2. SerialInv /\ RespondInv /\ [EitherNext]_<<session, vars, serialAll, icctxAll, streamAll>>
        => (SerialInv /\ RespondInv)'
  <2> SUFFICES ASSUME SerialInv, RespondInv,
                      [EitherNext]_<<session, vars, serialAll, icctxAll, streamAll>>
               PROVE  SerialInv' /\ RespondInv'
    OBVIOUS
  <2>1. serialAll' = serialAll => SerialInv'
    BY DEF serialAll, SerialInv
  <2>2. icctxAll' = icctxAll => RespondInv'
    BY DEF icctxAll, RespondInv, Share
  <2>3. CASE serial!SerialNext /\ icctxAll' = icctxAll
    <3>1. ASSUME NEW msg \in serial!BoundedSeq(Byte, MaxText), serial!serial_write(msg) PROVE SerialInv'
      <4>1. msg \in Seq(Byte)
        BY TextIsSeq, InstancesAssumption DEF serial!SerialAssumption
      <4> QED BY <3>1, <4>1, SerialWrites
    <3> QED BY <2>2, <2>3, <3>1, SerialPrints DEF serial!SerialNext
  <2>4. CASE icctx!IccTxNext /\ serialAll' = serialAll
    <3>1. ASSUME NEW msg \in icctx!BoundedSeq(Byte, MaxResponse), icctx!cmd_resp_write(msg) PROVE RespondInv'
      <4>1. msg \in Seq(Byte)
        BY TextIsSeq, InstancesAssumption DEF icctx!IccTxAssumption
      <4> QED BY <3>1, <4>1, RespondWrites
    <3>2. ASSUME icctx!TaskBegins PROVE RespondInv'
      BY <3>2 DEF icctx!TaskBegins, RespondInv, Share
    <3> QED BY <2>1, <2>4, <3>1, <3>2, RespondMoves, RespondTaken DEF icctx!IccTxNext
  <2> QED BY <2>1, <2>2, <2>3, <2>4 DEF EitherNext
<1>3. SerialInv => serial!PrintsInOrder
  <2> SUFFICES ASSUME SerialInv PROVE serial!PrintsInOrder
    OBVIOUS
  <2>1. print_amount = Len(unprinted) /\ unprinted \in Seq(Byte)
    BY DEF SerialInv
  <2>2. CASE print_idx = -1
    <3>1. print_amount = 0
      BY <2>1, <2>2 DEF SerialInv
    <3> QED BY <2>1, <3>1 DEF serial!PrintsInOrder
  <2>3. CASE print_idx # -1
    BY <2>1, <2>3 DEF SerialInv, RingHolds, serial!PrintsInOrder
  <2> QED BY <2>2, <2>3
<1>4. RespondInv => icctx!RespondsInOrder
  <2> SUFFICES ASSUME RespondInv PROVE icctx!RespondsInOrder
    OBVIOUS
  <2>1. Len(channel0) + num_in_buffer = Len(unsent)
    BY DEF RespondInv
  <2>2. RingHolds(BUFFER_LENGTH, send_buffer, idx_reading, Share) /\ Len(Share) = num_in_buffer
        /\ \A i \in 1 .. num_in_buffer : Share[i] = unsent[Len(channel0) + i]
    BY ShareIs DEF RespondInv
  <2> QED BY <2>1, <2>2 DEF RingHolds, icctx!RespondsInOrder
<1> QED BY <1>1, <1>2, <1>3, <1>4, PTL DEF EitherSpec, OutputsInOrder

-----------------------------------------------------------------------------
(* A log stream. First, the members of a set of numbers in order.          *)

(* Of numbers there is a least one. *)
LEMMA Least ==
  ASSUME NEW T \in SUBSET Nat, T # {} PROVE \E x \in T : \A y \in T : x <= y
<1> DEFINE R == OpToRel(<, Nat)
<1>1. IsWellFoundedOn(R, Nat)
  BY NatLessThanWellFounded
<1>2. \A a, b \in Nat : a < b => <<a, b>> \in R
  BY DEF OpToRel
<1> HIDE DEF R
<1>3. PICK x \in T : \A y \in T : ~(<<y, x>> \in R)
  BY <1>1, WFMin
<1>4. ASSUME NEW y \in T PROVE x <= y
  <2>1. x \in Nat /\ y \in Nat /\ ~(<<y, x>> \in R)
    BY <1>3
  <2>2. ~(y < x)
    BY <1>2, <2>1
  <2> QED BY <2>1, <2>2
<1> QED BY <1>4

(* e is the members of S in ascending order.                              *)
Rising(e, S) ==
  /\ e \in Seq(Int)
  /\ \A j, k \in 1 .. Len(e) : j < k => e[j] < e[k]
  /\ S = {e[k] : k \in 1 .. Len(e)}

LEMMA RisingIsUnique ==
  ASSUME NEW S, NEW e, NEW f, Rising(e, S), Rising(f, S), Len(e) = Len(f)
  PROVE  e = f
<1> DEFINE n == Len(e)
           T == {k \in 1 .. n : e[k] # f[k]}
<1>1. /\ n \in Nat /\ e \in [1 .. n -> Int] /\ f \in [1 .. n -> Int]
      /\ \A j, k \in 1 .. n : j < k => e[j] < e[k] /\ f[j] < f[k]
      /\ \A k \in 1 .. n : (\E a \in 1 .. n : e[k] = f[a]) /\ (\E a \in 1 .. n : f[k] = e[a])
  <2>1. n \in Nat /\ e \in [1 .. n -> Int] /\ f \in [1 .. n -> Int]
    BY DEF Rising
  <2>2. \A j, k \in 1 .. n : j < k => e[j] < e[k] /\ f[j] < f[k]
    BY DEF Rising
  <2>3. S = {e[k] : k \in 1 .. n} /\ S = {f[k] : k \in 1 .. n}
    BY DEF Rising
  <2> HIDE DEF n
  <2> QED BY <2>1, <2>2, <2>3
<1>2. CASE T = {}
  <2>1. \A k \in 1 .. n : e[k] = f[k]
    BY <1>2
  <2> HIDE DEF n
  <2> QED BY <1>1, <2>1
<1>3. CASE T # {}
  <2>1. PICK x \in T : \A y \in T : x <= y
    <3>1. T \in SUBSET Nat
      BY <1>1
    <3> HIDE DEF T
    <3> QED BY <1>3, <3>1, Least
  <2>2. x \in 1 .. n /\ e[x] # f[x] /\ \A j \in 1 .. n : j < x => e[j] = f[j]
    <3>1. \A j \in 1 .. n : j < x => j \notin T
      BY <1>1, <2>1
    <3> QED BY <2>1, <3>1
  <2>3. PICK a \in 1 .. n : e[x] = f[a]
    BY <1>1, <2>2
  <2>4. PICK b \in 1 .. n : f[x] = e[b]
    BY <1>1, <2>2
  <2> HIDE DEF T, n
  <2>5. a > x /\ b > x
    <3>1. ~(a < x) /\ ~(b < x)
      <4>1. ASSUME a < x PROVE FALSE
        <5>1. e[a] = f[a] /\ e[a] < e[x] /\ e[a] \in Int
          BY <1>1, <2>2, <4>1
        <5> QED BY <2>3, <5>1
      <4>2. ASSUME b < x PROVE FALSE
        <5>1. e[b] = f[b] /\ f[b] < f[x] /\ f[b] \in Int
          BY <1>1, <2>2, <4>2
        <5> QED BY <2>4, <5>1
      <4> QED BY <4>1, <4>2
    <3>2. a # x /\ b # x
      BY <2>2, <2>3, <2>4
    <3> QED BY <1>1, <2>2, <3>1, <3>2
  <2>6. f[x] < f[a] /\ e[x] < e[b] /\ e[x] \in Int /\ f[x] \in Int
    BY <1>1, <2>2, <2>5
  <2> QED BY <2>3, <2>4, <2>6
<1> QED BY <1>2, <1>3

(* What InOrder chooses is the one rising sequence there is. *)
LEMMA InOrderIs ==
  ASSUME NEW S, NEW e, Rising(e, S)
  PROVE  stream!InOrder(S) = e
<1> DEFINE n == Len(e)
           P(s) == \A i, j \in DOMAIN s : i < j => s[i] < s[j]
<1>1. /\ n \in Nat /\ e \in [1 .. n -> S] /\ S \subseteq Int
      /\ \A j, k \in 1 .. n : j < k => e[j] < e[k]
      /\ \A x \in S : \E k \in 1 .. n : e[k] = x
  BY DEF Rising
<1>2. Cardinality(S) = n /\ IsFiniteSet(S)
  <2>1. \A j, k \in 1 .. n : e[j] = e[k] => j = k
    <3> SUFFICES ASSUME NEW j \in 1 .. n, NEW k \in 1 .. n, e[j] = e[k], j # k PROVE FALSE
      OBVIOUS
    <3>1. j < k \/ k < j
      BY <1>1
    <3>2. e[j] \in Int /\ e[k] \in Int
      BY <1>1
    <3> QED BY <1>1, <3>1, <3>2
  <2> HIDE DEF n
  <2>2. e \in Bijection(1 .. n, S)
    BY <1>1, <2>1 DEF Bijection, Injection, Surjection, IsInjective
  <2>3. ExistsBijection(1 .. n, S)
    BY <2>2 DEF ExistsBijection
  <2> QED BY <1>1, <2>3, FS_CountingElements, FS_NatBijection
<1>3. stream!InOrder(S) = CHOOSE s \in [1 .. n -> S] : P(s)
  <2>1. stream!Cardinality(S) = Cardinality(S)
    BY Zenon DEF stream!Cardinality, Cardinality
  <2> QED BY <1>2, <2>1 DEF stream!InOrder
<1>4. e \in [1 .. n -> S] /\ P(e)
  BY <1>1
<1> DEFINE c == CHOOSE s \in [1 .. n -> S] : P(s)
<1>5. c \in [1 .. n -> S] /\ P(c)
  <2> HIDE DEF P, n
  <2> QED BY <1>4
<1> HIDE DEF c
<1>6. Rising(c, S)
  <2>1. c \in Seq(Int) /\ Len(c) = n /\ \A j, k \in 1 .. Len(c) : j < k => c[j] < c[k]
    <3>1. c \in [1 .. n -> Int] /\ n \in Nat
      BY <1>1, <1>5
    <3>2. DOMAIN c = 1 .. n
      BY <3>1
    <3>3. \A j, k \in 1 .. n : j < k => c[j] < c[k]
      BY <1>5, <3>2
    <3> HIDE DEF n
    <3>4. c \in Seq(Int) /\ Len(c) = n
      BY <3>1
    <3> QED BY <3>3, <3>4
  <2>2. \A j, k \in 1 .. n : c[j] = c[k] => j = k
    <3> SUFFICES ASSUME NEW j \in 1 .. n, NEW k \in 1 .. n, c[j] = c[k], j # k PROVE FALSE
      OBVIOUS
    <3>1. j < k \/ k < j
      BY <1>1
    <3>2. c[j] \in Int /\ c[k] \in Int
      BY <1>1, <1>5
    <3> QED BY <2>1, <3>1, <3>2
  <2>3. c \in Injection(1 .. n, S)
    BY <1>5, <2>2 DEF Injection, IsInjective
  <2>4. IsFiniteSet(1 .. n) /\ Cardinality(1 .. n) = n
    BY <1>1, FS_Interval
  <2>5. c \in Surjection(1 .. n, S)
    <3> HIDE DEF n
    <3> QED BY <1>2, <2>3, <2>4, FS_Injection
  <2>6. S = {c[k] : k \in 1 .. n}
    BY <1>5, <2>5 DEF Surjection
  <2> QED BY <2>1, <2>6 DEF Rising
<1>7. Len(c) = Len(e)
  BY <1>5, <1>1
<1> QED BY <1>3, <1>6, <1>7, RisingIsUnique DEF c

-----------------------------------------------------------------------------
(* Bytes as the log task writes them. *)
Size == stream!PacketLen
Mark == [of : Nat, pos : 1 .. Size]

(* Packets, cut anywhere, one behind the other: a byte starts a packet or  *)
(* follows the one before it, and the first byte starts one.               *)
Chain(u) ==
  /\ u \in Seq(Mark)
  /\ u # << >> => u[1].pos = 1
  /\ \A k \in 1 .. Len(u) - 1 : u[k + 1].pos = 1 \/ u[k + 1] = [of |-> u[k].of, pos |-> u[k].pos + 1]

LEMMA MarksJoin ==
  \A s, t, u \in Seq(Mark) : (s \o t) \o u = s \o (t \o u)
BY ConcatAssociative

LEMMA SamplesJoin ==
  \A s, t, u \in Seq(Nat) : (s \o t) \o u = s \o (t \o u)
BY ConcatAssociative

LEMMA LenIs ==
  /\ Header \in Nat \ {0} /\ Middle \in Nat /\ Footer \in Nat \ {0} /\ Size = Header + Middle + Footer
  /\ Size \in Nat \ {0}
BY InstancesAssumption DEF stream!LogStreamAssumption, Size, stream!PacketLen

(* Before a byte of a packet are those that come before it in the packet. *)
LEMMA RunIs ==
  ASSUME NEW u, Chain(u), NEW k \in 1 .. Len(u), NEW j \in 0 .. u[k].pos - 1
  PROVE  k - j \in 1 .. Len(u) /\ u[k - j] = [of |-> u[k].of, pos |-> u[k].pos - j]
<1> DEFINE p == u[k].pos
           Good(x) == k - x \in 1 .. Len(u) /\ u[k - x] = [of |-> u[k].of, pos |-> p - x]
           T == {x \in 0 .. p - 1 : ~Good(x)}
<1>1. u \in Seq(Mark) /\ Len(u) \in Nat /\ u[k] \in Mark /\ p \in 1 .. Size /\ Size \in Nat
  <2>1. u \in Seq(Mark)
    BY DEF Chain
  <2>2. Len(u) \in Nat /\ u[k] \in Mark
    BY <2>1
  <2>3. p \in 1 .. Size
    BY <2>2 DEF Mark
  <2> QED BY <2>1, <2>2, <2>3, LenIs
<1>2. CASE T = {}
  BY <1>2
<1>3. CASE T # {}
  <2>1. T \in SUBSET Nat
    BY <1>1
  <2>2. PICK x \in T : \A y \in T : x <= y
    <3> HIDE DEF T
    <3> QED BY <1>3, <2>1, Least
  <2>3. x \in 0 .. p - 1 /\ ~Good(x)
    BY <2>2
  <2>4. Good(0)
    <3>1. k - 0 = k /\ p - 0 = p
      BY <1>1
    <3>2. u[k] = [of |-> u[k].of, pos |-> p]
      BY <1>1 DEF Mark
    <3> HIDE DEF p
    <3> QED BY <3>1, <3>2
  <2>5. x # 0
    BY <2>3, <2>4
  <2>6. Good(x - 1)
    <3>1. x - 1 \in 0 .. p - 1 /\ ~(x <= x - 1)
      BY <1>1, <2>3, <2>5
    <3> HIDE DEF Good, p
    <3>2. x - 1 \notin T
      BY <2>2, <3>1
    <3> QED BY <3>1, <3>2
  <2> HIDE DEF p
  <2> DEFINE m == k - (x - 1)
             n == Len(u)
  <2>7. m \in 1 .. n /\ u[m] = [of |-> u[k].of, pos |-> p - (x - 1)] /\ u[m].pos # 1 /\ n \in Nat
    <3>1. p - (x - 1) # 1
      BY <1>1, <2>3, <2>5
    <3>2. u[m].pos = p - (x - 1)
      BY <2>6
    <3> QED BY <1>1, <2>6, <3>1, <3>2
  <2>8. m # 1 /\ m - 1 = k - x
    <3>1. u # << >>
      BY <1>1
    <3>2. u[1].pos = 1
      BY <3>1 DEF Chain
    <3>3. m - 1 = k - x
      BY <1>1, <2>3
    <3> HIDE DEF m
    <3> QED BY <2>7, <3>2, <3>3
  <2> HIDE DEF m, n
  <2>9. m - 1 \in 1 .. n - 1 /\ (m - 1) + 1 = m
    BY <2>7, <2>8
  <2>10. u[m] = [of |-> u[m - 1].of, pos |-> u[m - 1].pos + 1]
    BY <2>7, <2>9 DEF Chain, n
  <2>11. u[m - 1] \in Mark /\ m - 1 \in 1 .. n
    BY <1>1, <2>7, <2>9 DEF n
  <2>12. u[m - 1].of = u[k].of /\ u[m - 1].pos + 1 = p - (x - 1)
    BY <2>7, <2>10
  <2>13. u[m - 1].pos = p - x
    <3> DEFINE q == u[m - 1].pos
    <3>1. q \in Int
      BY <1>1, <2>11 DEF Mark
    <3>2. q + 1 = p - (x - 1)
      BY <2>12
    <3> HIDE DEF q
    <3>3. q = p - x
      BY <1>1, <2>3, <3>1, <3>2
    <3> QED BY <3>3 DEF q
  <2>14. u[m - 1] = [of |-> u[k].of, pos |-> p - x]
    BY <2>11, <2>12, <2>13 DEF Mark
  <2> QED BY <2>3, <2>8, <2>11, <2>14 DEF n
<1> QED BY <1>2, <1>3

-----------------------------------------------------------------------------
(* Header and footer at their places say there is a whole packet: were its *)
(* last byte another of the footer, a byte where the parser wants a footer *)
(* would be one of the middle.                                             *)
LEMMA LooksIs ==
  ASSUME NEW u, Chain(u), NEW i \in 0 .. Len(u) - Size
  PROVE  /\ stream!Looks(u, i) <=> u[i + Size].pos = Size
         /\ u[i + Size].pos = Size => \A k \in 1 .. Size : u[i + k] = [of |-> u[i + Size].of, pos |-> k]
<1> DEFINE p == u[i + Size].pos
<1>1. u \in Seq(Mark) /\ Len(u) \in Nat /\ Size \in Nat \ {0} /\ i + Size \in 1 .. Len(u)
  <2>1. u \in Seq(Mark)
    BY DEF Chain
  <2>2. Len(u) \in Nat
    BY <2>1
  <2> DEFINE n == Len(u)
  <2> HIDE DEF n
  <2>3. n \in Nat /\ i \in 0 .. n - Size
    BY <2>2 DEF n
  <2>4. i + Size \in 1 .. n
    BY <2>3, LenIs
  <2> QED BY <2>1, <2>2, <2>4, LenIs DEF n
<1>2. u[i + Size] \in Mark /\ p \in 1 .. Size
  <2>1. u[i + Size] \in Mark
    BY <1>1
  <2> QED BY <2>1 DEF Mark
<1>3. ASSUME p = Size PROVE \A k \in 1 .. Size : u[i + k] = [of |-> u[i + Size].of, pos |-> k]
  <2> TAKE k \in 1 .. Size
  <2> HIDE DEF p
  <2>1. Size - k \in 0 .. p - 1 /\ (i + Size) - (Size - k) = i + k /\ p - (Size - k) = k
    BY <1>1, <1>3
  <2>2. u[(i + Size) - (Size - k)] = [of |-> u[i + Size].of, pos |-> p - (Size - k)]
    BY <1>1, <2>1, RunIs DEF p
  <2> QED BY <2>1, <2>2
<1>4. ASSUME p = Size PROVE stream!Looks(u, i)
  <2>1. ASSUME NEW k \in 1 .. Size PROVE u[i + k].pos = k
    <3>1. u[i + k] = [of |-> u[i + Size].of, pos |-> k]
      BY <1>3, <1>4
    <3> QED BY <3>1
  <2>2. \A k \in 1 .. Header : k \in 1 .. Size /\ k <= Header
    BY LenIs
  <2>3. \A k \in Size - Footer + 1 .. Size : k \in 1 .. Size /\ k > Header + Middle
    BY LenIs
  <2> QED BY <2>1, <2>2, <2>3 DEF stream!Looks, stream!IsHeader, stream!IsFooter, Size
<1>5. ASSUME stream!Looks(u, i) PROVE p = Size
  <2>1. \A k \in Size - Footer + 1 .. Size : u[i + k].pos > Header + Middle
    BY <1>5 DEF stream!Looks, stream!IsFooter, Size
  <2>2. p > Header + Middle
    <3>1. Size \in Size - Footer + 1 .. Size
      BY LenIs
    <3> QED BY <2>1, <3>1
  <2> DEFINE f == p - Header - Middle
  <2>3. SUFFICES ASSUME p # Size PROVE FALSE
    OBVIOUS
  <2> HIDE DEF p
  <2>4. /\ f \in 1 .. Footer - 1 /\ f \in 0 .. p - 1 /\ p - f = Header + Middle
        /\ Size - f \in Size - Footer + 1 .. Size /\ (i + Size) - f = i + (Size - f)
    BY <1>2, <2>2, <2>3, LenIs
  <2> HIDE DEF f
  <2>5. u[(i + Size) - f] = [of |-> u[i + Size].of, pos |-> p - f]
    BY <1>1, <2>4, RunIs DEF p
  <2>6. u[i + (Size - f)].pos > Header + Middle
    BY <2>1, <2>4
  <2>7. u[i + (Size - f)].pos = Header + Middle
    BY <2>4, <2>5
  <2> QED BY <2>6, <2>7, LenIs
<1> QED BY <1>3, <1>4, <1>5

-----------------------------------------------------------------------------
(* Where whole packets end. *)
Ends(u) == {k \in 1 .. Len(u) : u[k].pos = Size}

LEMMA EndsAre ==
  ASSUME NEW u, Chain(u), NEW k \in Ends(u)
  PROVE  k \in Int /\ k >= Size /\ k <= Len(u) /\ Len(u) \in Nat
<1>1. u \in Seq(Mark)
  BY DEF Chain
<1>2. Len(u) \in Nat /\ k \in 1 .. Len(u) /\ u[k].pos = Size
  BY <1>1 DEF Ends
<1>3. Size - 1 \in 0 .. u[k].pos - 1
  BY <1>2, LenIs
<1>4. k - (Size - 1) \in 1 .. Len(u)
  BY <1>2, <1>3, RunIs
<1> QED BY <1>2, <1>4, LenIs

(* The windows that look like a packet, those before b only, are found     *)
(* where the ends are.                                                     *)
LEMMA FoundIs ==
  ASSUME NEW u, Chain(u), NEW e, Rising(e, Ends(u)), NEW m \in 0 .. Len(e),
         NEW b \in Int, b <= Len(u),
         \A j \in 1 .. Len(e) : j <= m <=> e[j] <= b
  PROVE  stream!InOrder({i \in 0 .. b - Size : stream!Looks(u, i)}) = [j \in 1 .. m |-> e[j] - Size]
<1> DEFINE f == [j \in 1 .. m |-> e[j] - Size]
           S == {i \in 0 .. b - Size : stream!Looks(u, i)}
           n == Len(u)
           r == Len(e)
<1>1. /\ u \in Seq(Mark) /\ e \in Seq(Int) /\ n \in Nat /\ r \in Nat /\ m \in 0 .. r
      /\ Size \in Nat \ {0}
  <2>1. u \in Seq(Mark) /\ e \in Seq(Int)
    BY DEF Chain, Rising
  <2> QED BY <2>1, LenIs
<1>2. /\ \A j \in 1 .. r : e[j] \in Int /\ e[j] \in Ends(u) /\ e[j] >= Size /\ e[j] <= n
      /\ \A j, k \in 1 .. r : j < k => e[j] < e[k]
      /\ \A x \in Ends(u) : \E j \in 1 .. r : e[j] = x
  <2>1. \A j, k \in 1 .. r : j < k => e[j] < e[k]
    BY DEF Rising
  <2>2. Ends(u) = {e[k] : k \in 1 .. r}
    BY DEF Rising
  <2> HIDE DEF n, r
  <2>3. \A j \in 1 .. r : e[j] \in Ends(u)
    BY <2>2
  <2> QED BY <2>1, <2>2, <2>3, EndsAre DEF n
<1>3. b <= n /\ \A j \in 1 .. r : j <= m <=> e[j] <= b
  OBVIOUS
<1>4. \A i \in Int : i \in S <=> i >= 0 /\ i <= b - Size /\ i + Size \in Ends(u)
  <2> TAKE i \in Int
  <2>1. CASE i \in 0 .. b - Size
    <3>1. i \in 0 .. n - Size /\ i + Size \in 1 .. n
      BY <1>1, <1>3, <2>1
    <3>2. stream!Looks(u, i) <=> u[i + Size].pos = Size
      BY <3>1, LooksIs
    <3> QED BY <2>1, <3>1, <3>2 DEF Ends
  <2>2. CASE i \notin 0 .. b - Size
    BY <1>1, <2>2
  <2> QED BY <2>1, <2>2
<1>5. S \subseteq Int
  BY <1>1
<1> HIDE DEF S, n, r
<1>6. f \in Seq(Int) /\ Len(f) = m /\ \A j \in 1 .. m : f[j] = e[j] - Size
  <2>1. \A j \in 1 .. m : e[j] - Size \in Int
    BY <1>1, <1>2
  <2>2. f \in [1 .. m -> Int] /\ m \in Nat
    BY <1>1, <2>1
  <2> QED BY <2>2
<1> HIDE DEF f
<1>7. ASSUME NEW j \in 1 .. m, NEW k \in 1 .. m, j < k PROVE f[j] < f[k]
  <2>1. j \in 1 .. r /\ k \in 1 .. r
    BY <1>1
  <2>2. e[j] < e[k] /\ e[j] \in Int /\ e[k] \in Int
    BY <1>2, <1>7, <2>1
  <2>3. f[j] = e[j] - Size /\ f[k] = e[k] - Size
    BY <1>6
  <2> QED BY <1>1, <2>2, <2>3
<1>8. ASSUME NEW j \in 1 .. m PROVE f[j] \in S
  <2>1. j \in 1 .. r /\ f[j] = e[j] - Size /\ e[j] <= b /\ e[j] \in Int
    BY <1>1, <1>2, <1>3, <1>6
  <2>2. f[j] + Size = e[j] /\ f[j] \in Int /\ f[j] >= 0 /\ f[j] <= b - Size
    BY <1>1, <1>2, <2>1
  <2>3. f[j] + Size \in Ends(u)
    BY <1>2, <2>1, <2>2
  <2> QED BY <1>4, <2>2, <2>3
<1>9. ASSUME NEW i \in S PROVE \E j \in 1 .. m : f[j] = i
  <2>1. i \in Int /\ i <= b - Size /\ i + Size \in Ends(u)
    BY <1>4, <1>5
  <2>2. PICK j \in 1 .. r : e[j] = i + Size
    BY <1>2, <2>1
  <2>3. e[j] <= b
    BY <1>1, <2>1, <2>2
  <2>4. j \in 1 .. m
    BY <1>1, <1>3, <2>2, <2>3
  <2>5. f[j] = i
    BY <1>1, <1>6, <2>1, <2>2, <2>4
  <2> QED BY <2>4, <2>5
<1>10. Rising(f, S)
  <2>1. S = {f[k] : k \in 1 .. m}
    BY <1>8, <1>9
  <2> QED BY <1>6, <1>7, <2>1 DEF Rising
<1> QED BY <1>10, InOrderIs DEF f, S

(* Of a rising sequence, those up to b come first. *)
LEMMA SplitIs ==
  ASSUME NEW e \in Seq(Int), \A j, k \in 1 .. Len(e) : j < k => e[j] < e[k], NEW b \in Int
  PROVE  \E m \in 0 .. Len(e) : \A j \in 1 .. Len(e) : j <= m <=> e[j] <= b
<1> DEFINE r == Len(e)
           T == {x \in 1 .. r : ~(e[x] <= b)}
<1>1. /\ r \in Nat /\ \A j \in 1 .. r : e[j] \in Int
      /\ \A j, k \in 1 .. r : j < k => e[j] < e[k]
  OBVIOUS
<1> SUFFICES \E m \in 0 .. r : \A j \in 1 .. r : j <= m <=> e[j] <= b
  OBVIOUS
<1> HIDE DEF r
<1>2. CASE T = {}
  <2>1. \A j \in 1 .. r : j <= r <=> e[j] <= b
    BY <1>1, <1>2
  <2>2. r \in 0 .. r
    BY <1>1
  <2> QED BY <2>1, <2>2
<1>3. CASE T # {}
  <2>1. T \in SUBSET Nat
    BY <1>1
  <2>2. PICK x \in T : \A y \in T : x <= y
    <3> HIDE DEF T
    <3> QED BY <1>3, <2>1, Least
  <2>3. x \in 1 .. r /\ ~(e[x] <= b) /\ \A j \in 1 .. r : j < x => e[j] <= b
    <3>1. \A j \in 1 .. r : j < x => j \notin T
      BY <1>1, <2>2
    <3> QED BY <2>2, <3>1
  <2>4. \A j \in 1 .. r : j <= x - 1 <=> e[j] <= b
    <3> TAKE j \in 1 .. r
    <3>1. CASE j < x
      BY <1>1, <2>3, <3>1
    <3>2. CASE j = x
      BY <1>1, <2>3, <3>2
    <3>3. CASE x < j
      <4>1. e[x] < e[j] /\ e[x] \in Int /\ e[j] \in Int
        BY <1>1, <2>3, <3>3
      <4> QED BY <2>3, <3>3, <4>1
    <3> QED BY <1>1, <2>3, <3>1, <3>2, <3>3
  <2>5. x - 1 \in 0 .. r
    BY <1>1, <2>3
  <2> QED BY <2>4, <2>5
<1> QED BY <1>2, <1>3

-----------------------------------------------------------------------------
(* Where the first m whole packets end, the ends behind it counted from    *)
(* there, and w is what is left of u behind c bytes.                       *)
LastOf(e, m) == IF m = 0 THEN 0 ELSE e[m]
Rest(e, m) == [j \in 1 .. Len(e) - m |-> e[m + j] - LastOf(e, m)]
Behind(w, u, c) ==
  w \in Seq(Mark) /\ Len(w) = Len(u) - c /\ \A k \in 1 .. Len(w) : w[k] = u[k + c]

(* A chain cut behind whole packets is a chain. *)
LEMMA CutIs ==
  ASSUME NEW u, Chain(u), NEW e, Rising(e, Ends(u)), NEW m \in 0 .. Len(e),
         NEW w, Behind(w, u, LastOf(e, m))
  PROVE  Chain(w) /\ Rising(Rest(e, m), Ends(w))
<1> DEFINE n == Len(u)
           r == Len(e)
           c == LastOf(e, m)
           g == Rest(e, m)
           nw == Len(w)
<1>1. /\ u \in Seq(Mark) /\ e \in Seq(Int) /\ n \in Nat /\ r \in Nat /\ nw \in Nat /\ m \in 0 .. r
      /\ Size \in Nat \ {0}
  <2>1. u \in Seq(Mark) /\ e \in Seq(Int) /\ w \in Seq(Mark)
    BY DEF Chain, Rising, Behind
  <2> QED BY <2>1, LenIs
<1>2. /\ \A j \in 1 .. r : e[j] \in Int /\ e[j] \in Ends(u) /\ e[j] >= Size /\ e[j] <= n
      /\ \A j, k \in 1 .. r : j < k => e[j] < e[k]
      /\ \A x \in Ends(u) : \E j \in 1 .. r : e[j] = x
  <2>1. \A j, k \in 1 .. r : j < k => e[j] < e[k]
    BY DEF Rising
  <2>2. Ends(u) = {e[k] : k \in 1 .. r}
    BY DEF Rising
  <2> HIDE DEF n, r
  <2>3. \A j \in 1 .. r : e[j] \in Ends(u)
    BY <2>2
  <2> QED BY <2>1, <2>2, <2>3, EndsAre DEF n
<1>3. /\ n > 0 => u[1].pos = 1
      /\ \A k \in 1 .. n - 1 : u[k + 1].pos = 1 \/ u[k + 1] = [of |-> u[k].of, pos |-> u[k].pos + 1]
      /\ \A k \in 1 .. n : u[k] \in Mark
  <2>1. n > 0 => u # << >>
    OBVIOUS
  <2> QED BY <1>1, <2>1 DEF Chain
<1>4. nw = n - c /\ \A k \in 1 .. nw : w[k] = u[k + c]
  BY DEF Behind
<1>5. \A k \in Int : k \in Ends(u) <=> k >= 1 /\ k <= n /\ u[k].pos = Size
  BY <1>1 DEF Ends
<1>6. \A k \in Int : k \in Ends(w) <=> k >= 1 /\ k <= nw /\ w[k].pos = Size
  BY <1>1 DEF Ends
<1>40. /\ c = IF m = 0 THEN 0 ELSE e[m]
       /\ g = [j \in 1 .. r - m |-> e[m + j] - c]
  BY DEF LastOf, Rest
<1> HIDE DEF n, r, nw, c, g
<1>7. c \in 0 .. n /\ (m # 0 => c \in Ends(u) /\ c = e[m])
  <2>1. CASE m = 0
    BY <1>1, <1>40, <2>1
  <2>2. CASE m # 0
    <3>1. m \in 1 .. r /\ c = e[m]
      BY <1>1, <1>40, <2>2
    <3> QED BY <1>1, <1>2, <3>1
  <2> QED BY <2>1, <2>2
<1>8. Chain(w)
  <2>1. ASSUME w # << >> PROVE w[1].pos = 1
    <3>1. nw >= 1
      <4>1. nw # 0
        BY <2>1 DEF nw
      <4> QED BY <1>1, <4>1
    <3>2. w[1] = u[c + 1] /\ c + 1 \in 1 .. n
      <4>1. 1 \in 1 .. nw /\ 1 + c = c + 1 /\ c + 1 \in 1 .. n
        BY <1>1, <1>4, <1>7, <3>1
      <4>2. w[1] = u[1 + c]
        BY <1>4, <4>1
      <4> QED BY <4>1, <4>2
    <3>3. CASE c = 0
      BY <1>1, <1>3, <3>2, <3>3
    <3>4. CASE c # 0
      <4>1. m # 0
        BY <1>40, <3>4
      <4>2. u[c].pos = Size /\ c \in 1 .. n - 1
        BY <1>1, <1>5, <1>7, <3>2, <4>1
      <4>3. u[c + 1] # [of |-> u[c].of, pos |-> u[c].pos + 1]
        <5>1. u[c + 1].pos \in 1 .. Size
          BY <1>3, <3>2 DEF Mark
        <5>2. u[c + 1].pos # Size + 1
          BY <1>1, <5>1
        <5> QED BY <4>2, <5>2
      <4> QED BY <1>3, <3>2, <4>2, <4>3
    <3> QED BY <3>3, <3>4
  <2>2. ASSUME NEW k \in 1 .. nw - 1
        PROVE  w[k + 1].pos = 1 \/ w[k + 1] = [of |-> w[k].of, pos |-> w[k].pos + 1]
    <3>1. k \in 1 .. nw /\ k + 1 \in 1 .. nw /\ k + c \in 1 .. n - 1 /\ (k + 1) + c = (k + c) + 1
      BY <1>1, <1>4, <1>7
    <3>2. w[k] = u[k + c] /\ w[k + 1] = u[(k + c) + 1]
      <4>1. w[k + 1] = u[(k + 1) + c] /\ w[k] = u[k + c]
        BY <1>4, <3>1
      <4> QED BY <3>1, <4>1
    <3> QED BY <1>3, <3>1, <3>2
  <2> QED BY <2>1, <2>2 DEF Chain, nw, Behind
<1>9. g \in Seq(Int) /\ Len(g) = r - m /\ \A j \in 1 .. r - m : g[j] = e[m + j] - c
  <2>1. \A j \in 1 .. r - m : e[m + j] - c \in Int
    <3> TAKE j \in 1 .. r - m
    <3>1. m + j \in 1 .. r
      BY <1>1
    <3>2. e[m + j] \in Int
      BY <1>2, <3>1
    <3> QED BY <1>1, <1>7, <3>2
  <2> DEFINE h == r - m
             v(j) == e[m + j] - c
  <2>2. h \in Nat
    BY <1>1
  <2>3. \A j \in 1 .. h : v(j) \in Int
    BY <2>1
  <2> HIDE DEF h, v
  <2>4. LET q == [j \in 1 .. h |-> v(j)]
        IN  q \in Seq(Int) /\ Len(q) = h /\ \A j \in 1 .. h : q[j] = v(j)
    BY <2>2, <2>3
  <2>5. g = [j \in 1 .. h |-> v(j)]
    BY <1>40 DEF h, v
  <2> QED BY <2>4, <2>5 DEF h, v
<1>10. ASSUME NEW j \in 1 .. r - m, NEW k \in 1 .. r - m, j < k PROVE g[j] < g[k]
  <2>1. m + j \in 1 .. r /\ m + k \in 1 .. r /\ m + j < m + k
    BY <1>1, <1>10
  <2>2. e[m + j] < e[m + k] /\ e[m + j] \in Int /\ e[m + k] \in Int
    BY <1>2, <2>1
  <2>3. g[j] = e[m + j] - c /\ g[k] = e[m + k] - c
    BY <1>9
  <2> QED BY <1>1, <1>7, <2>2, <2>3
<1>11. ASSUME NEW k \in Int
       PROVE  k \in Ends(w) <=> k >= 1 /\ k + c \in Ends(u)
  <2>1. CASE k >= 1 /\ k <= nw
    <3>1. w[k] = u[k + c]
      <4>1. k \in 1 .. nw
        BY <1>1, <2>1
      <4> QED BY <1>4, <4>1
    <3>2. k + c \in Int /\ k + c >= 1 /\ k + c <= n
      BY <1>1, <1>4, <1>7, <2>1
    <3> QED BY <1>5, <1>6, <2>1, <3>1, <3>2
  <2>2. CASE ~(k >= 1 /\ k <= nw)
    <3>1. k + c \in Int /\ ~(k >= 1 /\ k + c <= n)
      BY <1>1, <1>4, <1>7, <2>2
    <3> QED BY <1>5, <1>6, <2>2, <3>1
  <2> QED BY <2>1, <2>2
<1>12. ASSUME NEW j \in 1 .. r - m PROVE g[j] \in Ends(w)
  <2>1. m + j \in 1 .. r /\ (m # 0 => m \in 1 .. r /\ m < m + j)
    BY <1>1
  <2>2. e[m + j] \in Int /\ e[m + j] \in Ends(u) /\ e[m + j] >= Size
    BY <1>2, <2>1
  <2>3. e[m + j] > c
    <3>1. CASE m = 0
      BY <1>1, <1>40, <2>2, <3>1
    <3>2. CASE m # 0
      BY <1>2, <1>7, <2>1, <3>2
    <3> QED BY <3>1, <3>2
  <2>4. g[j] = e[m + j] - c
    BY <1>9
  <2>5. g[j] \in Int /\ g[j] >= 1 /\ g[j] + c = e[m + j]
    <3> DEFINE k == e[m + j]
               v == g[j]
    <3>1. k \in Int /\ c \in Int /\ k > c /\ v = k - c
      BY <1>7, <2>2, <2>3, <2>4
    <3> HIDE DEF k, v
    <3>2. v \in Int /\ v >= 1 /\ v + c = k
      BY <3>1
    <3> QED BY <3>2 DEF k, v
  <2> QED BY <1>11, <2>2, <2>5
<1>13. ASSUME NEW k \in Ends(w) PROVE \E j \in 1 .. r - m : g[j] = k
  <2>1. k \in Int /\ k >= 1 /\ k + c \in Ends(u)
    <3>1. k \in Int
      BY <1>1 DEF Ends, nw
    <3> QED BY <1>11, <3>1
  <2>2. PICK a \in 1 .. r : e[a] = k + c
    BY <1>2, <2>1
  <2>3. a > m
    <3>1. SUFFICES ASSUME a <= m PROVE FALSE
      BY <1>1
    <3>2. m # 0 /\ m \in 1 .. r
      BY <1>1, <3>1
    <3>3. e[a] <= e[m]
      <4>1. CASE a = m
        BY <1>2, <3>2, <4>1
      <4>2. CASE a # m
        <5>1. e[a] < e[m] /\ e[a] \in Int /\ e[m] \in Int
          BY <1>1, <1>2, <3>1, <3>2, <4>2
        <5> QED BY <5>1
      <4> QED BY <4>1, <4>2
    <3>4. c = e[m]
      BY <1>7, <3>2
    <3> QED BY <1>1, <1>7, <2>1, <2>2, <3>3, <3>4
  <2>4. a - m \in 1 .. r - m /\ m + (a - m) = a
    BY <1>1, <2>3
  <2>5. g[a - m] = e[a] - c
    BY <1>9, <2>4
  <2>6. g[a - m] = k
    BY <1>1, <1>7, <2>1, <2>2, <2>5
  <2> QED BY <2>4, <2>6
<1>14. Rising(g, Ends(w))
  <2>1. Ends(w) = {g[j] : j \in 1 .. r - m}
    BY <1>12, <1>13
  <2> QED BY <1>9, <1>10, <2>1 DEF Rising
<1> QED BY <1>8, <1>14 DEF g

(* One more byte behind a chain. *)
LEMMA GrowIs ==
  ASSUME NEW u, Chain(u), NEW e, Rising(e, Ends(u)), NEW b \in Mark,
         b.pos = 1 \/ (u # << >> /\ b = [of |-> u[Len(u)].of, pos |-> u[Len(u)].pos + 1])
  PROVE  /\ Chain(Append(u, b))
         /\ Rising(IF b.pos = Size THEN Append(e, Len(u) + 1) ELSE e, Ends(Append(u, b)))
<1> DEFINE n == Len(u)
           r == Len(e)
           w == Append(u, b)
           g == IF b.pos = Size THEN Append(e, n + 1) ELSE e
<1>1. u \in Seq(Mark) /\ e \in Seq(Int) /\ n \in Nat /\ r \in Nat
  BY DEF Chain, Rising
<1>2. w \in Seq(Mark) /\ Len(w) = n + 1 /\ w[n + 1] = b /\ \A k \in 1 .. n : w[k] = u[k]
  BY <1>1
<1>3. /\ \A j \in 1 .. r : e[j] \in Int /\ e[j] \in Ends(u) /\ e[j] <= n
      /\ \A j, k \in 1 .. r : j < k => e[j] < e[k]
      /\ \A x \in Ends(u) : \E j \in 1 .. r : e[j] = x
  <2>1. \A j, k \in 1 .. r : j < k => e[j] < e[k]
    BY DEF Rising
  <2>2. Ends(u) = {e[k] : k \in 1 .. r}
    BY DEF Rising
  <2> HIDE DEF n, r
  <2>3. \A j \in 1 .. r : e[j] \in Ends(u)
    BY <2>2
  <2> QED BY <2>1, <2>2, <2>3, EndsAre DEF n
<1>4. /\ n > 0 => u[1].pos = 1
      /\ \A k \in 1 .. n - 1 : u[k + 1].pos = 1 \/ u[k + 1] = [of |-> u[k].of, pos |-> u[k].pos + 1]
  <2>1. n > 0 => u # << >>
    OBVIOUS
  <2> QED BY <1>1, <2>1 DEF Chain
<1>5. b.pos = 1 \/ (n > 0 /\ b = [of |-> u[n].of, pos |-> u[n].pos + 1])
  <2>1. u # << >> => n > 0
    BY <1>1
  <2> QED BY <2>1
<1>6. Ends(w) = IF b.pos = Size THEN Ends(u) \cup {n + 1} ELSE Ends(u)
  <2>1. Ends(w) = {k \in 1 .. n + 1 : w[k].pos = Size} /\ Ends(u) = {k \in 1 .. n : u[k].pos = Size}
    BY <1>2 DEF Ends
  <2>2. 1 .. n + 1 = 1 .. n \cup {n + 1}
    BY <1>1
  <2> HIDE DEF w, n
  <2> QED BY <1>2, <2>1, <2>2
<1>7. /\ g \in Seq(Int) /\ Len(g) = (IF b.pos = Size THEN r + 1 ELSE r)
      /\ \A j \in 1 .. r : g[j] = e[j]
      /\ b.pos = Size => g[r + 1] = n + 1
  BY <1>1
<1> HIDE DEF w, g, n, r
<1>8. Chain(w)
  <2>1. w[1].pos = 1
    <3>1. CASE n = 0
      BY <1>2, <1>5, <3>1
    <3>2. CASE n # 0
      BY <1>1, <1>2, <1>4, <3>2
    <3> QED BY <3>1, <3>2
  <2>2. ASSUME NEW k \in 1 .. (n + 1) - 1
        PROVE  w[k + 1].pos = 1 \/ w[k + 1] = [of |-> w[k].of, pos |-> w[k].pos + 1]
    <3>1. CASE k = n
      <4>1. w[k] = u[n] /\ w[k + 1] = b
        BY <1>1, <1>2, <3>1
      <4> QED BY <1>5, <4>1
    <3>2. CASE k # n
      <4>1. k \in 1 .. n - 1 /\ k \in 1 .. n /\ k + 1 \in 1 .. n
        BY <1>1, <3>2
      <4>2. w[k] = u[k] /\ w[k + 1] = u[k + 1]
        BY <1>2, <4>1
      <4> QED BY <1>4, <4>1, <4>2
    <3> QED BY <3>1, <3>2
  <2> QED BY <1>2, <2>1, <2>2 DEF Chain
<1>9. Rising(g, Ends(w))
  <2>1. CASE b.pos = Size
    <3>1. Len(g) = r + 1 /\ g[r + 1] = n + 1 /\ Ends(w) = Ends(u) \cup {n + 1}
      BY <1>6, <1>7, <2>1
    <3>2. ASSUME NEW j \in 1 .. r + 1, NEW k \in 1 .. r + 1, j < k PROVE g[j] < g[k]
      <4>1. j \in 1 .. r /\ g[j] = e[j] /\ e[j] \in Int
        BY <1>1, <1>3, <1>7, <3>2
      <4>2. CASE k = r + 1
        BY <1>1, <1>3, <3>1, <4>1, <4>2
      <4>3. CASE k # r + 1
        <5>1. k \in 1 .. r
          BY <1>1, <4>3
        <5> QED BY <1>3, <1>7, <3>2, <4>1, <5>1
      <4> QED BY <4>2, <4>3
    <3>3. ASSUME NEW j \in 1 .. r + 1 PROVE g[j] \in Ends(w)
      <4>1. CASE j = r + 1
        BY <3>1, <4>1
      <4>2. CASE j # r + 1
        <5>1. j \in 1 .. r
          BY <1>1, <4>2
        <5> QED BY <1>3, <1>7, <3>1, <5>1
      <4> QED BY <4>1, <4>2
    <3>4. ASSUME NEW x \in Ends(w) PROVE \E j \in 1 .. r + 1 : g[j] = x
      <4>1. CASE x = n + 1
        <5>1. r + 1 \in 1 .. r + 1
          BY <1>1
        <5> QED BY <3>1, <4>1, <5>1
      <4>2. CASE x # n + 1
        <5>1. PICK j \in 1 .. r : e[j] = x
          BY <1>3, <3>1, <4>2
        <5>2. j \in 1 .. r + 1 /\ g[j] = x
          BY <1>1, <1>7, <5>1
        <5> QED BY <5>2
      <4> QED BY <4>1, <4>2
    <3>5. Ends(w) = {g[j] : j \in 1 .. r + 1}
      BY <3>3, <3>4
    <3> QED BY <1>7, <3>1, <3>2, <3>5 DEF Rising
  <2>2. CASE b.pos # Size
    BY <1>6, <2>2 DEF g
  <2> QED BY <2>1, <2>2
<1> QED BY <1>8, <1>9 DEF w, g, n

-----------------------------------------------------------------------------
(* The samples of the packets that end at e. *)
Points(u, e) == [j \in 1 .. Len(e) |-> u[e[j]].of]

EndsInOrder(u) == stream!InOrder(Ends(u))

(* Until CPU0 drops bytes: what is between the log task and the plot is a   *)
(* chain that ends where the packet under way stands, and what is plotted, *)
(* with the whole packets of the chain, is what was sampled.               *)
PlotInv ==
  ~truncated =>
    /\ packet \in Nat /\ at \in 0 .. Size /\ sampled \in Seq(Nat) /\ plotted \in Seq(Nat)
    /\ channel1 \in Seq(Mark) /\ tcp \in Seq(Mark) /\ buffer \in Seq(Mark)
    /\ Chain(stream!Underway)
    /\ at > 1 => /\ stream!Underway # << >>
                 /\ stream!Underway[Len(stream!Underway)] = [of |-> packet, pos |-> at - 1]
    /\ Rising(EndsInOrder(stream!Underway), Ends(stream!Underway))
    /\ plotted \o Points(stream!Underway, EndsInOrder(stream!Underway)) = sampled

(* What the invariant says of e, for any e that is the ends in order. *)
LEMMA EndsInOrderIs ==
  ASSUME NEW u, NEW e, Rising(e, Ends(u))
  PROVE  EndsInOrder(u) = e
BY InOrderIs DEF EndsInOrder

LEMMA PointsAre ==
  ASSUME NEW u, Chain(u), NEW e, Rising(e, Ends(u))
  PROVE  /\ Points(u, e) \in Seq(Nat) /\ Len(Points(u, e)) = Len(e)
         /\ \A j \in 1 .. Len(e) : Points(u, e)[j] = u[e[j]].of
<1> DEFINE r == Len(e)
<1>1. e \in Seq(Int) /\ r \in Nat /\ u \in Seq(Mark)
  BY DEF Rising, Chain
<1>2. \A j \in 1 .. r : u[e[j]].of \in Nat
  <2> TAKE j \in 1 .. r
  <2>1. e[j] \in Ends(u)
    <3>1. Ends(u) = {e[k] : k \in 1 .. r}
      BY DEF Rising
    <3> HIDE DEF r
    <3> QED BY <3>1
  <2>2. u[e[j]] \in Mark
    BY <1>1, <2>1 DEF Ends
  <2> QED BY <2>2 DEF Mark
<1>3. Points(u, e) = [j \in 1 .. r |-> u[e[j]].of]
  BY DEF Points
<1> HIDE DEF r
<1>4. Points(u, e) \in [1 .. r -> Nat]
  BY <1>2, <1>3
<1> QED BY <1>1, <1>3, <1>4 DEF r

LEMMA PlotInit ==
  ASSUME stream!StreamInit PROVE PlotInv
<1> DEFINE u == stream!Underway
<1>1. /\ packet = 0 /\ at = 0 /\ sampled = << >> /\ channel1 = << >> /\ tcp = << >>
      /\ buffer = << >> /\ plotted = << >>
  BY DEF stream!StreamInit
<1>2. u = << >>
  BY <1>1 DEF stream!Underway
<1>3. Chain(u) /\ Ends(u) = {}
  <2>1. Len(u) = 0 /\ u \in Seq(Mark)
    BY <1>2
  <2> HIDE DEF u
  <2> QED BY <1>2, <2>1 DEF Chain, Ends
<1>4. Rising(<< >>, Ends(u))
  BY <1>3 DEF Rising
<1>5. EndsInOrder(u) = << >>
  <2> HIDE DEF u
  <2> QED BY <1>4, EndsInOrderIs
<1>6. plotted \o Points(u, << >>) = sampled
  <2>1. Points(u, << >>) = << >>
    <3> HIDE DEF u
    <3>1. Points(u, << >>) \in Seq(Nat) /\ Len(Points(u, << >>)) = 0
      BY <1>3, <1>4, PointsAre
    <3> QED BY <3>1
  <2> QED BY <1>1, <2>1
<1>7. packet \in Nat /\ at \in 0 .. Size /\ ~(at > 1)
  BY <1>1, LenIs
<1>8. /\ sampled \in Seq(Nat) /\ plotted \in Seq(Nat)
      /\ channel1 \in Seq(Mark) /\ tcp \in Seq(Mark) /\ buffer \in Seq(Mark)
  BY <1>1
<1> QED BY <1>3, <1>4, <1>5, <1>6, <1>7, <1>8 DEF PlotInv

LEMMA PlotStart ==
  ASSUME PlotInv, stream!icc_tx_log_stream PROVE PlotInv'
<1>1. /\ at = 0 /\ packet' = packet + 1 /\ at' = 1
      /\ UNCHANGED <<sampled, channel1, tcp, buffer, plotted, truncated>>
  BY DEF stream!icc_tx_log_stream
<1>2. stream!Underway' = stream!Underway
  BY <1>1 DEF stream!Underway
<1>3. at' \in 0 .. Size /\ ~(at' > 1)
  BY <1>1, LenIs
<1>4. packet \in Nat => packet' \in Nat
  BY <1>1
<1> QED BY <1>1, <1>2, <1>3, <1>4 DEF PlotInv

LEMMA PlotUnchanged ==
  ASSUME PlotInv, UNCHANGED streamAll PROVE PlotInv'
BY DEF PlotInv, streamAll, stream!Underway

(* The log task's byte goes on with its packet, or is not written and the   *)
(* packet is given up.                                                      *)
LEMMA PlotWrite ==
  ASSUME PlotInv, stream!WriteByte PROVE PlotInv'
<1>1. at > 0 /\ UNCHANGED <<packet, tcp, buffer, plotted, truncated>>
  BY DEF stream!WriteByte
<1> SUFFICES ASSUME ~truncated PROVE PlotInv'
  BY <1>1 DEF PlotInv
<1>2. CASE stream!IsBufferFull
  <2>1. at' = 0 /\ UNCHANGED <<channel1, sampled>>
    BY <1>2 DEF stream!WriteByte, stream!AfterFull
  <2>2. stream!Underway' = stream!Underway
    BY <1>1, <2>1 DEF stream!Underway
  <2>3. at' \in 0 .. Size /\ ~(at' > 1)
    BY <2>1, LenIs
  <2> QED BY <1>1, <2>1, <2>2, <2>3 DEF PlotInv
<1>3. CASE ~stream!IsBufferFull
  <2>1. PICK u, e, b : /\ u = stream!Underway /\ e = EndsInOrder(stream!Underway)
                       /\ b = [of |-> packet, pos |-> at]
    OBVIOUS
  <2>2. /\ channel1' = Append(channel1, b)
        /\ at' = IF at = Size THEN 0 ELSE at + 1
        /\ sampled' = IF at = Size THEN Append(sampled, packet) ELSE sampled
    BY <1>3, <2>1 DEF stream!WriteByte, Size
  <2>3. /\ packet \in Nat /\ at \in 0 .. Size /\ sampled \in Seq(Nat) /\ plotted \in Seq(Nat)
        /\ channel1 \in Seq(Mark) /\ tcp \in Seq(Mark) /\ buffer \in Seq(Mark)
    BY DEF PlotInv
  <2>4. /\ Chain(u) /\ Rising(e, Ends(u)) /\ plotted \o Points(u, e) = sampled
        /\ at > 1 => u # << >> /\ u[Len(u)] = [of |-> packet, pos |-> at - 1]
    BY <2>1 DEF PlotInv
  <2>5. at \in 1 .. Size /\ b \in Mark /\ b.pos = at /\ b.of = packet
    <3>1. at \in 1 .. Size
      BY <1>1, <2>3, LenIs
    <3> QED BY <2>1, <2>3, <3>1 DEF Mark
  <2>6. u \in Seq(Mark) /\ stream!Underway' = Append(u, b)
    <3>1. u = (buffer \o tcp) \o channel1 /\ buffer \o tcp \in Seq(Mark)
      BY <2>1, <2>3 DEF stream!Underway
    <3>2. stream!Underway' = (buffer \o tcp) \o Append(channel1, b)
      BY <1>1, <2>2 DEF stream!Underway
    <3> DEFINE x == buffer \o tcp
    <3>3. x \in Seq(Mark)
      BY <3>1
    <3> HIDE DEF x
    <3>4. x \o Append(channel1, b) = Append(x \o channel1, b)
      BY <2>3, <2>5, <3>3
    <3> QED BY <2>3, <3>1, <3>2, <3>3, <3>4 DEF x
  <2>7. b.pos = 1 \/ (u # << >> /\ b = [of |-> u[Len(u)].of, pos |-> u[Len(u)].pos + 1])
    <3>1. CASE at = 1
      BY <2>5, <3>1
    <3>2. CASE at # 1
      <4>1. at > 1 /\ (at - 1) + 1 = at
        BY <2>5, <3>2, LenIs
      <4>2. u # << >> /\ u[Len(u)] = [of |-> packet, pos |-> at - 1]
        BY <2>4, <4>1
      <4>3. u[Len(u)].of = packet /\ u[Len(u)].pos + 1 = at
        BY <4>1, <4>2
      <4> QED BY <2>1, <4>2, <4>3
    <3> QED BY <3>1, <3>2
  <2>8. PICK w, g : w = Append(u, b) /\ g = IF b.pos = Size THEN Append(e, Len(u) + 1) ELSE e
    OBVIOUS
  <2>9. Chain(w) /\ Rising(g, Ends(w))
    BY <2>4, <2>5, <2>7, <2>8, GrowIs
  <2>10. EndsInOrder(w) = g
    BY <2>9, EndsInOrderIs
  <2>11. plotted \o Points(w, g) = sampled'
    <3>1. /\ Points(u, e) \in Seq(Nat) /\ Len(Points(u, e)) = Len(e)
          /\ \A j \in 1 .. Len(e) : Points(u, e)[j] = u[e[j]].of
      BY <2>4, PointsAre
    <3>2. /\ Points(w, g) \in Seq(Nat) /\ Len(Points(w, g)) = Len(g)
          /\ \A j \in 1 .. Len(g) : Points(w, g)[j] = w[g[j]].of
      BY <2>9, PointsAre
    <3>3. /\ e \in Seq(Int) /\ Len(e) \in Nat /\ Len(u) \in Nat
          /\ \A j \in 1 .. Len(e) : e[j] \in 1 .. Len(u)
      <4>1. e \in Seq(Int) /\ Ends(u) = {e[k] : k \in 1 .. Len(e)}
        BY <2>4 DEF Rising
      <4>2. \A j \in 1 .. Len(e) : e[j] \in Ends(u)
        BY <4>1
      <4> QED BY <2>6, <4>1, <4>2 DEF Ends
    <3>4. w[Len(u) + 1] = b /\ \A k \in 1 .. Len(u) : w[k] = u[k]
      BY <2>5, <2>6, <2>8
    <3>5. CASE at = Size
      <4>1. g = Append(e, Len(u) + 1)
        BY <2>5, <2>8, <3>5
      <4>2. Len(g) = Len(e) + 1 /\ g[Len(e) + 1] = Len(u) + 1 /\ \A j \in 1 .. Len(e) : g[j] = e[j]
        BY <3>3, <4>1
      <4>3. Points(w, g) = Append(Points(u, e), packet)
        <5> DEFINE s == Points(w, g)
                   x == Points(u, e)
                   r == Len(e)
        <5>1. r \in Nat /\ s \in Seq(Nat) /\ x \in Seq(Nat) /\ Len(s) = r + 1 /\ Len(x) = r
          BY <3>1, <3>2, <3>3, <4>2
        <5>2. s[r + 1] = packet
          <6>1. r + 1 \in 1 .. Len(g)
            BY <3>3, <4>2
          <6> QED BY <2>5, <3>2, <3>4, <4>2, <6>1
        <5>3. \A j \in 1 .. r : s[j] = x[j]
          <6> TAKE j \in 1 .. r
          <6>1. j \in 1 .. Len(g) /\ g[j] = e[j] /\ e[j] \in 1 .. Len(u)
            BY <3>3, <4>2
          <6> QED BY <3>1, <3>2, <3>4, <6>1
        <5> HIDE DEF s, x, r
        <5>4. s = Append(x, packet)
          <6>1. Append(x, packet) \in Seq(Nat) /\ Len(Append(x, packet)) = r + 1
            BY <2>3, <5>1
          <6>2. \A j \in 1 .. r + 1 : s[j] = Append(x, packet)[j]
            BY <2>3, <5>1, <5>2, <5>3
          <6> QED BY <5>1, <6>1, <6>2, SeqEqual
        <5> QED BY <5>4 DEF s, x
      <4>4. plotted \o Append(Points(u, e), packet) = Append(plotted \o Points(u, e), packet)
        <5> DEFINE x == Points(u, e)
        <5>1. x \in Seq(Nat)
          BY <3>1
        <5> HIDE DEF x
        <5>2. plotted \o Append(x, packet) = Append(plotted \o x, packet)
          BY <2>3, <5>1
        <5> QED BY <5>2 DEF x
      <4> QED BY <2>2, <2>4, <3>5, <4>3, <4>4
    <3>6. CASE at # Size
      <4>1. g = e /\ sampled' = sampled
        BY <2>2, <2>5, <2>8, <3>6
      <4>2. \A j \in 1 .. Len(e) : w[e[j]].of = u[e[j]].of
        BY <3>3, <3>4
      <4>3. Points(w, g) = Points(u, e)
        BY <4>1, <4>2 DEF Points
      <4> QED BY <2>4, <4>1, <4>3
    <3> QED BY <3>5, <3>6
  <2>12. /\ at' \in 0 .. Size
         /\ at' > 1 => w # << >> /\ w[Len(w)] = [of |-> packet, pos |-> at' - 1]
    <3>1. Len(w) = Len(u) + 1 /\ w[Len(w)] = b /\ w # << >>
      BY <2>5, <2>6, <2>8
    <3>2. at' \in 0 .. Size /\ (at' > 1 => at' - 1 = at)
      BY <2>2, <2>5, LenIs
    <3> QED BY <2>1, <3>1, <3>2
  <2>13. channel1' \in Seq(Mark) /\ sampled' \in Seq(Nat)
    BY <2>2, <2>3, <2>5
  <2>14. stream!Underway' = w
    BY <2>6, <2>8
  <2> QED BY <1>1, <2>3, <2>9, <2>10, <2>11, <2>12, <2>13, <2>14 DEF PlotInv
<1> QED BY <1>2, <1>3

(* A byte CPU0 passes on stays where it was between log task and plot. *)
LEMMA PlotForward ==
  ASSUME PlotInv, stream!_log_stream_ch PROVE PlotInv'
<1>1. /\ channel1 # << >> /\ channel1' = Tail(channel1)
      /\ UNCHANGED <<packet, at, sampled, buffer, plotted>>
  BY DEF stream!_log_stream_ch
<1>2. CASE truncated' = TRUE
  BY <1>2 DEF PlotInv
<1>3. CASE tcp' = Append(tcp, Head(channel1)) /\ truncated' = truncated
  <2> SUFFICES ASSUME ~truncated PROVE PlotInv'
    BY <1>3 DEF PlotInv
  <2>1. channel1 \in Seq(Mark) /\ tcp \in Seq(Mark) /\ buffer \in Seq(Mark)
    BY DEF PlotInv
  <2>2. channel1' \in Seq(Mark) /\ tcp' \in Seq(Mark) /\ Head(channel1) \in Mark
    BY <1>1, <1>3, <2>1
  <2>3. stream!Underway' = stream!Underway
    <3>1. Append(tcp, Head(channel1)) \o Tail(channel1) = tcp \o channel1
      <4> DEFINE h == Head(channel1)
                 y == Tail(channel1)
      <4>1. channel1 = <<h>> \o y /\ y \in Seq(Mark) /\ h \in Mark
        BY <1>1, <2>1
      <4> HIDE DEF h, y
      <4>2. Append(tcp, h) \o y = (tcp \o <<h>>) \o y
        BY <2>1, <4>1
      <4>3. (tcp \o <<h>>) \o y = tcp \o (<<h>> \o y)
        <5>1. <<h>> \in Seq(Mark)
          BY <4>1
        <5> QED BY <2>1, <4>1, <5>1, MarksJoin
      <4> QED BY <4>1, <4>2, <4>3 DEF h, y
    <3>2. (buffer \o tcp') \o channel1' = buffer \o (tcp' \o channel1')
      BY <2>1, <2>2, MarksJoin
    <3>3. (buffer \o tcp) \o channel1 = buffer \o (tcp \o channel1)
      BY <2>1, MarksJoin
    <3> QED BY <1>1, <1>3, <3>1, <3>2, <3>3 DEF stream!Underway
  <2> QED BY <1>1, <1>3, <2>2, <2>3 DEF PlotInv
<1> QED BY <1>2, <1>3 DEF stream!_log_stream_ch, stream!log_socket_send

(* The parser stops short of the last window, so it never takes the byte   *)
(* the packet under way goes on from.                                      *)
LEMMA PlotConsume ==
  ASSUME PlotInv, stream!consume_bytes PROVE PlotInv'
<1>1. UNCHANGED <<packet, at, sampled, channel1, truncated>>
  BY DEF stream!consume_bytes
<1> SUFFICES ASSUME ~truncated PROVE PlotInv'
  BY <1>1 DEF PlotInv
<1>2. PICK u, e : u = stream!Underway /\ e = EndsInOrder(stream!Underway)
  OBVIOUS
<1>3. /\ packet \in Nat /\ at \in 0 .. Size /\ sampled \in Seq(Nat) /\ plotted \in Seq(Nat)
      /\ channel1 \in Seq(Mark) /\ tcp \in Seq(Mark) /\ buffer \in Seq(Mark)
  BY DEF PlotInv
<1>4. /\ Chain(u) /\ Rising(e, Ends(u)) /\ plotted \o Points(u, e) = sampled
      /\ at > 1 => u # << >> /\ u[Len(u)] = [of |-> packet, pos |-> at - 1]
  BY <1>2 DEF PlotInv
<1>5. PICK n, bytes, found, to :
        /\ n \in 1 .. Len(tcp)
        /\ bytes = buffer \o SubSeq(tcp, 1, n)
        /\ found = stream!Found(bytes)
        /\ to = IF found = << >> THEN 0 ELSE found[Len(found)] + Size
        /\ tcp' = SubSeq(tcp, n + 1, Len(tcp))
        /\ buffer' = SubSeq(bytes, to + 1, Len(bytes))
        /\ plotted' = plotted \o [j \in 1 .. Len(found) |-> bytes[found[j] + Header + 1].of]
  BY DEF stream!consume_bytes, Size
<1>50. n \in 1 .. Len(tcp)
  BY <1>5
<1>6. PICK h, s : h = Len(bytes) /\ s = Len(u)
  OBVIOUS
<1>7. /\ bytes \in Seq(Mark) /\ u \in Seq(Mark) /\ h \in Nat /\ s \in Nat /\ h >= 1 /\ h <= s
      /\ tcp' \in Seq(Mark)
      /\ \A k \in 1 .. h : bytes[k] = u[k]
      /\ u = bytes \o (tcp' \o channel1)
  <2> DEFINE x == SubSeq(tcp, 1, n)
             y == SubSeq(tcp, n + 1, Len(tcp))
  <2>1. x \in Seq(Mark) /\ Len(x) = n /\ y \in Seq(Mark) /\ x \o y = tcp
    <3>1. n \in Int /\ Len(tcp) \in Nat /\ n <= Len(tcp) /\ n >= 1
      BY <1>3, <1>50
    <3>2. x \in Seq(Mark) /\ Len(x) = n /\ \A i \in 1 .. n : x[i] = tcp[i]
      BY <1>3, <3>1
    <3>3. y \in Seq(Mark) /\ Len(y) = Len(tcp) - n /\ \A i \in 1 .. Len(tcp) - n : y[i] = tcp[n + i]
      BY <1>3, <3>1
    <3> DEFINE z == Len(tcp)
    <3>4. z \in Nat /\ Len(y) = z - n /\ n \in 1 .. z /\ \A i \in 1 .. z - n : y[i] = tcp[n + i]
      BY <3>1, <3>3
    <3> HIDE DEF x, y
    <3>5. x \o y \in Seq(Mark) /\ Len(x \o y) = Len(x) + Len(y)
      <4>1. x \in Seq(Mark) /\ y \in Seq(Mark)
        BY <3>2, <3>3
      <4> QED BY <4>1, ConcatProperties
    <3>6. \A i \in 1 .. z : (x \o y)[i] = tcp[i]
      <4> HIDE DEF z
      <4> TAKE i \in 1 .. z
      <4>1. CASE i <= n
        <5>1. (x \o y)[i] = x[i] /\ i \in 1 .. n
          BY <3>2, <3>3, <3>4, <4>1
        <5> QED BY <3>2, <5>1
      <4>2. CASE i > n
        <5>1. i - n \in 1 .. z - n /\ n + (i - n) = i
          BY <3>4, <4>2
        <5>2. (x \o y)[i] = y[i - n]
          BY <3>2, <3>3, <3>4, <4>2
        <5> QED BY <3>4, <5>1, <5>2
      <4>3. i <= n \/ i > n
        BY <3>4
      <4> QED BY <4>1, <4>2, <4>3
    <3>7. Len(x \o y) = Len(tcp)
      <4> HIDE DEF z
      <4>1. Len(x \o y) = z
        BY <3>2, <3>4, <3>5
      <4> QED BY <4>1 DEF z
    <3>8. x \o y = tcp
      BY <1>3, <3>5, <3>6, <3>7, SeqEqual
    <3> QED BY <3>2, <3>3, <3>8
  <2>2. bytes = buffer \o x /\ tcp' = y
    BY <1>5
  <2> HIDE DEF x, y
  <2>21. x \in Seq(Mark) /\ y \in Seq(Mark) /\ Len(x) = n
    BY <2>1
  <2>22. x \o y = tcp /\ bytes = buffer \o x
    BY <2>1, <2>2
  <2>23. buffer \o x \in Seq(Mark) /\ Len(buffer \o x) = Len(buffer) + Len(x)
    <3>1. buffer \in Seq(Mark) /\ x \in Seq(Mark)
      BY <1>3, <2>21
    <3> QED BY <3>1, ConcatProperties
  <2>24. buffer \in Seq(Mark) /\ channel1 \in Seq(Mark)
    BY <1>3
  <2>25. x \in Seq(Mark) /\ y \in Seq(Mark)
    BY <2>21
  <2>3. bytes \in Seq(Mark) /\ Len(bytes) = Len(buffer) + n
    BY <2>21, <2>22, <2>23
  <2>4. u = bytes \o (y \o channel1)
    <3>1. u = (buffer \o (x \o y)) \o channel1
      BY <1>2, <2>1 DEF stream!Underway
    <3>2. (buffer \o x) \o y = buffer \o (x \o y)
      BY <2>24, <2>25, MarksJoin
    <3>3. bytes \in Seq(Mark)
      BY <2>3
    <3>4. (bytes \o y) \o channel1 = bytes \o (y \o channel1)
      BY <2>24, <2>25, <3>3, MarksJoin
    <3> QED BY <2>22, <3>1, <3>2, <3>4
  <2>5. PICK z \in Seq(Mark) : z = y \o channel1
    <3>1. y \o channel1 \in Seq(Mark)
      BY <2>24, <2>25, ConcatProperties
    <3> QED BY <3>1
  <2>6. u \in Seq(Mark) /\ Len(u) = Len(bytes) + Len(z) /\ \A k \in 1 .. Len(bytes) : bytes[k] = u[k]
    <3>1. u = bytes \o z
      BY <2>4, <2>5
    <3>2. bytes \in Seq(Mark)
      BY <2>3
    <3>3. /\ bytes \o z \in Seq(Mark) /\ Len(bytes \o z) = Len(bytes) + Len(z)
          /\ \A i \in 1 .. Len(bytes) + Len(z) : (bytes \o z)[i] = IF i <= Len(bytes) THEN bytes[i] ELSE z[i - Len(bytes)]
      BY <3>2, ConcatProperties
    <3>4. Len(bytes) \in Nat /\ Len(z) \in Nat
      BY <3>2
    <3>5. \A k \in 1 .. Len(bytes) : k \in 1 .. Len(bytes) + Len(z) /\ k <= Len(bytes)
      BY <3>4
    <3> QED BY <3>1, <3>3, <3>5
  <2>7. Len(buffer) \in Nat /\ n >= 1 /\ n \in Int /\ Len(z) \in Nat /\ Len(bytes) \in Nat
    BY <1>3, <1>50, <2>3, <2>5
  <2>8. h >= 1 /\ h <= s /\ h \in Nat /\ s \in Nat
    <3>1. h = Len(buffer) + n /\ s = h + Len(z)
      BY <1>6, <2>3, <2>6
    <3> QED BY <2>7, <3>1
  <2> QED BY <1>6, <2>1, <2>2, <2>3, <2>4, <2>6, <2>8
<1>70. u = bytes \o (tcp' \o channel1)
  BY <1>7
<1>71. /\ bytes \in Seq(Mark) /\ u \in Seq(Mark) /\ h \in Nat /\ s \in Nat /\ h >= 1 /\ h <= s
       /\ tcp' \in Seq(Mark)
  BY <1>7
<1>72. \A k \in 1 .. h : bytes[k] = u[k]
  BY <1>7
<1>8. PICK m \in 0 .. Len(e) : \A j \in 1 .. Len(e) : j <= m <=> e[j] <= h - 1
  <2>1. e \in Seq(Int) /\ \A j, k \in 1 .. Len(e) : j < k => e[j] < e[k]
    BY <1>4 DEF Rising
  <2>2. h - 1 \in Int
    BY <1>71
  <2> QED BY <2>1, <2>2, SplitIs
<1>9. PICK r : r = Len(e)
  OBVIOUS
<1>10. /\ e \in Seq(Int) /\ r \in Nat /\ m \in 0 .. r
       /\ \A j \in 1 .. r : /\ e[j] \in Int /\ e[j] >= Size /\ e[j] <= s /\ u[e[j]].pos = Size
                            /\ e[j] \in 1 .. s
       /\ \A j \in 1 .. r : j <= m <=> e[j] <= h - 1
  <2>1. e \in Seq(Int) /\ Ends(u) = {e[k] : k \in 1 .. r}
    BY <1>4, <1>9 DEF Rising
  <2>2. \A j \in 1 .. r : e[j] \in Ends(u)
    BY <2>1
  <2>3. \A j \in 1 .. r : e[j] \in 1 .. s /\ u[e[j]].pos = Size
    BY <1>6, <2>2 DEF Ends
  <2> QED BY <1>4, <1>6, <1>8, <1>9, <2>1, <2>2, <2>3, EndsAre
<1>11. found = [j \in 1 .. m |-> e[j] - Size]
  <2>1. ASSUME NEW i \in 0 .. h - 1 - Size PROVE stream!Looks(bytes, i) <=> stream!Looks(u, i)
    <3>1. /\ \A k \in 1 .. Header : i + k \in 1 .. h
          /\ \A k \in Size - Footer + 1 .. Size : i + k \in 1 .. h
      BY <1>71, LenIs
    <3>2. /\ \A k \in 1 .. Header : bytes[i + k] = u[i + k]
          /\ \A k \in Size - Footer + 1 .. Size : bytes[i + k] = u[i + k]
      BY <1>72, <3>1
    <3> QED BY <3>2 DEF stream!Looks, Size
  <2>2. stream!Offsets(bytes) = {i \in 0 .. h - 1 - Size : stream!Looks(u, i)}
    <3>1. stream!Offsets(bytes) = {i \in 0 .. h - Size - 1 : stream!Looks(bytes, i)}
      BY <1>6 DEF stream!Offsets, Size
    <3>2. 0 .. h - Size - 1 = 0 .. h - 1 - Size
      BY <1>71, LenIs
    <3> QED BY <2>1, <3>1, <3>2
  <2>3. h - 1 \in Int /\ h - 1 <= Len(u)
    BY <1>6, <1>71
  <2>4. stream!InOrder({i \in 0 .. h - 1 - Size : stream!Looks(u, i)}) = [j \in 1 .. m |-> e[j] - Size]
    <3>1. Chain(u) /\ Rising(e, Ends(u))
      BY <1>4
    <3> DEFINE b == h - 1
    <3>2. b \in Int /\ b <= Len(u) /\ m \in 0 .. Len(e) /\ \A j \in 1 .. Len(e) : j <= m <=> e[j] <= b
      BY <1>8, <2>3
    <3> HIDE DEF b
    <3>3. stream!InOrder({i \in 0 .. b - Size : stream!Looks(u, i)}) = [j \in 1 .. m |-> e[j] - Size]
      BY <3>1, <3>2, FoundIs
    <3> QED BY <3>3 DEF b
  <2> QED BY <1>5, <2>2, <2>4 DEF stream!Found
<1>12. PICK c : c = LastOf(e, m)
  OBVIOUS
<1>120. c = IF m = 0 THEN 0 ELSE e[m]
  BY <1>12 DEF LastOf
<1>13. c \in 0 .. h - 1
  <2>1. CASE m = 0
    BY <1>71, <1>120, <2>1
  <2>2. CASE m # 0
    <3>1. m \in 1 .. r
      BY <1>10, <2>2
    <3> QED BY <1>71, <1>10, <1>120, <2>2, <3>1, LenIs
  <2> QED BY <2>1, <2>2
<1>14. \A j \in 1 .. m : j \in 1 .. r /\ found[j] = e[j] - Size
  BY <1>10, <1>11
<1>15. found \in Seq(Int) /\ Len(found) = m
  <2>1. \A j \in 1 .. m : e[j] - Size \in Int
    BY <1>10, <1>14, LenIs
  <2> QED BY <1>10, <1>11, <2>1
<1>16. to = c
  <2>1. CASE m = 0
    <3>1. found = << >>
      BY <1>15, <2>1
    <3> QED BY <1>5, <1>120, <2>1, <3>1
  <2>2. CASE m # 0
    <3>1. m \in 1 .. m /\ m \in 1 .. r
      BY <1>10, <2>2
    <3>2. found[m] = e[m] - Size /\ e[m] \in Int /\ found # << >>
      BY <1>10, <1>14, <1>15, <2>2, <3>1
    <3>3. found[m] + Size = e[m]
      BY <3>2, LenIs
    <3> QED BY <1>5, <1>120, <1>15, <2>2, <3>2, <3>3
  <2> QED BY <2>1, <2>2
<1>17. PICK w : w = stream!Underway'
  OBVIOUS
<1>18. /\ buffer' \in Seq(Mark) /\ w \in Seq(Mark) /\ Len(w) = Len(u) - c
       /\ \A k \in 1 .. Len(w) : w[k] = u[k + c]
  <2> DEFINE x == SubSeq(bytes, c + 1, h)
             z == tcp' \o channel1
  <2>1. x \in Seq(Mark) /\ Len(x) = h - c /\ \A k \in 1 .. h - c : x[k] = bytes[k + c]
    <3>1. c + 1 \in Int /\ h \in Int /\ c + 1 <= h /\ h - (c + 1) + 1 = h - c
      BY <1>71, <1>13
    <3>2. \A i \in c + 1 .. h : bytes[i] \in Mark
      BY <1>6, <1>71, <1>13
    <3>3. /\ x \in Seq(Mark) /\ Len(x) = h - c
          /\ \A k \in 1 .. h - c : x[k] = bytes[c + 1 + k - 1]
      <4>1. /\ x \in Seq(Mark) /\ Len(x) = (IF c + 1 <= h THEN h - (c + 1) + 1 ELSE 0)
            /\ \A k \in 1 .. h - (c + 1) + 1 : x[k] = bytes[c + 1 + k - 1]
        BY <3>1, <3>2, SubSeqProperties
      <4> QED BY <3>1, <4>1
    <3>4. \A k \in 1 .. h - c : c + 1 + k - 1 = k + c
      BY <1>71, <1>13
    <3> QED BY <3>3, <3>4
  <2>2. z \in Seq(Mark)
    BY <1>3, <1>71
  <2>3. buffer' = x
    BY <1>5, <1>6, <1>16
  <2>4. w = x \o z
    <3>1. w = (x \o tcp') \o channel1
      BY <1>1, <1>17, <2>3 DEF stream!Underway
    <3> HIDE DEF x
    <3>2. x \in Seq(Mark) /\ tcp' \in Seq(Mark) /\ channel1 \in Seq(Mark)
      BY <1>3, <1>71, <2>1
    <3>3. (x \o tcp') \o channel1 = x \o (tcp' \o channel1)
      BY <3>2, MarksJoin
    <3> QED BY <3>1, <3>3
  <2>5. u = bytes \o z
    BY <1>70
  <2> HIDE DEF x, z
  <2>6. PICK l : l = Len(z)
    OBVIOUS
  <2>7. /\ l \in Nat /\ s = h + l
        /\ \A i \in 1 .. h + l : u[i] = IF i <= h THEN bytes[i] ELSE z[i - h]
    <3>1. /\ Len(u) = Len(bytes) + Len(z)
          /\ \A i \in 1 .. Len(bytes) + Len(z) : u[i] = IF i <= Len(bytes) THEN bytes[i] ELSE z[i - Len(bytes)]
      BY <1>71, <2>2, <2>5, ConcatProperties
    <3>2. Len(z) \in Nat
      BY <2>2
    <3> QED BY <1>6, <2>6, <3>1, <3>2
  <2>8. /\ w \in Seq(Mark) /\ Len(w) = (h - c) + l
        /\ \A i \in 1 .. (h - c) + l : w[i] = IF i <= h - c THEN x[i] ELSE z[i - (h - c)]
    <3>1. /\ w \in Seq(Mark) /\ Len(w) = Len(x) + Len(z)
          /\ \A i \in 1 .. Len(x) + Len(z) : w[i] = IF i <= Len(x) THEN x[i] ELSE z[i - Len(x)]
      BY <2>1, <2>2, <2>4, ConcatProperties
    <3> QED BY <2>1, <2>6, <3>1
  <2>9. (h - c) + l = s - c
    BY <1>71, <1>13, <2>7
  <2>10. ASSUME NEW k \in 1 .. s - c PROVE w[k] = u[k + c]
    <3>1. CASE k <= h - c
      <4>1. w[k] = x[k] /\ k \in 1 .. h - c
        BY <1>71, <1>13, <2>7, <2>8, <2>9, <3>1
      <4>2. x[k] = bytes[k + c] /\ k + c \in 1 .. h
        BY <1>71, <1>13, <2>1, <4>1
      <4> QED BY <1>72, <4>1, <4>2
    <3>2. CASE ~(k <= h - c)
      <4>1. /\ k \in 1 .. (h - c) + l /\ k + c \in 1 .. h + l /\ ~(k + c <= h)
            /\ k - (h - c) = (k + c) - h
        BY <1>71, <1>13, <2>7, <3>2
      <4>2. w[k] = z[k - (h - c)]
        BY <2>8, <3>2, <4>1
      <4>3. u[k + c] = z[(k + c) - h]
        BY <2>7, <4>1
      <4> QED BY <4>1, <4>2, <4>3
    <3> QED BY <3>1, <3>2
  <2> QED BY <1>6, <2>1, <2>3, <2>8, <2>9, <2>10
<1>19. PICK g : g = Rest(e, m)
  OBVIOUS
<1>20. Chain(w) /\ Rising(g, Ends(w))
  <2>1. Chain(u) /\ Rising(e, Ends(u)) /\ m \in 0 .. Len(e)
    BY <1>4, <1>8
  <2>2. Behind(w, u, LastOf(e, m))
    BY <1>12, <1>18 DEF Behind
  <2> QED BY <1>19, <2>1, <2>2, CutIs
<1>21. EndsInOrder(w) = g
  BY <1>20, EndsInOrderIs
<1>22. PICK q : q = [j \in 1 .. m |-> u[e[j]].of]
  OBVIOUS
<1>23. plotted' = plotted \o q
  <2>1. ASSUME NEW j \in 1 .. m PROVE bytes[found[j] + Header + 1].of = u[e[j]].of
    <3>1. /\ j \in 1 .. r /\ found[j] = e[j] - Size /\ e[j] \in Int /\ e[j] >= Size /\ e[j] <= h - 1
          /\ e[j] <= s /\ u[e[j]].pos = Size
      BY <1>10, <1>14
    <3>2. PICK i : i = e[j] - Size
      OBVIOUS
    <3> DEFINE k == e[j]
    <3>20. /\ k \in Int /\ k >= Size /\ k <= h - 1 /\ k <= s /\ i = k - Size
           /\ h \in Nat /\ s \in Nat /\ s = Len(u)
      BY <1>6, <1>71, <3>1, <3>2
    <3> HIDE DEF k
    <3>3. i \in 0 .. Len(u) - Size /\ i + Size = e[j]
      <4>1. i \in 0 .. s - Size /\ i + Size = k
        BY <3>20, LenIs
      <4> QED BY <3>20, <4>1 DEF k
    <3>4. Header + 1 \in 1 .. Size /\ i + (Header + 1) \in 1 .. h /\ i + Header + 1 = i + (Header + 1)
      BY <3>20, LenIs
    <3>5. u[i + (Header + 1)] = [of |-> u[i + Size].of, pos |-> Header + 1]
      BY <1>4, <3>1, <3>3, <3>4, LooksIs
    <3>6. bytes[i + (Header + 1)] = u[i + (Header + 1)]
      BY <1>72, <3>4
    <3> QED BY <3>1, <3>2, <3>3, <3>4, <3>5, <3>6
  <2>2. [j \in 1 .. Len(found) |-> bytes[found[j] + Header + 1].of] = q
    BY <1>15, <1>22, <2>1
  <2> QED BY <1>5, <2>2
<1>24. q \in Seq(Nat) /\ Len(q) = m /\ \A j \in 1 .. m : q[j] = u[e[j]].of
  <2>1. \A j \in 1 .. m : u[e[j]].of \in Nat
    <3> TAKE j \in 1 .. m
    <3>1. e[j] \in 1 .. Len(u)
      BY <1>6, <1>10, <1>14
    <3>2. u[e[j]] \in Mark
      BY <1>71, <3>1
    <3> QED BY <3>2 DEF Mark
  <2>2. q \in [1 .. m -> Nat]
    BY <1>22, <2>1
  <2> QED BY <1>10, <1>22, <2>2
<1>25. plotted' \o Points(w, g) = sampled'
  <2>1. /\ Points(u, e) \in Seq(Nat) /\ Len(Points(u, e)) = r
        /\ \A j \in 1 .. r : Points(u, e)[j] = u[e[j]].of
    BY <1>4, <1>9, PointsAre
  <2>2. /\ Points(w, g) \in Seq(Nat) /\ Len(Points(w, g)) = Len(g)
        /\ \A j \in 1 .. Len(g) : Points(w, g)[j] = w[g[j]].of
    BY <1>20, PointsAre
  <2>3. Len(g) = r - m /\ \A j \in 1 .. r - m : g[j] = e[m + j] - c
    <3>1. g \in Seq(Int)
      BY <1>20 DEF Rising
    <3>2. g = [j \in 1 .. r - m |-> e[m + j] - c] /\ r - m \in Nat
      BY <1>9, <1>10, <1>12, <1>19 DEF Rest
    <3>3. DOMAIN g = 1 .. r - m
      BY <3>2
    <3>4. Len(g) = r - m
      BY <3>1, <3>2, <3>3
    <3> QED BY <3>2, <3>4
  <2>4. \A j \in 1 .. r - m : w[g[j]].of = u[e[m + j]].of
    <3> TAKE j \in 1 .. r - m
    <3>1. g[j] \in 1 .. Len(w)
      <4>1. Ends(w) = {g[k] : k \in 1 .. Len(g)}
        BY <1>20 DEF Rising
      <4>2. g[j] \in Ends(w)
        BY <2>3, <4>1
      <4> QED BY <4>2 DEF Ends
    <3>2. m + j \in 1 .. r
      BY <1>10
    <3>3. g[j] + c = e[m + j]
      BY <1>10, <1>13, <2>3, <3>2
    <3> QED BY <1>18, <3>1, <3>3
  <2> DEFINE a == Points(u, e)
             b == Points(w, g)
  <2>5. /\ a \in Seq(Nat) /\ Len(a) = r /\ \A j \in 1 .. r : a[j] = u[e[j]].of
        /\ b \in Seq(Nat) /\ Len(b) = r - m /\ \A j \in 1 .. r - m : b[j] = u[e[m + j]].of
    BY <2>1, <2>2, <2>3, <2>4
  <2>6. plotted \o a = sampled
    BY <1>4
  <2> HIDE DEF a, b
  <2>7. q \o b = a
    <3>1. /\ q \o b \in Seq(Nat) /\ Len(q \o b) = Len(q) + Len(b)
          /\ \A i \in 1 .. Len(q) + Len(b) : (q \o b)[i] = IF i <= Len(q) THEN q[i] ELSE b[i - Len(q)]
      <4>1. q \in Seq(Nat) /\ b \in Seq(Nat)
        BY <1>24, <2>5
      <4> QED BY <4>1, ConcatProperties
    <3>4. m \in Nat /\ r \in Nat /\ m <= r /\ Len(q) = m /\ Len(b) = r - m /\ m + (r - m) = r
      BY <1>10, <1>24, <2>5
    <3>5. \A i \in 1 .. r : (q \o b)[i] = IF i <= m THEN q[i] ELSE b[i - m]
      BY <3>1, <3>4
    <3>2. Len(q \o b) = r
      BY <3>1, <3>4
    <3>3. \A j \in 1 .. r : (q \o b)[j] = a[j]
      <4> TAKE j \in 1 .. r
      <4>1. CASE j <= m
        <5>1. (q \o b)[j] = q[j] /\ j \in 1 .. m
          BY <3>4, <3>5, <4>1
        <5> QED BY <1>24, <2>5, <5>1
      <4>2. CASE j > m
        <5>1. j - m \in 1 .. r - m /\ m + (j - m) = j
          BY <3>4, <4>2
        <5>2. (q \o b)[j] = b[j - m]
          BY <3>4, <3>5, <4>2
        <5> QED BY <2>5, <5>1, <5>2
      <4> QED BY <3>4, <4>1, <4>2
    <3> QED BY <2>5, <3>1, <3>2, <3>3, SeqEqual
  <2>8. (plotted \o q) \o b = plotted \o (q \o b)
    <3>1. q \in Seq(Nat) /\ b \in Seq(Nat) /\ plotted \in Seq(Nat)
      BY <1>3, <1>24, <2>5
    <3> QED BY <3>1, SamplesJoin
  <2> QED BY <1>1, <1>23, <2>6, <2>7, <2>8 DEF b
<1>26. plotted' \in Seq(Nat)
  BY <1>3, <1>23, <1>24
<1>27. at > 1 => w # << >> /\ w[Len(w)] = [of |-> packet, pos |-> at - 1]
  <2> SUFFICES ASSUME at > 1 PROVE w # << >> /\ w[Len(w)] = [of |-> packet, pos |-> at - 1]
    OBVIOUS
  <2>1. PICK v : v = Len(w)
    OBVIOUS
  <2>2. v = s - c /\ v \in 1 .. v /\ v + c = s /\ v >= 1
    BY <1>6, <1>71, <1>13, <1>18, <2>1
  <2>3. w[v] = u[s]
    BY <1>18, <2>1, <2>2
  <2>4. w # << >>
    <3>1. Len(w) # Len(<< >>)
      BY <2>1, <2>2
    <3> QED BY <3>1
  <2> QED BY <1>4, <1>6, <2>1, <2>3, <2>4
<1> QED BY <1>1, <1>3, <1>71, <1>17, <1>18, <1>20, <1>21, <1>25, <1>26, <1>27 DEF PlotInv

LEMMA PlotInvImplies ==
  ASSUME PlotInv PROVE PlotsWhatWasSampled
<1> SUFFICES ASSUME ~truncated PROVE PlotsWhatWasSampled
  BY DEF PlotsWhatWasSampled, stream!PlotsWhatWasSampled
<1>1. PICK u, e : u = stream!Underway /\ e = EndsInOrder(stream!Underway)
  OBVIOUS
<1>2. Chain(u) /\ Rising(e, Ends(u)) /\ plotted \o Points(u, e) = sampled
  BY <1>1 DEF PlotInv
<1>3. PICK s, r : s = Len(u) /\ r = Len(e)
  OBVIOUS
<1>4. /\ u \in Seq(Mark) /\ s \in Nat /\ e \in Seq(Int) /\ r \in Nat
      /\ \A j \in 1 .. r : e[j] \in Int /\ e[j] \in 1 .. s /\ e[j] >= Size /\ u[e[j]].pos = Size
  <2>1. u \in Seq(Mark) /\ e \in Seq(Int) /\ Ends(u) = {e[k] : k \in 1 .. r}
    BY <1>2, <1>3 DEF Rising, Chain
  <2>2. \A j \in 1 .. r : e[j] \in Ends(u)
    BY <2>1
  <2>3. \A j \in 1 .. r : e[j] \in 1 .. s /\ u[e[j]].pos = Size
    BY <1>3, <2>2 DEF Ends
  <2> QED BY <1>2, <1>3, <2>1, <2>2, <2>3, EndsAre
<1>5. PICK S : S = {i \in 0 .. s - Size : stream!Looks(u, i)}
  OBVIOUS
<1>6. stream!InOrder(S) = [j \in 1 .. r |-> e[j] - Size]
  <2>1. \A j \in 1 .. Len(e) : j <= r <=> e[j] <= s
    BY <1>3, <1>4
  <2>2. r \in 0 .. Len(e) /\ s \in Int /\ s <= Len(u)
    BY <1>3, <1>4
  <2> QED BY <1>2, <1>5, <2>1, <2>2, FoundIs
<1>7. PICK f : f = stream!InOrder(S)
  OBVIOUS
<1>8. Len(f) = r /\ \A j \in 1 .. r : f[j] = e[j] - Size
  <2>1. \A j \in 1 .. r : e[j] - Size \in Int
    BY <1>4, LenIs
  <2>2. f \in [1 .. r -> Int]
    BY <1>6, <1>7, <2>1
  <2> QED BY <1>4, <1>6, <1>7, <2>2
<1>9. ASSUME NEW i \in S PROVE stream!IsWhole(stream!WindowAt(i))
  <2>1. i \in 0 .. s - Size /\ stream!Looks(u, i)
    BY <1>5
  <2>2. \A k \in 1 .. Size : u[i + k] = [of |-> u[i + Size].of, pos |-> k]
    BY <1>2, <1>3, <2>1, LooksIs
  <2>3. PICK w : w = stream!WindowAt(i)
    OBVIOUS
  <2>4. \A k \in 1 .. Size : w[k] = u[i + k]
    <3>1. w = SubSeq(u, i + 1, i + Size)
      BY <1>1, <2>3 DEF stream!WindowAt, Size
    <3>2. i \in Int /\ i + 1 \in Int /\ i + Size \in Int /\ i + Size - (i + 1) + 1 = Size
      <4>1. i \in Int /\ Size \in Int
        BY <2>1, LenIs
      <4> QED BY <4>1
    <3>3. \A j \in i + 1 .. i + Size : u[j] \in Mark
      <4>1. \A j \in i + 1 .. i + Size : j \in 1 .. s
        BY <1>4, <2>1, LenIs
      <4> QED BY <1>3, <1>4, <4>1
    <3> DEFINE a == i + 1
               b == i + Size
    <3>4. a \in Int /\ b \in Int /\ w = SubSeq(u, a, b) /\ \A j \in a .. b : u[j] \in Mark
      BY <3>1, <3>2, <3>3
    <3>5. (b - a) + 1 = Size /\ \A k \in 1 .. Size : a + k - 1 = i + k
      BY <3>2, LenIs
    <3> HIDE DEF a, b
    <3>6. \A k \in 1 .. (b - a) + 1 : w[k] = u[a + k - 1]
      BY <3>4, SubSeqProperties
    <3> QED BY <3>5, <3>6
  <2>5. 1 \in 1 .. Size
    BY LenIs
  <2>6. w[1].of = u[i + Size].of
    <3>1. w[1] = u[i + 1] /\ u[i + 1] = [of |-> u[i + Size].of, pos |-> 1]
      BY <2>2, <2>4, <2>5
    <3>2. w[1] = [of |-> u[i + Size].of, pos |-> 1]
      BY <3>1
    <3> QED BY <3>2
  <2>7. \A k \in 1 .. Size : w[k] = [of |-> w[1].of, pos |-> k]
    BY <2>2, <2>4, <2>6
  <2> QED BY <2>3, <2>7 DEF stream!IsWhole, Size
<1>10. [j \in 1 .. Len(f) |-> u[f[j] + 1].of] = Points(u, e)
  <2>1. ASSUME NEW j \in 1 .. r PROVE u[f[j] + 1].of = u[e[j]].of
    <3>1. PICK i : i = e[j] - Size
      OBVIOUS
    <3> DEFINE k == e[j]
    <3>20. k \in Int /\ k >= Size /\ k <= s /\ i = k - Size /\ s \in Nat /\ s = Len(u)
      BY <1>3, <1>4, <3>1
    <3> HIDE DEF k
    <3>2. i \in 0 .. Len(u) - Size /\ i + Size = e[j] /\ 1 \in 1 .. Size
      <4>1. i \in 0 .. s - Size /\ i + Size = k /\ 1 \in 1 .. Size
        BY <3>20, LenIs
      <4> QED BY <3>20, <4>1 DEF k
    <3>3. u[i + 1] = [of |-> u[i + Size].of, pos |-> 1]
      <4>1. u[i + Size].pos = Size
        BY <1>4, <3>2
      <4>2. Chain(u)
        BY <1>2
      <4>3. \A a \in 1 .. Size : u[i + a] = [of |-> u[i + Size].of, pos |-> a]
        BY <3>2, <4>1, <4>2, LooksIs
      <4> QED BY <3>2, <4>3
    <3> QED BY <1>8, <3>1, <3>2, <3>3
  <2> QED BY <1>3, <1>8, <2>1 DEF Points
<1>11. S = {i \in 0 .. Len(stream!Underway) - stream!PacketLen : stream!Looks(stream!Underway, i)}
  BY <1>1, <1>3, <1>5 DEF Size
<1>12. plotted \o [j \in 1 .. Len(f) |-> stream!Underway[f[j] + 1].of] = sampled
  BY <1>1, <1>2, <1>10
<1> QED BY <1>7, <1>9, <1>11, <1>12 DEF PlotsWhatWasSampled, stream!PlotsWhatWasSampled

(***************************************************************************)
(* icc_tx_log_stream gives up a packet where it meets a full channel, TCP  *)
(* hands the bytes to AMDC_LivePlot.py in segments cut anywhere: for every *)
(* layout of a packet, every channel and every order of the steps, the     *)
(* plot's points are the packets that were written whole, each of one      *)
(* sample, in order, as long as CPU0 found room in TCP for every byte.     *)
(***************************************************************************)
THEOREM PlotsWhatWasSampledAlways == EitherSpec => []PlotsWhatWasSampled
<1>1. Either => PlotInv
  BY PlotInit DEF Either
<1>2. PlotInv /\ [EitherNext]_<<session, vars, serialAll, icctxAll, streamAll>> => PlotInv'
  <2> SUFFICES ASSUME PlotInv, [EitherNext]_<<session, vars, serialAll, icctxAll, streamAll>>
               PROVE  PlotInv'
    OBVIOUS
  <2>1. CASE UNCHANGED streamAll
    BY <2>1, PlotUnchanged
  <2>2. CASE stream!icc_tx_log_stream
    BY <2>2, PlotStart
  <2>3. CASE stream!WriteByte
    BY <2>3, PlotWrite
  <2>4. CASE stream!_log_stream_ch
    BY <2>4, PlotForward
  <2>5. CASE stream!consume_bytes
    BY <2>5, PlotConsume
  <2> QED BY <2>1, <2>2, <2>3, <2>4, <2>5 DEF EitherNext, stream!StreamNext
<1>3. PlotInv => PlotsWhatWasSampled
  BY PlotInvImplies
<1> QED BY <1>1, <1>2, <1>3, PTL DEF EitherSpec
=============================================================================
