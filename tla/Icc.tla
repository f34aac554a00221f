-------------------------------- MODULE Icc --------------------------------
(***************************************************************************)
(* One inter-core channel of the on-chip memory (icc.h): a ring of         *)
(* BufferSize bytes, a produce count only the producing core stores and a  *)
(* consume count only the consuming core stores.  All six channels (CH0 in *)
(* both directions, CH1..CH4 for the log streams) have this protocol.      *)
(*                                                                         *)
(* A step of this module is one access of a core to the shared memory, so  *)
(* the two cores interleave between the full/empty test, the access to the *)
(* ring and the update of the count.  Memory is sequentially consistent    *)
(* here: the producer's dmb() orders its two stores.                       *)
(*                                                                         *)
(* The counts are uint32_t and wrap: CountWrap stands for 2^32.            *)
(*                                                                         *)
(* On CPU0 the consumer of channel 0 takes nothing while TCP has no room   *)
(* for it on socket 0.  The other consumers have no such test: for them    *)
(* hasRoom stays TRUE.                                                     *)
(***************************************************************************)
EXTENDS Integers, Sequences

CONSTANTS Byte,         \* the values of a byte
          Zero,         \* what icc_init stores in every cell
          BufferSize,   \* ICC_BUFFER_SIZE
          CountWrap     \* number of values of a count (2^32 in the code)

(***************************************************************************)
(* icc.h asks that the size divide 2^32.  It must also be smaller: with    *)
(* BufferSize = CountWrap a full ring could not be told from an empty one. *)
(***************************************************************************)
ASSUME SizeAssumption == /\ BufferSize \in Nat \ {0}
                         /\ CountWrap \in Nat
                         /\ CountWrap > BufferSize
                         /\ CountWrap % BufferSize = 0
ASSUME ByteAssumption == Zero \in Byte

VARIABLES
  produceCount, consumeCount, sharedBuffer,   \* the on-chip memory
  producer,      \* where the producing core is in its loop
  pendingByte,   \* the byte it is sending
  consumer,      \* where the consuming core is in its loop
  readByte,      \* the local c of the consuming core
  hasRoom,       \* tcp_sndbuf of socket 0 is not 0
  accepted,      \* last byte published by the producing core
  delivered      \* last byte the consuming core handed on

prodVars == <<produceCount, producer, pendingByte, accepted>>
consVars == <<consumeCount, consumer, readByte, hasRoom, delivered>>
vars == <<prodVars, consVars, sharedBuffer>>

Slots == 0 .. BufferSize - 1
Counts == 0 .. CountWrap - 1

(* Unsigned 32-bit arithmetic on the counts. *)
Inc(count) == (count + 1) % CountWrap
Used == (produceCount - consumeCount) % CountWrap

(* The tests of icc.h, and the cells the two cores access. *)
FullOffByOne == Used > BufferSize   \* mutant: one byte too many is accepted
IsBufferFull == Used = BufferSize
EmptyOffByOne == Used < 2           \* mutant: the last byte is never read
IsBufferEmpty == Used = 0
WriteSlot == produceCount % BufferSize
ReadAhead == (consumeCount + 1) % BufferSize   \* mutant: count increased before the read
ReadSlot == consumeCount % BufferSize

Init == /\ produceCount = 0 /\ consumeCount = 0
        /\ sharedBuffer = [i \in Slots |-> Zero]
        /\ producer = "check" /\ pendingByte = Zero /\ accepted = Zero
        /\ consumer = "check" /\ readByte = Zero /\ delivered = Zero
        /\ hasRoom = TRUE

(***************************************************************************)
(* The producing core.  When the ring is full the code returns and tries   *)
(* again in a later time slice: it stays at "check".                       *)
(***************************************************************************)
ProducerCheck(c) == /\ producer = "check"
                    /\ ~IsBufferFull
                    /\ producer' = "write"
                    /\ pendingByte' = c
                    /\ UNCHANGED <<produceCount, accepted, consVars, sharedBuffer>>

WriteByte == /\ producer = "write"
             /\ sharedBuffer' = [sharedBuffer EXCEPT ![WriteSlot] = pendingByte]
             /\ producer' = "publish"
             /\ UNCHANGED <<produceCount, pendingByte, accepted, consVars>>

IncProduceCount == /\ producer = "publish"
                   /\ produceCount' = Inc(produceCount)
                   /\ producer' = "check"
                   /\ accepted' = pendingByte
                   /\ UNCHANGED <<pendingByte, consVars, sharedBuffer>>

(***************************************************************************)
(* The consuming core.  When the ring is empty, or there is no room for    *)
(* what it takes, the code returns.  The byte it hands on may be the last  *)
(* there is room for.                                                      *)
(***************************************************************************)
ConsumerCheck == /\ consumer = "check"
                 /\ ~IsBufferEmpty
                 /\ hasRoom
                 /\ consumer' = "read"
                 /\ UNCHANGED <<consumeCount, readByte, hasRoom, delivered, prodVars, sharedBuffer>>

ReadByte == /\ consumer = "read"
            /\ readByte' = sharedBuffer[ReadSlot]
            /\ consumer' = "release"
            /\ UNCHANGED <<consumeCount, hasRoom, delivered, prodVars, sharedBuffer>>

IncConsumeCount == /\ consumer = "release"
                   /\ consumeCount' = Inc(consumeCount)
                   /\ consumer' = "check"
                   /\ delivered' = readByte
                   /\ hasRoom' \in BOOLEAN
                   /\ UNCHANGED <<readByte, prodVars, sharedBuffer>>

(***************************************************************************)
(* The network, which the same thread handles between two rounds: the host *)
(* on socket 0 acknowledges what it has read, leaves, or another one comes *)
(* (with none there, the code reads through a null pointer).               *)
(***************************************************************************)
SocketZero == /\ consumer = "check"
              /\ hasRoom' = ~hasRoom
              /\ UNCHANGED <<consumeCount, consumer, readByte, delivered, prodVars, sharedBuffer>>

Consume == ConsumerCheck \/ ReadByte \/ IncConsumeCount
Produce == (\E c \in Byte : ProducerCheck(c)) \/ WriteByte \/ IncProduceCount

Next == Produce \/ Consume \/ SocketZero

Spec == Init /\ [][Next]_vars

(***************************************************************************)
(* The consuming core polls the channel for ever: the main loop of CPU0    *)
(* calls icc_rx_process in every turn, CPU1 runs its parse task in every   *)
(* 100 us slice.  Hosts owe nothing: room need not come back.              *)
(***************************************************************************)
FairSpec == Spec /\ WF_vars(Consume)

-----------------------------------------------------------------------------
(* Every variable keeps the range its C type or its use gives it. *)
TypeOK == /\ produceCount \in Counts
          /\ consumeCount \in Counts
          /\ sharedBuffer \in [Slots -> Byte]
          /\ producer \in {"check", "write", "publish"}
          /\ consumer \in {"check", "read", "release"}
          /\ pendingByte \in Byte
          /\ readByte \in Byte
          /\ hasRoom \in BOOLEAN
          /\ accepted \in Byte
          /\ delivered \in Byte

(***************************************************************************)
(* The ring never holds more than BufferSize unread bytes, and there is    *)
(* room for the byte a producer that passed its full test is writing:      *)
(* although the test compares for equality and both counts wrap.           *)
(***************************************************************************)
NoOverrun == /\ Used \in 0 .. BufferSize
             /\ producer # "check" => Used < BufferSize

(* A consumer that passed its empty test still finds a byte to read. *)
NoUnderrun == consumer # "check" => Used > 0

CountsBounded == NoOverrun /\ NoUnderrun

(* The i-th oldest unread byte and the cell that holds it. *)
UnreadSlot(i) == (consumeCount + i - 1) % BufferSize

(***************************************************************************)
(* The two cores never access the same cell of the ring at the same time,  *)
(* between the test and the update of the count of each.                   *)
(***************************************************************************)
NoSlotConflict ==
  producer \in {"write", "publish"} /\ consumer \in {"read", "release"}
    => WriteSlot # ReadSlot

(* Both: what a core tested stays true until it has published its step,    *)
(* and meanwhile the cell it works on is its own.                          *)
CoresApart == CountsBounded /\ NoSlotConflict

(***************************************************************************)
(* No step changes an unread byte: a cell written stays as written until   *)
(* the consuming core has increased its count past it.                     *)
(***************************************************************************)
UnreadIsStable ==
  [][\A i \in 1 .. Used : sharedBuffer'[UnreadSlot(i)] = sharedBuffer[UnreadSlot(i)]]_vars

(***************************************************************************)
(* The unread bytes, oldest first.  Under this mapping the channel behaves *)
(* as a bounded first-in first-out queue.                                  *)
(***************************************************************************)
Unread == [i \in 1 .. Used |-> sharedBuffer[UnreadSlot(i)]]

Fifo == INSTANCE BoundedFifo WITH Capacity <- BufferSize, queue <- Unread

ImplementsFifo == Fifo!Spec

(***************************************************************************)
(* A byte that was published is eventually handed on by the consumer, if   *)
(* the host on socket 0 keeps reading: room comes back again and again,    *)
(* and from some time on only what the consumer hands on uses it up.       *)
(***************************************************************************)
KeepsReading == []<>hasRoom /\ <>[][hasRoom => hasRoom' \/ IncConsumeCount]_vars
EventuallyDelivered == KeepsReading => Fifo!Fairness
=============================================================================
