------------------------------ MODULE RingBuf ------------------------------
(***************************************************************************)
(* The byte ring of ringbuf.c that holds what a socket received.  A ring   *)
(* is a record of its cells and the two positions head (written next) and  *)
(* tail (read next); one cell stays free, so that head = tail means empty. *)
(* Pointers are offsets into the buffer.                                   *)
(***************************************************************************)
EXTENDS Integers, Sequences, FiniteSetsExt

CONSTANT RingSize     \* length of the buffer (MAX_RX_RING_BUFFER_DATA)

ASSUME RingSizeAssumption == RingSize \in Nat /\ RingSize > 1

Cells == 0 .. RingSize - 1
Rings(Byte) == [buf : [Cells -> Byte], head : Cells, tail : Cells]
Capacity == RingSize - 1

NewRing(zero) == [buf |-> [i \in Cells |-> zero], head |-> 0, tail |-> 0]

Reset(rb) == [rb EXCEPT !.head = 0, !.tail = 0]

BytesFree(rb) ==
  IF rb.head >= rb.tail THEN Capacity - (rb.head - rb.tail) ELSE rb.tail - rb.head - 1
BytesUsed(rb) == Capacity - BytesFree(rb)

NextP(p) == (p + 1) % RingSize

(***************************************************************************)
(* ringbuf_memcpy_into: the bytes go to consecutive cells, those copied    *)
(* later over those copied earlier; when there was no room for all of      *)
(* them, the ring is full afterwards and has lost its oldest bytes.        *)
(***************************************************************************)
Filled(rb, src) ==
  LET Hits(i) == {k \in 1 .. Len(src) : (rb.head + k - 1) % RingSize = i}
  IN  [i \in Cells |-> IF Hits(i) = {} THEN rb.buf[i] ELSE src[Max(Hits(i))]]

MemcpyInto(rb, src) ==
  LET head == (rb.head + Len(src)) % RingSize
  IN  [buf  |-> Filled(rb, src),
       head |-> head,
       tail |-> IF Len(src) > BytesFree(rb) THEN NextP(head) ELSE rb.tail]

(***************************************************************************)
(* ringbuf_memcpy_from copies the oldest bytes and gives up their cells;   *)
(* asked for more than there are it does neither.                          *)
(***************************************************************************)
Oldest(rb, count) == [k \in 1 .. count |-> rb.buf[(rb.tail + k - 1) % RingSize]]
Without(rb, count) ==
  IF count > BytesUsed(rb) THEN rb ELSE [rb EXCEPT !.tail = (@ + count) % RingSize]

Contents(rb) == Oldest(rb, BytesUsed(rb))
=============================================================================
