--------------------------- MODULE CommandProofs ---------------------------
(***************************************************************************)
(* The path of a command: the ring of pending commands and the text their  *)
(* arguments are read from, for any number of slots, any limits on the     *)
(* arguments and any lines a host may type, as long as it has fewer lines  *)
(* unanswered than the ring has slots; the answers, for any streams and    *)
(* commands; and the injection contexts and the tasks of beta_labs.        *)
(***************************************************************************)
EXTENDS MCCommandPath, SequenceTheorems, FiniteSetTheorems, WellFoundedInduction, TLAPS

(***************************************************************************)
(* Slots count round the ring.                                             *)
(***************************************************************************)
LEMMA ModOnce ==
  ASSUME NEW b \in Nat \ {0}, NEW a \in 0 .. 2 * b - 1
  PROVE  a % b = IF a < b THEN a ELSE a - b
<1> DEFINE q == a \div b
           r == a % b
<1>1. r \in 0 .. b - 1 /\ q \in Int /\ a = b * q + r
  OBVIOUS
<1> HIDE DEF q, r
<1>2. q < 2
  <2>1. CASE q >= 2
    BY <1>1, <2>1
  <2> QED
    BY <1>1, <2>1
<1>3. q > -1
  <2>1. CASE q <= -1
    <3>1. b * q <= -b
      BY <1>1, <2>1
    <3> QED
      BY <1>1, <3>1
  <2> QED
    BY <1>1, <2>1
<1>4. q = 0 \/ q = 1
  BY <1>1, <1>2, <1>3
<1>5. r = IF a < b THEN a ELSE a - b
  <2>1. CASE q = 0
    BY <1>1, <2>1
  <2>2. CASE q = 1
    BY <1>1, <2>2
  <2> QED
    BY <1>4, <2>1, <2>2
<1> QED
  BY <1>5 DEF r

Forward(r, i) == IF r + i - 1 < MaxPending THEN r + i - 1 ELSE r + i - 1 - MaxPending

LEMMA SlotIs ==
  ASSUME read_idx \in Slots, NEW i \in 1 .. MaxPending
  PROVE  SlotOf(i) = Forward(read_idx, i)
<1> DEFINE a == read_idx + i - 1
<1>1. MaxPending \in Nat \ {0} /\ a \in 0 .. 2 * MaxPending - 1
  BY ParserAssumption DEF Slots
<1>2. SlotOf(i) = a % MaxPending
  BY DEF SlotOf
<1>4. Forward(read_idx, i) = IF a < MaxPending THEN a ELSE a - MaxPending
  BY ParserAssumption DEF Forward, Slots
<1> HIDE DEF a
<1>3. a % MaxPending = IF a < MaxPending THEN a ELSE a - MaxPending
  BY <1>1, ModOnce
<1> QED
  BY <1>2, <1>3, <1>4

LEMMA ForwardFacts ==
  ASSUME NEW r \in Slots, NEW i \in 1 .. MaxPending
  PROVE  /\ Forward(r, i) \in Slots
         /\ \A j \in 1 .. MaxPending : Forward(r, i) = Forward(r, j) => i = j
         /\ i < MaxPending => Wrap(Forward(r, i), MaxPending) = Forward(r, i + 1)
         /\ i < MaxPending => Forward(Wrap(r, MaxPending), i) = Forward(r, i + 1)
         /\ Forward(r, 1) = r
         /\ Wrap(r, MaxPending) \in Slots
BY ParserAssumption DEF Slots, Forward, Wrap

-----------------------------------------------------------------------------
(***************************************************************************)
(* The invariant.  The parser's state says where in its line the host is,  *)
(* the slot it fills knows the length of the argument being typed and, as  *)
(* long as it found no error, the number of arguments; and the slots from  *)
(* read_idx on are those of the lines in flight, write_idx the next.       *)
(***************************************************************************)
Slot == [argc : 0 .. MaxArgc, argv : Seq(Cells), length : Nat, err : BOOLEAN, ready : BOOLEAN]
Typing == [args : Seq(Nat), open : BOOLEAN, chars : Nat]

RingType ==
  /\ pending \in [Slots -> Slot]
  /\ \A s \in Slots : pending[s].argc <= Len(pending[s].argv)
  /\ write_idx \in Slots /\ read_idx \in Slots /\ recv_buffer_idx \in Cells
  /\ line \in Typing /\ inflight \in Seq(Typing)

Follows ==
  /\ state \in {"BEGIN", "LOOKING_FOR_SPACE", "LOOKING_FOR_CHAR"}
  /\ state = "BEGIN" <=> Len(line.args) = 0
  /\ state = "LOOKING_FOR_SPACE" <=> line.open

(* What is known of the arguments before n, in a slot with or without error. *)
Checked(slot, args, n) ==
  IF slot.err THEN LineTooLong(args)
  ELSE /\ slot.argc = Len(args) /\ Len(args) <= MaxArgc
       /\ \A k \in 1 .. n : args[k] <= MaxArgLength

Filling ==
  state # "BEGIN" =>
    /\ Cur.length = line.args[Len(line.args)]
    /\ Checked(Cur, line.args, IF line.open THEN Len(line.args) - 1 ELSE Len(line.args))

InRing ==
  /\ Len(inflight) <= Window
  /\ write_idx = Forward(read_idx, Len(inflight) + 1)
  /\ \A s \in Slots : pending[s].ready <=> \E i \in 1 .. Len(inflight) : s = Forward(read_idx, i)
  /\ \A i \in 1 .. Len(inflight) : pending[Forward(read_idx, i)].err <=> LineTooLong(inflight[i].args)

RingInv == RingType /\ Follows /\ Filling /\ InRing

LEMMA RingInitInv == Init => RingInv
<1> SUFFICES ASSUME Init PROVE RingInv
  OBVIOUS
<1>1. NoLine \in Typing /\ Len(NoLine.args) = 0 /\ ~NoLine.open
  BY DEF NoLine, Typing
<1>2. EmptySlot \in Slot /\ EmptySlot.argc = 0 /\ EmptySlot.argv = << >> /\ ~EmptySlot.ready
  BY ParserAssumption DEF EmptySlot, Slot
<1>3. RingType
  BY <1>1, <1>2, ParserAssumption DEF Init, RingType, Slots, Cells
<1>4. Follows /\ Filling
  BY <1>1 DEF Init, Follows, Filling
<1>5. InRing
  BY <1>2, ForwardFacts, ParserAssumption DEF Init, InRing, Slots, Forward
<1> QED
  BY <1>3, <1>4, <1>5 DEF RingInv

(* The invariant gives the property, which counts slots with a remainder. *)
LEMMA RingInvHolds == ASSUME Window < MaxPending PROVE RingInv => RingHoldsVerdicts
<1> SUFFICES ASSUME RingInv PROVE RingHoldsVerdicts
  OBVIOUS
<1>1. \A i \in 1 .. Len(inflight) : SlotOf(i) = Forward(read_idx, i)
  <2> SUFFICES ASSUME NEW i \in 1 .. Len(inflight) PROVE SlotOf(i) = Forward(read_idx, i)
    OBVIOUS
  <2>1. i \in 1 .. MaxPending
    BY ParserAssumption DEF RingInv, RingType, InRing
  <2> QED
    BY <2>1, SlotIs DEF RingInv, RingType
<1>2. DOMAIN inflight = 1 .. Len(inflight)
  BY DEF RingInv, RingType
<1> QED
  BY <1>1, <1>2 DEF RingInv, InRing, RingHoldsVerdicts
-----------------------------------------------------------------------------
(***************************************************************************)
(* A character of the host, and where the parser is.                       *)
(***************************************************************************)
LEMMA LineWithFacts ==
  ASSUME RingType, Follows, NEW c \in Char
  PROVE  /\ LineWith(c) \in Typing
         /\ LineWith(c).open <=> c = "letter"
         /\ c # "letter" => LineWith(c).args = line.args
         /\ c = "letter" /\ line.open =>
              LET n == Len(line.args)
              IN  /\ n > 0
                  /\ Len(LineWith(c).args) = n
                  /\ LineWith(c).args[n] = line.args[n] + 1
                  /\ \A k \in 1 .. n - 1 : LineWith(c).args[k] = line.args[k]
         /\ c = "letter" /\ ~line.open =>
              LET n == Len(line.args)
              IN  /\ Len(LineWith(c).args) = n + 1
                  /\ LineWith(c).args[n + 1] = 1
                  /\ \A k \in 1 .. n : LineWith(c).args[k] = line.args[k]
<1>1. line.args \in Seq(Nat) /\ line.chars \in Nat /\ line.open \in BOOLEAN
  BY DEF RingType, Typing
<1>2. CASE c # "letter"
  <2>1. LineWith(c) = [args |-> line.args, open |-> FALSE, chars |-> line.chars + 1]
    BY <1>2 DEF LineWith
  <2> QED
    BY <1>1, <1>2, <2>1 DEF Typing
<1>3. CASE c = "letter" /\ line.open
  <2>1. Len(line.args) > 0
    BY <1>1, <1>3 DEF Follows
  <2> DEFINE grown == [line.args EXCEPT ![Len(line.args)] = @ + 1]
  <2>2. LineWith(c) = [args |-> grown, open |-> TRUE, chars |-> line.chars + 1]
    BY <1>3 DEF LineWith
  <2>3. /\ grown \in Seq(Nat) /\ Len(grown) = Len(line.args)
        /\ grown[Len(line.args)] = line.args[Len(line.args)] + 1
        /\ \A k \in 1 .. Len(line.args) - 1 : grown[k] = line.args[k]
    BY <1>1, <2>1
  <2> HIDE DEF grown
  <2>4. LineWith(c) \in Typing
    BY <1>1, <2>2, <2>3 DEF Typing
  <2>5. LineWith(c).open /\ LineWith(c).args = grown
    BY <2>2
  <2> QED
    BY <1>3, <2>1, <2>3, <2>4, <2>5
<1>4. CASE c = "letter" /\ ~line.open
  <2>1. LineWith(c) = [args |-> Append(line.args, 1), open |-> TRUE, chars |-> line.chars + 1]
    BY <1>4 DEF LineWith
  <2>2. /\ Append(line.args, 1) \in Seq(Nat) /\ Len(Append(line.args, 1)) = Len(line.args) + 1
        /\ Append(line.args, 1)[Len(line.args) + 1] = 1
        /\ \A k \in 1 .. Len(line.args) : Append(line.args, 1)[k] = line.args[k]
    BY <1>1
  <2>3. LineWith(c) \in Typing
    BY <1>1, <2>1, <2>2 DEF Typing
  <2>4. LineWith(c).open /\ LineWith(c).args = Append(line.args, 1)
    BY <2>1
  <2> QED
    BY <1>4, <2>2, <2>3, <2>4
<1> QED
  BY <1>2, <1>3, <1>4

(* An argument that grows, or one more, does not make a long line shorter. *)
LEMMA StaysTooLong ==
  ASSUME RingType, Follows, NEW c \in Char, LineTooLong(line.args)
  PROVE  LineTooLong(LineWith(c).args)
<1> DEFINE args == LineWith(c).args
           n == Len(line.args)
<1>1. line.args \in Seq(Nat) /\ args \in Seq(Nat) /\ MaxArgc \in Nat /\ MaxArgLength \in Nat
  BY LineWithFacts, ParserAssumption DEF RingType, Typing
<1>2. Len(args) >= n /\ \A k \in 1 .. n : args[k] >= line.args[k]
  <2>1. CASE c # "letter"
    BY <1>1, <2>1, LineWithFacts
  <2>2. CASE c = "letter" /\ line.open
    <3>1. /\ n > 0 /\ Len(args) = n /\ args[n] = line.args[n] + 1
          /\ \A k \in 1 .. n - 1 : args[k] = line.args[k]
      BY <2>2, LineWithFacts
    <3>2. n \in Nat /\ \A k \in 1 .. n : line.args[k] \in Nat
      BY <1>1
    <3> HIDE DEF args, n
    <3>3. ASSUME NEW k \in 1 .. n PROVE args[k] >= line.args[k]
      BY <3>1, <3>2
    <3> QED
      BY <3>1, <3>2, <3>3
  <2>3. CASE c = "letter" /\ ~line.open
    BY <1>1, <2>3, LineWithFacts, SMTT(20)
  <2> QED
    BY <2>1, <2>2, <2>3
<1> HIDE DEF args
<1>3. LineTooLong(args)
  <2>1. CASE n > MaxArgc
    BY <1>1, <1>2, <2>1 DEF LineTooLong
  <2>2. ASSUME NEW k \in 1 .. n, line.args[k] > MaxArgLength PROVE LineTooLong(args)
    <3>1. args[k] > MaxArgLength /\ k \in DOMAIN args
      BY <1>1, <1>2, <2>2
    <3> QED
      BY <3>1 DEF LineTooLong
  <2>3. DOMAIN line.args = 1 .. n
    BY <1>1
  <2> QED
    BY <2>1, <2>2, <2>3 DEF LineTooLong
<1> QED
  BY <1>3 DEF args
-----------------------------------------------------------------------------
(***************************************************************************)
(* A character that does not end the line changes at most the slot being   *)
(* filled, and no line in flight.                                          *)
(***************************************************************************)
LEMMA HostInLine ==
  ASSUME RingType, Follows, NEW c \in Char, HostTypes(c), ~IsLast(c)
  PROVE  /\ inflight' = inflight /\ line' \in Typing
         /\ line'.args = LineWith(c).args
         /\ line'.open <=> c = "letter"
<1>1. line \in Typing
  BY DEF RingType
<1>2. CASE c # "letter" /\ line.args = << >> /\ inflight = << >>
  <2>1. inflight' = inflight /\ line' = line
    BY <1>2 DEF HostTypes, host
  <2>2. ~line.open
    BY <1>2 DEF Follows
  <2>3. LineWith(c).args = line.args
    BY <1>2, LineWithFacts
  <2> QED
    BY <1>1, <1>2, <2>1, <2>2, <2>3
<1>3. CASE ~(c # "letter" /\ line.args = << >> /\ inflight = << >>)
  <2>1. inflight' = inflight /\ line' = LineWith(c)
    BY <1>3 DEF HostTypes
  <2>2. LineWith(c) \in Typing /\ (LineWith(c).open <=> c = "letter")
    BY LineWithFacts
  <2> QED
    BY <2>1, <2>2
<1> QED
  BY <1>2, <1>3

LEMMA InLine ==
  ASSUME Window < MaxPending, RingInv, NEW c \in Char, HostTypes(c), ~IsLast(c),
         UNCHANGED <<write_idx, read_idx>>, recv_buffer_idx' \in Cells,
         NEW slot \in Slot, slot.argc <= Len(slot.argv), slot.ready = Cur.ready, Fill(slot),
         state' \in {"BEGIN", "LOOKING_FOR_SPACE", "LOOKING_FOR_CHAR"},
         state' = "BEGIN" <=> Len(LineWith(c).args) = 0,
         state' = "LOOKING_FOR_SPACE" <=> c = "letter",
         state' # "BEGIN" =>
           LET args == LineWith(c).args
           IN  /\ slot.length = args[Len(args)]
               /\ Checked(slot, args, IF c = "letter" THEN Len(args) - 1 ELSE Len(args))
  PROVE  RingInv'
<1>1. RingType /\ Follows /\ InRing
  BY DEF RingInv
<1>2. /\ inflight' = inflight /\ line' \in Typing
      /\ line'.args = LineWith(c).args
      /\ line'.open <=> c = "letter"
  BY <1>1, HostInLine
<1>3. /\ pending' \in [Slots -> Slot] /\ pending'[write_idx] = slot
      /\ \A s \in Slots : s # write_idx => pending'[s] = pending[s]
  BY <1>1 DEF Fill, RingType
<1>4. RingType'
  BY <1>1, <1>2, <1>3 DEF RingType
<1>5. Follows'
  BY <1>2 DEF Follows
<1>6. Filling'
  BY <1>2, <1>3 DEF Filling, Cur
<1>7. \A i \in 1 .. Len(inflight) : Forward(read_idx, i) \in Slots /\ Forward(read_idx, i) # write_idx
  <2> SUFFICES ASSUME NEW i \in 1 .. Len(inflight)
               PROVE  Forward(read_idx, i) \in Slots /\ Forward(read_idx, i) # write_idx
    OBVIOUS
  <2>1. i \in 1 .. MaxPending /\ Len(inflight) + 1 \in 1 .. MaxPending /\ i # Len(inflight) + 1
    BY <1>1, ParserAssumption DEF InRing, RingType
  <2> QED
    BY <1>1, <2>1, ForwardFacts DEF InRing, RingType
<1>8. \A s \in Slots : pending'[s].ready = pending[s].ready
  BY <1>3 DEF Cur
<1>9. InRing'
  BY <1>1, <1>2, <1>3, <1>7, <1>8 DEF InRing
<1> QED
  BY <1>4, <1>5, <1>6, <1>9 DEF RingInv
-----------------------------------------------------------------------------
(***************************************************************************)
(* The actions of the parser within a line.                                *)
(***************************************************************************)
LEMMA CurFacts ==
  ASSUME RingInv
  PROVE  /\ Cur \in Slot /\ Cur.argc <= Len(Cur.argv) /\ Cur.argc \in Nat /\ Cur.length \in Nat
         /\ Cur.argv \in Seq(Cells)
         /\ Fill(Cur) <=> UNCHANGED pending
         /\ line.args \in Seq(Nat) /\ line.open \in BOOLEAN
BY ParserAssumption DEF RingInv, RingType, Cur, Fill, Slot, Typing

LEMMA WithinLine ==
  ASSUME Window < MaxPending, RingInv, NEW c \in Char, Receive(c), ~EndOfCommand(c)
  PROVE  RingInv'
<1> DEFINE args == LineWith(c).args
<1>1. HostTypes(c) /\ UNCHANGED read_idx /\ recv_buffer_idx' \in Cells
  BY ParserAssumption DEF Receive, Wrap, RingInv, RingType, Cells
<1>2. RingType /\ Follows /\ line.args \in Seq(Nat) /\ MaxArgc \in Nat \ {0} /\ MaxArgLength \in Nat
  BY CurFacts, ParserAssumption DEF RingInv
<1>3. args \in Seq(Nat)
  BY <1>2, LineWithFacts DEF Typing
<1>4. CASE SkipSpace(c)
  <2>1. ~IsLast(c) /\ Fill(Cur) /\ UNCHANGED <<write_idx, state>> /\ state = "BEGIN" /\ c # "letter"
    BY <1>2, <1>4, CurFacts DEF SkipSpace, Follows, IsLast
  <2>2. Len(args) = 0
    BY <1>2, <2>1, LineWithFacts DEF Follows
  <2> QED
    BY <1>1, <2>1, <2>2, CurFacts, InLine
<1>5. CASE FirstArg(c)
  <2> DEFINE slot == [argc |-> 1, argv |-> <<recv_buffer_idx>>, length |-> 1, err |-> NoErr,
                      ready |-> Cur.ready]
  <2>1. ~IsLast(c) /\ Fill(slot) /\ UNCHANGED write_idx /\ state' = "LOOKING_FOR_SPACE" /\ c = "letter"
    BY <1>5 DEF FirstArg, IsLast
  <2>2. slot \in Slot /\ slot.argc <= Len(slot.argv) /\ slot.ready = Cur.ready
    BY <1>2, CurFacts DEF Slot, NoErr, RingType
  <2>3. ~line.open /\ Len(line.args) = 0
    BY <1>2, <1>5 DEF Follows, FirstArg
  <2>4. Len(args) = 1 /\ args[1] = 1
    BY <1>2, <2>1, <2>3, LineWithFacts
  <2>5. slot.length = args[Len(args)] /\ Checked(slot, args, Len(args) - 1)
    BY <1>2, <2>4 DEF Checked, NoErr
  <2> HIDE DEF slot, args
  <2> QED
    BY <1>1, <2>1, <2>2, <2>4, <2>5, InLine DEF args
<1>6. CASE InArg(c)
  <2> DEFINE slot == [Cur EXCEPT !.length = @ + 1]
  <2>1. /\ ~IsLast(c) /\ Fill(slot) /\ UNCHANGED <<write_idx, state>>
        /\ state = "LOOKING_FOR_SPACE" /\ c = "letter"
    BY <1>6 DEF InArg, IsLast
  <2>2. /\ slot \in Slot /\ slot.length = Cur.length + 1 /\ slot.err = Cur.err
        /\ slot.argc = Cur.argc /\ slot.argv = Cur.argv /\ slot.ready = Cur.ready
    BY CurFacts DEF Slot
  <2>3. line.open
    BY <1>2, <2>1 DEF Follows
  <2>4. /\ Len(args) > 0 /\ Len(args) = Len(line.args)
        /\ args[Len(args)] = line.args[Len(args)] + 1
        /\ \A k \in 1 .. Len(args) - 1 : args[k] = line.args[k]
    BY <1>2, <2>1, <2>3, LineWithFacts
  <2>5. Cur.length = line.args[Len(line.args)] /\ Checked(Cur, line.args, Len(line.args) - 1)
    BY <2>1, <2>3 DEF RingInv, Filling
  <2>6. LineTooLong(line.args) => LineTooLong(args)
    BY <1>2, StaysTooLong
  <2> HIDE DEF slot, args
  <2>7. slot.length = args[Len(args)]
    BY <2>2, <2>4, <2>5
  <2>8. Checked(slot, args, Len(args) - 1)
    BY <2>2, <2>4, <2>5, <2>6 DEF Checked
  <2>9. slot.argc <= Len(slot.argv)
    BY <2>2, CurFacts
  <2>10. state' = "BEGIN" <=> Len(LineWith(c).args) = 0
    BY <2>1, <2>4 DEF args
  <2> QED
    BY <1>1, <2>1, <2>2, <2>7, <2>8, <2>9, <2>10, InLine DEF args
<1>7. CASE EndOfArg(c)
  <2> DEFINE slot == [Cur EXCEPT !.err = TooLong(Cur)]
  <2>1. /\ ~IsLast(c) /\ Fill(slot) /\ UNCHANGED write_idx
        /\ state = "LOOKING_FOR_SPACE" /\ state' = "LOOKING_FOR_CHAR" /\ c # "letter"
    BY <1>7 DEF EndOfArg, IsLast
  <2>2. /\ slot \in Slot /\ slot.length = Cur.length /\ slot.err = (Cur.err \/ Cur.length > MaxArgLength)
        /\ slot.argc = Cur.argc /\ slot.argv = Cur.argv /\ slot.ready = Cur.ready
    BY CurFacts DEF Slot, TooLong
  <2>3. line.open /\ Len(line.args) > 0
    BY <1>2, <2>1 DEF Follows
  <2>4. args = line.args
    BY <1>2, <2>1, LineWithFacts
  <2>5. Cur.length = args[Len(args)] /\ Checked(Cur, args, Len(args) - 1)
    BY <2>1, <2>3, <2>4 DEF RingInv, Filling
  <2> HIDE DEF slot, args
  <2>6. Checked(slot, args, Len(args))
    <3>1. Len(args) \in 1 .. Len(args) /\ Len(args) \in DOMAIN args /\ args \in Seq(Nat)
      BY <1>3, <2>3, <2>4
    <3>2. CASE Cur.err
      BY <2>2, <2>5, <3>2 DEF Checked
    <3>3. CASE ~Cur.err /\ Cur.length > MaxArgLength
      <4>1. LineTooLong(args)
        BY <2>5, <3>1, <3>3 DEF LineTooLong
      <4> QED
        BY <2>2, <3>3, <4>1 DEF Checked
    <3>4. CASE ~Cur.err /\ ~(Cur.length > MaxArgLength)
      <4>1. /\ Cur.argc = Len(args) /\ Len(args) <= MaxArgc
            /\ \A k \in 1 .. Len(args) - 1 : args[k] <= MaxArgLength
        BY <2>5, <3>4 DEF Checked
      <4>2. args[Len(args)] <= MaxArgLength
        BY <1>2, <2>5, <3>1, <3>4
      <4>3. \A k \in 1 .. Len(args) : args[k] <= MaxArgLength
        BY <3>1, <4>1, <4>2
      <4> QED
        BY <2>2, <3>4, <4>1, <4>3 DEF Checked
    <3> QED
      BY <3>2, <3>3, <3>4
  <2> QED
    BY <1>1, <2>1, <2>2, <2>3, <2>4, <2>5, <2>6, CurFacts, InLine DEF args
<1>8. CASE BetweenArgs(c)
  <2>1. /\ ~IsLast(c) /\ Fill(Cur) /\ UNCHANGED <<write_idx, state>>
        /\ state = "LOOKING_FOR_CHAR" /\ c # "letter"
    BY <1>8, CurFacts DEF BetweenArgs, IsLast
  <2>2. ~line.open /\ Len(line.args) > 0 /\ args = line.args
    BY <1>2, <2>1, LineWithFacts DEF Follows
  <2>3. Cur.length = args[Len(args)] /\ Checked(Cur, args, Len(args))
    BY <2>1, <2>2 DEF RingInv, Filling
  <2> QED
    BY <1>1, <2>1, <2>2, <2>3, CurFacts, InLine
<1>9. CASE NextArg(c)
  <2> DEFINE full == Cur.argc + 1 > MaxArgc
             pointers == SubSeq(Cur.argv, 1, Cur.argc) \o <<recv_buffer_idx>>
             slot == [Cur EXCEPT
                       !.argc = IF full THEN 0 ELSE @ + 1,
                       !.argv = IF full THEN @ ELSE pointers,
                       !.length = 1,
                       !.err = @ \/ full]
  <2>1. /\ ~IsLast(c) /\ Fill(slot) /\ UNCHANGED write_idx
        /\ state = "LOOKING_FOR_CHAR" /\ state' = "LOOKING_FOR_SPACE" /\ c = "letter"
    BY <1>9 DEF NextArg, IsLast
  <2>2. pointers \in Seq(Cells) /\ Len(pointers) = Cur.argc + 1
    <3> DEFINE before == SubSeq(Cur.argv, 1, Cur.argc)
    <3>1. before \in Seq(Cells) /\ Len(before) = Cur.argc
      BY CurFacts
    <3>2. <<recv_buffer_idx>> \in Seq(Cells) /\ Len(<<recv_buffer_idx>>) = 1
      BY <1>2 DEF RingType
    <3> HIDE DEF before
    <3>3. before \o <<recv_buffer_idx>> \in Seq(Cells) /\ Len(before \o <<recv_buffer_idx>>) = Cur.argc + 1
      BY <3>1, <3>2
    <3> QED
      BY <3>3 DEF before
  <2> HIDE DEF pointers
  <2>3. /\ slot.length = 1 /\ slot.err = (Cur.err \/ full) /\ slot.ready = Cur.ready
        /\ slot.argc = (IF full THEN 0 ELSE Cur.argc + 1)
        /\ slot.argv = (IF full THEN Cur.argv ELSE pointers)
    BY CurFacts DEF Slot
  <2>4. slot \in Slot
    <3>1. /\ (IF full THEN 0 ELSE Cur.argc + 1) \in 0 .. MaxArgc
          /\ (IF full THEN Cur.argv ELSE pointers) \in Seq(Cells)
      BY <1>2, <2>2, CurFacts
    <3> QED
      BY <3>1, CurFacts DEF Slot
  <2>5. slot.argc <= Len(slot.argv)
    BY <1>2, <2>2, <2>3, CurFacts
  <2>6. ~line.open /\ Len(line.args) > 0
    BY <1>2, <2>1 DEF Follows
  <2>7. /\ Len(args) = Len(line.args) + 1 /\ args[Len(args)] = 1
        /\ \A k \in 1 .. Len(line.args) : args[k] = line.args[k]
    BY <1>2, <2>1, <2>6, LineWithFacts
  <2>8. Checked(Cur, line.args, Len(line.args))
    BY <2>1, <2>6 DEF RingInv, Filling
  <2>9. LineTooLong(line.args) => LineTooLong(args)
    BY <1>2, StaysTooLong
  <2> HIDE DEF slot, args
  <2>10. Checked(slot, args, Len(args) - 1)
    <3>1. Len(args) \in Nat /\ Len(line.args) \in Nat /\ Cur.argc \in Nat
      BY <1>2, <1>3, CurFacts
    <3>2. CASE Cur.err
      BY <2>3, <2>8, <2>9, <3>2 DEF Checked
    <3>3. CASE ~Cur.err /\ full
      <4>1. Len(args) > MaxArgc
        BY <1>2, <2>7, <2>8, <3>1, <3>3 DEF Checked
      <4> QED
        BY <2>3, <3>3, <4>1 DEF Checked, LineTooLong
    <3>4. CASE ~Cur.err /\ ~full
      <4>1. /\ Cur.argc = Len(line.args)
            /\ \A k \in 1 .. Len(line.args) : line.args[k] <= MaxArgLength
        BY <2>8, <3>4 DEF Checked
      <4>2. \A k \in 1 .. Len(args) - 1 : args[k] <= MaxArgLength
        BY <2>7, <3>1, <4>1
      <4>3. slot.argc = Len(args) /\ Len(args) <= MaxArgc
        BY <1>2, <2>3, <2>7, <3>1, <3>4, <4>1
      <4> QED
        BY <2>3, <3>4, <4>2, <4>3 DEF Checked
    <3> QED
      BY <3>2, <3>3, <3>4
  <2>11. Len(args) # 0 /\ slot.length = args[Len(args)]
    BY <1>2, <2>3, <2>7
  <2> QED
    BY <1>1, <2>1, <2>3, <2>4, <2>5, <2>10, <2>11, InLine DEF args
<1> QED
  BY <1>4, <1>5, <1>6, <1>7, <1>8, <1>9 DEF Receive
-----------------------------------------------------------------------------
(***************************************************************************)
(* The end of a line puts it behind those in flight, with its verdict; the *)
(* slot it invalidates is the one after, which no line is in.              *)
(***************************************************************************)
LEMMA EndOfLine ==
  ASSUME Window < MaxPending, RingInv, NEW c \in Char, Receive(c), EndOfCommand(c)
  PROVE  RingInv'
<1> DEFINE n == Len(inflight) + 1
           done == LineWith(c)
           w == Wrap(write_idx, MaxPending)
<1>1. RingType /\ Follows /\ InRing /\ read_idx' = read_idx /\ write_idx' = w
  BY DEF RingInv, Receive, EndOfCommand
<1>2. c = "newline" /\ state # "BEGIN" /\ state' = "BEGIN"
  BY DEF EndOfCommand
<1>3. line.args \in Seq(Nat) /\ Len(line.args) > 0 /\ inflight \in Seq(Typing) /\ Len(inflight) \in Nat
  BY <1>1, <1>2 DEF RingType, Follows, Typing
<1>4. IsLast(c)
  BY <1>2, <1>3 DEF IsLast
<1>5. inflight' = Append(inflight, done) /\ line' = NoLine /\ Len(inflight) < Window
  BY <1>4 DEF Receive, HostTypes, MayType
<1>6. done \in Typing /\ done.args = line.args
  BY <1>1, <1>2, LineWithFacts
<1>7. n \in 1 .. MaxPending /\ n + 1 \in 1 .. MaxPending /\ n < MaxPending
  BY <1>3, <1>5, ParserAssumption
<1>8. write_idx = Forward(read_idx, n) /\ w = Forward(read_idx, n + 1) /\ w \in Slots /\ w # write_idx
  BY <1>1, <1>7, ForwardFacts DEF InRing, RingType
<1>9. /\ pending' \in [Slots -> Slot]
      /\ pending'[write_idx].ready /\ pending'[write_idx].err = TooLong(Cur)
      /\ ~pending'[w].ready
      /\ \A s \in Slots : pending'[s].argc = pending[s].argc /\ pending'[s].argv = pending[s].argv
      /\ \A s \in Slots : s # write_idx => pending'[s].err = pending[s].err
      /\ \A s \in Slots : s # write_idx /\ s # w => pending'[s].ready = pending[s].ready
  <2> DEFINE filled == [Cur EXCEPT !.err = TooLong(Cur), !.ready = TRUE]
  <2>1. Cur \in Slot /\ TooLong(Cur) \in BOOLEAN
    BY CurFacts DEF TooLong, Slot
  <2>2. /\ filled \in Slot /\ filled.ready /\ filled.err = TooLong(Cur)
        /\ filled.argc = Cur.argc /\ filled.argv = Cur.argv
    BY <2>1 DEF Slot
  <2>3. pending' = [pending EXCEPT ![write_idx] = filled, ![w] = [pending[w] EXCEPT !.ready = FALSE]]
    BY <1>1, <1>8 DEF EndOfCommand, Invalidate, Cur, RingType
  <2> DEFINE off == [pending[w] EXCEPT !.ready = FALSE]
  <2>4. off \in Slot /\ ~off.ready /\ off.err = pending[w].err /\ off.argc = pending[w].argc /\ off.argv = pending[w].argv
    BY <1>1, <1>8 DEF RingType, Slot
  <2> HIDE DEF filled, off, w
  <2>5. /\ pending' \in [Slots -> Slot] /\ pending'[write_idx] = filled /\ pending'[w] = off
        /\ \A s \in Slots : s # write_idx /\ s # w => pending'[s] = pending[s]
    BY <1>1, <1>8, <2>2, <2>3, <2>4 DEF RingType, off
  <2> QED
    BY <2>2, <2>4, <2>5 DEF Cur
<1>10. TooLong(Cur) <=> LineTooLong(line.args)
  <2>1. Cur.length = line.args[Len(line.args)]
    BY <1>2 DEF RingInv, Filling
  <2>2. CASE Cur.err
    <3>1. LineTooLong(line.args)
      BY <1>2, <2>2 DEF RingInv, Filling, Checked
    <3> QED
      BY <2>2, <3>1 DEF TooLong
  <2>3. CASE ~Cur.err
    <3>1. Len(line.args) <= MaxArgc /\ \A k \in 1 .. Len(line.args) - 1 : line.args[k] <= MaxArgLength
      <4>1. CASE line.open
        BY <1>2, <2>3, <4>1 DEF RingInv, Filling, Checked
      <4>2. CASE ~line.open
        BY <1>2, <1>3, <2>3, <4>2 DEF RingInv, Filling, Checked
      <4> QED
        BY <4>1, <4>2
    <3>2. LineTooLong(line.args) <=> line.args[Len(line.args)] > MaxArgLength
      BY <1>3, <3>1, ParserAssumption, SMTT(20) DEF LineTooLong
    <3> QED
      BY <2>1, <2>3, <3>2 DEF TooLong
  <2> QED
    BY <2>2, <2>3
<1> HIDE DEF w, done
<1>11. inflight' \in Seq(Typing) /\ Len(inflight') = n /\ inflight'[n] = done
       /\ \A i \in 1 .. Len(inflight) : inflight'[i] = inflight[i]
  BY <1>3, <1>5, <1>6
<1>12. NoLine \in Typing /\ Len(NoLine.args) = 0 /\ ~NoLine.open
  BY DEF NoLine, Typing
<1>13. RingType'
  <2>1. recv_buffer_idx' \in Cells
    BY <1>1, ParserAssumption DEF Receive, Wrap, RingType, Cells
  <2>2. \A s \in Slots : pending'[s].argc <= Len(pending'[s].argv)
    BY <1>1, <1>9 DEF RingType
  <2> QED
    BY <1>1, <1>5, <1>8, <1>9, <1>11, <1>12, <2>1, <2>2 DEF RingType
<1>14. Follows' /\ Filling'
  BY <1>2, <1>5, <1>12 DEF Follows, Filling
<1>15. ASSUME NEW i \in 1 .. Len(inflight)
       PROVE  /\ Forward(read_idx, i) \in Slots /\ Forward(read_idx, i) # write_idx
              /\ Forward(read_idx, i) # w
  <2>1. i \in 1 .. MaxPending /\ i # n /\ i # n + 1
    BY <1>3, <1>7, ParserAssumption
  <2> QED
    BY <1>1, <1>7, <1>8, <2>1, ForwardFacts DEF RingType
<1>16. ASSUME NEW s \in Slots
       PROVE  pending'[s].ready <=> \E i \in 1 .. n : s = Forward(read_idx, i)
  <2>1. CASE s = write_idx
    BY <1>7, <1>8, <1>9, <2>1
  <2>2. CASE s = w
    <3>1. \A i \in 1 .. n : Forward(read_idx, i) # w
      BY <1>3, <1>8, <1>15
    <3> QED
      BY <1>9, <2>2, <3>1
  <2>3. CASE s # write_idx /\ s # w
    <3>1. (\E i \in 1 .. n : s = Forward(read_idx, i)) <=> \E i \in 1 .. Len(inflight) : s = Forward(read_idx, i)
      BY <1>3, <1>8, <2>3
    <3> QED
      BY <1>1, <1>9, <2>3, <3>1 DEF InRing
  <2> QED
    BY <2>1, <2>2, <2>3
<1>17. ASSUME NEW i \in 1 .. n
       PROVE  pending'[Forward(read_idx, i)].err <=> LineTooLong(inflight'[i].args)
  <2>1. CASE i = n
    BY <1>6, <1>8, <1>9, <1>10, <1>11, <2>1
  <2>2. CASE i \in 1 .. Len(inflight)
    BY <1>1, <1>9, <1>11, <1>15, <2>2 DEF InRing
  <2> QED
    BY <1>3, <2>1, <2>2
<1>18. InRing'
  <2>1. n <= Window
    BY <1>3, <1>5, ParserAssumption
  <2> QED
    BY <1>1, <1>8, <1>11, <1>16, <1>17, <2>1 DEF InRing
<1> QED
  BY <1>13, <1>14, <1>18 DEF RingInv

(***************************************************************************)
(* The oldest line is the one that is run, and answered.                   *)
(***************************************************************************)
LEMMA ExecKeeps ==
  ASSUME Window < MaxPending, RingInv, Exec PROVE RingInv'
<1> DEFINE r == Wrap(read_idx, MaxPending)
           len == Len(inflight)
<1>1. RingType /\ Follows /\ InRing /\ read_idx' = r /\ UNCHANGED <<state, write_idx, recv_buffer_idx>>
  BY DEF RingInv, Exec
<1>2. pending[read_idx].ready /\ pending' = [pending EXCEPT ![read_idx] = Consumed(@)]
  BY DEF Exec, OldestSlot
<1>3. len \in Nat \ {0} /\ len + 1 \in 1 .. MaxPending /\ inflight \in Seq(Typing)
  BY <1>1, <1>2, ParserAssumption DEF InRing, RingType
<1>4. inflight' \in Seq(Typing) /\ Len(inflight') = len - 1 /\ \A i \in 1 .. len - 1 : inflight'[i] = inflight[i + 1]
  BY <1>3 DEF Exec
<1>5. /\ line' \in Typing /\ (line'.open <=> line.open) /\ line'.args = line.args
  <2>1. NoLine \in Typing /\ NoLine.args = << >> /\ ~NoLine.open
    BY DEF NoLine, Typing
  <2>2. CASE len = 1 /\ line.args = << >>
    BY <1>1, <2>1, <2>2 DEF Exec, Follows
  <2>3. CASE ~(len = 1 /\ line.args = << >>)
    BY <1>1, <2>3 DEF Exec, RingType
  <2> QED
    BY <2>2, <2>3
<1>6. /\ Consumed(pending[read_idx]) \in Slot /\ ~Consumed(pending[read_idx]).ready
      /\ Consumed(pending[read_idx]).argc = 0
      /\ Consumed(pending[read_idx]).argv = << >>
  <2>1. pending[read_idx].err \in BOOLEAN
    BY <1>1 DEF RingType, Slot
  <2>2. EmptySlot \in Slot /\ EmptySlot.argc = 0 /\ EmptySlot.argv = << >> /\ EmptySlot.ready = FALSE
    BY ParserAssumption DEF EmptySlot, Slot
  <2> QED
    BY <2>1, <2>2 DEF Slot, Consumed
<1>7. /\ pending' \in [Slots -> Slot] /\ pending'[read_idx] = Consumed(pending[read_idx])
      /\ \A s \in Slots : s # read_idx => pending'[s] = pending[s]
  BY <1>1, <1>2, <1>6 DEF RingType
<1>8. /\ r \in Slots /\ read_idx = Forward(read_idx, 1)
      /\ \A i \in 1 .. len : Forward(r, i) = Forward(read_idx, i + 1)
      /\ \A i \in 1 .. len : Forward(read_idx, i + 1) \in Slots /\ Forward(read_idx, i + 1) # read_idx
  <2>1. ASSUME NEW i \in 1 .. len
        PROVE  /\ Forward(r, i) = Forward(read_idx, i + 1)
               /\ Forward(read_idx, i + 1) \in Slots /\ Forward(read_idx, i + 1) # read_idx
    <3>1. i \in 1 .. MaxPending /\ i + 1 \in 1 .. MaxPending /\ 1 \in 1 .. MaxPending /\ i + 1 # 1 /\ i < MaxPending
      BY <1>3, ParserAssumption
    <3> QED
      BY <1>1, <3>1, ForwardFacts DEF RingType
  <2>2. 1 \in 1 .. MaxPending
    BY ParserAssumption
  <2> QED
    BY <1>1, <2>1, <2>2, ForwardFacts DEF RingType
<1>9. write_idx = Forward(r, len) /\ write_idx # read_idx
  BY <1>1, <1>3, <1>8 DEF InRing
<1> HIDE DEF r
<1>10. RingType'
  BY <1>1, <1>4, <1>5, <1>6, <1>7, <1>8 DEF RingType
<1>11. Follows'
  BY <1>1, <1>5 DEF Follows
<1>12. Filling'
  <2>1. Cur' = Cur
    BY <1>1, <1>7, <1>9 DEF Cur, RingType
  <2> QED
    BY <1>1, <1>5, <2>1 DEF RingInv, Filling
<1>13. ASSUME NEW s \in Slots
       PROVE  pending'[s].ready <=> \E i \in 1 .. len - 1 : s = Forward(r, i)
  <2>1. CASE s = read_idx
    BY <1>3, <1>6, <1>7, <1>8, <2>1
  <2>2. CASE s # read_idx
    <3>1. pending'[s].ready <=> \E i \in 1 .. len : s = Forward(read_idx, i)
      BY <1>1, <1>7, <2>2 DEF InRing
    <3>2. ASSUME NEW i \in 1 .. len, s = Forward(read_idx, i) PROVE \E j \in 1 .. len - 1 : s = Forward(r, j)
      <4>1. i # 1
        BY <1>8, <2>2, <3>2
      <4>2. i - 1 \in 1 .. len - 1 /\ i - 1 \in 1 .. len /\ (i - 1) + 1 = i
        BY <1>3, <4>1
      <4>3. s = Forward(r, i - 1)
        BY <1>8, <3>2, <4>2
      <4> QED
        BY <4>2, <4>3
    <3>3. ASSUME NEW j \in 1 .. len - 1, s = Forward(r, j) PROVE \E i \in 1 .. len : s = Forward(read_idx, i)
      <4>1. j + 1 \in 1 .. len /\ j \in 1 .. len
        BY <1>3
      <4> QED
        BY <1>8, <3>3, <4>1
    <3> QED
      BY <3>1, <3>2, <3>3
  <2> QED
    BY <2>1, <2>2
<1>14. ASSUME NEW i \in 1 .. len - 1
       PROVE  pending'[Forward(r, i)].err <=> LineTooLong(inflight'[i].args)
  <2>1. i \in 1 .. len /\ i + 1 \in 1 .. len
    BY <1>3
  <2>2. Forward(r, i) = Forward(read_idx, i + 1) /\ pending'[Forward(r, i)] = pending[Forward(read_idx, i + 1)]
    BY <1>7, <1>8, <2>1
  <2> QED
    BY <1>1, <1>4, <2>1, <2>2 DEF InRing
<1>15. InRing'
  <2>1. len - 1 <= Window /\ (len - 1) + 1 = len
    BY <1>1, <1>3, ParserAssumption DEF InRing
  <2> QED
    BY <1>1, <1>4, <1>9, <1>13, <1>14, <2>1 DEF InRing
<1> QED
  BY <1>10, <1>11, <1>12, <1>15 DEF RingInv

-----------------------------------------------------------------------------
(***************************************************************************)
(* However characters and executions interleave, the ring of pending       *)
(* commands holds exactly the lines that the host waits for, each with the *)
(* verdict that its arguments deserve.                                     *)
(***************************************************************************)
THEOREM VerdictsAreRight ==
  ASSUME Window < MaxPending PROVE Spec => []RingHoldsVerdicts
<1>1. RingInv /\ [Next]_vars => RingInv'
  <2> SUFFICES ASSUME RingInv, [Next]_vars PROVE RingInv'
    OBVIOUS
  <2>1. CASE Exec
    BY <2>1, ExecKeeps
  <2>2. ASSUME NEW c \in Char, Receive(c) PROVE RingInv'
    BY <2>2, EndOfLine, WithinLine
  <2>3. CASE UNCHANGED vars
    BY <2>3 DEF vars, parser, host, RingInv, RingType, Follows, Filling, Cur, InRing
  <2> QED
    BY <2>1, <2>2, <2>3 DEF Next
<1> QED
  BY RingInitInv, <1>1, RingInvHolds, PTL DEF Spec

-----------------------------------------------------------------------------
(***************************************************************************)
(* The text behind the lines.  Cells are counted back from the one that is *)
(* written next: an argument that ended is followed by a NUL, the one that *)
(* is being typed reaches up to the last cell written.  A line lies within *)
(* the characters held for it and for those behind it.                     *)
(***************************************************************************)
Ago(x, b) == IF b <= x THEN x - b ELSE x - b + RecvLength

Stored(x, nul, a, len, most) ==
  \E b \in 1 .. most : /\ b > len /\ a = Ago(x, b) /\ Ago(x, b - len) \in nul
                       /\ \A j \in b - len + 1 .. b : Ago(x, j) \notin nul

Growing(x, nul, a, len, most) ==
  len <= most /\ a = Ago(x, len) /\ \A j \in 1 .. len : Ago(x, j) \notin nul

(* How far back the lines q begin: each where the one before it ends, the  *)
(* first h characters ago, and the one being typed m characters ago.       *)
Begins(off, q, h, m) ==
  /\ off \in [1 .. Len(q) + 1 -> Nat]
  /\ off[1] = h /\ off[Len(q) + 1] = m
  /\ \A i \in 1 .. Len(q) : off[i] = off[i + 1] + q[i].chars
  /\ \A i, j \in 1 .. Len(q) + 1 : i <= j => off[j] <= off[i]

ArgsStored(x, nul, slot, args, most) ==
  ~slot.err => /\ slot.argc = Len(args)
               /\ \A k \in 1 .. Len(args) : Stored(x, nul, slot.argv[k], args[k], most)

ArgsSoFar(x, nul, slot, args, open, most) ==
  ~slot.err => /\ \A k \in 1 .. Len(args) : k < Len(args) \/ ~open
                      => Stored(x, nul, slot.argv[k], args[k], most)
               /\ open => Growing(x, nul, slot.argv[Len(args)], args[Len(args)], most)

TextInv ==
  /\ held \in 0 .. RecvLength
  /\ \E off : /\ Begins(off, inflight, held, line.chars)
              /\ \A i \in 1 .. Len(inflight) :
                   ArgsStored(recv_buffer_idx, nul_cells, pending[Forward(read_idx, i)],
                              inflight[i].args, off[i])
  /\ state # "BEGIN" =>
       ArgsSoFar(recv_buffer_idx, nul_cells, Cur, line.args, line.open, line.chars)

(* A character goes into the buffer: text or NUL, over the oldest cell.    *)
Written(x, nul, y, new) ==
  /\ x \in Cells /\ y = Wrap(x, RecvLength)
  /\ \A c \in Cells : c # x => (c \in new <=> c \in nul)

LEMMA AgoIs ==
  ASSUME NEW x, NEW nul, NEW y, NEW new, Written(x, nul, y, new)
  PROVE  /\ Ago(x, 0) = x
         /\ \A b \in 0 .. RecvLength - 1 :
              /\ Ago(x, b) \in Cells /\ Ago(y, b + 1) = Ago(x, b)
              /\ b > 0 => (Ago(x, b) \in new <=> Ago(x, b) \in nul)
<1>1. RecvLength \in Nat \ {0} /\ x \in 0 .. RecvLength - 1
  BY ParserAssumption DEF Written, Cells
<1>2. ASSUME NEW b \in 0 .. RecvLength - 1
      PROVE  /\ Ago(x, b) \in Cells /\ Ago(y, b + 1) = Ago(x, b)
             /\ b > 0 => (Ago(x, b) \in new <=> Ago(x, b) \in nul)
  <2>1. Ago(x, b) \in Cells /\ (b > 0 => Ago(x, b) # x)
    BY <1>1 DEF Ago, Cells
  <2>2. Ago(y, b + 1) = Ago(x, b)
    BY <1>1 DEF Written, Wrap, Ago
  <2> QED BY <2>1, <2>2 DEF Written
<1> QED BY <1>1, <1>2 DEF Ago

LEMMA StoredStays ==
  ASSUME NEW x, NEW nul, NEW y, NEW new, Written(x, nul, y, new),
         NEW a, NEW len \in Nat, NEW most \in Nat, most < RecvLength, Stored(x, nul, a, len, most)
  PROVE  Stored(y, new, a, len, most + 1)
<1>1. PICK b \in 1 .. most : /\ b > len /\ a = Ago(x, b) /\ Ago(x, b - len) \in nul
                             /\ \A j \in b - len + 1 .. b : Ago(x, j) \notin nul
  BY DEF Stored
<1>2. /\ b \in Int /\ b + 1 \in 1 .. most + 1 /\ b + 1 > len /\ b - len \in 1 .. RecvLength - 1
      /\ (b + 1) - len = (b - len) + 1 /\ b \in 0 .. RecvLength - 1 /\ RecvLength \in Nat
  BY <1>1, ParserAssumption
<1>3. a = Ago(y, b + 1)
  BY <1>1, <1>2, AgoIs
<1>4. Ago(y, (b + 1) - len) \in new
  <2>1. b - len \in 0 .. RecvLength - 1 /\ b - len > 0
    BY <1>2
  <2>2. Ago(y, (b - len) + 1) = Ago(x, b - len) /\ Ago(x, b - len) \in new
    BY <1>1, <2>1, AgoIs
  <2> QED BY <1>2, <2>2
<1>5. ASSUME NEW j \in (b + 1) - len + 1 .. b + 1 PROVE Ago(y, j) \notin new
  <2> DEFINE i == j - 1
  <2>1. i \in b - len + 1 .. b /\ i \in 0 .. RecvLength - 1 /\ i > 0 /\ j = i + 1
    BY <1>2
  <2> HIDE DEF i
  <2>2. Ago(x, i) \notin nul
    BY <1>1, <2>1
  <2>3. Ago(y, i + 1) = Ago(x, i) /\ Ago(x, i) \notin new
    BY <2>1, <2>2, AgoIs
  <2> QED BY <2>1, <2>3
<1> QED BY <1>2, <1>3, <1>4, <1>5 DEF Stored

LEMMA GrowingEnds ==
  ASSUME NEW x, NEW nul, NEW y, NEW new, Written(x, nul, y, new), x \in new,
         NEW a, NEW len \in Nat, NEW most \in Nat, most < RecvLength, Growing(x, nul, a, len, most)
  PROVE  Stored(y, new, a, len, most + 1)
<1>1. /\ len + 1 \in 1 .. most + 1 /\ len + 1 > len /\ (len + 1) - len = 0 + 1 /\ len \in 0 .. RecvLength - 1
      /\ 0 \in 0 .. RecvLength - 1 /\ (len + 1) - len + 1 = 2 /\ RecvLength \in Nat /\ len < RecvLength
  BY ParserAssumption DEF Growing
<1>2. a = Ago(y, len + 1)
  BY <1>1, AgoIs DEF Growing
<1>3. Ago(y, 0 + 1) \in new
  BY <1>1, AgoIs
<1>4. ASSUME NEW j \in 2 .. len + 1 PROVE Ago(y, j) \notin new
  <2> DEFINE i == j - 1
  <2>1. i \in 1 .. len /\ i \in 0 .. RecvLength - 1 /\ i > 0 /\ j = i + 1
    BY <1>1
  <2> HIDE DEF i
  <2>2. Ago(x, i) \notin nul
    BY <2>1 DEF Growing
  <2>3. Ago(y, i + 1) = Ago(x, i) /\ Ago(x, i) \notin new
    BY <2>1, <2>2, AgoIs
  <2> QED BY <2>1, <2>3
<1> QED BY <1>1, <1>2, <1>3, <1>4 DEF Stored

(* With len = 0 for the first character of an argument.                    *)
LEMMA GrowingGoesOn ==
  ASSUME NEW x, NEW nul, NEW y, NEW new, Written(x, nul, y, new), x \notin new,
         NEW a, NEW len \in Nat, NEW most \in Nat, most < RecvLength, Growing(x, nul, a, len, most)
  PROVE  Growing(y, new, a, len + 1, most + 1)
<1>1. len + 1 <= most + 1 /\ len \in 0 .. RecvLength - 1 /\ 0 \in 0 .. RecvLength - 1 /\ RecvLength \in Nat /\ len < RecvLength
  BY ParserAssumption DEF Growing
<1>2. a = Ago(y, len + 1)
  BY <1>1, AgoIs DEF Growing
<1>3. ASSUME NEW j \in 1 .. len + 1 PROVE Ago(y, j) \notin new
  <2> DEFINE i == j - 1
  <2>1. i \in 0 .. len /\ i \in 0 .. RecvLength - 1 /\ j = i + 1 /\ (i = 0 \/ (i > 0 /\ i \in 1 .. len))
    BY <1>1
  <2> HIDE DEF i
  <2>2. Ago(y, i + 1) = Ago(x, i)
    BY <2>1, AgoIs
  <2>3. CASE i = 0
    BY <1>1, <2>1, <2>2, <2>3, AgoIs
  <2>4. CASE i > 0 /\ i \in 1 .. len
    <3>1. Ago(x, i) \notin nul
      BY <2>4 DEF Growing
    <3> QED BY <2>1, <2>2, <2>4, <3>1, AgoIs
  <2> QED BY <2>1, <2>3, <2>4
<1> QED BY <1>1, <1>2, <1>3 DEF Growing

LEMMA GrowingStarts ==
  ASSUME NEW x \in Cells, NEW nul, NEW most \in Nat PROVE Growing(x, nul, x, 0, most)
BY DEF Growing, Ago, Cells

LEMMA BeginsMost ==
  ASSUME NEW q \in Seq(Typing), NEW h, NEW m, NEW off, Begins(off, q, h, m)
  PROVE  /\ \A i \in 1 .. Len(q) : off[i] \in Nat /\ off[i] <= h
         /\ h \in Nat /\ m \in Nat /\ m <= h
<1>1. Len(q) \in Nat /\ 1 \in 1 .. Len(q) + 1 /\ Len(q) + 1 \in 1 .. Len(q) + 1
  OBVIOUS
<1>2. \A j \in 1 .. Len(q) + 1 : off[j] \in Nat /\ off[j] <= off[1]
  BY <1>1 DEF Begins
<1> QED BY <1>1, <1>2 DEF Begins

LEMMA BeginsMove ==
  ASSUME NEW q \in Seq(Typing), NEW h, NEW m, NEW off, Begins(off, q, h, m)
  PROVE  Begins([i \in 1 .. Len(q) + 1 |-> off[i] + 1], q, h + 1, m + 1)
<1> DEFINE new == [i \in 1 .. Len(q) + 1 |-> off[i] + 1]
<1>1. Len(q) \in Nat /\ \A i \in 1 .. Len(q) : i \in 1 .. Len(q) + 1 /\ i + 1 \in 1 .. Len(q) + 1 /\ q[i].chars \in Nat
  <2>1. Len(q) \in Nat /\ \A i \in 1 .. Len(q) : q[i] \in Typing
    OBVIOUS
  <2> QED BY <2>1 DEF Typing
<1>2. \A i \in 1 .. Len(q) + 1 : off[i] \in Nat /\ new[i] = off[i] + 1
  BY DEF Begins
<1>3. new \in [1 .. Len(q) + 1 -> Nat]
  BY <1>2
<1>4. 1 \in 1 .. Len(q) + 1 /\ Len(q) + 1 \in 1 .. Len(q) + 1
  BY <1>1
<1> HIDE DEF new
<1>5. \A i \in 1 .. Len(q) : new[i] = new[i + 1] + q[i].chars
  BY <1>1, <1>2 DEF Begins
<1>6. \A i, j \in 1 .. Len(q) + 1 : i <= j => new[j] <= new[i]
  BY <1>2 DEF Begins
<1>7. Begins(new, q, h + 1, m + 1)
  BY <1>2, <1>3, <1>4, <1>5, <1>6 DEF Begins
<1> QED BY <1>7 DEF new

LEMMA BeginsEnd ==
  ASSUME NEW q \in Seq(Typing), NEW h, NEW m, NEW off, Begins(off, q, h, m),
         NEW l \in Typing, l.chars = m + 1
  PROVE  Begins([i \in 1 .. (Len(q) + 1) + 1 |-> IF i <= Len(q) + 1 THEN off[i] + 1 ELSE 0], Append(q, l), h + 1, 0)
<1> DEFINE n == Len(q) + 1
           new == [i \in 1 .. n + 1 |-> IF i <= n THEN off[i] + 1 ELSE 0]
           p == Append(q, l)
<1>1. /\ n \in Nat /\ Len(p) = n /\ Len(q) \in Nat /\ Len(q) = n - 1 /\ n \in 1 .. n /\ 1 \in 1 .. n
      /\ p[n] = l /\ \A i \in 1 .. n - 1 : p[i] = q[i] /\ q[i] \in Typing
  OBVIOUS
<1>0. \A i \in 1 .. n : off[i] \in Nat
  BY DEF Begins
<1> HIDE DEF n, p
<1>2. \A i \in 1 .. n : off[i] \in Nat /\ new[i] = off[i] + 1
  BY <1>0, <1>1
<1>3. new[n + 1] = 0 /\ new \in [1 .. n + 1 -> Nat]
  <2>1. n + 1 \in 1 .. n + 1 /\ ~(n + 1 <= n)
    BY <1>1
  <2>2. \A i \in 1 .. n + 1 : ~(i <= n) => new[i] = 0
    OBVIOUS
  <2>3. \A i \in 1 .. n + 1 : new[i] \in Nat
    <3>1. \A i \in 1 .. n + 1 : i <= n => i \in 1 .. n
      BY <1>1
    <3>2. \A i \in 1 .. n : off[i] + 1 \in Nat
      BY <1>0
    <3> QED BY <3>1, <3>2
  <2> QED BY <2>1, <2>2, <2>3
<1>4. off[1] = h /\ off[n] = m
  BY DEF Begins, n
<1>5. \A i \in 1 .. n - 1 : i \in 1 .. n /\ i + 1 \in 1 .. n /\ off[i] = off[i + 1] + q[i].chars /\ q[i].chars \in Nat
  <2>1. \A i \in 1 .. n - 1 : i \in 1 .. n /\ i + 1 \in 1 .. n /\ i \in 1 .. Len(q)
    BY <1>1
  <2> QED BY <1>1, <2>1 DEF Begins, Typing
<1>6. \A i, j \in 1 .. n : i <= j => off[j] <= off[i]
  BY DEF Begins, n
<1> HIDE DEF new
<1>7. \A i \in 1 .. n : new[i] = new[i + 1] + p[i].chars
  <2>1. ASSUME NEW i \in 1 .. n - 1 PROVE new[i] = new[i + 1] + p[i].chars
    <3>1. i \in 1 .. n /\ i + 1 \in 1 .. n /\ off[i] = off[i + 1] + q[i].chars /\ q[i].chars \in Nat /\ p[i] = q[i]
      BY <1>1, <1>5
    <3>2. new[i] = off[i] + 1 /\ new[i + 1] = off[i + 1] + 1 /\ off[i] \in Nat /\ off[i + 1] \in Nat
      BY <1>2, <3>1
    <3> QED BY <3>1, <3>2
  <2>2. new[n] = new[n + 1] + p[n].chars
    BY <1>1, <1>2, <1>3, <1>4
  <2> QED BY <1>1, <2>1, <2>2
<1>8. \A i, j \in 1 .. n + 1 : i <= j => new[j] <= new[i]
  <2>1. \A i \in 1 .. n + 1 : new[i] \in Nat
    BY <1>3
  <2>2. ASSUME NEW i \in 1 .. n + 1, NEW j \in 1 .. n + 1, i <= j PROVE new[j] <= new[i]
    <3>1. CASE j = n + 1
      BY <1>3, <2>1, <3>1
    <3>2. CASE j # n + 1
      <4>1. i \in 1 .. n /\ j \in 1 .. n
        BY <1>1, <2>2, <3>2
      <4> QED BY <1>2, <1>6, <2>2, <4>1
    <3> QED BY <3>1, <3>2
  <2> QED BY <2>2
<1>9. Begins(new, p, h + 1, 0)
  BY <1>1, <1>2, <1>3, <1>4, <1>7, <1>8 DEF Begins
<1> QED BY <1>9 DEF new, p, n

LEMMA BeginsNext ==
  ASSUME NEW q \in Seq(Typing), NEW h, NEW m, NEW off, Begins(off, q, h, m), q # << >>
  PROVE  /\ Begins([i \in 1 .. Len(q) |-> off[i + 1]], Tail(q), h - Head(q).chars, m)
         /\ h - Head(q).chars <= h
<1> DEFINE new == [i \in 1 .. Len(q) |-> off[i + 1]]
           n == Len(q)
           p == Tail(q)
<1>1. /\ n \in Nat /\ n >= 1 /\ Len(p) = n - 1 /\ Len(p) + 1 = n /\ Head(q) = q[1] /\ q[1] \in Typing
      /\ \A i \in 1 .. n - 1 : p[i] = q[i + 1]
  OBVIOUS
<1>2. \A i \in 1 .. n : i + 1 \in 1 .. n + 1 /\ off[i + 1] \in Nat /\ new[i] = off[i + 1]
  BY <1>1 DEF Begins
<1>3. new \in [1 .. n -> Nat]
  BY <1>2
<1>4. /\ \A i \in 1 .. n : off[i] = off[i + 1] + q[i].chars
      /\ \A i, j \in 1 .. n + 1 : i <= j => off[j] <= off[i]
      /\ off[1] = h /\ off[n + 1] = m
  BY DEF Begins
<1>5. q[1].chars \in Nat /\ 1 \in 1 .. n /\ n \in 1 .. n
  BY <1>1 DEF Typing
<1> HIDE DEF new, n, p
<1>6. new[1] = h - Head(q).chars /\ new[n] = m /\ h - Head(q).chars <= h
  <2>1. off[1] = off[1 + 1] + q[1].chars /\ new[1] = off[1 + 1] /\ off[1 + 1] \in Nat
    BY <1>2, <1>4, <1>5
  <2> QED BY <1>1, <1>2, <1>4, <1>5, <2>1
<1>7. ASSUME NEW i \in 1 .. n - 1 PROVE new[i] = new[i + 1] + p[i].chars
  <2>1. i \in 1 .. n /\ i + 1 \in 1 .. n
    BY <1>1
  <2> QED BY <1>1, <1>2, <1>4, <2>1
<1>8. ASSUME NEW i \in 1 .. n, NEW j \in 1 .. n, i <= j PROVE new[j] <= new[i]
  <2>1. i + 1 <= j + 1
    BY <1>1, <1>8
  <2> QED BY <1>2, <1>4, <2>1
<1>9. Begins(new, p, h - Head(q).chars, m)
  BY <1>1, <1>3, <1>6, <1>7, <1>8 DEF Begins
<1> QED BY <1>6, <1>9 DEF new, p, n

-----------------------------------------------------------------------------
(***************************************************************************)
(* What a character leaves stored.                                         *)
(***************************************************************************)
LEMMA ArgsStay ==
  ASSUME NEW x, NEW nul, NEW y, NEW new, Written(x, nul, y, new), NEW most \in Nat, most < RecvLength,
         NEW args \in Seq(Nat), NEW slot, NEW after,
         after.err = slot.err, after.argc = slot.argc, after.argv = slot.argv,
         ArgsStored(x, nul, slot, args, most)
  PROVE  ArgsStored(y, new, after, args, most + 1)
<1>1. ASSUME ~slot.err, NEW k \in 1 .. Len(args) PROVE Stored(y, new, slot.argv[k], args[k], most + 1)
  BY <1>1, StoredStays DEF ArgsStored
<1>2. ~after.err <=> ~slot.err
  OBVIOUS
<1> QED BY <1>1, <1>2 DEF ArgsStored

LEMMA HostCounts ==
  ASSUME RingInv, TextInv, NEW c \in Char, HostTypes(c)
  PROVE  /\ held \in Nat /\ held < RecvLength /\ line.chars \in Nat /\ line.chars <= held
         /\ IF IsLast(c)
            THEN inflight' = Append(inflight, LineWith(c)) /\ line' = NoLine /\ held' = held + 1
            ELSE /\ held < RecvLength - 1
                 /\ \/ /\ UNCHANGED host /\ c # "letter" /\ line.args = << >> /\ Len(inflight) = 0
                    \/ line' = LineWith(c) /\ held' = held + 1 /\ inflight' = inflight
         /\ LineWith(c).chars = line.chars + 1
<1>1. held \in Nat /\ line.chars \in Nat /\ line.chars <= held /\ RecvLength \in Nat
  <2>1. PICK off : Begins(off, inflight, held, line.chars)
    BY DEF TextInv
  <2>2. inflight \in Seq(Typing)
    BY DEF RingInv, RingType
  <2> QED BY <2>1, <2>2, BeginsMost, ParserAssumption
<1>2. LineWith(c).chars = line.chars + 1
  BY DEF LineWith
<1>3. Len(<< >>) = 0
  OBVIOUS
<1> QED BY <1>1, <1>2, <1>3 DEF HostTypes, MayType

LEMMA ReceiveWrites ==
  ASSUME RingInv, NEW c \in Char, Receive(c)
  PROVE  /\ Written(recv_buffer_idx, nul_cells, recv_buffer_idx', nul_cells')
         /\ c = "letter" => recv_buffer_idx \notin nul_cells'
         /\ EndOfCommand(c) \/ EndOfArg(c) => recv_buffer_idx \in nul_cells'
<1>1. recv_buffer_idx \in Cells /\ recv_buffer_idx' = Wrap(recv_buffer_idx, RecvLength)
  BY DEF RingInv, RingType, Receive
<1>2. \/ nul_cells' = nul_cells \cup {recv_buffer_idx} /\ c # "letter"
      \/ nul_cells' = nul_cells \ {recv_buffer_idx} /\ ~EndOfCommand(c) /\ ~EndOfArg(c)
  BY DEF Receive, EndOfCommand, SkipSpace, FirstArg, InArg, EndOfArg, BetweenArgs, NextArg, StoreNul, StoreText
<1> QED BY <1>1, <1>2 DEF Written

(* The slot of a line in flight is not the one being filled.               *)
LEMMA OtherSlots ==
  ASSUME Window < MaxPending, RingInv, NEW i \in 1 .. Len(inflight)
  PROVE  Forward(read_idx, i) \in Slots /\ Forward(read_idx, i) # write_idx
<1>1. RingType /\ InRing
  BY DEF RingInv
<1>2. i \in 1 .. MaxPending /\ Len(inflight) + 1 \in 1 .. MaxPending /\ i # Len(inflight) + 1
  BY <1>1, ParserAssumption DEF InRing, RingType
<1> QED BY <1>1, <1>2, ForwardFacts DEF InRing, RingType

(* Within a line: the lines in flight stay, the line being typed grows.    *)
LEMMA TextMoves ==
  ASSUME Window < MaxPending, RingInv, TextInv, NEW c \in Char, Receive(c), ~IsLast(c),
         NEW slot, Fill(slot),
         state' # "BEGIN" => /\ ~(UNCHANGED host /\ c # "letter" /\ line.args = << >>)
                             /\ ArgsSoFar(recv_buffer_idx', nul_cells', slot, LineWith(c).args,
                                          LineWith(c).open, line.chars + 1),
         UNCHANGED write_idx
  PROVE  TextInv'
<1> DEFINE x == recv_buffer_idx
<1>1. /\ HostTypes(c) /\ read_idx' = read_idx /\ RingType
      /\ write_idx \in Slots /\ pending \in [Slots -> Slot] /\ inflight \in Seq(Typing)
  BY DEF Receive, RingInv, RingType
<1>2. pending' = [pending EXCEPT ![write_idx] = slot]
  BY DEF Fill
<1>3. Cur' = slot
  BY <1>1, <1>2 DEF Cur
<1>4. held < RecvLength - 1 /\ held \in Nat /\ RecvLength \in Nat /\ line.chars \in Nat
      /\ LineWith(c).chars = line.chars + 1
  BY <1>1, HostCounts, ParserAssumption
<1>5. PICK off : /\ Begins(off, inflight, held, line.chars)
                 /\ \A i \in 1 .. Len(inflight) :
                      ArgsStored(x, nul_cells, pending[Forward(read_idx, i)], inflight[i].args, off[i])
  BY DEF TextInv
<1>6. CASE UNCHANGED host /\ c # "letter" /\ line.args = << >> /\ Len(inflight) = 0
  <2>1. state' = "BEGIN"
    BY <1>6
  <2>2. UNCHANGED <<line, inflight, held>>
    BY <1>6 DEF host
  <2>3. \A i \in 1 .. Len(inflight) : FALSE
    BY <1>6
  <2> QED BY <1>5, <2>1, <2>2, <2>3 DEF TextInv
<1>7. CASE line' = LineWith(c) /\ held' = held + 1 /\ inflight' = inflight
  <2> DEFINE new == [i \in 1 .. Len(inflight) + 1 |-> off[i] + 1]
  <2>1. Begins(new, inflight', held', line'.chars)
    BY <1>1, <1>4, <1>5, <1>7, BeginsMove
  <2>2. ASSUME NEW i \in 1 .. Len(inflight)
        PROVE  ArgsStored(x', nul_cells', pending'[Forward(read_idx', i)], inflight'[i].args, new[i])
    <3>1. Forward(read_idx, i) \in Slots /\ Forward(read_idx, i) # write_idx
      BY OtherSlots
    <3>2. pending'[Forward(read_idx', i)] = pending[Forward(read_idx, i)]
      BY <1>1, <1>2, <3>1
    <3>3. off[i] \in Nat /\ off[i] <= held /\ new[i] = off[i] + 1 /\ inflight[i].args \in Seq(Nat)
      <4>1. Len(inflight) \in Nat /\ i \in 1 .. Len(inflight) + 1 /\ inflight[i] \in Typing
        BY <1>1
      <4> QED BY <1>1, <1>5, <4>1, BeginsMost DEF Typing
    <3>4. ArgsStored(x, nul_cells, pending[Forward(read_idx, i)], inflight[i].args, off[i])
      BY <1>5
    <3>5. off[i] < RecvLength
      BY <1>4, <3>3
    <3>6. Written(x, nul_cells, x', nul_cells')
      BY ReceiveWrites
    <3> HIDE DEF x, new
    <3>7. ArgsStored(x', nul_cells', pending[Forward(read_idx, i)], inflight[i].args, off[i] + 1)
      BY <3>3, <3>4, <3>5, <3>6, ArgsStay
    <3> QED BY <1>7, <3>2, <3>3, <3>7
  <2> HIDE DEF new
  <2>3. held' \in 0 .. RecvLength
    BY <1>4, <1>7
  <2>4. ASSUME state' # "BEGIN"
        PROVE  ArgsSoFar(x', nul_cells', Cur', line'.args, line'.open, line'.chars)
    BY <1>3, <1>4, <1>7, <2>4
  <2> QED BY <1>7, <2>1, <2>2, <2>3, <2>4 DEF TextInv
<1> QED BY <1>1, <1>6, <1>7, HostCounts

(* How what is stored of the line being typed goes on.                     *)
LEMMA SoFarStays ==
  ASSUME NEW x, NEW nul, NEW y, NEW new, Written(x, nul, y, new), NEW most \in Nat, most < RecvLength,
         NEW args \in Seq(Nat), NEW slot, ArgsSoFar(x, nul, slot, args, FALSE, most)
  PROVE  ArgsSoFar(y, new, slot, args, FALSE, most + 1)
<1>1. ASSUME ~slot.err, NEW k \in 1 .. Len(args) PROVE Stored(y, new, slot.argv[k], args[k], most + 1)
  <2>1. Stored(x, nul, slot.argv[k], args[k], most) /\ args[k] \in Nat
    BY <1>1 DEF ArgsSoFar
  <2> QED BY <2>1, StoredStays
<1> QED BY <1>1 DEF ArgsSoFar

LEMMA SoFarEnds ==
  ASSUME NEW x, NEW nul, NEW y, NEW new, Written(x, nul, y, new), x \in new,
         NEW most \in Nat, most < RecvLength,
         NEW args \in Seq(Nat), Len(args) > 0, NEW slot, ArgsSoFar(x, nul, slot, args, TRUE, most),
         NEW after, after.argv = slot.argv, ~after.err => ~slot.err
  PROVE  ArgsSoFar(y, new, after, args, FALSE, most + 1)
<1>1. ASSUME ~after.err, NEW k \in 1 .. Len(args) PROVE Stored(y, new, slot.argv[k], args[k], most + 1)
  <2>1. ~slot.err /\ args[k] \in Nat
    BY <1>1
  <2>2. CASE k < Len(args)
    <3>1. Stored(x, nul, slot.argv[k], args[k], most)
      BY <2>1, <2>2 DEF ArgsSoFar
    <3> QED BY <2>1, <3>1, StoredStays
  <2>3. CASE k = Len(args)
    <3>1. Growing(x, nul, slot.argv[k], args[k], most)
      BY <2>1, <2>3 DEF ArgsSoFar
    <3> QED BY <2>1, <3>1, GrowingEnds
  <2> QED BY <2>2, <2>3
<1> QED BY <1>1 DEF ArgsSoFar

LEMMA SoFarGrows ==
  ASSUME NEW x, NEW nul, NEW y, NEW new, Written(x, nul, y, new), x \notin new,
         NEW most \in Nat, most < RecvLength,
         NEW args \in Seq(Nat), Len(args) > 0, NEW slot, ArgsSoFar(x, nul, slot, args, TRUE, most),
         NEW grown \in Seq(Nat), Len(grown) = Len(args), grown[Len(args)] = args[Len(args)] + 1,
         \A k \in 1 .. Len(args) - 1 : grown[k] = args[k],
         NEW after, after.argv = slot.argv, after.err = slot.err
  PROVE  ArgsSoFar(y, new, after, grown, TRUE, most + 1)
<1> DEFINE n == Len(args)
<1>1. n \in Nat /\ n \in 1 .. n /\ \A k \in 1 .. n : args[k] \in Nat
  OBVIOUS
<1>2. ASSUME ~after.err, NEW k \in 1 .. n, k < n PROVE Stored(y, new, slot.argv[k], grown[k], most + 1)
  <2>1. Stored(x, nul, slot.argv[k], args[k], most) /\ args[k] \in Nat /\ grown[k] = args[k]
    BY <1>1, <1>2 DEF ArgsSoFar
  <2>2. Stored(y, new, slot.argv[k], args[k], most + 1)
    BY <2>1, StoredStays
  <2> QED BY <2>1, <2>2
<1>3. ASSUME ~after.err PROVE Growing(y, new, slot.argv[n], grown[n], most + 1)
  <2>1. Growing(x, nul, slot.argv[n], args[n], most) /\ args[n] \in Nat
    BY <1>1, <1>3 DEF ArgsSoFar
  <2>2. Growing(y, new, slot.argv[n], args[n] + 1, most + 1)
    BY <2>1, GrowingGoesOn
  <2> QED BY <2>2
<1> HIDE DEF n
<1> QED BY <1>1, <1>2, <1>3 DEF ArgsSoFar, n

(* One more argument, which begins at x.                                   *)
Continues(x, nul, slot, args, after, most) ==
  ~after.err => /\ (ArgsSoFar(x, nul, slot, args, FALSE, most) /\ ~slot.err) \/ Len(args) = 0
                /\ after.argv[Len(args) + 1] = x
                /\ \A k \in 1 .. Len(args) : after.argv[k] = slot.argv[k]

LEMMA SoFarStarts ==
  ASSUME NEW x \in Cells, NEW nul, NEW y, NEW new, Written(x, nul, y, new), x \notin new,
         NEW most \in Nat, most < RecvLength,
         NEW args \in Seq(Nat), NEW slot,
         NEW more \in Seq(Nat), Len(more) = Len(args) + 1, more[Len(args) + 1] = 1,
         \A k \in 1 .. Len(args) : more[k] = args[k],
         NEW after,
         Continues(x, nul, slot, args, after, most)
  PROVE  ArgsSoFar(y, new, after, more, TRUE, most + 1)
<1> DEFINE n == Len(args)
<1>1. n \in Nat /\ \A k \in 1 .. n : args[k] \in Nat
  OBVIOUS
<1>2. ASSUME ~after.err, NEW k \in 1 .. n + 1, k < n + 1 PROVE Stored(y, new, after.argv[k], more[k], most + 1)
  <2>1. k \in 1 .. n /\ n # 0
    BY <1>1, <1>2
  <2>2. Stored(x, nul, slot.argv[k], args[k], most) /\ args[k] \in Nat /\ more[k] = args[k]
    BY <1>1, <1>2, <2>1 DEF ArgsSoFar, Continues
  <2>3. Stored(y, new, slot.argv[k], args[k], most + 1)
    BY <2>2, StoredStays
  <2>4. after.argv[k] = slot.argv[k]
    BY <1>2, <2>1 DEF Continues
  <2> QED BY <2>2, <2>3, <2>4
<1>3. ASSUME ~after.err PROVE Growing(y, new, after.argv[n + 1], more[n + 1], most + 1)
  <2>1. Growing(x, nul, x, 0, most)
    BY GrowingStarts
  <2>2. Growing(y, new, x, 0 + 1, most + 1)
    BY <2>1, GrowingGoesOn
  <2>3. 0 + 1 = 1
    OBVIOUS
  <2>4. after.argv[n + 1] = x /\ more[n + 1] = 1
    BY <1>3, Zenon DEF Continues
  <2> QED BY <2>2, <2>3, <2>4
<1>4. Len(more) = n + 1
  OBVIOUS
<1> HIDE DEF n
<1> QED BY <1>1, <1>2, <1>3, <1>4 DEF ArgsSoFar

LEMMA TextWithin ==
  ASSUME Window < MaxPending, RingInv, TextInv, NEW c \in Char, Receive(c), ~EndOfCommand(c)
  PROVE  TextInv'
<1> DEFINE x == recv_buffer_idx
           y == recv_buffer_idx'
           new == nul_cells'
           args == LineWith(c).args
           most == line.chars
<1>1. /\ Written(x, nul_cells, y, new) /\ HostTypes(c) /\ x \in Cells
      /\ c = "letter" => x \notin new
      /\ EndOfArg(c) => x \in new
  BY ReceiveWrites DEF Receive, RingInv, RingType
<1>2. most \in Nat /\ most < RecvLength
  <2>1. held \in Nat /\ held < RecvLength /\ most \in Nat /\ most <= held
    BY <1>1, HostCounts
  <2> QED BY <2>1, ParserAssumption
<1>3. RingType /\ Follows /\ line.args \in Seq(Nat) /\ Len(line.args) \in Nat /\ line.open \in BOOLEAN
  BY CurFacts DEF RingInv
<1>4. args \in Seq(Nat) /\ (LineWith(c).open <=> c = "letter") /\ LineWith(c).open \in BOOLEAN
  BY <1>3, LineWithFacts DEF Typing
<1>5. state # "BEGIN" => ArgsSoFar(x, nul_cells, Cur, line.args, line.open, most)
  BY DEF TextInv
<1>6. c = "letter" \/ Len(line.args) > 0 => ~(UNCHANGED host /\ c # "letter" /\ line.args = << >>)
  BY <1>3
<1>7. CASE SkipSpace(c)
  <2>1. ~IsLast(c) /\ Fill(Cur) /\ UNCHANGED write_idx /\ state' = "BEGIN"
    BY <1>3, <1>7, CurFacts DEF SkipSpace, Follows, IsLast
  <2> QED BY <2>1, TextMoves
<1>8. CASE FirstArg(c)
  <2> DEFINE slot == [argc |-> 1, argv |-> <<x>>, length |-> 1, err |-> NoErr, ready |-> Cur.ready]
  <2>1. ~IsLast(c) /\ Fill(slot) /\ UNCHANGED write_idx /\ c = "letter"
    BY <1>8 DEF FirstArg, IsLast
  <2>2. ~line.open /\ Len(line.args) = 0
    BY <1>3, <1>8 DEF Follows, FirstArg
  <2>3. Len(args) = Len(line.args) + 1 /\ args[Len(line.args) + 1] = 1 /\ \A k \in 1 .. Len(line.args) : args[k] = line.args[k]
    BY <1>3, <2>1, <2>2, LineWithFacts
  <2>4. slot.argv[Len(line.args) + 1] = x /\ \A k \in 1 .. Len(line.args) : slot.argv[k] = Cur.argv[k]
    BY <2>2
  <2> HIDE DEF slot, args, x, y, new, most
  <2>5. ArgsSoFar(y, new, slot, args, TRUE, most + 1)
    <3>1. Continues(x, nul_cells, Cur, line.args, slot, most)
      BY <2>2, <2>4 DEF Continues
    <3> QED BY <1>1, <1>2, <1>3, <1>4, <2>1, <2>3, <3>1, SoFarStarts
  <2>6. LineWith(c).open = TRUE
    BY <1>4, <2>1
  <2> QED BY <1>6, <2>1, <2>5, <2>6, TextMoves DEF args, x, y, new, most
<1>9. CASE InArg(c)
  <2> DEFINE slot == [Cur EXCEPT !.length = @ + 1]
  <2>1. ~IsLast(c) /\ Fill(slot) /\ UNCHANGED write_idx /\ c = "letter" /\ state = "LOOKING_FOR_SPACE"
    BY <1>9 DEF InArg, IsLast
  <2>2. line.open = TRUE /\ Len(line.args) > 0
    BY <1>3, <2>1 DEF Follows
  <2>3. /\ Len(args) = Len(line.args) /\ args[Len(line.args)] = line.args[Len(line.args)] + 1
        /\ \A k \in 1 .. Len(line.args) - 1 : args[k] = line.args[k]
    BY <1>3, <2>1, <2>2, LineWithFacts
  <2>4. slot.argv = Cur.argv /\ slot.err = Cur.err
    BY CurFacts DEF Slot
  <2>5. ArgsSoFar(x, nul_cells, Cur, line.args, TRUE, most)
    BY <1>5, <2>1, <2>2
  <2> HIDE DEF slot, args, x, y, new, most
  <2>6. ArgsSoFar(y, new, slot, args, TRUE, most + 1)
    BY <1>1, <1>2, <1>3, <1>4, <2>1, <2>2, <2>3, <2>4, <2>5, SoFarGrows
  <2>7. LineWith(c).open = TRUE
    BY <1>4, <2>1
  <2> QED BY <1>6, <2>1, <2>6, <2>7, TextMoves DEF args, x, y, new, most
<1>10. CASE EndOfArg(c)
  <2> DEFINE slot == [Cur EXCEPT !.err = TooLong(Cur)]
  <2>1. ~IsLast(c) /\ Fill(slot) /\ UNCHANGED write_idx /\ c # "letter" /\ state = "LOOKING_FOR_SPACE"
    BY <1>10 DEF EndOfArg, IsLast
  <2>2. line.open = TRUE /\ Len(line.args) > 0
    BY <1>3, <2>1 DEF Follows
  <2>3. args = line.args
    BY <1>3, <2>1, LineWithFacts
  <2>4. slot.argv = Cur.argv /\ (~slot.err => ~Cur.err)
    BY CurFacts DEF Slot, TooLong
  <2>5. ArgsSoFar(x, nul_cells, Cur, line.args, TRUE, most)
    BY <1>5, <2>1, <2>2
  <2> HIDE DEF slot, args, x, y, new, most
  <2>6. ArgsSoFar(y, new, slot, args, FALSE, most + 1)
    BY <1>1, <1>2, <1>3, <1>10, <2>2, <2>3, <2>4, <2>5, SoFarEnds
  <2>7. LineWith(c).open = FALSE
    BY <1>4, <2>1
  <2> QED BY <1>6, <2>1, <2>2, <2>6, <2>7, TextMoves DEF args, x, y, new, most
<1>11. CASE BetweenArgs(c)
  <2>1. ~IsLast(c) /\ Fill(Cur) /\ UNCHANGED write_idx /\ c # "letter" /\ state = "LOOKING_FOR_CHAR"
    BY <1>11, CurFacts DEF BetweenArgs, IsLast
  <2>2. line.open = FALSE /\ Len(line.args) > 0
    BY <1>3, <2>1 DEF Follows
  <2>3. args = line.args
    BY <1>3, <2>1, LineWithFacts
  <2>4. ArgsSoFar(x, nul_cells, Cur, line.args, FALSE, most)
    BY <1>5, <2>1, <2>2
  <2> HIDE DEF args, x, y, new, most
  <2>5. ArgsSoFar(y, new, Cur, args, FALSE, most + 1)
    BY <1>1, <1>2, <1>3, <2>3, <2>4, SoFarStays
  <2>6. LineWith(c).open = FALSE
    BY <1>4, <2>1
  <2> QED BY <1>6, <2>1, <2>2, <2>5, <2>6, TextMoves DEF args, x, y, new, most
<1>12. CASE NextArg(c)
  <2> DEFINE full == Cur.argc + 1 > MaxArgc
             before == SubSeq(Cur.argv, 1, Cur.argc)
             slot == [Cur EXCEPT
                       !.argc = IF full THEN 0 ELSE @ + 1,
                       !.argv = IF full THEN @ ELSE before \o <<x>>,
                       !.length = 1,
                       !.err = @ \/ full]
  <2>1. ~IsLast(c) /\ Fill(slot) /\ UNCHANGED write_idx /\ c = "letter" /\ state = "LOOKING_FOR_CHAR"
    BY <1>12 DEF NextArg, IsLast
  <2>2. line.open = FALSE /\ Len(line.args) > 0
    BY <1>3, <2>1 DEF Follows
  <2>3. Len(args) = Len(line.args) + 1 /\ args[Len(line.args) + 1] = 1 /\ \A k \in 1 .. Len(line.args) : args[k] = line.args[k]
    BY <1>3, <2>1, <2>2, LineWithFacts
  <2>4. slot.err = (Cur.err \/ full) /\ slot.argv = (IF full THEN Cur.argv ELSE before \o <<x>>)
    BY CurFacts DEF Slot
  <2>5. ASSUME ~slot.err
        PROVE  /\ ArgsSoFar(x, nul_cells, Cur, line.args, FALSE, most) /\ ~Cur.err
               /\ slot.argv[Len(line.args) + 1] = x
               /\ \A k \in 1 .. Len(line.args) : slot.argv[k] = Cur.argv[k]
    <3>1. ~Cur.err /\ ~full /\ slot.argv = before \o <<x>>
      BY <2>4, <2>5
    <3>2. Cur.argc = Len(line.args)
      BY <2>1, <3>1 DEF RingInv, Filling, Checked
    <3>3. /\ before \in Seq(Cells) /\ Len(before) = Cur.argc
          /\ \A k \in 1 .. Cur.argc : before[k] = Cur.argv[k]
      BY CurFacts
    <3> HIDE DEF before, slot
    <3>4. (before \o <<x>>)[Cur.argc + 1] = x /\ \A k \in 1 .. Cur.argc : (before \o <<x>>)[k] = before[k]
      BY <1>3, <3>2, <3>3
    <3>5. ArgsSoFar(x, nul_cells, Cur, line.args, FALSE, most)
      BY <1>5, <2>1, <2>2
    <3> QED BY <3>1, <3>2, <3>3, <3>4, <3>5
  <2> HIDE DEF slot, args, x, y, new, most
  <2>6. ArgsSoFar(y, new, slot, args, TRUE, most + 1)
    <3>1. Continues(x, nul_cells, Cur, line.args, slot, most)
      BY <2>5 DEF Continues
    <3>2. x \notin new /\ Written(x, nul_cells, y, new) /\ x \in Cells
      BY <1>1, <2>1
    <3>3. Len(args) = Len(line.args) + 1 /\ args[Len(line.args) + 1] = 1 /\ (\A k \in 1 .. Len(line.args) : args[k] = line.args[k])
      BY <2>3
    <3> QED BY <1>2, <1>3, <1>4, <3>1, <3>2, <3>3, SoFarStarts, Zenon
  <2>7. LineWith(c).open = TRUE
    BY <1>4, <2>1
  <2> QED BY <1>6, <2>1, <2>6, <2>7, TextMoves DEF args, x, y, new, most
<1> QED
  BY <1>7, <1>8, <1>9, <1>10, <1>11, <1>12 DEF Receive

(* The end of a line: its text is stored whole.                            *)
LEMMA TextEnd ==
  ASSUME Window < MaxPending, RingInv, TextInv, NEW c \in Char, Receive(c), EndOfCommand(c)
  PROVE  TextInv'
<1> DEFINE x == recv_buffer_idx
           y == recv_buffer_idx'
           new == nul_cells'
           n == Len(inflight) + 1
           w == Wrap(write_idx, MaxPending)
           done == LineWith(c)
           filled == [Cur EXCEPT !.err = TooLong(Cur), !.ready = TRUE]
           most == line.chars
<1>1. /\ RingType /\ Follows /\ InRing /\ read_idx' = read_idx
      /\ c = "newline" /\ state # "BEGIN" /\ state' = "BEGIN"
      /\ Written(x, nul_cells, y, new) /\ HostTypes(c) /\ x \in new
  BY ReceiveWrites DEF RingInv, Receive, EndOfCommand
<1>2. line.args \in Seq(Nat) /\ Len(line.args) > 0 /\ inflight \in Seq(Typing) /\ Len(inflight) \in Nat /\ line.open \in BOOLEAN
  BY <1>1 DEF RingType, Follows, Typing
<1>3. IsLast(c)
  BY <1>1, <1>2 DEF IsLast
<1>4. /\ inflight' = Append(inflight, done) /\ line' = NoLine /\ held' = held + 1
      /\ held \in Nat /\ held < RecvLength /\ most \in Nat /\ most <= held /\ done.chars = most + 1
  BY <1>1, <1>3, HostCounts
<1>5. most < RecvLength /\ held' \in 0 .. RecvLength /\ RecvLength \in Nat
  BY <1>4, ParserAssumption
<1>6. done \in Typing /\ done.args = line.args
  BY <1>1, LineWithFacts
<1>7. n \in 1 .. MaxPending /\ n + 1 \in 1 .. MaxPending /\ n < MaxPending
  BY <1>1, <1>2, <1>3, ParserAssumption DEF HostTypes, MayType
<1>8. write_idx = Forward(read_idx, n) /\ w = Forward(read_idx, n + 1) /\ w \in Slots /\ w # write_idx /\ write_idx \in Slots
  BY <1>1, <1>7, ForwardFacts DEF InRing, RingType
<1>9. /\ pending'[write_idx] = filled
      /\ \A s \in Slots : s # write_idx /\ s # w => pending'[s] = pending[s]
  <2>1. pending' = [pending EXCEPT ![write_idx] = filled, ![w] = [pending[w] EXCEPT !.ready = FALSE]]
    BY <1>1, <1>8 DEF EndOfCommand, Invalidate, Cur, RingType
  <2> HIDE DEF filled, w
  <2> QED BY <1>1, <1>8, <2>1 DEF RingType
<1>10. filled.argv = Cur.argv /\ filled.argc = Cur.argc /\ (~filled.err => ~Cur.err)
  BY CurFacts DEF Slot, TooLong
<1>11. PICK off : /\ Begins(off, inflight, held, line.chars)
                  /\ \A i \in 1 .. Len(inflight) :
                       ArgsStored(x, nul_cells, pending[Forward(read_idx, i)], inflight[i].args, off[i])
  BY DEF TextInv
<1> DEFINE offs == [i \in 1 .. (Len(inflight) + 1) + 1 |-> IF i <= Len(inflight) + 1 THEN off[i] + 1 ELSE 0]
<1>12. Begins(offs, inflight', held', line'.chars)
  <2>1. Begins(offs, Append(inflight, done), held + 1, 0)
    BY <1>2, <1>4, <1>6, <1>11, BeginsEnd
  <2>2. NoLine.chars = 0
    BY DEF NoLine
  <2> QED BY <1>4, <2>1, <2>2
<1>13. /\ Len(inflight') = n /\ inflight'[n] = done
       /\ \A i \in 1 .. Len(inflight) : inflight'[i] = inflight[i]
  BY <1>2, <1>4, <1>6
<1>14. ASSUME NEW i \in 1 .. Len(inflight)
       PROVE  ArgsStored(y, new, pending'[Forward(read_idx, i)], inflight'[i].args, offs[i])
  <2>1. Forward(read_idx, i) \in Slots /\ Forward(read_idx, i) # write_idx
    BY OtherSlots
  <2>2. Forward(read_idx, i) # w
    <3>1. i \in 1 .. MaxPending /\ i # n + 1
      BY <1>2, <1>7, ParserAssumption
    <3>2. read_idx \in Slots
      BY <1>1 DEF RingType
    <3> HIDE DEF n, w
    <3> QED BY <1>7, <1>8, <3>1, <3>2, ForwardFacts
  <2>3. off[i] \in Nat /\ off[i] <= held /\ inflight[i].args \in Seq(Nat)
    <3>1. inflight[i] \in Typing
      BY <1>2
    <3> QED BY <1>2, <1>11, <3>1, BeginsMost DEF Typing
  <2>4. offs[i] = off[i] + 1 /\ off[i] < RecvLength
    BY <1>2, <1>4, <1>5, <2>3
  <2>5. ArgsStored(x, nul_cells, pending[Forward(read_idx, i)], inflight[i].args, off[i])
    BY <1>11
  <2> HIDE DEF x, y, new, offs, w, filled
  <2>6. ArgsStored(y, new, pending[Forward(read_idx, i)], inflight[i].args, off[i] + 1)
    BY <1>1, <2>3, <2>4, <2>5, ArgsStay
  <2> QED BY <1>9, <1>13, <2>1, <2>2, <2>4, <2>6
<1>15. ArgsStored(y, new, pending'[Forward(read_idx, n)], inflight'[n].args, offs[n])
  <2>1. off[n] = most
    BY <1>11 DEF Begins
  <2>2. offs[n] = most + 1
    BY <1>2, <2>1
  <2>3. ArgsSoFar(x, nul_cells, Cur, line.args, line.open, most)
    BY <1>1 DEF TextInv
  <2>4. ~Cur.err => Cur.argc = Len(line.args)
    BY <1>1 DEF RingInv, Filling, Checked
  <2> HIDE DEF x, y, new, offs, filled, most
  <2>5. ArgsSoFar(y, new, filled, line.args, FALSE, most + 1)
    <3>1. CASE line.open
      <4>1. ArgsSoFar(x, nul_cells, Cur, line.args, TRUE, most)
        BY <1>2, <2>3, <3>1
      <4> QED BY <1>1, <1>2, <1>4, <1>5, <1>10, <4>1, SoFarEnds
    <3>2. CASE ~line.open
      <4>1. ArgsSoFar(x, nul_cells, Cur, line.args, FALSE, most)
        BY <1>2, <2>3, <3>2
      <4>2. ArgsSoFar(y, new, Cur, line.args, FALSE, most + 1)
        BY <1>1, <1>2, <1>4, <1>5, <4>1, SoFarStays
      <4> QED BY <1>10, <4>2 DEF ArgsSoFar
    <3> QED BY <1>2, <3>1, <3>2
  <2>6. ArgsStored(y, new, filled, line.args, most + 1)
    BY <1>10, <2>4, <2>5 DEF ArgsSoFar, ArgsStored
  <2> QED BY <1>6, <1>8, <1>9, <1>13, <2>2, <2>6
<1>16. ASSUME NEW i \in 1 .. Len(inflight')
       PROVE  ArgsStored(y, new, pending'[Forward(read_idx', i)], inflight'[i].args, offs[i])
  <2>1. i = n \/ i \in 1 .. Len(inflight)
    BY <1>2, <1>13
  <2> HIDE DEF offs, n
  <2> QED BY <1>1, <1>14, <1>15, <2>1
<1> HIDE DEF offs
<1> QED BY <1>1, <1>5, <1>12, <1>16 DEF TextInv

(***************************************************************************)
(* The oldest line goes; those behind it begin where they did.             *)
(***************************************************************************)
LEMMA TextExec ==
  ASSUME Window < MaxPending, RingInv, TextInv, Exec PROVE TextInv'
<1> DEFINE r == Wrap(read_idx, MaxPending)
           len == Len(inflight)
           x == recv_buffer_idx
<1>1. /\ RingType /\ Follows /\ InRing /\ read_idx' = r
      /\ UNCHANGED <<state, write_idx, nul_cells, recv_buffer_idx>>
      /\ pending[read_idx].ready /\ pending' = [pending EXCEPT ![read_idx] = Consumed(@)]
      /\ inflight' = Tail(inflight)
  BY DEF RingInv, Exec, OldestSlot
<1>2. len \in Nat \ {0} /\ len + 1 \in 1 .. MaxPending /\ inflight \in Seq(Typing)
  BY <1>1, ParserAssumption DEF InRing, RingType
<1>3. Len(inflight') = len - 1 /\ \A i \in 1 .. len - 1 : inflight'[i] = inflight[i + 1]
  BY <1>1, <1>2
<1>4. ASSUME NEW i \in 1 .. len
      PROVE  /\ Forward(r, i) = Forward(read_idx, i + 1)
             /\ Forward(read_idx, i + 1) \in Slots /\ Forward(read_idx, i + 1) # read_idx
  <2>1. i \in 1 .. MaxPending /\ i + 1 \in 1 .. MaxPending /\ 1 \in 1 .. MaxPending /\ i + 1 # 1 /\ i < MaxPending
    BY <1>2, ParserAssumption
  <2> QED BY <1>1, <2>1, ForwardFacts DEF RingType
<1>5. \A s \in Slots : s # read_idx => pending'[s] = pending[s]
  BY <1>1 DEF RingType
<1>6. Cur' = Cur
  <2>1. write_idx \in Slots /\ write_idx # read_idx
    BY <1>1, <1>2, <1>4 DEF InRing, RingType
  <2> QED BY <1>1, <1>5, <2>1 DEF Cur
<1>7. PICK off : /\ Begins(off, inflight, held, line.chars)
                 /\ \A i \in 1 .. Len(inflight) :
                      ArgsStored(x, nul_cells, pending[Forward(read_idx, i)], inflight[i].args, off[i])
  BY DEF TextInv
<1>8. CASE len = 1 /\ line.args = << >>
  <2>1. line' = NoLine /\ held' = 0 /\ NoLine.chars = 0
    BY <1>8 DEF Exec, NoLine
  <2>2. state' = "BEGIN"
    BY <1>1, <1>8 DEF Follows
  <2>3. Len(inflight') = 0 /\ \A i \in 1 .. Len(inflight') : FALSE
    BY <1>3, <1>8
  <2> DEFINE offs == [i \in 1 .. 1 |-> 0]
  <2>4. Begins(offs, inflight', held', line'.chars)
    <3>1. Len(inflight') + 1 = 1
      BY <2>3
    <3>2. offs \in [1 .. 1 -> Nat] /\ offs[1] = 0
      OBVIOUS
    <3> HIDE DEF offs
    <3>3. \A i, j \in 1 .. 1 : i <= j => offs[j] <= offs[i]
      BY <3>2
    <3> QED BY <2>1, <2>3, <3>1, <3>2, <3>3 DEF Begins
  <2>5. held' \in 0 .. RecvLength
    BY <2>1, ParserAssumption
  <2> HIDE DEF offs
  <2> QED BY <2>2, <2>3, <2>4, <2>5 DEF TextInv
<1>9. CASE ~(len = 1 /\ line.args = << >>)
  <2>1. line' = line /\ held' = held - Head(inflight).chars
    BY <1>9 DEF Exec
  <2> DEFINE offs == [i \in 1 .. len |-> off[i + 1]]
  <2>2. Begins(offs, inflight', held', line'.chars) /\ held' <= held
    <3>1. inflight # << >>
      BY <1>2
    <3> QED BY <1>1, <1>2, <1>7, <2>1, <3>1, BeginsNext
  <2>3. held' \in Nat
    BY <2>2 DEF Begins
  <2>4. held' \in 0 .. RecvLength
    BY <2>2, <2>3, ParserAssumption DEF TextInv
  <2>5. ASSUME NEW i \in 1 .. Len(inflight')
        PROVE  ArgsStored(x', nul_cells', pending'[Forward(read_idx', i)], inflight'[i].args, offs[i])
    <3>1. i \in 1 .. len /\ i + 1 \in 1 .. len /\ i \in 1 .. len - 1
      BY <1>2, <1>3
    <3>2. offs[i] = off[i + 1]
      BY <3>1
    <3>3. ArgsStored(x, nul_cells, pending[Forward(read_idx, i + 1)], inflight[i + 1].args, off[i + 1])
      BY <1>7, <3>1
    <3>4. pending'[Forward(read_idx', i)] = pending[Forward(read_idx, i + 1)]
      BY <1>1, <1>4, <1>5, <3>1
    <3> HIDE DEF offs
    <3> QED BY <1>1, <1>3, <3>1, <3>2, <3>3, <3>4
  <2> HIDE DEF offs
  <2>6. ASSUME state' # "BEGIN"
        PROVE  ArgsSoFar(x', nul_cells', Cur', line'.args, line'.open, line'.chars)
    BY <1>1, <1>6, <2>1, <2>6 DEF TextInv
  <2> QED BY <2>2, <2>4, <2>5, <2>6 DEF TextInv
<1> QED BY <1>8, <1>9

-----------------------------------------------------------------------------
(***************************************************************************)
(* What the handler reads of an argument stored whole.                     *)
(***************************************************************************)
LEMMA LeastIs ==
  ASSUME NEW S \in SUBSET Int, NEW m \in S, \A j \in S : m <= j
  PROVE  Min(S) = m
<1>1. \E k \in S : \A j \in S : k <= j
  OBVIOUS
<1>2. Min(S) \in S /\ \A j \in S : Min(S) <= j
  BY <1>1 DEF Min
<1>3. Min(S) <= m /\ m <= Min(S) /\ Min(S) \in Int /\ m \in Int
  BY <1>2
<1> HIDE DEF Min
<1> QED BY <1>3

LEMMA ReadsWhatIsStored ==
  ASSUME recv_buffer_idx \in Cells, nul_cells \subseteq Cells,
         NEW a, NEW len \in Nat, NEW most \in 0 .. RecvLength,
         Stored(recv_buffer_idx, nul_cells, a, len, most)
  PROVE  LengthAt(a) \in {len, Unterminated}
<1> DEFINE x == recv_buffer_idx
           ends == {j \in nul_cells : j >= a}
<1>1. PICK b \in 1 .. most : /\ b > len /\ a = Ago(x, b) /\ Ago(x, b - len) \in nul_cells
                             /\ \A j \in b - len + 1 .. b : Ago(x, j) \notin nul_cells
  BY DEF Stored
<1>2. x \in 0 .. RecvLength - 1 /\ RecvLength \in Nat \ {0} /\ b \in 1 .. RecvLength /\ nul_cells \subseteq 0 .. RecvLength - 1
  BY ParserAssumption DEF Cells
<1>3. a \in 0 .. RecvLength - 1
  BY <1>1, <1>2 DEF Ago
<1>4. ASSUME NEW d \in 0 .. len, a + d < RecvLength PROVE Ago(x, b - d) = a + d
  BY <1>1, <1>2, <1>3, <1>4 DEF Ago
<1>5. ASSUME NEW j \in ends PROVE j \in Int /\ j >= a + len
  <2>1. j \in 0 .. RecvLength - 1 /\ j \in nul_cells /\ j >= a
    BY <1>2
  <2>2. CASE j < a + len
    <3> DEFINE d == j - a
    <3>1. d \in 0 .. len /\ a + d = j /\ b - d \in b - len + 1 .. b
      BY <1>1, <1>2, <1>3, <2>1, <2>2
    <3> HIDE DEF d
    <3>2. a + d < RecvLength
      BY <1>2, <2>1, <3>1
    <3>3. Ago(x, b - d) = a + d
      BY <1>4, <3>1, <3>2
    <3> QED BY <1>1, <2>1, <3>1, <3>3
  <2> QED BY <1>3, <2>1, <2>2
<1>6. CASE a + len < RecvLength
  <2>1. a + len \in ends
    <3>1. Ago(x, b - len) = a + len
      BY <1>4, <1>6
    <3> QED BY <1>1, <1>3, <3>1
  <2>2. ends # {} /\ Min(ends) = a + len
    BY <1>5, <2>1, LeastIs
  <2>3. LengthAt(a) = Min(ends) - a
    BY <2>2 DEF LengthAt
  <2> QED BY <1>3, <2>2, <2>3
<1>7. CASE a + len >= RecvLength
  <2>1. ASSUME NEW j \in ends PROVE FALSE
    <3>1. j \in 0 .. RecvLength - 1 /\ j >= a + len
      BY <1>2, <1>5
    <3> HIDE DEF ends
    <3> QED BY <1>2, <1>3, <1>7, <3>1
  <2>2. ends = {}
    BY <2>1, Zenon
  <2> QED BY <2>2 DEF LengthAt
<1> QED BY <1>3, <1>2, <1>6, <1>7

LEMMA RunsHold ==
  ASSUME Window < MaxPending, RingInv, TextInv, nul_cells \subseteq Cells
  PROVE  RunsWhatWasTyped
<1>1. PICK off : /\ Begins(off, inflight, held, line.chars)
                 /\ \A i \in 1 .. Len(inflight) :
                      ArgsStored(recv_buffer_idx, nul_cells, pending[Forward(read_idx, i)],
                                 inflight[i].args, off[i])
  BY DEF TextInv
<1>2. /\ inflight \in Seq(Typing) /\ DOMAIN inflight = 1 .. Len(inflight) /\ Len(inflight) \in Nat
      /\ held \in 0 .. RecvLength /\ recv_buffer_idx \in Cells /\ read_idx \in Slots
      /\ Len(inflight) <= Window
  BY DEF RingInv, RingType, TextInv, InRing
<1> SUFFICES ASSUME NEW i \in Accepted
             PROVE  /\ pending[SlotOf(i)].argc = Len(inflight[i].args)
                    /\ \A k \in DOMAIN ArgsOf(i) : ArgsOf(i)[k] \in {inflight[i].args[k], Unterminated}
  BY DEF RunsWhatWasTyped
<1> DEFINE p == pending[SlotOf(i)]
           args == inflight[i].args
<1>3. i \in 1 .. Len(inflight) /\ ~p.err
  BY <1>2 DEF Accepted
<1>4. SlotOf(i) = Forward(read_idx, i)
  <2>1. i \in 1 .. MaxPending
    BY <1>2, <1>3, ParserAssumption
  <2> QED BY <1>2, <2>1, SlotIs
<1>5. p.argc = Len(args) /\ \A k \in 1 .. Len(args) : Stored(recv_buffer_idx, nul_cells, p.argv[k], args[k], off[i])
  BY <1>1, <1>3, <1>4 DEF ArgsStored
<1>6. args \in Seq(Nat) /\ off[i] \in 0 .. RecvLength
  <2>1. inflight[i] \in Typing
    BY <1>2, <1>3
  <2>2. off[i] \in Nat /\ off[i] <= held
    BY <1>1, <1>2, <1>3, BeginsMost
  <2> QED BY <1>2, <2>1, <2>2, ParserAssumption DEF Typing
<1>7. ASSUME NEW k \in 1 .. Len(args) PROVE LengthAt(p.argv[k]) \in {args[k], Unterminated}
  <2>1. args[k] \in Nat
    BY <1>6
  <2>2. Stored(recv_buffer_idx, nul_cells, p.argv[k], args[k], off[i])
    BY <1>5
  <2> HIDE DEF p, args
  <2> QED BY <1>2, <1>6, <2>1, <2>2, ReadsWhatIsStored
<1>8. ArgsOf(i) = [k \in 1 .. p.argc |-> LengthAt(p.argv[k])]
  BY DEF ArgsOf
<1> HIDE DEF p, args
<1>9. \A k \in DOMAIN ArgsOf(i) : ArgsOf(i)[k] \in {args[k], Unterminated}
  BY <1>5, <1>7, <1>8
<1> QED BY <1>5, <1>9 DEF p, args

(***************************************************************************)
(* A command that the exec task will run sees the arguments its line was   *)
(* typed with, however many lines have been typed and run since: neither   *)
(* the characters behind it nor the lines that reuse recv_buffer and the   *)
(* slots overwrite them, as long as the text in flight fits recv_buffer.   *)
(***************************************************************************)
THEOREM CommandsSeeTheirArguments ==
  ASSUME Window < MaxPending PROVE Spec => []RunsWhatWasTyped
<1> DEFINE Inv == RingInv /\ TextInv /\ nul_cells \subseteq Cells
<1>1. Init => Inv
  <2> SUFFICES ASSUME Init PROVE Inv
    OBVIOUS
  <2>1. RingInv
    BY RingInitInv
  <2> DEFINE off == [i \in 1 .. 1 |-> 0]
  <2>2. /\ inflight = << >> /\ Len(inflight) = 0 /\ Len(inflight) + 1 = 1
        /\ held = 0 /\ line.chars = 0 /\ state = "BEGIN" /\ nul_cells = Cells
    BY DEF Init, NoLine
  <2>3. off \in [1 .. 1 -> Nat] /\ off[1] = 0
    OBVIOUS
  <2> HIDE DEF off
  <2>4. Begins(off, inflight, held, line.chars)
    <3>1. (\A i \in 1 .. Len(inflight) : FALSE) /\ \A i, j \in 1 .. 1 : i <= j => off[j] <= off[i]
      BY <2>2, <2>3
    <3> QED BY <2>2, <2>3, <3>1 DEF Begins
  <2>5. (\A i \in 1 .. Len(inflight) : FALSE) /\ held \in 0 .. RecvLength
    BY <2>2, ParserAssumption
  <2>6. TextInv
    BY <2>2, <2>4, <2>5 DEF TextInv
  <2> QED BY <2>1, <2>2, <2>6
<1>2. Inv /\ [Next]_vars => Inv'
  <2> SUFFICES ASSUME Inv, [Next]_vars PROVE Inv'
    OBVIOUS
  <2>1. CASE Exec
    <3>1. nul_cells' = nul_cells
      BY <2>1 DEF Exec
    <3> QED BY <2>1, <3>1, ExecKeeps, TextExec
  <2>2. ASSUME NEW c \in Char, Receive(c) PROVE Inv'
    <3>1. RingInv' /\ TextInv'
      BY <2>2, EndOfLine, WithinLine, TextEnd, TextWithin
    <3>2. recv_buffer_idx \in Cells
      BY DEF RingInv, RingType
    <3>3. nul_cells' \subseteq nul_cells \cup {recv_buffer_idx}
      BY <2>2 DEF Receive, EndOfCommand, SkipSpace, FirstArg, InArg, EndOfArg, BetweenArgs, NextArg,
                  StoreNul, StoreText
    <3> QED BY <3>1, <3>2, <3>3
  <2>3. CASE UNCHANGED vars
    <3>1. RingInv'
      BY <2>3 DEF vars, parser, host, RingInv, RingType, Follows, Filling, Cur, InRing
    <3>2. TextInv' /\ (nul_cells \subseteq Cells)'
      BY <2>3 DEF vars, parser, host, TextInv, Cur
    <3> QED BY <3>1, <3>2
  <2> QED BY <2>1, <2>2, <2>3 DEF Next
<1>3. Inv => RunsWhatWasTyped
  BY RunsHold
<1> QED BY <1>1, <1>2, <1>3, PTL DEF Spec

-----------------------------------------------------------------------------
(* A set of numbers has a least. *)
LEMMA LeastOf ==
  ASSUME NEW T \in SUBSET Nat, T # {} PROVE \E x \in T : \A y \in T : x <= y
<1> DEFINE R == OpToRel(<, Nat)
<1>1. IsWellFoundedOn(R, Nat)
  BY NatLessThanWellFounded
<1>2. \A a, b \in Nat : a < b => <<a, b>> \in R
  BY DEF OpToRel
<1> HIDE DEF R
<1>3. PICK x \in T : \A y \in T : ~(<<y, x>> \in R)
  BY <1>1, WFMin
<1>4. ASSUME NEW y \in T PROVE x <= y
  <2>1. x \in Nat /\ y \in Nat /\ ~(<<y, x>> \in R)
    BY <1>3
  <2>2. ~(y < x)
    BY <1>2, <2>1
  <2> QED BY <2>1, <2>2
<1> QED BY <1>4

-----------------------------------------------------------------------------
(***************************************************************************)
(* How often a line occurs in a sequence, and what appending one or taking *)
(* one out changes of that.                                                *)
(***************************************************************************)
Places(q, x) == {i \in 1 .. Len(q) : q[i] = x}
Times(q, x) == Cardinality(Places(q, x))

LEMMA TimesIsNat ==
  ASSUME NEW X, NEW q \in Seq(X), NEW x
  PROVE  /\ IsFiniteSet(Places(q, x)) /\ Times(q, x) \in Nat
         /\ Times(q, x) = 0 <=> \A i \in 1 .. Len(q) : q[i] # x
<1>1. IsFiniteSet(1 .. Len(q))
  BY FS_Interval
<1>2. IsFiniteSet(Places(q, x))
  BY <1>1, FS_Subset DEF Places
<1>3. Times(q, x) \in Nat /\ (Times(q, x) = 0 <=> Places(q, x) = {})
  BY <1>2, FS_CardinalityType, FS_EmptySet DEF Times
<1> QED BY <1>2, <1>3 DEF Places

LEMMA TimesAppend ==
  ASSUME NEW X, NEW q \in Seq(X), NEW c \in X, NEW x
  PROVE  Times(Append(q, c), x) = IF x = c THEN Times(q, x) + 1 ELSE Times(q, x)
<1> DEFINE r == Append(q, c)
           n == Len(q)
<1>1. n \in Nat /\ Len(r) = n + 1 /\ r[n + 1] = c /\ \A i \in 1 .. n : r[i] = q[i]
  OBVIOUS
<1> HIDE DEF r
<1>2. Places(r, x) = IF x = c THEN Places(q, x) \cup {n + 1} ELSE Places(q, x)
  BY <1>1 DEF Places
<1>3. n + 1 \notin Places(q, x) /\ IsFiniteSet(Places(q, x))
  <2>1. n + 1 \notin Places(q, x)
    BY <1>1 DEF Places
  <2> QED BY <2>1, TimesIsNat
<1>4. Cardinality(Places(q, x) \cup {n + 1}) = Cardinality(Places(q, x)) + 1
  BY <1>3, FS_AddElement
<1> QED BY <1>2, <1>4 DEF Times, r

(* r is q without its k-th element. *)
Less(q, k, r) ==
  /\ Len(r) = Len(q) - 1
  /\ \A i \in 1 .. Len(q) - 1 : r[i] = IF i < k THEN q[i] ELSE q[i + 1]

LEMMA TimesLess ==
  ASSUME NEW X, NEW q \in Seq(X), NEW r \in Seq(X), NEW k \in 1 .. Len(q), Less(q, k, r), NEW x
  PROVE  Times(r, x) = IF q[k] = x THEN Times(q, x) - 1 ELSE Times(q, x)
<1> DEFINE n == Len(q)
           S == Places(r, x)
           T == Places(q, x) \ {k}
           f == [i \in S |-> IF i < k THEN i ELSE i + 1]
<1>1. n \in Nat \ {0} /\ k \in 1 .. n
  OBVIOUS
<1>2. \A i \in S : i \in 1 .. n - 1 /\ r[i] = x /\ r[i] = IF i < k THEN q[i] ELSE q[i + 1]
  BY DEF Places, Less
<1>3. \A j \in T : j \in 1 .. n /\ j # k /\ q[j] = x
  BY DEF Places
<1>4. f \in [S -> T]
  <2>1. ASSUME NEW i \in S PROVE f[i] \in T
    BY <1>1, <1>2, <2>1 DEF Places
  <2> QED BY <2>1
<1>5. \A a, b \in S : f[a] = f[b] => a = b
  BY <1>1, <1>2
<1>6. \A j \in T : \E i \in S : f[i] = j
  <2> SUFFICES ASSUME NEW j \in T PROVE \E i \in S : f[i] = j
    OBVIOUS
  <2>1. CASE j < k
    <3>1. j \in 1 .. n - 1 /\ r[j] = q[j] /\ q[j] = x
      BY <1>1, <1>3, <2>1 DEF Less
    <3>2. j \in S
      BY <3>1 DEF Places, Less
    <3> QED BY <2>1, <3>2
  <2>2. CASE j > k
    <3>1. j - 1 \in 1 .. n - 1 /\ ~(j - 1 < k) /\ (j - 1) + 1 = j /\ q[j] = x
      BY <1>1, <1>3, <2>2
    <3>2. r[j - 1] = q[j]
      BY <3>1 DEF Less
    <3>3. j - 1 \in S
      BY <3>1, <3>2 DEF Places, Less
    <3> QED BY <3>1, <3>3
  <2> QED BY <1>1, <1>3, <2>1, <2>2
<1>7. ExistsBijection(S, T)
  <2> HIDE DEF f, S, T
  <2>1. f \in Bijection(S, T)
    BY <1>4, <1>5, <1>6 DEF Bijection, Injection, Surjection, IsInjective
  <2> QED BY <2>1 DEF ExistsBijection
<1>8. IsFiniteSet(S) /\ IsFiniteSet(Places(q, x))
  BY TimesIsNat
<1>9. Cardinality(T) = Cardinality(S)
  <2> HIDE DEF S, T, f
  <2> QED BY <1>7, <1>8, FS_Bijection
<1>10. Cardinality(T) = IF k \in Places(q, x) THEN Cardinality(Places(q, x)) - 1
                        ELSE Cardinality(Places(q, x))
  BY <1>8, FS_RemoveElement
<1>11. k \in Places(q, x) <=> q[k] = x
  BY DEF Places
<1> HIDE DEF f, T
<1> QED BY <1>9, <1>10, <1>11 DEF Times

LEMMA TailIsLess ==
  ASSUME NEW X, NEW q \in Seq(X), q # << >>
  PROVE  Tail(q) \in Seq(X) /\ Head(q) = q[1] /\ 1 \in 1 .. Len(q) /\ Less(q, 1, Tail(q))
<1>1. /\ Tail(q) \in Seq(X) /\ Len(Tail(q)) = Len(q) - 1
      /\ \A i \in 1 .. Len(Tail(q)) : Tail(q)[i] = q[i + 1]
  BY HeadTailProperties
<1>2. 1 \in 1 .. Len(q) /\ Head(q) = q[1]
  OBVIOUS
<1>3. \A i \in 1 .. Len(q) - 1 : ~(i < 1)
  OBVIOUS
<1> QED BY <1>1, <1>2, <1>3 DEF Less

LEMMA WithoutIsLess ==
  ASSUME NEW X, NEW q \in Seq(X), NEW c, NEW j \in 1 .. Len(q), q[j] = c
  PROVE  /\ answers!Without(q, c) \in Seq(X)
         /\ \E k \in 1 .. Len(q) : q[k] = c /\ Less(q, k, answers!Without(q, c))
<1> DEFINE waits == {i \in DOMAIN q : q[i] = c}
           k == CHOOSE i \in waits : \A h \in waits : i <= h
           a == SubSeq(q, 1, k - 1)
           b == SubSeq(q, k + 1, Len(q))
<1>1. waits \in SUBSET Nat /\ waits # {}
  OBVIOUS
<1>2. k \in waits
  <2> HIDE DEF waits
  <2>1. \E i \in waits : \A h \in waits : i <= h
    BY <1>1, LeastOf
  <2> QED BY <2>1
<1>3. answers!Without(q, c) = a \o b
  BY <1>1 DEF answers!Without
<1> HIDE DEF k
<1>4. k \in 1 .. Len(q) /\ q[k] = c /\ Len(q) \in Nat
  BY <1>2
<1>5. /\ a \in Seq(X) /\ Len(a) = k - 1
      /\ \A i \in 1 .. k - 1 : a[i] = q[i]
  <2>1. (\A i \in 1 .. k - 1 : q[i] \in X) /\ 1 \in Int /\ k - 1 \in Int /\ (k - 1) - 1 + 1 = k - 1
    BY <1>4
  <2>2. /\ a \in Seq(X) /\ Len(a) = IF 1 <= k - 1 THEN (k - 1) - 1 + 1 ELSE 0
        /\ \A i \in 1 .. (k - 1) - 1 + 1 : a[i] = q[1 + i - 1]
    BY <2>1, SubSeqProperties
  <2> HIDE DEF a
  <2>3. \A i \in 1 .. k - 1 : 1 + i - 1 = i
    BY <1>4
  <2> QED BY <1>4, <2>1, <2>2, <2>3
<1>6. /\ b \in Seq(X) /\ Len(b) = Len(q) - k
      /\ \A i \in 1 .. Len(q) - k : b[i] = q[k + i]
  <2>1. (\A i \in k + 1 .. Len(q) : q[i] \in X) /\ k + 1 \in Int /\ Len(q) \in Int
    BY <1>4
  <2>2. /\ b \in Seq(X) /\ Len(b) = IF k + 1 <= Len(q) THEN Len(q) - (k + 1) + 1 ELSE 0
        /\ \A i \in 1 .. Len(q) - (k + 1) + 1 : b[i] = q[k + 1 + i - 1]
    BY <2>1, SubSeqProperties
  <2> HIDE DEF b
  <2> DEFINE n == Len(q)
  <2> HIDE DEF n
  <2>3. n \in Nat /\ k \in 1 .. n
    BY <1>4 DEF n
  <2>4. Len(b) = n - k
    BY <2>2, <2>3 DEF n
  <2>5. ASSUME NEW i \in 1 .. n - k PROVE b[i] = q[k + i]
    <3>1. i \in 1 .. n - (k + 1) + 1 /\ (k + 1) + i - 1 = k + i
      BY <2>3
    <3>2. b[i] = q[(k + 1) + i - 1]
      BY <2>2, <3>1 DEF n
    <3> QED BY <3>1, <3>2
  <2> QED BY <2>2, <2>4, <2>5 DEF n
<1> HIDE DEF a, b, waits
<1>7. /\ a \o b \in Seq(X) /\ Len(a \o b) = Len(a) + Len(b)
      /\ \A i \in 1 .. Len(a) + Len(b) : (a \o b)[i] = IF i <= Len(a) THEN a[i] ELSE b[i - Len(a)]
  BY <1>5, <1>6, ConcatProperties
<1> DEFINE r == a \o b
<1> HIDE DEF r
<1>8. Less(q, k, r)
  <2>1. Len(a) + Len(b) = Len(q) - 1 /\ Len(r) = Len(q) - 1
    BY <1>4, <1>5, <1>6, <1>7 DEF r
  <2>2. ASSUME NEW i \in 1 .. Len(q) - 1 PROVE r[i] = IF i < k THEN q[i] ELSE q[i + 1]
    <3>1. r[i] = IF i <= k - 1 THEN a[i] ELSE b[i - (k - 1)]
      BY <1>5, <1>7, <2>1 DEF r
    <3>2. CASE i < k
      BY <1>4, <1>5, <3>1, <3>2
    <3>3. CASE ~(i < k)
      <4>1. i - (k - 1) \in 1 .. Len(q) - k /\ k + (i - (k - 1)) = i + 1 /\ ~(i <= k - 1)
        BY <1>4, <3>3
      <4> QED BY <1>6, <3>1, <3>3, <4>1
    <3> QED BY <3>2, <3>3
  <2> QED BY <2>1, <2>2 DEF Less
<1> QED BY <1>3, <1>4, <1>7, <1>8 DEF r

-----------------------------------------------------------------------------
(***************************************************************************)
(* A line that was sent and not answered waits to be run, or a responder   *)
(* is at work on it, whose output goes where the line came from: for each  *)
(* stream s and command c there are as many that wait for an answer (in    *)
(* aw) as wait to be run (in pd), and one more if a responder is at work   *)
(* for s.  While one is, the other streams have nothing outstanding.       *)
(***************************************************************************)
AtWork(reg, sv, s, c) == IF c \in reg /\ sv[c] = s THEN 1 ELSE 0

Owed(pd, aw, reg, sv, cur) ==
  /\ pd \in [Source -> Seq(answers!Cmd)] /\ aw \in [Source -> Seq(answers!Cmd)]
  /\ reg \subseteq answers!Responder /\ cur \in Source
  /\ sv \in [answers!Responder -> Source \cup {NULL}]
  /\ \A m \in reg : sv[m] = cur
  /\ \A s \in Source, c \in answers!Cmd :
       Times(aw[s], c) = Times(pd[s], c) + AtWork(reg, sv, s, c)
  /\ \A s, t \in Source, m \in answers!Responder, c \in answers!Cmd :
       s # t /\ Times(aw[s], m) # 0 => Times(aw[t], c) = 0
  /\ \A s \in Source, m \in Restartable : Times(aw[s], m) <= 1

LEMMA CountsAreNat ==
  ASSUME NEW q \in [Source -> Seq(answers!Cmd)]
  PROVE  \A s \in Source : \A c : Times(q[s], c) \in Nat
BY TimesIsNat

LEMMA WaitedForIs ==
  ASSUME awaiting \in [Source -> Seq(answers!Cmd)], NEW s \in Source, NEW c
  PROVE  c \in answers!WaitedFor(s) <=> Times(awaiting[s], c) # 0
<1>1. awaiting[s] \in Seq(answers!Cmd)
  OBVIOUS
<1>2. Times(awaiting[s], c) = 0 <=> \A i \in 1 .. Len(awaiting[s]) : awaiting[s][i] # c
  BY <1>1, TimesIsNat
<1>3. c \in answers!WaitedFor(s) <=> \E i \in 1 .. Len(awaiting[s]) : awaiting[s][i] = c
  BY <1>1 DEF answers!WaitedFor
<1> QED BY <1>2, <1>3

LEMMA EmptyHasNone ==
  ASSUME NEW q \in Seq(answers!Cmd)
  PROVE  q = << >> <=> \A c \in answers!Cmd : Times(q, c) = 0
<1>1. \A c : Times(q, c) = 0 <=> \A i \in 1 .. Len(q) : q[i] # c
  BY TimesIsNat
<1>2. CASE q = << >>
  BY <1>1, <1>2
<1>3. CASE q # << >>
  <2>1. 1 \in 1 .. Len(q) /\ q[1] \in answers!Cmd
    BY <1>3
  <2> QED BY <1>1, <1>3, <2>1
<1> QED BY <1>2, <1>3

(* A stream with a line to run is the one that responders work for. *)
LEMMA SameStream ==
  ASSUME NEW pd, NEW aw, NEW reg, NEW sv, NEW cur, Owed(pd, aw, reg, sv, cur),
         NEW s \in Source, pd[s] # << >>, NEW m \in reg
  PROVE  s = cur
<1>1. pd[s] \in Seq(answers!Cmd) /\ cur \in Source /\ m \in answers!Responder /\ sv[m] = cur
  BY DEF Owed
<1>2. PICK c \in answers!Cmd : Times(pd[s], c) # 0
  BY <1>1, EmptyHasNone
<1>3. /\ Times(pd[s], c) \in Nat /\ Times(aw[s], c) \in Nat
      /\ Times(pd[cur], m) \in Nat /\ Times(aw[cur], m) \in Nat
  BY <1>1, CountsAreNat DEF Owed
<1>4. Times(aw[s], c) # 0
  <2>1. Times(aw[s], c) = Times(pd[s], c) + AtWork(reg, sv, s, c)
    BY DEF Owed
  <2> QED BY <1>2, <1>3, <2>1 DEF AtWork
<1>5. Times(aw[cur], m) # 0
  <2>1. Times(aw[cur], m) = Times(pd[cur], m) + AtWork(reg, sv, cur, m)
    BY <1>1 DEF Owed, answers!Cmd
  <2> QED BY <1>1, <1>3, <2>1 DEF AtWork
<1> QED BY <1>1, <1>2, <1>4, <1>5 DEF Owed

LEMMA OwedSend ==
  ASSUME Polite, NEW s \in Source, NEW c \in answers!Cmd, NEW reg, reg = answers!Registered,
         Owed(lines, awaiting, reg, serving, current_cmd_source), answers!Send(s, c)
  PROVE  Owed(lines', awaiting', reg, serving', current_cmd_source')
<1>1. /\ lines \in [Source -> Seq(answers!Cmd)] /\ awaiting \in [Source -> Seq(answers!Cmd)]
      /\ lines' = [lines EXCEPT ![s] = Append(@, c)]
      /\ awaiting' = [awaiting EXCEPT ![s] = Append(@, c)]
      /\ serving' = serving /\ current_cmd_source' = current_cmd_source /\ answers!MaySend(s, c)
  BY DEF answers!Send, Owed
<1>2. \A t \in Source : lines[t] \in Seq(answers!Cmd) /\ awaiting[t] \in Seq(answers!Cmd)
  BY <1>1
<1>3. \A t \in Source : /\ lines'[t] = IF t = s THEN Append(lines[t], c) ELSE lines[t]
                        /\ awaiting'[t] = IF t = s THEN Append(awaiting[t], c) ELSE awaiting[t]
  BY <1>1
<1>4. ASSUME NEW t \in Source, NEW x
      PROVE  /\ Times(lines'[t], x) = IF t = s /\ x = c THEN Times(lines[t], x) + 1 ELSE Times(lines[t], x)
             /\ Times(awaiting'[t], x) = IF t = s /\ x = c THEN Times(awaiting[t], x) + 1
                                         ELSE Times(awaiting[t], x)
             /\ Times(lines[t], x) \in Nat /\ Times(awaiting[t], x) \in Nat
  BY <1>2, <1>3, TimesAppend, TimesIsNat
<1>5. lines' \in [Source -> Seq(answers!Cmd)] /\ awaiting' \in [Source -> Seq(answers!Cmd)]
  BY <1>1
<1>6. ASSUME NEW t \in Source, NEW x \in answers!Cmd
      PROVE  Times(awaiting'[t], x) = Times(lines'[t], x) + AtWork(reg, serving, t, x)
  <2>1. Times(awaiting[t], x) = Times(lines[t], x) + AtWork(reg, serving, t, x)
    BY DEF Owed
  <2>2. AtWork(reg, serving, t, x) \in Nat
    BY DEF AtWork
  <2> QED BY <1>4, <2>1, <2>2
<1>7. /\ \A t \in Source, m \in answers!Responder : t # s => Times(awaiting[t], m) = 0
      /\ c \in answers!Responder => \A t \in Source, x \in answers!Cmd : t # s => Times(awaiting[t], x) = 0
      /\ c \in Restartable => Times(awaiting[s], c) = 0
  <2>1. /\ \A t \in Source \ {s} : ~answers!Busy(t)
        /\ c \in answers!Responder => answers!Alone(s)
        /\ c \in Restartable => c \notin answers!WaitedFor(s)
    BY <1>1 DEF answers!MaySend
  <2>2. ASSUME NEW t \in Source, t # s, NEW m \in answers!Responder PROVE Times(awaiting[t], m) = 0
    BY <1>1, <2>1, <2>2, WaitedForIs DEF answers!Busy
  <2>3. ASSUME c \in answers!Responder, NEW t \in Source, t # s, NEW x \in answers!Cmd
        PROVE  Times(awaiting[t], x) = 0
    BY <1>2, <2>1, <2>3, EmptyHasNone DEF answers!Alone
  <2>4. c \in Restartable => Times(awaiting[s], c) = 0
    BY <1>1, <2>1, WaitedForIs
  <2> QED BY <2>2, <2>3, <2>4
<1>8. ASSUME NEW a \in Source, NEW t \in Source, NEW m \in answers!Responder, NEW x \in answers!Cmd,
             a # t, Times(awaiting'[a], m) # 0
      PROVE  Times(awaiting'[t], x) = 0
  <2>1. a = s /\ t # s
    BY <1>4, <1>7, <1>8
  <2>2. Times(awaiting'[t], x) = Times(awaiting[t], x)
    BY <1>4, <2>1
  <2>3. CASE m = c
    BY <1>7, <2>1, <2>2, <2>3
  <2>4. CASE m # c
    <3>1. Times(awaiting[a], m) # 0
      BY <1>4, <1>8, <2>4
    <3> QED BY <1>8, <2>2, <3>1 DEF Owed
  <2> QED BY <2>3, <2>4
<1>9. ASSUME NEW t \in Source, NEW m \in Restartable PROVE Times(awaiting'[t], m) <= 1
  <2>1. Times(awaiting[t], m) <= 1
    BY DEF Owed
  <2> QED BY <1>4, <1>7, <2>1
<1> QED BY <1>1, <1>5, <1>6, <1>8, <1>9 DEF Owed

Run(pd, s) == [pd EXCEPT ![s] = Tail(@)]
Answered(aw, s, c) == [aw EXCEPT ![s] = answers!Without(@, c)]
(* In b there is one c of stream s less than in a. *)
OneLess(a, b, s, c) ==
  /\ b \in [Source -> Seq(answers!Cmd)]
  /\ \A t \in Source : \A x : Times(b[t], x) = IF t = s /\ x = c THEN Times(a[t], x) - 1 ELSE Times(a[t], x)

LEMMA RunLess ==
  ASSUME NEW pd \in [Source -> Seq(answers!Cmd)], NEW s \in Source, pd[s] # << >>
  PROVE  /\ Head(pd[s]) \in answers!Cmd /\ Times(pd[s], Head(pd[s])) # 0
         /\ OneLess(pd, Run(pd, s), s, Head(pd[s]))
<1> DEFINE p2 == Run(pd, s)
           c == Head(pd[s])
<1>1. \A t \in Source : pd[t] \in Seq(answers!Cmd) /\ p2[t] = IF t = s THEN Tail(pd[t]) ELSE pd[t]
  BY DEF Run
<1>2. /\ Tail(pd[s]) \in Seq(answers!Cmd) /\ c = pd[s][1] /\ 1 \in 1 .. Len(pd[s])
      /\ Less(pd[s], 1, Tail(pd[s]))
  BY <1>1, TailIsLess
<1>3. p2 \in [Source -> Seq(answers!Cmd)]
  BY <1>1, <1>2 DEF Run
<1> HIDE DEF p2, c
<1>4. c \in answers!Cmd
  BY <1>1, <1>2
<1>5. Times(pd[s], c) # 0
  BY <1>1, <1>2, TimesIsNat
<1>6. \A x : Times(Tail(pd[s]), x) = IF c = x THEN Times(pd[s], x) - 1 ELSE Times(pd[s], x)
  <2> DEFINE q == pd[s]
             r == Tail(pd[s])
  <2>1. q \in Seq(answers!Cmd) /\ r \in Seq(answers!Cmd) /\ 1 \in 1 .. Len(q) /\ Less(q, 1, r) /\ c = q[1]
    BY <1>1, <1>2
  <2> HIDE DEF q, r
  <2>2. ASSUME NEW x PROVE Times(r, x) = IF c = x THEN Times(q, x) - 1 ELSE Times(q, x)
    BY <2>1, TimesLess
  <2> QED BY <2>2 DEF q, r
<1>7. OneLess(pd, p2, s, c)
  BY <1>1, <1>3, <1>6 DEF OneLess
<1> QED BY <1>4, <1>5, <1>7 DEF p2, c

LEMMA AnswerLess ==
  ASSUME NEW aw \in [Source -> Seq(answers!Cmd)], NEW s \in Source, NEW c, Times(aw[s], c) # 0
  PROVE  OneLess(aw, Answered(aw, s, c), s, c)
<1> DEFINE a2 == Answered(aw, s, c)
           q == aw[s]
           r == answers!Without(aw[s], c)
<1>1. \A t \in Source : aw[t] \in Seq(answers!Cmd) /\ a2[t] = IF t = s THEN r ELSE aw[t]
  BY DEF Answered
<1>2. PICK j \in 1 .. Len(q) : q[j] = c
  BY <1>1, TimesIsNat
<1>3. r \in Seq(answers!Cmd) /\ \E k \in 1 .. Len(q) : q[k] = c /\ Less(q, k, r)
  BY <1>1, <1>2, WithoutIsLess
<1>4. a2 \in [Source -> Seq(answers!Cmd)]
  BY <1>1, <1>3 DEF Answered
<1>5. q \in Seq(answers!Cmd) /\ aw[s] = q
  BY <1>1
<1> HIDE DEF a2, q, r
<1>6. PICK k \in 1 .. Len(q) : q[k] = c /\ Less(q, k, r)
  BY <1>3
<1>7. ASSUME NEW x PROVE Times(r, x) = IF c = x THEN Times(q, x) - 1 ELSE Times(q, x)
  BY <1>3, <1>5, <1>6, TimesLess
<1>8. OneLess(aw, a2, s, c)
  BY <1>1, <1>4, <1>5, <1>7 DEF OneLess
<1> QED BY <1>8 DEF a2

(* What may be fewer of what is waited for keeps the other facts. *)
LEMMA FewerKeeps ==
  ASSUME NEW pd, NEW aw, NEW reg, NEW sv, NEW cur, Owed(pd, aw, reg, sv, cur),
         NEW a2, NEW r, NEW x, OneLess(aw, a2, r, x)
  PROVE  /\ \A s, t \in Source, m \in answers!Responder, c \in answers!Cmd :
              s # t /\ Times(a2[s], m) # 0 => Times(a2[t], c) = 0
         /\ \A s \in Source, m \in Restartable : Times(a2[s], m) <= 1
<1>1. \A t \in Source : \A y : /\ Times(aw[t], y) \in Nat /\ Times(a2[t], y) \in Nat
                               /\ Times(a2[t], y) = Times(aw[t], y) \/ Times(a2[t], y) = Times(aw[t], y) - 1
  <2>1. aw \in [Source -> Seq(answers!Cmd)] /\ a2 \in [Source -> Seq(answers!Cmd)]
    BY DEF Owed, OneLess
  <2>2. \A t \in Source : \A y : Times(aw[t], y) \in Nat /\ Times(a2[t], y) \in Nat
    BY <2>1, CountsAreNat
  <2> QED BY <2>2 DEF OneLess
<1>2. \A t \in Source : \A y : Times(aw[t], y) = 0 => Times(a2[t], y) = 0
  BY <1>1
<1>3. \A s \in Source, m \in Restartable : Times(a2[s], m) <= 1
  <2> SUFFICES ASSUME NEW s \in Source, NEW m \in Restartable PROVE Times(a2[s], m) <= 1
    OBVIOUS
  <2>1. Times(aw[s], m) <= 1
    BY DEF Owed
  <2> QED BY <1>1, <2>1
<1>4. \A s, t \in Source, m \in answers!Responder, c \in answers!Cmd :
        s # t /\ Times(a2[s], m) # 0 => Times(a2[t], c) = 0
  BY <1>2 DEF Owed
<1> QED BY <1>3, <1>4

LEMMA ServesIt ==
  ASSUME NEW pd, NEW aw, NEW reg, NEW sv, NEW cur, Owed(pd, aw, reg, sv, cur),
         NEW s \in Source, pd[s] # << >>
  PROVE  \A m \in reg : sv[m] = s
<1> SUFFICES ASSUME NEW m \in reg PROVE sv[m] = s
  OBVIOUS
<1>1. s = cur
  BY SameStream
<1>2. sv[m] = cur
  BY DEF Owed
<1> QED BY <1>1, <1>2

(* The counts, as numbers. *)
LEMMA OwedCounts ==
  ASSUME NEW pd, NEW aw, NEW reg, NEW sv, NEW cur, Owed(pd, aw, reg, sv, cur)
  PROVE  /\ pd \in [Source -> Seq(answers!Cmd)] /\ aw \in [Source -> Seq(answers!Cmd)]
         /\ \A t \in Source, x \in answers!Cmd :
              /\ Times(pd[t], x) \in Nat /\ Times(aw[t], x) \in Nat
              /\ AtWork(reg, sv, t, x) \in {0, 1}
              /\ Times(aw[t], x) = Times(pd[t], x) + AtWork(reg, sv, t, x)
<1>1. pd \in [Source -> Seq(answers!Cmd)] /\ aw \in [Source -> Seq(answers!Cmd)]
  BY DEF Owed
<1>2. \A t \in Source : \A x : Times(pd[t], x) \in Nat /\ Times(aw[t], x) \in Nat
  BY <1>1, CountsAreNat
<1>3. \A t, x : AtWork(reg, sv, t, x) \in {0, 1}
  BY DEF AtWork
<1>4. \A t \in Source, x \in answers!Cmd : Times(aw[t], x) = Times(pd[t], x) + AtWork(reg, sv, t, x)
  BY DEF Owed
<1> QED BY <1>1, <1>2, <1>3, <1>4

(* A command that is answered at once. *)
LEMMA OwedAnswered ==
  ASSUME NEW pd, NEW aw, NEW reg, NEW sv, NEW cur, Owed(pd, aw, reg, sv, cur),
         NEW s \in Source, pd[s] # << >>
  PROVE  Owed(Run(pd, s), Answered(aw, s, Head(pd[s])), reg, sv, s)
<1> DEFINE c == Head(pd[s])
           p2 == Run(pd, s)
           a2 == Answered(aw, s, c)
<1>1. /\ pd \in [Source -> Seq(answers!Cmd)] /\ aw \in [Source -> Seq(answers!Cmd)]
      /\ \A t \in Source, x \in answers!Cmd :
           /\ Times(pd[t], x) \in Nat /\ Times(aw[t], x) \in Nat
           /\ AtWork(reg, sv, t, x) \in {0, 1}
           /\ Times(aw[t], x) = Times(pd[t], x) + AtWork(reg, sv, t, x)
  BY OwedCounts
<1>2. c \in answers!Cmd /\ Times(pd[s], c) # 0 /\ OneLess(pd, p2, s, c)
  BY <1>1, RunLess
<1> HIDE DEF c, p2
<1>3. Times(aw[s], c) # 0
  <2>1. /\ Times(pd[s], c) \in Nat /\ AtWork(reg, sv, s, c) \in {0, 1}
        /\ Times(aw[s], c) = Times(pd[s], c) + AtWork(reg, sv, s, c)
    BY <1>1, <1>2
  <2> QED BY <1>2, <2>1
<1>4. OneLess(aw, a2, s, c)
  BY <1>1, <1>3, AnswerLess
<1> HIDE DEF a2
<1>5. \A t \in Source, x \in answers!Cmd : Times(a2[t], x) = Times(p2[t], x) + AtWork(reg, sv, t, x)
  <2> SUFFICES ASSUME NEW t \in Source, NEW x \in answers!Cmd
               PROVE  Times(a2[t], x) = Times(p2[t], x) + AtWork(reg, sv, t, x)
    OBVIOUS
  <2>1. /\ Times(p2[t], x) = IF t = s /\ x = c THEN Times(pd[t], x) - 1 ELSE Times(pd[t], x)
        /\ Times(a2[t], x) = IF t = s /\ x = c THEN Times(aw[t], x) - 1 ELSE Times(aw[t], x)
    BY <1>2, <1>4 DEF OneLess
  <2>2. /\ Times(pd[t], x) \in Nat /\ AtWork(reg, sv, t, x) \in {0, 1}
        /\ Times(aw[t], x) = Times(pd[t], x) + AtWork(reg, sv, t, x)
    BY <1>1
  <2>3. CASE t = s /\ x = c
    BY <2>1, <2>2, <2>3
  <2>4. CASE ~(t = s /\ x = c)
    BY <2>1, <2>2, <2>4
  <2> QED BY <2>3, <2>4
<1>6. \A m \in reg : sv[m] = s
  BY ServesIt
<1>7. /\ \A t, u \in Source, m \in answers!Responder, x \in answers!Cmd :
              t # u /\ Times(a2[t], m) # 0 => Times(a2[u], x) = 0
      /\ \A t \in Source, m \in Restartable : Times(a2[t], m) <= 1
  BY <1>4, FewerKeeps
<1>8. p2 \in [Source -> Seq(answers!Cmd)] /\ a2 \in [Source -> Seq(answers!Cmd)]
  BY <1>2, <1>4 DEF OneLess
<1>9. Owed(p2, a2, reg, sv, s)
  BY <1>5, <1>6, <1>7, <1>8 DEF Owed
<1> QED BY <1>9 DEF p2, a2, c

(* A responder that is started was not at work. *)
LEMMA OwedStarted ==
  ASSUME NEW pd, NEW aw, NEW reg, NEW sv, NEW cur, Owed(pd, aw, reg, sv, cur),
         NEW s \in Source, pd[s] # << >>, NEW c, c = Head(pd[s]), c \in answers!Responder,
         c \notin Guarded \cap reg
  PROVE  c \notin reg /\ Owed(Run(pd, s), aw, reg \cup {c}, [sv EXCEPT ![c] = s], s)
<1> DEFINE r2 == reg \cup {c}
           v2 == [sv EXCEPT ![c] = s]
           p2 == Run(pd, s)
<1>1. /\ pd \in [Source -> Seq(answers!Cmd)] /\ aw \in [Source -> Seq(answers!Cmd)]
      /\ \A t \in Source, x \in answers!Cmd :
           /\ Times(pd[t], x) \in Nat /\ Times(aw[t], x) \in Nat
           /\ AtWork(reg, sv, t, x) \in {0, 1}
           /\ Times(aw[t], x) = Times(pd[t], x) + AtWork(reg, sv, t, x)
  BY OwedCounts
<1>2. c \in answers!Cmd /\ Times(pd[s], c) # 0 /\ OneLess(pd, p2, s, c)
  BY <1>1, RunLess
<1>4. \A m \in reg : sv[m] = s
  BY ServesIt
<1>6. c \notin reg
  <2> SUFFICES ASSUME c \in reg PROVE FALSE
    OBVIOUS
  <2>1. c \in Restartable /\ AtWork(reg, sv, s, c) = 1
    BY <1>4 DEF answers!Responder, AtWork
  <2>2. Times(aw[s], c) <= 1
    BY <2>1 DEF Owed
  <2> QED BY <1>1, <1>2, <2>1, <2>2
<1>7. v2 \in [answers!Responder -> Source \cup {NULL}] /\ \A m \in r2 : v2[m] = s
  BY <1>4 DEF Owed
<1>8. ASSUME NEW t \in Source, NEW x \in answers!Cmd
      PROVE  Times(aw[t], x) = Times(p2[t], x) + AtWork(r2, v2, t, x)
  <2>0. Times(p2[t], x) = IF t = s /\ x = c THEN Times(pd[t], x) - 1 ELSE Times(pd[t], x)
    BY <1>2 DEF OneLess
  <2>1. CASE x = c
    <3>1. AtWork(reg, sv, t, x) = 0
      BY <1>6, <2>1 DEF AtWork
    <3>2. AtWork(r2, v2, t, x) = IF t = s THEN 1 ELSE 0
      BY <1>7, <2>1 DEF AtWork
    <3> HIDE DEF r2, v2, p2
    <3> QED BY <1>1, <2>0, <2>1, <3>1, <3>2
  <2>2. CASE x # c
    <3>1. AtWork(r2, v2, t, x) = AtWork(reg, sv, t, x)
      BY <1>4, <1>7, <2>2 DEF AtWork
    <3> HIDE DEF r2, v2, p2
    <3> QED BY <1>1, <2>0, <2>2, <3>1
  <2> QED BY <2>1, <2>2
<1>9. r2 \subseteq answers!Responder
  BY DEF Owed
<1> HIDE DEF r2, v2, p2
<1>10. p2 \in [Source -> Seq(answers!Cmd)]
  BY <1>2 DEF OneLess
<1>11. /\ \A t, u \in Source, m \in answers!Responder, x \in answers!Cmd :
               t # u /\ Times(aw[t], m) # 0 => Times(aw[u], x) = 0
       /\ \A t \in Source, m \in Restartable : Times(aw[t], m) <= 1
  BY DEF Owed
<1>12. Owed(p2, aw, r2, v2, s)
  BY <1>1, <1>7, <1>8, <1>9, <1>10, <1>11 DEF Owed
<1> QED BY <1>6, <1>12 DEF r2, v2, p2

(* A responder that ends. *)
LEMMA OwedEnded ==
  ASSUME NEW pd, NEW aw, NEW reg, NEW sv, NEW cur, Owed(pd, aw, reg, sv, cur), NEW m \in reg
  PROVE  Owed(pd, Answered(aw, cur, m), reg \ {m}, [sv EXCEPT ![m] = NULL], cur)
<1> DEFINE r2 == reg \ {m}
           v2 == [sv EXCEPT ![m] = NULL]
           a2 == Answered(aw, cur, m)
<1>1. /\ pd \in [Source -> Seq(answers!Cmd)] /\ aw \in [Source -> Seq(answers!Cmd)]
      /\ \A t \in Source, x \in answers!Cmd :
           /\ Times(pd[t], x) \in Nat /\ Times(aw[t], x) \in Nat
           /\ AtWork(reg, sv, t, x) \in {0, 1}
           /\ Times(aw[t], x) = Times(pd[t], x) + AtWork(reg, sv, t, x)
  BY OwedCounts
<1>2. /\ cur \in Source /\ m \in answers!Cmd /\ m \in answers!Responder /\ sv[m] = cur
      /\ \A x \in reg : sv[x] = cur
  BY DEF Owed, answers!Cmd
<1>3. Times(aw[cur], m) # 0
  <2>1. AtWork(reg, sv, cur, m) = 1
    BY <1>2 DEF AtWork
  <2> QED BY <1>1, <1>2, <2>1
<1>4. OneLess(aw, a2, cur, m)
  BY <1>1, <1>2, <1>3, AnswerLess
<1> HIDE DEF a2
<1>6. /\ v2 \in [answers!Responder -> Source \cup {NULL}] /\ r2 \subseteq answers!Responder
      /\ \A x \in r2 : v2[x] = cur
  BY DEF Owed
<1>7. ASSUME NEW t \in Source, NEW x \in answers!Cmd
      PROVE  Times(a2[t], x) = Times(pd[t], x) + AtWork(r2, v2, t, x)
  <2>0. Times(a2[t], x) = IF t = cur /\ x = m THEN Times(aw[t], x) - 1 ELSE Times(aw[t], x)
    BY <1>4 DEF OneLess
  <2>1. CASE x = m
    <3>1. AtWork(reg, sv, t, x) = IF t = cur THEN 1 ELSE 0
      BY <1>2, <2>1 DEF AtWork
    <3>2. AtWork(r2, v2, t, x) = 0
      BY <2>1 DEF AtWork
    <3> HIDE DEF r2, v2
    <3> QED BY <1>1, <2>0, <2>1, <3>1, <3>2
  <2>2. CASE x # m
    <3>1. AtWork(r2, v2, t, x) = AtWork(reg, sv, t, x)
      <4>1. x \in r2 <=> x \in reg
        BY <2>2
      <4>2. x \in reg => v2[x] = cur /\ sv[x] = cur
        BY <1>2, <1>6, <4>1
      <4> HIDE DEF r2, v2
      <4> QED BY <4>1, <4>2 DEF AtWork
    <3> HIDE DEF r2, v2
    <3> QED BY <1>1, <2>0, <2>2, <3>1
  <2> QED BY <2>1, <2>2
<1>8. /\ \A t, u \in Source, x \in answers!Responder, y \in answers!Cmd :
              t # u /\ Times(a2[t], x) # 0 => Times(a2[u], y) = 0
      /\ \A t \in Source, x \in Restartable : Times(a2[t], x) <= 1
  BY <1>4, FewerKeeps
<1> HIDE DEF r2, v2
<1>9. a2 \in [Source -> Seq(answers!Cmd)]
  BY <1>4 DEF OneLess
<1>10. Owed(pd, a2, r2, v2, cur)
  BY <1>1, <1>2, <1>6, <1>7, <1>8, <1>9 DEF Owed
<1> QED BY <1>10 DEF r2, v2, a2

-----------------------------------------------------------------------------
(***************************************************************************)
(* The task list, and what is left of it in the slice, name no responder   *)
(* twice.                                                                  *)
(***************************************************************************)
Elements(q) == {q[i] : i \in 1 .. Len(q)}
Distinct(q) == \A i, j \in 1 .. Len(q) : q[i] = q[j] => i = j

ListsInv(ts, run) ==
  /\ ts \in Seq(answers!Responder) /\ run \in Seq(answers!Responder)
  /\ Distinct(ts) /\ Distinct(run) /\ Elements(run) \subseteq Elements(ts)

LEMMA DistinctAppend ==
  ASSUME NEW X, NEW q \in Seq(X), NEW c \in X, Distinct(q), c \notin Elements(q)
  PROVE  /\ Append(q, c) \in Seq(X) /\ Distinct(Append(q, c))
         /\ Elements(Append(q, c)) = Elements(q) \cup {c}
<1> DEFINE r == Append(q, c)
           n == Len(q)
<1>1. /\ n \in Nat /\ r \in Seq(X) /\ Len(r) = n + 1 /\ r[n + 1] = c
      /\ \A i \in 1 .. n : r[i] = q[i] /\ q[i] # c
  BY DEF Elements
<1> HIDE DEF r
<1>2. \A i \in 1 .. n + 1 : i = n + 1 \/ i \in 1 .. n
  BY <1>1
<1>3. Distinct(r)
  BY <1>1, <1>2 DEF Distinct
<1>4. Elements(r) = Elements(q) \cup {c}
  BY <1>1, <1>2 DEF Elements
<1> QED BY <1>1, <1>3, <1>4 DEF r

LEMMA DistinctLess ==
  ASSUME NEW X, NEW q \in Seq(X), NEW r \in Seq(X), NEW k \in 1 .. Len(q), Less(q, k, r), Distinct(q)
  PROVE  Distinct(r) /\ Elements(r) = Elements(q) \ {q[k]}
<1> DEFINE n == Len(q)
<1>1. n \in Nat /\ Len(r) = n - 1 /\ \A i \in 1 .. n - 1 : r[i] = q[IF i < k THEN i ELSE i + 1]
  BY DEF Less
<1>2. \A i, j \in 1 .. n : q[i] = q[j] => i = j
  BY DEF Distinct
<1> HIDE DEF n
<1>3. k \in 1 .. n
  BY DEF n
<1>4. Distinct(r)
  <2> SUFFICES ASSUME NEW i \in 1 .. n - 1, NEW j \in 1 .. n - 1, r[i] = r[j] PROVE i = j
    BY <1>1 DEF Distinct
  <2>1. i \in 1 .. n /\ j \in 1 .. n /\ i + 1 \in 1 .. n /\ j + 1 \in 1 .. n
    BY <1>1
  <2> QED BY <1>1, <1>2, <1>3, <2>1
<1>5. ASSUME NEW i \in 1 .. n - 1 PROVE \E j \in 1 .. n : j # k /\ q[j] = r[i]
  <2>1. i \in 1 .. n /\ i + 1 \in 1 .. n
    BY <1>1
  <2>2. CASE i < k
    <3>1. i # k /\ q[i] = r[i]
      BY <1>1, <1>3, <2>1, <2>2
    <3> QED BY <2>1, <3>1
  <2>3. CASE ~(i < k)
    <3>1. i + 1 # k /\ q[i + 1] = r[i]
      BY <1>1, <1>3, <2>1, <2>3
    <3> QED BY <2>1, <3>1
  <2> QED BY <2>2, <2>3
<1>6. ASSUME NEW j \in 1 .. n, j # k PROVE \E i \in 1 .. n - 1 : r[i] = q[j]
  <2>1. CASE j < k
    <3>1. j \in 1 .. n - 1
      BY <1>1, <1>3, <2>1
    <3> QED BY <1>1, <2>1, <3>1
  <2>2. CASE j > k
    <3>1. j - 1 \in 1 .. n - 1 /\ ~(j - 1 < k) /\ (j - 1) + 1 = j
      BY <1>1, <1>3, <2>2
    <3> QED BY <1>1, <3>1
  <2> QED BY <1>1, <1>3, <1>6, <2>1, <2>2
<1>7. Elements(r) \subseteq Elements(q) \ {q[k]}
  <2> SUFFICES ASSUME NEW i \in 1 .. n - 1 PROVE r[i] \in Elements(q) \ {q[k]}
    BY <1>1 DEF Elements
  <2>1. PICK j \in 1 .. n : j # k /\ q[j] = r[i]
    BY <1>5
  <2>2. q[j] # q[k]
    BY <1>2, <1>3, <2>1
  <2> QED BY <2>1, <2>2 DEF Elements, n
<1>8. Elements(q) \ {q[k]} \subseteq Elements(r)
  <2> SUFFICES ASSUME NEW j \in 1 .. n, q[j] # q[k] PROVE q[j] \in Elements(r)
    BY DEF Elements, n
  <2>1. PICK i \in 1 .. n - 1 : r[i] = q[j]
    BY <1>6
  <2> QED BY <1>1, <2>1 DEF Elements
<1> QED BY <1>4, <1>7, <1>8

LEMMA TailDrops ==
  ASSUME NEW X, NEW q \in Seq(X), q # << >>, Distinct(q)
  PROVE  /\ Tail(q) \in Seq(X) /\ Head(q) \in Elements(q)
         /\ Distinct(Tail(q)) /\ Elements(Tail(q)) = Elements(q) \ {Head(q)}
<1>1. Tail(q) \in Seq(X) /\ Head(q) = q[1] /\ 1 \in 1 .. Len(q) /\ Less(q, 1, Tail(q))
  BY TailIsLess
<1>2. Distinct(Tail(q)) /\ Elements(Tail(q)) = Elements(q) \ {q[1]}
  BY <1>1, DistinctLess
<1> QED BY <1>1, <1>2 DEF Elements

LEMMA WithoutDrops ==
  ASSUME NEW X, NEW q \in Seq(X), NEW c \in Elements(q), Distinct(q)
  PROVE  /\ answers!Without(q, c) \in Seq(X)
         /\ Distinct(answers!Without(q, c)) /\ Elements(answers!Without(q, c)) = Elements(q) \ {c}
<1>1. PICK j \in 1 .. Len(q) : q[j] = c
  BY DEF Elements
<1>2. answers!Without(q, c) \in Seq(X)
  BY <1>1, WithoutIsLess
<1>3. PICK k \in 1 .. Len(q) : q[k] = c /\ Less(q, k, answers!Without(q, c))
  BY <1>1, WithoutIsLess
<1>4. /\ Distinct(answers!Without(q, c))
      /\ Elements(answers!Without(q, c)) = Elements(q) \ {q[k]}
  BY <1>2, <1>3, DistinctLess
<1> QED BY <1>2, <1>3, <1>4

AnswersInv ==
  /\ ListsInv(tasks, to_run) /\ to_exec \in Seq(Source)
  /\ Owed(lines, awaiting, Elements(tasks), serving, current_cmd_source)
  /\ answers!ResponseOnOwnStream

AnswersInvNext ==
  /\ ListsInv(tasks', to_run') /\ to_exec' \in Seq(Source)
  /\ Owed(lines', awaiting', Elements(tasks'), serving', current_cmd_source')
  /\ written' # NULL => written'.stream = written'.source

LEMMA InvNext == AnswersInv' <=> AnswersInvNext
<1>1. ListsInv(tasks, to_run)' <=> ListsInv(tasks', to_run')
  BY DEF ListsInv, Distinct, Elements
<1>2. Owed(lines, awaiting, Elements(tasks), serving, current_cmd_source)'
        <=> Owed(lines', awaiting', Elements(tasks'), serving', current_cmd_source')
  BY DEF Owed, Elements, AtWork, Times, Places
<1>3. answers!ResponseOnOwnStream' <=> (written' # NULL => written'.stream = written'.source)
  BY DEF answers!ResponseOnOwnStream
<1> QED BY <1>1, <1>2, <1>3 DEF AnswersInv, AnswersInvNext

LEMMA RegisteredIs ==
  ASSUME ListsInv(tasks, to_run) PROVE answers!Registered = Elements(tasks)
BY DEF ListsInv, answers!Registered, Elements

LEMMA HandlerKeeps ==
  ASSUME answers!CommandsAssumption, AnswersInv, NEW s \in Source, lines[s] # << >>,
         lines' = Run(lines, s), current_cmd_source' = s, to_exec' \in Seq(Source),
         answers!Handler(s, Head(lines[s]))
  PROVE  AnswersInvNext
<1> DEFINE c == Head(lines[s])
           reg == Elements(tasks)
<1>1. /\ ListsInv(tasks, to_run) /\ reg = answers!Registered
      /\ Owed(lines, awaiting, reg, serving, current_cmd_source)
  BY RegisteredIs DEF AnswersInv
<1>2. c \in answers!Cmd
  <2>1. lines \in [Source -> Seq(answers!Cmd)]
    BY <1>1 DEF Owed
  <2> QED BY <2>1, RunLess
<1>3. CASE c \in Quick \/ answers!Refused(c)
  <2>1. /\ awaiting' = Answered(awaiting, s, c) /\ UNCHANGED <<tasks, to_run, serving>>
        /\ written' = [stream |-> s, source |-> s, cmd |-> c, last |-> TRUE]
    BY <1>3 DEF answers!Handler, answers!Write, answers!Redirect, Answered
  <2>2. Owed(lines', awaiting', reg, serving', current_cmd_source')
    BY <1>1, <2>1, OwedAnswered
  <2>3. written'.stream = written'.source
    BY <2>1
  <2> QED BY <1>1, <2>1, <2>2, <2>3 DEF AnswersInvNext
<1>4. CASE ~(c \in Quick \/ answers!Refused(c))
  <2>1. answers!StartResponder(s, c)
    BY <1>4 DEF answers!Handler
  <2>2. c \in answers!Responder /\ c \notin Guarded \cap reg
    BY <1>1, <1>2, <1>4 DEF answers!Refused, answers!Cmd
  <2>3. c \notin reg /\ Owed(Run(lines, s), awaiting, reg \cup {c}, [serving EXCEPT ![c] = s], s)
    <3> HIDE DEF c, reg
    <3>1. c = Head(lines[s])
      BY DEF c
    <3> QED BY <1>1, <2>2, <3>1, OwedStarted
  <2>4. /\ tasks' = Append(tasks, c) /\ to_run' = Append(to_run, c)
        /\ serving' = [serving EXCEPT ![c] = s] /\ awaiting' = awaiting /\ written' = NULL
    BY <1>1, <2>1, <2>3 DEF answers!StartResponder, answers!AddOnce
  <2>5. /\ tasks \in Seq(answers!Responder) /\ to_run \in Seq(answers!Responder)
        /\ Distinct(tasks) /\ Distinct(to_run) /\ c \notin Elements(tasks) /\ c \notin Elements(to_run)
        /\ Elements(to_run) \subseteq Elements(tasks)
    BY <1>1, <2>3 DEF ListsInv
  <2>6. /\ tasks' \in Seq(answers!Responder) /\ Distinct(tasks') /\ Elements(tasks') = reg \cup {c}
        /\ to_run' \in Seq(answers!Responder) /\ Distinct(to_run')
        /\ Elements(to_run') = Elements(to_run) \cup {c}
    BY <2>2, <2>4, <2>5, DistinctAppend
  <2>7. ListsInv(tasks', to_run')
    BY <2>5, <2>6 DEF ListsInv
  <2>8. Owed(lines', awaiting', Elements(tasks'), serving', current_cmd_source')
    BY <2>3, <2>4, <2>6
  <2> QED BY <2>4, <2>7, <2>8 DEF AnswersInvNext
<1> QED BY <1>3, <1>4

LEMMA ExecKeepsAnswers ==
  ASSUME answers!CommandsAssumption, AnswersInv, answers!Exec PROVE AnswersInvNext
<1> DEFINE s == Head(to_exec)
<1>1. to_exec \in Seq(Source) /\ to_exec # << >>
  BY DEF AnswersInv, answers!Exec
<1>2. s \in Source /\ Tail(to_exec) \in Seq(Source)
  BY <1>1
<1>3. to_exec' \in Seq(Source)
  BY <1>2 DEF answers!Exec
<1>4. CASE lines[s] = << >>
  <2>1. UNCHANGED <<lines, current_cmd_source, tasks, to_run, awaiting, serving>> /\ written' = NULL
    BY <1>4 DEF answers!Exec
  <2> QED BY <1>3, <2>1 DEF AnswersInv, AnswersInvNext
<1>5. CASE lines[s] # << >>
  <2>1. /\ current_cmd_source' = s /\ lines' = Run(lines, s) /\ answers!Handler(s, Head(lines[s]))
    BY <1>5 DEF answers!Exec, answers!Redirect, Run
  <2> HIDE DEF s
  <2> QED BY <1>2, <1>3, <1>5, <2>1, HandlerKeeps
<1> QED BY <1>4, <1>5

LEMMA RespondKeeps ==
  ASSUME AnswersInv, answers!Respond PROVE AnswersInvNext
<1> DEFINE m == Head(to_run)
           reg == Elements(tasks)
<1>1. /\ ListsInv(tasks, to_run) /\ to_run # << >>
      /\ Owed(lines, awaiting, reg, serving, current_cmd_source)
      /\ UNCHANGED <<lines, current_cmd_source, to_exec>> /\ to_run' = Tail(to_run)
      /\ to_exec \in Seq(Source)
  BY DEF AnswersInv, answers!Respond
<1>2. /\ tasks \in Seq(answers!Responder) /\ to_run \in Seq(answers!Responder)
      /\ Distinct(tasks) /\ Distinct(to_run) /\ Elements(to_run) \subseteq Elements(tasks)
  BY <1>1 DEF ListsInv
<1>3. /\ Tail(to_run) \in Seq(answers!Responder) /\ m \in Elements(to_run)
      /\ Distinct(Tail(to_run)) /\ Elements(Tail(to_run)) = Elements(to_run) \ {m}
  BY <1>1, <1>2, TailDrops
<1>4. m \in reg
  BY <1>2, <1>3
<1>5. serving[m] = current_cmd_source
  BY <1>1, <1>4 DEF Owed
<1>6. CASE answers!WritePiece(m)
  <2>1. /\ UNCHANGED <<tasks, serving, awaiting>>
        /\ written' = [stream |-> current_cmd_source, source |-> serving[m], cmd |-> m, last |-> FALSE]
    BY <1>6 DEF answers!WritePiece, answers!Write
  <2>2. ListsInv(tasks', to_run')
    BY <1>1, <1>2, <1>3, <2>1 DEF ListsInv
  <2>3. written'.stream = written'.source
    BY <1>5, <2>1
  <2> QED BY <1>1, <2>1, <2>2, <2>3 DEF AnswersInvNext
<1>7. CASE answers!EndResponse(m)
  <2>1. /\ tasks' = answers!Without(tasks, m) /\ serving' = [serving EXCEPT ![m] = NULL]
        /\ awaiting' = Answered(awaiting, current_cmd_source, m)
        /\ written' = [stream |-> current_cmd_source, source |-> serving[m], cmd |-> m, last |-> TRUE]
    BY <1>7 DEF answers!EndResponse, answers!Unregister, answers!Write, Answered
  <2>2. /\ tasks' \in Seq(answers!Responder) /\ Distinct(tasks') /\ Elements(tasks') = reg \ {m}
    BY <1>2, <1>4, <2>1, WithoutDrops
  <2>3. ListsInv(tasks', to_run')
    BY <1>1, <1>2, <1>3, <2>2 DEF ListsInv
  <2>4. Owed(lines', awaiting', Elements(tasks'), serving', current_cmd_source')
    <3> HIDE DEF m, reg
    <3>1. Owed(lines, Answered(awaiting, current_cmd_source, m), reg \ {m},
               [serving EXCEPT ![m] = NULL], current_cmd_source)
      BY <1>1, <1>4, OwedEnded
    <3>2. lines' = lines /\ current_cmd_source' = current_cmd_source
      BY <1>1
    <3> QED BY <2>1, <2>2, <3>1, <3>2
  <2>5. written'.stream = written'.source
    BY <1>5, <2>1
  <2> QED BY <1>1, <2>3, <2>4, <2>5 DEF AnswersInvNext
<1> QED BY <1>6, <1>7 DEF answers!Respond

LEMMA AnswersNext ==
  ASSUME answers!CommandsAssumption, Polite, AnswersInv, answers!Next PROVE AnswersInvNext
<1>1. ASSUME NEW s \in Source, NEW c \in Typed, answers!Send(s, c) PROVE AnswersInvNext
  <2>1. c \in answers!Cmd
    BY DEF answers!CommandsAssumption
  <2>2. answers!Registered = Elements(tasks)
    BY RegisteredIs DEF AnswersInv
  <2>3. UNCHANGED <<tasks, to_run, to_exec>> /\ written' = NULL
    BY <1>1 DEF answers!Send
  <2>4. Owed(lines', awaiting', Elements(tasks), serving', current_cmd_source')
    BY <1>1, <2>1, <2>2, OwedSend DEF AnswersInv
  <2> QED BY <2>3, <2>4 DEF AnswersInv, AnswersInvNext
<1>2. CASE answers!NextSlice
  <2>1. /\ to_exec' = ExecOrder /\ to_run' = tasks /\ written' = NULL
        /\ UNCHANGED <<lines, current_cmd_source, tasks, awaiting, serving>>
    BY <1>2 DEF answers!NextSlice
  <2>2. ExecOrder \in Seq(Source)
    BY DEF answers!CommandsAssumption
  <2>3. ListsInv(tasks', to_run')
    BY <2>1 DEF AnswersInv, ListsInv
  <2> QED BY <2>1, <2>2, <2>3 DEF AnswersInv, AnswersInvNext
<1> QED BY <1>1, <1>2, ExecKeepsAnswers, RespondKeeps DEF answers!Next

LEMMA AnswersInit ==
  ASSUME answers!CommandsAssumption, answers!Init PROVE AnswersInv
<1>1. Console \in Source /\ Help \in Restartable /\ Help \in answers!Responder /\ Help \in answers!Cmd
      /\ NULL \notin Source
  BY DEF answers!CommandsAssumption, answers!Responder, answers!Cmd
<1>2. /\ lines = [s \in Source |-> << >>] /\ current_cmd_source = Console /\ tasks = <<Help>>
      /\ to_exec = << >> /\ to_run = << >> /\ written = NULL
      /\ awaiting = [s \in Source |-> IF s = Console THEN <<Help>> ELSE << >>]
      /\ serving = [m \in answers!Responder |-> IF m = Help THEN Console ELSE NULL]
  BY DEF answers!Init
<1>3. Elements(tasks) = {Help} /\ ListsInv(tasks, to_run) /\ to_exec \in Seq(Source)
  BY <1>1, <1>2 DEF ListsInv, Elements, Distinct
<1>4. \A c : Times(<< >>, c) = 0
  BY FS_EmptySet DEF Times, Places
<1>5. \A c : Times(<<Help>>, c) = IF c = Help THEN 1 ELSE 0
  <2>1. \A c : Places(<<Help>>, c) = IF c = Help THEN {1} ELSE {}
    BY DEF Places
  <2>2. Cardinality({1}) = 1
    BY FS_Singleton
  <2> QED BY <2>1, <2>2, FS_EmptySet DEF Times
<1>6. lines \in [Source -> Seq(answers!Cmd)] /\ awaiting \in [Source -> Seq(answers!Cmd)]
  BY <1>1, <1>2
<1>7. \A s \in Source : \A c : /\ Times(lines[s], c) = 0
                               /\ Times(awaiting[s], c) = IF s = Console /\ c = Help THEN 1 ELSE 0
  BY <1>2, <1>4, <1>5
<1>8. \A s, c : s \in Source => AtWork({Help}, serving, s, c) = IF s = Console /\ c = Help THEN 1 ELSE 0
  BY <1>1, <1>2 DEF AtWork
<1>9. Owed(lines, awaiting, {Help}, serving, current_cmd_source)
  <2>1. {Help} \subseteq answers!Responder /\ current_cmd_source \in Source
        /\ serving \in [answers!Responder -> Source \cup {NULL}] /\ serving[Help] = current_cmd_source
    BY <1>1, <1>2
  <2>2. \A s \in Source, c \in answers!Cmd :
          Times(awaiting[s], c) = Times(lines[s], c) + AtWork({Help}, serving, s, c)
    BY <1>7, <1>8
  <2>3. \A s, t \in Source, m \in answers!Responder, c \in answers!Cmd :
          s # t /\ Times(awaiting[s], m) # 0 => Times(awaiting[t], c) = 0
    BY <1>7
  <2>4. \A s \in Source, m \in Restartable : Times(awaiting[s], m) <= 1
    BY <1>7
  <2> QED BY <1>6, <2>1, <2>2, <2>3, <2>4 DEF Owed
<1> QED BY <1>2, <1>3, <1>9 DEF AnswersInv, answers!ResponseOnOwnStream

LEMMA NothingIsLost == ASSUME AnswersInv PROVE answers!NoAnswerLost
<1> SUFFICES ASSUME tasks = << >>, \A s \in Source : lines[s] = << >>,
                    NEW s \in Source
             PROVE  awaiting[s] = << >>
  BY DEF answers!NoAnswerLost, answers!Unanswered
<1>1. Owed(lines, awaiting, Elements(tasks), serving, current_cmd_source)
  BY DEF AnswersInv
<1>2. Elements(tasks) = {}
  BY DEF Elements
<1>3. lines[s] \in Seq(answers!Cmd) /\ awaiting[s] \in Seq(answers!Cmd)
  BY <1>1 DEF Owed
<1>4. \A c \in answers!Cmd : Times(lines[s], c) = 0 /\ AtWork(Elements(tasks), serving, s, c) = 0
  BY <1>2, <1>3, EmptyHasNone DEF AtWork
<1>5. \A c \in answers!Cmd : Times(awaiting[s], c) = 0
  BY <1>1, <1>4 DEF Owed
<1> QED BY <1>3, <1>5, EmptyHasNone

(***************************************************************************)
(* Whatever commands, streams and responders there are: as long as hosts   *)
(* keep out of each other's way, what is written goes to the stream of the *)
(* line it answers, and once nothing waits to be run and no responder is   *)
(* at work every line has its answer.                                      *)
(***************************************************************************)
THEOREM AnswersReach == ASSUME Polite PROVE EitherSpec => []AnswersReachTheirLine
<1>0. answers!CommandsAssumption
  BY InstancesAssumption
<1>1. Either => AnswersInv
  BY <1>0, AnswersInit DEF Either
<1>2. AnswersInv /\ [EitherNext]_<<session, vars, linesVars, controlVars>> => AnswersInv'
  <2> SUFFICES ASSUME AnswersInv, [EitherNext]_<<session, vars, linesVars, controlVars>>
               PROVE  AnswersInvNext
    BY InvNext
  <2>1. CASE answers!Next
    BY <1>0, <2>1, AnswersNext
  <2>2. CASE UNCHANGED linesVars
    BY <2>2 DEF linesVars, AnswersInv, AnswersInvNext, answers!ResponseOnOwnStream
  <2> QED BY <2>1, <2>2 DEF EitherNext
<1>3. AnswersInv => AnswersReachTheirLine
  BY NothingIsLost DEF AnswersInv, AnswersReachTheirLine
<1> QED BY <1>1, <1>2, <1>3, PTL DEF EitherSpec

-----------------------------------------------------------------------------
(***************************************************************************)
(* The list of injection contexts: l stands for its head, its pointers and *)
(* its flags.  The contexts that are registered can be numbered so that    *)
(* the head is the first and each points to the one behind it, whatever    *)
(* the others still point to.                                              *)
(***************************************************************************)
IsLinks(l) ==
  l \in [head : Ctx \union {NULL}, next : [Ctx -> Ctx \union {NULL}], registered : [Ctx -> BOOLEAN]]

Numbered(l, n, nth) ==
  /\ n \in Nat /\ nth \in [1 .. n -> Ctx]
  /\ \A i, j \in 1 .. n : nth[i] = nth[j] => i = j
  /\ \A c \in Ctx : l.registered[c] <=> \E i \in 1 .. n : nth[i] = c
  /\ l.head = IF n = 0 THEN NULL ELSE nth[1]
  /\ \A i \in 1 .. n : l.next[nth[i]] = IF i = n THEN NULL ELSE nth[i + 1]
InAChain(l) == IsLinks(l) /\ \E n \in Nat : \E nth \in [1 .. n -> Ctx] : Numbered(l, n, nth)

(* The walk meets the contexts that are numbered and no other. *)
LEMMA WalkMeets ==
  ASSUME NULL \notin Ctx, NEW l, IsLinks(l), NEW n, NEW nth, Numbered(l, n, nth)
  PROVE  control!Walk(l) = {nth[i] : i \in 1 .. n}
<1> DEFINE all == {nth[i] : i \in 1 .. n}
<1> USE DEF Numbered
<1>1. all \in SUBSET Ctx
  OBVIOUS
<1>2. control!ClosedUnderNext(l, all)
  <2>1. l.head = NULL \/ l.head \in all
    OBVIOUS
  <2>2. ASSUME NEW c \in all PROVE l.next[c] = NULL \/ l.next[c] \in all
    <3>1. PICK i \in 1 .. n : c = nth[i]
      OBVIOUS
    <3>2. CASE i = n
      BY <3>1, <3>2
    <3>3. CASE i # n
      <4>1. i + 1 \in 1 .. n
        BY <3>3
      <4> QED BY <3>1, <3>3, <4>1
    <3> QED BY <3>2, <3>3
  <2> QED BY <2>1, <2>2 DEF control!ClosedUnderNext
<1>3. ASSUME NEW k \in 1 .. n, NEW cs \in SUBSET Ctx, control!ClosedUnderNext(l, cs)
      PROVE  nth[k] \in cs
  <2> DEFINE out == {i \in 1 .. n : nth[i] \notin cs}
  <2>1. SUFFICES ASSUME out # {} PROVE FALSE
    OBVIOUS
  <2>2. out \in SUBSET Nat
    OBVIOUS
  <2> HIDE DEF out
  <2>3. PICK i \in out : \A j \in out : i <= j
    BY <2>1, <2>2, LeastOf
  <2>4. i \in 1 .. n /\ nth[i] \notin cs
    BY <2>3 DEF out
  <2>5. CASE i = 1
    <3>1. l.head = nth[1] /\ nth[1] \in Ctx
      BY <2>4, <2>5
    <3> QED BY <1>3, <2>4, <2>5, <3>1 DEF control!ClosedUnderNext
  <2>6. CASE i # 1
    <3>1. i - 1 \in 1 .. n /\ i - 1 # n /\ (i - 1) + 1 = i /\ ~(i <= i - 1)
      BY <2>4, <2>6
    <3>2. i - 1 \notin out
      BY <2>3, <3>1
    <3>3. nth[i - 1] \in cs
      BY <3>1, <3>2 DEF out
    <3>4. l.next[nth[i - 1]] = nth[i] /\ nth[i] \in Ctx
      BY <2>4, <3>1
    <3> QED BY <1>3, <2>4, <3>3, <3>4 DEF control!ClosedUnderNext
  <2> QED BY <2>5, <2>6
<1>4. \A c \in control!Walk(l) : c \in all
  BY <1>1, <1>2 DEF control!Walk
<1>5. \A c \in all : c \in control!Walk(l)
  BY <1>1, <1>3 DEF control!Walk
<1> QED BY <1>4, <1>5

(* The last of the list, and the one before another. *)
LEMMA EndIs ==
  ASSUME NULL \notin Ctx, NEW l, IsLinks(l), NEW n, NEW nth, Numbered(l, n, nth), n # 0
  PROVE  control!EndOf(l) = nth[n]
<1>1. control!Walk(l) = {nth[i] : i \in 1 .. n}
  BY WalkMeets
<1>2. nth[n] \in control!Walk(l) /\ l.next[nth[n]] = NULL
  BY <1>1 DEF Numbered
<1>3. ASSUME NEW c \in control!Walk(l), l.next[c] = NULL PROVE c = nth[n]
  <2>1. PICK i \in 1 .. n : c = nth[i]
    BY <1>1
  <2>2. CASE i # n
    <3>1. i + 1 \in 1 .. n
      BY <2>2 DEF Numbered
    <3>2. l.next[c] = nth[i + 1] /\ nth[i + 1] \in Ctx
      BY <2>1, <2>2, <3>1 DEF Numbered
    <3> QED BY <1>3, <3>2
  <2> QED BY <2>1, <2>2
<1> QED BY <1>2, <1>3 DEF control!EndOf

LEMMA BeforeIs ==
  ASSUME NULL \notin Ctx, NEW l, IsLinks(l), NEW n, NEW nth, Numbered(l, n, nth), NEW k \in 2 .. n
  PROVE  control!Before(l, nth[k]) = nth[k - 1]
<1>1. control!Walk(l) = {nth[i] : i \in 1 .. n}
  BY WalkMeets
<1>2. k - 1 \in 1 .. n /\ k \in 1 .. n /\ k - 1 # n /\ (k - 1) + 1 = k
  BY DEF Numbered
<1>3. nth[k - 1] \in control!Walk(l) /\ l.next[nth[k - 1]] = nth[k]
  BY <1>1, <1>2 DEF Numbered
<1>4. ASSUME NEW c \in control!Walk(l), l.next[c] = nth[k] PROVE c = nth[k - 1]
  <2>1. PICK i \in 1 .. n : c = nth[i]
    BY <1>1
  <2>2. nth[k] \in Ctx /\ i # n
    BY <1>2, <1>4, <2>1 DEF Numbered
  <2>3. i + 1 \in 1 .. n /\ nth[i + 1] = nth[k]
    BY <1>4, <2>1, <2>2 DEF Numbered
  <2>4. i + 1 = k
    BY <1>2, <2>3 DEF Numbered
  <2> QED BY <2>1, <2>4
<1> QED BY <1>3, <1>4 DEF control!Before

(* Registering puts a context at the end, unregistering takes it out. *)
LEMMA RegisterKeeps ==
  ASSUME NULL \notin Ctx, NEW l, InAChain(l), NEW c \in Ctx
  PROVE  InAChain(control!Register(l, c))
<1> DEFINE r == control!Register(l, c)
<1>1. CASE l.registered[c]
  BY <1>1 DEF control!Register
<1>2. CASE ~l.registered[c]
  <2>0. PICK n \in Nat : \E nth \in [1 .. n -> Ctx] : Numbered(l, n, nth)
    BY DEF InAChain
  <2>1. PICK nth \in [1 .. n -> Ctx] : Numbered(l, n, nth)
    BY <2>0
  <2>2. IsLinks(l)
    BY DEF InAChain
  <2>3. \A i \in 1 .. n : nth[i] # c
    BY <1>2, <2>1 DEF Numbered
  <2> DEFINE new == [i \in 1 .. n + 1 |-> IF i = n + 1 THEN c ELSE nth[i]]
  <2>4. /\ IsLinks(r)
        /\ r.registered = [l.registered EXCEPT ![c] = TRUE]
        /\ r.head = new[1]
        /\ r.next[c] = NULL
        /\ n # 0 => r.next[nth[n]] = c
        /\ \A x \in Ctx : x # c /\ (n # 0 => x # nth[n]) => r.next[x] = l.next[x]
    <3>1. CASE n = 0
      <4>1. l.head = NULL /\ new[1] = c
        BY <2>1, <3>1 DEF Numbered
      <4>2. r = [l EXCEPT !.registered[c] = TRUE, !.head = c, !.next[c] = NULL]
        BY <1>2, <4>1 DEF control!Register
      <4> HIDE DEF r, new
      <4> QED BY <2>2, <3>1, <4>1, <4>2 DEF IsLinks
    <3>2. CASE n # 0
      <4>1. l.head # NULL /\ new[1] = nth[1] /\ l.head = nth[1] /\ nth[n] \in Ctx /\ nth[n] # c
        BY <2>1, <2>3, <3>2 DEF Numbered
      <4>2. control!EndOf(l) = nth[n]
        BY <2>1, <2>2, <3>2, EndIs
      <4>3. r = [l EXCEPT !.registered[c] = TRUE, !.next[nth[n]] = c, !.next[c] = NULL]
        BY <1>2, <4>1, <4>2 DEF control!Register
      <4> HIDE DEF r, new
      <4> QED BY <2>2, <3>2, <4>1, <4>3 DEF IsLinks
    <3> QED BY <3>1, <3>2
  <2> HIDE DEF r
  <2>5. Numbered(r, n + 1, new)
    <3>1. n + 1 \in Nat /\ new \in [1 .. n + 1 -> Ctx]
      BY <2>1 DEF Numbered
    <3>2. \A i, j \in 1 .. n + 1 : new[i] = new[j] => i = j
      BY <2>1, <2>3 DEF Numbered
    <3>3. ASSUME NEW x \in Ctx PROVE r.registered[x] <=> \E i \in 1 .. n + 1 : new[i] = x
      <4>0. r.registered[x] <=> x = c \/ l.registered[x]
        BY <2>2, <2>4 DEF IsLinks
      <4>1. l.registered[x] <=> \E i \in 1 .. n : nth[i] = x
        BY <2>1 DEF Numbered
      <4>2. (\E i \in 1 .. n + 1 : new[i] = x) <=> x = c \/ \E i \in 1 .. n : nth[i] = x
        <5>1. n + 1 \in 1 .. n + 1 /\ new[n + 1] = c
          OBVIOUS
        <5>2. \A i \in 1 .. n : i \in 1 .. n + 1 /\ new[i] = nth[i]
          OBVIOUS
        <5>3. \A i \in 1 .. n + 1 : i = n + 1 \/ i \in 1 .. n
          OBVIOUS
        <5> HIDE DEF new
        <5> QED BY <5>1, <5>2, <5>3
      <4> QED BY <4>0, <4>1, <4>2
    <3>4. ASSUME NEW i \in 1 .. n + 1
          PROVE  r.next[new[i]] = IF i = n + 1 THEN NULL ELSE new[i + 1]
      <4>1. CASE i = n + 1
        BY <2>4, <4>1
      <4>2. CASE i = n
        BY <2>4, <4>2
      <4>3. CASE i < n
        <5>1. i \in 1 .. n /\ n \in 1 .. n /\ i # n /\ new[i] = nth[i] /\ new[i + 1] = nth[i + 1]
          BY <4>3
        <5>2. nth[i] # c /\ nth[i] # nth[n] /\ nth[i] \in Ctx /\ l.next[nth[i]] = nth[i + 1]
          BY <2>1, <2>3, <5>1 DEF Numbered
        <5> QED BY <2>4, <4>3, <5>1, <5>2
      <4> QED BY <4>1, <4>2, <4>3
    <3> HIDE DEF new
    <3>5. n + 1 # 0
      OBVIOUS
    <3> QED BY <2>4, <3>1, <3>2, <3>3, <3>4, <3>5 DEF Numbered
  <2> HIDE DEF new
  <2>6. n + 1 \in Nat /\ new \in [1 .. n + 1 -> Ctx]
    BY <2>5 DEF Numbered
  <2> QED BY <2>4, <2>5, <2>6 DEF InAChain, r
<1> QED BY <1>1, <1>2

LEMMA UnregisterKeeps ==
  ASSUME NULL \notin Ctx, NEW l, InAChain(l), NEW c \in Ctx
  PROVE  InAChain(control!Unregister(l, c))
<1> DEFINE r == control!Unregister(l, c)
<1>1. CASE ~l.registered[c]
  BY <1>1 DEF control!Unregister
<1>2. CASE l.registered[c]
  <2>0. PICK n \in Nat : \E nth \in [1 .. n -> Ctx] : Numbered(l, n, nth)
    BY DEF InAChain
  <2>1. PICK nth \in [1 .. n -> Ctx] : Numbered(l, n, nth)
    BY <2>0
  <2>2. IsLinks(l)
    BY DEF InAChain
  <2>3. PICK k \in 1 .. n : nth[k] = c
    BY <1>2, <2>1 DEF Numbered
  <2> DEFINE new == [i \in 1 .. n - 1 |-> IF i < k THEN nth[i] ELSE nth[i + 1]]
  <2>4. /\ IsLinks(r)
        /\ r.registered = [l.registered EXCEPT ![c] = FALSE]
        /\ r.head = IF k = 1 THEN l.next[c] ELSE l.head
        /\ k # 1 => r.next[nth[k - 1]] = l.next[c]
        /\ \A x \in Ctx : (k # 1 => x # nth[k - 1]) => r.next[x] = l.next[x]
    <3>0. l.head = nth[1] /\ 1 \in 1 .. n /\ nth[1] \in Ctx /\ l.next[c] \in Ctx \union {NULL}
      BY <2>1, <2>2, <2>3 DEF Numbered, IsLinks
    <3>1. CASE k = 1
      <4>1. r = [l EXCEPT !.registered[c] = FALSE, !.head = l.next[c]]
        BY <1>2, <2>3, <3>0, <3>1 DEF control!Unregister
      <4> HIDE DEF r
      <4> QED BY <2>2, <3>0, <3>1, <4>1 DEF IsLinks
    <3>2. CASE k # 1
      <4>1. k \in 2 .. n /\ k - 1 \in 1 .. n /\ nth[k - 1] \in Ctx
        BY <2>1, <2>3, <3>2 DEF Numbered
      <4>2. control!Before(l, c) = nth[k - 1]
        BY <2>1, <2>2, <2>3, <4>1, BeforeIs
      <4>3. l.head # c /\ l.head # NULL
        BY <2>1, <2>3, <3>0, <3>2 DEF Numbered
      <4>4. r = [l EXCEPT !.registered[c] = FALSE, !.next[nth[k - 1]] = l.next[c]]
        BY <1>2, <4>2, <4>3 DEF control!Unregister
      <4> HIDE DEF r
      <4> QED BY <2>2, <3>0, <3>2, <4>1, <4>4 DEF IsLinks
    <3> QED BY <3>1, <3>2
  <2> HIDE DEF r
  <2>5. Numbered(r, n - 1, new)
    <3>1. n - 1 \in Nat /\ new \in [1 .. n - 1 -> Ctx]
      BY <2>1, <2>3 DEF Numbered
    <3>2. \A i, j \in 1 .. n - 1 : new[i] = new[j] => i = j
      <4> SUFFICES ASSUME NEW i \in 1 .. n - 1, NEW j \in 1 .. n - 1, new[i] = new[j] PROVE i = j
        OBVIOUS
      <4>1. \A x, y \in 1 .. n : nth[x] = nth[y] => x = y
        BY <2>1 DEF Numbered
      <4>2. i \in 1 .. n /\ j \in 1 .. n /\ i + 1 \in 1 .. n /\ j + 1 \in 1 .. n
        OBVIOUS
      <4> QED BY <4>1, <4>2
    <3>3. ASSUME NEW x \in Ctx PROVE r.registered[x] <=> \E i \in 1 .. n - 1 : new[i] = x
      <4>0. r.registered[x] <=> x # c /\ l.registered[x]
        BY <2>2, <2>4 DEF IsLinks
      <4>1. l.registered[x] <=> \E i \in 1 .. n : nth[i] = x
        BY <2>1 DEF Numbered
      <4>2. ASSUME NEW i \in 1 .. n - 1 PROVE \E j \in 1 .. n : j # k /\ new[i] = nth[j]
        <5>1. i \in 1 .. n /\ i + 1 \in 1 .. n
          OBVIOUS
        <5>2. CASE i < k
          BY <5>1, <5>2
        <5>3. CASE ~(i < k)
          BY <5>1, <5>3
        <5> QED BY <5>2, <5>3
      <4>3. ASSUME NEW j \in 1 .. n, j # k PROVE \E i \in 1 .. n - 1 : new[i] = nth[j]
        <5>1. CASE j < k
          <6>1. j \in 1 .. n - 1 /\ new[j] = nth[j]
            BY <5>1
          <6> QED BY <6>1
        <5>2. CASE ~(j < k)
          <6>1. j - 1 \in 1 .. n - 1 /\ ~(j - 1 < k) /\ (j - 1) + 1 = j
            BY <4>3, <5>2
          <6>2. new[j - 1] = nth[j]
            BY <6>1
          <6> QED BY <6>1, <6>2
        <5> QED BY <5>1, <5>2
      <4>4. \A j \in 1 .. n : nth[j] = c <=> j = k
        BY <2>1, <2>3 DEF Numbered
      <4> HIDE DEF new
      <4>5. (\E i \in 1 .. n - 1 : new[i] = x) <=> x # c /\ \E i \in 1 .. n : nth[i] = x
        BY <4>2, <4>3, <4>4
      <4> QED BY <4>0, <4>1, <4>5
    <3>4. r.head = IF n - 1 = 0 THEN NULL ELSE new[1]
      <4>0. /\ 1 \in 1 .. n /\ l.head = nth[1] /\ l.next[c] = IF k = n THEN NULL ELSE nth[k + 1]
        BY <2>1, <2>3 DEF Numbered
      <4>1. CASE k = 1
        BY <2>4, <4>0, <4>1
      <4>2. CASE k # 1
        BY <2>4, <4>0, <4>2
      <4> QED BY <4>1, <4>2
    <3>5. ASSUME NEW i \in 1 .. n - 1
          PROVE  r.next[new[i]] = IF i = n - 1 THEN NULL ELSE new[i + 1]
      <4>0. /\ \A x \in 1 .. n : nth[x] \in Ctx /\ l.next[nth[x]] = IF x = n THEN NULL ELSE nth[x + 1]
            /\ \A x, y \in 1 .. n : nth[x] = nth[y] => x = y
        BY <2>1 DEF Numbered
      <4>1. i \in 1 .. n /\ i + 1 \in 1 .. n /\ (i + 1) + 1 = i + 2
        OBVIOUS
      <4>2. CASE i = k - 1
        <5>1. k # 1 /\ new[i] = nth[k - 1] /\ r.next[nth[k - 1]] = l.next[nth[k]]
          BY <2>3, <2>4, <4>2
        <5>2. i # n - 1 => new[i + 1] = nth[k + 1]
          BY <4>1, <4>2
        <5> HIDE DEF new
        <5> QED BY <2>3, <4>0, <4>2, <5>1, <5>2
      <4>3. CASE i < k - 1
        <5>1. new[i] = nth[i] /\ new[i + 1] = nth[i + 1] /\ k - 1 \in 1 .. n /\ i # k - 1 /\ i # n - 1 /\ i # n
          BY <2>3, <4>1, <4>3
        <5> HIDE DEF new
        <5>2. r.next[nth[i]] = l.next[nth[i]]
          BY <2>4, <4>0, <4>1, <5>1
        <5> QED BY <4>0, <4>1, <5>1, <5>2
      <4>4. CASE i >= k
        <5>1. new[i] = nth[i + 1] /\ (i # n - 1 => new[i + 1] = nth[i + 2])
          BY <4>1, <4>4
        <5> HIDE DEF new
        <5>2. k # 1 => k - 1 \in 1 .. n /\ i + 1 # k - 1
          BY <4>4
        <5>3. r.next[nth[i + 1]] = l.next[nth[i + 1]]
          BY <2>4, <4>0, <4>1, <5>2
        <5>4. l.next[nth[i + 1]] = IF i + 1 = n THEN NULL ELSE nth[i + 2]
          BY <4>0, <4>1
        <5> QED BY <5>1, <5>3, <5>4
      <4> QED BY <4>2, <4>3, <4>4
    <3> HIDE DEF new
    <3> QED BY <3>1, <3>2, <3>3, <3>4, <3>5 DEF Numbered
  <2> HIDE DEF new
  <2>6. n - 1 \in Nat /\ new \in [1 .. n - 1 -> Ctx]
    BY <2>5 DEF Numbered
  <2> QED BY <2>4, <2>5, <2>6 DEF InAChain, r
<1> QED BY <1>1, <1>2

(***************************************************************************)
(* The waves: the time of a context is within the period of its wave, if   *)
(* that is no shorter than a step.                                         *)
(***************************************************************************)
InPeriod(t, p) == p >= Ts => t < p
WavesInv ==
  /\ \A c \in Ctx : /\ period[c] \in 0 .. MaxTime /\ curr_time[c] \in Nat
                    /\ InPeriod(curr_time[c], period[c])
  /\ period = [c \in Ctx |-> period[c]] /\ curr_time = [c \in Ctx |-> curr_time[c]]
  /\ injected.scale \in Nat /\ control!WithinRange

LEMMA AdvanceStays ==
  ASSUME control!InjectionAssumption, NEW p \in Nat, NEW t \in Nat, InPeriod(t, p),
         p >= Ts => p <= MaxTime
  PROVE  control!Advance(t, p) \in Nat /\ InPeriod(control!Advance(t, p), p)
BY DEF control!InjectionAssumption, control!Advance, control!Bounded, InPeriod

LEMMA WaveStays ==
  ASSUME control!InjectionAssumption, NEW p \in Nat, NEW t \in Nat, InPeriod(t, p), NEW f
  PROVE  control!Outruns(f, p) \/ control!Wave(f, p, t) \in -p .. p
<1>0. Ts \in Nat \ {0}
  BY DEF control!InjectionAssumption
<1>1. CASE f = "RAMP"
  BY <1>0, <1>1 DEF control!Wave, control!Outruns, InPeriod
<1>2. CASE f = "SQUARE"
  BY <1>2 DEF control!Wave
<1>3. CASE f = "TRIANGLE"
  BY <1>0, <1>3 DEF control!Wave, control!Outruns, InPeriod
<1>4. CASE f \notin {"RAMP", "SQUARE", "TRIANGLE"}
  BY <1>4 DEF control!Wave, control!Outruns
<1> QED BY <1>1, <1>2, <1>3, <1>4

LEMMA InjectKeeps ==
  ASSUME control!InjectionAssumption, WavesInv, NEW cs \in SUBSET Ctx, control!InjectAt(cs)
  PROVE  WavesInv'
<1> DEFINE on == {c \in cs : control!Injects(c)}
           time == [c \in Ctx |-> IF c \in on /\ inj_func[c] \in control!Timed
                                  THEN control!Advance(curr_time[c], period[c]) ELSE curr_time[c]]
<1>1. /\ curr_time' = time /\ inj_func' = inj_func /\ period' = period
      /\ \/ injected' = injected
         \/ \E c \in on : injected' = [func |-> inj_func[c], scale |-> period[c],
                                       value |-> control!Wave(inj_func[c], period[c], time[c])]
  BY DEF control!InjectAt
<1>2. ASSUME NEW c \in Ctx
      PROVE  period[c] \in 0 .. MaxTime /\ time[c] \in Nat /\ InPeriod(time[c], period[c])
  <2>1. /\ period[c] \in 0 .. MaxTime /\ curr_time[c] \in Nat /\ InPeriod(curr_time[c], period[c])
        /\ MaxTime \in Nat
    BY DEF WavesInv, control!InjectionAssumption
  <2>2. period[c] \in Nat /\ period[c] <= MaxTime
    BY <2>1
  <2>3. \/ time[c] = control!Advance(curr_time[c], period[c])
        \/ time[c] = curr_time[c]
    OBVIOUS
  <2> HIDE DEF time
  <2>4. /\ control!Advance(curr_time[c], period[c]) \in Nat
        /\ InPeriod(control!Advance(curr_time[c], period[c]), period[c])
    BY <2>1, <2>2, AdvanceStays
  <2> QED BY <2>1, <2>3, <2>4
<1>3. time = [c \in Ctx |-> time[c]]
  OBVIOUS
<1> HIDE DEF time
<1>4. injected'.scale \in Nat /\ control!WithinRange'
  <2>1. CASE injected' = injected
    BY <2>1 DEF WavesInv, control!WithinRange, control!InRange
  <2>2. ASSUME NEW c \in on,
               injected' = [func |-> inj_func[c], scale |-> period[c],
                            value |-> control!Wave(inj_func[c], period[c], time[c])]
        PROVE  injected'.scale \in Nat /\ control!WithinRange'
    <3>1. c \in Ctx /\ period[c] \in Nat /\ time[c] \in Nat /\ InPeriod(time[c], period[c])
      BY <1>2 DEF control!InjectionAssumption
    <3>2. \/ control!Outruns(inj_func[c], period[c])
          \/ control!Wave(inj_func[c], period[c], time[c]) \in -period[c] .. period[c]
      BY <3>1, WaveStays
    <3>3. /\ injected'.func = inj_func[c] /\ injected'.scale = period[c]
          /\ injected'.value = control!Wave(inj_func[c], period[c], time[c])
      BY <2>2
    <3> QED BY <3>1, <3>2, <3>3 DEF control!WithinRange, control!InRange
  <2> QED BY <1>1, <2>1, <2>2
<1> QED BY <1>1, <1>2, <1>3, <1>4 DEF WavesInv

-----------------------------------------------------------------------------
(***************************************************************************)
(* The tasks of beta_labs: what none of them drives is at rest.            *)
(***************************************************************************)
Driven(l, ts, leg) ==
  \/ "cc" \in ts /\ l \in {0, 1, 2}
  \/ "dtc" \in ts /\ l \in {0, 1}
  \/ "vsi" \in ts /\ l = leg
AtRest(ts, leg, ratio) == \A l \in Legs : Driven(l, ts, leg) \/ ratio[l] # "driven"

LEMMA LegsRest == control!LegsAtRest <=> AtRest(controllers, VSI_leg, duty)
<1>1. \A l : (\E t \in controllers : l \in control!Drives(t)) <=> Driven(l, controllers, VSI_leg)
  BY DEF control!Drives, Driven
<1> QED BY <1>1 DEF control!LegsAtRest, AtRest

LEMMA LegsRestNext == control!LegsAtRest' <=> AtRest(controllers', VSI_leg', duty')
<1>1. \A l : (\E t \in controllers' : l \in control!Drives(t)') <=> Driven(l, controllers', VSI_leg')
  BY DEF control!Drives, Driven
<1> QED BY <1>1 DEF control!LegsAtRest, AtRest

LEMMA LegsSet ==
  ASSUME NEW legs, NEW d, control!SetLegs(legs, d)
  PROVE  \A l \in Legs : duty'[l] = IF l \in legs THEN d ELSE duty[l]
BY DEF control!SetLegs

LEMMA RestInit == control!Init => control!StoppedIsAtRest
BY LegsRest DEF control!Init, AtRest, control!StoppedIsAtRest, control!CurrentAtRest

LEMMA LegsRestStays ==
  ASSUME Careful, AtRest(controllers, VSI_leg, duty), control!Next
  PROVE  AtRest(controllers', VSI_leg', duty')
<1> USE DEF control!StopLegs
<1>1. CASE UNCHANGED <<controllers, VSI_leg, duty>>
  BY <1>1
<1>2. ASSUME NEW t, controllers' = controllers \union {t}, UNCHANGED <<VSI_leg, duty>>
      PROVE  AtRest(controllers', VSI_leg', duty')
  BY <1>2 DEF AtRest, Driven
<1>3. CASE control!CcDeinit
  <2>1. controllers' = controllers \ {"cc"} /\ VSI_leg' = VSI_leg /\ control!SetLegs({0, 1, 2}, "0V")
    BY <1>3 DEF control!CcDeinit
  <2> QED BY <2>1, LegsSet DEF AtRest, Driven
<1>4. CASE control!McDeinit
  BY <1>4 DEF control!McDeinit, AtRest, Driven
<1>5. ASSUME NEW on \in BOOLEAN, control!Vsi(on) PROVE AtRest(controllers', VSI_leg', duty')
  <2>1. /\ VSI_leg' = VSI_leg /\ control!SetLegs({VSI_leg}, "0")
        /\ controllers' \in {controllers \union {"vsi"}, controllers \ {"vsi"}}
    BY <1>5 DEF control!Vsi
  <2> QED BY <2>1, LegsSet DEF AtRest, Driven
<1>6. ASSUME NEW l \in VsiLegs, control!VsiSetLegs(l) PROVE AtRest(controllers', VSI_leg', duty')
  BY <1>6 DEF control!VsiSetLegs, AtRest, Driven
<1>7. CASE control!DtcDeinit
  <2>1. controllers' = controllers \ {"dtc"} /\ VSI_leg' = VSI_leg /\ control!SetLegs({0, 1}, "0V")
    BY <1>7 DEF control!DtcDeinit
  <2> QED BY <2>1, LegsSet DEF AtRest, Driven
<1>8. CASE control!CcCallback
  <2>1. controllers' = controllers /\ "cc" \in controllers /\ VSI_leg' = VSI_leg /\ control!SetLegs({0, 1, 2}, "driven")
    BY <1>8 DEF control!CcCallback
  <2> QED BY <2>1, LegsSet DEF AtRest, Driven
<1>9. CASE control!VsiCallback
  <2>1. controllers' = controllers /\ "vsi" \in controllers /\ VSI_leg' = VSI_leg /\ control!SetLegs({VSI_leg}, "driven")
    BY <1>9 DEF control!VsiCallback
  <2> QED BY <2>1, LegsSet DEF AtRest, Driven
<1>10. CASE control!DtcCallback
  <2>1. controllers' = controllers /\ "dtc" \in controllers /\ VSI_leg' = VSI_leg /\ control!SetLegs({0, 1}, "driven")
    BY <1>10 DEF control!DtcCallback
  <2> QED BY <2>1, LegsSet DEF AtRest, Driven
<1>11. CASE control!CcInit \/ control!McInit \/ control!DtcInit
  BY <1>2, <1>11 DEF control!CcInit, control!McInit, control!DtcInit
<1>12. ASSUME NEW b \in BOOLEAN, control!McRpm(b) PROVE AtRest(controllers', VSI_leg', duty')
  BY <1>1, <1>12 DEF control!McRpm
<1>13. CASE control!InjCommand \/ control!McCallback \/ control!ListCallback
  BY <1>1, <1>13 DEF control!InjCommand, control!McCallback, control!ListCallback, control!betaVars
<1> QED BY <1>3, <1>4, <1>5, <1>6, <1>7, <1>8, <1>9, <1>10, <1>11, <1>12, <1>13
       DEF control!Next, control!Command

LEMMA CurrentRestStays ==
  ASSUME control!CurrentAtRest, control!Next PROVE control!CurrentAtRest'
<1> USE DEF control!CurrentAtRest
<1>1. CASE control!CcDeinit
  BY <1>1 DEF control!CcDeinit
<1>2. CASE control!McDeinit
  BY <1>2 DEF control!McDeinit
<1>3. CASE control!CcCallback
  BY <1>3 DEF control!CcCallback
<1>4. CASE control!McCallback
  BY <1>4 DEF control!McCallback
<1>5. CASE control!CcInit \/ control!McInit
  BY <1>5 DEF control!CcInit, control!McInit
<1>6. CASE \E b \in BOOLEAN : control!McRpm(b)
  BY <1>6 DEF control!McRpm
<1>7. CASE \/ \E b \in BOOLEAN : control!Vsi(b)
           \/ \E l \in VsiLegs : control!VsiSetLegs(l)
           \/ control!DtcInit \/ control!DtcDeinit \/ control!VsiCallback \/ control!DtcCallback
  BY <1>7 DEF control!Vsi, control!VsiSetLegs, control!DtcInit, control!DtcDeinit,
              control!VsiCallback, control!DtcCallback, control!stars
<1>8. CASE control!InjCommand \/ control!ListCallback
  BY <1>8 DEF control!InjCommand, control!ListCallback, control!betaVars, control!stars
<1> QED BY <1>1, <1>2, <1>3, <1>4, <1>5, <1>6, <1>7, <1>8 DEF control!Next, control!Command

-----------------------------------------------------------------------------
(***************************************************************************)
(* The commands and the callbacks keep the list in a chain.                *)
(***************************************************************************)
LinksNow == [head |-> inj_ctxs, next |-> next, registered |-> registered]
ListInv == InAChain(LinksNow)

LEMMA LinksSet ==
  ASSUME NEW l, InAChain(l), control!SetLinks(l) PROVE ListInv'
<1>1. l = [head |-> l.head, next |-> l.next, registered |-> l.registered]
  BY DEF InAChain, IsLinks
<1>2. LinksNow' = [head |-> inj_ctxs', next |-> next', registered |-> registered']
  BY DEF LinksNow
<1>3. LinksNow' = l
  BY <1>1, <1>2 DEF control!SetLinks
<1>4. ListInv' <=> InAChain(LinksNow')
  BY DEF ListInv, InAChain, IsLinks, Numbered
<1> QED BY <1>3, <1>4

LEMMA ListStays ==
  ASSUME control!InjectionAssumption, control!BetaLabsAssumption, ListInv, control!Next
  PROVE  ListInv'
<1>1. NULL \notin Ctx /\ control!CcCtx \union control!McCtx \subseteq Ctx
  BY DEF control!InjectionAssumption, control!BetaLabsAssumption
<1>2. InAChain(control!Links)
  BY DEF ListInv, control!Links, LinksNow
<1>3. CASE UNCHANGED control!ctxVars
  BY <1>3 DEF ListInv, LinksNow, control!ctxVars
<1>4. /\ "Id*" \in Ctx /\ "Iq*" \in Ctx /\ "Vd*" \in Ctx /\ "Vq*" \in Ctx
      /\ "omega_m*" \in Ctx /\ "Td*" \in Ctx
  BY <1>1 DEF control!CcCtx, control!McCtx
<1>5. CASE control!CcInit
  <2>1. InAChain(control!InitCcLinks)
    BY <1>1, <1>2, <1>4, RegisterKeeps DEF control!InitCcLinks
  <2> QED BY <1>5, <2>1, LinksSet DEF control!CcInit
<1>6. CASE control!CcDeinit
  <2>1. InAChain(control!ExitCcLinks)
    BY <1>1, <1>2, <1>4, UnregisterKeeps DEF control!ExitCcLinks
  <2> QED BY <1>6, <2>1, LinksSet DEF control!CcDeinit
<1>7. CASE control!McInit
  <2>1. InAChain(control!Register(control!Register(control!Links, "omega_m*"), "Td*"))
    BY <1>1, <1>2, <1>4, RegisterKeeps
  <2> QED BY <1>7, <2>1, LinksSet DEF control!McInit
<1>8. CASE control!McDeinit
  <2>1. InAChain(control!Unregister(control!Unregister(control!Links, "omega_m*"), "Td*"))
    BY <1>1, <1>2, <1>4, UnregisterKeeps
  <2> QED BY <1>8, <2>1, LinksSet DEF control!McDeinit
<1>9. CASE \/ \E b \in BOOLEAN : control!McRpm(b) \/ control!Vsi(b)
           \/ \E l \in VsiLegs : control!VsiSetLegs(l)
           \/ control!DtcInit \/ control!DtcDeinit
  BY <1>3, <1>9 DEF control!McRpm, control!Vsi, control!VsiSetLegs, control!DtcInit, control!DtcDeinit
<1>10. CASE control!InjCommand
  <2>1. UNCHANGED control!ctxVars
    BY <1>10 DEF control!InjCommand, control!Inj, control!InjClear, control!InjList
  <2> QED BY <1>3, <2>1
<1>11. CASE control!CcCallback \/ control!McCallback \/ control!VsiCallback \/ control!DtcCallback
  BY <1>3, <1>11 DEF control!CcCallback, control!McCallback, control!VsiCallback, control!DtcCallback
<1>12. CASE control!ListCallback
  BY <1>3, <1>12 DEF control!ListCallback, control!ListTask
<1> QED BY <1>5, <1>6, <1>7, <1>8, <1>9, <1>10, <1>11, <1>12 DEF control!Next, control!Command

LEMMA ListIsSound ==
  ASSUME control!InjectionAssumption, ListInv PROVE control!ListSound
<1> DEFINE l == control!Links
<1>1. NULL \notin Ctx /\ IsLinks(l) /\ l.head = inj_ctxs /\ l.registered = registered /\ l.next = next
  BY DEF control!InjectionAssumption, ListInv, InAChain, LinksNow, control!Links
<1>2. PICK n \in Nat : \E nth \in [1 .. n -> Ctx] : Numbered(l, n, nth)
  BY DEF ListInv, InAChain, LinksNow, control!Links
<1>3. PICK nth \in [1 .. n -> Ctx] : Numbered(l, n, nth)
  BY <1>2
<1> HIDE DEF l
<1>4. control!Walk(l) = {nth[i] : i \in 1 .. n}
  BY <1>1, <1>3, WalkMeets
<1>5. {nth[i] : i \in 1 .. n} = {c \in Ctx : registered[c]}
  BY <1>1, <1>3 DEF Numbered
<1>6. ASSUME inj_ctxs # NULL PROVE \E c \in Ctx : registered[c] /\ next[c] = NULL
  <2>1. n \in 1 .. n /\ nth[n] \in Ctx /\ next[nth[n]] = NULL
    BY <1>1, <1>3, <1>6 DEF Numbered
  <2>2. registered[nth[n]]
    BY <1>1, <1>3, <2>1 DEF Numbered
  <2> QED BY <2>1, <2>2
<1> QED BY <1>4, <1>5, <1>6 DEF control!ListSound, l

(***************************************************************************)
(* The waves.                                                              *)
(***************************************************************************)
LEMMA WavesStay ==
  ASSUME control!InjectionAssumption, control!BetaLabsAssumption, WavesInv, control!Next
  PROVE  WavesInv'
<1> USE DEF control!WithinRange, control!InRange
<1>1. CASE UNCHANGED control!waveVars
  BY <1>1 DEF WavesInv, control!waveVars
<1>2. ASSUME NEW cs, control!ClearWaves(cs) PROVE WavesInv'
  BY <1>2 DEF control!ClearWaves, WavesInv
<1>3. CASE control!InjClear
  BY <1>3 DEF control!InjClear, WavesInv
<1>4. ASSUME NEW c \in Targets, NEW f, NEW p \in Periods \cup {0}, control!Inj(c, f, p)
      PROVE  WavesInv'
  <2>1. c \in Ctx /\ p \in 0 .. MaxTime /\ InPeriod(0, p)
    BY DEF control!InjectionAssumption, control!BetaLabsAssumption, InPeriod
  <2>2. /\ inj_func' = [inj_func EXCEPT ![c] = f] /\ period' = [period EXCEPT ![c] = p]
        /\ curr_time' = [curr_time EXCEPT ![c] = 0] /\ injected' = injected
    BY <1>4 DEF control!Inj, control!InstallFromStart, control!Install
  <2>3. \A x \in Ctx : /\ period'[x] = IF x = c THEN p ELSE period[x]
                       /\ curr_time'[x] = IF x = c THEN 0 ELSE curr_time[x]
    BY <2>1, <2>2 DEF WavesInv
  <2>4. \A x \in Ctx : period'[x] \in 0 .. MaxTime /\ curr_time'[x] \in Nat /\ InPeriod(curr_time'[x], period'[x])
    BY <2>1, <2>3 DEF WavesInv
  <2>5. period' = [x \in Ctx |-> period'[x]] /\ curr_time' = [x \in Ctx |-> curr_time'[x]]
    BY <2>2 DEF WavesInv
  <2> QED BY <2>2, <2>4, <2>5 DEF WavesInv
<1>5. CASE control!CcCallback
  <2>1. control!CcCtx \subseteq Ctx
    BY DEF control!BetaLabsAssumption
  <2> QED BY <1>5, <2>1, InjectKeeps DEF control!CcCallback
<1>6. CASE control!McCallback
  <2>1. control!McCtx \subseteq Ctx
    BY DEF control!BetaLabsAssumption
  <2> QED BY <1>6, <2>1, InjectKeeps DEF control!McCallback
<1>7. CASE control!CcDeinit \/ control!McDeinit
  BY <1>2, <1>7 DEF control!CcDeinit, control!McDeinit
<1>8. CASE \/ \E b \in BOOLEAN : control!McRpm(b) \/ control!Vsi(b)
           \/ \E l \in VsiLegs : control!VsiSetLegs(l)
           \/ control!DtcInit \/ control!DtcDeinit \/ control!CcInit \/ control!McInit
  BY <1>1, <1>8 DEF control!McRpm, control!Vsi, control!VsiSetLegs, control!DtcInit, control!DtcDeinit,
                    control!CcInit, control!McInit
<1>9. CASE control!VsiCallback \/ control!DtcCallback \/ control!ListCallback
  BY <1>1, <1>9 DEF control!VsiCallback, control!DtcCallback, control!ListCallback, control!ListTask
<1>10. CASE control!InjCommand
  <2>1. CASE control!InjList
    BY <1>1, <2>1 DEF control!InjList
  <2> QED BY <1>3, <1>4, <1>10, <2>1 DEF control!InjCommand
<1> QED BY <1>5, <1>6, <1>7, <1>8, <1>9, <1>10 DEF control!Next, control!Command

(***************************************************************************)
(* However often the contexts are registered, unregistered and registered  *)
(* again, with the pointers of their earlier lives, a walk of the list     *)
(* meets the registered ones and ends; and no wave that is installed over  *)
(* another leaves its range, whatever period the command accepted, unless  *)
(* it is one that outruns its period.                                      *)
(***************************************************************************)
THEOREM InjectionStaysSound == EitherSpec => []InjectionSound
<1> DEFINE Inv == ListInv /\ WavesInv
<1>0. control!InjectionAssumption /\ control!BetaLabsAssumption
  BY InstancesAssumption
<1>1. Either => Inv
  <2> SUFFICES ASSUME Either PROVE Inv
    OBVIOUS
  <2>1. control!InjectionInit
    BY DEF Either, control!Init
  <2>2. WavesInv
    BY <1>0, <2>1 DEF control!InjectionInit, control!InjectionAssumption, WavesInv, InPeriod,
                      control!WithinRange, control!InRange, control!Outruns
  <2> DEFINE none == [i \in 1 .. 0 |-> NULL]
  <2>3. none \in [1 .. 0 -> Ctx] /\ \A i \in 1 .. 0 : FALSE
    OBVIOUS
  <2>4. IsLinks(LinksNow)
    BY <2>1 DEF control!InjectionInit, IsLinks, LinksNow
  <2>5. LinksNow.head = NULL /\ \A c \in Ctx : ~LinksNow.registered[c]
    BY <2>1 DEF control!InjectionInit, LinksNow
  <2> HIDE DEF none
  <2>6. Numbered(LinksNow, 0, none)
    BY <2>3, <2>5 DEF Numbered
  <2> QED BY <2>2, <2>3, <2>4, <2>6 DEF ListInv, InAChain
<1>2. Inv /\ [EitherNext]_<<session, vars, linesVars, controlVars>> => Inv'
  <2> SUFFICES ASSUME Inv, [EitherNext]_<<session, vars, linesVars, controlVars>> PROVE Inv'
    OBVIOUS
  <2>1. CASE control!Next
    BY <1>0, <2>1, ListStays, WavesStay
  <2>2. CASE UNCHANGED controlVars
    <3>1. ListInv'
      BY <2>2 DEF controlVars, ListInv, LinksNow
    <3>2. WavesInv'
      BY <2>2 DEF controlVars, WavesInv, control!WithinRange, control!InRange
    <3> QED BY <3>1, <3>2
  <2> QED BY <2>1, <2>2 DEF EitherNext
<1>3. Inv => InjectionSound
  BY <1>0, ListIsSound DEF InjectionSound, WavesInv
<1> QED BY <1>1, <1>2, <1>3, PTL DEF EitherSpec

(***************************************************************************)
(* Whatever tasks share the legs and the currents, and in whatever order   *)
(* they are started and stopped: what no running task drives is at rest,   *)
(* as long as nobody moves the legs of the voltage source while it runs.   *)
(***************************************************************************)
THEOREM StoppedStaysAtRest == ASSUME Careful PROVE EitherSpec => []StoppedIsAtRest
<1>1. Either => StoppedIsAtRest
  BY RestInit DEF Either, StoppedIsAtRest
<1>2. StoppedIsAtRest /\ [EitherNext]_<<session, vars, linesVars, controlVars>> => StoppedIsAtRest'
  <2> SUFFICES ASSUME StoppedIsAtRest, [EitherNext]_<<session, vars, linesVars, controlVars>>
               PROVE  StoppedIsAtRest'
    OBVIOUS
  <2>0. AtRest(controllers, VSI_leg, duty) /\ control!CurrentAtRest
    BY LegsRest DEF StoppedIsAtRest, control!StoppedIsAtRest
  <2>1. AtRest(controllers', VSI_leg', duty') /\ control!CurrentAtRest'
    <3>1. CASE control!Next
      BY <2>0, <3>1, LegsRestStays, CurrentRestStays
    <3>2. CASE UNCHANGED controlVars
      BY <2>0, <3>2 DEF controlVars, control!CurrentAtRest
    <3> QED BY <3>1, <3>2 DEF EitherNext
  <2>2. control!LegsAtRest'
    BY <2>1, LegsRestNext
  <2> QED BY <2>1, <2>2 DEF StoppedIsAtRest, control!StoppedIsAtRest
<1> QED BY <1>1, <1>2, PTL DEF EitherSpec
=============================================================================
