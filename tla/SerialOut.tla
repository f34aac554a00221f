----------------------------- MODULE SerialOut -----------------------------
(***************************************************************************)
(* What CPU1 prints on its UART (serial.c): serial_write copies text into  *)
(* a ring and marks where the output starts; the serial task hands the     *)
(* UART what fits into its FIFO, up to the end of the ring at most.  There *)
(* is no test for room: a text longer than the ring overwrites what was    *)
(* not printed yet.                                                        *)
(***************************************************************************)
EXTENDS Integers, Sequences, SequencesExt

CONSTANTS Byte,                   \* the values of a char
          OUTPUT_BUFFER_LENGTH,
          MaxText,                \* bound: longest text of one call
          MaxOwed                 \* bound: no further text while so much is waiting

SerialAssumption == OUTPUT_BUFFER_LENGTH \in Nat \ {0} /\ MaxText \in Nat /\ MaxOwed \in Nat

VARIABLES output_buffer, output_idx,
          print_idx,              \* -1: not printing
          print_amount,
          owed                    \* history: what was written and not sent, oldest first

serialVars == <<output_buffer, output_idx, print_idx, print_amount, owed>>

Cells == 0 .. OUTPUT_BUFFER_LENGTH - 1
IdxAfter(i, n) == (i + n) % OUTPUT_BUFFER_LENGTH     \* n chars on

SerialInit ==
  /\ output_buffer \in [Cells -> {CHOOSE c \in Byte : TRUE}]
  /\ output_idx = 0 /\ print_idx = -1 /\ print_amount = 0
  /\ owed = << >>

(* The ring once every char of a text has been appended, one cell after    *)
(* the other: a cell holds the last that came to it.                       *)
ComeTo(c, msg) == {k \in 1 .. Len(msg) : IdxAfter(output_idx, k - 1) = c}
Appended(msg) ==
  [c \in Cells |-> IF ComeTo(c, msg) = {} THEN output_buffer[c] ELSE msg[Max(ComeTo(c, msg))]]

MarkAlways == output_idx                  \* mutant: the mark moves while text is waiting
Mark == IF print_idx = -1 THEN output_idx ELSE print_idx

(* The text may be empty: debug_printf prints what vsnprintf made. *)
serial_write(msg) ==
  /\ Len(owed) < MaxOwed
  /\ print_idx' = Mark
  /\ print_amount' = print_amount + Len(msg)
  /\ output_buffer' = Appended(msg)
  /\ output_idx' = IdxAfter(output_idx, Len(msg))
  /\ owed' = owed \o msg

TryToSend ==
  IF print_amount < OUTPUT_BUFFER_LENGTH - print_idx
  THEN print_amount ELSE OUTPUT_BUFFER_LENGTH - print_idx

(* The UART takes any number of bytes, none when its FIFO is full. *)
serial_callback ==
  /\ print_amount > 0
  /\ \E sent \in 0 .. TryToSend :
       /\ print_amount' = print_amount - sent
       /\ print_idx' = IF print_amount' = 0 THEN -1
                       ELSE IF print_idx + sent >= OUTPUT_BUFFER_LENGTH THEN 0
                       ELSE print_idx + sent
       /\ owed' = SubSeq(owed, sent + 1, Len(owed))
  /\ UNCHANGED <<output_buffer, output_idx>>

SerialNext == (\E msg \in BoundedSeq(Byte, MaxText) : serial_write(msg)) \/ serial_callback

-----------------------------------------------------------------------------
(***************************************************************************)
(* The cells from the mark hold what is owed, in order: all of it when it  *)
(* fits, the end of it after an overrun, and what was overwritten is       *)
(* replaced cell by cell, so that the output is back in order as soon as   *)
(* the overrun is printed.                                                 *)
(***************************************************************************)
PrintsInOrder ==
  /\ print_amount = Len(owed)
  /\ print_amount > 0 => print_idx \in Cells
  /\ \A i \in 1 .. print_amount :
       print_amount - i < OUTPUT_BUFFER_LENGTH
         => output_buffer[(print_idx + i - 1) % OUTPUT_BUFFER_LENGTH] = owed[i]
=============================================================================
