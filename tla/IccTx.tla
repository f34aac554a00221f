------------------------------- MODULE IccTx -------------------------------
(***************************************************************************)
(* The responses of CPU1 to the hosts on the network (icc_tx.c): every     *)
(* byte goes into a ring of CPU1's own, and the icc_tx task moves them     *)
(* into channel 0 while CPU0 takes them out at any time.  The channel is   *)
(* the queue Icc implements.  The ring has no test for room, and a slice   *)
(* moves one byte more than its limit.                                     *)
(***************************************************************************)
EXTENDS Integers, Sequences, SequencesExt

CONSTANTS Byte, BUFFER_LENGTH, ChannelSize,
          MAX_NUM_BYTES_TO_TRY,
          MaxResponse,          \* bound: longest response of one call
          MaxOwed               \* bound: no further response while so much is waiting

IccTxAssumption == /\ BUFFER_LENGTH \in Nat \ {0} /\ ChannelSize \in Nat \ {0}
                   /\ MAX_NUM_BYTES_TO_TRY \in Nat /\ MaxResponse \in Nat /\ MaxOwed \in Nat

VARIABLES send_buffer, idx_writing, idx_reading, num_in_buffer,
          num_sent,             \* -1: the task is not running
          channel,
          owed                  \* history: what was pushed and not taken by CPU0, oldest first

icctxVars == <<send_buffer, idx_writing, idx_reading, num_in_buffer, num_sent, channel, owed>>

Cells == 0 .. BUFFER_LENGTH - 1
IdxAfter(i, n) == (i + n) % BUFFER_LENGTH     \* n bytes on

IccTxInit ==
  /\ send_buffer \in [Cells -> {CHOOSE c \in Byte : TRUE}]
  /\ idx_writing = 0 /\ idx_reading = 0 /\ num_in_buffer = 0
  /\ num_sent = -1 /\ channel = << >> /\ owed = << >>

(* The ring once every byte of a response has been pushed, one cell after  *)
(* the other: a cell holds the last that came to it.                       *)
ComeTo(c, msg) == {k \in 1 .. Len(msg) : IdxAfter(idx_writing, k - 1) = c}
Pushed(msg) ==
  [c \in Cells |-> IF ComeTo(c, msg) = {} THEN send_buffer[c] ELSE msg[Max(ComeTo(c, msg))]]

(* A response is written by a task, while the icc_tx task does not run. *)
cmd_resp_write(msg) ==
  /\ num_sent = -1 /\ Len(owed) < MaxOwed
  /\ send_buffer' = Pushed(msg)
  /\ idx_writing' = IdxAfter(idx_writing, Len(msg))
  /\ num_in_buffer' = num_in_buffer + Len(msg)
  /\ owed' = owed \o msg
  /\ UNCHANGED <<idx_reading, num_sent, channel>>

TaskBegins ==
  /\ num_sent = -1 /\ num_in_buffer > 0
  /\ num_sent' = 0
  /\ UNCHANGED <<send_buffer, idx_writing, idx_reading, num_in_buffer, channel, owed>>

(* One turn of the loop: nothing to move, no room, or one byte moved. *)
NoRoom == Len(channel) = ChannelSize
Moves == num_in_buffer > 0 /\ ~NoRoom
_pop == send_buffer[idx_reading]

TaskTurn ==
  /\ num_sent >= 0
  /\ IF Moves
     THEN /\ idx_reading' = IdxAfter(idx_reading, 1)
          /\ num_in_buffer' = num_in_buffer - 1
          /\ channel' = IF NoRoom THEN channel ELSE Append(channel, _pop)
          /\ num_sent' = IF num_sent + 1 > MAX_NUM_BYTES_TO_TRY THEN -1 ELSE num_sent + 1
     ELSE num_sent' = -1 /\ UNCHANGED <<idx_reading, num_in_buffer, channel>>
  /\ UNCHANGED <<send_buffer, idx_writing, owed>>

(* CPU0, in icc_rx_process. *)
CPU0Takes ==
  /\ channel # << >>
  /\ channel' = Tail(channel)
  /\ owed' = Tail(owed)
  /\ UNCHANGED <<send_buffer, idx_writing, idx_reading, num_in_buffer, num_sent>>

IccTxNext ==
  \/ \E msg \in BoundedSeq(Byte, MaxResponse) : cmd_resp_write(msg)
  \/ TaskBegins \/ TaskTurn \/ CPU0Takes

-----------------------------------------------------------------------------
(***************************************************************************)
(* Channel and ring together count what CPU0 is owed.  The ring holds the  *)
(* end of it in order, all of its share when no response ran over: what    *)
(* was overwritten is replaced cell by cell, and the order is back as soon *)
(* as the ring is drained.                                                 *)
(***************************************************************************)
RespondsInOrder ==
  /\ Len(channel) + num_in_buffer = Len(owed)
  /\ \A i \in 1 .. num_in_buffer :
       num_in_buffer - i < BUFFER_LENGTH
         => send_buffer[(idx_reading + i - 1) % BUFFER_LENGTH] = owed[Len(channel) + i]
=============================================================================
