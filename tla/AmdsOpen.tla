------------------------------ MODULE AmdsOpen ------------------------------
(***************************************************************************)
(* One AMDS interface under any timing manager: a trigger may come         *)
(* whenever the interface reports that it is done, and the interface may   *)
(* be enabled and disabled at any clock.                                   *)
(***************************************************************************)
EXTENDS Amds

VARIABLES trigger, enable,
          all_done_ff,   \* done at the last clock
          withdrawn      \* history: the interface was disabled when not done

vars == <<amdsVars, trigger, enable, all_done_ff, withdrawn>>

TimingManagerFace == INSTANCE Sensor WITH done <- Done

Init == AmdsReset /\ TimingManagerFace!Init /\ all_done_ff = TRUE

Clock == /\ trigger' \in IF Done /\ ~trigger THEN BOOLEAN ELSE {FALSE}
         /\ all_done_ff' = Done
         /\ AmdsClock(trigger, enable)
         /\ UNCHANGED <<enable, withdrawn>>

Enable == ~enable /\ enable' = TRUE
          /\ UNCHANGED <<amdsVars, trigger, all_done_ff, withdrawn>>
Disable == enable /\ enable' = FALSE /\ TimingManagerFace!Withdraw(FALSE)
           /\ UNCHANGED <<amdsVars, trigger, all_done_ff>>

Next == Clock \/ Enable \/ Disable
Spec == Init /\ [][Next]_vars

(* The clock runs, and a byte receiver that was started has a result in    *)
(* the end: a byte, or no start bit in its time.                           *)
Sending == {l \in Lines : Enabled[l] # {}}     \* the other lines are never received
Received(l) == Listening(l) /\ line'[l].uart # "listening"
FairSpec == Spec /\ WF_vars(Clock) /\ \A l \in Sending : WF_vars(Clock /\ Received(l))

-----------------------------------------------------------------------------
(***************************************************************************)
(* A channel that is marked valid when the interface is done has both its  *)
(* bytes from the last transmission of its line, whatever was damaged or   *)
(* lost in it, and not one from this and one from an earlier one.  Only    *)
(* for a line that began to send when the wait for it was over is this     *)
(* not so: it is still received when done is reported.                     *)
(***************************************************************************)
Published == Done /\ all_done_ff
ValidDataIsFresh ==
  Published => \A l \in Lines : \A c \in ch_valid_reg[l] :
                 ~late[l] => Old \notin {adc_dout[l][c].MSB, adc_dout[l][c].LSB}

(***************************************************************************)
(* "A '1' bit implies the data is valid" (amds.c): the two bytes of a      *)
(* channel that is marked valid are the ones the AMDS sent for it.         *)
(***************************************************************************)
ValidDataIsOwn ==
  Published => \A l \in Lines : \A c \in ch_valid_reg[l] :
                 ~late[l] => adc_dout[l][c] = [MSB |-> c, LSB |-> c]

(***************************************************************************)
(* The interface is a sensor as the timing manager expects it: done falls  *)
(* only with a trigger to the enabled interface, and it returns although   *)
(* bytes are damaged, the line falls silent, or nothing answers at all.    *)
(* Not so when it is disabled while it waits for a line.                   *)
(***************************************************************************)
ImplementsSensor == TimingManagerFace!Spec
=============================================================================
