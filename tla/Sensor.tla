------------------------------- MODULE Sensor -------------------------------
(***************************************************************************)
(* What the timing manager relies on: the done signal of one sensor        *)
(* interface.  It is high at reset, falls with a trigger when the sensor   *)
(* is enabled, and rises again when the acquisition is over.  The          *)
(* interfaces of ADC, encoder, eddy current sensor and AMDS all have it.   *)
(***************************************************************************)
VARIABLES trigger, enable, done,
          withdrawn     \* history: the sensor was disabled when not done

vars == <<trigger, enable, done, withdrawn>>

Init == trigger = FALSE /\ enable = FALSE /\ done = TRUE /\ withdrawn = FALSE

SensorClock == done' \in IF trigger /\ enable THEN {FALSE} ELSE {done, TRUE}

Withdraw(keep) == withdrawn' = (withdrawn \/ (enable /\ ~keep /\ ~done))

Clock == SensorClock /\ trigger' \in BOOLEAN /\ UNCHANGED <<enable, withdrawn>>
Configure == enable' \in BOOLEAN /\ Withdraw(enable') /\ UNCHANGED <<trigger, done>>

(* Done must go high, or the timing manager freezes. *)
DoneReturns == []<>done \/ <>[]withdrawn

Spec == Init /\ [][Clock \/ Configure]_vars /\ DoneReturns
=============================================================================
