------------------------------- MODULE PwmDrv -------------------------------
(***************************************************************************)
(* The PWM driver of CPU1 and the 'hw pwm' commands over the inverter core *)
(* (module Inverter) and the pin that lets the outputs leave the board.  A *)
(* driver call is the sequence of its writes over the bus, each of which   *)
(* takes some clocks; calls are made from the main loop and never overlap. *)
(***************************************************************************)
EXTENDS Inverter, Sequences

CONSTANTS Maxes,         \* carrier maxima of the frequencies that are allowed
          Deadtimes,     \* in clocks, those that are allowed
          Duties,        \* duty ratios, in parts of Scale
          Scale,
          BusGap,        \* least clocks between two writes over the bus
          Slice          \* least clocks between two commands of one stream

(* Of the constants: every module that instantiates this one assumes it.   *)
PwmAssumption ==
  /\ Maxes \subseteq 1 .. CountWrap - 1 /\ Maxes # {}
  /\ Deadtimes \subseteq Nat \ 0 .. MinDeadtime - 1
  /\ Scale \in Nat \ {0} /\ Duties \subseteq 0 .. Scale
  /\ BusGap \in Nat \ {0}
  (* 65535 ns at most, where a stream runs one command in 100 us. *)
  /\ Slice \in Nat /\ MinDeadtime < Slice /\ \A dt \in Deadtimes : dt < Slice

VARIABLES
  PS_DRIVE_EN,     \* pin
  todo,            \* what the call in progress has still to write
  bus,             \* clocks since the last write, up to BusGap
  slice,           \* clocks left of the slice in which PWM was turned off
  configured,      \* whether a command ran since it was turned off
  last, rest,      \* history: the output that was on last, the clocks since
  owed,            \* history: the least dead time configured since
  pulses           \* history: rises of the leg since the carrier peaked

history == <<last, rest, owed, pulses>>
vars == <<carrier, leg, registers, PS_DRIVE_EN, todo, bus, slice, configured, history>>

(* pwm_set_duty: a fraction of the carrier, the same at any frequency. *)
Raw(d, max) == (d * max) \div Scale
Midscale(max) == Raw(Scale \div 2, max)

DutyKept(max) == <<<<"max", max>>>>   \* mutant: the ratios keep their counts
(* pwm_set_switching_freq, which sets all duty ratios to half the new maximum. *)
SetFreq(max) == <<<<"max", max>>, <<"duty", Midscale(max)>>>>

SetLatchingMode(m) ==
  CASE m = 0 -> <<<<"mode_clear", {4, 5}>>>>
    [] m = 1 -> <<<<"mode_set", {4}>>, <<"mode_clear", {5}>>>>
    [] m = 2 -> <<<<"mode_set", {5}>>, <<"mode_clear", {4}>>>>

(* pwm_init, after a reset of the core. *)
PwmInit(max, dt) ==
  SetLatchingMode(0) \o SetFreq(max) \o <<<<"deadtime", dt>>, <<"duty", Midscale(max)>>>>

Init == /\ HardwareReset
        /\ PS_DRIVE_EN = FALSE
        /\ \E max \in Maxes, dt \in Deadtimes : todo = PwmInit(max, dt)
        /\ bus = BusGap /\ slice = 0 /\ configured = TRUE
        /\ last = "none" /\ rest = 0 /\ owed = 0 /\ pulses = 0

-----------------------------------------------------------------------------
(* What the outputs and the leg did, in the step that is taken. *)
Watch(clocks) ==
  /\ last' = IF Top' THEN "top" ELSE IF Bottom' THEN "bottom" ELSE last
  /\ rest' = IF Top' \/ Bottom' THEN 0
             ELSE IF rest >= Slice THEN rest ELSE rest + clocks
  /\ owed' = IF Top' \/ Bottom' \/ deadtime' < owed THEN deadtime' ELSE owed

CountPulses ==
  pulses' = IF ~pwm_en THEN 0
            ELSE LET before == IF carrier_high THEN 0 ELSE pulses
                 IN  IF So' /\ ~So /\ before < 2 THEN before + 1 ELSE before

Clock == /\ \E trigger \in BOOLEAN : Clocked(trigger)
         /\ bus' = IF bus < BusGap THEN bus + 1 ELSE bus
         /\ slice' = IF slice > 0 THEN slice - 1 ELSE 0
         /\ UNCHANGED <<registers, PS_DRIVE_EN, todo, configured>>
         /\ Watch(1) /\ CountPulses

(* The next write of the call in progress arrives. *)
Is(reg) == Head(todo)[1] = reg
Value == Head(todo)[2]
Write == /\ todo # <<>> /\ bus = BusGap
         /\ todo' = Tail(todo) /\ bus' = 0
         /\ carrier_max' = IF Is("max") THEN Value ELSE carrier_max
         /\ slv_deadtime' = IF Is("deadtime") THEN Value ELSE slv_deadtime
         /\ duty' = IF Is("duty") THEN Value ELSE duty
         /\ pwm_en' = IF Is("enable") THEN Value ELSE pwm_en
         /\ mode' = IF Is("mode_set") THEN mode \union Value
                    ELSE IF Is("mode_clear") THEN mode \ Value ELSE mode
         /\ en_leg' = IF Is("leg_enabled") THEN Value ELSE en_leg
         /\ rev_leg' = IF Is("leg_reversed") THEN Value ELSE rev_leg
         /\ PS_DRIVE_EN' = IF Is("pin") THEN Value ELSE PS_DRIVE_EN
         /\ slice' = IF Is("enable") THEN IF Value THEN 0 ELSE Slice ELSE slice
         /\ configured' = (configured /\ ~Is("enable"))
         /\ UNCHANGED <<carrier, leg, pulses>>
         /\ Watch(0)

-----------------------------------------------------------------------------
(* The driver and the commands, each a sequence of writes. *)
Call(writes) == /\ todo = <<>>
                /\ todo' = writes
                /\ UNCHANGED <<carrier, leg, registers, PS_DRIVE_EN, bus, slice, history>>

(* Only allow PWM configuration changes when switching is off. *)
Configure(writes) == ~pwm_en /\ Call(writes) /\ configured' = TRUE

(***************************************************************************)
(* hw pwm on: pwm_enable_hw, and pwm_enable unless it is enabled.  Each of *)
(* the two streams runs a command per slice: when it is not the command    *)
(* right after hw pwm off, it comes a slice later.                         *)
(***************************************************************************)
On == /\ configured => slice = 0
      /\ UNCHANGED configured
      /\ Call((IF PS_DRIVE_EN THEN <<>> ELSE <<<<"pin", TRUE>>>>)
                \o (IF pwm_en THEN <<>> ELSE <<<<"enable", TRUE>>>>))
(* hw pwm off, which fails when PWM is not enabled. *)
Off == /\ pwm_en /\ UNCHANGED configured
       /\ Call(<<<<"enable", FALSE>>>> \o IF PS_DRIVE_EN THEN <<<<"pin", FALSE>>>> ELSE <<>>)
(* hw pwm sw *)
Sw(max, dt) == Configure(<<<<"deadtime", dt>>>> \o SetFreq(max))
(* hw pwm duty, and what the control tasks call. *)
Duty(d) == Call(<<<<"duty", Raw(d, carrier_max)>>>>) /\ UNCHANGED configured
LegEnable(on) == Configure(<<<<"leg_enabled", on>>>>)
LegReverse(on) == Configure(<<<<"leg_reversed", on>>>>)
LatchingMode(m) == Configure(SetLatchingMode(m))

Next == \/ Clock \/ Write
        \/ On \/ Off
        \/ \E max \in Maxes, dt \in Deadtimes : Sw(max, dt)
        \/ \E d \in Duties : Duty(d)
        \/ \E on \in BOOLEAN : LegEnable(on) \/ LegReverse(on)
        \/ \E m \in 0 .. 2 : LatchingMode(m)

Spec == Init /\ [][Next]_vars

-----------------------------------------------------------------------------
(***************************************************************************)
(* No shoot-through: whatever is switched, configured, reversed, disabled  *)
(* or enabled in between, one output of the leg closes only when the other *)
(* has been open for more clocks than the least dead time that was         *)
(* configured since (single_leg_switch.v, "dead time").                    *)
(***************************************************************************)
DeadtimeKept ==
  [][/\ ~(Top' /\ Bottom')
     /\ Top' /\ last = "bottom" => rest > owed
     /\ Bottom' /\ last = "top" => rest > owed]_vars

(***************************************************************************)
(* While PWM is on the duty ratio is one of the present carrier, whatever  *)
(* the frequency was when it was set: a new frequency sets it to one half  *)
(* and every later one is a part of the new maximum.                       *)
(***************************************************************************)
DutyWithinCarrier == pwm_en => duty <= carrier_max /\ D_L <= carrier_max

(***************************************************************************)
(* With ratios taken over at the peaks and valleys of the carrier, the leg *)
(* rises no more than once from one peak to the next, whenever the CPU     *)
(* writes a new ratio (the reason for the latch, pwm.c).                   *)
(***************************************************************************)
OnePulse == mode = {4} => pulses <= 1

(***************************************************************************)
(* The pin of the board is on whenever the core switches, also between the *)
(* writes of a command: the first and the last period leave it whole       *)
(* (cmd_hw.c, "so that the first cycle has correct duty").                 *)
(***************************************************************************)
WholePeriods == pwm_en => PS_DRIVE_EN
=============================================================================
