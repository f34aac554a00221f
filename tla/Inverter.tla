------------------------------ MODULE Inverter ------------------------------
(***************************************************************************)
(* One leg of the amdc_inverters core: the triangle carrier, the latch of  *)
(* the duty ratio, the comparison of the two, and the switch of the leg    *)
(* with its dead time.  The registers are written over the bus, by PwmDrv. *)
(* The clock divider is left out: the driver never writes any other value  *)
(* to it than the 0 it has after a reset.  The legs do not interact.       *)
(***************************************************************************)
EXTENDS Integers, FiniteSets

CONSTANTS CountWrap,     \* counts of the carrier wrap here, 2^16
          MinDeadtime    \* the core takes no smaller dead time, 5

(* Of the constants: every module that instantiates this one assumes it.   *)
InverterAssumption == CountWrap \in Nat \ {0, 1} /\ MinDeadtime \in Nat

VARIABLES
  count, dp,        \* triangle_carrier: its value, and whether it counts up
  D_L, So,          \* latched duty ratio, and whether the leg should be high
  State,            \* single_leg_switch: which switch is on
  deadtime_count,
  Q1, Q2,           \* the top and the bottom switch
  carrier_max, slv_deadtime, duty,       \* registers
  pwm_en, mode, en_leg, rev_leg          \* mode: the bits set of the two

carrier == <<count, dp>>
leg == <<D_L, So, State, deadtime_count, Q1, Q2>>
registers == <<carrier_max, slv_deadtime, duty, pwm_en, mode, en_leg, rev_leg>>

deadtime == IF slv_deadtime < MinDeadtime THEN MinDeadtime ELSE slv_deadtime

HardwareReset ==
  /\ count = 0 /\ dp = TRUE
  /\ D_L = 0 /\ So = FALSE
  /\ State = "off" /\ deadtime_count = 0 /\ Q1 = FALSE /\ Q2 = FALSE
  /\ carrier_max = 0 /\ slv_deadtime = 0 /\ duty = 0
  /\ pwm_en = FALSE /\ mode = {} /\ en_leg = TRUE /\ rev_leg = FALSE

(* The outputs of the leg. *)
Switches == pwm_en /\ en_leg
Top == Switches /\ IF rev_leg THEN Q2 ELSE Q1
Bottom == Switches /\ IF rev_leg THEN Q1 ELSE Q2

-----------------------------------------------------------------------------
(***************************************************************************)
(* The carrier counts to its maximum and back.  Below 0 and above the      *)
(* largest count it wraps, which is what it does as long as the maximum is *)
(* 0; a maximum that becomes smaller than the count turns it around.       *)
(***************************************************************************)
Turns == IF dp THEN count >= carrier_max ELSE count = 0
Counts == /\ dp' = (dp # Turns)
          /\ count' = (IF dp' THEN count + 1 ELSE count - 1) % CountWrap

carrier_low == count = 0
carrier_high == count = carrier_max

(* When the duty ratio that was written is taken over. *)
UpdateDutyRatios(trigger) ==
  CASE mode = {} -> trigger
    [] mode = {4} -> carrier_low \/ carrier_high
    [] mode = {5} -> TRUE
    [] OTHER -> FALSE

Latches(trigger) ==
  D_L' = IF ~pwm_en THEN 0 ELSE IF UpdateDutyRatios(trigger) THEN duty ELSE D_L

Compares == So' = (D_L # 0 /\ (D_L = carrier_max \/ count < D_L))

(***************************************************************************)
(* The switch of the leg, both edges of a clock: on the rising one it      *)
(* decides where to go, on the falling one it goes there and sets the      *)
(* outputs of the state it was in.                                         *)
(***************************************************************************)
NextState ==
  CASE State = "off" -> IF deadtime_count < deadtime THEN "off"
                        ELSE IF So THEN "Q1" ELSE "Q2"
    [] State = "Q1" -> IF So THEN "Q1" ELSE "off"
    [] State = "Q2" -> IF So THEN "off" ELSE "Q2"

KeepCount ==   \* mutant: the count is not cleared when a switch is on
  deadtime_count' = IF State = "off" THEN (deadtime_count + 1) % CountWrap ELSE deadtime_count
CountDeadtime ==
  deadtime_count' = IF State = "off" THEN deadtime_count + 1 ELSE 0

Drives == /\ State' = NextState
          /\ Q1' = (State = "Q1") /\ Q2' = (State = "Q2")
          /\ CountDeadtime

(* A clock of the core; the trigger is the one of the timing manager. *)
Clocked(trigger) == Counts /\ Latches(trigger) /\ Compares /\ Drives
=============================================================================
