------------------------------ MODULE BasicPwm ------------------------------
(***************************************************************************)
(* The power stage of the legacy firmware (sdk/basic) without a control    *)
(* application: commands write the legs directly, or have an H bridge or a *)
(* three-phase inverter driven every 100 us, whose frequency and voltage   *)
(* follow a ramp (commands.c, io_pecb.c, bsp/pwm.c).  Everything but the   *)
(* timer interrupt runs in the main loop.                                  *)
(*                                                                         *)
(* Angles are abstracted: a phase sees half of some c in -2 .. 2 of the    *)
(* amplitude.  Voltages are in percent of the bus voltage, frequencies in  *)
(* tenths of a radian per second.                                          *)
(***************************************************************************)
EXTENDS Integers

CONSTANTS
  NUM_LEGS,      \* 20
  LegNumbers,    \* what hosts give for a leg
  Voltages, Frequencies, Ramptimes, Switching, Deadtimes,   \* and for other arguments
  MaxPwmCommands \* bound

ASSUME BasicPwmAssumption == NUM_LEGS \in 1 .. 24 /\ Voltages \subseteq Nat
                             /\ Frequencies \subseteq Int /\ Ramptimes \subseteq Int

Leg == 1 .. NUM_LEGS

VARIABLES
  pwm,           \* the core's registers: duty of each leg, carrier_max, deadtime
  hba,           \* HBA_...
  vsi,           \* VSI_...
  timer,         \* bTimer100usTick, Timing100usErrorCount
  commands       \* how many so far; whether the last VSI asked for a ramp

pwmVars == <<pwm, hba, vsi, timer, commands>>

(* Conversions of a double to an unsigned char, of an int to a uint16_t.   *)
U8(x) == IF x < 0 THEN 0 ELSE x % 256
U16(x) == x % 65536

pwm_set_duty_raw(p, leg, value) == IF leg \in Leg THEN [p EXCEPT !.duty[leg] = value] ELSE p
WriteDutyRatio(p, leg, value) == pwm_set_duty_raw(p, leg, value)

(* duty is part/whole                                                      *)
pwm_set_duty(p, leg, part, whole) ==
  pwm_set_duty_raw(p, leg,
    IF part >= whole THEN p.carrier_max ELSE IF part <= 0 THEN 0 ELSE (part * p.carrier_max) \div whole)

pwm_set_switching_freq(p, hz) == [p EXCEPT !.carrier_max = U16((200000000 \div hz) \div 2)]
pwm_set_deadtime_ns(p, ns) == [p EXCEPT !.deadtime = U16(ns) \div 5]

pwm_init ==
  pwm_set_deadtime_ns(pwm_set_switching_freq(
    [duty |-> [leg \in Leg |-> 0], carrier_max |-> 0, deadtime |-> 0], 100000), 100)

(* After FinishInitPECB_IO, which turns the legs off that InitPECB_IO has  *)
(* turned on.  No leg is chosen yet.                                       *)
PwmInit ==
  /\ pwm = pwm_init
  /\ hba = [enabled |-> FALSE, leg1 |-> 0, leg2 |-> 0, percent |-> 0]
  /\ vsi = [enabled |-> FALSE, legs |-> <<0, 0, 0>>, percent |-> 0, omega |-> 0, ramp |-> 0,
            oldPercent |-> 0, oldOmega |-> 0, R |-> <<0, 1>>, V0 |-> <<0, 1>>]
  /\ timer = [flag |-> FALSE, errors |-> 0]
  /\ commands = [count |-> 0, ramp |-> FALSE]

-----------------------------------------------------------------------------
(* Every 100 us.                                                           *)

TimerInterrupt ==
  /\ timer' = [timer EXCEPT !.flag = TRUE]
  /\ UNCHANGED <<pwm, hba, vsi, commands>>

HBridgeDuty(percent, c) == U8((127 * (200 + percent * c)) \div 200)

HBA_100usTick(p, c) ==
  IF ~hba.enabled THEN p
  ELSE WriteDutyRatio(WriteDutyRatio(p, hba.leg1, HBridgeDuty(hba.percent, c)),
                      hba.leg2, HBridgeDuty(hba.percent, -c))

PastUpwards(current, setpoint, dir) == dir = 1 /\ current > setpoint  \* mutant
PastNever(current, setpoint, dir) == FALSE                            \* mutant
Past(current, setpoint, dir) == dir * current > dir * setpoint

omega_ramp_fcn(current, setpoint, ramprate) ==
  IF ramprate = 0 \/ current = setpoint THEN current
  ELSE LET dir == IF setpoint > current THEN 1 ELSE -1
           next == current + dir * ramprate
       IN  IF Past(next, setpoint, dir) THEN setpoint ELSE next

(* R * omega + V0, as <<numerator, denominator>>                           *)
VoltageAt(v, omega) == <<v.R[1] * omega + v.V0[1], v.R[2]>>

ThreePhase == {<<2, -1, -1>>, <<-1, 2, -1>>, <<1, 1, -2>>}

VSI_100usTick(p, v, c) ==
  IF ~v.enabled
  THEN WriteDutyRatio(WriteDutyRatio(WriteDutyRatio(p, v.legs[1], 0), v.legs[2], 0), v.legs[3], 0)
  ELSE LET volt == VoltageAt(v, v.oldOmega)
           sign == IF volt[2] < 0 THEN -1 ELSE 1
           part(k) == sign * (200 * volt[2] + volt[1] * c[k])
           set(q, k) == pwm_set_duty(q, v.legs[k], part(k), sign * 400 * volt[2])
       IN  set(set(set(p, 1), 2), 3)

HandleTimer100usTick ==
  /\ timer.flag
  /\ \E late \in BOOLEAN :             \* the interrupt came again meanwhile
       timer' = [flag |-> late, errors |-> IF late THEN 1 ELSE timer.errors]
  /\ vsi' = IF vsi.enabled THEN [vsi EXCEPT !.oldOmega = omega_ramp_fcn(@, vsi.omega, vsi.ramp)] ELSE vsi
  /\ \E c \in ThreePhase : pwm' = VSI_100usTick(HBA_100usTick(pwm, c[1]), vsi', c)
  /\ UNCHANGED <<hba, commands>>

-----------------------------------------------------------------------------
(* Commands.  One that answers ERROR changes nothing.                      *)

Another == commands.count < MaxPwmCommands
PwmCommand == Another /\ commands' = [commands EXCEPT !.count = @ + 1]

CmdHBA(leg1, leg2, percent) ==
  /\ PwmCommand /\ {leg1, leg2} \subseteq Leg
  /\ hba' = [enabled |-> TRUE, leg1 |-> leg1, leg2 |-> leg2, percent |-> percent]
  /\ UNCHANGED <<pwm, vsi, timer>>

CmdHBV(leg1, leg2, percent) ==
  /\ PwmCommand /\ {leg1, leg2} \subseteq Leg
  /\ pwm' = WriteDutyRatio(WriteDutyRatio(pwm, leg1, HBridgeDuty(percent, 2)), leg2, HBridgeDuty(percent, -2))
  /\ UNCHANGED <<hba, vsi, timer>>

CmdWD(leg, value) ==
  /\ PwmCommand /\ leg \in Leg /\ value <= 255
  /\ pwm' = WriteDutyRatio(pwm, leg, value)
  /\ UNCHANGED <<hba, vsi, timer>>

CmdVSL(legs) ==
  /\ PwmCommand
  /\ \/ legs = <<0, 0, 0>> /\ vsi' = [vsi EXCEPT !.enabled = FALSE]
     \/ (\A k \in 1 .. 3 : legs[k] \in Leg) /\ vsi' = [vsi EXCEPT !.legs = legs, !.enabled = TRUE]
  /\ UNCHANGED <<pwm, hba, timer>>

(* In 100 us; abs() is the one of integers: the change loses its tenths.   *)
RampRate(change, ms) == (change \div 10) \div ms

Line(percent, omega, oldPercent, oldOmega) ==
  IF omega = oldOmega THEN [R |-> <<0, 1>>, V0 |-> <<percent, 1>>]
  ELSE LET rise == percent - oldPercent
           run == omega - oldOmega
       IN  [R |-> <<rise, run>>, V0 |-> <<percent * run - rise * omega, run>>]

(* The code limits the fraction, not the percentage, to 0 .. 100.          *)
Clamp(percent) == IF percent > 10000 THEN 10000 ELSE IF percent < 0 THEN 0 ELSE percent

(* What ramps is the old frequency: without a ramp it stays as it is.      *)
CmdVSI(percent, hz, ms) ==
  /\ Another /\ commands' = [count |-> commands.count + 1, ramp |-> ms > 0]
  /\ LET new == Clamp(percent)
         omega == 63 * hz
         change == IF omega > vsi.omega THEN omega - vsi.omega ELSE vsi.omega - omega
         line == Line(new, omega, vsi.percent, vsi.omega)
     IN  vsi' = [vsi EXCEPT !.percent = new, !.omega = omega,
                            !.oldPercent = vsi.percent, !.oldOmega = vsi.omega,
                            !.ramp = IF ms > 0 THEN RampRate(change, ms) ELSE 0,
                            !.R = line.R, !.V0 = line.V0]
  /\ UNCHANGED <<pwm, hba, timer>>

FrequencyRange == 100 .. 4000000          \* Hz
CmdFSW(hz) ==
  /\ PwmCommand /\ hz \in FrequencyRange
  /\ pwm' = pwm_set_switching_freq(pwm, hz)
  /\ UNCHANGED <<hba, vsi, timer>>

DeadtimeRange == 25 .. 1000000000         \* ns
CmdDEA(ns) ==
  /\ PwmCommand /\ ns \in DeadtimeRange
  /\ pwm' = pwm_set_deadtime_ns(pwm, ns)
  /\ UNCHANGED <<hba, vsi, timer>>

CmdTCE ==
  /\ PwmCommand
  /\ timer' = [timer EXCEPT !.errors = 0]
  /\ UNCHANGED <<pwm, hba, vsi>>

(* A negative voltage of the inverter counts as 0: -1 stands for all.      *)
SignedVoltages == Voltages \union {-1}

PwmCommands ==
  \/ \E leg1, leg2 \in LegNumbers, percent \in Voltages : CmdHBA(leg1, leg2, percent) \/ CmdHBV(leg1, leg2, percent)
  \/ \E leg \in LegNumbers, value \in Voltages : CmdWD(leg, value)
  \/ \E a, b, c \in LegNumbers : CmdVSL(<<a, b, c>>)
  \/ \E percent \in SignedVoltages, hz \in Frequencies, ms \in Ramptimes : CmdVSI(percent, hz, ms)
  \/ \E hz \in Switching : CmdFSW(hz)
  \/ \E ns \in Deadtimes : CmdDEA(ns)
  \/ CmdTCE

PwmNext == TimerInterrupt \/ HandleTimer100usTick \/ PwmCommands

(* The timer goes on, and the main loop looks at its flag time and again.  *)
PwmFairness == WF_pwmVars(TimerInterrupt) /\ WF_pwmVars(HandleTimer100usTick)

PwmSpec == PwmInit /\ [][PwmNext]_pwmVars /\ PwmFairness

-----------------------------------------------------------------------------
(* Properties.                                                             *)

(* Whatever commands come, and wherever a ramp is, the voltage is between  *)
(* those that the last two commands asked for.                             *)
VoltageBetween ==
  LET volt == VoltageAt(vsi, vsi.oldOmega)
      sign == IF volt[2] < 0 THEN -1 ELSE 1
      low == IF vsi.percent < vsi.oldPercent THEN vsi.percent ELSE vsi.oldPercent
      high == IF vsi.percent < vsi.oldPercent THEN vsi.oldPercent ELSE vsi.percent
  IN  sign * volt[2] * low <= sign * volt[1] /\ sign * volt[1] <= sign * volt[2] * high

(* A ramp that was asked for ends, at the voltage and the frequency that   *)
(* were asked for, if the inverter is driven and the host leaves it alone. *)
RampArrives ==
  <>[](vsi.enabled /\ commands.ramp)
    => <>[](vsi.oldOmega = vsi.omega /\ VoltageAt(vsi, vsi.oldOmega)[1] = vsi.percent * vsi.R[2])
=============================================================================
