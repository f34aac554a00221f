------------------------------- MODULE MCCpu1 -------------------------------
(* Three parts of CPU1 that do not meet: the log, the PWM driver with the  *)
(* inverter core, and the current controllers of the demo application.  A  *)
(* session is about one of them.                                           *)
EXTENDS Log

CONSTANTS CountWrap, MinDeadtime, Maxes, Deadtimes, Duties, Scale, BusGap, Slice
CONSTANTS Ctxs, Phases, Channels, Turn, Speeds, Angles, Careful

VARIABLES
  session,
  count, dp, D_L, So, State, deadtime_count, Q1, Q2, carrier_max, slv_deadtime, duty,
  pwm_en, mode, en_leg, rev_leg, PS_DRIVE_EN, todo, bus, slice, configured,
  last, rest, owed, pulses,
  running, pwm_chnl, channel_duty, cc_mode, omega_e, theta_e

pwmAll == <<count, dp, D_L, So, State, deadtime_count, Q1, Q2, carrier_max, slv_deadtime,
            duty, pwm_en, mode, en_leg, rev_leg, PS_DRIVE_EN, todo, bus, slice,
            configured, last, rest, owed, pulses>>
demoAll == <<running, pwm_chnl, channel_duty, cc_mode, omega_e, theta_e>>

pwm == INSTANCE PwmDrv
demo == INSTANCE DemoCc WITH duty <- channel_duty, mode <- cc_mode

ASSUME InstancesAssumption ==
  pwm!InverterAssumption /\ pwm!PwmAssumption /\ demo!DemoAssumption

Either == /\ Init /\ pwm!Init /\ demo!Init
          /\ session \in {"log", "pwm", "demo"}
          /\ session # "pwm" => todo = pwm!PwmInit(CHOOSE m \in Maxes : TRUE, CHOOSE d \in Deadtimes : TRUE)
EitherNext ==
  \/ session = "log" /\ Next /\ UNCHANGED <<session, pwmAll, demoAll>>
  \/ session = "pwm" /\ pwm!Next /\ UNCHANGED <<session, logVars, demoAll>>
  \/ session = "demo" /\ demo!Next /\ UNCHANGED <<session, logVars, pwmAll>>
EitherSpec == Either /\ [][EitherNext]_<<session, logVars, pwmAll, demoAll>>

(* Of the instance. *)
MCDuties == 0 .. Scale
MCSpeeds == {0, 1, -2}
MCAngles == {-1, 1}

DeadtimeKept == pwm!DeadtimeKept
PulsesAsAsked == pwm!DutyWithinCarrier /\ pwm!OnePulse /\ pwm!WholePeriods
ControllersBounded == demo!ControllersBounded
=============================================================================
