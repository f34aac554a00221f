---------------------------- MODULE MCBasicLive ----------------------------
(* How the firmware starts, or how its power stage is driven once it has   *)
(* started: a session is about either.                                     *)
EXTENDS BasicPwm, BasicBoot

VARIABLE session

SmallFrequencies == {-1, 0, 1}

Either == PwmInit /\ BootInit /\ session \in {"drive", "start"}
EitherNext ==
  \/ session = "drive" /\ PwmNext /\ UNCHANGED <<session, bootVars>>
  \/ session = "start" /\ BootNext /\ UNCHANGED <<session, pwmVars>>

EitherSpec ==
  /\ Either /\ [][EitherNext]_<<session, pwmVars, bootVars>>
  /\ WF_pwmVars(session = "drive" /\ TimerInterrupt)
  /\ WF_pwmVars(session = "drive" /\ HandleTimer100usTick)
  /\ WF_bootVars(session = "start" /\ BootStep)
  /\ WF_bootVars(session = "start" /\ TimerIntrHandler)
  /\ WF_bootVars(session = "start" /\ MainLoopTick)
  /\ WF_bootVars(session = "start" /\ lwip_timer_callback)
=============================================================================
