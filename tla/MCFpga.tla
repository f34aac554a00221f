------------------------------- MODULE MCFpga -------------------------------
(* The timing manager with two sensors, so that one can be done before the *)
(* other, or one AMDS interface, with a line of all channels and a line    *)
(* without.  A session is about either; they are composed by what they     *)
(* both know of each other, module Sensor.                                 *)
EXTENDS Acquisition

CONSTANTS Channels, Lines, Enabled, FeTimeout, MaxDamaged

VARIABLES session, amds_trigger, amds_enable, amds_done_ff, amds_withdrawn,
          waiting_for_first_fe, trigger_to_fe_timer, start_rx, done_flop, line,
          adc_dout, ch_valid_reg, answer, damaged, late

amdsAll == <<amds_trigger, amds_enable, amds_done_ff, amds_withdrawn, waiting_for_first_fe,
             trigger_to_fe_timer, start_rx, done_flop, line, adc_dout, ch_valid_reg,
             answer, damaged, late>>
amds == INSTANCE AmdsOpen
          WITH trigger <- amds_trigger, enable <- amds_enable, all_done_ff <- amds_done_ff,
               withdrawn <- amds_withdrawn
MCEnabled == [l \in Lines |-> IF l = 0 THEN Channels ELSE {}]

ASSUME InstanceAssumption == amds!ChannelsAssumption /\ amds!AmdsAssumption

Either == Init /\ amds!Init /\ session \in {"timing", "AMDS"}
EitherNext ==
  \/ session = "timing" /\ Next /\ UNCHANGED <<session, amdsAll>>
  \/ session = "AMDS" /\ amds!Next /\ UNCHANGED <<session, vars>>

EitherFairness ==
  /\ WF_vars(session = "timing" /\ Clock)
  /\ WF_vars(session = "timing" /\ Clock /\ event_qualifier')
  /\ \A s \in Sensors : S(s)!DoneReturns
  /\ WF_vars(session = "timing" /\ CPU1)
  /\ WF_amdsAll(session = "AMDS" /\ amds!Clock)
  /\ \A l \in amds!Sending : WF_amdsAll(session = "AMDS" /\ amds!Clock /\ amds!Received(l))

EitherSpec == Either /\ [][EitherNext]_<<session, vars, amdsAll>> /\ EitherFairness

TicksComeInSession == session = "timing" => TicksKeepComing
ValidDataIsFresh == amds!ValidDataIsFresh
ImplementsSensor == amds!ImplementsSensor
=============================================================================
