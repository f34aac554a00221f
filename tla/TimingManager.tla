--------------------------- MODULE TimingManager ---------------------------
(***************************************************************************)
(* timing_manager.v: counts PWM events, triggers the sensors when all of   *)
(* them are done, and raises the interrupt of the scheduler.  One operator *)
(* per register, for a clock edge; the wires that come from elsewhere are  *)
(* parameters.                                                             *)
(***************************************************************************)
EXTENDS Naturals

CONSTANT CountWrap      \* 2^16

ASSUME CountAssumption == CountWrap \in Nat /\ CountWrap > 1

VARIABLES count, trigger, manual_trigger_queued, all_done_ff, sched_isr

timingVars == <<count, trigger, manual_trigger_queued, all_done_ff, sched_isr>>

TimingReset == /\ count = 0
               /\ trigger = FALSE
               /\ manual_trigger_queued = FALSE
               /\ all_done_ff = TRUE
               /\ sched_isr = FALSE

CountNext(user_ratio, event_qualifier) ==
  count' = IF count = user_ratio THEN 0
           ELSE IF event_qualifier THEN (count + 1) % CountWrap ELSE count

TriggerUntested(do_auto, user_ratio, event_qualifier, all_done) == \* mutant: sensors not waited for
  trigger' = \/ do_auto /\ count = user_ratio
             \/ manual_trigger_queued /\ event_qualifier /\ all_done
TriggerNext(do_auto, user_ratio, event_qualifier, all_done) ==
  trigger' = \/ do_auto /\ count = user_ratio /\ all_done
             \/ manual_trigger_queued /\ event_qualifier /\ all_done

QueuedNext(send_manual_trigger) ==
  manual_trigger_queued' = (send_manual_trigger \/ (manual_trigger_queued /\ ~trigger))

(* Interrupt per trigger condition (0) or, with sensors, per acquisition (1). *)
AssertIsr(source, sensors_enabled, user_ratio, all_done) ==
  IF source = 1 /\ sensors_enabled THEN all_done /\ ~all_done_ff ELSE count = user_ratio

IsrNext(reset_isr, assert_isr) ==
  sched_isr' = (~reset_isr /\ (assert_isr \/ sched_isr))

DoneNext(all_done) == all_done_ff' = all_done
=============================================================================
