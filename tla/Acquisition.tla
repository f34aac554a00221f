---------------------------- MODULE Acquisition ----------------------------
(***************************************************************************)
(* The timing manager, its sensors and the driver on CPU1: PWM events      *)
(* trigger an acquisition, its end (or the trigger) interrupts CPU1, which *)
(* may write the configuration registers in the slices that follow.  All   *)
(* registers of the FPGA change together with the clock; between two       *)
(* clocks CPU1 may take a step.  The sensors are the ones of Sensor.       *)
(***************************************************************************)
EXTENDS TimingManager

CONSTANTS Sensors,      \* sensor_e
          Ratios,       \* what a user may set the ratio to
          EventGap,     \* least clocks between two PWM events
          MaxWrites,    \* bound on the writes of commands to registers
          Patient       \* the user waits for the manual trigger he asked for

ASSUME AcquisitionAssumption ==
  Ratios \subseteq 1 .. CountWrap - 1 /\ Ratios # {}
  /\ EventGap \in Nat \ {0} /\ MaxWrites \in Nat /\ Patient \in BOOLEAN

VARIABLES
  carrier,             \* clocks since a PWM event, up to EventGap
  done,                \* per sensor
  slv_reg0,            \* automatic mode, manual trigger bit
  en_bits,             \* slv_reg1: per sensor, enabled
  user_ratio,          \* slv_reg3
  slv_reg5,            \* interrupt reset bit, source mode
  manual_trigger_ff, reset_isr_ff,
  isr_pending,         \* interrupt controller: a rising edge was seen
  cpu1,                \* what CPU1 is in: start-up, its loop, the handler
  written,             \* a register was written after the last clock
  writes,              \* writes of commands so far
  withdrawn            \* history, per sensor: it was disabled when not done

registers == <<slv_reg0, en_bits, user_ratio, slv_reg5>>
hardware == <<timingVars, carrier, done, manual_trigger_ff, reset_isr_ff>>
vars == <<hardware, registers, isr_pending, cpu1, written, writes, withdrawn>>

S(s) == INSTANCE Sensor
          WITH enable <- en_bits[s], done <- done[s], withdrawn <- withdrawn[s]

Init == /\ TimingReset
        /\ carrier = EventGap
        /\ done = [s \in Sensors |-> TRUE] /\ withdrawn = [s \in Sensors |-> FALSE]
        /\ slv_reg0 = [auto |-> TRUE, manual |-> FALSE] /\ manual_trigger_ff = FALSE
        /\ en_bits = [s \in Sensors |-> FALSE] /\ user_ratio = 0
        /\ slv_reg5 = [reset |-> FALSE, source |-> 0] /\ reset_isr_ff = FALSE
        /\ isr_pending = FALSE
        /\ cpu1 = "start" /\ written = FALSE /\ writes = 0

-----------------------------------------------------------------------------
(* A clock edge of the FPGA.  The carrier is at a peak or valley, which    *)
(* pwm_sync_high and pwm_sync_low select, for one clock, and it takes the  *)
(* bus at least one clock to bring the write of a register.                *)

event_qualifier == carrier = 0

AllDone == \A s \in Sensors : done[s]
SensorsEnabled == \E s \in Sensors : en_bits[s]
SendManualTrigger == manual_trigger_ff # slv_reg0.manual /\ ~slv_reg0.auto
ResetIsr == slv_reg5.reset # reset_isr_ff

Clock ==
  /\ carrier' \in IF carrier < EventGap THEN {carrier + 1} ELSE {carrier, 0}
  /\ CountNext(user_ratio, event_qualifier)
  /\ TriggerNext(slv_reg0.auto, user_ratio, event_qualifier, AllDone)
  /\ QueuedNext(SendManualTrigger)
  /\ done' \in [Sensors -> BOOLEAN] /\ \A s \in Sensors : S(s)!SensorClock
  /\ DoneNext(AllDone)
  /\ IsrNext(ResetIsr, AssertIsr(slv_reg5.source, SensorsEnabled, user_ratio, AllDone))
  /\ manual_trigger_ff' = slv_reg0.manual
  /\ reset_isr_ff' = slv_reg5.reset
  /\ isr_pending' = (isr_pending \/ (cpu1 # "start" /\ sched_isr' /\ ~sched_isr))
  /\ written' = FALSE
  /\ UNCHANGED <<registers, cpu1, writes, withdrawn>>

-----------------------------------------------------------------------------
(* CPU1. *)

StartWithoutClear ==   \* mutant: no clear at the end of the initialisation
  /\ cpu1 = "start"
  /\ cpu1' = "loop"
  /\ user_ratio' \in Ratios
  /\ \E source \in {0, 1} : slv_reg5' = [slv_reg5 EXCEPT !.source = source]
  /\ UNCHANGED <<hardware, isr_pending, slv_reg0, en_bits, written, writes,
                 withdrawn>>
(***************************************************************************)
(* timing_manager_init.  After the reset the ratio is 0 and the interrupt  *)
(* asserted; the controller waits for an edge, so none is taken before the *)
(* last write clears it.  The source is an option of the build.            *)
(***************************************************************************)
TimingManagerInit ==
  /\ cpu1 = "start"
  /\ cpu1' = "loop"
  /\ user_ratio' \in Ratios
  /\ \E source \in {0, 1} : slv_reg5' = [reset |-> ~slv_reg5.reset, source |-> source]
  /\ UNCHANGED <<hardware, isr_pending, slv_reg0, en_bits, written, writes,
                 withdrawn>>

(* timing_manager_isr up to the acknowledgement, and the acknowledgement. *)
Tick == /\ cpu1 = "loop" /\ isr_pending
        /\ cpu1' = "isr" /\ isr_pending' = FALSE
        /\ UNCHANGED <<hardware, registers, written, writes, withdrawn>>

ClearIsr == /\ cpu1 = "isr"
            /\ ~written /\ written' = TRUE
            /\ cpu1' = "loop"
            /\ slv_reg5' = [slv_reg5 EXCEPT !.reset = ~@]
            /\ UNCHANGED <<hardware, isr_pending, slv_reg0, en_bits, user_ratio, writes,
                           withdrawn>>

(* Commands and applications write the registers from tasks, in the loop. *)
Write == /\ cpu1 = "loop"
         /\ ~written /\ written' = TRUE
         /\ writes < MaxWrites
         /\ writes' = writes + 1
         /\ UNCHANGED <<hardware, isr_pending, cpu1, slv_reg5>>

ManualOutstanding == SendManualTrigger \/ manual_trigger_queued
SetMode(auto) == /\ Write
                 /\ Patient => ~ManualOutstanding
                 /\ slv_reg0' = [slv_reg0 EXCEPT !.auto = auto]
                 /\ UNCHANGED <<en_bits, user_ratio, withdrawn>>
SendManual == /\ Write
              /\ slv_reg0' = [slv_reg0 EXCEPT !.manual = ~@]
              /\ UNCHANGED <<en_bits, user_ratio, withdrawn>>
SetRatio == /\ Write
            /\ user_ratio' \in Ratios
            /\ UNCHANGED <<slv_reg0, en_bits, withdrawn>>
EnableSensor(s) == /\ Write
                   /\ en_bits' = [en_bits EXCEPT ![s] = TRUE]
                   /\ UNCHANGED <<slv_reg0, user_ratio, withdrawn>>
SelectSensors == /\ Write
                 /\ en_bits' \in [Sensors -> BOOLEAN]
                 /\ withdrawn' \in [Sensors -> BOOLEAN]
                 /\ \A s \in Sensors : S(s)!Withdraw(en_bits'[s])
                 /\ UNCHANGED <<slv_reg0, user_ratio>>

CPU1 == TimingManagerInit \/ Tick \/ ClearIsr
Commands == \/ \E auto \in BOOLEAN : SetMode(auto)
            \/ SendManual \/ SetRatio \/ SelectSensors
            \/ \E s \in Sensors : EnableSensor(s)
Next == Clock \/ CPU1 \/ Commands

Spec == Init /\ [][Next]_vars

(* The clock runs, the carrier oscillates, sensors keep their promise, and *)
(* CPU1 executes on.                                                       *)
FairSpec == /\ Spec
            /\ WF_vars(Clock) /\ WF_vars(Clock /\ event_qualifier')
            /\ \A s \in Sensors : S(s)!DoneReturns
            /\ WF_vars(CPU1)

-----------------------------------------------------------------------------
(***************************************************************************)
(* "A trigger signal can only be asserted if none of the sensors are still *)
(* collecting data", whatever is written to the registers in between: also *)
(* for sensors that were enabled or disabled during an acquisition.        *)
(* Users must wait for a manual trigger before they change the mode: if    *)
(* one is queued in automatic mode, the event that completes the ratio     *)
(* asserts trigger for it and in the next clock for the count.             *)
(***************************************************************************)
NoTriggerWhileCollecting == trigger => AllDone

(***************************************************************************)
(* Ticks keep coming whenever sensors are done and whenever the handler    *)
(* acknowledges, also after changes of ratio, mode and sensors, except if  *)
(* a sensor was disabled in an acquisition and never is done, or no        *)
(* trigger comes any more because the user has to ask for each.            *)
(***************************************************************************)
OnlyManual == slv_reg5.source = 1 /\ SensorsEnabled /\ ~slv_reg0.auto
TicksKeepComing ==
  []<>(cpu1 = "isr") \/ <>[]((\E s \in Sensors : withdrawn[s]) \/ OnlyManual)
=============================================================================
