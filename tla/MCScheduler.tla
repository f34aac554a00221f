---------------------------- MODULE MCScheduler ----------------------------
(* Three tasks: a command task, a state machine every tick, a slow task.   *)
EXTENDS Scheduler, TLC

CONSTANTS exec, sm, slow

Intervals == (exec :> 1) @@ (sm :> 0) @@ (slow :> 2)
=============================================================================
