----------------------------- MODULE BasicBoot -----------------------------
(***************************************************************************)
(* How the legacy firmware (sdk/basic) starts: main() brings up one part   *)
(* after another and enables interrupts in between, any part but the first *)
(* may fail, and the timer interrupt divides its 10 us down to what the    *)
(* main loop is to do (main.c, prog_timer.c, axi_timer.c, lwip_glue.c).    *)
(***************************************************************************)
EXTENDS Integers, Sequences

CONSTANTS
  DIVIDER,       \* 10: 10 us to 100 us, and 100 us to 1 ms
  ETH_LIMIT,     \* 249
  EthCap         \* bound: Eth_1ms counts no further

ASSUME BasicBootAssumption == DIVIDER \in Nat \ {0} /\ ETH_LIMIT \in Nat /\ EthCap > ETH_LIMIT + 1

VARIABLES
  pc,            \* what main() does next: a step, "loop", or "returned"
  ready,         \* what has been initialised
  enabled,       \* interrupts that may come
  legs,          \* "off", or "on" as after InitPECB_IO
  ticks,         \* tickTo10Counter, tickTo1msCounter, Eth_1ms
  flag,          \* bTimer100usTick, bEth250ms, bEnableEthTimer
  odd            \* of lwip_timer_callback

bootVars == <<pc, ready, enabled, legs, ticks, flag, odd>>

LogLate == <<"bsp_init", "InitPECB_IO", "SetupInterruptSystem", "SetupTimer", "InitLog", "InitControllers",
             "SetupLWIP", "start_tcpip", "FinishInitPECB_IO", "loop">>           \* mutant
main == <<"bsp_init", "InitPECB_IO", "InitLog", "SetupInterruptSystem", "SetupTimer", "InitControllers",
          "SetupLWIP", "start_tcpip", "FinishInitPECB_IO", "loop">>

BootInit ==
  /\ pc = 1 /\ ready = {} /\ enabled = {} /\ legs = "off"
  /\ ticks = [ten |-> 0, ms |-> 0, eth |-> 0]
  /\ flag = [us100 |-> FALSE, eth250 |-> FALSE, ethTimer |-> FALSE]
  /\ odd = TRUE

At(step) == pc \in DOMAIN main /\ main[pc] = step
GoOn == pc' = pc + 1
Return == pc' = 0                      \* XST_FAILURE

Has(part) == ready' = ready \cup {part}

bsp_init ==
  /\ At("bsp_init") /\ GoOn /\ Has("bsp")
  /\ UNCHANGED <<enabled, legs, ticks, flag, odd>>

InitPECB_IO ==
  /\ At("InitPECB_IO") /\ GoOn
  /\ legs' = "on"
  /\ UNCHANGED <<ready, enabled, ticks, flag, odd>>

InitLog ==
  /\ At("InitLog") /\ GoOn /\ Has("log")
  /\ UNCHANGED <<enabled, legs, ticks, flag, odd>>

SetupInterruptSystem ==
  /\ At("SetupInterruptSystem")
  /\ \/ GoOn /\ Has("interrupts")
     \/ Return /\ UNCHANGED ready
  /\ UNCHANGED <<enabled, legs, ticks, flag, odd>>

(* In the code the interrupt is enabled here, and the timer is started at  *)
(* the end of the function that calls this one, after nothing that fails:  *)
(* until then none comes, so enabled and started are one step.             *)
TimerSetupIntrSystem(interrupt) ==
  \/ GoOn /\ Has(interrupt) /\ enabled' = enabled \cup {interrupt}
  \/ Return /\ UNCHANGED <<ready, enabled>>

SetupTimer ==
  /\ At("SetupTimer")
  /\ TimerSetupIntrSystem("main_timer")
  /\ UNCHANGED <<legs, ticks, flag, odd>>

Init_AXI_Timer == TimerSetupIntrSystem("control_timer")

InitControllers ==
  /\ At("InitControllers")
  /\ Init_AXI_Timer
  /\ UNCHANGED <<legs, ticks, flag, odd>>

(* main() goes on without the network.                                     *)
SetupLWIP ==
  /\ At("SetupLWIP") /\ GoOn
  /\ \/ Has("lwip") /\ flag' = [flag EXCEPT !.ethTimer = TRUE]
     \/ UNCHANGED <<ready, flag>>
  /\ UNCHANGED <<enabled, legs, ticks, odd>>

start_tcpip ==
  /\ At("start_tcpip") /\ GoOn
  /\ Has("server") \/ UNCHANGED ready
  /\ UNCHANGED <<enabled, legs, ticks, flag, odd>>

FinishInitPECB_IO ==
  /\ At("FinishInitPECB_IO") /\ GoOn
  /\ legs' = "off"
  /\ UNCHANGED <<ready, enabled, ticks, flag, odd>>

-----------------------------------------------------------------------------
(* The interrupt, and the main loop.                                       *)

EthDueAt(eth) == eth = ETH_LIMIT + 1                                  \* mutant
EthDue(eth) == eth > ETH_LIMIT

Capped(n) == IF n > EthCap THEN EthCap ELSE n

(* tickTo1msCounter is never reset: after the first millisecond Eth_1ms    *)
(* counts every 100 us.                                                    *)
TimerIntrHandler ==
  /\ "main_timer" \in enabled
  /\ IF ticks.ten + 1 < DIVIDER
     THEN ticks' = [ticks EXCEPT !.ten = @ + 1] /\ UNCHANGED flag
     ELSE LET counts == ticks.ms + 1 >= DIVIDER
              eth == IF counts THEN Capped(ticks.eth + 1) ELSE ticks.eth
              due == counts /\ EthDue(eth) /\ flag.ethTimer
          IN  /\ ticks' = [ten |-> 0, ms |-> IF counts THEN DIVIDER ELSE ticks.ms + 1,
                          eth |-> IF due THEN 0 ELSE eth]
              /\ flag' = [flag EXCEPT !.us100 = TRUE, !.eth250 = @ \/ due]
  /\ UNCHANGED <<pc, ready, enabled, legs, odd>>

MainLoopTick ==
  /\ At("loop") /\ flag.us100
  /\ flag' = [flag EXCEPT !.us100 = FALSE]
  /\ UNCHANGED <<pc, ready, enabled, legs, ticks, odd>>

(* tcp_fasttmr, and every other time tcp_slowtmr.                          *)
lwip_timer_callback ==
  /\ At("loop") /\ flag.eth250
  /\ flag' = [flag EXCEPT !.eth250 = FALSE]
  /\ odd' = ~odd
  /\ UNCHANGED <<pc, ready, enabled, legs, ticks>>

BootStep ==
  bsp_init \/ InitPECB_IO \/ InitLog \/ SetupInterruptSystem \/ SetupTimer \/ InitControllers \/ SetupLWIP
  \/ start_tcpip \/ FinishInitPECB_IO

BootNext == BootStep \/ TimerIntrHandler \/ MainLoopTick \/ lwip_timer_callback

(* main() goes on, the timer too, and the loop looks at both flags.        *)
BootFairness ==
  /\ WF_bootVars(BootStep) /\ WF_bootVars(TimerIntrHandler)
  /\ WF_bootVars(MainLoopTick) /\ WF_bootVars(lwip_timer_callback)

BootSpec == BootInit /\ [][BootNext]_bootVars /\ BootFairness

-----------------------------------------------------------------------------
(* Properties.                                                             *)

(* An interrupt that may come finds what it works on: the timer's samples  *)
(* into the logs, the control timer's counts the main timer's ticks; the   *)
(* network's timers run only if there is one; when main() gets to its loop *)
(* the legs are off.                                                       *)
BootOrder ==
  /\ "main_timer" \in enabled => {"interrupts", "log", "bsp"} \subseteq ready
  /\ "control_timer" \in enabled => "main_timer" \in enabled
  /\ flag.eth250 => "lwip" \in ready
  /\ At("loop") => legs = "off"

(* The network's timers run for ever, however long it took to bring the    *)
(* network up after the interrupt had begun to count.                      *)
LwipTimersRun ==
  LET running == At("loop") /\ flag.ethTimer
  IN  (running /\ ~odd ~> odd) /\ (running /\ odd ~> ~odd)
=============================================================================
