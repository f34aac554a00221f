---------------------------- MODULE BasicProofs ----------------------------
(***************************************************************************)
(* The legacy firmware: its start, the ramp of its inverter, and the logs  *)
(* that it streams.                                                        *)
(* The order in which it brings its parts up is safe, for every divider    *)
(* and limit of the timer interrupt. What a step of main() may rely on is  *)
(* what the steps before it left, and nothing is taken back later: the     *)
(* invariant says for each step what is there when it is reached. Only     *)
(* main() changes pc, ready, enabled and legs; the interrupt, which comes  *)
(* between any two steps, changes flags.                                   *)
(***************************************************************************)
EXTENDS MCBasic, BasicPwm, BasicBoot, SequenceTheorems, WellFoundedInduction, TLAPS

(* What is there when main() has got so far. *)
Reached ==
  /\ pc \in 0 .. 10
  /\ pc >= 2 => "bsp" \in ready
  /\ pc >= 4 => "log" \in ready
  /\ pc >= 5 => "interrupts" \in ready
  /\ pc >= 6 => "main_timer" \in enabled
  /\ pc = 10 => legs = "off"

(* What an interrupt works on, and what the network's timer needs. *)
Served ==
  /\ "main_timer" \in enabled => {"interrupts", "log", "bsp"} \subseteq ready
  /\ "control_timer" \in enabled => "main_timer" \in enabled

Flags ==
  /\ flag \in [us100 : BOOLEAN, eth250 : BOOLEAN, ethTimer : BOOLEAN]
  /\ flag.eth250 => flag.ethTimer
  /\ flag.ethTimer => "lwip" \in ready

BootInv == Reached /\ Served /\ Flags

(* The steps of main() by their number. *)
LEMMA StepNumbers ==
  /\ At("bsp_init") <=> pc = 1
  /\ At("InitPECB_IO") <=> pc = 2
  /\ At("InitLog") <=> pc = 3
  /\ At("SetupInterruptSystem") <=> pc = 4
  /\ At("SetupTimer") <=> pc = 5
  /\ At("InitControllers") <=> pc = 6
  /\ At("SetupLWIP") <=> pc = 7
  /\ At("start_tcpip") <=> pc = 8
  /\ At("FinishInitPECB_IO") <=> pc = 9
  /\ At("loop") <=> pc = 10
<1>1. DOMAIN main = 1 .. 10
  BY DEF main
<1> QED
  BY <1>1 DEF At, main

(* Nothing is up yet. *)
LEMMA BootInitInv == BootInit => BootInv
BY DEF BootInit, BootInv, Reached, Served, Flags

(* Every step keeps the invariant: the steps of main() one by one. *)
LEMMA BootNextInv == BootInv /\ [BootNext]_bootVars => BootInv'
<1> SUFFICES ASSUME BootInv, [BootNext]_bootVars PROVE BootInv'
  OBVIOUS
<1> USE DEF BootInv
<1>1. CASE bsp_init
  BY <1>1, StepNumbers DEF bsp_init, GoOn, Has, Reached, Served, Flags
<1>2. CASE InitPECB_IO
  BY <1>2, StepNumbers DEF InitPECB_IO, GoOn, Reached, Served, Flags
<1>3. CASE InitLog
  BY <1>3, StepNumbers DEF InitLog, GoOn, Has, Reached, Served, Flags
<1>4. CASE SetupInterruptSystem
  BY <1>4, StepNumbers DEF SetupInterruptSystem, GoOn, Return, Has, Reached, Served, Flags
<1>5. CASE SetupTimer
  BY <1>5, StepNumbers DEF SetupTimer, TimerSetupIntrSystem, GoOn, Return, Has, Reached, Served, Flags
<1>6. CASE InitControllers
  BY <1>6, StepNumbers
  DEF InitControllers, Init_AXI_Timer, TimerSetupIntrSystem,
     GoOn, Return, Has, Reached, Served, Flags
<1>7. CASE SetupLWIP
  <2>1. pc = 7 /\ GoOn /\ UNCHANGED <<enabled, legs>>
    BY <1>7, StepNumbers DEF SetupLWIP
  <2>2. CASE Has("lwip") /\ flag' = [flag EXCEPT !.ethTimer = TRUE]
    <3>1. Reached' /\ Served'
      BY <2>1, <2>2 DEF GoOn, Has, Reached, Served
    <3>2. "lwip" \in ready'
      BY <2>2 DEF Has
    <3>3. Flags'
      BY <2>2, <3>2 DEF Flags
    <3> QED
      BY <3>1, <3>3
  <2>3. CASE UNCHANGED <<ready, flag>>
    BY <2>1, <2>3 DEF GoOn, Reached, Served, Flags
  <2> QED
    BY <1>7, <2>2, <2>3 DEF SetupLWIP
<1>8. CASE start_tcpip
  BY <1>8, StepNumbers DEF start_tcpip, GoOn, Has, Reached, Served, Flags
<1>9. CASE FinishInitPECB_IO
  BY <1>9, StepNumbers DEF FinishInitPECB_IO, GoOn, Reached, Served, Flags
<1>10. CASE TimerIntrHandler
  <2>1. UNCHANGED <<pc, ready, enabled, legs>>
    BY <1>10 DEF TimerIntrHandler
  <2>2. flag' = flag \/ \E due \in BOOLEAN :
          /\ due => flag.ethTimer
          /\ flag' = [flag EXCEPT !.us100 = TRUE, !.eth250 = @ \/ due]
    <3>1. CASE ticks.ten + 1 < DIVIDER
      BY <1>10, <3>1 DEF TimerIntrHandler
    <3>2. CASE ~(ticks.ten + 1 < DIVIDER)
      <4> DEFINE counts == ticks.ms + 1 >= DIVIDER
                 eth == IF counts THEN Capped(ticks.eth + 1) ELSE ticks.eth
                 due == counts /\ EthDue(eth) /\ flag.ethTimer
      <4>1. flag' = [flag EXCEPT !.us100 = TRUE, !.eth250 = @ \/ due]
        BY <1>10, <3>2 DEF TimerIntrHandler
      <4>2. due \in BOOLEAN
        OBVIOUS
      <4>3. due => flag.ethTimer
        OBVIOUS
      <4> HIDE DEF due
      <4> QED
        BY <4>1, <4>2, <4>3, Zenon
    <3> QED
      BY <3>1, <3>2
  <2> QED
    BY <2>1, <2>2 DEF Reached, Served, Flags
<1>11. CASE MainLoopTick
  BY <1>11 DEF MainLoopTick, Reached, Served, Flags
<1>12. CASE lwip_timer_callback
  BY <1>12 DEF lwip_timer_callback, Reached, Served, Flags
<1>13. CASE UNCHANGED bootVars
  BY <1>13 DEF bootVars, Reached, Served, Flags
<1> QED
  BY <1>1, <1>2, <1>3, <1>4, <1>5, <1>6, <1>7, <1>8, <1>9, <1>10, <1>11, <1>12, <1>13
  DEF BootNext, BootStep

(***************************************************************************)
(* Whatever part fails and wherever the interrupts come: an interrupt that *)
(* is enabled finds what it works on, the network's timers run only if     *)
(* there is a network, and main() enters its loop with the legs off.       *)
(***************************************************************************)
THEOREM BootIsOrdered == BootSpec => []BootOrder
<1>1. BootInv => BootOrder
  BY StepNumbers DEF BootInv, Reached, Served, Flags, BootOrder
<1> QED
  BY BootInitInv, BootNextInv, <1>1, PTL DEF BootSpec

-----------------------------------------------------------------------------
(***************************************************************************)
(* The ramp of the inverter.  Frequency and voltage are on a line between  *)
(* two points, so a voltage on the way is a mixture of the two.  The       *)
(* arithmetic is nonlinear: it is split until each product is one of two   *)
(* terms.                                                                  *)
(***************************************************************************)
LEMMA Product == \A x, y, z \in Int : x <= y /\ 0 <= z => x * z <= y * z /\ z * x <= z * y
OBVIOUS

LEMMA Spread ==
  \A a, b, m \in Int : (a + b) * m = a * m + b * m /\ (a - b) * m = a * m - b * m
OBVIOUS

(* The voltage at now, times the run of the line (VoltageAt, Line).        *)
OnTheLine(percent, oldPercent, omega, from, now) ==
  (percent - oldPercent) * now + (percent * (omega - from) - (percent - oldPercent) * omega)

LEMMA LineIsMixed ==
  ASSUME NEW percent \in Int, NEW oldPercent \in Int, NEW omega \in Int, NEW from \in Int, NEW now \in Int
  PROVE  OnTheLine(percent, oldPercent, omega, from, now) = percent * (now - from) + oldPercent * (omega - now)
BY Z3 DEF OnTheLine

LEMMA LineIsBetween ==
  ASSUME NEW percent \in Int, NEW oldPercent \in Int, NEW omega \in Int, NEW from \in Int, NEW now \in Int,
         NEW low \in Int, NEW high \in Int, low <= percent, low <= oldPercent, percent <= high, oldPercent <= high
  PROVE  LET volt == OnTheLine(percent, oldPercent, omega, from, now)
             run == omega - from
         IN  /\ from <= now /\ now <= omega => run * low <= volt /\ volt <= run * high
             /\ omega <= now /\ now <= from => (-run) * low <= -volt /\ -volt <= (-run) * high
<1> DEFINE volt == OnTheLine(percent, oldPercent, omega, from, now)
           run == omega - from
           a == now - from
           b == omega - now
<1>1. volt = percent * a + oldPercent * b /\ run = a + b /\ a \in Int /\ b \in Int /\ volt \in Int
  BY LineIsMixed DEF OnTheLine
<1>2. \A m \in Int : run * m = a * m + b * m /\ (-run) * m = (-a) * m + (-b) * m
  BY <1>1, Z3
<1>3. percent * (-a) + oldPercent * (-b) = -volt
  BY <1>1, Z3
<1>4. \A m \in Int, z \in Int : m * z = z * m /\ m * z \in Int
  OBVIOUS
<1> HIDE DEF volt, run, a, b
<1>5. CASE 0 <= a /\ 0 <= b
  <2>1. low * a <= percent * a /\ percent * a <= high * a /\ low * b <= oldPercent * b /\ oldPercent * b <= high * b
    BY <1>1, <1>5, Product
  <2>2. run * low <= volt /\ volt <= run * high
    BY <1>1, <1>2, <1>4, <2>1
  <2>3. omega <= now /\ now <= from => a = 0 /\ b = 0
    BY <1>1, <1>5 DEF a, b
  <2>4. a = 0 /\ b = 0 => volt = 0 /\ run = 0
    BY <1>1
  <2> QED BY <1>1, <2>2, <2>3, <2>4 DEF volt, run
<1>6. CASE a <= 0 /\ b <= 0
  <2>1. /\ low * (-a) <= percent * (-a) /\ percent * (-a) <= high * (-a)
        /\ low * (-b) <= oldPercent * (-b) /\ oldPercent * (-b) <= high * (-b)
    BY <1>1, <1>6, Product
  <2>2. (-run) * low <= -volt /\ -volt <= (-run) * high
    BY <1>1, <1>2, <1>3, <1>4, <2>1
  <2>3. from <= now /\ now <= omega => a = 0 /\ b = 0
    BY <1>1, <1>6 DEF a, b
  <2>4. a = 0 /\ b = 0 => volt = 0 /\ run = 0
    BY <1>1
  <2> QED BY <1>1, <2>2, <2>3, <2>4 DEF volt, run
<1>7. from <= now /\ now <= omega => 0 <= a /\ 0 <= b
  BY DEF a, b
<1>8. omega <= now /\ now <= from => a <= 0 /\ b <= 0
  BY DEF a, b
<1> QED BY <1>5, <1>6, <1>7, <1>8 DEF volt, run

(* The ramp of the present command began at some frequency, and is between *)
(* that and the one that was asked for.                                    *)
Between(from, now, to) == (from <= now /\ now <= to) \/ (to <= now /\ now <= from)

Legs == Leg \cup {0}
VsiType ==
  [enabled : BOOLEAN, legs : Legs \X Legs \X Legs, percent : Nat, omega : Int, ramp : Nat,
   oldPercent : Nat, oldOmega : Int, R : Int \X Int, V0 : Int \X Int]

RampInv ==
  /\ vsi \in VsiType
  /\ \E from \in Int :
       /\ Between(from, vsi.oldOmega, vsi.omega)
       /\ LET line == Line(vsi.percent, vsi.omega, vsi.oldPercent, from)
          IN  vsi.R = line.R /\ vsi.V0 = line.V0

(* A tick moves the frequency towards the one asked for, and not past it. *)
LEMMA RampStays ==
  ASSUME NEW from \in Int, NEW now \in Int, NEW to \in Int, NEW rate \in Nat, Between(from, now, to)
  PROVE  omega_ramp_fcn(now, to, rate) \in Int /\ Between(from, omega_ramp_fcn(now, to, rate), to)
<1>1. CASE now < to
  BY <1>1 DEF omega_ramp_fcn, Past, Between
<1>2. CASE to < now
  BY <1>2 DEF omega_ramp_fcn, Past, Between
<1>3. CASE now = to
  BY <1>3 DEF omega_ramp_fcn, Between
<1> QED BY <1>1, <1>2, <1>3

(* Between the ends of the line is between the voltages at its ends. *)
LEMMA RampHoldsVoltage == RampInv => VoltageBetween
<1> SUFFICES ASSUME RampInv PROVE VoltageBetween
  OBVIOUS
<1>1. PICK from \in Int :
        /\ Between(from, vsi.oldOmega, vsi.omega)
        /\ LET line == Line(vsi.percent, vsi.omega, vsi.oldPercent, from)
           IN  vsi.R = line.R /\ vsi.V0 = line.V0
  BY DEF RampInv, VsiType
<1> DEFINE P == vsi.percent
           Q == vsi.oldPercent
           w == vsi.omega
           now == vsi.oldOmega
           low == IF P < Q THEN P ELSE Q
           high == IF P < Q THEN Q ELSE P
           volt == OnTheLine(P, Q, w, from, now)
           run == w - from
<1>2. P \in Int /\ Q \in Int /\ w \in Int /\ now \in Int /\ P \in Nat
  BY DEF RampInv, VsiType
<1>3. VoltageBetween <=> LET at == VoltageAt(vsi, now)
                             sign == IF at[2] < 0 THEN -1 ELSE 1
                         IN  sign * at[2] * low <= sign * at[1] /\ sign * at[1] <= sign * at[2] * high
  BY DEF VoltageBetween
<1>4. CASE w = from
  <2>1. vsi.R = <<0, 1>> /\ vsi.V0 = <<P, 1>>
    BY <1>1, <1>4 DEF Line
  <2>2. VoltageAt(vsi, now) = <<P, 1>>
    BY <1>2, <2>1 DEF VoltageAt
  <2>3. low <= P /\ P <= high /\ low \in Int /\ high \in Int
    BY <1>2
  <2> HIDE DEF low, high, P, now
  <2> QED BY <1>2, <1>3, <2>2, <2>3
<1>5. CASE w # from
  <2>1. vsi.R = <<P - Q, run>> /\ vsi.V0 = <<P * run - (P - Q) * w, run>>
    BY <1>1, <1>5 DEF Line
  <2>2. VoltageAt(vsi, now) = <<volt, run>>
    BY <2>1 DEF VoltageAt, OnTheLine
  <2>3. /\ low \in Int /\ high \in Int /\ low <= P /\ low <= Q /\ P <= high /\ Q <= high
        /\ volt \in Int /\ run \in Int /\ run # 0
    BY <1>2, <1>5 DEF OnTheLine
  <2> HIDE DEF low, high
  <2>4. /\ from <= now /\ now <= w => run * low <= volt /\ volt <= run * high
        /\ w <= now /\ now <= from => (-run) * low <= -volt /\ -volt <= (-run) * high
    BY <1>2, <2>3, LineIsBetween
  <2>5. run < 0 => (-run) * low <= -volt /\ -volt <= (-run) * high
    BY <1>1, <1>2, <2>4 DEF Between
  <2>6. 0 < run => run * low <= volt /\ volt <= run * high
    BY <1>1, <1>2, <2>4 DEF Between
  <2>7. (-1) * run = -run /\ 1 * run = run /\ (-1) * volt = -volt /\ 1 * volt = volt
    BY <2>3
  <2> HIDE DEF volt, run, now
  <2> QED BY <1>3, <2>2, <2>3, <2>5, <2>6, <2>7
<1> QED BY <1>4, <1>5

LEMMA RampInitInv == PwmInit => RampInv
<1> SUFFICES ASSUME PwmInit PROVE RampInv
  OBVIOUS
<1>1. Between(0, 0, 0) /\ Line(0, 0, 0, 0) = [R |-> <<0, 1>>, V0 |-> <<0, 1>>]
  BY DEF Between, Line
<1> QED BY <1>1 DEF PwmInit, RampInv, VsiType, Legs

LEMMA RampTick == ASSUME RampInv, HandleTimer100usTick PROVE RampInv'
<1>1. CASE ~vsi.enabled
  BY <1>1 DEF HandleTimer100usTick, RampInv
<1>2. CASE vsi.enabled
  <2>1. PICK from \in Int :
          /\ Between(from, vsi.oldOmega, vsi.omega)
          /\ LET line == Line(vsi.percent, vsi.omega, vsi.oldPercent, from)
             IN  vsi.R = line.R /\ vsi.V0 = line.V0
    BY DEF RampInv, VsiType
  <2> DEFINE next == omega_ramp_fcn(vsi.oldOmega, vsi.omega, vsi.ramp)
  <2>2. next \in Int /\ Between(from, next, vsi.omega)
    BY <2>1, RampStays DEF RampInv, VsiType
  <2>3. vsi' = [vsi EXCEPT !.oldOmega = next]
    BY <1>2 DEF HandleTimer100usTick
  <2> HIDE DEF next
  <2>4. /\ vsi'.percent = vsi.percent /\ vsi'.oldPercent = vsi.oldPercent /\ vsi'.omega = vsi.omega
        /\ vsi'.R = vsi.R /\ vsi'.V0 = vsi.V0 /\ vsi'.oldOmega = next
        /\ vsi' \in VsiType
    BY <2>2, <2>3 DEF RampInv, VsiType
  <2> QED BY <2>1, <2>2, <2>4 DEF RampInv
<1> QED BY <1>1, <1>2

(* The slope and the offset of a line are quotients of integers.           *)
LEMMA LineOfIntegers ==
  ASSUME NEW a \in Int, NEW b \in Int, NEW c \in Int, NEW d \in Int
  PROVE  Line(a, b, c, d).R \in Int \X Int /\ Line(a, b, c, d).V0 \in Int \X Int
BY DEF Line

LEMMA RampCommand ==
  ASSUME RampInv, NEW percent \in SignedVoltages, NEW hz \in Frequencies, NEW ms \in Ramptimes, CmdVSI(percent, hz, ms)
  PROVE  RampInv'
<1> DEFINE new == Clamp(percent)
           omega == 63 * hz
           change == IF omega > vsi.omega THEN omega - vsi.omega ELSE vsi.omega - omega
           line == Line(new, omega, vsi.percent, vsi.omega)
           rate == IF ms > 0 THEN RampRate(change, ms) ELSE 0
<1>1. new \in Nat /\ omega \in Int /\ change \in Nat
  BY BasicPwmAssumption DEF RampInv, VsiType, Clamp, SignedVoltages
<1>2. vsi.percent \in Nat /\ vsi.omega \in Int
  BY DEF RampInv, VsiType
<1>3. rate \in Nat
  <2>1. CASE ms > 0
    <3>1. ms \in Nat \ {0}
      BY <2>1, BasicPwmAssumption
    <3>2. change \div 10 \in Nat
      BY <1>1
    <3> QED BY <2>1, <3>1, <3>2 DEF RampRate
  <2> QED BY <2>1
<1>4. line.R \in Int \X Int /\ line.V0 \in Int \X Int
  <2>1. new \in Int /\ omega \in Int /\ vsi.percent \in Int /\ vsi.omega \in Int
    BY <1>1, <1>2
  <2> HIDE DEF new, omega, change
  <2> QED BY <2>1, LineOfIntegers, Zenon
<1>5. vsi' = [vsi EXCEPT !.percent = new, !.omega = omega, !.oldPercent = vsi.percent, !.oldOmega = vsi.omega,
                         !.ramp = rate, !.R = line.R, !.V0 = line.V0]
  BY DEF CmdVSI
<1> HIDE DEF new, omega, rate
<1> DEFINE R == line.R
           V0 == line.V0
<1>6. line.R = R /\ line.V0 = V0
  OBVIOUS
<1> HIDE DEF R, V0
<1>7. /\ vsi'.percent = new /\ vsi'.omega = omega /\ vsi'.oldPercent = vsi.percent /\ vsi'.oldOmega = vsi.omega
      /\ vsi'.R = R /\ vsi'.V0 = V0
      /\ vsi' \in VsiType
  BY <1>1, <1>2, <1>3, <1>4, <1>5, <1>6 DEF RampInv, VsiType
<1>8. Between(vsi.omega, vsi.omega, omega)
  BY <1>1, <1>2 DEF Between
<1> QED BY <1>2, <1>6, <1>7, <1>8 DEF RampInv

LEMMA RampNextInv == RampInv /\ [PwmNext]_pwmVars => RampInv'
<1> SUFFICES ASSUME RampInv, [PwmNext]_pwmVars PROVE RampInv'
  OBVIOUS
<1>1. CASE UNCHANGED vsi
  BY <1>1 DEF RampInv
<1>2. CASE HandleTimer100usTick
  BY <1>2, RampTick
<1>3. ASSUME NEW percent \in SignedVoltages, NEW hz \in Frequencies, NEW ms \in Ramptimes, CmdVSI(percent, hz, ms)
      PROVE  RampInv'
  BY <1>3, RampCommand
<1>4. ASSUME NEW three, CmdVSL(three), NEW a, NEW b, NEW c, three = <<a, b, c>> PROVE RampInv'
  <2>1. CASE vsi' = [vsi EXCEPT !.enabled = FALSE]
    BY <2>1 DEF RampInv, VsiType
  <2>2. CASE a \in Leg /\ b \in Leg /\ c \in Leg /\ vsi' = [vsi EXCEPT !.legs = three, !.enabled = TRUE]
    <3>1. three \in Legs \X Legs \X Legs
      BY <1>4, <2>2 DEF Legs
    <3> HIDE DEF Legs
    <3>2. /\ vsi'.percent = vsi.percent /\ vsi'.oldPercent = vsi.oldPercent /\ vsi'.omega = vsi.omega
          /\ vsi'.R = vsi.R /\ vsi'.V0 = vsi.V0 /\ vsi'.oldOmega = vsi.oldOmega
          /\ vsi' \in VsiType
      BY <2>2, <3>1 DEF RampInv, VsiType
    <3> QED BY <3>2 DEF RampInv
  <2>3. (\A k \in 1 .. 3 : three[k] \in Leg) => a \in Leg /\ b \in Leg /\ c \in Leg
    BY <1>4
  <2> QED BY <1>4, <2>1, <2>2, <2>3 DEF CmdVSL
<1>5. CASE TimerInterrupt \/ UNCHANGED pwmVars
  BY <1>1, <1>5 DEF TimerInterrupt, pwmVars
<1>6. CASE PwmCommands
  <2>1. ASSUME NEW leg1, NEW leg2, NEW percent, CmdHBA(leg1, leg2, percent) \/ CmdHBV(leg1, leg2, percent)
        PROVE  RampInv'
    BY <1>1, <2>1, Zenon DEF CmdHBA, CmdHBV
  <2>2. ASSUME NEW leg, NEW value, CmdWD(leg, value) PROVE RampInv'
    BY <1>1, <2>2, Zenon DEF CmdWD
  <2>3. ASSUME NEW x, CmdFSW(x) \/ CmdDEA(x) \/ CmdTCE PROVE RampInv'
    BY <1>1, <2>3, Zenon DEF CmdFSW, CmdDEA, CmdTCE
  <2>4. ASSUME NEW a, NEW b, NEW c, CmdVSL(<<a, b, c>>) PROVE RampInv'
    BY <1>4, <2>4
  <2> QED BY <1>3, <1>6, <2>1, <2>2, <2>3, <2>4, Zenon DEF PwmCommands
<1> QED BY <1>2, <1>5, <1>6 DEF PwmNext

(***************************************************************************)
(* Whatever commands come, and wherever a ramp is, the voltage is between  *)
(* those that the last two commands asked for.                             *)
(***************************************************************************)
THEOREM VoltageStaysBetween == PwmSpec => []VoltageBetween
BY RampInitInv, RampNextInv, RampHoldsVoltage, PTL DEF PwmSpec

-----------------------------------------------------------------------------
(***************************************************************************)
(* The logs and their stream. todo is what is left of one command or of    *)
(* one packet, in one of three shapes; that, and what has which type, the  *)
(* other invariants stand on. Readers who look for the argument find its   *)
(* parts here (AskInv, LogInv, LateInv, WindowInv, GapsInv), and below one *)
(* lemma per part and action.                                              *)
(***************************************************************************)

Ask == Pcb \cup {NULL}
Assignments == {SetupLogVariable(i, v, s)[k] : i \in Log, v \in Variables, s \in Modes, k \in 1 .. 6}
Step ==
  [do : {"begin", "copy", "release", "flags", "clear", "room", "pick", "send", "end"}]
  \cup [do : {"start", "stop"}, log : Log]
  \cup [do : {"stream", "reply"}, comm : Ask]
  \cup [do : {"store"}, what : Assignments]

(* What todo looks like. *)
Parts == <<"begin", "copy", "release", "flags", "clear">>
ReadShape(t) ==
  /\ Len(t) \in 1 .. 6 /\ \A k \in 1 .. Len(t) - 1 : t[k].do = Parts[6 - Len(t) + k]
  /\ t[Len(t)].do \in {"reply", "send", "end", "room", "pick"}
  /\ t[Len(t)].do = "end" => Len(t) <= 3
  /\ t[Len(t)].do \in {"room", "pick"} => Len(t) = 1
StartShape(t) ==
  /\ Len(t) >= 1 /\ t[Len(t)].do = "reply"
  /\ \A k \in 1 .. Len(t) - 1 : t[k].do \in {"start", "stop", "stream"}
SetShape(t, i, v, s) ==
  /\ Len(t) \in 1 .. 7 /\ t[Len(t)].do = "reply"
  /\ \A k \in 1 .. Len(t) - 1 : t[k] = [do |-> "store", what |-> SetupLogVariable(i, v, s)[7 - Len(t) + k]]
Shape(t) ==
  \/ t = << >> \/ ReadShape(t) \/ StartShape(t)
  \/ \E i \in Log, v \in Variables, s \in Modes : SetShape(t, i, v, s)
TodoInv == todo \in Seq(Step) /\ Shape(todo)

Final == todo[Len(todo)].do
Reloading == todo # << >> /\ Final \in {"room", "pick", "send", "end"}
Under(op) == todo # << >> /\ todo[1].do = op

AskInv ==
  /\ \A k \in 1 .. Len(todo) : todo[k].do \in {"stream", "reply"} /\ todo[k].comm # NULL => net.conn[todo[k].comm] # 0
  /\ Reloading /\ rd.sent => net.flight[stream.comm] > 0
  /\ stream.comm # NULL /\ ~hist.orphan =>
       /\ net.conn[stream.comm] # 0 /\ net.conn[stream.comm] = hist.asker
       /\ ~Reloading => stream.prime \/ net.flight[stream.comm] > 0
  /\ hist.sentTo # 0 /\ ~hist.orphan => hist.sentTo = hist.asker

-----------------------------------------------------------------------------
Sample == [var : Variables \cup {NULL}, at : Nat]
LogType ==
  [InPos : Cell, OutPos : Cell, Settings : Modes \cup {{}}, Flags : BOOLEAN, VarToLog : Variables \cup {NULL},
   LogStatus : {"idle", "ready", "logging", "done"}, LogEntry : [Cell -> Sample]]

(* The place of the k-th sample from o on. *)
Place(o, k) == (o + k - 1) % LOG_LENGTH
Kth(log, k) == log.LogEntry[Place(log.OutPos, k)]
Waiting(i) == LogDataAvail(logs[i])
Entry(i, k) == Kth(logs[i], k)
Setting(i) == Under("store") /\ todo[1].what[1] = i
Taken(i) == (Under("flags") \/ Under("clear")) /\ rd.log = i

Hears == [last : Sample, gap : BOOLEAN, warned : BOOLEAN]
StreamTyped ==
  /\ logs \in [Log -> LogType] /\ tick \in Nat /\ burst \in Nat
  /\ rd \in [log : Log, length : Nat, in : Cell, out : Cell, data : Seq(Sample), status : Nat,
             flags : BOOLEAN, sent : BOOLEAN]
  /\ stream \in [comm : Ask, prime : BOOLEAN, sqn : Nat]
  /\ net \in [slots : [1 .. MAX_BASE_SOCKETS -> Ask], conn : [Pcb -> Nat], flight : [Pcb -> Nat]]
  /\ count \in [commands : Nat, connections : Nat]
  /\ hist \in [asker : Nat, orphan : BOOLEAN, heard : [Log -> Hears], next : Nat,
               raced : [Log -> BOOLEAN], sentTo : Nat]

(* A read in progress. *)
Sending == todo # << >> /\ Final = "send"
Held == Under("release") \/ (Sending /\ (Under("flags") \/ Under("clear") \/ Under("send")))
ReadInv ==
  /\ Under("copy") \/ Under("release") =>
       /\ rd.length \in 0 .. Waiting(rd.log) /\ rd.out = logs[rd.log].OutPos
       /\ OutPosNext(rd.out, rd.in, rd.length) = (rd.out + rd.length) % LOG_LENGTH
  /\ Under("release") => rd.data = Copied(logs[rd.log], rd.out, rd.length)
  /\ Held => Len(rd.data) = rd.length
  /\ Reloading => stream.comm # NULL
BaseInv == TodoInv /\ StreamTyped /\ ReadInv

(* A log that LM sets up. *)
SetInv(i) ==
  LET n == Len(todo) - 1 IN
  /\ logs[i].LogStatus # "logging" /\ hist.heard[i] = Unheard
  /\ n <= 5 => logs[i].InPos = 0
  /\ n <= 4 => logs[i].OutPos = 0
  /\ n <= 2 => ~logs[i].Flags

HoldInv(i) ==
  /\ \A k \in 1 .. Waiting(i) : Entry(i, k).var = logs[i].VarToLog
  /\ logs[i].LogStatus \in {"idle", "ready"} => Waiting(i) = 0 /\ ~logs[i].Flags /\ hist.heard[i].last.var = NULL
  /\ logs[i].Flags /\ ~Taken(i) => Waiting(i) = LOG_LENGTH - 1

LogInv ==
  /\ Sending => Readable(logs[rd.log])
  /\ \A i \in Log : ~hist.raced[i] => IF Setting(i) THEN SetInv(i) ELSE HoldInv(i)

-----------------------------------------------------------------------------
Parting == {"begin", "copy", "release", "flags", "clear"}
WindowInv ==
  /\ todo # << >> => burst <= MaxBurst
  /\ Sending /\ (Under("copy") \/ Under("release")) => rd.length = Packet \/ Waiting(rd.log) <= rd.length + burst
  /\ Sending /\ (Under("flags") \/ Under("clear")) =>
       \/ rd.length = Packet /\ Waiting(rd.log) <= LOG_LENGTH - 1 - rd.length + burst
       \/ Waiting(rd.log) <= burst
  /\ (Under("flags") \/ Under("clear")) /\ Final = "end" /\ ~hist.raced[rd.log] =>
       ~logs[rd.log].Flags /\ Waiting(rd.log) <= burst
  /\ todo # << >> /\ Final = "reply" /\ todo[1].do \in Parting => hist.heard[rd.log].warned

Mine(i) == Sending /\ rd.log = i
TakenOut(i) == Mine(i) /\ (Under("flags") \/ Under("clear") \/ Under("send"))
Missed == hist.next # stream.sqn
Prev(i) == IF TakenOut(i) /\ rd.length > 0 THEN rd.data[rd.length] ELSE hist.heard[i].last
Told(i) == hist.heard[i].warned \/ Missed \/ (Mine(i) /\ (Under("clear") \/ Under("send")) /\ rd.flags)
Whole(log, p, now) ==
  LET n == LogDataAvail(log)
  IN  /\ \A k \in 1 .. n - 1 : Kth(log, k + 1).at = Kth(log, k).at + 1
      /\ n > 0 /\ log.LogStatus = "logging" => Kth(log, n).at = now
      /\ n > 0 /\ p.var # NULL => Kth(log, 1).at = p.at + 1
      /\ n = 0 /\ log.LogStatus = "logging" /\ p.var # NULL => p.at = now
Unbroken(i) == Whole(logs[i], Prev(i), tick)
Fresh(i) ==
  /\ \A k \in 1 .. rd.length - 1 : rd.data[k + 1].at = rd.data[k].at + 1
  /\ rd.length > 0 /\ hist.heard[i].last.var # NULL => rd.data[1].at = hist.heard[i].last.at + 1
GapInv(i) ==
  /\ hist.heard[i].gap => hist.heard[i].warned
  /\ Told(i) \/ logs[i].Flags \/ Unbroken(i)
  /\ TakenOut(i) => Told(i) \/ (Under("flags") /\ logs[i].Flags) \/ Fresh(i)
  /\ Mine(i) /\ Under("clear") /\ logs[i].Flags => rd.flags
Telling(i) == ~hist.raced[i] /\ ~Setting(i) /\ PREVENT_OVERRUN \notin logs[i].Settings
GapsInv ==
  /\ hist.next <= stream.sqn
  /\ \A i \in Log : Telling(i) => GapInv(i)

-----------------------------------------------------------------------------
LEMMA TailIs ==
  ASSUME NEW S, NEW t \in Seq(S), t # << >>
  PROVE  /\ Tail(t) \in Seq(S) /\ Len(Tail(t)) = Len(t) - 1 /\ Len(t) \in Nat \ {0}
         /\ Head(t) = t[1] /\ t[1] \in S /\ << >> \o Tail(t) = Tail(t)
         /\ \A k \in 1 .. Len(t) - 1 : Tail(t)[k] = t[k + 1]
OBVIOUS

(* The first step says what is to follow. *)
LEMMA FirstOfReading ==
  ASSUME NEW t \in Seq(Step), t # << >>, ReadShape(t)
  PROVE  /\ t[1].do \in {"reply", "send", "end", "room", "pick"} => Len(t) = 1
         /\ t[1].do \in {"begin", "copy", "release", "flags", "clear"} => Len(t) > 1 /\ t[1].do = Parts[7 - Len(t)]
         /\ t[1].do \in {"reply", "send", "end", "room", "pick", "begin", "copy", "release", "flags", "clear"}
<1> DEFINE n == Len(t)
<1>1. n \in 1 .. 6
  BY DEF ReadShape
<1>2. CASE n = 1
  BY <1>2 DEF ReadShape
<1>3. CASE n > 1
  <2>1. t[1].do = Parts[7 - n]
    <3>1. 1 \in 1 .. n - 1 /\ 6 - n + 1 = 7 - n
      BY <1>1, <1>3
    <3> QED BY <3>1 DEF ReadShape
  <2> HIDE DEF n
  <2>2. 7 - n \in 1 .. 5 /\ n # 1
    BY <1>1, <1>3
  <2>3. \A k \in 1 .. 5 : Parts[k] \in {"begin", "copy", "release", "flags", "clear"}
    BY DEF Parts
  <2>4. t[1].do \in {"begin", "copy", "release", "flags", "clear"}
    BY <2>1, <2>2, <2>3
  <2>5. t[1].do \notin {"reply", "send", "end", "room", "pick"}
    BY <2>4
  <2> QED BY <1>3, <2>1, <2>4, <2>5 DEF n
<1>4. n = 1 \/ n > 1
  <2> HIDE DEF n
  <2> QED BY <1>1
<1> QED BY <1>2, <1>3, <1>4

LEMMA FirstOfStarting ==
  ASSUME NEW t \in Seq(Step), t # << >>, StartShape(t)
  PROVE  /\ t[1].do = "reply" => Len(t) = 1
         /\ t[1].do \in {"start", "stop", "stream"} => Len(t) > 1
         /\ t[1].do \in {"reply", "start", "stop", "stream"}
<1>1. Len(t) = 1 \/ (Len(t) > 1 /\ Len(t) # 1 /\ 1 \in 1 .. Len(t) - 1)
  OBVIOUS
<1>2. CASE Len(t) = 1
  BY <1>2 DEF StartShape
<1>3. CASE Len(t) > 1 /\ Len(t) # 1 /\ 1 \in 1 .. Len(t) - 1
  BY <1>3 DEF StartShape
<1> QED BY <1>1, <1>2, <1>3

LEMMA FirstOfSetting ==
  ASSUME NEW t \in Seq(Step), t # << >>, NEW i \in Log, NEW v, NEW s, SetShape(t, i, v, s)
  PROVE  /\ t[1].do = "reply" => Len(t) = 1
         /\ t[1].do = "store" => Len(t) > 1 /\ Len(t) \in 2 .. 7 /\ t[1].what = SetupLogVariable(i, v, s)[8 - Len(t)]
         /\ t[1].do \in {"reply", "store"}
<1>1. Len(t) = 1 \/ (Len(t) > 1 /\ Len(t) # 1 /\ 1 \in 1 .. Len(t) - 1)
  <2> DEFINE n == Len(t)
  <2>1. n \in 1 .. 7
    BY DEF SetShape
  <2> HIDE DEF n
  <2>2. n = 1 \/ (n > 1 /\ n # 1 /\ 1 \in 1 .. n - 1)
    BY <2>1
  <2> QED BY <2>2 DEF n
<1>2. CASE Len(t) = 1
  <2>1. t[Len(t)].do = "reply"
    BY DEF SetShape
  <2> QED BY <1>2, <2>1
<1>3. CASE Len(t) > 1 /\ Len(t) # 1 /\ 1 \in 1 .. Len(t) - 1
  <2>1. t[1] = [do |-> "store", what |-> SetupLogVariable(i, v, s)[7 - Len(t) + 1]] /\ Len(t) \in 2 .. 7
    BY <1>3 DEF SetShape
  <2>2. 7 - Len(t) + 1 = 8 - Len(t)
    BY <2>1
  <2>3. t[1].do = "store" /\ t[1].what = SetupLogVariable(i, v, s)[8 - Len(t)]
    BY <2>1, <2>2
  <2> QED BY <1>3, <2>1, <2>3
<1> QED BY <1>1, <1>2, <1>3

LEMMA ShapeOfFirst ==
  ASSUME NEW t \in Seq(Step), t # << >>, Shape(t)
  PROVE  /\ t[1].do \in {"reply", "room", "pick", "send", "end"} => Len(t) = 1
         /\ t[1].do \notin {"reply", "room", "pick", "send", "end"} => Len(t) > 1
         /\ t[1].do \in {"begin", "copy", "release", "flags", "clear", "room", "pick", "send", "end"} => ReadShape(t)
         /\ t[1].do \in {"start", "stop", "stream"} => StartShape(t)
         /\ t[1].do = "store" => \E i \in Log, v \in Variables, s \in Modes : SetShape(t, i, v, s)
         /\ t[Len(t)].do \in {"reply", "room", "pick", "send", "end"}
         /\ t[Len(t)].do # "reply" => ReadShape(t)
<1>1. CASE ReadShape(t)
  <2>1. t[Len(t)].do \in {"reply", "room", "pick", "send", "end"}
    BY <1>1 DEF ReadShape
  <2> QED BY <1>1, <2>1, FirstOfReading
<1>2. CASE StartShape(t)
  <2>1. t[Len(t)].do = "reply"
    BY <1>2 DEF StartShape
  <2> QED BY <1>2, <2>1, FirstOfStarting
<1>3. CASE \E i \in Log, v \in Variables, s \in Modes : SetShape(t, i, v, s)
  <2>1. PICK i \in Log, v \in Variables, s \in Modes : SetShape(t, i, v, s)
    BY <1>3
  <2>2. t[Len(t)].do = "reply"
    BY <2>1 DEF SetShape
  <2>3. /\ t[1].do = "reply" => Len(t) = 1
        /\ t[1].do = "store" => Len(t) > 1
        /\ t[1].do \in {"reply", "store"}
    BY <2>1, FirstOfSetting
  <2> QED BY <1>3, <2>2, <2>3
<1> QED BY <1>1, <1>2, <1>3 DEF Shape

(* What is left has the same shape. *)
LEMMA RestHasShape ==
  ASSUME NEW t \in Seq(Step), t # << >>, Shape(t), Len(t) > 1
  PROVE  /\ Shape(Tail(t)) /\ Tail(t) # << >> /\ Tail(t)[Len(Tail(t))] = t[Len(t)]
         /\ ReadShape(t) => ReadShape(Tail(t))
<1> DEFINE u == Tail(t)
           n == Len(t)
<1>1. /\ u \in Seq(Step) /\ Len(u) = n - 1 /\ n \in Nat \ {0, 1} /\ u # << >>
      /\ \A k \in 1 .. n - 1 : u[k] = t[k + 1]
  <2>1. /\ u \in Seq(Step) /\ Len(u) = n - 1 /\ n \in Nat \ {0}
        /\ \A k \in 1 .. n - 1 : u[k] = t[k + 1]
    BY TailIs
  <2>2. n > 1 /\ Len(u) # 0
    BY <2>1
  <2>3. u # << >>
    <3> HIDE DEF u
    <3> QED BY <2>2
  <2> QED BY <2>1, <2>2, <2>3
<1>2. u[Len(u)] = t[n]
  <2> HIDE DEF u, n
  <2>1. n - 1 \in 1 .. n - 1 /\ n - 1 + 1 = n
    BY <1>1
  <2> QED BY <1>1, <2>1
<1> HIDE DEF u
<1>3. CASE ReadShape(t)
  <2>1. n \in 2 .. 6
    <3>1. n \in 1 .. 6
      BY <1>3 DEF ReadShape
    <3> HIDE DEF n
    <3> QED BY <1>1, <3>1
  <2>2. ASSUME NEW k \in 1 .. Len(u) - 1 PROVE u[k].do = Parts[6 - Len(u) + k]
    <3>1. k + 1 \in 1 .. n - 1 /\ k \in 1 .. n - 1 /\ 6 - n + (k + 1) = 6 - Len(u) + k
      BY <1>1, <2>2
    <3>2. t[k + 1].do = Parts[6 - n + (k + 1)]
      BY <1>3, <3>1 DEF ReadShape
    <3> QED BY <1>1, <3>1, <3>2
  <2>3. /\ t[n].do \in {"reply", "send", "end", "room", "pick"}
        /\ t[n].do = "end" => n <= 3
        /\ t[n].do \notin {"room", "pick"}
    BY <1>1, <1>3 DEF ReadShape
  <2>4. ReadShape(u)
    BY <1>1, <1>2, <2>1, <2>2, <2>3 DEF ReadShape
  <2> QED BY <1>1, <1>2, <2>4 DEF Shape, u
<1>4. CASE StartShape(t) /\ ~ReadShape(t)
  <2>1. ASSUME NEW k \in 1 .. Len(u) - 1 PROVE u[k].do \in {"start", "stop", "stream"}
    <3>1. k + 1 \in 1 .. n - 1 /\ k \in 1 .. n - 1
      BY <1>1, <2>1
    <3> QED BY <1>1, <1>4, <3>1 DEF StartShape
  <2>2. StartShape(u)
    BY <1>1, <1>2, <1>4, <2>1 DEF StartShape
  <2> QED BY <1>1, <1>2, <1>4, <2>2 DEF Shape, u
<1>5. CASE ~ReadShape(t) /\ \E i \in Log, v \in Variables, s \in Modes : SetShape(t, i, v, s)
  <2>1. PICK i \in Log, v \in Variables, s \in Modes : SetShape(t, i, v, s)
    BY <1>5
  <2> HIDE DEF n
  <2>2. SetShape(u, i, v, s)
    <3>1. n \in 2 .. 7
      BY <1>1, <2>1 DEF SetShape, n
    <3>2. ASSUME NEW k \in 1 .. Len(u) - 1
          PROVE  u[k] = [do |-> "store", what |-> SetupLogVariable(i, v, s)[7 - Len(u) + k]]
      <4>1. k + 1 \in 1 .. n - 1 /\ k \in 1 .. n - 1 /\ 7 - n + (k + 1) = 7 - Len(u) + k
        BY <1>1, <3>1
      <4>2. t[k + 1] = [do |-> "store", what |-> SetupLogVariable(i, v, s)[7 - n + (k + 1)]]
        BY <2>1, <4>1 DEF SetShape, n
      <4> QED BY <1>1, <4>1, <4>2
    <3>3. t[n].do = "reply"
      BY <2>1 DEF SetShape, n
    <3> QED BY <1>1, <1>2, <3>1, <3>2, <3>3 DEF SetShape
  <2>3. Shape(u)
    BY <2>2 DEF Shape
  <2> QED BY <1>1, <1>2, <1>5, <2>3 DEF u, n
<1> QED BY <1>3, <1>4, <1>5 DEF Shape

(* After a step that is not the last of its command or packet. *)
LEMMA Onwards ==
  ASSUME TodoInv, todo # << >>, todo[1].do \notin {"reply", "room", "pick", "send", "end"}, Then(<< >>)
  PROVE  /\ TodoInv' /\ todo' = Tail(todo) /\ todo' # << >> /\ Final' = Final /\ Len(todo') = Len(todo) - 1
         /\ Len(todo) > 1 /\ Head(todo) = todo[1] /\ todo[1] \in Step
         /\ Reloading' = Reloading
         /\ \A k \in 1 .. Len(todo') : todo'[k] = todo[k + 1] /\ k + 1 \in 1 .. Len(todo)
<1>1. todo \in Seq(Step) /\ Shape(todo)
  BY DEF TodoInv
<1>2. Len(todo) > 1
  BY <1>1, ShapeOfFirst
<1>3. todo' = Tail(todo)
  BY <1>1, TailIs DEF Then
<1>4. /\ Tail(todo) \in Seq(Step) /\ Len(Tail(todo)) = Len(todo) - 1 /\ Len(todo) \in Nat
      /\ Head(todo) = todo[1] /\ todo[1] \in Step
      /\ \A k \in 1 .. Len(todo) - 1 : Tail(todo)[k] = todo[k + 1]
  BY <1>1, TailIs
<1>5. Shape(Tail(todo)) /\ Tail(todo) # << >> /\ Tail(todo)[Len(Tail(todo))] = todo[Len(todo)]
  BY <1>1, <1>2, RestHasShape
<1>6. Final' = Final
  BY <1>3, <1>5 DEF Final
<1>7. TodoInv'
  BY <1>3, <1>4, <1>5 DEF TodoInv
<1>8. \A k \in 1 .. Len(todo) - 1 : k + 1 \in 1 .. Len(todo)
  BY <1>4
<1>9. Reloading' = Reloading
  BY <1>3, <1>5, <1>6 DEF Reloading
<1> QED BY <1>2, <1>3, <1>4, <1>5, <1>6, <1>7, <1>8, <1>9

(* A command, and how its answer ends it. *)
LEMMA WithAnswer ==
  ASSUME NEW S, NEW ops \in Seq(S), NEW r \in S
  PROVE  LET t == ops \o <<r>>
         IN  /\ t \in Seq(S) /\ t # << >> /\ Len(t) = Len(ops) + 1 /\ t[Len(t)] = r /\ Len(ops) \in Nat
             /\ \A k \in 1 .. Len(ops) : t[k] = ops[k]
OBVIOUS

LEMMA CommandBegins ==
  ASSUME NEW comm \in Ask, NEW ops \in Seq(Step), Command(comm, ops),
         LET t == ops \o << [do |-> "reply", comm |-> comm] >> IN t \in Seq(Step) => Shape(t)
  PROVE  /\ TodoInv' /\ todo' # << >> /\ ~Reloading' /\ Final' = "reply"
         /\ Len(todo') = Len(ops) + 1 /\ Len(ops) \in Nat
         /\ todo'[Len(todo')] = [do |-> "reply", comm |-> comm]
         /\ \A k \in 1 .. Len(ops) : todo'[k] = ops[k]
         /\ todo = << >>
<1> DEFINE r == [do |-> "reply", comm |-> comm]
           t == ops \o <<r>>
<1>1. r \in Step
  BY DEF Step
<1>2. todo' = t /\ todo = << >>
  BY DEF Command, Idle
<1>3. r.do = "reply"
  OBVIOUS
<1> HIDE DEF r
<1>4. /\ t \in Seq(Step) /\ t # << >> /\ Len(t) = Len(ops) + 1 /\ t[Len(t)] = r /\ Len(ops) \in Nat
      /\ \A k \in 1 .. Len(ops) : t[k] = ops[k]
  BY <1>1, WithAnswer
<1>5. Shape(t)
  BY <1>4 DEF r
<1> HIDE DEF t
<1>6. TodoInv' /\ Final' = "reply"
  BY <1>2, <1>3, <1>4, <1>5 DEF TodoInv, Final
<1>7. ~Reloading'
  BY <1>6 DEF Reloading
<1> QED BY <1>2, <1>4, <1>6, <1>7 DEF r

LEMMA EachIs ==
  ASSUME NEW op \in {"start", "stop"}
  PROVE  /\ Each(op) \in Seq(Step) /\ Len(Each(op)) = N
         /\ \A k \in 1 .. N : Each(op)[k].do = op
<1>1. N \in Nat /\ \A k \in 1 .. N : k - 1 \in Log
  BY BasicStreamAssumption DEF Log
<1>2. \A k \in 1 .. N : [do |-> op, log |-> k - 1] \in Step
  BY <1>1 DEF Step
<1> QED BY <1>1, <1>2 DEF Each

LEMMA BeginLM ==
  ASSUME NEW comm \in Ask, NEW i \in Log, NEW v \in Variables, NEW s \in Modes, CmdLM(comm, i, v, s)
  PROVE  /\ TodoInv' /\ ~Reloading' /\ todo = << >> /\ Final' = "reply" /\ Len(todo') = 7 /\ todo' # << >>
         /\ \A k \in 1 .. 6 : todo'[k].do = "store"
         /\ todo'[1].what[1] = i
         /\ todo'[Len(todo')] = [do |-> "reply", comm |-> comm]
         /\ \A k \in 1 .. 6 : todo'[k] = [do |-> "store", what |-> SetupLogVariable(i, v, s)[k]]
<1> DEFINE ops == [k \in 1 .. 6 |-> [do |-> "store", what |-> SetupLogVariable(i, v, s)[k]]]
           r == [do |-> "reply", comm |-> comm]
           t == ops \o <<r>>
<1>1. \A k \in 1 .. 6 : [do |-> "store", what |-> SetupLogVariable(i, v, s)[k]] \in Step
  <2>1. \A k \in 1 .. 6 : SetupLogVariable(i, v, s)[k] \in Assignments
    BY DEF Assignments
  <2> QED BY <2>1 DEF Step
<1>2. ops \in Seq(Step) /\ Len(ops) = 6
  BY <1>1
<1>3. \A k \in 1 .. 6 : ops[k] = [do |-> "store", what |-> SetupLogVariable(i, v, s)[k]]
  OBVIOUS
<1>4. Command(comm, ops)
  BY DEF CmdLM
<1> HIDE DEF ops
<1>5. ASSUME t \in Seq(Step) PROVE Shape(t)
  <2>1. r \in Step /\ r.do = "reply"
    BY DEF Step
  <2> HIDE DEF r
  <2>2. Len(t) = 7 /\ t[7] = r /\ \A k \in 1 .. 6 : t[k] = ops[k]
    <3>1. ops \in Seq(Step) /\ r \in Step
      BY <1>2, <2>1
    <3>2. Len(t) = Len(ops) + 1 /\ t[Len(t)] = r /\ \A k \in 1 .. Len(ops) : t[k] = ops[k]
      BY <3>1, WithAnswer
    <3> HIDE DEF t
    <3> QED BY <1>2, <3>2
  <2>3. SetShape(t, i, v, s)
    BY <1>3, <2>1, <2>2 DEF SetShape
  <2> QED BY <2>3 DEF Shape
<1>6. /\ TodoInv' /\ ~Reloading' /\ Final' = "reply" /\ Len(todo') = Len(ops) + 1
      /\ todo'[Len(todo')] = [do |-> "reply", comm |-> comm]
      /\ (\A k \in 1 .. Len(ops) : todo'[k] = ops[k]) /\ todo = << >>
  BY <1>2, <1>4, <1>5, CommandBegins
<1>7. \A k \in 1 .. 6 : ops[k].do = "store"
  <2> TAKE k \in 1 .. 6
  <2> DEFINE w == SetupLogVariable(i, v, s)[k]
  <2>1. ops[k] = [do |-> "store", what |-> w]
    BY <1>3
  <2> HIDE DEF w
  <2> QED BY <2>1
<1>8. todo' # << >> /\ \A k \in 1 .. 6 : todo'[k] = ops[k]
  <2>1. Len(todo') = 7
    BY <1>2, <1>6
  <2>2. todo' # << >>
    BY <2>1
  <2>3. \A k \in 1 .. 6 : todo'[k] = ops[k]
    BY <1>2, <1>6
  <2> QED BY <2>2, <2>3
<1>9. todo'[1].what[1] = i
  <2>1. todo'[1] = [do |-> "store", what |-> SetupLogVariable(i, v, s)[1]]
    BY <1>3, <1>8
  <2>2. SetupLogVariable(i, v, s)[1] = <<i, "InPos", 0>>
    BY DEF SetupLogVariable
  <2> QED BY <2>1, <2>2
<1> QED BY <1>2, <1>3, <1>6, <1>7, <1>8, <1>9

LEMMA BeginStarts ==
  ASSUME NEW comm \in Ask, NEW ops \in Seq(Step), Command(comm, ops),
         \A k \in 1 .. Len(ops) : ops[k].do \in {"start", "stop", "stream"}
  PROVE  /\ TodoInv' /\ ~Reloading' /\ todo = << >> /\ Final' = "reply" /\ todo' # << >>
         /\ Len(todo') = Len(ops) + 1 /\ Len(ops) \in Nat
         /\ todo'[Len(todo')] = [do |-> "reply", comm |-> comm]
         /\ \A k \in 1 .. Len(ops) : todo'[k] = ops[k]
<1> DEFINE r == [do |-> "reply", comm |-> comm]
           t == ops \o <<r>>
<1>1. ASSUME t \in Seq(Step) PROVE Shape(t)
  <2>1. r \in Step /\ r.do = "reply"
    BY DEF Step
  <2> HIDE DEF r
  <2>2. Len(t) = Len(ops) + 1 /\ t[Len(t)] = r /\ Len(ops) \in Nat /\ \A k \in 1 .. Len(ops) : t[k] = ops[k]
    BY <2>1, WithAnswer
  <2> HIDE DEF t
  <2>3. StartShape(t)
    BY <2>1, <2>2 DEF StartShape
  <2> QED BY <2>3 DEF Shape
<1> QED BY <1>1, CommandBegins

LEMMA BeginReading ==
  ASSUME NEW comm \in Ask, NEW ops, Command(comm, ops),
         ops = Reading \/ ops = <<[do |-> "flags"], [do |-> "clear"]>>
  PROVE  /\ TodoInv' /\ ~Reloading' /\ todo = << >> /\ Final' = "reply" /\ todo' # << >>
         /\ todo'[1].do \in {"begin", "flags"}
         /\ \A k \in 1 .. Len(todo') : todo'[k].do \in {"stream", "reply"} => todo'[k] = [do |-> "reply", comm |-> comm]
<1> DEFINE r == [do |-> "reply", comm |-> comm]
           t == ops \o <<r>>
           n == Len(ops)
<1>1. /\ ops \in Seq(Step) /\ n \in {2, 5}
      /\ \A k \in 1 .. n : ops[k].do = Parts[5 - n + k]
  <2>1. \A d \in {"begin", "copy", "release", "flags", "clear"} : [do |-> d] \in Step
    BY DEF Step
  <2>2. CASE ops = Reading
    BY <2>1, <2>2 DEF Reading, Parts
  <2>3. CASE ops = <<[do |-> "flags"], [do |-> "clear"]>>
    BY <2>1, <2>3 DEF Parts
  <2> QED BY <2>2, <2>3
<1>2. r \in Step /\ r.do = "reply"
  BY DEF Step
<1> HIDE DEF r
<1>3. /\ t \in Seq(Step) /\ Len(t) = n + 1 /\ t[Len(t)] = r /\ \A k \in 1 .. n : t[k] = ops[k]
  BY <1>1, <1>2, WithAnswer
<1> HIDE DEF t, n
<1>4. ReadShape(t)
  <2>1. ASSUME NEW k \in 1 .. Len(t) - 1 PROVE t[k].do = Parts[6 - Len(t) + k]
    <3>1. k \in 1 .. n /\ 6 - Len(t) + k = 5 - n + k
      BY <1>1, <1>3
    <3> QED BY <1>1, <1>3, <3>1
  <2>2. Len(t) \in 1 .. 6
    BY <1>1, <1>3
  <2> QED BY <1>2, <1>3, <2>1, <2>2 DEF ReadShape
<1>5. \A k \in 1 .. 5 : Parts[k] \in {"begin", "copy", "release", "flags", "clear"}
  BY DEF Parts
<1>6. t[1].do \in {"begin", "flags"}
  <2>1. t[1].do = Parts[6 - n]
    <3>1. 1 \in 1 .. n /\ 5 - n + 1 = 6 - n
      BY <1>1
    <3> QED BY <1>1, <1>3, <3>1
  <2> QED BY <1>1, <2>1 DEF Parts
<1>7. ASSUME NEW k \in 1 .. Len(t), t[k].do \in {"stream", "reply"} PROVE t[k] = r
  <2>1. CASE k = n + 1
    BY <1>3, <2>1
  <2>2. CASE k \in 1 .. n
    <3>1. 5 - n + k \in 1 .. 5
      BY <1>1, <2>2
    <3>2. t[k].do \in {"begin", "copy", "release", "flags", "clear"}
      BY <1>1, <1>3, <1>5, <2>2, <3>1
    <3> QED BY <1>7, <3>2
  <2> QED BY <1>1, <1>3, <2>1, <2>2
<1>8. Shape(t)
  BY <1>4 DEF Shape
<1>9. todo' = t
  BY DEF Command, t, r
<1>10. Command(comm, ops) /\ ops \in Seq(Step)
  BY <1>1
<1>11. /\ TodoInv' /\ todo' # << >> /\ ~Reloading' /\ Final' = "reply" /\ todo = << >>
  BY <1>8, <1>10, CommandBegins DEF t, r
<1> QED BY <1>6, <1>7, <1>9, <1>11 DEF r

-----------------------------------------------------------------------------
(* The ring of a log. *)
LEMMA ModUp ==
  ASSUME NEW b \in Nat \ {0}, NEW a \in 0 .. 2 * b - 1
  PROVE  a % b = IF a < b THEN a ELSE a - b
<1> DEFINE q == a \div b
           m == a % b
<1>1. m \in 0 .. b - 1 /\ q \in Int /\ a = b * q + m
  OBVIOUS
<1> HIDE DEF q, m
<1>2. q < 2
  <2>1. CASE q >= 2
    <3>1. b * q >= 2 * b
      BY <1>1, <2>1
    <3> QED BY <1>1, <3>1
  <2> QED BY <1>1, <2>1
<1>3. q > -1
  <2>1. CASE q <= -1
    <3>1. b * q <= -b
      BY <1>1, <2>1
    <3> QED BY <1>1, <3>1
  <2> QED BY <1>1, <2>1
<1>4. CASE q = 0
  BY <1>1, <1>4 DEF m
<1>5. CASE q = 1
  BY <1>1, <1>5 DEF m
<1> QED BY <1>1, <1>2, <1>3, <1>4, <1>5

LEMMA PlaceIs ==
  ASSUME NEW o \in Cell, NEW k \in 1 .. LOG_LENGTH
  PROVE  /\ Place(o, k) = IF o + k - 1 < LOG_LENGTH THEN o + k - 1 ELSE (o + k - 1) - LOG_LENGTH
         /\ Place(o, k) \in Cell
<1> DEFINE L == LOG_LENGTH
           a == o + k - 1
<1>1. L \in Nat \ {0} /\ a \in 0 .. 2 * L - 1 /\ o \in 0 .. L - 1
  BY BasicLogAssumption DEF Cell
<1> HIDE DEF L
<1>2. a % L = IF a < L THEN a ELSE a - L
  BY <1>1, ModUp
<1>3. a % L \in 0 .. L - 1
  BY <1>1, <1>2
<1> QED BY <1>2, <1>3, Zenon DEF Place, Cell, L

LEMMA PlacesDiffer ==
  ASSUME NEW o \in Cell, NEW k \in 1 .. LOG_LENGTH, NEW m \in 1 .. LOG_LENGTH, Place(o, k) = Place(o, m)
  PROVE  k = m
<1> DEFINE L == LOG_LENGTH
<1>1. L \in Nat \ {0} /\ o \in 0 .. L - 1 /\ k \in 1 .. L /\ m \in 1 .. L
  BY BasicLogAssumption DEF Cell
<1>2. /\ Place(o, k) = IF o + k - 1 < L THEN o + k - 1 ELSE (o + k - 1) - L
      /\ Place(o, m) = IF o + m - 1 < L THEN o + m - 1 ELSE (o + m - 1) - L
  BY PlaceIs
<1> DEFINE p == Place(o, k)
<1>3. /\ p = IF o + k - 1 < L THEN o + k - 1 ELSE (o + k - 1) - L
      /\ p = IF o + m - 1 < L THEN o + m - 1 ELSE (o + m - 1) - L
  BY <1>2
<1> HIDE DEF L, p
<1>4. CASE o + k - 1 < L
  BY <1>1, <1>3, <1>4
<1>5. CASE ~(o + k - 1 < L)
  BY <1>1, <1>3, <1>5
<1> QED BY <1>4, <1>5

LEMMA PlaceFrom ==
  ASSUME NEW o \in Cell, NEW n \in 0 .. LOG_LENGTH - 1, NEW k \in 1 .. LOG_LENGTH, n + k <= LOG_LENGTH
  PROVE  /\ (o + n) % LOG_LENGTH = Place(o, n + 1)
         /\ Place(Place(o, n + 1), k) = Place(o, n + k)
<1> DEFINE L == LOG_LENGTH
           p == Place(o, n + 1)
<1>1. L \in Nat \ {0} /\ o \in 0 .. L - 1 /\ n \in 0 .. L - 1 /\ k \in 1 .. L /\ n + k <= L
  BY BasicLogAssumption DEF Cell
<1>2. o + (n + 1) - 1 = o + n
  BY <1>1
<1>3. n + 1 \in 1 .. L /\ n + k \in 1 .. L
  BY <1>1
<1>4. /\ p = IF o + (n + 1) - 1 < L THEN o + (n + 1) - 1 ELSE (o + (n + 1) - 1) - L
      /\ p \in Cell
  BY <1>3, PlaceIs
<1>5. Place(o, n + k) = IF o + (n + k) - 1 < L THEN o + (n + k) - 1 ELSE (o + (n + k) - 1) - L
  BY <1>3, PlaceIs
<1> HIDE DEF p
<1>6. Place(p, k) = IF p + k - 1 < L THEN p + k - 1 ELSE (p + k - 1) - L
  BY <1>4, PlaceIs
<1>7. Place(p, k) = Place(o, n + k)
  <2>1. p \in Int
    BY <1>4 DEF Cell
  <2> HIDE DEF L
  <2> QED BY <1>1, <1>4, <1>5, <1>6, <2>1
<1> QED BY <1>2, <1>7 DEF p, Place

LEMMA AvailIs ==
  ASSUME NEW log \in LogType
  PROVE  /\ LogDataAvail(log) \in 0 .. LOG_LENGTH - 1 /\ LOG_LENGTH \in Nat
         /\ log.InPos = Place(log.OutPos, LogDataAvail(log) + 1)
         /\ LogInputSpaceAvail(log) = LOG_LENGTH - 1 - LogDataAvail(log)
         /\ log.InPos \in Cell /\ log.OutPos \in Cell
<1> DEFINE L == LOG_LENGTH
           i == log.InPos
           o == log.OutPos
           a == LogDataAvail(log)
<1>1. L \in Nat \ {0, 1} /\ i \in 0 .. L - 1 /\ o \in 0 .. L - 1 /\ i \in Cell /\ o \in Cell
  BY BasicLogAssumption DEF LogType, Cell
<1>2. /\ a = IF i >= o THEN i - o ELSE L - (o - i)
      /\ LogInputSpaceAvail(log) = IF o > i THEN o - i - 1 ELSE L - (i - o) - 1
  BY DEF LogDataAvail, LogInputSpaceAvail
<1> HIDE DEF a, L, i, o
<1>3. a \in 0 .. L - 1 /\ a + 1 \in 1 .. L
  BY <1>1, <1>2
<1>4. Place(o, a + 1) = IF o + (a + 1) - 1 < L THEN o + (a + 1) - 1 ELSE (o + (a + 1) - 1) - L
  BY <1>1, <1>3, PlaceIs DEF L
<1>5. i = Place(o, a + 1)
  BY <1>1, <1>2, <1>3, <1>4
<1>6. LogInputSpaceAvail(log) = L - 1 - a
  BY <1>1, <1>2
<1> QED BY <1>1, <1>3, <1>5, <1>6 DEF a, L, i, o

(* As many samples wait as bring one from OutPos to InPos. *)
LEMMA AvailFrom ==
  ASSUME NEW log \in LogType, NEW n \in 0 .. LOG_LENGTH - 1, log.InPos = Place(log.OutPos, n + 1)
  PROVE  LogDataAvail(log) = n
<1> DEFINE a == LogDataAvail(log)
<1>1. a \in 0 .. LOG_LENGTH - 1 /\ LOG_LENGTH \in Nat /\ log.InPos = Place(log.OutPos, a + 1) /\ log.OutPos \in Cell
  BY AvailIs
<1> HIDE DEF a
<1>2. n + 1 \in 1 .. LOG_LENGTH /\ a + 1 \in 1 .. LOG_LENGTH
  BY <1>1
<1>3. a + 1 = n + 1
  BY <1>1, <1>2, PlacesDiffer
<1> QED BY <1>1, <1>3 DEF a

(* A sample is put behind those that wait. *)
LEMMA SampledIs ==
  ASSUME NEW log \in LogType, NEW now \in Nat, LogInputSpaceAvail(log) > 0
  PROVE  LET new == Sampled(log, now)
             n == LogDataAvail(log)
         IN  /\ new \in LogType /\ LogDataAvail(new) = n + 1 /\ n + 1 <= LOG_LENGTH - 1
             /\ new.OutPos = log.OutPos /\ new.Settings = log.Settings /\ new.Flags = log.Flags
             /\ new.VarToLog = log.VarToLog /\ new.LogStatus = log.LogStatus
             /\ \A k \in 1 .. n : Kth(new, k) = Kth(log, k)
             /\ Kth(new, n + 1) = [var |-> log.VarToLog, at |-> now]
<1> DEFINE new == Sampled(log, now)
           n == LogDataAvail(log)
           e == [var |-> log.VarToLog, at |-> now]
           next == (log.InPos + 1) % LOG_LENGTH
<1>1. /\ n \in 0 .. LOG_LENGTH - 1 /\ LOG_LENGTH \in Nat /\ log.InPos = Place(log.OutPos, n + 1)
      /\ LogInputSpaceAvail(log) = LOG_LENGTH - 1 - n /\ log.InPos \in Cell /\ log.OutPos \in Cell
  BY AvailIs
<1> HIDE DEF n
<1>2. n + 1 <= LOG_LENGTH - 1 /\ LOG_LENGTH > 1 /\ n + 1 \in 0 .. LOG_LENGTH - 1
  BY <1>1
<1>3. next = Place(log.OutPos, n + 2) /\ next \in Cell
  <2>1. /\ (log.InPos + 1) % LOG_LENGTH = Place(log.InPos, 2)
        /\ Place(log.InPos, 2) \in Cell
    <3>1. 1 \in 0 .. LOG_LENGTH - 1 /\ 1 \in 1 .. LOG_LENGTH /\ 1 + 1 <= LOG_LENGTH /\ 2 \in 1 .. LOG_LENGTH /\ 1 + 1 = 2
      BY <1>1, <1>2
    <3>2. (log.InPos + 1) % LOG_LENGTH = Place(log.InPos, 1 + 1)
      BY <1>1, <3>1, PlaceFrom
    <3> QED BY <1>1, <3>1, <3>2, PlaceIs
  <2>2. 2 \in 1 .. LOG_LENGTH /\ n + 2 <= LOG_LENGTH
    BY <1>1, <1>2
  <2>3. Place(Place(log.OutPos, n + 1), 2) = Place(log.OutPos, n + 2)
    BY <1>1, <2>2, PlaceFrom
  <2> QED BY <1>1, <2>1, <2>3
<1> HIDE DEF next
<1>4. /\ new = [log EXCEPT !.LogEntry = [log.LogEntry EXCEPT ![log.InPos] = e], !.InPos = next]
      /\ e \in Sample
  BY DEF Sampled, next, Sample, LogType
<1> HIDE DEF new, e
<1>5. /\ new \in LogType /\ new.InPos = next
      /\ new.OutPos = log.OutPos /\ new.Settings = log.Settings /\ new.Flags = log.Flags
      /\ new.VarToLog = log.VarToLog /\ new.LogStatus = log.LogStatus
      /\ new.LogEntry = [log.LogEntry EXCEPT ![log.InPos] = e]
      /\ log.LogEntry \in [Cell -> Sample]
  BY <1>1, <1>3, <1>4 DEF LogType
<1>6. LogDataAvail(new) = n + 1
  <2>1. new.InPos = Place(new.OutPos, (n + 1) + 1)
    BY <1>1, <1>3, <1>5
  <2> QED BY <1>2, <1>5, <2>1, AvailFrom
<1>7. ASSUME NEW k \in 1 .. n PROVE Kth(new, k) = Kth(log, k)
  <2>1. k \in 1 .. LOG_LENGTH /\ n + 1 \in 1 .. LOG_LENGTH /\ k # n + 1
    BY <1>1
  <2>2. Place(log.OutPos, k) # log.InPos /\ Place(log.OutPos, k) \in Cell
    BY <1>1, <2>1, PlacesDiffer, PlaceIs
  <2> QED BY <1>5, <2>2 DEF Kth
<1>8. Kth(new, n + 1) = e
  BY <1>1, <1>5 DEF Kth
<1> QED BY <1>2, <1>5, <1>6, <1>7, <1>8 DEF new, n, e

(* What the interrupt does to a log. *)
LEMMA DoLoggingIs ==
  ASSUME NEW log \in LogType, NEW now \in Nat
  PROVE  LET new == DoLogging(log, now)
             n == LogDataAvail(log)
         IN  /\ new \in LogType /\ LogDataAvail(new) \in {n, n + 1} /\ n \in Nat
             /\ new.OutPos = log.OutPos /\ new.Settings = log.Settings /\ new.VarToLog = log.VarToLog
             /\ \A k \in 1 .. n : Kth(new, k) = Kth(log, k)
             /\ log.LogStatus # "logging" => new = log
             /\ \/ new = log /\ (log.LogStatus # "logging" \/ PREVENT_OVERRUN \in log.Settings)
                \/ /\ log.LogStatus = "logging" /\ LogDataAvail(new) = n + 1
                   /\ new.Flags = log.Flags /\ new.LogStatus = log.LogStatus
                   /\ Kth(new, n + 1) = [var |-> log.VarToLog, at |-> now]
                \/ /\ log.LogStatus = "logging" /\ LogDataAvail(new) = n /\ n = LOG_LENGTH - 1
                   /\ \/ new.LogStatus = "done" /\ new.Flags = log.Flags
                      \/ new.LogStatus = log.LogStatus /\ new.Flags
<1> DEFINE new == DoLogging(log, now)
           n == LogDataAvail(log)
<1>1. /\ n \in 0 .. LOG_LENGTH - 1 /\ LOG_LENGTH \in Nat
      /\ LogInputSpaceAvail(log) = LOG_LENGTH - 1 - n
  BY AvailIs
<1>2. CASE log.LogStatus # "logging"
  BY <1>1, <1>2 DEF DoLogging
<1>3. CASE log.LogStatus = "logging" /\ LogInputSpaceAvail(log) > 0
  <2>1. new = Sampled(log, now)
    BY <1>3 DEF DoLogging
  <2> HIDE DEF new
  <2> QED BY <1>1, <1>3, <2>1, SampledIs DEF new
<1>4. CASE log.LogStatus = "logging" /\ ~(LogInputSpaceAvail(log) > 0)
  <2>1. n = LOG_LENGTH - 1
    BY <1>1, <1>4
  <2>2. \/ new = [log EXCEPT !.LogStatus = "done"]
        \/ new = [log EXCEPT !.Flags = TRUE]
        \/ new = log /\ PREVENT_OVERRUN \in log.Settings
    BY <1>4 DEF DoLogging
  <2> HIDE DEF new
  <2>3. /\ new \in LogType /\ new.OutPos = log.OutPos /\ new.InPos = log.InPos /\ new.LogEntry = log.LogEntry
        /\ new.Settings = log.Settings /\ new.VarToLog = log.VarToLog
        /\ \/ new.LogStatus = "done" /\ new.Flags = log.Flags
           \/ new.LogStatus = log.LogStatus /\ new.Flags
           \/ new = log /\ PREVENT_OVERRUN \in log.Settings
    BY <1>4, <2>2 DEF LogType
  <2>4. LogDataAvail(new) = n /\ \A k \in 1 .. n : Kth(new, k) = Kth(log, k)
    BY <2>3 DEF LogDataAvail, Kth
  <2> QED BY <1>1, <1>4, <2>1, <2>3, <2>4 DEF new
<1> QED BY <1>2, <1>3, <1>4

-----------------------------------------------------------------------------
(***************************************************************************)
(* BaseInv, which has the shape of todo, the types and what a read holds:  *)
(* it is of samples that wait, and they stay where they are until they are *)
(* released, as the interrupt writes only behind them.                     *)
(***************************************************************************)

(* The next step of the main loop, when it is not the last of its command. *)
LEMMA NextOp ==
  ASSUME TodoInv, todo # << >>, todo[1].do \notin {"reply", "room", "pick", "send", "end"}, Then(<< >>)
  PROVE  /\ Under("begin") => Under("copy")' /\ Len(todo) = 6
         /\ Under("copy") => Under("release")' /\ Len(todo) = 5
         /\ Under("release") => Under("flags")' /\ Len(todo) = 4
         /\ Under("flags") => Under("clear")' /\ Len(todo) = 3
         /\ Under("clear") => todo'[1].do = Final /\ Len(todo) = 2
         /\ todo[1].do \in {"store", "start", "stop", "stream"} =>
              /\ Final = "reply" /\ todo'[1].do \in {"store", "start", "stop", "stream", "reply"}
         /\ todo[1].do = "store" => todo'[1].do \in {"store", "reply"}
         /\ todo[1].do \in {"start", "stop", "stream"} => todo'[1].do \in {"start", "stop", "stream", "reply"}
<1>1. /\ todo' = Tail(todo) /\ todo' # << >> /\ Len(todo') = Len(todo) - 1 /\ Len(todo) > 1
      /\ \A k \in 1 .. Len(todo') : todo'[k] = todo[k + 1] /\ k + 1 \in 1 .. Len(todo)
      /\ Final' = Final
  BY Onwards
<1>2. todo \in Seq(Step) /\ Shape(todo) /\ Len(todo) \in Nat
  BY DEF TodoInv
<1>3. todo'[1] = todo[2] /\ 1 \in 1 .. Len(todo) - 1
  <2>1. 1 \in 1 .. Len(todo') /\ 1 + 1 = 2
    BY <1>1, <1>2
  <2> QED BY <1>1, <1>2, <2>1
<1>4. CASE ReadShape(todo)
  <2> DEFINE n == Len(todo)
  <2>1. n \in 2 .. 6 /\ todo[1].do = Parts[7 - n]
    <3>1. n \in 1 .. 6 /\ todo[1].do = Parts[6 - n + 1]
      BY <1>3, <1>4 DEF ReadShape
    <3>2. n > 1
      BY <1>1
    <3> HIDE DEF n
    <3>3. 6 - n + 1 = 7 - n /\ n \in 2 .. 6
      BY <3>1, <3>2
    <3> QED BY <3>1, <3>3
  <2>2. n > 2 => todo[2].do = Parts[8 - n]
    <3>1. ASSUME n > 2 PROVE 2 \in 1 .. n - 1 /\ 6 - n + 2 = 8 - n
      BY <1>2, <3>1
    <3> QED BY <1>4, <3>1 DEF ReadShape
  <2>3. n = 2 => todo[2] = todo[n]
    OBVIOUS
  <2>4. /\ Parts[1] = "begin" /\ Parts[2] = "copy" /\ Parts[3] = "release" /\ Parts[4] = "flags" /\ Parts[5] = "clear"
    BY DEF Parts
  <2> HIDE DEF n
  <2>5. CASE n = 6
    BY <1>1, <1>3, <2>1, <2>2, <2>4, <2>5 DEF Under, n
  <2>6. CASE n = 5
    BY <1>1, <1>3, <2>1, <2>2, <2>4, <2>6 DEF Under, n
  <2>7. CASE n = 4
    BY <1>1, <1>3, <2>1, <2>2, <2>4, <2>7 DEF Under, n
  <2>8. CASE n = 3
    BY <1>1, <1>3, <2>1, <2>2, <2>4, <2>8 DEF Under, n
  <2>9. CASE n = 2
    BY <1>1, <1>3, <2>1, <2>3, <2>4, <2>9 DEF Under, n, Final
  <2> QED BY <2>1, <2>5, <2>6, <2>7, <2>8, <2>9
<1>5. CASE StartShape(todo)
  <2>1. todo[1].do \in {"start", "stop", "stream"} /\ Final = "reply"
    BY <1>3, <1>5 DEF StartShape, Final
  <2>2. todo[2].do \in {"start", "stop", "stream", "reply"}
    <3>1. Len(todo) = 2 \/ 2 \in 1 .. Len(todo) - 1
      BY <1>1, <1>2
    <3> QED BY <1>5, <3>1 DEF StartShape
  <2> QED BY <1>3, <2>1, <2>2 DEF Under
<1>6. CASE \E i \in Log, v \in Variables, s \in Modes : SetShape(todo, i, v, s)
  <2>1. PICK i \in Log, v \in Variables, s \in Modes : SetShape(todo, i, v, s)
    BY <1>6
  <2>2. Final = "reply"
    BY <2>1 DEF SetShape, Final
  <2>3. ASSUME NEW k \in 1 .. Len(todo) - 1 PROVE todo[k].do = "store"
    <3>1. todo[k] = [do |-> "store", what |-> SetupLogVariable(i, v, s)[7 - Len(todo) + k]]
      BY <2>1, Zenon DEF SetShape
    <3> DEFINE w == SetupLogVariable(i, v, s)[7 - Len(todo) + k]
    <3>2. todo[k] = [do |-> "store", what |-> w]
      BY <3>1
    <3> HIDE DEF w
    <3> QED BY <3>2
  <2>4. todo[1].do = "store"
    BY <1>3, <2>3
  <2>5. todo[2].do \in {"store", "reply"}
    <3>1. Len(todo) = 2 \/ 2 \in 1 .. Len(todo) - 1
      BY <1>1, <1>2
    <3>2. todo[Len(todo)].do = "reply"
      BY <2>1 DEF SetShape
    <3> QED BY <2>3, <3>1, <3>2
  <2> QED BY <1>3, <2>2, <2>4, <2>5 DEF Under
<1> QED BY <1>2, <1>4, <1>5, <1>6 DEF Shape

(* The sequences that the actions write. *)
LEMMA ShapesWritten ==
  \A t \in {<< >>, Reload, <<[do |-> "pick"]>>, <<[do |-> "end"]>>, <<[do |-> "flags"], [do |-> "clear"], [do |-> "end"]>>,
            Reading \o <<[do |-> "send"]>>} :
    /\ t \in Seq(Step) /\ Shape(t)
    /\ t # << >> => t[Len(t)].do \in {"room", "pick", "end", "send"}
    /\ \A k \in 1 .. Len(t) : t[k].do \notin {"stream", "reply"}
<1>1. \A d \in {"begin", "copy", "release", "flags", "clear", "room", "pick", "send", "end"} : [do |-> d] \in Step
  BY DEF Step
<1>2. \A t : t = << >> => t \in Seq(Step) /\ Shape(t) /\ (\A k \in 1 .. Len(t) : t[k].do \notin {"stream", "reply"})
  BY DEF Shape
<1>3. ASSUME NEW t, t \in {Reload, <<[do |-> "pick"]>>, <<[do |-> "end"]>>}
      PROVE  /\ t \in Seq(Step) /\ Shape(t) /\ t[Len(t)].do \in {"room", "pick", "end", "send"}
             /\ \A k \in 1 .. Len(t) : t[k].do \notin {"stream", "reply"}
  <2>1. PICK d \in {"room", "pick", "end"} : t = <<[do |-> d]>>
    BY <1>3 DEF Reload
  <2>2. t \in Seq(Step) /\ Len(t) = 1 /\ t[1].do = d
    BY <1>1, <2>1
  <2> HIDE <1>3, <2>1
  <2>3. ReadShape(t)
    BY <2>2 DEF ReadShape
  <2> QED BY <2>2, <2>3 DEF Shape
<1>4. ASSUME NEW t, t = <<[do |-> "flags"], [do |-> "clear"], [do |-> "end"]>>
      PROVE  /\ t \in Seq(Step) /\ Shape(t) /\ t[Len(t)].do = "end"
             /\ \A k \in 1 .. Len(t) : t[k].do \notin {"stream", "reply"}
  <2>1. t \in Seq(Step) /\ Len(t) = 3 /\ t[1].do = "flags" /\ t[2].do = "clear" /\ t[3].do = "end"
    BY <1>1, <1>4
  <2>2. ReadShape(t)
    BY <2>1 DEF ReadShape, Parts
  <2>3. \A k \in 1 .. Len(t) : t[k].do \notin {"stream", "reply"}
    BY <2>1
  <2> QED BY <2>1, <2>2, <2>3 DEF Shape
<1>5. ASSUME NEW t, t = Reading \o <<[do |-> "send"]>>
      PROVE  /\ t \in Seq(Step) /\ Shape(t) /\ t[Len(t)].do = "send"
             /\ \A k \in 1 .. Len(t) : t[k].do \notin {"stream", "reply"}
  <2>1. /\ Reading \in Seq(Step) /\ Len(Reading) = 5 /\ Reading[1].do = "begin" /\ Reading[2].do = "copy"
        /\ Reading[3].do = "release" /\ Reading[4].do = "flags" /\ Reading[5].do = "clear"
    BY <1>1 DEF Reading
  <2>2. /\ t \in Seq(Step) /\ Len(t) = 6 /\ t[1].do = "begin" /\ t[2].do = "copy" /\ t[3].do = "release"
        /\ t[4].do = "flags" /\ t[5].do = "clear" /\ t[6].do = "send"
    <3> DEFINE r == [do |-> "send"]
    <3>1. r \in Step /\ r.do = "send"
      BY <1>1
    <3> HIDE DEF r
    <3>2. t = Reading \o <<r>>
      BY <1>5 DEF r
    <3> HIDE <1>5
    <3>3. t \in Seq(Step) /\ Len(t) = 6 /\ t[6] = r /\ \A k \in 1 .. 5 : t[k] = Reading[k]
      <4> DEFINE ops == Reading
      <4>1. ops \in Seq(Step)
        BY <2>1
      <4>5. r \in Step
        BY <3>1
      <4>6. Len(ops) = 5
        BY <2>1
      <4> HIDE DEF ops
      <4> DEFINE u == ops \o <<r>>
      <4>2. u \in Seq(Step) /\ Len(u) = Len(ops) + 1 /\ u[Len(u)] = r /\ \A k \in 1 .. Len(ops) : u[k] = ops[k]
        BY <4>1, <4>5, WithAnswer
      <4>3. t = u
        BY <3>2 DEF ops
      <4> HIDE DEF u
      <4> QED BY <4>2, <4>3, <4>6 DEF ops
    <3> QED BY <2>1, <3>1, <3>3
  <2>3. ReadShape(t)
    BY <2>2 DEF ReadShape, Parts
  <2>4. \A k \in 1 .. Len(t) : t[k].do \notin {"stream", "reply"}
    BY <2>2
  <2> QED BY <2>2, <2>3, <2>4 DEF Shape
<1> QED BY <1>2, <1>3, <1>4, <1>5

-----------------------------------------------------------------------------
(* A set of naturals has a least one. *)
LEMMA Least ==
  ASSUME NEW T \in SUBSET Nat, T # {} PROVE \E x \in T : \A y \in T : x <= y
<1> DEFINE R == OpToRel(<, Nat)
<1>1. IsWellFoundedOn(R, Nat)
  BY NatLessThanWellFounded
<1>2. \A a, b \in Nat : a < b => <<a, b>> \in R
  BY DEF OpToRel
<1> HIDE DEF R
<1>3. PICK x \in T : \A y \in T : ~(<<y, x>> \in R)
  BY <1>1, WFMin
<1>4. ASSUME NEW y \in T PROVE x <= y
  <2>1. x \in Nat /\ y \in Nat /\ ~(<<y, x>> \in R)
    BY <1>3
  <2>2. ~(y < x)
    BY <1>2, <2>1
  <2> QED BY <2>1, <2>2
<1> QED BY <1>4

LEMMA MostFullIs ==
  ASSUME logs \in [Log -> LogType]
  PROVE  MostFull \in Log /\ \A j \in Log : Waiting(j) <= Waiting(MostFull)
<1>1. \A j \in Log : Waiting(j) \in 0 .. LOG_LENGTH - 1 /\ LOG_LENGTH \in Nat
  BY AvailIs DEF Waiting
<1>2. 0 \in Log /\ Log \subseteq Nat /\ \A i \in Log : 0 .. i - 1 \subseteq Log
  BY BasicStreamAssumption DEF Log
<1> DEFINE T == {LOG_LENGTH - Waiting(j) : j \in Log}
<1>3. T \in SUBSET Nat /\ T # {}
  BY <1>1, <1>2
<1>4. PICK x \in T : \A y \in T : x <= y
  <2> HIDE DEF T
  <2> QED BY <1>3, Least
<1> DEFINE J == {j \in Log : LOG_LENGTH - Waiting(j) = x}
<1>5. J \in SUBSET Nat /\ J # {}
  BY <1>2, <1>4
<1>6. PICK i \in J : \A j \in J : i <= j
  <2> HIDE DEF J
  <2> QED BY <1>5, Least
<1>7. i \in Log /\ LOG_LENGTH - Waiting(i) = x
  BY <1>6
<1>8. \A j \in Log : Waiting(j) <= Waiting(i)
  <2> TAKE j \in Log
  <2>1. x <= LOG_LENGTH - Waiting(j)
    BY <1>4
  <2> HIDE DEF T, J, Waiting
  <2> QED BY <1>1, <1>7, <2>1
<1>9. \A j \in 0 .. i - 1 : Waiting(j) < Waiting(i)
  <2> TAKE j \in 0 .. i - 1
  <2>1. j \in Log /\ ~(i <= j)
    BY <1>2, <1>7
  <2>2. LOG_LENGTH - Waiting(j) # x
    BY <1>6, <2>1
  <2>3. Waiting(j) <= Waiting(i)
    BY <1>8, <2>1
  <2> HIDE DEF T, J, Waiting
  <2> QED BY <1>1, <1>7, <2>1, <2>2, <2>3
<1>10. \E k \in Log : (\A j \in Log : LogDataAvail(logs[j]) <= LogDataAvail(logs[k]))
                      /\ (\A j \in 0 .. k - 1 : LogDataAvail(logs[j]) < LogDataAvail(logs[k]))
  BY <1>7, <1>8, <1>9 DEF Waiting
<1> HIDE DEF T, J
<1> QED BY <1>10, Zenon DEF MostFull, Waiting

(* A read ends that many samples further. *)
LEMMA OutPosNextIs ==
  ASSUME NEW log \in LogType, NEW n \in 0 .. LogDataAvail(log)
  PROVE  /\ OutPosNext(log.OutPos, log.InPos, n) = (log.OutPos + n) % LOG_LENGTH
         /\ (log.OutPos + n) % LOG_LENGTH = Place(log.OutPos, n + 1)
         /\ Place(log.OutPos, n + 1) \in Cell
<1> DEFINE L == LOG_LENGTH
           i == log.InPos
           o == log.OutPos
           a == LogDataAvail(log)
<1>1. L \in Nat \ {0, 1} /\ i \in 0 .. L - 1 /\ o \in 0 .. L - 1 /\ o \in Cell
  BY BasicLogAssumption DEF LogType, Cell
<1>2. a = IF i >= o THEN i - o ELSE L - (o - i)
  BY DEF LogDataAvail
<1>3. OutPosNext(o, i, n) = IF o + n < L THEN o + n ELSE IF o > i THEN n - (L - o) ELSE o
  BY DEF OutPosNext
<1>4. n \in 0 .. a
  OBVIOUS
<1> HIDE DEF a, i, o
<1>5. a \in 0 .. L - 1 /\ n \in 0 .. L - 1 /\ n + 1 \in 1 .. L
  BY <1>1, <1>2, <1>4
<1>6. (o + n) % L = Place(o, n + 1)
  <2>1. o + (n + 1) - 1 = o + n
    BY <1>1, <1>5
  <2> QED BY <2>1 DEF Place
<1>7. /\ Place(o, n + 1) = IF o + (n + 1) - 1 < L THEN o + (n + 1) - 1 ELSE (o + (n + 1) - 1) - L
      /\ Place(o, n + 1) \in Cell
  BY <1>1, <1>5, PlaceIs
<1>8. OutPosNext(o, i, n) = Place(o, n + 1)
  <2> HIDE DEF L
  <2> QED BY <1>1, <1>2, <1>3, <1>4, <1>5, <1>7
<1> QED BY <1>6, <1>7, <1>8 DEF o, i, a

LEMMA CopiedIs ==
  ASSUME NEW log \in LogType, NEW n \in 0 .. LogDataAvail(log)
  PROVE  /\ Copied(log, log.OutPos, n) \in Seq(Sample) /\ Len(Copied(log, log.OutPos, n)) = n
         /\ Copied(log, log.OutPos, n) = [k \in 1 .. n |-> Kth(log, k)]
<1>1. LogDataAvail(log) \in 0 .. LOG_LENGTH - 1 /\ LOG_LENGTH \in Nat /\ log.OutPos \in Cell
  BY AvailIs
<1>2. n \in Nat /\ \A k \in 1 .. n : k \in 1 .. LOG_LENGTH
  BY <1>1
<1>3. \A k \in 1 .. n : Kth(log, k) \in Sample
  <2> TAKE k \in 1 .. n
  <2>1. Place(log.OutPos, k) \in Cell
    BY <1>1, <1>2, PlaceIs
  <2> QED BY <2>1 DEF Kth, LogType
<1>4. Copied(log, log.OutPos, n) = [k \in 1 .. n |-> Kth(log, k)]
  BY DEF Copied, Kth, Place
<1> DEFINE c == Copied(log, log.OutPos, n)
<1>5. c = [k \in 1 .. n |-> Kth(log, k)]
  BY <1>4
<1> HIDE DEF c
<1>6. c \in Seq(Sample) /\ Len(c) = n
  BY <1>2, <1>3, <1>5
<1> QED BY <1>4, <1>6 DEF c

LEMMA StepIs ==
  \A e \in Step :
    /\ e.do \in {"stream", "reply"} => e.comm \in Ask
    /\ e.do \in {"start", "stop"} => e.log \in Log
BY DEF Step

LEMMA FirstIs ==
  ASSUME TodoInv, todo # << >>
  PROVE  /\ Head(todo) = todo[1] /\ todo[1] \in Step /\ Len(todo) \in Nat \ {0}
         /\ \A op : Do(op) <=> todo[1].do = op
         /\ todo[1].do \in {"reply", "room", "pick", "send", "end"} => Len(todo) = 1 /\ Final = todo[1].do
         /\ todo[1].do \notin {"reply", "room", "pick", "send", "end"} => Len(todo) > 1
<1>1. /\ Head(todo) = todo[1] /\ todo[1] \in Step /\ Len(todo) \in Nat \ {0}
  BY TailIs DEF TodoInv
<1>2. /\ todo[1].do \in {"reply", "room", "pick", "send", "end"} => Len(todo) = 1
      /\ todo[1].do \notin {"reply", "room", "pick", "send", "end"} => Len(todo) > 1
  BY ShapeOfFirst DEF TodoInv
<1>3. todo[1].do \in {"reply", "room", "pick", "send", "end"} => Final = todo[1].do
  BY <1>2 DEF Final
<1>4. \A op : Do(op) <=> todo[1].do = op
  BY <1>1 DEF Do
<1> QED BY <1>1, <1>2, <1>3, <1>4

(* Nothing is being read. *)
LEMMA NotReading ==
  ASSUME ~Under("copy"), ~Under("release"), ~Reloading PROVE ReadInv
BY DEF ReadInv, Held, Sending, Reloading

LEMMA AppendFirst ==
  ASSUME NEW S, NEW ops \in Seq(S), NEW r \in S, ops # << >>
  PROVE  (ops \o <<r>>)[1] = ops[1] /\ ops \o <<r>> # << >>
OBVIOUS

LEMMA WrittenIs ==
  ASSUME NEW t \in {<< >>, Reload, <<[do |-> "pick"]>>, <<[do |-> "end"]>>,
                    <<[do |-> "flags"], [do |-> "clear"], [do |-> "end"]>>, Reading \o <<[do |-> "send"]>>},
         todo' = t
  PROVE  /\ TodoInv' /\ (todo' = << >> <=> t = << >>)
         /\ ~Under("copy")' /\ ~Under("release")' /\ ~Held'
         /\ todo' # << >> => Reloading'
         /\ \A k \in 1 .. Len(todo') : todo'[k].do \notin {"stream", "reply"}
<1>1. TodoInv' /\ (\A k \in 1 .. Len(todo') : todo'[k].do \notin {"stream", "reply"})
  BY ShapesWritten DEF TodoInv
<1>2. todo' # << >> => Reloading'
  BY ShapesWritten DEF Reloading, Final
<1>3. CASE t = << >>
  BY <1>1, <1>2, <1>3 DEF Under, Held, Sending
<1>4. CASE t = Reload
  BY <1>1, <1>2, <1>4 DEF Under, Held, Sending, Reload, Final
<1>5. CASE t \in {<<[do |-> "pick"]>>, <<[do |-> "end"]>>}
  BY <1>1, <1>2, <1>5 DEF Under, Held, Sending, Final
<1>6. CASE t = <<[do |-> "flags"], [do |-> "clear"], [do |-> "end"]>>
  BY <1>1, <1>2, <1>6 DEF Under, Held, Sending, Final
<1>7. CASE t = Reading \o <<[do |-> "send"]>>
  <2>1. t # << >> /\ t[1].do = "begin"
    <3>1. Reading[1].do = "begin" /\ Len(Reading) = 5 /\ Reading \in Seq(Step)
      <4>1. \A d \in {"begin", "copy", "release", "flags", "clear", "room", "pick", "send", "end"} : [do |-> d] \in Step
        BY DEF Step
      <4> QED BY <4>1 DEF Reading
    <3>2. Reading # << >>
      BY DEF Reading
    <3>3. [do |-> "send"] \in Step
      BY DEF Step
    <3>4. Reading \in Seq(Step)
      BY <3>1
    <3>5. (Reading \o <<[do |-> "send"]>>)[1] = Reading[1] /\ Reading \o <<[do |-> "send"]>> # << >>
      BY <3>2, <3>3, <3>4, AppendFirst
    <3> QED BY <1>7, <3>1, <3>5
  <2> QED BY <1>1, <1>2, <2>1 DEF Under, Held
<1> QED BY <1>3, <1>4, <1>5, <1>6, <1>7

LEMMA BaseInit == StreamInit => BaseInv
<1> SUFFICES ASSUME StreamInit PROVE BaseInv
  OBVIOUS
<1>1. todo = << >> /\ TodoInv
  BY ShapesWritten DEF StreamInit, TodoInv
<1>2. ReadInv
  BY <1>1, NotReading DEF Under, Reloading
<1>3. StreamTyped
  <2>1. NoSample \in Sample /\ EmptyLog \in LogType
    <3>1. 0 \in Cell
      BY BasicLogAssumption DEF Cell
    <3> QED BY <3>1 DEF NoSample, Sample, EmptyLog, LogType
  <2>2. Unheard \in Hears
    BY <2>1 DEF Unheard, Hears
  <2>3. 0 \in Log /\ 0 \in Cell
    BY BasicStreamAssumption, BasicLogAssumption DEF Log, Cell
  <2>4. logs \in [Log -> LogType]
    BY <2>1 DEF StreamInit
  <2>5. rd \in [log : Log, length : Nat, in : Cell, out : Cell, data : Seq(Sample), status : Nat, flags : BOOLEAN, sent : BOOLEAN]
    BY <2>3 DEF StreamInit, NoRead
  <2>6. net \in [slots : [1 .. MAX_BASE_SOCKETS -> Ask], conn : [Pcb -> Nat], flight : [Pcb -> Nat]]
    BY DEF StreamInit, Ask
  <2>7. hist \in [asker : Nat, orphan : BOOLEAN, heard : [Log -> Hears], next : Nat, raced : [Log -> BOOLEAN], sentTo : Nat]
    BY <2>2 DEF StreamInit
  <2>8. stream \in [comm : Ask, prime : BOOLEAN, sqn : Nat] /\ count \in [commands : Nat, connections : Nat] /\ tick \in Nat /\ burst \in Nat
    BY DEF StreamInit, Ask
  <2> QED BY <2>4, <2>5, <2>6, <2>7, <2>8 DEF StreamTyped
<1> QED BY <1>1, <1>2, <1>3 DEF BaseInv

-----------------------------------------------------------------------------
LEMMA BaseTick == ASSUME BaseInv, Tick PROVE BaseInv'
<1>1. TodoInv /\ StreamTyped /\ ReadInv
  BY DEF BaseInv
<1>2. /\ UNCHANGED <<todo, rd, stream, net, count, hist>>
      /\ logs' = [i \in Log |-> DoLogging(logs[i], tick + 1)]
      /\ tick' = tick + 1 /\ burst' \in {0, burst + 1}
  BY DEF Tick
<1>3. tick + 1 \in Nat /\ burst + 1 \in Nat /\ \A i \in Log : logs[i] \in LogType
  BY <1>1 DEF StreamTyped
<1>4. \A i \in Log : DoLogging(logs[i], tick + 1) \in LogType
  BY <1>3, DoLoggingIs
<1>5. StreamTyped'
  BY <1>1, <1>2, <1>3, <1>4 DEF StreamTyped
<1>6. TodoInv'
  BY <1>1, <1>2 DEF TodoInv
<1>7. ReadInv'
  <2> DEFINE old == logs[rd.log]
             new == logs'[rd.log]
  <2>1. rd.log \in Log /\ old \in LogType /\ new = DoLogging(old, tick + 1)
    BY <1>1, <1>2 DEF StreamTyped
  <2> HIDE DEF old, new
  <2>2. /\ new \in LogType /\ LogDataAvail(new) \in {LogDataAvail(old), LogDataAvail(old) + 1} /\ LogDataAvail(old) \in Nat
        /\ new.OutPos = old.OutPos /\ \A k \in 1 .. LogDataAvail(old) : Kth(new, k) = Kth(old, k)
    BY <1>3, <2>1, DoLoggingIs
  <2>3. \A n \in 0 .. LogDataAvail(old) : n \in 0 .. LogDataAvail(new) /\ \A k \in 1 .. n : k \in 1 .. LogDataAvail(old)
    BY <2>2
  <2>4. \A n \in 0 .. LogDataAvail(old) : Copied(new, old.OutPos, n) = Copied(old, old.OutPos, n)
    <3> TAKE n \in 0 .. LogDataAvail(old)
    <3>1. Copied(old, old.OutPos, n) = [k \in 1 .. n |-> Kth(old, k)]
      BY <2>1, CopiedIs
    <3>2. Copied(new, new.OutPos, n) = [k \in 1 .. n |-> Kth(new, k)]
      BY <2>2, <2>3, CopiedIs
    <3> QED BY <2>2, <2>3, <3>1, <3>2
  <2> USE DEF old, new
  <2>5. Waiting(rd.log) = LogDataAvail(old) /\ Waiting(rd.log)' = LogDataAvail(new)
    BY <1>2 DEF Waiting
  <2>6. /\ Under("copy")' = Under("copy") /\ Under("release")' = Under("release") /\ Held' = Held /\ Reloading' = Reloading
    BY <1>2 DEF Under, Held, Sending, Reloading, Final
  <2>7. Under("copy") \/ Under("release") =>
          /\ rd.length \in 0 .. LogDataAvail(old) /\ rd.out = old.OutPos
          /\ OutPosNext(rd.out, rd.in, rd.length) = (rd.out + rd.length) % LOG_LENGTH
          /\ Under("release") => rd.data = Copied(old, rd.out, rd.length)
    BY <1>1, <2>5 DEF ReadInv
  <2>8. Under("copy") \/ Under("release") =>
          /\ rd.length \in 0 .. LogDataAvail(new) /\ rd.out = new.OutPos
          /\ Under("release") => rd.data = Copied(new, rd.out, rd.length)
    BY <2>2, <2>3, <2>4, <2>7
  <2>9. (Held => Len(rd.data) = rd.length) /\ (Reloading => stream.comm # NULL)
    BY <1>1 DEF ReadInv
  <2> QED BY <1>2, <2>5, <2>6, <2>7, <2>8, <2>9 DEF ReadInv
<1> QED BY <1>5, <1>6, <1>7 DEF BaseInv

LEMMA SlotsTyped ==
  ASSUME StreamTyped, NEW p \in Pcb
  PROVE  /\ put_tcpip_comm_data(p) \in [1 .. MAX_BASE_SOCKETS -> Ask]
         /\ remove_tcpip_comm_data(p) \in [1 .. MAX_BASE_SOCKETS -> Ask]
         /\ Gone(p) \in [slots : [1 .. MAX_BASE_SOCKETS -> Ask], conn : [Pcb -> Nat], flight : [Pcb -> Nat]]
<1>1. net.slots \in [1 .. MAX_BASE_SOCKETS -> Ask] /\ p \in Ask /\ NULL \in Ask
  BY DEF StreamTyped, Ask
<1>2. \A c, e \in Ask : [net.slots EXCEPT ![c] = e] \in [1 .. MAX_BASE_SOCKETS -> Ask]
  BY <1>1
<1>3. put_tcpip_comm_data(p) \in [1 .. MAX_BASE_SOCKETS -> Ask]
  BY <1>1 DEF put_tcpip_comm_data
<1>4. remove_tcpip_comm_data(p) \in [1 .. MAX_BASE_SOCKETS -> Ask]
  BY <1>1 DEF remove_tcpip_comm_data
<1>5. Gone(p) \in [slots : [1 .. MAX_BASE_SOCKETS -> Ask], conn : [Pcb -> Nat], flight : [Pcb -> Nat]]
  BY <1>4 DEF Gone, StreamTyped
<1> QED BY <1>3, <1>4, <1>5

LEMMA BaseLwip == ASSUME BaseInv, NEW p \in Pcb,
    accept_callback(p) \/ CloseInReceive(p) \/ tcpip_disconnect_callback(p) PROVE BaseInv'
<1>1. TodoInv /\ StreamTyped /\ todo = << >>
  BY DEF BaseInv, accept_callback, CloseInReceive, tcpip_disconnect_callback, Idle
<1>2. UNCHANGED <<logs, tick, todo, rd, burst>>
  BY DEF accept_callback, CloseInReceive, tcpip_disconnect_callback
<1>3. TodoInv' /\ ReadInv'
  <2>1. todo' = << >> /\ TodoInv'
    BY <1>1, <1>2 DEF TodoInv
  <2>2. ~Under("copy")' /\ ~Under("release")' /\ ~Reloading'
    BY <2>1 DEF Under, Reloading
  <2> QED BY <2>1, <2>2, NotReading DEF ReadInv, Held, Sending, Reloading
<1>4. StreamTyped'
  <2>1. CASE accept_callback(p)
    <3>1. count' \in [commands : Nat, connections : Nat] /\ count.connections + 1 \in Nat
      <4>1. count' = [count EXCEPT !.connections = @ + 1]
        BY <2>1 DEF accept_callback
      <4>2. count \in [commands : Nat, connections : Nat]
        BY <1>1 DEF StreamTyped
      <4> QED BY <4>1, <4>2
    <3>2. net' = [net EXCEPT !.slots = put_tcpip_comm_data(p), !.conn[p] = count.connections + 1, !.flight[p] = 0]
      BY <2>1 DEF accept_callback
    <3>3. put_tcpip_comm_data(p) \in [1 .. MAX_BASE_SOCKETS -> Ask]
      BY <1>1, SlotsTyped
    <3>4. net' \in [slots : [1 .. MAX_BASE_SOCKETS -> Ask], conn : [Pcb -> Nat], flight : [Pcb -> Nat]]
      <4>1. net \in [slots : [1 .. MAX_BASE_SOCKETS -> Ask], conn : [Pcb -> Nat], flight : [Pcb -> Nat]]
        BY <1>1 DEF StreamTyped
      <4>2. net' = [slots |-> put_tcpip_comm_data(p), conn |-> [net.conn EXCEPT ![p] = count.connections + 1],
                    flight |-> [net.flight EXCEPT ![p] = 0]]
        BY <3>2, <4>1
      <4> QED BY <3>1, <3>3, <4>1, <4>2
    <3>5. UNCHANGED <<stream, hist>>
      BY <2>1 DEF accept_callback
    <3> QED BY <1>1, <1>2, <3>1, <3>4, <3>5 DEF StreamTyped
  <2>2. CASE CloseInReceive(p)
    <3>1. net' \in [slots : [1 .. MAX_BASE_SOCKETS -> Ask], conn : [Pcb -> Nat], flight : [Pcb -> Nat]]
      BY <1>1, <2>2, SlotsTyped DEF CloseInReceive
    <3>2. hist' \in [asker : Nat, orphan : BOOLEAN, heard : [Log -> Hears], next : Nat, raced : [Log -> BOOLEAN], sentTo : Nat]
      BY <1>1, <2>2 DEF CloseInReceive, StreamTyped
    <3>3. UNCHANGED <<stream, count>>
      BY <2>2 DEF CloseInReceive
    <3> QED BY <1>1, <1>2, <3>1, <3>2, <3>3 DEF StreamTyped
  <2>3. CASE tcpip_disconnect_callback(p)
    <3>1. net' \in [slots : [1 .. MAX_BASE_SOCKETS -> Ask], conn : [Pcb -> Nat], flight : [Pcb -> Nat]]
      BY <1>1, <2>3, SlotsTyped DEF tcpip_disconnect_callback
    <3>2. stream' \in [comm : Ask, prime : BOOLEAN, sqn : Nat]
      BY <1>1, <2>3 DEF tcpip_disconnect_callback, StreamStopped, StreamTyped, Ask
    <3>3. UNCHANGED <<hist, count>>
      BY <2>3 DEF tcpip_disconnect_callback
    <3> QED BY <1>1, <1>2, <3>1, <3>2, <3>3 DEF StreamTyped
  <2> QED BY <2>1, <2>2, <2>3
<1> QED BY <1>3, <1>4 DEF BaseInv

LEMMA NoReadTyped ==
  NoRead \in [log : Log, length : Nat, in : Cell, out : Cell, data : Seq(Sample), status : Nat, flags : BOOLEAN, sent : BOOLEAN]
<1>1. 0 \in Log /\ 0 \in Cell
  BY BasicStreamAssumption, BasicLogAssumption DEF Log, Cell
<1> QED BY <1>1 DEF NoRead

LEMMA BaseReload == ASSUME BaseInv, Prime \/ \E p \in Pcb : sent_callback(p) PROVE BaseInv'
<1>1. TodoInv /\ StreamTyped
  BY DEF BaseInv
<1>2. /\ UNCHANGED <<logs, tick, stream, count, hist>> /\ rd' = NoRead /\ burst' = 0 /\ todo' \in {Reload, << >>}
      /\ todo' # << >> => stream.comm # NULL
  <2>1. CASE Prime
    BY <2>1 DEF Prime
  <2>2. CASE \E p \in Pcb : sent_callback(p)
    <3>1. NULL \notin Pcb
      BY BasicStreamAssumption
    <3> QED BY <2>2, <3>1 DEF sent_callback
  <2> QED BY <2>1, <2>2
<1>3. net' \in [slots : [1 .. MAX_BASE_SOCKETS -> Ask], conn : [Pcb -> Nat], flight : [Pcb -> Nat]]
  <2>1. CASE Prime
    BY <1>1, <2>1 DEF Prime, StreamTyped
  <2>2. ASSUME NEW p \in Pcb, sent_callback(p)
        PROVE  net' \in [slots : [1 .. MAX_BASE_SOCKETS -> Ask], conn : [Pcb -> Nat], flight : [Pcb -> Nat]]
    <3>1. net.flight[p] \in Nat /\ net.flight[p] - 1 \in Nat
      BY <1>1, <2>2 DEF sent_callback, StreamTyped
    <3> QED BY <1>1, <2>2, <3>1 DEF sent_callback, StreamTyped
  <2> QED BY <2>1, <2>2
<1>4. StreamTyped'
  BY <1>1, <1>2, <1>3, NoReadTyped DEF StreamTyped
<1>5. TodoInv' /\ ~Under("copy")' /\ ~Under("release")' /\ ~Held'
  BY <1>2, WrittenIs
<1>6. ReadInv'
  BY <1>2, <1>5 DEF ReadInv, Reloading
<1> QED BY <1>4, <1>5, <1>6 DEF BaseInv

LEMMA CommandTyped ==
  ASSUME StreamTyped, NEW comm, NEW ops, Command(comm, ops)
  PROVE  /\ count' \in [commands : Nat, connections : Nat] /\ burst' = 0 /\ comm \in Ask
         /\ comm # NULL => net.conn[comm] # 0
<1>1. count' = [count EXCEPT !.commands = @ + 1] /\ burst' = 0 /\ comm \in From
  BY DEF Command
<1>2. count \in [commands : Nat, connections : Nat]
  BY DEF StreamTyped
<1>3. count' \in [commands : Nat, connections : Nat]
  BY <1>1, <1>2
<1>4. comm \in Ask /\ (comm # NULL => net.conn[comm] # 0)
  BY <1>1 DEF From, Ask, Opened
<1> QED BY <1>1, <1>3, <1>4

(* What a command of the kind CmdLS, CmdLFS, CmdLFH does to todo. *)
LEMMA StartsBegin ==
  ASSUME StreamTyped, NEW comm, CmdLS(comm) \/ CmdLFS(comm) \/ CmdLFH(comm)
  PROVE  /\ TodoInv' /\ ~Reloading' /\ todo = << >> /\ Final' = "reply" /\ todo' # << >>
         /\ todo'[1].do \in {"start", "stop", "stream", "reply"}
         /\ count' \in [commands : Nat, connections : Nat] /\ burst' = 0
         /\ comm \in Ask /\ (comm # NULL => net.conn[comm] # 0)
         /\ \A k \in 1 .. Len(todo') : todo'[k].do \in {"stream", "reply"} => todo'[k].comm = comm
         /\ UNCHANGED <<logs, tick, rd, net, hist>>
<1>1. PICK ops : /\ ops \in Seq(Step) /\ Command(comm, ops)
                 /\ \A k \in 1 .. Len(ops) : ops[k].do \in {"start", "stop", "stream"}
                 /\ \A k \in 1 .. Len(ops) : ops[k].do = "stream" => ops[k].comm = comm
  <2>1. CASE CmdLS(comm)
    <3>1. /\ Each("start") \in Seq(Step) /\ Command(comm, Each("start")) /\ Len(Each("start")) = N
          /\ \A k \in 1 .. N : Each("start")[k].do = "start"
      BY <2>1, EachIs DEF CmdLS
    <3>2. /\ \A k \in 1 .. Len(Each("start")) : Each("start")[k].do \in {"start", "stop", "stream"}
          /\ \A k \in 1 .. Len(Each("start")) : Each("start")[k].do = "stream" => Each("start")[k].comm = comm
      BY <3>1
    <3> QED BY <3>1, <3>2
  <2>2. CASE CmdLFH(comm)
    <3>1. /\ Each("stop") \in Seq(Step) /\ Command(comm, Each("stop")) /\ Len(Each("stop")) = N
          /\ \A k \in 1 .. N : Each("stop")[k].do = "stop"
      BY <2>2, EachIs DEF CmdLFH
    <3>2. /\ \A k \in 1 .. Len(Each("stop")) : Each("stop")[k].do \in {"start", "stop", "stream"}
          /\ \A k \in 1 .. Len(Each("stop")) : Each("stop")[k].do = "stream" => Each("stop")[k].comm = comm
      BY <3>1
    <3> QED BY <3>1, <3>2
  <2>3. CASE CmdLFS(comm)
    <3> DEFINE e == Each("start")
               r == [do |-> "stream", comm |-> comm]
               t == e \o <<r>>
    <3>1. e \in Seq(Step) /\ Len(e) = N /\ (\A k \in 1 .. N : e[k].do = "start") /\ N \in Nat
      BY EachIs, BasicStreamAssumption
    <3>2. Command(comm, t) /\ comm \in Ask
      BY <2>3, CommandTyped DEF CmdLFS
    <3>3. r \in Step /\ r.do = "stream" /\ r.comm = comm
      BY <3>2 DEF Step
    <3> HIDE DEF e, r
    <3>4. /\ t \in Seq(Step) /\ Len(t) = Len(e) + 1 /\ t[Len(t)] = r
          /\ \A k \in 1 .. Len(e) : t[k] = e[k]
      <4>1. e \in Seq(Step)
        BY <3>1
      <4>2. r \in Step
        BY <3>3
      <4> QED BY <4>1, <4>2, WithAnswer
    <3> HIDE DEF t
    <3>5. \A k \in 1 .. Len(t) : k \in 1 .. N \/ k = N + 1
      BY <3>1, <3>4
    <3>6. \A k \in 1 .. Len(t) : t[k].do \in {"start", "stop", "stream"} /\ (t[k].do = "stream" => t[k].comm = comm)
      BY <3>1, <3>3, <3>4, <3>5
    <3> QED BY <3>2, <3>4, <3>6
  <2> QED BY <2>1, <2>2, <2>3
<1>2. /\ count' \in [commands : Nat, connections : Nat] /\ burst' = 0
      /\ comm \in Ask /\ (comm # NULL => net.conn[comm] # 0)
  BY <1>1, CommandTyped
<1>3. /\ TodoInv' /\ ~Reloading' /\ todo = << >> /\ Final' = "reply" /\ todo' # << >>
      /\ Len(todo') = Len(ops) + 1 /\ Len(ops) \in Nat
      /\ todo'[Len(todo')] = [do |-> "reply", comm |-> comm]
      /\ \A k \in 1 .. Len(ops) : todo'[k] = ops[k]
  <2>1. comm \in Ask /\ ops \in Seq(Step) /\ Command(comm, ops) /\ \A k \in 1 .. Len(ops) : ops[k].do \in {"start", "stop", "stream"}
    BY <1>1, <1>2
  <2> QED BY <2>1, BeginStarts
<1>4. \A k \in 1 .. Len(todo') : k \in 1 .. Len(ops) \/ k = Len(todo')
  BY <1>3
<1>5. ASSUME NEW k \in 1 .. Len(todo')
      PROVE  /\ todo'[k].do \in {"start", "stop", "stream", "reply"}
             /\ todo'[k].do \in {"stream", "reply"} => todo'[k].comm = comm
  <2>1. CASE k \in 1 .. Len(ops)
    BY <1>1, <1>3, <2>1
  <2>2. CASE k = Len(todo')
    BY <1>3, <2>2
  <2> QED BY <1>4, <2>1, <2>2
<1>6. 1 \in 1 .. Len(todo')
  BY <1>3
<1>7. UNCHANGED <<logs, tick, rd, net, hist>>
  BY DEF CmdLS, CmdLFS, CmdLFH
<1> QED BY <1>2, <1>3, <1>5, <1>6, <1>7

LEMMA BaseCommand == ASSUME BaseInv, CommandParser PROVE BaseInv'
<1>1. TodoInv /\ StreamTyped
  BY DEF BaseInv
<1>2. ASSUME TodoInv', ~Reloading', todo' # << >>, todo'[1].do \notin {"copy", "release"} PROVE TodoInv' /\ ReadInv'
  BY <1>2, NotReading DEF Under, ReadInv, Held, Sending, Reloading
<1> DEFINE Histories == [asker : Nat, orphan : BOOLEAN, heard : [Log -> Hears], next : Nat, raced : [Log -> BOOLEAN], sentTo : Nat]
           Reads == [log : Log, length : Nat, in : Cell, out : Cell, data : Seq(Sample), status : Nat, flags : BOOLEAN, sent : BOOLEAN]
<1>3. hist \in Histories /\ rd \in Reads
  BY <1>1 DEF StreamTyped
<1>4. ASSUME NEW comm, CmdLS(comm) \/ CmdLFS(comm) \/ CmdLFH(comm) PROVE BaseInv'
  <2>1. /\ TodoInv' /\ ~Reloading' /\ todo' # << >> /\ todo'[1].do \in {"start", "stop", "stream", "reply"}
        /\ count' \in [commands : Nat, connections : Nat] /\ burst' = 0 /\ UNCHANGED <<logs, tick, rd, net, hist>>
    BY <1>1, <1>4, StartsBegin
  <2>2. stream' \in [comm : Ask, prime : BOOLEAN, sqn : Nat]
    BY <1>1, <1>4 DEF CmdLS, CmdLFS, CmdLFH, StreamTyped, Ask
  <2>3. StreamTyped'
    BY <1>1, <2>1, <2>2 DEF StreamTyped
  <2> QED BY <1>2, <2>1, <2>3 DEF BaseInv
<1>5. ASSUME NEW comm, NEW i \in Log, CmdLFR(comm, i) PROVE BaseInv'
  <2>1. PICK ops : Command(comm, ops) /\ (ops = Reading \/ ops = <<[do |-> "flags"], [do |-> "clear"]>>)
    BY <1>5 DEF CmdLFR
  <2>2. count' \in [commands : Nat, connections : Nat] /\ burst' = 0 /\ comm \in Ask
    BY <1>1, <2>1, CommandTyped
  <2>3. TodoInv' /\ ~Reloading' /\ todo' # << >> /\ todo'[1].do \in {"begin", "flags"}
    BY <2>1, <2>2, BeginReading
  <2>4. rd' \in Reads
    <3>1. rd' = [NoRead EXCEPT !.log = i]
      BY <1>5 DEF CmdLFR
    <3> QED BY <3>1, NoReadTyped
  <2>5. hist' \in Histories
    <3>1. hist' = [hist EXCEPT !.heard[i].warned = TRUE]
      BY <1>5 DEF CmdLFR
    <3>2. hist.heard[i] \in Hears
      BY <1>3
    <3>3. [hist.heard[i] EXCEPT !.warned = TRUE] \in Hears
      BY <3>2 DEF Hears
    <3> QED BY <1>3, <3>1, <3>3
  <2>6. StreamTyped'
    BY <1>1, <1>5, <2>2, <2>4, <2>5 DEF StreamTyped, CmdLFR
  <2> QED BY <1>2, <2>3, <2>6 DEF BaseInv
<1>6. ASSUME NEW comm, NEW i \in Log, NEW v \in Variables, NEW s \in Modes, CmdLM(comm, i, v, s) PROVE BaseInv'
  <2>1. count' \in [commands : Nat, connections : Nat] /\ burst' = 0 /\ comm \in Ask
    BY <1>1, <1>6, CommandTyped DEF CmdLM
  <2>2. TodoInv' /\ ~Reloading' /\ todo' # << >> /\ \A k \in 1 .. 6 : todo'[k].do = "store"
    BY <1>6, <2>1, BeginLM
  <2>3. todo'[1].do \notin {"copy", "release"}
    BY <2>2
  <2>4. hist' \in Histories
    <3>1. hist' = [hist EXCEPT !.heard[i] = Unheard, !.raced[i] = logs[i].LogStatus = "logging"]
      BY <1>6 DEF CmdLM
    <3>2. Unheard \in Hears
      BY DEF Unheard, Hears, NoSample, Sample
    <3> QED BY <1>3, <3>1, <3>2
  <2>5. StreamTyped'
    BY <1>1, <1>6, <2>1, <2>4 DEF StreamTyped, CmdLM
  <2> QED BY <1>2, <2>2, <2>3, <2>5 DEF BaseInv
<1> QED BY <1>4, <1>5, <1>6 DEF CommandParser

-----------------------------------------------------------------------------
(* Which field of which log a store of LM writes. *)
LEMMA StoreIs ==
  ASSUME TodoInv, Store
  PROVE  \E i \in Log, v \in Variables, s \in Modes :
           /\ SetShape(todo, i, v, s) /\ todo[1].what[1] = i /\ todo[1].do = "store" /\ todo # << >> /\ Then(<< >>)
           /\ \/ Len(todo) = 7 /\ logs' = [logs EXCEPT ![i].InPos = 0]
              \/ Len(todo) = 6 /\ logs' = [logs EXCEPT ![i].OutPos = 0]
              \/ Len(todo) = 5 /\ logs' = [logs EXCEPT ![i].Settings = s]
              \/ Len(todo) = 4 /\ logs' = [logs EXCEPT ![i].Flags = FALSE]
              \/ Len(todo) = 3 /\ logs' = [logs EXCEPT ![i].VarToLog = v]
              \/ Len(todo) = 2 /\ logs' = [logs EXCEPT ![i].LogStatus = "ready"]
           /\ UNCHANGED <<tick, rd, burst, stream, net, count, hist>>
<1>1. todo # << >> /\ Head(todo).do = "store" /\ Then(<< >>) /\ UNCHANGED <<tick, rd, burst, stream, net, count, hist>>
  BY DEF Store, Do
<1>2. Head(todo) = todo[1] /\ todo \in Seq(Step) /\ Shape(todo)
  BY <1>1, FirstIs DEF TodoInv
<1>3. PICK i \in Log, v \in Variables, s \in Modes : SetShape(todo, i, v, s)
  BY <1>1, <1>2, ShapeOfFirst
<1> DEFINE n == Len(todo)
<1>4. n \in 2 .. 7 /\ todo[1].what = SetupLogVariable(i, v, s)[8 - n]
  BY <1>1, <1>2, <1>3, FirstOfSetting
<1>5. logs' = [logs EXCEPT ![todo[1].what[1]][todo[1].what[2]] = todo[1].what[3]]
  BY <1>1, <1>2 DEF Store
<1> HIDE DEF n
<1> DEFINE w == todo[1].what
<1>6. logs' = [logs EXCEPT ![w[1]][w[2]] = w[3]]
  BY <1>5
<1> DEFINE Does(m, f, x) == n = m /\ w[1] = i /\ logs' = [logs EXCEPT ![i][f] = x]
<1>7. ASSUME NEW f, NEW x, w = <<i, f, x>> PROVE w[1] = i /\ logs' = [logs EXCEPT ![i][f] = x]
  <2>1. w[1] = i /\ w[2] = f /\ w[3] = x
    BY <1>7
  <2> QED BY <1>6, <2>1
<1>8. n = 7 \/ n = 6 \/ n = 5 \/ n = 4 \/ n = 3 \/ n = 2
  BY <1>4
<1>9. ASSUME n = 7 PROVE Does(7, "InPos", 0)
  <2>1. 8 - n = 1
    BY <1>9
  <2>2. SetupLogVariable(i, v, s)[1] = <<i, "InPos", 0>>
    BY DEF SetupLogVariable
  <2>3. w = <<i, "InPos", 0>>
    BY <1>4, <2>1, <2>2, Zenon
  <2> QED BY <1>7, <1>9, <2>3
<1>10. ASSUME n = 6 PROVE Does(6, "OutPos", 0)
  <2>1. 8 - n = 2
    BY <1>10
  <2>2. SetupLogVariable(i, v, s)[2] = <<i, "OutPos", 0>>
    BY DEF SetupLogVariable
  <2>3. w = <<i, "OutPos", 0>>
    BY <1>4, <2>1, <2>2, Zenon
  <2> QED BY <1>7, <1>10, <2>3
<1>11. ASSUME n = 5 PROVE Does(5, "Settings", s)
  <2>1. 8 - n = 3
    BY <1>11
  <2>2. SetupLogVariable(i, v, s)[3] = <<i, "Settings", s>>
    BY DEF SetupLogVariable
  <2>3. w = <<i, "Settings", s>>
    BY <1>4, <2>1, <2>2, Zenon
  <2> QED BY <1>7, <1>11, <2>3
<1>12. ASSUME n = 4 PROVE Does(4, "Flags", FALSE)
  <2>1. 8 - n = 4
    BY <1>12
  <2>2. SetupLogVariable(i, v, s)[4] = <<i, "Flags", FALSE>>
    BY DEF SetupLogVariable
  <2>3. w = <<i, "Flags", FALSE>>
    BY <1>4, <2>1, <2>2, Zenon
  <2> QED BY <1>7, <1>12, <2>3
<1>13. ASSUME n = 3 PROVE Does(3, "VarToLog", v)
  <2>1. 8 - n = 5
    BY <1>13
  <2>2. SetupLogVariable(i, v, s)[5] = <<i, "VarToLog", v>>
    BY DEF SetupLogVariable
  <2>3. w = <<i, "VarToLog", v>>
    BY <1>4, <2>1, <2>2, Zenon
  <2> QED BY <1>7, <1>13, <2>3
<1>14. ASSUME n = 2 PROVE Does(2, "LogStatus", "ready")
  <2>1. 8 - n = 6
    BY <1>14
  <2>2. SetupLogVariable(i, v, s)[6] = <<i, "LogStatus", "ready">>
    BY DEF SetupLogVariable
  <2>3. w = <<i, "LogStatus", "ready">>
    BY <1>4, <2>1, <2>2, Zenon
  <2> QED BY <1>7, <1>14, <2>3
<1>15. /\ w[1] = i
       /\ \/ n = 7 /\ logs' = [logs EXCEPT ![i].InPos = 0]
          \/ n = 6 /\ logs' = [logs EXCEPT ![i].OutPos = 0]
          \/ n = 5 /\ logs' = [logs EXCEPT ![i].Settings = s]
          \/ n = 4 /\ logs' = [logs EXCEPT ![i].Flags = FALSE]
          \/ n = 3 /\ logs' = [logs EXCEPT ![i].VarToLog = v]
          \/ n = 2 /\ logs' = [logs EXCEPT ![i].LogStatus = "ready"]
  BY <1>8, <1>9, <1>10, <1>11, <1>12, <1>13, <1>14
<1>16. todo[1].do = "store"
  BY <1>1, <1>2
<1> QED BY <1>1, <1>3, <1>15, <1>16 DEF n, w

LEMMA FieldsTyped ==
  ASSUME logs \in [Log -> LogType], NEW i \in Log
  PROVE  /\ \A c \in Cell : [logs EXCEPT ![i].InPos = c] \in [Log -> LogType]
         /\ \A c \in Cell : [logs EXCEPT ![i].OutPos = c] \in [Log -> LogType]
         /\ \A s \in Modes : [logs EXCEPT ![i].Settings = s] \in [Log -> LogType]
         /\ \A b \in BOOLEAN : [logs EXCEPT ![i].Flags = b] \in [Log -> LogType]
         /\ \A v \in Variables : [logs EXCEPT ![i].VarToLog = v] \in [Log -> LogType]
         /\ \A st \in {"idle", "ready", "logging", "done"} : [logs EXCEPT ![i].LogStatus = st] \in [Log -> LogType]
<1>1. logs[i] \in LogType
  OBVIOUS
<1>2. \A c \in Cell : [logs[i] EXCEPT !.InPos = c] \in LogType /\ [logs[i] EXCEPT !.OutPos = c] \in LogType
  BY <1>1 DEF LogType
<1>3. \A s \in Modes : [logs[i] EXCEPT !.Settings = s] \in LogType
  BY <1>1 DEF LogType
<1>4. \A b \in BOOLEAN : [logs[i] EXCEPT !.Flags = b] \in LogType
  BY <1>1 DEF LogType
<1>5. \A v \in Variables : [logs[i] EXCEPT !.VarToLog = v] \in LogType
  BY <1>1 DEF LogType
<1>6. \A st \in {"idle", "ready", "logging", "done"} : [logs[i] EXCEPT !.LogStatus = st] \in LogType
  BY <1>1 DEF LogType
<1> QED BY <1>2, <1>3, <1>4, <1>5, <1>6

(* The steps of commands. *)
LEMMA BaseSteps == ASSUME BaseInv, Store \/ StartOrStop \/ StartStream PROVE BaseInv'
<1>1. TodoInv /\ StreamTyped /\ todo # << >> /\ todo[1].do \in {"store", "start", "stop", "stream"} /\ Then(<< >>)
  <2>1. TodoInv /\ StreamTyped
    BY DEF BaseInv
  <2>2. /\ todo # << >> /\ Then(<< >>)
        /\ Do("store") \/ Do("start") \/ Do("stop") \/ Do("stream")
    BY DEF Store, StartOrStop, StartStream, Do
  <2>3. Do("store") \/ Do("start") \/ Do("stop") \/ Do("stream") => todo[1].do \in {"store", "start", "stop", "stream"}
    BY <2>1, <2>2, FirstIs
  <2> QED BY <2>1, <2>2, <2>3
<1>2. /\ TodoInv' /\ todo' # << >> /\ Final' = "reply" /\ Reloading' = Reloading
      /\ todo'[1].do \in {"store", "start", "stop", "stream", "reply"}
  <2>1. TodoInv' /\ todo' # << >> /\ Final' = Final /\ Reloading' = Reloading
    BY <1>1, Onwards
  <2>2. Final = "reply" /\ todo'[1].do \in {"store", "start", "stop", "stream", "reply"}
    BY <1>1, NextOp
  <2> QED BY <2>1, <2>2
<1>3. ReadInv'
  BY <1>2 DEF ReadInv, Under, Held, Sending, Reloading
<1>4. UNCHANGED <<tick, rd, burst, net, count>>
  BY DEF Store, StartOrStop, StartStream
<1>5. logs' \in [Log -> LogType]
  <2>1. CASE Store
    <3>1. PICK i \in Log, v \in Variables, s \in Modes :
                 \/ logs' = [logs EXCEPT ![i].InPos = 0]
                 \/ logs' = [logs EXCEPT ![i].OutPos = 0]
                 \/ logs' = [logs EXCEPT ![i].Settings = s]
                 \/ logs' = [logs EXCEPT ![i].Flags = FALSE]
                 \/ logs' = [logs EXCEPT ![i].VarToLog = v]
                 \/ logs' = [logs EXCEPT ![i].LogStatus = "ready"]
      BY <1>1, <2>1, StoreIs
    <3>2. 0 \in Cell /\ logs \in [Log -> LogType]
      BY <1>1, BasicLogAssumption DEF Cell, StreamTyped
    <3>3. i \in Log /\ v \in Variables /\ s \in Modes /\ FALSE \in BOOLEAN /\ "ready" \in {"idle", "ready", "logging", "done"}
      OBVIOUS
    <3>4. CASE logs' = [logs EXCEPT ![i].InPos = 0]
      BY <3>2, <3>3, <3>4, FieldsTyped
    <3>9. CASE logs' = [logs EXCEPT ![i].OutPos = 0]
      BY <3>2, <3>3, <3>9, FieldsTyped
    <3>5. CASE logs' = [logs EXCEPT ![i].Settings = s]
      BY <3>2, <3>3, <3>5, FieldsTyped
    <3>6. CASE logs' = [logs EXCEPT ![i].Flags = FALSE]
      BY <3>2, <3>3, <3>6, FieldsTyped
    <3>7. CASE logs' = [logs EXCEPT ![i].VarToLog = v]
      BY <3>2, <3>3, <3>7, FieldsTyped
    <3>8. CASE logs' = [logs EXCEPT ![i].LogStatus = "ready"]
      BY <3>2, <3>3, <3>8, FieldsTyped
    <3> QED BY <3>1, <3>4, <3>5, <3>6, <3>7, <3>8, <3>9
  <2>2. CASE StartOrStop
    <3> DEFINE i == todo[1].log
    <3>1. Head(todo) = todo[1] /\ todo[1] \in Step /\ todo[1].do \in {"start", "stop"}
      BY <1>1, <2>2, FirstIs DEF StartOrStop
    <3>2. i \in Log
      BY <3>1, StepIs
    <3>3. logs \in [Log -> LogType]
      BY <1>1 DEF StreamTyped
    <3>4. logs' = [logs EXCEPT ![i] = IF Do("start") THEN StartLogging(@) ELSE StopLogging(@)]
      BY <2>2, <3>1 DEF StartOrStop
    <3> HIDE DEF i
    <3>5. StartLogging(logs[i]) \in LogType /\ StopLogging(logs[i]) \in LogType
      BY <3>2, <3>3 DEF StartLogging, StopLogging, LogType
    <3> QED BY <3>2, <3>3, <3>4, <3>5
  <2>3. CASE StartStream
    BY <1>1, <2>3 DEF StartStream, StreamTyped
  <2> QED BY <2>1, <2>2, <2>3
<1>6. /\ stream' \in [comm : Ask, prime : BOOLEAN, sqn : Nat]
      /\ hist' \in [asker : Nat, orphan : BOOLEAN, heard : [Log -> Hears], next : Nat, raced : [Log -> BOOLEAN], sentTo : Nat]
  <2>1. CASE Store \/ StartOrStop
    BY <1>1, <2>1 DEF Store, StartOrStop, StreamTyped
  <2>2. CASE StartStream
    <3> DEFINE comm == todo[1].comm
               heard == [i \in Log |-> [Unheard EXCEPT !.warned = Incomplete(logs[i], tick)]]
    <3>1. Head(todo) = todo[1] /\ todo[1] \in Step /\ todo[1].do = "stream"
      BY <1>1, <2>2, FirstIs DEF StartStream
    <3>2. comm \in Ask
      BY <3>1, StepIs
    <3>3. /\ stream' = [comm |-> comm, prime |-> TRUE, sqn |-> 1]
          /\ hist' = [hist EXCEPT !.asker = IF comm = NULL THEN 0 ELSE net.conn[comm], !.orphan = FALSE,
                                  !.heard = heard, !.next = 1, !.sentTo = 0]
      BY <2>2, <3>1 DEF StartStream
    <3>4. heard \in [Log -> Hears]
      <4>1. Unheard \in Hears
        BY DEF Unheard, Hears, NoSample, Sample
      <4>2. \A i \in Log : Incomplete(logs[i], tick) \in BOOLEAN
        BY DEF Incomplete
      <4>3. \A b \in BOOLEAN : [Unheard EXCEPT !.warned = b] \in Hears
        BY <4>1 DEF Hears
      <4> QED BY <4>2, <4>3
    <3> HIDE DEF heard, comm
    <3>5. (IF comm = NULL THEN 0 ELSE net.conn[comm]) \in Nat
      BY <1>1, <3>2 DEF StreamTyped, Ask
    <3>6. hist \in [asker : Nat, orphan : BOOLEAN, heard : [Log -> Hears], next : Nat, raced : [Log -> BOOLEAN], sentTo : Nat]
      BY <1>1 DEF StreamTyped
    <3> QED BY <3>2, <3>3, <3>4, <3>5, <3>6
  <2> QED BY <2>1, <2>2
<1>7. StreamTyped'
  BY <1>1, <1>4, <1>5, <1>6 DEF StreamTyped
<1> QED BY <1>2, <1>3, <1>7 DEF BaseInv

-----------------------------------------------------------------------------
(* The steps of a read. *)
LEMMA ReadLengthIs ==
  ASSUME NEW log \in LogType
  PROVE  /\ ReadLength(log, Packet) \in 0 .. LogDataAvail(log)
         /\ ReadLength(log, Packet) <= Packet
         /\ ReadLength(log, Packet) = Packet \/ ReadLength(log, Packet) = LogDataAvail(log)
         /\ LogDataAvail(log) > 0 => ReadLength(log, Packet) > 0
<1>1. LogDataAvail(log) \in Nat /\ Packet \in Nat \ {0}
  BY AvailIs, BasicStreamAssumption
<1> QED BY <1>1 DEF ReadLength

LEMMA BaseBegin == ASSUME BaseInv, ReadBegin PROVE BaseInv'
<1>1. TodoInv /\ StreamTyped /\ ReadInv /\ todo # << >> /\ todo[1].do = "begin" /\ Then(<< >>)
  <2>1. TodoInv /\ StreamTyped /\ ReadInv /\ todo # << >> /\ Then(<< >>) /\ Do("begin")
    BY DEF BaseInv, ReadBegin, Do
  <2> QED BY <2>1, FirstIs
<1>2. TodoInv' /\ Under("copy")' /\ Final' = Final /\ Reloading' = Reloading
  BY <1>1, Onwards, NextOp DEF Under
<1>3. UNCHANGED <<logs, tick, burst, stream, net, count, hist>>
  BY DEF ReadBegin
<1> DEFINE log == logs[rd.log]
           n == ReadLength(log, Packet)
<1>4. rd.log \in Log /\ log \in LogType
  BY <1>1 DEF StreamTyped
<1>5. n \in 0 .. LogDataAvail(log) /\ n \in Nat
  BY <1>4, ReadLengthIs, AvailIs
<1>6. log.InPos \in Cell /\ log.OutPos \in Cell
  BY <1>4, AvailIs
<1>7. rd' = [rd EXCEPT !.length = n, !.in = log.InPos, !.out = log.OutPos]
  BY DEF ReadBegin
<1>8. OutPosNext(log.OutPos, log.InPos, n) = (log.OutPos + n) % LOG_LENGTH
  <2> HIDE DEF n, log
  <2> QED BY <1>4, <1>5, OutPosNextIs
<1> HIDE DEF n, log
<1>9. /\ rd' \in [log : Log, length : Nat, in : Cell, out : Cell, data : Seq(Sample), status : Nat, flags : BOOLEAN, sent : BOOLEAN]
      /\ rd'.log = rd.log /\ rd'.length = n /\ rd'.in = log.InPos /\ rd'.out = log.OutPos
  BY <1>1, <1>5, <1>6, <1>7 DEF StreamTyped
<1>10. StreamTyped'
  BY <1>1, <1>3, <1>9 DEF StreamTyped
<1>11. ReadInv'
  <2>1. ~Held' /\ ~Under("release")'
    BY <1>2 DEF Held, Under
  <2>2. Waiting(rd.log)' = LogDataAvail(log) /\ logs'[rd'.log] = log
    BY <1>3, <1>9 DEF Waiting, log
  <2>3. Reloading' => stream'.comm # NULL
    BY <1>1, <1>2, <1>3 DEF ReadInv
  <2> QED BY <1>5, <1>8, <1>9, <2>1, <2>2, <2>3 DEF ReadInv
<1> QED BY <1>2, <1>10, <1>11 DEF BaseInv

LEMMA BaseCopy == ASSUME BaseInv, ReadCopy PROVE BaseInv'
<1>1. TodoInv /\ StreamTyped /\ ReadInv /\ todo # << >> /\ todo[1].do = "copy" /\ Then(<< >>)
  <2>1. TodoInv /\ StreamTyped /\ ReadInv /\ todo # << >> /\ Then(<< >>) /\ Do("copy")
    BY DEF BaseInv, ReadCopy, Do
  <2> QED BY <2>1, FirstIs
<1>2. TodoInv' /\ Under("release")' /\ Final' = Final /\ Reloading' = Reloading
  BY <1>1, Onwards, NextOp DEF Under
<1>3. UNCHANGED <<logs, tick, burst, stream, net, count, hist>>
  BY DEF ReadCopy
<1> DEFINE log == logs[rd.log]
           n == rd.length
           data == Copied(log, rd.out, n)
<1>4. rd.log \in Log /\ log \in LogType
  BY <1>1 DEF StreamTyped
<1>5. /\ n \in 0 .. LogDataAvail(log) /\ n \in Nat /\ rd.out = log.OutPos
      /\ OutPosNext(rd.out, rd.in, n) = (rd.out + n) % LOG_LENGTH
  BY <1>1 DEF ReadInv, Under, Waiting, StreamTyped
<1>6. data \in Seq(Sample) /\ Len(data) = n
  <2> HIDE DEF log, n
  <2> QED BY <1>4, <1>5, CopiedIs
<1>7. rd' = [rd EXCEPT !.data = data, !.status = n]
  BY DEF ReadCopy
<1> HIDE DEF data
<1>9. /\ rd' \in [log : Log, length : Nat, in : Cell, out : Cell, data : Seq(Sample), status : Nat, flags : BOOLEAN, sent : BOOLEAN]
      /\ rd'.log = rd.log /\ rd'.length = n /\ rd'.in = rd.in /\ rd'.out = rd.out /\ rd'.data = data
  BY <1>1, <1>5, <1>6, <1>7 DEF StreamTyped
<1>10. StreamTyped'
  BY <1>1, <1>3, <1>9 DEF StreamTyped
<1>11. ReadInv'
  <2>1. Waiting(rd.log)' = LogDataAvail(log) /\ logs'[rd'.log] = log
    BY <1>3, <1>9 DEF Waiting
  <2>2. Reloading' => stream'.comm # NULL
    BY <1>1, <1>2, <1>3 DEF ReadInv
  <2> QED BY <1>5, <1>6, <1>9, <2>1, <2>2 DEF ReadInv, data
<1> QED BY <1>2, <1>10, <1>11 DEF BaseInv

LEMMA BaseRelease == ASSUME BaseInv, ReadRelease PROVE BaseInv'
<1>1. TodoInv /\ StreamTyped /\ ReadInv /\ todo # << >> /\ todo[1].do = "release" /\ Then(<< >>)
  <2>1. TodoInv /\ StreamTyped /\ ReadInv /\ todo # << >> /\ Then(<< >>) /\ Do("release")
    BY DEF BaseInv, ReadRelease, Do
  <2> QED BY <2>1, FirstIs
<1>2. TodoInv' /\ Under("flags")' /\ Final' = Final /\ Reloading' = Reloading
  BY <1>1, Onwards, NextOp DEF Under
<1>3. UNCHANGED <<tick, rd, burst, stream, net, count, hist>>
  BY DEF ReadRelease
<1> DEFINE log == logs[rd.log]
           n == rd.length
<1>4. rd.log \in Log /\ log \in LogType
  BY <1>1 DEF StreamTyped
<1>5. /\ n \in 0 .. LogDataAvail(log) /\ rd.out = log.OutPos
      /\ OutPosNext(rd.out, rd.in, n) = (rd.out + n) % LOG_LENGTH
  BY <1>1 DEF ReadInv, Under, Waiting
<1>6. OutPosNext(rd.out, rd.in, n) \in Cell
  <2> HIDE DEF log, n
  <2> QED BY <1>4, <1>5, OutPosNextIs
<1>7. logs' \in [Log -> LogType]
  <2>1. logs' = [logs EXCEPT ![rd.log].OutPos = OutPosNext(rd.out, rd.in, n)]
    BY DEF ReadRelease
  <2>2. logs \in [Log -> LogType]
    BY <1>1 DEF StreamTyped
  <2> QED BY <1>4, <1>6, <2>1, <2>2, FieldsTyped
<1>8. StreamTyped'
  BY <1>1, <1>3, <1>7 DEF StreamTyped
<1>9. ReadInv'
  <2>1. ~Under("copy")' /\ ~Under("release")'
    BY <1>2 DEF Under
  <2>2. Len(rd.data) = rd.length /\ (Reloading => stream.comm # NULL)
    BY <1>1 DEF ReadInv, Held, Under
  <2> QED BY <1>2, <1>3, <2>1, <2>2 DEF ReadInv
<1> QED BY <1>2, <1>8, <1>9 DEF BaseInv

LEMMA BaseFlags == ASSUME BaseInv, ReadLogFlags PROVE BaseInv'
<1>1. TodoInv /\ StreamTyped /\ ReadInv /\ todo # << >> /\ todo[1].do \in {"flags", "clear"} /\ Then(<< >>)
  <2>1. TodoInv /\ StreamTyped /\ ReadInv /\ todo # << >> /\ Then(<< >>) /\ (Do("flags") \/ Do("clear"))
    BY DEF BaseInv, ReadLogFlags, Do
  <2> QED BY <2>1, FirstIs
<1>2. TodoInv' /\ Final' = Final /\ Reloading' = Reloading /\ todo' # << >>
  BY <1>1, Onwards
<1>3. UNCHANGED <<tick, burst, stream, net, count, hist>>
  BY DEF ReadLogFlags
<1>4. rd.log \in Log /\ logs \in [Log -> LogType]
  BY <1>1 DEF StreamTyped
<1>5. /\ logs' \in [Log -> LogType]
      /\ rd' \in [log : Log, length : Nat, in : Cell, out : Cell, data : Seq(Sample), status : Nat, flags : BOOLEAN, sent : BOOLEAN]
      /\ rd'.data = rd.data /\ rd'.length = rd.length
  <2>1. CASE logs' = logs /\ rd' = [rd EXCEPT !.flags = logs[rd.log].Flags]
    <3>1. logs[rd.log].Flags \in BOOLEAN
      BY <1>4 DEF LogType
    <3> QED BY <1>1, <1>4, <2>1, <3>1 DEF StreamTyped
  <2>2. CASE rd' = rd /\ logs' = [logs EXCEPT ![rd.log].Flags = FALSE]
    <3>1. logs' \in [Log -> LogType]
      BY <1>4, <2>2, FieldsTyped
    <3> QED BY <1>1, <2>2, <3>1 DEF StreamTyped
  <2> QED BY <2>1, <2>2 DEF ReadLogFlags
<1>6. StreamTyped'
  BY <1>1, <1>3, <1>5 DEF StreamTyped
<1>7. ReadInv'
  <2>1. todo'[1].do \in {"clear", "reply", "send", "end", "room", "pick"}
    <3>1. CASE todo[1].do = "flags"
      <4>1. Under("flags") /\ todo[1].do \notin {"reply", "room", "pick", "send", "end"}
        BY <1>1, <3>1 DEF Under
      <4>2. Under("clear")'
        BY <1>1, <4>1, NextOp
      <4> QED BY <4>2 DEF Under
    <3>2. CASE todo[1].do = "clear"
      <4>1. Under("clear") /\ todo[1].do \notin {"reply", "room", "pick", "send", "end"}
        BY <1>1, <3>2 DEF Under
      <4>2. todo'[1].do = Final
        BY <1>1, <4>1, NextOp
      <4>3. Final \in {"reply", "send", "end", "room", "pick"}
        BY <1>1, ShapeOfFirst DEF TodoInv, Final
      <4> QED BY <4>2, <4>3
    <3> QED BY <1>1, <3>1, <3>2
  <2>2. ~Under("copy")' /\ ~Under("release")'
    BY <2>1 DEF Under
  <2>3. Held' => Held
    BY <1>1, <1>2, <2>2 DEF Held, Sending, Under
  <2>4. (Held => Len(rd.data) = rd.length) /\ (Reloading => stream.comm # NULL)
    BY <1>1 DEF ReadInv
  <2> QED BY <1>2, <1>3, <1>5, <2>2, <2>3, <2>4 DEF ReadInv
<1> QED BY <1>2, <1>6, <1>7 DEF BaseInv

(* The steps of a packet around its read, and the end of a command. *)
LEMMA BaseRoomPick == ASSUME BaseInv, Room \/ Pick PROVE BaseInv'
<1>1. /\ TodoInv /\ StreamTyped /\ ReadInv /\ todo # << >> /\ (Do("room") \/ Do("pick"))
      /\ UNCHANGED <<logs, tick, burst, stream, net, count, hist>>
      /\ \E t \in {<< >>, Reload, <<[do |-> "pick"]>>, <<[do |-> "end"]>>,
                    <<[do |-> "flags"], [do |-> "clear"], [do |-> "end"]>>, Reading \o <<[do |-> "send"]>>} : todo' = t
  BY DEF BaseInv, Room, Pick, Do
<1>2. TodoInv' /\ ~Under("copy")' /\ ~Under("release")' /\ ~Held'
  BY <1>1, WrittenIs
<1>3. Reloading
  BY <1>1, FirstIs DEF Reloading
<1>4. rd' \in [log : Log, length : Nat, in : Cell, out : Cell, data : Seq(Sample), status : Nat, flags : BOOLEAN, sent : BOOLEAN]
  <2>1. 0 \in Log /\ MostFull \in Log
    BY <1>1, BasicStreamAssumption, MostFullIs DEF Log, StreamTyped
  <2>2. rd \in [log : Log, length : Nat, in : Cell, out : Cell, data : Seq(Sample), status : Nat, flags : BOOLEAN, sent : BOOLEAN]
    BY <1>1 DEF StreamTyped
  <2>3. \/ rd' = rd
        \/ rd' = [rd EXCEPT !.log = IF DetermineMostFullLog = 0 THEN 0 ELSE MostFull, !.status = 0]
        \/ rd' = [rd EXCEPT !.log = MostFull]
    BY DEF Room, Pick
  <2> DEFINE m == IF DetermineMostFullLog = 0 THEN 0 ELSE MostFull
  <2>4. m \in Log
    BY <2>1
  <2>5. \/ rd' = rd
        \/ rd' = [rd EXCEPT !.log = m, !.status = 0]
        \/ rd' = [rd EXCEPT !.log = MostFull]
    BY <2>3
  <2> HIDE DEF m
  <2>6. CASE rd' = rd
    BY <2>2, <2>6
  <2>7. CASE rd' = [rd EXCEPT !.log = m, !.status = 0]
    BY <2>2, <2>4, <2>7
  <2>8. CASE rd' = [rd EXCEPT !.log = MostFull]
    <3> DEFINE f == MostFull
    <3>1. f \in Log /\ rd' = [rd EXCEPT !.log = f]
      BY <2>1, <2>8
    <3> HIDE DEF f
    <3> QED BY <2>2, <3>1
  <2> QED BY <2>5, <2>6, <2>7, <2>8
<1>5. StreamTyped'
  BY <1>1, <1>4 DEF StreamTyped
<1>6. ReadInv'
  BY <1>1, <1>2, <1>3 DEF ReadInv
<1> QED BY <1>2, <1>5, <1>6 DEF BaseInv

(* What a packet adds to what its host heard. *)
LEMMA HeardTyped ==
  ASSUME NEW h \in Hears, NEW data \in Seq(Sample), Len(data) > 0, NEW flags \in BOOLEAN
  PROVE  Heard(h, data, flags) \in Hears
<1>1. data[Len(data)] \in Sample
  OBVIOUS
<1> DEFINE follows(a, b) == a.var = NULL \/ b.at = a.at + 1
           gap == h.gap \/ ~follows(h.last, data[1]) \/ \E k \in 1 .. Len(data) - 1 : ~follows(data[k], data[k + 1])
<1>2. Heard(h, data, flags) = [[h EXCEPT !.warned = h.warned \/ flags] EXCEPT !.last = data[Len(data)], !.gap = gap]
  <2>1. [h EXCEPT !.warned = h.warned \/ flags].gap = h.gap
    BY DEF Hears
  <2> QED BY <2>1, Zenon DEF Heard
<1>3. gap \in BOOLEAN
  BY DEF Hears
<1>4. h.warned \/ flags \in BOOLEAN
  BY DEF Hears
<1> HIDE DEF gap
<1> QED BY <1>1, <1>2, <1>3, <1>4 DEF Hears

(* What Send does, by whether the packet is sent. *)
LEMMA SendIs ==
  ASSUME BaseInv, Send
  PROVE  /\ todo # << >> /\ todo[1].do = "send" /\ Len(todo) = 1 /\ Final = "send" /\ Sending /\ Reloading
         /\ rd.length > 0 /\ Len(rd.data) = rd.length /\ stream.comm \in Pcb
         /\ stream' = [stream EXCEPT !.sqn = @ + 1]
         /\ todo' \in {Reload, <<[do |-> "end"]>>}
         /\ UNCHANGED <<logs, tick, burst, count>>
         /\ \/ rd' = rd /\ net' = net /\ hist' = hist
            \/ /\ net.conn[stream.comm] # 0
               /\ rd' = [rd EXCEPT !.sent = TRUE]
               /\ net' = [net EXCEPT !.flight[stream.comm] = @ + 1]
               /\ hist' = [hist EXCEPT
                     !.heard = [i \in Log |->
                         LET h == [hist.heard[i] EXCEPT !.warned = hist.heard[i].warned \/ hist.next # stream.sqn]
                         IN  IF i = rd.log THEN Heard(h, rd.data, rd.flags) ELSE h],
                     !.next = stream.sqn + 1, !.sentTo = net.conn[stream.comm]]
<1>1. TodoInv /\ StreamTyped /\ ReadInv /\ Do("send") /\ todo # << >> /\ rd.length > 0
  BY DEF BaseInv, Send, Do
<1>2. todo[1].do = "send" /\ Len(todo) = 1 /\ Final = "send"
  BY <1>1, FirstIs
<1>3. Sending /\ Reloading /\ Held
  BY <1>1, <1>2 DEF Sending, Reloading, Held, Under
<1>4. stream.comm \in Pcb /\ Len(rd.data) = rd.length
  BY <1>1, <1>3 DEF ReadInv, StreamTyped, Ask
<1>5. stream' = [stream EXCEPT !.sqn = @ + 1] /\ UNCHANGED <<logs, tick, burst, count>> /\ todo' \in {Reload, <<[do |-> "end"]>>}
  BY DEF Send, NumberNext
<1>6. PICK space \in Sendable :
        LET sent == space > 0 /\ Opened(stream.comm)
        IN  /\ rd' = [rd EXCEPT !.sent = @ \/ sent]
            /\ net' = IF sent THEN [net EXCEPT !.flight[stream.comm] = @ + 1] ELSE net
            /\ hist' = IF ~sent THEN hist
                       ELSE [hist EXCEPT
                         !.heard = [i \in Log |->
                             LET h == [hist.heard[i] EXCEPT !.warned = @ \/ hist.next # stream.sqn]
                             IN  IF i = rd.log THEN Heard(h, rd.data, rd.flags) ELSE h],
                         !.next = stream.sqn + 1, !.sentTo = net.conn[stream.comm]]
  BY Zenon DEF Send
<1> DEFINE sent == space > 0 /\ Opened(stream.comm)
<1>7. CASE ~sent
  <2>1. rd' = [rd EXCEPT !.sent = @ \/ FALSE] /\ net' = net /\ hist' = hist
    BY <1>6, <1>7
  <2>2. rd' = rd
    BY <1>1, <2>1 DEF StreamTyped
  <2> QED BY <1>1, <1>2, <1>3, <1>4, <1>5, <2>1, <2>2
<1>8. CASE sent
  <2>1. net.conn[stream.comm] # 0
    BY <1>8 DEF Opened
  <2>2. /\ rd' = [rd EXCEPT !.sent = TRUE]
        /\ net' = [net EXCEPT !.flight[stream.comm] = @ + 1]
        /\ hist' = [hist EXCEPT
              !.heard = [i \in Log |->
                  LET h == [hist.heard[i] EXCEPT !.warned = hist.heard[i].warned \/ hist.next # stream.sqn]
                  IN  IF i = rd.log THEN Heard(h, rd.data, rd.flags) ELSE h],
              !.next = stream.sqn + 1, !.sentTo = net.conn[stream.comm]]
    BY <1>6, <1>8
  <2> QED BY <1>1, <1>2, <1>3, <1>4, <1>5, <2>1, <2>2
<1> QED BY <1>7, <1>8

LEMMA FlightTyped ==
  ASSUME StreamTyped, NEW p \in Pcb
  PROVE  [net EXCEPT !.flight[p] = @ + 1] \in [slots : [1 .. MAX_BASE_SOCKETS -> Ask], conn : [Pcb -> Nat], flight : [Pcb -> Nat]]
<1> DEFINE f == [net.flight EXCEPT ![p] = net.flight[p] + 1]
<1>1. net \in [slots : [1 .. MAX_BASE_SOCKETS -> Ask], conn : [Pcb -> Nat], flight : [Pcb -> Nat]]
  BY DEF StreamTyped
<1>2. net.flight[p] + 1 \in Nat /\ net.flight \in [Pcb -> Nat]
  BY <1>1
<1>3. f \in [Pcb -> Nat]
  BY <1>2
<1>4. [net EXCEPT !.flight[p] = @ + 1] = [net EXCEPT !.flight = f]
  OBVIOUS
<1> HIDE DEF f
<1> QED BY <1>1, <1>3, <1>4

LEMMA BaseSend == ASSUME BaseInv, Send PROVE BaseInv'
<1>1. TodoInv /\ StreamTyped /\ ReadInv
  BY DEF BaseInv
<1>2. /\ Reloading /\ rd.length > 0 /\ Len(rd.data) = rd.length /\ stream.comm \in Pcb
      /\ stream' = [stream EXCEPT !.sqn = @ + 1]
      /\ \E t \in {<< >>, Reload, <<[do |-> "pick"]>>, <<[do |-> "end"]>>,
                    <<[do |-> "flags"], [do |-> "clear"], [do |-> "end"]>>, Reading \o <<[do |-> "send"]>>} : todo' = t
      /\ UNCHANGED <<logs, tick, burst, count>>
  BY SendIs
<1>3. TodoInv' /\ ~Under("copy")' /\ ~Under("release")' /\ ~Held'
  BY <1>2, WrittenIs
<1>4. stream' \in [comm : Ask, prime : BOOLEAN, sqn : Nat] /\ stream'.comm = stream.comm
  <2>1. stream \in [comm : Ask, prime : BOOLEAN, sqn : Nat]
    BY <1>1 DEF StreamTyped
  <2>2. stream' = [stream EXCEPT !.sqn = @ + 1]
    BY <1>2
  <2> QED BY <2>1, <2>2
<1>5. ReadInv'
  BY <1>1, <1>2, <1>3, <1>4 DEF ReadInv
<1> DEFINE Histories == [asker : Nat, orphan : BOOLEAN, heard : [Log -> Hears], next : Nat, raced : [Log -> BOOLEAN], sentTo : Nat]
           Reads == [log : Log, length : Nat, in : Cell, out : Cell, data : Seq(Sample), status : Nat, flags : BOOLEAN, sent : BOOLEAN]
           Nets == [slots : [1 .. MAX_BASE_SOCKETS -> Ask], conn : [Pcb -> Nat], flight : [Pcb -> Nat]]
<1>6. rd \in Reads /\ net \in Nets /\ hist \in Histories /\ stream.sqn \in Nat
  BY <1>1 DEF StreamTyped
<1>7. rd' \in Reads /\ net' \in Nets /\ hist' \in Histories
  <2>1. CASE rd' = rd /\ net' = net /\ hist' = hist
    BY <1>6, <2>1
  <2> DEFINE hears == [i \in Log |->
                         LET h == [hist.heard[i] EXCEPT !.warned = hist.heard[i].warned \/ hist.next # stream.sqn]
                         IN  IF i = rd.log THEN Heard(h, rd.data, rd.flags) ELSE h]
  <2>2. CASE /\ rd' = [rd EXCEPT !.sent = TRUE]
             /\ net' = [net EXCEPT !.flight[stream.comm] = @ + 1]
             /\ hist' = [hist EXCEPT !.heard = hears, !.next = stream.sqn + 1, !.sentTo = net.conn[stream.comm]]
    <3>1. ASSUME NEW i \in Log PROVE hears[i] \in Hears
      <4> DEFINE h == [hist.heard[i] EXCEPT !.warned = hist.heard[i].warned \/ hist.next # stream.sqn]
      <4>1. hist.heard[i] \in Hears
        BY <1>6
      <4>2. h \in Hears
        <5> DEFINE b == hist.heard[i].warned \/ hist.next # stream.sqn
        <5>1. b \in BOOLEAN
          BY <4>1 DEF Hears
        <5>2. [hist.heard[i] EXCEPT !.warned = b] \in Hears
          <6> HIDE DEF b
          <6> QED BY <4>1, <5>1 DEF Hears
        <5> QED BY <5>2
      <4>3. hears[i] = IF i = rd.log THEN Heard(h, rd.data, rd.flags) ELSE h
        OBVIOUS
      <4> HIDE DEF h, hears
      <4>4. Heard(h, rd.data, rd.flags) \in Hears
        BY <1>2, <1>6, <4>2, HeardTyped
      <4> QED BY <4>2, <4>3, <4>4
    <3>2. hears \in [Log -> Hears]
      BY <3>1
    <3> HIDE DEF hears
    <3>3. rd' \in Reads
      BY <1>6, <2>2
    <3>4. net' \in Nets
      <4>1. [net EXCEPT !.flight[stream.comm] = @ + 1] \in Nets
        BY <1>1, <1>2, FlightTyped
      <4> QED BY <2>2, <4>1
    <3>5. hist' \in Histories
      <4>1. net.conn[stream.comm] \in Nat /\ stream.sqn + 1 \in Nat
        BY <1>2, <1>6
      <4> QED BY <1>6, <2>2, <3>2, <4>1
    <3> QED BY <3>3, <3>4, <3>5
  <2>3. \/ rd' = rd /\ net' = net /\ hist' = hist
        \/ /\ rd' = [rd EXCEPT !.sent = TRUE]
           /\ net' = [net EXCEPT !.flight[stream.comm] = @ + 1]
           /\ hist' = [hist EXCEPT !.heard = hears, !.next = stream.sqn + 1, !.sentTo = net.conn[stream.comm]]
    BY SendIs
  <2> QED BY <2>1, <2>2, <2>3
<1>8. StreamTyped'
  BY <1>1, <1>2, <1>4, <1>7 DEF StreamTyped
<1> QED BY <1>3, <1>5, <1>8 DEF BaseInv

LEMMA BaseEnd == ASSUME BaseInv, ReloadEnd \/ Reply PROVE BaseInv'
<1>1. TodoInv /\ StreamTyped
  BY DEF BaseInv
<1>2. todo' = << >> /\ rd' = NoRead /\ UNCHANGED <<logs, tick, burst, count, hist>>
  BY DEF ReloadEnd, Reply
<1>3. TodoInv' /\ ReadInv'
  <2>1. TodoInv' /\ ~Under("copy")' /\ ~Under("release")' /\ ~Reloading'
    BY <1>2, WrittenIs DEF Reloading
  <2> QED BY <2>1, NotReading DEF ReadInv, Held, Sending, Reloading
<1>4. stream' \in [comm : Ask, prime : BOOLEAN, sqn : Nat]
  <2>1. stream' = stream \/ stream' = [stream EXCEPT !.prime = ~rd.sent]
    BY DEF ReloadEnd, Reply, PrimeNext
  <2>2. stream \in [comm : Ask, prime : BOOLEAN, sqn : Nat]
    BY <1>1 DEF StreamTyped
  <2> DEFINE b == ~rd.sent
  <2>3. b \in BOOLEAN
    OBVIOUS
  <2>4. stream' = stream \/ stream' = [stream EXCEPT !.prime = b]
    BY <2>1
  <2> HIDE DEF b
  <2> QED BY <2>2, <2>3, <2>4
<1>5. net' \in [slots : [1 .. MAX_BASE_SOCKETS -> Ask], conn : [Pcb -> Nat], flight : [Pcb -> Nat]]
  <2>1. CASE net' = net
    BY <1>1, <2>1 DEF StreamTyped
  <2>2. CASE Reply /\ net' # net
    <3>1. todo # << >> /\ Do("reply") /\ Head(todo).comm # NULL
      BY <2>2 DEF Reply, Do
    <3>2. Head(todo).comm \in Pcb
      <4>1. Head(todo) \in Step /\ Head(todo).do = "reply"
        BY <1>1, <3>1, FirstIs
      <4> QED BY <3>1, <4>1, StepIs DEF Ask
    <3>3. net' = [net EXCEPT !.flight[Head(todo).comm] = @ + 1]
      BY <2>2 DEF Reply
    <3> QED BY <1>1, <3>2, <3>3, FlightTyped
  <2>3. CASE ReloadEnd
    BY <1>1, <2>3 DEF ReloadEnd, StreamTyped
  <2> QED BY <2>1, <2>2, <2>3
<1>6. StreamTyped'
  BY <1>1, <1>2, <1>4, <1>5, NoReadTyped DEF StreamTyped
<1> QED BY <1>3, <1>6 DEF BaseInv

LEMMA BaseStutter == BaseInv /\ UNCHANGED streamVars => BaseInv'
BY DEF BaseInv, streamVars, TodoInv, StreamTyped, ReadInv, Under, Held, Sending, Reloading, Final, Waiting

LEMMA BaseNext == ASSUME BaseInv, StreamNext PROVE BaseInv'
<1>1. CASE Tick
  BY <1>1, BaseTick
<1>2. CASE CommandParser
  BY <1>2, BaseCommand
<1>3. CASE Lwip \/ Prime
  BY <1>3, BaseLwip, BaseReload DEF Lwip
<1>4. CASE Store \/ StartOrStop \/ StartStream
  BY <1>4, BaseSteps
<1>5. CASE ReadBegin \/ ReadCopy \/ ReadRelease \/ ReadLogFlags
  BY <1>5, BaseBegin, BaseCopy, BaseRelease, BaseFlags
<1>6. CASE Room \/ Pick \/ Send \/ ReloadEnd \/ Reply
  BY <1>6, BaseRoomPick, BaseSend, BaseEnd
<1> QED BY <1>1, <1>2, <1>3, <1>4, <1>5, <1>6 DEF StreamNext, MainStep

-----------------------------------------------------------------------------
(***************************************************************************)
(* AskInv: as long as the host has not closed it (orphan), the connection  *)
(* of the stream is the one that asked for it; and while the main loop     *)
(* does not work on a packet, the stream is primed or a packet is on its   *)
(* way, the acknowledgement of which primes it.                            *)
(***************************************************************************)

(* Who the answers and the stream are for. *)
LEMMA AskQuiet ==
  ASSUME AskInv, stream'.comm = stream.comm, stream'.prime = stream.prime, rd'.sent = rd.sent, Reloading' = Reloading,
         net'.conn = net.conn, net'.flight = net.flight,
         hist'.asker = hist.asker, hist'.orphan = hist.orphan, hist'.sentTo = hist.sentTo,
         \A k \in 1 .. Len(todo') : \/ todo'[k].do \notin {"stream", "reply"}
                                   \/ \E m \in 1 .. Len(todo) : todo'[k] = todo[m]
  PROVE  AskInv'
<1>1. \A k \in 1 .. Len(todo') : todo'[k].do \in {"stream", "reply"} /\ todo'[k].comm # NULL => net'.conn[todo'[k].comm] # 0
  BY DEF AskInv
<1> QED BY <1>1 DEF AskInv

LEMMA AskInit == StreamInit => AskInv
BY DEF StreamInit, AskInv, Reloading

LEMMA AskSteps ==
  ASSUME BaseInv, AskInv, Store \/ StartOrStop \/ ReadBegin \/ ReadCopy \/ ReadRelease \/ ReadLogFlags PROVE AskInv'
<1>1. TodoInv /\ StreamTyped /\ todo # << >> /\ todo[1].do \notin {"reply", "room", "pick", "send", "end"} /\ Then(<< >>)
  <2>1. TodoInv /\ StreamTyped
    BY DEF BaseInv
  <2>2. /\ todo # << >> /\ Then(<< >>)
        /\ \/ Do("store") \/ Do("start") \/ Do("stop") \/ Do("begin") \/ Do("copy") \/ Do("release") \/ Do("flags") \/ Do("clear")
    BY DEF Store, StartOrStop, ReadBegin, ReadCopy, ReadRelease, ReadLogFlags, Do
  <2>3. todo[1].do \in {"store", "start", "stop", "begin", "copy", "release", "flags", "clear"}
    BY <2>1, <2>2, FirstIs
  <2> QED BY <2>1, <2>2, <2>3
<1>2. UNCHANGED <<stream, net, hist>>
  BY DEF Store, StartOrStop, ReadBegin, ReadCopy, ReadRelease, ReadLogFlags
<1>3. rd'.sent = rd.sent
  <2>1. DOMAIN rd = {"log", "length", "in", "out", "data", "status", "flags", "sent"}
    BY <1>1 DEF StreamTyped
  <2> QED BY <2>1 DEF Store, StartOrStop, ReadBegin, ReadCopy, ReadRelease, ReadLogFlags
<1>4. Reloading' = Reloading /\ \A k \in 1 .. Len(todo') : todo'[k] = todo[k + 1] /\ k + 1 \in 1 .. Len(todo)
  BY <1>1, Onwards
<1> QED BY <1>2, <1>3, <1>4, AskQuiet

LEMMA AskTick == ASSUME AskInv, Tick PROVE AskInv'
<1>1. UNCHANGED <<todo, rd, stream, net, hist>>
  BY DEF Tick
<1>2. Reloading' = Reloading
  BY <1>1 DEF Reloading, Final
<1> QED BY <1>1, <1>2, AskQuiet

LEMMA AskRoomPick == ASSUME BaseInv, AskInv, Room \/ Pick PROVE AskInv'
<1>1. /\ TodoInv /\ StreamTyped /\ todo # << >> /\ (Do("room") \/ Do("pick")) /\ UNCHANGED <<stream, net, hist>>
      /\ \E t \in {<< >>, Reload, <<[do |-> "pick"]>>, <<[do |-> "end"]>>,
                    <<[do |-> "flags"], [do |-> "clear"], [do |-> "end"]>>, Reading \o <<[do |-> "send"]>>} :
             todo' = t /\ t # << >>
  <2>1. Reading \o <<[do |-> "send"]>> # << >>
    <3>1. Reading \in Seq({[do |-> "begin"], [do |-> "copy"], [do |-> "release"], [do |-> "flags"], [do |-> "clear"], [do |-> "send"]})
          /\ Reading # << >>
      BY DEF Reading
    <3> QED BY <3>1, AppendFirst
  <2> QED BY <2>1 DEF BaseInv, Room, Pick, Do
<1>2. Reloading' /\ \A k \in 1 .. Len(todo') : todo'[k].do \notin {"stream", "reply"}
  BY <1>1, WrittenIs
<1>3. Reloading
  BY <1>1, FirstIs DEF Reloading
<1>4. rd'.sent = rd.sent
  <2>1. DOMAIN rd = {"log", "length", "in", "out", "data", "status", "flags", "sent"}
    BY <1>1 DEF StreamTyped
  <2> QED BY <2>1 DEF Room, Pick
<1> QED BY <1>1, <1>2, <1>3, <1>4, AskQuiet

LEMMA AskSend == ASSUME BaseInv, AskInv, Send PROVE AskInv'
<1>1. StreamTyped /\ TodoInv
  BY DEF BaseInv
<1>2. /\ Reloading /\ stream.comm \in Pcb /\ stream' = [stream EXCEPT !.sqn = @ + 1]
      /\ \E t \in {<< >>, Reload, <<[do |-> "pick"]>>, <<[do |-> "end"]>>,
                    <<[do |-> "flags"], [do |-> "clear"], [do |-> "end"]>>, Reading \o <<[do |-> "send"]>>} :
             todo' = t /\ t # << >>
  BY SendIs DEF Reload
<1>3. Reloading' /\ \A k \in 1 .. Len(todo') : todo'[k].do \notin {"stream", "reply"}
  BY <1>2, WrittenIs
<1>4. stream'.comm = stream.comm /\ stream'.prime = stream.prime
  BY <1>1, <1>2 DEF StreamTyped
<1>5. CASE rd' = rd /\ net' = net /\ hist' = hist
  BY <1>2, <1>3, <1>4, <1>5, AskQuiet
<1> DEFINE hears == [i \in Log |->
                       LET h == [hist.heard[i] EXCEPT !.warned = hist.heard[i].warned \/ hist.next # stream.sqn]
                       IN  IF i = rd.log THEN Heard(h, rd.data, rd.flags) ELSE h]
<1>6. CASE /\ net.conn[stream.comm] # 0
           /\ net' = [net EXCEPT !.flight[stream.comm] = @ + 1]
           /\ hist' = [hist EXCEPT !.heard = hears, !.next = stream.sqn + 1, !.sentTo = net.conn[stream.comm]]
  <2> HIDE DEF hears
  <2>1. hist'.asker = hist.asker /\ hist'.orphan = hist.orphan /\ hist'.sentTo = net.conn[stream.comm]
    BY <1>1, <1>6 DEF StreamTyped
  <2>2. net'.conn = net.conn /\ net'.flight[stream.comm] = net.flight[stream.comm] + 1 /\ net.flight[stream.comm] \in Nat
    <3>1. net \in [slots : [1 .. MAX_BASE_SOCKETS -> Ask], conn : [Pcb -> Nat], flight : [Pcb -> Nat]]
      BY <1>1 DEF StreamTyped
    <3> QED BY <1>2, <1>6, <3>1
  <2>3. net'.flight[stream.comm] > 0
    BY <2>2
  <2>4. stream.comm # NULL
    BY <1>2, BasicStreamAssumption
  <2>5. ~hist.orphan => net.conn[stream.comm] = hist.asker
    BY <2>4 DEF AskInv
  <2> QED BY <1>3, <1>4, <1>6, <2>1, <2>2, <2>3, <2>5 DEF AskInv
<1>7. \/ rd' = rd /\ net' = net /\ hist' = hist
      \/ /\ net.conn[stream.comm] # 0
         /\ net' = [net EXCEPT !.flight[stream.comm] = @ + 1]
         /\ hist' = [hist EXCEPT !.heard = hears, !.next = stream.sqn + 1, !.sentTo = net.conn[stream.comm]]
  BY SendIs
<1> QED BY <1>5, <1>6, <1>7

LEMMA AskEnd == ASSUME BaseInv, AskInv, ReloadEnd \/ Reply PROVE AskInv'
<1>1. StreamTyped /\ TodoInv /\ todo' = << >> /\ rd' = NoRead /\ hist' = hist /\ todo # << >> /\ ~Reloading'
  BY DEF BaseInv, ReloadEnd, Reply, Do, Reloading
<1>2. CASE ReloadEnd
  <2>1. Reloading /\ net' = net
    BY <1>1, <1>2, FirstIs DEF ReloadEnd, Reloading
  <2>2. stream'.comm = stream.comm /\ stream'.prime = ~rd.sent
    <3>1. stream \in [comm : Ask, prime : BOOLEAN, sqn : Nat]
      BY <1>1 DEF StreamTyped
    <3> DEFINE b == ~rd.sent
    <3>2. stream' = [stream EXCEPT !.prime = b]
      BY <1>2 DEF ReloadEnd, PrimeNext
    <3> HIDE DEF b
    <3>3. stream'.comm = stream.comm /\ stream'.prime = b
      BY <3>1, <3>2
    <3> QED BY <3>3 DEF b
  <2>3. stream'.prime \/ net.flight[stream.comm] > 0
    <3>1. rd.sent => net.flight[stream.comm] > 0
      BY <2>1 DEF AskInv
    <3>2. ~rd.sent => stream'.prime
      BY <2>2, Zenon
    <3> QED BY <3>1, <3>2
  <2>4. stream'.comm = stream.comm
    BY <2>2
  <2> HIDE <2>2
  <2> QED BY <1>1, <2>1, <2>3, <2>4 DEF AskInv
<1>3. CASE Reply
  <2>1. ~Reloading /\ stream' = stream
    BY <1>1, <1>3, FirstIs DEF Reply, Reloading
  <2> DEFINE c == Head(todo).comm
  <2>2. c \in Ask
    BY <1>1, <1>3, FirstIs, StepIs DEF Reply
  <2>3. net' = net \/ (c \in Pcb /\ net' = [net EXCEPT !.flight[c] = @ + 1])
    BY <1>3, <2>2 DEF Reply, Ask
  <2> HIDE DEF c
  <2>4. /\ net'.conn = net.conn
        /\ \A p \in Pcb : net.flight[p] > 0 => net'.flight[p] > 0
    <3>1. net \in [slots : [1 .. MAX_BASE_SOCKETS -> Ask], conn : [Pcb -> Nat], flight : [Pcb -> Nat]]
      BY <1>1 DEF StreamTyped
    <3>2. CASE c \in Pcb /\ net' = [net EXCEPT !.flight[c] = @ + 1]
      <4>1. net'.conn = net.conn /\ \A p \in Pcb : net'.flight[p] = IF p = c THEN net.flight[c] + 1 ELSE net.flight[p]
        BY <3>1, <3>2
      <4>2. \A p \in Pcb : net.flight[p] \in Nat
        BY <3>1
      <4> QED BY <4>1, <4>2
    <3> QED BY <2>3, <3>2
  <2>5. stream.comm \in Pcb \/ stream.comm = NULL
    BY <1>1 DEF StreamTyped, Ask
  <2> QED BY <1>1, <2>1, <2>4, <2>5 DEF AskInv
<1> QED BY <1>2, <1>3

LEMMA AskStartStream == ASSUME BaseInv, AskInv, StartStream PROVE AskInv'
<1>1. StreamTyped /\ TodoInv /\ todo # << >> /\ Then(<< >>) /\ Do("stream")
  BY DEF BaseInv, StartStream, Do
<1>2. Head(todo) = todo[1] /\ todo[1].do = "stream" /\ todo[1] \in Step /\ Len(todo) \in Nat \ {0}
  BY <1>1, FirstIs
<1> DEFINE comm == todo[1].comm
           heard == [i \in Log |-> [Unheard EXCEPT !.warned = Incomplete(logs[i], tick)]]
<1>3. /\ stream' = [comm |-> comm, prime |-> TRUE, sqn |-> 1]
      /\ hist' = [hist EXCEPT !.asker = IF comm = NULL THEN 0 ELSE net.conn[comm], !.orphan = FALSE,
                              !.heard = heard, !.next = 1, !.sentTo = 0]
      /\ net' = net
  BY <1>2 DEF StartStream
<1>4. ~Reloading' /\ \A k \in 1 .. Len(todo') : todo'[k] = todo[k + 1] /\ k + 1 \in 1 .. Len(todo)
  <2>1. Final' = Final /\ Final = "reply" /\ \A k \in 1 .. Len(todo') : todo'[k] = todo[k + 1] /\ k + 1 \in 1 .. Len(todo)
    BY <1>1, <1>2, Onwards, NextOp
  <2> QED BY <2>1 DEF Reloading
<1>5. comm # NULL => net.conn[comm] # 0
  <2>1. 1 \in 1 .. Len(todo)
    BY <1>2
  <2> QED BY <1>2, <2>1 DEF AskInv
<1> HIDE DEF heard
<1>6. hist'.asker = (IF comm = NULL THEN 0 ELSE net.conn[comm]) /\ hist'.orphan = FALSE /\ hist'.sentTo = 0
  BY <1>1, <1>3 DEF StreamTyped
<1> HIDE DEF comm
<1>7. stream'.comm = comm /\ stream'.prime
  BY <1>3
<1>8. \A k \in 1 .. Len(todo') : todo'[k].do \in {"stream", "reply"} /\ todo'[k].comm # NULL => net'.conn[todo'[k].comm] # 0
  BY <1>3, <1>4 DEF AskInv
<1> QED BY <1>3, <1>4, <1>5, <1>6, <1>7, <1>8 DEF AskInv

LEMMA AskCommand == ASSUME BaseInv, AskInv, CommandParser PROVE AskInv'
<1>1. StreamTyped /\ TodoInv
  BY DEF BaseInv
<1>2. ASSUME todo = << >>, NEW comm, comm # NULL => net.conn[comm] # 0, ~Reloading', net' = net,
             stream' = stream \/ stream'.comm = NULL,
             hist'.asker = hist.asker, hist'.orphan = hist.orphan, hist'.sentTo = hist.sentTo,
             \A k \in 1 .. Len(todo') : todo'[k].do \in {"stream", "reply"} => todo'[k].comm = comm
      PROVE  AskInv'
  <2>1. ~Reloading
    BY <1>2 DEF Reloading
  <2>2. \A k \in 1 .. Len(todo') : todo'[k].do \in {"stream", "reply"} /\ todo'[k].comm # NULL => net'.conn[todo'[k].comm] # 0
    BY <1>2
  <2> QED BY <1>2, <2>1, <2>2 DEF AskInv
<1>3. DOMAIN hist = {"asker", "orphan", "heard", "next", "raced", "sentTo"}
  BY <1>1 DEF StreamTyped
<1>4. ASSUME NEW comm, CmdLS(comm) \/ CmdLFS(comm) \/ CmdLFH(comm) PROVE AskInv'
  <2>1. stream' = stream \/ stream'.comm = NULL
    BY <1>1, <1>4 DEF CmdLS, CmdLFS, CmdLFH, StreamTyped
  <2>2. /\ todo = << >> /\ (comm # NULL => net.conn[comm] # 0) /\ ~Reloading' /\ net' = net /\ hist' = hist
        /\ \A k \in 1 .. Len(todo') : todo'[k].do \in {"stream", "reply"} => todo'[k].comm = comm
    BY <1>1, <1>4, StartsBegin
  <2> QED BY <1>2, <2>1, <2>2
<1>5. ASSUME NEW comm, NEW i \in Log, CmdLFR(comm, i) PROVE AskInv'
  <2>1. PICK ops : Command(comm, ops) /\ (ops = Reading \/ ops = <<[do |-> "flags"], [do |-> "clear"]>>)
    BY <1>5 DEF CmdLFR
  <2>2. comm \in Ask /\ (comm # NULL => net.conn[comm] # 0)
    BY <1>1, <2>1, CommandTyped
  <2>3. /\ ~Reloading' /\ todo = << >>
        /\ \A k \in 1 .. Len(todo') : todo'[k].do \in {"stream", "reply"} => todo'[k] = [do |-> "reply", comm |-> comm]
    BY <2>1, <2>2, BeginReading
  <2>4. net' = net /\ stream' = stream /\ hist' = [hist EXCEPT !.heard[i].warned = TRUE]
    BY <1>5 DEF CmdLFR
  <2>5. hist'.asker = hist.asker /\ hist'.orphan = hist.orphan /\ hist'.sentTo = hist.sentTo
    BY <1>3, <2>4
  <2>6. \A k \in 1 .. Len(todo') : todo'[k].do \in {"stream", "reply"} => todo'[k].comm = comm
    BY <2>3
  <2> QED BY <1>2, <2>2, <2>3, <2>4, <2>5, <2>6
<1>6. ASSUME NEW comm, NEW i \in Log, NEW v \in Variables, NEW s \in Modes, CmdLM(comm, i, v, s) PROVE AskInv'
  <2>1. comm \in Ask /\ (comm # NULL => net.conn[comm] # 0)
    BY <1>1, <1>6, CommandTyped DEF CmdLM
  <2>2. /\ ~Reloading' /\ todo = << >> /\ Len(todo') = 7 /\ todo'[Len(todo')] = [do |-> "reply", comm |-> comm]
        /\ \A k \in 1 .. 6 : todo'[k].do = "store"
    BY <1>6, <2>1, BeginLM
  <2>3. net' = net /\ stream' = stream /\ hist' = [hist EXCEPT !.heard[i] = Unheard, !.raced[i] = logs[i].LogStatus = "logging"]
    BY <1>6 DEF CmdLM
  <2>4. hist'.asker = hist.asker /\ hist'.orphan = hist.orphan /\ hist'.sentTo = hist.sentTo
    BY <1>3, <2>3
  <2>5. \A k \in 1 .. Len(todo') : todo'[k].do \in {"stream", "reply"} => todo'[k].comm = comm
    <3>1. \A k \in 1 .. Len(todo') : k \in 1 .. 6 \/ k = Len(todo')
      BY <2>2
    <3> QED BY <2>2, <3>1
  <2> QED BY <1>2, <2>1, <2>2, <2>3, <2>4, <2>5
<1> QED BY <1>4, <1>5, <1>6 DEF CommandParser

LEMMA AskLwip == ASSUME BaseInv, AskInv, Lwip \/ Prime PROVE AskInv'
<1>1. StreamTyped /\ TodoInv /\ todo = << >> /\ ~Reloading
  BY DEF BaseInv, Lwip, Prime, accept_callback, CloseInReceive, tcpip_disconnect_callback, sent_callback, Idle, Reloading
<1>2. /\ stream.comm \in Pcb \/ stream.comm = NULL
      /\ net \in [slots : [1 .. MAX_BASE_SOCKETS -> Ask], conn : [Pcb -> Nat], flight : [Pcb -> Nat]]
      /\ hist \in [asker : Nat, orphan : BOOLEAN, heard : [Log -> Hears], next : Nat, raced : [Log -> BOOLEAN], sentTo : Nat]
      /\ stream \in [comm : Ask, prime : BOOLEAN, sqn : Nat]
  BY <1>1 DEF StreamTyped, Ask
<1>3. CASE Prime
  <2>1. todo' = Reload /\ rd' = NoRead /\ UNCHANGED <<stream, net, hist>>
    BY <1>3 DEF Prime
  <2>2. todo' # << >> /\ Reloading' /\ \A k \in 1 .. Len(todo') : todo'[k].do \notin {"stream", "reply"}
    <3>1. todo' # << >>
      BY <2>1 DEF Reload
    <3> QED BY <2>1, <3>1, WrittenIs
  <2>3. ~rd'.sent
    BY <2>1 DEF NoRead
  <2> QED BY <2>1, <2>2, <2>3 DEF AskInv
<1>4. ASSUME NEW p \in Pcb, sent_callback(p) PROVE AskInv'
  <2>1. /\ todo' = (IF stream.comm = p THEN Reload ELSE << >>) /\ rd' = NoRead /\ UNCHANGED <<stream, hist>>
        /\ net' = [net EXCEPT !.flight[p] = @ - 1]
    BY <1>4 DEF sent_callback
  <2>2. /\ todo' # << >> => Reloading'
        /\ \A k \in 1 .. Len(todo') : todo'[k].do \notin {"stream", "reply"}
        /\ todo' # << >> <=> stream.comm = p
    <3>1. Reload # << >>
      BY DEF Reload
    <3> QED BY <2>1, <3>1, WrittenIs
  <2>3. ~rd'.sent
    BY <2>1 DEF NoRead
  <2>4. net'.conn = net.conn /\ \A r \in Pcb : r # p => net'.flight[r] = net.flight[r]
    BY <1>2, <2>1
  <2>5. CASE stream.comm = p
    BY <2>1, <2>2, <2>3, <2>4, <2>5 DEF AskInv
  <2>6. CASE stream.comm # p
    <3>1. ~Reloading'
      BY <2>2, <2>6 DEF Reloading
    <3> QED BY <1>1, <1>2, <2>1, <2>2, <2>3, <2>4, <2>6, <3>1 DEF AskInv
  <2> QED BY <2>5, <2>6
<1>5. ASSUME NEW p \in Pcb, accept_callback(p) \/ CloseInReceive(p) \/ tcpip_disconnect_callback(p) PROVE AskInv'
  <2>1. todo' = << >> /\ rd' = rd /\ ~Reloading'
    BY <1>1, <1>5 DEF accept_callback, CloseInReceive, tcpip_disconnect_callback, Reloading
  <2>2. \A r \in Pcb : r # p => net'.conn[r] = net.conn[r] /\ net'.flight[r] = net.flight[r]
    <3>1. \E sl, c : net' = [net EXCEPT !.slots = sl, !.conn[p] = c, !.flight[p] = 0]
      BY <1>5 DEF accept_callback, CloseInReceive, tcpip_disconnect_callback, Gone
    <3>2. PICK sl, c : net' = [net EXCEPT !.slots = sl, !.conn[p] = c, !.flight[p] = 0]
      BY <3>1
    <3> QED BY <1>2, <3>2
  <2>3. CASE accept_callback(p)
    <3>1. net.conn[p] = 0 /\ UNCHANGED <<stream, hist>>
      BY <2>3 DEF accept_callback, Opened
    <3>2. stream.comm # NULL /\ ~hist.orphan => stream.comm # p
      BY <3>1 DEF AskInv
    <3> QED BY <1>1, <1>2, <2>1, <2>2, <3>1, <3>2 DEF AskInv
  <2>4. CASE CloseInReceive(p)
    <3>1. stream' = stream /\ hist' = [hist EXCEPT !.orphan = @ \/ stream.comm = p]
      BY <2>4 DEF CloseInReceive
    <3>2. /\ hist'.asker = hist.asker /\ hist'.sentTo = hist.sentTo
          /\ ~hist'.orphan => ~hist.orphan /\ stream.comm # p
      BY <1>2, <3>1
    <3> QED BY <1>1, <1>2, <2>1, <2>2, <3>1, <3>2 DEF AskInv
  <2>5. CASE tcpip_disconnect_callback(p)
    <3>1. stream' = [stream EXCEPT !.comm = IF stream.comm = p THEN NULL ELSE stream.comm] /\ hist' = hist
      BY <2>5 DEF tcpip_disconnect_callback, StreamStopped
    <3>2. /\ stream'.comm = NULL \/ (stream'.comm = stream.comm /\ stream.comm # p)
          /\ stream'.prime = stream.prime
      BY <1>2, <3>1
    <3> QED BY <1>1, <1>2, <2>1, <2>2, <3>1, <3>2 DEF AskInv
  <2> QED BY <1>5, <2>3, <2>4, <2>5
<1> QED BY <1>3, <1>4, <1>5 DEF Lwip

LEMMA AskNext == ASSUME BaseInv, AskInv, StreamNext PROVE AskInv'
<1>1. CASE Tick
  BY <1>1, AskTick
<1>2. CASE CommandParser
  BY <1>2, AskCommand
<1>3. CASE Lwip \/ Prime
  BY <1>3, AskLwip
<1>4. CASE Store \/ StartOrStop \/ ReadBegin \/ ReadCopy \/ ReadRelease \/ ReadLogFlags
  BY <1>4, AskSteps
<1>5. CASE StartStream
  BY <1>5, AskStartStream
<1>6. CASE Room \/ Pick \/ Send \/ ReloadEnd \/ Reply
  BY <1>6, AskRoomPick, AskSend, AskEnd
<1> QED BY <1>1, <1>2, <1>3, <1>4, <1>5, <1>6 DEF StreamNext, MainStep

LEMMA AskStutter == AskInv /\ UNCHANGED streamVars => AskInv'
BY DEF AskInv, streamVars, Reloading, Final

(***************************************************************************)
(* Packets go to the connection that sent LFS, never to one that came      *)
(* later on the same control block, and with data to send the stream is    *)
(* primed or waits for an acknowledgement that is to come, as long as the  *)
(* host does not close the connection: then close, which lwIP calls,       *)
(* leaves StreamFIFOComm as it is. For any number of connections, logs and *)
(* packets, whatever order the callbacks come in.                          *)
(***************************************************************************)
THEOREM StreamGoesToTheAsker == EitherSpec => []StreamReachesTheAsker
<1>1. Either => BaseInv /\ AskInv
  BY BaseInit, AskInit DEF Either
<1>2. BaseInv /\ AskInv /\ [EitherNext]_<<session, controlVars, streamVars>> => (BaseInv /\ AskInv)'
  <2> SUFFICES ASSUME BaseInv, AskInv, [EitherNext]_<<session, controlVars, streamVars>> PROVE (BaseInv /\ AskInv)'
    OBVIOUS
  <2>1. CASE StreamNext
    BY <2>1, BaseNext, AskNext
  <2>2. CASE UNCHANGED streamVars
    BY <2>2, BaseStutter, AskStutter
  <2> QED BY <2>1, <2>2 DEF EitherNext
<1>3. BaseInv /\ AskInv => StreamReachesTheAsker
  BY DEF BaseInv, AskInv, StreamReachesTheAsker, StreamNeverStalls, StreamsToTheAsker, Idle, Reloading
<1> QED BY <1>1, <1>2, <1>3, PTL DEF EitherSpec

-----------------------------------------------------------------------------
(***************************************************************************)
(* LogInv: what waits in a log is of its variable. LM stores the fields    *)
(* one by one; SetInv says how far it has come with a log that does not    *)
(* log. Of one that does (raced in the history) the interrupt may log      *)
(* between two stores: that is left to LateInv.                            *)
(***************************************************************************)

(* The samples of a log are of its variable. *)
LEMMA HoldSame ==
  ASSUME NEW i \in Log, HoldInv(i), logs'[i] = logs[i],
         hist'.heard[i].last = hist.heard[i].last \/ hist'.heard[i].last.var = NULL, Taken(i) => Taken(i)'
  PROVE  HoldInv(i)'
<1>1. Waiting(i)' = Waiting(i) /\ \A k : Entry(i, k)' = Entry(i, k)
  BY DEF Waiting, Entry
<1> QED BY <1>1 DEF HoldInv

LEMMA LogQuiet ==
  ASSUME LogInv, logs' = logs, hist'.raced = hist.raced, ~Under("store"), ~Under("store")',
         \A i \in Log : hist'.heard[i].last = hist.heard[i].last \/ hist'.heard[i].last.var = NULL,
         \A i \in Log : Taken(i) => Taken(i)',
         Sending' => Readable(logs[rd'.log])
  PROVE  LogInv'
<1>1. ASSUME NEW i \in Log, ~hist'.raced[i] PROVE ~Setting(i)' /\ HoldInv(i)'
  <2>1. ~Setting(i) /\ ~Setting(i)'
    BY DEF Setting
  <2>2. HoldInv(i)
    BY <1>1, <2>1 DEF LogInv
  <2>3. HoldInv(i)'
    BY <2>2, HoldSame
  <2> QED BY <2>1, <2>3
<1> QED BY <1>1 DEF LogInv

LEMMA LogInit == StreamInit => LogInv
<1> SUFFICES ASSUME StreamInit PROVE LogInv
  OBVIOUS
<1>1. ~Sending /\ \A i \in Log : ~Setting(i)
  BY DEF StreamInit, Sending, Setting, Under
<1>2. ASSUME NEW i \in Log PROVE HoldInv(i)
  <2>1. logs[i] = EmptyLog /\ hist.heard[i] = Unheard
    BY DEF StreamInit
  <2>2. Waiting(i) = 0
    BY <2>1 DEF Waiting, LogDataAvail, EmptyLog
  <2>3. ~logs[i].Flags /\ hist.heard[i].last.var = NULL
    BY <2>1 DEF EmptyLog, Unheard, NoSample
  <2> QED BY <2>2, <2>3 DEF HoldInv
<1> QED BY <1>1, <1>2 DEF LogInv

LEMMA LogTick == ASSUME BaseInv, LogInv, Tick PROVE LogInv'
<1>1. StreamTyped /\ TodoInv
  BY DEF BaseInv
<1>2. /\ UNCHANGED <<todo, rd, hist>> /\ tick + 1 \in Nat
      /\ \A i \in Log : logs'[i] = DoLogging(logs[i], tick + 1) /\ logs[i] \in LogType
  BY <1>1 DEF Tick, StreamTyped
<1>3. \A i \in Log : (Setting(i)' <=> Setting(i)) /\ (Taken(i)' <=> Taken(i))
  BY <1>2 DEF Setting, Taken, Under
<1>4. Sending' => Readable(logs'[rd'.log])
  <2> DEFINE old == logs[rd.log]
             new == logs'[rd.log]
  <2>1. old \in LogType /\ new = DoLogging(old, tick + 1)
    BY <1>1, <1>2 DEF StreamTyped
  <2>2. Sending' => Readable(old)
    BY <1>2 DEF LogInv, Sending, Final
  <2> HIDE DEF old, new
  <2>3. Readable(old) => Readable(new)
    BY <1>2, <2>1, DoLoggingIs DEF Readable
  <2> QED BY <1>2, <2>2, <2>3 DEF new
<1>5. ASSUME NEW i \in Log, ~hist.raced[i] PROVE IF Setting(i) THEN SetInv(i)' ELSE HoldInv(i)'
  <2> DEFINE old == logs[i]
             new == logs'[i]
             n == LogDataAvail(old)
  <2>1. old \in LogType /\ new = DoLogging(old, tick + 1)
    BY <1>2
  <2>2. CASE Setting(i)
    <3>1. SetInv(i)
      BY <1>5, <2>2 DEF LogInv
    <3>2. new = old
      BY <3>1, <2>1 DEF SetInv, DoLogging
    <3> QED BY <1>2, <2>2, <3>1, <3>2 DEF SetInv
  <2>3. CASE ~Setting(i)
    <3>1. HoldInv(i)
      BY <1>5, <2>3 DEF LogInv
    <3>2. CASE new = old
      BY <1>2, <1>3, <2>3, <3>1, <3>2, HoldSame
    <3>3. CASE new # old
      <4>1. /\ \A k \in 1 .. n : Kth(old, k).var = old.VarToLog
            /\ old.Flags /\ ~Taken(i) => n = LOG_LENGTH - 1
        BY <3>1 DEF HoldInv, Waiting, Entry
      <4> HIDE DEF old, new
      <4>2. /\ new \in LogType /\ n \in Nat /\ new.VarToLog = old.VarToLog /\ old.LogStatus = "logging"
            /\ \A k \in 1 .. n : Kth(new, k) = Kth(old, k)
            /\ \/ /\ LogDataAvail(new) = n + 1 /\ new.Flags = old.Flags /\ new.LogStatus = old.LogStatus
                  /\ Kth(new, n + 1) = [var |-> old.VarToLog, at |-> tick + 1]
               \/ /\ LogDataAvail(new) = n /\ n = LOG_LENGTH - 1
                  /\ new.LogStatus = "done" \/ new.LogStatus = old.LogStatus
        BY <1>2, <2>1, <3>3, DoLoggingIs
      <4>3. LogDataAvail(new) \in 0 .. LOG_LENGTH - 1 /\ LOG_LENGTH \in Nat
        BY <4>2, AvailIs
      <4>4. \A k \in 1 .. LogDataAvail(new) : Kth(new, k).var = new.VarToLog
        <5> TAKE k \in 1 .. LogDataAvail(new)
        <5>1. k \in 1 .. n \/ (k = n + 1 /\ LogDataAvail(new) = n + 1)
          BY <4>2
        <5> QED BY <4>1, <4>2, <5>1
      <4>5. new.Flags /\ ~Taken(i) => LogDataAvail(new) = LOG_LENGTH - 1
        <5>1. CASE LogDataAvail(new) = n + 1 /\ new.Flags = old.Flags
          <6>1. n # LOG_LENGTH - 1
            BY <4>2, <4>3, <5>1
          <6> QED BY <4>1, <5>1, <6>1, Zenon
        <5> QED BY <4>2, <5>1
      <4>6. new.LogStatus \notin {"idle", "ready"}
        BY <4>2
      <4> QED BY <1>3, <2>3, <4>4, <4>5, <4>6 DEF HoldInv, Waiting, Entry, new
    <3> QED BY <2>3, <3>2, <3>3
  <2> QED BY <2>2, <2>3
<1> QED BY <1>2, <1>3, <1>4, <1>5 DEF LogInv

LEMMA LogLwip == ASSUME BaseInv, LogInv, Lwip \/ Prime PROVE LogInv'
<1>1. StreamTyped /\ TodoInv /\ todo = << >> /\ logs' = logs
  BY DEF BaseInv, Lwip, Prime, accept_callback, CloseInReceive, tcpip_disconnect_callback, sent_callback, Idle
<1>2. todo' \in {<< >>, Reload}
  BY <1>1 DEF Lwip, Prime, accept_callback, CloseInReceive, tcpip_disconnect_callback, sent_callback
<1>3. ~Under("store") /\ ~Under("store")' /\ ~Sending' /\ \A i \in Log : ~Taken(i)
  BY <1>1, <1>2 DEF Under, Sending, Final, Reload, Taken
<1>4. hist'.raced = hist.raced /\ hist'.heard = hist.heard
  <2>1. hist' = hist \/ \E p \in Pcb : hist' = [hist EXCEPT !.orphan = @ \/ stream.comm = p]
    BY DEF Lwip, Prime, accept_callback, CloseInReceive, tcpip_disconnect_callback, sent_callback
  <2>2. DOMAIN hist = {"asker", "orphan", "heard", "next", "raced", "sentTo"}
    BY <1>1 DEF StreamTyped
  <2> QED BY <2>1, <2>2
<1> QED BY <1>1, <1>3, <1>4, LogQuiet

LEMMA LogCommand == ASSUME BaseInv, LogInv, CommandParser PROVE LogInv'
<1>1. StreamTyped /\ TodoInv
  BY DEF BaseInv
<1>2. hist \in [asker : Nat, orphan : BOOLEAN, heard : [Log -> Hears], next : Nat, raced : [Log -> BOOLEAN], sentTo : Nat]
  BY <1>1 DEF StreamTyped
<1>3. ASSUME todo = << >> PROVE ~Under("store") /\ \A i \in Log : ~Taken(i) /\ ~Setting(i)
  BY <1>3 DEF Under, Taken, Setting
<1>4. ASSUME NEW comm, CmdLS(comm) \/ CmdLFS(comm) \/ CmdLFH(comm) PROVE LogInv'
  <2>1. /\ todo = << >> /\ ~Reloading' /\ hist' = hist /\ logs' = logs
        /\ todo' # << >> /\ todo'[1].do \in {"start", "stop", "stream", "reply"}
    BY <1>1, <1>4, StartsBegin
  <2>2. ~Under("store")' /\ ~Sending'
    BY <2>1 DEF Under, Sending, Reloading
  <2> QED BY <1>3, <2>1, <2>2, LogQuiet
<1>5. ASSUME NEW comm, NEW i \in Log, CmdLFR(comm, i) PROVE LogInv'
  <2>1. PICK ops : Command(comm, ops) /\ (ops = Reading \/ ops = <<[do |-> "flags"], [do |-> "clear"]>>)
    BY <1>5 DEF CmdLFR
  <2>2. comm \in Ask
    BY <1>1, <2>1, CommandTyped
  <2>3. ~Reloading' /\ todo = << >> /\ todo' # << >> /\ todo'[1].do \in {"begin", "flags"}
    BY <2>1, <2>2, BeginReading
  <2>4. logs' = logs /\ hist' = [hist EXCEPT !.heard[i].warned = TRUE]
    BY <1>5 DEF CmdLFR
  <2>5. hist'.raced = hist.raced /\ \A j \in Log : hist'.heard[j].last = hist.heard[j].last
    <3>1. \A j \in Log : hist'.heard[j] = IF j = i THEN [hist.heard[i] EXCEPT !.warned = TRUE] ELSE hist.heard[j]
      BY <1>2, <2>4
    <3>2. hist.heard[i] \in Hears
      BY <1>2
    <3>3. [hist.heard[i] EXCEPT !.warned = TRUE].last = hist.heard[i].last
      BY <3>2 DEF Hears
    <3>4. hist'.raced = hist.raced
      BY <1>2, <2>4
    <3> QED BY <3>1, <3>3, <3>4
  <2>6. ~Under("store")' /\ ~Sending'
    BY <2>3 DEF Under, Sending, Reloading
  <2> QED BY <1>3, <2>3, <2>4, <2>5, <2>6, LogQuiet
<1>6. ASSUME NEW comm, NEW i \in Log, NEW v \in Variables, NEW s \in Modes, CmdLM(comm, i, v, s) PROVE LogInv'
  <2>1. comm \in Ask
    BY <1>1, <1>6, CommandTyped DEF CmdLM
  <2>2. /\ ~Reloading' /\ todo = << >> /\ Len(todo') = 7 /\ todo' # << >> /\ todo'[1].do = "store"
        /\ todo'[1].what[1] = i
    <3>1. \A k \in 1 .. 6 : todo'[k].do = "store"
      BY <1>6, <2>1, BeginLM
    <3>2. ~Reloading' /\ todo = << >> /\ Len(todo') = 7 /\ todo' # << >> /\ todo'[1].what[1] = i
      BY <1>6, <2>1, BeginLM
    <3> QED BY <3>1, <3>2
  <2>3. /\ logs' = logs /\ rd' = rd
        /\ hist' = [hist EXCEPT !.heard[i] = Unheard, !.raced[i] = logs[i].LogStatus = "logging"]
    BY <1>6 DEF CmdLM
  <2>4. /\ \A j \in Log : hist'.heard[j] = IF j = i THEN Unheard ELSE hist.heard[j]
        /\ \A j \in Log : hist'.raced[j] = IF j = i THEN logs[i].LogStatus = "logging" ELSE hist.raced[j]
    BY <1>2, <2>3
  <2>5. ~Sending' /\ \A j \in Log : (Setting(j)' <=> j = i) /\ ~Taken(j)'
    BY <2>2 DEF Under, Sending, Reloading, Setting, Taken
  <2>6. ASSUME NEW j \in Log, ~hist'.raced[j] PROVE IF Setting(j)' THEN SetInv(j)' ELSE HoldInv(j)'
    <3>1. CASE j = i
      <4>1. logs'[j].LogStatus # "logging" /\ hist'.heard[j] = Unheard
        BY <2>3, <2>4, <2>6, <3>1
      <4>2. SetInv(j)'
        BY <2>2, <4>1 DEF SetInv
      <4> QED BY <4>2, <2>5, <3>1
    <3>2. CASE j # i
      <4>1. HoldInv(j)
        BY <1>3, <2>2, <2>4, <2>6, <3>2 DEF LogInv
      <4>2. HoldInv(j)'
        BY <1>3, <2>2, <2>3, <2>4, <3>2, <4>1, HoldSame
      <4> QED BY <2>5, <3>2, <4>2
    <3> QED BY <3>1, <3>2
  <2> QED BY <2>5, <2>6 DEF LogInv
<1> QED BY <1>4, <1>5, <1>6 DEF CommandParser

(* A packet, until its samples are taken. *)
LEMMA LogPacket == ASSUME BaseInv, LogInv, Room \/ Pick \/ ReadBegin \/ ReadCopy PROVE LogInv'
<1>1. StreamTyped /\ TodoInv /\ todo # << >>
  BY DEF BaseInv, Room, Pick, ReadBegin, ReadCopy, Do
<1>2. logs' = logs /\ hist' = hist
  BY DEF Room, Pick, ReadBegin, ReadCopy
<1>3. todo[1].do \in {"room", "pick", "begin", "copy"}
  <2>1. Do("room") \/ Do("pick") \/ Do("begin") \/ Do("copy")
    BY DEF Room, Pick, ReadBegin, ReadCopy
  <2> QED BY <1>1, <2>1, FirstIs
<1>4. ~Under("store") /\ \A i \in Log : ~Taken(i)
  BY <1>3 DEF Under, Taken
<1>5. ~Under("store")' /\ (Sending' => Readable(logs[rd'.log]))
  <2>1. CASE Room
    BY <2>1 DEF Room, Under, Sending, Final
  <2>2. CASE Pick /\ todo' = <<[do |-> "flags"], [do |-> "clear"], [do |-> "end"]>>
    BY <2>2 DEF Under, Sending, Final
  <2>3. CASE Pick /\ todo' # <<[do |-> "flags"], [do |-> "clear"], [do |-> "end"]>>
    <3>1. /\ todo' = Reading \o <<[do |-> "send"]>> /\ Readable(logs[MostFull])
          /\ rd' = [rd EXCEPT !.log = MostFull]
      BY <2>3 DEF Pick
    <3>2. todo'[1].do = "begin"
      <4>1. Reading \in Seq({[do |-> "begin"], [do |-> "copy"], [do |-> "release"], [do |-> "flags"], [do |-> "clear"], [do |-> "send"]})
            /\ Reading # << >> /\ Reading[1].do = "begin"
        BY DEF Reading
      <4>2. (Reading \o <<[do |-> "send"]>>)[1] = Reading[1]
        BY <4>1, AppendFirst
      <4> QED BY <3>1, <4>1, <4>2
    <3>3. rd'.log = MostFull
      BY <1>1, <3>1 DEF StreamTyped
    <3> QED BY <3>1, <3>2, <3>3 DEF Under
  <2>4. CASE ReadBegin \/ ReadCopy
    <3>1. Then(<< >>) /\ (ReadBegin \/ ReadCopy) /\ todo[1].do \in {"begin", "copy"}
      <4>1. Do("begin") \/ Do("copy")
        BY <2>4 DEF ReadBegin, ReadCopy
      <4> QED BY <1>1, <2>4, <4>1, FirstIs DEF ReadBegin, ReadCopy
    <3>2. Final' = Final /\ (Under("copy")' \/ Under("release")')
      BY <1>1, <3>1, Onwards, NextOp DEF Under
    <3>3. rd'.log = rd.log
      BY <1>1, <3>1 DEF StreamTyped, ReadBegin, ReadCopy
    <3> QED BY <1>1, <3>2, <3>3 DEF LogInv, Sending, Under
  <2> QED BY <2>1, <2>2, <2>3, <2>4
<1> QED BY <1>2, <1>4, <1>5, LogQuiet

(* Samples are released from the front. *)
LEMMA ReleasedIs ==
  ASSUME NEW log \in LogType, NEW n \in 0 .. LogDataAvail(log), NEW new,
         new = [log EXCEPT !.OutPos = Place(log.OutPos, n + 1)]
  PROVE  /\ new \in LogType /\ LogDataAvail(new) = LogDataAvail(log) - n
         /\ new.Settings = log.Settings /\ new.Flags = log.Flags
         /\ new.VarToLog = log.VarToLog /\ new.LogStatus = log.LogStatus
         /\ \A k \in 1 .. LogDataAvail(new) : Kth(new, k) = Kth(log, n + k)
<1> DEFINE a == LogDataAvail(log)
<1>1. /\ a \in 0 .. LOG_LENGTH - 1 /\ LOG_LENGTH \in Nat /\ log.InPos = Place(log.OutPos, a + 1)
      /\ log.OutPos \in Cell /\ n \in 0 .. a
  BY AvailIs
<1>2. Place(log.OutPos, n + 1) \in Cell
  BY OutPosNextIs
<1> HIDE DEF a
<1>3. /\ new \in LogType /\ new.OutPos = Place(log.OutPos, n + 1) /\ new.InPos = log.InPos /\ new.LogEntry = log.LogEntry
      /\ new.Settings = log.Settings /\ new.Flags = log.Flags
      /\ new.VarToLog = log.VarToLog /\ new.LogStatus = log.LogStatus
  BY <1>2 DEF LogType
<1>4. n \in 0 .. LOG_LENGTH - 1 /\ a - n \in 0 .. LOG_LENGTH - 1 /\ n + ((a - n) + 1) = a + 1 /\ (a - n) + 1 \in 1 .. LOG_LENGTH
      /\ a + 1 <= LOG_LENGTH
  BY <1>1
<1>5. Place(Place(log.OutPos, n + 1), (a - n) + 1) = Place(log.OutPos, n + ((a - n) + 1))
  BY <1>1, <1>4, PlaceFrom
<1>6. LogDataAvail(new) = a - n
  <2>1. new.InPos = Place(new.OutPos, (a - n) + 1)
    BY <1>1, <1>3, <1>4, <1>5
  <2> QED BY <1>3, <1>4, <2>1, AvailFrom
<1>7. ASSUME NEW k \in 1 .. LogDataAvail(new) PROVE Kth(new, k) = Kth(log, n + k)
  <2>1. k \in 1 .. LOG_LENGTH /\ n + k <= LOG_LENGTH
    BY <1>1, <1>4, <1>6
  <2>2. Place(Place(log.OutPos, n + 1), k) = Place(log.OutPos, n + k)
    BY <1>1, <1>4, <2>1, PlaceFrom
  <2> QED BY <1>3, <2>2 DEF Kth
<1> QED BY <1>3, <1>6, <1>7 DEF a

LEMMA ReleaseIs ==
  ASSUME BaseInv, ReadRelease
  PROVE  /\ todo # << >> /\ todo[1].do = "release" /\ Then(<< >>) /\ TodoInv' /\ todo' # << >> /\ todo'[1].do = "flags"
         /\ Final' = Final /\ Len(todo) = 4
         /\ UNCHANGED <<tick, rd, burst, stream, net, count, hist>>
         /\ rd.log \in Log /\ rd.length \in 0 .. LogDataAvail(logs[rd.log]) /\ logs[rd.log] \in LogType
         /\ logs'[rd.log] = [logs[rd.log] EXCEPT !.OutPos = Place(logs[rd.log].OutPos, rd.length + 1)]
         /\ \A j \in Log : j # rd.log => logs'[j] = logs[j]
         /\ rd.data = [k \in 1 .. rd.length |-> Kth(logs[rd.log], k)]
<1>1. TodoInv /\ StreamTyped /\ ReadInv /\ todo # << >> /\ todo[1].do = "release" /\ Then(<< >>)
  <2>1. TodoInv /\ StreamTyped /\ ReadInv /\ todo # << >> /\ Then(<< >>) /\ Do("release")
    BY DEF BaseInv, ReadRelease, Do
  <2> QED BY <2>1, FirstIs
<1>2. TodoInv' /\ todo' # << >> /\ todo'[1].do = "flags" /\ Final' = Final /\ Len(todo) = 4
  BY <1>1, Onwards, NextOp DEF Under
<1>3. UNCHANGED <<tick, rd, burst, stream, net, count, hist>>
  BY DEF ReadRelease
<1> DEFINE log == logs[rd.log]
           n == rd.length
<1>4. rd.log \in Log /\ log \in LogType /\ logs \in [Log -> LogType]
  BY <1>1 DEF StreamTyped
<1>5. /\ n \in 0 .. LogDataAvail(log) /\ rd.out = log.OutPos
      /\ OutPosNext(rd.out, rd.in, n) = (rd.out + n) % LOG_LENGTH
      /\ rd.data = Copied(log, rd.out, n)
  BY <1>1 DEF ReadInv, Under, Waiting
<1>6. (log.OutPos + n) % LOG_LENGTH = Place(log.OutPos, n + 1) /\ rd.data = [k \in 1 .. n |-> Kth(log, k)]
  <2> HIDE DEF log, n
  <2> QED BY <1>4, <1>5, OutPosNextIs, CopiedIs
<1>7. logs' = [logs EXCEPT ![rd.log].OutPos = Place(log.OutPos, n + 1)]
  BY <1>5, <1>6 DEF ReadRelease
<1>8. /\ logs'[rd.log] = [logs[rd.log] EXCEPT !.OutPos = Place(log.OutPos, n + 1)]
      /\ \A j \in Log : j # rd.log => logs'[j] = logs[j]
  BY <1>4, <1>7
<1> QED BY <1>1, <1>2, <1>3, <1>4, <1>5, <1>6, <1>8

LEMMA LogRelease == ASSUME BaseInv, LogInv, ReadRelease PROVE LogInv'
<1> DEFINE log == logs[rd.log]
           new == logs'[rd.log]
           n == rd.length
<1>1. /\ todo # << >> /\ todo[1].do = "release" /\ todo' # << >> /\ todo'[1].do = "flags" /\ Final' = Final
      /\ UNCHANGED <<rd, hist>> /\ rd.log \in Log /\ n \in 0 .. LogDataAvail(log) /\ log \in LogType
      /\ new = [log EXCEPT !.OutPos = Place(log.OutPos, n + 1)]
      /\ \A j \in Log : j # rd.log => logs'[j] = logs[j]
  BY ReleaseIs
<1>2. (\A i \in Log : ~Setting(i) /\ ~Setting(i)' /\ ~Taken(i)) /\ Taken(rd.log)'
  BY <1>1 DEF Setting, Taken, Under
<1>3. /\ new \in LogType /\ LogDataAvail(new) = LogDataAvail(log) - n
      /\ new.Flags = log.Flags /\ new.VarToLog = log.VarToLog /\ new.LogStatus = log.LogStatus
      /\ \A k \in 1 .. LogDataAvail(new) : Kth(new, k) = Kth(log, n + k)
  <2> HIDE DEF log, new, n
  <2> QED BY <1>1, ReleasedIs
<1>4. ASSUME NEW i \in Log, ~hist.raced[i] PROVE HoldInv(i)'
  <2>1. HoldInv(i)
    BY <1>2, <1>4 DEF LogInv
  <2>2. CASE i # rd.log
    BY <1>1, <1>2, <2>1, <2>2, HoldSame
  <2>3. CASE i = rd.log
    <3>1. /\ \A k \in 1 .. LogDataAvail(log) : Kth(log, k).var = log.VarToLog
          /\ log.LogStatus \in {"idle", "ready"} => LogDataAvail(log) = 0 /\ ~log.Flags /\ hist.heard[i].last.var = NULL
      BY <2>1, <2>3 DEF HoldInv, Waiting, Entry
    <3> HIDE DEF log, new
    <3>2. LogDataAvail(log) \in Nat
      BY <1>1, AvailIs
    <3>3. \A k \in 1 .. LogDataAvail(new) : Kth(new, k).var = new.VarToLog
      <4> TAKE k \in 1 .. LogDataAvail(new)
      <4>1. n + k \in 1 .. LogDataAvail(log)
        BY <1>1, <1>3, <3>2
      <4> QED BY <1>3, <3>1, <4>1
    <3>4. new.LogStatus \in {"idle", "ready"} => LogDataAvail(new) = 0 /\ ~new.Flags /\ hist.heard[i].last.var = NULL
      <4>1. LogDataAvail(log) = 0 => LogDataAvail(new) = 0
        BY <1>1, <1>3, <3>2
      <4> QED BY <1>3, <3>1, <4>1
    <3> QED BY <1>1, <1>2, <2>3, <3>3, <3>4 DEF HoldInv, Waiting, Entry, new
  <2> QED BY <2>2, <2>3
<1>5. Sending' => Readable(logs'[rd'.log])
  BY <1>1, <1>3 DEF LogInv, Sending, Readable
<1> QED BY <1>1, <1>2, <1>4, <1>5 DEF LogInv

LEMMA LogFlags == ASSUME BaseInv, LogInv, ReadLogFlags PROVE LogInv'
<1>1. TodoInv /\ StreamTyped /\ todo # << >> /\ todo[1].do \in {"flags", "clear"} /\ Then(<< >>) /\ UNCHANGED hist
      /\ rd.log \in Log
  <2>1. TodoInv /\ StreamTyped /\ ReadInv /\ todo # << >> /\ Then(<< >>) /\ (Do("flags") \/ Do("clear")) /\ UNCHANGED hist
    BY DEF BaseInv, ReadLogFlags, Do
  <2> QED BY <2>1, FirstIs DEF StreamTyped
<1>2. todo' # << >> /\ Final' = Final
  BY <1>1, Onwards
<1>3. CASE todo[1].do = "flags"
  <2>1. ReadLogFlags /\ ~Do("clear")
    BY <1>1, <1>3, FirstIs
  <2>2. logs' = logs /\ rd' = [rd EXCEPT !.flags = logs[rd.log].Flags]
    BY <2>1 DEF ReadLogFlags
  <2>3. rd'.log = rd.log
    BY <1>1, <2>2 DEF StreamTyped
  <2>4. Under("clear")'
    BY <1>1, <1>3, NextOp DEF Under
  <2>5. /\ ~Under("store") /\ ~Under("store")' /\ \A i \in Log : Taken(i) => Taken(i)'
    BY <1>3, <2>3, <2>4 DEF Under, Taken
  <2>6. Sending' => Readable(logs[rd'.log])
    BY <1>1, <1>2, <2>3 DEF LogInv, Sending
  <2> QED BY <1>1, <2>2, <2>5, <2>6, LogQuiet
<1>4. CASE todo[1].do = "clear"
  <2>1. ReadLogFlags /\ ~Do("flags")
    BY <1>1, <1>4, FirstIs
  <2>2. rd' = rd /\ logs' = [logs EXCEPT ![rd.log].Flags = FALSE]
    BY <2>1 DEF ReadLogFlags
  <2>3. todo'[1].do = Final /\ Final \in {"reply", "send", "end", "room", "pick"}
    BY <1>1, <1>4, NextOp, ShapeOfFirst DEF Under, TodoInv, Final
  <2>4. \A i \in Log : ~Setting(i) /\ ~Setting(i)' /\ ~Taken(i)' /\ (i # rd.log => ~Taken(i))
    BY <1>4, <2>2, <2>3 DEF Setting, Taken, Under
  <2>5. /\ logs'[rd.log] = [logs[rd.log] EXCEPT !.Flags = FALSE] /\ logs[rd.log] \in LogType
        /\ \A j \in Log : j # rd.log => logs'[j] = logs[j]
    BY <1>1, <2>2 DEF StreamTyped
  <2> DEFINE log == logs[rd.log]
             new == logs'[rd.log]
  <2>6. /\ LogDataAvail(new) = LogDataAvail(log) /\ (\A k : Kth(new, k) = Kth(log, k))
        /\ new.VarToLog = log.VarToLog /\ new.LogStatus = log.LogStatus /\ ~new.Flags
    BY <2>5 DEF LogDataAvail, Kth, LogType
  <2>7. ASSUME NEW i \in Log, ~hist.raced[i] PROVE HoldInv(i)'
    <3>1. HoldInv(i)
      BY <2>4, <2>7 DEF LogInv
    <3>2. CASE i # rd.log
      BY <1>1, <2>4, <2>5, <3>1, <3>2, HoldSame
    <3>3. CASE i = rd.log
      <4> HIDE DEF new, log
      <4> QED BY <1>1, <2>2, <2>6, <3>1, <3>3 DEF HoldInv, Waiting, Entry, new, log
    <3> QED BY <3>2, <3>3
  <2>8. Sending' => Readable(logs'[rd'.log])
    BY <1>1, <1>2, <2>2, <2>6 DEF LogInv, Sending, Readable
  <2> QED BY <1>1, <2>4, <2>7, <2>8 DEF LogInv
<1> QED BY <1>1, <1>3, <1>4

LEMMA LogStartStop == ASSUME BaseInv, LogInv, StartOrStop PROVE LogInv'
<1>1. TodoInv /\ StreamTyped /\ todo # << >> /\ todo[1].do \in {"start", "stop"} /\ Then(<< >>) /\ UNCHANGED <<rd, hist>>
  <2>1. TodoInv /\ StreamTyped /\ todo # << >> /\ Then(<< >>) /\ (Do("start") \/ Do("stop")) /\ UNCHANGED <<rd, hist>>
    BY DEF BaseInv, StartOrStop, Do
  <2> QED BY <2>1, FirstIs
<1>2. todo' # << >> /\ Final' = Final /\ Final = "reply" /\ todo'[1].do \in {"start", "stop", "stream", "reply"}
  BY <1>1, Onwards, NextOp
<1>3. ~Sending' /\ \A i \in Log : ~Setting(i) /\ ~Setting(i)' /\ ~Taken(i) /\ ~Taken(i)'
  BY <1>1, <1>2 DEF Sending, Setting, Taken, Under
<1> DEFINE i == todo[1].log
<1>4. i \in Log /\ Head(todo) = todo[1]
  BY <1>1, FirstIs, StepIs
<1>5. logs' = [logs EXCEPT ![i] = IF Do("start") THEN StartLogging(@) ELSE StopLogging(@)]
  BY <1>4 DEF StartOrStop
<1> HIDE DEF i
<1>6. /\ logs'[i] = StartLogging(logs[i]) \/ logs'[i] = StopLogging(logs[i])
      /\ logs[i] \in LogType
      /\ \A j \in Log : j # i => logs'[j] = logs[j]
  BY <1>1, <1>4, <1>5 DEF StreamTyped
<1> DEFINE log == logs[i]
           new == logs'[i]
<1>7. /\ LogDataAvail(new) = LogDataAvail(log) /\ (\A k : Kth(new, k) = Kth(log, k))
      /\ new.VarToLog = log.VarToLog /\ new.Flags = log.Flags
      /\ new.LogStatus \in {"idle", "ready"} => log.LogStatus \in {"idle", "ready"}
  <2>1. CASE new = StartLogging(log)
    BY <1>6, <2>1 DEF StartLogging, LogDataAvail, Kth, LogType
  <2>2. CASE new = StopLogging(log)
    BY <1>6, <2>2 DEF StopLogging, LogDataAvail, Kth, LogType
  <2> QED BY <1>6, <2>1, <2>2
<1>8. ASSUME NEW j \in Log, ~hist.raced[j] PROVE HoldInv(j)'
  <2>1. HoldInv(j)
    BY <1>3, <1>8 DEF LogInv
  <2>2. CASE j # i
    BY <1>1, <1>3, <1>6, <2>1, <2>2, HoldSame
  <2>3. CASE j = i
    <3> HIDE DEF new, log
    <3> QED BY <1>1, <1>3, <1>7, <2>1, <2>3 DEF HoldInv, Waiting, Entry, new, log
  <2> QED BY <2>2, <2>3
<1> QED BY <1>1, <1>3, <1>8 DEF LogInv

LEMMA LogStartStream == ASSUME BaseInv, LogInv, StartStream PROVE LogInv'
<1>1. TodoInv /\ StreamTyped /\ todo # << >> /\ todo[1].do = "stream" /\ Then(<< >>) /\ UNCHANGED <<logs, rd>>
  <2>1. TodoInv /\ StreamTyped /\ todo # << >> /\ Then(<< >>) /\ Do("stream") /\ UNCHANGED <<logs, rd>>
    BY DEF BaseInv, StartStream, Do
  <2> QED BY <2>1, FirstIs
<1>2. todo' # << >> /\ Final' = Final /\ Final = "reply" /\ todo'[1].do \in {"start", "stop", "stream", "reply"}
  BY <1>1, Onwards, NextOp
<1>3. ~Sending' /\ ~Under("store") /\ ~Under("store")' /\ \A i \in Log : ~Taken(i)
  BY <1>1, <1>2 DEF Sending, Taken, Under
<1>4. hist'.raced = hist.raced /\ \A i \in Log : hist'.heard[i].last.var = NULL
  <2> DEFINE heard == [i \in Log |-> [Unheard EXCEPT !.warned = Incomplete(logs[i], tick)]]
  <2>1. \E a : hist' = [hist EXCEPT !.asker = a, !.orphan = FALSE, !.heard = heard, !.next = 1, !.sentTo = 0]
    BY Zenon DEF StartStream
  <2>2. \A i \in Log : heard[i].last.var = NULL
    BY DEF Unheard, NoSample
  <2>3. hist \in [asker : Nat, orphan : BOOLEAN, heard : [Log -> Hears], next : Nat, raced : [Log -> BOOLEAN], sentTo : Nat]
    BY <1>1 DEF StreamTyped
  <2> HIDE DEF heard
  <2>4. hist'.raced = hist.raced /\ hist'.heard = heard
    BY <2>1, <2>3
  <2> QED BY <2>2, <2>4
<1> QED BY <1>1, <1>3, <1>4, LogQuiet

LEMMA LogEnd == ASSUME BaseInv, LogInv, ReloadEnd \/ Reply PROVE LogInv'
<1>1. TodoInv /\ todo # << >> /\ todo[1].do \in {"end", "reply"} /\ todo' = << >> /\ UNCHANGED <<logs, hist>>
  <2>1. TodoInv /\ todo # << >> /\ (Do("end") \/ Do("reply")) /\ todo' = << >> /\ UNCHANGED <<logs, hist>>
    BY DEF BaseInv, ReloadEnd, Reply, Do
  <2> QED BY <2>1, FirstIs
<1>2. ~Sending' /\ ~Under("store") /\ ~Under("store")' /\ \A i \in Log : ~Taken(i)
  BY <1>1 DEF Sending, Taken, Under
<1> QED BY <1>1, <1>2, LogQuiet

LEMMA LogStutter == LogInv /\ UNCHANGED streamVars => LogInv'
BY DEF LogInv, streamVars, SetInv, HoldInv, Setting, Taken, Under, Sending, Final, Waiting, Entry

(* LM stores the fields of a log one by one. *)
LEMMA StoresOneLog ==
  ASSUME BaseInv, NEW i \in Log, NEW v \in Variables, NEW s \in Modes,
         SetShape(todo, i, v, s), todo # << >>, todo[1].do = "store", Then(<< >>)
  PROVE  /\ Len(todo) \in 2 .. 7 /\ Len(todo') = Len(todo) - 1 /\ todo' # << >> /\ ~Sending'
         /\ \A j \in Log : ~Taken(j)'
         /\ \A j \in Log : Setting(j)' <=> (j = i /\ Len(todo) > 2)
<1>1. TodoInv
  BY DEF BaseInv
<1>2. /\ Len(todo') = Len(todo) - 1 /\ todo' # << >> /\ Final' = Final /\ Final = "reply"
      /\ todo'[1].do \in {"store", "reply"} /\ Len(todo) > 1
      /\ \A k \in 1 .. Len(todo') : todo'[k] = todo[k + 1]
  BY <1>1, Onwards, NextOp
<1>3. Len(todo) \in 2 .. 7
  <2> DEFINE n == Len(todo)
  <2>1. n \in 1 .. 7 /\ n > 1
    BY <1>2 DEF SetShape
  <2> HIDE DEF n
  <2> QED BY <2>1 DEF n
<1>4. ~Sending' /\ \A j \in Log : ~Taken(j)'
  BY <1>2 DEF Sending, Taken, Under
<1>5. CASE Len(todo) = 2
  <2>1. todo'[1] = todo[2] /\ todo[2].do = "reply"
    BY <1>2, <1>5 DEF SetShape
  <2> QED BY <1>2, <1>3, <1>4, <1>5, <2>1 DEF Setting, Under
<1>6. CASE Len(todo) > 2
  <2> DEFINE k == 9 - Len(todo)
             w == SetupLogVariable(i, v, s)[k]
  <2>1. k \in 2 .. 6 /\ 7 - Len(todo) + 2 = k /\ 2 \in 1 .. Len(todo) - 1 /\ 1 \in 1 .. Len(todo')
    <3> DEFINE n == Len(todo)
               m == Len(todo')
    <3>1. n \in 2 .. 7 /\ m = n - 1 /\ n > 2
      BY <1>2, <1>3, <1>6
    <3> HIDE DEF n, m
    <3>2. 9 - n \in 2 .. 6 /\ 7 - n + 2 = 9 - n /\ 2 \in 1 .. n - 1 /\ 1 \in 1 .. m
      BY <3>1
    <3> QED BY <3>2 DEF n, m
  <2>2. todo'[1] = [do |-> "store", what |-> w]
    BY <1>2, <2>1 DEF SetShape
  <2>3. w[1] = i
    <3> HIDE DEF k
    <3>1. k = 2 \/ k = 3 \/ k = 4 \/ k = 5 \/ k = 6
      BY <2>1
    <3>2. /\ SetupLogVariable(i, v, s)[2][1] = i /\ SetupLogVariable(i, v, s)[3][1] = i
          /\ SetupLogVariable(i, v, s)[4][1] = i /\ SetupLogVariable(i, v, s)[5][1] = i
          /\ SetupLogVariable(i, v, s)[6][1] = i
      BY DEF SetupLogVariable
    <3> QED BY <3>1, <3>2
  <2> HIDE DEF w
  <2>4. todo'[1].do = "store" /\ todo'[1].what[1] = i
    BY <2>2, <2>3
  <2>5. Under("store")'
    BY <1>2, <2>4 DEF Under
  <2>6. \A j \in Log : Setting(j)' <=> j = i
    BY <2>4, <2>5 DEF Setting
  <2>7. \A j \in Log : Setting(j)' <=> (j = i /\ Len(todo) > 2)
    BY <1>6, <2>6, Zenon
  <2> QED BY <1>2, <1>3, <1>4, <2>7, Zenon
<1>7. Len(todo) = 2 \/ Len(todo) > 2
  <2> DEFINE n == Len(todo)
  <2>1. n \in 2 .. 7
    BY <1>3
  <2> HIDE DEF n
  <2>2. n = 2 \/ n > 2
    BY <2>1
  <2> QED BY <2>2 DEF n
<1> QED BY <1>5, <1>6, <1>7, Zenon

LEMMA LogStore == ASSUME BaseInv, LogInv, Store PROVE LogInv'
<1>1. TodoInv /\ StreamTyped /\ logs \in [Log -> LogType]
  BY DEF BaseInv, StreamTyped
<1>2. PICK i \in Log, v \in Variables, s \in Modes :
           /\ SetShape(todo, i, v, s) /\ todo[1].what[1] = i /\ todo[1].do = "store" /\ todo # << >> /\ Then(<< >>)
           /\ \/ Len(todo) = 7 /\ logs' = [logs EXCEPT ![i].InPos = 0]
              \/ Len(todo) = 6 /\ logs' = [logs EXCEPT ![i].OutPos = 0]
              \/ Len(todo) = 5 /\ logs' = [logs EXCEPT ![i].Settings = s]
              \/ Len(todo) = 4 /\ logs' = [logs EXCEPT ![i].Flags = FALSE]
              \/ Len(todo) = 3 /\ logs' = [logs EXCEPT ![i].VarToLog = v]
              \/ Len(todo) = 2 /\ logs' = [logs EXCEPT ![i].LogStatus = "ready"]
           /\ UNCHANGED <<tick, rd, burst, stream, net, count, hist>>
  BY <1>1, StoreIs
<1>3. /\ Len(todo) \in 2 .. 7 /\ Len(todo') = Len(todo) - 1 /\ ~Sending' /\ (\A j \in Log : ~Taken(j)')
      /\ \A j \in Log : Setting(j)' <=> (j = i /\ Len(todo) > 2)
  BY <1>2, StoresOneLog
<1>4. /\ \A j \in Log : Setting(j) <=> j = i
      /\ \A j \in Log : ~Taken(j)
  BY <1>2 DEF Setting, Taken, Under
<1>5. hist' = hist /\ \A j \in Log : j # i => logs'[j] = logs[j]
  BY <1>1, <1>2
<1>6. ASSUME ~hist.raced[i] PROVE IF Setting(i)' THEN SetInv(i)' ELSE HoldInv(i)'
  <2> DEFINE n == Len(todo)
             old == logs[i]
             new == logs'[i]
  <2>1. /\ old.LogStatus # "logging" /\ hist.heard[i] = Unheard
        /\ n - 1 <= 5 => old.InPos = 0
        /\ n - 1 <= 4 => old.OutPos = 0
        /\ n - 1 <= 2 => ~old.Flags
    BY <1>4, <1>6 DEF LogInv, SetInv
  <2>2. /\ \/ n = 7 /\ new = [old EXCEPT !.InPos = 0]
           \/ n = 6 /\ new = [old EXCEPT !.OutPos = 0]
           \/ n = 5 /\ new = [old EXCEPT !.Settings = s]
           \/ n = 4 /\ new = [old EXCEPT !.Flags = FALSE]
           \/ n = 3 /\ new = [old EXCEPT !.VarToLog = v]
           \/ n = 2 /\ new = [old EXCEPT !.LogStatus = "ready"]
        /\ old \in LogType
    BY <1>1, <1>2
  <2>3. n \in 2 .. 7 /\ Len(todo') = n - 1
    BY <1>3
  <2> HIDE DEF n, old, new
  <2>4. /\ new.LogStatus # "logging"
        /\ n - 2 <= 5 => new.InPos = 0
        /\ n - 2 <= 4 => new.OutPos = 0
        /\ n - 2 <= 2 => ~new.Flags
    <3>1. CASE n = 7 /\ new = [old EXCEPT !.InPos = 0]
      BY <2>1, <2>2, <3>1 DEF LogType
    <3>2. CASE n = 6 /\ new = [old EXCEPT !.OutPos = 0]
      BY <2>1, <2>2, <3>2 DEF LogType
    <3>3. CASE n = 5 /\ new = [old EXCEPT !.Settings = s]
      BY <2>1, <2>2, <3>3 DEF LogType
    <3>4. CASE n = 4 /\ new = [old EXCEPT !.Flags = FALSE]
      BY <2>1, <2>2, <3>4 DEF LogType
    <3>5. CASE n = 3 /\ new = [old EXCEPT !.VarToLog = v]
      BY <2>1, <2>2, <3>5 DEF LogType
    <3>6. CASE n = 2 /\ new = [old EXCEPT !.LogStatus = "ready"]
      BY <2>1, <2>2, <3>6 DEF LogType
    <3> QED BY <2>2, <3>1, <3>2, <3>3, <3>4, <3>5, <3>6
  <2>5. CASE n > 2
    <3>1. Setting(i)'
      BY <1>3, <2>5 DEF n
    <3>2. SetInv(i)'
      BY <1>5, <2>1, <2>3, <2>4 DEF SetInv, new
    <3> QED BY <3>1, <3>2
  <2>6. CASE n = 2
    <3>1. ~Setting(i)'
      BY <1>3, <2>6 DEF n
    <3>2. LogDataAvail(new) = 0 /\ ~new.Flags
      BY <2>4, <2>6 DEF LogDataAvail
    <3>3. Waiting(i)' = 0
      BY <3>2 DEF Waiting, new
    <3>4. hist'.heard[i].last.var = NULL
      BY <1>5, <2>1 DEF Unheard, NoSample
    <3>5. ~logs'[i].Flags
      BY <3>2 DEF new
    <3>6. HoldInv(i)'
      BY <3>3, <3>4, <3>5 DEF HoldInv
    <3> QED BY <3>1, <3>6
  <2> QED BY <2>3, <2>5, <2>6
<1>7. ASSUME NEW j \in Log, ~hist'.raced[j] PROVE IF Setting(j)' THEN SetInv(j)' ELSE HoldInv(j)'
  <2>1. CASE j = i
    BY <1>5, <1>6, <1>7, <2>1
  <2>2. CASE j # i
    <3>1. HoldInv(j)
      BY <1>4, <1>5, <1>7, <2>2 DEF LogInv
    <3>2. HoldInv(j)'
      BY <1>4, <1>5, <2>2, <3>1, HoldSame
    <3> QED BY <1>3, <2>2, <3>2
  <2> QED BY <2>1, <2>2
<1> QED BY <1>3, <1>7 DEF LogInv

(* What a host hears of a log when a packet is sent. *)
LEMMA HeardIs ==
  ASSUME NEW h \in Hears, NEW data \in Seq(Sample), Len(data) > 0, NEW flags \in BOOLEAN
  PROVE  /\ Heard(h, data, flags).last = data[Len(data)]
         /\ Heard(h, data, flags).warned = (h.warned \/ flags)
         /\ Heard(h, data, flags).gap =>
              \/ h.gap
              \/ h.last.var # NULL /\ data[1].at # h.last.at + 1
              \/ \E k \in 1 .. Len(data) - 1 : data[k + 1].at # data[k].at + 1
<1> DEFINE follows(a, b) == a.var = NULL \/ b.at = a.at + 1
           gap == h.gap \/ ~follows(h.last, data[1]) \/ \E k \in 1 .. Len(data) - 1 : ~follows(data[k], data[k + 1])
           w == h.warned \/ flags
           new == Heard(h, data, flags)
<1>1. new = [[h EXCEPT !.warned = w] EXCEPT !.last = data[Len(data)], !.gap = gap]
  <2>1. [h EXCEPT !.warned = h.warned \/ flags].gap = h.gap
    BY DEF Hears
  <2> QED BY <2>1, Zenon DEF Heard
<1>2. gap => \/ h.gap
             \/ h.last.var # NULL /\ data[1].at # h.last.at + 1
             \/ \E k \in 1 .. Len(data) - 1 : data[k + 1].at # data[k].at + 1
  OBVIOUS
<1> HIDE DEF gap, w, new
<1>3. new.last = data[Len(data)] /\ new.warned = w /\ new.gap = gap
  BY <1>1 DEF Hears
<1>4. new.gap => \/ h.gap
                 \/ h.last.var # NULL /\ data[1].at # h.last.at + 1
                 \/ \E k \in 1 .. Len(data) - 1 : data[k + 1].at # data[k].at + 1
  BY <1>2, <1>3, Zenon
<1>5. new.last = data[Len(data)] /\ new.warned = (h.warned \/ flags)
  BY <1>3 DEF w
<1> QED BY <1>4, <1>5, Zenon DEF new

(* A packet that is sent is what all hear: the log it is of, its samples; the others, at most that numbers are missing. *)
LEMMA SentIs ==
  ASSUME BaseInv, Send, hist' # hist
  PROVE  /\ hist'.raced = hist.raced /\ hist'.next = stream.sqn + 1 /\ stream'.sqn = stream.sqn + 1
         /\ rd.log \in Log /\ rd.flags \in BOOLEAN
         /\ \A j \in Log : j # rd.log =>
              /\ hist'.heard[j].last = hist.heard[j].last /\ hist'.heard[j].gap = hist.heard[j].gap
              /\ hist'.heard[j].warned = (hist.heard[j].warned \/ hist.next # stream.sqn)
         /\ hist'.heard[rd.log].last = rd.data[rd.length]
         /\ hist'.heard[rd.log].warned = (hist.heard[rd.log].warned \/ hist.next # stream.sqn \/ rd.flags)
         /\ hist'.heard[rd.log].gap =>
              \/ hist.heard[rd.log].gap
              \/ hist.heard[rd.log].last.var # NULL /\ rd.data[1].at # hist.heard[rd.log].last.at + 1
              \/ \E k \in 1 .. rd.length - 1 : rd.data[k + 1].at # rd.data[k].at + 1
<1> DEFINE missed == hist.next # stream.sqn
           h(i) == [hist.heard[i] EXCEPT !.warned = hist.heard[i].warned \/ missed]
           heard == [i \in Log |-> IF i = rd.log THEN Heard(h(i), rd.data, rd.flags) ELSE h(i)]
<1>1. StreamTyped /\ rd.length > 0 /\ Len(rd.data) = rd.length
  BY SendIs DEF BaseInv
<1>2. /\ hist \in [asker : Nat, orphan : BOOLEAN, heard : [Log -> Hears], next : Nat, raced : [Log -> BOOLEAN], sentTo : Nat]
      /\ rd.log \in Log /\ rd.flags \in BOOLEAN /\ rd.data \in Seq(Sample) /\ stream.sqn \in Nat
      /\ DOMAIN stream = {"comm", "prime", "sqn"}
  BY <1>1 DEF StreamTyped
<1>3. /\ hist' = [hist EXCEPT !.heard = heard, !.next = stream.sqn + 1, !.sentTo = net.conn[stream.comm]]
      /\ stream' = [stream EXCEPT !.sqn = stream.sqn + 1]
  BY SendIs, Zenon
<1>4. missed \in BOOLEAN
  OBVIOUS
<1> HIDE DEF missed
<1>5. \A i \in Log : /\ h(i) \in Hears /\ h(i).last = hist.heard[i].last /\ h(i).gap = hist.heard[i].gap
                     /\ h(i).warned = (hist.heard[i].warned \/ missed)
  BY <1>2, <1>4 DEF Hears
<1>6. \A i \in Log : heard[i] = IF i = rd.log THEN Heard(h(i), rd.data, rd.flags) ELSE h(i)
  BY Zenon
<1> HIDE DEF h, heard
<1>7. hist'.heard = heard /\ hist'.next = stream.sqn + 1 /\ hist'.raced = hist.raced /\ stream'.sqn = stream.sqn + 1
  BY <1>2, <1>3
<1>8. \A j \in Log : j # rd.log =>
        /\ hist'.heard[j].last = hist.heard[j].last /\ hist'.heard[j].gap = hist.heard[j].gap
        /\ hist'.heard[j].warned = (hist.heard[j].warned \/ missed)
  BY <1>5, <1>6, <1>7, Zenon
<1> DEFINE g == h(rd.log)
           new == Heard(g, rd.data, rd.flags)
<1>9. /\ g \in Hears /\ g.last = hist.heard[rd.log].last /\ g.gap = hist.heard[rd.log].gap
      /\ g.warned = (hist.heard[rd.log].warned \/ missed) /\ hist'.heard[rd.log] = new
  BY <1>2, <1>5, <1>6, <1>7, Zenon
<1> HIDE DEF g
<1>10. /\ new.last = rd.data[rd.length] /\ new.warned = (g.warned \/ rd.flags)
       /\ new.gap => \/ g.gap
                     \/ g.last.var # NULL /\ rd.data[1].at # g.last.at + 1
                     \/ \E k \in 1 .. rd.length - 1 : rd.data[k + 1].at # rd.data[k].at + 1
  <2> DEFINE data == rd.data
             flags == rd.flags
             n == Len(data)
  <2>1. data \in Seq(Sample) /\ n > 0 /\ flags \in BOOLEAN /\ n = rd.length
    BY <1>1, <1>2
  <2> HIDE DEF data, flags
  <2>2. /\ Heard(g, data, flags).last = data[n]
        /\ Heard(g, data, flags).warned = (g.warned \/ flags)
        /\ Heard(g, data, flags).gap =>
              \/ g.gap
              \/ g.last.var # NULL /\ data[1].at # g.last.at + 1
              \/ \E k \in 1 .. n - 1 : data[k + 1].at # data[k].at + 1
    BY <1>9, <2>1, HeardIs
  <2> HIDE DEF n
  <2> QED BY <2>1, <2>2, Zenon DEF data, flags
<1> HIDE DEF new
<1>11. hist'.heard[rd.log].warned = (hist.heard[rd.log].warned \/ missed \/ rd.flags)
  BY <1>9, <1>10, Zenon
<1>12. hist'.heard[rd.log].last = rd.data[rd.length]
  BY <1>9, <1>10, Zenon
<1>13. hist'.heard[rd.log].gap =>
              \/ hist.heard[rd.log].gap
              \/ hist.heard[rd.log].last.var # NULL /\ rd.data[1].at # hist.heard[rd.log].last.at + 1
              \/ \E k \in 1 .. rd.length - 1 : rd.data[k + 1].at # rd.data[k].at + 1
  BY <1>9, <1>10, Zenon
<1> QED BY <1>2, <1>7, <1>8, <1>11, <1>12, <1>13, Zenon DEF missed

LEMMA LogSend == ASSUME BaseInv, LogInv, Send PROVE LogInv'
<1>1. /\ todo # << >> /\ todo[1].do = "send" /\ Sending /\ UNCHANGED logs
      /\ todo' \in {Reload, <<[do |-> "end"]>>}
  BY SendIs
<1>2. ~Sending' /\ ~Under("store") /\ ~Under("store")' /\ \A i \in Log : ~Taken(i)
  BY <1>1 DEF Reload, Sending, Final, Under, Taken
<1>3. CASE hist' = hist
  BY <1>1, <1>2, <1>3, LogQuiet
<1>4. CASE hist' # hist
  <2>1. /\ hist'.raced = hist.raced
        /\ \A j \in Log : j # rd.log => hist'.heard[j].last = hist.heard[j].last
    BY <1>4, SentIs
  <2>2. ASSUME NEW i \in Log, ~hist'.raced[i] PROVE ~Setting(i)' /\ HoldInv(i)'
    <3>1. HoldInv(i) /\ ~Setting(i)'
      BY <1>2, <2>1, <2>2 DEF LogInv, Setting
    <3>2. CASE i # rd.log
      BY <1>1, <1>2, <2>1, <3>1, <3>2, HoldSame
    <3>3. CASE i = rd.log
      <4>1. logs'[i].LogStatus \notin {"idle", "ready"}
        BY <1>1, <3>3 DEF LogInv, Readable
      <4>2. Waiting(i)' = Waiting(i) /\ \A k : Entry(i, k)' = Entry(i, k)
        BY <1>1 DEF Waiting, Entry
      <4> QED BY <1>1, <1>2, <3>1, <4>1, <4>2 DEF HoldInv
    <3> QED BY <3>1, <3>2, <3>3
  <2> QED BY <1>2, <2>2 DEF LogInv
<1> QED BY <1>3, <1>4

LEMMA LogNext == ASSUME BaseInv, LogInv, StreamNext PROVE LogInv'
<1>1. CASE Tick
  BY <1>1, LogTick
<1>2. CASE CommandParser
  BY <1>2, LogCommand
<1>3. CASE Lwip \/ Prime
  BY <1>3, LogLwip
<1>4. CASE Store \/ StartOrStop \/ StartStream
  BY <1>4, LogStore, LogStartStop, LogStartStream
<1>5. CASE Room \/ Pick \/ ReadBegin \/ ReadCopy \/ ReadRelease \/ ReadLogFlags
  BY <1>5, LogPacket, LogRelease, LogFlags
<1>6. CASE Send \/ ReloadEnd \/ Reply
  BY <1>6, LogSend, LogEnd
<1> QED BY <1>1, <1>2, <1>3, <1>4, <1>5, <1>6 DEF StreamNext, MainStep

-----------------------------------------------------------------------------
(***************************************************************************)
(* LateInv, for logs that LM sets up while they log: once InPos is 0 it    *)
(* counts the interrupts, and once OutPos is 0, too, what waits is what    *)
(* they have sampled; all that comes after the last store is of the new    *)
(* variable, behind it.                                                    *)
(***************************************************************************)
LateSet(i) ==
  LET n == Len(todo) - 1 IN
  /\ n <= 5 => logs[i].InPos <= burst
  /\ n <= 4 => logs[i].OutPos = 0
LateHold(i) == \A k \in 1 .. Waiting(i) : k > MaxBurst => Entry(i, k).var = logs[i].VarToLog
LateInv ==
  /\ todo # << >> => burst <= MaxBurst
  /\ \A i \in Log : IF Setting(i) THEN LateSet(i) ELSE LateHold(i)

LEMMA LateSame ==
  ASSUME NEW i \in Log, LateHold(i), logs'[i] = logs[i] PROVE LateHold(i)'
<1>1. Waiting(i)' = Waiting(i) /\ \A k : Entry(i, k)' = Entry(i, k)
  BY DEF Waiting, Entry
<1> QED BY <1>1 DEF LateHold

LEMMA LateQuiet ==
  ASSUME LateInv, logs' = logs, ~Under("store"), ~Under("store")', todo' # << >> => burst' <= MaxBurst
  PROVE  LateInv'
<1>1. ASSUME NEW i \in Log PROVE ~Setting(i)' /\ LateHold(i)'
  <2>1. ~Setting(i) /\ ~Setting(i)'
    BY DEF Setting
  <2>2. LateHold(i)
    BY <2>1 DEF LateInv
  <2> QED BY <2>1, <2>2, LateSame
<1> QED BY <1>1 DEF LateInv

LEMMA LateInit == StreamInit => LateInv
<1> SUFFICES ASSUME StreamInit PROVE LateInv
  OBVIOUS
<1>1. todo = << >> /\ \A i \in Log : ~Setting(i)
  BY DEF StreamInit, Setting, Under
<1>2. ASSUME NEW i \in Log PROVE LateHold(i)
  <2>1. logs[i] = EmptyLog
    BY DEF StreamInit
  <2>2. Waiting(i) = 0
    BY <2>1 DEF Waiting, LogDataAvail, EmptyLog
  <2> QED BY <2>2 DEF LateHold
<1> QED BY <1>1, <1>2 DEF LateInv

LEMMA LateStutter == LateInv /\ UNCHANGED streamVars => LateInv'
BY DEF LateInv, streamVars, LateSet, LateHold, Setting, Under, Waiting, Entry

(* An interrupt moves InPos by one, or not. *)
LEMMA TickMoves ==
  ASSUME NEW log \in LogType, NEW now \in Nat
  PROVE  /\ DoLogging(log, now).OutPos = log.OutPos
         /\ DoLogging(log, now).InPos <= log.InPos + 1 /\ log.InPos \in Nat
<1>1. log.InPos \in Cell /\ LOG_LENGTH \in Nat \ {0, 1} /\ log.InPos \in Nat
  BY BasicLogAssumption DEF LogType, Cell
<1>2. DoLogging(log, now).OutPos = log.OutPos
  BY DoLoggingIs
<1>3. CASE DoLogging(log, now) = Sampled(log, now)
  <2>1. DoLogging(log, now).InPos = (log.InPos + 1) % LOG_LENGTH
    BY <1>3 DEF Sampled, LogType
  <2>2. (log.InPos + 1) % LOG_LENGTH <= log.InPos + 1
    <3> DEFINE p == log.InPos
    <3> HIDE DEF p
    <3>1. p \in Cell /\ p \in Nat /\ 2 \in 1 .. LOG_LENGTH
      BY <1>1 DEF p
    <3>2. Place(p, 2) = (p + 1) % LOG_LENGTH
      BY <3>1 DEF Place
    <3>3. Place(p, 2) = IF p + 2 - 1 < LOG_LENGTH THEN p + 2 - 1 ELSE (p + 2 - 1) - LOG_LENGTH
      BY <3>1, PlaceIs
    <3>4. (p + 1) % LOG_LENGTH <= p + 1
      BY <1>1, <3>1, <3>2, <3>3
    <3> QED BY <3>4 DEF p
  <2> QED BY <1>1, <1>2, <2>1, <2>2
<1>4. CASE DoLogging(log, now) # Sampled(log, now)
  <2>1. DoLogging(log, now).InPos = log.InPos
    BY <1>4 DEF DoLogging, LogType
  <2> QED BY <1>1, <1>2, <2>1
<1> QED BY <1>3, <1>4

LEMMA LateTick == ASSUME BaseInv, LateInv, Tick PROVE LateInv'
<1>1. StreamTyped /\ burst \in Nat /\ tick + 1 \in Nat /\ MaxBurst \in Nat
  BY BasicStreamAssumption DEF BaseInv, StreamTyped
<1>2. /\ todo' = todo /\ (todo # << >> => burst < MaxBurst /\ burst' = burst + 1)
      /\ \A i \in Log : logs'[i] = DoLogging(logs[i], tick + 1) /\ logs[i] \in LogType
  BY <1>1 DEF Tick, StreamTyped
<1>3. todo' # << >> => burst' <= MaxBurst
  BY <1>1, <1>2
<1>4. \A i \in Log : Setting(i)' <=> Setting(i)
  BY <1>2 DEF Setting, Under
<1>5. ASSUME NEW i \in Log, Setting(i) PROVE LateSet(i)'
  <2> DEFINE n == Len(todo) - 1
             old == logs[i]
             new == logs'[i]
  <2>1. (n <= 5 => old.InPos <= burst) /\ (n <= 4 => old.OutPos = 0)
    BY <1>5 DEF LateInv, LateSet
  <2>2. burst' = burst + 1
    BY <1>2, <1>5 DEF Setting, Under
  <2>3. old \in LogType /\ new = DoLogging(old, tick + 1)
    BY <1>2
  <2> HIDE DEF n, old, new
  <2>4. new.OutPos = old.OutPos /\ new.InPos <= old.InPos + 1 /\ old.InPos \in Nat /\ new.InPos \in Nat
    <3>1. new \in LogType
      BY <1>1, <2>3, DoLoggingIs
    <3>2. new.InPos \in Nat
      BY <3>1, BasicLogAssumption DEF LogType, Cell
    <3> QED BY <1>1, <2>3, <3>2, TickMoves
  <2>5. (n <= 5 => new.InPos <= burst') /\ (n <= 4 => new.OutPos = 0)
    BY <1>1, <2>1, <2>2, <2>4
  <2> QED BY <1>2, <2>5 DEF LateSet, n, new
<1>6. ASSUME NEW i \in Log, ~Setting(i) PROVE LateHold(i)'
  <2> DEFINE old == logs[i]
             new == logs'[i]
             n == LogDataAvail(old)
  <2>1. \A k \in 1 .. n : k > MaxBurst => Kth(old, k).var = old.VarToLog
    BY <1>6 DEF LateInv, LateHold, Waiting, Entry
  <2>2. old \in LogType /\ new = DoLogging(old, tick + 1)
    BY <1>2
  <2> HIDE DEF old, new
  <2>3. /\ LogDataAvail(new) \in {n, n + 1} /\ n \in Nat /\ new.VarToLog = old.VarToLog
        /\ \A k \in 1 .. n : Kth(new, k) = Kth(old, k)
        /\ LogDataAvail(new) = n + 1 => Kth(new, n + 1) = [var |-> old.VarToLog, at |-> tick + 1]
    <3>1. n \in Nat
      BY <2>2, AvailIs
    <3> QED BY <1>1, <2>2, <3>1, DoLoggingIs
  <2> HIDE DEF n
  <2>4. \A k \in 1 .. LogDataAvail(new) : k > MaxBurst => Kth(new, k).var = new.VarToLog
    <3> TAKE k \in 1 .. LogDataAvail(new)
    <3>1. k \in 1 .. n \/ (k = n + 1 /\ LogDataAvail(new) = n + 1)
      BY <2>3
    <3> QED BY <2>1, <2>3, <3>1
  <2> QED BY <2>4 DEF LateHold, Waiting, Entry, new
<1> QED BY <1>3, <1>4, <1>5, <1>6 DEF LateInv

LEMMA LateCommand == ASSUME BaseInv, LateInv, CommandParser PROVE LateInv'
<1>1. StreamTyped /\ TodoInv /\ MaxBurst \in Nat
  BY BasicStreamAssumption DEF BaseInv
<1>2. ASSUME todo = << >> PROVE ~Under("store") /\ \A i \in Log : ~Setting(i)
  BY <1>2 DEF Under, Setting
<1>3. ASSUME NEW comm, CmdLS(comm) \/ CmdLFS(comm) \/ CmdLFH(comm) PROVE LateInv'
  <2>1. todo = << >> /\ logs' = logs /\ todo' # << >> /\ todo'[1].do \in {"start", "stop", "stream", "reply"}
    BY <1>1, <1>3, StartsBegin
  <2>2. burst' = 0
    BY <1>3 DEF CmdLS, CmdLFS, CmdLFH, Command
  <2>3. ~Under("store")'
    BY <2>1 DEF Under
  <2> QED BY <1>1, <1>2, <2>1, <2>2, <2>3, LateQuiet
<1>4. ASSUME NEW comm, NEW i \in Log, CmdLFR(comm, i) PROVE LateInv'
  <2>1. PICK ops : Command(comm, ops) /\ (ops = Reading \/ ops = <<[do |-> "flags"], [do |-> "clear"]>>)
    BY <1>4 DEF CmdLFR
  <2>2. comm \in Ask
    BY <1>1, <2>1, CommandTyped
  <2>3. todo = << >> /\ todo' # << >> /\ todo'[1].do \in {"begin", "flags"}
    BY <2>1, <2>2, BeginReading
  <2>4. logs' = logs /\ burst' = 0
    BY <1>4, <2>1 DEF CmdLFR, Command
  <2>5. ~Under("store")'
    BY <2>3 DEF Under
  <2> QED BY <1>1, <1>2, <2>3, <2>4, <2>5, LateQuiet
<1>5. ASSUME NEW comm, NEW i \in Log, NEW v \in Variables, NEW s \in Modes, CmdLM(comm, i, v, s) PROVE LateInv'
  <2>1. comm \in Ask
    BY <1>1, <1>5, CommandTyped DEF CmdLM
  <2>2. /\ todo = << >> /\ Len(todo') = 7 /\ todo'[1].what[1] = i
    BY <1>5, <2>1, BeginLM
  <2>3. logs' = logs /\ burst' = 0
    BY <1>5 DEF CmdLM, Command
  <2>4. ASSUME NEW j \in Log PROVE IF Setting(j)' THEN LateSet(j)' ELSE LateHold(j)'
    <3>1. CASE Setting(j)'
      <4>1. LateSet(j)'
        BY <2>2 DEF LateSet
      <4> QED BY <3>1, <4>1
    <3>2. CASE ~Setting(j)'
      <4>1. LateHold(j)
        BY <1>2, <2>2 DEF LateInv
      <4> QED BY <2>3, <3>2, <4>1, LateSame
    <3> QED BY <3>1, <3>2
  <2> QED BY <1>1, <2>3, <2>4 DEF LateInv
<1> QED BY <1>3, <1>4, <1>5 DEF CommandParser

(* Steps that leave the logs as they are. *)
LEMMA LateElse ==
  ASSUME BaseInv, LateInv,
         Lwip \/ Prime \/ StartStream \/ Room \/ Pick \/ ReadBegin \/ ReadCopy \/ Send \/ ReloadEnd \/ Reply
  PROVE  LateInv'
<1>1. TodoInv /\ StreamTyped /\ MaxBurst \in Nat
  BY BasicStreamAssumption DEF BaseInv
<1>2. CASE Lwip \/ Prime
  <2>1. todo = << >> /\ logs' = logs /\ todo' \in {<< >>, Reload} /\ (todo' # << >> => burst' = 0)
    BY <1>2, Zenon DEF Lwip, Prime, accept_callback, CloseInReceive, tcpip_disconnect_callback, sent_callback, Idle
  <2>2. ~Under("store") /\ ~Under("store")'
    BY <2>1 DEF Reload, Under
  <2> QED BY <1>1, <2>1, <2>2, LateQuiet
<1>3. CASE Room \/ Send \/ ReloadEnd \/ Reply
  <2>1. /\ todo # << >> /\ logs' = logs /\ burst' = burst
        /\ todo' \in {<< >>, Reload, <<[do |-> "pick"]>>, <<[do |-> "end"]>>}
        /\ Do("room") \/ Do("send") \/ Do("end") \/ Do("reply")
    BY <1>3, Zenon DEF Room, Send, ReloadEnd, Reply, Do
  <2>2. todo[1].do \in {"room", "send", "end", "reply"}
    BY <1>1, <2>1, FirstIs
  <2>3. ~Under("store") /\ ~Under("store")'
    BY <2>1, <2>2 DEF Reload, Under
  <2>4. burst' <= MaxBurst
    BY <2>1 DEF LateInv
  <2> QED BY <2>1, <2>3, <2>4, LateQuiet
<1>4. CASE StartStream \/ ReadBegin \/ ReadCopy
  <2>1. /\ todo # << >> /\ logs' = logs /\ burst' = burst /\ Then(<< >>)
        /\ Do("stream") \/ Do("begin") \/ Do("copy")
    BY <1>4 DEF StartStream, ReadBegin, ReadCopy, Do
  <2>2. todo[1].do \in {"stream", "begin", "copy"}
    BY <1>1, <2>1, FirstIs
  <2>3. ~Under("store")'
    BY <1>1, <2>1, <2>2, NextOp DEF Under
  <2>4. ~Under("store") /\ burst' <= MaxBurst
    BY <2>1, <2>2 DEF LateInv, Under
  <2> QED BY <2>1, <2>3, <2>4, LateQuiet
<1>5. CASE Pick
  <2>1. /\ todo # << >> /\ logs' = logs /\ burst' = burst /\ Do("pick")
        /\ \/ todo' = <<[do |-> "flags"], [do |-> "clear"], [do |-> "end"]>>
           \/ todo' = Reading \o <<[do |-> "send"]>>
    BY <1>5 DEF Pick, Do
  <2>2. ~Under("store")'
    <3>1. CASE todo' = <<[do |-> "flags"], [do |-> "clear"], [do |-> "end"]>>
      BY <3>1 DEF Under
    <3>2. CASE todo' = Reading \o <<[do |-> "send"]>>
      <4>1. Reading \in Seq({[do |-> "begin"], [do |-> "copy"], [do |-> "release"], [do |-> "flags"], [do |-> "clear"], [do |-> "send"]})
            /\ Reading # << >> /\ Reading[1].do = "begin"
        BY DEF Reading
      <4>2. (Reading \o <<[do |-> "send"]>>)[1] = Reading[1]
        BY <4>1, AppendFirst
      <4>3. todo'[1].do = "begin"
        BY <3>2, <4>1, <4>2
      <4> QED BY <4>3 DEF Under
    <3> QED BY <2>1, <3>1, <3>2
  <2>3. todo[1].do = "pick"
    BY <1>1, <2>1, FirstIs
  <2>4. ~Under("store") /\ burst' <= MaxBurst
    BY <2>1, <2>3 DEF LateInv, Under
  <2> QED BY <2>1, <2>2, <2>4, LateQuiet
<1> QED BY <1>2, <1>3, <1>4, <1>5

LEMMA LateRelease == ASSUME BaseInv, LateInv, ReadRelease PROVE LateInv'
<1> DEFINE log == logs[rd.log]
           new == logs'[rd.log]
           n == rd.length
<1>1. /\ todo # << >> /\ todo[1].do = "release" /\ todo' # << >> /\ todo'[1].do = "flags"
      /\ burst' = burst /\ rd.log \in Log /\ n \in 0 .. LogDataAvail(log) /\ log \in LogType
      /\ new = [log EXCEPT !.OutPos = Place(log.OutPos, n + 1)]
      /\ \A j \in Log : j # rd.log => logs'[j] = logs[j]
  BY ReleaseIs
<1>2. \A i \in Log : ~Setting(i) /\ ~Setting(i)'
  BY <1>1 DEF Setting, Under
<1>3. /\ LogDataAvail(new) = LogDataAvail(log) - n /\ new.VarToLog = log.VarToLog
      /\ \A k \in 1 .. LogDataAvail(new) : Kth(new, k) = Kth(log, n + k)
  <2> HIDE DEF log, new, n
  <2> QED BY <1>1, ReleasedIs
<1>4. ASSUME NEW i \in Log PROVE LateHold(i)'
  <2>1. LateHold(i)
    BY <1>2 DEF LateInv
  <2>2. CASE i # rd.log
    BY <1>1, <2>1, <2>2, LateSame
  <2>3. CASE i = rd.log
    <3>1. \A k \in 1 .. LogDataAvail(log) : k > MaxBurst => Kth(log, k).var = log.VarToLog
      BY <2>1, <2>3 DEF LateHold, Waiting, Entry
    <3> HIDE DEF log, new
    <3>2. LogDataAvail(log) \in Nat /\ MaxBurst \in Nat
      BY <1>1, AvailIs, BasicStreamAssumption
    <3>3. \A k \in 1 .. LogDataAvail(new) : k > MaxBurst => Kth(new, k).var = new.VarToLog
      <4> TAKE k \in 1 .. LogDataAvail(new)
      <4>1. n + k \in 1 .. LogDataAvail(log) /\ (k > MaxBurst => n + k > MaxBurst)
        BY <1>1, <1>3, <3>2
      <4> QED BY <1>3, <3>1, <4>1
    <3> QED BY <2>3, <3>3 DEF LateHold, Waiting, Entry, new
  <2> QED BY <2>2, <2>3
<1>5. todo' # << >> => burst' <= MaxBurst
  BY <1>1 DEF LateInv
<1> QED BY <1>2, <1>4, <1>5 DEF LateInv

(* What these change of a log is not its samples. *)
LEMMA LateFlags == ASSUME BaseInv, LateInv, ReadLogFlags \/ StartOrStop PROVE LateInv'
<1>1. /\ TodoInv /\ StreamTyped /\ todo # << >> /\ todo[1].do \in {"flags", "clear", "start", "stop"} /\ Then(<< >>)
      /\ burst' = burst
  <2>1. /\ TodoInv /\ StreamTyped /\ todo # << >> /\ Then(<< >>) /\ burst' = burst
        /\ Do("flags") \/ Do("clear") \/ Do("start") \/ Do("stop")
    BY DEF BaseInv, ReadLogFlags, StartOrStop, Do
  <2> QED BY <2>1, FirstIs
<1>2. todo'[1].do # "store"
  <2>1. CASE todo[1].do = "clear"
    BY <1>1, <2>1, NextOp, ShapeOfFirst DEF Under, TodoInv, Final
  <2>2. CASE todo[1].do # "clear"
    BY <1>1, <2>2, NextOp DEF Under
  <2> QED BY <2>1, <2>2
<1>3. \A i \in Log : ~Setting(i) /\ ~Setting(i)'
  BY <1>1, <1>2 DEF Setting, Under
<1>4. ASSUME NEW i \in Log
      PROVE  /\ LogDataAvail(logs'[i]) = LogDataAvail(logs[i]) /\ (\A k : Kth(logs'[i], k) = Kth(logs[i], k))
             /\ logs'[i].VarToLog = logs[i].VarToLog
  <2> DEFINE old == logs[i]
             new == logs'[i]
  <2>1. old \in LogType
    BY <1>1 DEF StreamTyped
  <2>2. new \in {old, [old EXCEPT !.Flags = FALSE], StartLogging(old), StopLogging(old)}
    BY <1>1 DEF ReadLogFlags, StartOrStop, StreamTyped
  <2> HIDE DEF old, new
  <2>3. new \in {old, [old EXCEPT !.Flags = FALSE], [old EXCEPT !.LogStatus = "logging"], [old EXCEPT !.LogStatus = "done"]}
    BY <2>2 DEF StartLogging, StopLogging
  <2>4. new.InPos = old.InPos /\ new.OutPos = old.OutPos /\ new.LogEntry = old.LogEntry /\ new.VarToLog = old.VarToLog
    BY <2>1, <2>3 DEF LogType
  <2> QED BY <2>4 DEF LogDataAvail, Kth, old, new
<1>5. ASSUME NEW i \in Log PROVE LateHold(i)'
  <2>1. LateHold(i)
    BY <1>3 DEF LateInv
  <2> QED BY <1>4, <2>1 DEF LateHold, Waiting, Entry
<1>6. todo' # << >> => burst' <= MaxBurst
  BY <1>1 DEF LateInv
<1> QED BY <1>3, <1>5, <1>6 DEF LateInv

LEMMA LateStore == ASSUME BaseInv, LateInv, Store PROVE LateInv'
<1>1. TodoInv /\ StreamTyped /\ logs \in [Log -> LogType] /\ burst \in Nat /\ MaxBurst \in Nat
  BY BasicStreamAssumption DEF BaseInv, StreamTyped
<1>2. PICK i \in Log, v \in Variables, s \in Modes :
           /\ SetShape(todo, i, v, s) /\ todo[1].what[1] = i /\ todo[1].do = "store" /\ todo # << >> /\ Then(<< >>)
           /\ \/ Len(todo) = 7 /\ logs' = [logs EXCEPT ![i].InPos = 0]
              \/ Len(todo) = 6 /\ logs' = [logs EXCEPT ![i].OutPos = 0]
              \/ Len(todo) = 5 /\ logs' = [logs EXCEPT ![i].Settings = s]
              \/ Len(todo) = 4 /\ logs' = [logs EXCEPT ![i].Flags = FALSE]
              \/ Len(todo) = 3 /\ logs' = [logs EXCEPT ![i].VarToLog = v]
              \/ Len(todo) = 2 /\ logs' = [logs EXCEPT ![i].LogStatus = "ready"]
           /\ UNCHANGED <<tick, rd, burst, stream, net, count, hist>>
  BY <1>1, StoreIs
<1>3. /\ Len(todo) \in 2 .. 7 /\ Len(todo') = Len(todo) - 1
      /\ \A j \in Log : Setting(j)' <=> (j = i /\ Len(todo) > 2)
  BY <1>2, StoresOneLog
<1>4. \A j \in Log : Setting(j) <=> j = i
  BY <1>2 DEF Setting, Under
<1>5. burst' = burst /\ burst <= MaxBurst /\ \A j \in Log : j # i => logs'[j] = logs[j]
  BY <1>1, <1>2 DEF LateInv
<1>6. IF Setting(i)' THEN LateSet(i)' ELSE LateHold(i)'
  <2> DEFINE n == Len(todo)
             old == logs[i]
             new == logs'[i]
  <2>1. (n - 1 <= 5 => old.InPos <= burst) /\ (n - 1 <= 4 => old.OutPos = 0)
    BY <1>4 DEF LateInv, LateSet
  <2>2. /\ \/ n = 7 /\ new = [old EXCEPT !.InPos = 0]
           \/ n = 6 /\ new = [old EXCEPT !.OutPos = 0]
           \/ n = 5 /\ new = [old EXCEPT !.Settings = s]
           \/ n = 4 /\ new = [old EXCEPT !.Flags = FALSE]
           \/ n = 3 /\ new = [old EXCEPT !.VarToLog = v]
           \/ n = 2 /\ new = [old EXCEPT !.LogStatus = "ready"]
        /\ old \in LogType
    BY <1>1, <1>2
  <2>3. n \in 2 .. 7 /\ Len(todo') = n - 1
    BY <1>3
  <2> HIDE DEF n, old, new
  <2>4. (n - 2 <= 5 => new.InPos <= burst) /\ (n - 2 <= 4 => new.OutPos = 0)
    <3>1. CASE n = 7 /\ new = [old EXCEPT !.InPos = 0]
      BY <1>1, <2>1, <2>2, <3>1 DEF LogType
    <3>2. CASE n = 6 /\ new = [old EXCEPT !.OutPos = 0]
      BY <2>1, <2>2, <3>2 DEF LogType
    <3>3. CASE n \in 2 .. 5 /\ new.InPos = old.InPos /\ new.OutPos = old.OutPos
      BY <2>1, <3>3
    <3>4. \/ n = 7 /\ new = [old EXCEPT !.InPos = 0]
          \/ n = 6 /\ new = [old EXCEPT !.OutPos = 0]
          \/ n \in 2 .. 5 /\ new.InPos = old.InPos /\ new.OutPos = old.OutPos
      BY <2>2 DEF LogType
    <3> QED BY <3>1, <3>2, <3>3, <3>4
  <2>5. CASE n > 2
    <3>1. Setting(i)'
      BY <1>3, <2>5 DEF n
    <3>2. LateSet(i)'
      BY <1>5, <2>3, <2>4 DEF LateSet, new
    <3> QED BY <3>1, <3>2
  <2>6. CASE n = 2
    <3>1. ~Setting(i)'
      BY <1>3, <2>6 DEF n
    <3>2. LogDataAvail(new) = new.InPos /\ new.InPos <= burst /\ new.InPos \in Nat
      <4>1. new.OutPos = 0 /\ new.InPos <= burst
        BY <2>4, <2>6
      <4>2. new.InPos \in Nat
        BY <2>2, <2>6, BasicLogAssumption DEF LogType, Cell
      <4> QED BY <4>1, <4>2 DEF LogDataAvail
    <3>3. \A k \in 1 .. LogDataAvail(new) : ~(k > MaxBurst)
      BY <1>1, <1>5, <3>2
    <3>4. LateHold(i)'
      BY <3>3 DEF LateHold, Waiting, new
    <3> QED BY <3>1, <3>4
  <2> QED BY <2>3, <2>5, <2>6
<1>7. ASSUME NEW j \in Log PROVE IF Setting(j)' THEN LateSet(j)' ELSE LateHold(j)'
  <2>1. CASE j = i
    BY <1>6, <2>1
  <2>2. CASE j # i
    <3>1. LateHold(j) /\ ~Setting(j)'
      BY <1>3, <1>4, <2>2 DEF LateInv
    <3>2. LateHold(j)'
      BY <1>5, <2>2, <3>1, LateSame
    <3> QED BY <3>1, <3>2
  <2> QED BY <2>1, <2>2
<1> QED BY <1>5, <1>7 DEF LateInv

LEMMA LateNext == ASSUME BaseInv, LateInv, StreamNext PROVE LateInv'
BY LateTick, LateCommand, LateElse, LateRelease, LateFlags, LateStore DEF StreamNext, MainStep

LEMMA LogShows == BaseInv /\ LogInv /\ LateInv => SamplesOfItsVariable
<1> SUFFICES ASSUME BaseInv, LogInv, LateInv, NEW i \in Log, Idle,
                    NEW k \in 1 .. LogDataAvail(logs[i])
             PROVE  \/ Copied(logs[i], logs[i].OutPos, LogDataAvail(logs[i]))[k].var = logs[i].VarToLog
                    \/ hist.raced[i] /\ k <= MaxBurst
  BY DEF SamplesOfItsVariable
<1> DEFINE log == logs[i]
           n == LogDataAvail(log)
<1>1. log \in LogType /\ ~Setting(i)
  BY DEF BaseInv, StreamTyped, Setting, Under, Idle
<1>2. Kth(log, k).var = log.VarToLog \/ (hist.raced[i] /\ k <= MaxBurst)
  <2>1. CASE ~hist.raced[i]
    BY <1>1, <2>1 DEF LogInv, HoldInv, Waiting, Entry
  <2>2. CASE hist.raced[i]
    <3>1. k > MaxBurst => Kth(log, k).var = log.VarToLog
      BY <1>1 DEF LateInv, LateHold, Waiting, Entry
    <3>2. k > MaxBurst \/ k <= MaxBurst
      BY BasicStreamAssumption
    <3> QED BY <2>2, <3>1, <3>2
  <2> QED BY <2>1, <2>2
<1> HIDE DEF log
<1>3. n \in 0 .. n
  BY <1>1, AvailIs
<1>4. Copied(log, log.OutPos, n) = [m \in 1 .. n |-> Kth(log, m)]
  BY <1>1, <1>3, CopiedIs
<1>5. k \in 1 .. n
  BY DEF log
<1> QED BY <1>2, <1>4, <1>5 DEF log

(***************************************************************************)
(* Whatever time commands take, what waits in a log is of the variable     *)
(* that LM set it up for.  If LM came while the log was logging, no more   *)
(* samples come first that may be of another than there were interrupts    *)
(* between the stores of SetupLogVariable.                                 *)
(***************************************************************************)
THEOREM LoggedVariable == EitherSpec => []SamplesOfItsVariable
<1>1. Either => BaseInv /\ LogInv /\ LateInv
  BY BaseInit, LogInit, LateInit DEF Either
<1>2. BaseInv /\ LogInv /\ LateInv /\ [EitherNext]_<<session, controlVars, streamVars>>
        => (BaseInv /\ LogInv /\ LateInv)'
  <2> SUFFICES ASSUME BaseInv, LogInv, LateInv, [EitherNext]_<<session, controlVars, streamVars>>
               PROVE  (BaseInv /\ LogInv /\ LateInv)'
    OBVIOUS
  <2>1. CASE StreamNext
    BY <2>1, BaseNext, LogNext, LateNext
  <2>2. CASE UNCHANGED streamVars
    BY <2>2, BaseStutter, LogStutter, LateStutter
  <2> QED BY <2>1, <2>2 DEF EitherNext
<1> QED BY <1>1, <1>2, LogShows, PTL DEF EitherSpec

-----------------------------------------------------------------------------
(***************************************************************************)
(* WindowInv: how many samples an interrupt can add between two steps of a *)
(* read, as at most MaxBurst interrupts come in one round of the main      *)
(* loop. So there is room in the ring from the release of the samples to   *)
(* where the flag is cleared.                                              *)
(***************************************************************************)

(***************************************************************************)
(* The main loop takes less time over a command or a packet than the       *)
(* samples of a packet do, and than those of a ring: at 10 kHz a packet of *)
(* thousands of samples lasts for a tenth of a second and more.            *)
(***************************************************************************)
InTime == MaxBurst <= Packet /\ MaxBurst < LOG_LENGTH

LEMMA WindowQuiet ==
  ASSUME todo' # << >> => burst' <= MaxBurst, todo' = << >> \/ todo'[1].do \notin Parting
  PROVE  WindowInv'
BY DEF WindowInv, Under, Parting

LEMMA WindowInit == StreamInit => WindowInv
BY DEF StreamInit, WindowInv, Sending, Under

LEMMA WindowStutter == WindowInv /\ UNCHANGED streamVars => WindowInv'
BY DEF WindowInv, streamVars, Under, Sending, Final, Waiting

(* More of a log waits only as time passes. *)
LEMMA WindowTick == ASSUME InTime, BaseInv, LogInv, WindowInv, Tick PROVE WindowInv'
<1>1. StreamTyped /\ tick + 1 \in Nat /\ burst \in Nat /\ rd.log \in Log
  BY DEF BaseInv, StreamTyped
<1>2. /\ UNCHANGED <<todo, rd, hist>> /\ (todo # << >> => burst < MaxBurst)
      /\ burst' = IF todo = << >> THEN 0 ELSE burst + 1
      /\ logs' = [i \in Log |-> DoLogging(logs[i], tick + 1)]
  BY DEF Tick
<1> DEFINE old == logs[rd.log]
           new == logs'[rd.log]
           n == LogDataAvail(old)
           m == LogDataAvail(new)
<1>3. old \in LogType /\ new = DoLogging(old, tick + 1)
  BY <1>1, <1>2 DEF StreamTyped
<1> HIDE DEF old, new
<1>4. /\ n \in Nat /\ m \in {n, n + 1}
      /\ new.Flags => old.Flags \/ n = LOG_LENGTH - 1
  BY <1>1, <1>3, DoLoggingIs
<1>5. MaxBurst \in Nat /\ LOG_LENGTH \in Nat
  BY BasicStreamAssumption, BasicLogAssumption
<1> HIDE DEF n, m
<1>6. CASE todo = << >>
  BY <1>2, <1>6 DEF WindowInv, Under, Sending
<1>7. CASE todo # << >>
  <2>1. burst' = burst + 1 /\ burst < MaxBurst /\ rd.length \in Nat /\ m <= n + 1
    BY <1>1, <1>2, <1>4, <1>7 DEF StreamTyped
  <2>2. /\ todo' = todo /\ rd' = rd /\ hist' = hist /\ Waiting(rd.log) = n /\ Waiting(rd.log)' = m /\ logs'[rd'.log] = new
        /\ logs[rd.log] = old
    BY <1>2 DEF Waiting, n, m, old, new
  <2>3. todo' # << >> => burst' <= MaxBurst
    BY <1>1, <1>5, <2>1
  <2>4. ASSUME Sending, Under("copy") \/ Under("release") PROVE rd.length = Packet \/ m <= rd.length + burst'
    <3>1. rd.length = Packet \/ n <= rd.length + burst
      BY <2>2, <2>4 DEF WindowInv
    <3> QED BY <1>1, <1>4, <2>1, <3>1
  <2>5. ASSUME Sending, Under("flags") \/ Under("clear")
        PROVE  \/ rd.length = Packet /\ m <= LOG_LENGTH - 1 - rd.length + burst'
               \/ m <= burst'
    <3>1. \/ rd.length = Packet /\ n <= LOG_LENGTH - 1 - rd.length + burst
          \/ n <= burst
      BY <2>2, <2>5 DEF WindowInv
    <3>2. CASE rd.length = Packet /\ n <= LOG_LENGTH - 1 - rd.length + burst
      BY <1>1, <1>4, <1>5, <2>1, <3>2
    <3>3. CASE n <= burst
      BY <1>1, <1>4, <2>1, <3>3
    <3> QED BY <3>1, <3>2, <3>3
  <2>6. ASSUME Under("flags") \/ Under("clear"), Final = "end", ~hist.raced[rd.log] PROVE ~new.Flags /\ m <= burst'
    <3>1. ~old.Flags /\ n <= burst
      BY <2>2, <2>6 DEF WindowInv
    <3>2. n # LOG_LENGTH - 1
      BY <1>1, <1>4, <1>5, <2>1, <3>1 DEF InTime
    <3> QED BY <1>1, <1>4, <2>1, <3>1, <3>2
  <2>7. todo # << >> /\ Final = "reply" /\ todo[1].do \in Parting => hist.heard[rd.log].warned
    BY DEF WindowInv
  <2> QED BY <2>2, <2>3, <2>4, <2>5, <2>6, <2>7 DEF WindowInv, Under, Sending, Final
<1> QED BY <1>6, <1>7

LEMMA WindowCommand == ASSUME BaseInv, LogInv, WindowInv, CommandParser PROVE WindowInv'
<1>1. StreamTyped /\ TodoInv /\ MaxBurst \in Nat
  BY BasicStreamAssumption DEF BaseInv
<1>2. ASSUME NEW comm, CmdLS(comm) \/ CmdLFS(comm) \/ CmdLFH(comm) PROVE WindowInv'
  <2>1. todo' # << >> /\ todo'[1].do \in {"start", "stop", "stream", "reply"}
    BY <1>1, <1>2, StartsBegin
  <2>2. burst' = 0
    BY <1>2 DEF CmdLS, CmdLFS, CmdLFH, Command
  <2> QED BY <1>1, <2>1, <2>2, WindowQuiet DEF Parting
<1>3. ASSUME NEW comm, NEW i \in Log, CmdLFR(comm, i) PROVE WindowInv'
  <2>1. PICK ops : Command(comm, ops) /\ (ops = Reading \/ ops = <<[do |-> "flags"], [do |-> "clear"]>>)
    BY <1>3 DEF CmdLFR
  <2>2. comm \in Ask
    BY <1>1, <2>1, CommandTyped
  <2>3. todo' # << >> /\ Final' = "reply"
    BY <2>1, <2>2, BeginReading
  <2>4. rd' = [NoRead EXCEPT !.log = i] /\ hist' = [hist EXCEPT !.heard[i].warned = TRUE] /\ burst' = 0
    BY <1>3, <2>1 DEF CmdLFR, Command
  <2>5. rd'.log = i
    BY <2>4 DEF NoRead
  <2>6. hist'.heard[i].warned
    <3>1. hist \in [asker : Nat, orphan : BOOLEAN, heard : [Log -> Hears], next : Nat, raced : [Log -> BOOLEAN], sentTo : Nat]
      BY <1>1 DEF StreamTyped
    <3>2. hist'.heard[i] = [hist.heard[i] EXCEPT !.warned = TRUE] /\ hist.heard[i] \in Hears
      BY <2>4, <3>1
    <3> QED BY <3>2 DEF Hears
  <2> QED BY <1>1, <2>3, <2>4, <2>5, <2>6 DEF WindowInv, Sending
<1>4. ASSUME NEW comm, NEW i \in Log, NEW v \in Variables, NEW s \in Modes, CmdLM(comm, i, v, s) PROVE WindowInv'
  <2>1. comm \in Ask
    BY <1>1, <1>4, CommandTyped DEF CmdLM
  <2>2. \A k \in 1 .. 6 : todo'[k].do = "store"
    BY <1>4, <2>1, BeginLM
  <2>3. todo'[1].do = "store" /\ burst' = 0
    BY <1>4, <2>2 DEF CmdLM, Command
  <2> QED BY <1>1, <2>3, WindowQuiet DEF Parting
<1> QED BY <1>2, <1>3, <1>4 DEF CommandParser

LEMMA WindowElse ==
  ASSUME BaseInv, WindowInv,
         Lwip \/ Prime \/ Room \/ Store \/ StartOrStop \/ StartStream \/ Send \/ ReloadEnd \/ Reply
  PROVE  WindowInv'
<1>1. TodoInv /\ StreamTyped /\ MaxBurst \in Nat
  BY BasicStreamAssumption DEF BaseInv
<1>2. CASE Lwip \/ Prime
  <2>1. todo = << >> /\ todo' \in {<< >>, Reload} /\ (todo' # << >> => burst' = 0)
    BY <1>2, Zenon DEF Lwip, Prime, accept_callback, CloseInReceive, tcpip_disconnect_callback, sent_callback, Idle
  <2>2. todo' = << >> \/ todo'[1].do = "room"
    BY <2>1 DEF Reload
  <2> QED BY <1>1, <2>1, <2>2, WindowQuiet DEF Parting
<1>3. CASE Room \/ Send \/ ReloadEnd \/ Reply
  <2>1. todo # << >> /\ burst' = burst /\ todo' \in {<< >>, Reload, <<[do |-> "pick"]>>, <<[do |-> "end"]>>}
    BY <1>3, Zenon DEF Room, Send, ReloadEnd, Reply, Do
  <2>2. todo' = << >> \/ todo'[1].do \in {"room", "pick", "end"}
    BY <2>1 DEF Reload
  <2>3. burst' <= MaxBurst
    BY <2>1 DEF WindowInv
  <2> QED BY <2>2, <2>3, WindowQuiet DEF Parting
<1>4. CASE Store \/ StartOrStop \/ StartStream
  <2>1. todo # << >> /\ burst' = burst /\ Then(<< >>) /\ (Do("store") \/ Do("start") \/ Do("stop") \/ Do("stream"))
    BY <1>4 DEF Store, StartOrStop, StartStream, Do
  <2>2. todo[1].do \in {"store", "start", "stop", "stream"}
    BY <1>1, <2>1, FirstIs
  <2>3. todo'[1].do \in {"store", "start", "stop", "stream", "reply"}
    BY <1>1, <2>1, <2>2, NextOp
  <2>4. burst' <= MaxBurst
    BY <2>1 DEF WindowInv
  <2> QED BY <2>3, <2>4, WindowQuiet DEF Parting
<1> QED BY <1>2, <1>3, <1>4

(* A log of which nothing is read has nothing to tell. *)
LEMMA WindowPick == ASSUME BaseInv, LogInv, WindowInv, Pick PROVE WindowInv'
<1>1. /\ TodoInv /\ StreamTyped /\ todo # << >> /\ burst \in Nat /\ UNCHANGED <<logs, burst, hist>> /\ rd.log \in Log
      /\ todo[1].do = "pick"
  <2>1. /\ TodoInv /\ StreamTyped /\ todo # << >> /\ UNCHANGED <<logs, burst, hist>> /\ Do("pick")
    BY DEF BaseInv, Pick, Do
  <2> QED BY <2>1, FirstIs DEF StreamTyped
<1>2. burst' <= MaxBurst
  BY <1>1 DEF WindowInv
<1>3. MostFull \in Log /\ \A j \in Log : Waiting(j) <= Waiting(MostFull)
  BY <1>1, MostFullIs DEF StreamTyped
<1>4. CASE DetermineMostFullLog = 0 \/ ~Readable(logs[MostFull])
  <2>0. PICK i \in Log : i = IF DetermineMostFullLog = 0 THEN 0 ELSE MostFull
    <3>1. 0 \in Log
      BY BasicStreamAssumption DEF Log
    <3> QED BY <1>3, <3>1
  <2>1. /\ todo' = <<[do |-> "flags"], [do |-> "clear"], [do |-> "end"]>>
        /\ rd' = [rd EXCEPT !.log = i, !.status = 0]
    BY <1>4, <2>0 DEF Pick
  <2>2. i \in Log
    OBVIOUS
  <2>3. rd'.log = i /\ todo' # << >> /\ Final' = "end"
    BY <1>1, <2>1 DEF StreamTyped, Final
  <2>4. \A j \in Log : ~Setting(j) /\ ~Taken(j)
    BY <1>1 DEF Setting, Taken, Under
  <2>5. ASSUME ~hist.raced[i] PROVE ~logs[i].Flags /\ Waiting(i) = 0
    <3>1. HoldInv(i)
      BY <2>2, <2>4, <2>5 DEF LogInv
    <3>2. logs[i] \in LogType /\ Waiting(i) \in Nat /\ LOG_LENGTH \in Nat \ {0, 1}
      <4>1. logs[i] \in LogType
        BY <1>1, <2>2 DEF StreamTyped
      <4> QED BY <4>1, AvailIs, BasicLogAssumption DEF Waiting
    <3>3. CASE DetermineMostFullLog = 0
      <4>1. Waiting(i) <= 0
        BY <1>3, <3>3 DEF DetermineMostFullLog, Waiting
      <4>2. Waiting(i) = 0 /\ LOG_LENGTH - 1 # 0
        BY <3>2, <4>1
      <4>3. logs[i].Flags => Waiting(i) = LOG_LENGTH - 1
        BY <2>2, <2>4, <3>1 DEF HoldInv
      <4> QED BY <4>2, <4>3
    <3>4. CASE DetermineMostFullLog # 0 /\ ~Readable(logs[MostFull])
      <4>1. logs[i].LogStatus \in {"idle", "ready"}
        BY <2>0, <3>2, <3>4 DEF Readable, LogType
      <4> QED BY <3>1, <4>1 DEF HoldInv
    <3> QED BY <1>4, <3>3, <3>4
  <2>6. Waiting(i)' = Waiting(i) /\ logs'[i].Flags = logs[i].Flags
    BY <1>1 DEF Waiting
  <2>7. ~hist'.raced[rd'.log] => ~logs'[rd'.log].Flags /\ Waiting(rd.log)' <= burst'
    <3>1. Waiting(rd.log)' = Waiting(i)'
      BY <2>3 DEF Waiting
    <3> QED BY <1>1, <2>3, <2>5, <2>6, <3>1
  <2> QED BY <1>2, <2>3, <2>7 DEF WindowInv, Sending
<1>5. CASE ~(DetermineMostFullLog = 0 \/ ~Readable(logs[MostFull]))
  <2>1. todo' = Reading \o <<[do |-> "send"]>>
    BY <1>5 DEF Pick
  <2>2. todo'[1].do = "begin" /\ Final' = "send"
    BY <2>1 DEF Reading, Final
  <2> QED BY <1>2, <2>2 DEF WindowInv, Sending, Under
<1> QED BY <1>4, <1>5

(* The steps of a read. *)
LEMMA WindowBegin == ASSUME BaseInv, WindowInv, ReadBegin \/ ReadCopy PROVE WindowInv'
<1>1. /\ TodoInv /\ StreamTyped /\ todo # << >> /\ Then(<< >>) /\ UNCHANGED <<logs, burst, hist>> /\ rd.log \in Log
      /\ todo[1].do \in {"begin", "copy"}
  <2>1. /\ TodoInv /\ StreamTyped /\ todo # << >> /\ Then(<< >>) /\ UNCHANGED <<logs, burst, hist>> /\ (Do("begin") \/ Do("copy"))
    BY DEF BaseInv, ReadBegin, ReadCopy, Do
  <2> QED BY <2>1, FirstIs DEF StreamTyped
<1>2. todo' # << >> /\ Final' = Final /\ todo'[1].do \in {"copy", "release"}
  BY <1>1, Onwards, NextOp DEF Under
<1>3. burst' <= MaxBurst /\ burst \in Nat /\ Packet \in Nat
  BY <1>1, BasicStreamAssumption DEF WindowInv, StreamTyped
<1>4. rd'.log = rd.log
  BY <1>1 DEF StreamTyped, ReadBegin, ReadCopy
<1>5. Final' = "reply" => hist'.heard[rd'.log].warned
  BY <1>1, <1>2, <1>4 DEF WindowInv, Parting
<1>6. Sending' => rd'.length = Packet \/ Waiting(rd.log)' <= rd'.length + burst'
  <2> SUFFICES ASSUME Sending' PROVE rd'.length = Packet \/ Waiting(rd.log)' <= rd'.length + burst'
    OBVIOUS
  <2>1. Waiting(rd.log)' = Waiting(rd.log)
    BY <1>1, <1>4 DEF Waiting
  <2>2. CASE todo[1].do = "begin"
    <3> DEFINE n == ReadLength(logs[rd.log], Packet)
    <3>1. ReadBegin
      BY <1>1, <2>2, FirstIs DEF ReadCopy
    <3>2. rd' = [rd EXCEPT !.length = n, !.in = logs[rd.log].InPos, !.out = logs[rd.log].OutPos]
      BY <3>1 DEF ReadBegin
    <3>3. logs[rd.log] \in LogType
      BY <1>1 DEF StreamTyped
    <3>4. (n = Packet \/ n = Waiting(rd.log)) /\ Waiting(rd.log) \in Nat
      BY <3>3, ReadLengthIs, AvailIs DEF Waiting
    <3> HIDE DEF n
    <3>5. rd'.length = n
      BY <1>1, <3>2 DEF StreamTyped
    <3> QED BY <1>1, <1>3, <2>1, <3>4, <3>5
  <2>3. CASE todo[1].do = "copy"
    <3>1. ReadCopy
      BY <1>1, <2>3, FirstIs DEF ReadBegin
    <3>2. rd'.length = rd.length
      BY <1>1, <3>1 DEF ReadCopy, StreamTyped
    <3>3. Sending
      BY <1>1, <1>2 DEF Sending
    <3> QED BY <1>1, <2>1, <2>3, <3>2, <3>3 DEF WindowInv, Under
  <2> QED BY <1>1, <2>2, <2>3
<1> QED BY <1>2, <1>3, <1>5, <1>6 DEF WindowInv, Under

LEMMA WindowRelease == ASSUME BaseInv, WindowInv, ReadRelease PROVE WindowInv'
<1> DEFINE log == logs[rd.log]
           new == logs'[rd.log]
           n == rd.length
           w == LogDataAvail(log)
<1>1. /\ todo # << >> /\ todo[1].do = "release" /\ todo' # << >> /\ todo'[1].do = "flags" /\ Final' = Final /\ Len(todo) = 4
      /\ UNCHANGED <<rd, burst, hist>> /\ n \in 0 .. w /\ log \in LogType
      /\ new = [log EXCEPT !.OutPos = Place(log.OutPos, n + 1)]
  BY ReleaseIs
<1>2. Final # "end"
  <2>1. ReadShape(todo)
    BY <1>1, ShapeOfFirst DEF BaseInv, TodoInv
  <2> QED BY <1>1, <2>1 DEF ReadShape, Final
<1>3. burst' <= MaxBurst /\ burst \in Nat
  BY <1>1 DEF WindowInv, BaseInv, StreamTyped
<1>4. Final' = "reply" => hist'.heard[rd'.log].warned
  BY <1>1 DEF WindowInv, Parting
<1>5. Sending => n = Packet \/ w <= n + burst
  BY <1>1 DEF WindowInv, Under, Waiting
<1> HIDE DEF log, new, n
<1>6. LogDataAvail(new) = w - n /\ w \in 0 .. LOG_LENGTH - 1 /\ LOG_LENGTH \in Nat
  BY <1>1, ReleasedIs, AvailIs
<1> HIDE DEF w
<1>7. Sending => \/ n = Packet /\ LogDataAvail(new) <= LOG_LENGTH - 1 - n + burst
                 \/ LogDataAvail(new) <= burst
  BY <1>1, <1>3, <1>5, <1>6
<1>8. Waiting(rd.log)' = LogDataAvail(new)
  BY <1>1 DEF Waiting, new
<1> QED BY <1>1, <1>2, <1>3, <1>4, <1>7, <1>8 DEF WindowInv, Under, Sending, n

LEMMA WindowFlags == ASSUME BaseInv, WindowInv, ReadLogFlags PROVE WindowInv'
<1>1. TodoInv /\ StreamTyped /\ todo # << >> /\ todo[1].do \in {"flags", "clear"} /\ Then(<< >>) /\ UNCHANGED <<hist, burst>>
      /\ rd.log \in Log
  <2>1. TodoInv /\ StreamTyped /\ todo # << >> /\ Then(<< >>) /\ (Do("flags") \/ Do("clear")) /\ UNCHANGED <<hist, burst>>
    BY DEF BaseInv, ReadLogFlags, Do
  <2> QED BY <2>1, FirstIs DEF StreamTyped
<1>2. burst' <= MaxBurst
  BY <1>1 DEF WindowInv
<1>3. todo' # << >> /\ Final' = Final
  BY <1>1, Onwards
<1>4. CASE todo[1].do = "flags"
  <2>1. ReadLogFlags /\ ~Do("clear")
    BY <1>1, <1>4, FirstIs
  <2>2. logs' = logs /\ rd' = [rd EXCEPT !.flags = logs[rd.log].Flags]
    BY <2>1 DEF ReadLogFlags
  <2>3. rd'.log = rd.log /\ rd'.length = rd.length
    BY <1>1, <2>2 DEF StreamTyped
  <2>4. todo'[1].do = "clear"
    BY <1>1, <1>4, NextOp DEF Under
  <2>5. Waiting(rd.log)' = Waiting(rd.log)
    BY <2>2, <2>3 DEF Waiting
  <2> QED BY <1>1, <1>2, <1>3, <1>4, <2>2, <2>3, <2>4, <2>5 DEF WindowInv, Under, Sending, Parting
<1>5. CASE todo[1].do = "clear"
  <2>1. todo'[1].do = Final /\ Final \in {"reply", "send", "end", "room", "pick"}
    BY <1>1, <1>5, NextOp, ShapeOfFirst DEF Under, TodoInv, Final
  <2> QED BY <1>2, <2>1, WindowQuiet DEF Parting
<1> QED BY <1>1, <1>4, <1>5

LEMMA WindowNext == ASSUME InTime, BaseInv, LogInv, WindowInv, StreamNext PROVE WindowInv'
<1>1. CASE Tick
  BY <1>1, WindowTick
<1>2. CASE CommandParser
  BY <1>2, WindowCommand
<1>3. CASE Lwip \/ Prime \/ Room \/ Store \/ StartOrStop \/ StartStream \/ Send \/ ReloadEnd \/ Reply
  BY <1>3, WindowElse
<1>4. CASE Pick
  BY <1>4, WindowPick
<1>5. CASE ReadBegin \/ ReadCopy \/ ReadRelease \/ ReadLogFlags
  BY <1>5, WindowBegin, WindowRelease, WindowFlags
<1> QED BY <1>1, <1>2, <1>3, <1>4, <1>5 DEF StreamNext, MainStep

-----------------------------------------------------------------------------
(***************************************************************************)
(* GapsInv: of every log, either what was sent and what waits are samples  *)
(* of one interrupt after the other, up to the present one, or the flag    *)
(* says that some are missing, or the host has been told: by the flag of a *)
(* packet, or by a number that was left out.                               *)
(***************************************************************************)

(* What a log has to tell: a step that takes nothing out of it and adds nothing changes nothing. *)
LEMMA GapSame ==
  ASSUME NEW i \in Log, GapInv(i), logs'[i] = logs[i], tick' = tick, hist'.heard[i] = hist.heard[i],
         hist'.next = hist.next, stream'.sqn = stream.sqn, ~TakenOut(i), ~TakenOut(i)'
  PROVE  GapInv(i)'
<1>2. Prev(i) = hist.heard[i].last /\ Prev(i)' = hist.heard[i].last
  BY DEF Prev
<1>3. Unbroken(i)' <=> Unbroken(i)
  BY <1>2 DEF Unbroken
<1>4. (Told(i) <=> hist.heard[i].warned \/ Missed) /\ (Told(i)' <=> hist.heard[i].warned \/ Missed)
  BY DEF Told, TakenOut, Missed
<1>5. ~(Mine(i) /\ Under("clear"))'
  BY DEF TakenOut
<1> QED BY <1>3, <1>4, <1>5 DEF GapInv

LEMMA GapQuiet ==
  ASSUME GapsInv, logs' = logs, tick' = tick, hist'.raced = hist.raced, hist'.heard = hist.heard,
         hist'.next = hist.next, stream'.sqn = stream.sqn, ~Under("store"),
         \A i \in Log : ~TakenOut(i) /\ ~TakenOut(i)'
  PROVE  GapsInv'
<1>1. ASSUME NEW i \in Log, Telling(i)' PROVE GapInv(i)'
  <2>1. Telling(i)
    BY <1>1 DEF Telling, Setting
  <2>2. GapInv(i)
    BY <2>1 DEF GapsInv
  <2> QED BY <2>2, GapSame
<1> QED BY <1>1 DEF GapsInv

LEMMA GapInit == StreamInit => GapsInv
<1> SUFFICES ASSUME StreamInit PROVE GapsInv
  OBVIOUS
<1>1. hist.next = 0 /\ stream.sqn = 0 /\ todo = << >>
  BY DEF StreamInit
<1>2. ASSUME NEW i \in Log PROVE GapInv(i)
  <2>1. logs[i] = EmptyLog /\ hist.heard[i] = Unheard
    BY DEF StreamInit
  <2>2. LogDataAvail(logs[i]) = 0 /\ logs[i].LogStatus # "logging"
    BY <2>1 DEF LogDataAvail, EmptyLog
  <2>3. Unbroken(i)
    BY <2>2 DEF Unbroken, Whole
  <2>4. ~Mine(i) /\ ~TakenOut(i)
    BY <1>1 DEF Mine, TakenOut, Sending
  <2>5. ~hist.heard[i].gap
    BY <2>1 DEF Unheard
  <2> QED BY <2>3, <2>4, <2>5 DEF GapInv
<1> QED BY <1>1, <1>2 DEF GapsInv

LEMMA GapStutter == GapsInv /\ UNCHANGED streamVars => GapsInv'
BY DEF GapsInv, GapInv, Telling, Setting, Told, Unbroken, Fresh, TakenOut, Mine, Missed, Prev,
       Sending, Final, Under, streamVars

(* A sample goes behind the one before it, and none is left out without the flag. *)
LEMMA WholeTick ==
  ASSUME NEW old \in LogType, NEW p, NEW now \in Nat, Whole(old, p, now), PREVENT_OVERRUN \notin old.Settings,
         NEW new, new = DoLogging(old, now + 1), ~new.Flags
  PROVE  Whole(new, p, now + 1)
<1> DEFINE n == LogDataAvail(old)
           m == LogDataAvail(new)
<1>1. now + 1 \in Nat /\ LOG_LENGTH \in Nat \ {0, 1}
  BY BasicLogAssumption
<1>2. /\ n \in Nat
      /\ \A k \in 1 .. n : Kth(new, k) = Kth(old, k)
      /\ \/ new = old /\ old.LogStatus # "logging"
         \/ /\ old.LogStatus = "logging" /\ m = n + 1 /\ new.LogStatus = old.LogStatus
            /\ Kth(new, n + 1) = [var |-> old.VarToLog, at |-> now + 1]
         \/ m = n /\ n = LOG_LENGTH - 1 /\ new.LogStatus = "done"
  BY <1>1, DoLoggingIs
<1>3. /\ \A k \in 1 .. n - 1 : Kth(old, k + 1).at = Kth(old, k).at + 1
      /\ n > 0 /\ old.LogStatus = "logging" => Kth(old, n).at = now
      /\ n > 0 /\ p.var # NULL => Kth(old, 1).at = p.at + 1
      /\ n = 0 /\ old.LogStatus = "logging" /\ p.var # NULL => p.at = now
  BY DEF Whole
<1> HIDE DEF n, m
<1>4. /\ \A k \in 1 .. m - 1 : Kth(new, k + 1).at = Kth(new, k).at + 1
      /\ m > 0 /\ new.LogStatus = "logging" => Kth(new, m).at = now + 1
      /\ m > 0 /\ p.var # NULL => Kth(new, 1).at = p.at + 1
      /\ m = 0 /\ new.LogStatus = "logging" /\ p.var # NULL => p.at = now + 1
  <2>1. CASE new = old /\ old.LogStatus # "logging"
    BY <1>3, <2>1 DEF m, n
  <2>2. CASE m = n /\ n = LOG_LENGTH - 1 /\ new.LogStatus = "done"
    <3>1. ASSUME NEW k \in 1 .. m - 1 PROVE Kth(new, k + 1).at = Kth(new, k).at + 1
      <4>1. k \in 1 .. n /\ k + 1 \in 1 .. n /\ k \in 1 .. n - 1
        BY <1>1, <1>2, <2>2, <3>1
      <4> QED BY <1>2, <1>3, <4>1
    <3>2. m > 0 /\ 1 \in 1 .. n
      BY <1>1, <1>2, <2>2
    <3>3. Kth(new, 1) = Kth(old, 1)
      BY <1>2, <3>2
    <3> QED BY <1>3, <2>2, <3>1, <3>2, <3>3
  <2>3. CASE /\ old.LogStatus = "logging" /\ m = n + 1 /\ new.LogStatus = old.LogStatus
             /\ Kth(new, n + 1) = [var |-> old.VarToLog, at |-> now + 1]
    <3>1. Kth(new, n + 1).at = now + 1
      BY <2>3
    <3>2. ASSUME NEW k \in 1 .. m - 1 PROVE Kth(new, k + 1).at = Kth(new, k).at + 1
      <4>1. CASE k = n
        <5>1. n > 0 /\ k \in 1 .. n
          BY <1>2, <3>2, <4>1
        <5>2. Kth(new, k).at = now
          BY <1>2, <1>3, <2>3, <4>1, <5>1
        <5> QED BY <3>1, <4>1, <5>2
      <4>2. CASE k # n
        <5>1. k \in 1 .. n /\ k + 1 \in 1 .. n /\ k \in 1 .. n - 1
          BY <1>2, <2>3, <3>2, <4>2
        <5> QED BY <1>2, <1>3, <5>1
      <4> QED BY <4>1, <4>2
    <3>3. m > 0
      BY <1>2, <2>3
    <3>4. p.var # NULL => Kth(new, 1).at = p.at + 1
      <4>1. CASE n = 0
        <5>1. n + 1 = 1
          BY <4>1
        <5> QED BY <1>3, <2>3, <3>1, <4>1, <5>1
      <4>2. CASE n # 0
        <5>1. n > 0 /\ 1 \in 1 .. n
          BY <1>2, <4>2
        <5> QED BY <1>2, <1>3, <5>1
      <4> QED BY <4>1, <4>2
    <3> QED BY <2>3, <3>1, <3>2, <3>3, <3>4
  <2> QED BY <1>2, <2>1, <2>2, <2>3
<1> QED BY <1>4 DEF Whole, m

LEMMA GapTick == ASSUME InTime, BaseInv, LogInv, WindowInv, GapsInv, Tick PROVE GapsInv'
<1>1. StreamTyped /\ tick \in Nat /\ tick + 1 \in Nat /\ burst \in Nat /\ LOG_LENGTH \in Nat \ {0, 1} /\ MaxBurst \in Nat
      /\ Packet \in Nat
  BY BasicLogAssumption, BasicStreamAssumption DEF BaseInv, StreamTyped
<1>2. /\ UNCHANGED <<todo, rd, hist, stream>> /\ tick' = tick + 1 /\ (todo # << >> => burst < MaxBurst)
      /\ \A i \in Log : logs'[i] = DoLogging(logs[i], tick + 1)
  BY DEF Tick
<1>3. ASSUME NEW i \in Log PROVE /\ Setting(i)' <=> Setting(i)
                                 /\ Mine(i)' <=> Mine(i)
                                 /\ TakenOut(i)' <=> TakenOut(i)
                                 /\ Told(i)' <=> Told(i)
                                 /\ Prev(i)' = Prev(i)
                                 /\ Fresh(i)' <=> Fresh(i)
  BY <1>2 DEF Setting, Mine, TakenOut, Told, Prev, Fresh, Sending, Final, Under, Missed
<1>4. ASSUME NEW i \in Log, Telling(i)' PROVE GapInv(i)'
  <2> DEFINE old == logs[i]
             new == logs'[i]
             n == LogDataAvail(old)
             m == LogDataAvail(new)
  <2>1. old \in LogType /\ new = DoLogging(old, tick + 1)
    BY <1>1, <1>2 DEF StreamTyped
  <2> HIDE DEF old, new
  <2>2. /\ new.Settings = old.Settings /\ n \in Nat
        /\ \/ new = old /\ (old.LogStatus # "logging" \/ PREVENT_OVERRUN \in old.Settings)
           \/ /\ old.LogStatus = "logging" /\ m = n + 1
              /\ new.Flags = old.Flags /\ new.LogStatus = old.LogStatus
           \/ /\ old.LogStatus = "logging" /\ m = n /\ n = LOG_LENGTH - 1
              /\ \/ new.LogStatus = "done" /\ new.Flags = old.Flags
                 \/ new.LogStatus = old.LogStatus /\ new.Flags
    BY <1>1, <2>1, DoLoggingIs
  <2>3. Telling(i) /\ PREVENT_OVERRUN \notin old.Settings
    BY <1>2, <1>3, <1>4, <2>2 DEF Telling, old, new
  <2>4. GapInv(i)
    BY <2>3 DEF GapsInv
  <2>5. Waiting(i) = n /\ logs[i] = old /\ logs'[i] = new
    BY DEF Waiting, old, new
  <2>6. Unbroken(i) => new.Flags \/ Unbroken(i)'
    <3>1. Whole(old, Prev(i), tick) => new.Flags \/ Whole(new, Prev(i), tick + 1)
      BY <1>1, <2>1, <2>3, WholeTick
    <3> QED BY <1>2, <1>3, <2>5, <3>1 DEF Unbroken
  <2>7. old.Flags => new.Flags
    BY <2>2, <2>3
  <2>8. Mine(i) /\ Under("clear") /\ new.Flags => old.Flags
    <3> SUFFICES ASSUME Mine(i), Under("clear"), new.Flags, ~old.Flags PROVE FALSE
      OBVIOUS
    <3>1. n = LOG_LENGTH - 1
      BY <2>2
    <3>2. burst < MaxBurst
      BY <1>2 DEF Under
    <3>3. \/ rd.length = Packet /\ n <= LOG_LENGTH - 1 - rd.length + burst
          \/ n <= burst
      BY <2>5 DEF WindowInv, Mine
    <3> HIDE DEF n
    <3> QED BY <1>1, <3>1, <3>2, <3>3 DEF InTime
  <2>9. Under("clear")' = Under("clear") /\ Under("flags")' = Under("flags") /\ rd' = rd /\ hist' = hist
    BY <1>2 DEF Under
  <2>10. Told(i)' \/ new.Flags \/ Unbroken(i)'
    BY <1>3, <2>4, <2>5, <2>6, <2>7 DEF GapInv
  <2>11. TakenOut(i)' => Told(i)' \/ (Under("flags")' /\ new.Flags) \/ Fresh(i)'
    BY <1>3, <2>4, <2>5, <2>7, <2>9 DEF GapInv
  <2>12. (Mine(i) /\ Under("clear"))' /\ new.Flags => rd'.flags
    BY <1>3, <2>4, <2>5, <2>8, <2>9 DEF GapInv
  <2> QED BY <2>4, <2>5, <2>9, <2>10, <2>11, <2>12 DEF GapInv
<1> QED BY <1>2, <1>4 DEF GapsInv

LEMMA GapLwip == ASSUME BaseInv, GapsInv, Lwip \/ Prime PROVE GapsInv'
<1>1. StreamTyped /\ TodoInv /\ todo = << >> /\ logs' = logs /\ tick' = tick
  BY DEF BaseInv, Lwip, Prime, accept_callback, CloseInReceive, tcpip_disconnect_callback, sent_callback, Idle
<1>2. todo' \in {<< >>, Reload}
  BY <1>1 DEF Lwip, Prime, accept_callback, CloseInReceive, tcpip_disconnect_callback, sent_callback
<1>3. ~Under("store") /\ ~Sending /\ ~Sending'
  BY <1>1, <1>2 DEF Under, Sending, Final, Reload
<1>4. hist'.raced = hist.raced /\ hist'.heard = hist.heard /\ hist'.next = hist.next
  <2>1. hist' = hist \/ \E p \in Pcb : hist' = [hist EXCEPT !.orphan = @ \/ stream.comm = p]
    BY DEF Lwip, Prime, accept_callback, CloseInReceive, tcpip_disconnect_callback, sent_callback
  <2>2. DOMAIN hist = {"asker", "orphan", "heard", "next", "raced", "sentTo"}
    BY <1>1 DEF StreamTyped
  <2> QED BY <2>1, <2>2
<1>5. stream'.sqn = stream.sqn
  <2>1. stream' = stream \/ \E p \in Pcb : stream' = [stream EXCEPT !.comm = IF @ = p THEN NULL ELSE @]
    BY DEF Lwip, Prime, accept_callback, CloseInReceive, tcpip_disconnect_callback, sent_callback, StreamStopped
  <2>2. DOMAIN stream = {"comm", "prime", "sqn"}
    BY <1>1 DEF StreamTyped
  <2> QED BY <2>1, <2>2
<1>6. \A i \in Log : ~TakenOut(i) /\ ~TakenOut(i)'
  BY <1>3 DEF TakenOut, Mine
<1> QED BY <1>1, <1>3, <1>4, <1>5, <1>6, GapQuiet

LEMMA GapCommand == ASSUME BaseInv, LogInv, GapsInv, CommandParser PROVE GapsInv'
<1>1. StreamTyped /\ TodoInv
  BY DEF BaseInv
<1>2. /\ hist \in [asker : Nat, orphan : BOOLEAN, heard : [Log -> Hears], next : Nat, raced : [Log -> BOOLEAN], sentTo : Nat]
      /\ DOMAIN stream = {"comm", "prime", "sqn"}
  BY <1>1 DEF StreamTyped
<1>3. ASSUME todo = << >>, Final' = "reply" PROVE ~Under("store") /\ \A i \in Log : ~TakenOut(i) /\ ~TakenOut(i)' /\ ~Setting(i)
  BY <1>3 DEF Under, TakenOut, Mine, Sending, Setting
<1>4. ASSUME NEW comm, CmdLS(comm) \/ CmdLFS(comm) \/ CmdLFH(comm) PROVE GapsInv'
  <2>1. /\ todo = << >> /\ hist' = hist /\ logs' = logs /\ todo' # << >> /\ Final' = "reply"
    BY <1>1, <1>4, StartsBegin
  <2>2. tick' = tick /\ stream'.sqn = stream.sqn
    BY <1>2, <1>4 DEF CmdLS, CmdLFS, CmdLFH
  <2> QED BY <1>3, <2>1, <2>2, GapQuiet
<1>5. ASSUME NEW comm, NEW i \in Log, CmdLFR(comm, i) PROVE GapsInv'
  <2>1. PICK ops : Command(comm, ops) /\ (ops = Reading \/ ops = <<[do |-> "flags"], [do |-> "clear"]>>)
    BY <1>5 DEF CmdLFR
  <2>2. comm \in Ask
    BY <1>1, <2>1, CommandTyped
  <2>3. todo = << >> /\ todo' # << >> /\ Final' = "reply"
    BY <2>1, <2>2, BeginReading
  <2>4. logs' = logs /\ tick' = tick /\ stream' = stream /\ hist' = [hist EXCEPT !.heard[i].warned = TRUE]
    BY <1>5 DEF CmdLFR
  <2>5. /\ hist'.raced = hist.raced /\ hist'.next = hist.next /\ hist'.heard[i].warned
        /\ \A j \in Log : j # i => hist'.heard[j] = hist.heard[j]
    <3>1. hist'.heard[i] = [hist.heard[i] EXCEPT !.warned = TRUE] /\ hist.heard[i] \in Hears
      BY <1>2, <2>4
    <3>2. hist'.heard[i].warned
      BY <3>1 DEF Hears
    <3> QED BY <1>2, <2>4, <3>2
  <2>6. ASSUME NEW j \in Log, Telling(j)' PROVE GapInv(j)'
    <3>1. CASE j = i
      <4>1. ~(Mine(j) /\ Under("clear"))'
        BY <2>3 DEF Mine, Sending
      <4>2. ~TakenOut(j)' /\ Told(j)'
        BY <1>3, <2>3, <2>5, <3>1 DEF Told
      <4> QED BY <2>5, <3>1, <4>1, <4>2 DEF GapInv
    <3>2. CASE j # i
      <4>1. GapInv(j)
        BY <1>3, <2>3, <2>4, <2>5, <2>6 DEF Telling, GapsInv
      <4> QED BY <1>3, <2>3, <2>4, <2>5, <3>2, <4>1, GapSame
    <3> QED BY <3>1, <3>2
  <2>7. hist'.next <= stream'.sqn
    BY <2>4, <2>5 DEF GapsInv
  <2> QED BY <2>6, <2>7 DEF GapsInv
<1>6. ASSUME NEW comm, NEW i \in Log, NEW v \in Variables, NEW s \in Modes, CmdLM(comm, i, v, s) PROVE GapsInv'
  <2>1. comm \in Ask
    BY <1>1, <1>6, CommandTyped DEF CmdLM
  <2>2. todo = << >> /\ todo' # << >> /\ Final' = "reply" /\ todo'[1].what[1] = i
    BY <1>6, <2>1, BeginLM
  <2>3. todo'[1].do = "store"
    <3>1. \A k \in 1 .. 6 : todo'[k].do = "store"
      BY <1>6, <2>1, BeginLM
    <3> QED BY <3>1
  <2>4. /\ logs' = logs /\ tick' = tick /\ stream' = stream
        /\ hist' = [hist EXCEPT !.heard[i] = Unheard, !.raced[i] = logs[i].LogStatus = "logging"]
    BY <1>6 DEF CmdLM
  <2>5. /\ hist'.next = hist.next
        /\ \A j \in Log : j # i => hist'.heard[j] = hist.heard[j] /\ hist'.raced[j] = hist.raced[j]
    BY <1>2, <2>4
  <2>6. ASSUME NEW j \in Log, Telling(j)' PROVE GapInv(j)'
    <3>1. j # i
      BY <2>2, <2>3, <2>6 DEF Telling, Setting, Under
    <3>2. GapInv(j)
      BY <1>3, <2>2, <2>4, <2>5, <2>6, <3>1 DEF Telling, GapsInv
    <3> QED BY <1>3, <2>2, <2>4, <2>5, <3>1, <3>2, GapSame
  <2>7. hist'.next <= stream'.sqn
    BY <2>4, <2>5 DEF GapsInv
  <2> QED BY <2>6, <2>7 DEF GapsInv
<1> QED BY <1>4, <1>5, <1>6 DEF CommandParser

LEMMA GapStore == ASSUME BaseInv, LogInv, GapsInv, Store PROVE GapsInv'
<1>1. TodoInv /\ StreamTyped /\ logs \in [Log -> LogType] /\ LogInv'
  BY LogStore DEF BaseInv, StreamTyped
<1>2. PICK i \in Log, v \in Variables, s \in Modes :
           /\ SetShape(todo, i, v, s) /\ todo[1].what[1] = i /\ todo[1].do = "store" /\ todo # << >> /\ Then(<< >>)
           /\ \/ Len(todo) = 7 /\ logs' = [logs EXCEPT ![i].InPos = 0]
              \/ Len(todo) = 6 /\ logs' = [logs EXCEPT ![i].OutPos = 0]
              \/ Len(todo) = 5 /\ logs' = [logs EXCEPT ![i].Settings = s]
              \/ Len(todo) = 4 /\ logs' = [logs EXCEPT ![i].Flags = FALSE]
              \/ Len(todo) = 3 /\ logs' = [logs EXCEPT ![i].VarToLog = v]
              \/ Len(todo) = 2 /\ logs' = [logs EXCEPT ![i].LogStatus = "ready"]
           /\ UNCHANGED <<tick, rd, burst, stream, net, count, hist>>
  BY <1>1, StoreIs
<1>3. /\ ~Sending' /\ Len(todo) \in 2 .. 7
      /\ \A j \in Log : Setting(j)' <=> (j = i /\ Len(todo) > 2)
  BY <1>2, StoresOneLog
<1>4. \A j \in Log : Setting(j) <=> j = i
  BY <1>2 DEF Setting, Under
<1>5. UNCHANGED <<tick, stream, hist>> /\ \A j \in Log : j # i => logs'[j] = logs[j]
  BY <1>1, <1>2
<1>6. \A j \in Log : ~TakenOut(j) /\ ~TakenOut(j)'
  BY <1>2, <1>3 DEF TakenOut, Mine, Under
<1>7. ASSUME NEW j \in Log, Telling(j)' PROVE GapInv(j)'
  <2>1. CASE j # i
    <3>1. GapInv(j)
      BY <1>4, <1>5, <1>7, <2>1 DEF Telling, GapsInv
    <3> QED BY <1>5, <1>6, <2>1, <3>1, GapSame
  <2>2. CASE j = i
    <3>1. ~hist.raced[i] /\ ~Setting(i)' /\ Len(todo) = 2
      <4> DEFINE n == Len(todo)
      <4>1. ~hist.raced[i] /\ ~Setting(i)' /\ ~(n > 2) /\ n \in 2 .. 7
        BY <1>3, <1>5, <1>7, <2>2 DEF Telling
      <4> HIDE DEF n
      <4>2. n = 2
        BY <4>1
      <4> QED BY <4>1, <4>2 DEF n
    <3>2. logs'[i].LogStatus = "ready"
      <4>1. logs' = [logs EXCEPT ![i].LogStatus = "ready"] /\ logs[i] \in LogType
        BY <1>1, <1>2, <3>1
      <4> QED BY <1>1, <4>1 DEF LogType
    <3>3. hist'.heard[i] = Unheard
      BY <1>4, <1>5, <3>1 DEF LogInv, SetInv
    <3>4. HoldInv(i)'
      BY <1>1, <1>5, <3>1 DEF LogInv
    <3>5. LogDataAvail(logs'[i]) = 0
      BY <3>2, <3>4 DEF HoldInv, Waiting
    <3>6. Unbroken(i)'
      BY <3>2, <3>5 DEF Unbroken, Whole
    <3>7. ~hist'.heard[i].gap
      BY <3>3 DEF Unheard
    <3>8. ~Mine(i)'
      BY <1>3 DEF Mine
    <3> QED BY <1>6, <2>2, <3>6, <3>7, <3>8 DEF GapInv
  <2> QED BY <2>1, <2>2
<1>8. hist'.next <= stream'.sqn
  BY <1>5 DEF GapsInv
<1> QED BY <1>7, <1>8 DEF GapsInv

LEMMA GapStartStop == ASSUME BaseInv, LogInv, GapsInv, StartOrStop PROVE GapsInv'
<1>1. /\ TodoInv /\ StreamTyped /\ todo # << >> /\ todo[1].do \in {"start", "stop"} /\ Then(<< >>)
      /\ UNCHANGED <<tick, rd, stream, hist>>
  <2>1. /\ TodoInv /\ StreamTyped /\ todo # << >> /\ Then(<< >>) /\ (Do("start") \/ Do("stop"))
        /\ UNCHANGED <<tick, rd, stream, hist>>
    BY DEF BaseInv, StartOrStop, Do
  <2> QED BY <2>1, FirstIs
<1>2. todo' # << >> /\ Final' = "reply" /\ todo'[1].do \in {"start", "stop", "stream", "reply"}
  BY <1>1, Onwards, NextOp
<1>3. \A j \in Log : ~Setting(j) /\ ~Taken(j) /\ ~TakenOut(j) /\ ~TakenOut(j)' /\ ~Mine(j)'
  BY <1>1, <1>2 DEF Sending, Setting, Taken, TakenOut, Mine, Under
<1> DEFINE i == todo[1].log
<1>4. i \in Log /\ Head(todo) = todo[1]
  BY <1>1, FirstIs, StepIs
<1>5. logs' = [logs EXCEPT ![i] = IF Do("start") THEN StartLogging(@) ELSE StopLogging(@)]
  BY <1>4 DEF StartOrStop
<1>6. PICK a \in Log : /\ logs'[a] = StartLogging(logs[a]) \/ logs'[a] = StopLogging(logs[a])
                       /\ logs[a] \in LogType
                       /\ \A j \in Log : j # a => logs'[j] = logs[j]
  <2> HIDE DEF i
  <2> QED BY <1>1, <1>4, <1>5 DEF StreamTyped
<1> HIDE DEF i
<1> DEFINE old == logs[a]
           new == logs'[a]
<1>7. /\ LogDataAvail(new) = LogDataAvail(old) /\ (\A k : Kth(new, k) = Kth(old, k))
      /\ new.Flags = old.Flags /\ new.Settings = old.Settings
      /\ new.LogStatus = "logging" => old.LogStatus \in {"ready", "logging"}
  <2>1. CASE new = StartLogging(old)
    BY <1>6, <2>1 DEF StartLogging, LogDataAvail, Kth, LogType
  <2>2. CASE new = StopLogging(old)
    BY <1>6, <2>2 DEF StopLogging, LogDataAvail, Kth, LogType
  <2> QED BY <1>6, <2>1, <2>2
<1>8. ASSUME NEW j \in Log, Telling(j)' PROVE GapInv(j)'
  <2>1. CASE j # a
    <3>1. GapInv(j)
      BY <1>1, <1>3, <1>6, <1>8, <2>1 DEF Telling, GapsInv
    <3> QED BY <1>1, <1>3, <1>6, <2>1, <3>1, GapSame
  <2>2. CASE j = a
    <3>1. GapInv(a) /\ HoldInv(a)
      BY <1>1, <1>3, <1>7, <1>8, <2>2 DEF Telling, GapsInv, LogInv
    <3>2. Prev(a) = hist.heard[a].last /\ Prev(a)' = hist.heard[a].last
      BY <1>1, <1>3 DEF Prev
    <3>3. old.LogStatus = "ready" => LogDataAvail(old) = 0 /\ Prev(a).var = NULL
      BY <3>1, <3>2 DEF HoldInv, Waiting
    <3>4. Whole(old, Prev(a), tick) => Whole(new, Prev(a), tick)
      <4> DEFINE p == Prev(a)
      <4> HIDE DEF new, old, p
      <4>1. CASE old.LogStatus # "ready"
        BY <1>7, <4>1 DEF Whole
      <4>2. CASE old.LogStatus = "ready"
        <5>1. LogDataAvail(new) = 0 /\ p.var = NULL
          BY <1>7, <3>3, <4>2 DEF p
        <5> QED BY <5>1 DEF Whole, p
      <4> QED BY <4>1, <4>2
    <3>5. Unbroken(a) => Unbroken(a)'
      BY <1>1, <3>2, <3>4 DEF Unbroken
    <3>6. Told(a) => Told(a)'
      BY <1>1, <1>3 DEF Told, Missed, TakenOut
    <3> QED BY <1>1, <1>3, <1>7, <2>2, <3>1, <3>5, <3>6 DEF GapInv
  <2> QED BY <2>1, <2>2
<1>9. hist'.next <= stream'.sqn
  BY <1>1 DEF GapsInv
<1> QED BY <1>8, <1>9 DEF GapsInv

(* A stream that begins: all that is missing is known to whom read before. *)
LEMMA GapStartStream == ASSUME BaseInv, LogInv, GapsInv, StartStream PROVE GapsInv'
<1>1. TodoInv /\ StreamTyped /\ todo # << >> /\ todo[1].do = "stream" /\ Then(<< >>) /\ UNCHANGED <<logs, tick>>
  <2>1. TodoInv /\ StreamTyped /\ todo # << >> /\ Then(<< >>) /\ Do("stream") /\ UNCHANGED <<logs, tick>>
    BY DEF BaseInv, StartStream, Do
  <2> QED BY <2>1, FirstIs
<1>2. todo' # << >> /\ Final' = "reply"
  BY <1>1, Onwards, NextOp
<1>3. \A j \in Log : ~TakenOut(j)' /\ ~Mine(j)'
  BY <1>2 DEF Sending, TakenOut, Mine
<1> DEFINE heard == [i \in Log |-> [Unheard EXCEPT !.warned = Incomplete(logs[i], tick)]]
<1>4. /\ hist'.heard = heard /\ hist'.next = 1 /\ stream'.sqn = 1
  <2>1. \E a : hist' = [hist EXCEPT !.asker = a, !.orphan = FALSE, !.heard = heard, !.next = 1, !.sentTo = 0]
    BY Zenon DEF StartStream
  <2>2. \E c : stream' = [comm |-> c, prime |-> TRUE, sqn |-> 1]
    BY Zenon DEF StartStream
  <2>3. hist \in [asker : Nat, orphan : BOOLEAN, heard : [Log -> Hears], next : Nat, raced : [Log -> BOOLEAN], sentTo : Nat]
    BY <1>1 DEF StreamTyped
  <2> HIDE DEF heard
  <2> QED BY <2>1, <2>2, <2>3
<1>5. ASSUME NEW i \in Log, Telling(i)' PROVE GapInv(i)'
  <2> DEFINE b == Incomplete(logs[i], tick)
             log == logs[i]
             n == LogDataAvail(log)
             waits == Copied(log, log.OutPos, n)
  <2>1. hist'.heard[i] = [Unheard EXCEPT !.warned = b]
    BY <1>4
  <2>2. (b <=> \/ \E k \in 1 .. n - 1 : waits[k + 1].at # waits[k].at + 1
               \/ n > 0 /\ log.LogStatus = "logging" /\ waits[n].at # tick)
    BY DEF Incomplete
  <2> HIDE DEF b
  <2>3. hist'.heard[i].last = NoSample /\ ~hist'.heard[i].gap /\ (hist'.heard[i].warned <=> b)
    BY <2>1 DEF Unheard
  <2>4. log \in LogType
    BY <1>1 DEF StreamTyped
  <2> HIDE DEF log
  <2>5. n \in Nat /\ \A k \in 1 .. n : waits[k] = Kth(log, k)
    <3>1. n \in Nat /\ n \in 0 .. n
      BY <2>4, AvailIs
    <3>2. waits = [k \in 1 .. n |-> Kth(log, k)]
      BY <2>4, <3>1, CopiedIs
    <3> HIDE DEF waits
    <3> QED BY <3>1, <3>2
  <2> HIDE DEF waits
  <2>6. Prev(i)' = NoSample
    BY <1>3, <2>3 DEF Prev
  <2>7. ~b => Whole(log, NoSample, tick)
    <3> SUFFICES ASSUME ~b PROVE Whole(log, NoSample, tick)
      OBVIOUS
    <3> HIDE DEF n
    <3>1. ASSUME NEW k \in 1 .. n - 1 PROVE Kth(log, k + 1).at = Kth(log, k).at + 1
      <4>1. k \in 1 .. n /\ k + 1 \in 1 .. n
        BY <2>5
      <4> QED BY <2>2, <2>5, <4>1
    <3>2. n > 0 /\ log.LogStatus = "logging" => Kth(log, n).at = tick
      <4>1. n > 0 => n \in 1 .. n
        BY <2>5
      <4> QED BY <2>2, <2>5, <4>1
    <3>3. NoSample.var = NULL
      BY DEF NoSample
    <3> QED BY <3>1, <3>2, <3>3 DEF Whole, n
  <2>8. ~b => Unbroken(i)'
    BY <1>1, <2>6, <2>7 DEF Unbroken, log
  <2>9. b => Told(i)'
    BY <2>3 DEF Told
  <2> QED BY <1>3, <2>3, <2>8, <2>9 DEF GapInv
<1>6. hist'.next <= stream'.sqn
  BY <1>4
<1> QED BY <1>5, <1>6 DEF GapsInv

LEMMA GapPacket == ASSUME BaseInv, GapsInv, Room \/ Pick \/ ReadBegin \/ ReadCopy PROVE GapsInv'
<1>1. StreamTyped /\ TodoInv /\ todo # << >>
  BY DEF BaseInv, Room, Pick, ReadBegin, ReadCopy, Do
<1>2. UNCHANGED <<logs, tick, hist, stream>>
  BY DEF Room, Pick, ReadBegin, ReadCopy
<1>3. todo[1].do \in {"room", "pick", "begin", "copy"}
  <2>1. Do("room") \/ Do("pick") \/ Do("begin") \/ Do("copy")
    BY DEF Room, Pick, ReadBegin, ReadCopy
  <2> QED BY <1>1, <2>1, FirstIs
<1>4. ~Under("store") /\ \A i \in Log : ~TakenOut(i)
  BY <1>3 DEF Under, TakenOut
<1>5. ~Sending' \/ todo'[1].do \in {"begin", "copy", "release"}
  <2>1. CASE Room
    BY <2>1 DEF Room, Sending, Final
  <2>2. CASE Pick /\ todo' = <<[do |-> "flags"], [do |-> "clear"], [do |-> "end"]>>
    BY <2>2 DEF Sending, Final
  <2>3. CASE Pick /\ todo' = Reading \o <<[do |-> "send"]>>
    <3>1. Reading \in Seq({[do |-> "begin"], [do |-> "copy"], [do |-> "release"], [do |-> "flags"], [do |-> "clear"], [do |-> "send"]})
          /\ Reading # << >> /\ Reading[1].do = "begin"
      BY DEF Reading
    <3>2. (Reading \o <<[do |-> "send"]>>)[1] = Reading[1]
      BY <3>1, AppendFirst
    <3> QED BY <2>3, <3>1, <3>2
  <2>4. CASE ReadBegin \/ ReadCopy
    <3>1. Then(<< >>) /\ todo[1].do \in {"begin", "copy"}
      <4>1. Do("begin") \/ Do("copy")
        BY <2>4 DEF ReadBegin, ReadCopy
      <4> QED BY <1>1, <2>4, <4>1, FirstIs DEF ReadBegin, ReadCopy
    <3> QED BY <1>1, <3>1, NextOp DEF Under
  <2>5. Pick => \/ todo' = <<[do |-> "flags"], [do |-> "clear"], [do |-> "end"]>>
                \/ todo' = Reading \o <<[do |-> "send"]>>
    BY DEF Pick
  <2> QED BY <2>1, <2>2, <2>3, <2>4, <2>5
<1>6. \A i \in Log : ~TakenOut(i)'
  BY <1>5 DEF TakenOut, Mine, Under
<1> QED BY <1>2, <1>4, <1>6, GapQuiet

(* What is taken out, and what stays, of samples without a gap have none. *)
LEMMA WholeRelease ==
  ASSUME NEW log \in LogType, NEW n \in 0 .. LogDataAvail(log), NEW new, NEW p, NEW now,
         new = [log EXCEPT !.OutPos = Place(log.OutPos, n + 1)], Whole(log, p, now)
  PROVE  /\ Whole(new, IF n > 0 THEN Kth(log, n) ELSE p, now)
         /\ \A k \in 1 .. n - 1 : Kth(log, k + 1).at = Kth(log, k).at + 1
         /\ n > 0 /\ p.var # NULL => Kth(log, 1).at = p.at + 1
<1> DEFINE w == LogDataAvail(log)
           m == LogDataAvail(new)
           q == IF n > 0 THEN Kth(log, n) ELSE p
<1>1. w \in Nat /\ n \in 0 .. w
  BY AvailIs
<1>2. /\ m = w - n /\ new.LogStatus = log.LogStatus
      /\ \A k \in 1 .. m : Kth(new, k) = Kth(log, n + k)
  BY ReleasedIs
<1>3. /\ \A k \in 1 .. w - 1 : Kth(log, k + 1).at = Kth(log, k).at + 1
      /\ w > 0 /\ log.LogStatus = "logging" => Kth(log, w).at = now
      /\ w > 0 /\ p.var # NULL => Kth(log, 1).at = p.at + 1
      /\ w = 0 /\ log.LogStatus = "logging" /\ p.var # NULL => p.at = now
  BY DEF Whole
<1> HIDE DEF w, m
<1>4. ASSUME NEW k \in 1 .. m - 1 PROVE Kth(new, k + 1).at = Kth(new, k).at + 1
  <2>1. k \in 1 .. m /\ k + 1 \in 1 .. m /\ n + k \in 1 .. w - 1 /\ n + (k + 1) = (n + k) + 1
    BY <1>1, <1>2, <1>4
  <2> QED BY <1>2, <1>3, <2>1
<1>5. m > 0 /\ log.LogStatus = "logging" => Kth(new, m).at = now
  <2>1. m > 0 => m \in 1 .. m /\ n + m = w /\ w > 0
    BY <1>1, <1>2
  <2> QED BY <1>2, <1>3, <2>1
<1>6. m > 0 /\ q.var # NULL => Kth(new, 1).at = q.at + 1
  <2> SUFFICES ASSUME m > 0, q.var # NULL PROVE Kth(new, 1).at = q.at + 1
    OBVIOUS
  <2>1. 1 \in 1 .. m /\ Kth(new, 1) = Kth(log, n + 1)
    BY <1>1, <1>2
  <2>2. CASE n > 0
    <3>1. n \in 1 .. w - 1
      BY <1>1, <1>2, <2>2
    <3> QED BY <1>3, <2>1, <2>2, <3>1
  <2>3. CASE n = 0
    <3>1. w > 0 /\ n + 1 = 1
      BY <1>1, <1>2, <2>3
    <3> QED BY <1>3, <2>1, <2>3, <3>1
  <2> QED BY <1>1, <2>2, <2>3
<1>7. m = 0 /\ log.LogStatus = "logging" /\ q.var # NULL => q.at = now
  <2>1. CASE n > 0
    <3>1. m = 0 => n = w /\ w > 0
      BY <1>1, <1>2, <2>1
    <3> QED BY <1>3, <2>1, <3>1
  <2>2. CASE n = 0
    <3>1. m = 0 => w = 0
      BY <1>1, <1>2, <2>2
    <3> QED BY <1>3, <2>2, <3>1
  <2> QED BY <1>1, <2>1, <2>2
<1>8. ASSUME NEW k \in 1 .. n - 1 PROVE Kth(log, k + 1).at = Kth(log, k).at + 1
  <2>1. k \in 1 .. w - 1
    BY <1>1, <1>8
  <2> QED BY <1>3, <2>1
<1>9. n > 0 /\ p.var # NULL => Kth(log, 1).at = p.at + 1
  <2>1. n > 0 => w > 0
    BY <1>1
  <2> QED BY <1>3, <2>1
<1> HIDE DEF q
<1>10. Whole(new, q, now)
  BY <1>2, <1>4, <1>5, <1>6, <1>7 DEF Whole, m
<1> QED BY <1>8, <1>9, <1>10 DEF q

LEMMA GapRelease == ASSUME BaseInv, WindowInv, GapsInv, ReadRelease PROVE GapsInv'
<1> DEFINE a == rd.log
           log == logs[rd.log]
           new == logs'[rd.log]
           n == rd.length
<1>1. /\ todo # << >> /\ todo[1].do = "release" /\ todo' # << >> /\ todo'[1].do = "flags" /\ Final' = Final
      /\ UNCHANGED <<tick, rd, stream, hist>> /\ a \in Log /\ n \in 0 .. LogDataAvail(log) /\ log \in LogType
      /\ new = [log EXCEPT !.OutPos = Place(log.OutPos, n + 1)]
      /\ \A j \in Log : j # a => logs'[j] = logs[j]
      /\ rd.data = [k \in 1 .. n |-> Kth(log, k)]
  BY ReleaseIs
<1>2. \A j \in Log : /\ ~Setting(j) /\ ~TakenOut(j) /\ ~(Mine(j) /\ (Under("clear") \/ Under("send")))
                     /\ ~(Mine(j) /\ (Under("clear") \/ Under("send")))'
                     /\ TakenOut(j)' <=> (Sending /\ j = a)
  BY <1>1 DEF Setting, TakenOut, Mine, Under, Sending
<1>3. hist'.next <= stream'.sqn
  BY <1>1 DEF GapsInv
<1>4. new.Flags = log.Flags /\ new.Settings = log.Settings
  <2> HIDE DEF log, new, n
  <2> QED BY <1>1, ReleasedIs
<1>5. ASSUME NEW j \in Log, Telling(j)' PROVE GapInv(j)'
  <2>1. GapInv(j)
    BY <1>1, <1>2, <1>4, <1>5 DEF Telling, GapsInv
  <2>2. CASE j # a
    BY <1>1, <1>2, <2>1, <2>2, GapSame
  <2>3. CASE j = a
    <3>1. (hist.heard[a].gap => hist.heard[a].warned) /\ (Told(a) \/ log.Flags \/ Unbroken(a))
      BY <2>1, <2>3 DEF GapInv
    <3>2. Told(a)' <=> Told(a)
      BY <1>1, <1>2 DEF Told, Missed
    <3>3. CASE ~Sending
      <4>1. Final = "reply" \/ Final \in {"send", "end", "room", "pick"}
        BY <1>1, ShapeOfFirst DEF BaseInv, TodoInv, Final
      <4>2. Final = "reply"
        <5>1. Len(todo) = 4 /\ ReadShape(todo)
          BY <1>1, ReleaseIs, ShapeOfFirst DEF BaseInv, TodoInv
        <5>2. Final \notin {"end", "room", "pick"}
          BY <5>1 DEF ReadShape, Final
        <5> QED BY <1>1, <3>3, <4>1, <5>2 DEF Sending
      <4>3. hist.heard[a].warned
        BY <1>1, <4>2 DEF WindowInv, Parting
      <4>4. Told(a)'
        BY <1>1, <4>3 DEF Told
      <4> QED BY <1>1, <1>2, <2>3, <3>1, <3>3, <4>4 DEF GapInv
    <3>4. CASE Sending
      <4>1. TakenOut(a)' /\ Under("flags")'
        BY <1>1, <1>2, <3>4 DEF Under
      <4>2. Prev(a) = hist.heard[a].last
        BY <1>1, <1>2 DEF Prev
      <4>3. Prev(a)' = IF n > 0 THEN Kth(log, n) ELSE hist.heard[a].last
        <5>1. Prev(a)' = IF n > 0 THEN rd.data[n] ELSE hist.heard[a].last
          BY <1>1, <4>1 DEF Prev
        <5>2. n > 0 => rd.data[n] = Kth(log, n)
          <6> HIDE DEF n, log
          <6> QED BY <1>1
        <5> QED BY <5>1, <5>2
      <4>4. Unbroken(a) => Unbroken(a)' /\ Fresh(a)'
        <5> SUFFICES ASSUME Unbroken(a) PROVE Unbroken(a)' /\ Fresh(a)'
          OBVIOUS
        <5> DEFINE p == hist.heard[a].last
        <5>1. Whole(log, p, tick)
          BY <4>2 DEF Unbroken
        <5>2. /\ Whole(new, IF n > 0 THEN Kth(log, n) ELSE p, tick)
              /\ \A k \in 1 .. n - 1 : Kth(log, k + 1).at = Kth(log, k).at + 1
              /\ n > 0 /\ p.var # NULL => Kth(log, 1).at = p.at + 1
          <6> HIDE DEF log, new, n, p
          <6> QED BY <1>1, <5>1, WholeRelease
        <5>3. Unbroken(a)'
          BY <1>1, <4>3, <5>2 DEF Unbroken
        <5>4. \A k \in 1 .. n - 1 : rd.data[k + 1].at = rd.data[k].at + 1
          <6> HIDE DEF log, n
          <6> TAKE k \in 1 .. n - 1
          <6>1. k \in 1 .. n /\ k + 1 \in 1 .. n /\ n \in Int
            BY <1>1
          <6>2. rd.data[k] = Kth(log, k) /\ rd.data[k + 1] = Kth(log, k + 1)
            BY <1>1, <6>1
          <6> QED BY <5>2, <6>2
        <5>5. n > 0 /\ p.var # NULL => rd.data[1].at = p.at + 1
          <6> HIDE DEF log, n, p
          <6>1. n > 0 => rd.data[1] = Kth(log, 1)
            BY <1>1
          <6> QED BY <5>2, <6>1
        <5>6. Fresh(a)'
          BY <1>1, <5>4, <5>5 DEF Fresh
        <5> QED BY <5>3, <5>6
      <4> QED BY <1>1, <1>2, <1>4, <2>3, <3>1, <3>2, <4>1, <4>4 DEF GapInv
    <3> QED BY <3>3, <3>4
  <2> QED BY <2>2, <2>3
<1> QED BY <1>3, <1>5 DEF GapsInv

LEMMA GapFlags == ASSUME BaseInv, WindowInv, GapsInv, ReadLogFlags PROVE GapsInv'
<1> DEFINE a == rd.log
<1>1. /\ TodoInv /\ StreamTyped /\ todo # << >> /\ todo[1].do \in {"flags", "clear"} /\ Then(<< >>)
      /\ UNCHANGED <<tick, stream, hist>> /\ a \in Log
  <2>1. /\ TodoInv /\ StreamTyped /\ todo # << >> /\ Then(<< >>) /\ (Do("flags") \/ Do("clear"))
        /\ UNCHANGED <<tick, stream, hist>>
    BY DEF BaseInv, ReadLogFlags, Do
  <2> QED BY <2>1, FirstIs DEF StreamTyped
<1>2. todo' # << >> /\ Final' = Final
  BY <1>1, Onwards
<1>3. hist'.next <= stream'.sqn
  BY <1>1 DEF GapsInv
<1>4. \A j \in Log : ~Setting(j)
  BY <1>1 DEF Setting, Under
<1>5. CASE todo[1].do = "flags"
  <2>1. ReadLogFlags /\ ~Do("clear")
    BY <1>1, <1>5, FirstIs
  <2>2. logs' = logs /\ rd' = [rd EXCEPT !.flags = logs[rd.log].Flags]
    BY <2>1 DEF ReadLogFlags
  <2>3. /\ rd'.log = rd.log /\ rd'.length = rd.length /\ rd'.data = rd.data /\ rd'.flags = logs[a].Flags
    BY <1>1, <2>2 DEF StreamTyped
  <2>4. todo'[1].do = "clear"
    BY <1>1, <1>5, NextOp DEF Under
  <2>5. \A j \in Log : /\ Mine(j)' <=> Mine(j)
                       /\ TakenOut(j)' <=> Mine(j)
                       /\ TakenOut(j) <=> Mine(j)
    BY <1>1, <1>2, <1>5, <2>3, <2>4 DEF Mine, TakenOut, Sending, Under
  <2>6. ASSUME NEW j \in Log, Telling(j)' PROVE GapInv(j)'
    <3>1. GapInv(j)
      BY <1>1, <1>4, <2>2, <2>6 DEF Telling, GapsInv
    <3>2. CASE ~Mine(j)
      <4>1. ~TakenOut(j) /\ ~TakenOut(j)'
        BY <2>5, <3>2
      <4> QED BY <1>1, <2>2, <3>1, <4>1, GapSame
    <3>3. CASE Mine(j)
      <4>1. j = a /\ ~Under("clear") /\ ~Under("send") /\ Under("clear")' /\ Mine(j)' /\ TakenOut(j) /\ TakenOut(j)'
        BY <1>1, <1>2, <1>5, <2>4, <2>5, <3>3 DEF Mine, Under
      <4>2. Prev(j)' = Prev(j) /\ (Fresh(j)' <=> Fresh(j))
        BY <1>1, <2>3, <4>1 DEF Prev, Fresh
      <4>3. Unbroken(j)' <=> Unbroken(j)
        BY <1>1, <2>2, <4>2 DEF Unbroken
      <4>4. Told(j)' <=> Told(j) \/ logs[j].Flags
        BY <1>1, <2>3, <4>1 DEF Told, Missed
      <4> QED BY <1>1, <2>2, <2>3, <3>1, <4>1, <4>2, <4>3, <4>4 DEF GapInv
    <3> QED BY <3>2, <3>3
  <2> QED BY <1>3, <2>6 DEF GapsInv
<1>6. CASE todo[1].do = "clear"
  <2>1. ReadLogFlags /\ ~Do("flags")
    BY <1>1, <1>6, FirstIs
  <2>2. rd' = rd /\ logs' = [logs EXCEPT ![rd.log].Flags = FALSE]
    BY <2>1 DEF ReadLogFlags
  <2>3. todo'[1].do = Final /\ Final \in {"reply", "send", "end", "room", "pick"} /\ ReadShape(todo) /\ Len(todo) = 2
    BY <1>1, <1>6, NextOp, ShapeOfFirst DEF Under, TodoInv, Final
  <2>4. /\ logs'[a] = [logs[a] EXCEPT !.Flags = FALSE] /\ logs[a] \in LogType
        /\ \A j \in Log : j # a => logs'[j] = logs[j]
    BY <1>1, <2>2 DEF StreamTyped
  <2> DEFINE log == logs[a]
             new == logs'[a]
  <2>5. /\ LogDataAvail(new) = LogDataAvail(log) /\ (\A k : Kth(new, k) = Kth(log, k))
        /\ new.Settings = log.Settings /\ new.LogStatus = log.LogStatus /\ ~new.Flags
    BY <2>4 DEF LogDataAvail, Kth, LogType
  <2>6. \A p : Whole(log, p, tick) => Whole(new, p, tick)
    <3> HIDE DEF log, new
    <3> QED BY <2>5 DEF Whole
  <2>7. \A j \in Log : /\ Mine(j)' <=> Mine(j)
                       /\ TakenOut(j)' <=> Mine(j)
                       /\ TakenOut(j) <=> Mine(j)
    BY <1>1, <1>2, <1>6, <2>2, <2>3 DEF Mine, TakenOut, Sending, Under
  <2>8. ASSUME NEW j \in Log, Telling(j)' PROVE GapInv(j)'
    <3>1. GapInv(j)
      BY <1>1, <1>4, <2>4, <2>5, <2>8 DEF Telling, GapsInv
    <3>2. CASE j # a
      <4>1. ~TakenOut(j) /\ ~TakenOut(j)'
        BY <2>7, <3>2 DEF Mine
      <4> QED BY <1>1, <2>4, <3>1, <3>2, <4>1, GapSame
    <3>3. CASE j = a
      <4>1. Prev(j)' = Prev(j) /\ (Fresh(j)' <=> Fresh(j))
        BY <1>1, <2>2, <2>7 DEF Prev, Fresh
      <4>2. Unbroken(j) => Unbroken(j)'
        BY <1>1, <2>6, <3>3, <4>1 DEF Unbroken
      <4>3. Told(j) => Told(j)'
        BY <1>1, <1>2, <1>6, <2>2, <2>3, <2>7 DEF Told, Missed, Mine, Sending, Under
      <4>4. ~Under("clear")' /\ ~Under("flags") /\ Under("clear")
        BY <1>1, <1>6, <2>3 DEF Under
      <4>5. logs[a].Flags => Told(j)'
        <5> SUFFICES ASSUME logs[a].Flags PROVE Told(j)'
          OBVIOUS
        <5>1. CASE Sending
          BY <3>1, <3>3, <4>3, <4>4, <5>1 DEF GapInv, Mine, Told
        <5>2. CASE Final = "reply"
          <6>1. hist.heard[a].warned
            BY <1>1, <1>6, <5>2 DEF WindowInv, Parting
          <6> QED BY <1>1, <3>3, <6>1 DEF Told
        <5>3. CASE Final = "end"
          <6>1. ~hist.raced[a]
            BY <1>1, <2>8, <3>3 DEF Telling
          <6> QED BY <4>4, <5>3, <6>1 DEF WindowInv
        <5>4. Final \notin {"room", "pick"}
          BY <2>3 DEF ReadShape, Final
        <5> QED BY <1>1, <2>3, <5>1, <5>2, <5>3, <5>4 DEF Sending
      <4>6. Told(j)' \/ Unbroken(j)'
        BY <3>1, <3>3, <4>2, <4>3, <4>5 DEF GapInv
      <4>7. TakenOut(j)' => Told(j)' \/ Fresh(j)'
        BY <2>7, <3>1, <4>1, <4>3, <4>4 DEF GapInv
      <4> QED BY <1>1, <3>1, <4>4, <4>6, <4>7 DEF GapInv
    <3> QED BY <3>2, <3>3
  <2> QED BY <1>3, <2>8 DEF GapsInv
<1> QED BY <1>1, <1>5, <1>6

(* A packet that is not sent shows in the number of the next. *)
LEMMA GapSend == ASSUME BaseInv, GapsInv, Send PROVE GapsInv'
<1>1. /\ todo # << >> /\ todo[1].do = "send" /\ Sending /\ UNCHANGED <<logs, tick>>
      /\ rd.length > 0 /\ todo' \in {Reload, <<[do |-> "end"]>>} /\ StreamTyped
  BY SendIs DEF BaseInv
<1>2. hist.next \in Nat /\ stream.sqn \in Nat /\ hist.next <= stream.sqn /\ rd.log \in Log
  BY <1>1 DEF StreamTyped, GapsInv
<1>3. stream'.sqn = stream.sqn + 1
  <2>1. stream' = [stream EXCEPT !.sqn = @ + 1]
    BY SendIs
  <2> QED BY <1>1, <2>1 DEF StreamTyped
<1>4. ~Sending' /\ \A j \in Log : ~Setting(j) /\ ~TakenOut(j)' /\ ~Mine(j)'
  BY <1>1 DEF Reload, Sending, Final, Under, TakenOut, Mine, Setting
<1>5. CASE hist' = hist
  <2>1. hist'.next <= stream'.sqn /\ hist'.next # stream'.sqn
    BY <1>2, <1>3, <1>5
  <2>2. ASSUME NEW j \in Log, Telling(j)' PROVE GapInv(j)'
    <3>1. GapInv(j)
      BY <1>1, <1>4, <1>5, <2>2 DEF Telling, GapsInv
    <3>2. Told(j)'
      BY <2>1 DEF Told, Missed
    <3> QED BY <1>4, <1>5, <3>1, <3>2 DEF GapInv
  <2> QED BY <2>1, <2>2 DEF GapsInv
<1>6. CASE hist' # hist
  <2>1. /\ hist'.raced = hist.raced /\ hist'.next = stream.sqn + 1
        /\ \A j \in Log : j # rd.log =>
              /\ hist'.heard[j].last = hist.heard[j].last /\ hist'.heard[j].gap = hist.heard[j].gap
              /\ hist'.heard[j].warned = (hist.heard[j].warned \/ hist.next # stream.sqn)
        /\ hist'.heard[rd.log].last = rd.data[rd.length]
        /\ hist'.heard[rd.log].warned = (hist.heard[rd.log].warned \/ hist.next # stream.sqn \/ rd.flags)
        /\ hist'.heard[rd.log].gap =>
              \/ hist.heard[rd.log].gap
              \/ hist.heard[rd.log].last.var # NULL /\ rd.data[1].at # hist.heard[rd.log].last.at + 1
              \/ \E k \in 1 .. rd.length - 1 : rd.data[k + 1].at # rd.data[k].at + 1
    BY <1>6, SentIs
  <2>2. ASSUME NEW j \in Log, Telling(j)' PROVE GapInv(j)'
    <3>1. GapInv(j)
      BY <1>1, <1>4, <2>1, <2>2 DEF Telling, GapsInv
    <3>2. Prev(j)' = hist'.heard[j].last
      BY <1>4 DEF Prev
    <3>3. Unbroken(j) /\ Prev(j)' = Prev(j) => Unbroken(j)'
      BY <1>1 DEF Unbroken
    <3>4. CASE j # rd.log
      <4>1. ~Mine(j) /\ ~TakenOut(j) /\ Prev(j) = hist.heard[j].last
        BY <3>4 DEF Mine, TakenOut, Prev
      <4>2. Told(j) => Told(j)'
        BY <2>1, <3>4, <4>1 DEF Told, Missed
      <4>3. hist'.heard[j].gap => hist'.heard[j].warned
        BY <2>1, <3>1, <3>4 DEF GapInv
      <4> QED BY <1>1, <1>4, <2>1, <3>1, <3>2, <3>3, <3>4, <4>1, <4>2, <4>3 DEF GapInv
    <3>5. CASE j = rd.log
      <4>1. Mine(j) /\ TakenOut(j) /\ ~Under("flags") /\ Under("send")
        BY <1>1, <3>5 DEF Mine, TakenOut, Under
      <4>2. Prev(j) = rd.data[rd.length] /\ Prev(j)' = Prev(j)
        BY <1>1, <2>1, <3>2, <3>5, <4>1 DEF Prev
      <4>3. Told(j) => hist'.heard[j].warned
        BY <2>1, <3>5 DEF Told, Missed
      <4>4. Fresh(j) \/ hist'.heard[j].warned
        BY <3>1, <4>1, <4>3 DEF GapInv
      <4>5. hist'.heard[j].gap => hist'.heard[j].warned
        <5> SUFFICES ASSUME ~hist'.heard[j].warned, hist'.heard[j].gap PROVE FALSE
          OBVIOUS
        <5>1. ~hist.heard[j].warned
          BY <2>1, <3>5
        <5>2. ~hist.heard[j].gap
          BY <3>1, <5>1 DEF GapInv
        <5>3. Fresh(j)
          BY <4>4
        <5> QED BY <1>1, <2>1, <3>5, <5>2, <5>3 DEF Fresh
      <4>6. Told(j)' \/ logs[j].Flags \/ Unbroken(j)'
        BY <3>1, <3>3, <4>2, <4>3 DEF GapInv, Told
      <4> QED BY <1>1, <1>4, <4>5, <4>6 DEF GapInv
    <3> QED BY <3>4, <3>5
  <2>3. hist'.next <= stream'.sqn
    BY <1>2, <1>3, <2>1
  <2> QED BY <2>2, <2>3 DEF GapsInv
<1> QED BY <1>5, <1>6

LEMMA GapEnd == ASSUME BaseInv, GapsInv, ReloadEnd \/ Reply PROVE GapsInv'
<1>1. TodoInv /\ StreamTyped /\ todo # << >> /\ todo[1].do \in {"end", "reply"} /\ todo' = << >> /\ UNCHANGED <<logs, tick, hist>>
  <2>1. TodoInv /\ StreamTyped /\ todo # << >> /\ (Do("end") \/ Do("reply")) /\ todo' = << >> /\ UNCHANGED <<logs, tick, hist>>
    BY DEF BaseInv, ReloadEnd, Reply, Do
  <2> QED BY <2>1, FirstIs
<1>2. stream'.sqn = stream.sqn
  BY <1>1 DEF ReloadEnd, Reply, StreamTyped
<1>3. ~Under("store") /\ \A i \in Log : ~TakenOut(i) /\ ~TakenOut(i)'
  BY <1>1 DEF TakenOut, Mine, Sending, Under
<1> QED BY <1>1, <1>2, <1>3, GapQuiet

LEMMA GapNext == ASSUME InTime, BaseInv, LogInv, WindowInv, GapsInv, StreamNext PROVE GapsInv'
<1>1. CASE Tick
  BY <1>1, GapTick
<1>2. CASE CommandParser
  BY <1>2, GapCommand
<1>3. CASE Lwip \/ Prime
  BY <1>3, GapLwip
<1>4. CASE Store \/ StartOrStop \/ StartStream
  BY <1>4, GapStore, GapStartStop, GapStartStream
<1>5. CASE Room \/ Pick \/ ReadBegin \/ ReadCopy \/ ReadRelease \/ ReadLogFlags
  BY <1>5, GapPacket, GapRelease, GapFlags
<1>6. CASE Send \/ ReloadEnd \/ Reply
  BY <1>6, GapSend, GapEnd
<1> QED BY <1>1, <1>2, <1>3, <1>4, <1>5, <1>6 DEF StreamNext, MainStep

LEMMA GapShows == BaseInv /\ LogInv /\ GapsInv => GapsShow
<1> SUFFICES ASSUME BaseInv, LogInv, GapsInv, NEW i \in Log, hist.heard[i].gap, ~hist.raced[i],
                    PREVENT_OVERRUN \notin logs[i].Settings
             PROVE  hist.heard[i].warned
  BY DEF GapsShow
<1>1. CASE Setting(i)
  <2>1. hist.heard[i] = Unheard
    BY <1>1 DEF LogInv, SetInv
  <2> QED BY <2>1 DEF Unheard
<1>2. CASE ~Setting(i)
  BY <1>2 DEF GapsInv, Telling, GapInv
<1> QED BY <1>1, <1>2

(***************************************************************************)
(* What the host gets of a log is of the variable that it asked for, and   *)
(* wherever samples were lost the flag of ReadLogFlags or the number of a  *)
(* packet has told it, for rings, packets and logs of any size. Only with  *)
(* InTime: flag and samples are read in steps of their own, and if the     *)
(* interrupt fills up in between what the packet has taken, a sample that  *)
(* it drops then is not told.                                              *)
(***************************************************************************)
THEOREM StreamIsWhole == ASSUME InTime PROVE EitherSpec => []StreamIsFaithful
<1> DEFINE AllInv == BaseInv /\ LogInv /\ LateInv /\ WindowInv /\ GapsInv
<1>1. Either => AllInv
  BY BaseInit, LogInit, LateInit, WindowInit, GapInit DEF Either
<1>2. AllInv /\ [EitherNext]_<<session, controlVars, streamVars>> => AllInv'
  <2> SUFFICES ASSUME AllInv, [EitherNext]_<<session, controlVars, streamVars>> PROVE AllInv'
    OBVIOUS
  <2>1. CASE StreamNext
    BY <2>1, BaseNext, LogNext, LateNext, WindowNext, GapNext
  <2>2. CASE UNCHANGED streamVars
    BY <2>2, BaseStutter, LogStutter, LateStutter, WindowStutter, GapStutter
  <2> QED BY <2>1, <2>2 DEF EitherNext
<1>3. AllInv => StreamIsFaithful
  BY LogShows, GapShows DEF StreamIsFaithful
<1> QED BY <1>1, <1>2, <1>3, PTL DEF EitherSpec
=============================================================================
