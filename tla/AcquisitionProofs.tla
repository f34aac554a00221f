------------------------- MODULE AcquisitionProofs -------------------------
(***************************************************************************)
(* No sensor is triggered while one is still collecting, for any sensors,  *)
(* ratios and counter width.  A sensor starts to collect in the clock that *)
(* follows a trigger, and the timing manager tests the sensors one clock   *)
(* before it asserts the trigger: what has to be shown is that it never    *)
(* asserts it in two clocks in a row.  After a trigger of the automatic    *)
(* mode the count is back at 0, which no ratio is; after a manual one the  *)
(* next PWM event is at least a clock away.  The two cannot follow each    *)
(* other, because a user who waits for the manual trigger he asked for     *)
(* leaves none queued in automatic mode.                                   *)
(***************************************************************************)
EXTENDS MCFpga, FiniteSetTheorems, TLAPS

(* Until CPU1 has initialised the timing manager no sensor is enabled. *)
Started ==
  IF cpu1 = "start"
  THEN count = 0 /\ user_ratio = 0 /\ (\A s \in Sensors : ~en_bits[s] /\ done[s])
  ELSE user_ratio \in Ratios

(* No manual trigger is queued in automatic mode. *)
QueueEmpty == slv_reg0.auto => ~manual_trigger_queued

(* Where a trigger that is asserted came from. *)
AutoTriggered == count = 0 /\ ~manual_trigger_queued
ManuallyTriggered == ~slv_reg0.auto /\ manual_trigger_queued /\ carrier # 0
TriggerCause ==
  trigger => \/ AutoTriggered
             \/ ManuallyTriggered

Types ==
  /\ carrier \in 0 .. EventGap
  /\ slv_reg0 \in [auto : BOOLEAN, manual : BOOLEAN]
  /\ done \in [Sensors -> BOOLEAN]
  /\ en_bits \in [Sensors -> BOOLEAN]
  /\ trigger \in BOOLEAN
  /\ manual_trigger_queued \in BOOLEAN

TrigInv == Types /\ Started /\ QueueEmpty /\ TriggerCause /\ NoTriggerWhileCollecting

(* A ratio is never 0. *)
LEMMA RatioIsPositive == \A r \in Ratios : r # 0
BY CountAssumption, AcquisitionAssumption

(* After the reset every sensor is done. *)
LEMMA TrigInit == Init => TrigInv
<1> SUFFICES ASSUME Init PROVE TrigInv
  OBVIOUS
<1>1. Types
  <2>1. carrier \in 0 .. EventGap
    BY AcquisitionAssumption DEF Init
  <2>2. trigger = FALSE /\ manual_trigger_queued = FALSE
    BY DEF Init, TimingReset
  <2>3. slv_reg0 = [auto |-> TRUE, manual |-> FALSE]
    BY DEF Init
  <2>4. done = [s \in Sensors |-> TRUE] /\ en_bits = [s \in Sensors |-> FALSE]
    BY DEF Init
  <2> QED
    BY <2>1, <2>2, <2>3, <2>4 DEF Types
<1>2. Started
  BY DEF Init, TimingReset, Started
<1>3. ~trigger /\ ~manual_trigger_queued
  BY DEF Init, TimingReset
<1> QED
  BY <1>1, <1>2, <1>3 DEF TrigInv, QueueEmpty, TriggerCause, NoTriggerWhileCollecting

(* A clock edge keeps the invariant. *)
LEMMA TrigClock == TrigInv /\ Clock => TrigInv'
<1> SUFFICES ASSUME TrigInv, Clock PROVE TrigInv'
  OBVIOUS
<1> USE DEF TrigInv
<1>1. Types'
  <2>1. carrier' \in 0 .. EventGap
    BY AcquisitionAssumption DEF Clock, Types
  <2>2. trigger' \in BOOLEAN /\ manual_trigger_queued' \in BOOLEAN
    BY DEF Clock, TriggerNext, QueuedNext
  <2> QED
    BY <2>1, <2>2 DEF Clock, Types, registers
<1>2. UNCHANGED <<cpu1, slv_reg0, en_bits, user_ratio>>
  BY DEF Clock, registers
<1>3. QueueEmpty'
  BY <1>2 DEF Clock, QueuedNext, SendManualTrigger, QueueEmpty
<1>4. \A s \in Sensors : done'[s] \/ ~done[s] \/ (trigger /\ en_bits[s])
  BY DEF Clock, S!SensorClock, Types
<1>5. Started'
  <2>1. CASE cpu1 = "start"
    <3>1. count' = 0
      BY <2>1 DEF Clock, CountNext, Started
    <3> QED
      BY <2>1, <3>1, <1>2, <1>4 DEF Started
  <2>2. CASE cpu1 # "start"
    BY <2>2, <1>2 DEF Started
  <2> QED
    BY <2>1, <2>2
<1>6. trigger' => AllDone
  BY Zenon DEF Clock, TriggerNext
<1>7. trigger' => (count = user_ratio /\ slv_reg0.auto) \/ (manual_trigger_queued /\ carrier = 0)
  BY Zenon DEF Clock, TriggerNext, event_qualifier
<1>8. TriggerCause'
  <2>1. CASE count = user_ratio /\ slv_reg0.auto
    <3>1. count' = 0
      BY <2>1 DEF Clock, CountNext
    <3> QED
      BY <2>1, <3>1, <1>2, <1>3 DEF TriggerCause, AutoTriggered, QueueEmpty
  <2>2. CASE manual_trigger_queued /\ carrier = 0
    <3>1. ~slv_reg0.auto
      BY <2>2 DEF QueueEmpty
    <3>2. ~trigger \/ AutoTriggered \/ ManuallyTriggered
      BY DEF TriggerCause
    <3>3. ~trigger
      BY <2>2, <3>2 DEF AutoTriggered, ManuallyTriggered
    <3>4. manual_trigger_queued'
      BY <2>2, <3>3 DEF Clock, QueuedNext
    <3>5. carrier' # 0
      BY <2>2, AcquisitionAssumption DEF Clock
    <3> QED
      BY <3>1, <3>4, <3>5, <1>2 DEF TriggerCause, ManuallyTriggered
  <2> QED
    BY <1>7, <2>1, <2>2 DEF TriggerCause
<1>9. NoTriggerWhileCollecting'
  <2>1. CASE cpu1 = "start"
    BY <2>1, <1>2, <1>5 DEF NoTriggerWhileCollecting, AllDone, Started
  <2>2. CASE cpu1 # "start" /\ trigger
    <3>1. user_ratio # 0
      BY <2>2, RatioIsPositive DEF Started
    <3>2. AutoTriggered \/ ManuallyTriggered
      BY <2>2 DEF TriggerCause
    <3>3. ~trigger'
      BY <3>1, <3>2, <1>7 DEF AutoTriggered, ManuallyTriggered
    <3> QED
      BY <3>3 DEF NoTriggerWhileCollecting
  <2>3. CASE ~trigger
    BY <2>3, <1>4, <1>6 DEF NoTriggerWhileCollecting, AllDone
  <2> QED
    BY <2>1, <2>2, <2>3
<1> QED
  BY <1>1, <1>3, <1>5, <1>8, <1>9

(* What CPU1 writes keeps the invariant, if users wait for their trigger. *)
LEMMA TrigWrites ==
  ASSUME Patient PROVE TrigInv /\ [CPU1 \/ Commands]_vars => TrigInv'
<1> SUFFICES ASSUME TrigInv, [CPU1 \/ Commands]_vars PROVE TrigInv'
  OBVIOUS
<1> USE DEF TrigInv
<1>1. UNCHANGED hardware
  BY DEF CPU1, Commands, TimingManagerInit, Tick, ClearIsr, Write, SetMode, SendManual, SetRatio,
         EnableSensor, SelectSensors, vars
<1>2. UNCHANGED <<count, trigger, manual_trigger_queued, carrier, done>>
  BY <1>1 DEF hardware, timingVars
<1>3. NoTriggerWhileCollecting'
  BY <1>2 DEF NoTriggerWhileCollecting, AllDone
<1>4. CASE TimingManagerInit
  BY <1>2, <1>3, <1>4 DEF TimingManagerInit, Types, Started, QueueEmpty, TriggerCause, AutoTriggered,
     ManuallyTriggered
<1>5. CASE Tick
  BY <1>2, <1>3, <1>5 DEF Tick, registers, Types, Started, QueueEmpty, TriggerCause, AutoTriggered,
     ManuallyTriggered
<1>6. CASE ClearIsr
  BY <1>2, <1>3, <1>6 DEF ClearIsr, Types, Started, QueueEmpty, TriggerCause, AutoTriggered, ManuallyTriggered
<1>7. ASSUME NEW auto \in BOOLEAN, SetMode(auto) PROVE TrigInv'
  <2>1. ~manual_trigger_queued
    BY <1>7 DEF SetMode, ManualOutstanding
  <2>2. UNCHANGED <<en_bits, user_ratio, cpu1>> /\ cpu1 = "loop"
    BY <1>7 DEF SetMode, Write
  <2>3. slv_reg0' \in [auto : BOOLEAN, manual : BOOLEAN]
    BY <1>7 DEF SetMode, Types
  <2> QED
    BY <1>2, <1>3, <2>1, <2>2, <2>3
    DEF Types, Started, QueueEmpty, TriggerCause, AutoTriggered, ManuallyTriggered
<1>8. CASE SendManual
  <2>1. UNCHANGED <<en_bits, user_ratio, cpu1>>
    BY <1>8 DEF SendManual, Write
  <2>2. slv_reg0' \in [auto : BOOLEAN, manual : BOOLEAN] /\ slv_reg0'.auto = slv_reg0.auto
    BY <1>8 DEF SendManual, Types
  <2> QED
    BY <1>2, <1>3, <2>1, <2>2
    DEF Types, Started, QueueEmpty, TriggerCause, AutoTriggered, ManuallyTriggered
<1>9. CASE SetRatio
  BY <1>2, <1>3, <1>9
  DEF SetRatio, Write, Types, Started, QueueEmpty, TriggerCause, AutoTriggered, ManuallyTriggered
<1>10. ASSUME NEW s \in Sensors, EnableSensor(s) PROVE TrigInv'
  BY <1>2, <1>3, <1>10
  DEF EnableSensor, Write, Types, Started, QueueEmpty, TriggerCause, AutoTriggered, ManuallyTriggered
<1>11. CASE SelectSensors
  BY <1>2, <1>3, <1>11
  DEF SelectSensors, Write, Types, Started, QueueEmpty, TriggerCause, AutoTriggered, ManuallyTriggered
<1>12. CASE UNCHANGED vars
  BY <1>2, <1>3, <1>12
  DEF vars, registers, Types, Started, QueueEmpty, TriggerCause, AutoTriggered, ManuallyTriggered
<1> QED
  BY <1>4, <1>5, <1>6, <1>7, <1>8, <1>9, <1>10, <1>11, <1>12 DEF CPU1, Commands

(***************************************************************************)
(* "A trigger signal can only be asserted if none of the sensors are still *)
(* collecting data": whatever is written to the registers, provided that   *)
(* users wait for their manual trigger before they change the mode.        *)
(***************************************************************************)
THEOREM TriggersOnlyWhenDone ==
  ASSUME Patient PROVE Spec => []NoTriggerWhileCollecting
<1>1. TrigInv /\ [Next]_vars => TrigInv'
  BY TrigClock, TrigWrites DEF Next
<1>2. TrigInv => NoTriggerWhileCollecting
  BY DEF TrigInv
<1> QED
  BY TrigInit, <1>1, <1>2, PTL DEF Spec

-----------------------------------------------------------------------------
(***************************************************************************)
(* A channel that an AMDS interface marks valid has both its bytes from    *)
(* the last transmission of its line.  In the receiver of a line, with the *)
(* channels that are enabled on it, a channel is marked valid only when    *)
(* both its bytes were stored since the transmission began, and the        *)
(* helpers of a packet say so of the channel it is about.                  *)
(***************************************************************************)
IsRx(r) ==
  /\ r = [state |-> r.state, current_packet |-> r.current_packet, packet_valid |-> r.packet_valid,
          is_dout_valid |-> r.is_dout_valid, good |-> r.good, adc_uart_done |-> r.adc_uart_done,
          MSB |-> r.MSB, LSB |-> r.LSB, uart |-> r.uart, data |-> r.data]
  /\ r.MSB = [c \in Channels |-> r.MSB[c]] /\ r.LSB = [c \in Channels |-> r.LSB[c]]

RxUart(r) ==
  /\ r.state = "IDLE" => r.uart = "off" /\ r.adc_uart_done
  /\ r.state = "DONE" => r.uart \in {"valid", "corrupt"}
  /\ amds!Waits(r) => r.uart \in {"listening", "valid", "corrupt", "timed_out"}
  /\ r.state = "IDLE" \/ amds!Waits(r) \/ r.state = "DONE"
  /\ r.uart = "valid" => r.data.from # amds!Old

OfPacket(r, bytes, stored) ==
  "header" \in r.good /\ stored \in r.good /\ r.current_packet \in Channels
    => bytes[r.current_packet] # amds!Old

RxPacket(r) ==
  /\ "header" \in r.good => r.current_packet # amds!NoPacket
  /\ r.state = "WAIT_FOR_HEADER" => r.good = {}
  /\ r.state = "WAIT_FOR_DATA_MSB" => r.good \subseteq {"header"}
  /\ r.state = "WAIT_FOR_DATA_LSB" => r.good \subseteq {"header", "MSB"} /\ OfPacket(r, r.MSB, "MSB")
  /\ r.state = "DONE" => OfPacket(r, r.MSB, "MSB") /\ OfPacket(r, r.LSB, "LSB")

RxValid(r, enabled) ==
  /\ r.is_dout_valid \subseteq enabled
  /\ \A c \in r.is_dout_valid : r.MSB[c] # amds!Old /\ r.LSB[c] # amds!Old
RxInv(r, enabled) ==
  /\ IsRx(r) /\ RxUart(r) /\ RxPacket(r) /\ RxValid(r, enabled)
  /\ enabled = {} => r.state = "IDLE"

(* A step of the receiver keeps its fields. *)
LEMMA RxFieldSet ==
  \A r, v : IsRx(r) => /\ IsRx([r EXCEPT !.uart = v]) /\ IsRx([r EXCEPT !.data = v])
                      /\ IsRx([r EXCEPT !.state = v]) /\ IsRx([r EXCEPT !.adc_uart_done = v])
<1> SUFFICES ASSUME NEW r, NEW v, IsRx(r)
             PROVE  /\ IsRx([r EXCEPT !.uart = v]) /\ IsRx([r EXCEPT !.data = v])
                    /\ IsRx([r EXCEPT !.state = v]) /\ IsRx([r EXCEPT !.adc_uart_done = v])
  OBVIOUS
<1>1. IsRx([r EXCEPT !.uart = v])
  BY DEF IsRx
<1>2. IsRx([r EXCEPT !.data = v])
  BY DEF IsRx
<1>3. IsRx([r EXCEPT !.state = v])
  BY DEF IsRx
<1>4. IsRx([r EXCEPT !.adc_uart_done = v])
  BY DEF IsRx
<1> QED BY <1>1, <1>2, <1>3, <1>4

LEMMA RxStart ==
  ASSUME NEW enabled \in SUBSET Channels, NEW r, RxInv(r, enabled), r.state = "IDLE", NEW start
  PROVE  /\ RxInv(amds!Idle(r, start, enabled), enabled)
         /\ amds!Idle(r, start, enabled).state # "IDLE" => start
<1> DEFINE n == amds!Idle(r, start, enabled)
<1>1. CASE enabled = {}
  <2>1. n = [r EXCEPT !.adc_uart_done = TRUE]
    BY <1>1 DEF amds!Idle
  <2> HIDE DEF n
  <2>2. /\ n.state = r.state /\ n.current_packet = r.current_packet /\ n.is_dout_valid = r.is_dout_valid
        /\ n.good = r.good /\ n.adc_uart_done /\ n.MSB = r.MSB /\ n.LSB = r.LSB /\ n.uart = r.uart
        /\ n.data = r.data
    BY <2>1 DEF RxInv, IsRx
  <2>3. IsRx(n)
    BY <2>1 DEF RxInv, IsRx
  <2>4. RxUart(n) /\ RxPacket(n) /\ RxValid(n, enabled)
    BY <2>2 DEF RxInv, RxUart, RxPacket, RxValid, OfPacket, amds!Waits
  <2> QED BY <1>1, <2>2, <2>3, <2>4 DEF RxInv, n
<1>2. CASE enabled # {} /\ start
  <2>1. n = amds!Start(r)
    BY <1>2 DEF amds!Idle
  <2> HIDE DEF n
  <2>2. /\ n.state = "WAIT_FOR_HEADER" /\ n.is_dout_valid = {} /\ n.good = {} /\ n.uart = "listening"
        /\ IsRx(n)
    BY <2>1 DEF RxInv, IsRx, amds!Start, amds!Going
  <2>4. RxUart(n) /\ RxPacket(n) /\ RxValid(n, enabled)
    BY <2>2 DEF RxUart, RxPacket, RxValid, amds!Waits
  <2> QED BY <1>2, <2>2, <2>4 DEF RxInv, n
<1>3. CASE enabled # {} /\ ~start
  BY <1>3 DEF amds!Idle
<1> QED BY <1>1, <1>2, <1>3

(* The byte receiver listens until it has an outcome. *)
Heard(r, uart, data) == [r EXCEPT !.uart = uart, !.data = data]
LEMMA RxListens ==
  ASSUME NEW enabled, NEW r, RxInv(r, enabled), r.uart = "listening",
         NEW uart \in {"listening", "valid", "corrupt", "timed_out"}, NEW data,
         uart = "valid" => data.from # amds!Old
  PROVE  RxInv(Heard(r, uart, data), enabled) /\ Heard(r, uart, data).state = r.state
<1> DEFINE n == Heard(r, uart, data)
<1>1. /\ n.state = r.state /\ n.current_packet = r.current_packet /\ n.is_dout_valid = r.is_dout_valid
      /\ n.good = r.good /\ n.adc_uart_done = r.adc_uart_done /\ n.MSB = r.MSB /\ n.LSB = r.LSB
      /\ n.uart = uart /\ n.data = data
  BY DEF RxInv, IsRx, Heard
<1>4. IsRx(n)
  BY RxFieldSet DEF RxInv, Heard
<1> HIDE DEF n
<1>2. amds!Waits(r) /\ r.state # "IDLE" /\ r.state # "DONE"
  BY DEF RxInv, RxUart, amds!Waits
<1>3. RxUart(n) /\ RxPacket(n) /\ RxValid(n, enabled)
  BY <1>1, <1>2 DEF RxInv, RxUart, RxPacket, RxValid, OfPacket, amds!Waits
<1> QED BY <1>1, <1>2, <1>3, <1>4 DEF RxInv, n

LEMMA RxHeader ==
  ASSUME NEW enabled, NEW r, RxInv(r, enabled), r.state = "WAIT_FOR_HEADER"
  PROVE  RxInv(amds!Header(r), enabled) /\ amds!Header(r).state # "IDLE"
<1> DEFINE n == amds!Header(r)
           valid == r.uart = "valid" /\ r.data.number # amds!NoPacket
<1>1. /\ n.state = "WAIT_FOR_DATA_MSB" /\ n.uart = "listening" /\ n.is_dout_valid = r.is_dout_valid
      /\ n.MSB = r.MSB /\ n.LSB = r.LSB /\ IsRx(n)
      /\ n.good = IF valid THEN r.good \cup {"header"} ELSE r.good
      /\ n.current_packet = IF valid THEN r.data.number ELSE r.current_packet
  BY DEF RxInv, IsRx, amds!Header, amds!Going
<1> HIDE DEF n
<1>2. RxUart(n) /\ RxPacket(n) /\ RxValid(n, enabled)
  BY <1>1 DEF RxInv, RxUart, RxPacket, RxValid, amds!Waits
<1>3. enabled # {}
  BY DEF RxInv
<1> QED BY <1>1, <1>2, <1>3 DEF RxInv, n

LEMMA RxMSB ==
  ASSUME NEW enabled, NEW r, RxInv(r, enabled), r.state = "WAIT_FOR_DATA_MSB"
  PROVE  RxInv(amds!DataByte(r, "MSB"), enabled) /\ amds!DataByte(r, "MSB").state # "IDLE"
<1> DEFINE n == amds!DataByte(r, "MSB")
           valid == r.uart = "valid"
           loads == valid /\ r.current_packet # amds!NoPacket
<1>1. /\ n.state = "WAIT_FOR_DATA_LSB" /\ n.uart = "listening" /\ n.is_dout_valid = r.is_dout_valid
      /\ n.LSB = r.LSB /\ n.current_packet = r.current_packet
      /\ n.good = IF valid THEN r.good \cup {"MSB"} ELSE r.good
      /\ n.MSB = IF loads THEN [r.MSB EXCEPT ![r.current_packet] = r.data.from] ELSE r.MSB
  BY DEF RxInv, IsRx, amds!DataByte, amds!Loaded, amds!Going
<1>2. IsRx(n)
  BY DEF RxInv, IsRx, amds!DataByte, amds!Loaded, amds!Going
<1> HIDE DEF n
<1>3. \A c \in Channels : n.MSB[c] = IF loads /\ c = r.current_packet THEN r.data.from ELSE r.MSB[c]
  BY <1>1 DEF RxInv, IsRx
<1>4. valid => r.data.from # amds!Old
  BY DEF RxInv, RxUart
<1>5. RxUart(n)
  BY <1>1 DEF RxUart, amds!Waits
<1>6. RxPacket(n)
  BY <1>1, <1>3, <1>4 DEF RxInv, RxPacket, OfPacket
<1>7. enabled # {} /\ RxValid(n, enabled)
  BY <1>1, <1>3, <1>4 DEF RxInv, RxValid
<1> QED BY <1>1, <1>2, <1>5, <1>6, <1>7 DEF RxInv, n

LEMMA RxLSB ==
  ASSUME NEW enabled \in SUBSET Channels, NEW r, RxInv(r, enabled), r.state = "WAIT_FOR_DATA_LSB", amds!HasByte(r)
  PROVE  RxInv(amds!DataByte(r, "LSB"), enabled) /\ amds!DataByte(r, "LSB").state # "IDLE"
<1> DEFINE n == amds!DataByte(r, "LSB")
           valid == r.uart = "valid"
           loads == valid /\ r.current_packet # amds!NoPacket
<1>1. /\ n.state = "DONE" /\ n.uart = r.uart /\ n.data = r.data /\ n.is_dout_valid = r.is_dout_valid
      /\ n.MSB = r.MSB /\ n.current_packet = r.current_packet
      /\ n.good = IF valid THEN r.good \cup {"LSB"} ELSE r.good
      /\ n.LSB = IF loads THEN [r.LSB EXCEPT ![r.current_packet] = r.data.from] ELSE r.LSB
  BY DEF RxInv, IsRx, amds!DataByte, amds!Loaded, amds!Going
<1>2. IsRx(n)
  BY DEF RxInv, IsRx, amds!DataByte, amds!Loaded, amds!Going
<1> HIDE DEF n
<1>3. \A c \in Channels : n.LSB[c] = IF loads /\ c = r.current_packet THEN r.data.from ELSE r.LSB[c]
  BY <1>1 DEF RxInv, IsRx
<1>4. valid => r.data.from # amds!Old
  BY DEF RxInv, RxUart
<1>5. RxUart(n)
  BY <1>1, <1>4 DEF RxUart, amds!Waits, amds!HasByte
<1>6. RxPacket(n)
  BY <1>1, <1>3, <1>4 DEF RxInv, RxPacket, OfPacket
<1>7. enabled # {} /\ RxValid(n, enabled)
  BY <1>1, <1>3, <1>4 DEF RxInv, RxValid
<1> QED BY <1>1, <1>2, <1>5, <1>6, <1>7 DEF RxInv, n

LEMMA RxFinished ==
  ASSUME NEW enabled, NEW r, RxInv(r, enabled)
  PROVE  RxInv(amds!Finished(r), enabled) /\ amds!Finished(r).state = "IDLE"
<1> DEFINE n == amds!Finished(r)
<1>1. /\ n.state = "IDLE" /\ n.uart = "off" /\ n.adc_uart_done /\ n.is_dout_valid = r.is_dout_valid
      /\ n.MSB = r.MSB /\ n.LSB = r.LSB /\ n.good = r.good /\ n.current_packet = r.current_packet
  BY DEF RxInv, IsRx, amds!Finished
<1>3. IsRx(n)
  BY RxFieldSet DEF RxInv, amds!Finished
<1> HIDE DEF n
<1>2. RxUart(n) /\ RxPacket(n) /\ RxValid(n, enabled)
  BY <1>1 DEF RxInv, RxUart, RxPacket, RxValid, amds!Waits
<1> QED BY <1>1, <1>2, <1>3 DEF RxInv, n

LEMMA RxEndOfPacket ==
  ASSUME NEW enabled \in SUBSET Channels, NEW r, RxInv(r, enabled), r.state = "DONE"
  PROVE  /\ RxInv(amds!EndOfPacket(r, enabled), enabled)
         /\ amds!AllReceived(r, enabled) => amds!EndOfPacket(r, enabled).state = "IDLE"
<1> DEFINE n == amds!EndOfPacket(r, enabled)
           all == amds!AllReceived(r, enabled)
           valid == IF amds!Whole(r) THEN r.is_dout_valid \cup ({r.current_packet} \cap enabled)
                    ELSE r.is_dout_valid
<1>1. /\ n.state = IF all THEN "IDLE" ELSE "WAIT_FOR_HEADER"
      /\ n.uart = IF all THEN "off" ELSE "listening"
      /\ all => n.adc_uart_done
      /\ n.good = {} /\ n.MSB = r.MSB /\ n.LSB = r.LSB /\ n.is_dout_valid = valid
  BY DEF RxInv, IsRx, amds!EndOfPacket, amds!Finished, amds!Going
<1>2. IsRx(n)
  BY DEF RxInv, IsRx, amds!EndOfPacket, amds!Finished, amds!Going
<1> HIDE DEF n, all
<1>3. RxUart(n) /\ RxPacket(n)
  BY <1>1 DEF RxUart, RxPacket, amds!Waits
<1>4. amds!Whole(r) /\ r.current_packet \in enabled
        => r.MSB[r.current_packet] # amds!Old /\ r.LSB[r.current_packet] # amds!Old
  BY DEF RxInv, RxPacket, OfPacket, amds!Whole
<1>5. RxValid(n, enabled)
  BY <1>1, <1>4 DEF RxInv, RxValid
<1>6. enabled # {}
  BY DEF RxInv
<1> QED BY <1>1, <1>2, <1>3, <1>5, <1>6 DEF RxInv, n, all

(* A clock edge of the receiver; it leaves a transmission when it asserts done. *)
LEMMA RxNext ==
  ASSUME NEW enabled \in SUBSET Channels, NEW r, RxInv(r, enabled), r.uart # "listening", NEW start
  PROVE  /\ RxInv(amds!LineNext(r, start, enabled), enabled)
         /\ amds!AssertDone(r, enabled) /\ enabled # {} => amds!LineNext(r, start, enabled).state = "IDLE"
         /\ r.state = "IDLE" /\ amds!LineNext(r, start, enabled).state # "IDLE" => start
<1> DEFINE n == amds!LineNext(r, start, enabled)
<1>1. CASE r.state = "IDLE"
  <2>1. n = amds!Idle(r, start, enabled)
    BY <1>1 DEF amds!LineNext, amds!Waits
  <2>2. ~(amds!AssertDone(r, enabled) /\ enabled # {})
    BY <1>1 DEF amds!AssertDone, amds!Waits
  <2> QED BY <1>1, <2>1, <2>2, RxStart
<1>2. CASE r.state = "DONE"
  <2>1. n = amds!EndOfPacket(r, enabled)
    BY <1>2 DEF amds!LineNext, amds!Waits
  <2>2. amds!AssertDone(r, enabled) => amds!AllReceived(r, enabled)
    BY <1>2 DEF amds!AssertDone, amds!Waits
  <2> QED BY <1>2, <2>1, <2>2, RxEndOfPacket
<1>3. CASE amds!Waits(r) /\ r.uart = "timed_out"
  <2>1. n = amds!Finished(r)
    BY <1>3 DEF amds!LineNext, amds!Waits, amds!HasByte
  <2>2. r.state # "IDLE"
    BY <1>3 DEF amds!Waits
  <2> QED BY <2>1, <2>2, RxFinished
<1>4. CASE amds!Waits(r) /\ amds!HasByte(r)
  <2>1. r.state # "IDLE" /\ r.state # "DONE" /\ r.uart # "timed_out"
    BY <1>4 DEF amds!Waits, amds!HasByte
  <2>2. ~amds!AssertDone(r, enabled)
    BY <2>1 DEF amds!AssertDone
  <2>3. CASE r.state = "WAIT_FOR_HEADER"
    <3>1. n = amds!Header(r)
      BY <1>4, <2>1, <2>3 DEF amds!LineNext
    <3> QED BY <2>1, <2>2, <2>3, <3>1, RxHeader
  <2>4. CASE r.state = "WAIT_FOR_DATA_MSB"
    <3>1. n = amds!DataByte(r, "MSB")
      BY <1>4, <2>1, <2>4 DEF amds!LineNext
    <3> QED BY <2>1, <2>2, <2>4, <3>1, RxMSB
  <2>5. CASE r.state = "WAIT_FOR_DATA_LSB"
    <3>1. n = amds!DataByte(r, "LSB")
      BY <1>4, <2>1, <2>5 DEF amds!LineNext
    <3> QED BY <1>4, <2>1, <2>2, <2>5, <3>1, RxLSB
  <2> QED BY <1>4, <2>3, <2>4, <2>5 DEF amds!Waits
<1>5. amds!Waits(r) => r.uart = "timed_out" \/ amds!HasByte(r)
  BY DEF RxInv, RxUart, amds!HasByte
<1> QED BY <1>1, <1>2, <1>3, <1>4, <1>5 DEF RxInv, RxUart

(***************************************************************************)
(* A line with channels: unless its answer came late, at most one of the   *)
(* wait for the edge, the start and the reception is going on, and none of *)
(* them once the line is done.                                             *)
(***************************************************************************)
Waiting(l) == waiting_for_first_fe[l]
Receives(l) == line[l].state # "IDLE"
Quiet(l) == ~Waiting(l) /\ ~start_rx[l] /\ ~Receives(l)

LineInv(l) ==
  Enabled[l] # {} /\ ~late[l] =>
    /\ done_flop[l] => Quiet(l)
    /\ ~(Waiting(l) /\ start_rx[l]) /\ ~(Waiting(l) /\ Receives(l)) /\ ~(start_rx[l] /\ Receives(l))
    /\ trigger_to_fe_timer[l] # 0 => ~Receives(l)

FreshData(l) ==
  \A c \in ch_valid_reg[l] : ~late[l] => amds!Old \notin {adc_dout[l][c].MSB, adc_dout[l][c].LSB}

AmdsInv ==
  /\ \A l \in Lines : answer[l] \in Nat
  /\ \A l \in Lines : trigger_to_fe_timer[l] \in Nat
  /\ \A l \in Lines : RxInv(line[l], Enabled[l])
  /\ \A l \in Lines : LineInv(l)
  /\ amds_trigger => amds!Done
  /\ amds_done_ff => \A l \in Lines : FreshData(l)

(* No byte of an answer is an old one. *)
LEMMA FewChannels == amds!Silent \in Nat /\ amds!Silent <= 45
<1>1. IsFiniteSet(0 .. 14) /\ Cardinality(0 .. 14) = 15
  <2>1. 0 \in Int /\ 14 \in Int
    OBVIOUS
  <2>2. IsFiniteSet(0 .. 14) /\ Cardinality(0 .. 14) = (IF 0 > 14 THEN 0 ELSE 14 - 0 + 1)
    BY <2>1, FS_Interval
  <2> QED BY <2>2
<1>2. Channels \subseteq 0 .. 14
  BY InstanceAssumption DEF amds!ChannelsAssumption
<1>3. IsFiniteSet(Channels) /\ Cardinality(Channels) <= 15
  BY <1>1, <1>2, FS_Subset
<1>4. Cardinality(Channels) \in Nat
  BY <1>3, FS_CardinalityType
<1>5. amds!Cardinality(Channels) = Cardinality(Channels)
  BY DEF amds!Cardinality, Cardinality, amds!IsFiniteSet, IsFiniteSet
<1>6. amds!Silent = 3 * Cardinality(Channels)
  BY <1>5 DEF amds!Silent
<1> QED BY <1>3, <1>4, <1>6

LEMMA OutcomeIsNew ==
  ASSUME NEW l \in Lines, answer[l] \in Nat, NEW o \in amds!OutcomesOf(l)
  PROVE  /\ o.uart \in {"listening", "valid", "corrupt", "timed_out"}
         /\ o.uart = "valid" => o.data.from # amds!Old
<1>1. CASE o = amds!NoStartBit
  BY <1>1 DEF amds!NoStartBit
<1>2. CASE o = amds!Corrupt
  BY <1>2 DEF amds!Corrupt
<1>3. CASE answer[l] < amds!Silent /\ \E number : o = amds!Valid([number |-> number, from |-> answer[l] \div 3])
  <2>1. PICK number : o = amds!Valid([number |-> number, from |-> answer[l] \div 3])
    BY <1>3
  <2>2. o.uart = "valid" /\ o.data.from = answer[l] \div 3
    BY <2>1 DEF amds!Valid
  <2>3. answer[l] \div 3 # 15
    BY <1>3, FewChannels
  <2> QED BY <2>2, <2>3 DEF amds!Old
<1>4. o = amds!NoStartBit \/ (answer[l] < amds!Silent /\ o \in amds!Intact(l) \cup amds!Damaged(l))
  BY FewChannels DEF amds!OutcomesOf
<1>5. o \in amds!Intact(l) => \E number : o = amds!Valid([number |-> number, from |-> answer[l] \div 3])
  BY DEF amds!Intact
<1>6. o \in amds!Damaged(l) =>
        o = amds!Corrupt \/ \E number : o = amds!Valid([number |-> number, from |-> answer[l] \div 3])
  BY DEF amds!Damaged
<1> QED BY <1>1, <1>2, <1>3, <1>4, <1>5, <1>6

LEMMA OutcomesAre ==
  ASSUME NEW o \in amds!Outcomes, NEW l \in Lines, amds!Listening(l)
  PROVE  o[l] \in amds!OutcomesOf(l)
<1> DEFINE listening == {k \in Lines : amds!Listening(k)}
           may == UNION {amds!OutcomesOf(k) : k \in listening}
<1>1. PICK f \in [listening -> may] :
        /\ \A k \in listening : f[k] \in amds!OutcomesOf(k)
        /\ o = [k \in Lines |-> IF k \in listening THEN f[k] ELSE amds!Nothing]
  BY DEF amds!Outcomes
<1>2. l \in listening
  OBVIOUS
<1> QED BY <1>1, <1>2

LEMMA LineClockKeeps ==
  ASSUME NEW l \in Lines, answer[l] \in Nat, Enabled[l] \in SUBSET Channels, RxInv(line[l], Enabled[l]),
         NEW o, amds!Listening(l) => o \in amds!OutcomesOf(l)
  PROVE  /\ RxInv(amds!LineClock(l, o), Enabled[l])
         /\ amds!AssertDone(line[l], Enabled[l]) /\ Enabled[l] # {} => amds!LineClock(l, o).state = "IDLE"
         /\ ~Receives(l) /\ amds!LineClock(l, o).state # "IDLE" => start_rx[l]
<1> DEFINE r == line[l]
<1>1. CASE amds!Listening(l)
  <2>1. amds!LineClock(l, o) = Heard(r, o.uart, o.data)
    BY <1>1 DEF amds!LineClock, Heard
  <2>2. /\ o.uart \in {"listening", "valid", "corrupt", "timed_out"}
        /\ o.uart = "valid" => o.data.from # amds!Old
    BY <1>1, OutcomeIsNew
  <2>3. r.uart = "listening"
    BY <1>1 DEF amds!Listening
  <2>4. RxInv(Heard(r, o.uart, o.data), Enabled[l]) /\ Heard(r, o.uart, o.data).state = r.state
    <3> DEFINE uart == o.uart
               data == o.data
               enabled == Enabled[l]
    <3>1. /\ uart \in {"listening", "valid", "corrupt", "timed_out"}
          /\ uart = "valid" => data.from # amds!Old
      BY <2>2
    <3>2. RxInv(r, enabled) /\ r.uart = "listening"
      BY <2>3
    <3> HIDE DEF uart, data, enabled, r
    <3>3. RxInv(Heard(r, uart, data), enabled) /\ Heard(r, uart, data).state = r.state
      BY <3>1, <3>2, RxListens
    <3> QED BY <3>3 DEF uart, data, enabled, r
  <2>5. r.state # "IDLE" /\ r.state # "DONE"
    BY <2>3 DEF RxInv, RxUart
  <2>6. ~amds!AssertDone(r, Enabled[l])
    BY <2>3, <2>5 DEF amds!AssertDone
  <2> QED BY <2>1, <2>4, <2>5, <2>6 DEF Receives
<1>2. CASE ~amds!Listening(l)
  <2>1. amds!LineClock(l, o) = amds!LineNext(r, start_rx[l], Enabled[l])
    BY <1>2 DEF amds!LineClock
  <2>2. r.uart # "listening"
    BY <1>2 DEF amds!Listening
  <2> QED BY <2>1, <2>2, RxNext DEF Receives
<1> QED BY <1>1, <1>2

(* After a clock the line is quiet or its answer was not late before it. *)
LEMMA LineClockInv ==
  ASSUME NEW l \in Lines, Enabled[l] \in SUBSET Channels, answer[l] \in Nat, trigger_to_fe_timer[l] \in Nat,
         RxInv(line[l], Enabled[l]), LineInv(l), NEW triggered, triggered => amds!Done,
         NEW enable, triggered => enable,
         NEW began, NEW o, amds!Listening(l) => o \in amds!OutcomesOf(l),
         waiting_for_first_fe'[l] = amds!WaitingNext(l, triggered, enable, began),
         trigger_to_fe_timer'[l] = amds!TimerNext(l),
         start_rx'[l] = (waiting_for_first_fe[l] /\ amds!FallingEdge(l, began)),
         done_flop'[l] = amds!DoneFlopNext(l, triggered),
         line'[l] = amds!LineClock(l, o), late'[l] = amds!LateNext(l, began)
  PROVE  LineInv(l)'
<1> SUFFICES ASSUME Enabled[l] # {}, ~late'[l]
             PROVE  /\ done_flop'[l] => ~waiting_for_first_fe'[l] /\ ~start_rx'[l] /\ line'[l].state = "IDLE"
                    /\ ~(waiting_for_first_fe'[l] /\ start_rx'[l])
                    /\ ~(waiting_for_first_fe'[l] /\ line'[l].state # "IDLE")
                    /\ ~(start_rx'[l] /\ line'[l].state # "IDLE")
                    /\ trigger_to_fe_timer'[l] # 0 => line'[l].state = "IDLE"
  BY DEF LineInv, Quiet, Waiting, Receives
<1>1. /\ ~late[l] \/ Quiet(l)
      /\ amds!TimedOut(l) => ~start_rx[l] /\ ~(Waiting(l) /\ amds!FallingEdge(l, began))
  BY DEF amds!LateNext, Quiet, Waiting, Receives
<1>2. amds!Done => done_flop[l]
  BY DEF amds!Done
<1>3. done_flop[l] => Quiet(l)
  BY <1>1 DEF LineInv
<1>4. ~(Waiting(l) /\ start_rx[l]) /\ ~(Waiting(l) /\ Receives(l)) /\ ~(start_rx[l] /\ Receives(l))
  BY <1>1 DEF LineInv, Quiet
<1>5. amds!TimedOut(l) => ~Receives(l)
  <2>1. trigger_to_fe_timer[l] # 0 => ~Receives(l)
    BY <1>1 DEF LineInv, Quiet
  <2>2. FeTimeout \in Nat
    BY InstanceAssumption DEF amds!AmdsAssumption
  <2> QED BY <2>1, <2>2 DEF amds!TimedOut
<1>6. /\ amds!AssertDone(line[l], Enabled[l]) => line'[l].state = "IDLE"
      /\ ~Receives(l) /\ line'[l].state # "IDLE" => start_rx[l]
  BY LineClockKeeps
<1>7. amds!AssertDone(line[l], Enabled[l]) => Receives(l)
  BY DEF amds!AssertDone, amds!Waits, Receives
<1>8. /\ waiting_for_first_fe'[l] => triggered \/ (Waiting(l) /\ ~amds!FallingEdge(l, began) /\ ~amds!TimedOut(l))
      /\ start_rx'[l] => Waiting(l) /\ amds!FallingEdge(l, began)
      /\ trigger_to_fe_timer'[l] # 0 => Waiting(l)
      /\ done_flop'[l] => ~triggered /\ (done_flop[l] \/ amds!AssertDone(line[l], Enabled[l]) \/ amds!TimedOut(l))
  BY DEF amds!WaitingNext, amds!TimerNext, amds!DoneFlopNext, Waiting
<1>9. triggered => Quiet(l)
  BY <1>2, <1>3
<1>10. Quiet(l) => line'[l].state = "IDLE" /\ ~Waiting(l)
  BY <1>6 DEF Quiet
<1>11. Waiting(l) => line'[l].state = "IDLE"
  BY <1>4, <1>6
<1>12. done_flop'[l] => ~waiting_for_first_fe'[l] /\ ~start_rx'[l] /\ line'[l].state = "IDLE"
  <2> SUFFICES ASSUME done_flop'[l]
               PROVE  ~waiting_for_first_fe'[l] /\ ~start_rx'[l] /\ line'[l].state = "IDLE"
    OBVIOUS
  <2>1. CASE Quiet(l)
    BY <2>1, <1>8, <1>10
  <2>2. CASE amds!AssertDone(line[l], Enabled[l])
    BY <2>2, <1>4, <1>6, <1>7, <1>8
  <2>3. CASE amds!TimedOut(l)
    BY <2>3, <1>1, <1>5, <1>6, <1>8
  <2> QED BY <2>1, <2>2, <2>3, <1>3, <1>8
<1> QED BY <1>8, <1>9, <1>10, <1>11, <1>12

(* What is done was received in full before, and stays in the data registers. *)
LEMMA LatchedIsFresh ==
  ASSUME NEW l \in Lines, RxInv(line[l], Enabled[l]), LineInv(l), done_flop[l], Enabled[l] \in SUBSET Channels,
         NEW began, ~amds!LateNext(l, began), NEW c \in line[l].is_dout_valid
  PROVE  amds!Old \notin {amds!Latched(l)[c].MSB, amds!Latched(l)[c].LSB}
<1>1. c \in Enabled[l] /\ c \in Channels /\ line[l].MSB[c] # amds!Old /\ line[l].LSB[c] # amds!Old
  BY DEF RxInv, RxValid
<1>2. ~late[l] \/ Quiet(l)
  BY DEF amds!LateNext, Quiet, Waiting, Receives
<1>3. Quiet(l)
  BY <1>1, <1>2 DEF LineInv
<1>4. line[l].adc_uart_done
  BY <1>3 DEF Quiet, Receives, RxInv, RxUart
<1>5. amds!Latched(l)[c] = [MSB |-> line[l].MSB[c], LSB |-> line[l].LSB[c]]
  BY <1>1, <1>4 DEF amds!Latched, amds!Data
<1> QED BY <1>1, <1>5

LEMMA EnabledAreChannels == \A l \in Lines : Enabled[l] \in SUBSET Channels
BY InstanceAssumption DEF amds!AmdsAssumption

LEMMA ResetLineIsReceiver == \A l \in Lines : RxInv(amds!ResetLine, Enabled[l])
<1> SUFFICES ASSUME NEW l \in Lines PROVE RxInv(amds!ResetLine, Enabled[l])
  OBVIOUS
<1>1. IsRx(amds!ResetLine)
  BY DEF IsRx, amds!ResetLine
<1>5. LET r == amds!ResetLine
      IN  r.state = "IDLE" /\ r.uart = "off" /\ r.adc_uart_done /\ r.good = {} /\ r.is_dout_valid = {}
  BY DEF amds!ResetLine
<1>2. RxUart(amds!ResetLine)
  BY <1>5 DEF RxUart, amds!Waits
<1>3. RxPacket(amds!ResetLine)
  BY <1>5 DEF RxPacket
<1>4. RxValid(amds!ResetLine, Enabled[l])
  BY <1>5 DEF RxValid
<1> QED BY <1>1, <1>2, <1>3, <1>4, <1>5 DEF RxInv

LEMMA AmdsInitInv == Either => AmdsInv
<1> SUFFICES ASSUME Either PROVE AmdsInv
  OBVIOUS
<1>1. /\ \A l \in Lines : /\ ~waiting_for_first_fe[l] /\ trigger_to_fe_timer[l] = 0 /\ ~start_rx[l]
                          /\ done_flop[l] /\ line[l] = amds!ResetLine /\ ch_valid_reg[l] = {}
                          /\ answer[l] = amds!Silent
      /\ amds_trigger = FALSE
  BY DEF Either, amds!Init, amds!AmdsReset, amds!TimingManagerFace!Init
<1>2. amds!Silent \in Nat
  BY FewChannels
<1>3. \A l \in Lines : LineInv(l)
  <2>1. amds!ResetLine.state = "IDLE"
    BY DEF amds!ResetLine
  <2> QED BY <1>1, <2>1 DEF LineInv, Quiet, Waiting, Receives
<1>4. \A l \in Lines : FreshData(l)
  BY <1>1 DEF FreshData
<1> QED BY <1>1, <1>2, <1>3, <1>4, ResetLineIsReceiver DEF AmdsInv

LEMMA AmdsClockInv == AmdsInv /\ amds!Clock => AmdsInv'
<1> SUFFICES ASSUME AmdsInv, amds!Clock PROVE AmdsInv'
  OBVIOUS
<1> DEFINE triggered == amds_trigger /\ amds_enable
<1>1. PICK began \in SUBSET {l \in Lines : answer[l] = amds!Expected}, outcome \in amds!Outcomes :
        /\ waiting_for_first_fe' = [l \in Lines |-> amds!WaitingNext(l, triggered, amds_enable, began)]
        /\ trigger_to_fe_timer' = [l \in Lines |-> amds!TimerNext(l)]
        /\ start_rx' = [l \in Lines |-> waiting_for_first_fe[l] /\ amds!FallingEdge(l, began)]
        /\ done_flop' = [l \in Lines |-> amds!DoneFlopNext(l, triggered)]
        /\ line' = [l \in Lines |-> amds!LineClock(l, outcome[l])]
        /\ adc_dout' = [l \in Lines |-> amds!Latched(l)]
        /\ ch_valid_reg' = IF amds!Done THEN [l \in Lines |-> line[l].is_dout_valid] ELSE ch_valid_reg
        /\ answer' = [l \in Lines |-> amds!AnswerNext(l, triggered, began, outcome[l])]
        /\ late' = [l \in Lines |-> amds!LateNext(l, began)]
  BY DEF amds!Clock, amds!AmdsClock
<1>2. /\ amds_trigger' \in IF amds!Done /\ ~amds_trigger THEN BOOLEAN ELSE {FALSE}
      /\ amds_done_ff' = amds!Done
  BY DEF amds!Clock
<1>3. /\ \A l \in Lines : answer[l] \in Nat /\ trigger_to_fe_timer[l] \in Nat
      /\ \A l \in Lines : RxInv(line[l], Enabled[l]) /\ LineInv(l)
      /\ triggered => amds!Done
  BY DEF AmdsInv
<1>4. \A l \in Lines : amds!Listening(l) => outcome[l] \in amds!OutcomesOf(l)
  BY <1>1, OutcomesAre
<1>5. \A l \in Lines : answer'[l] \in Nat
  BY <1>1, <1>3, FewChannels DEF amds!AnswerNext, amds!Expected
<1>6. \A l \in Lines : trigger_to_fe_timer'[l] \in Nat
  BY <1>1, <1>3 DEF amds!TimerNext
<1>7. \A l \in Lines : RxInv(line'[l], Enabled[l])
  BY <1>1, <1>3, <1>4, EnabledAreChannels, LineClockKeeps
<1>8. ASSUME NEW l \in Lines PROVE LineInv(l)'
  <2>1. /\ waiting_for_first_fe'[l] = amds!WaitingNext(l, triggered, amds_enable, began)
        /\ trigger_to_fe_timer'[l] = amds!TimerNext(l)
        /\ start_rx'[l] = (waiting_for_first_fe[l] /\ amds!FallingEdge(l, began))
        /\ done_flop'[l] = amds!DoneFlopNext(l, triggered)
        /\ line'[l] = amds!LineClock(l, outcome[l]) /\ late'[l] = amds!LateNext(l, began)
    BY <1>1
  <2>2. triggered => amds_enable
    OBVIOUS
  <2>3. /\ Enabled[l] \in SUBSET Channels /\ answer[l] \in Nat /\ trigger_to_fe_timer[l] \in Nat
        /\ RxInv(line[l], Enabled[l]) /\ LineInv(l)
        /\ amds!Listening(l) => outcome[l] \in amds!OutcomesOf(l)
    BY <1>3, <1>4, EnabledAreChannels
  <2> HIDE DEF triggered
  <2> QED BY <1>3, <2>1, <2>2, <2>3, LineClockInv
<1>9. amds_trigger' => amds!Done'
  <2> SUFFICES ASSUME amds_trigger' PROVE amds!Done'
    OBVIOUS
  <2>1. amds!Done /\ ~amds_trigger
    BY <1>2
  <2>2. \A l \in Lines : done_flop'[l]
    BY <1>1, <2>1 DEF amds!Done, amds!DoneFlopNext
  <2> QED BY <2>2 DEF amds!Done
<1>10. ASSUME amds_done_ff', NEW l \in Lines, NEW c \in ch_valid_reg'[l], ~late'[l]
       PROVE  amds!Old \notin {adc_dout'[l][c].MSB, adc_dout'[l][c].LSB}
  <2>1. amds!Done
    BY <1>2, <1>10
  <2>2. done_flop[l] /\ c \in line[l].is_dout_valid /\ adc_dout'[l] = amds!Latched(l)
    BY <1>1, <1>10, <2>1 DEF amds!Done
  <2>3. ~amds!LateNext(l, began)
    BY <1>1, <1>10
  <2> QED BY <1>3, <2>2, <2>3, EnabledAreChannels, LatchedIsFresh
<1> QED BY <1>5, <1>6, <1>7, <1>8, <1>9, <1>10 DEF AmdsInv, FreshData

LEMMA AmdsStepInv == AmdsInv /\ [EitherNext]_<<session, vars, amdsAll>> => AmdsInv'
<1> SUFFICES ASSUME AmdsInv, [EitherNext]_<<session, vars, amdsAll>> PROVE AmdsInv'
  OBVIOUS
<1>1. CASE UNCHANGED <<amds!amdsVars, amds_trigger, amds_done_ff>>
  BY <1>1 DEF AmdsInv, LineInv, Quiet, Waiting, Receives, FreshData, amds!Done, amds!amdsVars
<1>2. CASE amds!Clock
  BY <1>2, AmdsClockInv
<1>3. CASE amds!Enable \/ amds!Disable
  BY <1>1, <1>3 DEF amds!Enable, amds!Disable
<1>4. CASE UNCHANGED amdsAll
  BY <1>1, <1>4 DEF amdsAll, amds!amdsVars
<1> QED BY <1>2, <1>3, <1>4 DEF EitherNext, amds!Next

(***************************************************************************)
(* A channel that an AMDS interface marks valid has both its bytes from    *)
(* the last transmission of its line, however many lines, channels and     *)
(* damaged bytes there are and whenever a line gives up.                   *)
(***************************************************************************)
THEOREM AmdsDataIsFresh == EitherSpec => []ValidDataIsFresh
<1>1. AmdsInv => ValidDataIsFresh
  BY DEF AmdsInv, FreshData, ValidDataIsFresh, amds!ValidDataIsFresh, amds!Published
<1> QED BY <1>1, AmdsInitInv, AmdsStepInv, PTL DEF EitherSpec

(***************************************************************************)
(* Every step of an AMDS interface is one that the timing manager expects  *)
(* of a sensor: done falls only with a trigger while it is enabled, and    *)
(* then in the very next clock.                                            *)
(***************************************************************************)
SensorStep == amds!TimingManagerFace!Clock \/ amds!TimingManagerFace!Configure

LEMMA AmdsClockIsSensors == amds!Clock => amds!TimingManagerFace!Clock
<1> SUFFICES ASSUME amds!Clock PROVE amds!TimingManagerFace!Clock
  OBVIOUS
<1> DEFINE triggered == amds_trigger /\ amds_enable
<1>1. \A l \in Lines : done_flop'[l] = amds!DoneFlopNext(l, triggered)
  BY DEF amds!Clock, amds!AmdsClock
<1>2. triggered => amds!Done' = FALSE
  <2>1. PICK l \in Lines : TRUE
    BY InstanceAssumption DEF amds!AmdsAssumption
  <2>2. triggered => ~done_flop'[l]
    BY <1>1, <2>1 DEF amds!DoneFlopNext
  <2> QED BY <2>1, <2>2 DEF amds!Done
<1>3. ~triggered /\ amds!Done => amds!Done'
  <2>1. ~triggered /\ amds!Done => \A l \in Lines : done_flop'[l]
    BY <1>1 DEF amds!Done, amds!DoneFlopNext
  <2> QED BY <2>1 DEF amds!Done
<1>4. amds!Done' \in IF triggered THEN {FALSE} ELSE {amds!Done, TRUE}
  <2>1. amds!Done \in BOOLEAN /\ amds!Done' \in BOOLEAN
    BY DEF amds!Done
  <2> QED BY <1>2, <1>3, <2>1
<1>5. amds_trigger' \in BOOLEAN /\ UNCHANGED <<amds_enable, amds_withdrawn>>
  BY DEF amds!Clock
<1> QED BY <1>4, <1>5 DEF amds!TimingManagerFace!Clock, amds!TimingManagerFace!SensorClock

THEOREM AmdsIsASensor ==
  EitherSpec => /\ amds!TimingManagerFace!Init
                /\ [][SensorStep]_<<amds_trigger, amds_enable, amds!Done, amds_withdrawn>>
<1> DEFINE face == <<amds_trigger, amds_enable, amds!Done, amds_withdrawn>>
           Flags == amds_enable \in BOOLEAN /\ amds_withdrawn \in BOOLEAN
<1>1. Either => amds!TimingManagerFace!Init /\ Flags
  BY DEF Either, amds!Init, amds!TimingManagerFace!Init
<1>2. Flags /\ [EitherNext]_<<session, vars, amdsAll>> => Flags' /\ [SensorStep]_face
  <2> SUFFICES ASSUME Flags, [EitherNext]_<<session, vars, amdsAll>>
               PROVE  Flags' /\ [SensorStep]_face
    OBVIOUS
  <2>1. CASE UNCHANGED amdsAll
    BY <2>1 DEF amdsAll, amds!Done
  <2>2. CASE amds!Clock
    BY <2>2, AmdsClockIsSensors DEF SensorStep, amds!Clock
  <2>3. CASE amds!Enable \/ amds!Disable
    <3>1. UNCHANGED <<amds_trigger, done_flop>> /\ amds_enable' \in BOOLEAN
      BY <2>3 DEF amds!Enable, amds!Disable, amds!amdsVars
    <3>2. amds!TimingManagerFace!Withdraw(amds_enable') /\ amds_withdrawn' \in BOOLEAN
      BY <2>3 DEF amds!Enable, amds!Disable, amds!TimingManagerFace!Withdraw
    <3>3. UNCHANGED amds!Done
      BY <3>1 DEF amds!Done
    <3> QED BY <3>1, <3>2, <3>3 DEF SensorStep, amds!TimingManagerFace!Configure
  <2> QED BY <2>1, <2>2, <2>3 DEF EitherNext, amds!Next
<1> QED BY <1>1, <1>2, PTL DEF EitherSpec
=============================================================================
