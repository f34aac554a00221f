-------------------------------- MODULE Amds --------------------------------
(***************************************************************************)
(* The AMDS interface (amdc_amds_v1_0_S00_AXI.v): after a trigger it waits *)
(* for the first falling edge of each data line, starts the receiver of    *)
(* the line, and is done when both receivers were done or gave up.         *)
(*                                                                         *)
(* answer is external: what the AMDS does with a line after the trigger.   *)
(* Its packets follow in the order of the channels; a byte may be damaged, *)
(* and the line may fall silent at any point.                              *)
(***************************************************************************)
EXTENDS AdcUartRx

CONSTANTS Lines,        \* data lines
          Enabled,      \* line -> channels enabled in slv_reg30
          FeTimeout,    \* 2000 clocks
          MaxDamaged    \* bound on the damaged bytes of a reception

(* Of the constants: every module that instantiates this one assumes it.   *)
AmdsAssumption ==
  /\ Lines # {} /\ Enabled \in [Lines -> SUBSET Channels]
  /\ FeTimeout \in Nat /\ MaxDamaged \in Nat

VARIABLES
  waiting_for_first_fe, trigger_to_fe_timer, start_rx, done_flop,   \* per line
  line,            \* per line: registers of its adc_uart_rx
  adc_dout,        \* per line and channel: the two bytes of the data register
  ch_valid_reg,    \* per line: channels marked valid
  answer,          \* per line: bytes sent of the answer to the last trigger
  damaged,         \* per line: damaged bytes of the reception
  late             \* history: the answer began when the wait for it had ended

amdsVars == <<waiting_for_first_fe, trigger_to_fe_timer, start_rx, done_flop, line,
              adc_dout, ch_valid_reg, answer, damaged, late>>

Expected == 100          \* of answer: not begun
Silent == 3 * Cardinality(Channels)

AmdsReset ==
  /\ waiting_for_first_fe = [l \in Lines |-> FALSE]
  /\ trigger_to_fe_timer = [l \in Lines |-> 0]
  /\ start_rx = [l \in Lines |-> FALSE]
  /\ done_flop = [l \in Lines |-> TRUE]
  /\ line = [l \in Lines |-> ResetLine]
  /\ adc_dout = [l \in Lines |-> [c \in Channels |-> [MSB |-> Old, LSB |-> Old]]]
  /\ ch_valid_reg = [l \in Lines |-> {}]
  /\ answer = [l \in Lines |-> Silent]
  /\ damaged = [l \in Lines |-> 0]
  /\ late = [l \in Lines |-> FALSE]

Done == \A l \in Lines : done_flop[l]

(* A line without channels counts as having its edge all the time. *)
FallingEdge(l, began) == l \in began \/ Enabled[l] = {}

TimedOut(l) == trigger_to_fe_timer[l] > FeTimeout

WaitingNext(l, enabled_trigger, enable, began) ==
  CASE ~enable -> FALSE
    [] enable /\ Done /\ enabled_trigger -> TRUE
    [] OTHER -> waiting_for_first_fe[l] /\ ~FallingEdge(l, began) /\ ~TimedOut(l)

TimerNext(l) == IF waiting_for_first_fe[l] THEN trigger_to_fe_timer[l] + 1 ELSE 0

DoneWithoutTimeout(l, enabled_trigger) ==  \* mutant: no answer, no done
  ~enabled_trigger /\ (done_flop[l] \/ AssertDone(line[l], Enabled[l]))
DoneFlopNext(l, enabled_trigger) ==
  ~enabled_trigger /\ (done_flop[l] \/ AssertDone(line[l], Enabled[l]) \/ TimedOut(l))

(***************************************************************************)
(* What a byte receiver that listens has after the next clock: nothing     *)
(* yet, no start bit in time, or the next byte.  A header may be damaged   *)
(* so that the parity still fits; a data byte may look like a header.      *)
(***************************************************************************)
Listening(l) == line[l].uart = "listening"
Nothing == [uart |-> "listening", data |-> NoByte]
NoStartBit == [uart |-> "timed_out", data |-> NoByte]
Corrupt == [uart |-> "corrupt", data |-> NoByte]
Valid(b) == [uart |-> "valid", data |-> b]

Intact(l) ==        \* as a header, a data byte may be any number
  LET c == answer[l] \div 3
      numbers == IF answer[l] % 3 = 0 THEN {c}
                 ELSE IF line[l].state = "WAIT_FOR_HEADER" THEN Numbers ELSE {NoPacket}
  IN  {Valid([number |-> n, from |-> c]) : n \in numbers}
Damaged(l) == {Corrupt} \cup IF answer[l] % 3 = 0
                             THEN {Valid([number |-> NoPacket, from |-> answer[l] \div 3])} ELSE {}
OutcomesOf(l) ==
  {NoStartBit} \cup IF answer[l] >= Silent THEN {}
                    ELSE Intact(l) \cup IF damaged[l] < MaxDamaged THEN Damaged(l) ELSE {}

LineClock(l, outcome) ==
  IF Listening(l) THEN [line[l] EXCEPT !.uart = outcome.uart, !.data = outcome.data]
  ELSE LineNext(line[l], start_rx[l], Enabled[l])

AnswerNext(l, triggered, began, outcome) ==
  IF triggered /\ Enabled[l] # {} THEN Expected
  ELSE IF l \in began THEN 0
  ELSE IF outcome.uart \in {"valid", "corrupt"} THEN answer[l] + 1
  ELSE IF outcome.uart = "timed_out" THEN Silent
  ELSE answer[l]

DamagedNext(l, outcome) ==
  IF line[l].state = "IDLE" THEN 0 ELSE IF outcome \in Damaged(l) THEN damaged[l] + 1 ELSE damaged[l]

(* The data registers follow the receiver while it is done. *)
Data(r) == [c \in Channels |-> [MSB |-> r.MSB[c], LSB |-> r.LSB[c]]]
Latched(l) == [c \in Channels |-> IF line[l].adc_uart_done /\ c \in Enabled[l]
                                  THEN Data(line[l])[c] ELSE adc_dout[l][c]]

LateNext(l, began) ==
  \/ /\ TimedOut(l) /\ Enabled[l] # {}
     /\ start_rx[l] \/ (waiting_for_first_fe[l] /\ FallingEdge(l, began))
  \/ late[l] /\ (waiting_for_first_fe[l] \/ start_rx[l] \/ line[l].state # "IDLE")

(* Of the byte receivers, the lines that do not listen having no choice.   *)
Outcomes ==
  LET listening == {l \in Lines : Listening(l)}
      may == UNION {OutcomesOf(l) : l \in listening}
  IN  {[l \in Lines |-> IF l \in listening THEN o[l] ELSE Nothing] :
       o \in {f \in [listening -> may] : \A l \in listening : f[l] \in OutcomesOf(l)}}

AmdsClock(trigger, enable) ==
  \E began \in SUBSET {l \in Lines : answer[l] = Expected}, outcome \in Outcomes :
    LET enabled_trigger == trigger /\ enable
    IN  /\ waiting_for_first_fe' =
             [l \in Lines |-> WaitingNext(l, enabled_trigger, enable, began)]
        /\ trigger_to_fe_timer' = [l \in Lines |-> TimerNext(l)]
        /\ start_rx' = [l \in Lines |-> waiting_for_first_fe[l] /\ FallingEdge(l, began)]
        /\ done_flop' = [l \in Lines |-> DoneFlopNext(l, enabled_trigger)]
        /\ line' = [l \in Lines |-> LineClock(l, outcome[l])]
        /\ adc_dout' = [l \in Lines |-> Latched(l)]
        /\ ch_valid_reg' = IF Done THEN [l \in Lines |-> line[l].is_dout_valid] ELSE ch_valid_reg
        /\ answer' = [l \in Lines |-> AnswerNext(l, enabled_trigger, began, outcome[l])]
        /\ damaged' = [l \in Lines |-> DamagedNext(l, outcome[l])]
        /\ late' = [l \in Lines |-> LateNext(l, began)]
=============================================================================
