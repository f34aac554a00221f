----------------------------- MODULE AdcUartRx -----------------------------
(***************************************************************************)
(* adc_uart_rx.v, the receiver of one data line of an AMDS: a state        *)
(* machine that takes packets of a header, a most and a least significant  *)
(* byte, and its registers, as a record.  The operators give what the      *)
(* registers are after a clock edge.                                       *)
(*                                                                         *)
(* A byte is known by the packet number that it would be as a header (none *)
(* if its upper half is not 9) and by the channel it belongs to.  uart is  *)
(* the byte receiver of uart_rx.v: listening once it was started, until it *)
(* has a byte that is valid or corrupt, or saw no start bit in time.       *)
(***************************************************************************)
EXTENDS Naturals, FiniteSets

CONSTANT Channels       \* packet numbers of a line

(* Of the constants: every module that instantiates this one assumes it.   *)
ChannelsAssumption == Channels \subseteq 0 .. 14

NoPacket == 15          \* reset value of current_packet
Numbers == Channels \cup {NoPacket}
Old == 15               \* history: a byte of an earlier transmission
NoByte == [number |-> NoPacket, from |-> NoPacket]

ResetLine ==
  [state |-> "IDLE", current_packet |-> NoPacket, packet_valid |-> {}, is_dout_valid |-> {},
   good |-> {}, adc_uart_done |-> TRUE,
   MSB |-> [c \in Channels |-> Old], LSB |-> [c \in Channels |-> Old],
   uart |-> "off", data |-> NoByte]

(* The byte receiver is started for the next byte, or its flags are not read again. *)
Going(r, state) == [r EXCEPT !.state = state, !.uart = "listening", !.data = NoByte]
Finished(r) == [r EXCEPT !.state = "IDLE", !.adc_uart_done = TRUE, !.uart = "off", !.data = NoByte]

(* A transmission starts: nothing that was received before counts. *)
Start(r) ==
  Going([r EXCEPT !.current_packet = NoPacket, !.packet_valid = {}, !.is_dout_valid = {},
                  !.good = {}, !.adc_uart_done = FALSE,
                  !.MSB = [c \in Channels |-> Old], !.LSB = [c \in Channels |-> Old]],
        "WAIT_FOR_HEADER")

Idle(r, start_rx, enabled) ==
  IF enabled = {} THEN [r EXCEPT !.adc_uart_done = TRUE] ELSE IF start_rx THEN Start(r) ELSE r

(* A header that is corrupt or no header leaves the packet number as it was. *)
Header(r) ==
  IF r.uart = "valid" /\ r.data.number # NoPacket
  THEN Going([r EXCEPT !.good = @ \cup {"header"}, !.current_packet = r.data.number],
             "WAIT_FOR_DATA_MSB")
  ELSE Going(r, "WAIT_FOR_DATA_MSB")

Loaded(r, field) ==
  IF r.current_packet = NoPacket THEN r
  ELSE IF field = "MSB" THEN [r EXCEPT !.MSB[r.current_packet] = r.data.from]
       ELSE [r EXCEPT !.LSB[r.current_packet] = r.data.from]

DataByte(r, field) ==
  LET took == IF r.uart = "valid" THEN [Loaded(r, field) EXCEPT !.good = @ \cup {field}] ELSE r
  IN  IF field = "MSB" THEN Going(took, "WAIT_FOR_DATA_LSB") ELSE [took EXCEPT !.state = "DONE"]

Whole(r) == r.good = {"header", "MSB", "LSB"}
AllReceived(r, enabled) == enabled \subseteq r.packet_valid \cup {r.current_packet}

(* After each packet; the helpers are cleared for the next one. *)
EndKeepingHelpers(r, enabled) ==    \* mutant: the helpers are not cleared
  LET marked == IF Whole(r) THEN [r EXCEPT !.packet_valid = @ \cup {r.current_packet},
                                           !.is_dout_valid = @ \cup ({r.current_packet} \cap enabled)]
                ELSE r
  IN  IF AllReceived(r, enabled) THEN Finished(marked) ELSE Going(marked, "WAIT_FOR_HEADER")
EndOfPacket(r, enabled) ==
  LET marked == IF Whole(r) THEN [r EXCEPT !.packet_valid = @ \cup {r.current_packet},
                                           !.is_dout_valid = @ \cup ({r.current_packet} \cap enabled)]
                ELSE r
      next == [marked EXCEPT !.good = {}]
  IN  IF AllReceived(r, enabled) THEN Finished(next) ELSE Going(next, "WAIT_FOR_HEADER")

HasByte(r) == r.uart \in {"valid", "corrupt"}
Waits(r) == r.state \in {"WAIT_FOR_HEADER", "WAIT_FOR_DATA_MSB", "WAIT_FOR_DATA_LSB"}

LineNext(r, start_rx, enabled) ==
  CASE r.state = "IDLE" -> Idle(r, start_rx, enabled)
    [] r.state = "WAIT_FOR_HEADER" /\ HasByte(r) -> Header(r)
    [] r.state = "WAIT_FOR_DATA_MSB" /\ HasByte(r) -> DataByte(r, "MSB")
    [] r.state = "WAIT_FOR_DATA_LSB" /\ HasByte(r) -> DataByte(r, "LSB")
    [] Waits(r) /\ r.uart = "timed_out" -> Finished(r)
    [] Waits(r) /\ r.uart = "listening" -> r
    [] r.state = "DONE" -> EndOfPacket(r, enabled)

(* The wire assert_done. *)
AssertDone(r, enabled) ==
  \/ r.state = "IDLE" /\ enabled = {}
  \/ Waits(r) /\ r.uart = "timed_out"
  \/ r.state = "DONE" /\ AllReceived(r, enabled)
=============================================================================
