------------------------------- MODULE MCIcc -------------------------------
(* What goes out of CPU1: a channel (a ring of four cells, and counts that *)
(* wrap at eight), the two rings of responses, and a log stream.  A        *)
(* session is about one of them.                                           *)
EXTENDS Icc

CONSTANTS
  OUTPUT_BUFFER_LENGTH, MaxText,                             \* of the UART output
  BUFFER_LENGTH, ChannelSize, MAX_NUM_BYTES_TO_TRY, MaxResponse,   \* of the responses
  MaxOwed,                                                   \* of either
  Header, Middle, Footer, StreamSize, SndBuf, MaxPackets     \* of the log stream

VARIABLES
  session,
  output_buffer, output_idx, print_idx, print_amount, unprinted,
  send_buffer, idx_writing, idx_reading, num_in_buffer, num_sent, channel0, unsent,
  packet, at, sampled, channel1, tcp, buffer, plotted, truncated

serialAll == <<output_buffer, output_idx, print_idx, print_amount, unprinted>>
icctxAll == <<send_buffer, idx_writing, idx_reading, num_in_buffer, num_sent, channel0, unsent>>
streamAll == <<packet, at, sampled, channel1, tcp, buffer, plotted, truncated>>

serial == INSTANCE SerialOut
            WITH owed <- unprinted
icctx == INSTANCE IccTx
           WITH owed <- unsent, channel <- channel0
stream == INSTANCE LogStream
            WITH ChannelSize <- StreamSize, channel <- channel1

ASSUME InstancesAssumption ==
  serial!SerialAssumption /\ icctx!IccTxAssumption /\ stream!LogStreamAssumption

Either == /\ Init /\ serial!SerialInit /\ icctx!IccTxInit /\ stream!StreamInit
          /\ session \in {"channel", "serial", "icc_tx", "stream"}

EitherNext ==
  \/ session = "channel" /\ Next /\ UNCHANGED <<session, serialAll, icctxAll, streamAll>>
  \/ session = "serial" /\ serial!SerialNext /\ UNCHANGED <<session, vars, icctxAll, streamAll>>
  \/ session = "icc_tx" /\ icctx!IccTxNext /\ UNCHANGED <<session, vars, serialAll, streamAll>>
  \/ session = "stream" /\ stream!StreamNext /\ UNCHANGED <<session, vars, serialAll, icctxAll>>

EitherSpec == /\ Either /\ [][EitherNext]_<<session, vars, serialAll, icctxAll, streamAll>>
              /\ WF_vars(session = "channel" /\ Consume)

(* What CPU1 prints, and what it answers on the network, comes out in order. *)
OutputsInOrder == serial!PrintsInOrder /\ icctx!RespondsInOrder

PlotsWhatWasSampled == stream!PlotsWhatWasSampled
=============================================================================
