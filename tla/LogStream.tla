----------------------------- MODULE LogStream -----------------------------
(***************************************************************************)
(* A log stream from the sample to the plot: icc_tx_log_stream (icc_tx.c)  *)
(* writes a packet byte by byte into the channel of its socket and drops   *)
(* the rest of it when the channel is full; CPU0 (icc_rx.c,                *)
(* socket_manager.c) forwards the bytes to TCP; the host                   *)
(* (AMDC_LivePlot.py) finds the packets in what it received by their       *)
(* header and footer, at any offset.                                       *)
(*                                                                         *)
(* A byte is where it stands in which packet.  Of its value the host tells *)
(* apart header, footer and the rest: the fields between are taken not to  *)
(* look like header or footer.  Words are of Header, Middle and Footer     *)
(* bytes: 4, 12 and 4 in the code.                                         *)
(***************************************************************************)
EXTENDS Integers, Sequences, FiniteSets

CONSTANTS Header, Middle, Footer,
          ChannelSize,       \* ICC_BUFFER_SIZE
          SndBuf,            \* what TCP holds before it is taken over the network
          MaxPackets         \* bound

LogStreamAssumption ==
  /\ Header \in Nat \ {0} /\ Middle \in Nat /\ Footer \in Nat \ {0}
  /\ ChannelSize \in Nat \ {0} /\ SndBuf \in Nat \ {0} /\ MaxPackets \in Nat

PacketLen == Header + Middle + Footer

VARIABLES
  packet,      \* number of the packet that is, or was, written last
  at,          \* bytes of it that were written; 0 between packets
  sampled,     \* history: packets that were written whole
  channel,     \* CH1 .. CH4: one of them
  tcp,         \* bytes on their way to the host
  buffer,      \* self.buffer of the host's parser
  plotted,     \* the packets the parser returned, in their order
  truncated    \* history: CPU0 found no room in TCP

streamVars == <<packet, at, sampled, channel, tcp, buffer, plotted, truncated>>

StreamInit ==
  /\ packet = 0 /\ at = 0 /\ sampled = << >>
  /\ channel = << >> /\ tcp = << >> /\ buffer = << >> /\ plotted = << >>
  /\ truncated = FALSE

(* The log task has a sample to stream. *)
icc_tx_log_stream ==
  /\ at = 0 /\ packet < MaxPackets
  /\ packet' = packet + 1 /\ at' = 1
  /\ UNCHANGED <<sampled, channel, tcp, buffer, plotted, truncated>>

IsBufferFull == Len(channel) = ChannelSize

(* At a full channel: the next byte, if there is one. *)
AfterFullGoesOn == IF at = PacketLen THEN 0 ELSE at + 1   \* mutant: only the byte is dropped
AfterFull == 0

WriteByte ==
  /\ at > 0
  /\ IF IsBufferFull
     THEN at' = AfterFull /\ UNCHANGED <<channel, sampled>>
     ELSE /\ channel' = Append(channel, [of |-> packet, pos |-> at])
          /\ at' = IF at = PacketLen THEN 0 ELSE at + 1
          /\ sampled' = IF at = PacketLen THEN Append(sampled, packet) ELSE sampled
  /\ UNCHANGED <<packet, tcp, buffer, plotted, truncated>>

(* A byte is silently dropped when TCP has no room. *)
log_socket_send(c) ==
  IF Len(tcp) < SndBuf
  THEN tcp' = Append(tcp, c) /\ UNCHANGED truncated
  ELSE truncated' = TRUE /\ UNCHANGED tcp

(* CPU0 takes a byte and sends it. *)
_log_stream_ch ==
  /\ channel # << >>
  /\ channel' = Tail(channel)
  /\ log_socket_send(Head(channel))
  /\ UNCHANGED <<packet, at, sampled, buffer, plotted>>

(* What the parser compares: s bytes from offset i on. *)
IsHeader(b) == b.pos <= Header
IsFooter(b) == b.pos > Header + Middle
Looks(bytes, i) ==
  /\ \A k \in 1 .. Header : IsHeader(bytes[i + k])
  /\ \A k \in PacketLen - Footer + 1 .. PacketLen : IsFooter(bytes[i + k])

(* range(0, len(buffer) - s.size): the last window is left for later. *)
Offsets(bytes) == {i \in 0 .. Len(bytes) - PacketLen - 1 : Looks(bytes, i)}
(* found_idxs grows with the offset. *)
InOrder(S) == CHOOSE s \in [1 .. Cardinality(S) -> S] : \A i, j \in DOMAIN s : i < j => s[i] < s[j]
Found(bytes) == InOrder(Offsets(bytes))

(* The host reads some of the bytes that came, and the parser looks through *)
(* all it has. What it returns has the data of the window's middle.         *)
consume_bytes ==
  /\ tcp # << >>
  /\ \E n \in 1 .. Len(tcp) :
       LET bytes == buffer \o SubSeq(tcp, 1, n)
           found == Found(bytes)
           consumed_up_to == IF found = << >> THEN 0 ELSE found[Len(found)] + PacketLen
       IN  /\ tcp' = SubSeq(tcp, n + 1, Len(tcp))
           /\ buffer' = SubSeq(bytes, consumed_up_to + 1, Len(bytes))
           /\ plotted' = plotted \o [j \in 1 .. Len(found) |-> bytes[found[j] + Header + 1].of]
  /\ UNCHANGED <<packet, at, sampled, channel, truncated>>

StreamNext == icc_tx_log_stream \/ WriteByte \/ _log_stream_ch \/ consume_bytes

-----------------------------------------------------------------------------
(* What is between the log task and the plot. *)
Underway == buffer \o tcp \o channel
WindowAt(i) == SubSeq(Underway, i + 1, i + PacketLen)
IsWhole(window) == \A k \in 1 .. PacketLen : window[k] = [of |-> window[1].of, pos |-> k]

(***************************************************************************)
(* However packets were cut at a full channel, and wherever the segments   *)
(* ended: the windows that look like a packet are those of the packets     *)
(* that were written whole and are not plotted yet, in order.  So no point *)
(* of the plot mixes two samples, and none that was written is missed.     *)
(* Nothing is said once CPU0 dropped bytes for want of room in TCP: it     *)
(* may drop so many that a time and a value of two samples come together.  *)
(***************************************************************************)
PlotsWhatWasSampled ==
  ~truncated =>
    LET offsets == {i \in 0 .. Len(Underway) - PacketLen : Looks(Underway, i)}
        found == InOrder(offsets)
    IN  /\ \A i \in offsets : IsWhole(WindowAt(i))
        /\ plotted \o [j \in 1 .. Len(found) |-> Underway[found[j] + 1].of] = sampled
=============================================================================
