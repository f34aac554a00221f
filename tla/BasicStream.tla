---------------------------- MODULE BasicStream ----------------------------
(***************************************************************************)
(* Logging and streaming of the legacy firmware (sdk/basic): the interrupt *)
(* samples into the logs (Log.c, prog_timer.c), hosts set them up, start,  *)
(* stop and read them with commands, and one host at a time has their      *)
(* contents streamed (commands.c), over lwIP (lwip_glue.c, main.c).        *)
(*                                                                         *)
(* The main loop is sequential; what it still has to do of a command or of *)
(* a packet is the sequence todo, and the interrupt may come between any   *)
(* two steps.  lwIP and the hosts are external: connections come, send a   *)
(* command per segment, acknowledge, close or break in any order.          *)
(***************************************************************************)
EXTENDS BasicLog, FiniteSets

CONSTANTS
  N,             \* MAX_LOG_VARS, 14
  Variables,     \* what hosts let be logged
  Modes,         \* the settings they ask for
  Packet,        \* samples in a packet, what LFS and LFR ask for
  Half,          \* samples that make it worth to send another: MAX_SEND_PACKET_SIZE / 4
  Pcb,           \* lwIP's control blocks
  MAX_BASE_SOCKETS,
  SndBuf,        \* packets and answers that the send buffer holds
  MaxBurst,      \* interrupts while the main loop works on a command or a packet
  MaxTicks, MaxCommands, MaxConnections    \* bounds

ASSUME BasicStreamAssumption ==
  /\ N \in Nat \ {0} /\ Packet \in Nat \ {0} /\ MaxBurst \in Nat /\ SndBuf \in Nat
  /\ Modes \subseteq SUBSET {PREVENT_OVERRUN, RUN_ONCE}
  /\ NULL \notin Pcb \cup Variables

Log == 0 .. N - 1

VARIABLES
  logs,        \* TheLog
  tick,        \* interrupts so far
  todo,        \* what the main loop has to do before it looks for work again
  rd,          \* locals of the read in progress
  burst,       \* interrupts since the main loop looked for work
  stream,      \* StreamFIFOComm, bPrimeStreamFIFO, StreamFIFO_SqnNum
  net,         \* slots of EthComm; per pcb: connection, packets not acknowledged
  count,       \* commands and connections so far
  hist         \* history: see the properties

streamVars == <<logs, tick, todo, rd, burst, stream, net, count, hist>>

NoRead == [log |-> 0, length |-> 0, in |-> 0, out |-> 0, data |-> << >>, status |-> 0, flags |-> FALSE, sent |-> FALSE]
Unheard == [last |-> NoSample, gap |-> FALSE, warned |-> FALSE]

StreamInit ==
  /\ logs = [i \in Log |-> EmptyLog]
  /\ tick = 0 /\ todo = << >> /\ rd = NoRead /\ burst = 0
  /\ stream = [comm |-> NULL, prime |-> FALSE, sqn |-> 0]
  /\ net = [slots |-> [s \in 1 .. MAX_BASE_SOCKETS |-> NULL],
            conn |-> [p \in Pcb |-> 0], flight |-> [p \in Pcb |-> 0]]
  /\ count = [commands |-> 0, connections |-> 0]
  /\ hist = [asker |-> 0, orphan |-> FALSE, heard |-> [i \in Log |-> Unheard], next |-> 0,
             raced |-> [i \in Log |-> FALSE], sentTo |-> 0]

-----------------------------------------------------------------------------
(* TimerIntrHandler.                                                       *)

Tick ==
  /\ tick < MaxTicks
  /\ todo # << >> => burst < MaxBurst
  /\ tick' = tick + 1
  /\ burst' = IF todo = << >> THEN 0 ELSE burst + 1
  /\ logs' = [i \in Log |-> DoLogging(logs[i], tick + 1)]
  /\ UNCHANGED <<todo, rd, stream, net, count, hist>>

-----------------------------------------------------------------------------
(* lwIP's callbacks.                                                       *)

Idle == todo = << >>
Opened(p) == net.conn[p] # 0
HasSlot(p) == \E s \in DOMAIN net.slots : net.slots[s] = p

get_tcpip_comm_data(p) == HasSlot(p)

put_tcpip_comm_data(p) ==
  LET usable == {s \in DOMAIN net.slots : net.slots[s] \in {NULL, p}}
  IN  IF usable = {} THEN net.slots
      ELSE [net.slots EXCEPT ![CHOOSE s \in usable : \A u \in usable : s <= u] = p]

remove_tcpip_comm_data(p) ==
  LET used == {s \in DOMAIN net.slots : net.slots[s] = p}
  IN  IF used = {} THEN net.slots
      ELSE [net.slots EXCEPT ![CHOOSE s \in used : \A u \in used : s <= u] = NULL]

accept_callback(p) ==
  /\ Idle /\ ~Opened(p) /\ count.connections < MaxConnections
  /\ count' = [count EXCEPT !.connections = @ + 1]
  /\ net' = [net EXCEPT !.slots = put_tcpip_comm_data(p), !.conn[p] = count.connections + 1, !.flight[p] = 0]
  /\ UNCHANGED <<logs, tick, todo, rd, burst, stream, hist>>

Gone(p) == [net EXCEPT !.slots = remove_tcpip_comm_data(p), !.conn[p] = 0, !.flight[p] = 0]

(* The host closed, or sent something on a connection without a slot.      *)
CloseInReceive(p) ==
  /\ Idle /\ Opened(p)
  /\ net' = Gone(p)
  /\ hist' = [hist EXCEPT !.orphan = @ \/ stream.comm = p]
  /\ UNCHANGED <<logs, tick, todo, rd, burst, stream, count>>

StreamStopped(p) == [stream EXCEPT !.comm = IF @ = p THEN NULL ELSE @]

tcpip_disconnect_callback(p) ==
  /\ Idle /\ Opened(p)
  /\ net' = Gone(p)
  /\ stream' = StreamStopped(p)
  /\ UNCHANGED <<logs, tick, todo, rd, burst, count, hist>>

(* ReloadStreamFIFO: room, pick, then a read, then send.                   *)
Reload == <<[do |-> "room"]>>
Reading == <<[do |-> "begin"], [do |-> "copy"], [do |-> "release"], [do |-> "flags"], [do |-> "clear"]>>

sent_callback(p) ==
  /\ Idle /\ Opened(p) /\ net.flight[p] > 0
  /\ net' = [net EXCEPT !.flight[p] = @ - 1]
  /\ todo' = IF stream.comm = p THEN Reload ELSE << >>
  /\ rd' = NoRead
  /\ burst' = 0
  /\ UNCHANGED <<logs, tick, stream, count, hist>>

(* The main loop, if bPrimeStreamFIFO.                                     *)
Prime ==
  /\ Idle /\ stream.prime /\ stream.comm # NULL
  /\ todo' = Reload
  /\ rd' = NoRead
  /\ burst' = 0
  /\ UNCHANGED <<logs, tick, stream, net, count, hist>>

-----------------------------------------------------------------------------
(* Commands, from a connection or (NULL) from the UART.                    *)

From == {p \in Pcb : Opened(p) /\ get_tcpip_comm_data(p)} \cup {NULL}

Command(comm, ops) ==
  /\ Idle /\ comm \in From /\ count.commands < MaxCommands
  /\ count' = [count EXCEPT !.commands = @ + 1]
  /\ todo' = ops \o <<[do |-> "reply", comm |-> comm]>>
  /\ burst' = 0

Each(op) == [k \in 1 .. N |-> [do |-> op, log |-> k - 1]]

CmdLM(comm, i, variable, settings) ==
  /\ Command(comm, [k \in 1 .. 6 |-> [do |-> "store", what |-> SetupLogVariable(i, variable, settings)[k]]])
  /\ hist' = [hist EXCEPT !.heard[i] = Unheard, !.raced[i] = logs[i].LogStatus = "logging"]
  /\ UNCHANGED <<logs, tick, rd, stream, net>>

CmdLS(comm) == Command(comm, Each("start")) /\ UNCHANGED <<logs, tick, rd, stream, net, hist>>

CmdLFS(comm) ==
  /\ Command(comm, Each("start") \o <<[do |-> "stream", comm |-> comm]>>)
  /\ UNCHANGED <<logs, tick, rd, stream, net, hist>>

CmdLFH(comm) ==
  /\ Command(comm, Each("stop"))
  /\ stream' = [stream EXCEPT !.comm = NULL, !.prime = FALSE]
  /\ UNCHANGED <<logs, tick, rd, net, hist>>

(* A log that is neither done nor logging answers ERROR, and still loses   *)
(* its flags.                                                              *)
CmdLFR(comm, i) ==
  /\ Command(comm, IF Readable(logs[i]) THEN Reading ELSE <<[do |-> "flags"], [do |-> "clear"]>>)
  /\ rd' = [NoRead EXCEPT !.log = i]
  /\ hist' = [hist EXCEPT !.heard[i].warned = TRUE]
  /\ UNCHANGED <<logs, tick, stream, net>>

-----------------------------------------------------------------------------
(* The steps of the main loop.                                             *)

Do(op) == todo # << >> /\ Head(todo).do = op
Then(ops) == todo' = ops \o Tail(todo)

Store ==
  /\ Do("store")
  /\ LET s == Head(todo).what IN logs' = [logs EXCEPT ![s[1]][s[2]] = s[3]]
  /\ Then(<< >>)
  /\ UNCHANGED <<tick, rd, burst, stream, net, count, hist>>

StartOrStop ==
  /\ Do("start") \/ Do("stop")
  /\ LET i == Head(todo).log
     IN  logs' = [logs EXCEPT ![i] = IF Do("start") THEN StartLogging(@) ELSE StopLogging(@)]
  /\ Then(<< >>)
  /\ UNCHANGED <<tick, rd, burst, stream, net, count, hist>>

(* The log lost samples after the oldest that waits: the flag may have     *)
(* told so to whom read before.                                            *)
Incomplete(log, now) ==
  LET n == LogDataAvail(log)
      waits == Copied(log, log.OutPos, n)
  IN  \/ \E k \in 1 .. n - 1 : waits[k + 1].at # waits[k].at + 1
      \/ n > 0 /\ log.LogStatus = "logging" /\ waits[n].at # now

(* The end of CmdLFS: the number of samples it asks for is valid.          *)
StartStream ==
  /\ Do("stream")
  /\ LET comm == Head(todo).comm
     IN  /\ stream' = [comm |-> comm, prime |-> TRUE, sqn |-> 1]
         /\ hist' = [hist EXCEPT !.asker = IF comm = NULL THEN 0 ELSE net.conn[comm], !.orphan = FALSE,
                                 !.heard = [i \in Log |-> [Unheard EXCEPT !.warned = Incomplete(logs[i], tick)]],
                                 !.next = 1, !.sentTo = 0]
  /\ Then(<< >>)
  /\ UNCHANGED <<logs, tick, rd, burst, net, count>>

(* What tcp_sndbuf says; of a control block that lwIP has freed, anything. *)
Sendable == IF Opened(stream.comm) THEN {SndBuf - net.flight[stream.comm]} ELSE 0 .. SndBuf

(* uiMaxLen: when less than 64 bytes are left it underflows, a read is     *)
(* made and cannot be sent; when nothing but the header fits, it is 0.     *)
Room ==
  /\ Do("room")
  /\ \/ todo' = <<[do |-> "pick"]>>
     \/ 0 \in Sendable /\ todo' = <<[do |-> "end"]>>
  /\ UNCHANGED <<logs, tick, rd, burst, stream, net, count, hist>>

MostFull == CHOOSE i \in Log : /\ \A j \in Log : LogDataAvail(logs[j]) <= LogDataAvail(logs[i])
                               /\ \A j \in 0 .. i - 1 : LogDataAvail(logs[j]) < LogDataAvail(logs[i])
DetermineMostFullLog == LogDataAvail(logs[MostFull])

(* ReadFromMostFullLog; the flags of log 0 are read if all are empty.      *)
Pick ==
  /\ Do("pick")
  /\ IF DetermineMostFullLog = 0 \/ ~Readable(logs[MostFull])
     THEN /\ todo' = <<[do |-> "flags"], [do |-> "clear"], [do |-> "end"]>>
          /\ rd' = [rd EXCEPT !.log = IF DetermineMostFullLog = 0 THEN 0 ELSE MostFull, !.status = 0]
     ELSE /\ todo' = Reading \o <<[do |-> "send"]>>
          /\ rd' = [rd EXCEPT !.log = MostFull]
  /\ UNCHANGED <<logs, tick, burst, stream, net, count, hist>>

ReadBegin ==
  /\ Do("begin")
  /\ rd' = [rd EXCEPT !.length = ReadLength(logs[rd.log], Packet),
                      !.in = logs[rd.log].InPos, !.out = logs[rd.log].OutPos]
  /\ Then(<< >>)
  /\ UNCHANGED <<logs, tick, burst, stream, net, count, hist>>

ReadCopy ==
  /\ Do("copy")
  /\ rd' = [rd EXCEPT !.data = Copied(logs[rd.log], rd.out, rd.length), !.status = rd.length]
  /\ Then(<< >>)
  /\ UNCHANGED <<logs, tick, burst, stream, net, count, hist>>

ReadRelease ==
  /\ Do("release")
  /\ logs' = [logs EXCEPT ![rd.log].OutPos = OutPosNext(rd.out, rd.in, rd.length)]
  /\ Then(<< >>)
  /\ UNCHANGED <<tick, rd, burst, stream, net, count, hist>>

ReadLogFlags ==
  \/ /\ Do("flags")
     /\ rd' = [rd EXCEPT !.flags = logs[rd.log].Flags]
     /\ Then(<< >>)
     /\ UNCHANGED <<logs, tick, burst, stream, net, count, hist>>
  \/ /\ Do("clear")
     /\ logs' = [logs EXCEPT ![rd.log].Flags = FALSE]
     /\ Then(<< >>)
     /\ UNCHANGED <<tick, rd, burst, stream, net, count, hist>>

(* What a host hears of a log: whether samples are missing, and whether it *)
(* was warned by the flag.                                                 *)
Heard(h, data, flags) ==
  LET w == [h EXCEPT !.warned = @ \/ flags]
      follows(a, b) == a.var = NULL \/ b.at = a.at + 1
  IN  [w EXCEPT !.last = data[Len(data)],
                !.gap = @ \/ ~follows(h.last, data[1]) \/ \E k \in 1 .. Len(data) - 1 : ~follows(data[k], data[k + 1])]

(* The packet is sent with its number, unless the buffer is full; then the *)
(* difference with its length underflows too, and there is "room" for more.*)
NumberSent(sqn, sent) == IF sent THEN sqn + 1 ELSE sqn                \* mutant
NumberNext(sqn, sent) == sqn + 1

Send ==
  /\ Do("send") /\ rd.length > 0
  /\ \E space \in Sendable :
       LET sent == space > 0 /\ Opened(stream.comm)
       IN  /\ stream' = [stream EXCEPT !.sqn = NumberNext(@, sent)]
           /\ rd' = [rd EXCEPT !.sent = @ \/ sent]
           /\ net' = IF sent THEN [net EXCEPT !.flight[stream.comm] = @ + 1] ELSE net
           /\ hist' = IF ~sent THEN hist
                      ELSE [hist EXCEPT
                        !.heard = [i \in Log |->
                            LET h == [hist.heard[i] EXCEPT !.warned = @ \/ hist.next # stream.sqn]
                            IN  IF i = rd.log THEN Heard(h, rd.data, rd.flags) ELSE h],
                        !.next = stream.sqn + 1, !.sentTo = net.conn[stream.comm]]
           /\ todo' = IF space # 1 /\ DetermineMostFullLog >= Half THEN Reload ELSE <<[do |-> "end"]>>
  /\ UNCHANGED <<logs, tick, burst, count>>

(* Both callers of ReloadStreamFIFO leave it to the main loop to go on,    *)
(* unless something was sent.                                              *)
PrimeOnlyCleared(prime, sent) == prime /\ ~sent                       \* mutant
PrimeNext(prime, sent) == ~sent

ReloadEnd ==
  /\ Do("end")
  /\ stream' = [stream EXCEPT !.prime = PrimeNext(@, rd.sent)]
  /\ todo' = << >>
  /\ rd' = NoRead
  /\ UNCHANGED <<logs, tick, burst, net, count, hist>>

(* An answer for which there is no room is dropped.                        *)
Reply ==
  /\ Do("reply")
  /\ LET comm == Head(todo).comm
     IN  net' = IF comm = NULL \/ net.flight[comm] = SndBuf THEN net ELSE [net EXCEPT !.flight[comm] = @ + 1]
  /\ todo' = << >>
  /\ rd' = NoRead
  /\ UNCHANGED <<logs, tick, burst, stream, count, hist>>

MainStep ==
  Store \/ StartOrStop \/ StartStream \/ Room \/ Pick \/ ReadBegin \/ ReadCopy \/ ReadRelease \/ ReadLogFlags
  \/ Send \/ ReloadEnd \/ Reply

CommandParser ==
  \E comm \in From :
    \/ \E i \in Log : CmdLFR(comm, i) \/ \E v \in Variables, s \in Modes : CmdLM(comm, i, v, s)
    \/ CmdLS(comm) \/ CmdLFS(comm) \/ CmdLFH(comm)

Lwip == \E p \in Pcb : accept_callback(p) \/ CloseInReceive(p) \/ tcpip_disconnect_callback(p) \/ sent_callback(p)

StreamNext == Tick \/ CommandParser \/ Lwip \/ Prime \/ MainStep

StreamSpec == StreamInit /\ [][StreamNext]_streamVars

-----------------------------------------------------------------------------
(* Properties.                                                             *)

(* A host that misses samples is told: a flag said that the log ran over,  *)
(* or a packet number is missing (LFR's of others take samples, too; a log *)
(* that prevents overruns tells nothing).                                  *)
GapsShow ==
  \A i \in Log : hist.heard[i].gap /\ ~hist.raced[i] /\ PREVENT_OVERRUN \notin logs[i].Settings => hist.heard[i].warned

(***************************************************************************)
(* What waits to be read of a log are samples of the variable it was set   *)
(* up for.  When LM came while the log was logging, those of the           *)
(* interrupts between the stores of SetupLogVariable may come first, also  *)
(* of the variable before: no more than there were such interrupts.        *)
(***************************************************************************)
SamplesOfItsVariable ==
  \A i \in Log : Idle =>
    \A k \in 1 .. LogDataAvail(logs[i]) :
      \/ Copied(logs[i], logs[i].OutPos, LogDataAvail(logs[i]))[k].var = logs[i].VarToLog
      \/ hist.raced[i] /\ k <= MaxBurst

(* The stream does not stop by itself: the main loop is to go on with it,  *)
(* or an acknowledgement will.                                             *)
StreamNeverStalls ==
  Idle /\ stream.comm # NULL /\ ~hist.orphan => stream.prime \/ net.flight[stream.comm] > 0

(* Packets go to the connection that asked for them, unless it was closed  *)
(* by its host: then its control block still gets them, whosever it is.    *)
StreamsToTheAsker == hist.sentTo # 0 /\ ~hist.orphan => hist.sentTo = hist.asker

(* "if we are streaming out this port, stop the streaming" (not satisfied) *)
StreamStopsWithItsPort == hist.sentTo # 0 => hist.sentTo = hist.asker
=============================================================================
