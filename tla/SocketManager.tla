--------------------------- MODULE SocketManager ---------------------------
(***************************************************************************)
(* CPU0: the main loop, the lwIP callbacks it makes, the socket manager    *)
(* and the ends of the inter-core channels on this core.  The loop handles *)
(* network events, forwards what command sockets received to CPU1, sends   *)
(* what CPU1 answered to every command socket and the bytes of a log       *)
(* stream to the socket with the number of the stream.  CPU1 takes and     *)
(* adds bytes between any two steps.                                       *)
(*                                                                         *)
(* A byte is a record: the connection it came over, its place in what that *)
(* host sent, and its value.  Channels are the queues of BoundedFifo.      *)
(* lwIP is external: it gives a new connection a control block (pcb) that  *)
(* may be the address of an old one, and reports data, close and error.    *)
(***************************************************************************)
EXTENDS RingBuf

CONSTANTS Pcb,             \* addresses of control blocks
          NumSockets,      \* MAX_NUM_SOCKETS
          Segments,        \* what one TCP segment may hold: sequences of values
          ChannelSize,     \* ICC_BUFFER_SIZE
          SendRoom,        \* send buffer of a connection
          MaxTry,          \* MAX_NUM_BYTES_TO_TRY
          MaxConnections, MaxSegments   \* bounds of the model

Value == {"12", "34", "56", "78", "text"}

ASSUME SocketsAssumption ==
  /\ NumSockets \in Nat \ {0, 1} /\ Pcb \subseteq Nat \ {0} /\ Segments \subseteq Seq(Value)
  /\ ChannelSize \in Nat \ {0} /\ SendRoom \in Nat \ {0} /\ MaxTry \in Nat
  /\ MaxConnections \in Nat /\ MaxSegments \in Nat

NULL == 0
Sockets == 0 .. NumSockets - 1
LogSocket == 1                    \* socket of the stream of channel 1
Connections == 1 .. MaxConnections
Bytes == [conn : Connections \cup {0}, place : Nat, value : Value]
ZeroByte == [conn |-> 0, place |-> 0, value |-> "text"]

VARIABLES
  socket_list,   \* slot -> raw_socket, type and receive ring
  pcb,           \* lwIP: state and send room of a control block
  connection,    \* connections accepted so far
  cpu0,          \* where the main loop is: stage, slot i, bytes left in its loop
  commands,      \* channel 0 to CPU1
  responses,     \* channel 0 from CPU1: bytes of responses in it
  logBytes,      \* channel 1 from CPU1: bytes of a log stream in it
  segments,      \* segments received so far
  host           \* history of the connection that is open on a control block:
                 \* its number, the slot its host was told, how many of its bytes
                 \* arrived, how many of them wait and whether some could not, how
                 \* many were used to set its type, which one CPU1 took last,
                 \* whether a response byte was dropped for it

netVars == <<socket_list, pcb, connection, segments, host>>
channels == <<commands, responses, logBytes>>
vars == <<netVars, channels, cpu0>>

NewSlot == [raw_socket |-> NULL, type |-> "UNUSED", rx |-> NewRing(ZeroByte)]
NewHost == [conn |-> 0, told |-> NumSockets, arrived |-> 0, waiting |-> 0, overrun |-> FALSE,
            typed |-> 0, reached |-> 0, missed |-> FALSE]
At(stage, i, left) == [stage |-> stage, i |-> i, left |-> left]

(* The first slot of a pointer, as the loops over socket_list find it. *)
SlotsOf(p) == {i \in Sockets : socket_list[i].raw_socket = p}
SlotOf(p) == Min(SlotsOf(p))

Init == /\ socket_list = [i \in Sockets |-> NewSlot]
        /\ pcb = [p \in Pcb |-> [state |-> "free", room |-> 0]]
        /\ host = [p \in Pcb |-> NewHost]
        /\ cpu0 = At("input", 0, 0)
        /\ commands = <<>> /\ responses = 0 /\ logBytes = 0
        /\ connection = 0 /\ segments = 0

-----------------------------------------------------------------------------
(* Network events, inside xemacif_input and the TCP timers. *)

NotRemoved(p) == socket_list    \* mutant: a connection that broke is never given up
Removed(p) ==
  IF SlotsOf(p) = {} THEN socket_list
  ELSE [socket_list EXCEPT ![SlotOf(p)] =
          [raw_socket |-> NULL, type |-> "UNUSED", rx |-> Reset(@.rx)]]

(***************************************************************************)
(* accept_callback: the first slot that is free (or has this address       *)
(* already) is taken and its number sent to the host as first byte.  With  *)
(* no slot left the connection stays open, unregistered.  Addresses are    *)
(* only compared: which free one lwIP gives it is all the same.            *)
(***************************************************************************)
Accept(p) ==
  /\ cpu0.stage = "input"
  /\ pcb[p].state = "free" /\ \A q \in Pcb : pcb[q].state = "free" => p <= q
  /\ connection < MaxConnections
  /\ connection' = connection + 1
  /\ LET usable == SlotsOf(NULL) \cup SlotsOf(p)
         i == Min(usable)
         new == [NewHost EXCEPT !.conn = connection + 1]
     IN  IF usable = {}
         THEN /\ pcb' = [pcb EXCEPT ![p] = [state |-> "open", room |-> SendRoom]]
              /\ host' = [host EXCEPT ![p] = new]
              /\ UNCHANGED socket_list
         ELSE /\ pcb' = [pcb EXCEPT ![p] = [state |-> "open", room |-> SendRoom - 1]]
              /\ host' = [host EXCEPT ![p] = [new EXCEPT !.told = i]]
              /\ socket_list' = [socket_list EXCEPT ![i].raw_socket = p, ![i].type = "IDLE"]
  /\ UNCHANGED <<channels, cpu0, segments>>

(* tcp_close, tcp_recv(NULL) and socket_manager_remove of recv_callback. *)
Ended(p, state) ==
  /\ pcb' = [pcb EXCEPT ![p] = [state |-> state, room |-> 0]]
  /\ host' = [host EXCEPT ![p] = NewHost]
  /\ socket_list' = Removed(p)

(***************************************************************************)
(* recv_callback.  Data goes to the ring of the slot; a connection that    *)
(* is not registered, or that the host closed, is closed and removed.      *)
(***************************************************************************)
Recv(p, segment) ==
  /\ cpu0.stage = "input"
  /\ pcb[p].state = "open"
  /\ segments < MaxSegments
  /\ segments' = segments + 1
  /\ IF SlotsOf(p) = {} THEN Ended(p, "closing")
     ELSE LET at == host[p].arrived
              rx == socket_list[SlotOf(p)].rx
              data == [k \in 1 .. Len(segment) |->
                         [conn |-> host[p].conn, place |-> at + k, value |-> segment[k]]]
          IN  /\ socket_list' = [socket_list EXCEPT ![SlotOf(p)].rx = MemcpyInto(rx, data)]
              /\ LET waiting == host[p].waiting + Len(segment) IN
                 host' = [host EXCEPT ![p].arrived = at + Len(segment),
                                      ![p].waiting = Min({waiting, Capacity}),
                                      ![p].overrun = @ \/ waiting > Capacity]
              /\ UNCHANGED pcb
  /\ UNCHANGED <<channels, cpu0, connection>>

RecvClose(p) ==
  /\ cpu0.stage = "input"
  /\ pcb[p].state = "open"
  /\ Ended(p, "closing")
  /\ UNCHANGED <<channels, cpu0, connection, segments>>

(* lwIP drops a connection: tcpip_disconnect_callback, and the pcb is free. *)
Error(p) ==
  /\ cpu0.stage = "input"
  /\ pcb[p].state # "free"
  /\ Ended(p, "free")
  /\ UNCHANGED <<channels, cpu0, connection, segments>>

(* A closed connection ends; or the host acknowledges what it was sent. *)
ClosedOrAcked(p) ==
  /\ cpu0.stage = "input"
  /\ \/ pcb[p].state = "closing" /\ pcb' = [pcb EXCEPT ![p].state = "free"]
     \/ pcb[p].state = "open" /\ pcb' = [pcb EXCEPT ![p].room = SendRoom]
  /\ UNCHANGED <<channels, cpu0, socket_list, connection, segments, host>>

Network == \E p \in Pcb : \/ Accept(p) \/ RecvClose(p) \/ Error(p) \/ ClosedOrAcked(p)
                          \/ \E segment \in Segments : Recv(p, segment)

InputDone == /\ cpu0.stage = "input"
             /\ cpu0' = At("rx", 0, 0)
             /\ UNCHANGED <<netVars, channels>>

-----------------------------------------------------------------------------
(* socket_manager_process_rx_data: the slots in turn. *)

NextSocket == IF cpu0.i + 1 \in Sockets THEN At("rx", cpu0.i + 1, 0)
              ELSE At("responses", 0, MaxTry)

(***************************************************************************)
(* The type of an idle socket is decided by two bytes.  When only one has  *)
(* arrived none is copied (and none consumed), and the array d is read     *)
(* with whatever was in its memory before: any outcome.                    *)
(***************************************************************************)
TypesOf(rb) ==
  IF BytesUsed(rb) < 2 THEN {"IDLE", "ASCII_CMD", "LOG_VAR"}
  ELSE LET d == Oldest(rb, 2)
       IN  IF d[1].value = "12" /\ d[2].value = "34" THEN {"ASCII_CMD"}
           ELSE IF d[1].value = "56" /\ d[2].value = "78" THEN {"LOG_VAR"}
           ELSE {"IDLE"}

DecideType ==
  /\ cpu0.stage = "rx"
  /\ LET i == cpu0.i IN
     /\ socket_list[i].type = "IDLE"
     /\ BytesUsed(socket_list[i].rx) > 0
     /\ \E type \in TypesOf(socket_list[i].rx) :
          socket_list' = [socket_list EXCEPT ![i].type = type, ![i].rx = Without(@, 2)]
     /\ LET p == socket_list[i].raw_socket IN
        IF host[p].waiting < 2 THEN UNCHANGED host
        ELSE host' = [host EXCEPT ![p].waiting = @ - 2,
                                  ![p].typed = host[p].arrived - host[p].waiting + 2]
  /\ cpu0' = NextSocket
  /\ UNCHANGED <<channels, pcb, connection, segments>>

(* data_len is read once, before the loop over the bytes of the socket. *)
StartSending ==
  /\ cpu0.stage = "rx"
  /\ socket_list[cpu0.i].type = "ASCII_CMD"
  /\ BytesUsed(socket_list[cpu0.i].rx) > 0
  /\ cpu0' = At("send", cpu0.i, BytesUsed(socket_list[cpu0.i].rx))
  /\ UNCHANGED <<netVars, channels>>

StopAtUnused ==     \* mutant: return instead of going on with the next socket
  /\ cpu0.stage = "rx"
  /\ \/ BytesUsed(socket_list[cpu0.i].rx) = 0
     \/ socket_list[cpu0.i].type \in {"LOG_VAR", "UNUSED"}
  /\ cpu0' = At("responses", 0, MaxTry)
  /\ UNCHANGED <<netVars, channels>>
NothingToSend ==
  /\ cpu0.stage = "rx"
  /\ \/ BytesUsed(socket_list[cpu0.i].rx) = 0
     \/ socket_list[cpu0.i].type \in {"LOG_VAR", "UNUSED"}
  /\ cpu0' = NextSocket
  /\ UNCHANGED <<netVars, channels>>

SendDropping ==     \* mutant: the byte leaves its ring before the channel is tested
  /\ cpu0.stage = "send"
  /\ LET rx == socket_list[cpu0.i].rx IN
     /\ socket_list' = [socket_list EXCEPT ![cpu0.i].rx = Without(rx, 1)]
     /\ IF Len(commands) = ChannelSize THEN cpu0' = NextSocket /\ UNCHANGED commands
        ELSE /\ commands' = commands \o Oldest(rx, 1)
             /\ cpu0' = IF cpu0.left = 1 THEN NextSocket ELSE [cpu0 EXCEPT !.left = @ - 1]
  /\ host' = [p \in Pcb |-> IF commands' # commands /\ cpu0.i \in SlotsOf(p)
                            THEN [host[p] EXCEPT !.waiting = @ - 1] ELSE host[p]]
  /\ UNCHANGED <<pcb, connection, segments, responses, logBytes>>
SendToCPU1 ==
  /\ cpu0.stage = "send"
  /\ LET rx == socket_list[cpu0.i].rx IN
     IF Len(commands) = ChannelSize THEN cpu0' = NextSocket /\ UNCHANGED <<commands, socket_list>>
     ELSE /\ socket_list' = [socket_list EXCEPT ![cpu0.i].rx = Without(rx, 1)]
          /\ commands' = commands \o Oldest(rx, 1)
          /\ cpu0' = IF cpu0.left = 1 THEN NextSocket ELSE [cpu0 EXCEPT !.left = @ - 1]
  /\ host' = [p \in Pcb |-> IF commands' # commands /\ cpu0.i \in SlotsOf(p)
                            THEN [host[p] EXCEPT !.waiting = @ - 1] ELSE host[p]]
  /\ UNCHANGED <<pcb, connection, segments, responses, logBytes>>

-----------------------------------------------------------------------------
(* icc_rx_process and icc_rx_process_log_stream. *)

(***************************************************************************)
(* tcp_sndbuf of socket 0.  With no connection there the code reads        *)
(* through a null pointer: any value.                                      *)
(***************************************************************************)
RoomOnSocketZero ==
  IF socket_list[0].raw_socket = NULL THEN BOOLEAN
  ELSE {pcb[socket_list[0].raw_socket].room > 0}

(* Command sockets with room get the byte, the others drop it. *)
Listening(p) == \E i \in SlotsOf(p) : socket_list[i].type = "ASCII_CMD"
HasRoom(p) == pcb[p].room > 0

Broadcast ==
  /\ cpu0.stage = "responses" /\ cpu0.left > 0
  /\ responses > 0
  /\ TRUE \in RoomOnSocketZero
  /\ pcb' = [p \in Pcb |->
               [pcb[p] EXCEPT !.room = IF Listening(p) /\ HasRoom(p) THEN @ - 1 ELSE @]]
  /\ host' = [p \in Pcb |->
                [host[p] EXCEPT !.missed = @ \/ (Listening(p) /\ ~HasRoom(p))]]
  /\ responses' = responses - 1
  /\ cpu0' = [cpu0 EXCEPT !.left = @ - 1]
  /\ UNCHANGED <<socket_list, connection, segments, commands, logBytes>>

BroadcastDone == /\ cpu0.stage = "responses"
                 /\ cpu0.left = 0 \/ responses = 0 \/ FALSE \in RoomOnSocketZero
                 /\ cpu0' = At("log", LogSocket, MaxTry)
                 /\ UNCHANGED <<netVars, channels>>

(* No test for room here, and none for a connection: the byte is lost then. *)
SendLog ==
  /\ cpu0.stage = "log" /\ cpu0.left > 0
  /\ logBytes > 0
  /\ logBytes' = logBytes - 1
  /\ pcb' = [p \in Pcb |->
               [pcb[p] EXCEPT !.room = IF LogSocket \in SlotsOf(p) /\ @ > 0 THEN @ - 1 ELSE @]]
  /\ cpu0' = [cpu0 EXCEPT !.left = @ - 1]
  /\ UNCHANGED <<socket_list, connection, segments, host, commands, responses>>

LogDone == /\ cpu0.stage = "log"
           /\ cpu0.left = 0 \/ logBytes = 0
           /\ cpu0' = At("input", 0, 0)
           /\ UNCHANGED <<netVars, channels>>

-----------------------------------------------------------------------------
(* CPU1 at the other end of the channels. *)
CPU1Takes == /\ commands # <<>>
             /\ commands' = Tail(commands)
             /\ host' = [p \in Pcb |-> [host[p] EXCEPT !.reached =
                           IF Head(commands).conn = host[p].conn THEN Head(commands).place ELSE @]]
             /\ UNCHANGED <<socket_list, pcb, connection, segments, responses, logBytes, cpu0>>
CPU1Answers == /\ responses < ChannelSize
               /\ responses' = responses + 1
               /\ UNCHANGED <<netVars, commands, logBytes, cpu0>>
CPU1Streams == /\ logBytes < ChannelSize
               /\ logBytes' = logBytes + 1
               /\ UNCHANGED <<netVars, commands, responses, cpu0>>

MainLoop == \/ InputDone
            \/ DecideType \/ StartSending \/ NothingToSend \/ SendToCPU1
            \/ Broadcast \/ BroadcastDone \/ SendLog \/ LogDone

Next == MainLoop \/ Network \/ CPU1Takes \/ CPU1Answers \/ CPU1Streams

(* Both cores run on; hosts, and with them lwIP, need not do anything. *)
FairSpec == /\ Init /\ [][Next]_vars
            /\ WF_vars(MainLoop) /\ WF_vars(CPU1Takes)

-----------------------------------------------------------------------------
TypeOK ==
  /\ \A i \in Sockets : /\ socket_list[i].raw_socket \in Pcb \cup {NULL}
                        /\ socket_list[i].type \in {"UNUSED", "IDLE", "ASCII_CMD", "LOG_VAR"}
                        /\ socket_list[i].rx \in Rings(Bytes)
  /\ pcb \in [Pcb -> [state : {"free", "open", "closing"}, room : 0 .. SendRoom]]
  /\ cpu0 \in [stage : {"input", "rx", "send", "responses", "log"}, i : Sockets, left : Nat]
  /\ commands \in Seq(Bytes) /\ Len(commands) <= ChannelSize

Used == {i \in Sockets : socket_list[i].raw_socket # NULL}
HostOf(i) == host[socket_list[i].raw_socket]

(***************************************************************************)
(* A slot in use belongs to an open connection, to no other slot's, and    *)
(* has the number its host was told when it connected: the host uses that  *)
(* number to ask for log streams.  A pointer to a control block that lwIP  *)
(* has given to somebody else would be sent to, and read for room.         *)
(***************************************************************************)
SlotsMatchConnections ==
  \A i \in Used : LET p == socket_list[i].raw_socket IN
    pcb[p].state = "open" /\ SlotsOf(p) = {i} /\ host[p].told = i

(***************************************************************************)
(* The ring of a connected socket holds the bytes that arrived last over   *)
(* this connection, all there is room for and without a hole, and nothing  *)
(* of an earlier connection that had the slot.                             *)
(***************************************************************************)
RingsHoldTheLatest ==
  \A i \in Used : LET rx == Contents(socket_list[i].rx) IN
    /\ Len(rx) = HostOf(i).waiting
    /\ \A k \in DOMAIN rx : /\ rx[k].conn = HostOf(i).conn
                            /\ rx[k].place = HostOf(i).arrived - Len(rx) + k

(***************************************************************************)
(* CPU1 gets the bytes of a connection in the order they were sent in, and *)
(* none twice: from the last one it took over the channel to the ring.     *)
(* No byte after the type is missing unless the ring was overrun.          *)
(***************************************************************************)
CommandsInOrder ==
  \A i \in Used :
    LET h == HostOf(i)
        sent == commands \o Contents(socket_list[i].rx)
        ours == {k \in DOMAIN sent : sent[k].conn = h.conn}
    IN  /\ \A k \in ours : /\ sent[k].place > h.reached
                          /\ \A l \in ours : k < l => sent[k].place < sent[l].place
        /\ socket_list[i].type = "ASCII_CMD" /\ ~h.overrun =>
             {sent[k].place : k \in ours} = Max({h.reached, h.typed}) + 1 .. h.arrived

(***************************************************************************)
(* Room is tested on socket 0 only.  A host on that socket hears every     *)
(* byte of every response from the moment it became a command socket, also *)
(* when the other sockets are slower or the streams use up their room.     *)
(***************************************************************************)
SocketZeroHearsAll ==
  0 \in Used /\ socket_list[0].type = "ASCII_CMD" => ~HostOf(0).missed

(***************************************************************************)
(* Which bytes are in the rings, what becomes of responses and streams,    *)
(* and connections that come and go on control blocks used before change   *)
(* nothing of how bytes flow to CPU1: slot after slot in every pass, and   *)
(* pass after pass, although responses may be stuck behind a host on       *)
(* socket 0 that does not read.                                            *)
(***************************************************************************)
Flow == INSTANCE Forwarding
          WITH MaxLoad <- Capacity,
               type <- [i \in Sockets |-> socket_list[i].type],
               load <- [i \in Sockets |-> BytesUsed(socket_list[i].rx)],
               fill <- Len(commands),
               loop <- IF cpu0.stage \in {"rx", "send"} THEN cpu0 ELSE At("elsewhere", 0, 0)
=============================================================================
