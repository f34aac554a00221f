----------------------------- MODULE Forwarding -----------------------------
(***************************************************************************)
(* What the socket manager of CPU0 does with the bytes that hosts send to  *)
(* CPU1: how many wait in the ring of each socket, and how many are in     *)
(* channel 0.  Which bytes they are, and who sent them, is left to         *)
(* SocketManager, which implements this module; without them hosts can     *)
(* send, connect and leave for ever here.                                  *)
(***************************************************************************)
EXTENDS Integers

CONSTANTS NumSockets,   \* MAX_NUM_SOCKETS
          MaxLoad,      \* bytes that the ring of a socket holds
          ChannelSize   \* ICC_BUFFER_SIZE

(* Of the constants: every module that instantiates this one assumes it.   *)
ForwardingAssumption ==
  NumSockets \in Nat \ {0} /\ MaxLoad \in Nat /\ ChannelSize \in Nat \ {0}

Sockets == 0 .. NumSockets - 1

VARIABLES type,   \* of each slot
          load,   \* of each slot: bytes that wait in its ring
          fill,   \* bytes in channel 0
          loop    \* where the main loop is: slot i, bytes left there

vars == <<type, load, fill, loop>>

At(stage, i, left) == [stage |-> stage, i |-> i, left |-> left]
Elsewhere == At("elsewhere", 0, 0)

Init == /\ type = [i \in Sockets |-> "UNUSED"] /\ load = [i \in Sockets |-> 0]
        /\ fill = 0
        /\ loop = Elsewhere

-----------------------------------------------------------------------------
(* The hosts, whose events lwIP reports before the slots are looked at.    *)

Connect(i) == /\ loop = Elsewhere
              /\ type[i] = "UNUSED"
              /\ type' = [type EXCEPT ![i] = "IDLE"]
              /\ UNCHANGED <<load, fill, loop>>

(* A ring that has no room for all loses its oldest bytes and is full.     *)
Receive(i) == /\ loop = Elsewhere
              /\ type[i] # "UNUSED"
              /\ \E n \in load[i] .. MaxLoad : load' = [load EXCEPT ![i] = n]
              /\ UNCHANGED <<type, fill, loop>>

Leave(i) == /\ loop = Elsewhere
            /\ type' = [type EXCEPT ![i] = "UNUSED"]
            /\ load' = [load EXCEPT ![i] = 0]
            /\ UNCHANGED <<fill, loop>>

Hosts == \E i \in Sockets : Connect(i) \/ Receive(i) \/ Leave(i)

-----------------------------------------------------------------------------
(* socket_manager_process_rx_data: a pass over the slots, from the first.  *)

NextSlot == IF loop.i + 1 \in Sockets THEN At("rx", loop.i + 1, 0) ELSE Elsewhere

StartPass == /\ loop = Elsewhere
             /\ loop' = At("rx", 0, 0)
             /\ UNCHANGED <<type, load, fill>>

(* Two bytes decide on the type of an idle socket, or one and whatever was *)
(* in memory, which is not taken then.                                     *)
Decide == /\ loop.stage = "rx"
          /\ LET i == loop.i IN
             /\ type[i] = "IDLE" /\ load[i] > 0
             /\ \E t \in {"IDLE", "ASCII_CMD", "LOG_VAR"} : type' = [type EXCEPT ![i] = t]
             /\ load' = [load EXCEPT ![i] = IF @ >= 2 THEN @ - 2 ELSE @]
          /\ loop' = NextSlot
          /\ UNCHANGED fill

StartSending == /\ loop.stage = "rx"
                /\ type[loop.i] = "ASCII_CMD" /\ load[loop.i] > 0
                /\ loop' = At("send", loop.i, load[loop.i])
                /\ UNCHANGED <<type, load, fill>>

NothingToSend == /\ loop.stage = "rx"
                 /\ load[loop.i] = 0 \/ type[loop.i] \in {"LOG_VAR", "UNUSED"}
                 /\ loop' = NextSlot
                 /\ UNCHANGED <<type, load, fill>>

(* The inner loop is left, the pass goes on with the next slot. *)
BreakWhenFull ==
  /\ loop.stage = "send" /\ fill = ChannelSize
  /\ loop' = NextSlot
  /\ UNCHANGED <<type, load, fill>>

Forward == /\ loop.stage = "send" /\ fill < ChannelSize
           /\ load' = [load EXCEPT ![loop.i] = @ - 1]
           /\ fill' = fill + 1
           /\ loop' = IF loop.left = 1 THEN NextSlot ELSE [loop EXCEPT !.left = @ - 1]
           /\ UNCHANGED type

Pass == StartPass \/ Decide \/ StartSending \/ NothingToSend \/ BreakWhenFull \/ Forward

(* CPU1 takes a byte. *)
Take == /\ fill > 0
        /\ fill' = fill - 1
        /\ UNCHANGED <<type, load, loop>>

Next == Hosts \/ Pass \/ Take

Safety == Init /\ [][Next]_vars

(* Both cores loop for ever; hosts owe nothing. *)
Fairness == WF_vars(Pass) /\ WF_vars(Take)

-----------------------------------------------------------------------------
Waiting(i) == type[i] = "ASCII_CMD" /\ load[i] > 0
Receives(i) == load'[i] > load[i]
Forwards(i) == loop.i = i /\ fill' = fill + 1

(***************************************************************************)
(* A command socket is not stuck with what it received once the others     *)
(* receive no more, whatever they are and whatever is left in their rings, *)
(* and although its own host may go on for ever.  As long as others send,  *)
(* one that waits may starve, for a pass starts at slot 0 and the channel  *)
(* may be full again whenever its turn comes; but something is forwarded.  *)
(***************************************************************************)
GoesOn(i) ==
  \/ []<>~Waiting(i)
  \/ []<><<Forwards(i)>>_vars
OthersSilent(i) == \A j \in Sockets : j # i => <>[][~Receives(j)]_vars
CommandsFlow ==
  \A i \in Sockets : /\ OthersSilent(i) => GoesOn(i)
                     /\ \/ []<>~Waiting(i)
                        \/ []<><<Forward>>_vars
=============================================================================
