-------------------------- MODULE MCSocketManager --------------------------
(* Two slots and three control blocks: one connection too many.  Beside    *)
(* it, hosts that send for ever to more slots: a session is about either.  *)
EXTENDS SocketManager

CONSTANTS ManySockets, ManyBytes, ManyRoom   \* of the forwarding session

MCSegments == {<<"12", "34">>, <<"56", "78">>, <<"text">>}

VARIABLES session, types, loads, filled, at
hostVars == <<types, loads, filled, at>>

hosts == INSTANCE Forwarding
           WITH NumSockets <- ManySockets, MaxLoad <- ManyBytes, ChannelSize <- ManyRoom,
                type <- types, load <- loads, fill <- filled, loop <- at

ASSUME InstancesAssumption == hosts!ForwardingAssumption

Either == Init /\ hosts!Init /\ session \in {"sockets", "hosts"}

EitherNext ==
  \/ session = "sockets" /\ Next /\ UNCHANGED <<session, hostVars>>
  \/ session = "hosts" /\ hosts!Next /\ UNCHANGED <<session, vars>>

EitherSpec == /\ Either /\ [][EitherNext]_<<session, vars, hostVars>>
              /\ WF_vars(session = "sockets" /\ MainLoop)
              /\ WF_vars(session = "sockets" /\ CPU1Takes)
              /\ WF_hostVars(session = "hosts" /\ hosts!Pass)
              /\ WF_hostVars(session = "hosts" /\ hosts!Take)

(***************************************************************************)
(* Between a host and CPU1 nothing is reordered or doubled on the way in,  *)
(* and nothing is missing on the way out for the host that is promised it. *)
(***************************************************************************)
BothWaysInOrder == CommandsInOrder /\ SocketZeroHearsAll

(***************************************************************************)
(* A slot belongs to one live connection, and its ring holds the latest    *)
(* bytes that connection sent, whatever the slot held before.              *)
(***************************************************************************)
SlotsHoldTheirConnection == SlotsMatchConnections /\ RingsHoldTheLatest

(***************************************************************************)
(* The socket manager forwards as Forwarding does, whatever happens to     *)
(* responses and connections, and there a socket goes on once the others   *)
(* receive no more, and somebody goes on as long as there is anything to   *)
(* forward, although hosts connect, send and leave for ever.               *)
(***************************************************************************)
CommandsFlow == /\ Flow!Safety
                /\ session = "sockets" => Flow!Fairness
                /\ session = "hosts" => hosts!CommandsFlow
=============================================================================
