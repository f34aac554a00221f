------------------------------ MODULE Commands ------------------------------
(***************************************************************************)
(* Running commands and answering them (commands.c, log_print_info): the   *)
(* exec task of each stream takes the oldest pending command, points the   *)
(* global current_cmd_source at its stream and calls the handler.  A       *)
(* handler answers at once, or starts a state machine task (help, log      *)
(* info) that writes its response over many slices and ends it with        *)
(* SUCCESS.  Everything is written to wherever current_cmd_source points.  *)
(*                                                                         *)
(* The parser (CmdParser) is a queue of lines here: a line that becomes    *)
(* ready behind its exec task waits for the next slice.                    *)
(***************************************************************************)
EXTENDS Integers, Sequences, FiniteSets

CONSTANTS
  Source,        \* the streams, cmd_src_e
  Console,       \* CMD_SRC_UART
  ExecOrder,     \* the streams in the order of their exec tasks
  Quick,         \* commands whose handler answers at once
  Restartable,   \* responders restarted by a second command: help, the dumps
  Guarded,       \* responders that refuse a second command: log info
  Help,          \* the one main() starts
  Typed,         \* the commands the hosts send
  Pieces,        \* [responder -> callbacks before the one that ends]
  Window,        \* bound: lines the hosts have sent and not seen answered
  Polite,        \* the hosts keep out of each other's way, see MaySend
  NULL

Responder == Restartable \cup Guarded
Cmd == Quick \cup Responder

(* Of the constants: every module that instantiates this one assumes it.   *)
CommandsAssumption ==
  /\ Console \in Source
  /\ ExecOrder \in Seq(Source) /\ {ExecOrder[i] : i \in DOMAIN ExecOrder} = Source
  /\ Help \in Restartable /\ Restartable \cap Guarded = {} /\ Quick \cap Responder = {}
  /\ Typed \subseteq Cmd
  /\ Pieces \in [Responder -> Nat]
  /\ Window \in Nat /\ Polite \in BOOLEAN
  /\ NULL \notin Source \cup Responder

VARIABLES
  pending,             \* lines ready to run, per stream
  current_cmd_source,
  tasks,               \* the responders in the task list, in order
  left,                \* callbacks a responder makes before the one that ends
  to_exec, to_run,     \* exec tasks and responders still to come in the slice
  awaiting,            \* history: lines sent and not answered, per stream
                       \* (and the help of main(), on the console)
  serving,             \* history: the stream whose line a responder answers
  written              \* history: what this step wrote, where, and for whom

vars == <<pending, current_cmd_source, tasks, left, to_exec, to_run,
          awaiting, serving, written>>

Registered == {tasks[i] : i \in DOMAIN tasks}

(* main() displays the help on the console before it runs the scheduler. *)
Init ==
  /\ pending = [s \in Source |-> << >>]
  /\ current_cmd_source = Console
  /\ tasks = <<Help>>
  /\ left = [m \in Responder |-> Pieces[m]]
  /\ to_exec = << >> /\ to_run = << >>
  /\ awaiting = [s \in Source |-> IF s = Console THEN <<Help>> ELSE << >>]
  /\ serving = [m \in Responder |-> IF m = Help THEN Console ELSE NULL]
  /\ written = NULL

-----------------------------------------------------------------------------
Unanswered == UNION {{s} \X DOMAIN awaiting[s] : s \in Source}
WaitedFor(s) == {awaiting[s][i] : i \in DOMAIN awaiting[s]}
Busy(s) == WaitedFor(s) \cap Responder # {}

(***************************************************************************)
(* Polite hosts: while a responder works for one of them the others send   *)
(* nothing, and no host repeats a command that would restart its responder.*)
(***************************************************************************)
Alone(s) == \A other \in Source \ {s} : awaiting[other] = << >>
MaySend(s, c) ==
  /\ Cardinality(Unanswered) < Window
  /\ Polite => /\ \A other \in Source \ {s} : ~Busy(other)
               /\ c \in Responder => Alone(s)
               /\ c \in Restartable => /\ c \notin Registered
                                      /\ c \notin WaitedFor(s)

Send(s, c) ==
  /\ MaySend(s, c)
  /\ pending' = [pending EXCEPT ![s] = Append(@, c)]
  /\ awaiting' = [awaiting EXCEPT ![s] = Append(@, c)]
  /\ written' = NULL
  /\ UNCHANGED <<current_cmd_source, tasks, left, to_exec, to_run, serving>>

-----------------------------------------------------------------------------
(* The first line with command c that waits on a stream, if any, answered. *)
Without(q, c) ==
  LET waits == {i \in DOMAIN q : q[i] = c}
  IN  IF waits = {} THEN q
      ELSE LET k == CHOOSE i \in waits : \A j \in waits : i <= j
           IN  SubSeq(q, 1, k - 1) \o SubSeq(q, k + 1, Len(q))

(* cmd_resp_print: part of the response to command c of stream s. *)
Write(target, s, c, last) ==
  /\ written' = [stream |-> target, source |-> s, cmd |-> c, last |-> last]
  /\ awaiting' = IF last THEN [awaiting EXCEPT ![target] = Without(@, c)] ELSE awaiting

AddOnce(q, c) == IF c \in Registered THEN q ELSE Append(q, c)


StartResponder(s, c) ==   \* CMD_SUCCESS_QUIET
  /\ left' = [left EXCEPT ![c] = Pieces[c]]
  /\ serving' = [serving EXCEPT ![c] = s]
  /\ tasks' = AddOnce(tasks, c) /\ to_run' = AddOnce(to_run, c)
  /\ written' = NULL
  /\ UNCHANGED awaiting

NoRedirect(s) == Console   \* mutant: the command source is never changed
Redirect(s) == s

Refused(c) == c \in Guarded \cap Registered

QuietHandler(s, c) ==   \* mutant: a command that answers at once is quiet
  IF c \in Quick \/ Refused(c)
  THEN written' = NULL /\ UNCHANGED <<tasks, left, to_run, awaiting, serving>>
  ELSE StartResponder(s, c)
Handler(s, c) ==
  IF c \in Quick \/ Refused(c)
  THEN Write(Redirect(s), s, c, TRUE) /\ UNCHANGED <<tasks, left, to_run, serving>>
  ELSE StartResponder(s, c)

Exec ==
  /\ to_exec # << >>
  /\ LET s == Head(to_exec)
     IN  IF pending[s] = << >>
         THEN /\ written' = NULL
              /\ UNCHANGED <<pending, current_cmd_source, tasks, left, to_run, awaiting,
                             serving>>
         ELSE /\ current_cmd_source' = Redirect(s)
              /\ pending' = [pending EXCEPT ![s] = Tail(@)]
              /\ Handler(s, Head(pending[s]))
  /\ to_exec' = Tail(to_exec)

-----------------------------------------------------------------------------
(* One callback of a responder. *)
WritePiece(m) ==
  /\ left[m] > 0
  /\ left' = [left EXCEPT ![m] = @ - 1]
  /\ Write(current_cmd_source, serving[m], m, FALSE)
  /\ UNCHANGED <<tasks, serving>>

Unregister(m) == tasks' = Without(tasks, m)

EndResponse(m) ==
  /\ left[m] = 0
  /\ Write(current_cmd_source, serving[m], m, TRUE)
  /\ Unregister(m)
  /\ serving' = [serving EXCEPT ![m] = NULL]
  /\ UNCHANGED left

Respond ==
  /\ to_exec = << >> /\ to_run # << >>
  /\ LET m == Head(to_run) IN WritePiece(m) \/ EndResponse(m)
  /\ to_run' = Tail(to_run)
  /\ UNCHANGED <<pending, current_cmd_source, to_exec>>

NextSlice ==
  /\ to_exec = << >> /\ to_run = << >>
  /\ to_exec' = ExecOrder
  /\ to_run' = tasks
  /\ written' = NULL
  /\ UNCHANGED <<pending, current_cmd_source, tasks, left, awaiting, serving>>

Next == (\E s \in Source, c \in Typed : Send(s, c)) \/ Exec \/ Respond \/ NextSlice

Spec == Init /\ [][Next]_vars

(* The scheduler runs slice after slice (EveryTaskRuns of Scheduler). *)
FairSpec == Spec /\ WF_vars(Exec \/ Respond \/ NextSlice)

-----------------------------------------------------------------------------
TypeOK ==
  /\ pending \in [Source -> Seq(Cmd)] /\ awaiting \in [Source -> Seq(Cmd)]
  /\ current_cmd_source \in Source
  /\ tasks \in Seq(Responder) /\ to_run \in Seq(Responder) /\ to_exec \in Seq(Source)
  /\ Len(tasks) = Cardinality(Registered)
  /\ \A m \in Responder : left[m] \in 0 .. Pieces[m]
  /\ serving \in [Responder -> Source \cup {NULL}]

(***************************************************************************)
(* "The command response data should either go out UART or ETH, depending  *)
(* on the command source": whatever is written goes to the stream of the   *)
(* command it answers.                                                     *)
(***************************************************************************)
ResponseOnOwnStream == written # NULL => written.stream = written.source

(***************************************************************************)
(* "All commands must return a valid response to the host": once nothing   *)
(* is pending and no responder is at work, no line is left unanswered.     *)
(***************************************************************************)
NoAnswerLost ==
  tasks = << >> /\ (\A s \in Source : pending[s] = << >>) => Unanswered = {}

(* A host that waits for an answer gets one, on its own stream. *)
Served(s) == \/ awaiting[s] = << >>
             \/ written # NULL /\ written.last /\ written.stream = s
EveryLineIsAnswered == \A s \in Source : []<>Served(s)
=============================================================================
