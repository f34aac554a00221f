----------------------------- MODULE CmdParser -----------------------------
(***************************************************************************)
(* One command stream of CPU1 (commands.c): the parse task turns received  *)
(* characters into pending commands, the exec task runs them.  UART and    *)
(* Ethernet have a context, a parse task and an exec task each.            *)
(*                                                                         *)
(* The arguments of a pending command are pointers into recv_buffer; the   *)
(* parser puts a NUL behind each.  Here a pointer is an index, a cell      *)
(* holds NUL or text, and an argument is as long as its cells up to NUL.   *)
(*                                                                         *)
(* A burst of characters is parsed and at most one command is run in each  *)
(* slice, so the characters and the executions interleave freely.          *)
(***************************************************************************)
EXTENDS Integers, Sequences, FiniteSetsExt

CONSTANTS
  RecvLength,     \* RECV_BUFFER_LENGTH
  MaxPending,     \* MAX_PENDING_CMDS
  MaxArgc,        \* CMD_MAX_ARGC
  MaxArgLength,   \* CMD_MAX_ARG_LENGTH
  Window,         \* lines the host has sent and not seen answered
  TypedArgs, TypedLength   \* bounds: arguments of a line, characters of one

ASSUME ParserAssumption ==
  /\ RecvLength \in Nat \ {0} /\ MaxPending \in Nat \ {0, 1}
  /\ MaxArgc \in Nat \ {0} /\ MaxArgLength \in Nat
  /\ Window \in Nat /\ TypedArgs \in Nat /\ TypedLength \in Nat

Char == {"letter", "space", "newline"}

VARIABLES
  state,           \* BEGIN, LOOKING_FOR_SPACE, LOOKING_FOR_CHAR
  pending,         \* pending_cmds
  write_idx, read_idx,
  nul_cells, recv_buffer_idx,   \* cells of recv_buffer that hold NUL
  line,            \* the line the host is typing: lengths of its arguments,
                   \* whether it is inside one, characters so far
  inflight,        \* the lines it has completed and not seen answered
  held             \* characters of recv_buffer all these take

parser == <<state, pending, write_idx, nul_cells, recv_buffer_idx>>
host == <<line, inflight, held>>
vars == <<parser, read_idx, host>>

Slots == 0 .. MaxPending - 1
Cells == 0 .. RecvLength - 1
NoLine == [args |-> << >>, open |-> FALSE, chars |-> 0]
EmptySlot == [argc |-> 0, argv |-> << >>, length |-> 0, err |-> FALSE, ready |-> FALSE]

(* The length of an argument as the command handler reads it. *)
Unterminated == -1
LengthAt(i) ==
  LET ends == {j \in nul_cells : j >= i}
  IN  IF ends = {} THEN Unterminated ELSE Min(ends) - i

Init ==
  /\ state = "BEGIN"
  /\ pending = [s \in Slots |-> EmptySlot]
  /\ write_idx = 0 /\ read_idx = 0
  /\ nul_cells = Cells /\ recv_buffer_idx = 0
  /\ line = NoLine /\ inflight = << >> /\ held = 0

-----------------------------------------------------------------------------
(***************************************************************************)
(* The host: it has at most Window lines unanswered, and the text it has   *)
(* in flight fits recv_buffer.                                             *)
(***************************************************************************)
IsLast(c) == c = "newline" /\ line.args # << >>
MayType(c) ==
  /\ IF IsLast(c) THEN Len(inflight) < Window /\ held < RecvLength
                  ELSE held < RecvLength - 1
  /\ c = "letter" => IF line.open THEN line.args[Len(line.args)] < TypedLength
                                  ELSE Len(line.args) < TypedArgs

LineWith(c) ==
  LET n == Len(line.args)
      args == IF c # "letter" THEN line.args
              ELSE IF line.open THEN [line.args EXCEPT ![n] = @ + 1]
              ELSE Append(line.args, 1)
  IN  [args |-> args, open |-> c = "letter", chars |-> line.chars + 1]

HostTypes(c) ==
  /\ MayType(c)
  /\ IF IsLast(c)
     THEN inflight' = Append(inflight, LineWith(c)) /\ line' = NoLine /\ held' = held + 1
     ELSE IF c # "letter" /\ line.args = << >> /\ inflight = << >>   \* before a line
     THEN UNCHANGED host
     ELSE line' = LineWith(c) /\ held' = held + 1 /\ UNCHANGED inflight

-----------------------------------------------------------------------------
(***************************************************************************)
(* The parse task takes one character: the body of _create_pending_cmds.   *)
(***************************************************************************)
Cur == pending[write_idx]
TooLong(slot) == slot.err \/ slot.length > MaxArgLength
Wrap(i, n) == IF i + 1 >= n THEN 0 ELSE i + 1

Invalidate(slots) == [slots EXCEPT ![Wrap(write_idx, MaxPending)].ready = FALSE]

NoNul == UNCHANGED nul_cells   \* mutant: the separator stays
StoreNul == nul_cells' = nul_cells \cup {recv_buffer_idx}
StoreText == nul_cells' = nul_cells \ {recv_buffer_idx}

EndOfCommand(c) ==
  /\ state # "BEGIN" /\ c = "newline"
  /\ pending' = Invalidate([pending EXCEPT
                  ![write_idx] = [@ EXCEPT !.err = TooLong(Cur), !.ready = TRUE]])
  /\ write_idx' = Wrap(write_idx, MaxPending)
  /\ StoreNul
  /\ state' = "BEGIN"

Fill(slot) == pending' = [pending EXCEPT ![write_idx] = slot]

SkipSpace(c) ==
  /\ state = "BEGIN" /\ c # "letter"
  /\ StoreText
  /\ UNCHANGED <<state, pending, write_idx>>

KeepErr == Cur.err   \* mutant: the error of the command before sticks
NoErr == FALSE

FirstArg(c) ==
  /\ state = "BEGIN" /\ c = "letter"
  /\ StoreText
  /\ Fill([argc |-> 1, argv |-> <<recv_buffer_idx>>, length |-> 1, err |-> NoErr,
           ready |-> Cur.ready])
  /\ state' = "LOOKING_FOR_SPACE"
  /\ UNCHANGED write_idx

InArg(c) ==
  /\ state = "LOOKING_FOR_SPACE" /\ c = "letter"
  /\ StoreText
  /\ Fill([Cur EXCEPT !.length = @ + 1])
  /\ UNCHANGED <<state, write_idx>>

EndOfArg(c) ==
  /\ state = "LOOKING_FOR_SPACE" /\ c = "space"
  /\ StoreNul
  /\ Fill([Cur EXCEPT !.err = TooLong(Cur)])
  /\ state' = "LOOKING_FOR_CHAR"
  /\ UNCHANGED write_idx

BetweenArgs(c) ==
  /\ state = "LOOKING_FOR_CHAR" /\ c = "space"
  /\ StoreText
  /\ UNCHANGED <<state, pending, write_idx>>

(***************************************************************************)
(* argv[argc] is stored before argc is compared with the size of argv: the *)
(* element behind argv is curr_arg_length, which is set right after.       *)
(***************************************************************************)
NextArg(c) ==
  LET full == Cur.argc + 1 > MaxArgc
  IN  /\ state = "LOOKING_FOR_CHAR" /\ c = "letter"
      /\ StoreText
      /\ Fill([Cur EXCEPT
           !.argc = IF full THEN 0 ELSE @ + 1,
           !.argv = IF full THEN @ ELSE SubSeq(@, 1, Cur.argc) \o <<recv_buffer_idx>>,
           !.length = 1,
           !.err = @ \/ full])
      /\ state' = "LOOKING_FOR_SPACE"
      /\ UNCHANGED write_idx

Receive(c) ==
  /\ HostTypes(c)
  /\ \/ EndOfCommand(c) \/ SkipSpace(c) \/ FirstArg(c) \/ InArg(c)
     \/ EndOfArg(c) \/ BetweenArgs(c) \/ NextArg(c)
  /\ recv_buffer_idx' = Wrap(recv_buffer_idx, RecvLength)
  /\ UNCHANGED read_idx

-----------------------------------------------------------------------------
(***************************************************************************)
(* Once a command has run, only err of its slot can be seen again (were it *)
(* not reset): the parser overwrites argc, argv and the length first.      *)
(***************************************************************************)
Consumed(slot) == [EmptySlot EXCEPT !.err = slot.err]

OldestSlot == read_idx

(* The exec task runs the oldest pending command and answers it. *)
Exec ==
  /\ pending[OldestSlot].ready
  /\ pending' = [pending EXCEPT ![OldestSlot] = Consumed(@)]
  /\ read_idx' = Wrap(read_idx, MaxPending)
  /\ inflight' = Tail(inflight)
  /\ IF Len(inflight) = 1 /\ line.args = << >>
     THEN line' = NoLine /\ held' = 0
     ELSE held' = held - Head(inflight).chars /\ UNCHANGED line
  /\ UNCHANGED <<state, write_idx, nul_cells, recv_buffer_idx>>

Next == (\E c \in Char : Receive(c)) \/ Exec

Spec == Init /\ [][Next]_vars

(* The exec task runs in every slice. *)
FairSpec == Spec /\ WF_vars(Exec)

-----------------------------------------------------------------------------
TypeOK ==
  /\ state \in {"BEGIN", "LOOKING_FOR_SPACE", "LOOKING_FOR_CHAR"}
  /\ \A s \in Slots : /\ pending[s].argc \in 0 .. MaxArgc
                      /\ pending[s].argv \in Seq(Cells)
                      /\ pending[s].err \in BOOLEAN /\ pending[s].ready \in BOOLEAN
  /\ write_idx \in Slots /\ read_idx \in Slots
  /\ nul_cells \subseteq Cells /\ recv_buffer_idx \in Cells
  /\ held \in 0 .. RecvLength

(* The slot that holds the i-th oldest unanswered line. *)
SlotOf(i) == (read_idx + i - 1) % MaxPending

(***************************************************************************)
(* The ring of pending commands holds exactly the lines the host waits     *)
(* for: none is lost, run twice or run out of order as long as the host    *)
(* has fewer lines unanswered than the ring has slots.  The parser rejects *)
(* a line if and only if it has too many arguments or one that is too      *)
(* long: no error of an earlier line in the same slot leaks into it, and   *)
(* resetting argc on overflow does not hide the error.                     *)
(***************************************************************************)
LineTooLong(args) == \/ Len(args) > MaxArgc
                     \/ \E k \in DOMAIN args : args[k] > MaxArgLength
RingHoldsVerdicts ==
  /\ \A s \in Slots : pending[s].ready <=> \E i \in DOMAIN inflight : s = SlotOf(i)
  /\ \A i \in DOMAIN inflight : pending[SlotOf(i)].err <=> LineTooLong(inflight[i].args)

(* The arguments a command that will be run sees now. *)
Accepted == {i \in DOMAIN inflight : ~pending[SlotOf(i)].err}
ArgsOf(i) == LET p == pending[SlotOf(i)] IN [k \in 1 .. p.argc |-> LengthAt(p.argv[k])]

(***************************************************************************)
(* A command that will be run sees the arguments its line was typed with,  *)
(* whatever arrives behind it meanwhile, unless one of them goes round the *)
(* end of recv_buffer.                                                     *)
(***************************************************************************)
RunsWhatWasTyped ==
  \A i \in Accepted :
    /\ pending[SlotOf(i)].argc = Len(inflight[i].args)
    /\ \A k \in DOMAIN ArgsOf(i) : ArgsOf(i)[k] \in {inflight[i].args[k], Unterminated}

(* Every command that became ready is run. *)
EveryCommandRuns == \A s \in Slots : pending[s].ready ~> ~pending[s].ready
=============================================================================
