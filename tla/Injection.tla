----------------------------- MODULE Injection -----------------------------
(***************************************************************************)
(* Signal injection (injection.c): a linked list of contexts, registered   *)
(* and unregistered by the tasks that own them, on which the 'inj'         *)
(* commands install a wave and which a state machine lists, one name a     *)
(* slice.  The ids that the code compares are unique: a context stands for *)
(* its id.  A wave goes from -1 to 1 and advances by Ts per call.          *)
(***************************************************************************)
EXTENDS Integers, FiniteSets

CONSTANTS Ctx, NULL,
          Ts,         \* time of a step; a wave's time and period have its unit
          Periods,    \* of the waves: the commands refuse negative ones only
          MaxTime     \* bound: without it the time of a wave that is shorter
                      \* than a step grows for ever

(* Of the constants: every module that instantiates this one assumes it.   *)
InjectionAssumption ==
  NULL \notin Ctx /\ Ts \in Nat \ {0} /\ MaxTime \in Nat /\ Periods \subseteq 0 .. MaxTime

VARIABLES
  inj_ctxs,               \* head of the list
  next, registered,       \* per context
  inj_func, period,       \* per context: the wave installed
  curr_time,
  listing, curr,          \* state machine of 'inj list', and where it is
  injected                \* last value injected, and the wave it is of

ctxVars == <<inj_ctxs, next, registered>>
waveVars == <<inj_func, period, curr_time, injected>>
listVars == <<listing, curr>>

InjectionInit ==
  /\ inj_ctxs = NULL
  /\ next = [c \in Ctx |-> NULL] /\ registered = [c \in Ctx |-> FALSE]
  /\ inj_func = [c \in Ctx |-> "NONE"] /\ period = [c \in Ctx |-> 0]
  /\ curr_time = [c \in Ctx |-> 0]
  /\ listing = "off" /\ curr = NULL
  /\ injected = [func |-> "NONE", value |-> 0, scale |-> 1]

-----------------------------------------------------------------------------
(* The list: its head, the pointers and the flags are one value here.      *)
Links == [head |-> inj_ctxs, next |-> next, registered |-> registered]
SetLinks(l) == inj_ctxs' = l.head /\ next' = l.next /\ registered' = l.registered

(* What the walk along the pointers meets, before it ends or comes back:   *)
(* the least set with the head and with what follows each of its members.  *)
ClosedUnderNext(l, cs) ==
  /\ l.head = NULL \/ l.head \in cs
  /\ \A c \in cs : l.next[c] = NULL \/ l.next[c] \in cs
Walk(l) == {c \in Ctx : \A cs \in SUBSET Ctx : ClosedUnderNext(l, cs) => c \in cs}
EndOf(l) == CHOOSE c \in Walk(l) : l.next[c] = NULL
Before(l, c) == CHOOSE p \in Walk(l) : l.next[p] = c

(* injection_ctx_register: at the end. *)
Register(l, c) ==
  IF l.registered[c] THEN l
  ELSE IF l.head = NULL
       THEN [l EXCEPT !.registered[c] = TRUE, !.head = c, !.next[c] = NULL]
       ELSE [l EXCEPT !.registered[c] = TRUE, !.next[EndOf(l)] = c, !.next[c] = NULL]

UnregisterKeepsHead(l, c) ==   \* mutant: the head is not treated apart
  IF ~l.registered[c] THEN l
  ELSE IF l.head \in {NULL, c} THEN [l EXCEPT !.registered[c] = FALSE]
  ELSE [l EXCEPT !.registered[c] = FALSE, !.next[Before(l, c)] = l.next[c]]
(* injection_ctx_unregister: its own next stays as it is. *)
Unregister(l, c) ==
  IF ~l.registered[c] THEN l
  ELSE IF l.head = NULL THEN [l EXCEPT !.registered[c] = FALSE]
  ELSE IF l.head = c THEN [l EXCEPT !.registered[c] = FALSE, !.head = l.next[c]]
  ELSE [l EXCEPT !.registered[c] = FALSE, !.next[Before(l, c)] = l.next[c]]

-----------------------------------------------------------------------------
(* The commands. *)
Install(c, f, p, time) ==
  /\ inj_func' = [inj_func EXCEPT ![c] = f]
  /\ period' = [period EXCEPT ![c] = p]
  /\ curr_time' = [curr_time EXCEPT ![c] = time]

InstallInTime(c, f, p) == Install(c, f, p, curr_time[c])   \* mutant: its time goes on
(* injection_const, _triangle, _square, _ramp *)
InstallFromStart(c, f, p) == Install(c, f, p, 0)

(* inj <function> <name> ...: only for a name that is found in the list.   *)
Inj(c, f, p) == /\ c \in Walk(Links)
                /\ InstallFromStart(c, f, p)
                /\ UNCHANGED <<ctxVars, listVars, injected>>

(* inj clear: for all that are registered. *)
InjClear ==
  /\ inj_func' = [c \in Ctx |->
                   IF c \in Walk(Links) THEN "NONE" ELSE inj_func[c]]
  /\ UNCHANGED <<ctxVars, listVars, period, curr_time, injected>>

(* inj list: starts the machine, or starts it again. *)
InjList == /\ inj_ctxs # NULL
           /\ listing' = "listing" /\ curr' = inj_ctxs
           /\ UNCHANGED <<ctxVars, waveVars>>

ListAround ==   \* mutant: the last entry is followed by the first
  /\ listing = "listing"
  /\ curr' = IF next[curr] = NULL THEN inj_ctxs ELSE next[curr]
  /\ listing' = IF inj_ctxs = NULL THEN "remove" ELSE "listing"
(* LISTING: prints an entry and moves to the next. *)
ListOne == /\ listing = "listing"
           /\ curr' = next[curr]
           /\ listing' = IF curr' = NULL THEN "remove" ELSE "listing"
ListEnd == listing = "remove" /\ listing' = "off" /\ UNCHANGED curr   \* REMOVE_TASK
ListTask == (ListOne \/ ListEnd) /\ UNCHANGED <<ctxVars, waveVars>>

-----------------------------------------------------------------------------
(***************************************************************************)
(* injection_inj at context c of a task that has it: the time advances and *)
(* one period is taken off once it is reached, which brings the time back  *)
(* only if a period is no shorter than a step.  The value is scaled by the *)
(* period.  Noise and chirp are not modelled: noise has no time, and a     *)
(* chirp keeps its gain at any time (of a period of 0, it divides 0 by 0). *)
(***************************************************************************)
Timed == {"TRIANGLE", "SQUARE", "RAMP"}
Bounded(t) == IF t > MaxTime THEN MaxTime ELSE t
Advance(t, p) == IF t + Ts >= p THEN Bounded(t + Ts - p) ELSE t + Ts

Wave(f, p, t) ==
  CASE f = "RAMP" -> 2 * t - p
    [] f = "SQUARE" -> IF 2 * t >= p THEN p ELSE -p
    [] f = "TRIANGLE" -> IF 4 * t < p THEN 4 * t
                         ELSE IF 4 * t < 3 * p THEN 2 * p - 4 * t
                         ELSE 4 * t - 4 * p
    [] OTHER -> p

Injects(c) == registered[c] /\ inj_func[c] # "NONE"
(* Those of cs in one callback; one of them at most has a wave installed   *)
(* in the instances that are checked, and injected shows that one.         *)
InjectAt(cs) ==
  LET on == {c \in cs : Injects(c)}
      time == [c \in Ctx |-> IF c \in on /\ inj_func[c] \in Timed
                             THEN Advance(curr_time[c], period[c]) ELSE curr_time[c]]
  IN  /\ curr_time' = time
      /\ IF on = {} THEN UNCHANGED injected
         ELSE \E c \in on :
                injected' = [func |-> inj_func[c], scale |-> period[c],
                             value |-> Wave(inj_func[c], period[c], time[c])]
      /\ UNCHANGED <<inj_func, period>>

-----------------------------------------------------------------------------
(***************************************************************************)
(* The walk from the head meets exactly the contexts that are registered,  *)
(* and ends: whatever was registered, unregistered and registered again,   *)
(* with the pointers of an earlier life, in whatever order.                *)
(***************************************************************************)
ListSound ==
  /\ Walk(Links) = {c \in Ctx : registered[c]}
  /\ inj_ctxs # NULL => \E c \in Ctx : registered[c] /\ next[c] = NULL

(***************************************************************************)
(* A wave never leaves its range, although its context had another wave of *)
(* another period before and its time went on in it.  Exempt are those     *)
(* that outrun their period, as the commands let them: a triangle and a    *)
(* ramp that are shorter than a step.                                      *)
(***************************************************************************)
InRange == injected.value \in -injected.scale .. injected.scale
Outruns(f, p) == f \in {"TRIANGLE", "RAMP"} /\ p < Ts
WithinRange == Outruns(injected.func, injected.scale) \/ InRange

(***************************************************************************)
(* "starts at mid at t = 0, S1: increases to max at t = T/4, S2: decreases *)
(* to mid at t = T/2, S3: decreases to min at t = 3T/4": a triangle goes   *)
(* from its least to its greatest value and no further, as asked for.      *)
(***************************************************************************)
TriangleInRange == injected.func = "TRIANGLE" => InRange
=============================================================================
