---------------------------- MODULE BasicControl ----------------------------
(***************************************************************************)
(* The control applications of the legacy firmware (sdk/basic): the list   *)
(* of controllers that the control timer's interrupt walks (control.c),    *)
(* the current loops of inverters (VSI_DQ_SVPWM.c) and H bridges           *)
(* (HBridge_CC.c), the position controllers (PosContTry1.c), the torque    *)
(* inverter (TorqueVSI.c) and the commands CST, CTT and CNT of the host.   *)
(*                                                                         *)
(* The main loop changes links, flags and callbacks store by store, and    *)
(* the interrupt may come between any two stores.                          *)
(*                                                                         *)
(* A controller is <<kind, index>>: "P" a position controller, "d", "q"    *)
(* and "zero" the loops of an inverter, "H" an H bridge.  Currents are     *)
(* abstracted to where a reference comes from.                             *)
(***************************************************************************)
EXTENDS Integers, Sequences, FiniteSets, SequencesExt

CONSTANTS
  NUM_VSI,   \* VSI_DQ_SVPWM_NUM_VSI, 5
  NUM_HBRIDGE,
  Gaps,      \* 10 us ticks from one control interrupt to the next
  Amps,      \* the values the host forces a current to, 0 before it sends any
  MaxStarts  \* bound: starts and stops

ASSUME BasicControlAssumption ==
  /\ NUM_VSI \in Nat \ 0 .. 2 /\ NUM_HBRIDGE \in Nat \ {0}
  /\ Gaps \subseteq 4 .. 6        \* TIMER0_TICK_FREQ is 20 kHz, five ticks
  /\ Amps \subseteq Int /\ MaxStarts \in Nat

(* What is compiled: USE_VSI_CC with and without VSI_ISOLATED, or          *)
(* USE_H_BRIDGE_CC, for PARALLEL_SUSPENSION; or VSI_DQ_SVPWM.              *)
Build == {"isolated", "common", "bridge", "vsi"}
Inv == 0 .. NUM_VSI - 1
BOT == 0                          \* VSI_BOT_INDEX
TOP == 1                          \* VSI_TOP_INDEX
TORQUE == 2                       \* TVSI_INDEX
Bridge == 0 .. NUM_HBRIDGE - 1
Position == {"P"} \X (0 .. 3)
Item == Position \cup ({"d", "q", "zero"} \X Inv) \cup ({"H"} \X Bridge)
NIL == <<"NIL", 0>>
C0s == <<"C0s", 0>>               \* the pointer to the first item, as the next of nothing
Unit == ({"V"} \X Inv) \cup ({"H"} \X Bridge)
VsiItem(k) == <<(<<"d", "q", "zero">>)[(k % 3) + 1], k \div 3>>    \* cont_items[k]

UnitOf(it) == IF it[1] \in {"P", "H"} THEN it ELSE <<"V", it[2]>>

VARIABLES
  build,
  mem,      \* what the main loop stores: links, flags, callbacks, and what the host was told
  cmds,     \* starts and stops so far
  agenda,     \* what is left to do of the command in progress
  io        \* what the interrupts compute; the interrupts since the last command

controlVars == <<build, mem, cmds, agenda, io>>

Nothing == [of |-> "zero", val |-> 0, less |-> 0]   \* the references before anything computes one
MaxAge == 6

ControlInit ==
  /\ build \in Build
  /\ mem = [next |-> [n \in Item \cup {C0s} |-> NIL], prev |-> [n \in Item |-> NIL],
            reg |-> [n \in Item |-> FALSE], ready |-> [u \in Unit \cup Position |-> FALSE],
            updated |-> [n \in Item |-> FALSE],
            own |-> [u \in Unit |-> "none"], useZero |-> [i \in Inv |-> FALSE],
            force |-> [w \in {"xy", "dq"} |-> FALSE], sent |-> [w \in {"xy", "dq", "torque"} |-> 0],
            asked |-> [a \in 1 .. 2 |-> "never"], stopped |-> [a \in 1 .. 2 |-> FALSE]]
  /\ cmds = 0
  /\ agenda = << >>
  /\ io = [age |-> [u \in Unit \cup {C0s} |-> MaxAge], ixy |-> Nothing,
           top |-> 0,
           ref |-> [u \in Unit |-> Nothing], skewed |-> {}, since |-> 0]

-----------------------------------------------------------------------------
(* The list of controllers.                                                *)

Put(m, s) == [m EXCEPT ![s[1]][s[2]] = s[3]]
Stored(m, stores) ==
  LET after[k \in 0 .. Len(stores)] == IF k = 0 THEN m ELSE Put(after[k - 1], stores[k])
  IN  after[Len(stores)]

(* The items that a walk from C0s visits; Bound of them if it never ends.  *)
Bound == Cardinality(Item) + 1
Walk(next) ==
  LET walked[k \in 0 .. Bound] ==
        IF k = 0 THEN << >>
        ELSE LET s == walked[k - 1]
                 n == next[IF s = << >> THEN C0s ELSE Last(s)]
             IN  IF n = NIL THEN s ELSE Append(s, n)
  IN  walked[Bound]

(* Stores are made in groups: prev and reg, which the interrupt does not   *)
(* read, are stored with the link next to them.                            *)
AddLinkedListItem(m, item) ==
  LET w == Walk(m.next)
      at == IF w = << >> THEN C0s ELSE Last(w)
  IN  << << <<"next", at, item>> >>,
         << <<"prev", item, IF w = << >> THEN NIL ELSE at>>, <<"next", item, NIL>>, <<"reg", item, TRUE>> >> >>

UnlinkForwards(m, item) ==                                            \* mutant
  LET at == IF m.prev[item] = NIL THEN C0s ELSE m.prev[item]
  IN  << <<"next", at, m.next[item]>> >>
Unlinking(m, item) ==
  LET If(c, s) == IF c THEN <<s>> ELSE << >>
  IN  If(m.prev[item] # NIL, <<"next", m.prev[item], m.next[item]>>)
      \o If(m.next[item] # NIL, <<"prev", m.next[item], m.prev[item]>>)
      \o If(item = m.next[C0s], <<"next", C0s, m.next[item]>>)

RemoveLinkedListItem(m, item) ==
  LET w == Walk(m.next)
  IN  IF w = << >> THEN << >>
      ELSE << IF item \in Range(w) THEN Unlinking(m, item) ELSE << >>,
              << <<"prev", item, NIL>>, <<"next", item, NIL>>, <<"reg", item, FALSE>> >> >>

(* What the main loop has to do next: a group of stores, to register an    *)
(* item, or to unregister it if the one that is tested is registered.      *)
Stores(stores) == [do |-> "store", what |-> stores]
Register(item) == [do |-> "add", what |-> item]
Unregister(tested, item) == [do |-> "remove", what |-> item, tested |-> tested]

Groups(m, op) ==
  CASE op.do = "add" -> AddLinkedListItem(m, op.what)
    [] op.do = "remove" -> IF m.reg[op.tested] THEN RemoveLinkedListItem(m, op.what) ELSE << >>
    [] op.do = "store" -> <<op.what>>

-----------------------------------------------------------------------------
(* Setting up, starting and stopping current loops.                        *)

Start_VSI(i, z) ==
  IF mem.reg[VsiItem(3*i)] \/ mem.reg[VsiItem(3*i + 1)] \/ (z /\ mem.reg[VsiItem(3*i + 2)])
  THEN << >>                                                   \* INVALID_OPERATION
  ELSE <<Register(VsiItem(3*i)), Register(VsiItem(3*i + 1))>>
       \o (IF z THEN <<Register(VsiItem(3*i + 2))>> ELSE << >>)

(* The code tests the flags of cont_items[2*i] and [2*i + 1].              *)
Stop_VSI(vsi) ==
  LET i == vsi - 1
  IN  IF i \notin Inv THEN << >>                               \* INVALID_ARGUMENT
      ELSE <<Unregister(VsiItem(2*i), VsiItem(3*i)), Unregister(VsiItem(2*i + 1), VsiItem(3*i + 1)),
             Unregister(VsiItem(3*i + 2), VsiItem(3*i + 2))>>

Init_VSI(start) ==
  FlattenSeq([n \in 1 .. NUM_VSI |->
    LET i == n - 1
    IN  <<Stores(<< <<"useZero", i, FALSE>> >>),
          Stores(<< <<"own", <<"V", i>>, "example">>, <<"ready", <<"V", i>>, TRUE>> >>)>>
        \o (IF start THEN Start_VSI(i, FALSE) ELSE << >>)])

Start_HB(hb) ==
  IF hb - 1 \notin Bridge \/ mem.reg[<<"H", hb - 1>>] THEN << >> ELSE <<Register(<<"H", hb - 1>>)>>

Stop_HB(hb) == IF hb - 1 \notin Bridge THEN << >> ELSE <<Unregister(<<"H", hb - 1>>, <<"H", hb - 1>>)>>

Init_HB ==
  FlattenSeq([n \in 1 .. NUM_HBRIDGE |->
    <<Stores(<< <<"own", <<"H", n - 1>>, "example">>, <<"ready", <<"H", n - 1>>, TRUE>> >>)>>])

-----------------------------------------------------------------------------
(* The position controllers, the torque inverter, the commands.            *)

Init_Position(p) == <<Stores(<< <<"updated", p, FALSE>>, <<"ready", p, TRUE>> >>), Register(p)>>

Init_PosContTry1 ==
  FlattenSeq([n \in 1 .. 4 |-> Init_Position(<<"P", n - 1>>)])
  \o (IF build = "bridge"
      THEN Init_HB \o FlattenSeq([n \in 1 .. NUM_HBRIDGE |-> <<Stores(<< <<"own", <<"H", n - 1>>, "pos">> >>)>> \o Start_HB(n)])
      ELSE Init_VSI(FALSE)
           \o <<Stores(<< <<"own", <<"V", BOT>>, "pos">> >>)>> \o Start_VSI(BOT, FALSE)
           \o <<Stores(<< <<"useZero", TOP, build = "common">> >>), Stores(<< <<"own", <<"V", TOP>>, "pos">> >>)>>
           \o Start_VSI(TOP, build = "common"))

(* pos_cont_items[4] to [7] are outside the array: taken as not TRUE.      *)
Stop_Position(p) == <<Unregister(p, p)>>

(* The indices from 1 are called with indices from 0.                      *)
PosContTry1_StopCommand ==
  FlattenSeq([n \in 1 .. 4 |-> Stop_Position(<<"P", n - 1>>)])
  \o (IF build = "bridge" THEN FlattenSeq([n \in 1 .. NUM_HBRIDGE |-> Stop_HB(n - 1)])
      ELSE Stop_VSI(BOT) \o Stop_VSI(TOP))

PosContTry1_StartCommand(f) == <<Stores(<< <<"force", "xy", f>> >>)>> \o Init_PosContTry1

VSI_StartCommand(f) == <<Stores(<< <<"force", "dq", f>> >>)>> \o Init_VSI(TRUE)
VSI_StopCommand == FlattenSeq([n \in 1 .. NUM_VSI |-> Stop_VSI(n)])

ControlStartApp(f) == IF build = "vsi" THEN VSI_StartCommand(f) ELSE PosContTry1_StartCommand(f)
ControlStopApp == IF build = "vsi" THEN VSI_StopCommand ELSE PosContTry1_StopCommand

Init_TorqueVSI ==
  (IF build = "bridge" THEN Init_VSI(FALSE) ELSE << >>)
  \o <<Stores(<< <<"sent", "torque", 0>> >>), Stores(<< <<"own", <<"V", TORQUE>>, "torque">> >>)>>
  \o Start_VSI(TORQUE, mem.useZero[TORQUE])

Stop_TorqueVSI(tvsi) == IF tvsi - 1 # 0 THEN << >> ELSE Stop_VSI(TORQUE + 1)

(* What a careful host sends: it starts an application that does not run,  *)
(* the torque inverter once, after the position controllers initialised    *)
(* its context, and does not initialise them again under it.               *)
MayStart(a) ==
  IF a = 1 THEN mem.asked[1] # "on" /\ mem.asked[2] # "on" /\ (build = "vsi" => mem.asked[1] = "never")
  ELSE build # "vsi" /\ mem.asked[2] = "never" /\ (build = "bridge" \/ mem.asked[1] # "never")

Begin(a, ops, ans) ==
  /\ agenda = << >> /\ cmds < MaxStarts
  /\ cmds' = cmds + 1
  /\ agenda' = ops \o <<Stores(<< <<"asked", a, ans>> >>)>>
  /\ mem' = [mem EXCEPT !.asked[a] = "busy", !.stopped[a] = @ \/ ans = "off"]
  /\ io' = [io EXCEPT !.since = 0]
  /\ UNCHANGED build

CmdCST(a) ==
  /\ MayStart(a)
  /\ \E f \in BOOLEAN : /\ a = 2 => ~f
                        /\ Begin(a, IF a = 1 THEN ControlStartApp(f) ELSE Init_TorqueVSI, "on")

CmdCTT(a) ==
  /\ mem.asked[a] = "on"
  /\ Begin(a, IF a = 1 THEN ControlStopApp ELSE Stop_TorqueVSI(1), "off")

(* A value of one axis stands for those of all.  The position controllers  *)
(* answer ERROR unless currents are forced.                                *)
PosContTry1_Command == IF mem.force["xy"] THEN {"xy"} ELSE {}
VSI_Command == IF mem.force["dq"] THEN {"dq"} ELSE {}
TorqueVSI_Command == IF build = "vsi" THEN {} ELSE {"torque"}
ControlAppCommand == IF build = "vsi" THEN VSI_Command ELSE PosContTry1_Command

CmdCNT(a, v) ==
  /\ agenda = << >>
  /\ \E w \in IF a = 1 THEN ControlAppCommand ELSE TorqueVSI_Command :
       /\ mem' = [mem EXCEPT !.sent[w] = v]
       /\ io' = [io EXCEPT !.since = 0]
       /\ UNCHANGED <<build, cmds, agenda>>

MainStore ==
  /\ agenda # << >>
  /\ LET s == Groups(mem, Head(agenda))
     IN  /\ mem' = IF s = << >> THEN mem ELSE Stored(mem, s[1])
         /\ agenda' = [k \in 1 .. Len(s) - 1 |-> Stores(s[k + 1])] \o Tail(agenda)
  /\ UNCHANGED <<build, cmds, io>>

-----------------------------------------------------------------------------
(* The interrupt.  r is the state it works on: the flags, what it computes *)
(* and, for this interrupt, the items that ran and the writes per unit.    *)

POS_Input(r) == IF r.age[C0s] > 5 THEN [r EXCEPT !.age[C0s] = 0] ELSE r

NeverForced == [Nothing EXCEPT !.of = "position"]                      \* mutant
OutputCurrents ==
  IF mem.force["xy"] THEN [Nothing EXCEPT !.of = "forced", !.val = mem.sent["xy"]]
  ELSE [Nothing EXCEPT !.of = "position"]

POS_Output(r, it) ==
  LET up == [r.updated EXCEPT ![it] = TRUE]
  IN  IF \E p \in Position : ~up[p] THEN [r EXCEPT !.updated = up]
      ELSE [r EXCEPT !.updated = [n \in Item |-> up[n] /\ n \notin Position],
                     !.ixy = OutputCurrents]

(* The callbacks of the applications.  The position controllers leave room *)
(* for the torque inverter on the top one, whose current it tells them.    *)
POS_VSI_Input(r, u) == [r EXCEPT !.ref[u] = IF u[2] = TOP THEN [r.ixy EXCEPT !.less = r.top] ELSE r.ixy]
HBridge_CC_SetCurrentRef(r, u, ref) == [r EXCEPT !.ref[u] = ref]
POS_HB_Input(r, u) == HBridge_CC_SetCurrentRef(r, u, r.ixy)
T_VSI_Input(r, u) ==
  [r EXCEPT !.ref[u] = [Nothing EXCEPT !.of = "torque", !.val = mem.sent["torque"]],
            !.top = IF build = "bridge" THEN @ ELSE mem.sent["torque"]]

GetInput(r, u) ==
  CASE mem.own[u] = "pos" -> IF u[1] = "H" THEN POS_HB_Input(r, u) ELSE POS_VSI_Input(r, u)
    [] mem.own[u] = "torque" -> T_VSI_Input(r, u)
    [] OTHER -> r

Wrote(r, u) == [r EXCEPT !.wrote[u] = @ + 1]
POS_VSI_Output(r, u) == Wrote(r, u)
POS_HB_Output(r, u) == Wrote(r, u)
T_VSI_Output(r, u) == Wrote(r, u)
ExampleVSI_WriteOutput(r, u) == IF u[2] = 0 THEN Wrote(r, u) ELSE r
ExampleHB_WriteOutput(r, u) == IF u[2] < 4 THEN Wrote(r, u) ELSE r

WriteOutput(r, u) ==
  CASE mem.own[u] = "pos" -> IF u[1] = "H" THEN POS_HB_Output(r, u) ELSE POS_VSI_Output(r, u)
    [] mem.own[u] = "torque" -> T_VSI_Output(r, u)
    [] OTHER -> IF u[1] = "H" THEN ExampleHB_WriteOutput(r, u) ELSE ExampleVSI_WriteOutput(r, u)

VSI_Input(r, u) == IF r.age[u] > 3 THEN GetInput([r EXCEPT !.age[u] = 0], u) ELSE r
HB_Input(r, u) == GetInput([r EXCEPT !.age[u] = 0], u)

LoopsAlways(i) == {<<"d", i>>, <<"q", i>>, <<"zero", i>>}              \* mutant
LoopsOf(i) == {<<"d", i>>, <<"q", i>>} \cup (IF mem.useZero[i] THEN {<<"zero", i>>} ELSE {})

(* The duty ratios are skewed when a loop did not run in this interrupt.   *)
Used(i) == {<<"d", i>>, <<"q", i>>, <<"zero", i>>}

VSI_Output(r, it) ==
  LET i == it[2]
      up == [r.updated EXCEPT ![it] = TRUE]
  IN  IF \E l \in LoopsOf(i) : ~up[l] THEN [r EXCEPT !.updated = up]
      ELSE WriteOutput([r EXCEPT !.updated = [n \in Item |-> up[n] /\ n \notin Used(i)],
                                 !.skewed = IF LoopsOf(i) \subseteq r.ran THEN @ \ {i} ELSE @ \cup {i}],
                       <<"V", i>>)

HB_Output(r, it) == WriteOutput(r, it)

ServiceController(r, it) ==
  LET u == UnitOf(it)
      ran == [r EXCEPT !.ran = @ \cup {it}]
  IN  IF it[1] = "P" THEN POS_Output(POS_Input(ran), it)
      ELSE IF it[1] = "H" THEN HB_Output(HB_Input(ran, u), it)
      ELSE VSI_Output(VSI_Input(ran, u), it)

Before(gap) ==
  [updated |-> mem.updated, ran |-> {}, wrote |-> [u \in Unit |-> 0], ixy |-> io.ixy, top |-> io.top, ref |-> io.ref,
   skewed |-> io.skewed,
   age |-> [u \in DOMAIN io.age |-> IF io.age[u] + gap > MaxAge THEN MaxAge ELSE io.age[u] + gap]]

ServiceControllers(gap) ==
  LET items == Walk(mem.next)
      served[k \in 0 .. Len(items)] ==
        IF k = 0 THEN Before(gap) ELSE ServiceController(served[k - 1], items[k])
  IN  served[Len(items)]

ControlTimer0_ISR ==
  \E gap \in Gaps :
    LET r == ServiceControllers(gap)
    IN  /\ mem' = [mem EXCEPT !.updated = r.updated]
        /\ io' = [age |-> r.age, ixy |-> r.ixy, top |-> r.top, ref |-> r.ref, skewed |-> r.skewed,
                  since |-> IF agenda # << >> \/ io.since = 2 THEN io.since ELSE io.since + 1]
        /\ UNCHANGED <<build, cmds, agenda>>

ControlNext ==
  \/ \E a \in 1 .. 2 : CmdCST(a) \/ CmdCTT(a) \/ \E v \in Amps : CmdCNT(a, v)
  \/ MainStore
  \/ ControlTimer0_ISR

ControlSpec == ControlInit /\ [][ControlNext]_controlVars

-----------------------------------------------------------------------------
(* Properties.                                                             *)

Units(a) ==
  IF a = 2 THEN IF build = "vsi" THEN {} ELSE {<<"V", TORQUE>>}
  ELSE CASE build = "vsi" -> {<<"V", 0>>}
         [] build = "bridge" -> {"H"} \X Bridge
         [] OTHER -> {<<"V", BOT>>, <<"V", TOP>>}
Loops(u) == IF u[1] = "H" THEN {u} ELSE Used(u[2])
Registered == {n \in Item : mem.reg[n]}
Leaving == {n \in Item : agenda # << >> /\ agenda[1].do = "store" /\ <<"reg", n, FALSE>> \in Range(agenda[1].what)}

ControlTypeOK ==
  /\ build \in Build
  /\ mem.next \in [Item \cup {C0s} -> Item \cup {NIL}] /\ mem.prev \in [Item -> Item \cup {NIL}]
  /\ DOMAIN mem.updated = Item /\ Range(mem.own) \subseteq {"none", "example", "pos", "torque"}
  /\ Range(mem.asked) \subseteq {"never", "busy", "on", "off"}
  /\ io.skewed \subseteq Inv

(* Between two commands the list holds the controllers whose flag says     *)
(* they are registered, each once, and prev mirrors next: bRegistered and  *)
(* the links are stored one after the other and read by later commands.    *)
(* Between any two stores an interrupt walks a list that ends, meets only  *)
(* controllers whose context is set up, and misses none but those that are *)
(* just being unregistered.                                                *)
ListIntact ==
  LET w == Walk(mem.next)
  IN  /\ Len(w) < Bound
      /\ \A k \in 1 .. Len(w) : mem.ready[UnitOf(w[k])]
      /\ Registered \ Leaving \subseteq Range(w)
      /\ agenda = << >> =>
           /\ IsInjective(w) /\ Range(w) = Registered
           /\ \A k \in 1 .. Len(w) : mem.prev[w[k]] = IF k = 1 THEN NIL ELSE w[k - 1]

(* While an application runs every interrupt writes the duty ratios of     *)
(* each of its bridges exactly once, from currents measured in it and from *)
(* positions at most an interrupt old, whatever flags starts and stops of  *)
(* the others left and wherever the main loop is in a command: the loops   *)
(* of a bridge share flags, and the age of the last measurement.           *)
EveryInterruptServes ==
  \A gap \in Gaps :
    LET r == ServiceControllers(gap)
    IN  \A a \in 1 .. 2 : mem.asked[a] = "on" =>
          /\ \A u \in Units(a) : r.wrote[u] = 1 /\ r.age[u] = 0
          /\ build # "vsi" /\ a = 1 => r.age[C0s] <= 5

(* As long as an application was not stopped its duty ratios come from     *)
(* outputs of one interrupt: the flags of the loops pair them only because *)
(* every interrupt runs all of them.                                       *)
PairsAreWhole ==
  \A a \in 1 .. 2 : ~mem.stopped[a] => io.skewed \cap {u[2] : u \in Units(a) \cap ({"V"} \X Inv)} = {}

(* What a start or a CNT asked for takes over within two interrupts: the   *)
(* references of all bridges come from the positions, or are the forced    *)
(* value, those of the torque inverter are the ones sent last, and the top *)
(* inverter leaves room for them, wherever the bridges are in the list.    *)
ReferencesFollow ==
  io.since = 2 /\ build # "vsi" =>
    /\ mem.asked[1] = "on" =>
         \A u \in Units(1) :
           IF mem.force["xy"] THEN io.ref[u].of = "forced" /\ io.ref[u].val = mem.sent["xy"]
           ELSE io.ref[u].of = "position"
    /\ mem.asked[2] = "on" => io.ref[<<"V", TORQUE>>].val = mem.sent["torque"]
    /\ mem.asked[1] = "on" /\ mem.asked[2] = "on" /\ build # "bridge" =>
         io.ref[<<"V", TOP>>].less = mem.sent["torque"]

(* "Process an ascii command for stopping the position controllers and any *)
(* associated current controllers": after the answer none of them runs.    *)
StopStopsAll ==
  \A a \in 1 .. 2 : mem.asked[a] = "off" => \A u \in Units(a) : Loops(u) \cap Registered = {}

=============================================================================
