------------------------------ MODULE BetaLabs ------------------------------
(***************************************************************************)
(* The control tasks of the beta_labs application, which the scheduler     *)
(* runs between the commands that start and stop them: current control     *)
(* (cc), motion control (mc) that commands it, voltage source (vsi) and    *)
(* the dead time test (dtc).  They drive legs of the same inverter, and    *)
(* own the contexts of module Injection.  A quantity that is commanded or  *)
(* accumulated is abstracted to whether it may differ from 0, and a duty   *)
(* ratio to who set it: a callback, or a stop that sets 0 V or 0.          *)
(***************************************************************************)
EXTENDS Injection

CONSTANTS Legs, VsiLegs,     \* all legs, and those 'vsi legs' may choose
          Targets,           \* contexts the host injects at
          MaxCmds,           \* bound on the commands of a session
          Careful            \* the host moves no legs of a running source

CcCtx == {"Id*", "Iq*", "Vd*", "Vq*"}
McCtx == {"omega_m*", "Td*"}

(* Of the constants: every module that instantiates this one assumes it.   *)
BetaLabsAssumption ==
  /\ {0, 1, 2} \subseteq Legs /\ VsiLegs \subseteq Legs
  /\ CcCtx \union McCtx \subseteq Ctx /\ Targets \subseteq Ctx
  /\ MaxCmds \in Nat /\ Careful \in BOOLEAN

VARIABLES
  tasks,            \* the tasks that are registered
  duty,             \* per leg: driven, 0 V, or ratio 0
  Id_star, Iq_star, omega_m_star,   \* may be other than 0
  err_acc,          \* the integrators of cc may be other than 0
  VSI_leg,
  cmds,             \* commands so far
  touched           \* history: cc has injected into Id* and Iq* since its stop

stars == <<Id_star, Iq_star, omega_m_star, err_acc>>
betaVars == <<tasks, duty, stars, VSI_leg, touched>>
vars == <<betaVars, cmds, ctxVars, waveVars, listVars>>

Init == /\ InjectionInit
        /\ tasks = {} /\ duty = [l \in Legs |-> "0"]
        /\ Id_star = FALSE /\ Iq_star = FALSE /\ omega_m_star = FALSE
        /\ err_acc = FALSE
        /\ VSI_leg = 0
        /\ cmds = 0 /\ touched = FALSE

SetLegs(legs, d) == duty' = [l \in Legs |-> IF l \in legs THEN d ELSE duty[l]]

-----------------------------------------------------------------------------
(* The commands; each is refused when the task is not as it should be.     *)
Cmd == cmds < MaxCmds /\ cmds' = cmds + 1

InitCcLinks == Register(Register(Register(Register(Links, "Id*"), "Iq*"), "Vd*"), "Vq*")
CcInit == /\ Cmd /\ "cc" \notin tasks
          /\ tasks' = tasks \union {"cc"}
          /\ SetLinks(InitCcLinks)
          /\ err_acc' = FALSE
          /\ UNCHANGED <<duty, Id_star, Iq_star, omega_m_star, VSI_leg, touched, waveVars,
                         listVars>>

(* task_cc_deinit and task_cc_clear *)
ExitCcLinks ==
  Unregister(Unregister(Unregister(Unregister(Links, "Id*"), "Iq*"), "Vd*"), "Vq*")
ClearWaves(cs) == /\ inj_func' = [c \in Ctx |-> IF c \in cs THEN "NONE" ELSE inj_func[c]]
                  /\ UNCHANGED <<period, curr_time, injected>>

KeepLegs(legs, d) == duty' = duty   \* mutant: the legs are left as they are
StopLegs(legs, d) == SetLegs(legs, d)

CcDeinit == /\ Cmd /\ "cc" \in tasks
            /\ tasks' = tasks \ {"cc"}
            /\ SetLinks(ExitCcLinks) /\ ClearWaves(CcCtx)
            /\ err_acc' = FALSE
            /\ Id_star' = FALSE /\ Iq_star' = FALSE /\ touched' = FALSE
            /\ StopLegs({0, 1, 2}, "0V")
            /\ UNCHANGED <<omega_m_star, VSI_leg, listVars>>

McInit == /\ Cmd /\ "mc" \notin tasks
          /\ tasks' = tasks \union {"mc"}
          /\ SetLinks(Register(Register(Links, "omega_m*"), "Td*"))
          /\ omega_m_star' = FALSE
          /\ UNCHANGED <<duty, Id_star, Iq_star, err_acc, VSI_leg, touched, waveVars,
                         listVars>>

McDeinit == /\ Cmd /\ "mc" \in tasks
            /\ tasks' = tasks \ {"mc"}
            /\ Iq_star' = FALSE
            /\ SetLinks(Unregister(Unregister(Links, "omega_m*"), "Td*"))
            /\ ClearWaves(McCtx)
            /\ omega_m_star' = FALSE
            /\ UNCHANGED <<duty, Id_star, err_acc, VSI_leg, touched, listVars>>

(* mc rpm, with 0 or not. *)
McRpm(rpm) == /\ Cmd
              /\ omega_m_star' = rpm
              /\ UNCHANGED <<tasks, duty, Id_star, Iq_star, err_acc, VSI_leg, touched,
                             ctxVars, waveVars, listVars>>

Vsi(on) == /\ Cmd /\ ("vsi" \in tasks) # on
           /\ tasks' = IF on THEN tasks \union {"vsi"} ELSE tasks \ {"vsi"}
           /\ SetLegs({VSI_leg}, "0")
           /\ UNCHANGED <<stars, VSI_leg, touched, ctxVars, waveVars, listVars>>

VsiSetLegs(l) == /\ Cmd
                 /\ Careful => "vsi" \notin tasks
                 /\ VSI_leg' = l
                 /\ UNCHANGED <<tasks, duty, stars, touched, ctxVars, waveVars, listVars>>

DtcInit == /\ Cmd /\ "dtc" \notin tasks
           /\ tasks' = tasks \union {"dtc"}
           /\ UNCHANGED <<duty, stars, VSI_leg, touched, ctxVars, waveVars, listVars>>
DtcDeinit == /\ Cmd /\ "dtc" \in tasks
             /\ tasks' = tasks \ {"dtc"}
             /\ StopLegs({0, 1}, "0V")
             /\ UNCHANGED <<stars, VSI_leg, touched, ctxVars, waveVars, listVars>>

InjCommand == /\ Cmd
              /\ \/ \E c \in Targets, f \in {"TRIANGLE", "SQUARE", "RAMP"}, p \in Periods :
                      Inj(c, f, p)
                 \/ \E c \in Targets : Inj(c, "CONST", 0)
                 \/ InjClear \/ InjList
              /\ UNCHANGED betaVars

Command == \/ CcInit \/ CcDeinit \/ McInit \/ McDeinit \/ DtcInit \/ DtcDeinit
           \/ \E b \in BOOLEAN : McRpm(b) \/ Vsi(b)
           \/ \E l \in VsiLegs : VsiSetLegs(l)
           \/ InjCommand

-----------------------------------------------------------------------------
(* The callbacks. *)

(* Id* and Iq* keep what was injected into them. *)
CcCallback ==
  /\ "cc" \in tasks
  /\ InjectAt(CcCtx)
  /\ Id_star' = (Id_star \/ Injects("Id*")) /\ Iq_star' = (Iq_star \/ Injects("Iq*"))
  /\ touched' = (touched \/ Injects("Id*") \/ Injects("Iq*"))
  /\ err_acc' = TRUE
  /\ SetLegs({0, 1, 2}, "driven")
  /\ UNCHANGED <<tasks, omega_m_star, VSI_leg, cmds, ctxVars, listVars>>

McCallback ==
  /\ "mc" \in tasks
  /\ InjectAt(McCtx)
  /\ omega_m_star' = (omega_m_star \/ Injects("omega_m*"))
  /\ Iq_star' = TRUE
  /\ UNCHANGED <<tasks, duty, Id_star, err_acc, VSI_leg, touched, cmds, ctxVars, listVars>>

VsiCallback == /\ "vsi" \in tasks
               /\ SetLegs({VSI_leg}, "driven")
               /\ UNCHANGED <<tasks, stars, VSI_leg, touched, cmds, ctxVars, waveVars,
                              listVars>>

DtcCallback == /\ "dtc" \in tasks
               /\ SetLegs({0, 1}, "driven")
               /\ UNCHANGED <<tasks, stars, VSI_leg, touched, cmds, ctxVars, waveVars,
                              listVars>>

ListCallback == ListTask /\ UNCHANGED <<betaVars, cmds>>

Next == Command \/ CcCallback \/ McCallback \/ VsiCallback \/ DtcCallback \/ ListCallback
Spec == Init /\ [][Next]_vars

(* The scheduler runs the registered task of the listing in every slice. *)
FairSpec == Spec /\ WF_vars(ListCallback)

-----------------------------------------------------------------------------
(***************************************************************************)
(* What no running task drives is at rest, in whatever order the tasks     *)
(* that share it were started and stopped: a leg has the ratio of a stop,  *)
(* the torque current that mc commanded is taken back although cc goes on, *)
(* and cc starts with empty integrators.                                   *)
(***************************************************************************)
Drives(t) == CASE t = "cc" -> {0, 1, 2} [] t = "dtc" -> {0, 1}
               [] t = "vsi" -> {VSI_leg} [] OTHER -> {}
LegsAtRest == \A l \in Legs :
                (\A t \in tasks : l \notin Drives(t)) => duty[l] # "driven"
CurrentAtRest == /\ "mc" \notin tasks /\ ~touched => ~Iq_star
                 /\ "cc" \notin tasks => ~err_acc /\ ~Id_star
StoppedIsAtRest == LegsAtRest /\ CurrentAtRest

(***************************************************************************)
(* A listing ends, although the contexts it walks along are unregistered   *)
(* and registered again under it.                                          *)
(***************************************************************************)
ListingEnds == listing # "off" ~> listing = "off"
=============================================================================
