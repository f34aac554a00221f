------------------------------- MODULE DemoCc -------------------------------
(***************************************************************************)
(* The current controllers of the demo application: contexts that all      *)
(* start with PWM channel 0 for every phase, are given channels, modes and *)
(* speeds by commands and run by the scheduler between them.  Angles are   *)
(* counted in parts of which Turn are 2 pi, speeds in parts per callback;  *)
(* of a duty ratio only who set it is kept, a callback or a stop.          *)
(***************************************************************************)
EXTENDS Integers

CONSTANTS Ctxs, Phases,     \* cc_ctxs, and the phases of each
          Channels,
          Turn, Speeds, Angles,
          Careful           \* the host moves no phase of a running controller

(* Of the constants: every module that instantiates this one assumes it.   *)
DemoAssumption ==
  /\ 0 \in Channels /\ Turn \in Nat \ {0}
  /\ Speeds \subseteq -Turn .. Turn                 \* not so for all of 'cc omega'
  /\ Angles \subseteq 1 - Turn .. Turn - 1
  /\ Careful \in BOOLEAN

VARIABLES
  running,          \* contexts whose task is registered
  pwm_chnl,         \* per context and phase
  duty,             \* per channel
  mode, omega_e, theta_e

angleVars == <<mode, omega_e, theta_e>>
vars == <<running, pwm_chnl, duty, angleVars>>

Init == /\ running = {}
        /\ pwm_chnl = [x \in Ctxs |-> [p \in Phases |-> 0]]
        /\ duty = [c \in Channels |-> "zero"]      \* pwm_init: midscale
        /\ mode = [x \in Ctxs |-> "angle"] /\ omega_e = [x \in Ctxs |-> 0]
        /\ theta_e = [x \in Ctxs |-> 0]

Mine(x) == {pwm_chnl[x][p] : p \in Phases}
SetDuty(cs, d) == duty' = [c \in Channels |-> IF c \in cs THEN d ELSE duty[c]]

(* cc <x> init: also sets the mode of one that runs. *)
CcInit(x) == /\ running' = running \union {x}
             /\ mode' = [mode EXCEPT ![x] = "speed"]
             /\ UNCHANGED <<pwm_chnl, duty, omega_e, theta_e>>

CcDeinit(x) == /\ running' = running \ {x}
               /\ SetDuty(Mine(x), "zero")
               /\ UNCHANGED <<pwm_chnl, angleVars>>

CcPwm(x, p, c) == /\ Careful => x \notin running
                  /\ pwm_chnl' = [pwm_chnl EXCEPT ![x][p] = c]
                  /\ UNCHANGED <<running, duty, angleVars>>

CcSetMode(x, m) == /\ mode' = [mode EXCEPT ![x] = m]
                   /\ UNCHANGED <<running, pwm_chnl, duty, omega_e, theta_e>>

(* Ignored in the other mode; standing still is at angle 0. *)
CcOmega(x, w) == /\ mode[x] = "speed"
                 /\ omega_e' = [omega_e EXCEPT ![x] = w]
                 /\ theta_e' = [theta_e EXCEPT ![x] = IF w = 0 THEN 0 ELSE @]
                 /\ UNCHANGED <<running, pwm_chnl, duty, mode>>

CcTheta(x, a) == /\ mode[x] = "angle"
                 /\ theta_e' = [theta_e EXCEPT ![x] = a]
                 /\ UNCHANGED <<running, pwm_chnl, duty, mode, omega_e>>

WrapAbove(t) == IF t > Turn THEN t - Turn ELSE t   \* mutant: only one direction wraps
Wrap(t) == IF t > Turn THEN t - Turn ELSE IF t < -Turn THEN t + Turn ELSE t

Callback(x) ==
  /\ x \in running
  /\ theta_e' = [theta_e EXCEPT ![x] = Wrap(IF mode[x] = "speed" THEN @ + omega_e[x] ELSE @)]
  /\ SetDuty(Mine(x), "driven")
  /\ UNCHANGED <<running, pwm_chnl, mode, omega_e>>

Next == \E x \in Ctxs :
          \/ CcInit(x) \/ CcDeinit(x)
          \/ \E p \in Phases, c \in Channels : CcPwm(x, p, c)
          \/ \E m \in {"angle", "speed"} : CcSetMode(x, m)
          \/ \E w \in Speeds : CcOmega(x, w)
          \/ \E a \in Angles : CcTheta(x, a)
          \/ Callback(x)
Spec == Init /\ [][Next]_vars

-----------------------------------------------------------------------------
(* A channel that no running controller has as a phase is at 0 V, also if  *)
(* it was shared with others that go on, or is the 0 of those never set.   *)
LegsAtRest == \A c \in Channels :
                (\A x \in running : c \notin Mine(x)) => duty[c] = "zero"

(***************************************************************************)
(* With speeds of at most a turn per callback, one correction per callback *)
(* keeps the angle within a turn, through changes of mode, speed and       *)
(* angle, in both directions.                                              *)
(***************************************************************************)
AngleWithinTurn == \A x \in Ctxs : theta_e[x] \in -Turn .. Turn

(* Both: what stops is at rest, and what runs stays in its range. *)
ControllersBounded == LegsAtRest /\ AngleWithinTurn
=============================================================================
