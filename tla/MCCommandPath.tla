--------------------------- MODULE MCCommandPath ---------------------------
(* Lines as characters that the parser of one stream takes, lines of two   *)
(* streams that are executed and answered, or the commands of the          *)
(* beta_labs application with the tasks that they start and stop and the   *)
(* signals they inject.  A session is about one of them.                   *)
(* Help takes two callbacks, info three.  The legs of vsi are one of those *)
(* of the other tasks or one of its own.                                   *)
EXTENDS CmdParser

CONSTANTS Source, Console, ExecOrder, Quick, Restartable, Guarded, Help, Typed, Pieces,
          LinesWindow, Polite,
          Ctx, Ts, Periods, MaxTime, Legs, VsiLegs, Targets, MaxCmds, Careful,
          NULL,
          uart, eth, set, help, info       \* names for the configuration

VARIABLES
  session,
  lines, current_cmd_source, tasks, left, to_exec, to_run, awaiting, serving, written,
  controllers, duty, Id_star, Iq_star, omega_m_star, err_acc, VSI_leg, cmds, touched,
  inj_ctxs, next, registered, inj_func, period, curr_time, injected, listing, curr

linesVars == <<lines, current_cmd_source, tasks, left, to_exec, to_run,
               awaiting, serving, written>>
controlVars == <<controllers, duty, Id_star, Iq_star, omega_m_star, err_acc, VSI_leg, cmds,
                 touched, inj_ctxs, next, registered, inj_func, period, curr_time,
                 injected, listing, curr>>

UartFirst == <<uart, eth>>
InfoIsLonger == [m \in {help, info} |-> IF m = help THEN 1 ELSE 2]

answers == INSTANCE Commands WITH pending <- lines, Window <- LinesWindow
control == INSTANCE BetaLabs WITH tasks <- controllers

ASSUME InstancesAssumption ==
  /\ answers!CommandsAssumption
  /\ control!InjectionAssumption /\ control!BetaLabsAssumption

Either == /\ Init /\ answers!Init /\ control!Init
          /\ session \in {"characters", "lines", "control"}
EitherNext ==
  \/ session = "characters" /\ Next /\ UNCHANGED <<session, linesVars, controlVars>>
  \/ session = "lines" /\ answers!Next /\ UNCHANGED <<session, vars, controlVars>>
  \/ session = "control" /\ control!Next /\ UNCHANGED <<session, vars, linesVars>>
  \/ /\ session = "control" /\ controllers = {} /\ listing = "off"   \* an idle slice
     /\ UNCHANGED <<session, vars, linesVars, controlVars>>

EitherSpec ==
  /\ Either /\ [][EitherNext]_<<session, vars, linesVars, controlVars>>
  /\ WF_vars(session = "characters" /\ Exec)
  /\ WF_linesVars(session = "lines" /\ (answers!Exec \/ answers!Respond \/ answers!NextSlice))
  /\ WF_controlVars(session = "control" /\ control!ListCallback)

(***************************************************************************)
(* What is written goes to the stream whose command it answers, and when   *)
(* nothing is pending or at work no line is left without its answer.       *)
(***************************************************************************)
AnswersReachTheirLine == answers!ResponseOnOwnStream /\ answers!NoAnswerLost

(***************************************************************************)
(* Every line that was parsed is run, and a host that waits for an answer  *)
(* gets one, whatever the other stream does.                               *)
(***************************************************************************)
EveryLineIsAnswered ==
  EveryCommandRuns /\ (session = "lines" => answers!EveryLineIsAnswered)

(***************************************************************************)
(* However contexts are registered again and waves restarted, the list     *)
(* stays whole, and what is injected stays within what was asked for, but  *)
(* for the waves that outrun their period (Outruns).                       *)
(***************************************************************************)
InjectionSound == control!ListSound /\ control!WithinRange

(* Once no task runs, no leg is left at the duty of one that was stopped.  *)
StoppedIsAtRest == control!StoppedIsAtRest

(* Listing the contexts comes to its end, whatever is registered meanwhile.*)
ListingEnds == control!ListingEnds
=============================================================================
