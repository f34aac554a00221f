------------------------------ MODULE MCBasic ------------------------------
(* The control applications, or logging and streaming: a session is about  *)
(* either, as they share nothing but the processor.                        *)
EXTENDS BasicControl, BasicStream, TLC

VARIABLE session

SingleModes == {{}, {RUN_ONCE}}
Alike == Permutations(Pcb) \cup Permutations(Variables)

Either ==
  /\ ControlInit /\ StreamInit
  /\ session \in {"control", "stream"}
  /\ session = "stream" => build = "vsi"
EitherNext ==
  \/ session = "control" /\ ControlNext /\ UNCHANGED <<session, streamVars>>
  \/ session = "stream" /\ StreamNext /\ UNCHANGED <<session, controlVars>>
EitherSpec == Either /\ [][EitherNext]_<<session, controlVars, streamVars>>

(***************************************************************************)
(* The axes of a motor that are started and stopped together go together:  *)
(* a voltage pair is of one interrupt, and a reference reaches both.       *)
(***************************************************************************)
AxesAgree == PairsAreWhole /\ ReferencesFollow

(***************************************************************************)
(* What reaches the host is what was sampled: of the variable asked for,   *)
(* and with a gap in the sequence numbers wherever samples were lost.      *)
(***************************************************************************)
StreamIsFaithful == GapsShow /\ SamplesOfItsVariable

(***************************************************************************)
(* A stream that runs goes to the connection that asked for it, and is     *)
(* never stuck with data while the connection has room.                    *)
(***************************************************************************)
StreamReachesTheAsker == StreamNeverStalls /\ StreamsToTheAsker
=============================================================================
