------------------------------ MODULE BasicLog ------------------------------
(***************************************************************************)
(* A log of the legacy firmware (sdk/basic/src/Log.c): a ring that the     *)
(* timer interrupt fills with samples of a variable and the main loop      *)
(* reads.  An entry of TheLog is a record with the fields of the code; the *)
(* operators are its functions, cut where the interrupt may come.          *)
(*                                                                         *)
(* A sample is the variable and the interrupt it was taken in.             *)
(***************************************************************************)
EXTENDS Integers, Sequences

CONSTANTS
  LOG_LENGTH,    \* 100001: the ring holds one sample less
  NULL

ASSUME BasicLogAssumption == LOG_LENGTH \in Nat \ {0, 1}

Cell == 0 .. LOG_LENGTH - 1
PREVENT_OVERRUN == "prevent overrun"       \* FIFO_PREVENT_OVERRUN
RUN_ONCE == "run once"                     \* FIFO_RUN_ONCE
NoSample == [var |-> NULL, at |-> 0]

EmptyLog ==
  [InPos |-> 0, OutPos |-> 0, Settings |-> {}, Flags |-> FALSE, VarToLog |-> NULL, LogStatus |-> "idle",
   LogEntry |-> [c \in Cell |-> NoSample]]

LogDataAvail(log) ==
  IF log.InPos >= log.OutPos THEN log.InPos - log.OutPos ELSE LOG_LENGTH - (log.OutPos - log.InPos)

LogInputSpaceAvail(log) ==
  IF log.OutPos > log.InPos THEN log.OutPos - log.InPos - 1 ELSE LOG_LENGTH - (log.InPos - log.OutPos) - 1

Sampled(log, now) ==
  [log EXCEPT !.LogEntry[log.InPos] = [var |-> log.VarToLog, at |-> now],
              !.InPos = (log.InPos + 1) % LOG_LENGTH]

(* A log that is full keeps its old samples, whatever its settings.        *)
DoLogging(log, now) ==
  IF log.LogStatus # "logging" THEN log
  ELSE IF LogInputSpaceAvail(log) > 0 THEN Sampled(log, now)
  ELSE IF RUN_ONCE \in log.Settings THEN [log EXCEPT !.LogStatus = "done"]
  ELSE IF PREVENT_OVERRUN \notin log.Settings THEN [log EXCEPT !.Flags = TRUE]
  ELSE log

(* ReadFromLog: what may be read, and how much of it; the copy, in one     *)
(* part or in two; where the next read begins.                             *)
Readable(log) == log.LogStatus \in {"done", "logging"}
ReadLength(log, length) == IF length > LogDataAvail(log) THEN LogDataAvail(log) ELSE length
Copied(log, out, length) == [k \in 1 .. length |-> log.LogEntry[(out + k - 1) % LOG_LENGTH]]
OutPosNext(out, in, length) ==
  IF out + length < LOG_LENGTH THEN out + length
  ELSE IF out > in THEN length - (LOG_LENGTH - out)
  ELSE out

(* The stores of SetupLogVariable, in their order.                         *)
SetupLogVariable(i, variable, settings) ==
  << <<i, "InPos", 0>>, <<i, "OutPos", 0>>, <<i, "Settings", settings>>, <<i, "Flags", FALSE>>,
     <<i, "VarToLog", variable>>, <<i, "LogStatus", "ready">> >>

StartLogging(log) == IF log.LogStatus = "ready" THEN [log EXCEPT !.LogStatus = "logging"] ELSE log
StopLogging(log) == IF log.LogStatus = "logging" THEN [log EXCEPT !.LogStatus = "done"] ELSE log
=============================================================================
