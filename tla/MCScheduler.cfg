CONSTANTS
  exec = exec
  sm = sm
  slow = slow
  NULL = NULL
  Task = {exec, sm, slow}
  Controller = {exec}
  Interval <- Intervals
  MaxOps = 2
  MaxOverrun = 1
  Horizon = 6
SPECIFICATION FairSpec
INVARIANTS ListMatchesFlags SliceIsComplete LatenessBounded
PROPERTIES RunsOnceIfRegistered EveryTaskRuns
CHECK_DEADLOCK FALSE
