CONSTANTS
  CountWrap = 5
  MinDeadtime = 1
  Maxes = {2, 3}
  Deadtimes = {1, 2}
  Duties <- MCDuties
  Scale = 3
  BusGap = 2
  Slice = 3
  Ctxs = {0, 1}
  Phases = {"a", "b"}
  Channels = {0, 1, 2}
  Turn = 2
  Speeds <- MCSpeeds
  Angles <- MCAngles
  Careful = TRUE
  NULL = NULL
  Slot = {0}
  Name = {x, y}
  Socket = {1}
  Depth = 2
  TickNum = 10
  TickDen = 3
  Every = {1, 2}
  MaxUsec = 1000
  EthBatch = 2
  MaxTicks = 4
  MaxCmds = 5
SPECIFICATION EitherSpec
INVARIANTS HoldsItsLatest NoSampleMissed DumpIsWhatWasAnnounced StreamsAligned
INVARIANTS PulsesAsAsked ControllersBounded
PROPERTIES DeadtimeKept
CHECK_DEADLOCK FALSE
