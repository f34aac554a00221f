CONSTANTS
  NULL = NULL
  Slot = {0}
  Name = {x, y}
  Socket = {1}
  Depth = 2
  TickNum = 10
  TickDen = 3
  Every = {1, 2}
  MaxUsec = 8
  EthBatch = 2
  MaxTicks = 4
  MaxCmds = 5
SPECIFICATION Spec
INVARIANTS NoSampleMissed
CHECK_DEADLOCK FALSE
