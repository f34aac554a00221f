CONSTANTS
  NUM_VSI = 3
  NUM_HBRIDGE = 3
  Gaps = {4, 6}
  Amps = {1}
  MaxStarts = 3
  NULL = NULL
  LOG_LENGTH = 3
  N = 1
  Variables = {x, y}
  Modes <- SingleModes
  Packet = 1
  Half = 2
  Pcb = {p, q}
  MAX_BASE_SOCKETS = 2
  SndBuf = 2
  MaxBurst = 1
  MaxTicks = 4
  MaxCommands = 3
  MaxConnections = 2
SPECIFICATION EitherSpec
INVARIANTS ListIntact EveryInterruptServes AxesAgree StreamIsFaithful StreamReachesTheAsker
SYMMETRY Alike
CHECK_DEADLOCK FALSE
