CONSTANTS
  RecvLength = 6
  MaxPending = 3
  MaxArgc = 2
  MaxArgLength = 1
  Window = 2
  TypedArgs = 3
  TypedLength = 2
  uart = uart
  eth = eth
  set = set
  help = help
  info = info
  Source = {uart, eth}
  Console = uart
  ExecOrder <- UartFirst
  Quick = {set}
  Restartable = {help}
  Guarded = {info}
  Help = help
  Typed = {set, help, info}
  Pieces <- InfoIsLonger
  LinesWindow = 4
  Polite = TRUE
  Ctx = {"Id*", "Iq*", "Vd*", "Vq*", "omega_m*", "Td*"}
  Ts = 2
  Periods = {0, 2, 5}
  MaxTime = 5
  Legs = {0, 1, 2, 3}
  VsiLegs = {1, 3}
  Targets = {"Iq*", "omega_m*"}
  MaxCmds = 5
  Careful = TRUE
  NULL = NULL
SPECIFICATION EitherSpec
INVARIANTS RingHoldsVerdicts RunsWhatWasTyped AnswersReachTheirLine
INVARIANTS InjectionSound StoppedIsAtRest
PROPERTIES EveryLineIsAnswered ListingEnds
