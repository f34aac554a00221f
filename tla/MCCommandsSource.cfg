CONSTANTS
  uart = uart
  eth = eth
  set = set
  help = help
  info = info
  NULL = NULL
  Source = {uart, eth}
  Console = uart
  ExecOrder <- UartFirst
  Quick = {set}
  Restartable = {help}
  Guarded = {info}
  Help = help
  Typed = {set, help, info}
  Pieces <- TwoResponders
  Window = 2
  Polite = FALSE
SPECIFICATION Spec
INVARIANTS ResponseOnOwnStream
