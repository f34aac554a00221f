CONSTANTS
  NUM_LEGS = 3
  LegNumbers = {0, 2, 3}
  Voltages = {0, 80, 300}
  Frequencies <- SmallFrequencies
  Ramptimes = {0, 1}
  Switching = {50, 250000}
  Deadtimes = {20, 400000}
  MaxPwmCommands = 3
  DIVIDER = 2
  ETH_LIMIT = 2
  EthCap = 5
SPECIFICATION EitherSpec
INVARIANTS VoltageBetween BootOrder
PROPERTIES RampArrives LwipTimersRun
CHECK_DEADLOCK FALSE
