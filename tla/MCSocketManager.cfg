CONSTANTS
  Pcb = {1, 2, 3}
  NumSockets = 2
  RingSize = 3
  Segments <- MCSegments
  ChannelSize = 1
  SendRoom = 1
  MaxTry = 1
  MaxConnections = 3
  MaxSegments = 2
  ManySockets = 3
  ManyBytes = 3
  ManyRoom = 2
SPECIFICATION EitherSpec
INVARIANTS SlotsHoldTheirConnection BothWaysInOrder
PROPERTIES CommandsFlow
