CONSTANTS
  Byte = {b0, b1}
  Zero = b0
  BufferSize = 4
  CountWrap = 8
  OUTPUT_BUFFER_LENGTH = 3
  MaxText = 4
  BUFFER_LENGTH = 3
  ChannelSize = 2
  MAX_NUM_BYTES_TO_TRY = 1
  MaxResponse = 4
  MaxOwed = 3
  Header = 2
  Middle = 2
  Footer = 2
  StreamSize = 8
  SndBuf = 7
  MaxPackets = 3
SPECIFICATION EitherSpec
INVARIANTS CoresApart OutputsInOrder PlotsWhatWasSampled
PROPERTIES ImplementsFifo EventuallyDelivered
CHECK_DEADLOCK FALSE
