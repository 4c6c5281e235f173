CONSTANTS
  SERIAL_CAP = 3
  RAW_CAP = 3
  UartFifo = 2
  LastByte = 4
  LastScan = 3
  Unprintable = {2}
  Partial = {1}
SPECIFICATION FairSpec
INVARIANTS TypeOK SerialFaithful KeysFaithful
PROPERTY EveryByteSettles
