SPECIFICATION Spec
CONSTANTS
  INBUF = 3
  LINE_MAX = 2
  FifoSize = 1
  MaxSerial = 2
  MaxKeys = 3
INVARIANT NoLostInput
