SPECIFICATION Spec
CONSTANTS
  LineModes = {"RTU"}
  MaxAduSize = 260
  MaxTcpBufferedBytes = 1024
  MaxDroppedBytes = 3
  MaxSent = 0
  MaxNoiseBytes = 0
  MaxSilences = 0
  Starts = {0}
  Quantities = {1, 2, 3}
  Words = {0}
  MaxItems = 0
  Addresses = {0}
INVARIANT RtuDetected
CHECK_DEADLOCK FALSE
