SPECIFICATION Spec
CONSTANTS
  LineModes = {"TCP", "RTU", "ASCII"}
  MaxAduSize = 260
  MaxTcpBufferedBytes = 1024
  MaxDroppedBytes = 3
  MaxSent = 2
  MaxNoiseBytes = 2
  MaxSilences = 2
  Starts = {0, 65411, 65535}
  Quantities = {1, 2, 7, 8, 9, 17, 123, 124, 125, 126, 1968, 1969, 2000, 2001}
  Words = {0, 1, 258, 65280, 65535}
  MaxItems = 5
  Addresses = {0, 1, 9998, 9999, 10000, 19998, 19999, 29999, 30000, 39999, 40000, 49998, 49999, 65534, 65535}
INVARIANTS FramesKept ExchangeFits ExchangeRead ConversionsAgree
CHECK_DEADLOCK FALSE
