SPECIFICATION DebuggerSpec
CONSTANTS
  MaxOpens = 2
  MaxSends = 0
  MaxCloses = 0
  MaxMoves = 1
INVARIANT ShowsLatest
CHECK_DEADLOCK FALSE
