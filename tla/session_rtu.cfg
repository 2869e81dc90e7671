SPECIFICATION FairSpec
CONSTANTS
  Mode = "RTU"
  Kinds <- WithBroadcasts
  Retries = 0
  PollRetries = 0
  WriteRetries = 0
  UnresponsiveThreshold = 2
  MaxCalls = 2
  MaxNoise = 1
INVARIANTS LockMeansOpenCall ConnectedMeansOpen
PROPERTIES EveryCallAnswered ServiceImplemented
