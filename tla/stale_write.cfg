SPECIFICATION Spec
CONSTANTS
  Mode = "RTU"
  Kinds <- WritesAndBroadcasts
  Retries = 0
  PollRetries = 0
  WriteRetries = 0
  UnresponsiveThreshold = 2
  MaxCalls = 2
  MaxNoise = 1
INVARIANTS BroadcastWasSent
