SPECIFICATION Spec
CONSTANTS
  Mode = "TCP"
  Kinds <- WithMalformed
  Retries = 0
  PollRetries = 0
  WriteRetries = 1
  UnresponsiveThreshold = 2
  MaxCalls = 2
  MaxNoise = 1
INVARIANTS TypeOK AnsweredExactlyOnce NoStuckRequest OwnAnswer SuccessWasSent AbortedIsQuiet
