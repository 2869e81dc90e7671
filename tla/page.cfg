SPECIFICATION FairSpec
CONSTANTS
  Modes = {"Tcp", "Rtu"}
  NoMode = NoMode
  Ids = {1, 2}
  MaxPosted = 3
  MaxAlerts = 1
  MaxClicks = 4
  MaxLosses = 1
INVARIANTS PageTruthful AwaitedAnswerComes
PROPERTIES GivenUpOnlyWhenFailed ConnectSettles DeferredServed
CHECK_DEADLOCK FALSE
