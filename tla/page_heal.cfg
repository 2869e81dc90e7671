SPECIFICATION FairSpec
CONSTANTS
  Modes = {"Tcp", "Rtu"}
  NoMode = NoMode
  Ids = {1, 2}
  MaxPosted = 3
  MaxAlerts = 1
  MaxClicks = 4
  MaxLosses = 1
CHECK_DEADLOCK FALSE
PROPERTY PollsKeepFlowing
