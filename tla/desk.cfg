SPECIFICATION DeskSpec
CONSTANTS
  Parts = {"analyzer", "table", "io", "debugger", "server", "update", "release", "traffic", "bytes", "builder"}
  GoodTexts = {"good"}
  BadTexts = {"bad"}
  MaxParses = 2
  MaxLive = 2
  MaxHistory = 1
  Rows = 4
  ChannelKinds = {"tcp", "serial", "udp"}
  MaxCalls = 3
  MaxWrites = 1
  MaxDrops = 1
  MaxWaiting = 1
  MaxOpens = 2
  MaxSends = 1
  MaxCloses = 1
  MaxMoves = 2
  MaxIds = 2
  MaxClients = 0
  MaxClicks = 2
  MaxChecks = 2
  MaxStarts = 2
  MaxLaunches = 2
  Tags <- MCTags
  MaxReleases = 2
  AssetLists <- MCAssetLists
  MaxRows = 2
  SampleRate = 2
  ChunkRows = 1
  MaxEvents = 3
  MaxTouches = 2
  SavedForms <- MCForms
  TypedIds = {0, 247, 248}
  TypedAddresses <- MCAddresses
  TypedQuantities = {1, 9, 2000}
  TypedTexts <- MCTexts
  MaxEdits = 2
INVARIANTS ShowsCurrent QuietAgrees ConnectionsKeptApart ClientsTracked ProgramKept OfferIsRight MonitorsComplete BuilderTruthful
PROPERTIES BatchCovers SentIsOnWire UpdateIsWanted DeskSettles
CHECK_DEADLOCK FALSE
