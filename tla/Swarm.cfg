SPECIFICATION SwarmSpec
CONSTANTS
  EngHashes = {1, 2}
  EngFiles = {1}
  EngCalls = {8, 9}
  EngMaxID = 2
  EngTTL = 1
  EngMaxRuns = 2
  EngMaxCalls = 2
  EngLegacy = 2
  EngDamage = FALSE
  PieceCount = 2
  Senders = {s1, s2}
  Liars = {s2}
  PieceHashers = 1
  MaxArrivals = 3
  MaxIOFaults = 1
  MaxBoots = 1
  Conns = {"a", "b"}
  FastConns = {"a"}
  WireChunks = {1, 2}
  Pipeline = 2
  LocalReqq = 2
  ReadyMax = 1
  WireFaults = 1
  InfoConns = {"x", "y"}
  InfoPieces = {1, 2}
  InfoChunks = {1, 2}
  HashKnown = "both"
  RepeatsState = FALSE
  MaxInfoFaults = 1
  Addrs = {"a", "b", "c"}
  PoolMax = 2
  HighWater = 1
  HalfOpenMax = 2
  Experiment = 1
  PoolOps = 4
  AnnHashes = {1, 2}
  AnnTrackers = {1}
  MaxPerTracker = 1
  AnnInterval = 1
  AnnHorizon = 2
  AnnOps = 3
  DhtNodes = {1, 2, 3, 4, 5}
  Table = {}
  Bootstrap = {3, 4, 5}
  KnowsOf <- Known
  Silent = {2}
  Tokenless = {5}
  Alpha = 2
  KNearest = 2
  MaxTraversals = 1
  RtNodes = {1, 2, 3, 4}
  BucketOf <- OneBucket
  Insecure = {4}
  BucketK = 2
  PingTries = 2
  MaxQueries = 1
  WsTorrents = {1, 2}
  WsSize <- MCWsSize
  WsSlice = 2
  WsLimit = 2
  WsWindow = 0
  WsEvents = 1
CHECK_DEADLOCK FALSE
INVARIANTS  PiecesSafe  DhtSafe
PROPERTIES LateSaveDropped StoresPieces SwarmKeeps
