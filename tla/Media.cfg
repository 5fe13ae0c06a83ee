SPECIFICATION MediaSpec
CONSTANTS
  RdPieces = 2
  Streams = {1, 2}
  RdAhead = 2
  RdOps = 1
  WsCount = 2
  WsOps = 4
  WsClock = 1
  CatMax = 3
  CatTotal = 2
  Pages = {1, 2}
  CatLoads = 2
  MalEdits = 3
  MalAsks = 1
  MalFaults = 1
  Callers = {"a", "b"}
  MaxRenewals = 2
  MaxLogins = 2
  MaxTokenFaults = 1
  FrShows = {1, 2, 3}
  FrHops = 2
  Visitors = {1, 2}
  FrEvents = 1
  FrUntitled = {3}
  CgShows = {1, 2}
  CgSeed = {1}
  CgBatch = 1
  CgEvents = 1
  AlPages = {1}
  AlJobs = {3}
  AlToggles = {4}
  AlAccounts = {1}
  AlRetries = 1
  AlCalls = 2
  AlFaults = 2
  AlLogins = 1
  LfFiles = {1, 2}
  LfRoots = {1, 2}
  LfHome <- MCLfHome
  LfLinked = {2}
  LfEvents = 2
  RwEpisodes = {1, 2}
  RwCovers <- MCRwCovers
  RwDubbed = {2}
  RwPolls = 2
  RwFaults = 1
  RwChanges = 1
  FvEdits = 3
  FvSiteEdits = 1
  FvFaults = 1
CHECK_DEADLOCK FALSE
INVARIANTS StreamSafe 
 
