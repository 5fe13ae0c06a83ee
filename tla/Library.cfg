SPECIFICATION LibrarySpec
CONSTANTS
  Releases = {r1, r2}
  NoRelease = none
  Fetchers = {q, n}
  MaxFetches = 2
  MaxPlays = 1
  CacheFiles = {1, 2, 3}
  PackTorrents = {"pack", "single"}
  PackOf <- TwoPacks
  CacheBudget = 1
  ForgetAge = 2
  StalledAfter = 1
  LoadTime = 1
  CacheOps = 4
  Handlers = {h1, h2}
  Nobody = Nobody
  MaxRequests = 2
  MaxSiteEdits = 1
  MaxFaults = 1
  Pids = {1, 2, 3, 4, 5, 6}
  UpVersions = {1, 2, 3}
  BadVersions = {2}
  SlowStop = FALSE
  SecondLaunch = FALSE
  MaxUpFaults = 2
  MaxUpOps = 4
  Devices = {11, 12}
  DeviceIDs = {1, 2, 3}
  MaxPending = 1
  HostTabs = {1}
  MaxTokens = 2
  MaxAccFaults = 1
  MaxAccOps = 3
  Marks = {"season", "part", "roman", "dash", "other"}
  EntryCount = 3
  Lengths = {2}
  Found <- SomeFound
  MaxFound = 3
SYMMETRY LibrarySymmetry
CHECK_DEADLOCK FALSE
INVARIANTS  SyncSafe  ChoiceSafe
PROPERTIES  SyncKeeps 
