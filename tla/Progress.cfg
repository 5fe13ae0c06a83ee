SPECIFICATION ProgressSpec
CONSTANTS
  Callers = {c1, c2}
  Every = 4
  MaxWait = 2
  MaxConsecutive = 5
  Handlers = {h1}
  Nobody = Nobody
  MaxRequests = 2
  MaxSiteEdits = 1
  MaxFaults = 1
  Peers = {p1, p2}
  DeadPeers = {p2}
  Seeders = {p1, p2}
  PeerPieces = {1}
  NoPeer = none
  ShedAfter = 2
  RescueAfter = 2
  RegroupAfter = 1
  RegroupMax = 2
  RememberedPeers = 1
  PeerAgeCap = 2
  MaxConnects = 3
  RaceN = 3
  RaceWidth = 2
  HeldBefore = {2}
  MaxRuns = 2
  EventBuffer = 2
  MaxPositions = 2
  LaunchesCross = FALSE
CHECK_DEADLOCK FALSE
INVARIANTS  RunsNeverOverlap
PROPERTIES LoopKeepsInterval JobKeepsRunning DirtyDrains LonePeerSurvives PeersAreKept RaceIsDecided ClosedIsUnpinned
