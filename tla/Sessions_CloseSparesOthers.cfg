SPECIFICATION SessSpec
CONSTANTS
    Clients = {c1, c2}
    Sources = {"release1", "release2"}
    reaper = reaper
    MaxSessions = 3
PROPERTY CloseSparesOthers
CHECK_DEADLOCK FALSE
