SPECIFICATION SessionsSpec
CONSTANTS
    Clients = {c1, c2}
    Sources = {"release1", "release2"}
    reaper = reaper
    MaxSessions = 3
    ECallers = {1}
    StallPolls = 2
    LivePolls = 2
    MaxECOps = 1
INVARIANTS SessSafe ClientSafe
PROPERTIES AbandonedEnds WaitsEnd
CHECK_DEADLOCK FALSE
