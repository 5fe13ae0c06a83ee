SPECIFICATION SyncSpec
CONSTANTS
    Handlers = {h1, h2}
    Nobody = Nobody
    MaxRequests = 3
    MaxSiteEdits = 0
    MaxFaults = 1
INVARIANT CompletionSurvives
