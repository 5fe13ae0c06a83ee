SPECIFICATION Spec
CONSTANTS
    e1 = e1
    e2 = e2
    e3 = e3
    showA = showA
    showB = showB
    Episodes = {e1, e3}
    ShowOf <- MCShowOf
    EpisodeNo <- MCEpisodeNo
    Releases = {r1}
    NoRelease = NoRelease
    NoEpisode = NoEpisode
    Clients = {c1}
    queueRetries = 1
    MaxOps = 3
    MaxFaults = 1
    MaxClock = 0
SYMMETRY ClientSymmetry
INVARIANT CancelStopsFlight
