CONSTANTS
    cron = cron
    r1 = r1
    r2 = r2
    a = a
    b = b
    Workers = {cron, r1, r2}
    Processes = {a, b}
    Home <- TwoProcesses
    Bulk = cron
    MaxEpoch = 3
    MaxRuns = 2
    PageSize = 2
    Overlap = 1
    MaxTime = 4
    MaxVotes = 3
    MaxForks = 1
    MaxFails = 1
    MaxStops = 1
SPECIFICATION MCFairSpec
INVARIANTS StatusTrue VotesComplete
PROPERTIES IngestKeepsStatusLocked DatabaseConverges
