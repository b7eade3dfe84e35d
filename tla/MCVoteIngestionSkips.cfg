CONSTANTS
    PageSize = 2
    Overlap = 1
    MaxTime = 4
    MaxVotes = 4
    MaxForks = 0
    MaxFails = 0
    MaxStops = 0
SPECIFICATION IngestSpec
INVARIANTS AllVotes
