CONSTANTS
    a = a  b = b
    NoRow = NoRow
    Dreps = {a, b}
    Shards = 2
    Registered = {a}
    Rank <- InOrder
    Week = 1
    Window = 1
    MaxFetchFailures = 10
    MinActive = 2
    Stakes = {1, 2}
    MaxEpoch = 2
    MaxMoves = 2
    MaxFails = 1
    MaxStops = 1
SPECIFICATION MCFairSpec
INVARIANTS LogComplete
PROPERTIES ClearsJustified Converges TotalsConverge
