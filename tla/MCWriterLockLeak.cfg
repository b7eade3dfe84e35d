CONSTANTS
    a = a
    b = b
    c1 = c1
    c2 = c2
    s1 = s1
    s2 = s2
    d1 = d1  d2 = d2
    drep = drep  pool = pool
    None = None
    NoRow = NoRow
    VotingDreps = {drep}  VotingPools = {pool}
    Stake <- Powers
    Late = FALSE
    LastVotingEpoch = 2
    Registrable = {d1, d2}
    LastRegistryEpoch = 2
    MaxFaults = 1
    Processes = {a, b}
    Slots = {s1}
    Pool = {c1, c2}
    LeaseEnds = FALSE
    ReleaseFails = FALSE
    Losses = FALSE
    MaxHeld = 2
SPECIFICATION WriterSpec
INVARIANTS NoLeak
