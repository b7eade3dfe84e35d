CONSTANTS
    a1 = a1  a2 = a2  m1 = m1
    j1 = j1  j2 = j2  c1 = c1  c2 = c2
    Lane = lane
    NoRun = NoRun
    p1 = p1  p2 = p2  drep = drep  option = option
    None = None  Failed = Failed
    Proposals = {p1, p2}
    Expires <- MCExpires
    PowerRuns = {"bulk", "read"}
    LastEpoch = 2
    Dreps = {drep, option}
    Special = {option}
    Actions = {"first", "second"}
    Submitted <- MCSubmitted
    Expiration <- MCExpiration
    ACTIVITY_WINDOW = 2
    LastEpochOfDreps = 5
    Runs = {a1, a2, m1}
    Jobs = {j1, j2}
    JobOf <- MCJobOf
    CronRuns = {a1, a2}
    HeavyRuns = {a1, a2}
    ReadRuns = {}
    InstanceOf <- MCInstanceOf
    Ttl <- MCTtl
    LaneTtl = 1
    Strict = TRUE
    MaxLag = 1
    MaxAttempts = 1
    MaxFaults = 1
SPECIFICATION MCSpec
CHECK_DEADLOCK FALSE
INVARIANTS HeavyRunsSerialized NoLeakWithoutFault RowsWhole ActiveNeverCounted
PROPERTIES ClearedOnlyAfterWork ImplementsJobExclusion
