CONSTANTS
    c1 = c1
    c2 = c2
    backoff = backoff
    r1 = r1
    r2 = r2
    r3 = r3
    r4 = r4
    votes = votes
    Global = Global
    Containers = {c1, c2}
    Kinds = {backoff}
    MaxMoment = 2
    MaxFaults = 1
    Row = {1, 2, 3}
    Lists <- FirstLists
    Limits = {1, 2}
    Overlap = 1
    MaxGone = 2
    Callers = {c1, c2}
    GateKinds <- TwoKinds
    Cooldown <- TwoLong
    Threshold <- OneOrTwo
    BurstMax = 1
    BurstWindow = 2
    EventWindow = 1
    MaxSends = 2
    Horizon = 3
    Requests = {r1, r2, r3, r4}
    Endpoints = {votes}
    EndpointOf <- OfTheirs
    BaseMax <- OnePlace
    Scales = {34, 100}
    Classes = {"rate_limit", "server", "timeout", "network", "unknown"}
    MaxRetries = 3
    Budget <- Budgets
SPECIFICATION MCFairSpec
CHECK_DEADLOCK FALSE
INVARIANTS NothingUnpublished LossBound TailBound
PROPERTIES NeverShortened EveryoneLearns RequestsAdmitted LimiterPasses
