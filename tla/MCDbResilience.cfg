CONSTANTS
    w1 = w1  w2 = w2  w3 = w3  w4 = w4  r1 = r1
    a1 = a1  a2 = a2  j1 = j1  j2 = j2  c1 = c1  lane = lane  NoRun = NoRun
    Calls = {w1, w2, w3, w4, r1}
    Writes = {w1, w2, w3, w4}
    Guarded = {w3}
    Limit = 2
    MaxQueue = 2
    MaxAttempts = 2
    Threshold = 2
    Window = 1
    Cooldown = 2
    FailFastCooldown = 2
SPECIFICATION MCFairSpec
INVARIANTS Inv
PROPERTIES CallsReturn DegradationEnds RunsRecover
