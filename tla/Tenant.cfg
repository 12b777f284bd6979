SPECIFICATION Spec
CONSTANTS
    r1 = r1
    r2 = r2
    d1 = d1
    s1 = s1
    Request = {r1, r2}
    Reader = {d1}
    Slot = {s1}
    MaxCycles = 2
    MaxCalls = 3
    MaxTroubles = 1
    MaxAttempts = 2
    MaxJobs = 1
INVARIANTS TypeOK SuspensionIsBacked CacheAgrees ListAgrees EndedIsLogged SuccessEnds
SYMMETRY ActorSymmetry
CHECK_DEADLOCK FALSE
