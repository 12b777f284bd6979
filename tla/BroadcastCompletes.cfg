SPECIFICATION FairSpec
CONSTANTS
    c1 = c1
    c2 = c2
    r1 = r1
    r2 = r2
    s1 = s1
    s2 = s2
    Contact = {c1, c2}
    Missing = {c2}
    Request = {r1}
    Slot = {s1, s2}
    MaxAttempts = 2
    MaxJobs = 3
    MaxCalls = 1
    MaxTroubles = 0
PROPERTY CompletesWhenCounted
CHECK_DEADLOCK FALSE
