SPECIFICATION Spec
CONSTANTS
    p1 = p1
    p2 = p2
    m1 = m1
    m2 = m2
    x1 = x1
    y1 = y1
    s1 = s1
    s2 = s2
    Person = {p1, p2}
    Inbound = {m1, m2}
    Media = {x1}
    Bulk = {y1}
    Chat <- ChatOf
    Batch <- Bodies
    Slot = {s1, s2}
    MaxAttempts = 2
    MaxJobs = 2
    MaxSends = 2
    MaxTroubles = 1
INVARIANTS TypeOK ToldOnce UnreadOnce StoredIsTold  CountedOnce
PROPERTIES ForwardOnly NeverResent
SYMMETRY SlotSymmetry
CHECK_DEADLOCK FALSE
