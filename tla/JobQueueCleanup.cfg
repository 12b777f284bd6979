SPECIFICATION Spec
CONSTANTS
    k1 = k1
    d1 = d1
    q1 = q1
    s1 = s1
    s2 = s2
    i1 = i1
    i2 = i2
    Job = {1, 2}
    Instance = {i1, i2}
    Slot = {s1, s2}
    Queue = {q1}
    QueueOf <- MCQueueOf
    SlotQueue <- MCSlotQueue
    SerialKey <- MCSerialKey
    DedupKey <- MCDedupKey
    Delayed = {2}
    MaxAttempts = 2
    ScanFactor = 3
    ScanCap = 20
    LeaseCovers = FALSE
    Overlap = FALSE
    Cleanup = TRUE
    MaxAge = 2
    MaxFaults = 0
    NoKey = NoKey
    NoOne = NoOne
INVARIANT RunOwnsRow
