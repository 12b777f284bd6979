SPECIFICATION BillSpec
CONSTANTS
    r1 = r1
    r2 = r2
    d1 = d1
    Request = {r1}
    Reader = {d1}
    MaxCycles = 1
    MaxCalls = 2
    MaxTroubles = 0
PROPERTY ManualStays
CHECK_DEADLOCK FALSE
