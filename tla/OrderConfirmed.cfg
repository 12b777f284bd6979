SPECIFICATION Spec
CONSTANTS
    c1 = c1
    c2 = c2
    c3 = c3
    Caller = {c1, c2}
    MaxCalls = 2
    MaxFaults = 0
    WindowCovers = TRUE
INVARIANT ConfirmedIsKept
SYMMETRY CallerSymmetry
CHECK_DEADLOCK FALSE
