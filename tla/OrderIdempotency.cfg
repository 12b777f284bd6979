SPECIFICATION AgentSpec
CONSTANTS
    c1 = c1
    c2 = c2
    c3 = c3
    c4 = c4
    Caller = {c1, c2, c3, c4}
    Turn = {c1, c2}
    MaxCalls = 3
    MaxFaults = 1
    WindowCovers = TRUE
INVARIANTS TypeOK ReservationHeld OneOrderPerWindow TurnTypeOK ChatOrdersOnce
PROPERTIES DuplicateIsRecent ImplementsGuard
SYMMETRY CallerSymmetry
