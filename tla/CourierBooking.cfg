SPECIFICATION Spec
CONSTANTS
    k1 = k1
    k2 = k2
    r1 = r1
    r2 = r2
    s1 = s1
    s2 = s2
    Courier = {k1, k2}
    Request = {r1, r2}
    Slot = {s1, s2}
    MaxAttempts = 2
    MaxRows = 2
    MaxJobs = 2
    MaxParcels = 2
    MaxEvents = 3
INVARIANTS TypeOK OneParcelPerLane BookedIsWorkedOn ParcelIsKnown
SYMMETRY ActorSymmetry
CHECK_DEADLOCK FALSE
