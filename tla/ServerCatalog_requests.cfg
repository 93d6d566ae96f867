SPECIFICATION Spec
CONSTANTS
    v1 = v1
    v2 = v2
    t1 = t1
    s1 = s1
    s2 = s2
    NoDoc = NoDoc
    Millisecond <- Milliseconds
    Slot = {s1, s2}
    Version = {v1, v2}
    Tool = {t1}
    Job <- AllJobs
    First <- FirstStates
    MaxRequests = 3
    MaxFaults = 1
SYMMETRY Symmetry
INVARIANTS TypeOK VersionsKept DecisionsStand
PROPERTY NoLostEdit
CHECK_DEADLOCK FALSE
