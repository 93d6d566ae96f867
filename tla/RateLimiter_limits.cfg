SPECIFICATION Spec
CONSTANTS
    burst = burst  day = day  each = each  pool = pool  grp = grp  u = u  srv = srv
    r1 = r1  r2 = r2  p1 = p1  p2 = p2  a1 = a1
    QuarantineCallers = QuarantineCallers  QuarantineTargets = QuarantineTargets
    NoLimit = NoLimit  Nothing = Nothing
    Definition <- AllLimits
    Enabled <- LongLimits
    Group = {grp}
    Subject = {u, srv}
    Member <- InGroup
    Request = {r1, r2}
    Call <- OneUser
    Replica = {p1, p2}
    Task = {a1}
    Change <- AnyChange
    FailOpen = TRUE
    QuarantineFailClosed = TRUE
    CacheTTL = 1
    MaxTime = 1
    MaxFaults = 1
INVARIANTS
    TypeOK
    WithinLimit
    NothingUncounted
    BurstSparesDay
    QuarantineHolds
CHECK_DEADLOCK FALSE
