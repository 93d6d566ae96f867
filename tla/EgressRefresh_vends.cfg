\* Two vends of one replica and one of another, fairness; a death, any failing call, a callback delivered twice.
SPECIFICATION FairSpec
CONSTANTS
    p1 = p1  p2 = p2  v1 = v1  v2 = v2  v3 = v3
    c1 = c1  c2 = c2  c3 = c3  s1 = s1  s2 = s2
    NoToken = NoToken  Nobody = Nobody
    Process = {p1, p2}
    Consent = {s1, s2}
    Vend = {v1, v2, v3}
    Callback = {c1, c2, c3}
    ProcessOf <- Siblings
    StateOf <- FirstTwice
    Refreshable = {s1}
    FaultKind = {"acquire", "acquired", "read", "call", "reply", "exchange", "put", "release"}
    MaxExpiries = 1
    MaxFaults = 1
    MaxCrashes = 1
    MaxOverruns = 0
    MaxDisconnects = 1
INVARIANTS
    TypeOK
    RotatedNeverReplayed
    FailedOnlyIfDead
    VaultInSync
PROPERTY
    StaleIsResolved
