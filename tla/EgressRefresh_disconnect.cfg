\* One vend on each replica, one disconnect, nothing fails.
SPECIFICATION Spec
CONSTANTS
    p1 = p1  p2 = p2  v1 = v1  v2 = v2  v3 = v3
    c1 = c1  c2 = c2  c3 = c3  s1 = s1  s2 = s2
    NoToken = NoToken  Nobody = Nobody
    Process = {p1, p2}
    Consent = {s1, s2}
    Vend = {v1, v2}
    Callback = {c1, c2, c3}
    ProcessOf <- Apart
    StateOf <- FirstTwice
    Refreshable = {s1}
    FaultKind = {}
    MaxExpiries = 1
    MaxFaults = 0
    MaxCrashes = 0
    MaxOverruns = 0
    MaxDisconnects = 1
INVARIANT
    DisconnectSticks
