SPECIFICATION Spec
CONSTANTS
    k1 = k1  k2 = k2  t1 = t1  t2 = t2  w1 = w1  w2 = w2
    r1 = r1  p1 = p1  p2 = p2
    NoToken = NoToken  Nobody = Nobody  Missing = Missing
    Key = {k1, k2}
    Token = {t1, t2}
    Write = {w1, w2}
    Read = {r1}
    Process = {p1, p2}
    ProcessOf <- Spread
    KeyOf <- OnK2K1
    ValueOf <- AddThenDrop
    Asked <- OneOrAll
    Legacy <- OldK1
    Hash <- TwoHashes
    Capacity = 1
    MaxShards = 2
    Retries = 2
    MaxFaults = 1
    MaxCrashes = 1
    MaxOverruns = 1
INVARIANTS
    TypeOK
    RootReadable
    LeaseExcludes
PROPERTIES
    ImplementsMap
    EncryptedStays
CHECK_DEADLOCK FALSE
