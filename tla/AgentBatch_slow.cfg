\* A submission of two items and its retry, two workers, two leases that lapse under a running one.
CONSTANTS
    j1 = j1  j2 = j2  w1 = w1  w2 = w2  u1 = u1  k1 = k1
    NoWorker = NoWorker  NoKey = NoKey
    Job = {j1, j2}
    Worker = {w1, w2}
    UserOf <- OneUser
    KeyOf <- SameKeys
    Total <- TwoItems
    MaxActive = 1
    MaxCrashes = 1
    MaxFaults = 1
    MaxOverruns = 2
SPECIFICATION Spec
SYMMETRY WorkerSymmetry
INVARIANTS NoItemSkipped UniqueKey
