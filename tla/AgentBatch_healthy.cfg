\* Two jobs of different submitters, two workers of which one may die, no lease lapses under a running one.
CONSTANTS
    j1 = j1  j2 = j2  w1 = w1  w2 = w2  u1 = u1  k1 = k1
    NoWorker = NoWorker  NoKey = NoKey
    Job = {j1, j2}
    Worker = {w1, w2}
    UserOf <- TwoUsers
    KeyOf <- NoKeys
    Total <- OneTwo
    MaxActive = 1
    MaxCrashes = 1
    MaxFaults = 2
    MaxOverruns = 0
SPECIFICATION FairSpec
INVARIANTS TypeOK SingleRunner ExactlyOnce RerunsPaidFor
PROPERTIES ImplementsLifecycle EveryJobEnds
