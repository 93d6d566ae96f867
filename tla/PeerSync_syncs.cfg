\* One item; the scheduler and a sync an administrator asks for; two changes, an override,
\* a failed call, a restart.
SPECIFICATION FairSpec
CONSTANTS
    a = a
    m1 = m1
    Item = {a}
    Manual = {m1}
    NoItem = NoItem
    MaxChanges = 2
    MaxEdits = 1
    MaxFaults = 1
    MaxGeneration = 1
    MaxRestarts = 1
INVARIANTS TypeOK OrphanWasGone OverrideHolds
PROPERTIES Mirrors
CHECK_DEADLOCK FALSE
