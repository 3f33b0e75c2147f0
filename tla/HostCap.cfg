\* Three workers, two slots: full contention, cancelled scans, lost sessions and answers.
CONSTANTS
    Workers = {w1, w2, w3}
    Cap = 2
    Faults = {"cancel", "sessionloss"}
    Free = Free
    Orphan = Orphan
SPECIFICATION FairSpec
INVARIANTS NoSlotLeaked
PROPERTIES ImplementsPermits NoSlotOverlooked
