\* Liveness under every fault.
CONSTANTS
    Keys = {k1}
    MaxId = 1
    Pods = {p1, p2}
    WorkersPerPod = 1
    Budgets = {2}
    DefaultBudget = 2
    MaxDelay = 1
    Threshold = 0
    Window = 0
    Horizon = 0
    ExpireCap = 0
    Faults = {"kill", "sigterm", "dberror", "latelease"}
    NoOne = NoOne
    NoKey = NoKey
SPECIFICATION FairSpec
PROPERTIES LeaseRecovered QueueDrains
