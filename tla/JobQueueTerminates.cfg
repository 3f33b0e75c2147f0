\* Design C2: every job reaches a terminal status.
CONSTANTS
    Keys = {k1}
    MaxId = 1
    Pods = {p1, p2}
    WorkersPerPod = 1
    Budgets = {2}
    DefaultBudget = 2
    MaxDelay = 1
    Threshold = 0
    Window = 0
    Horizon = 0
    ExpireCap = 0
    Faults = {}
    NoOne = NoOne
    NoKey = NoKey
SPECIFICATION FairSpec
PROPERTIES EveryJobTerminates
