\* components.md: SIGTERM waits for transfers in flight.
CONSTANTS
    Keys = {k1}
    MaxId = 1
    Pods = {p1, p2}
    WorkersPerPod = 1
    Budgets = {2}
    DefaultBudget = 2
    MaxDelay = 1
    Threshold = 1
    Window = 1
    Horizon = 0
    ExpireCap = 1
    Faults = {"sigterm"}
    NoOne = NoOne
    NoKey = NoKey
SPECIFICATION Spec
PROPERTIES InFlightRecorded
