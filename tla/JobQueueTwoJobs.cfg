\* Two jobs and two workers of one pod: order, batches and SKIP LOCKED.
CONSTANTS
    Keys = {k1, k2}
    MaxId = 2
    Pods = {p1}
    WorkersPerPod = 2
    Budgets = {2}
    DefaultBudget = 2
    MaxDelay = 1
    Threshold = 0
    Window = 0
    Horizon = 1
    ExpireCap = 1
    Faults = {"kill", "sigterm"}
    NoOne = NoOne
    NoKey = NoKey
SPECIFICATION Spec
SYMMETRY KeySymmetry
INVARIANTS QueueInv DrainedHoldsNothing
PROPERTIES OnlyHolderSettles
