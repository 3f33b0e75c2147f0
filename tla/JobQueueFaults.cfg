\* One job at a time, purged and enqueued again, two pods, every fault.
CONSTANTS
    Keys = {k1}
    MaxId = 2
    Pods = {p1, p2}
    WorkersPerPod = 1
    Budgets = {2}
    DefaultBudget = 1
    MaxDelay = 1
    Threshold = 1
    Window = 1
    Horizon = 0
    ExpireCap = 1
    Faults = {"kill", "sigterm", "dberror", "latelease"}
    NoOne = NoOne
    NoKey = NoKey
SPECIFICATION Spec
INVARIANTS TypeOK AttemptsAudited OutcomeAudited BudgetRespected QueueInv
PROPERTIES TerminalIsFinal ImplementsLifecycle LeaseRespected
