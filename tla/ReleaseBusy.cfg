\* One hook Job, then the pod of the release run.
CONSTANTS
    Workers = {"w1", "w2", "w3"}
    BaseDelay = 1
    MaxDelay = 20
    TickUnits = 10
    ParkTicks = 3
    LeaseTicks = 1
    LiveAfter = 4
    FailureThreshold = 2
    Revisions = {1}
    BackoffLimit = 0
SPECIFICATION RSpec
PROPERTIES OnlyWedgedRestarts
