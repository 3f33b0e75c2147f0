\* Two revisions with Jobs of two pods each; then a pod of three loops, the delays of
\* the worker command and a tick of half a second.
CONSTANTS
    Workers = {"w1", "w2", "w3"}
    BaseDelay = 1
    MaxDelay = 20
    TickUnits = 10
    ParkTicks = 3
    LeaseTicks = 1
    LiveAfter = 4
    FailureThreshold = 2
    Revisions = {2, 3}
    BackoffLimit = 1
SPECIFICATION RSpec
INVARIANTS ReleaseTypeOK KnownOnce LiveWhilePolling NothingTwice SchemaFirst
PROPERTIES ImplementsSchemaSteps StuckPodRestarts SlowsDown HooksEnd
