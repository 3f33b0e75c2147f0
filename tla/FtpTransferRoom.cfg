\* One connection more than workers: some Send always has one, two calls can be parked.
CONSTANTS
    Workers = {w1, w2, w3}
    Callers <- WorkerCalls
    MaxPerHost = 4
    IdleTTL = 1
    NoopAfter = 0
SPECIFICATION TSpec
INVARIANTS HardCap ParkedOnce NoLostWakeup ClosedKeepsNone HeldInOrder SomeoneMoves
PROPERTIES WokenInOrder WaiterServed SendsEnd
