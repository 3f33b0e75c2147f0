\* As many connections as workers, the defaults' proportion.
CONSTANTS
    Workers = {w1, w2}
    Callers <- WorkerCalls
    MaxPerHost = 2
    IdleTTL = 1
    NoopAfter = 0
SPECIFICATION TSpec
PROPERTIES SendsEnd
