\* Two overlapping instances and a poison row; transactions stay open, but for less
\* than the bias; batches of two split a timestamp,
\* and exceed the parameters of a statement if both rows are renderable.
CONSTANTS
    Sniffers = {s1, s2}
    PKs = {1, 2, 3}
    Poison = {2}
    BatchSize = 2
    Bias = 2
    MaxTx = 1
    MaxParams = 5
    LastTS = 4
    Faults = {"crash", "dberror"}
SPECIFICATION FairSpec
INVARIANTS TypeOK NothingSkipped
PROPERTIES EveryRowEnqueued
