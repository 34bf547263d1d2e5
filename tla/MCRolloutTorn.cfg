CONSTANTS
    Callers = {c1, c2}
    MaxItems = 2
    Meta = meta
    QueueCap = 2
    MaxBatch = 2
    MaxFaults = 2
    MaxCrashes = 1
    None = None
SPECIFICATION Spec
INVARIANT PromisedIsLoadable
CHECK_DEADLOCK FALSE
