SPECIFICATION Spec
CONSTANTS
    Workers = {w1, w2}
    LastOffset = 3
    Poison = {2}
    Malformed = {}
    Unsubscribed = {1}
    RetryForever = FALSE
    MaxRetries = 1
    Stalls = FALSE
    MaxFaults = 4
    None = None
CHECK_DEADLOCK FALSE
SYMMETRY Symmetry
INVARIANTS HandlerIsExclusive
