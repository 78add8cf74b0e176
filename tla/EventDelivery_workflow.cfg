SPECIFICATION FairSpec
CONSTANTS
    Workers = {w1, w2}
    LastOffset = 4
    Poison = {2}
    Malformed = {3}
    Unsubscribed = {}
    RetryForever = TRUE
    MaxRetries = 1
    Stalls = TRUE
    MaxFaults = 4
    None = None
CHECK_DEADLOCK FALSE
INVARIANTS NothingIsSkipped AppliedInOrder ParkedWasDiagnosed
PROPERTIES ProcessedIsFinal AllSettle
