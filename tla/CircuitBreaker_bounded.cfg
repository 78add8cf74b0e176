SPECIFICATION FairSpec
CONSTANTS
    Calls = {c1, c2, c3, c4}
    FailureThreshold = 3
    SuccessThreshold = 2
    MinimumCalls = 4
    RateThreshold = 50
    HalfOpenMaxCalls = 2
    CallsBounded = TRUE
    MaxWindow = 4
    MaxFailures = 5
    MaxCancels = 1
INVARIANTS ProbesBounded ProbationIsExclusive
PROPERTIES SlotsFreeUpUncancelled
