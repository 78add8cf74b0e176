SPECIFICATION FairSpec
CONSTANTS
    p1 = p1
    p2 = p2
    r1 = r1
    r2 = r2
    w1 = w1
    w2 = w2
    None = None
    Procs = {p1}
    Readers = {r1, r2}
    Writers = {w1}
    ProcOf <- OneProcess
    MaxVersion = 2
    MaxGen = 3
    MaxFailures = 2
    MaxCrashes = 0
    MaxEvictions = 1
    MaxFaults = 2
    Active <- OneOrTheOther
INVARIANT UnsafeIsRetried
PROPERTIES UnsafeEnds ReadsReturn
