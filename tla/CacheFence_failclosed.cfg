SPECIFICATION Spec
CONSTANTS
    p1 = p1
    p2 = p2
    r1 = r1
    r2 = r2
    w1 = w1
    w2 = w2
    None = None
    Procs = {p1}
    Readers = {r1}
    Writers = {w1, w2}
    ProcOf <- OneProcess
    MaxVersion = 3
    MaxGen = 3
    MaxFailures = 1
    MaxCrashes = 0
    MaxEvictions = 0
    MaxFaults = 1
    Active <- Everyone
INVARIANT OwnWritesRead
