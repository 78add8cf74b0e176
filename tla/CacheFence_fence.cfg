SPECIFICATION Spec
CONSTANTS
    p1 = p1
    p2 = p2
    r1 = r1
    r2 = r2
    w1 = w1
    w2 = w2
    None = None
    Procs = {p1, p2}
    Readers = {r1, r2}
    Writers = {w1}
    ProcOf <- TwoProcesses
    MaxVersion = 2
    MaxGen = 1
    MaxFailures = 1
    MaxCrashes = 1
    MaxEvictions = 0
    MaxFaults = 2
    Active <- Everyone
INVARIANTS FencedReads OwnWritesRead
