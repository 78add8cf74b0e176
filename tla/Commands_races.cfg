SPECIFICATION Spec
CONSTANTS
    p1 = p1
    p2 = p2
    r1 = r1
    r2 = r2
    r3 = r3
    b1 = b1
    b2 = b2
    b3 = b3
    k1 = k1
    k2 = k2
    None = None
    Calls = {c1, c2, c3}
    Patrons = {p1, p2}
    Loans = {r1, r2, r3}
    Books = {b1, b2, b3}
    Keys = {k1, k2}
    Tiers = {0, 1}
    Requests <- MCRequests
    Seeds <- MCSeeds
    PatronOf <- MCPatronOf
    BookOf <- MCBookOf
    MaxOutstanding <- MCMaxOutstanding
SYMMETRY Symmetry
CHECK_DEADLOCK FALSE
INVARIANTS OncePerKey AnswersAgree NoLostUpdate NobodyWaitsInACircle
PROPERTIES AdmittedUnderPolicy RejectionFindsNoLoan ImplementsAtomicCommands
