SPECIFICATION Spec
CONSTANTS
    Books = {b1, b2}
    Patrons = {p1}
    ReservationIds = {r1, r2}
    LoanIds = {l1, l2}
    Tiers = {0, 1}
    MaxOutstanding <- MCMaxOutstanding
    LoanDays <- MCLoanDays
    ExtensionDays = {1}
    BatchSize = 2
    MaxDue = 2
    MaxCrashes = 0
    None = None
SYMMETRY Symmetry
CHECK_DEADLOCK FALSE
INVARIANTS LimitRespected
PROPERTIES ImplementsCirculation
