SPECIFICATION Spec
CONSTANTS
    Books = {b1}
    Patrons = {p1, p2}
    ReservationIds = {r1, r2}
    LoanIds = {l1, l2}
    Tiers = {0}
    MaxOutstanding <- MCMaxOutstanding
    LoanDays <- MCLoanDays
    ExtensionDays = {}
    BatchSize = 1
    MaxDue = 1
    MaxCrashes = 1
    None = None
SYMMETRY Symmetry
CHECK_DEADLOCK FALSE
INVARIANTS BorrowedIsBacked OperationTracksBook NoEventWedges NothingIsStranded EmailedIsFinal
