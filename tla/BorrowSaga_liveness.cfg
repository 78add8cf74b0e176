SPECIFICATION FairSpec
CONSTANTS
    Books = {b1}
    Patrons = {p1}
    ReservationIds = {r1, r2}
    LoanIds = {l1, l2}
    Tiers = {0}
    MaxOutstanding <- MCMaxOutstanding
    LoanDays <- MCLoanDays
    ExtensionDays = {}
    BatchSize = 1
    MaxDue = 1
    MaxCrashes = 1
    None = None

CHECK_DEADLOCK FALSE
PROPERTIES ReservationSettles StaleLoanCloses ReturnFreesBook
