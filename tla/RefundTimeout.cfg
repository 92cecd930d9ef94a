CONSTANTS
    r1 = r1
    r2 = r2
    Refunds <- OneRefund
    Amount = 2
    Overlapping = FALSE
    LateFailures = FALSE
    TimingOut = TRUE
SPECIFICATION Spec
INVARIANT
    BooksFollowTheMoney
CHECK_DEADLOCK FALSE
