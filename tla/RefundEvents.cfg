CONSTANTS
    r1 = r1
    r2 = r2
    Refunds <- OneRefund
    Amount = 2
    Overlapping = FALSE
    LateFailures = TRUE
    TimingOut = FALSE
SPECIFICATION Spec
INVARIANTS
    BooksFollowTheMoney
    AnnouncedOnce
PROPERTY
    MoneyReachesTheBooks
CHECK_DEADLOCK FALSE
