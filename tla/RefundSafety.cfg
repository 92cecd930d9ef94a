CONSTANTS
    r1 = r1
    r2 = r2
    Refunds <- TwoRefunds
    Amount = 2
    Overlapping = FALSE
    LateFailures = FALSE
    TimingOut = FALSE
    Price = 2
    CashRange = {0, 1}
    Terms <- MCTerms
    Original = original
    Replacement = replacement
    Begins <- MCBegins
    GraceEnds <- MCGrace
    LastHour = 3
    Visits = {u1, u2}
    Petitions = {1}
    SameTab = FALSE
    MaxChanges = 1
SPECIFICATION MoneySpec
SYMMETRY Interchangeable
INVARIANTS
    PromiseIsCovered
    SaidIsDone
PROPERTIES
    RefinesLedger
    HeldAsDecided
CHECK_DEADLOCK FALSE
