CONSTANTS
    Screens = {s1}
    Calls = {c1, c2}
    Keys = {k1, k2}
    First = first
    Second = second
    Charge = 1
    Roles <- MCRoles
    MaxIntents = 2
    Unfinished = FALSE
    Ids = {1, 2, 3, 4}
    SortValue <- MCSortValue
    Filters = {"a", "b"}
    Matches <- MCMatches
    Limit = 1
    Reads = {r1, r2, r3}
    Pages = {"bookings", "customers", "new"}
    Patient = TRUE
    MaxWrites = 1
    Movements = {1, 2, 3}
    Past = {1, 2}
    Today = 3
    PageSize = 1
    RangeOpen = FALSE
    MaxMoves = 1
    b1 = b1
    b2 = b2
    Bookings <- TwoBookings
    StartsAt <- TwoDays
    OffsetSets <- OneOrTwo
    Horizon = 2
    LastDay = 5
SPECIFICATION Spec
SYMMETRY MCSymmetry
INVARIANTS
    CarriedOutOnce
    FiguresAgree
    ListIsWhole
    RemindedInTime
    LedgerIsWhole
PROPERTY
    GoneIsNotRemindedOf
CHECK_DEADLOCK FALSE
