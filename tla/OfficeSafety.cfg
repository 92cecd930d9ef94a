SPECIFICATION Spec
CONSTANTS
    LastInstant = 8
    Local <- MCLocal
    DayEnd = 4
    Dates = {1, 2}
    Weekday <- MCWeekday
    Interval = 1
    Employees = {1, 2}
    Weeks <- MCWeeks
    ExtraSpans <- MCExtraSpans
    Blocks <- MCBlocks
    Absences <- MCAbsences
    Offerings <- MCOfferings
    BookAt = {1, 3}
    Booked <- MCBooked
    Notice = 1
    Horizon = 1
    Clock = {0, 3}
    Txs = {t1, t2}
    MaxBookings = 3
    MaxTxs <- MCMaxTxs
    MaxEdits <- MCMaxEdits
SYMMETRY MCSymmetry
INVARIANT NoCircularWait
INVARIANT PromisedOnce
INVARIANT OfferedIsWorkable
INVARIANT UncoveredIsReported
INVARIANT RetiredIsUnused
CHECK_DEADLOCK FALSE
