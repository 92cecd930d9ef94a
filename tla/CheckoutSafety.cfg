CONSTANTS
    b1 = b1
    b2 = b2
    Bookings <- TwoBookings
    Overlap <- PairOverlaps
    LateCheckout = FALSE
SPECIFICATION Spec
INVARIANTS
    ReleasedIsUnpayable
    KeptIsPaidFor
PROPERTY
    RefinesPromise
CHECK_DEADLOCK FALSE
