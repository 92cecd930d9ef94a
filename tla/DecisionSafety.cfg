CONSTANTS
    b1 = b1
    b2 = b2
    b3 = b3
    q1 = q1
    q2 = q2
    s1 = s1
    s2 = s2
    None = None
    Bookings <- AllBookings
    Requests <- AllRequests
    Slots <- TwoSlots
    Policies <- EitherPolicy
    Disturbed = FALSE
SPECIFICATION Spec
CONSTRAINT FewAsked
SYMMETRY Interchangeable
INVARIANTS
    CancellationIsMeant
    DecisionIsCarriedOut
PROPERTY
    RefinesAppointment
CHECK_DEADLOCK FALSE
