CONSTANTS
    b1 = b1
    b2 = b2
    Bookings <- OneBooking
    Overlap <- NoOverlap
    LateCheckout = TRUE
SPECIFICATION Spec
PROPERTIES
    
    PaidIsNeverForgotten
CHECK_DEADLOCK FALSE
