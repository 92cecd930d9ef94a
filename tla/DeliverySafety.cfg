CONSTANTS
    n1 = n1
    w1 = w1
    w2 = w2
    None = None
    Notices <- OneNotice
    Senders <- TwoSenders
    JobAttempts = 2
    DispatchAttempts = 1
    Faults = 2
    MaxCopies = 2
    Reported <- FirstCopy
    EventTypes <- TwoReports
SPECIFICATION Spec
INVARIANTS
    OneMessagePerDoubt
PROPERTIES
    SettledStaysSettled
    OccasionIsAnnounced
    
CHECK_DEADLOCK FALSE
