CONSTANTS
    k1 = k1
    k2 = k2
    e1 = e1
    e2 = e2
    t1 = t1
    v1 = v1
    r1 = r1
    r2 = r2
    None = None
    AnyEmployee = AnyEmployee
    Keys <- TwoKeys
    Employees <- TwoEmployees
    Times <- OneTime
    Services <- OneService
    Requests <- TwoRequests
    Outliving = FALSE
    BoundSwept = FALSE
SPECIFICATION Spec
SYMMETRY Interchangeable
INVARIANTS
    AnswerFitsRequest
    RetryFindsItsHold
    OneAttemptAtATime
