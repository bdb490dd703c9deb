\* Two workers share two endpoints, two requests each.
SPECIFICATION FairSpec
CONSTANTS
    w1 = w1
    w2 = w2
    Threads = {w1, w2}
    N = 2
    Retries = 2
    Backoff = 1
    RetryAfters = {2, 5}
    MaxRetryAfter = 3
    MaxRequests = 2
    Conditions = {"healthy", "dead", "flaky"}
INVARIANTS
    AskedEvenly
    OneHealthyIsEnough
    PauseIsGranted
PROPERTIES
    DeadHostLeftBehind
    ReadEnds
CHECK_DEADLOCK FALSE
