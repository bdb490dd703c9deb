\* One swap, run again after every report but a submission's.
SPECIFICATION FairCowSpec
CONSTANTS
    MaxRuns = 3
    Amounts = {2}
    Leftovers = {0, 1}
    OrderLife = 2
    WaitLimit = 1
    MaxTime = 2
    Resets = TRUE
    Rerun <- NoOrder
INVARIANTS
    OrderIsFunded
PROPERTIES
    RerunNeedsNoApproval
    WaitEnds
CHECK_DEADLOCK FALSE
