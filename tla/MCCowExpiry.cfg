\* An approval that outlasts the order.
SPECIFICATION CowSpec
CONSTANTS
    MaxRuns = 1
    Amounts = {1}
    Leftovers = {0}
    OrderLife = 2
    WaitLimit = 1
    MaxTime = 2
    Resets = FALSE
    Rerun = {}
PROPERTIES
    SubmitsFresh
CHECK_DEADLOCK FALSE
