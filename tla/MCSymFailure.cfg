\* BROADCAST FAILED (nothing was sent) against a lost answer.
SPECIFICATION Spec
CONSTANTS
    MaxRuns = 1
    Rune = 2
    Token = TRUE
    DepositLife = 1
    MaxTime = 0
INVARIANTS
    FailureLeavesNothingLive
CHECK_DEADLOCK FALSE
