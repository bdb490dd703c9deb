\* Three runs on two terminals, a source token whose approve reverts while
\* an allowance stands (USDT), a user who runs the command again after a definite
\* report.
SPECIFICATION Spec
CONSTANTS
    t1 = t1
    t2 = t2
    Terminals <- TwoTerminals
    MaxRuns = 3
    Amounts = {1, 2}
    Token = TRUE
    Resets = TRUE
    QuoteLife = 1
    MaxTime = 1
    Rerun <- Definite
INVARIANTS
    PaidOnce
    HonestReport
    NoNonceGap
    DepositIsCovered
SYMMETRY TerminalSymmetry
CHECK_DEADLOCK FALSE
