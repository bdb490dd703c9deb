SPECIFICATION Spec
CHECK_DEADLOCK FALSE
CONSTANTS
    MaxFee = 4
    PayloadDust = 2
    MaxTime = 2
    Slip = Slip
    Amounts = {1, 9}
    Balance = 10
    Rates = {1, 2}
    DefaultGas = 1
    VaultGas = 2
    SendGas = 1
    TokenGas = 2
    GasOptions = {0, 3}
    Outs = {4, 7}
    Bps = {0, 3}
    Den = 10
    Ingress = 1
    Egress = 1
    Scale = 3
    Prices = {2, 3, 4}
    PlanTTL = 1
    MaxMoves = 1
    Holding = 7
    Dust <- MCDust
    Trigger = 1
    Addresses = {a1, a2}
    a1 = a1
    a2 = a2
    LpTTL = 1
    Maturity = 1
    MaxPolls = 2
INVARIANTS
    SentAsPlanned
    PaysTheDestination
    SweepLeavesGas
    FloorIsKept
    TakenUnlessChanged
    TriggerFindsPosition
    PoolReportIsTrue
