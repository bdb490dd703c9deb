SPECIFICATION Spec
CONSTANTS
    o1 = o1
    o2 = o2
    o3 = o3
    Branches = 2
    LastIndex = 4
    Window = 2
    Workers = 2
    GapLimit = 3
    Outs <- MCOuts
    AddrOf <- MCAddrOf
    Worth <- MCWorth
    Chains = {"mempool", "mined"}
    MaxMoves = 3
    Shapes <- MCShapes
    Rates = {2, 5, 9, 14}
    Den = 2
    Overshoot <- MCOvershoot
    Sizes = {2, 3}
    Estimate = 3
    ParentSize = 2
    ParentFees = {0, 3}
    ChildFee = 2
    Relay = 1
    Dust = 1
    MaxFee = 12
    MaxBumps = 4
INVARIANTS
    UsedIsFound
    OwnMoneyIsOffered
    OnlyTheChangePays
    RefusedOnlyIfOvertaken
    InformedRatePlans
CHECK_DEADLOCK FALSE
