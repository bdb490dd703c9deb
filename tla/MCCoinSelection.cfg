\* Four outputs of three transactions under both fee models: half a unit per
\* virtual byte with mempool parents, and ZIP-317 actions over mined outputs.
SPECIFICATION Spec
CONSTANTS
    c1 = c1
    c2 = c2
    c3 = c3
    c4 = c4
    t1 = t1
    t2 = t2
    t3 = t3
    Coins <- FourCoins
    Txs <- ThreeTxs
    TxOf <- SharedParent
    ParentFee <- MixedFees
    Values = {1, 3, 4, 7}
    ParentSize = 5
    Sends = {1, 2, 5, 7, 9}
    Dust = 2
    Overhead = 1
    InputSize = 2
    OutputSize = 1
    MemoSize = 1
    MaxMemoSize = 2
    RateNum = 1
    RateDen = 2
    Models = {"vbytes", "zip317"}
    Marginal = 1
    Grace = 2
    MemoActions = 1
INVARIANTS
    TypeOK
    NothingLost
    FeeBounded
    RiskOnlyWhenNeeded
    PackageReachesRate
CHECK_DEADLOCK FALSE
