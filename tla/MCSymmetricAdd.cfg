\* Three runs of the command, enough RUNE for two.
SPECIFICATION Spec
CONSTANTS
    MaxRuns = 3
    Rune = 2
    Token = TRUE
    DepositLife = 1
    MaxTime = 2
INVARIANTS
    OwnLegsPair
    AssetLegNeverFirst
PROPERTIES
    ImplementsTwoLegAdd
CHECK_DEADLOCK FALSE
