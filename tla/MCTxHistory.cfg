\* Two addresses under three explorers, the chain moving under the walks.
SPECIFICATION FairHistorySpec
CONSTANTS
    A = A
    B = B
    t1 = t1
    t2 = t2
    t3 = t3
    t4 = t4
    Addresses = {A, B}
    Txs = {t1, t2, t3, t4}
    Pays <- WhoIsPaid
    Spends <- WhatIsSpent
    Mined <- OldReceipt
    Explorers <- Three
    PageSize = 1
    Limit = 3
    Attempts = 2
INVARIANTS
    CompleteOrSaidSo
    UnspentIsTrue
PROPERTIES
    WalkEnds
CHECK_DEADLOCK FALSE
