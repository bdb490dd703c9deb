\* Paging by offset, under the number of items.
SPECIFICATION HistorySpec
CONSTANTS
    A = A
    B = B
    t1 = t1
    t2 = t2
    t3 = t3
    t4 = t4
    Addresses = {A}
    Txs = {t1, t2, t3, t4}
    Pays <- AllToA
    Spends <- NoneSpends
    Mined <- OldReceipt
    Explorers <- Insight
    PageSize = 1
    Limit = 5
    Attempts = 2
INVARIANTS
    CompleteOrSaidSo
CHECK_DEADLOCK FALSE
