SPECIFICATION FairSpec
CONSTANTS
    TXOs = {t1, t2, t3, t4}
    EntrySize = 25
    ItSetItemSize = 1
    RmVecItemSize = 9
    ShunspentTableNodeSize = 14
    ShunspentRmVecNodeSize = 9
    Limit = 70
INVARIANTS
    InputsFound
    WithinLimit
    DatabasesCompleteWithoutCache
    ViewIsUtxoSet
PROPERTY FlushesEnd
CHECK_DEADLOCK FALSE
