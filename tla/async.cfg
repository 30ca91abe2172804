\* Two operations, all kinds; a callback may fail to read its result.
CONSTANTS
    Calls = {c1, c2}
    Requests <- AllRequests
    ResultLost = TRUE
    NoReq = NoReq
SPECIFICATION FairSpec
INVARIANTS
    TypeOK
    RecordReadable
    RecordsFreed
    BuffersKept
    ToldTruth
PROPERTIES
    KeepsPromise
    Answered
CHECK_DEADLOCK FALSE
