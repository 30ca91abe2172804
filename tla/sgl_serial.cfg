\* One thread makes both calls; messages may lack data, and another server of the process
\* may clear the segment size at any time.
CONSTANTS
    c1 = c1
    c2 = c2
    Calls = {c1, c2}
    Thread <- OneThread
    Requests <- RequestsHole
    SegSizes <- SegTwoOrNone
    Blocks = {b1, b2, b3}
    IovMax = 4
    HeaderSize = 1
    ResultLost = FALSE
    NoAddr = NoAddr
    NoCall = NoCall
    NoReq = NoReq
SPECIFICATION FairSpec
INVARIANTS
    NoForeignFree
    OrphansExplained
PROPERTY Completes
CHECK_DEADLOCK FALSE
