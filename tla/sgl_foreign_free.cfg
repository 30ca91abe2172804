\* Two threads, and a segment size that another server may clear during a call.
CONSTANTS
    c1 = c1
    c2 = c2
    Calls = {c1, c2}
    Thread <- TwoThreads
    Requests <- RequestsClean
    SegSizes <- SegTwoOrNone
    Blocks = {b1, b2, b3}
    IovMax = 4
    HeaderSize = 1
    ResultLost = FALSE
    NoAddr = NoAddr
    NoCall = NoCall
    NoReq = NoReq
SPECIFICATION Spec
INVARIANT NoForeignFree
CHECK_DEADLOCK FALSE
