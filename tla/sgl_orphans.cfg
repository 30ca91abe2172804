\* Asynchronous calls of one message; the transport may refuse them.
CONSTANTS
    c1 = c1
    c2 = c2
    Calls = {c1, c2}
    Thread <- TwoThreads
    Requests <- RequestsOne
    SegSizes <- SegTwo
    Blocks = {b1, b2, b3, b4}
    IovMax = 4
    HeaderSize = 1
    ResultLost = FALSE
    NoAddr = NoAddr
    NoCall = NoCall
    NoReq = NoReq
SPECIFICATION Spec
INVARIANT NoOrphanBlocks
CHECK_DEADLOCK FALSE
