\* Two threads, all messages have data, one segment size; five blocks, so that two calls
\* compete for them.
CONSTANTS
    c1 = c1
    c2 = c2
    Calls = {c1, c2}
    Thread <- TwoThreads
    Requests <- RequestsClean
    SegSizes <- SegTwo
    Blocks = {b1, b2, b3, b4, b5}
    IovMax = 4
    HeaderSize = 1
    ResultLost = TRUE
    NoAddr = NoAddr
    NoCall = NoCall
    NoReq = NoReq
SYMMETRY BlockSymmetry
SPECIFICATION Spec
INVARIANTS
    TypeOK
    NoForeignFree
    InFlightIntact
    BlockFits
    OrphansExplained
PROPERTY KeepsPromise
CHECK_DEADLOCK FALSE
