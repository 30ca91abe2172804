\* Two workers, one user thread, both planes, two handlers, one id below the limit and the
\* limit itself; handlers may call AddService.
CONSTANTS
    Planes = {"msg", "rndv"}
    Workers = {w1, w2}
    Users = {u1}
    Servers = {s1}
    Handlers = {h1, h2}
    Ids = {0, 1}
    IdLimit = 1
    HandlersAdd = TRUE
    NoThread = NoThread
    NoHandler = NoHandler
    NoRequest = NoRequest
SPECIFICATION FairSpec
INVARIANTS
    TypeOK
    TableExclusive
    RunsRegistered
PROPERTIES
    SelfAddBlocks
    Dispatched
    AddReturns
CHECK_DEADLOCK FALSE
