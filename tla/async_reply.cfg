\* Replies of a server, with and without done.
CONSTANTS
    Calls = {c1, c2}
    Requests <- Replies
    ResultLost = FALSE
    NoReq = NoReq
SPECIFICATION Spec
INVARIANT ResultIsReal
CHECK_DEADLOCK FALSE
