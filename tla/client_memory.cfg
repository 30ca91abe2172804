\* Two handles used again and again, three sets of memory, two calls; users wait for their
\* calls before they disconnect.
CONSTANTS
    Clients = {c1, c2}
    Sets = {m1, m2, m3}
    Calls = {x1, x2}
    Quiescent = TRUE
    Absent = Absent
    Null = Null
SPECIFICATION Spec
INVARIANTS
    TypeOK
    CallsAreBacked
    MapsAgree
    LeftoversExplained
    ConnectedUsable
CHECK_DEADLOCK FALSE
