\* As client_memory.cfg, but users may disconnect while calls are in progress.
CONSTANTS
    Clients = {c1, c2}
    Sets = {m1, m2, m3}
    Calls = {x1, x2}
    Quiescent = FALSE
    Absent = Absent
    Null = Null
SPECIFICATION Spec
INVARIANT ConnectedUsable
CHECK_DEADLOCK FALSE
