\* Two threads, two names, two server handles that libhcom hands out again, two
\* configurations.
CONSTANTS
    full = full
    plain = plain
    Threads = {t1, t2}
    Names = {n1, n2}
    Handles = {s1, s2}
    Configs = {full, plain}
    Writes <- BothConfigs
    NoThread = NoThread
    NoHandle = NoHandle
    NoConfig = NoConfig
    NoName = NoName
SYMMETRY Symmetry
SPECIFICATION Spec
INVARIANTS
    TypeOK
    ListedIsLive
    NothingInherited
    OwnOptionsWhenAlone
PROPERTY
    DestroyedOnce
CHECK_DEADLOCK FALSE
