\* As registry.cfg; a client looks a server up while another thread destroys it.
CONSTANTS
    full = full
    plain = plain
    Threads = {t1, t2}
    Names = {n1, n2}
    Handles = {s1, s2}
    Configs = {full, plain}
    Writes <- BothConfigs
    NoThread = NoThread
    NoHandle = NoHandle
    NoConfig = NoConfig
    NoName = NoName
SPECIFICATION Spec
INVARIANT ConnectsToLive
CHECK_DEADLOCK FALSE
