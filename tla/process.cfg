SPECIFICATION MCSpec
CONSTANTS
    t1 = t1  t2 = t2  h1 = h1  c1 = c1  c2 = c2  s1 = s1  s2 = s2  p1 = p1
    Threads <- MCThreads
    Setters <- MCThreads
    Handlers <- MCHandlers
    NoHandler = NoHandler  HcomLog = HcomLog  NoThread = NoThread
    Followed <- MCFollowed
    Used <- MCUsed
    OwnWrappers <- MCFollowed
    MaxMissing = 1  MaxOpens = 2
    Channels <- MCChannels
    Milliseconds <- MCMilliseconds
    PerSecond = 2  Width = 16  ShortWidth = 8  DefaultTimeout = 3
    NoChannel = NoChannel  NotAsked = NotAsked
    TlsServers <- MCTlsServers
    PlainServers <- MCPlainServers
    NoServer = NoServer
    Clients <- MCClients
    Sizes <- MCSizes
    Counts <- MCCounts
    NotGiven = NotGiven  NotNumber = NotNumber 
    DefaultSize = 16  DefaultCount = 8  MinSize = 4
    MaxSegSize = 40  MaxSegCount = 20  Width32 = 256
SYMMETRY Symmetry
CHECK_DEADLOCK FALSE
INVARIANTS TypeOK NullsExplained MadeOnce LibhcomLogsToUser CreatedWhole
    TimeoutKept TlsIsOwn MemoryAsAsked
