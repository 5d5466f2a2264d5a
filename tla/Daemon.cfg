SPECIFICATION DaemonSpec
CONSTANTS
    Containers = {c1}
    MaxStarts = 2
    MaxDeaths = 1
    Checks = {r1, r2, r3}
    v1 = v1
    v2 = v2
    g1 = g1
    g2 = g2
    i1 = i1
    Viewers = {v1, v2}
    UUIDs = {g1, g2}
    Indexes = {i1}
    Unknown = {g2}
    Asked <- MCAsked
    Callers = {u1, u2, u3}
    MaxLoads = 4
    HeaderLen = 2
    StartingBufLen = 3
    PayloadSizes = {0, 3}
    MaxFrames = 2
    Tunnels = {t1, t2}
    MaxChunks = 1
    FdLimit = 3
\* The daemon stops in a panic, and when everything asked for is done.
CHECK_DEADLOCK FALSE
INVARIANTS
    DaemonTypeOK
    UnloadedWasRefused
    KeptWhileRunning
    BlockedOnlyByError
    LoadedWhileInside
    
PROPERTIES
    ReloadReturns
    StoppedRemoved
    EmptyOnlyFirst
    SettledStays
    ChannelSpec
    HandlersEnd
