SPECIFICATION FairSpec
CONSTANTS
    Traces <- MCTraces
    Patience = 2
    N = 3
    Host <- MCHost
    RootNode = 1
    RootDegree = 7
    Coalescing = 2
    QueryTime = 1
    MaxPutOff = 3
    NodeCount = 3
    Channels = 2
    ChannelSpace = 1
    NetworkSpace = 1
    OutSpace = 2
    MaxPetitions = 2
    BurstLength = 2
    MaxBursts = 2
    NodeConfigs <- MCNodeConfigs
    MaxSent <- MCMaxSent
CHECK_DEADLOCK FALSE
INVARIANTS TypeOK TraceReplayable TimeExact SharedBufferServed CompleteEnd
PROPERTY WorkEnds
