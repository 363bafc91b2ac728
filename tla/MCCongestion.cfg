SPECIFICATION Spec
CONSTANTS
    A = 2
    MaxCycle = 4
    LocalDelay = 1
    H = 2
    GlobalChannels = 2
    PiggybackCoef = 100
    GlobalThreshold = 1
    Occupancies = {0, 4}
    HysteresisCycles = 3
    IncFirst = 3
    IncSecond = 2
    DecFirst = 2
    DecSecond = 1
    MaxBlocked = 2
    InChannels = {"injection", "local"}
    FromOutside = {"injection"}
    InDelay <- MCInDelay
    Dests <- MCDests
    Arrivals <- MCArrivals
    MinPort <- MCMinPort
    NodePort = "node"
    DestGroup <- MCDestGroup
    ThisGroup = "this"
    Capacity = 1
    FlitSize = 2
    OutputBuffers = FALSE
    XbarLength = 2
    SharePeriod = 2
    QcnConfigs <- MCQcnConfigs
    QcnPorts = {1, 2}
    FlitPhits = 2
    QueueLength = 1
    SamplingInterval = 3
    BcLimit = 2
    QEq = 1
    QW = 2
    FbLevels = 3
    MaxShort = 127
    MaxProb = 3
    MinRate = 1
    RAi = 2
    MaxMoves = 1
    GdInverse = 4
    Th1 = 0
    Th2 = 1
CHECK_DEADLOCK FALSE
INVARIANTS TypeOK PbConsistent CaShared QcnSampledInTime
PROPERTIES PbReadWhenDue AcorHysteresis CaExact
