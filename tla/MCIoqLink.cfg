SPECIFICATION FairSpec
CONSTANTS
    Flits = {f1, f2, f3}
    VCs = {v1, v2}
    Capacity = 3
    Delay = 1
    FlitSize = 2
    XbarLength = 1
    OutCapacity = 2
    XbarDelay = 1
    FeedTimes = {1}
    BufferTypes <- MCBufferTypes
INVARIANTS TypeOK OutCountersExact NeverOvercommitted
PROPERTIES OutputDrains LinkSpec
