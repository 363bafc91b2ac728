SPECIFICATION Spec
CONSTANTS
    Flits = {f1, f2, f3}
    VCs = {v1, v2}
    Capacity = 1
    Delay = 1
    FlitSize = 2
    XbarLength = 1
    OutCapacity = 2
    XbarDelay = 1
    FeedTimes = {1, 2}
    BufferTypes <- SeparateOfOne
PROPERTY OneFlitAtATime
