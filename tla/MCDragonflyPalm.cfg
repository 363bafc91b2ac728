SPECIFICATION Spec
CONSTANTS
    P = 2
    A = 2
    H = 2
    LocalChannels = 8
    GlobalChannels = 4
    Packets = {1}
    Traffic <- AnyTraffic
INVARIANT MinPathExact
CHECK_DEADLOCK FALSE
