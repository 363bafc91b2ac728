SPECIFICATION Spec
CONSTANTS
    p1 = p1
    p2 = p2
    p3 = p3
    P = 1
    A = 3
    H = 1
    LocalChannels = 5
    GlobalChannels = 2
    Packets = {p1}
    Traffic <- MCTraffic
    Variants <- MCVariants
CHECK_DEADLOCK FALSE
INVARIANTS TypeOK EscapeIncreases PathAsWeighed
PROPERTY MandatoryTaken
