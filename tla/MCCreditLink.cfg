SPECIFICATION FairSpec
CONSTANTS
    Flits = {f1, f2, f3}
    VCs = {v1, v2}
    Capacity = 2
    Delay = 2
    FlitSize = 2
    XbarLength = 1
INVARIANTS TypeOK CreditsConserved NoOverflow LinkSerial
PROPERTIES CreditsReturn ChannelSpec
