SPECIFICATION FairSpec
CONSTANTS
    Inputs = 3
    VCs = 2
    Outputs = 2
    InjectionPorts = 1
    InjectionChannels = 1
    Iterations = 2
    Speedup = 1
    ParallelRequests = FALSE
    FlitSize = 1
    XbarLength = 1
INVARIANTS TypeOK PetitionsValid SpeedupKept
PROPERTY NoInputStarves
