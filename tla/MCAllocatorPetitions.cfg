SPECIFICATION Spec
CONSTANTS
    Inputs = 1
    VCs = 2
    Outputs = 1
    InjectionPorts = 0
    InjectionChannels = 1
    Iterations = 2
    Speedup = 2
    ParallelRequests = TRUE
    FlitSize = 2
    XbarLength = 1
PROPERTY PetitionsKept
