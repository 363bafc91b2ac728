SPECIFICATION Spec
CONSTANTS
    NULL = NULL
    Flits = {f1, f2, f3, f4}
    Capacity = 3
    Delay = 3
    FlitSize = 3
    XbarLength = 2
INVARIANTS TypeOK RingOK Arrival
PROPERTY FifoSpec
