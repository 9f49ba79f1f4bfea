SPECIFICATION Spec
CONSTANTS
    Items = {i1, i2}
    MaxEvents = 3
    MaxSock = 2
INVARIANTS Converged StatusFollows TopologyHeals
CHECK_DEADLOCK FALSE
