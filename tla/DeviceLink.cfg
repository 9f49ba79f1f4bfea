SPECIFICATION Spec
CONSTANTS
    Kinds = {"rtu", "tcp", "serial", "ascii"}
    Units = {1, 2}
    NGroups = 2
    Tries = 2
    MaxReq = 5
INVARIANTS
    NoLateAnswer
    SampleOfOnePoll
CHECK_DEADLOCK FALSE
