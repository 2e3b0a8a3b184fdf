SPECIFICATION FairSpec
CONSTANTS
    SCHEDULER_QUANTUM = 2
    STANDARD_IN_BUFFER_SIZE = 1
    MaxPid = 3
    MaxSleep = 1
    PidArgs = {3}
    Garbage = {0}
    ReadLens = {1}
    Calls = {"exit", "fork", "waitpid"}
    Keys = {}
PROPERTIES
    WaitpidReturns
CHECK_DEADLOCK FALSE
