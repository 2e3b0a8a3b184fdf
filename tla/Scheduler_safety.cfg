SPECIFICATION Spec
CONSTANTS
    SCHEDULER_QUANTUM = 2
    STANDARD_IN_BUFFER_SIZE = 1
    MaxPid = 4
    MaxSleep = 4
    PidArgs = {0, 3}
    Garbage = {0, 3}
    ReadLens = {2}
    Calls = {"exit", "fork", "kill", "waitpid", "sleep", "read"}
    Keys = {"enter", "backspace", "shift_enter", "ctrl_c"}
INVARIANTS
    TypeOK
    ListMatchesPCBs
    NextProcessFinds
    ParentsAlive
PROPERTIES
    ResumedByOwnCall
    ZombiesOffCPU
CHECK_DEADLOCK FALSE
