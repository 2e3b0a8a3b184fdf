SPECIFICATION FairSpec
CONSTANTS
    SCHEDULER_QUANTUM = 2
    STANDARD_IN_BUFFER_SIZE = 1
    MaxPid = 4
    MaxSleep = 2
    PidArgs = {3}
    Garbage = {0}
    ReadLens = {1}
    Calls = {"exit", "fork", "kill", "waitpid", "sleep", "read"}
    Keys = {"enter", "ctrl_c"}
PROPERTIES
    RunnableGetsCPU
    ZombieReaped
    SleeperWakes
CHECK_DEADLOCK FALSE
