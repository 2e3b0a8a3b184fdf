SPECIFICATION Spec
CONSTANTS
    NUM_FRAMES = 24
    BootFrames = 2
    MappedFrames = 22
    PAGE_SIZE = 2
    ProgramPages = 1
    BssPages = 0
    FbPages = 1
    HeapPages = 2
    Offsets = {1, 4}
    MaxPid = 4
INVARIANTS
    FramesOwned
PROPERTIES
    LeaksOnlyThere
    ForkCopiesAll
CHECK_DEADLOCK FALSE
