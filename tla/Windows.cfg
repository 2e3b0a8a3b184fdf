SPECIFICATION FairSpec
CONSTANTS
    MAX_WINDOWS = 2
    QUEUE_SIZE = 1
    Pids = {3, 4}
    MaxId = 3
INVARIANTS
    TypeOK
    ZOrder
    OneFocused
    EveryWindowDrawn
PROPERTIES
    EventsToFocused
    ForegroundWindowsGone
    ReleaseEndsDrag
