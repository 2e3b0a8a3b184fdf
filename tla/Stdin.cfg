SPECIFICATION FairSpec
CONSTANTS
    STANDARD_IN_BUFFER_SIZE = 3
    Char = {"a"}
    ReadLens = {1, 2, 3, 4}
    Keys = {"char", "enter", "backspace", "unmapped", "shift_enter", "ctrl_c"}
    Writers = TRUE
    Zombies = {TRUE, FALSE}
INVARIANTS
    RingIsLine
    ReaderNeedsMore
PROPERTIES
    BlockedReadReturns
