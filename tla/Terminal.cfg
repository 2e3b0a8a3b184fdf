SPECIFICATION Spec
CONSTANTS
    TERMINAL_COLS = 2
    TERMINAL_ROWS = 2
    TAB_SIZE = 3
    HeaderRows = 1
    Char = {"a"}
    MaxOutput = 2
    MaxLine = 3
INVARIANTS
    EchoIsLine
    WritesInside
