SPECIFICATION FairSpec
CONSTANTS
    BW = 4
    BH = 3
    SpawnX = 0
    FirstInterval = 3
    LevelLines = 1
    Pieces = {0, 6}
    MaxLines = 3
INVARIANTS
    PieceFits
    RowsCleared
    PictureTrue
PROPERTIES
    PiecesLand
CHECK_DEADLOCK FALSE
