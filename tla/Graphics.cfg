SPECIFICATION ScreenSpec
CONSTANTS
    screen_width = 3
    screen_height = 6
    HEADER_OFFSET = 2
    STATUS_BAR_HEIGHT = 2
    Width = 2
    Height = 1
    WORD = 64
    w1 = w1
    w2 = w2
    Wins <- SomeWins
    Places <- SomePlaces
    Spots <- SomeSpots
    Colors = {"red"}
    Reach <- Ends
SYMMETRY
    Alike
INVARIANTS
    ScreenShows
