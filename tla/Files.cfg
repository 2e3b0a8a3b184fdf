SPECIFICATION FSpec
CONSTANTS
    LastCluster = 5
    LastOnDisk = 4
    SectorsPerCluster = 2
    RootEntries = 3
    Inputs <- MCInputs
    NAME_LENGTH = 1
    EXT_LENGTH = 1
    Bytes = {"x"}
    Lengths = {1, 2}
    Crashes = TRUE
    MAX_FDS = 3
    Procs = {p1, p2}
    ReadLens = {4}
    Block = {1, 2, 3, 4, 5, 6}
SYMMETRY Symmetry
INVARIANTS
    NoCrossLinks
    EntriesComplete
    EntriesListed
    LosesOnePerCut
    BuffersOwned
PROPERTIES
    WritesOwnFile
