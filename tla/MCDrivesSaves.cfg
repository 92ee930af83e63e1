CONSTANTS
    l1 = l1
    l2 = l2
    Launches = {l1, l2}
    NumClusters = 4
    RootSlots = 2
    SubSlots = 1
    NoFile = NoFile
    Names <- MCNames
    Short <- MCShort
    Paths <- MCPaths
    Size <- MCSize
    FileSets <- MCFileSets
SPECIFICATION MCSpec
CONSTRAINT MCBound
CHECK_DEADLOCK FALSE
PROPERTY ChangesPreserved
