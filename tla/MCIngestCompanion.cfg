SPECIFICATION MCPlain
CONSTANTS
    doom = doom
    quake = quake
    c1 = c1
    c2 = c2
    c3 = c3
    c4 = c4
    Root = Root
    NoName = NoName
    Bases <- MCBases
    Contents <- MCContents
    MaxSuffix = 6
    Ingests <- MCPair
    Bundles <- MCPair
    Requests <- CompanionRequests
    Size <- DistinctSizes
    MaxActive = 1
    Faults = FALSE
INVARIANT RowsFindable
CHECK_DEADLOCK FALSE
