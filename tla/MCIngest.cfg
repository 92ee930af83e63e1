SPECIFICATION MCSpec
CONSTANTS
    doom = doom
    quake = quake
    c1 = c1
    c2 = c2
    c3 = c3
    c4 = c4
    Root = Root
    NoName = NoName
    Bases <- MCBases
    Contents <- MCContents
    MaxSuffix = 6
    Ingests <- MCIngests
    Bundles <- MCIngests
    Requests <- MCRequests
    Size <- DistinctSizes
    MaxActive = 2
    Faults = TRUE
INVARIANTS
    TypeOK
    LibraryIsSound
PROPERTIES
    FailureRestoresLibrary
    IngestEnds
CHECK_DEADLOCK FALSE
