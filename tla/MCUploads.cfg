SPECIFICATION FairSpec
CONSTANTS
    JobIds <- MCJobIds
    UploadIds = {u1}
    NumChunks = 2
    Puts = {p1}
    Completes = {f1, f2}
    NumScans = 2
    NoUpload = NoUpload
    NoComplete = NoComplete
    Crashes = TRUE
CONSTRAINT OneSubsystem
INVARIANTS
    TypeOK
    OwnsItsFiles
    OnlyWholeUploadsIngested
    OneScanAtATime
PROPERTY AcceptedUploadResolved
CHECK_DEADLOCK FALSE
