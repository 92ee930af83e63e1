SPECIFICATION MCSpec
CONSTANTS
    r1 = r1
    r2 = r2
    Owner = Owner
    Subs = {kid}
    Pins = {a, b}
    Peppers = {NoPepper, salt}
    NoPepper = NoPepper
    NoHash = NoHash
    NoPin = NoPin
    LockAt = 2
    Requests = {r1, r2}
    MaxTokens = 2

    id1 = id1
    id2 = id2
    ip = ip
    Keys = {ip}
    Limit <- MCLimit
    Window <- MCWindow
    SweepInterval = 3
    Callers = {r1, r2}
    Targets = {a, b}
    Slips = {id1, id2}
    TokenTTL = 2
    MaxNow = 7
    MaxWait = 1
    Nobody = Nobody

    E = E
    M = M
    P = P
    Boss = Boss
    Viewers = {kid}
    Ratings = {E, M, P}
    Scheme <- MCScheme
    Severity <- MCSeverity
    Unrated = Unrated
    Unknown = Unknown
    RatingMaps <- MCMaps
    NoMap = NoMap
    NoCeiling = NoCeiling
    Domains = {"game", "media", "app"}
    Entities = {1}
    NULL = NULL
    Editors = {ed}

    Releases = {host}
    RomHost = host
    Pack = pack
    Jobs_ = {r1, r2}

    d1 = d1
    d2 = d2
    Players = {r1, r2}
    Discs = {d1, d2}
    Mountable = {d1}
    Dirs = {t1, t2, t3}
    Chosen = {a1}
    Absent = Absent
    Descriptor <- MCDescriptor
    Whole = 4
    Bootable = 2
    StableChecks = 3
INVARIANTS
    TypeOK
    GuessesBounded
    SessionPinIsCurrent
    PepperMatchesHashes
    GuardsAreExact
    FiltersAreExact
    InstallsAreTrue
    StartsAsAsked
    AftermathIsClean
CONSTRAINT MCBound
SYMMETRY MCSymmetry
CHECK_DEADLOCK FALSE
