SPECIFICATION MCSpec
CONSTANTS
    r1 = r1
    r2 = r2
    Games = {g1}
    Apps = {a1}
    Leaves = {a, b}
    Eras = {"win98", "dos", "ps2"}
    PcEras = {"win98", "dos"}
    DosEras = {"dos"}
    Provisionable = {"win98", "dos"}
    Emulator <- MCEmulator
    Environments = {1, 2}
    Keep = Keep
    Nil = Nil
    Patchers = {r1, r2}
    MaxFields = 1

    x1 = x1
    m1 = m1
    m2 = m2
    id1 = id1
    id2 = id2
    Titles = {id1, id2}
    Albums = {m1, m2}
    Shots = {x1}
    Rank <- MCRank
    Name <- MCName
    Names = {"n"}
    MaxNumber = 3
    Void = Void
    Hands = {r1, r2}

    Machines = {e1, e2}
    Labels = {a, b}
    OwnImages = {img}
    Workers = {r1, r2}
    Unset = Unset
INVARIANTS
    TypeOK
    BundlesAgree
    ReasonsAgree
    ArchiveIsSound
    NoHalfMadeMachines
PROPERTIES
    LiveImagesSurvive
    VerdictsAreEarned
CONSTRAINT MCBound
SYMMETRY MCSymmetry
CHECK_DEADLOCK FALSE
