CONSTANTS
    l1 = l1  l2 = l2
    game = game  app = app  env = env
    pA = pA  pB = pB  pC = pC  pS = pS
    dos = dos  alice = alice  bob = bob
    Launches = {l1, l2}
    Targets = {game}
    Profiles = {pA, pS}
    ProfileSlug <- MCProfileSlug
    ProfileUser <- MCProfileUser
    Users = {alice}
    NoUser = NoUser
    Slugs = {dos}
    NoSlug = NoSlug
    Kind <- MCKind
    Stoppers = {}
    Admin = Admin
    Monitor = Monitor
    NoLaunch = NoLaunch
    Faults = {"timeout"}
SPECIFICATION FairSpec
PROPERTIES ReservationReleased ExitRecorded CrashReviewed
