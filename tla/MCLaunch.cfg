CONSTANTS
    l1 = l1  l2 = l2
    game = game  app = app  env = env
    pA = pA  pB = pB  pC = pC  pS = pS
    dos = dos  alice = alice  bob = bob
    Launches = {l1, l2}
    Targets = {app, env}
    Profiles = {pA, pB, pS}
    ProfileSlug <- MCProfileSlug
    ProfileUser <- MCProfileUser
    Users = {alice}
    NoUser = NoUser
    Slugs = {dos}
    NoSlug = NoSlug
    Kind <- MCKind
    Stoppers = {s1}
    Admin = Admin
    Monitor = Monitor
    NoLaunch = NoLaunch
    Faults = {"timeout", "delete", "db", "crash"}
SPECIFICATION MCSpec
SYMMETRY LaunchSymmetry
INVARIANTS TypeOK OneLaunchPerSlot SlotsAreTracked HistoryIsTrue
PROPERTIES ImplementsSlots ShutdownFinalizes
