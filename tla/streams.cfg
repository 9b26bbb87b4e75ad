SPECIFICATION ServiceSpec
CONSTANTS
    a = a
    b = b
    k1 = k1
    k2 = k2
    k3 = k3
    x1 = x1
    x2 = x2
    h1 = h1
    h2 = h2
    h3 = h3
    h4 = h4
    h5 = h5
    noChannel = noChannel
    noSlug = noSlug
    nothing = nothing
    pa = pa
    pb = pb
    p1 = p1
    p2 = p2
    p3 = p3
    Slugs <- MCSlugs
    Keys <- MCKeys
    Hashes <- MCHashes
    HashOf <- MCHashOf
    NoChannel = noChannel
    NoSlug = noSlug
    Sessions <- MCSessions
    Paths <- MCPaths
    PathOf <- MCPathOf
    LastSegment <- SlashedSegments
    Conventions <- AnyConvention
    Nothing = nothing
    MaxRestarts = 1
SYMMETRY Symmetry
INVARIANTS
    ServiceInv
    RetiredKeysStayDead
    LiveHasCause
    KeyWorksUntilRetired
    ListedUnlessCleared
PROPERTIES
    KeysNeverComeBack
CHECK_DEADLOCK FALSE
