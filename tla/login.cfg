SPECIFICATION LoginSpec
CONSTANTS
    t1 = t1
    t2 = t2
    i = i
    j = j
    u = u
    noBucket = noBucket
    noRequest = noRequest
    Threads <- MCThreads
    Limiters <- MCLimiters
    Ids <- MCIds
    LimiterOf <- MCLimiterOf
    Addresses <- MCAddresses
    Names <- MCNames
    MaxRequests = 4
    MaxAttempts = 1
    Window = 2
    Lockout = 5
    SampleSize = 2
    MaxWait = 1
    MaxClock = 5
    NoBucket = noBucket
    NoRequest = noRequest
INVARIANTS
    LoginInv
    BurstBound
PROPERTIES
    LockoutHolds
    LockoutIsDeserved
    OnlyOvertakenLoginsForgive
CHECK_DEADLOCK FALSE
SYMMETRY Symmetric
