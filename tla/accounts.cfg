SPECIFICATION AccountsSpec
CONSTANTS
    r1 = r1
    r2 = r2
    NoUser = NoUser
    Requests <- MCRequests
    Asked <- MCAsked
    Founders <- MCFounders
    PageSize = 1
    Stamps <- MCStamps
    MaxId = 4
    MaxPassed = 1
INVARIANTS
    AccountsInv
    ListingExact
PROPERTIES
    ImplementsSocialGraph
    AnswersAreTrue
SYMMETRY Symmetric
