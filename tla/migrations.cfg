SPECIFICATION MigrationsSpec
CONSTANTS
    p1 = p1
    p2 = p2
    p3 = p3
    Pods <- MCPods
    Head = 2
    UniqueAt = 2
    Nobody = Nobody
    Orphan = Orphan
    MaxFaults = 2
INVARIANTS
    MigrationsInv
    EachRevisionOnce
PROPERTIES
    StartupEnds
    AllServe
CHECK_DEADLOCK FALSE
