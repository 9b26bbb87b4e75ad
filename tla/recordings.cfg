SPECIFICATION FairRecordingsSpec
CONSTANTS
    a = a
    keyed = keyed
    dot = dot
    dotdot = dotdot
    l1 = l1
    Paths <- MCPaths
    NestedPaths <- MCNested
    Dot = dot
    DotDot = dotdot
    Segments <- MCSegments
    Workloads <- MCWorkloads
    Place <- MCPlace
    Configured = TRUE
    Listers <- MCListers
INVARIANTS
    RecordingsInv
    SegmentSafe
    StoredIsListable
    ListingComplete
PROPERTIES
    HooksEnd
CHECK_DEADLOCK FALSE
