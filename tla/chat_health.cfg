SPECIFICATION HealthSpec
CONSTANTS
    p1 = p1
    p2 = p2
    s1 = s1
    s2 = s2
    NoError = NoError
    Probes <- MCProbes
    Shards <- MCShards
INVARIANTS
    HealthyMeansReached
PROPERTIES
    ProbeEnds
