\* Zeroed table, limit small enough for the capacity as in FLockCacheInit.
SPECIFICATION CleanSpec
CONSTANTS
    p1 = p1
    p2 = p2
    p3 = p3
    p4 = p4
    p5 = p5
    Hash <- WideHash
    HashPrefix <- WidePrefix
    Capacity = 8
    OccupancyLimit = 3
    CollisionResolve = 2
    Free = Free
    Unknown = Unknown
INVARIANTS
    ScansStayClean
    OneBucketPerHash
PROPERTIES
    ImplementsLossyMap
