\* Any initial contents, a table so small that every scan wraps and fails.
SPECIFICATION Spec
CONSTANTS
    p1 = p1
    p2 = p2
    p3 = p3
    p4 = p4
    p5 = p5
    Hash <- SmallHash
    HashPrefix <- SmallPrefix
    Capacity = 3
    OccupancyLimit = 2
    CollisionResolve = 1
    Free = Free
    Unknown = Unknown
INVARIANTS
    TypeOK
    LatestHeld
    NeverStale
    MissOnlyAtWrapEnd
    RetryFindsRoom
