SPECIFICATION FairCacheSpec
CONSTANTS
    Workspaces = {ws}
    Resolvers = {q1, q2}
    Ttl = 2
    None = None
    MaxVersion = 2
INVARIANTS
    EvictionHolds
    FreshIsRecent
PROPERTIES
    CacheHeals
CHECK_DEADLOCK FALSE
