SPECIFICATION ReadsSpec
CONSTANTS
    Ids = {1, 2}
    SortKeys = {1}
    RawLimits = {10}
    LIMIT_DEFAULT = 2
    LIMIT_MAX = 2
    Unused = Unused
    Deleted = Deleted
    NoCursor = NoCursor
INVARIANTS
    EveryQueryIsScoped
CHECK_DEADLOCK FALSE
