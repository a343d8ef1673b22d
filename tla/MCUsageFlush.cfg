SPECIFICATION FairFlushSpec
CONSTANTS
    Rows = {1, 2}
    Jobs = {j1, j2}
    MaxAttempts = 2
    Batch = 1
    MaxMishaps = 1
INVARIANTS
    AttemptsCountPosts
    FlushedNotPosted
PROPERTIES
    RowsAreReportedOnce
    RowLeavesQueue
CHECK_DEADLOCK FALSE
