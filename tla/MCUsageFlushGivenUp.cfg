SPECIFICATION FairFlushSpec
CONSTANTS
    Rows = {1}
    Jobs = {j1}
    MaxAttempts = 2
    Batch = 1
    MaxMishaps = 0
PROPERTY
    GivenUpIsMarked
CHECK_DEADLOCK FALSE
