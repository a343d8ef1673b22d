SPECIFICATION Spec
CONSTANTS
    Workspace = ws
    Rows = {1, 2}
    Jobs = {j1}
    MaxAttempts = 1
    Batch = 1
    MaxMishaps = 1
    Resolvers = {q1}
    Ttl = 1
    None = None
    MaxVersion = 2
INVARIANTS
    MeteringTypeOK
    GateAfterRefusal
CHECK_DEADLOCK FALSE
