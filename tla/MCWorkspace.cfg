SPECIFICATION WorkspaceSpec
CONSTANTS
    Writers = {w1, w2, w3}
    MaxWorking = 2
    Keys = {k1}
    Codes = {1, 2, 3}
    DatasetMax = 2
    NODE_CAP = 4
    Kinds <- MCKinds
    Parts = {"catalog", "publishing", "gateway", "sources", "admission", "reads", "access", "screens", "approvals", "firstEntry"}
    Gone = Gone
    Fresh = Fresh
    Admins = {"a1", "a2"}
    Requester = "a1"
    Setters = {"m1", "m2"}
    Datasets = {"d1", "d2"}
    Services = {"s1"}
    Rules = {"r1"}
    Live = {"d1"}
    MaxCode = 1
    MaxRuns = 2
    Linked = {"d1"}
    Levels = {0, 1, 2}
    DefaultMax = 1
    MaxRules = 2
    Strategies = {"redact", "hash"}
    Movings <- MCMovings
    SourceIds = {"s1", "s2"}
    Objects = {"t", "T"}
    Lower <- MCLower
    Registrars = {"r1", "r2"}
    Syncers = {"sync"}
    Job = "job"
    Names = {"n1"}
    DatasourceMax = 1
    Bytes = {1}
    Scenarios <- MCScenarios
    Calls = {"q1", "q2"}
    Limit = 1
    Window = 2
    Grace = 1
    MaxTime = 3
    Ids = {1, 2, 3}
    SortKeys = {1, 2}
    RawLimits = {5, 10, 90}
    LIMIT_DEFAULT = 2
    LIMIT_MAX = 2
    Subscriptions <- MCSubscriptions
    RoleSets <- MCRoleSets
    PageSubscriptions <- MCPageSubscriptions
    Requests = {"r1", "r2"}
    Entries = {"e1", "e2"}
    MaxFaults = 2
INVARIANTS
    WorkspaceTypeOK
    LateRetryReplays
    CapsHold
    LineageIsSound
    RunningWasGated
    AnswersObeyPolicy
    SyncKeepsToItsRows
    GaugeHeals
    RateLimitHolds
    PagesAreComplete
    BadgeTellsGate
    OfferedIsAccepted
    DecidedOnceUnlessRaced
    SeedStatusIsTrue
PROPERTIES
    KeyMakesOneRow
CHECK_DEADLOCK FALSE
