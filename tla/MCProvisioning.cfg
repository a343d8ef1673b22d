SPECIFICATION FairSpec
CONSTANTS
    w1 = w1
    d1 = d1
    d2 = d2
    d3 = d3
    d4 = d4
    d5 = d5
    Workspaces = {w1}
    Deliveries = {d1, d2, d3, d4, d5}
    EventOf <- MCEventOf
    RowKinds = {"business"}
    Handlers = {h1, h2}
    Sweepers = {s1}
    Retention = 1
    MaxAttempts <- MCMaxAttempts
    MaxClock = 2
    MaxCrashes = 1

INVARIANTS
    TypeOK
    WatermarkNamesLedgerEvent
    WipeAuditPerDelivery
    MarkMatchesStatus
    WatermarkIsNewest
    LatestEventDecides
    IInv
PROPERTIES
    EraseOnlyExpired
    ExpiredIsErased
    SubscriptionChangeEvicts
CHECK_DEADLOCK FALSE
