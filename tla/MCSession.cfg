SPECIFICATION Spec
CONSTANTS
    i1 = i1
    None = None
    Browsers = {b1, b2}
    States = {t1, t2}
    Callbacks = {c1, c2}
    Sids = {i1}
    Rpsids = {r1, r2}
    Requests = {q1, q2}
    LogoutTokens = {j1}
    SidOf <- MCSidOf
    MaxGen = 1
    MaxCrashes = 1
SYMMETRY Symmetric
INVARIANTS
    TypeOK
    OneSessionPerLogin
    SessionInItsBrowser
    IndexCoversSessions
    NoExpiryOnlyIfTorn
CHECK_DEADLOCK FALSE
