SPECIFICATION Spec
CONSTANTS
    i1 = i1
    None = None
    Browsers = {b1}
    States = {t1}
    Callbacks = {c1}
    Sids = {i1}
    Rpsids = {r1}
    Requests = {q1, q2}
    LogoutTokens = {j1}
    SidOf <- MCSidOf
    MaxGen = 1
    MaxCrashes = 0
INVARIANT
    EverySessionExpires
CHECK_DEADLOCK FALSE
