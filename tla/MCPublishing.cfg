SPECIFICATION PublishSpec
CONSTANTS
    Admins = {"a1", "a2"}
    Datasets = {"d1", "d2"}
    Services = {"s1"}
    Rules = {"r1"}
    Live = {"d1"}
    Absent = Absent
    MaxCode = 2
    MaxRuns = 2
INVARIANT
    ServesWhatWasGated
CHECK_DEADLOCK FALSE
