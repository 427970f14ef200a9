SPECIFICATION Spec
CONSTANTS
    Items = {report}
    TestScopes = {}
    FlushEvery = 2
    MaxRetries = 1
    CursorsExpire = TRUE
    RepeatsItems = FALSE
    MaxChanges = 3
    MaxSwitches = 0
    MaxFaults = 1
INVARIANT
    LatestState
