SPECIFICATION FairSpec
CONSTANTS
    Items = {report, folder}
    TestScopes = {pilot}
    FlushEvery = 2
    MaxRetries = 1
    CursorsExpire = TRUE
    RepeatsItems = TRUE
    MaxChanges = 3
    MaxSwitches = 1
    MaxFaults = 2
INVARIANTS
    TypeOK
    CursorCoversItsChanges
    OnlyShownItemsAreGranted
PROPERTIES
    ChangesArrive
