\* Batches and the smallest page are of one row.
CONSTANTS
    Sessions = {s1, s2}
    Users = {"user"}
    Agents = {"a1", "a2"}
    AgentOf <- OneAgentEach
    UserOf <- OneUser
    TestSessions = {s2}
    Lookbacks = {1, 2}
    Ranges = {1, 9}
    AnyAgent = AnyAgent
    NoRow = NoRow
    MaxTime = 2
    MaxEvents = 3
    MaxRuns = 2
    People = {u1, u2}
    Apps = {w1, w2, t1}
    Lone = t1
    Departments = {d1, d2}
    LabelOf <- TwoLabels
    AppLimit = 1
    DepartmentLimit = 1
    TopApps = 1
    Week = 2
    Lookback = 2
    Zone = 20
    Periods = {1, 9}
    NoSync = NoSync
    Other = Other
    LastTime = 2
    MaxPrompts = 2
    MaxSyncs = 2
    MaxMoves = 1
    DefaultSize = 1
    SmallestSize = 1
    LargestSize = 2
    LastPage = 4
    BatchSize = 1
    RawPages = {1, 3}
    RawSizes = {NotRead, 9}
    NotRead = NotRead
    MaxRows = 3
    MaxMicro = 2
    MaxVisits = 3
SPECIFICATION Spec
INVARIANTS TypeOK CompletedRunCovers SyncedUsersMatchTheirExport FiguresAgree LogsAreComplete
PROPERTY OnlyOwnRowsShrink
SYMMETRY Symmetry
CHECK_DEADLOCK FALSE
