\* Two of everything on the pages but one job and one assignment.
CONSTANTS
    Pages = {x1, x2}
    Permissions = {x1, x2}
    Bots = {x1, x2}
    Principals = {"who"}
    Kinds = {"direct", "owner"}
    Ops = {o1, o2}
    Pairs = {pair1}
    Jobs = {job1}
    Nobody = Nobody
    Unread = Unread
    Failed = Failed
    None = None
    MaxCommits = 2
    MaxOpens = 3
    MaxFaults = 1
    MaxClicks = 1
    MaxActions = 2
    MaxTroubles = 1
    MaxEvents = 3
    MaxPolls = 2
SPECIFICATION FairSpec
INVARIANTS TypeOK PagesAreCurrent JobAnswersHold
PROPERTIES RevokedRowsGo PagesComeBack
CHECK_DEADLOCK FALSE
