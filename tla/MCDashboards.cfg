CONSTANTS
    Sites = {"s1"}
    Drives = {"d1", "d2"}
    Items = {"i1", "i2"}
    Permissions = {"p1", "p2"}
    Users = {"u1"}
    Groups = {"g1"}
    NoSite = NoSite
    NoScope = NoScope
    Gone = Gone
    DriveOf <- MCDriveOf
    ItemOf <- MCItemOf
    DriveOrder <- MCDriveOrder
    SiteRows <- MCSiteRows
    DriveRows <- MCDriveRows
    PermissionRows <- MCPermissionRows
    MaxChanges = 1
    MaxFaults = 1
SPECIFICATION Spec
INVARIANTS TypeOK ViewsFollowTables PagesAgree LinksOpen
CHECK_DEADLOCK FALSE
