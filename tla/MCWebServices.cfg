\* Two of everything, in every service, with the counts that bound it.
CONSTANTS
    Requests = {x1, x2}
    Checks = {x1, x2}
    Tabs = {x1, x2}
    Permissions = {x1, x2}
    Texts <- LicenseTexts
    Groups = {"old", "new"}
    Member = {"old"}
    Principals = {"who"}
    Kinds = {"direct", "owner", "inherited", "nameless"}
    Configs = {"old", "new"}
    Troubles = {"(403)"}
    Life = 2
    Margin = 1
    RoleChanges = 1
    LicenseChanges = 2
    MaxFaults = 1
    NotSet = NotSet
    NoEntry = NoEntry
    LicenseTTL = 1
    LicenseTime = 2
    RoleTTL = 1
    RoleTime = 2
    MaxSignIns = 2
    MaxRotations = 1
    MaxBoots = 2
    MaxTokens = 2
    MaxClicks = 2
    Pages = 2
    LastMoment = 2
    MaxConfigures = 2
SPECIFICATION Spec
INVARIANTS TypeOK PostsAreEntitled SignInsAreKept LicenseAnswersHold GateHolds RevokeAnswersHold TokensFollowTheConfiguration
SYMMETRY Interchangeable
CHECK_DEADLOCK FALSE
