SPECIFICATION FairSpec
CONSTANTS
    inventory = inventory
    sharing = sharing
    copilot = copilot
    drives = drives
    sessions = sessions
    Views <- MCViews
    Tables <- MCTables
    DependsOn <- MCDependsOn
    Triggered = {drives}
    Writers = {web, job}
    JobWriters = {job}
    Broken = {sharing}
    Limit = 2
    NoView = NoView
    MaxFaults = 1
INVARIANTS
    TypeOK
    OnlyOverlapsAreForgotten
PROPERTIES
    DirtyViewIsRefreshed
