\* Two jobs, one of them license-gated: a due schedule may wait behind the
\* lock of another job.  Every kind of fault.
CONSTANTS
    j1 = j1
    j2 = j2
    Jobs = {j1, j2}
    Gated = {j1}
    Runs = {r1, r2, r3, r4, r5, r6}
    Requests = {t1}
    Scheduler = Scheduler
    NoJob = NoJob
    NoRun = NoRun
    NoOne = NoOne
    Recovery = TRUE
    MaxPeriod = 1
    FaultKinds = {"crash", "drop", "write", "recover"}
    MaxTime = 2
    MaxFaults = 2
    MaxChanges = 1
SPECIFICATION FairSpec
PROPERTIES DueIsHandled RunningIsSettled LockIsReleased
