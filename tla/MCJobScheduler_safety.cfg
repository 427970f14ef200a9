\* One license-gated job contended by its schedule and two run-now threads,
\* every kind of fault.
CONSTANTS
    j1 = j1
    Jobs = {j1}
    Gated = {j1}
    Runs = {r1, r2, r3, r4, r5}
    Requests = {t1, t2}
    Scheduler = Scheduler
    NoJob = NoJob
    NoRun = NoRun
    NoOne = NoOne
    Recovery = TRUE
    MaxPeriod = 2
    FaultKinds = {"crash", "drop", "write", "recover"}
    MaxTime = 3
    MaxFaults = 2
    MaxChanges = 2
SPECIFICATION Spec
SYMMETRY Symmetry
INVARIANTS TypeOK LockInv LockExclusion OrphansHaveACause
PROPERTIES OneFirePerMoment ImplementsLedger
