------------------------- MODULE JobSchedulerProofs -------------------------
(***************************************************************************)
(* Proofs about JobScheduler for any sets of jobs, runs and run-now        *)
(* threads and for any bounds: types, the advisory locks, and what the     *)
(* schedules and rows come to: a schedule fires once for one moment, a row *)
(* is left behind only by a fault, and scheduler, threads and locks        *)
(* together implement RunLedger.                                           *)
(***************************************************************************)
EXTENDS JobScheduler, TLAPS

(***************************************************************************)
(* Types                                                                   *)
(***************************************************************************)

\* The fresh run id is one of Runs that has no row.
LEMMA FreshRunIsUnused ==
    ASSUME \E r \in Runs : Unused(r)
    PROVE  FreshRun \in Runs /\ Unused(FreshRun)
BY DEF FreshRun

\* What the steps shared by both kinds of executors do to the types.
LEMMA BeginRunTypes ==
    ASSUME TypeOK, NEW e \in Executors, NEW j \in Jobs \cup {NoJob}, BeginRun(e, j)
    PROVE  /\ rows' \in [Runs -> Row]
           /\ lock' \in [Jobs -> Executors \cup {NoOne}]
           /\ pc' \in [Executors -> PCs] /\ \A x \in Executors : pc'[x] \in PC(x)
           /\ task' \in [Executors -> Task]
<1>1. FreshRun \in Runs
  BY FreshRunIsUnused DEF BeginRun, InsertRun
<1>2. rows' \in [Runs -> Row]
  BY <1>1 DEF BeginRun, InsertRun, TypeOK, Row, RowStatus
<1>3. lock' \in [Jobs -> Executors \cup {NoOne}]
  BY DEF BeginRun, TypeOK
<1>4. pc' \in [Executors -> PCs] /\ \A x \in Executors : pc'[x] \in PC(x)
  BY DEF BeginRun, TypeOK, PC, PCs, Working, Holding
<1>5. task' \in [Executors -> Task]
  BY <1>1 DEF BeginRun, TypeOK, Task
<1> QED BY <1>2, <1>3, <1>4, <1>5

LEMMA LeaveTypes ==
    ASSUME TypeOK, NEW e \in Executors, Leave(e)
    PROVE  /\ lock' \in [Jobs -> Executors \cup {NoOne}]
           /\ pc' \in [Executors -> PCs] /\ \A x \in Executors : pc'[x] \in PC(x)
           /\ task' \in [Executors -> Task]
           /\ lost' \subseteq Executors
<1>1. lock' \in [Jobs -> Executors \cup {NoOne}]
  BY DEF Leave, LocksWithout, TypeOK
<1>2. pc' \in [Executors -> PCs] /\ \A x \in Executors : pc'[x] \in PC(x)
  BY DEF Leave, Idle, TypeOK, PC, PCs
<1>3. task' \in [Executors -> Task]
  BY DEF Leave, NoTask, Task, TypeOK
<1>4. lost' \subseteq Executors
  BY DEF Leave, TypeOK
<1> QED BY <1>1, <1>2, <1>3, <1>4

LEMMA InitTypes == Init => TypeOK
<1> SUFFICES ASSUME Init PROVE TypeOK
  OBVIOUS
<1>1. now \in Nat \ {0} /\ licensed \in BOOLEAN /\ faults \in Nat /\ changes \in Nat
  BY DEF Init
<1>2. /\ jobEnabled \in [Jobs -> BOOLEAN] /\ firedAt \in [Jobs -> Nat]
      /\ lock \in [Jobs -> Executors \cup {NoOne}]
      /\ lost \subseteq Executors /\ resuming \subseteq Jobs
      /\ forsaken \subseteq Runs \cup {NoRun}
  BY DEF Init
<1>3. sched \in [Jobs -> Schedule]
  <2>1. NoSchedule \in Schedule
    BY DEF NoSchedule, Schedule, Null
  <2>2. \A ok \in BOOLEAN : NewSchedule(Null, ok, TRUE) \in Schedule
    BY DEF NewSchedule, Schedule, Null
  <2> QED BY <2>1, <2>2 DEF Init
<1>4. rows \in [Runs -> Row] /\ task \in [Executors -> Task]
  BY DEF Init, Row, NoRow, RowStatus, Task, NoTask
<1>5. pc \in [Executors -> PCs] /\ \A e \in Executors : pc[e] \in PC(e)
  BY DEF Init, PC, PCs
<1> QED BY <1>1, <1>2, <1>3, <1>4, <1>5 DEF TypeOK

\* A next run is a time later than the given one.
LEMMA NextRunIsLater ==
    ASSUME NEW base \in Nat, NEW t \in NextRun(base)
    PROVE  t \in Nat /\ base < t
BY ConstantsAssumption DEF NextRun

LEMMA SchedulerIsExecutor == Scheduler \in Executors
BY DEF Executors

LEMMA SchedulerTypes == TypeOK /\ SchedulerStep => TypeOK'
<1> SUFFICES ASSUME TypeOK, SchedulerStep PROVE TypeOK'
  OBVIOUS
<1> USE SchedulerIsExecutor
<1>1. CASE Recover
  <2>1. rows' \in [Runs -> Row]
    BY <1>1 DEF Recover, Recovered, TypeOK, Row, RowStatus
  <2>2. pc' \in [Executors -> PCs] /\ \A x \in Executors : pc'[x] \in PC(x)
    BY <1>1 DEF Recover, TypeOK, PC, PCs
  <2>3. forsaken' \subseteq Runs \cup {NoRun}
    BY <1>1 DEF Recover, TypeOK, Orphans
  <2> QED BY <1>1, <2>1, <2>2, <2>3 DEF Recover, TypeOK
<1>2. CASE DisableInvalidSchedule
  <2>1. rows' \in [Runs -> Row] /\ sched' \in [Jobs -> Schedule]
    <3>1. CASE task[Scheduler].job = NoJob
      BY <1>2, <3>1 DEF DisableInvalidSchedule, TypeOK
    <3>2. CASE task[Scheduler].job # NoJob
      <4>1. FreshRun \in Runs /\ task[Scheduler].job \in Jobs
        BY <1>2, <3>2, FreshRunIsUnused DEF DisableInvalidSchedule, InsertRun, TypeOK, Task
      <4>2. rows' \in [Runs -> Row]
        BY <1>2, <3>2, <4>1
        DEF DisableInvalidSchedule, InsertRun, TypeOK, Row, RowStatus
      <4>3. [sched[task[Scheduler].job] EXCEPT !.enabled = FALSE, !.next = Null] \in Schedule
        BY <4>1 DEF TypeOK, Schedule, Null
      <4>4. sched' = [sched EXCEPT ![task[Scheduler].job] =
                         [@ EXCEPT !.enabled = FALSE, !.next = Null]]
        BY <1>2, <3>2, <4>1 DEF DisableInvalidSchedule, TypeOK
      <4> QED BY <4>1, <4>2, <4>3, <4>4 DEF TypeOK
    <3> QED BY <3>1, <3>2
  <2>2. pc' \in [Executors -> PCs] /\ \A x \in Executors : pc'[x] \in PC(x)
    BY <1>2 DEF DisableInvalidSchedule, TypeOK, PC, PCs
  <2>3. task' \in [Executors -> Task]
    BY <1>2 DEF DisableInvalidSchedule, TypeOK, Task, NoTask
  <2> QED BY <1>2, <2>1, <2>2, <2>3 DEF DisableInvalidSchedule, TypeOK, envVars
<1>3. ASSUME NEW j \in Jobs, ArmSchedule(j) \/ SkipUnlicensed(j)
      PROVE  TypeOK'
  <2>1. PICK t \in NextRun(now) : sched' = [sched EXCEPT ![j].next = t]
    BY <1>3 DEF ArmSchedule, SkipUnlicensed
  <2>2. t \in Nat
    BY NextRunIsLater DEF TypeOK
  <2>3. sched' \in [Jobs -> Schedule]
    BY <2>1, <2>2 DEF TypeOK, Schedule
  <2> QED BY <1>3, <2>3 DEF ArmSchedule, SkipUnlicensed, TypeOK, envVars, execVars
<1>4. ASSUME NEW j \in Jobs, RejectCron(j)
      PROVE  TypeOK'
  <2>1. pc' \in [Executors -> PCs] /\ \A x \in Executors : pc'[x] \in PC(x)
    BY <1>4 DEF RejectCron, TypeOK, PC, PCs
  <2>2. task' \in [Executors -> Task]
    BY <1>4 DEF RejectCron, TypeOK, Task
  <2> QED BY <1>4, <2>1, <2>2 DEF RejectCron, TypeOK, envVars, dbVars
<1>5. ASSUME NEW j \in Jobs, FireSchedule(j)
      PROVE  TypeOK'
  <2>1. PICK t \in NextRun(now) : sched' = [sched EXCEPT ![j].next = t]
    BY <1>5 DEF FireSchedule
  <2>2. t \in Nat
    BY NextRunIsLater DEF TypeOK
  <2>3. sched' \in [Jobs -> Schedule]
    BY <2>1, <2>2 DEF TypeOK, Schedule
  <2>4. firedAt' \in [Jobs -> Nat]
    BY <1>5 DEF FireSchedule, TypeOK
  <2> QED BY <1>5, <2>3, <2>4, BeginRunTypes DEF FireSchedule, TypeOK, envVars
<1> QED BY <1>1, <1>2, <1>3, <1>4, <1>5 DEF SchedulerStep

LEMMA ExecutorTypes ==
    ASSUME TypeOK, NEW e \in Executors, ExecutorStep(e)
    PROVE  TypeOK'
<1>1. CASE ExecuteJob(e) \/ RefuseJob(e) \/ (\E s \in {"success", "failed"} : EndJob(e, s))
  <2>1. pc' \in [Executors -> PCs] /\ \A x \in Executors : pc'[x] \in PC(x)
    BY <1>1 DEF ExecuteJob, RefuseJob, EndJob, Goto, TypeOK, PC, PCs, Working, Holding
  <2>2. task' \in [Executors -> Task]
    BY <1>1 DEF ExecuteJob, RefuseJob, EndJob, TypeOK, Task
  <2> QED BY <1>1, <2>1, <2>2 DEF ExecuteJob, RefuseJob, EndJob, TypeOK, dbVars, envVars
<1>2. CASE FinishRun(e)
  <2>1. pc' \in [Executors -> PCs] /\ \A x \in Executors : pc'[x] \in PC(x)
    BY <1>2 DEF FinishRun, Goto, TypeOK, PC, PCs, Working, Holding
  <2> QED BY <1>2, <2>1 DEF FinishRun, LocksWithout, TypeOK, dbVars, envVars
<1>3. CASE CommitRun(e)
  <2>1. task[e].outcome \in RowStatus
    BY DEF TypeOK, Task, RowStatus
  <2>2. \A r \in Runs : [rows[r] EXCEPT !.status = task[e].outcome] \in Row
    BY <2>1 DEF TypeOK, Row
  <2>3. rows' \in [Runs -> Row]
    BY <1>3, <2>2 DEF CommitRun, TypeOK
  <2> QED BY <1>3, <2>3, LeaveTypes DEF CommitRun, TypeOK, envVars
<1>4. CASE FindConnectionLost(e)
  <2>1. forsaken' \subseteq Runs \cup {NoRun}
    BY <1>4 DEF FindConnectionLost, TypeOK, Task
  <2> QED BY <1>4, <2>1, LeaveTypes DEF FindConnectionLost, TypeOK, dbVars
<1> QED BY <1>1, <1>2, <1>3, <1>4 DEF ExecutorStep

LEMMA RunNowTypes ==
    ASSUME TypeOK, NEW e \in Requests, RunNowStep(e)
    PROVE  TypeOK'
<1> USE ConstantsAssumption DEF Executors
<1>1. CASE StartRunNow(e)
  <2>1. e \in Executors /\ task[e].job \in Jobs \cup {NoJob}
    BY DEF TypeOK, Task
  <2>2. BeginRun(e, task[e].job)
    BY <1>1 DEF StartRunNow
  <2> HIDE DEF Executors
  <2>3. /\ rows' \in [Runs -> Row]
        /\ lock' \in [Jobs -> Executors \cup {NoOne}]
        /\ pc' \in [Executors -> PCs] /\ \A x \in Executors : pc'[x] \in PC(x)
        /\ task' \in [Executors -> Task]
    BY <2>1, <2>2, BeginRunTypes
  <2> QED BY <1>1, <2>3 DEF StartRunNow, TypeOK, envVars
<1>2. CASE DropRunNow(e)
  <2>1. pc' \in [Executors -> PCs] /\ \A x \in Executors : pc'[x] \in PC(x)
    BY <1>2 DEF DropRunNow, TypeOK, PC, PCs
  <2>2. task' \in [Executors -> Task]
    BY <1>2 DEF DropRunNow, TypeOK, Task, NoTask
  <2> QED BY <1>2, <2>1, <2>2 DEF DropRunNow, TypeOK, dbVars, envVars
<1> QED BY <1>1, <1>2 DEF RunNowStep

LEMMA SetEnabledTypes ==
    ASSUME TypeOK, NEW j \in Jobs, NEW on \in BOOLEAN, SetEnabled(j, on)
    PROVE  sched' \in [Jobs -> Schedule]
<1>1. [sched[j] EXCEPT !.enabled = on, !.next = Null] \in Schedule
  BY DEF TypeOK, Schedule, Null
<1>2. sched' = [sched EXCEPT ![j] = [@ EXCEPT !.enabled = on, !.next = Null]]
  BY DEF SetEnabled, TypeOK
<1> QED BY <1>1, <1>2 DEF TypeOK

LEMMA AdminTypes == TypeOK /\ AdminStep => TypeOK'
<1> SUFFICES ASSUME TypeOK, AdminStep PROVE TypeOK'
  OBVIOUS
<1>1. ASSUME NEW e \in Requests, NEW j \in Jobs, RequestRunNow(e, j)
      PROVE  TypeOK'
  <2>1. pc' \in [Executors -> PCs] /\ \A x \in Executors : pc'[x] \in PC(x)
    BY <1>1, ConstantsAssumption DEF RequestRunNow, TypeOK, PC, PCs, Executors
  <2>2. task' \in [Executors -> Task]
    BY <1>1 DEF RequestRunNow, TypeOK, Task
  <2> QED BY <1>1, <2>1, <2>2 DEF RequestRunNow, Admin, Change, TypeOK, dbVars
<1>2. ASSUME NEW j \in Jobs, CreateSchedule(j) \/ UpdateSchedule(j)
      PROVE  TypeOK'
  <2>1. PICK t \in AdminTimes, ok \in BOOLEAN, on \in BOOLEAN :
          sched' = [sched EXCEPT ![j] = NewSchedule(t, ok, on)]
    BY <1>2 DEF CreateSchedule, UpdateSchedule
  <2>2. t \in Nat
    BY ConstantsAssumption DEF AdminTimes, Null, TypeOK
  <2>3. NewSchedule(t, ok, on) \in Schedule
    BY <2>2 DEF NewSchedule, Schedule
  <2>4. sched' \in [Jobs -> Schedule]
    BY <2>1, <2>3 DEF TypeOK
  <2>5. firedAt' = [firedAt EXCEPT ![j] = 0] /\ Admin
    BY <1>2 DEF CreateSchedule, UpdateSchedule
  <2>6. UNCHANGED <<jobEnabled, rows, execVars, resuming, now, licensed, forsaken, faults>>
    BY <1>2 DEF CreateSchedule, UpdateSchedule
  <2> QED BY <2>4, <2>5, <2>6 DEF Admin, Change, TypeOK, execVars
<1>3. ASSUME NEW j \in Jobs, DeleteSchedule(j)
      PROVE  TypeOK'
  <2>1. sched' \in [Jobs -> Schedule]
    BY <1>3 DEF DeleteSchedule, TypeOK, NoSchedule, Schedule, Null
  <2>2. task' \in [Executors -> Task]
    <3>1. [task[Scheduler] EXCEPT !.job = NoJob] \in Task
      BY SchedulerIsExecutor DEF TypeOK, Task
    <3>2. task' = task \/ task' = [task EXCEPT ![Scheduler] = [@ EXCEPT !.job = NoJob]]
      BY <1>3 DEF DeleteSchedule
    <3> QED BY <3>1, <3>2 DEF TypeOK
  <2> QED BY <1>3, <2>1, <2>2 DEF DeleteSchedule, Admin, Change, TypeOK
<1>4. ASSUME NEW j \in Jobs, NEW on \in BOOLEAN,
             PauseJob(j) \/ ResumeSchedule(j) \/ ToggleSchedule(j, on) \/ ToggleJob(j, on)
      PROVE  TypeOK'
  <2>1. sched' \in [Jobs -> Schedule]
    <3>1. CASE SetEnabled(j, TRUE) \/ SetEnabled(j, FALSE) \/ SetEnabled(j, on)
      BY <3>1, SetEnabledTypes
    <3>2. CASE sched' = sched
      BY <3>2 DEF TypeOK
    <3> QED BY <1>4, <3>1, <3>2 DEF PauseJob, ResumeSchedule, ToggleSchedule, ToggleJob
  <2>2. jobEnabled' \in [Jobs -> BOOLEAN] /\ resuming' \subseteq Jobs
    BY <1>4 DEF PauseJob, ResumeSchedule, ToggleSchedule, ToggleJob, TypeOK
  <2>3. Admin /\ UNCHANGED <<rows, execVars, firedAt, now, licensed, forsaken, faults>>
    BY <1>4 DEF PauseJob, ResumeSchedule, ToggleSchedule, ToggleJob
  <2> QED BY <2>1, <2>2, <2>3 DEF Admin, Change, TypeOK, execVars
<1>5. CASE ChangeLicense
  BY <1>5 DEF ChangeLicense, Change, TypeOK, dbVars, execVars
<1> QED BY <1>1, <1>2, <1>3, <1>4, <1>5 DEF AdminStep

LEMMA FaultTypes == TypeOK /\ FaultStep => TypeOK'
<1> SUFFICES ASSUME TypeOK, FaultStep PROVE TypeOK'
  OBVIOUS
<1> USE SchedulerIsExecutor
<1>1. CASE Crash
  <2>1. pc' \in [Executors -> PCs] /\ \A x \in Executors : pc'[x] \in PC(x)
    BY <1>1 DEF Crash, PC, PCs
  <2>2. task' \in [Executors -> Task] /\ lock' \in [Jobs -> Executors \cup {NoOne}]
    BY <1>1 DEF Crash, NoTask, Task, LocksWithout, TypeOK
  <2> QED BY <1>1, <2>1, <2>2 DEF Crash, Fault, TypeOK, dbVars
<1>2. CASE AbandonDisable
  BY <1>2, LeaveTypes DEF AbandonDisable, Fault, TypeOK, dbVars
<1>3. CASE RecoverFails
  <2>1. pc' \in [Executors -> PCs] /\ \A x \in Executors : pc'[x] \in PC(x)
    BY <1>3 DEF RecoverFails, TypeOK, PC, PCs
  <2>2. forsaken' \subseteq Runs \cup {NoRun}
    BY <1>3 DEF RecoverFails, TypeOK, Orphans
  <2> QED BY <1>3, <2>1, <2>2 DEF RecoverFails, Fault, TypeOK, dbVars
<1>4. ASSUME NEW e \in Executors, DropSession(e)
      PROVE  TypeOK'
  BY <1>4 DEF DropSession, Fault, LocksWithout, TypeOK, dbVars
<1>5. ASSUME NEW e \in Executors, AbandonRun(e)
      PROVE  TypeOK'
  <2>1. forsaken' \subseteq Runs \cup {NoRun}
    BY <1>5 DEF AbandonRun, TypeOK, Task
  <2> QED BY <1>5, <2>1, LeaveTypes DEF AbandonRun, Fault, TypeOK, dbVars
<1>6. ASSUME NEW j \in Jobs, AbandonResume(j)
      PROVE  TypeOK'
  BY <1>6 DEF AbandonResume, Fault, TypeOK, dbVars, execVars
<1> QED BY <1>1, <1>2, <1>3, <1>4, <1>5, <1>6 DEF FaultStep

\* Every step of the scheduler, the threads, the admins and the faults keeps
\* the types.
LEMMA NextTypes == TypeOK /\ [Next]_vars => TypeOK'
<1> SUFFICES ASSUME TypeOK, [Next]_vars PROVE TypeOK'
  OBVIOUS
<1>1. ASSUME NEW j \in Jobs, ResumeJob(j)
      PROVE  TypeOK'
  BY <1>1 DEF ResumeJob, TypeOK, execVars, envVars
<1>2. CASE Tick
  BY <1>2 DEF Tick, TypeOK, dbVars, execVars
<1>3. CASE Restart
  <2>1. pc' \in [Executors -> PCs] /\ \A x \in Executors : pc'[x] \in PC(x)
    BY <1>3, SchedulerIsExecutor DEF Restart, TypeOK, PC, PCs
  <2> QED BY <1>3, <2>1 DEF Restart, TypeOK, dbVars, envVars
<1>4. CASE PollNothing \/ UNCHANGED vars
  BY <1>4 DEF PollNothing, TypeOK, vars
<1> QED BY <1>1, <1>2, <1>3, <1>4, SchedulerTypes, ExecutorTypes, RunNowTypes,
           AdminTypes, FaultTypes DEF Next

\* The scheduler's variables keep their types in every behaviour, for any
\* jobs, runs and run-now threads.
THEOREM TypeCorrect == Spec => []TypeOK
BY InitTypes, NextTypes, PTL DEF Spec

(***************************************************************************)
(* The advisory lock                                                       *)
(*                                                                         *)
(* LockInv is inductive.  Its parts need each other: that a free lock may  *)
(* be taken keeps WorkerHasLock only because LockedByWorker gives a lock   *)
(* no other holder, and that a commit spoils nobody's row is RunsDistinct, *)
(* which a fresh run keeps only because WorkerHasRun says that the rows of *)
(* the others exist.                                                       *)
(***************************************************************************)

Settling == {"running", "interrupted"}

\* A step of an executor that works neither before nor after it, and that
\* leaves the locks and the rows of the working executors alone.
LEMMA QuietStep ==
    ASSUME TypeOK, LockInv, NEW e \in Executors,
           pc[e] \notin Working, pc'[e] \notin Working,
           pc'[e] = "spawned" => task'[e].job \in Jobs,
           \A x \in Executors \ {e} : pc'[x] = pc[x] /\ task'[x] = task[x],
           lock' = lock, lost' = lost,
           \A r \in Runs : rows[r].status \in Settling => rows'[r].status \in Settling
    PROVE  LockInv'
<1> USE DEF LockInv, Settling
<1>1. LockedByWorker'
  BY DEF LockedByWorker, Working
<1>2. WorkerHasLock'
  BY DEF WorkerHasLock, Working
<1>3. WorkerHasRun'
  <2>1. \A x \in Executors : pc'[x] \in Working =>
          /\ task'[x].job \in Jobs /\ task'[x].run \in Runs
          /\ rows'[task'[x].run].status \in {"running", "interrupted"}
    BY DEF WorkerHasRun
  <2>2. /\ \A x \in Executors : pc'[x] \in {"finish", "commit"} => task'[x].outcome # "none"
        /\ \A x \in Executors : pc'[x] = "spawned" => task'[x].job \in Jobs
        /\ \A x \in lost' : pc'[x] \in Working
    BY DEF WorkerHasRun, Working, Holding, TypeOK
  <2> QED BY <2>1, <2>2 DEF WorkerHasRun
<1>4. RunsDistinct'
  BY DEF RunsDistinct
<1> QED BY <1>1, <1>2, <1>3, <1>4

\* Both kinds of executors begin a run with a lock that nobody holds and a
\* row that nobody else settles.
LEMMA BeginRunLock ==
    ASSUME TypeOK, LockInv, NEW e \in Executors, NEW j \in Jobs,
           pc[e] \notin Working, BeginRun(e, j), lost' = lost
    PROVE  LockInv'
<1>1. FreshRun \in Runs /\ rows[FreshRun].status = "none"
  BY FreshRunIsUnused DEF BeginRun, InsertRun, Unused
<1>2. /\ lock[j] = NoOne /\ lock' = [lock EXCEPT ![j] = e]
      /\ rows' = [rows EXCEPT ![FreshRun] = [job |-> j, status |-> "running"]]
      /\ task' = [task EXCEPT ![e] = [job |-> j, run |-> FreshRun, outcome |-> "none"]]
      /\ pc' = [pc EXCEPT ![e] = "started"]
  BY DEF BeginRun, LockFree, InsertRun
<1>3. e \notin lost
  BY DEF LockInv, WorkerHasRun
<1>4. \A x \in Executors : pc[x] \in Working => x # e /\ task[x].run # FreshRun
  BY <1>1 DEF LockInv, WorkerHasRun
<1>5. \A x \in Executors : x # e => pc'[x] = pc[x] /\ task'[x] = task[x]
  BY <1>2 DEF TypeOK
<1>6. pc'[e] = "started" /\ task'[e] = [job |-> j, run |-> FreshRun, outcome |-> "none"]
  BY <1>2 DEF TypeOK
<1>7. LockedByWorker'
  <2> SUFFICES ASSUME NEW k \in Jobs, lock'[k] # NoOne
               PROVE  /\ lock'[k] \in Executors \ lost
                      /\ pc'[lock'[k]] \in Holding
                      /\ task'[lock'[k]].job = k
    BY DEF LockedByWorker
  <2>1. CASE k = j
    BY <1>2, <1>3, <1>6, <2>1 DEF TypeOK, Holding
  <2>2. CASE k # j
    <3>1. lock'[k] = lock[k] /\ lock[k] # e
      BY <1>2, <2>2 DEF LockInv, LockedByWorker, Working, TypeOK
    <3> QED BY <1>5, <3>1 DEF LockInv, LockedByWorker
  <2> QED BY <2>1, <2>2
<1>8. WorkerHasLock'
  <2> SUFFICES ASSUME NEW x \in Executors, pc'[x] \in Holding, x \notin lost
               PROVE  lock'[task'[x].job] = x
    BY DEF WorkerHasLock
  <2>1. CASE x = e
    BY <1>2, <1>6, <2>1 DEF TypeOK
  <2>2. CASE x # e
    <3>1. task[x].job \in Jobs /\ lock[task[x].job] = x
      BY <1>5, <2>2 DEF LockInv, WorkerHasLock, WorkerHasRun, Working
    <3>2. x # NoOne
      BY ConstantsAssumption
    <3> QED BY <1>2, <1>5, <2>2, <3>1, <3>2 DEF TypeOK
  <2> QED BY <2>1, <2>2
<1>9. WorkerHasRun'
  <2>1. \A x \in Executors : pc'[x] \in Working =>
          /\ task'[x].job \in Jobs /\ task'[x].run \in Runs
          /\ rows'[task'[x].run].status \in {"running", "interrupted"}
    BY <1>1, <1>2, <1>4, <1>5, <1>6 DEF LockInv, WorkerHasRun, TypeOK
  <2>2. /\ \A x \in Executors : pc'[x] \in {"finish", "commit"} => task'[x].outcome # "none"
        /\ \A x \in Executors : pc'[x] = "spawned" => task'[x].job \in Jobs
        /\ \A x \in lost : pc'[x] \in Working
    BY <1>3, <1>5, <1>6 DEF LockInv, WorkerHasRun, TypeOK
  <2> QED BY <2>1, <2>2 DEF WorkerHasRun
<1>10. RunsDistinct'
  BY <1>4, <1>5, <1>6 DEF LockInv, RunsDistinct
<1> QED BY <1>7, <1>8, <1>9, <1>10 DEF LockInv

\* A run goes on without touching its lock or its row.
LEMMA RunGoesOn ==
    ASSUME TypeOK, LockInv, NEW e \in Executors,
           pc[e] \in Holding, pc'[e] \in Holding,
           pc'[e] = "finish" => task'[e].outcome # "none",
           task'[e].job = task[e].job, task'[e].run = task[e].run,
           \A x \in Executors \ {e} : pc'[x] = pc[x] /\ task'[x] = task[x],
           lock' = lock, lost' = lost, rows' = rows
    PROVE  LockInv'
<1> USE DEF LockInv
<1>1. LockedByWorker'
  BY DEF LockedByWorker
<1>2. WorkerHasLock'
  BY DEF WorkerHasLock
<1>3. WorkerHasRun'
  <2>1. \A x \in Executors : pc'[x] \in Working =>
          /\ task'[x].job \in Jobs /\ task'[x].run \in Runs
          /\ rows'[task'[x].run].status \in {"running", "interrupted"}
    BY DEF WorkerHasRun, Working
  <2>2. /\ \A x \in Executors : pc'[x] \in {"finish", "commit"} => task'[x].outcome # "none"
        /\ \A x \in Executors : pc'[x] = "spawned" => task'[x].job \in Jobs
        /\ \A x \in lost' : pc'[x] \in Working
    BY DEF WorkerHasRun, Working, Holding, TypeOK
  <2> QED BY <2>1, <2>2 DEF WorkerHasRun
<1>4. RunsDistinct'
  BY DEF RunsDistinct, Working
<1> QED BY <1>1, <1>2, <1>3, <1>4

\* The end of a run releases the lock of its job and no other lock, and it
\* may have settled its own row.
LEMMA LeaveLock ==
    ASSUME TypeOK, LockInv, NEW e \in Executors, Leave(e),
           pc[e] \in Working \/ rows' = rows,
           \A r \in Runs : r # task[e].run => rows'[r] = rows[r]
    PROVE  LockInv'
<1>1. \A x \in Executors : x # e => pc'[x] = pc[x] /\ task'[x] = task[x]
  BY DEF Leave, TypeOK
<1>2. pc'[e] \notin Working /\ pc'[e] # "spawned" /\ lost' = lost \ {e}
  BY DEF Leave, Idle, Working, Holding, TypeOK
<1>3. \A j \in Jobs : lock'[j] = IF lock[j] = e THEN NoOne ELSE lock[j]
  BY DEF Leave, LocksWithout
<1>4. LockedByWorker'
  BY <1>1, <1>2, <1>3 DEF LockInv, LockedByWorker
<1>5. WorkerHasLock'
  BY <1>1, <1>2, <1>3 DEF LockInv, WorkerHasLock, WorkerHasRun, Working
<1>6. \A x \in Executors : x # e /\ pc[x] \in Working => rows'[task[x].run] = rows[task[x].run]
  BY DEF LockInv, WorkerHasRun, RunsDistinct
<1>7. WorkerHasRun'
  <2>1. \A x \in Executors : pc'[x] \in Working =>
          /\ task'[x].job \in Jobs /\ task'[x].run \in Runs
          /\ rows'[task'[x].run].status \in {"running", "interrupted"}
    BY <1>1, <1>2, <1>6 DEF LockInv, WorkerHasRun
  <2>2. /\ \A x \in Executors : pc'[x] \in {"finish", "commit"} => task'[x].outcome # "none"
        /\ \A x \in Executors : pc'[x] = "spawned" => task'[x].job \in Jobs
        /\ \A x \in lost' : pc'[x] \in Working
    BY <1>1, <1>2 DEF LockInv, WorkerHasRun, Working, Holding, TypeOK
  <2> QED BY <2>1, <2>2 DEF WorkerHasRun
<1>8. RunsDistinct'
  BY <1>1, <1>2 DEF LockInv, RunsDistinct
<1> QED BY <1>4, <1>5, <1>7, <1>8 DEF LockInv

LEMMA InitLock == Init => LockInv
BY ConstantsAssumption, SchedulerIsExecutor
DEF Init, LockInv, LockedByWorker, WorkerHasLock, WorkerHasRun, RunsDistinct, Working, Holding

\* Steps that see neither the executors nor the rows.
LEMMA ElsewhereLock ==
    LockInv /\ UNCHANGED <<rows, lock, pc, task, lost>> => LockInv'
BY DEF LockInv, LockedByWorker, WorkerHasLock, WorkerHasRun, RunsDistinct

LEMMA SchedulerLock == TypeOK /\ LockInv /\ SchedulerStep => LockInv'
<1> SUFFICES ASSUME TypeOK, LockInv, SchedulerStep PROVE LockInv'
  OBVIOUS
<1> USE SchedulerIsExecutor
<1>1. CASE Recover
  <2>1. \A r \in Runs : rows[r].status \in Settling => rows'[r].status \in Settling
    BY <1>1 DEF Recover, Recovered, Settling, TypeOK, Row
  <2>2. /\ pc[Scheduler] \notin Working /\ pc'[Scheduler] \notin Working
        /\ pc'[Scheduler] # "spawned"
        /\ \A x \in Executors \ {Scheduler} : pc'[x] = pc[x] /\ task'[x] = task[x]
        /\ lock' = lock /\ lost' = lost
    BY <1>1 DEF Recover, Working, Holding, TypeOK
  <2> QED BY <2>1, <2>2, QuietStep
<1>2. CASE DisableInvalidSchedule
  <2>1. \A r \in Runs : rows[r].status \in Settling => rows'[r].status \in Settling
    <3>1. CASE rows' = rows
      BY <3>1
    <3>2. CASE InsertRun(task[Scheduler].job, "failed")
      <4>1. FreshRun \in Runs /\ rows[FreshRun].status = "none"
        BY <3>2, FreshRunIsUnused DEF InsertRun, Unused
      <4> QED BY <3>2, <4>1 DEF InsertRun, Settling, TypeOK
    <3> QED BY <1>2, <3>1, <3>2 DEF DisableInvalidSchedule
  <2>2. /\ pc[Scheduler] \notin Working /\ pc'[Scheduler] \notin Working
        /\ pc'[Scheduler] # "spawned"
        /\ \A x \in Executors \ {Scheduler} : pc'[x] = pc[x] /\ task'[x] = task[x]
        /\ lock' = lock /\ lost' = lost
    BY <1>2 DEF DisableInvalidSchedule, Working, Holding, TypeOK
  <2> QED BY <2>1, <2>2, QuietStep
<1>3. ASSUME NEW j \in Jobs, ArmSchedule(j) \/ SkipUnlicensed(j)
      PROVE  LockInv'
  BY <1>3, ElsewhereLock DEF ArmSchedule, SkipUnlicensed, execVars
<1>4. ASSUME NEW j \in Jobs, RejectCron(j)
      PROVE  LockInv'
  <2>1. /\ pc[Scheduler] \notin Working /\ pc'[Scheduler] \notin Working
        /\ pc'[Scheduler] # "spawned"
        /\ \A x \in Executors \ {Scheduler} : pc'[x] = pc[x] /\ task'[x] = task[x]
        /\ lock' = lock /\ lost' = lost /\ rows' = rows
    BY <1>4 DEF RejectCron, Working, Holding, TypeOK, dbVars
  <2> QED BY <2>1, QuietStep
<1>5. ASSUME NEW j \in Jobs, FireSchedule(j)
      PROVE  LockInv'
  <2>1. pc[Scheduler] \notin Working /\ BeginRun(Scheduler, j) /\ lost' = lost
    BY <1>5 DEF FireSchedule, Working, Holding
  <2> QED BY <2>1, BeginRunLock
<1> QED BY <1>1, <1>2, <1>3, <1>4, <1>5 DEF SchedulerStep

LEMMA ExecutorLock ==
    ASSUME TypeOK, LockInv, NEW e \in Executors, ExecutorStep(e)
    PROVE  LockInv'
<1>1. CASE ExecuteJob(e) \/ RefuseJob(e) \/ \E s \in {"success", "failed"} : EndJob(e, s)
  <2>1. /\ pc[e] \in Holding /\ pc'[e] \in Holding
        /\ pc'[e] = "finish" => task'[e].outcome # "none"
    BY <1>1 DEF ExecuteJob, RefuseJob, EndJob, Goto, Holding, TypeOK, Task
  <2>2. /\ task'[e].job = task[e].job /\ task'[e].run = task[e].run
        /\ \A x \in Executors \ {e} : pc'[x] = pc[x] /\ task'[x] = task[x]
    BY <1>1 DEF ExecuteJob, RefuseJob, EndJob, Goto, TypeOK, Task
  <2>3. lock' = lock /\ lost' = lost /\ rows' = rows
    BY <1>1 DEF ExecuteJob, RefuseJob, EndJob, dbVars
  <2> QED BY <2>1, <2>2, <2>3, RunGoesOn
<1>2. CASE FinishRun(e)
  <2>1. /\ pc[e] = "finish" /\ pc'[e] = "commit" /\ e \notin lost
        /\ \A x \in Executors : x # e => pc'[x] = pc[x]
        /\ \A j \in Jobs : lock'[j] = IF lock[j] = e THEN NoOne ELSE lock[j]
        /\ UNCHANGED <<rows, task, lost>>
    BY <1>2 DEF FinishRun, Goto, LocksWithout, TypeOK, dbVars
  <2>2. LockedByWorker'
    BY <2>1 DEF LockInv, LockedByWorker
  <2>3. WorkerHasLock'
    BY <2>1 DEF LockInv, WorkerHasLock, WorkerHasRun, Working, Holding
  <2>4. WorkerHasRun'
    BY <2>1 DEF LockInv, WorkerHasRun, Working, Holding, TypeOK
  <2>5. RunsDistinct'
    BY <2>1 DEF LockInv, RunsDistinct, Working, Holding
  <2> QED BY <2>2, <2>3, <2>4, <2>5 DEF LockInv
<1>3. CASE CommitRun(e)
  BY <1>3, LeaveLock DEF CommitRun, Working, TypeOK
<1>4. CASE FindConnectionLost(e)
  BY <1>4, LeaveLock DEF FindConnectionLost, dbVars
<1> QED BY <1>1, <1>2, <1>3, <1>4 DEF ExecutorStep

LEMMA RunNowLock ==
    ASSUME TypeOK, LockInv, NEW e \in Requests, RunNowStep(e)
    PROVE  LockInv'
<1>1. e \in Executors
  BY DEF Executors
<1>2. CASE StartRunNow(e)
  <2>1. /\ pc[e] \notin Working /\ task[e].job \in Jobs
        /\ BeginRun(e, task[e].job) /\ lost' = lost
    BY <1>1, <1>2 DEF StartRunNow, LockInv, WorkerHasRun, Working, Holding
  <2> QED BY <1>1, <2>1, BeginRunLock
<1>3. CASE DropRunNow(e)
  <2>1. /\ pc[e] \notin Working /\ pc'[e] \notin Working /\ pc'[e] # "spawned"
        /\ \A x \in Executors \ {e} : pc'[x] = pc[x] /\ task'[x] = task[x]
        /\ lock' = lock /\ lost' = lost /\ rows' = rows
    BY <1>1, <1>3 DEF DropRunNow, Working, Holding, TypeOK, dbVars
  <2> QED BY <1>1, <2>1, QuietStep
<1> QED BY <1>2, <1>3 DEF RunNowStep

LEMMA AdminLock == TypeOK /\ LockInv /\ AdminStep => LockInv'
<1> SUFFICES ASSUME TypeOK, LockInv, AdminStep PROVE LockInv'
  OBVIOUS
<1>1. ASSUME NEW e \in Requests, NEW j \in Jobs, RequestRunNow(e, j)
      PROVE  LockInv'
  <2>1. e \in Executors
    BY DEF Executors
  <2>2. /\ pc[e] \notin Working /\ pc'[e] \notin Working
        /\ pc'[e] = "spawned" => task'[e].job \in Jobs
        /\ \A x \in Executors \ {e} : pc'[x] = pc[x] /\ task'[x] = task[x]
        /\ lock' = lock /\ lost' = lost /\ rows' = rows
    BY <1>1, <2>1 DEF RequestRunNow, Working, Holding, TypeOK, Task, dbVars
  <2> QED BY <2>1, <2>2, QuietStep
<1>2. ASSUME NEW j \in Jobs, DeleteSchedule(j)
      PROVE  LockInv'
  <2>1. CASE pc[Scheduler] = "disable" /\ task[Scheduler].job = j
    <3>1. /\ pc[Scheduler] \notin Working /\ pc'[Scheduler] \notin Working
          /\ pc'[Scheduler] # "spawned"
          /\ \A x \in Executors \ {Scheduler} : pc'[x] = pc[x] /\ task'[x] = task[x]
          /\ lock' = lock /\ lost' = lost /\ rows' = rows
      BY <1>2, <2>1 DEF DeleteSchedule, Working, Holding, TypeOK
    <3> QED BY <3>1, SchedulerIsExecutor, QuietStep
  <2>2. CASE ~(pc[Scheduler] = "disable" /\ task[Scheduler].job = j)
    BY <1>2, <2>2, ElsewhereLock DEF DeleteSchedule
  <2> QED BY <2>1, <2>2
<1>3. CASE UNCHANGED <<rows, execVars>>
  BY <1>3, ElsewhereLock DEF execVars
<1>4. \/ \E e \in Requests, j \in Jobs : RequestRunNow(e, j)
      \/ \E j \in Jobs : DeleteSchedule(j)
      \/ UNCHANGED <<rows, execVars>>
  BY DEF AdminStep, CreateSchedule, UpdateSchedule, PauseJob, ResumeSchedule,
         ToggleSchedule, ToggleJob, ChangeLicense, dbVars
<1> QED BY <1>1, <1>2, <1>3, <1>4

LEMMA FaultLock == TypeOK /\ LockInv /\ FaultStep => LockInv'
<1> SUFFICES ASSUME TypeOK, LockInv, FaultStep PROVE LockInv'
  OBVIOUS
<1> USE SchedulerIsExecutor
<1>1. CASE Crash
  <2>1. /\ \A e \in Executors : pc'[e] \in {"down", "idle"}
        /\ \A j \in Jobs : lock'[j] = NoOne
        /\ lost' = {}
    BY <1>1 DEF Crash, LocksWithout, TypeOK
  <2> QED BY <2>1 DEF LockInv, LockedByWorker, WorkerHasLock, WorkerHasRun, RunsDistinct,
                      Working, Holding
<1>2. CASE AbandonDisable
  BY <1>2, LeaveLock DEF AbandonDisable, dbVars
<1>3. CASE RecoverFails
  <2>1. /\ pc[Scheduler] \notin Working /\ pc'[Scheduler] \notin Working
        /\ pc'[Scheduler] # "spawned"
        /\ \A x \in Executors \ {Scheduler} : pc'[x] = pc[x] /\ task'[x] = task[x]
        /\ lock' = lock /\ lost' = lost /\ rows' = rows
    BY <1>3 DEF RecoverFails, Working, Holding, TypeOK, dbVars
  <2> QED BY <2>1, QuietStep
<1>4. ASSUME NEW e \in Executors, DropSession(e)
      PROVE  LockInv'
  <2>1. /\ pc[e] \in Working /\ lost' = lost \cup {e}
        /\ \A j \in Jobs : lock'[j] = IF lock[j] = e THEN NoOne ELSE lock[j]
        /\ UNCHANGED <<rows, pc, task>>
    BY <1>4 DEF DropSession, LocksWithout, dbVars
  <2> QED BY <2>1 DEF LockInv, LockedByWorker, WorkerHasLock, WorkerHasRun, RunsDistinct, Working
<1>5. ASSUME NEW e \in Executors, AbandonRun(e)
      PROVE  LockInv'
  BY <1>5, LeaveLock DEF AbandonRun, dbVars
<1>6. ASSUME NEW j \in Jobs, AbandonResume(j)
      PROVE  LockInv'
  BY <1>6, ElsewhereLock DEF AbandonResume, dbVars, execVars
<1> QED BY <1>1, <1>2, <1>3, <1>4, <1>5, <1>6 DEF FaultStep

LEMMA NextLock == TypeOK /\ LockInv /\ [Next]_vars => LockInv'
<1> SUFFICES ASSUME TypeOK, LockInv, [Next]_vars PROVE LockInv'
  OBVIOUS
<1>1. CASE Restart
  <2>1. /\ pc[Scheduler] \notin Working /\ pc'[Scheduler] \notin Working
        /\ pc'[Scheduler] # "spawned"
        /\ \A x \in Executors \ {Scheduler} : pc'[x] = pc[x] /\ task'[x] = task[x]
        /\ lock' = lock /\ lost' = lost /\ rows' = rows
    BY <1>1, SchedulerIsExecutor DEF Restart, Working, Holding, TypeOK, dbVars
  <2> QED BY <2>1, SchedulerIsExecutor, QuietStep
<1>2. ASSUME NEW j \in Jobs, ResumeJob(j)
      PROVE  LockInv'
  BY <1>2, ElsewhereLock DEF ResumeJob, execVars
<1>3. CASE Tick \/ PollNothing \/ UNCHANGED vars
  BY <1>3, ElsewhereLock DEF Tick, PollNothing, vars, dbVars, execVars
<1> QED BY <1>1, <1>2, <1>3, SchedulerLock, ExecutorLock, RunNowLock, AdminLock, FaultLock
        DEF Next

\* The lock, the executors and the rows always fit together.
THEOREM LockInvHolds == Spec => []LockInv
<1>1. Init => TypeOK /\ LockInv
  BY InitTypes, InitLock
<1>2. TypeOK /\ LockInv /\ [Next]_vars => (TypeOK /\ LockInv)'
  BY NextTypes, NextLock
<1> QED BY <1>1, <1>2, PTL DEF Spec

\* Two executors are in the protected part of the same job only when one of
\* them has lost the database session that held the advisory lock.
THEOREM LockExclusionHolds == Spec => []LockExclusion
<1>1. LockInv => LockExclusion
  BY DEF LockInv, WorkerHasLock, LockExclusion
<1> QED BY <1>1, LockInvHolds, PTL

\* What README.md promises of the advisory locks holds as long as Postgres
\* drops no session: then the same job is never executed twice at a time.
THEOREM NoDropNoConcurrency ==
    Spec => []("drop" \notin FaultKinds => NoConcurrentBodies)
<1> DEFINE SessionsLive == "drop" \notin FaultKinds => lost = {}
<1>1. Init => SessionsLive
  BY DEF Init
<1>2. SessionsLive /\ [Next]_vars => SessionsLive'
  <2> SUFFICES ASSUME "drop" \notin FaultKinds, lost = {}, [Next]_vars PROVE lost' = {}
    OBVIOUS
  <2>1. CASE SchedulerStep
    BY <2>1 DEF SchedulerStep, Recover, ArmSchedule, RejectCron, DisableInvalidSchedule,
                SkipUnlicensed, FireSchedule, execVars
  <2>2. ASSUME NEW e \in Executors, ExecutorStep(e)
        PROVE  lost' = {}
    BY <2>2 DEF ExecutorStep, ExecuteJob, RefuseJob, EndJob, FinishRun, CommitRun,
                FindConnectionLost, Leave
  <2>3. ASSUME NEW e \in Requests, RunNowStep(e)
        PROVE  lost' = {}
    BY <2>3 DEF RunNowStep, StartRunNow, DropRunNow
  <2>4. CASE AdminStep
    BY <2>4 DEF AdminStep, RequestRunNow, CreateSchedule, UpdateSchedule, DeleteSchedule,
                PauseJob, ResumeSchedule, ToggleSchedule, ToggleJob, ChangeLicense, execVars
  <2>5. CASE FaultStep
    BY <2>5 DEF FaultStep, Crash, AbandonDisable, RecoverFails, DropSession, Fault,
                AbandonRun, AbandonResume, Leave, execVars
  <2>6. CASE PollNothing \/ Tick \/ Restart \/ UNCHANGED vars
    BY <2>6 DEF PollNothing, Tick, Restart, vars, execVars
  <2>7. ASSUME NEW j \in Jobs, ResumeJob(j)
        PROVE  lost' = {}
    BY <2>7 DEF ResumeJob, execVars
  <2> QED BY <2>1, <2>2, <2>3, <2>4, <2>5, <2>6, <2>7 DEF Next
<1>3. SessionsLive /\ LockExclusion => ("drop" \notin FaultKinds => NoConcurrentBodies)
  BY DEF LockExclusion, NoConcurrentBodies, Holding
<1> HIDE DEF SessionsLive
<1> QED BY <1>1, <1>2, <1>3, LockExclusionHolds, PTL DEF Spec


(***************************************************************************)
(* Firing                                                                  *)
(*                                                                         *)
(* next_run_at alone keeps a schedule from firing twice: whoever fires,    *)
(* skips or arms it moves it behind the clock.                             *)
(***************************************************************************)

FiredBefore(j) ==
    /\ firedAt[j] <= now
    /\ sched[j].next # Null => firedAt[j] < sched[j].next

\* A schedule has not fired in the future, and its next run is later than its
\* last one.
FireInv == \A j \in Jobs : FiredBefore(j)

LEMMA InitFire == Init => FireInv
BY DEF Init, FireInv, FiredBefore, NoSchedule, NewSchedule, Null

\* A schedule that moves on to a later time, whether it fires now or not.
LEMMA NextRunFire ==
    ASSUME TypeOK, FireInv, now' = now, NEW j \in Jobs, NEW t \in NextRun(now),
           sched' = [sched EXCEPT ![j].next = t],
           firedAt' = firedAt \/ firedAt' = [firedAt EXCEPT ![j] = now]
    PROVE  FireInv'
<1>1. t \in Nat /\ now < t
  BY NextRunIsLater DEF TypeOK
<1>2. ASSUME NEW k \in Jobs PROVE FiredBefore(k)'
  <2>1. CASE k = j
    BY <1>1, <2>1 DEF FireInv, FiredBefore, TypeOK, Schedule
  <2>2. CASE k # j
    BY <2>2 DEF FireInv, FiredBefore, TypeOK, Schedule
  <2> QED BY <2>1, <2>2
<1> QED BY <1>2 DEF FireInv

\* A schedule without a next run, or one whose next run an admin has written.
LEMMA WrittenFire ==
    ASSUME TypeOK, FireInv, now' = now, NEW j \in Jobs,
           \A k \in Jobs \ {j} : sched'[k] = sched[k] /\ firedAt'[k] = firedAt[k],
           \/ sched'[j].next = Null /\ firedAt'[j] = firedAt[j]
           \/ sched'[j].next \in Nat /\ firedAt'[j] = 0
    PROVE  FireInv'
BY DEF FireInv, FiredBefore, TypeOK, Null

LEMMA ElsewhereFire ==
    FireInv /\ UNCHANGED <<now, sched, firedAt>> => FireInv'
BY DEF FireInv, FiredBefore

LEMMA SchedulerFire == TypeOK /\ FireInv /\ SchedulerStep => FireInv'
<1> SUFFICES ASSUME TypeOK, FireInv, SchedulerStep PROVE FireInv'
  OBVIOUS
<1>1. ASSUME NEW j \in Jobs, ArmSchedule(j) \/ SkipUnlicensed(j) \/ FireSchedule(j)
      PROVE  FireInv'
  <2>1. PICK t \in NextRun(now) : sched' = [sched EXCEPT ![j].next = t]
    BY <1>1 DEF ArmSchedule, SkipUnlicensed, FireSchedule
  <2>2. now' = now /\ (firedAt' = firedAt \/ firedAt' = [firedAt EXCEPT ![j] = now])
    BY <1>1 DEF ArmSchedule, SkipUnlicensed, FireSchedule, envVars
  <2> QED BY <2>1, <2>2, NextRunFire
<1>2. CASE DisableInvalidSchedule
  <2>1. CASE task[Scheduler].job = NoJob
    BY <1>2, <2>1, ElsewhereFire DEF DisableInvalidSchedule, envVars
  <2>2. CASE task[Scheduler].job # NoJob
    <3> DEFINE j == task[Scheduler].job
    <3>1. j \in Jobs
      BY <2>2, SchedulerIsExecutor DEF TypeOK, Task
    <3>2. /\ now' = now /\ firedAt' = firedAt
          /\ sched' = [sched EXCEPT ![j].enabled = FALSE, ![j].next = Null]
      BY <1>2, <2>2 DEF DisableInvalidSchedule, envVars
    <3>3. /\ sched'[j].next = Null
          /\ \A k \in Jobs \ {j} : sched'[k] = sched[k] /\ firedAt'[k] = firedAt[k]
      BY <3>1, <3>2 DEF TypeOK, Schedule
    <3> QED BY <3>1, <3>2, <3>3, WrittenFire
  <2> QED BY <2>1, <2>2
<1>3. CASE Recover \/ \E j \in Jobs : RejectCron(j)
  BY <1>3, ElsewhereFire DEF Recover, RejectCron, dbVars, envVars
<1> QED BY <1>1, <1>2, <1>3 DEF SchedulerStep

LEMMA AdminFire == TypeOK /\ FireInv /\ AdminStep => FireInv'
<1> SUFFICES ASSUME TypeOK, FireInv, AdminStep PROVE FireInv'
  OBVIOUS
<1>1. ASSUME NEW j \in Jobs, CreateSchedule(j) \/ UpdateSchedule(j)
      PROVE  FireInv'
  <2>1. PICK t \in AdminTimes, ok \in BOOLEAN, on \in BOOLEAN :
          sched' = [sched EXCEPT ![j] = NewSchedule(t, ok, on)]
    BY <1>1 DEF CreateSchedule, UpdateSchedule
  <2>2. t \in Nat
    BY ConstantsAssumption DEF AdminTimes, Null, TypeOK
  <2>3. now' = now /\ firedAt' = [firedAt EXCEPT ![j] = 0]
    BY <1>1 DEF CreateSchedule, UpdateSchedule
  <2>4. /\ sched'[j].next \in Nat /\ firedAt'[j] = 0
        /\ \A k \in Jobs \ {j} : sched'[k] = sched[k] /\ firedAt'[k] = firedAt[k]
    BY <2>1, <2>2, <2>3 DEF TypeOK, NewSchedule
  <2> QED BY <2>3, <2>4, WrittenFire
<1>2. ASSUME NEW j \in Jobs, NEW on \in BOOLEAN,
             DeleteSchedule(j) \/ PauseJob(j) \/ ResumeSchedule(j) \/ ToggleSchedule(j, on)
      PROVE  FireInv'
  <2>1. now' = now /\ firedAt' = firedAt
    BY <1>2 DEF DeleteSchedule, PauseJob, ResumeSchedule, ToggleSchedule
  <2>2. /\ sched'[j].next = Null
        /\ \A k \in Jobs \ {j} : sched'[k] = sched[k]
    BY <1>2 DEF DeleteSchedule, PauseJob, ResumeSchedule, ToggleSchedule, SetEnabled,
                NoSchedule, TypeOK, Schedule
  <2> QED BY <2>1, <2>2, WrittenFire
<1>3. CASE UNCHANGED <<now, sched, firedAt>>
  BY <1>3, ElsewhereFire
<1>4. \/ \E j \in Jobs : CreateSchedule(j) \/ UpdateSchedule(j)
      \/ \E j \in Jobs, on \in BOOLEAN :
           DeleteSchedule(j) \/ PauseJob(j) \/ ResumeSchedule(j) \/ ToggleSchedule(j, on)
      \/ UNCHANGED <<now, sched, firedAt>>
  BY DEF AdminStep, RequestRunNow, ToggleJob, ChangeLicense, dbVars
<1> QED BY <1>1, <1>2, <1>3, <1>4

LEMMA NextFire == TypeOK /\ FireInv /\ [Next]_vars => FireInv'
<1> SUFFICES ASSUME TypeOK, FireInv, [Next]_vars PROVE FireInv'
  OBVIOUS
<1>1. CASE Tick
  BY <1>1 DEF Tick, dbVars, FireInv, FiredBefore, TypeOK
<1>2. CASE UNCHANGED <<now, sched, firedAt>>
  BY <1>2, ElsewhereFire
<1>3. ASSUME NEW e \in Executors, ExecutorStep(e)
      PROVE  UNCHANGED <<now, sched, firedAt>>
  BY <1>3 DEF ExecutorStep, ExecuteJob, RefuseJob, EndJob, FinishRun, CommitRun,
              FindConnectionLost, dbVars, envVars
<1>4. ASSUME NEW e \in Requests, RunNowStep(e)
      PROVE  UNCHANGED <<now, sched, firedAt>>
  BY <1>4 DEF RunNowStep, StartRunNow, DropRunNow, dbVars, envVars
<1>5. CASE FaultStep
  BY <1>2, <1>5 DEF FaultStep, Crash, AbandonDisable, RecoverFails, DropSession, AbandonRun,
              AbandonResume, dbVars
<1>6. CASE PollNothing \/ Restart \/ (\E j \in Jobs : ResumeJob(j)) \/ UNCHANGED vars
  BY <1>2, <1>6 DEF PollNothing, Restart, ResumeJob, vars, dbVars, envVars
<1> QED BY <1>1, <1>2, <1>3, <1>4, <1>5, <1>6, SchedulerFire, AdminFire DEF Next

\* The scheduler thread is in the poll loop and takes a lock only when it
\* fires the head of the due schedules.
LEMMA PollTakesLock ==
    ASSUME TypeOK, [Next]_vars, NEW j \in Jobs,
           pc[Scheduler] = "poll", lock[j] = NoOne, lock'[j] = Scheduler
    PROVE  FireSchedule(j)
<1> USE SchedulerIsExecutor, ConstantsAssumption
<1>1. CASE SchedulerStep
  <2>1. ASSUME NEW k \in Jobs, FireSchedule(k)
        PROVE  k = j
    BY <2>1 DEF FireSchedule, BeginRun, TypeOK
  <2>2. FireSchedule(j) \/ lock' = lock
    BY <1>1, <2>1 DEF SchedulerStep, Recover, DisableInvalidSchedule, ArmSchedule, RejectCron,
                SkipUnlicensed, execVars
  <2> QED BY <2>2
<1>2. ASSUME NEW e \in Executors, ExecutorStep(e)
      PROVE  FALSE
  BY <1>2 DEF ExecutorStep, ExecuteJob, RefuseJob, EndJob, FinishRun, CommitRun,
              FindConnectionLost, Leave, LocksWithout
<1>3. ASSUME NEW e \in Requests, RunNowStep(e)
      PROVE  FALSE
  BY <1>3 DEF RunNowStep, StartRunNow, DropRunNow, BeginRun, TypeOK
<1>4. CASE AdminStep
  BY <1>4 DEF AdminStep, RequestRunNow, CreateSchedule, UpdateSchedule, DeleteSchedule,
              PauseJob, ResumeSchedule, ToggleSchedule, ToggleJob, ChangeLicense, execVars
<1>5. CASE FaultStep
  BY <1>5 DEF FaultStep, Crash, AbandonDisable, RecoverFails, DropSession, AbandonRun,
              AbandonResume, Leave, LocksWithout, execVars
<1>6. CASE PollNothing \/ Tick \/ Restart \/ (\E k \in Jobs : ResumeJob(k)) \/ UNCHANGED vars
  BY <1>6 DEF PollNothing, Tick, Restart, ResumeJob, vars, execVars
<1> QED BY <1>1, <1>2, <1>3, <1>4, <1>5, <1>6 DEF Next

\* No schedule fires twice for the same moment, for any jobs and any distance
\* between two runs: pausing, resuming, toggling, deleting, crashing and
\* recovering never bring a run back that next_run_at has passed.
THEOREM FiresOncePerMoment == Spec => OneFirePerMoment
<1>1. Init => TypeOK /\ FireInv
  BY InitTypes, InitFire
<1>2. TypeOK /\ FireInv /\ [Next]_vars => (TypeOK /\ FireInv)'
  BY NextTypes, NextFire
<1>3. ASSUME TypeOK, FireInv, [Next]_vars, NEW j \in Jobs,
             pc[Scheduler] = "poll" /\ lock[j] = NoOne /\ lock'[j] = Scheduler
      PROVE  firedAt[j] < now
  <2>1. FireSchedule(j)
    BY <1>3, PollTakesLock
  <2>2. sched[j].next # Null /\ sched[j].next <= now
    BY <2>1 DEF FireSchedule, Head, Due
  <2> QED BY <1>3, <2>2 DEF FireInv, FiredBefore, TypeOK, Schedule
<1>4. TypeOK /\ FireInv /\ [Next]_vars =>
        [\A j \in Jobs :
           (pc[Scheduler] = "poll" /\ lock[j] = NoOne /\ lock'[j] = Scheduler)
              => firedAt[j] < now]_vars
  BY <1>3
<1> QED BY <1>1, <1>2, <1>4, PTL DEF Spec, OneFirePerMoment
(***************************************************************************)
(* Orphans                                                                 *)
(*                                                                         *)
(* OrphansHaveACause is inductive next to LockInv: that a commit takes the *)
(* word "running" from its row needs the executor's outcome.               *)
(***************************************************************************)

\* A step keeps the causes of a row that said "running" before it, when what
\* executed it goes on, and a start that was waited for is still to come.
LEMMA NoNewOrphan ==
    ASSUME OrphansHaveACause,
           forsaken \subseteq forsaken',
           pc[Scheduler] \in {"down", "boot"} => pc'[Scheduler] \in {"down", "boot"},
           \A r \in Runs : rows'[r].status = "running" =>
              /\ rows[r].status = "running"
              /\ \A e \in Executors : pc[e] \in Working /\ task[e].run = r =>
                     (pc'[e] \in Working /\ task'[e].run = r) \/ r \in forsaken'
    PROVE  OrphansHaveACause'
BY DEF OrphansHaveACause, Executed

\* A new row comes with its executor.
LEMMA BeginRunOrphan ==
    ASSUME TypeOK, OrphansHaveACause, NEW e \in Executors, NEW j \in Jobs \cup {NoJob},
           pc[e] \notin Working \cup {"down", "boot"}, BeginRun(e, j), forsaken' = forsaken
    PROVE  OrphansHaveACause'
<1>1. FreshRun \in Runs
  BY FreshRunIsUnused DEF BeginRun, InsertRun
<1>2. /\ pc'[e] = "started" /\ task'[e].run = FreshRun
      /\ \A x \in Executors : x # e => pc'[x] = pc[x] /\ task'[x] = task[x]
      /\ \A r \in Runs : r # FreshRun => rows'[r] = rows[r]
  BY <1>1 DEF BeginRun, InsertRun, TypeOK
<1>3. ASSUME NEW r \in Runs, rows'[r].status = "running"
      PROVE  Executed(r)' \/ r \in forsaken' \/ pc'[Scheduler] \in {"down", "boot"}
  <2>1. CASE r = FreshRun
    BY <1>2, <2>1 DEF Executed, Working, Holding
  <2>2. CASE r # FreshRun
    <3>1. Executed(r) \/ r \in forsaken \/ pc[Scheduler] \in {"down", "boot"}
      BY <1>2, <1>3, <2>2 DEF OrphansHaveACause
    <3>2. Executed(r) => Executed(r)'
      BY <1>2 DEF Executed
    <3> QED BY <1>2, <3>1, <3>2, SchedulerIsExecutor
  <2> QED BY <2>1, <2>2
<1> QED BY <1>3 DEF OrphansHaveACause

LEMMA InitOrphan == Init => OrphansHaveACause
BY DEF Init, OrphansHaveACause, NoRow

\* A start without recovery forsakes the rows that it finds to nobody.
LEMMA UnrecoveredOrphan ==
    ASSUME TypeOK, OrphansHaveACause, pc[Scheduler] = "boot",
           pc' = [pc EXCEPT ![Scheduler] = "poll"], rows' = rows, task' = task,
           forsaken' = forsaken \cup Orphans
    PROVE  OrphansHaveACause'
<1>1. \A r \in Runs : Executed(r) => Executed(r)'
  BY DEF Executed, TypeOK, Working, Holding
<1> QED BY <1>1 DEF OrphansHaveACause, Orphans

LEMMA SchedulerOrphan == TypeOK /\ OrphansHaveACause /\ SchedulerStep => OrphansHaveACause'
<1> SUFFICES ASSUME TypeOK, OrphansHaveACause, SchedulerStep PROVE OrphansHaveACause'
  OBVIOUS
<1> USE SchedulerIsExecutor
<1>1. CASE Recover
  <2>1. CASE Recovery
    <3>1. \A r \in Runs : rows'[r].status # "running"
      BY <1>1, <2>1 DEF Recover, Recovered, TypeOK, Row
    <3> QED BY <3>1 DEF OrphansHaveACause
  <2>2. CASE ~Recovery
    BY <1>1, <2>2, UnrecoveredOrphan DEF Recover
  <2> QED BY <2>1, <2>2
<1>2. CASE DisableInvalidSchedule
  <2>1. \A r \in Runs : rows'[r].status = "running" => rows[r].status = "running"
    <3>1. CASE rows' = rows
      BY <3>1
    <3>2. CASE InsertRun(task[Scheduler].job, "failed")
      BY <3>2, FreshRunIsUnused DEF InsertRun, TypeOK
    <3> QED BY <1>2, <3>1, <3>2 DEF DisableInvalidSchedule
  <2>2. /\ pc[Scheduler] \notin Working \cup {"down", "boot"} /\ forsaken' = forsaken
        /\ \A x \in Executors \ {Scheduler} : pc'[x] = pc[x] /\ task'[x] = task[x]
    BY <1>2 DEF DisableInvalidSchedule, Working, Holding, TypeOK, envVars
  <2> QED BY <2>1, <2>2, NoNewOrphan
<1>3. ASSUME NEW j \in Jobs, RejectCron(j)
      PROVE  OrphansHaveACause'
  <2>1. /\ pc[Scheduler] \notin Working \cup {"down", "boot"} /\ forsaken' = forsaken
        /\ rows' = rows
        /\ \A x \in Executors \ {Scheduler} : pc'[x] = pc[x] /\ task'[x] = task[x]
    BY <1>3 DEF RejectCron, Working, Holding, TypeOK, envVars, dbVars
  <2> QED BY <2>1, NoNewOrphan
<1>4. ASSUME NEW j \in Jobs, ArmSchedule(j) \/ SkipUnlicensed(j)
      PROVE  OrphansHaveACause'
  BY <1>4 DEF ArmSchedule, SkipUnlicensed, execVars, envVars, OrphansHaveACause, Executed
<1>5. ASSUME NEW j \in Jobs, FireSchedule(j)
      PROVE  OrphansHaveACause'
  <2>1. /\ pc[Scheduler] \notin Working \cup {"down", "boot"} /\ BeginRun(Scheduler, j)
        /\ forsaken' = forsaken
    BY <1>5 DEF FireSchedule, Working, Holding, envVars
  <2> QED BY <2>1, BeginRunOrphan
<1> QED BY <1>1, <1>2, <1>3, <1>4, <1>5 DEF SchedulerStep

\* An executor that leaves its row unfinished forsakes it.
LEMMA LeaveOrphan ==
    ASSUME TypeOK, OrphansHaveACause, NEW e \in Executors, pc[e] \in Working, Leave(e),
           rows' = rows, forsaken' = forsaken \cup {task[e].run}
    PROVE  OrphansHaveACause'
<1>1. \A x \in Executors \ {e} : pc'[x] = pc[x] /\ task'[x] = task[x]
  BY DEF Leave, TypeOK
<1>2. pc[Scheduler] \in {"down", "boot"} => pc'[Scheduler] \in {"down", "boot"}
  BY <1>1, SchedulerIsExecutor DEF Working, Holding
<1> QED BY <1>1, <1>2, NoNewOrphan

LEMMA ExecutorOrphan ==
    ASSUME TypeOK, LockInv, OrphansHaveACause, NEW e \in Executors, ExecutorStep(e)
    PROVE  OrphansHaveACause'
<1> USE SchedulerIsExecutor
<1>1. CASE ExecuteJob(e) \/ RefuseJob(e) \/ (\E s \in {"success", "failed"} : EndJob(e, s))
           \/ FinishRun(e)
  <2>1. /\ pc[e] \in Working /\ pc'[e] \in Working
        /\ \A x \in Executors \ {e} : pc'[x] = pc[x]
    BY <1>1 DEF ExecuteJob, RefuseJob, EndJob, FinishRun, Goto, TypeOK, Working, Holding
  <2>2. \A x \in Executors : task'[x].run = task[x].run
    BY <1>1 DEF ExecuteJob, RefuseJob, EndJob, FinishRun, TypeOK, Task
  <2>3. rows' = rows /\ forsaken' = forsaken
    BY <1>1 DEF ExecuteJob, RefuseJob, EndJob, FinishRun, dbVars, envVars
  <2>4. pc[Scheduler] \in {"down", "boot"} => pc'[Scheduler] \in {"down", "boot"}
    BY <2>1 DEF Working, Holding
  <2> QED BY <2>1, <2>2, <2>3, <2>4, NoNewOrphan
<1>2. CASE CommitRun(e)
  <2>1. task[e].run \in Runs /\ task[e].outcome # "running"
    BY <1>2 DEF CommitRun, LockInv, WorkerHasRun, Working, TypeOK, Task
  <2>2. /\ rows' = [rows EXCEPT ![task[e].run].status = task[e].outcome]
        /\ forsaken' = forsaken /\ pc[e] = "commit"
        /\ \A x \in Executors \ {e} : pc'[x] = pc[x] /\ task'[x] = task[x]
    BY <1>2 DEF CommitRun, Leave, TypeOK, envVars
  <2>3. \A r \in Runs : rows'[r].status = "running" =>
          rows[r].status = "running" /\ task[e].run # r
    BY <2>1, <2>2 DEF TypeOK, Row
  <2> QED BY <2>2, <2>3, NoNewOrphan
<1>3. CASE FindConnectionLost(e)
  BY <1>3, LeaveOrphan DEF FindConnectionLost, dbVars, Working, Holding
<1> QED BY <1>1, <1>2, <1>3 DEF ExecutorStep

LEMMA RunNowOrphan ==
    ASSUME TypeOK, OrphansHaveACause, NEW e \in Requests, RunNowStep(e)
    PROVE  OrphansHaveACause'
<1>1. e \in Executors
  BY DEF Executors
<1>2. CASE StartRunNow(e)
  <2>1. /\ pc[e] \notin Working \cup {"down", "boot"} /\ task[e].job \in Jobs \cup {NoJob}
        /\ BeginRun(e, task[e].job) /\ forsaken' = forsaken
    BY <1>1, <1>2 DEF StartRunNow, Working, Holding, TypeOK, Task, envVars
  <2> QED BY <1>1, <2>1, BeginRunOrphan
<1>3. CASE DropRunNow(e)
  <2>1. /\ pc[e] \notin Working \cup {"down", "boot"} /\ rows' = rows /\ forsaken' = forsaken
        /\ \A x \in Executors \ {e} : pc'[x] = pc[x] /\ task'[x] = task[x]
    BY <1>1, <1>3 DEF DropRunNow, Working, Holding, TypeOK, dbVars, envVars
  <2> QED BY <2>1, NoNewOrphan, SchedulerIsExecutor
<1> QED BY <1>2, <1>3 DEF RunNowStep

LEMMA AdminOrphan == TypeOK /\ OrphansHaveACause /\ AdminStep => OrphansHaveACause'
<1> SUFFICES ASSUME TypeOK, OrphansHaveACause, AdminStep PROVE OrphansHaveACause'
  OBVIOUS
<1>1. forsaken' = forsaken /\ rows' = rows
  BY DEF AdminStep, RequestRunNow, CreateSchedule, UpdateSchedule, DeleteSchedule, PauseJob,
         ResumeSchedule, ToggleSchedule, ToggleJob, ChangeLicense, dbVars, execVars
<1>2. \A x \in Executors : pc[x] \in Working \cup {"down", "boot"} =>
          pc'[x] = pc[x] /\ task'[x].run = task[x].run
  <2>1. ASSUME NEW e \in Requests, NEW j \in Jobs, RequestRunNow(e, j)
        PROVE  \A x \in Executors \ {e} : pc'[x] = pc[x] /\ task'[x] = task[x]
    BY <2>1 DEF RequestRunNow, TypeOK
  <2>2. ASSUME NEW e \in Requests, NEW j \in Jobs, RequestRunNow(e, j)
        PROVE  pc[e] \notin Working \cup {"down", "boot"}
    BY <2>2 DEF RequestRunNow, Working, Holding
  <2>3. ASSUME NEW j \in Jobs, DeleteSchedule(j)
        PROVE  /\ \A x \in Executors : task'[x].run = task[x].run
               /\ pc' = pc
    BY <2>3, SchedulerIsExecutor DEF DeleteSchedule, TypeOK, Task
  <2> QED BY <2>1, <2>2, <2>3
          DEF AdminStep, CreateSchedule, UpdateSchedule, PauseJob, ResumeSchedule,
              ToggleSchedule, ToggleJob, ChangeLicense, execVars
<1> QED BY <1>1, <1>2, NoNewOrphan, SchedulerIsExecutor

LEMMA FaultOrphan == TypeOK /\ OrphansHaveACause /\ FaultStep => OrphansHaveACause'
<1> SUFFICES ASSUME TypeOK, OrphansHaveACause, FaultStep PROVE OrphansHaveACause'
  OBVIOUS
<1> USE SchedulerIsExecutor
<1>1. CASE Crash
  <2>1. pc'[Scheduler] = "down"
    BY <1>1 DEF Crash
  <2> QED BY <2>1 DEF OrphansHaveACause
<1>2. CASE AbandonDisable
  <2>1. /\ pc[Scheduler] \notin Working \cup {"down", "boot"} /\ rows' = rows
        /\ forsaken' = forsaken
        /\ \A x \in Executors \ {Scheduler} : pc'[x] = pc[x] /\ task'[x] = task[x]
    BY <1>2 DEF AbandonDisable, Leave, Working, Holding, TypeOK, dbVars
  <2> QED BY <2>1, NoNewOrphan
<1>3. CASE RecoverFails
  BY <1>3, UnrecoveredOrphan DEF RecoverFails, dbVars
<1>4. ASSUME NEW e \in Executors, AbandonRun(e)
      PROVE  OrphansHaveACause'
  BY <1>4, LeaveOrphan DEF AbandonRun, dbVars
<1>5. CASE (\E e \in Executors : DropSession(e)) \/ (\E j \in Jobs : AbandonResume(j))
  <2>1. rows' = rows /\ pc' = pc /\ task' = task /\ forsaken' = forsaken
    BY <1>5 DEF DropSession, AbandonResume, dbVars, execVars
  <2> QED BY <2>1 DEF OrphansHaveACause, Executed
<1> QED BY <1>1, <1>2, <1>3, <1>4, <1>5 DEF FaultStep

LEMMA NextOrphan == TypeOK /\ LockInv /\ OrphansHaveACause /\ [Next]_vars => OrphansHaveACause'
<1> SUFFICES ASSUME TypeOK, LockInv, OrphansHaveACause, [Next]_vars PROVE OrphansHaveACause'
  OBVIOUS
<1>1. CASE Restart
  <2>1. /\ pc[Scheduler] \notin Working /\ pc'[Scheduler] = "boot" /\ rows' = rows
        /\ forsaken' = forsaken /\ task' = task
        /\ \A x \in Executors \ {Scheduler} : pc'[x] = pc[x]
    BY <1>1, SchedulerIsExecutor DEF Restart, Working, Holding, TypeOK, dbVars, envVars
  <2> QED BY <2>1, NoNewOrphan
<1>2. CASE PollNothing \/ Tick \/ (\E j \in Jobs : ResumeJob(j)) \/ UNCHANGED vars
  BY <1>2 DEF PollNothing, Tick, ResumeJob, vars, dbVars, execVars, envVars,
              OrphansHaveACause, Executed
<1> QED BY <1>1, <1>2, SchedulerOrphan, ExecutorOrphan, RunNowOrphan, AdminOrphan, FaultOrphan
        DEF Next

\* For any jobs and any number of threads, and whatever failed before, no order
\* of starts, refusals, deletions, recoveries and commits leaves a running row to
\* nobody: only a failed write, a lost session or a start without recovery does.
THEOREM OrphansAlwaysHaveACause == Spec => []OrphansHaveACause
<1>1. Init => TypeOK /\ LockInv /\ OrphansHaveACause
  BY InitTypes, InitLock, InitOrphan
<1>2. TypeOK /\ LockInv /\ OrphansHaveACause /\ [Next]_vars =>
        (TypeOK /\ LockInv /\ OrphansHaveACause)'
  BY NextTypes, NextLock, NextOrphan
<1> QED BY <1>1, <1>2, PTL DEF Spec

(***************************************************************************)
(* The ledger                                                              *)
(*                                                                         *)
(* The live run of a job is the run of whoever holds its lock.  Under      *)
(* LockInv every step starts a run, releases some locks, settles or        *)
(* interrupts rows, records a refusal, or changes nothing the ledger sees. *)
(***************************************************************************)

\* Neither the locks nor the runs of their holders change.
LEMMA LiveRunKept ==
    ASSUME lock' = lock,
           \A j \in Jobs : lock[j] # NoOne => task'[lock[j]].run = task[lock[j]].run
    PROVE  liveRun' = liveRun
BY DEF liveRun

\* An executor that starts working holds no lock.
LEMMA IdleHoldsNothing ==
    ASSUME LockInv, NEW e \in Executors, pc[e] \notin Holding
    PROVE  \A j \in Jobs : lock[j] # e
BY ConstantsAssumption DEF LockInv, LockedByWorker

LEMMA HolderIsExecutor ==
    ASSUME LockInv, NEW j \in Jobs, lock[j] # NoOne
    PROVE  lock[j] \in Executors /\ pc[lock[j]] \in Holding
BY DEF LockInv, LockedByWorker

\* Beginning a run starts it in the ledger.
LEMMA BeginRunLedger ==
    ASSUME TypeOK, LockInv, NEW e \in Executors, NEW j \in Jobs,
           pc[e] \notin Working, BeginRun(e, j)
    PROVE  Ledger!Start(j, FreshRun) /\ FreshRun \in Runs
<1>1. /\ FreshRun \in Runs /\ rows[FreshRun].status = "none" /\ lock[j] = NoOne
      /\ rows' = [rows EXCEPT ![FreshRun] = [job |-> j, status |-> "running"]]
  BY FreshRunIsUnused DEF BeginRun, InsertRun, Unused, LockFree
<1>2. \A k \in Jobs : lock[k] # e
  BY IdleHoldsNothing DEF Working
<1>3. /\ lock' = [lock EXCEPT ![j] = e]
      /\ task'[e].run = FreshRun
      /\ \A x \in Executors \ {e} : task'[x] = task[x]
  BY DEF BeginRun, TypeOK
<1>4. e # NoOne
  BY ConstantsAssumption
<1>5. liveRun[j] = NoRun
  BY <1>1 DEF liveRun
<1>6. liveRun' = [liveRun EXCEPT ![j] = FreshRun]
  <2>1. liveRun'[j] = FreshRun
    BY <1>3, <1>4 DEF liveRun, TypeOK
  <2>2. ASSUME NEW k \in Jobs, k # j PROVE liveRun'[k] = liveRun[k]
    <3>1. lock'[k] = lock[k]
      BY <1>3, <2>2 DEF TypeOK
    <3>2. lock[k] # NoOne => task'[lock[k]] = task[lock[k]]
      BY <1>2, <1>3, HolderIsExecutor
    <3> QED BY <3>1, <3>2 DEF liveRun
  <2> QED BY <2>1, <2>2 DEF liveRun
<1> QED BY <1>1, <1>5, <1>6 DEF Ledger!Start

\* Giving locks back releases the runs of their jobs, as long as the other
\* holders keep theirs.
LEMMA ReleaseLedger ==
    ASSUME LockInv, NEW S, lock' = LocksWithout(S), rows' = rows,
           \A x \in Executors \ S : pc[x] \in Holding => task'[x].run = task[x].run
    PROVE  \E T \in SUBSET Jobs : Ledger!Release(T)
<1> DEFINE T == {j \in Jobs : lock[j] \in S}
<1>1. ASSUME NEW j \in Jobs
      PROVE  liveRun'[j] = IF j \in T THEN NoRun ELSE liveRun[j]
  <2>1. lock'[j] = IF j \in T THEN NoOne ELSE lock[j]
    BY DEF LocksWithout
  <2>2. j \notin T /\ lock[j] # NoOne => task'[lock[j]].run = task[lock[j]].run
    BY HolderIsExecutor
  <2> QED BY <2>1, <2>2 DEF liveRun
<1>2. liveRun' = [j \in Jobs |-> IF j \in T THEN NoRun ELSE liveRun[j]]
  BY <1>1 DEF liveRun
<1>3. Ledger!Release(T)
  BY <1>2 DEF Ledger!Release
<1> QED BY <1>3

\* Leaving releases the lock of the executor, if it still has it.
LEMMA LeaveLedger ==
    ASSUME TypeOK, LockInv, NEW e \in Executors, Leave(e), rows' = rows
    PROVE  \E T \in SUBSET Jobs : Ledger!Release(T)
<1>1. lock' = LocksWithout({e}) /\ \A x \in Executors \ {e} : task'[x] = task[x]
  BY DEF Leave, TypeOK
<1> QED BY <1>1, ReleaseLedger

\* An executor that commits settles its own run, which is nobody's live run.
LEMMA CommitLedger ==
    ASSUME TypeOK, LockInv, NEW e \in Executors, CommitRun(e)
    PROVE  Ledger!Next
<1> DEFINE r == task[e].run
           s == task[e].outcome
<1>1. pc[e] = "commit" /\ rows' = [rows EXCEPT ![r].status = s]
  BY DEF CommitRun
<1>2. r \in Runs /\ rows[r].status \in {"running", "interrupted"}
  BY <1>1 DEF LockInv, WorkerHasRun, Working
<1>3. s \in Ledger!Settled
  BY <1>1 DEF LockInv, WorkerHasRun, TypeOK, Task, Ledger!Settled
<1>4. \A j \in Jobs : lock[j] # e
  BY <1>1, IdleHoldsNothing DEF Holding
<1>5. ASSUME NEW j \in Jobs PROVE liveRun[j] # r
  <2>1. CASE lock[j] = NoOne
    BY <1>2, <2>1, ConstantsAssumption DEF liveRun
  <2>2. CASE lock[j] # NoOne
    <3>1. lock[j] \in Executors /\ lock[j] # e /\ pc[lock[j]] \in Working
      BY <1>4, <2>2, HolderIsExecutor DEF Working
    <3>2. task[lock[j]].run # r
      BY <1>1, <3>1 DEF LockInv, RunsDistinct, Working
    <3> QED BY <2>2, <3>2 DEF liveRun
  <2> QED BY <2>1, <2>2
<1>6. liveRun' = liveRun
  <2>1. lock' = lock
    BY <1>4 DEF CommitRun, Leave, LocksWithout, TypeOK
  <2>2. \A x \in Executors \ {e} : task'[x] = task[x]
    BY DEF CommitRun, Leave, TypeOK
  <2> QED BY <1>4, <2>1, <2>2, HolderIsExecutor, LiveRunKept
<1>7. Ledger!Settle(r, s)
  BY <1>1, <1>2, <1>5, <1>6 DEF Ledger!Settle
<1> QED BY <1>2, <1>3, <1>7 DEF Ledger!Next

\* The ledger does not see a step of an executor without a lock that leaves
\* the rows alone.
LEMMA QuietLedger ==
    ASSUME LockInv, NEW e \in Executors, pc[e] \notin Holding, lock' = lock,
           \A x \in Executors \ {e} : task'[x].run = task[x].run
    PROVE  liveRun' = liveRun
BY IdleHoldsNothing, HolderIsExecutor, LiveRunKept

LEMMA InitLedger == Init => Ledger!Init
BY DEF Init, NoRow, liveRun, Ledger!Init

LEMMA SchedulerLedger ==
    ASSUME TypeOK, LockInv, SchedulerStep
    PROVE  Ledger!Next \/ UNCHANGED <<rows, liveRun>>
<1> USE SchedulerIsExecutor
<1>1. CASE Recover
  <2>1. liveRun' = liveRun
    BY <1>1, LiveRunKept DEF Recover
  <2>2. CASE Recovery
    <3>1. rows' = [r \in Runs |-> IF rows[r].status = "running"
                                  THEN [rows[r] EXCEPT !.status = "interrupted"]
                                  ELSE rows[r]]
      BY <1>1, <2>2 DEF Recover, Recovered
    <3> QED BY <2>1, <3>1 DEF Ledger!Interrupt, Ledger!Next
  <2>3. CASE ~Recovery
    BY <1>1, <2>1, <2>3 DEF Recover
  <2> QED BY <2>2, <2>3
<1>2. CASE DisableInvalidSchedule
  <2>1. pc[Scheduler] \notin Holding /\ lock' = lock
    BY <1>2 DEF DisableInvalidSchedule, Holding
  <2>2. \A x \in Executors \ {Scheduler} : task'[x] = task[x]
    BY <1>2 DEF DisableInvalidSchedule, TypeOK
  <2>3. liveRun' = liveRun
    BY <2>1, <2>2, QuietLedger
  <2>4. CASE task[Scheduler].job = NoJob
    BY <1>2, <2>3, <2>4 DEF DisableInvalidSchedule
  <2>5. CASE task[Scheduler].job # NoJob
    <3> DEFINE j == task[Scheduler].job
    <3>1. j \in Jobs /\ InsertRun(j, "failed")
      BY <1>2, <2>5 DEF DisableInvalidSchedule, TypeOK, Task
    <3>2. FreshRun \in Runs /\ Ledger!RecordRefusal(j, FreshRun)
      BY <2>3, <3>1, FreshRunIsUnused DEF InsertRun, Unused, Ledger!RecordRefusal
    <3> QED BY <3>1, <3>2 DEF Ledger!Next
  <2> QED BY <2>4, <2>5
<1>3. ASSUME NEW j \in Jobs, ArmSchedule(j) \/ SkipUnlicensed(j)
      PROVE  UNCHANGED <<rows, liveRun>>
  <2>1. rows' = rows /\ lock' = lock /\ task' = task
    BY <1>3 DEF ArmSchedule, SkipUnlicensed, execVars
  <2> QED BY <2>1, LiveRunKept
<1>4. ASSUME NEW j \in Jobs, RejectCron(j)
      PROVE  UNCHANGED <<rows, liveRun>>
  <2>1. /\ pc[Scheduler] \notin Holding /\ lock' = lock /\ rows' = rows
        /\ \A x \in Executors \ {Scheduler} : task'[x] = task[x]
    BY <1>4 DEF RejectCron, Holding, TypeOK, dbVars
  <2> QED BY <2>1, QuietLedger
<1>5. ASSUME NEW j \in Jobs, FireSchedule(j)
      PROVE  Ledger!Next
  <2>1. pc[Scheduler] \notin Working /\ BeginRun(Scheduler, j)
    BY <1>5 DEF FireSchedule, Working, Holding
  <2> QED BY <2>1, BeginRunLedger DEF Ledger!Next
<1> QED BY <1>1, <1>2, <1>3, <1>4, <1>5 DEF SchedulerStep

LEMMA ExecutorLedger ==
    ASSUME TypeOK, LockInv, NEW e \in Executors, ExecutorStep(e)
    PROVE  Ledger!Next \/ UNCHANGED <<rows, liveRun>>
<1>1. CASE ExecuteJob(e) \/ RefuseJob(e) \/ \E s \in {"success", "failed"} : EndJob(e, s)
  <2>1. rows' = rows /\ lock' = lock
    BY <1>1 DEF ExecuteJob, RefuseJob, EndJob, dbVars
  <2>2. \A x \in Executors : task'[x].run = task[x].run
    BY <1>1 DEF ExecuteJob, RefuseJob, EndJob, TypeOK, Task
  <2> QED BY <2>1, <2>2, HolderIsExecutor, LiveRunKept
<1>2. CASE FinishRun(e)
  <2>1. lock' = LocksWithout({e}) /\ rows' = rows /\ task' = task
    BY <1>2 DEF FinishRun, dbVars
  <2> QED BY <2>1, ReleaseLedger DEF Ledger!Next
<1>3. CASE CommitRun(e)
  BY <1>3, CommitLedger
<1>4. CASE FindConnectionLost(e)
  BY <1>4, LeaveLedger DEF FindConnectionLost, dbVars, Ledger!Next
<1> QED BY <1>1, <1>2, <1>3, <1>4 DEF ExecutorStep

LEMMA RunNowLedger ==
    ASSUME TypeOK, LockInv, NEW e \in Requests, RunNowStep(e)
    PROVE  Ledger!Next \/ UNCHANGED <<rows, liveRun>>
<1>1. e \in Executors
  BY DEF Executors
<1>2. CASE StartRunNow(e)
  <2>1. pc[e] \notin Working /\ task[e].job \in Jobs /\ BeginRun(e, task[e].job)
    BY <1>1, <1>2 DEF StartRunNow, LockInv, WorkerHasRun, Working, Holding
  <2> QED BY <1>1, <2>1, BeginRunLedger DEF Ledger!Next
<1>3. CASE DropRunNow(e)
  <2>1. /\ pc[e] \notin Holding /\ lock' = lock /\ rows' = rows
        /\ \A x \in Executors \ {e} : task'[x] = task[x]
    BY <1>1, <1>3 DEF DropRunNow, Holding, TypeOK, dbVars
  <2> QED BY <1>1, <2>1, QuietLedger
<1> QED BY <1>2, <1>3 DEF RunNowStep

LEMMA AdminLedger ==
    ASSUME TypeOK, LockInv, AdminStep
    PROVE  UNCHANGED <<rows, liveRun>>
<1>1. rows' = rows /\ lock' = lock
  BY DEF AdminStep, RequestRunNow, CreateSchedule, UpdateSchedule, DeleteSchedule, PauseJob,
         ResumeSchedule, ToggleSchedule, ToggleJob, ChangeLicense, dbVars, execVars
<1>2. \A x \in Executors : task'[x].run = task[x].run
  <2>1. ASSUME NEW e \in Requests, NEW j \in Jobs, RequestRunNow(e, j)
        PROVE  \A x \in Executors : task'[x].run = task[x].run
    BY <2>1 DEF RequestRunNow, TypeOK, Task
  <2>2. ASSUME NEW j \in Jobs, DeleteSchedule(j)
        PROVE  \A x \in Executors : task'[x].run = task[x].run
    BY <2>2, SchedulerIsExecutor DEF DeleteSchedule, TypeOK, Task
  <2> QED BY <2>1, <2>2
          DEF AdminStep, CreateSchedule, UpdateSchedule, PauseJob, ResumeSchedule,
              ToggleSchedule, ToggleJob, ChangeLicense, execVars
<1> QED BY <1>1, <1>2, HolderIsExecutor, LiveRunKept

LEMMA FaultLedger ==
    ASSUME TypeOK, LockInv, FaultStep
    PROVE  Ledger!Next \/ UNCHANGED <<rows, liveRun>>
<1> USE SchedulerIsExecutor
<1>1. CASE Crash
  <2>1. lock' = LocksWithout(Executors) /\ rows' = rows
    BY <1>1 DEF Crash, dbVars
  <2> QED BY <2>1, ReleaseLedger DEF Ledger!Next
<1>2. CASE AbandonDisable
  BY <1>2, LeaveLedger DEF AbandonDisable, dbVars, Ledger!Next
<1>3. CASE RecoverFails
  BY <1>3, LiveRunKept DEF RecoverFails, dbVars
<1>4. ASSUME NEW e \in Executors, DropSession(e)
      PROVE  Ledger!Next
  <2>1. lock' = LocksWithout({e}) /\ rows' = rows /\ task' = task
    BY <1>4 DEF DropSession, dbVars
  <2> QED BY <2>1, ReleaseLedger DEF Ledger!Next
<1>5. ASSUME NEW e \in Executors, AbandonRun(e)
      PROVE  Ledger!Next
  BY <1>5, LeaveLedger DEF AbandonRun, dbVars, Ledger!Next
<1>6. ASSUME NEW j \in Jobs, AbandonResume(j)
      PROVE  UNCHANGED <<rows, liveRun>>
  BY <1>6, LiveRunKept DEF AbandonResume, dbVars, execVars
<1> QED BY <1>1, <1>2, <1>3, <1>4, <1>5, <1>6 DEF FaultStep

\* Every step of the machinery is a step of the ledger or invisible to it.
LEMMA NextLedger ==
    TypeOK /\ LockInv /\ [Next]_vars => [Ledger!Next]_<<rows, liveRun>>
<1> SUFFICES ASSUME TypeOK, LockInv, [Next]_vars
             PROVE  Ledger!Next \/ UNCHANGED <<rows, liveRun>>
  OBVIOUS
<1>1. CASE PollNothing \/ Tick \/ Restart \/ (\E j \in Jobs : ResumeJob(j)) \/ UNCHANGED vars
  BY <1>1, LiveRunKept DEF PollNothing, Tick, Restart, ResumeJob, vars, dbVars, execVars
<1> QED BY <1>1, SchedulerLedger, ExecutorLedger, RunNowLedger, AdminLedger, FaultLedger
        DEF Next

\* Scheduler, run-now threads, locks, admins, crashes and recovery together
\* keep the ledger's promise: one live run for a job, and a row that its own
\* executor settles at most once, after giving up its claim.
THEOREM LedgerImplemented == Spec => ImplementsLedger
<1>1. Init => Ledger!Init
  BY InitLedger
<1>2. TypeOK /\ LockInv /\ [Next]_vars => [Ledger!Next]_(Ledger!vars)
  BY NextLedger DEF Ledger!vars
<1> QED BY <1>1, <1>2, TypeCorrect, LockInvHolds, PTL DEF Spec, ImplementsLedger, Ledger!Spec

\* A row that an executor has settled, or that records a refusal, is never
\* written again; only the mark of recovery may still be replaced.
SettledRowsStay ==
    [][\A r \in Runs : rows[r].status \in Ledger!Settled => rows'[r] = rows[r]]_rows

\* Readers of job_runs may keep what they have read of a finished run: no
\* later run, refusal or recovery touches its row.
THEOREM SettledForGood == Spec => SettledRowsStay
<1>1. ASSUME TypeOK, Ledger!Next, NEW r \in Runs, rows[r].status \in Ledger!Settled
      PROVE  rows'[r] = rows[r]
  <2>1. rows[r].status \notin {"none", "running", "interrupted"}
    BY <1>1 DEF Ledger!Settled
  <2> QED BY <1>1, <2>1
          DEF TypeOK, Ledger!Next, Ledger!Start, Ledger!RecordRefusal, Ledger!Release,
              Ledger!Settle, Ledger!Interrupt
<1>2. TypeOK /\ LockInv /\ [Next]_vars =>
        [\A r \in Runs : rows[r].status \in Ledger!Settled => rows'[r] = rows[r]]_rows
  BY <1>1, NextLedger
<1> QED BY <1>2, TypeCorrect, LockInvHolds, PTL DEF Spec, SettledRowsStay

=============================================================================
