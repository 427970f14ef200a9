---------------------------- MODULE JobScheduler ----------------------------
(***************************************************************************)
(* The worker's scheduler thread, its run-now threads and what they share  *)
(* with the web app: jobs, job_schedules, job_runs and the per-job         *)
(* Postgres advisory lock (worker/app/scheduler.py, the /jobs/ handlers of *)
(* worker/app/api.py, web/app/api/schedules, web/app/api/jobs).            *)
(*                                                                         *)
(* Everything between a SELECT ... FOR UPDATE and its COMMIT is one step:  *)
(* the selected rows are locked, and the only other state read in between  *)
(* is the advisory lock.  A run itself takes several steps, because the    *)
(* executor holds no transaction while it writes the audit event, runs the *)
(* job body and finishes the row.                                          *)
(*                                                                         *)
(* A job has at most one schedule (unique index on job_schedules.job_id),  *)
(* so schedules are indexed by job.                                        *)
(***************************************************************************)
EXTENDS Naturals, FiniteSets

CONSTANTS
    Jobs,            \* job_id values
    Gated,           \* jobs whose job_type needs a license feature
    Runs,            \* run_id values that can be inserted
    Requests,        \* identities of run-now threads
    Scheduler,       \* the scheduler thread
    NoJob, NoRun, NoOne,
    Recovery,        \* RECOVER_INTERRUPTED_RUNS_ON_STARTUP
    MaxPeriod,       \* the longest distance to a next run
    FaultKinds,      \* which of "crash", "drop", "write", "recover" may happen
    MaxTime, MaxFaults, MaxChanges   \* bounds of the exploration

Executors == Requests \cup {Scheduler}

ASSUME ConstantsAssumption ==
    /\ Scheduler \notin Requests
    /\ NoOne \notin Executors
    /\ NoJob \notin Jobs
    /\ NoRun \notin Runs
    /\ Gated \subseteq Jobs
    /\ Recovery \in BOOLEAN
    /\ MaxPeriod \in Nat \ {0}
    /\ MaxTime \in Nat /\ MaxFaults \in Nat /\ MaxChanges \in Nat

VARIABLES
    now,         \* the database clock; 0 is never a time
    licensed,    \* whether the active license grants the gated features
    jobEnabled,  \* jobs.enabled
    sched,       \* sched[j]: the job_schedules row of job j
    rows,        \* rows[r]: the job_runs row of run r
    lock,        \* lock[j]: whose session holds the advisory lock of job j
    pc,          \* pc[e]: where executor e is
    task,        \* task[e]: the locals of executor e
    lost,        \* executors whose lock-holding connection the server dropped
    resuming,    \* jobs whose /jobs/resume is between its two UPDATEs
    firedAt,     \* history: when the schedule last fired, 0 after next_run_at
                 \* was set by an admin
    forsaken,    \* history: running rows that a failed write, a lost session or
                 \* a start without recovery has left to nobody
    faults, changes   \* how many faults and outside changes happened

vars == <<now, licensed, jobEnabled, sched, rows, lock, pc, task, lost,
          resuming, firedAt, forsaken, faults, changes>>

dbVars == <<jobEnabled, sched, rows>>
execVars == <<lock, pc, task, lost>>
envVars == <<now, licensed, forsaken, faults, changes>>

\* SQL NULL in next_run_at.
Null == 0

NoSchedule == [exists |-> FALSE, enabled |-> FALSE, next |-> Null, cronOk |-> FALSE]
NewSchedule(t, ok, on) == [exists |-> TRUE, enabled |-> on, next |-> t, cronOk |-> ok]
Schedule == [exists : BOOLEAN, enabled : BOOLEAN, next : Nat, cronOk : BOOLEAN]

\* "interrupted" stands for status 'failed' with error INTERRUPTED_RUN_ERROR.
RowStatus == {"none", "running", "success", "failed", "interrupted"}
Row == [job : Jobs \cup {NoJob}, status : RowStatus]
NoRow == [job |-> NoJob, status |-> "none"]

NoTask == [job |-> NoJob, run |-> NoRun, outcome |-> "none"]
Task == [job : Jobs \cup {NoJob}, run : Runs \cup {NoRun},
         outcome : {"none", "success", "failed"}]

(***************************************************************************)
(* Where an executor can be.                                               *)
(*   down      the worker process is not running (the scheduler only)      *)
(*   boot      before _recover_interrupted_runs                            *)
(*   poll      sleeping or about to call _run_due_schedule                 *)
(*   disable   in _disable_invalid_schedule, its first connection is       *)
(*             rolled back and the second one has not written              *)
(*   idle      no such run-now thread                                      *)
(*   spawned   run_job_once has not tried the lock                         *)
(*   started   the running row is committed, job_run_started is not logged *)
(*   body      in the job function                                         *)
(*   finish    _execute_job returned                                       *)
(*   commit    the final UPDATE and the unlock are done, COMMIT is not     *)
(***************************************************************************)
Holding == {"started", "body", "finish"}
Working == Holding \cup {"commit"}
IdleBug(e) == "poll"
Idle(e) == IF e = Scheduler THEN "poll" ELSE "idle"
PC(e) == Working \cup (IF e = Scheduler THEN {"down", "boot", "poll", "disable"}
                                        ELSE {"idle", "spawned"})
PCs == Working \cup {"down", "boot", "poll", "disable", "idle", "spawned"}

Up == pc[Scheduler] # "down"

-----------------------------------------------------------------------------
(* Selecting work.                                                         *)

\* Rows of the first SELECT: enabled and not yet given a next run.
Unarmed(j) == sched[j].exists /\ sched[j].enabled /\ sched[j].next = Null

\* Rows of the second SELECT.
Due(j) ==
    /\ sched[j].exists /\ sched[j].enabled /\ jobEnabled[j]
    /\ sched[j].next # Null /\ sched[j].next <= now

\* ORDER BY next_run_at LIMIT 1, reached only when the first SELECT is empty.
Head(j) ==
    /\ \A k \in Jobs : ~Unarmed(k)
    /\ Due(j)
    /\ \A k \in Jobs : Due(k) => sched[j].next <= sched[k].next

\* croniter(cron_expr, now).get_next(): some later time.  The base is the worker's
\* clock (_compute_next_run), Due compares with Postgres's now(): one clock stands
\* for both, and skew between them is left out.
NextRunBug(base) == base .. (base + MaxPeriod)
NextRun(base) == (base + 1) .. (base + MaxPeriod)

\* require_license_feature(get_job_type_license_feature(job_type)).
Allowed(j) == licensed \/ j \notin Gated

\* pg_try_advisory_lock by a session that does not hold the lock.
LockFreeBug(j) == TRUE
LockFree(j) == lock[j] = NoOne

LocksWithoutBug(S) == lock

\* The locks that are left when the sessions of S are closed.
LocksWithout(S) == [j \in Jobs |-> IF lock[j] \in S THEN NoOne ELSE lock[j]]

\* gen_random_uuid(): an id that no row has.  Runs bounds how many there are.
Unused(r) == rows[r].status = "none"
FreshRun == CHOOSE r \in Runs : Unused(r)

\* INSERT INTO job_runs.
InsertRun(j, s) ==
    /\ \E r \in Runs : Unused(r)
    /\ rows' = [rows EXCEPT ![FreshRun] = [job |-> j, status |-> s]]

\* _insert_job_run, together with the lock just acquired.
BeginRun(e, j) ==
    /\ LockFree(j)
    /\ lock' = [lock EXCEPT ![j] = e]
    /\ InsertRun(j, "running")
    /\ task' = [task EXCEPT ![e] = [job |-> j, run |-> FreshRun, outcome |-> "none"]]
    /\ pc' = [pc EXCEPT ![e] = "started"]

-----------------------------------------------------------------------------
Init ==
    /\ now = 1
    /\ licensed = TRUE
    /\ jobEnabled = [j \in Jobs |-> TRUE]
    \* The seeds of 002_jobs.sql: a job without a schedule, or one that is
    \* enabled and unarmed; a cron expression may predate its validation.
    /\ sched \in [Jobs -> {NoSchedule} \cup {NewSchedule(Null, ok, TRUE) : ok \in BOOLEAN}]
    /\ rows = [r \in Runs |-> NoRow]
    /\ lock = [j \in Jobs |-> NoOne]
    /\ pc = [e \in Executors |-> IF e = Scheduler THEN "boot" ELSE "idle"]
    /\ task = [e \in Executors |-> NoTask]
    /\ lost = {}
    /\ resuming = {}
    /\ firedAt = [j \in Jobs |-> 0]
    /\ forsaken = {}
    /\ faults = 0 /\ changes = 0

\* What happens outside the worker is bounded by MaxChanges, faults by
\* MaxFaults and the clock by MaxTime.
Change == changes < MaxChanges /\ changes' = changes + 1
Fault(kind) == kind \in FaultKinds /\ faults < MaxFaults /\ faults' = faults + 1

-----------------------------------------------------------------------------
(* The scheduler thread.                                                   *)

RecoveredAll(row) == IF row.status = "none" THEN row
                                            ELSE [row EXCEPT !.status = "interrupted"]
RecoveredNone(row) == row
Recovered(row) == IF row.status = "running" THEN [row EXCEPT !.status = "interrupted"]
                                            ELSE row

\* Running rows that no executor is going to finish.
Executed(r) == \E e \in Executors : pc[e] \in Working /\ task[e].run = r
Orphans == {r \in Runs : rows[r].status = "running" /\ ~Executed(r)}

\* The UPDATE of _recover_interrupted_runs.  It asks neither who owns a row
\* nor whether the row's lock is held; it waits for rows that are locked by
\* an executor about to commit.
Recover ==
    /\ pc[Scheduler] = "boot"
    /\ IF Recovery
       THEN /\ \A e \in Executors : pc[e] # "commit"
            /\ rows' = [r \in Runs |-> Recovered(rows[r])]
            /\ UNCHANGED forsaken
       ELSE /\ forsaken' = forsaken \cup Orphans
            /\ UNCHANGED rows
    /\ pc' = [pc EXCEPT ![Scheduler] = "poll"]
    /\ UNCHANGED <<jobEnabled, sched, lock, task, lost, resuming, firedAt,
                   now, licensed, faults, changes>>

\* First SELECT of _run_due_schedule: one enabled schedule gets a next run.
ArmSchedule(j) ==
    /\ pc[Scheduler] = "poll"
    /\ Unarmed(j) /\ sched[j].cronOk
    /\ \E t \in NextRun(now) : sched' = [sched EXCEPT ![j].next = t]
    /\ UNCHANGED <<jobEnabled, rows, execVars, resuming, firedAt, envVars>>

\* _compute_next_run raised: the selecting transaction is rolled back, and a
\* second connection is going to disable the schedule it saw.
RejectCron(j) ==
    /\ pc[Scheduler] = "poll"
    /\ Unarmed(j) \/ Head(j)
    /\ ~sched[j].cronOk
    /\ pc' = [pc EXCEPT ![Scheduler] = "disable"]
    /\ task' = [task EXCEPT ![Scheduler].job = j]
    /\ UNCHANGED <<dbVars, lock, lost, resuming, firedAt, envVars>>

\* _disable_invalid_schedule: UPDATE ... WHERE schedule_id, whatever the row
\* says by now, and a job_runs row that records the refusal.  task.job is
\* NoJob when the schedule was deleted meanwhile.
DisableInvalidSchedule ==
    LET j == task[Scheduler].job IN
    /\ pc[Scheduler] = "disable"
    /\ IF j = NoJob
       THEN UNCHANGED <<sched, rows>>
       ELSE /\ InsertRun(j, "failed")
            /\ sched' = [sched EXCEPT ![j].enabled = FALSE, ![j].next = Null]
    /\ pc' = [pc EXCEPT ![Scheduler] = "poll"]
    /\ task' = [task EXCEPT ![Scheduler] = NoTask]
    /\ UNCHANGED <<jobEnabled, lock, lost, resuming, firedAt, envVars>>

\* Nothing is due, or the head schedule's lock is taken: rollback and return.
\* The other due schedules wait for the next poll.
PollNothing ==
    /\ pc[Scheduler] = "poll"
    /\ \A j \in Jobs : ~Unarmed(j)
    /\ \A j \in Jobs : Head(j) => sched[j].cronOk /\ Allowed(j) /\ ~LockFree(j)
    /\ UNCHANGED vars

SkipUnlicensedBug(j) ==
    /\ pc[Scheduler] = "poll"
    /\ Head(j) /\ sched[j].cronOk /\ ~Allowed(j)
    /\ UNCHANGED vars

\* The head schedule is due and its feature is not licensed: its turn passes.
SkipUnlicensed(j) ==
    /\ pc[Scheduler] = "poll"
    /\ Head(j) /\ sched[j].cronOk /\ ~Allowed(j)
    /\ \E t \in NextRun(now) : sched' = [sched EXCEPT ![j].next = t]
    /\ UNCHANGED <<jobEnabled, rows, execVars, resuming, firedAt, envVars>>

\* The head schedule fires: lock, running row and next run in one commit.
\* When the lock is taken the transaction is rolled back and nothing changes.
FireSchedule(j) ==
    /\ pc[Scheduler] = "poll"
    /\ Head(j) /\ sched[j].cronOk /\ Allowed(j)
    /\ BeginRun(Scheduler, j)
    /\ \E t \in NextRun(now) : sched' = [sched EXCEPT ![j].next = t]
    /\ firedAt' = [firedAt EXCEPT ![j] = now]
    /\ UNCHANGED <<jobEnabled, lost, resuming, envVars>>

-----------------------------------------------------------------------------
(* Run-now threads.  Every admin operation needs the job_control feature.  *)

Admin == licensed /\ Change

\* POST /jobs/run-now answers 202 and spawns a thread.
RequestRunNow(e, j) ==
    /\ Admin
    /\ Up
    /\ pc[e] = "idle"
    /\ pc' = [pc EXCEPT ![e] = "spawned"]
    /\ task' = [task EXCEPT ![e].job = j]
    /\ UNCHANGED <<dbVars, lock, lost, resuming, firedAt, now, licensed, forsaken, faults>>

\* run_job_once gets the lock.  Neither jobs.enabled nor the schedule matters.
StartRunNow(e) ==
    /\ pc[e] = "spawned"
    /\ Allowed(task[e].job)
    /\ BeginRun(e, task[e].job)
    /\ UNCHANGED <<jobEnabled, sched, lost, resuming, firedAt, envVars>>

\* run_job_once gives up: not licensed any more, or the lock is taken.
DropRunNow(e) ==
    /\ pc[e] = "spawned"
    /\ ~Allowed(task[e].job) \/ ~LockFree(task[e].job)
    /\ pc' = [pc EXCEPT ![e] = "idle"]
    /\ task' = [task EXCEPT ![e] = NoTask]
    /\ UNCHANGED <<dbVars, lock, lost, resuming, firedAt, envVars>>

-----------------------------------------------------------------------------
(* A run, the same in _run_due_schedule and run_job_once.                  *)

Goto(e, from, to) == pc[e] = from /\ pc' = [pc EXCEPT ![e] = to]

\* job_run_started is logged and _execute_job finds the feature licensed.
ExecuteJob(e) ==
    /\ Goto(e, "started", "body")
    /\ Allowed(task[e].job)
    /\ UNCHANGED <<dbVars, lock, task, lost, resuming, firedAt, envVars>>

\* The executor's connection is closed and what it had not committed is gone.
Leave(e) ==
    /\ pc' = [pc EXCEPT ![e] = Idle(e)]
    /\ task' = [task EXCEPT ![e] = NoTask]
    /\ lock' = LocksWithout({e})
    /\ lost' = lost \ {e}

RefuseJobBug(e) ==
    /\ pc[e] = "started"
    /\ ~Allowed(task[e].job)
    /\ Leave(e)
    /\ UNCHANGED <<dbVars, resuming, firedAt, envVars>>

\* The license was withdrawn since the run was inserted: the run fails.
RefuseJob(e) ==
    /\ Goto(e, "started", "finish")
    /\ ~Allowed(task[e].job)
    /\ task' = [task EXCEPT ![e].outcome = "failed"]
    /\ UNCHANGED <<dbVars, lock, lost, resuming, firedAt, envVars>>

\* The job function returns, or raises and the exception is logged.
EndJob(e, s) ==
    /\ Goto(e, "body", "finish")
    /\ task' = [task EXCEPT ![e].outcome = s]
    /\ UNCHANGED <<dbVars, lock, lost, resuming, firedAt, envVars>>

\* UPDATE job_runs (not yet visible) and pg_advisory_unlock, which takes
\* effect at once although its transaction is still open.
FinishRun(e) ==
    /\ Goto(e, "finish", "commit")
    /\ e \notin lost
    /\ lock' = LocksWithout({e})
    /\ UNCHANGED <<dbVars, task, lost, resuming, firedAt, envVars>>

\* COMMIT: the outcome becomes visible, whatever the row said by then.
CommitRun(e) ==
    /\ pc[e] = "commit"
    /\ e \notin lost
    /\ rows' = [rows EXCEPT ![task[e].run].status = task[e].outcome]
    /\ Leave(e)
    /\ UNCHANGED <<jobEnabled, sched, resuming, firedAt, envVars>>

\* The executor finds its connection gone: the exception ends the run, the
\* finally closes the connection, and nobody finishes the row.
FindConnectionLost(e) ==
    /\ pc[e] \in {"finish", "commit"}
    /\ e \in lost
    /\ Leave(e)
    /\ forsaken' = forsaken \cup {task[e].run}
    /\ UNCHANGED <<dbVars, resuming, firedAt, now, licensed, faults, changes>>

-----------------------------------------------------------------------------
(* Admins: /api/schedules, /api/jobs, /jobs/pause, /jobs/resume.           *)

AdminTimes == {Null} \cup 1 .. (now + MaxPeriod)

\* Web and worker validate cron expressions differently, so an accepted
\* expression may still be one that croniter rejects.
CreateSchedule(j) ==
    /\ Admin
    /\ ~sched[j].exists
    /\ \E t \in AdminTimes, ok \in BOOLEAN :
         sched' = [sched EXCEPT ![j] = NewSchedule(t, ok, TRUE)]
    /\ firedAt' = [firedAt EXCEPT ![j] = 0]
    /\ UNCHANGED <<jobEnabled, rows, execVars, resuming, now, licensed, forsaken, faults>>

UpdateSchedule(j) ==
    /\ Admin
    /\ sched[j].exists
    /\ \E t \in AdminTimes, ok \in BOOLEAN, on \in BOOLEAN :
         sched' = [sched EXCEPT ![j] = NewSchedule(t, ok, on)]
    /\ firedAt' = [firedAt EXCEPT ![j] = 0]
    /\ UNCHANGED <<jobEnabled, rows, execVars, resuming, now, licensed, forsaken, faults>>

\* The schedule_id that _disable_invalid_schedule may hold exists no more.
DeleteSchedule(j) ==
    /\ Admin
    /\ sched[j].exists
    /\ sched' = [sched EXCEPT ![j] = NoSchedule]
    /\ task' = IF pc[Scheduler] = "disable" /\ task[Scheduler].job = j
               THEN [task EXCEPT ![Scheduler].job = NoJob] ELSE task
    /\ UNCHANGED <<jobEnabled, rows, lock, pc, lost, resuming, firedAt, now, licensed, forsaken, faults>>

SetEnabled(j, on) ==
    /\ sched[j].exists
    /\ sched' = [sched EXCEPT ![j].enabled = on, ![j].next = Null]

ToggleSchedule(j, on) ==
    /\ Admin
    /\ SetEnabled(j, on)
    /\ UNCHANGED <<jobEnabled, rows, execVars, resuming, firedAt, now, licensed, forsaken, faults>>

PauseJob(j) ==
    /\ Admin
    /\ Up
    /\ SetEnabled(j, FALSE)
    /\ UNCHANGED <<jobEnabled, rows, execVars, resuming, firedAt, now, licensed, forsaken, faults>>

\* /jobs/resume commits the schedule first ...
ResumeSchedule(j) ==
    /\ Admin
    /\ Up
    /\ SetEnabled(j, TRUE)
    /\ resuming' = resuming \cup {j}
    /\ UNCHANGED <<jobEnabled, rows, execVars, firedAt, now, licensed, forsaken, faults>>

\* ... and the job in a second transaction.
ResumeJob(j) ==
    /\ j \in resuming
    /\ jobEnabled' = [jobEnabled EXCEPT ![j] = TRUE]
    /\ resuming' = resuming \ {j}
    /\ UNCHANGED <<sched, rows, execVars, firedAt, envVars>>

ToggleJob(j, on) ==
    /\ Admin
    /\ jobEnabled' = [jobEnabled EXCEPT ![j] = on]
    /\ UNCHANGED <<sched, rows, execVars, resuming, firedAt, now, licensed, forsaken, faults>>

ChangeLicense ==
    /\ Change
    /\ licensed' = ~licensed
    /\ UNCHANGED <<dbVars, execVars, resuming, firedAt, now, forsaken, faults>>

Tick ==
    /\ now < MaxTime
    /\ now' = now + 1
    /\ UNCHANGED <<dbVars, execVars, resuming, firedAt, licensed, forsaken, faults, changes>>

-----------------------------------------------------------------------------
(* Faults.                                                                 *)

\* The worker process ends at any point: threads and sessions go with it.
Crash ==
    /\ Fault("crash")
    /\ Up
    /\ pc' = [e \in Executors |-> IF e = Scheduler THEN "down" ELSE "idle"]
    /\ task' = [e \in Executors |-> NoTask]
    /\ lock' = LocksWithout(Executors)
    /\ lost' = {}
    /\ resuming' = {}
    /\ UNCHANGED <<dbVars, firedAt, now, licensed, forsaken, changes>>

\* The container restarts and the scheduler thread is started again.
Restart ==
    /\ pc[Scheduler] = "down"
    /\ pc' = [pc EXCEPT ![Scheduler] = "boot"]
    /\ UNCHANGED <<dbVars, lock, task, lost, resuming, firedAt, envVars>>

\* Postgres drops the idle session that holds the lock; the executor does not
\* notice before it uses the connection again.
DropSession(e) ==
    /\ Fault("drop")
    /\ pc[e] \in Working /\ e \notin lost
    /\ lost' = lost \cup {e}
    /\ lock' = LocksWithout({e})
    /\ UNCHANGED <<dbVars, pc, task, resuming, firedAt, now, licensed, forsaken, changes>>

\* A bug: the connection is left open, and its session keeps the lock.
AbandonRunBug(e) ==
    /\ Fault("write")
    /\ pc[e] \in Working
    /\ pc' = [pc EXCEPT ![e] = Idle(e)]
    /\ task' = [task EXCEPT ![e] = NoTask]
    /\ lost' = lost \ {e}
    /\ forsaken' = forsaken \cup {task[e].run}
    /\ UNCHANGED <<dbVars, lock, resuming, firedAt, now, licensed, changes>>

\* An audit event, a run log or the final UPDATE cannot be written: the
\* exception leaves the row as it is and the finally closes the connection.
AbandonRun(e) ==
    /\ Fault("write")
    /\ pc[e] \in Working
    /\ Leave(e)
    /\ forsaken' = forsaken \cup {task[e].run}
    /\ UNCHANGED <<dbVars, resuming, firedAt, now, licensed, changes>>

\* The transaction of _disable_invalid_schedule fails and is rolled back.
AbandonDisable ==
    /\ Fault("write")
    /\ pc[Scheduler] = "disable"
    /\ Leave(Scheduler)
    /\ UNCHANGED <<dbVars, resuming, firedAt, now, licensed, forsaken, changes>>

\* The second UPDATE of /jobs/resume fails.
AbandonResume(j) ==
    /\ Fault("write")
    /\ j \in resuming
    /\ resuming' = resuming \ {j}
    /\ UNCHANGED <<dbVars, execVars, firedAt, now, licensed, forsaken, changes>>

\* Recovery raises; the loop starts polling all the same.
RecoverFails ==
    /\ Fault("recover")
    /\ pc[Scheduler] = "boot"
    /\ pc' = [pc EXCEPT ![Scheduler] = "poll"]
    /\ forsaken' = forsaken \cup Orphans
    /\ UNCHANGED <<dbVars, lock, task, lost, resuming, firedAt, now, licensed, changes>>

-----------------------------------------------------------------------------
SchedulerStep ==
    \/ Recover \/ DisableInvalidSchedule
    \/ \E j \in Jobs : \/ ArmSchedule(j) \/ RejectCron(j)
                       \/ SkipUnlicensed(j) \/ FireSchedule(j)

ExecutorStep(e) ==
    \/ ExecuteJob(e) \/ RefuseJob(e)
    \/ \E s \in {"success", "failed"} : EndJob(e, s)
    \/ FinishRun(e) \/ CommitRun(e) \/ FindConnectionLost(e)

RunNowStep(e) == StartRunNow(e) \/ DropRunNow(e)

AdminStep ==
    \/ \E e \in Requests, j \in Jobs : RequestRunNow(e, j)
    \/ \E j \in Jobs : \/ CreateSchedule(j) \/ UpdateSchedule(j) \/ DeleteSchedule(j)
                       \/ PauseJob(j) \/ ResumeSchedule(j)
    \/ \E j \in Jobs, on \in BOOLEAN : ToggleSchedule(j, on) \/ ToggleJob(j, on)
    \/ ChangeLicense

FaultStep ==
    \/ Crash \/ AbandonDisable \/ RecoverFails
    \/ \E e \in Executors : DropSession(e) \/ AbandonRun(e)
    \/ \E j \in Jobs : AbandonResume(j)

Next ==
    \/ SchedulerStep \/ PollNothing
    \/ \E e \in Executors : ExecutorStep(e)
    \/ \E e \in Requests : RunNowStep(e)
    \/ AdminStep
    \/ \E j \in Jobs : ResumeJob(j)
    \/ Tick
    \/ FaultStep \/ Restart

Spec == Init /\ [][Next]_vars

\* The scheduler keeps polling, threads keep running, job functions end (each
\* of their calls has a timeout and a bounded number of retries) and the
\* container is restarted.  Nothing is asked of admins, faults or the clock.
Fairness ==
    /\ WF_vars(SchedulerStep)
    /\ \A e \in Executors : WF_vars(ExecutorStep(e))
    /\ \A e \in Requests : WF_vars(RunNowStep(e))
    /\ WF_vars(Restart)

FairSpec == Spec /\ Fairness

-----------------------------------------------------------------------------
(* The inductive invariant behind LockExclusion and the ledger.            *)

\* A lock is held by a live session of an executor that works on that job ...
LockedByWorker ==
    \A j \in Jobs : lock[j] # NoOne =>
        /\ lock[j] \in Executors \ lost
        /\ pc[lock[j]] \in Holding
        /\ task[lock[j]].job = j

\* ... and an executor that works on a job holds its lock unless it lost it.
WorkerHasLock ==
    \A e \in Executors :
        pc[e] \in Holding /\ e \notin lost => lock[task[e].job] = e

\* An executor knows its job and its run; the row waits for its outcome.
WorkerHasRun ==
    /\ \A e \in Executors : pc[e] \in Working =>
         /\ task[e].job \in Jobs /\ task[e].run \in Runs
         /\ rows[task[e].run].status \in {"running", "interrupted"}
    /\ \A e \in Executors : pc[e] \in {"finish", "commit"} => task[e].outcome # "none"
    /\ \A e \in Executors : pc[e] = "spawned" => task[e].job \in Jobs
    /\ \A e \in lost : pc[e] \in Working

\* Two executors never settle the same row.
RunsDistinct ==
    \A e, f \in Executors :
        (e # f /\ pc[e] \in Working /\ pc[f] \in Working) => task[e].run # task[f].run

\* The advisory lock, the executors and the rows fit together: what _insert_job_run,
\* advisory_unlock and conn.close have to preserve between them.
LockInv == LockedByWorker /\ WorkerHasLock /\ WorkerHasRun /\ RunsDistinct

-----------------------------------------------------------------------------
(* Properties.                                                             *)

\* Every variable has its type; an executor's program counter is its own.
TypeOK ==
    /\ now \in Nat \ {0} /\ licensed \in BOOLEAN
    /\ jobEnabled \in [Jobs -> BOOLEAN]
    /\ sched \in [Jobs -> Schedule]
    /\ rows \in [Runs -> Row]
    /\ lock \in [Jobs -> Executors \cup {NoOne}]
    /\ pc \in [Executors -> PCs] /\ \A e \in Executors : pc[e] \in PC(e)
    /\ task \in [Executors -> Task]
    /\ lost \subseteq Executors
    /\ resuming \subseteq Jobs
    /\ firedAt \in [Jobs -> Nat]
    /\ forsaken \subseteq Runs \cup {NoRun}
    /\ faults \in Nat /\ changes \in Nat

\* Two executors between the running row and the end of the same job: the
\* advisory lock allows it only when one of them has lost the session that
\* held the lock (try_advisory_lock, advisory_unlock, conn.close).
LockExclusion ==
    \A e, f \in Executors :
        (/\ e # f
         /\ pc[e] \in Holding /\ pc[f] \in Holding
         /\ task[e].job = task[f].job) => e \in lost \/ f \in lost

\* README.md:170: "Scheduled and run-now execution use Postgres advisory locks
\* so the same job does not run concurrently."  The body of _execute_job.
\* Refuted: the README's divergences say how.
NoConcurrentBodies ==
    \A e, f \in Executors :
        (e # f /\ pc[e] = "body" /\ pc[f] = "body") => task[e].job # task[f].job

\* A job_runs row that says "running" has an executor that is going to finish
\* it, or waits for the recovery of a start, or was left by one of three things:
\* a write that failed, a session that was lost, a start without recovery.  No
\* other path of _run_due_schedule, run_job_once or _execute_job forgets its row,
\* the license refusals included, however often something failed before.
OrphansHaveACause ==
    \A r \in Runs : rows[r].status = "running" =>
        \/ Executed(r)
        \/ r \in forsaken
        \/ pc[Scheduler] \in {"down", "boot"}

\* A schedule fires at most once for one moment of time, whatever was paused,
\* resumed, toggled, deleted, crashed or recovered in between: missed runs are
\* not caught up in a burst.  Only a next_run_at written by an admin resets it.
\* The worker's clock and the database's are one here (see NextRun).
OneFirePerMoment ==
    [][\A j \in Jobs :
         (pc[Scheduler] = "poll" /\ lock[j] = NoOne /\ lock'[j] = Scheduler)
            => firedAt[j] < now]_vars

\* README.md:171: "Interrupted runs can be marked and recovered on startup".
\* _recover_interrupted_runs marks a row only when nobody executes it.
\* Refuted: the README's divergences say how.
RecoveryMarksOnlyInterrupted ==
    [][\A r \in Runs :
         (rows[r].status = "running" /\ rows'[r].status = "interrupted")
            => \A e \in Executors : pc[e] \in Working => task[e].run # r]_vars

\* The promise of RunLedger, with the lock holder's run as the live run.
liveRun == [j \in Jobs |-> IF lock[j] = NoOne THEN NoRun ELSE task[lock[j]].run]
Ledger == INSTANCE RunLedger WITH live <- liveRun
ImplementsLedger == Ledger!Spec

\* A due schedule does not stay due: it fires, is passed over for lack of a
\* license, is disabled, or an admin takes it away (head-of-line waiting on a
\* job that a run-now thread executes ends).
DueIsHandled == \A j \in Jobs : Due(j) ~> ~Due(j)

\* No row says "running" for ever: its executor finishes it, or the next start of
\* the worker does, unless it was forsaken, by a failed write, a lost session or a
\* start without recovery: such a row waits for a start that nobody promises.
RunningIsSettled ==
    \A r \in Runs : rows[r].status = "running" ~>
        rows[r].status # "running" \/ r \in forsaken

\* An advisory lock is released again: by the executor, or with its session, which
\* ends when the worker crashes, when Postgres drops it, and when an audit event, a
\* run log or the final UPDATE cannot be written (conn.close in the finally).
LockIsReleased == \A j \in Jobs : lock[j] # NoOne ~> lock[j] = NoOne

=============================================================================
