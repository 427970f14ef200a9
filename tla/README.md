# Verification of Princeton Sentinel

TLA+ modules, TLC configurations and TLAPS proofs for Princeton Sentinel, a
posture and operations platform for Microsoft 365 tenants. Paths below are
relative to the repository.

## Inventory

Three services share one Postgres database (`db/`):

- the **worker** (`worker/`): Flask under gunicorn with one process and four
  threads, a scheduler thread, one thread per run-now request, a heartbeat
  thread. It talks to Microsoft Graph, Dataverse and Azure Monitor.
- the **web app** (`web/`): Next.js. Admins manage schedules, jobs, licenses,
  permissions and agents; everybody reads dashboards. It calls the worker over
  HTTP with a timeout.
- **Postgres**: tables, materialized views, triggers that queue dirty views and
  send notifications, advisory locks.

| Component | State | Operations | What is hard | What makes it correct |
|---|---|---|---|---|
| Job scheduler (`scheduler.py`, `api.py`, `db.py`, `main.py`) | `jobs`, `job_schedules`, `job_runs`, advisory locks, thread locals | poll, arm, fire, skip, disable, run-now, execute, finish, recover | threads and sessions that interleave or die; start-up recovery; license withdrawn midway; failed audit writes | one body per job; rows are settled once; due schedules are handled; locks are given back |
| Schedule and job administration (`web/app/api/schedules`, `jobs`, `worker/*`) | the same tables | create, update, toggle, delete, pause, resume | admins act while a schedule is being fired or disabled | no burst of missed runs |
| Materialized view queue (`mv_refresh.py`, `db/init`) | `mv_refresh_queue`, views | trigger, enqueue, refresh, delete | writes that overlap a refresh, rollbacks, lost enqueues, broken views | a dirty view is queued and is refreshed |
| Agent kill-switch (`conditional_access.py`, `access-blocks/route.ts`) | Dataverse rows, Entra policies, `copilot_agent_registrations` | block, unblock, disable, enable | read-modify-write on Entra, retried POSTs, timeouts, three stores | what was answered is what Entra says |
| Graph ingest (`graph_ingest.py`) | `msgraph_*`, delta cursors | eight stages, scope transition, prune | cursors, batch order, expired cursors, partial failure | cursors never pass unwritten pages |
| Permission scan (`graph_ingest.py`) | permissions, grants, error marks | batch scan, defer, retry | scan against revoke | a revoked permission does not come back for good |
| License (`license.py`, `license.ts`) | artifacts, active slot, caches | upload, activate, clear, emulate, evaluate | TTL caches in two processes, evaluations that overtake one another, an upload in three statements | an answer is one that the license in force deserved within the TTL |
| Feature flags and their stream (`feature-flags*.ts`, the SSE route) | flags, LISTEN client, SSE clients | notify, broadcast, reconnect, snapshot | notifications lost in reconnects, two reads per payload, snapshot order | open pages converge to the stored flags; the process listens again |
| Copilot telemetry (`copilot_telemetry.py`, `dashboard/agents`) | session, error and hourly tables | fetch, aggregate, upsert; the page's figures | stages that each query anew, overlapping windows | a completed run accounts for its window; only what was fetched anew shrinks |
| Copilot usage (`copilot_usage_sync.py`, `dashboard/copilot`) | report and interaction tables | report, resolve, export, replace; the pages' figures | refused exports, runs of two modes | rows match the export; the figures of the pages agree within the limits of their queries |
| Quarantine and delegated tokens (`copilot-quarantine.ts`, `delegated-auth-store.ts`) | sign-in store, token and role caches | sign in and out, warm up, view, quarantine | every call is an await; caches stamped with the sign-in | whoever acts was entitled within the TTL; a sign-out forgets |
| Agent console (`agent-access-control-client.tsx`) | the page's copies | load, confirm, patch, refetch | optimistic patches against refetches | when nothing is in flight the copies are true |
| Permission revoke (`drive-item-permissions/route.ts`, item page) | permissions, revoke log, the page's status | delete at Graph, sync rows, log, verify, reload | parallel deletes, lagging reads, the scan | "Success" is success; owners and inherited permissions stay |
| Request gate (`proxy.ts`, `auth.ts`, `runtime-env.ts`, `csrf.ts`) | last known secrets, session, CSRF cookie | look up, admit, check forms | rotation, outages, two lookups, two tabs | the vault decides who is let in; fresh forms pass |
| Dataverse client (`dataverse.ts`) | token, its acquisition, MSAL client | acquire, rebuild, page through tables, patch | settings change while acquisitions are in flight | requests carry the token of their settings |
| Job console (`web/app/admin`) | page, polls, forms | poll, click, time out, redirect | overlapping polls, half-done resumes | pages catch up; what was answered of a job holds |
| Dashboards (`dashboard`, `sites`) | tables, materialized views | the pages' queries, links | views over views, the same rows counted twice | pages that count the same rows agree; links open |
| Logs and exports (`admin/*`, `api/admin/*/export`) | logs | page, export | rows stamped before they commit; a cursor that loses microseconds | nothing is missed but rows of one instant |
| Heartbeat, migrations, deployment scripts | little or none | - | - | - |

The hazards found in reading them are listed in `PROJECT.json`, each at its line.

## Modules

`JobScheduler` models the scheduler thread, the run-now threads and the admin
handlers over `jobs`, `job_schedules`, `job_runs` and the advisory locks. Code
between a `SELECT ... FOR UPDATE` and its `COMMIT` is one action, because its
rows are locked and only the advisory lock is read besides. A run is several
actions (`FireSchedule` or `StartRunNow`, `ExecuteJob` or `RefuseJob`, `EndJob`,
`FinishRun`, `CommitRun`), because the executor holds no transaction while it
writes audit events and runs the job body. `pc` names where an executor is,
`task` its locals, `lock` the session that owns the advisory lock of a job,
`lost` the executors whose session the server has dropped. Cron expressions are
abstracted to whether croniter accepts them, their next time to any later time
within `MaxPeriod`. Faults are actions: `Crash` and `Restart` of the process,
`DropSession`, failed audit, log and final writes (`AbandonRun`,
`AbandonDisable`, `AbandonResume`) and a failed recovery.

`RunLedger` is the abstract specification: what readers of `job_runs` may rely
on, without threads, sessions or locks. `JobScheduler` implements it under the
refinement mapping `liveRun` (the live run of a job is its lock holder's).

`MvRefresh` models writers with their transactions and statement triggers
(`refresh_impacted_mvs`), the ingest jobs' own enqueue after the commit
(`enqueue_impacted_mvs_for_tables`) and the refresh job. A view is stale when a
write was committed behind the snapshot it shows; `dirty_since` is abstracted to
its order (`ahead`). It stands beside `JobScheduler`, which keeps runs of the
refresh job apart.

`AgentBlocks` models the web handler and the worker threads of the kill-switch
over Dataverse (`flag`), Entra (`policy`, `alive`, `enabled`) and Postgres
(`disabledAt`). A thread reads the policy (`Find`) and writes it back in a later
step; Graph may refuse, lose an answer (then `request_json` sends the request
again), the handler may time out and leave the thread running, Postgres and
Dataverse may fail. Agents share no state, so there is one.

`DriveItems` models one drive in the graph ingest: Graph's change log and
listings (external), the rows of the items (`mirror`), which of them have
permission rows (`granted`), the delta link (`cursor`), the drive's own row
(`drive`) and the recorded scope (`savedScope`). A run goes through the stages
that decide about the drive (`StartRun`, `ListDrive` or `MissDrive`,
`OpenDrive` or `PassDrive`), through the listing (`StartListing`, `TakeEntry`,
`EndListing`) with its batches (`WriteActive`, `WriteRemoved`, retried or given
up), saves the cursor, scans permissions, prunes and saves the scope, and may
fail or stop between any two of these. A row, a delta link and a batch entry are
positions of the change log, so that "the cursor is ahead of the rows" is a
comparison of numbers. `relisted` and `mixed` are history: they mark the two
kinds of loss that the code admits.

`CopilotQuarantine` models what one administrator's requests do in the memory of
the web process: the stored sign-in (`store`), the access tokens (`tokens`) and
the role answer (`answer`), each of the latter stamped with the stored state it
was written under. A request (`req`) gives up the thread at every call to Entra,
Graph and Power Platform, so each of these is an action (`GraphToken`, `Me`,
`PowerToken`, `Post`, `Status`), and sign-ins, sign-outs, role changes and other
requests come in between. `raced` marks sign-ins that met a call under way.

`License` follows one process, web or worker, whichever it is: `ReadSlot`,
`Hit`, `MissSimple` or `Miss` and `Inspect` are the awaits of an evaluation over
a slot that uploads, clears and the local emulation change, and over `cache`
with its TTL. `seen` records the moments, to say what an answer could rest on.

`RequestGate` models a request of a browser tab through the proxy and the
handler, each of which looks the administrators' group up (`Ask`, `Fetch` and
the step that applies the answer), with a last known value each, and the form's
CSRF token against the cookie. The vault rotates and fails, the process restarts.

`PermissionRevoke` models the item page with its two tables, the DELETE handler
up to its answer, Graph with reads that lag, and the scan that had read the item
before. One click on a principal starts one request for each direct permission.

`DataverseToken` models the module variables of the client (`cached`, `shared`,
`client`) under requests that acquire, rebuild and page, one action from one
await to the next, while an administrator changes the settings.

`FeatureStream` models the LISTEN connection with the promise that starts it,
its error and end callbacks and its timer, the broadcast in two queries, and an
SSE page from subscription through snapshot and queue to what is shown.
Postgres notifies only sessions that listen at the commit.

`AgentConsole` models the browser's copies of the assignments and of the
quarantined bots, the confirmation, the POST, the optimistic patch and the
refetches. What a block does behind the handler is in `AgentBlocks`, what a
quarantine does in `CopilotQuarantine`: here each is one step.

`JobConsole` models one tab of the admin pages: polls that overlap (`Poll`,
`ServerReads`, `PollArrives`), the forms with the web app's time-out (a form
that timed out goes on in the slot `late`), the two transactions of pause and the
three of resume (`phase`: the job's schedule, the job, the audit event). What
happens to a job meanwhile is what `JobScheduler` says, in fewer steps; an admin
elsewhere may create a schedule for a disabled job, as the jobs page offers. Two
variables are history: `told`, what the web app has answered of the last write to a
job, and `left`, the jobs that an admin or a broken resume left disabled under an
enabled schedule.

`Dashboards` translates the materialized views and the queries of the pages as
operators over `db` (the tables) and `views` (the contents of the views), with
writes that queue views (`queue`, a function from the queued views to the order of
their `dirty_since`) and a refresh that takes the oldest of them first (`run` is
the set it has before it), views over views included. `behind` is history: it
marks a summary that was built from a waiting copy of the view it reads.
`LogPages` models the paged lists, pager and CSV exports of the logs.

`CopilotTelemetry` and `CopilotUsage` model the two jobs stage by stage, with
users who go on meanwhile and failures between stages, and the figures of the
pages as operators over the tables. The queries of the utilization page for the
applications (LIMIT 12) and the departments (LIMIT 8) keep their limits (`AppLimit`,
`DepartmentLimit`, `FirstBy`); the page of a user has none.

The theorems are in modules of their own. `JobSchedulerProofs`, `MvRefreshProofs`,
`AgentBlocksProofs` and `DriveItemsProofs` extend the component they are about.
`MCWebServicesProofs`, `MCWebConsoleProofs`, `MCCopilotProofs` and
`MCDashboardsProofs` extend the module of the run whose properties they prove.

`MCJobScheduler`, `MCMvRefresh`, `MCAgentBlocks`, `MCDriveItems` and `MCDashboards`
define constants and symmetry sets for TLC. `MCWebServices` (quarantine, license,
gate, revoke, Dataverse), `MCWebConsole` (stream, revoke, agent console, job
console) and `MCCopilot` (telemetry, usage, logs) check several components in one
run. Those components share no state, so interleaving them would only multiply
states: a behaviour is one component's, its `subject`; the INSTANCEs map the
component's variables to `v1`, `v2`, ..., and the variables it does not need
are 0. Each component has names of its own for its variables there
(`vault == v1`, ...), in which its properties and its proofs are written; the
constants are those of the components and get their values in the `.cfg`. A
property is a conjunction of `subject = ... => component's property`.

## Runs

| Run | Question | Bounds |
|---|---|---|
| `scheduler_safety` | types, lock invariant, exclusion, orphans, one fire per moment, refinement of `RunLedger` | 1 gated job, 2 run-now threads, 5 rows, 3 moments, 2 faults of any kind, 2 outside changes |
| `scheduler_liveness` | due schedules are handled, running rows settled, locks released | 2 jobs, 1 run-now thread, 6 rows, 2 faults of any kind |
| `mv_drain` | which invalidations may get lost; dirty views are refreshed | 3 views (one always failing), 2 tables, 2 writers, LIMIT 2, 1 fault |
| `mv_forgotten` | expected violation of README.md:175 | no fault |
| `agent_answers` | answers agree with Entra and the registration | 2 users, 2 policies, 2 requests, 1 retry, every fault |
| `agent_policies` | expected violation of conditional_access.py:3 | 2 requests, no fault |
| `drive` | the cursor covers what it passed; removed items keep no permissions; changes reach the mirror | 2 items, 3 changes, batches of 2, 1 retry, 2 faults, 1 switch to test mode |
| `drive_relisted` | expected violation of WORKER-README.md:125 | 1 item, 1 fault |
| `web_services` | quarantine, license, gate, revoke and Dataverse token keep what they answer | 2 requests, checks, tabs or permissions each; 2 sign-ins, 2 license changes of 3 texts, 1 rotation, 2 boots, 2 settings; TTL 1 of 2 ticks |
| `web_console` | live pages show what is stored, and come back after failures | 2 pages, 2 flag or license commits, 3 opened streams, 2 bots, 2 actions, 1 job, 3 clicks, changes or outages, 2 overlapping polls, 1 failure of each kind elsewhere |
| `dashboards` | views follow tables, pages agree, links open | 1 site, 2 drives with 1 item and 1 permission each, 1 user, 1 group, 1 write and 1 failing refresh on any tables |
| `copilot` | runs account for their windows, figures add up, lists and exports miss nothing | 2 conversations, 3 events, 2 telemetry runs; 2 users, 3 applications, 2 prompts, 2 usage runs, limits of 1 application and 1 department; 3 log rows, 3 visits |

The bounds are the smallest at which the interesting cases meet. One job is
enough for safety, since jobs share nothing but the order of the polls; two are
needed for liveness, where one may wait behind another's lock. Three executors
let a third one take the lock while the first has lost its session and the
second is committing. Two faults let a crash follow a dropped session or a
failed write. `Runs` only bounds the number of rows: five suffice for every
start the other bounds allow. Three moments let a schedule fire, be reset by an
admin and fire again. For the views, two writers are one overlapping and one
that waits for its queue row, and a limit of two with one broken view is the
smallest limit that still leaves a place. Two policies are one more than the code
intends, and a third one would behave like the second; the tenant being full
(`FreshPolicies = {}`) is then reached as well. For a drive, three changes let an item be
created, removed and restored, or removed beside one that is created, and two
faults use up a write with one retry. In the web process everything that can go
wrong needs a request and one that overtakes it, an entry of a cache that is
valid and one that is not (a TTL of one tick in a time of two), and one change of
what lies behind. `dashboards` starts from every combination of
its rows in the tables, with the views still to be filled, so one write and the
refreshes around it meet every state; two
drives tell a drive's figures from its site's, and a cache library can hide one
of them. A limit of one application or department cuts off the second, of the same label or of
another. Two log rows of one millisecond and one of another are the smallest log
in which the cursor's lost microseconds matter. Users, policies, requests, items and
rows are interchangeable, so safety runs use symmetry; liveness runs do not.

`MaxTime`, `MaxFaults`, `MaxChanges` and `Runs` in `JobScheduler`,
`MaxFaults` in `MvRefresh`, `MaxChanges`, `MaxSwitches` and `MaxFaults` in
`DriveItems`, and every constant called `Max...` or `Last...` in the other modules
are bounds of the exploration and not of the program (but for `LastPage`, the
largest page number the program reads). `web_services`,
`web_console`, `dashboards` and `copilot` switch deadlock checking off: a behaviour
that has used up its clicks, changes and ticks really stops there, with nothing
under way. The other runs check for deadlock.

Some things never happen within the bounds, and rest on the proofs or are left out.
In `copilot` no hour lies in a window of the telemetry as a whole (`Lookbacks` is
{1, 2}), and the window of a usage run reaches back to the beginning (`Lookback` =
`LastTime`), so its deletion cannot go wrong there: `CompletedRunsAlwaysCover` and
`OnlyOwnRowsEverShrink` hold for every lookback and every time. `drive` switches to
test mode or back once (`MaxSwitches`); a change there and back is not explored for
liveness, the safety theorems cover it.

### What the runs show

- The lock, the rows and the executors stay consistent through every
  interleaving and fault in the bounds, and a run is settled at most once, by its
  executor, after it gave its lock up.
- A row that says "running" without an executor waits for the recovery of a start,
  or was forsaken: by a write that failed, a session that was lost, or a start
  without recovery. Every other one is settled, whatever fails. The lock of a job is
  given back in any case: a failed audit, log or final write closes its connection.
- A schedule does not fire twice for one moment, whatever admins do.
- Queue rows are lost in two ways only: a write that overlaps the refresh which
  deletes the row, and a failed enqueue for a table without a trigger.
- A delta link never passes a change that is not in the rows, whatever fails,
  with two exceptions. A removal is lost when a full listing is taken over
  existing rows. An item that one listing names both as live and as removed ends
  in the state of the batch written last, which is not that of its last entry:
  `_dedupe_rows_keep_last` works within each batch only. How often Graph repeats
  items in one listing is not known from the repository, so the second is a
  named exception of `CursorCoversItsChanges` and not a finding.
- The kill-switch keeps its word through refused requests, repeated PATCH and
  DELETE requests, time-outs and failed writes, provided that no two worker
  threads work on the same agent at once and no POST is repeated.
- Of the web process: nobody switches an agent without a role he held within the
  TTL; a license answer was deserved within the TTL, although an evaluation that
  was overtaken still stores its result, under the key it read when it began; only the vault's
  groups are let in; no owner's or inherited permission is ever deleted, and a
  success that is shown is one. What races can do is named in each property: a
  call that was under way during a sign-out saves its sign-in again, for example.
- The live pages converge: flags whatever the order of snapshot, broadcast and
  reconnect, unless a notification was lost; assignments whatever fetch
  failed; the job console whatever poll failed. A Pause or a Resume that the web app
  answered without an error holds until the job is written again; a resume that breaks
  between its transactions leaves a schedule that is enabled and never due, and so does
  a schedule created for a disabled job, and no page tells either from one that runs. A permission that the scan
  inserts again after its revocation goes with a later pass.
- A materialized view that is not queued shows its tables, also when it reads
  another view, with one exception: a sharing summary that was refreshed while
  `routable_site_drives`, which it reads, was itself still waiting. With an
  empty queue the overview, the lists, the sharing table, the drives' pages and
  the risk page agree on the rows they share.
- The figures of the utilization pages agree within the limits of their queries. With
  more than twelve applications the ratio of the tenant's page tells fewer prompts than
  its total and its chart by day, and the chart's labels are the first of the
  applications that were read.
- A completed telemetry run accounts for its window but lowers the count of the
  hour its window cuts. A completed usage run in the default mode leaves exactly
  what was exported. Of the rows there are when a CSV export begins it
  misses only some of the very millisecond in which one of its batches ended.

### Findings

Three statements of the documentation are refuted by a run each; `PROJECT.json`
quotes them: a dirty view that is no longer queued, two policies for one agent,
and rows of items that no longer exist after a full listing.

### Divergences that no run repeats

These definitions stay in their modules and TLC refutes each in a few steps when
it is given as an invariant or property:

| Definition | What is said | What the code does |
|---|---|---|
| `JobScheduler!NoConcurrentBodies` | README.md:170, no concurrent runs of a job | a session that the server drops during the body frees the lock (scheduler.py:153) |
| `JobScheduler!RecoveryMarksOnlyInterrupted` | README.md:171, interrupted runs are marked | run-now is served before the recovery, which marks its rows too (scheduler.py:325) |
| `FeatureStream!StreamsAreUpdated` | DB-README.md:192, the channel updates the stream | commits between the end of one LISTEN and the next are seen by no session, and no payload is read after a reconnect (feature-flags-stream.ts:115 and :147) |
| `PermissionRevoke!DelayFollowsSuccess` | item-tables.tsx:373, "Success on delete, but live data is delayed." | shown as soon as one delete of several succeeded and another's permission is still there (:367) |
| `Dashboards!RowsCountTheirDrive` | sharing-tables.tsx:122 and :129, counts "on this route drive" | the view counts the links of the site's drives together (003_materialized_views.sql:380) |
| `CopilotTelemetry!NoErrorMarked` | agents/page.tsx:579, "no errors logged" | the outcome is that of the last window, and an error before it is forgotten |
| `CopilotUsage!SkippedUsersKeepTheirRows` | copilot_usage_sync.py:612, the export is "skipped" | an empty export replaces the rows the user had |
| `CopilotQuarantine!PrimedIsServed` | web/tests/auth-warmup-route.test.ts:90, warm-up primes the state | saving the Power Platform token's sign-in changes the stamp, which discards the role answer and the Graph token just obtained |

## Fairness

`JobScheduler`: weak fairness of the scheduler's steps (the loop catches every
exception and polls again), of each executor's steps (job bodies end: their
calls have time-outs and bounded retries), of run-now threads and of the restart
(the container's restart policy). None for admins, the clock or faults.

`MvRefresh`: weak fairness of the refresh job (it is scheduled every five
minutes) and of ending a transaction; strong fairness of the jobs' own enqueue,
which Postgres wakes up when the row it waits for is released.

`DriveItems`: weak fairness of starting runs and of their steps; failures are
bounded, which stands for a Graph and a database that answer in the end.

`FeatureStream`: weak fairness of promises that settle, timers that fire and the
EventSource that opens again; none of commits or failures. `PermissionRevoke`:
Graph's reads catch up and the scan passes again and again (it is scheduled).
`AgentConsole`: the fetch of the rows ends, well or not. `JobConsole`: the
interval fires, the server answers each read, the worker answers the forms, and
the database comes back. `MCWebConsole` states these for its subjects.

## Proofs

Every theorem holds for all values of the constants that satisfy the assumption
named in the module that declares them: `ConstantsAssumption`, `MvAssumption`,
`BlocksAssumption`, `DriveAssumption`, `ServicesAssumption`, `ConsoleAssumption`,
`CopilotAssumption` and `DashboardsAssumption`. They say that bounds are numbers, that
sets are finite where things are counted, that sets which are told apart are
disjoint, that a name for "nothing" is not a member, and, for the dashboards, that
rows have the columns of their tables. TLC evaluates each of them on the constants
of the runs. One theorem rests on a property of the data: `PagesAlwaysAgree` needs
`AddressAssumption`, that "cachelibrary" is in the address of a drive exactly when
its type is cacheLibrary and in no site's address, because the views filter by the
one and the pages by the other. Without it they may differ; it is for Microsoft
Graph, and for no code here, to keep it.

| Theorem | Statement | What makes it inductive |
|---|---|---|
| `JobSchedulerProofs!TypeCorrect` | `TypeOK` | itself |
| `LockInvHolds`, `LockExclusionHolds` | two executors have a job only if one lost its session | `LockInv`, see below |
| `NoDropNoConcurrency` | without dropped sessions no job body runs twice at once | `LockInv` |
| `FiresOncePerMoment` | `OneFirePerMoment` | `FireInv`: no fire lies in the future, and a next run lies after the last fire |
| `OrphansAlwaysHaveACause` | `OrphansHaveACause` | itself, with `TypeOK` and `LockInv`: who begins, settles or deletes a row has it alone |
| `LedgerImplemented` | `Spec => Ledger!Spec` (`ImplementsLedger`) | `LockInv`: who settles or begins a row has the live run of the job |
| `SettledForGood` | a settled row is never written again | the same step simulation |
| `MvRefreshProofs!QueueTypeCorrect` | `TypeOK` | a session's uncommitted rows are its own (`InsertersApart`) |
| `OnlyOverlapsForgotten` | `OnlyOverlapsAreForgotten` | `QueueInv`, see below |
| `AgentBlocksProofs!BlocksTypeCorrect` | `TypeOK` | who works on a policy works for a user |
| `AnswersAreKept` | `AnswersHold` | `BlocksInv`, see below |
| `DriveItemsProofs!DriveTypeCorrect` | `TypeOK` | itself |
| `CursorNeverAhead` | `CursorCoversItsChanges` | `BatchInv` and `CoverInv`, see below |
| `GrantsNeedItems` | `OnlyShownItemsAreGranted` | `BatchInv` |
| `MCWebServicesProofs!GateHoldsAlways`, `GateAlwaysHolds` | types and the three promises of the gate | `GateInv` |
| `LicenseHoldsAlways`, `LicenseAlwaysHolds` | types, `AnswersAreRecent`, `PaidNeedsALicense` | `LicenseInv` |
| `DataverseHoldsAlways`, `TokensAlwaysFollow` | types, `TokensFollowTheConfiguration`, `AcquisitionsAreShared` | `TokenInv` |
| `RevokeHoldsAlways`, `RevokeAlwaysHolds` | types, `SuccessIsRevoked`, `ProtectedPermissionsStay` | `RevokeInv` |
| `QuarantineHoldsAlways`, `PostsAreAlwaysEntitled`, `SignInsAreAlwaysKept` | types, `PostsAreEntitled`, `SignedOutIsForgotten`, `LatestSignInCounts` | `QuarantineInv` |
| `ServicesHaveTheirTypes` | `TypeOK` of `web_services` | the five above |
| `MCWebConsoleProofs!PagesAreAlwaysCurrent` | `PagesAreCurrent`: the flags and the agents that a page shows | `StreamInv`, `AgentsInv` |
| `JobAnswersAlwaysHold` | `JobAnswersHold` | `FormInv`: what a form in the tab has written is as it wrote it, and only a resume is ever half done |
| `PagesHaveTheirTypes` | `TypeOK` of `web_console` | `StreamInv`, `AgentsInv`, `JobsInv`, `RevokeInv` |
| `MCCopilotProofs!CompletedRunsAlwaysCover` | `CompletedRunCovers` | `TelemetryInv`: what each stage has written covers the window |
| `SyncedUsersAlwaysMatch` | `SyncedUsersMatchTheirExport` | `UsageInv`: a row counts exactly what was fetched of its user |
| `FiguresAlwaysAgree` | `FiguresAgree`: sums taken in different ways, of all rows or of those a query is limited to | a finite table: sums by key add up, and fewer rows have a smaller sum |
| `OnlyOwnRowsEverShrink` | `OnlyOwnRowsShrink`, an action property | `TelemetryInv`, `UsageInv` |
| `LogsAreAlwaysComplete` | `LogsAreComplete`: exports, walks through the pages, the pager | `LogsInv` |
| `SubjectsHaveTheirTypes` | `TypeOK` of `copilot` | the three above |
| `MCDashboardsProofs!ViewsAlwaysFollowTables` | `ViewsFollowTables` | `DashInv`, see below |
| `PagesAlwaysAgree` | `PagesAgree` | `DashInv` |
| `LinksAlwaysOpen` | `LinksOpen` | `DashInv` |
| `DashboardsHaveTheirTypes` | `TypeOK` | `DashInv` |

A component of a composed run is proved by itself, as a theorem about its own
specification, and then carried over: every step keeps the subject, and is a step
of the subject's component.

**The scheduler.** Exclusion alone is not inductive. A step that takes a lock must
know that whoever works on the job holds that lock, and a step that settles a row
must know that no other executor has that row. `LockInv` says so in four parts:
a held lock belongs to a live worker of its job (`LockedByWorker`), a worker has
its lock unless its session was lost (`WorkerHasLock`), a worker has a job, a row
and an outcome where it needs them (`WorkerHasRun`), and rows are not shared
(`RunsDistinct`). Relative to `TypeOK` it is inductive; each lemma treats one
group of actions, and `QuietStep`, `BeginRunLock`, `RunGoesOn`, `LeaveLock` state
what the four kinds of step do to it. The refinement maps the live run of a job to
the run of its lock holder. Every action is shown to be a step of `RunLedger` or to
leave rows and live runs alone; `LockInv` supplies that a lock has one holder, and
that a row which is settled is not the live run of another job.

**The queue of views.** A run may delete only the committed row of a view it has
refreshed, so the views it still has to treat keep their rows (`RunIsVisible`).
What an open transaction wrote to a table with a trigger is queued, by itself or
visibly (`OpenWritesAreQueued`), and who is not an ingest job writes to such
tables only (`WritersFit`). Hence a stale view without an excuse has its row, or
an ingest job that has committed still owes it (`DirtyIsOwed`). The excuses are the
two that the property names.

**The kill-switch.** As long as nothing has disturbed it there is one policy and
one thread at work (`OnePolicy`, `OneThread`), all promises hold (`PromisesHold`),
and the thread at work has withdrawn the promise of its own user and knows the
policy it will write back, up to a write of its own that was repeated
(`KnowsPolicy`). So the write leaves every other user alone, and the answer that
follows is true (`CarriedOut`).

**The mirror of a drive.** At every place of a listing that will save its cursor,
each item is accounted for: its latest change up to the new token is an entry still to
be read or in a batch, or it is in the rows with no entry left that could undo it,
or it is one of the two kinds of loss (`Accounted`, in `ListingCovers`). The batch
entries are those of the listing, in order, and later than the old cursor
(`BatchInv`). When the cursor is saved nothing is left to read, so the rows account
for everything the cursor passes. That a set of numbers has a largest and a smallest member is
proved from well-founded induction on the numbers (`SmallestOf`, `LargestOf`).

**The gate.** A request knows what the vault has held since it was sent, and
whether it failed, and a lookup brings one of these values back (`WatchInv`). A
page that no second tab has mixed up has the cookie's token, and its form carries
it (`TokenInv`). As long as no two lookups of handlers overlapped, the value
fetched last is the fallback, or the one lookup under way is bringing it
(`LookupInv`).

**The license.** What the cache holds was deserved at a moment exactly TTL before
its end (`CacheInv`), whoever wrote it and however late; what an evaluation
answers was deserved at a moment it can name (`CheckInv`); and the emulated license
exists in local deployments only (`LocalInv`).

**The Dataverse token.** An acquisition keeps the settings that it read together
(`AcqFits`), what is cached comes from an acquisition of the current client unless
one was overtaken (`CachedFits`), and all acquisitions under way but the shared one
were left behind by a client that was built since, so there are no more of them
than such clients (`SharedFits`, a statement about cardinalities).

**The revocation.** A request that is past Graph's answer has removed its permission,
and one that is past the log without a failure is in the log (`RequestFits`); both
stay so, because neither Graph nor the log takes anything back. The permissions that must
not be removed are never asked for by a request that passed its validation.

**The quarantine.** The role that let a request through was held when the answer
was written: if it says "allowed" and the role is gone, it was withdrawn no earlier
than that (`AnswerInv`). Hence the gap a request carries is within the TTL
(`ReqFits`). Unless a call was in flight at the latest sign-in or sign-out, the
stored state, the tokens, the calls under way and the current role answer are all
of the latest sign-in, and none is stored while nobody is signed in (`RaceInv`).
That the entries stamped with the former state go with it is `OutdatedAll`.

**The stream of flags.** A page may lag behind only while the present state is
still to be broadcast (`Pending`) or a notification was lost to it. Otherwise
what a stream has got last is the present state: with its snapshot, at the end of
its queue, or on the page (`Latest`, in `PageFits`). A broadcast under way has read
the flags as they are unless it is to read again (`CastInv`), so the order of its
two queries, the snapshot's and the commits does not matter.

**The agents' page.** An assignment that nobody else has changed since is shown as it
is, or it is the one whose action was carried out and not answered yet; and what a
fetch has read is current for everything not changed since it read (`RowFits`,
`BotFits`). That a fetch never brings back what an action has just changed follows
from the order in which the page starts them (`RowControl`, `BotControl`); for the
bots it holds while no two quarantine actions overlap.

**The job console.** An answer holds because what the form in the tab has written of a
job is still as it was written when the answer comes (`Said`): whoever writes the job
in between, a form that was given up or an admin elsewhere, takes the job from it. Only
a resume is ever half done, between its transactions (`PhaseFits`), so a job that is
disabled while its schedule is enabled has such a form, or is one that an admin or a
broken resume left so (`StuckIsKnown`).

**Telemetry.** The invariant says what each stage has left for the window of its run:
the sessions with the times of their messages, then the errors, then the exact
counts of every hour that lies in the window as a whole (`SessionsCover`,
`ErrorsCover`, `HoursExact`). Events that come meanwhile are later than the window's
end, so they disturb none of this. No stored count exceeds what happened
(`HourlyInv`), which is why a count is lowered in an hour that the window cuts, and
only there.

**Usage.** What a run has fetched of a user is the user's own (`OwnFetch`), so replacing
the rows of one user leaves the others' as they were, and after the last export a row
has the number of the prompts fetched for its application and hour, and there is
none where there was no prompt (`ExportInv`).

**Sums.** The figures are sums over sets of rows. That a sum by key, added up, is the
sum is proved by induction on finite sets (`TotalsByKey`, `TotalByKey`), and that
itself, like induction on the numbers, from the well-foundedness of `<`
(`NatInductive`, `FiniteInductive`): the family of the sets for which the claim
holds is a set, so no theorem with an operator as a parameter is needed. What a
limited query returns are the rows of fewer applications, so its sums are sums over a
subset (`PromptsGrow`, `RatioOfLabel`, `StackSums`, `FirstRowsFit`).

**The logs.** A row of the log when an export began is in the file, or within the
millisecond of a row at which a batch ended, or still ahead of the cursor
(`FileInv`); the file is strictly descending, so the cursor only moves on. A row that
a walk through the pages has not shown has at least as many rows before it as the pages
read so far hold, so after the last page no more are missing than were logged
between a count and its rows (`WalkInv`).

**The dashboards.** A write queues every view that `mv_dependencies` gives for its
table, and a view depends on no other table (`RightDepends`); so a view without a
queue row still shows the tables as they are. A refresh makes its view right, because
what it reads is right or, in the one excepted case, waits itself (`NextViewIsOfTheRun`
says that the run goes on with a queued view, the oldest). With the queue empty every
view is right, and what is left is arithmetic on one state of the tables: the totals
of the overview are the lengths of the lists (`OverviewMatchesPages`), a site's row is
the sum of its drives' pages (`SitesAddUp`), the risk page has what is exposed
(`RisksAreFlagged`), for any number of sites, drives, items and permissions. The last
two leave out the summary that was built `behind`.

Only model-checked: liveness (`DueIsHandled`, `RunningIsSettled`, `LockIsReleased`,
`DirtyViewIsRefreshed`, `ChangesArrive`, `PagesComeBack`, `RevokedRowsGo`), which
rests on fairness and ENABLED and is out of the prover's reach. Every invariant of the
passing runs, the refinement and the action property `OnlyOwnRowsShrink` are proved.

## What is abstracted and what is not modelled

License verification, cron syntax, audit texts and Graph payloads are data the
properties do not look at. `pg_try_advisory_lock(hashtext(job_id))` is taken as
injective in the job. REFRESH MATERIALIZED VIEW takes its snapshot when it
starts. Entra answers reads with the latest write. A permission's, a row's or a
conversation's columns are those that a condition or a figure asks for. The
header of each module names what it abstracts.

The worker's clock, from which a next run is computed (scheduler.py:479), and
the database's, with which it is compared (:105), are one: what skew between
them does to a moment is left out. The Dataverse client's four settings are read
in one step, where the code awaits each (dataverse.ts:62-65). Application
Insights can be queried for an event as soon as it happened; what it ingests
late is left out, so windows that overlap for that reason are shown to be right
but not to be needed. No two rows of a usage report resolve to one user; the
code would export and count that user twice (copilot_usage_sync.py:99-116 and
:660). A permission scan that meets a revocation meets no deleted item, no
unavailable drive and no error of Graph besides.

Not modelled:

- The stages of users, groups, memberships and sites, and the batches, deferral
  and last retry of the permissions scan: their writes are upserts by key and
  sweeps by `synced_at`, next in the plan below.
- The worker's heartbeat (one counter in memory), its secrets (read once), the
  migrations and deployment scripts (run by operators).
- Rendering: charts, badges, sorting (`sortable-table.tsx`), layout;
  `auth-cookies.ts` and `request-timing.ts` keep no state. `RunsTable.tsx` and
  `dataverse-table-client.tsx` are used by no page.

Hazards without a property, because nothing is promised that one could state:
an invalid schedule is disabled in a second transaction (scheduler.py:78);
`register-agent` checks and inserts in two statements, and the key decides
(access-blocks/route.ts:167); the Dataverse row is flagged before the worker is
asked (:286), which `AgentBlocks` models.

## Plan

Models next: `PermissionScan` (batches, deferral, last retry) and the ingest stages
with their sweeps and the delta cursor of sites, each with the theorem that what it
reports as finished is in the rows. Of the models there are, the safety properties
are proved; a theorem that `JobConsole` implements the abstract jobs of
`JobScheduler` would tie the two together.
