----------------------------- MODULE JobConsole -----------------------------
(***************************************************************************)
(* The job administration of the web app (web/app/admin): the overview and *)
(* the runs page, which poll every five seconds, the jobs page, which is   *)
(* loaded once, and the forms that reach the worker through the web app.   *)
(*                                                                         *)
(* One browser tab.  What happens to a job is what JobScheduler says, in a *)
(* few steps that a page can tell apart.  The answer to a poll is several  *)
(* reads, and polls overlap: the interval does not wait for one to arrive. *)
(***************************************************************************)
EXTENDS Naturals, FiniteSets

CONSTANTS
    Jobs,
    MaxPolls,     \* the requests that are under way at once
    Unread, Failed, None,
    MaxEvents     \* clicks, outages and changes: bounds the exploration

VARIABLES
    job,          \* jobs.enabled, the schedule and the latest run of each job
    licensed,     \* job_control, as both processes see it
    dbUp,
    page,         \* the page in the tab
    shown,        \* what it shows
    polls,        \* the requests under way: what the server has read for each
    form,         \* the form in the tab, and one that it gave up waiting for
    told,         \* history: of each job, the form that wrote it last, once the
                  \* web app has answered that form as done
    left,         \* history: the jobs that an admin or a broken resume left
                  \* disabled under an enabled schedule
    events

consoleJobVars == <<job, licensed, dbUp, page, shown, polls, form, told, left, events>>

PageKinds == {"overview", "jobs", "runs"}
Slots == {"tab", "late"}
Live == {"overview", "runs"}
FormOps == {"runNow", "pause", "resume"}

\* halfway: the schedule is set, the job is not; written: all is, but the audit.
Phases == {"posted", "halfway", "written"}

JobRows == [enabled : BOOLEAN, schedule : {"none", "enabled", "paused"}, run : {"none", "running", "done"}]

\* The scheduler passes over a job that is disabled itself, and no page says so.
Stuck(row) == row.schedule = "enabled" /\ ~row.enabled

-----------------------------------------------------------------------------
(* What the pages read and show.                                           *)

\* /jobs/status and the query of the jobs page: jobs.enabled is not shown.
Row(j) == [schedule |-> job[j].schedule, run |-> job[j].run]
Rows == [j \in Jobs |-> Row(j)]

LatestRuns == [j \in {k \in Jobs : job[k].run # "none"} |-> [run |-> job[j].run]]

\* The reads that make up the answer to a poll; that of the license is taken
\* with that of the jobs.
Parts(p) == IF p = "overview" THEN {"health", "jobs"} ELSE {"runs"}

Read(part) ==
    CASE part = "health" -> dbUp
      [] part = "jobs"   -> IF dbUp THEN <<Rows, licensed>> ELSE Failed
      [] part = "runs"   -> IF dbUp THEN LatestRuns ELSE Failed

Blank == [rows |-> None, readOnly |-> TRUE, db |-> None, error |-> FALSE]

\* A page that is loaded now.  The jobs page and the runs page come with their
\* rows, the overview waits for its first poll.
Loaded(p) ==
    [Blank EXCEPT !.readOnly = ~licensed,
                  !.rows = CASE p = "overview" -> None
                             [] p = "jobs"     -> Rows
                             [] p = "runs"     -> LatestRuns]

DerivedStatus(row, readOnly) ==
    CASE readOnly /\ row.schedule = "none"                      -> "no_schedule"
      [] readOnly /\ row.schedule # "none"                      -> "paused"
      [] ~readOnly /\ row.run = "running"                       -> "running"
      [] ~readOnly /\ row.run # "running" /\ row.schedule = "none" -> "no_schedule"
      [] OTHER                                                  -> row.schedule

\* The buttons of a row that can be pressed.  The jobs page takes a running
\* job for one with a schedule to pause.
Offered(p, row, readOnly) ==
    LET status == DerivedStatus(row, readOnly)
        pausable == row.schedule = "enabled" \/ (p = "jobs" /\ status = "running")
    IN  IF readOnly THEN {}
        ELSE {op \in FormOps : \/ op = "runNow" /\ status # "running"
                               \/ op = "pause"  /\ row.schedule # "none" /\ pausable
                               \/ op = "resume" /\ row.schedule # "none" /\ ~pausable}

NoForm == [op |-> None, job |-> None, phase |-> None]

-----------------------------------------------------------------------------

Init ==
    /\ job \in [Jobs -> {row \in JobRows : row.run = "none"}]
    /\ licensed \in BOOLEAN
    /\ dbUp = TRUE
    /\ page \in PageKinds
    /\ shown = Loaded(page)
    /\ polls = {}
    /\ form = [s \in Slots |-> NoForm]
    /\ told = [j \in Jobs |-> None]
    /\ left = {j \in Jobs : Stuck(job[j])}
    /\ events = 0

-----------------------------------------------------------------------------
(* Polling.                                                                *)

Event == events < MaxEvents /\ events' = events + 1

\* Requests for which the same was read are one.
Poll ==
    /\ page \in Live
    /\ Cardinality(polls) < MaxPolls
    /\ polls' = polls \cup {[part \in Parts(page) |-> Unread]}
    /\ UNCHANGED <<job, licensed, dbUp, page, shown, form, told, left, events>>

\* One of the queries of the answer: they run in parallel.
ServerReads(part) ==
    /\ \E r \in {q \in polls : part \in DOMAIN q /\ q[part] = Unread} :
           polls' = (polls \ {r}) \cup {[r EXCEPT ![part] = Read(part)]}
    /\ UNCHANGED <<job, licensed, dbUp, page, shown, form, told, left, events>>

\* A poll that fails leaves what is shown and adds the message; the interval
\* goes on.
AnswerBug(a) ==
    IF \E part \in DOMAIN a : a[part] = Failed
    THEN [Blank EXCEPT !.error = TRUE]
    ELSE IF page = "overview"
         THEN [rows |-> a["jobs"][1], readOnly |-> ~a["jobs"][2], db |-> a["health"], error |-> shown.error]
         ELSE [shown EXCEPT !.rows = a["runs"]]

Answer(a) ==
    IF \E part \in DOMAIN a : a[part] = Failed
    THEN [shown EXCEPT !.error = TRUE]
    ELSE IF page = "overview"
         THEN [rows |-> a["jobs"][1], readOnly |-> ~a["jobs"][2], db |-> a["health"], error |-> FALSE]
         ELSE [shown EXCEPT !.rows = a["runs"], !.error = FALSE]

PollArrives ==
    /\ \E r \in polls :
           /\ \A part \in DOMAIN r : r[part] # Unread
           /\ shown' = Answer(r)
           /\ polls' = polls \ {r}
    /\ UNCHANGED <<job, licensed, dbUp, page, form, told, left, events>>

\* A bug: the polls of the page before are not cancelled.
LoadBug(p) ==
    /\ page' = IF dbUp THEN p ELSE "error"
    /\ shown' = IF dbUp THEN Loaded(p) ELSE Blank
    /\ UNCHANGED polls

\* A load cancels what the page before was waiting for, and without the
\* database there is no page.
Load(p) ==
    /\ page' = IF dbUp THEN p ELSE "error"
    /\ shown' = IF dbUp THEN Loaded(p) ELSE Blank
    /\ polls' = {}

Open(p) ==
    /\ p # page /\ form["tab"] = NoForm
    /\ Event
    /\ Load(p)
    /\ UNCHANGED <<job, licensed, dbUp, form, told, left>>

-----------------------------------------------------------------------------
(* The forms.                                                              *)

Click(j, op) ==
    /\ page \in {"overview", "jobs"} /\ shown.rows # None /\ form["tab"] = NoForm
    /\ op \in Offered(page, shown.rows[j], shown.readOnly)
    /\ Event
    /\ form' = [form EXCEPT !["tab"] = [op |-> op, job |-> j, phase |-> "posted"]]
    /\ UNCHANGED <<job, licensed, dbUp, page, shown, polls, told, left>>

At(s, phase) == form[s].phase = phase

\* The end of a form: a redirect to the page that it came from, with ?error=
\* (which no page reads) or without.
Done(s) ==
    /\ form' = [form EXCEPT ![s] = NoForm]
    /\ IF s = "tab" THEN Load(page) ELSE UNCHANGED <<page, shown, polls>>

\* The license, in the web app and in the worker, or no schedule to set.
Refused(s) == ~licensed \/ (form[s].op # "runNow" /\ job[form[s].job].schedule = "none")

Refuse(s) ==
    /\ At(s, "posted") /\ dbUp /\ Refused(s)
    /\ Done(s)
    /\ UNCHANGED <<job, licensed, dbUp, told, left, events>>

\* What the form in the tab wrote is not answered as done.
Unsaid == [j \in Jobs |-> IF told[j] = "tab" THEN None ELSE told[j]]

\* No database: 500, and nothing is undone.
FormFails(s) ==
    /\ form[s] # NoForm /\ ~dbUp
    /\ told' = IF s = "tab" THEN Unsaid ELSE told
    /\ LET j == form[s].job IN
       left' = IF At(s, "halfway") /\ Stuck(job[j]) THEN left \cup {j} ELSE left
    /\ Done(s)
    /\ UNCHANGED <<job, licensed, dbUp, events>>

\* Without the answer of the worker in time the web app redirects with
\* worker_request_timeout, and the worker goes on.
FormTimesOut ==
    /\ form["tab"] # NoForm /\ form["late"] = NoForm
    /\ Event
    /\ form' = [form EXCEPT !["late"] = form["tab"], !["tab"] = NoForm]
    /\ told' = Unsaid
    /\ Load(page)
    /\ UNCHANGED <<job, licensed, dbUp, left>>

\* 202: the thread that runs the job is started, and drops the request when
\* the job runs already.
RunNow(s) ==
    /\ form[s].op = "runNow" /\ dbUp /\ ~Refused(s)
    /\ job' = [job EXCEPT ![form[s].job].run = "running"]
    /\ Done(s)
    /\ UNCHANGED <<licensed, dbUp, told, left, events>>

\* A form, or an admin elsewhere, sets the schedule or enables the job.
Writes(j, row, who) ==
    /\ job' = [job EXCEPT ![j] = row]
    /\ told' = [told EXCEPT ![j] = IF who = "tab" THEN who ELSE None]
    /\ left' = CASE ~Stuck(row)                     -> left \ {j}
                 [] Stuck(row) /\ who = "admin"     -> left \cup {j}
                 [] OTHER                           -> left

Goes(s, phase) ==
    /\ form' = [form EXCEPT ![s].phase = phase]
    /\ UNCHANGED <<licensed, dbUp, page, shown, polls, events>>

PauseSchedule(s) ==
    /\ form[s].op = "pause" /\ At(s, "posted") /\ dbUp /\ ~Refused(s)
    /\ LET j == form[s].job IN Writes(j, [job[j] EXCEPT !.schedule = "paused"], s)
    /\ Goes(s, "written")

\* The schedule in a transaction, the job in a second one.
ResumeSchedule(s) ==
    /\ form[s].op = "resume" /\ At(s, "posted") /\ dbUp /\ ~Refused(s)
    /\ LET j == form[s].job IN Writes(j, [job[j] EXCEPT !.schedule = "enabled"], s)
    /\ Goes(s, "halfway")

\* A bug: only the schedule is enabled.
ResumeJobBug(s) ==
    /\ At(s, "halfway") /\ dbUp
    /\ Goes(s, "written")
    /\ UNCHANGED <<job, told, left>>

ResumeJob(s) ==
    /\ At(s, "halfway") /\ dbUp
    /\ LET j == form[s].job IN
           /\ job' = [job EXCEPT ![j].enabled = TRUE]
           /\ left' = left \ {j}
    /\ Goes(s, "written")
    /\ UNCHANGED told

\* The audit event is written too, and the answer is a redirect without error.
\* Nobody waits for that of a form that was given up.
Confirm(s) ==
    /\ At(s, "written") /\ dbUp
    /\ LET j == form[s].job IN
       told' = IF s = "tab" /\ told[j] = "tab" THEN [told EXCEPT ![j] = form[s].op] ELSE told
    /\ Done(s)
    /\ UNCHANGED <<job, licensed, dbUp, left, events>>

-----------------------------------------------------------------------------
(* What else happens to the jobs.                                          *)

Elsewhere ==
    /\ dbUp
    /\ Event
    /\ UNCHANGED <<licensed, dbUp, page, shown, polls, form>>

SchedulerRuns(j) ==
    /\ job[j].schedule = "enabled" /\ job[j].enabled /\ job[j].run # "running"
    /\ job' = [job EXCEPT ![j].run = "running"]
    /\ Elsewhere
    /\ UNCHANGED <<told, left>>

RunEnds(j) ==
    /\ job[j].run = "running"
    /\ job' = [job EXCEPT ![j].run = "done"]
    /\ Elsewhere
    /\ UNCHANGED <<told, left>>

\* The forms of the jobs page: create, which asks for no more than that there is
\* no schedule yet, update and delete.
EditSchedule(j) ==
    /\ licensed
    /\ \E s \in {"none", "enabled", "paused"} \ {job[j].schedule} :
           /\ job[j].schedule = "none" => s = "enabled"
           /\ Writes(j, [job[j] EXCEPT !.schedule = s], "admin")
    /\ Elsewhere

\* POST /api/jobs, which no page offers.
ToggleJob(j) ==
    /\ licensed
    /\ Writes(j, [job[j] EXCEPT !.enabled = ~@], "admin")
    /\ Elsewhere

LicenseChanges ==
    /\ dbUp /\ Event
    /\ licensed' = ~licensed
    /\ UNCHANGED <<job, dbUp, page, shown, polls, form, told, left>>

DbFails ==
    /\ dbUp /\ Event
    /\ dbUp' = FALSE
    /\ UNCHANGED <<job, licensed, page, shown, polls, form, told, left>>

DbReturns ==
    /\ ~dbUp /\ dbUp' = TRUE
    /\ UNCHANGED <<job, licensed, page, shown, polls, form, told, left, events>>

-----------------------------------------------------------------------------

Answers(s) ==
    \/ Refuse(s) \/ FormFails(s) \/ RunNow(s) \/ PauseSchedule(s)
    \/ ResumeSchedule(s) \/ ResumeJob(s) \/ Confirm(s)

Next ==
    \/ FormTimesOut \/ LicenseChanges \/ DbFails \/ DbReturns
    \/ \E s \in Slots : Answers(s)
    \/ Poll \/ PollArrives
    \/ \E part \in Parts(page) : ServerReads(part)
    \/ \E p \in PageKinds : Open(p)
    \/ \E j \in Jobs : \/ \E op \in FormOps : Click(j, op)
                       \/ SchedulerRuns(j) \/ RunEnds(j) \/ EditSchedule(j) \/ ToggleJob(j)

\* The interval fires, the server answers, the database comes back.
Fairness ==
    /\ WF_consoleJobVars(DbReturns)
    /\ \A s \in Slots : WF_consoleJobVars(Answers(s))
    /\ WF_consoleJobVars(Poll) /\ WF_consoleJobVars(PollArrives)
    /\ \A part \in {"health", "jobs", "runs"} : WF_consoleJobVars(ServerReads(part))

Spec == Init /\ [][Next]_consoleJobVars
FairSpec == Spec /\ Fairness

-----------------------------------------------------------------------------
(* Properties.                                                             *)

TypeOK ==
    /\ job \in [Jobs -> JobRows]
    /\ licensed \in BOOLEAN /\ dbUp \in BOOLEAN
    /\ page \in PageKinds \cup {"error"}
    /\ shown.readOnly \in BOOLEAN /\ shown.db \in BOOLEAN \cup {None} /\ shown.error \in BOOLEAN
    /\ page # "overview" => shown.db = None
    /\ \A r \in polls : page \in Live /\ DOMAIN r = Parts(page)
    /\ Cardinality(polls) <= MaxPolls
    /\ \A s \in Slots : form[s] = NoForm \/ form[s] \in [op : FormOps, job : Jobs, phase : Phases]
    /\ told \in [Jobs -> {None, "tab", "pause", "resume"}]
    /\ left \subseteq Jobs
    /\ events \in 0..MaxEvents

\* What the web app answered of a Pause or a Resume holds until somebody writes
\* the job again: the schedule is paused, or it is enabled and so is the job.  A
\* resume that failed between its transactions, a late one of a form that was given
\* up, an admin elsewhere who came between are not answered so.  And a job that is
\* left disabled under an enabled schedule, which no page shows, is an admin's
\* doing, or a resume's that is half done or failed halfway.
JobAnswersHold ==
    \A j \in Jobs :
        /\ told[j] = "pause" => job[j].schedule = "paused"
        /\ told[j] = "resume" => job[j].schedule = "enabled" /\ job[j].enabled
        /\ Stuck(job[j]) /\ j \notin left => \E s \in Slots : At(s, "halfway") /\ form[s].job = j

\* "Live: refreshes every 5s": when nothing changes any more, a page that polls
\* shows what is there and no error, whatever polls failed, crossed the load of
\* a page or arrived in another order than they were sent.
UpToDate ==
    CASE page = "overview" -> shown = [rows |-> Rows, readOnly |-> ~licensed, db |-> TRUE, error |-> FALSE]
      [] page = "runs"     -> shown.rows = LatestRuns /\ ~shown.error
      [] OTHER             -> TRUE

ConsoleCatchesUp == <>[]UpToDate

=============================================================================
