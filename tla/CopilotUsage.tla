------------------------------ MODULE CopilotUsage ------------------------------
(***************************************************************************)
(* The Microsoft 365 Copilot usage of the tenant: the worker job that      *)
(* copies Graph's usage reports and every active user's prompt history     *)
(* into the m365_copilot_* tables (worker/app/jobs/copilot_usage_sync.py), *)
(* and the figures the utilization pages compute                           *)
(* (web/app/dashboard/copilot).                                            *)
(*                                                                         *)
(* The reports are stored first; then the users active in the last seven   *)
(* days are resolved, their histories exported one by one, and all rows    *)
(* replaced in one transaction, as a whole per user ("all_time", the       *)
(* default) or for a window of hours.  Meanwhile users prompt, move        *)
(* between departments and lose history to retention, and Graph refuses    *)
(* the export of some.  Time is counted in half hours.                     *)
(*                                                                         *)
(* Abstracted: the five report periods are one; a row's conversation type, *)
(* context and locale, grouped as its application is; request and session  *)
(* counts; names, by which the pages break ties.  A report row resolves or *)
(* not as the directory decides; two that resolve to one user, whom the    *)
(* job then exports and counts twice, are assumed not to occur.            *)
(***************************************************************************)
EXTENDS Integers, FiniteSets, FiniteSetsExt, Functions

CONSTANTS
    People, Apps, Departments,
    LabelOf,        \* the label the pages give each application
    AppLimit, DepartmentLimit,  \* how many the tenant's page reads of each (12, 8)
    TopApps,        \* how many labels the daily chart tells apart (6)
    Week,           \* the reach of the D7 report
    Lookback,       \* interaction_lookback_days
    Zone,           \* the browser's offset from UTC, in hours
    Periods,        \* report periods of the pages ("ALL" is any bound past LastTime)
    NoSync, Other,
    LastTime, MaxPrompts, MaxSyncs, MaxMoves    \* bounds

VARIABLES
    time,       \* the time
    history,    \* the interactions Graph still holds
    dept,       \* each user's department in the directory
    refused,    \* users whose export Graph answers 400, 403 or 404
    allTime,    \* the job's interaction_mode
    active,     \* m365_copilot_usage_user_detail: users the last report calls active
    table,      \* m365_copilot_interaction_aggregates
    usage,      \* the run
    exported,   \* what Graph answered the last completed run, by resolved user
    usageRuns, moves        \* how often

usageVars == <<time, history, dept, refused, allTime, active, table, usage, exported,
               usageRuns, moves>>

Interaction == [user : People, app : Apps, at : 0..LastTime, prompt : BOOLEAN]
Key == [user : People, app : Apps, hour : 0..(LastTime \div 2)]
HourOf(t) == t \div 2

TypeOK ==
    /\ time \in 0..LastTime
    /\ history \subseteq Interaction
    /\ dept \in [People -> Departments]
    /\ refused \subseteq People /\ active \subseteq People
    /\ allTime \in BOOLEAN
    /\ DOMAIN table \subseteq Key
    /\ \A k \in DOMAIN table : table[k] \in [n : 1..MaxPrompts, dept : Departments]
    /\ usage = NoSync \/ usage.resolved \subseteq People
    /\ exported = NoSync \/ DOMAIN exported \subseteq People
    /\ usageRuns \in 0..MaxSyncs /\ moves \in 0..MaxMoves

Init ==
    /\ time = 0
    /\ history = {}
    /\ \E d \in Departments : dept = [u \in People |-> d]
    /\ refused = {} /\ active = {}
    /\ allTime \in BOOLEAN
    /\ table = [k \in {} |-> 0]
    /\ usage = NoSync /\ exported = NoSync
    /\ usageRuns = 0 /\ moves = 0

-----------------------------------------------------------------------------
(* The tenant *)

Interact(u, a, isPrompt) ==
    LET i == [user |-> u, app |-> a, at |-> time, prompt |-> isPrompt] IN
    /\ Cardinality(history) < MaxPrompts /\ i \notin history
    /\ history' = history \cup {i}
    /\ UNCHANGED <<time, dept, refused, allTime, active, table, usage, exported,
                   usageRuns, moves>>

Pass ==
    /\ time < LastTime
    /\ time' = time + 1
    /\ UNCHANGED <<history, dept, refused, allTime, active, table, usage, exported,
                   usageRuns, moves>>

\* A department changes, retention removes a user's history, a user's export
\* starts to be refused, or an admin edits the job's configuration.
Change ==
    /\ moves < MaxMoves
    /\ moves' = moves + 1
    /\ \/ \E u \in People, d \in Departments : dept' = [dept EXCEPT ![u] = d]
          /\ UNCHANGED <<history, refused, allTime>>
       \/ \E u \in People : history' = {i \in history : i.user # u}
          /\ UNCHANGED <<dept, refused, allTime>>
       \/ \E u \in People : refused' = refused \cup {u}
          /\ UNCHANGED <<history, dept, allTime>>
       \/ allTime' = ~allTime
          /\ UNCHANGED <<history, dept, refused>>
    /\ UNCHANGED <<time, active, table, usage, exported, usageRuns>>

-----------------------------------------------------------------------------
(* The job *)

RunCopilotUsageSync ==
    /\ usage = NoSync /\ usageRuns < MaxSyncs
    /\ usage' = [stage |-> "reports", allTime |-> allTime,
                 start |-> IF allTime THEN -1 ELSE time - Lookback, end |-> time,
                 resolved |-> {}, dept |-> dept, got |-> [u \in {} |-> {}]]
    /\ usageRuns' = usageRuns + 1
    /\ exported' = NoSync
    /\ UNCHANGED <<time, history, dept, refused, allTime, active, table, moves>>

D7Active == {u \in People : \E i \in history : i.user = u /\ i.at > time - Week}

\* The reports are stored, then the active users resolved in the directory.
UpsertReportData ==
    /\ usage # NoSync /\ usage.stage = "reports"
    /\ active' = D7Active
    /\ \E resolved \in SUBSET D7Active :
          usage' = [usage EXCEPT !.stage = "exports", !.resolved = resolved, !.dept = dept]
    /\ UNCHANGED <<time, history, dept, refused, allTime, table, exported, usageRuns, moves>>

Interactions(u) ==
    {i \in history :
        i.user = u /\ (usage.allTime \/ (i.at > usage.start /\ i.at < usage.end))}

FetchInteractions(u) ==
    /\ usage # NoSync /\ usage.stage = "exports"
    /\ u \in usage.resolved \ DOMAIN usage.got
    /\ usage' = [usage EXCEPT !.got =
          [v \in DOMAIN usage.got \cup {u} |->
              IF v \in DOMAIN usage.got THEN usage.got[v]
              ELSE IF u \in refused THEN {} ELSE Interactions(u)]]
    /\ UNCHANGED <<time, history, dept, refused, allTime, active, table, exported,
                   usageRuns, moves>>

\* One row per user, application and hour, of the prompts only.
AggregatePromptsBug(got) ==
    LET all == UNION {got[u] : u \in DOMAIN got}
        keys == {[user |-> i.user, app |-> i.app, hour |-> HourOf(i.at)] : i \in all}
        count(k) == Cardinality({i \in all : i.user = k.user /\ i.app = k.app
                                             /\ HourOf(i.at) = k.hour})
    IN  [k \in keys |-> [n |-> count(k), dept |-> usage.dept[k.user]]]
AggregatePrompts(got) ==
    LET all == {i \in UNION {got[u] : u \in DOMAIN got} : i.prompt}
        keys == {[user |-> i.user, app |-> i.app, hour |-> HourOf(i.at)] : i \in all}
        count(k) == Cardinality({i \in all : i.user = k.user /\ i.app = k.app
                                             /\ HourOf(i.at) = k.hour})
    IN  [k \in keys |-> [n |-> count(k), dept |-> usage.dept[k.user]]]

DeletedBug == DOMAIN table
Deleted ==
    {k \in DOMAIN table :
        IF usage.allTime THEN k.user \in usage.resolved
        ELSE k.hour >= HourOf(usage.start) /\ 2 * k.hour < usage.end}

ReplaceInteractionAggregates ==
    /\ usage # NoSync /\ usage.stage = "exports" /\ DOMAIN usage.got = usage.resolved
    /\ LET new == AggregatePrompts(usage.got)
           kept == DOMAIN table \ Deleted
       IN  table' = [k \in kept \cup DOMAIN new |-> IF k \in DOMAIN new THEN new[k] ELSE table[k]]
    /\ exported' = IF usage.allTime THEN usage.got ELSE NoSync
    /\ usage' = NoSync
    /\ UNCHANGED <<time, history, dept, refused, allTime, active, usageRuns, moves>>

\* Graph or the database raises: the run is marked failed.
UsageFails ==
    /\ usage # NoSync
    /\ usage' = NoSync
    /\ UNCHANGED <<time, history, dept, refused, allTime, active, table, exported,
                   usageRuns, moves>>

Next ==
    \/ \E u \in People, a \in Apps, p \in BOOLEAN : Interact(u, a, p)
    \/ Pass
    \/ Change
    \/ RunCopilotUsageSync
    \/ UpsertReportData
    \/ \E u \in People : FetchInteractions(u)
    \/ ReplaceInteractionAggregates
    \/ UsageFails

Spec == Init /\ [][Next]_usageVars

-----------------------------------------------------------------------------
(* The pages: their queries and figures for a period *)

\* The sum of a function's values.
Total(f) == MapThenSumSet(LAMBDA x : f[x], DOMAIN f)

InPeriod(p) == {k \in DOMAIN table : 2 * k.hour >= time - p}
UserRows(u, p) == {k \in InPeriod(p) : k.user = u}
Prompts(keys) == Total([k \in keys |-> table[k].n])

PromptSummary(p) ==
    [prompts |-> Prompts(InPeriod(p)), users |-> Cardinality({k.user : k \in InPeriod(p)})]

AppRows(keys) ==
    [a \in {k.app : k \in keys} |-> Prompts({k \in keys : k.app = a})]

\* The choices of the first so many by volume; ties are broken by name.
FirstBy(rows, limit) ==
    {first \in SUBSET DOMAIN rows :
        /\ Cardinality(first) = Min({limit, Cardinality(DOMAIN rows)})
        /\ \A x \in first, y \in DOMAIN rows \ first : rows[y] <= rows[x]}

\* What the query of the tenant's page may return.
PageApps(keys) == {Restrict(AppRows(keys), first) : first \in FirstBy(AppRows(keys), AppLimit)}

AppRatioBug(rows) ==
    [l \in {LabelOf[a] : a \in DOMAIN rows} |->
        Max({rows[a] : a \in {b \in DOMAIN rows : LabelOf[b] = l}})]
AppRatio(rows) ==
    [l \in {LabelOf[a] : a \in DOMAIN rows} |->
        Total([a \in {b \in DOMAIN rows : LabelOf[b] = l} |-> rows[a]])]

HourlyRows(keys) ==
    [h \in {k.hour : k \in keys} |-> Prompts({k \in keys : k.hour = h})]

DayPart(hour) ==
    CASE hour \in 5..8 -> "Early morning"
      [] hour \in 9..11 -> "Morning"
      [] hour \in 12..16 -> "Afternoon"
      [] hour \in 17..20 -> "Evening"
      [] OTHER -> "Night"

TimeOfDay(keys) ==
    LET rows == HourlyRows(keys)
        partOf(h) == DayPart((h + Zone) % 24)
    IN  [d \in {partOf(h) : h \in DOMAIN rows} |->
            Total([h \in {g \in DOMAIN rows : partOf(g) = d} |-> rows[h]])]

\* By day, whatever its name says.
AppHourlyRows(keys) ==
    [c \in {<<k.hour \div 24, k.app>> : k \in keys} |->
        Prompts({k \in keys : <<k.hour \div 24, k.app>> = c})]

TopLabels(ratio) == FirstBy(ratio, TopApps)

AppOverTime(keys, top) ==
    LET rows == AppHourlyRows(keys)
        cell(c) == <<c[1], IF LabelOf[c[2]] \in top THEN LabelOf[c[2]] ELSE Other>>
    IN  [x \in {cell(c) : c \in DOMAIN rows} |->
            Total([c \in {b \in DOMAIN rows : cell(b) = x} |-> rows[c]])]

TopUserRows(p) ==
    [r \in {<<k.user, table[k].dept>> : k \in InPeriod(p)} |->
        Prompts({k \in InPeriod(p) : <<k.user, table[k].dept>> = r})]

DepartmentRows(p) ==
    LET rows == [d \in {table[k].dept : k \in InPeriod(p)} |->
                    Prompts({k \in InPeriod(p) : table[k].dept = d})]
    IN  {Restrict(rows, first) : first \in FirstBy(rows, DepartmentLimit)}

\* The page of one user: unknown without a row or a report line.
UserFound(u) == u \in active \/ \E k \in DOMAIN table : k.user = u
UserSummary(u, p) ==
    [prompts |-> Prompts(UserRows(u, p)), apps |-> Cardinality({k.app : k \in UserRows(u, p)})]
UserApps(u, p) == AppRows(UserRows(u, p))

-----------------------------------------------------------------------------
(* Properties *)

\* After a run in the default mode, what is stored of a user it exported is
\* exactly what Graph answered, and the user has one line on the page whatever
\* department older runs or other modes stored.
SyncedUsersMatchTheirExport ==
    exported # NoSync =>
        \A u \in DOMAIN exported :
            /\ \A a \in Apps, h \in 0..HourOf(LastTime) :
                  LET k == [user |-> u, app |-> a, hour |-> h] IN
                  Cardinality({i \in exported[u] : i.prompt /\ i.app = a /\ HourOf(i.at) = h})
                      = IF k \in DOMAIN table THEN table[k].n ELSE 0
            /\ \A p \in Periods :
                  Cardinality({r \in DOMAIN TopUserRows(p) : r[1] = u}) <= 1

\* A run takes rows away only where it answers for them: those of the users it
\* resolved, or the hours of its window.
OwnRowsGo ==
    \A k \in DOMAIN table \ DOMAIN table' :
        \/ usage.allTime /\ k.user \in usage.resolved
        \/ ~usage.allTime /\ k.hour \in HourOf(usage.start)..HourOf(usage.end)

OnlyOwnRowsGo == [][OwnRowsGo]_usageVars

\* The ratio of the applications read and the chart by day agree: the chart tells
\* all prompts, the ratio no more, and all of them when no application was cut off;
\* of a label of its own a chart tells at least what the ratio says, and exactly that
\* when none was cut off ("Other" also holds the labels without a stack).
StackOf(chart, l) == Total(Restrict(chart, {x \in DOMAIN chart : x[2] = l}))

RatioAndChartAgree(keys, rows) ==
    LET ratio == AppRatio(rows)
        whole == rows = AppRows(keys)
    IN  /\ Total(ratio) <= Prompts(keys)
        /\ whole => Total(ratio) = Prompts(keys)
        /\ \A top \in TopLabels(ratio) :
              LET chart == AppOverTime(keys, top) IN
              /\ Total(chart) = Prompts(keys)
              /\ \A l \in top :
                    /\ ratio[l] <= StackOf(chart, l)
                    /\ whole /\ l # Other => ratio[l] = StackOf(chart, l)

\* The pages agree, within the rows their queries are limited to: the prompts by
\* hour, by part of the day and by user sum to those of the period, and so do the
\* pages of its users, each of whom is found; ratio and chart agree on every page,
\* and a department listed has the prompts of the lines of its users, no fewer than
\* one that is cut off.
UsagePagesAgree ==
    \A p \in Periods :
        LET keys == InPeriod(p)
            prompts == PromptSummary(p).prompts
            lines == TopUserRows(p)
            listed == {r[1] : r \in DOMAIN lines}
            linesOf(d) == Total(Restrict(lines, {r \in DOMAIN lines : r[2] = d}))
        IN  /\ {Total(HourlyRows(keys)), Total(TimeOfDay(keys)), Total(lines)} = {prompts}
            /\ PromptSummary(p).users = Cardinality(listed)
            /\ prompts = Total([u \in listed |-> UserSummary(u, p).prompts])
            /\ \A rows \in PageApps(keys) :
                  /\ RatioAndChartAgree(keys, rows)
                  /\ Cardinality(DOMAIN AppRows(keys)) <= AppLimit => rows = AppRows(keys)
            /\ \A u \in listed :
                  /\ UserFound(u)
                  /\ RatioAndChartAgree(UserRows(u, p), UserApps(u, p))
            /\ \A rows \in DepartmentRows(p) :
                  /\ \A d \in DOMAIN rows : rows[d] = linesOf(d)
                  /\ \A d \in DOMAIN rows, r \in DOMAIN lines :
                        r[2] \notin DOMAIN rows => linesOf(r[2]) <= rows[d]

\* What the log says of a refused export ("Interaction export skipped for user",
\* copilot_usage_sync.py:612): the user is skipped.  The user is still among those
\* whose rows the run deletes, so all that was stored of the user is gone.
\* Refuted: the README's divergences say how.
SkippedUsersKeepTheirRows ==
    [][\A k \in DOMAIN table \ DOMAIN table' :
          ~(usage.allTime /\ k.user \in refused /\ usage.got[k.user] = {})]_usageVars

=============================================================================
