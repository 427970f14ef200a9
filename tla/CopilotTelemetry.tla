---------------------------- MODULE CopilotTelemetry ----------------------------
(***************************************************************************)
(* The telemetry of the custom agents: the worker job that copies          *)
(* Application Insights events into the copilot_* tables                   *)
(* (worker/app/jobs/copilot_telemetry.py), and the figures the agents page *)
(* computes from them (web/app/dashboard/agents/page.tsx).                 *)
(*                                                                         *)
(* A run asks Application Insights the same window once per stage and      *)
(* commits each stage by itself, while conversations go on; a query that   *)
(* fails ends the run with the earlier stages stored.  Time is counted in  *)
(* half hours, so that two instants share an hourly bucket.                *)
(*                                                                         *)
(* Abstracted: the rows of the raw events table, which no page reads (its  *)
(* stage is kept, because it can fail); topics and response times, stored  *)
(* by the hour as tool calls are; the channel filter, which every query    *)
(* applies as it applies the agent filter; names, durations, percentiles.  *)
(* An event can be queried as soon as it happened: no ingestion lag.       *)
(***************************************************************************)
EXTENDS Integers, FiniteSets, FiniteSetsExt

CONSTANTS
    Sessions,       \* conversation ids
    Users,          \* App Insights user ids (the empty id among them)
    Agents,         \* agent names (cloud_RoleInstance, stored as bot_id)
    AgentOf,        \* the agent of each conversation
    UserOf,         \* the user of each conversation
    TestSessions,   \* the conversations held in design mode
    Lookbacks,      \* values the job's lookback_hours may be given
    Ranges,         \* time ranges the page offers ("all" is any bound past MaxTime)
    AnyAgent,       \* "All Agents" in the agent filter
    NoRow,          \* a session that is not stored; a run that is not there
    MaxTime, MaxEvents, MaxRuns     \* bounds

VARIABLES
    instant,    \* the time
    trace,      \* what Application Insights holds
    sessions,   \* copilot_sessions
    errs,       \* copilot_errors
    hourly,     \* copilot_tool_stats_hourly: total_calls by agent and hour
    sync,       \* the run: its window's start, its own start, its next stage
    covered,    \* the window of the last run when it completed
    syncs       \* runs started

telemetryVars == <<instant, trace, sessions, errs, hourly, sync, covered, syncs>>

Kinds == {"turn", "error", "call"}
Event == [session : Sessions, kind : Kinds, at : 0..MaxTime]
Hour(t) == t \div 2
Hours == 0..Hour(MaxTime)
Outcomes == {"resolved", "escalated", "abandoned"}
Row == [started : 0..MaxTime, ended : 0..MaxTime, turns : 0..MaxEvents, outcome : Outcomes]
Stages == {"sessions", "events", "errors", "tools"}
Window == [since : -Max(Lookbacks)..MaxTime, start : 0..MaxTime]

TypeOK ==
    /\ instant \in 0..MaxTime
    /\ trace \subseteq Event
    /\ sessions \in [Sessions -> Row \cup {NoRow}]
    /\ errs \subseteq [session : Sessions, at : 0..MaxTime]
    /\ hourly \in [Agents -> [Hours -> 0..MaxEvents]]
    /\ \/ sync = NoRow
       \/ sync \in [window : Window, stage : Stages]
    /\ covered \in Window \cup {NoRow}
    /\ syncs \in 0..MaxRuns

Init ==
    /\ instant = 0
    /\ trace = {}
    /\ sessions = [s \in Sessions |-> NoRow]
    /\ errs = {}
    /\ hourly = [a \in Agents |-> [h \in Hours |-> 0]]
    /\ sync = NoRow
    /\ covered = NoRow
    /\ syncs = 0

-----------------------------------------------------------------------------
(* Conversations *)

Happen(s, k) ==
    LET e == [session |-> s, kind |-> k, at |-> instant] IN
    /\ Cardinality(trace) < MaxEvents
    /\ e \notin trace
    /\ trace' = trace \cup {e}
    /\ UNCHANGED <<instant, sessions, errs, hourly, sync, covered, syncs>>

Tick ==
    /\ instant < MaxTime
    /\ instant' = instant + 1
    /\ UNCHANGED <<trace, sessions, errs, hourly, sync, covered, syncs>>

-----------------------------------------------------------------------------
(* The job *)

ClassifyOutcome(turns, errors) ==
    IF turns = 0 THEN "abandoned" ELSE IF errors > 0 THEN "escalated" ELSE "resolved"

FetchBug(k, w) == {e \in trace : e.kind = k /\ e.at > instant - (w.start - w.since)}
Fetch(k, w) == {e \in trace : e.kind = k /\ e.at > w.since}

FetchSessions(w) ==
    [s \in {e.session : e \in Fetch("turn", w) \cup Fetch("error", w)} |->
        LET turns == {e \in Fetch("turn", w) : e.session = s}
            errors == {e \in Fetch("error", w) : e.session = s}
            times == {e.at : e \in turns \cup errors}
        IN  [started |-> Min(times), ended |-> Max(times), turns |-> Cardinality(turns),
             outcome |-> ClassifyOutcome(Cardinality(turns), Cardinality(errors))]]

UpsertSession(old, new) ==
    IF old = NoRow THEN new
    ELSE [started |-> Min({old.started, new.started}),
          ended |-> Max({old.ended, new.ended}),
          turns |-> Max({old.turns, new.turns}),
          outcome |-> new.outcome]

RunCopilotTelemetry ==
    /\ sync = NoRow /\ syncs < MaxRuns
    /\ \E lookback \in Lookbacks :
          sync' = [window |-> [since |-> instant - lookback, start |-> instant],
                   stage |-> "sessions"]
    /\ covered' = NoRow
    /\ syncs' = syncs + 1
    /\ UNCHANGED <<instant, trace, sessions, errs, hourly>>

UpsertSessions ==
    /\ sync # NoRow /\ sync.stage = "sessions"
    /\ LET new == FetchSessions(sync.window) IN
          sessions' = [s \in Sessions |->
              IF s \in DOMAIN new THEN UpsertSession(sessions[s], new[s]) ELSE sessions[s]]
    /\ sync' = [sync EXCEPT !.stage = "events"]
    /\ UNCHANGED <<instant, trace, errs, hourly, covered, syncs>>

\* copilot_events refers to copilot_sessions: the insert raises (QueryFails) when
\* a conversation has begun since the sessions were fetched.
InsertEvents ==
    /\ sync # NoRow /\ sync.stage = "events"
    /\ \A e \in Fetch("turn", sync.window) \cup Fetch("error", sync.window) :
          sessions[e.session] # NoRow
    /\ sync' = [sync EXCEPT !.stage = "errors"]
    /\ UNCHANGED <<instant, trace, sessions, errs, hourly, covered, syncs>>

InsertErrors ==
    /\ sync # NoRow /\ sync.stage = "errors"
    /\ errs' = errs \cup {[session |-> e.session, at |-> e.at] : e \in Fetch("error", sync.window)}
    /\ sync' = [sync EXCEPT !.stage = "tools"]
    /\ UNCHANGED <<instant, trace, sessions, hourly, covered, syncs>>

\* A bug: the counts of the window are added to what is stored.
UpsertToolsHourlyBug ==
    /\ sync # NoRow /\ sync.stage = "tools"
    /\ LET calls(a, h) == {e \in Fetch("call", sync.window) :
                              AgentOf[e.session] = a /\ Hour(e.at) = h} IN
          hourly' = [a \in Agents |-> [h \in Hours |-> hourly[a][h] + Cardinality(calls(a, h))]]
    /\ sync' = NoRow
    /\ covered' = sync.window
    /\ UNCHANGED <<instant, trace, sessions, errs, syncs>>

UpsertToolsHourly ==
    /\ sync # NoRow /\ sync.stage = "tools"
    /\ LET calls(a, h) == {e \in Fetch("call", sync.window) :
                              AgentOf[e.session] = a /\ Hour(e.at) = h} IN
          hourly' = [a \in Agents |-> [h \in Hours |->
              IF calls(a, h) # {} THEN Cardinality(calls(a, h)) ELSE hourly[a][h]]]
    /\ sync' = NoRow
    /\ covered' = sync.window
    /\ UNCHANGED <<instant, trace, sessions, errs, syncs>>

\* A query or a write raises: the run is marked failed, the stages before it stay.
QueryFailsBug ==
    /\ sync # NoRow
    /\ sync' = IF sync.stage = "tools" THEN NoRow ELSE [sync EXCEPT !.stage = "tools"]
    /\ UNCHANGED <<instant, trace, sessions, errs, hourly, covered, syncs>>
QueryFails ==
    /\ sync # NoRow
    /\ sync' = NoRow
    /\ UNCHANGED <<instant, trace, sessions, errs, hourly, covered, syncs>>

Next ==
    \/ \E s \in Sessions, k \in Kinds : Happen(s, k)
    \/ Tick
    \/ RunCopilotTelemetry
    \/ UpsertSessions
    \/ InsertEvents
    \/ InsertErrors
    \/ UpsertToolsHourly
    \/ QueryFails

Spec == Init /\ [][Next]_telemetryVars

-----------------------------------------------------------------------------
(* The agents page: its queries and figures under a filter *)

\* The sum of a function's values.
Total(f) == MapThenSumSet(LAMBDA x : f[x], DOMAIN f)

Filters == [range : Ranges, agent : Agents \cup {AnyAgent}, production : BOOLEAN]

Selects(f, s) == f.agent \in {AnyAgent, AgentOf[s]}

SessionWhere(f) ==
    {s \in Sessions :
        /\ sessions[s] # NoRow
        /\ sessions[s].started > instant - f.range
        /\ Selects(f, s)
        /\ f.production => s \notin TestSessions}

ErrorWhere(f) ==
    {e \in errs :
        /\ e.at > instant - f.range
        /\ Selects(f, e.session)
        /\ f.production => sessions[e.session] # NoRow /\ e.session \notin TestSessions}

WithOutcome(f, o) == {s \in SessionWhere(f) : sessions[s].outcome = o}
UniqueUsers(f) == {UserOf[s] : s \in SessionWhere(f)}
Conversations(f, u) == {s \in SessionWhere(f) : UserOf[s] = u}
NewUsers(f) == {u \in UniqueUsers(f) : Cardinality(Conversations(f, u)) <= 1}
ReturnUsers(f) == {u \in UniqueUsers(f) : Cardinality(Conversations(f, u)) > 1}
MultiTurn(f) == {s \in SessionWhere(f) : sessions[s].turns > 1}
SingleTurnBug(f) == {s \in SessionWhere(f) : sessions[s].turns = 1}
SingleTurn(f) == SessionWhere(f) \ MultiTurn(f)

EscalatedSessions(f) ==
    [s \in WithOutcome(f, "escalated") |->
        IF \E e \in errs : e.session = s THEN "code" ELSE "Unknown"]

ConvsPerAgent(f, a) == Cardinality({s \in SessionWhere(f) : AgentOf[s] = a})

\* The choices of the agent filter; test conversations are among them.
AgentOptions(f) ==
    {AgentOf[s] : s \in {t \in Sessions :
        sessions[t] # NoRow /\ sessions[t].started > instant - f.range}}

\* The rate is in hundredths of a percent, rounded as Math.round does.
ErrorRate(errors, conversations) ==
    IF conversations > 0
    THEN (2 * errors * 10000 + conversations) \div (2 * conversations)
    ELSE 0

Risk(errors, rate) ==
    IF errors >= 50 \/ rate >= 500 THEN "CRITICAL"
    ELSE IF errors >= 10 \/ rate >= 100 THEN "WARNING" ELSE "HEALTHY"

ErrorsPerAgent(f) ==
    [a \in {AgentOf[e.session] : e \in ErrorWhere(f)} |->
        LET errors == Cardinality({e \in ErrorWhere(f) : AgentOf[e.session] = a}) IN
        [errors |-> errors,
         risk |-> Risk(errors, ErrorRate(errors, ConvsPerAgent(f, a)))]]

\* reduce keeps the first agent with the most errors, of rows in no fixed order.
WorstAgents(f) ==
    LET rows == ErrorsPerAgent(f) IN
    {a \in DOMAIN rows : \A b \in DOMAIN rows : rows[b].errors <= rows[a].errors}

-----------------------------------------------------------------------------
(* Properties *)

\* A run that completes accounts for its whole window, however conversations went
\* on between its stages: every conversation it saw is stored with the time it
\* took, every error is stored and its conversation no longer counts as
\* resolved, and the hours wholly inside the window have their exact calls.
CompletedRunCoversItsWindow ==
    covered # NoRow =>
        LET seen == {e \in trace : e.at > covered.since /\ e.at < covered.start} IN
        /\ \A e \in seen :
              e.kind # "call" =>
                  /\ sessions[e.session] # NoRow
                  /\ e.at \in sessions[e.session].started..sessions[e.session].ended
        /\ \A e \in seen :
              e.kind = "error" =>
                  /\ [session |-> e.session, at |-> e.at] \in errs
                  /\ sessions[e.session].outcome # "resolved"
        /\ \A a \in Agents, h \in Hours :
              2 * h > covered.since /\ 2 * h + 1 < covered.start =>
                  hourly[a][h] = Cardinality({e \in trace :
                      e.kind = "call" /\ AgentOf[e.session] = a /\ Hour(e.at) = h})

\* An hourly count is lowered only for the hour the window's start cuts: a run
\* may be late or given another lookback, the hours after the cut never lose.
CutHourShrinks ==
    \A a \in Agents, h \in Hours :
        hourly'[a][h] < hourly[a][h] => 2 * h <= sync.window.since

OnlyTheCutHourShrinks == [][CutHourShrinks]_telemetryVars

\* The page's figures agree under every filter: the outcomes, the new and the
\* returning users, the single and the multi-turn conversations partition their
\* totals, the errors per agent sum to the errors, and the pages of the agents
\* offered as a choice sum to the page of all agents.
FiguresAddUp ==
    \A f \in Filters :
        LET total == Cardinality(SessionWhere(f)) IN
        /\ total = Total([o \in Outcomes |-> Cardinality(WithOutcome(f, o))])
        /\ total = Cardinality(SingleTurn(f)) + Cardinality(MultiTurn(f))
        /\ Cardinality(UniqueUsers(f)) = Cardinality(NewUsers(f)) + Cardinality(ReturnUsers(f))
        /\ Cardinality(ErrorWhere(f)) =
               Total([a \in DOMAIN ErrorsPerAgent(f) |-> ErrorsPerAgent(f)[a].errors])
        /\ f.agent = AnyAgent =>
               total = Total([a \in AgentOptions(f) |->
                                  Cardinality(SessionWhere([f EXCEPT !.agent = a]))])

\* A conversation the page calls escalated has a reason to show once the run that
\* found it so has completed.
EscalationsHaveReasons ==
    covered # NoRow =>
        \A f \in Filters : \A s \in DOMAIN EscalatedSessions(f) :
            (\E e \in trace : e.session = s /\ e.kind # "call"
                              /\ e.at > covered.since /\ e.at < covered.start)
                => EscalatedSessions(f)[s] # "Unknown"

\* What the page's tooltip says of a resolved conversation (page.tsx:579: "No
\* error marked: the session had at least 1 exchange and no errors logged").  The
\* upsert replaces the outcome by that of the window, so a conversation whose
\* error lies before the window's start is resolved again by its next message.
\* Refuted: the README's divergences say how.
NoErrorMarked ==
    covered # NoRow =>
        \A s \in Sessions :
            sessions[s] # NoRow /\ sessions[s].outcome = "resolved" =>
                ~\E e \in errs : e.session = s /\ e.at < covered.start

=============================================================================
