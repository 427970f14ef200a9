------------------------------- MODULE MCCopilot -------------------------------
(***************************************************************************)
(* The telemetry of the agents, the usage of Microsoft 365 Copilot, and    *)
(* the admin's logs and lists.  They share no state: a behaviour is one of *)
(* theirs, its subject, whose variables v1, v2, ... are, under the names   *)
(* it gives them.  Those it does not need are 0.                           *)
(***************************************************************************)
EXTENDS Integers, FiniteSets, TLC

CONSTANTS
    Sessions, Users, Agents, AgentOf, UserOf, TestSessions, Lookbacks, Ranges,
    AnyAgent, NoRow, MaxTime, MaxEvents, MaxRuns,                   \* the telemetry
    People, Apps, Departments, LabelOf, AppLimit, DepartmentLimit, TopApps,
    Week, Lookback, Zone, Periods,
    NoSync, Other, LastTime, MaxPrompts, MaxSyncs, MaxMoves,        \* the usage
    DefaultSize, SmallestSize, LargestSize, LastPage, BatchSize, RawPages, RawSizes,
    NotRead, MaxRows, MaxMicro, MaxVisits,                          \* the logs
    Lone    \* of the checked instance: the one application that shares no label

VARIABLES subject, v1, v2, v3, v4, v5, v6, v7, v8, v9, v10, v11

from9 == <<v9, v10, v11>>
from7 == <<v7, v8, from9>>
variables == <<subject, v1, v2, v3, v4, v5, v6, from7>>

-----------------------------------------------------------------------------
(* The subjects and the names of their variables *)

instant == v1
trace == v2
sessions == v3
errs == v4
hourly == v5
sync == v6
covered == v7
syncs == v8
Telemetry == INSTANCE CopilotTelemetry

time == v1
history == v2
dept == v3
refused == v4
allTime == v5
active == v6
table == v7
usage == v8
exported == v9
usageRuns == v10
moves == v11
Usage == INSTANCE CopilotUsage

micro == v1
pending == v2
log == v3
file == v4
reader == v5
visits == v6
Logs == INSTANCE LogPages

\* A conversation has an agent and a user; no row, count or page of rows is the
\* marker for none; bounds are counts, and so are pages and the sizes of pages and
\* batches, of which the default is one that may be asked for.
ASSUME CopilotAssumption ==
    /\ AgentOf \in [Sessions -> Agents] /\ UserOf \in [Sessions -> Users]
    /\ AnyAgent \notin Agents
    /\ NoRow \notin Telemetry!Row
    /\ NotRead \notin Nat /\ \A rows \in SUBSET Logs!Row : rows # NotRead
    /\ Lookbacks \subseteq Nat /\ IsFiniteSet(Lookbacks) /\ Lookbacks # {} /\ Lookback \in Nat
    /\ {MaxTime, MaxEvents, MaxRuns, LastTime, MaxPrompts, MaxSyncs, MaxMoves} \subseteq Nat
    /\ {MaxRows, MaxMicro, MaxVisits} \subseteq Nat
    /\ {AppLimit, DepartmentLimit, TopApps} \subseteq Nat
    /\ {SmallestSize, LargestSize, LastPage, BatchSize} \subseteq Nat \ {0}
    /\ DefaultSize \in SmallestSize..LargestSize

\* The checked instance: two conversations of one user with two agents, the second
\* held in design mode; three applications, two of which have the same label.
OneAgentEach == [s \in Sessions |-> IF s \in TestSessions THEN "a2" ELSE "a1"]
OneUser == [s \in Sessions |-> "user"]
TwoLabels == [a \in Apps |-> IF a = Lone THEN "teams" ELSE "word"]

\* The users, the departments and the applications of one label are alike.
Symmetry ==
    UNION {Permutations(People), Permutations(Departments), Permutations(Apps \ {Lone})}

-----------------------------------------------------------------------------

Init ==
    \/ subject = "telemetry" /\ Telemetry!Init /\ v9 = 0 /\ v10 = 0 /\ v11 = 0
    \/ subject = "usage" /\ Usage!Init
    \/ subject = "logs" /\ Logs!Init /\ v7 = 0 /\ v8 = 0 /\ v9 = 0 /\ v10 = 0 /\ v11 = 0

Step(s, A, rest) == subject = s /\ A /\ UNCHANGED <<subject, rest>>

Next ==
    \/ Step("telemetry", Telemetry!Next, from9)
    \/ Step("usage", Usage!Next, <<>>)
    \/ Step("logs", Logs!Next, from7)

Spec == Init /\ [][Next]_variables

-----------------------------------------------------------------------------
(* Properties *)

\* Every variable of the subject holds a value of its type.
TypeOK ==
    /\ subject = "telemetry" => Telemetry!TypeOK
    /\ subject = "usage" => Usage!TypeOK
    /\ subject = "logs" => Logs!TypeOK

\* A run of the telemetry job that completes accounts for its whole window,
\* however conversations went on between its stages, and what it calls escalated
\* has a reason (copilot_telemetry.py).
CompletedRunCovers ==
    subject = "telemetry" =>
        Telemetry!CompletedRunCoversItsWindow /\ Telemetry!EscalationsHaveReasons

\* A run lowers or deletes only what it fetched anew: but for the hour its window
\* cuts, no hourly count shrinks (copilot_telemetry.py), and only rows of resolved
\* users or of the window's hours go (copilot_usage_sync.py).
OnlyOwnRowsShrink ==
    [][/\ subject = "telemetry" => Telemetry!CutHourShrinks
       /\ subject = "usage" => Usage!OwnRowsGo]_variables

\* After a run in the default mode, the rows of the users it exported are exactly
\* what Graph answered (copilot_usage_sync.py).
SyncedUsersMatchTheirExport == subject = "usage" => Usage!SyncedUsersMatchTheirExport

\* The figures of a page that count the same rows in different ways agree, under
\* every filter and for every period, within the rows their queries are limited to
\* (agents/page.tsx, dashboard/copilot).  They are computed where no run is under
\* way: one that fails leaves its tables so.
FiguresAgree ==
    /\ subject = "telemetry" /\ sync = NoRow => Telemetry!FiguresAddUp
    /\ subject = "usage" /\ usage = NoSync => Usage!UsagePagesAgree

\* Rows are logged while the admin reads or exports them, and neither misses more
\* than the rows of one instant; no page comes out empty, and the pager, checked
\* once, before any page is opened, leads everywhere (admin pages,
\* web/lib/pagination.ts, the export routes).
LogsAreComplete ==
    subject = "logs" =>
        /\ Logs!ExportMissesOnlyTwins
        /\ Logs!WalkMissesOnlyLateRows
        /\ Logs!LogPagesAreNotEmpty
        /\ micro = 0 /\ pending = {} /\ log = {} => Logs!PagerReachesEveryPage

=============================================================================
