------------------------------ MODULE MCWebConsole ------------------------------
(***************************************************************************)
(* Four pages of the web app with what they show and change: the stream of *)
(* feature flags, the revocation of permissions, the agents' console and   *)
(* the job console.  They share no state: a behaviour is one of theirs,    *)
(* its subject, whose variables v1, v2, ... are, under the names it gives  *)
(* them.  Those a page does not need are 0.                                *)
(***************************************************************************)
EXTENDS Naturals, FiniteSets

CONSTANTS
    Pages, MaxCommits, MaxOpens, MaxFaults,             \* the stream
    Permissions, Principals, Kinds, MaxClicks,          \* the revocation, with MaxFaults
    Pairs, Bots, Ops, Nobody, MaxActions, MaxTroubles,  \* the agents' console
    Jobs, MaxPolls, Unread, Failed, None,
    MaxEvents                                           \* the job console

VARIABLES subject, v1, v2, v3, v4, v5, v6, v7, v8, v9, v10, v11, v12, v13, v14, v15, v16, v17

from16 == <<v16, v17>>
from15 == <<v15, from16>>
from13 == <<v13, v14, from15>>
variables == <<subject, v1, v2, v3, v4, v5, v6, v7, v8, v9, v10, v11, v12, from13>>

-----------------------------------------------------------------------------
(* The pages and the names of their variables.  Those that two of them     *)
(* have under one name are the same.                                       *)

page == v10
shown == v11
clicks == v12
faults == v13

flags == v1
license == v2
starting == v3
listener == v4
ending == v5
timer == v6
inbox == v7
cast == v8
again == v9
lost == v12
opens == v14
Stream == INSTANCE FeatureStream

kind == v1
holds == v2
remote == v3
listed == v4
rows == v5
recent == v6
scan == v7
revokeLog == v8
request == v9
view == v10
refreshing == v11
step == v14
targets == v15
status == v16
reload == v17
Revoke == INSTANCE PermissionRevoke

dv == v1
shownRows == v2
rowsLoad == v3
modal == v4
action == v5
submitting == v6
isolated == v7
shownBots == v8
botLoad == v9
botAction == v10
submittingBot == v11
actions == v12
troubles == v13
unsure == v14
overlapped == v15
Agents == INSTANCE AgentConsole

job == v1
licensed == v2
dbUp == v3
polls == v4
form == v5
told == v6
events == v7
left == v8
JobPages == INSTANCE JobConsole

\* Bounds are counts; pairs, bots and quarantine actions are identifiers, and
\* Nobody is none of them; the markers of the job console are no answers and no
\* phases of a form.
ASSUME ConsoleAssumption ==
    /\ {MaxCommits, MaxOpens, MaxFaults, MaxClicks, MaxActions} \subseteq Nat
    /\ {MaxTroubles, MaxEvents, MaxPolls} \subseteq Nat
    /\ Nobody \notin Pairs \cup Bots \cup Ops /\ Pairs \cap Bots = {}
    /\ None \notin {"posted", "halfway", "written", "tab", "runNow", "pause", "resume"}
    /\ Failed \notin BOOLEAN

-----------------------------------------------------------------------------

Step(s, A, rest) == subject = s /\ A /\ UNCHANGED <<subject, rest>>
StreamStep(A) == Step("stream", A, from15)
RevokeStep(A) == Step("revoke", A, <<>>)
AgentsStep(A) == Step("agents", A, from16)
JobsStep(A) == Step("jobs", A, <<v9, v12, from13>>)

No16 == v16 = 0 /\ v17 = 0
No15 == v15 = 0 /\ No16
No12 == v9 = 0 /\ v12 = 0 /\ v13 = 0 /\ v14 = 0 /\ No15

Init ==
    \/ subject = "stream" /\ Stream!Init /\ No15
    \/ subject = "revoke" /\ Revoke!Init
    \/ subject = "agents" /\ Agents!Init /\ No16
    \/ subject = "jobs" /\ JobPages!Init /\ No12

Next ==
    \/ StreamStep(Stream!Next)
    \/ RevokeStep(Revoke!Next)
    \/ AgentsStep(Agents!Next)
    \/ JobsStep(JobPages!Next)

Spec == Init /\ [][Next]_variables

-----------------------------------------------------------------------------
(* Fairness: that of each module, for its own behaviours. *)

StreamFairness ==
    /\ WF_variables(StreamStep(Stream!TearDown))
    /\ WF_variables(StreamStep(Stream!NewClient))
    /\ WF_variables(StreamStep(Stream!Listening))
    /\ WF_variables(StreamStep(starting = "connecting" /\ listener = "none" /\ Stream!StartFails))
    /\ WF_variables(StreamStep(Stream!Ended))
    /\ WF_variables(StreamStep(Stream!Reconnect))
    /\ WF_variables(StreamStep(Stream!Notification))
    /\ WF_variables(StreamStep(Stream!CastFlags))
    /\ WF_variables(StreamStep(Stream!CastLicense))
    /\ \A p \in Pages :
        /\ WF_variables(StreamStep(Stream!Open(p)))
        /\ WF_variables(StreamStep(Stream!SnapshotFlags(p)))
        /\ WF_variables(StreamStep(Stream!Snapshot(p)))

RevokeFairness ==
    /\ WF_variables(RevokeStep(Revoke!CatchUp))
    /\ WF_variables(RevokeStep(Revoke!Age))
    /\ WF_variables(RevokeStep(Revoke!ScanRead))
    /\ WF_variables(RevokeStep(Revoke!ScanWrite))

AgentsFairness == WF_variables(AgentsStep(Agents!RowStep))

JobsFairness ==
    /\ WF_variables(JobsStep(JobPages!DbReturns))
    /\ \A s \in {"tab", "late"} : WF_variables(JobsStep(JobPages!Answers(s)))
    /\ WF_variables(JobsStep(JobPages!Poll))
    /\ \A part \in {"health", "jobs", "runs"} : WF_variables(JobsStep(JobPages!ServerReads(part)))
    /\ WF_variables(JobsStep(JobPages!PollArrives))

FairSpec == Spec /\ StreamFairness /\ RevokeFairness /\ AgentsFairness /\ JobsFairness

-----------------------------------------------------------------------------
(* Properties *)

\* Every variable of the page holds a value of its type.
TypeOK ==
    /\ subject = "stream" => Stream!TypeOK
    /\ subject = "revoke" => Revoke!TypeOK
    /\ subject = "agents" => Agents!TypeOK
    /\ subject = "jobs" => JobPages!TypeOK

\* When nothing is in flight any more, every page shows what is stored: the flags
\* in whatever order snapshot, broadcasts and reconnects came, unless a
\* notification was lost for it (feature-flags-stream.ts); the assignments and
\* the quarantined bots whichever fetch failed, unless changed elsewhere, by an
\* action that was answered with a failure or by two quarantines at once
\* (agent-access-control-client.tsx).
PagesAreCurrent ==
    /\ subject = "stream" => Stream!SettledPagesAreCurrent
    /\ subject = "agents" => Agents!RowsAreCurrent /\ Agents!BotsAreCurrent

\* What the web app answered of a Pause or a Resume of a job holds until somebody
\* writes the job again, whatever failed halfway, was given up or came between, and
\* a job left disabled under an enabled schedule has a cause (worker/app/api.py,
\* web/app/api/worker).
JobAnswersHold == subject = "jobs" => JobPages!JobAnswersHold

\* A permission that was revoked at Graph is gone from the local rows for good in
\* the end, though the local delete failed, or a scan that had read the
\* permission before inserts it again (drive-item-permissions/route.ts).
RevokedRowsGo == <>[](subject = "revoke" => Revoke!RowsFollow)

\* Failures pass: the process listens for changes of the flags again and again,
\* the agents' console enables its buttons again, and when nothing changes any
\* more the job console shows what is there, whatever polls failed or arrived in
\* another order (feature-flags-stream.ts, agent-access-control-client.tsx,
\* AdminOverviewClient.tsx).
PagesComeBack ==
    /\ []<>(subject = "stream" => Stream!Listens)
    /\ []<>(subject = "agents" => Agents!Enabled)
    /\ <>[](subject = "jobs" => JobPages!UpToDate)

=============================================================================
