---- MODULE PermissionRevoke ----
(***************************************************************************)
(* Revoking sharing permissions of one drive item: the item page           *)
(* (dashboard/items/[itemId]/page.tsx), its two tables of permissions and  *)
(* principals (item-tables.tsx), the DELETE handler they call              *)
(* (api/graph/drive-item-permissions/route.ts), Microsoft Graph behind it  *)
(* and the permissions scan of the worker (jobs/graph_ingest.py), which    *)
(* writes the same local rows.                                             *)
(*                                                                         *)
(* Graph answers reads from a list that may lag behind its deletions, and  *)
(* any call may fail, before or after it took effect.                      *)
(***************************************************************************)
EXTENDS Naturals, FiniteSets, Functions

CONSTANTS Permissions,  \* ids of the item's permissions
          Principals,   \* people and groups the permissions are granted to
          Kinds,        \* which of "direct", "owner", "inherited" and "nameless"
                        \* (Graph gives no id) the permissions may be
          MaxClicks,    \* bound on clicks on a revoke button
          MaxFaults     \* bound on failing calls

VARIABLES kind,      \* what Graph says of each permission
          holds,     \* the permissions granted to each principal
          remote,    \* permissions Graph enforces
          listed,    \* permissions Graph's reads return
          rows,      \* rows of msgraph_drive_item_permissions
          recent,    \* permissions_last_synced_at is past the scan's cutoff
          scan,      \* the worker's pass over the item
          revokeLog, \* revoke_permission_logs, as pairs of id and outcome
          request,   \* stage or result of each DELETE
          view,      \* permissions the page was rendered from
          refreshing,\* router.refresh was called and has not rendered yet
          step,      \* where each row's click handler is
          targets,   \* permissions each row's last click is about
          status,    \* message below each row's button
          reload,    \* hardReloadedRef, a reload is scheduled
          clicks, faults

graphVars == <<kind, holds, remote, listed>>
localVars == <<rows, recent, scan>>
pageVars  == <<view, refreshing, step, targets, status, reload, clicks>>
revokeVars == <<graphVars, localVars, revokeLog, request, pageVars, faults>>

\* The rows with a revoke button: one per permission, one per principal.
Buttons == Permissions \cup Principals

Stages  == {"none", "get", "delete", "sync", "audit", "audit warned"}
Results == {"ok", "warned", "failed"}

----------------------------------------------------------------------------
(* What the page renders *)

\* A permission row is blocked unless it is direct, not an owner's and named.
Blocked(p) == kind[p] # "direct"

\* directPermissionIds: everything the principal holds that is not
\* inherited, permissions of owners and permissions without an id included.
DirectOf(who) == {p \in holds[who] \cap view : kind[p] # "inherited"}

TargetsOf(b) == IF b \in Principals THEN DirectOf(b)
                ELSE {b} \cap view \cap {p \in Permissions : ~Blocked(p)}

----------------------------------------------------------------------------
(* Results of a click *)

ResultsOf(b) == {request[<<b, p>>] : p \in targets[b]}

\* A bug: any success is reported as one.
VerdictBug(results) == IF "ok" \in results THEN "success" ELSE "failed"

Verdict(results) ==
    CASE results = {"ok"}     -> "success"
      [] results = {"failed"} -> "failed"
      [] OTHER                -> "partial"

----------------------------------------------------------------------------
(* The DELETE handler *)

Fault == faults < MaxFaults /\ faults' = faults + 1

Log(p, outcome) == revokeLog' = revokeLog \cup {<<p, outcome>>}

\* Logging is best effort: a failing insert is swallowed.
LogMaybe(p, outcome) ==
    \/ Log(p, outcome) /\ UNCHANGED faults
    \/ Fault /\ UNCHANGED revokeLog

Goto(q, stage) == request' = [request EXCEPT ![q] = stage]

\* Not an admin, no CSRF token or no license for revoking.
Refuse(q) ==
    /\ request[q] = "get"
    /\ Goto(q, "failed")
    /\ Fault
    /\ Log(q[2], "failed") \/ UNCHANGED revokeLog
    /\ UNCHANGED <<graphVars, localVars, pageVars>>

\* A permission is deleted only when the one Graph returns is the item's own
\* and grants no owner role.
MayDelete(p) == kind[p] = "direct"

\* A bug: the owner's permissions are not looked at.
ValidateBug(q) ==
    /\ request[q] = "get"
    /\ \/ /\ q[2] \in listed /\ kind[q[2]] \in {"direct", "owner"}
          /\ Goto(q, "delete")
          /\ UNCHANGED <<revokeLog, faults>>
       \/ /\ q[2] \notin listed \/ kind[q[2]] \notin {"direct", "owner"}
          /\ Goto(q, "failed")
          /\ LogMaybe(q[2], "failed")
    /\ UNCHANGED <<graphVars, localVars, pageVars>>

Validate(q) ==
    /\ request[q] = "get"
    /\ \/ /\ q[2] \in listed /\ MayDelete(q[2])
          /\ Goto(q, "delete")
          /\ UNCHANGED <<revokeLog, faults>>
       \/ /\ q[2] \notin listed \/ ~MayDelete(q[2])
          /\ Goto(q, "failed")
          /\ LogMaybe(q[2], "failed")
    /\ UNCHANGED <<graphVars, localVars, pageVars>>

\* Graph removes the permission, or knows it no longer. Its reads may show it
\* for a while.
Delete(q) ==
    /\ request[q] = "delete"
    /\ \/ /\ q[2] \in remote
          /\ remote' = remote \ {q[2]}
          /\ \/ Goto(q, "sync") /\ UNCHANGED <<revokeLog, faults>>
             \/ Fault /\ Goto(q, "failed") /\ Log(q[2], "failed")
       \/ /\ q[2] \notin remote \/ faults < MaxFaults
          /\ faults' = IF q[2] \in remote THEN faults + 1 ELSE faults
          /\ Goto(q, "failed")
          /\ Log(q[2], "failed")
          /\ UNCHANGED remote
    /\ UNCHANGED <<kind, holds, listed, localVars, pageVars>>

\* One local transaction: the rows go and the item counts as synced now. Its
\* failure is a warning.
SyncRows(q) ==
    /\ request[q] = "sync"
    /\ \/ /\ rows' = rows \ {q[2]}
          /\ recent' = TRUE
          /\ Goto(q, "audit")
          /\ UNCHANGED faults
       \/ /\ Fault
          /\ Goto(q, "audit warned")
          /\ UNCHANGED <<rows, recent>>
    /\ UNCHANGED <<graphVars, scan, revokeLog, pageVars>>

\* The audit event, the log entry and the answer. A failing audit event is a
\* warning too.
Finish(q) ==
    /\ request[q] \in {"audit", "audit warned"}
    /\ \/ /\ Goto(q, IF request[q] = "audit" THEN "ok" ELSE "warned")
          /\ LogMaybe(q[2], "success")
       \/ /\ Fault
          /\ Goto(q, "warned")
          /\ Log(q[2], "success")
    /\ UNCHANGED <<graphVars, localVars, pageVars>>

\* The browser never gets the answer: fetch throws.
AnswerLost(q) ==
    /\ request[q] \in {"ok", "warned"}
    /\ step[q[1]] = "deleting"
    /\ Fault
    /\ Goto(q, "failed")
    /\ UNCHANGED <<graphVars, localVars, revokeLog, pageVars>>

----------------------------------------------------------------------------
(* The page *)

\* A confirmed click sends one DELETE per target, all at once. The handler of
\* an earlier click, from before a reload, has ended.
Click(b) ==
    /\ clicks < MaxClicks
    /\ step[b] = "idle" /\ ~reload
    /\ TargetsOf(b) # {}
    /\ \A p \in TargetsOf(b) : request[<<b, p>>] \in Results \cup {"none"}
    /\ clicks' = clicks + 1
    /\ step' = [step EXCEPT ![b] = "deleting"]
    /\ status' = [status EXCEPT ![b] = "none"]
    /\ targets' = [targets EXCEPT ![b] = TargetsOf(b)]
    /\ request' = [q \in DOMAIN request |->
                     IF q[1] = b /\ q[2] \in TargetsOf(b) THEN "get" ELSE request[q]]
    /\ UNCHANGED <<graphVars, localVars, revokeLog, view, refreshing, reload, faults>>

\* Promise.all resolved. After any success the page is refreshed and the
\* live list fetched; otherwise the failure is shown.
Collect(b) ==
    /\ step[b] = "deleting"
    /\ ResultsOf(b) \subseteq Results
    /\ IF ResultsOf(b) = {"failed"}
       THEN /\ step' = [step EXCEPT ![b] = "idle"]
            /\ status' = [status EXCEPT ![b] = "failed"]
            /\ UNCHANGED refreshing
       ELSE /\ step' = [step EXCEPT ![b] = "checking"]
            /\ refreshing' = TRUE
            /\ UNCHANGED status
    /\ UNCHANGED <<graphVars, localVars, revokeLog, request, view, targets,
                   reload, clicks, faults>>

\* The GET handler's live list, or nothing when it fails. Permissions without
\* an id are not in it under the id the page made up.
LiveIds == {p \in listed : kind[p] # "nameless"}

CheckLive(b) ==
    /\ step[b] = "checking"
    /\ step' = [step EXCEPT ![b] = "idle"]
    /\ \/ /\ targets[b] \cap LiveIds # {}
          /\ status' = [status EXCEPT ![b] = "sync-delay"]
          /\ reload' = TRUE
          /\ UNCHANGED faults
       \/ /\ \/ targets[b] \cap LiveIds = {} /\ UNCHANGED faults
             \/ Fault
          /\ status' = [status EXCEPT ![b] = Verdict(ResultsOf(b))]
          /\ UNCHANGED reload
    /\ UNCHANGED <<graphVars, localVars, revokeLog, request, view, refreshing,
                   targets, clicks>>

\* The refreshed page keeps the tables' client state.
Refresh ==
    /\ refreshing
    /\ refreshing' = FALSE
    /\ view' = listed
    /\ UNCHANGED <<graphVars, localVars, revokeLog, request, step, targets,
                   status, reload, clicks, faults>>

\* window.location.reload: the page starts anew, the answers of its requests
\* are dropped, the handlers of those requests go on.
Reload ==
    /\ reload
    /\ reload' = FALSE
    /\ refreshing' = FALSE
    /\ view' = listed
    /\ step' = [b \in Buttons |-> "idle"]
    /\ targets' = [b \in Buttons |-> {}]
    /\ status' = [b \in Buttons |-> "none"]
    /\ UNCHANGED <<graphVars, localVars, revokeLog, request, clicks, faults>>

----------------------------------------------------------------------------
(* Graph and the worker *)

CatchUp ==
    /\ listed # remote
    /\ listed' = remote
    /\ UNCHANGED <<kind, holds, remote, localVars, revokeLog, request, pageVars, faults>>

\* permissions_stale_after_hours pass.
Age ==
    /\ recent
    /\ recent' = FALSE
    /\ UNCHANGED <<graphVars, rows, scan, revokeLog, request, pageVars, faults>>

\* The item is a candidate of a pass; its permissions are read from Graph.
ScanRead ==
    /\ ~recent /\ scan = {}
    /\ scan' = {listed}
    /\ UNCHANGED <<graphVars, rows, recent, revokeLog, request, pageVars, faults>>

\* A bug: rows are inserted and updated, none deleted.
ScanWriteBug ==
    /\ scan # {}
    /\ scan' = {}
    /\ rows' = rows \cup UNION scan
    /\ recent' = TRUE
    /\ UNCHANGED <<graphVars, revokeLog, request, pageVars, faults>>

\* One transaction: the item's rows are replaced by what was read, and the
\* item is synced as of the start of the pass.
ScanWrite ==
    /\ scan # {}
    /\ scan' = {}
    /\ rows' = UNION scan
    /\ recent' = TRUE
    /\ UNCHANGED <<graphVars, revokeLog, request, pageVars, faults>>

----------------------------------------------------------------------------
Deletions == Buttons \X Permissions

Init ==
    /\ kind \in [Permissions -> Kinds]
    /\ holds \in [Principals -> SUBSET Permissions]
    /\ remote = Permissions /\ listed = Permissions
    /\ rows = Permissions /\ recent = TRUE
    /\ scan = {}
    /\ revokeLog = {}
    /\ request = [q \in Deletions |-> "none"]
    /\ view = Permissions /\ refreshing = FALSE
    /\ step = [b \in Buttons |-> "idle"]
    /\ targets = [b \in Buttons |-> {}]
    /\ status = [b \in Buttons |-> "none"]
    /\ reload = FALSE
    /\ clicks = 0 /\ faults = 0

Next ==
    \/ \E q \in Deletions : \/ Refuse(q) \/ Validate(q) \/ Delete(q)
                            \/ SyncRows(q) \/ Finish(q) \/ AnswerLost(q)
    \/ \E b \in Buttons : Click(b) \/ Collect(b) \/ CheckLive(b)
    \/ Refresh \/ Reload
    \/ CatchUp \/ Age \/ ScanRead \/ ScanWrite

Spec == Init /\ [][Next]_revokeVars

\* Graph's reads catch up, the scan passes again and again, and a handler
\* that was called runs to its end.
FairSpec ==
    /\ Spec
    /\ WF_revokeVars(CatchUp) /\ WF_revokeVars(Age)
    /\ WF_revokeVars(ScanRead) /\ WF_revokeVars(ScanWrite)

----------------------------------------------------------------------------
(* Properties *)

\* Every variable stays in its set.
TypeOK ==
    /\ kind \in [Permissions -> Kinds]
    /\ remote \subseteq Permissions /\ listed \subseteq Permissions
    /\ rows \subseteq Permissions /\ recent \in BOOLEAN
    /\ scan \subseteq SUBSET Permissions /\ Cardinality(scan) <= 1
    /\ revokeLog \subseteq Permissions \X {"success", "failed"}
    /\ request \in [Deletions -> Stages \cup Results]
    /\ view \subseteq Permissions /\ refreshing \in BOOLEAN
    /\ step \in [Buttons -> {"idle", "deleting", "checking"}]
    /\ targets \in [Buttons -> SUBSET Permissions]
    /\ status \in [Buttons -> {"none", "success", "partial", "failed", "sync-delay"}]
    /\ clicks \in 0..MaxClicks /\ faults \in 0..MaxFaults

\* "Success: access revoked." is shown below a row only when Graph enforces
\* none of the permissions the click was about, and the log has a success or
\* lost it to a failure.
SuccessIsRevoked ==
    \A b \in Buttons : status[b] = "success" =>
        /\ targets[b] \cap remote = {}
        /\ (faults = 0) => targets[b] \X {"success"} \subseteq revokeLog

\* Whatever the two tables offer and however their requests interleave, only
\* direct permissions without an owner role are ever removed.
ProtectedPermissionsStay == {p \in Permissions : kind[p] # "direct"} \subseteq remote

\* A revoked permission is gone from the local rows for good in the end:
\* when the local transaction failed, and when a pass of the scan had read
\* the permission before and inserts it again.
RowsFollow == rows \subseteq remote
RevokedRowsGo == <>[]RowsFollow

\* "Success on delete, but live data is delayed." is shown below a row
\* only when all of its deletions were accepted.
\* Refuted: the README's divergences say how.
DelayFollowsSuccess ==
    \A b \in Buttons : status[b] = "sync-delay" => targets[b] \cap remote = {}
====
