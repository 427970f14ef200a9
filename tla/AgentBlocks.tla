----------------------------- MODULE AgentBlocks -----------------------------
(***************************************************************************)
(* Blocking users of one Copilot agent, and the agent itself: the web      *)
(* handler (web/app/api/agents/access-blocks/route.ts), the worker threads *)
(* it calls (worker/app/api.py, worker/app/conditional_access.py) and what *)
(* they keep in three places: the agent's rows in Dataverse, its           *)
(* Conditional Access policies in Entra and its registration in Postgres.  *)
(*                                                                         *)
(* A worker thread reads the policy, computes the new user list and writes *)
(* it back; nothing keeps another thread from doing the same in between.   *)
(* Agents share nothing, so there is one.                                  *)
(***************************************************************************)
EXTENDS Naturals, FiniteSets

CONSTANTS
    Users,
    Policies,       \* ids of policies: as many as the tenant can hold
    NoPolicy,
    NoUser,
    Requests,       \* identities of requests, each with its worker thread
    MaxRetries,     \* GRAPH_MAX_RETRIES
    FaultKinds      \* which of "graph", "lost", "timeout", "write" may happen

ASSUME BlocksAssumption ==
    /\ NoPolicy \notin Policies /\ NoUser \notin Users
    /\ MaxRetries \in Nat
    /\ FaultKinds \subseteq {"graph", "lost", "timeout", "write"}

VARIABLES
    flag,        \* flag[u]: disableflag of the user's Dataverse row
    policy,      \* policy[p]: includeUsers of p; {} when there is no p
    alive,       \* the policies that exist
    enabled,     \* accountEnabled of the agent's service principal
    disabledAt,  \* disabled_at is set in copilot_agent_registrations
    req,         \* req[r]: what was asked for
    web,         \* web[r]: where the handler of r is
    work,        \* work[r]: where the worker thread of r is
    promised,    \* history: the worker's last answer, NoUser for the agent
    disturbed    \* history: two threads overlapped, or a POST was repeated

entra == <<policy, alive, enabled>>
history == <<promised, disturbed>>
vars == <<flag, entra, disabledAt, req, web, work, history>>

AgentActions == {"disable", "enable"}
NoReq == [action |-> "block", user |-> NoUser, all |-> FALSE]
NoPromise == [u \in Users \cup {NoUser} |-> "none"]
NoWork == [pc |-> "idle", seen |-> NoPolicy, list |-> {}, left |-> 0, ok |-> FALSE]

Init ==
    /\ flag = [u \in Users |-> FALSE]
    /\ policy = [p \in Policies |-> {}]
    /\ alive = {}
    /\ enabled = TRUE /\ disabledAt = FALSE
    /\ req = [r \in Requests |-> NoReq]
    /\ web = [r \in Requests |-> "idle"]
    /\ work = [r \in Requests |-> NoWork]
    /\ promised = NoPromise
    /\ disturbed = FALSE

Fault(kind) == kind \in FaultKinds

Free(r) == web[r] = "idle" /\ work[r].pc = "idle"
Busy == {r \in Requests : work[r].pc \notin {"idle", "done"}}

Ask(r, action, u, all) == req' = [req EXCEPT ![r] = [action |-> action, user |-> u, all |-> all]]
Go(r, where) == web' = [web EXCEPT ![r] = where]

\* History: what the worker said last about u; once disturbed, nothing counts.
Says(u, what) == promised' = IF disturbed' THEN NoPromise ELSE [promised EXCEPT ![u] = what]

\* callWorker: the worker starts a thread.  What was answered about the user
\* or the agent before no longer binds anyone.
Call(r, action, u) ==
    /\ work' = [work EXCEPT ![r] = [NoWork EXCEPT !.pc = IF action \in AgentActions THEN "switch" ELSE "find",
                                                  !.left = MaxRetries]]
    /\ disturbed' = (disturbed \/ Busy # {})
    /\ Says(u, "none")

-----------------------------------------------------------------------------
(* The web handler.                                                        *)

\* The handler ends; its thread may still be running.
Finish(r) ==
    /\ Go(r, "idle")
    /\ IF work[r].pc \in {"idle", "done"}
       THEN req' = [req EXCEPT ![r] = NoReq] /\ work' = [work EXCEPT ![r] = NoWork]
       ELSE UNCHANGED <<req, work>>

\* action=block: the row is fetched and its flag is not set (else 409).
RequestBlock(r, u, all) ==
    /\ Free(r)
    /\ ~flag[u]
    /\ Ask(r, "block", u, all)
    /\ Go(r, "patch")
    /\ UNCHANGED <<flag, entra, disabledAt, work, history>>

\* action=unblock: the row is fetched and its flag is set (else 404).  The
\* worker goes first; with scope "agent" it only writes an audit event.
RequestUnblock(r, u, all) ==
    /\ Free(r)
    /\ flag[u]
    /\ Ask(r, "unblock", u, all)
    /\ IF all THEN Go(r, "wait") /\ Call(r, "unblock", u)
              ELSE Go(r, "patch") /\ UNCHANGED <<work, history>>
    /\ UNCHANGED <<flag, entra, disabledAt>>

\* action=disable-agent, action=enable-agent.
RequestAgent(r, action) ==
    /\ Free(r)
    /\ Ask(r, action, NoUser, FALSE)
    /\ Go(r, "wait")
    /\ Call(r, action, NoUser)
    /\ UNCHANGED <<flag, entra, disabledAt>>

\* updateDvRow.
PatchRow(r) ==
    /\ web[r] = "patch"
    /\ flag' = [flag EXCEPT ![req[r].user] = (req[r].action = "block")]
    /\ Go(r, "log")
    /\ UNCHANGED <<entra, disabledAt, req, work, history>>

\* agent_access_revoke_log; a block then goes to the worker, with scope
\* "agent" for an audit event only, whose failure is ignored.
LogRevoke(r) ==
    /\ web[r] = "log"
    /\ IF req[r].action = "block" /\ req[r].all
       THEN Go(r, "wait") /\ Call(r, "block", req[r].user) /\ UNCHANGED req
       ELSE Finish(r) /\ UNCHANGED history
    /\ UNCHANGED <<flag, entra, disabledAt>>

\* The worker's answer.  A failed unblock ends with 502 and a failed block is
\* answered with entra_synced = false: its row stays flagged.
HearWorker(r) ==
    /\ web[r] = "wait" /\ work[r].pc = "done"
    /\ IF req[r].action = "unblock" /\ work[r].ok
       THEN /\ Go(r, "patch")
            /\ work' = [work EXCEPT ![r] = NoWork]
            /\ UNCHANGED req
       ELSE Finish(r)
    /\ UNCHANGED <<flag, entra, disabledAt, history>>

\* Dataverse refuses the patch, or the revoke log or audit event is not written.
WebFails(r) ==
    /\ Fault("write")
    /\ web[r] \in {"patch", "log"} \/ (web[r] = "wait" /\ work[r].pc = "done")
    /\ Finish(r)
    /\ UNCHANGED <<flag, entra, disabledAt, history>>

\* WORKER_API_TIMEOUT_MS: the handler gives up, the thread does not.
TimeOut(r) ==
    /\ Fault("timeout")
    /\ web[r] = "wait" /\ work[r].pc # "done"
    /\ Finish(r)
    /\ UNCHANGED <<flag, entra, disabledAt, history>>

\* The thread ends, and nobody waits for its answer any more.
Unheard(r) ==
    /\ web[r] = "idle" /\ work[r].pc = "done"
    /\ Finish(r)
    /\ UNCHANGED <<flag, entra, disabledAt, history>>

WebStep(r) ==
    \/ PatchRow(r) \/ LogRevoke(r) \/ HearWorker(r) \/ WebFails(r)
    \/ TimeOut(r) \/ Unheard(r)

-----------------------------------------------------------------------------
(* The worker thread.                                                      *)

At(r, place) == work[r].pc = place
Move(r, place) == work' = [work EXCEPT ![r].pc = place]

\* The thread ends with an answer, TRUE for success.
Answer(r, ok) == work' = [work EXCEPT ![r] = [NoWork EXCEPT !.pc = "done", !.ok = ok]]

\* find_policy_for_bot: the filter may match several policies, value[0] is used.
Find(r) ==
    /\ At(r, "find")
    /\ \E p \in IF alive = {} THEN {NoPolicy} ELSE alive :
        work' = [work EXCEPT ![r].pc = "write", ![r].seen = p,
                             ![r].list = IF p = NoPolicy THEN {} ELSE policy[p]]
    /\ UNCHANGED <<flag, entra, disabledAt, req, web, history>>

\* A bug: the patch carries only the new user.
NewListBug(r) == IF req[r].action = "block" THEN {req[r].user} ELSE work[r].list \ {req[r].user}

\* includeUsers as block_user and unblock_user compute it from what was read.
NewList(r) ==
    IF req[r].action = "block" THEN work[r].list \cup {req[r].user}
                               ELSE work[r].list \ {req[r].user}

\* The user is in the policy already, or is not (or there is no policy).
NothingToDo(r) == At(r, "write") /\ NewList(r) = work[r].list

AlreadySo(r) ==
    /\ NothingToDo(r)
    /\ Move(r, "record")
    /\ UNCHANGED <<flag, entra, disabledAt, req, web, history>>

\* Ids a new policy may get: no thread remembers them from a deleted one.
FreshPolicies == Policies \ (alive \cup {work[r].seen : r \in Requests})

\* The write as Entra carries it out.
PostPolicy(r) ==
    /\ At(r, "write") /\ ~NothingToDo(r) /\ work[r].seen = NoPolicy
    /\ \E p \in FreshPolicies :
        /\ policy' = [policy EXCEPT ![p] = NewList(r)]
        /\ alive' = alive \cup {p}
    /\ UNCHANGED enabled

\* A bug: the list is patched even if nobody remains on it.
PatchPolicyBug(r) ==
    /\ At(r, "write") /\ ~NothingToDo(r) /\ work[r].seen \in alive
    /\ policy' = [policy EXCEPT ![work[r].seen] = NewList(r)]
    /\ UNCHANGED <<alive, enabled>>

PatchPolicy(r) ==
    /\ At(r, "write") /\ ~NothingToDo(r) /\ work[r].seen \in alive
    /\ NewList(r) # {}
    /\ policy' = [policy EXCEPT ![work[r].seen] = NewList(r)]
    /\ UNCHANGED <<alive, enabled>>

DeletePolicy(r) ==
    /\ At(r, "write") /\ ~NothingToDo(r) /\ work[r].seen \in alive
    /\ NewList(r) = {}
    /\ policy' = [policy EXCEPT ![work[r].seen] = {}]
    /\ alive' = alive \ {work[r].seen}
    /\ UNCHANGED enabled

SwitchAgent(r) ==
    /\ At(r, "switch")
    /\ enabled' = (req[r].action = "enable")
    /\ UNCHANGED <<policy, alive>>

GraphWrite(r) == PostPolicy(r) \/ PatchPolicy(r) \/ DeletePolicy(r) \/ SwitchAgent(r)

Written(r) ==
    /\ GraphWrite(r)
    /\ Move(r, "record")
    /\ UNCHANGED <<flag, disabledAt, req, web, history>>

\* request_json hears nothing of a write that was carried out, or a 5xx: it
\* sends it again, a POST like any other, until the retries are used up.
AnswerLost(r) ==
    /\ Fault("lost")
    /\ GraphWrite(r)
    /\ IF work[r].left > 0 THEN work' = [work EXCEPT ![r].left = @ - 1] ELSE Answer(r, FALSE)
    /\ disturbed' = (disturbed \/ (At(r, "write") /\ work[r].seen = NoPolicy))
    /\ Says(req[r].user, "none")
    /\ UNCHANGED <<flag, disabledAt, req, web>>

\* A GraphError, or the retries used up without effect: an answer of failure.
\* A policy that is gone is a 404, and a full tenant refuses another one.
Refused(r) ==
    /\ \/ Fault("graph") /\ work[r].pc \in {"find", "write", "switch"} /\ ~NothingToDo(r)
       \/ /\ At(r, "write") /\ ~NothingToDo(r)
          /\ IF work[r].seen = NoPolicy THEN FreshPolicies = {} ELSE work[r].seen \notin alive
    /\ Answer(r, FALSE)
    /\ UNCHANGED <<flag, entra, disabledAt, req, web, history>>

\* disabled_at is brought in line with Entra.
Register(r) ==
    disabledAt' = IF req[r].action \in AgentActions THEN req[r].action = "disable" ELSE disabledAt

\* The handler's last writes in Postgres: the registration, the audit event.
Record(r) ==
    /\ At(r, "record")
    /\ Register(r)
    /\ Answer(r, TRUE)
    /\ UNCHANGED <<flag, entra, req, web, disturbed>>
    /\ Says(req[r].user, req[r].action)

\* One of them fails, the first or the last, with Entra changed already.
RecordFails(r) ==
    /\ Fault("write")
    /\ At(r, "record")
    /\ Register(r) \/ UNCHANGED disabledAt
    /\ Answer(r, FALSE)
    /\ UNCHANGED <<flag, entra, req, web, history>>

WorkerStep(r) ==
    \/ Find(r) \/ AlreadySo(r) \/ Written(r) \/ AnswerLost(r) \/ Refused(r)
    \/ Record(r) \/ RecordFails(r)

-----------------------------------------------------------------------------

Next ==
    \E r \in Requests :
        \/ \E u \in Users, all \in BOOLEAN : RequestBlock(r, u, all) \/ RequestUnblock(r, u, all)
        \/ \E action \in AgentActions : RequestAgent(r, action)
        \/ WebStep(r)
        \/ WorkerStep(r)

Spec == Init /\ [][Next]_vars

-----------------------------------------------------------------------------

\* Variables hold what the code can store, a policy has users exactly when it
\* exists (unblock_user deletes a policy rather than empty it), and a thread
\* that works on something belongs to a request.
TypeOK ==
    /\ flag \in [Users -> BOOLEAN]
    /\ policy \in [Policies -> SUBSET Users]
    /\ alive = {p \in Policies : policy[p] # {}}
    /\ enabled \in BOOLEAN /\ disabledAt \in BOOLEAN
    /\ req \in [Requests -> [action : {"block", "unblock"} \cup AgentActions,
                             user : Users \cup {NoUser}, all : BOOLEAN]]
    /\ web \in [Requests -> {"idle", "patch", "log", "wait"}]
    /\ work \in [Requests -> [pc : {"idle", "find", "write", "switch", "record", "done"},
                              seen : Policies \cup {NoPolicy}, list : SUBSET Users,
                              left : 0..MaxRetries, ok : BOOLEAN]]
    /\ \A r \in Requests : Free(r) <=> req[r] = NoReq
    /\ promised \in [Users \cup {NoUser} -> {"none", "block", "unblock"} \cup AgentActions]
    /\ disturbed \in BOOLEAN

Blocked == UNION {policy[p] : p \in alive}

\* As long as no two worker threads overlapped and no POST was repeated, Entra
\* and the registration are what the worker last answered: a user it said was
\* blocked is in the agent's only policy, one it said was unblocked in none,
\* and the agent is disabled in both places or in neither.  Failures, retries
\* of PATCH and DELETE, timed out handlers and agent-scope requests for the
\* same user in between do not matter.
AnswersHold ==
    ~disturbed =>
        /\ Cardinality(alive) <= 1
        /\ \A u \in Users : /\ promised[u] = "block" => u \in Blocked
                            /\ promised[u] = "unblock" => u \notin Blocked
        /\ promised[NoUser] # "none" => enabled = (promised[NoUser] = "enable") /\ disabledAt # enabled

\* "Each agent gets at most one CA policy" (conditional_access.py:3).
OneCAPolicy == Cardinality(alive) <= 1
=============================================================================
