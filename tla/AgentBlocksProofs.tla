-------------------------- MODULE AgentBlocksProofs --------------------------
(***************************************************************************)
(* Proofs about AgentBlocks for any users, policies and requests, any      *)
(* number of retries and any faults: what the worker answered about a user *)
(* is so in Entra as long as its threads did not overlap.                  *)
(***************************************************************************)
EXTENDS AgentBlocks, FiniteSetTheorems, TLAPS

(***************************************************************************)
(* Types                                                                   *)
(*                                                                         *)
(* TypeOK is inductive together with what a handler and its thread know of *)
(* their request: who works on a policy works for a user, and whoever saw  *)
(* no policy starts from an empty list.                                    *)
(***************************************************************************)

ForUser(r) == req[r].action \in {"block", "unblock"} /\ req[r].user \in Users
ForAgent(r) == req[r].action \in AgentActions /\ req[r].user = NoUser

Req == [action : {"block", "unblock"} \cup AgentActions, user : Users \cup {NoUser}, all : BOOLEAN]
Work == [pc : {"idle", "find", "write", "switch", "record", "done"},
         seen : Policies \cup {NoPolicy}, list : SUBSET Users,
         left : 0..MaxRetries, ok : BOOLEAN]

\* What a request and its handler and thread may be, for one of them.
SlotFits(q, w, t) ==
    /\ q \in Req /\ t \in Work /\ w \in {"idle", "patch", "log", "wait"}
    /\ (w = "idle" /\ t.pc = "idle") <=> q = NoReq
    /\ \/ w = "idle" /\ t.pc = "idle"
       \/ q.action \in {"block", "unblock"} /\ q.user \in Users
       \/ q.action \in AgentActions /\ q.user = NoUser
    /\ w \in {"patch", "log"} => /\ q.action \in {"block", "unblock"} /\ q.user \in Users
                                 /\ t.pc = "idle"
    /\ w = "wait" => t.pc # "idle"
    /\ t.pc \in {"find", "write"} => q.action \in {"block", "unblock"} /\ q.user \in Users
    /\ t.pc = "switch" => q.action \in AgentActions /\ q.user = NoUser
    /\ t.seen = NoPolicy => t.list = {}

SlotsFit ==
    /\ req = [r \in Requests |-> req[r]]
    /\ web = [r \in Requests |-> web[r]]
    /\ work = [r \in Requests |-> work[r]]
    /\ \A r \in Requests : SlotFits(req[r], web[r], work[r])

StoreTypes ==
    /\ flag \in [Users -> BOOLEAN]
    /\ policy \in [Policies -> SUBSET Users]
    /\ alive = {p \in Policies : policy[p] # {}}
    /\ enabled \in BOOLEAN /\ disabledAt \in BOOLEAN

HistoryTypes ==
    /\ promised \in [Users \cup {NoUser} -> {"none", "block", "unblock"} \cup AgentActions]
    /\ disturbed \in BOOLEAN

\* TypeOK and what makes it inductive.
TypeInv == StoreTypes /\ HistoryTypes /\ SlotsFit

LEMMA TypesAreTypeOK == TypeInv => TypeOK
<1> SUFFICES ASSUME TypeInv PROVE TypeOK
  OBVIOUS
<1>1. \A r \in Requests : SlotFits(req[r], web[r], work[r])
  BY DEF TypeInv, SlotsFit
<1>2. /\ req \in [Requests -> Req] /\ work \in [Requests -> Work]
      /\ web \in [Requests -> {"idle", "patch", "log", "wait"}]
  BY <1>1 DEF SlotFits, TypeInv, SlotsFit
<1>3. \A r \in Requests : Free(r) <=> req[r] = NoReq
  BY <1>1 DEF SlotFits, Free
<1> QED BY <1>2, <1>3 DEF TypeInv, StoreTypes, HistoryTypes, TypeOK, Req, Work

\* A step that concerns one request.
OnlySlot(r, q, w, t) ==
    /\ req' = [req EXCEPT ![r] = q]
    /\ web' = [web EXCEPT ![r] = w]
    /\ work' = [work EXCEPT ![r] = t]

LEMMA OneSlot ==
    ASSUME SlotsFit, NEW r \in Requests, NEW q, NEW w, NEW t, OnlySlot(r, q, w, t)
    PROVE  /\ req'[r] = q /\ web'[r] = w /\ work'[r] = t
           /\ \A s \in Requests \ {r} : req'[s] = req[s] /\ web'[s] = web[s] /\ work'[s] = work[s]
           /\ SlotFits(q, w, t) => SlotsFit'
<1>1. /\ req'[r] = q /\ web'[r] = w /\ work'[r] = t
      /\ \A s \in Requests \ {r} : req'[s] = req[s] /\ web'[s] = web[s] /\ work'[s] = work[s]
  BY DEF SlotsFit, OnlySlot
<1>2. /\ req' = [s \in Requests |-> req'[s]]
      /\ web' = [s \in Requests |-> web'[s]]
      /\ work' = [s \in Requests |-> work'[s]]
  BY DEF SlotsFit, OnlySlot
<1>3. ASSUME SlotFits(q, w, t), NEW s \in Requests PROVE SlotFits(req'[s], web'[s], work'[s])
  BY <1>1, <1>3 DEF SlotsFit
<1> QED BY <1>1, <1>2, <1>3 DEF SlotsFit

LEMMA SameSlot ==
    ASSUME SlotsFit, NEW r \in Requests
    PROVE  /\ UNCHANGED req => req' = [req EXCEPT ![r] = req[r]]
           /\ UNCHANGED web => web' = [web EXCEPT ![r] = web[r]]
           /\ UNCHANGED work => work' = [work EXCEPT ![r] = work[r]]
           /\ SlotFits(req[r], web[r], work[r])
BY DEF SlotsFit

LEMMA EmptySlot == SlotFits(NoReq, "idle", NoWork)
BY BlocksAssumption DEF SlotFits, NoReq, NoWork, Req, Work

(***************************************************************************)
(* What a step makes of its request                                        *)
(*                                                                         *)
(* Silent steps start no thread and let one neither read nor write: the    *)
(* request's thread is what it was, or it is not at work.                  *)
(***************************************************************************)

Silent(r) ==
    \E q, w, t : /\ OnlySlot(r, q, w, t)
                 /\ SlotFits(q, w, t)
                 /\ t.pc \in {"idle", "done"} \/ (q = req[r] /\ t = work[r])

LEMMA FinishIsSilent ==
    ASSUME SlotsFit, NEW r \in Requests, Finish(r)
    PROVE  Silent(r)
<1>1. CASE work[r].pc \in {"idle", "done"}
  <2>1. OnlySlot(r, NoReq, "idle", NoWork)
    BY <1>1 DEF Finish, Go, OnlySlot
  <2>2. NoWork.pc = "idle"
    BY DEF NoWork
  <2> QED BY <2>1, <2>2, EmptySlot DEF Silent
<1>2. CASE work[r].pc \notin {"idle", "done"}
  <2>1. OnlySlot(r, req[r], "idle", work[r])
    BY <1>2, SameSlot DEF Finish, Go, OnlySlot
  <2>2. SlotFits(req[r], "idle", work[r])
    BY <1>2, SameSlot DEF SlotFits
  <2> QED BY <2>1, <2>2 DEF Silent
<1> QED BY <1>1, <1>2

LEMMA RequestBlockIsSilent ==
    ASSUME SlotsFit, NEW r \in Requests, NEW u \in Users, NEW all \in BOOLEAN,
           RequestBlock(r, u, all)
    PROVE  Silent(r)
<1> DEFINE q == [action |-> "block", user |-> u, all |-> all]
<1>1. OnlySlot(r, q, "patch", work[r])
  BY SameSlot DEF RequestBlock, Ask, Go, OnlySlot
<1>2. work[r].pc = "idle"
  BY DEF RequestBlock, Free
<1>3. q # NoReq
  BY BlocksAssumption DEF NoReq
<1>4. SlotFits(q, "patch", work[r])
  BY <1>2, <1>3, SameSlot DEF SlotFits, Req
<1> QED BY <1>1, <1>2, <1>4 DEF Silent

LEMMA PatchRowIsSilent ==
    ASSUME SlotsFit, NEW r \in Requests, PatchRow(r)
    PROVE  Silent(r)
<1>1. OnlySlot(r, req[r], "log", work[r])
  BY SameSlot DEF PatchRow, Go, OnlySlot
<1>2. SlotFits(req[r], "log", work[r])
  BY SameSlot DEF SlotFits, PatchRow
<1> QED BY <1>1, <1>2 DEF Silent

LEMMA HearWorkerIsSilent ==
    ASSUME SlotsFit, NEW r \in Requests, HearWorker(r)
    PROVE  Silent(r)
<1>1. CASE req[r].action = "unblock" /\ work[r].ok
  <2>1. OnlySlot(r, req[r], "patch", NoWork)
    BY <1>1, SameSlot DEF HearWorker, Go, OnlySlot
  <2>2. SlotFits(req[r], "patch", NoWork)
    BY <1>1, SameSlot, EmptySlot DEF SlotFits, HearWorker, AgentActions, NoWork
  <2>3. NoWork.pc = "idle"
    BY DEF NoWork
  <2> QED BY <2>1, <2>2, <2>3 DEF Silent
<1>2. CASE ~(req[r].action = "unblock" /\ work[r].ok)
  BY <1>2, FinishIsSilent DEF HearWorker
<1> QED BY <1>1, <1>2

LEMMA WebStepIsSilentOrCalls ==
    ASSUME SlotsFit, NEW r \in Requests, WebStep(r)
    PROVE  \/ Silent(r) /\ UNCHANGED <<entra, disabledAt, history>>
           \/ LogRevoke(r) /\ Call(r, "block", req[r].user)
BY FinishIsSilent, PatchRowIsSilent, HearWorkerIsSilent
DEF WebStep, PatchRow, LogRevoke, HearWorker, WebFails, TimeOut, Unheard

\* What one assignment makes of a thread.
LEMMA SetPc ==
    ASSUME NEW t \in Work, NEW x \in {"idle", "find", "write", "switch", "record", "done"}
    PROVE  LET s == [t EXCEPT !.pc = x] IN
           s \in Work /\ s.pc = x /\ s.seen = t.seen /\ s.list = t.list
BY DEF Work

LEMMA SetSeen ==
    ASSUME NEW t \in Work, NEW x \in Policies \cup {NoPolicy}
    PROVE  LET s == [t EXCEPT !.seen = x] IN
           s \in Work /\ s.pc = t.pc /\ s.seen = x /\ s.list = t.list
BY DEF Work

LEMMA SetList ==
    ASSUME NEW t \in Work, NEW x \in SUBSET Users
    PROVE  LET s == [t EXCEPT !.list = x] IN
           s \in Work /\ s.pc = t.pc /\ s.seen = t.seen /\ s.list = x
BY DEF Work

LEMMA SetLeft ==
    ASSUME NEW t \in Work, NEW x \in 0..MaxRetries
    PROVE  LET s == [t EXCEPT !.left = x] IN
           s \in Work /\ s.pc = t.pc /\ s.seen = t.seen /\ s.list = t.list
BY DEF Work

LEMMA SetOk ==
    ASSUME NEW t \in Work, NEW x \in BOOLEAN
    PROVE  LET s == [t EXCEPT !.ok = x] IN
           s \in Work /\ s.pc = t.pc /\ s.seen = t.seen /\ s.list = t.list
BY DEF Work

LEMMA NoWorkIsWork == NoWork \in Work /\ NoWork.seen = NoPolicy /\ NoWork.list = {}
BY BlocksAssumption DEF NoWork, Work

\* A thread that answers is not at work any more.
LEMMA AnswerIsSilent ==
    ASSUME SlotsFit, NEW r \in Requests, NEW ok \in BOOLEAN,
           work[r].pc # "idle", Answer(r, ok), UNCHANGED <<req, web>>
    PROVE  Silent(r)
<1> DEFINE t == [[NoWork EXCEPT !.pc = "done"] EXCEPT !.ok = ok]
<1>1. t \in Work /\ t.pc = "done" /\ t.seen = NoPolicy /\ t.list = {}
  <2> DEFINE s == [NoWork EXCEPT !.pc = "done"]
  <2>1. s \in Work /\ s.pc = "done" /\ s.seen = NoPolicy /\ s.list = {}
    BY NoWorkIsWork, SetPc
  <2>2. t = [s EXCEPT !.ok = ok]
    OBVIOUS
  <2> HIDE DEF s, t
  <2> QED BY <2>1, <2>2, SetOk
<1> HIDE DEF t
<1>2. OnlySlot(r, req[r], web[r], t)
  BY SameSlot DEF Answer, OnlySlot, t
<1>3. SlotFits(req[r], web[r], t)
  BY <1>1, SameSlot DEF SlotFits
<1> QED BY <1>1, <1>2, <1>3 DEF Silent

(***************************************************************************)
(* A call starts a thread, and a thread at work goes on                    *)
(***************************************************************************)

Started(action) ==
    [NoWork EXCEPT !.pc = IF action \in AgentActions THEN "switch" ELSE "find",
                   !.left = MaxRetries]

LEMMA StartedWork ==
    ASSUME NEW action
    PROVE  /\ Started(action) \in Work
           /\ Started(action).pc = IF action \in AgentActions THEN "switch" ELSE "find"
           /\ Started(action).seen = NoPolicy /\ Started(action).list = {}
<1>1. ASSUME NEW place \in {"find", "switch"}
      PROVE  LET s == [[NoWork EXCEPT !.pc = place] EXCEPT !.left = MaxRetries] IN
             s \in Work /\ s.pc = place /\ s.seen = NoPolicy /\ s.list = {}
  <2> DEFINE s == [NoWork EXCEPT !.pc = place]
  <2>1. s \in Work /\ s.pc = place /\ s.seen = NoPolicy /\ s.list = {}
    BY NoWorkIsWork DEF Work
  <2> HIDE DEF s
  <2>2. MaxRetries \in 0..MaxRetries
    BY BlocksAssumption
  <2>3. LET t == [s EXCEPT !.left = MaxRetries] IN
        t \in Work /\ t.pc = place /\ t.seen = NoPolicy /\ t.list = {}
    BY <2>1, <2>2, SetLeft
  <2> QED BY <2>3 DEF s
<1>2. CASE action \in AgentActions
  BY <1>1, <1>2 DEF Started
<1>3. CASE action \notin AgentActions
  BY <1>1, <1>3 DEF Started
<1> QED BY <1>2, <1>3

\* The request asks for the action, its handler waits and its thread starts.
Calls(r, action, u) ==
    \E q, w : /\ OnlySlot(r, q, w, Started(action))
              /\ SlotFits(q, w, Started(action))
              /\ q.user = u

LEMMA CallStarts ==
    ASSUME NEW r \in Requests, NEW action, NEW u, Call(r, action, u)
    PROVE  work' = [work EXCEPT ![r] = Started(action)]
BY DEF Call, Started

LEMMA RequestUnblockCalls ==
    ASSUME SlotsFit, NEW r \in Requests, NEW u \in Users, NEW all \in BOOLEAN,
           RequestUnblock(r, u, all)
    PROVE  \/ Silent(r) /\ UNCHANGED <<entra, disabledAt, history>>
           \/ Calls(r, "unblock", u) /\ Call(r, "unblock", u) /\ UNCHANGED <<entra, disabledAt>>
<1> DEFINE q == [action |-> "unblock", user |-> u, all |-> all]
<1>1. q \in Req /\ q # NoReq /\ q.user = u
  BY BlocksAssumption DEF NoReq, Req
<1>2. CASE all
  <2>1. Call(r, "unblock", u)
    BY <1>2 DEF RequestUnblock
  <2>2. OnlySlot(r, q, "wait", Started("unblock"))
    BY <1>2, <2>1, CallStarts DEF RequestUnblock, Ask, Go, OnlySlot
  <2>3. SlotFits(q, "wait", Started("unblock"))
    BY <1>1, StartedWork DEF SlotFits, AgentActions
  <2> QED BY <1>1, <2>1, <2>2, <2>3 DEF Calls, RequestUnblock
<1>3. CASE ~all
  <2>1. OnlySlot(r, q, "patch", work[r])
    BY <1>3, SameSlot DEF RequestUnblock, Ask, Go, OnlySlot
  <2>2. work[r].pc = "idle"
    BY DEF RequestUnblock, Free
  <2>3. SlotFits(q, "patch", work[r])
    BY <1>1, <2>2, SameSlot DEF SlotFits
  <2> QED BY <1>3, <2>1, <2>2, <2>3 DEF Silent, RequestUnblock
<1> QED BY <1>2, <1>3

LEMMA RequestAgentCalls ==
    ASSUME NEW r \in Requests, NEW action \in AgentActions, RequestAgent(r, action)
    PROVE  Calls(r, action, NoUser) /\ Call(r, action, NoUser) /\ UNCHANGED <<entra, disabledAt>>
<1> DEFINE q == [action |-> action, user |-> NoUser, all |-> FALSE]
<1>1. q \in Req /\ q # NoReq /\ q.user = NoUser
  BY DEF NoReq, Req, AgentActions
<1>2. OnlySlot(r, q, "wait", Started(action))
  BY CallStarts DEF RequestAgent, Ask, Go, OnlySlot
<1>3. SlotFits(q, "wait", Started(action))
  BY <1>1, StartedWork DEF SlotFits
<1> QED BY <1>1, <1>2, <1>3 DEF Calls, RequestAgent

LEMMA LogRevokeCalls ==
    ASSUME SlotsFit, NEW r \in Requests, LogRevoke(r), Call(r, "block", req[r].user)
    PROVE  Calls(r, "block", req[r].user) /\ UNCHANGED <<entra, disabledAt>>
<1>1. SlotFits(req[r], web[r], work[r]) /\ web[r] = "log" /\ work[r].pc = "idle"
  BY SameSlot DEF LogRevoke, SlotFits
<1>2. Started("block").pc = "find"
  BY StartedWork DEF AgentActions
<1>3. req[r].action = "block" /\ req[r].all
  <2>1. SUFFICES ASSUME Finish(r) PROVE FALSE
    BY DEF LogRevoke
  <2>2. work'[r] = Started("block") /\ work'[r] = NoWork
    BY <1>1, <2>1, CallStarts DEF Finish, SlotsFit
  <2> QED BY <1>2, <2>2 DEF NoWork
<1>4. OnlySlot(r, req[r], "wait", Started("block"))
  BY <1>3, CallStarts, SameSlot DEF LogRevoke, Go, OnlySlot
<1>5. SlotFits(req[r], "wait", Started("block"))
  BY <1>1, <1>2, StartedWork DEF SlotFits, AgentActions
<1> QED BY <1>4, <1>5 DEF Calls, LogRevoke

\* A step of a thread, which does not concern its handler.
LEMMA ThreadStep ==
    ASSUME SlotsFit, NEW r \in Requests, work[r].pc # "idle",
           NEW t \in Work, t.pc # "idle",
           t.pc \in {"find", "write"} => ForUser(r),
           t.pc = "switch" => ForAgent(r),
           t.seen = NoPolicy => t.list = {},
           work' = [work EXCEPT ![r] = t], UNCHANGED <<req, web>>
    PROVE  /\ SlotsFit' /\ work'[r] = t
           /\ \A s \in Requests \ {r} : work'[s] = work[s]
<1>1. SlotFits(req[r], web[r], t)
  BY SameSlot DEF SlotFits, ForUser, ForAgent
<1>2. OnlySlot(r, req[r], web[r], t)
  BY SameSlot DEF OnlySlot
<1> QED BY <1>1, <1>2, OneSlot

LEMMA SlotKnows ==
    ASSUME SlotsFit, NEW r \in Requests
    PROVE  /\ req[r] \in Req /\ work[r] \in Work
           /\ work[r].pc \in {"find", "write"} => ForUser(r)
           /\ work[r].pc = "switch" => ForAgent(r)
           /\ work[r].pc # "idle" => ForUser(r) \/ ForAgent(r)
           /\ work[r].seen = NoPolicy => work[r].list = {}
BY DEF SlotsFit, SlotFits, ForUser, ForAgent

LEMMA FindStep ==
    ASSUME TypeInv, NEW r \in Requests, Find(r)
    PROVE  /\ SlotsFit' /\ ForUser(r)
           /\ \A s \in Requests \ {r} : work'[s] = work[s]
           /\ work'[r].pc = "write"
           /\ \/ work'[r].seen \in alive /\ work'[r].list = policy[work'[r].seen]
              \/ alive = {} /\ work'[r].seen = NoPolicy /\ work'[r].list = {}
<1>1. SlotsFit /\ StoreTypes
  BY DEF TypeInv
<1>2. work[r] \in Work /\ work[r].pc = "find" /\ ForUser(r) /\ UNCHANGED <<req, web>>
  BY <1>1, SlotKnows DEF Find, At
<1>3. PICK p \in IF alive = {} THEN {NoPolicy} ELSE alive :
        work' = [work EXCEPT ![r].pc = "write", ![r].seen = p,
                             ![r].list = IF p = NoPolicy THEN {} ELSE policy[p]]
  BY DEF Find
<1> DEFINE found == IF p = NoPolicy THEN {} ELSE policy[p]
           s == [work[r] EXCEPT !.pc = "write"]
           t == [s EXCEPT !.seen = p]
           w == [t EXCEPT !.list = found]
<1>4. work' = [work EXCEPT ![r] = w]
  <2>1. work' = [work EXCEPT ![r].pc = "write", ![r].seen = p, ![r].list = found]
    BY <1>3
  <2> HIDE DEF found
  <2>2. work = [x \in Requests |-> work[x]]
    BY <1>1 DEF SlotsFit
  <2> QED BY <2>1, <2>2
<1>5. p \in Policies \cup {NoPolicy} /\ found \in SUBSET Users /\ (p = NoPolicy => found = {})
  BY <1>1 DEF StoreTypes
<1>6. s \in Work /\ s.pc = "write"
  BY <1>2, SetPc
<1> HIDE DEF s
<1>7. t \in Work /\ t.pc = "write" /\ t.seen = p
  BY <1>5, <1>6, SetSeen
<1> HIDE DEF t, found
<1>8. w \in Work /\ w.pc = "write" /\ w.seen = p /\ w.list = found
  BY <1>5, <1>7, SetList
<1> HIDE DEF w
<1>9. SlotsFit' /\ work'[r] = w /\ \A x \in Requests \ {r} : work'[x] = work[x]
  BY <1>1, <1>2, <1>4, <1>5, <1>8, ThreadStep
<1>10. \/ p \in alive /\ found = policy[p]
       \/ alive = {} /\ p = NoPolicy /\ found = {}
  BY <1>1, BlocksAssumption DEF StoreTypes, found
<1> QED BY <1>2, <1>8, <1>9, <1>10

\* The thread goes on to its last writes in Postgres.
LEMMA MoveStep ==
    ASSUME SlotsFit, NEW r \in Requests, work[r].pc # "idle", Move(r, "record"),
           UNCHANGED <<req, web>>
    PROVE  /\ SlotsFit' /\ work'[r].pc = "record"
           /\ \A s \in Requests \ {r} : work'[s] = work[s]
<1> DEFINE t == [work[r] EXCEPT !.pc = "record"]
<1>1. work[r] \in Work /\ (work[r].seen = NoPolicy => work[r].list = {})
  BY SlotKnows
<1>2. t \in Work /\ t.pc = "record" /\ t.seen = work[r].seen /\ t.list = work[r].list
  BY <1>1, SetPc
<1>3. work' = [work EXCEPT ![r] = t]
  BY DEF Move, SlotsFit
<1> HIDE DEF t
<1> QED BY <1>1, <1>2, <1>3, ThreadStep

\* It sends the write again, with what it has.
LEMMA RetryStep ==
    ASSUME SlotsFit, NEW r \in Requests, work[r].pc # "idle", work[r].left > 0,
           work' = [work EXCEPT ![r].left = @ - 1], UNCHANGED <<req, web>>
    PROVE  /\ SlotsFit'
           /\ work'[r].pc = work[r].pc /\ work'[r].seen = work[r].seen
           /\ work'[r].list = work[r].list
           /\ \A s \in Requests \ {r} : work'[s] = work[s]
<1> DEFINE t == [work[r] EXCEPT !.left = work[r].left - 1]
<1>1. /\ work[r] \in Work /\ (work[r].seen = NoPolicy => work[r].list = {})
      /\ work[r].pc \in {"find", "write"} => ForUser(r)
      /\ work[r].pc = "switch" => ForAgent(r)
  BY SlotKnows
<1>2. work[r].left - 1 \in 0..MaxRetries
  BY <1>1, BlocksAssumption DEF Work
<1>3. /\ t \in Work /\ t.pc = work[r].pc /\ t.seen = work[r].seen /\ t.list = work[r].list
  BY <1>1, <1>2, SetLeft
<1>4. work' = [work EXCEPT ![r] = t]
  BY DEF SlotsFit
<1> HIDE DEF t
<1>5. /\ t.pc # "idle" /\ (t.seen = NoPolicy => t.list = {})
      /\ t.pc \in {"find", "write"} => ForUser(r)
      /\ t.pc = "switch" => ForAgent(r)
  BY <1>1, <1>3
<1>6. SlotsFit' /\ work'[r] = t /\ \A s \in Requests \ {r} : work'[s] = work[s]
  BY <1>3, <1>4, <1>5, ThreadStep
<1> QED BY <1>3, <1>6

(***************************************************************************)
(* The type invariant is inductive                                         *)
(***************************************************************************)

LEMMA SilentSlots ==
    ASSUME SlotsFit, NEW r \in Requests, Silent(r)
    PROVE  /\ SlotsFit'
           /\ \A s \in Busy' : s \in Busy /\ req'[s] = req[s] /\ work'[s] = work[s]
<1>1. PICK q, w, t : /\ OnlySlot(r, q, w, t) /\ SlotFits(q, w, t)
                     /\ t.pc \in {"idle", "done"} \/ (q = req[r] /\ t = work[r])
  BY DEF Silent
<1>2. /\ SlotsFit' /\ req'[r] = q /\ work'[r] = t
      /\ \A s \in Requests \ {r} : req'[s] = req[s] /\ work'[s] = work[s]
  BY <1>1, OneSlot
<1> QED BY <1>1, <1>2 DEF Busy

LEMMA CallSlots ==
    ASSUME SlotsFit, NEW r \in Requests, NEW action, NEW u, Calls(r, action, u)
    PROVE  /\ SlotsFit' /\ req'[r].user = u /\ work'[r] = Started(action)
           /\ \A s \in Requests \ {r} : req'[s] = req[s] /\ work'[s] = work[s]
BY OneSlot DEF Calls

LEMMA SaysTypes ==
    ASSUME HistoryTypes, disturbed' \in BOOLEAN, NEW u \in Users \cup {NoUser},
           NEW what \in {"none", "block", "unblock"} \cup AgentActions, Says(u, what)
    PROVE  HistoryTypes'
BY DEF HistoryTypes, Says, NoPromise

LEMMA CallTypes ==
    ASSUME HistoryTypes, NEW r \in Requests, NEW action, NEW u \in Users \cup {NoUser},
           Call(r, action, u)
    PROVE  HistoryTypes'
BY SaysTypes DEF Call, HistoryTypes

LEMMA InitTypes == Init => TypeInv
<1> SUFFICES ASSUME Init PROVE TypeInv
  OBVIOUS
<1>1. StoreTypes
  BY DEF Init, StoreTypes
<1>2. HistoryTypes
  BY DEF Init, HistoryTypes, NoPromise
<1>3. SlotsFit
  BY EmptySlot DEF Init, SlotsFit
<1> QED BY <1>1, <1>2, <1>3 DEF TypeInv

LEMMA NewListIsUsers ==
    ASSUME SlotsFit, NEW r \in Requests, work[r].pc = "write"
    PROVE  /\ NewList(r) \subseteq Users
           /\ work[r].list \subseteq Users
           /\ req[r].action = "block" => NewList(r) = work[r].list \cup {req[r].user}
           /\ req[r].action # "block" => NewList(r) = work[r].list \ {req[r].user}
BY SlotKnows DEF NewList, ForUser, Work

\* A policy that is written has users, one that is deleted has none.
LEMMA GraphWriteTypes ==
    ASSUME StoreTypes, SlotsFit, NEW r \in Requests, GraphWrite(r), UNCHANGED <<flag, disabledAt>>
    PROVE  StoreTypes'
<1>1. CASE PostPolicy(r)
  <2>1. work[r].pc = "write" /\ work[r].list = {} /\ NewList(r) # {} /\ NewList(r) \subseteq Users
    BY <1>1, SlotKnows, NewListIsUsers DEF PostPolicy, At, NothingToDo
  <2>2. PICK p \in FreshPolicies : policy' = [policy EXCEPT ![p] = NewList(r)] /\ alive' = alive \cup {p}
    BY <1>1 DEF PostPolicy
  <2>3. p \in Policies
    BY DEF FreshPolicies
  <2> QED BY <1>1, <2>1, <2>2, <2>3 DEF StoreTypes, PostPolicy
<1>2. CASE PatchPolicy(r)
  <2>1. NewList(r) # {} /\ NewList(r) \subseteq Users /\ work[r].seen \in alive
    BY <1>2, NewListIsUsers DEF PatchPolicy, At
  <2>2. policy' = [policy EXCEPT ![work[r].seen] = NewList(r)] /\ UNCHANGED <<alive, enabled>>
    BY <1>2 DEF PatchPolicy
  <2> QED BY <2>1, <2>2 DEF StoreTypes
<1>3. CASE DeletePolicy(r)
  BY <1>3 DEF DeletePolicy, StoreTypes
<1>4. CASE SwitchAgent(r)
  BY <1>4 DEF SwitchAgent, StoreTypes
<1> QED BY <1>1, <1>2, <1>3, <1>4 DEF GraphWrite

LEMMA GraphWriteAt ==
    ASSUME NEW r \in Requests, GraphWrite(r)
    PROVE  work[r].pc \in {"write", "switch"}
BY DEF GraphWrite, PostPolicy, PatchPolicy, DeletePolicy, SwitchAgent, At

LEMMA WebTypes ==
    ASSUME TypeInv, NEW r \in Requests, WebStep(r)
    PROVE  TypeInv'
<1>1. StoreTypes /\ HistoryTypes /\ SlotsFit
  BY DEF TypeInv
<1>2. req[r].user \in Users \cup {NoUser}
  BY <1>1, SlotKnows DEF Req
<1>3. SlotsFit' /\ HistoryTypes' /\ UNCHANGED <<entra, disabledAt>>
  <2>1. CASE Silent(r) /\ UNCHANGED <<entra, disabledAt, history>>
    BY <1>1, <2>1, SilentSlots DEF HistoryTypes, history
  <2>2. CASE LogRevoke(r) /\ Call(r, "block", req[r].user)
    BY <1>1, <1>2, <2>2, LogRevokeCalls, CallSlots, CallTypes
  <2> QED BY <1>1, <2>1, <2>2, WebStepIsSilentOrCalls
<1>4. flag' \in [Users -> BOOLEAN]
  BY <1>1 DEF StoreTypes, WebStep, PatchRow, LogRevoke, HearWorker, WebFails, TimeOut, Unheard
<1>5. StoreTypes'
  BY <1>1, <1>3, <1>4 DEF StoreTypes, entra
<1> QED BY <1>3, <1>5 DEF TypeInv

LEMMA RequestTypes ==
    ASSUME TypeInv, NEW r \in Requests,
           \/ \E u \in Users, all \in BOOLEAN : RequestBlock(r, u, all) \/ RequestUnblock(r, u, all)
           \/ \E action \in AgentActions : RequestAgent(r, action)
    PROVE  TypeInv'
<1>1. StoreTypes /\ HistoryTypes /\ SlotsFit
  BY DEF TypeInv
<1>2. SlotsFit' /\ HistoryTypes' /\ UNCHANGED <<flag, entra, disabledAt>>
  <2>1. ASSUME NEW u \in Users, NEW all \in BOOLEAN, RequestBlock(r, u, all)
        PROVE  SlotsFit' /\ HistoryTypes' /\ UNCHANGED <<flag, entra, disabledAt>>
    BY <1>1, <2>1, RequestBlockIsSilent, SilentSlots DEF RequestBlock, HistoryTypes, history
  <2>2. ASSUME NEW u \in Users, NEW all \in BOOLEAN, RequestUnblock(r, u, all)
        PROVE  SlotsFit' /\ HistoryTypes' /\ UNCHANGED <<flag, entra, disabledAt>>
    <3>1. UNCHANGED <<flag, entra, disabledAt>>
      BY <2>2 DEF RequestUnblock
    <3>2. CASE Silent(r) /\ UNCHANGED history
      BY <1>1, <3>1, <3>2, SilentSlots DEF HistoryTypes, history
    <3>3. CASE Calls(r, "unblock", u) /\ Call(r, "unblock", u)
      BY <1>1, <3>1, <3>3, CallSlots, CallTypes
    <3> QED BY <1>1, <2>2, <3>2, <3>3, RequestUnblockCalls
  <2>3. ASSUME NEW action \in AgentActions, RequestAgent(r, action)
        PROVE  SlotsFit' /\ HistoryTypes' /\ UNCHANGED <<flag, entra, disabledAt>>
    BY <1>1, <2>3, RequestAgentCalls, CallSlots, CallTypes DEF RequestAgent
  <2> QED BY <2>1, <2>2, <2>3
<1>3. StoreTypes'
  BY <1>1, <1>2 DEF StoreTypes, entra
<1> QED BY <1>2, <1>3 DEF TypeInv

LEMMA WorkerTypes ==
    ASSUME TypeInv, NEW r \in Requests, WorkerStep(r)
    PROVE  TypeInv'
<1>1. StoreTypes /\ HistoryTypes /\ SlotsFit
  BY DEF TypeInv
<1>2. req[r].user \in Users \cup {NoUser} /\ req[r].action \in {"block", "unblock"} \cup AgentActions
  BY <1>1, SlotKnows DEF Req
<1>3. CASE Find(r)
  <2>1. StoreTypes' /\ HistoryTypes'
    BY <1>1, <1>3 DEF Find, StoreTypes, HistoryTypes, entra, history
  <2> QED BY <1>3, <2>1, FindStep DEF TypeInv
<1>4. CASE AlreadySo(r)
  <2>1. StoreTypes' /\ HistoryTypes'
    BY <1>1, <1>4 DEF AlreadySo, StoreTypes, HistoryTypes, entra, history
  <2>2. SlotsFit'
    BY <1>1, <1>4, MoveStep DEF AlreadySo, NothingToDo, At
  <2> QED BY <2>1, <2>2 DEF TypeInv
<1>5. CASE Written(r)
  <2>1. StoreTypes' /\ HistoryTypes'
    BY <1>1, <1>5, GraphWriteTypes DEF Written, HistoryTypes, history
  <2>2. SlotsFit'
    BY <1>1, <1>5, MoveStep, GraphWriteAt DEF Written
  <2> QED BY <2>1, <2>2 DEF TypeInv
<1>6. CASE AnswerLost(r)
  <2>1. StoreTypes'
    BY <1>1, <1>6, GraphWriteTypes DEF AnswerLost
  <2>2. HistoryTypes'
    BY <1>1, <1>2, <1>6, SaysTypes DEF AnswerLost, HistoryTypes
  <2>3. SlotsFit'
    <3>1. work[r].pc # "idle" /\ UNCHANGED <<req, web>>
      BY <1>6, GraphWriteAt DEF AnswerLost
    <3>2. CASE work[r].left > 0
      BY <1>1, <1>6, <3>1, <3>2, RetryStep DEF AnswerLost
    <3>3. CASE ~(work[r].left > 0)
      BY <1>1, <1>6, <3>1, <3>3, AnswerIsSilent, SilentSlots DEF AnswerLost
    <3> QED BY <3>2, <3>3
  <2> QED BY <2>1, <2>2, <2>3 DEF TypeInv
<1>7. CASE Refused(r)
  <2>1. StoreTypes' /\ HistoryTypes'
    BY <1>1, <1>7 DEF Refused, StoreTypes, HistoryTypes, entra, history
  <2>2. SlotsFit'
    BY <1>1, <1>7, AnswerIsSilent, SilentSlots DEF Refused, At
  <2> QED BY <2>1, <2>2 DEF TypeInv
<1>8. CASE Record(r)
  <2>1. StoreTypes'
    BY <1>1, <1>8 DEF Record, Register, StoreTypes, entra
  <2>2. HistoryTypes'
    BY <1>1, <1>2, <1>8, SaysTypes DEF Record, HistoryTypes
  <2>3. SlotsFit'
    BY <1>1, <1>8, AnswerIsSilent, SilentSlots DEF Record, At
  <2> QED BY <2>1, <2>2, <2>3 DEF TypeInv
<1>9. CASE RecordFails(r)
  <2>1. StoreTypes' /\ HistoryTypes'
    BY <1>1, <1>9 DEF RecordFails, Register, StoreTypes, HistoryTypes, entra, history
  <2>2. SlotsFit'
    BY <1>1, <1>9, AnswerIsSilent, SilentSlots DEF RecordFails, At
  <2> QED BY <2>1, <2>2 DEF TypeInv
<1> QED BY <1>3, <1>4, <1>5, <1>6, <1>7, <1>8, <1>9 DEF WorkerStep

LEMMA NextTypes == TypeInv /\ [Next]_vars => TypeInv'
<1> SUFFICES ASSUME TypeInv, [Next]_vars PROVE TypeInv'
  OBVIOUS
<1>1. CASE UNCHANGED vars
  BY <1>1
  DEF TypeInv, vars, entra, history, StoreTypes, HistoryTypes, SlotsFit
<1>2. CASE Next
  BY <1>2, RequestTypes, WebTypes, WorkerTypes DEF Next
<1> QED BY <1>1, <1>2

\* The variables hold what the code can store, a policy has users exactly
\* when it exists, and a thread at work belongs to a request.
THEOREM BlocksTypeCorrect == Spec => []TypeOK
<1> QED BY TypesAreTypeOK, InitTypes, NextTypes, PTL DEF Spec

(***************************************************************************)
(* Answers hold                                                            *)
(*                                                                         *)
(* AnswersHold says nothing of a thread at work, so it is not inductive.   *)
(* Undisturbed, there is one such thread and it knows the only policy: at  *)
(* "write" the policy is what it read, or, sent again, what it wrote, and  *)
(* at "record" Entra is what the request asked for.  What was promised     *)
(* about its user was taken back when it started.                          *)
(***************************************************************************)

\* What is so in Entra once a request is carried out.
CarriedOut(q) ==
    /\ q.action = "block" => q.user \in Blocked
    /\ q.action = "unblock" => q.user \notin Blocked
    /\ q.action \in AgentActions => enabled = (q.action = "enable")

KnowsPolicy(r) ==
    LET p == work[r].seen IN
    /\ alive \subseteq {p}
    /\ p \in alive => policy[p] \in {work[r].list, NewList(r)}
    /\ p \notin alive /\ p # NoPolicy => NewList(r) = {}

Underway(r) ==
    /\ promised[req[r].user] = "none"
    /\ work[r].pc = "write" => KnowsPolicy(r)
    /\ work[r].pc = "record" => CarriedOut(req[r])

OnePolicy == \A p, q \in alive : p = q
OneThread == \A r, s \in Busy : r = s

PromisesHold ==
    /\ \A u \in Users : /\ promised[u] = "block" => u \in Blocked
                        /\ promised[u] = "unblock" => u \notin Blocked
    /\ promised[NoUser] # "none" => enabled = (promised[NoUser] = "enable") /\ disabledAt # enabled

BlocksInv ==
    ~disturbed => /\ OnePolicy /\ OneThread /\ PromisesHold
                  /\ \A r \in Busy : Underway(r)

LEMMA BlocksInvAnswers == TypeInv /\ BlocksInv => AnswersHold
<1> SUFFICES ASSUME TypeInv, BlocksInv, ~disturbed PROVE AnswersHold
  BY DEF AnswersHold
<1>1. OnePolicy /\ PromisesHold
  BY DEF BlocksInv
<1>2. Cardinality(alive) <= 1
  <2>1. CASE alive = {}
    BY <2>1, FS_EmptySet
  <2>2. CASE alive # {}
    <3>1. PICK p \in alive : TRUE
      BY <2>2
    <3>2. alive = {p}
      BY <1>1, <3>1 DEF OnePolicy
    <3>3. Cardinality({p}) = 1
      BY FS_Singleton
    <3> QED BY <3>2, <3>3
  <2> QED BY <2>1, <2>2
<1> QED BY <1>1, <1>2 DEF AnswersHold, PromisesHold

LEMMA InitBlocks == Init => BlocksInv
BY DEF Init, BlocksInv, OnePolicy, OneThread, PromisesHold, Busy, NoWork, NoPromise

\* Who is blocked, with one policy or none.
LEMMA BlockedByOne ==
    /\ alive = {} => Blocked = {}
    /\ \A p : alive = {p} => Blocked = policy[p]
BY DEF Blocked

\* At "write", who is blocked is whom the thread read, or whom it writes.
LEMMA BlockedAtWrite ==
    ASSUME TypeInv, NEW r \in Requests, work[r].pc = "write", KnowsPolicy(r)
    PROVE  Blocked \in {work[r].list, NewList(r)}
<1>1. work[r].seen = NoPolicy => work[r].list = {}
  BY SlotKnows DEF TypeInv
<1>2. CASE work[r].seen \in alive
  <2>1. alive = {work[r].seen}
    BY <1>2 DEF KnowsPolicy
  <2> QED BY <1>2, <2>1, BlockedByOne DEF KnowsPolicy
<1>3. CASE work[r].seen \notin alive
  <2>1. alive = {}
    BY <1>3 DEF KnowsPolicy
  <2> QED BY <1>1, <1>3, <2>1, BlockedByOne DEF KnowsPolicy
<1> QED BY <1>2, <1>3

\* A write blocks whom it lists, in one policy or none.
LEMMA WriteBlocks ==
    ASSUME TypeInv, NEW r \in Requests, work[r].pc = "write", GraphWrite(r), KnowsPolicy(r)
    PROVE  /\ UNCHANGED enabled /\ OnePolicy' /\ Blocked' = NewList(r)
           /\ work[r].seen # NoPolicy =>
                /\ alive' \subseteq {work[r].seen}
                /\ work[r].seen \in alive' => policy'[work[r].seen] = NewList(r)
                /\ work[r].seen \notin alive' => NewList(r) = {}
<1>1. StoreTypes /\ SlotsFit
  BY DEF TypeInv
<1>2. CASE PostPolicy(r)
  <2>1. work[r].seen = NoPolicy
    BY <1>2 DEF PostPolicy
  <2>2. PICK p \in FreshPolicies : policy' = [policy EXCEPT ![p] = NewList(r)] /\ alive' = alive \cup {p}
    BY <1>2 DEF PostPolicy
  <2>3. p \in Policies
    BY DEF FreshPolicies
  <2>4. alive = {}
    BY <1>1, <2>1, BlocksAssumption DEF KnowsPolicy, StoreTypes
  <2>5. alive' = {p} /\ policy'[p] = NewList(r)
    BY <1>1, <2>2, <2>3, <2>4 DEF StoreTypes
  <2>6. Blocked' = NewList(r)
    BY <2>5 DEF Blocked
  <2> QED BY <1>2, <2>1, <2>5, <2>6 DEF PostPolicy, OnePolicy
<1>3. CASE PatchPolicy(r)
  <2>1. work[r].seen \in alive /\ alive = {work[r].seen}
    BY <1>3 DEF PatchPolicy, KnowsPolicy
  <2>2. alive' = {work[r].seen} /\ policy'[work[r].seen] = NewList(r)
    BY <1>1, <1>3, <2>1 DEF PatchPolicy, StoreTypes
  <2>3. Blocked' = NewList(r)
    BY <2>2 DEF Blocked
  <2> QED BY <1>3, <2>2, <2>3 DEF PatchPolicy, OnePolicy
<1>4. CASE DeletePolicy(r)
  <2>1. work[r].seen \in alive /\ alive = {work[r].seen} /\ NewList(r) = {}
    BY <1>4 DEF DeletePolicy, KnowsPolicy
  <2>2. alive' = {}
    BY <1>4, <2>1 DEF DeletePolicy
  <2>3. Blocked' = NewList(r)
    BY <2>1, <2>2 DEF Blocked
  <2> QED BY <1>4, <2>1, <2>2, <2>3 DEF DeletePolicy, OnePolicy
<1>5. CASE SwitchAgent(r)
  BY <1>5 DEF SwitchAgent, At
<1> QED BY <1>2, <1>3, <1>4, <1>5 DEF GraphWrite

\* Taking back a promise that was not made changes nothing.
LEMMA NothingToTakeBack ==
    ASSUME HistoryTypes, NEW u \in Users \cup {NoUser}, promised[u] = "none",
           Says(u, "none"), ~disturbed'
    PROVE  promised' = promised
BY DEF Says, HistoryTypes

\* A write changes nothing for the users it is not about.
LEMMA WriteKeepsPromises ==
    ASSUME TypeInv, PromisesHold, NEW r \in Requests, GraphWrite(r), Underway(r),
           UNCHANGED <<promised, disabledAt>>
    PROVE  PromisesHold'
<1>1. SlotsFit /\ HistoryTypes
  BY DEF TypeInv
<1>2. CASE work[r].pc = "write"
  <2>1. Blocked \in {work[r].list, NewList(r)} /\ Blocked' = NewList(r) /\ UNCHANGED enabled
    BY <1>2, BlockedAtWrite, WriteBlocks DEF Underway
  <2>2. \A u : u # req[r].user => (u \in NewList(r) <=> u \in work[r].list)
    BY <1>1, <1>2, NewListIsUsers
  <2>3. \A u : u # req[r].user => (u \in Blocked' <=> u \in Blocked)
    BY <2>1, <2>2
  <2> QED BY <2>1, <2>3 DEF PromisesHold, Underway
<1>3. CASE work[r].pc = "switch"
  <2>1. ForAgent(r)
    BY <1>1, <1>3, SlotKnows
  <2>2. UNCHANGED <<policy, alive>>
    BY <1>3 DEF GraphWrite, PostPolicy, PatchPolicy, DeletePolicy, SwitchAgent, At
  <2>3. Blocked' = Blocked
    BY <2>2 DEF Blocked
  <2> QED BY <2>1, <2>3 DEF PromisesHold, Underway, ForAgent
<1> QED BY <1>2, <1>3, GraphWriteAt

LEMMA SilentBlocks ==
    ASSUME SlotsFit, BlocksInv, NEW r \in Requests, Silent(r), UNCHANGED <<entra, history>>,
           UNCHANGED disabledAt \/ (~disturbed => promised[NoUser] = "none")
    PROVE  BlocksInv'
<1> SUFFICES ASSUME ~disturbed' PROVE OnePolicy' /\ OneThread' /\ PromisesHold'
                                      /\ \A s \in Busy' : Underway(s)'
  BY DEF BlocksInv
<1>1. UNCHANGED <<policy, alive, enabled, promised, disturbed>>
  BY DEF entra, history
<1>2. OnePolicy /\ OneThread /\ PromisesHold /\ \A s \in Busy : Underway(s)
  BY <1>1 DEF BlocksInv
<1>3. \A s \in Busy' : s \in Busy /\ req'[s] = req[s] /\ work'[s] = work[s]
  BY SilentSlots
<1>4. Blocked' = Blocked
  BY <1>1 DEF Blocked
<1>5. ASSUME NEW s \in Busy' PROVE Underway(s)'
  <2>1. NewList(s)' = NewList(s)
    BY <1>3 DEF NewList
  <2>2. KnowsPolicy(s) => KnowsPolicy(s)'
    BY <1>1, <1>3, <2>1 DEF KnowsPolicy
  <2>3. CarriedOut(req[s]) => CarriedOut(req[s])'
    BY <1>1, <1>3, <1>4 DEF CarriedOut
  <2> QED BY <1>1, <1>2, <1>3, <2>2, <2>3 DEF Underway
<1>6. PromisesHold'
  BY <1>1, <1>2, <1>4 DEF PromisesHold
<1> QED BY <1>1, <1>2, <1>3, <1>5, <1>6 DEF OnePolicy, OneThread

LEMMA CallBlocks ==
    ASSUME TypeInv, BlocksInv, NEW r \in Requests, NEW action, NEW u \in Users \cup {NoUser},
           Calls(r, action, u), Call(r, action, u), UNCHANGED <<entra, disabledAt>>
    PROVE  BlocksInv'
<1> SUFFICES ASSUME ~disturbed' PROVE OnePolicy' /\ OneThread' /\ PromisesHold'
                                      /\ \A s \in Busy' : Underway(s)'
  BY DEF BlocksInv
<1>1. SlotsFit /\ HistoryTypes
  BY DEF TypeInv
<1>2. ~disturbed /\ Busy = {} /\ promised' = [promised EXCEPT ![u] = "none"]
  BY DEF Call, Says
<1>3. UNCHANGED <<policy, alive, enabled, disabledAt>>
  BY DEF entra
<1>4. OnePolicy /\ PromisesHold
  BY <1>2 DEF BlocksInv
<1>5. /\ req'[r].user = u /\ work'[r] = Started(action)
      /\ \A s \in Requests \ {r} : work'[s] = work[s]
  BY <1>1, CallSlots
<1>6. Busy' \subseteq {r}
  BY <1>2, <1>5 DEF Busy
<1>7. Underway(r)'
  BY <1>1, <1>2, <1>5, StartedWork DEF Underway, HistoryTypes
<1>8. PromisesHold'
  <2>1. Blocked' = Blocked
    BY <1>3 DEF Blocked
  <2>2. \A x \in Users \cup {NoUser} : promised'[x] \in {"none", promised[x]}
    BY <1>1, <1>2 DEF HistoryTypes
  <2> QED BY <1>3, <1>4, <2>1, <2>2 DEF PromisesHold
<1> QED BY <1>3, <1>4, <1>6, <1>7, <1>8 DEF OnePolicy, OneThread

\* The only thread at work goes on.
LEMMA ThreadBlocks ==
    ASSUME BlocksInv, NEW r \in Busy, ~disturbed' => ~disturbed,
           \A s \in Requests \ {r} : work'[s] = work[s],
           ~disturbed' => OnePolicy' /\ PromisesHold' /\ (r \in Busy' => Underway(r)')
    PROVE  BlocksInv'
<1> SUFFICES ASSUME ~disturbed' PROVE OneThread' /\ \A s \in Busy' : Underway(s)'
  BY DEF BlocksInv
<1>1. Busy = {r}
  BY DEF BlocksInv, OneThread
<1>2. Busy' \subseteq {r}
  BY <1>1 DEF Busy
<1> QED BY <1>2 DEF OneThread

LEMMA WorkerBlocks ==
    ASSUME TypeInv, BlocksInv, NEW r \in Requests, WorkerStep(r)
    PROVE  BlocksInv'
<1>1. SlotsFit /\ HistoryTypes /\ StoreTypes
  BY DEF TypeInv
<1>2. req[r].user \in Users \cup {NoUser} /\ req[r].action \in {"block", "unblock"} \cup AgentActions
  BY <1>1, SlotKnows DEF Req
<1>3. ~disturbed /\ r \in Busy => OnePolicy /\ PromisesHold /\ Underway(r)
  BY DEF BlocksInv
<1>4. CASE Find(r)
  <2>1. r \in Busy /\ UNCHANGED <<policy, alive, enabled, disabledAt, promised, disturbed, req>>
    BY <1>4 DEF Find, At, Busy, entra, history
  <2>2. /\ \A s \in Requests \ {r} : work'[s] = work[s]
        /\ work'[r].pc = "write"
        /\ \/ work'[r].seen \in alive /\ work'[r].list = policy[work'[r].seen]
           \/ alive = {} /\ work'[r].seen = NoPolicy /\ work'[r].list = {}
    BY <1>4, FindStep
  <2>3. ASSUME ~disturbed' PROVE OnePolicy' /\ PromisesHold' /\ Underway(r)'
    <3>1. OnePolicy /\ PromisesHold /\ Underway(r)
      BY <1>3, <2>1, <2>3
    <3>2. Blocked' = Blocked
      BY <2>1 DEF Blocked
    <3>3. OnePolicy' /\ PromisesHold'
      BY <2>1, <3>1, <3>2 DEF OnePolicy, PromisesHold
    <3>4. KnowsPolicy(r)'
      BY <2>1, <2>2, <3>1 DEF KnowsPolicy, OnePolicy
    <3> QED BY <2>1, <2>2, <3>1, <3>3, <3>4 DEF Underway
  <2> QED BY <2>1, <2>2, <2>3, ThreadBlocks
<1>5. CASE AlreadySo(r)
  <2>1. /\ r \in Busy /\ work[r].pc = "write" /\ NewList(r) = work[r].list
        /\ UNCHANGED <<policy, alive, enabled, disabledAt, promised, disturbed, req, web>>
    BY <1>5 DEF AlreadySo, NothingToDo, At, Busy, entra, history
  <2>2. work'[r].pc = "record" /\ \A s \in Requests \ {r} : work'[s] = work[s]
    BY <1>1, <1>5, <2>1, MoveStep DEF AlreadySo
  <2>3. ASSUME ~disturbed' PROVE OnePolicy' /\ PromisesHold' /\ Underway(r)'
    <3>1. OnePolicy /\ PromisesHold /\ Underway(r)
      BY <1>3, <2>1, <2>3
    <3>2. Blocked' = NewList(r) /\ Blocked' = Blocked
      <4>1. Blocked = NewList(r)
        BY <2>1, <3>1, BlockedAtWrite DEF Underway
      <4>2. Blocked' = Blocked
        BY <2>1 DEF Blocked
      <4> QED BY <4>1, <4>2
    <3>3. OnePolicy' /\ PromisesHold'
      BY <2>1, <3>1, <3>2 DEF OnePolicy, PromisesHold
    <3>4. CarriedOut(req[r])'
      BY <1>1, <2>1, <3>2, NewListIsUsers, SlotKnows DEF CarriedOut, ForUser, AgentActions
    <3> QED BY <2>1, <2>2, <3>1, <3>3, <3>4 DEF Underway
  <2> QED BY <2>1, <2>2, <2>3, ThreadBlocks
<1>6. CASE Written(r)
  <2>1. r \in Busy /\ GraphWrite(r) /\ UNCHANGED <<disabledAt, promised, disturbed, req, web>>
    BY <1>6, GraphWriteAt DEF Written, Busy, history
  <2>2. work'[r].pc = "record" /\ \A s \in Requests \ {r} : work'[s] = work[s]
    BY <1>1, <1>6, <2>1, MoveStep DEF Written, Busy
  <2>3. ASSUME ~disturbed' PROVE OnePolicy' /\ PromisesHold' /\ Underway(r)'
    <3>1. OnePolicy /\ PromisesHold /\ Underway(r)
      BY <1>3, <2>1, <2>3
    <3>2. PromisesHold'
      BY <2>1, <3>1, WriteKeepsPromises
    <3>3. OnePolicy' /\ CarriedOut(req[r])'
      <4>1. CASE work[r].pc = "write"
        <5>1. OnePolicy' /\ Blocked' = NewList(r)
          BY <2>1, <3>1, <4>1, WriteBlocks DEF Underway
        <5> QED BY <1>1, <2>1, <4>1, <5>1, NewListIsUsers, SlotKnows
                DEF CarriedOut, ForUser, AgentActions
      <4>2. CASE work[r].pc = "switch"
        <5>1. ForAgent(r)
          BY <1>1, <4>2, SlotKnows
        <5>2. UNCHANGED alive /\ enabled' = (req[r].action = "enable")
          BY <2>1, <4>2 DEF GraphWrite, PostPolicy, PatchPolicy, DeletePolicy, SwitchAgent, At
        <5> QED BY <2>1, <3>1, <5>1, <5>2 DEF CarriedOut, OnePolicy, ForAgent, AgentActions
      <4> QED BY <2>1, <4>1, <4>2, GraphWriteAt
    <3> QED BY <2>1, <2>2, <3>1, <3>2, <3>3 DEF Underway
  <2> QED BY <2>1, <2>2, <2>3, ThreadBlocks
<1>7. CASE AnswerLost(r)
  <2>1. /\ r \in Busy /\ GraphWrite(r) /\ UNCHANGED <<disabledAt, req, web>>
        /\ ~disturbed' => ~disturbed /\ ~(work[r].pc = "write" /\ work[r].seen = NoPolicy)
    BY <1>7, GraphWriteAt DEF AnswerLost, Busy, At
  <2>2. /\ \A s \in Requests \ {r} : work'[s] = work[s]
        /\ \/ work'[r].pc = "done"
           \/ /\ work'[r].pc = work[r].pc
              /\ work'[r].seen = work[r].seen /\ work'[r].list = work[r].list
    <3>1. work[r].pc # "idle"
      BY <2>1, GraphWriteAt
    <3>2. CASE work[r].left > 0
      BY <1>1, <1>7, <2>1, <3>1, <3>2, RetryStep DEF AnswerLost
    <3>3. CASE ~(work[r].left > 0)
      <4>1. work' = [work EXCEPT ![r] = [[NoWork EXCEPT !.pc = "done"] EXCEPT !.ok = FALSE]]
        BY <1>7, <3>3 DEF AnswerLost, Answer
      <4>2. [[NoWork EXCEPT !.pc = "done"] EXCEPT !.ok = FALSE].pc = "done"
        BY DEF NoWork
      <4> QED BY <1>1, <4>1, <4>2 DEF SlotsFit
    <3> QED BY <3>2, <3>3
  <2>3. ASSUME ~disturbed' PROVE OnePolicy' /\ PromisesHold' /\ (r \in Busy' => Underway(r)')
    <3>1. OnePolicy /\ PromisesHold /\ Underway(r)
      BY <1>3, <2>1, <2>3
    <3>2. promised' = promised
      BY <1>1, <1>2, <1>7, <2>3, <3>1, NothingToTakeBack DEF AnswerLost, Underway
    <3>3. PromisesHold'
      BY <2>1, <3>1, <3>2, WriteKeepsPromises
    <3>4. CASE work[r].pc = "write"
      <4>1. /\ OnePolicy' /\ alive' \subseteq {work[r].seen}
            /\ work[r].seen \in alive' => policy'[work[r].seen] = NewList(r)
            /\ work[r].seen \notin alive' => NewList(r) = {}
        BY <2>1, <2>3, <3>1, <3>4, WriteBlocks DEF Underway
      <4>2. CASE work'[r].pc = "done"
        BY <3>3, <4>1, <4>2 DEF Busy
      <4>3. CASE /\ work'[r].pc = work[r].pc
                 /\ work'[r].seen = work[r].seen /\ work'[r].list = work[r].list
        <5>1. NewList(r)' = NewList(r)
          BY <2>1, <4>3 DEF NewList
        <5>2. KnowsPolicy(r)'
          BY <4>1, <4>3, <5>1 DEF KnowsPolicy
        <5> QED BY <2>1, <3>1, <3>2, <3>3, <3>4, <4>1, <4>3, <5>2 DEF Underway
      <4> QED BY <2>2, <4>2, <4>3
    <3>5. CASE work[r].pc = "switch"
      <4>1. UNCHANGED alive
        BY <2>1, <3>5 DEF GraphWrite, PostPolicy, PatchPolicy, DeletePolicy, SwitchAgent, At
      <4>2. r \in Busy' => work'[r].pc = "switch"
        BY <2>2, <3>5 DEF Busy
      <4> QED BY <2>1, <3>1, <3>2, <3>3, <4>1, <4>2 DEF OnePolicy, Underway
    <3> QED BY <2>1, <3>4, <3>5, GraphWriteAt
  <2> QED BY <2>1, <2>2, <2>3, ThreadBlocks
<1>8. CASE Refused(r)
  <2>1. UNCHANGED <<entra, history, disabledAt>>
    BY <1>8 DEF Refused
  <2>2. Silent(r)
    BY <1>1, <1>8, AnswerIsSilent DEF Refused, At
  <2> QED BY <1>1, <2>1, <2>2, SilentBlocks
<1>9. CASE Record(r)
  <2>1. /\ r \in Busy /\ work[r].pc = "record"
        /\ UNCHANGED <<policy, alive, enabled, disturbed, req>>
    BY <1>9 DEF Record, At, Busy, entra
  <2>2. \A s \in Requests \ {r} : work'[s] = work[s]
    BY <1>9 DEF Record, Answer
  <2>3. r \notin Busy'
    <3>1. Silent(r)
      BY <1>1, <1>9, AnswerIsSilent DEF Record, At
    <3>2. r \in Busy' => work'[r] = work[r]
      BY <1>1, <3>1, SilentSlots
    <3>3. work'[r] = [[NoWork EXCEPT !.pc = "done"] EXCEPT !.ok = TRUE]
      BY <1>1, <1>9 DEF Record, Answer, SlotsFit
    <3>4. [[NoWork EXCEPT !.pc = "done"] EXCEPT !.ok = TRUE].pc = "done"
      BY DEF NoWork
    <3> QED BY <3>3, <3>4 DEF Busy
  <2>4. ASSUME ~disturbed' PROVE OnePolicy' /\ PromisesHold'
    <3>1. OnePolicy /\ PromisesHold /\ CarriedOut(req[r])
      BY <1>3, <2>1, <2>4 DEF Underway
    <3>2. promised' = [promised EXCEPT ![req[r].user] = req[r].action]
      BY <1>9, <2>4 DEF Record, Says
    <3>3. Blocked' = Blocked
      BY <2>1 DEF Blocked
    <3>4. CASE ForUser(r)
      <4>1. disabledAt' = disabledAt
        BY <1>9, <3>4 DEF Record, Register, ForUser, AgentActions
      <4> QED BY <1>1, <2>1, <3>1, <3>2, <3>3, <3>4, <4>1, BlocksAssumption
              DEF OnePolicy, PromisesHold, CarriedOut, ForUser, HistoryTypes
    <3>5. CASE ForAgent(r)
      <4>1. disabledAt' = (req[r].action = "disable")
        BY <1>9, <3>5 DEF Record, Register, ForAgent
      <4> QED BY <1>1, <2>1, <3>1, <3>2, <3>3, <3>5, <4>1, BlocksAssumption
              DEF OnePolicy, PromisesHold, CarriedOut, ForAgent, HistoryTypes, AgentActions
    <3> QED BY <1>1, <2>1, <3>4, <3>5, SlotKnows
  <2> QED BY <2>1, <2>2, <2>3, <2>4, ThreadBlocks
<1>10. CASE RecordFails(r)
  <2>1. r \in Busy /\ work[r].pc = "record" /\ UNCHANGED <<entra, history>>
    BY <1>10 DEF RecordFails, At, Busy
  <2>2. Silent(r)
    BY <1>1, <1>10, <2>1, AnswerIsSilent DEF RecordFails
  <2>3. UNCHANGED disabledAt \/ req[r].action \in AgentActions
    BY <1>10 DEF RecordFails, Register
  <2>4. req[r].action \in AgentActions /\ ~disturbed => promised[NoUser] = "none"
    BY <1>1, <1>3, <2>1, SlotKnows DEF Underway, ForUser, ForAgent, AgentActions
  <2> QED BY <1>1, <2>1, <2>2, <2>3, <2>4, SilentBlocks
<1> QED BY <1>4, <1>5, <1>6, <1>7, <1>8, <1>9, <1>10 DEF WorkerStep

LEMMA RequestBlocks ==
    ASSUME TypeInv, BlocksInv, NEW r \in Requests,
           \/ \E u \in Users, all \in BOOLEAN : RequestBlock(r, u, all) \/ RequestUnblock(r, u, all)
           \/ \E action \in AgentActions : RequestAgent(r, action)
    PROVE  BlocksInv'
<1>1. SlotsFit
  BY DEF TypeInv
<1>2. ASSUME NEW u \in Users, NEW all \in BOOLEAN, RequestBlock(r, u, all) PROVE BlocksInv'
  BY <1>1, <1>2, RequestBlockIsSilent, SilentBlocks DEF RequestBlock
<1>3. ASSUME NEW u \in Users, NEW all \in BOOLEAN, RequestUnblock(r, u, all) PROVE BlocksInv'
  BY <1>1, <1>3, RequestUnblockCalls, SilentBlocks, CallBlocks
<1>4. ASSUME NEW action \in AgentActions, RequestAgent(r, action) PROVE BlocksInv'
  BY <1>1, <1>4, RequestAgentCalls, CallBlocks
<1> QED BY <1>2, <1>3, <1>4

LEMMA WebBlocks ==
    ASSUME TypeInv, BlocksInv, NEW r \in Requests, WebStep(r)
    PROVE  BlocksInv'
<1>1. SlotsFit /\ req[r].user \in Users \cup {NoUser}
  BY SlotKnows DEF TypeInv, Req
<1>2. CASE Silent(r) /\ UNCHANGED <<entra, disabledAt, history>>
  BY <1>1, <1>2, SilentBlocks
<1>3. CASE LogRevoke(r) /\ Call(r, "block", req[r].user)
  BY <1>1, <1>3, LogRevokeCalls, CallBlocks
<1> QED BY <1>1, <1>2, <1>3, WebStepIsSilentOrCalls

LEMMA NextBlocks == TypeInv /\ BlocksInv /\ [Next]_vars => BlocksInv'
<1> SUFFICES ASSUME TypeInv, BlocksInv, [Next]_vars PROVE BlocksInv'
  OBVIOUS
<1>1. CASE UNCHANGED vars
  <2>1. Blocked' = Blocked /\ Busy' = Busy /\ \A r : NewList(r)' = NewList(r)
    BY <1>1 DEF vars, entra, Blocked, Busy, NewList
  <2>2. \A r : Underway(r) => Underway(r)'
    BY <1>1, <2>1 DEF vars, entra, history, Underway, KnowsPolicy, CarriedOut
  <2>3. /\ OnePolicy => OnePolicy'
        /\ OneThread => OneThread'
        /\ PromisesHold => PromisesHold'
        /\ disturbed' = disturbed
    BY <1>1, <2>1 DEF vars, entra, history, OnePolicy, OneThread, PromisesHold
  <2> QED BY <2>1, <2>2, <2>3 DEF BlocksInv
<1>2. CASE Next
  BY <1>2, RequestBlocks, WebBlocks, WorkerBlocks DEF Next
<1> QED BY <1>1, <1>2

\* As long as no two worker threads overlapped and no POST was repeated,
\* Entra and the registration are what the worker last answered, whatever
\* else fails, is retried, times out or is asked for in between.
THEOREM AnswersAreKept == Spec => []AnswersHold
<1>1. TypeInv /\ BlocksInv /\ [Next]_vars => (TypeInv /\ BlocksInv)'
  BY NextTypes, NextBlocks
<1> QED BY <1>1, InitTypes, InitBlocks, BlocksInvAnswers, PTL DEF Spec
=============================================================================
