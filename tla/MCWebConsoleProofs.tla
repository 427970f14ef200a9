--------------------------- MODULE MCWebConsoleProofs ---------------------------
(***************************************************************************)
(* Proofs about the pages of the web app, each in the names of its own     *)
(* variables: Stream (FeatureStream), Agents (AgentConsole), JobPages      *)
(* (JobConsole) and Revoke (PermissionRevoke).  A behaviour's subject      *)
(* stays the same, and its steps are the page's.                           *)
(***************************************************************************)
EXTENDS MCWebConsole, Sequences, FiniteSetTheorems, TLAPS

(***************************************************************************)
(* The stream of feature flags: the inductive invariant                    *)
(***************************************************************************)

StreamConstantsFit == MaxCommits \in Nat /\ MaxFaults \in Nat /\ MaxOpens \in Nat

Casts == [step : {"no", "flags", "license"}, flags : Stream!Counts, stale : BOOLEAN]
Streams == [at : {"closed", "subscribing", "flags", "license", "open"},
            flags : Stream!Counts, queue : Seq(Stream!Payloads)]

ProcessTypes ==
    /\ flags \in Stream!Counts /\ license \in Stream!Counts
    /\ starting \in {"no", "env", "ending", "connecting"}
    /\ listener \in {"none", "new", "listening", "dead"}
    /\ ending \in 0 .. MaxFaults /\ faults \in 0 .. MaxFaults /\ ending <= faults
    /\ opens \in 0 .. MaxOpens
    /\ timer \in BOOLEAN /\ inbox \in BOOLEAN /\ again \in BOOLEAN

BrowserTypes ==
    /\ page \in [Pages -> Streams] /\ shown \in [Pages -> Stream!Payloads]
    /\ lost \subseteq Pages

\* A broadcast that is under way; it has read the flags as they are, unless it is
\* to read again or a notification was lost since it began.
CastInv ==
    /\ cast \in Casts
    /\ cast.step = "no" => cast = Stream!Idle
    /\ cast.step = "license" /\ ~cast.stale => cast.flags = flags \/ inbox \/ again

\* The present state is still to be broadcast.
Pending ==
    inbox \/ cast.step = "flags" \/ (cast.step = "license" /\ (again \/ cast.flags = flags))

\* What a stream has, or gets with its snapshot, is the present state.
Latest(r) ==
    /\ r.at = "license" /\ r.queue = <<>> => r.flags = flags
    /\ r.at # "open" /\ r.queue # <<>> => r.queue[Len(r.queue)] = Stream!Now

PageFits(p) ==
    page[p].at # "closed" /\ p \notin lost /\ ~Pending =>
        Latest(page[p]) /\ (page[p].at = "open" => shown[p] = Stream!Now)

StreamInv == ProcessTypes /\ BrowserTypes /\ CastInv /\ \A p \in Pages : PageFits(p)

(***************************************************************************)
(* The agents' console: the inductive invariant                            *)
(***************************************************************************)

AgentsConstantsFit ==
    /\ MaxActions \in Nat /\ MaxTroubles \in Nat
    /\ Nobody \notin Pairs \cup Bots \cup Ops /\ Pairs \cap Bots = {}

RowSends == {"block", "unblock"}
RowAnswers == {"blocked", "unblocked"}
BotSends == {"quarantine", "unquarantine"}

Modals == {Agents!NoAction} \cup [what : RowSends, pair : Pairs] \cup [what : BotSends, pair : Bots]
RowActions == {Agents!NoAction} \cup [what : RowSends \cup RowAnswers \cup {"fetch"}, pair : Pairs]
BotActions == {Agents!NoAction} \cup [what : BotSends \cup {"answered", "fetch"}, pair : Bots]
Fetches == Ops \cup {Nobody}

CounterTypes ==
    /\ modal \in Modals
    /\ actions \in 0 .. MaxActions /\ troubles \in 0 .. MaxTroubles
    /\ unsure \subseteq Pairs \cup Bots

RowTypes ==
    /\ dv \in [Pairs -> Agents!Flags] /\ shownRows \in [Pairs -> Agents!Flags]
    /\ rowsLoad \in Agents!Loads([Pairs -> Agents!Flags], Pairs)
    /\ action \in RowActions /\ submitting \in BOOLEAN

BotTypes ==
    /\ isolated \subseteq Bots /\ shownBots \in {Agents!Unloaded} \cup SUBSET Bots
    /\ botLoad \in [Fetches -> Agents!Loads(SUBSET Bots, Bots)]
    /\ botAction \in [Ops -> BotActions]
    /\ submittingBot \in Bots \cup {Nobody} /\ overlapped \in BOOLEAN

\* One action on the assignments is under way at most, and only its fetch or that
\* of the page, before which there is nothing to act on.
RowControl ==
    /\ submitting <=> action # Agents!NoAction
    /\ submitting => modal.what \notin RowSends
    /\ action.what = "fetch" => rowsLoad # Agents!Ended
    /\ rowsLoad # Agents!Ended =>
          \/ action.what = "fetch"
          \/ /\ action = Agents!NoAction /\ modal.what \notin RowSends
             /\ \A p \in Pairs : shownRows[p] = "hidden"

\* The rows of the page are still to come for the first time.
FirstLoad == rowsLoad # Agents!Ended /\ action = Agents!NoAction

\* An assignment that nobody else has changed is shown as it is, but for the one
\* whose action was carried out and not answered yet; and what was read is current
\* for assignments that were not changed since.
RowFits(p) ==
    /\ p \notin unsure /\ ~FirstLoad =>
          IF action.what \in RowAnswers /\ action.pair = p
          THEN /\ shownRows[p] # "hidden"
               /\ dv[p] = IF action.what = "blocked" THEN "blocked" ELSE "free"
          ELSE shownRows[p] = dv[p]
    /\ rowsLoad.at = "read" /\ p \notin rowsLoad.since => rowsLoad.value[p] = dv[p]

\* Quarantine actions begin when the bots were loaded, and each has its fetch.
BotControl ==
    /\ shownBots = Agents!Unloaded =>
          /\ modal.what \notin BotSends
          /\ \A o \in Ops : botAction[o] = Agents!NoAction
    /\ shownBots # Agents!Unloaded => botLoad[Nobody] = Agents!Ended
    /\ \A o \in Ops : botLoad[o] # Agents!Ended <=> botAction[o].what = "fetch"
    /\ ~overlapped =>
          \A o, other \in Ops :
              botAction[o] # Agents!NoAction /\ botAction[other] # Agents!NoAction => o = other

\* The same of a bot, as long as no two quarantine actions overlapped.
Answering(b) == \E o \in Ops : botAction[o].what = "answered" /\ botAction[o].pair = b
BotFits(b) ==
    /\ b \notin unsure /\ shownBots # Agents!Unloaded /\ ~Answering(b) =>
          (b \in shownBots <=> b \in isolated)
    /\ \A f \in Fetches :
          botLoad[f].at = "read" /\ b \notin botLoad[f].since =>
              (b \in botLoad[f].value <=> b \in isolated)

AgentsInv ==
    /\ CounterTypes /\ RowTypes /\ BotTypes /\ RowControl /\ BotControl
    /\ \A p \in Pairs : RowFits(p)
    /\ ~overlapped => \A b \in Bots : BotFits(b)

(***************************************************************************)
(* The job console: the inductive invariant                                *)
(***************************************************************************)

JobsConstantsFit ==
    /\ MaxEvents \in Nat /\ MaxPolls \in Nat /\ Failed \notin BOOLEAN
    /\ None \notin {"posted", "halfway", "written", "tab", "runNow", "pause", "resume"}

Forms == {JobPages!NoForm} \cup [op : JobPages!FormOps, job : Jobs, phase : JobPages!Phases]
Answered == {None, "tab", "pause", "resume"}

JobTypes ==
    /\ job \in [Jobs -> JobPages!JobRows] /\ licensed \in BOOLEAN /\ dbUp \in BOOLEAN
    /\ form \in [JobPages!Slots -> Forms] /\ told \in [Jobs -> Answered]
    /\ left \subseteq Jobs /\ events \in 0 .. MaxEvents

ShownTypes ==
    /\ page \in JobPages!PageKinds \cup {"error"}
    /\ shown.readOnly \in BOOLEAN /\ shown.db \in BOOLEAN \cup {None} /\ shown.error \in BOOLEAN
    /\ shown = [rows |-> shown.rows, readOnly |-> shown.readOnly, db |-> shown.db,
                error |-> shown.error]
    /\ page # "overview" => shown.db = None

PollTypes ==
    /\ IsFiniteSet(polls) /\ Cardinality(polls) <= MaxPolls
    /\ \A r \in polls :
          /\ page \in JobPages!Live /\ r = [part \in JobPages!Parts(page) |-> r[part]]
          /\ page = "overview" => r["health"] \in BOOLEAN \cup {Unread}

\* Only a resume is ever half done, and a run-now form writes nothing.
PhaseFits(s) ==
    /\ form[s].phase = "halfway" => form[s].op = "resume"
    /\ form[s].phase = "written" => form[s].op \in {"pause", "resume"}

\* A job that is left disabled under an enabled schedule is known to be, or a
\* resume is half done.
Half(s, j) == form[s].phase = "halfway" /\ form[s].job = j
Stuck(j) == job[j].schedule = "enabled" /\ ~job[j].enabled
StuckIsKnown(j) == Stuck(j) => j \in left \/ \E s \in JobPages!Slots : Half(s, j)

\* What was answered of a job holds, and so does what the form in the tab has
\* written of it and is not answered yet.
PauseHolds(j) == job[j].schedule = "paused"
ResumeHolds(j) == job[j].schedule = "enabled" /\ job[j].enabled
Said(j) ==
    /\ told[j] = "pause" => PauseHolds(j)
    /\ told[j] = "resume" => ResumeHolds(j)
    /\ told[j] = "tab" =>
          /\ form["tab"].job = j
          /\ \/ form["tab"].op = "pause" /\ form["tab"].phase = "written" /\ PauseHolds(j)
             \/ form["tab"].op = "resume" /\ form["tab"].phase = "written" /\ ResumeHolds(j)
             \/ /\ form["tab"].op = "resume" /\ form["tab"].phase = "halfway"
                /\ job[j].schedule = "enabled"

FormInv ==
    /\ \A s \in JobPages!Slots : PhaseFits(s)
    /\ \A j \in Jobs : StuckIsKnown(j) /\ Said(j)

JobsInv == JobTypes /\ ShownTypes /\ PollTypes /\ FormInv

(***************************************************************************)
(* The revocation: the inductive invariant                                 *)
(***************************************************************************)

RevokeConstantsFit == MaxClicks \in Nat /\ MaxFaults \in Nat

GraphTypes ==
    /\ kind \in [Permissions -> Kinds] /\ holds \in [Principals -> SUBSET Permissions]
    /\ remote \subseteq Permissions /\ listed \subseteq Permissions
    /\ rows \subseteq Permissions /\ recent \in BOOLEAN
    /\ scan = {} \/ \E S \in SUBSET Permissions : scan = {S}
    /\ revokeLog \subseteq Permissions \X {"success", "failed"}
    /\ request \in [Revoke!Deletions -> Revoke!Stages \cup Revoke!Results]
    /\ faults \in 0 .. MaxFaults

PageTypes ==
    /\ view \subseteq Permissions /\ refreshing \in BOOLEAN
    /\ step \in [Revoke!Buttons -> {"idle", "deleting", "checking"}]
    /\ targets \in [Revoke!Buttons -> SUBSET Permissions]
    /\ status \in [Revoke!Buttons -> {"none", "success", "partial", "failed", "sync-delay"}]
    /\ clicks \in 0 .. MaxClicks

RevokeInv == GraphTypes /\ PageTypes

(***************************************************************************)
(* The stream: types                                                       *)
(***************************************************************************)

LEMMA IdleIs ==
    /\ Stream!Idle.step = "no" /\ Stream!Idle.flags = 0 /\ ~Stream!Idle.stale
    /\ [Stream!Idle EXCEPT !.step = "flags"].step = "flags"
    /\ ~[Stream!Idle EXCEPT !.step = "flags"].stale
BY DEF Stream!Idle

LEMMA ClosedIs ==
    ASSUME StreamConstantsFit
    PROVE  /\ Stream!Idle \in Casts /\ [Stream!Idle EXCEPT !.step = "flags"] \in Casts
           /\ Stream!Closed \in Streams /\ Stream!Closed.at = "closed"
           /\ [Stream!Closed EXCEPT !.at = "subscribing"] \in Streams
           /\ [Stream!Closed EXCEPT !.at = "open"] \in Streams
<1>1. 0 \in Stream!Counts
  BY DEF StreamConstantsFit, Stream!Counts
<1>2. <<>> \in Seq(Stream!Payloads)
  OBVIOUS
<1> QED BY <1>1, <1>2 DEF Stream!Idle, Stream!Closed, Casts, Streams

\* Losing a notification changes a broadcast only by marking it.
LEMMA LoseIs ==
    ASSUME cast \in Casts, lost \subseteq Pages, Stream!Lose
    PROVE  /\ cast' \in Casts /\ cast'.step = cast.step /\ cast'.flags = cast.flags
           /\ cast' = Stream!Idle \/ cast'.stale
           /\ cast = Stream!Idle => cast' = Stream!Idle
           /\ lost' = lost \cup Stream!Subscribers
<1>1. lost' = lost \cup Stream!Subscribers /\ cast' = [cast EXCEPT !.stale = (cast # Stream!Idle)]
  BY DEF Stream!Lose
<1>2. cast' \in Casts /\ cast'.step = cast.step /\ cast'.flags = cast.flags
      /\ cast'.stale = (cast # Stream!Idle)
  BY <1>1 DEF Casts
<1>3. ASSUME cast = Stream!Idle PROVE cast' = Stream!Idle
  <2>1. cast' = [Stream!Idle EXCEPT !.stale = FALSE]
    BY <1>1, <1>3
  <2> QED BY <2>1 DEF Stream!Idle
<1> QED BY <1>1, <1>2, <1>3

\* Either the present state is to be broadcast still, or no notification was lost.
LEMMA NotifyIs ==
    ASSUME CastInv, ProcessTypes, BrowserTypes, Stream!Notify
    PROVE  /\ inbox' \in BOOLEAN /\ cast' \in Casts /\ lost' \subseteq Pages
           /\ cast'.step = "no" => cast' = Stream!Idle
           /\ cast'.step = "license" => cast'.stale \/ inbox'
           /\ \A p \in Pages : page[p].at # "closed" /\ p \notin lost' => inbox'
<1>1. CASE listener = "listening"
  BY <1>1 DEF Stream!Notify, CastInv, ProcessTypes, BrowserTypes
<1>2. CASE listener # "listening"
  <2>1. Stream!Lose /\ inbox' = inbox
    BY <1>2 DEF Stream!Notify
  <2>2. /\ cast' \in Casts /\ cast'.step = cast.step
        /\ cast' = Stream!Idle \/ cast'.stale
        /\ cast = Stream!Idle => cast' = Stream!Idle
        /\ lost' = lost \cup Stream!Subscribers
    BY <2>1, LoseIs DEF CastInv, BrowserTypes
  <2>3. cast'.step = "license" => cast'.stale
    BY <2>2, IdleIs
  <2> QED BY <2>1, <2>2, <2>3 DEF CastInv, ProcessTypes, BrowserTypes, Stream!Subscribers
<1> QED BY <1>1, <1>2

LEMMA DisconnectIs ==
    ASSUME CastInv, ProcessTypes, BrowserTypes, Stream!Disconnect, UNCHANGED <<flags, again>>
    PROVE  /\ CastInv' /\ lost' \subseteq Pages /\ lost \subseteq lost'
           /\ timer' = FALSE /\ listener' = "none" /\ inbox' = FALSE
           /\ \A p \in Pages : page[p].at # "closed" /\ p \notin lost' => (Pending => Pending')
<1>1. timer' = FALSE /\ listener' = "none" /\ inbox' = FALSE
  BY DEF Stream!Disconnect
<1>2. CASE inbox
  <2>1. Stream!Lose
    BY <1>2 DEF Stream!Disconnect
  <2>2. /\ cast' \in Casts /\ cast'.step = cast.step
        /\ cast' = Stream!Idle \/ cast'.stale
        /\ cast = Stream!Idle => cast' = Stream!Idle
        /\ lost' = lost \cup Stream!Subscribers
    BY <2>1, LoseIs DEF CastInv, BrowserTypes
  <2>3. CastInv'
    BY <2>2, IdleIs DEF CastInv
  <2> QED BY <1>1, <2>2, <2>3 DEF BrowserTypes, Stream!Subscribers
<1>3. CASE ~inbox
  <2>1. UNCHANGED <<lost, cast, inbox>>
    BY <1>1, <1>3 DEF Stream!Disconnect, ProcessTypes
  <2> QED BY <1>1, <2>1 DEF CastInv, BrowserTypes, Pending
<1> QED BY <1>2, <1>3

(***************************************************************************)
(* The stream: every step keeps the invariant                              *)
(***************************************************************************)

\* Streams whose pages, flags and license stay stay fit when their notifications
\* are not lost.
LEMMA QuietPages ==
    ASSUME StreamInv, UNCHANGED <<flags, license, page, shown>>, lost \subseteq lost',
           \A p \in Pages : page[p].at # "closed" /\ p \notin lost' => (Pending => Pending')
    PROVE  \A p \in Pages : PageFits(p)'
<1> SUFFICES ASSUME NEW p \in Pages, page[p].at # "closed", p \notin lost', ~Pending'
             PROVE  (Latest(page[p]) /\ (page[p].at = "open" => shown[p] = Stream!Now))'
  BY DEF PageFits
<1>1. Latest(page[p]) /\ (page[p].at = "open" => shown[p] = Stream!Now)
  BY DEF StreamInv, PageFits
<1> QED BY <1>1 DEF Latest, Stream!Now

LEMMA CommitSteps ==
    ASSUME StreamConstantsFit, StreamInv, Stream!Commit
    PROVE  StreamInv'
<1>1. /\ inbox' \in BOOLEAN /\ cast' \in Casts /\ lost' \subseteq Pages
      /\ cast'.step = "no" => cast' = Stream!Idle
      /\ cast'.step = "license" => cast'.stale \/ inbox'
      /\ \A p \in Pages : page[p].at # "closed" /\ p \notin lost' => inbox'
  BY NotifyIs DEF Stream!Commit, StreamInv
<1>2. ProcessTypes'
  BY <1>1
  DEF Stream!Commit, StreamInv, ProcessTypes, StreamConstantsFit, Stream!Counts, Stream!streams
<1>3. BrowserTypes' /\ UNCHANGED page
  BY <1>1
  DEF Stream!Commit, StreamInv, BrowserTypes, Stream!streams, Stream!Counts, Stream!Payloads
<1>4. CastInv'
  BY <1>1 DEF CastInv
<1>5. \A p \in Pages : PageFits(p)'
  BY <1>1, <1>3 DEF PageFits, Pending
<1> QED BY <1>2, <1>3, <1>4, <1>5 DEF StreamInv

LEMMA DisconnectSteps ==
    ASSUME StreamConstantsFit, StreamInv, Stream!TearDown \/ Stream!ConnectionLost
    PROVE  StreamInv'
<1>1. /\ Stream!Disconnect /\ UNCHANGED <<flags, license, again, page, shown, opens>>
      /\ \/ starting' = "ending" /\ UNCHANGED <<ending, faults>>
         \/ Stream!Fault /\ ending' = ending + 1 /\ UNCHANGED starting
  BY DEF Stream!TearDown, Stream!ConnectionLost, Stream!streams
<1>2. /\ CastInv' /\ lost' \subseteq Pages /\ lost \subseteq lost'
      /\ timer' = FALSE /\ listener' = "none" /\ inbox' = FALSE
      /\ \A p \in Pages : page[p].at # "closed" /\ p \notin lost' => (Pending => Pending')
  BY <1>1, DisconnectIs DEF StreamInv
<1>3. ending' \in 0 .. MaxFaults /\ faults' \in 0 .. MaxFaults /\ ending' <= faults'
  BY <1>1 DEF StreamInv, ProcessTypes, StreamConstantsFit, Stream!Fault
<1>4. ProcessTypes'
  BY <1>1, <1>2, <1>3 DEF StreamInv, ProcessTypes
<1>5. BrowserTypes'
  BY <1>1, <1>2 DEF StreamInv, BrowserTypes
<1>6. \A p \in Pages : PageFits(p)'
  BY <1>1, <1>2, QuietPages
<1> QED BY <1>2, <1>4, <1>5, <1>6 DEF StreamInv

\* Steps of the listener that concern no stream.
LEMMA ListenerSteps ==
    ASSUME StreamConstantsFit, StreamInv, Stream!NewClient \/ Stream!Ended \/ Stream!Reconnect
    PROVE  StreamInv'
<1>1. UNCHANGED <<flags, license, page, shown, opens, lost, faults, inbox, cast, again>>
  BY DEF Stream!NewClient, Stream!Ended, Stream!Reconnect, Stream!streams, Stream!casting
<1>2. ending' \in 0 .. MaxFaults /\ ending' <= faults'
  BY <1>1
  DEF Stream!NewClient, Stream!Ended, Stream!Reconnect, StreamInv, ProcessTypes,
      StreamConstantsFit
<1>3. /\ starting' \in {"no", "env", "ending", "connecting"}
      /\ listener' \in {"none", "new", "listening", "dead"} /\ timer' \in BOOLEAN
  BY DEF Stream!NewClient, Stream!Ended, Stream!Reconnect, Stream!StartListener,
         Stream!ScheduleReconnect, StreamInv, ProcessTypes
<1>4. ProcessTypes'
  BY <1>1, <1>2, <1>3 DEF StreamInv, ProcessTypes
<1>5. BrowserTypes' /\ CastInv' /\ (Pending => Pending')
  BY <1>1 DEF StreamInv, BrowserTypes, CastInv, Pending
<1>6. \A p \in Pages : PageFits(p)'
  BY <1>1, <1>5, QuietPages
<1> QED BY <1>4, <1>5, <1>6 DEF StreamInv

\* The broadcast, up to its delivery.
LEMMA CastSteps ==
    ASSUME StreamConstantsFit, StreamInv,
           Stream!Notification \/ Stream!CastFlags \/ Stream!CastFails
    PROVE  StreamInv'
<1>1. /\ UNCHANGED <<flags, license, starting, listener, ending, timer, page, shown, opens>>
      /\ lost \subseteq lost' /\ lost' \subseteq Pages
      /\ inbox' \in BOOLEAN /\ again' \in BOOLEAN
  BY DEF Stream!Notification, Stream!CastFlags, Stream!CastFails, Stream!streams, Stream!server,
         Stream!Subscribers, StreamInv, BrowserTypes, ProcessTypes
<1>2. faults' \in 0 .. MaxFaults /\ ending' <= faults'
  BY <1>1 DEF Stream!Notification, Stream!CastFlags, Stream!CastFails, Stream!Fault, StreamInv,
              ProcessTypes, StreamConstantsFit
<1>3. ProcessTypes' /\ BrowserTypes'
  BY <1>1, <1>2 DEF StreamInv, ProcessTypes, BrowserTypes
<1>4. /\ CastInv'
      /\ \A p \in Pages : page[p].at # "closed" /\ p \notin lost' => (Pending => Pending')
  <2>1. CASE Stream!Notification
    <3>1. CASE cast = Stream!Idle
      <4>1. cast' = [Stream!Idle EXCEPT !.step = "flags"] /\ again' = FALSE /\ inbox' = FALSE
        BY <2>1, <3>1 DEF Stream!Notification
      <4> QED BY <4>1, ClosedIs, IdleIs DEF CastInv, Pending
    <3>2. CASE cast # Stream!Idle
      <4>1. cast' = cast /\ again' = TRUE /\ inbox' = FALSE /\ UNCHANGED flags
        BY <2>1, <3>2 DEF Stream!Notification
      <4>2. cast.step \in {"flags", "license"}
        BY <3>2 DEF StreamInv, CastInv, Casts
      <4> QED BY <4>1, <4>2 DEF StreamInv, CastInv, Pending
    <3> QED BY <3>1, <3>2
  <2>2. CASE Stream!CastFlags
    <3>1. cast' = [cast EXCEPT !.step = "license", !.flags = flags]
      BY <2>2 DEF Stream!CastFlags
    <3>2. cast' \in Casts /\ cast'.step = "license" /\ cast'.flags = flags'
      BY <1>1, <3>1 DEF StreamInv, CastInv, ProcessTypes, Casts
    <3> QED BY <3>2 DEF CastInv, Pending
  <2>3. CASE Stream!CastFails
    <3>1. cast' = Stream!Idle /\ lost' = lost \cup Stream!Subscribers
      BY <2>3 DEF Stream!CastFails
    <3> QED BY <3>1, ClosedIs, IdleIs DEF CastInv, Stream!Subscribers
  <2> QED BY <2>1, <2>2, <2>3
<1>5. \A p \in Pages : PageFits(p)'
  BY <1>1, <1>4, QuietPages
<1> QED BY <1>3, <1>4, <1>5 DEF StreamInv

\* What is kept for a page ends with what was kept last.
LEMMA QueueEnds ==
    ASSUME NEW r \in Streams, NEW payload \in Stream!Payloads,
           NEW after, after = [r EXCEPT !.queue = Append(@, payload)]
    PROVE  /\ after \in Streams /\ after.at = r.at /\ after.queue # <<>>
           /\ after.queue[Len(after.queue)] = payload
<1> DEFINE queue == Append(r.queue, payload)
<1>1. r.queue \in Seq(Stream!Payloads)
  BY DEF Streams
<1>2. queue \in Seq(Stream!Payloads) /\ queue # <<>> /\ queue[Len(queue)] = payload
  BY <1>1
<1>3. after = [r EXCEPT !.queue = queue]
  OBVIOUS
<1> HIDE DEF queue
<1>4. after \in Streams /\ after.at = r.at /\ after.queue = queue
  BY <1>2, <1>3 DEF Streams
<1> QED BY <1>2, <1>4

\* The broadcast reaches every stream: with the present state, or a late one to
\* those a notification was lost for.
LEMMA CastLicenseSteps ==
    ASSUME StreamConstantsFit, StreamInv, Stream!CastLicense
    PROVE  StreamInv'
<1> DEFINE payload == [flags |-> cast.flags, license |-> license]
<1>1. /\ cast.step = "license" /\ Stream!Deliver(payload)
      /\ cast' = IF again THEN [Stream!Idle EXCEPT !.step = "flags"] ELSE Stream!Idle
      /\ again' = FALSE
      /\ lost' = IF cast.stale THEN lost \cup Stream!Subscribers ELSE lost
      /\ UNCHANGED <<flags, license, starting, listener, ending, timer, inbox, opens, faults>>
  BY DEF Stream!CastLicense, Stream!server
<1>2. payload \in Stream!Payloads /\ (cast.flags = flags => payload = Stream!Now)
  BY DEF StreamInv, ProcessTypes, CastInv, Casts, Stream!Payloads, Stream!Now
<1> HIDE DEF payload
<1>3. ProcessTypes'
  BY <1>1 DEF StreamInv, ProcessTypes
<1>4. CastInv'
  BY <1>1, ClosedIs, IdleIs DEF CastInv
<1>5. ASSUME NEW p \in Pages
      PROVE  /\ page'[p] \in Streams /\ page'[p].at = page[p].at
             /\ shown'[p] = IF page[p].at = "open" THEN payload ELSE shown[p]
             /\ page[p].at \in {"subscribing", "flags", "license"} =>
                   page'[p].queue # <<>> /\ page'[p].queue[Len(page'[p].queue)] = payload
  <2>1. page'[p] = IF page[p].at \in {"subscribing", "flags", "license"}
                   THEN [page[p] EXCEPT !.queue = Append(@, payload)] ELSE page[p]
    BY <1>1 DEF Stream!Deliver
  <2>2. shown'[p] = IF page[p].at = "open" THEN payload ELSE shown[p]
    BY <1>1 DEF Stream!Deliver
  <2>3. page[p] \in Streams
    BY DEF StreamInv, BrowserTypes
  <2>4. CASE page[p].at \in {"subscribing", "flags", "license"}
    <3>1. page'[p] = [page[p] EXCEPT !.queue = Append(@, payload)]
      BY <2>1, <2>4
    <3>2. payload \in Stream!Payloads
      BY <1>2
    <3>3. \A after : after = [page[p] EXCEPT !.queue = Append(@, payload)] =>
             /\ after \in Streams /\ after.at = page[p].at /\ after.queue # <<>>
             /\ after.queue[Len(after.queue)] = payload
      BY <2>3, <3>2, QueueEnds, Zenon
    <3>4. /\ page'[p] \in Streams /\ page'[p].at = page[p].at
          /\ page'[p].queue # <<>> /\ page'[p].queue[Len(page'[p].queue)] = payload
      BY <3>1, <3>3, Zenon
    <3> QED BY <2>2, <3>4
  <2>5. CASE page[p].at \notin {"subscribing", "flags", "license"}
    BY <2>1, <2>2, <2>3, <2>5
  <2> QED BY <2>4, <2>5
<1>6. BrowserTypes'
  <2>1. page' \in [Pages -> Streams]
    BY <1>1, <1>5 DEF Stream!Deliver
  <2>2. shown' \in [Pages -> Stream!Payloads]
    <3>1. \A p \in Pages : shown'[p] \in Stream!Payloads
      BY <1>2, <1>5 DEF StreamInv, BrowserTypes
    <3> QED BY <1>1, <3>1 DEF Stream!Deliver
  <2>3. lost' \subseteq Pages
    BY <1>1 DEF StreamInv, BrowserTypes, Stream!Subscribers
  <2> QED BY <2>1, <2>2, <2>3 DEF BrowserTypes
<1>7. ASSUME NEW p \in Pages, page'[p].at # "closed", p \notin lost', ~Pending'
      PROVE  (Latest(page[p]) /\ (page[p].at = "open" => shown[p] = Stream!Now))'
  <2>1. page[p].at # "closed"
    BY <1>5, <1>7
  <2>2. ~cast.stale /\ ~again /\ ~inbox
    BY <1>1, <1>7, <2>1, IdleIs DEF Pending, Stream!Subscribers
  <2>3. payload = Stream!Now /\ UNCHANGED <<flags, license>>
    BY <1>1, <1>2, <2>2 DEF StreamInv, CastInv
  <2>4. page[p].at \in {"subscribing", "flags", "license", "open"}
    BY <2>1 DEF StreamInv, BrowserTypes, Streams
  <2> QED BY <1>5, <2>3, <2>4 DEF Latest, Stream!Now
<1>8. \A p \in Pages : PageFits(p)'
  BY <1>7 DEF PageFits
<1> QED BY <1>3, <1>4, <1>6, <1>8 DEF StreamInv

\* Steps of one stream, or of those that wait for the listener.
LEMMA StreamsStep ==
    ASSUME StreamInv, UNCHANGED <<flags, license, inbox, cast, again>>,
           page' \in [Pages -> Streams], shown' \in [Pages -> Stream!Payloads],
           lost' \subseteq Pages,
           \A p \in Pages :
               page'[p].at # "closed" /\ p \notin lost' /\ ~Pending =>
                   /\ Latest(page'[p])
                   /\ page'[p].at = "open" => shown'[p] = Stream!Now
    PROVE  BrowserTypes' /\ CastInv' /\ \A p \in Pages : PageFits(p)'
<1>1. BrowserTypes' /\ CastInv'
  BY DEF BrowserTypes, StreamInv, CastInv
<1>2. ASSUME NEW p \in Pages PROVE PageFits(p)'
  BY DEF PageFits, Pending, Latest, Stream!Now
<1> QED BY <1>1, <1>2

\* A stream that fitted, as a fact about its record.
LEMMA Fitting ==
    ASSUME StreamInv, NEW p \in Pages
    PROVE  /\ page[p] \in Streams /\ shown[p] \in Stream!Payloads
           /\ page[p].at # "closed" /\ p \notin lost /\ ~Pending =>
                 Latest(page[p]) /\ (page[p].at = "open" => shown[p] = Stream!Now)
BY DEF StreamInv, BrowserTypes, PageFits

\* Whoever waited for the listener goes on or is closed.
LEMMA ListeningSteps ==
    ASSUME StreamConstantsFit, StreamInv, Stream!Listening \/ Stream!StartFails
    PROVE  StreamInv'
<1>1. /\ UNCHANGED <<flags, license, ending, inbox, cast, again, shown, opens, lost>>
      /\ starting' = "no" /\ timer' \in BOOLEAN
      /\ listener' \in {"none", "new", "listening", "dead"}
      /\ Stream!Fault \/ UNCHANGED faults
  BY DEF Stream!Listening, Stream!StartFails, Stream!casting, Stream!ScheduleReconnect, StreamInv,
         ProcessTypes
<1>2. PICK next \in {[at |-> "flags"], Stream!Closed} :
          page' = [p \in Pages |-> IF page[p].at = "subscribing"
                                   THEN IF next = Stream!Closed THEN Stream!Closed
                                        ELSE [page[p] EXCEPT !.at = "flags"]
                                   ELSE page[p]]
  <2>1. [at |-> "flags"] # Stream!Closed
    <3>1. [at |-> "flags"].at = "flags" /\ Stream!Closed.at = "closed"
      BY DEF Stream!Closed
    <3> QED BY <3>1
  <2>2. CASE Stream!Listening
    BY <2>1, <2>2 DEF Stream!Listening
  <2>3. CASE Stream!StartFails
    BY <2>1, <2>3 DEF Stream!StartFails
  <2> QED BY <2>2, <2>3
<1>3. ASSUME NEW p \in Pages
      PROVE  /\ page'[p] \in Streams
             /\ page'[p].at # "closed" /\ p \notin lost' /\ ~Pending =>
                   Latest(page'[p]) /\ (page'[p].at = "open" => shown'[p] = Stream!Now)
  <2>1. CASE page'[p] = page[p] \/ page'[p] = Stream!Closed
    BY <1>1, <2>1, Fitting, ClosedIs
  <2>2. CASE page[p].at = "subscribing" /\ page'[p] = [page[p] EXCEPT !.at = "flags"]
    <3>1. page'[p] \in Streams /\ page'[p].at = "flags" /\ page'[p].queue = page[p].queue
      BY <2>2, Fitting DEF Streams
    <3> QED BY <1>1, <2>2, <3>1, Fitting DEF Latest
  <2> QED BY <1>2, <2>1, <2>2
<1>4. page' \in [Pages -> Streams]
  BY <1>2, <1>3
<1>5. BrowserTypes' /\ CastInv' /\ \A p \in Pages : PageFits(p)'
  <2>1. shown' \in [Pages -> Stream!Payloads] /\ lost' \subseteq Pages
    BY <1>1 DEF StreamInv, BrowserTypes
  <2> QED BY <1>1, <1>3, <1>4, <2>1, StreamsStep
<1>6. faults' \in 0 .. MaxFaults /\ ending' <= faults'
  BY <1>1 DEF Stream!Fault, StreamInv, ProcessTypes, StreamConstantsFit
<1>7. ProcessTypes'
  BY <1>1, <1>6 DEF StreamInv, ProcessTypes
<1> QED BY <1>5, <1>7 DEF StreamInv

\* A stream is opened, reads its snapshot and sends it, or is dropped.
LEMMA OneStreamSteps ==
    ASSUME StreamConstantsFit, StreamInv, NEW p \in Pages,
           Stream!Open(p) \/ Stream!SnapshotFlags(p) \/ Stream!Snapshot(p) \/ Stream!Drop(p)
    PROVE  StreamInv'
<1>1. /\ UNCHANGED <<flags, license, listener, ending, timer, inbox, cast, again>>
      /\ starting' \in {"no", "env", "ending", "connecting"}
      /\ Stream!Fault \/ UNCHANGED faults
      /\ opens' \in 0 .. MaxOpens
      /\ lost' \subseteq Pages /\ \A q \in Pages \ {p} : q \in lost <=> q \in lost'
  BY DEF Stream!Open, Stream!SnapshotFlags, Stream!Snapshot, Stream!Drop, Stream!casting,
         Stream!server, Stream!StartListener, StreamInv, ProcessTypes, BrowserTypes,
         StreamConstantsFit
<1>2. /\ page[p] \in Streams /\ shown[p] \in Stream!Payloads
      /\ page[p].at # "closed" /\ p \notin lost /\ ~Pending =>
            Latest(page[p]) /\ (page[p].at = "open" => shown[p] = Stream!Now)
  BY Fitting
<1>3. PICK r, value :
          /\ page' = [page EXCEPT ![p] = r] /\ shown' = [shown EXCEPT ![p] = value]
          /\ r \in Streams /\ value \in Stream!Payloads
          /\ r.at # "closed" /\ p \notin lost' /\ ~Pending =>
                Latest(r) /\ (r.at = "open" => value = Stream!Now)
  <2>1. shown = [shown EXCEPT ![p] = shown[p]]
    BY DEF StreamInv, BrowserTypes
  <2>2. CASE Stream!Open(p)
    <3>1. /\ page' = [page EXCEPT ![p] = [Stream!Closed EXCEPT !.at = "subscribing"]]
          /\ shown' = shown
      BY <2>2 DEF Stream!Open
    <3>2. /\ [Stream!Closed EXCEPT !.at = "subscribing"] \in Streams
          /\ Latest([Stream!Closed EXCEPT !.at = "subscribing"])
          /\ [Stream!Closed EXCEPT !.at = "subscribing"].at = "subscribing"
      BY ClosedIs DEF Latest, Stream!Closed
    <3> QED BY <1>2, <2>1, <3>1, <3>2
  <2>3. CASE Stream!SnapshotFlags(p)
    <3> DEFINE r == [page[p] EXCEPT !.at = "license", !.flags = flags]
    <3>1. page[p].at = "flags" /\ page' = [page EXCEPT ![p] = r] /\ shown' = shown /\ lost' = lost
      BY <2>3 DEF Stream!SnapshotFlags, StreamInv, BrowserTypes, Streams
    <3>2. r \in Streams /\ r.at = "license" /\ r.flags = flags /\ r.queue = page[p].queue
      BY <1>2 DEF StreamInv, ProcessTypes, Streams
    <3> HIDE DEF r
    <3> QED BY <1>2, <2>1, <3>1, <3>2 DEF Latest
  <2>4. CASE Stream!Snapshot(p)
    <3> DEFINE r == [Stream!Closed EXCEPT !.at = "open"]
               value == Stream!LastOf([flags |-> page[p].flags, license |-> license], page[p].queue)
    <3>1. /\ page[p].at = "license" /\ lost' = lost
          /\ page' = [page EXCEPT ![p] = r] /\ shown' = [shown EXCEPT ![p] = value]
      BY <2>4 DEF Stream!Snapshot
    <3>2. r \in Streams /\ r.at = "open" /\ r.queue = <<>>
      BY ClosedIs DEF Stream!Closed
    <3>3. /\ [flags |-> page[p].flags, license |-> license] \in Stream!Payloads
          /\ page[p].flags = flags =>
                [flags |-> page[p].flags, license |-> license] = Stream!Now
      BY <1>2 DEF StreamInv, ProcessTypes, Streams, Stream!Payloads, Stream!Now
    <3>4. page[p].queue \in Seq(Stream!Payloads)
      BY <1>2 DEF Streams
    <3>5. page[p].queue # <<>> => page[p].queue[Len(page[p].queue)] \in Stream!Payloads
      BY <3>4
    <3>6. value \in Stream!Payloads
      BY <3>3, <3>5 DEF Stream!LastOf
    <3>7. Latest(page[p]) /\ page[p].at = "license" => value = Stream!Now
      BY <3>3 DEF Stream!LastOf, Latest
    <3> HIDE DEF r, value
    <3>8. Latest(r)
      BY <3>2 DEF Latest
    <3> QED BY <1>2, <3>1, <3>2, <3>6, <3>7, <3>8
  <2>5. CASE Stream!Drop(p)
    <3>1. page' = [page EXCEPT ![p] = Stream!Closed] /\ shown' = shown
      BY <2>5 DEF Stream!Drop
    <3> QED BY <1>2, <2>1, <3>1, ClosedIs
  <2> QED BY <2>2, <2>3, <2>4, <2>5
<1>4. page' \in [Pages -> Streams] /\ shown' \in [Pages -> Stream!Payloads]
  BY <1>3 DEF StreamInv, BrowserTypes
<1>5. ASSUME NEW q \in Pages, page'[q].at # "closed", q \notin lost', ~Pending
      PROVE  Latest(page'[q]) /\ (page'[q].at = "open" => shown'[q] = Stream!Now)
  <2>1. CASE q = p
    BY <1>3, <1>5, <2>1 DEF StreamInv, BrowserTypes
  <2>2. CASE q # p
    <3>1. page'[q] = page[q] /\ shown'[q] = shown[q] /\ q \notin lost
      BY <1>1, <1>3, <1>5, <2>2 DEF StreamInv, BrowserTypes
    <3> QED BY <1>5, <3>1, Fitting
  <2> QED BY <2>1, <2>2
<1>6. BrowserTypes' /\ CastInv' /\ \A q \in Pages : PageFits(q)'
  BY <1>1, <1>4, <1>5, StreamsStep
<1>7. faults' \in 0 .. MaxFaults /\ ending' <= faults'
  BY <1>1 DEF Stream!Fault, StreamInv, ProcessTypes, StreamConstantsFit
<1>8. ProcessTypes'
  BY <1>1, <1>7 DEF StreamInv, ProcessTypes
<1> QED BY <1>6, <1>8 DEF StreamInv

LEMMA StreamInvInit == StreamConstantsFit /\ Stream!Init => StreamInv
<1> SUFFICES ASSUME StreamConstantsFit, Stream!Init PROVE StreamInv
  OBVIOUS
<1>1. ProcessTypes
  <2>1. /\ flags = 0 /\ license = 0 /\ ending = 0 /\ faults = 0 /\ opens = 0
        /\ starting = "no" /\ listener = "none" /\ timer = FALSE /\ inbox = FALSE /\ again = FALSE
    BY DEF Stream!Init
  <2>2. 0 \in Stream!Counts /\ 0 \in 0 .. MaxFaults /\ 0 \in 0 .. MaxOpens /\ 0 <= 0
    BY DEF StreamConstantsFit, Stream!Counts
  <2> QED BY <2>1, <2>2 DEF ProcessTypes
<1>2. Stream!Now \in Stream!Payloads
  BY <1>1 DEF Stream!Now, Stream!Payloads, ProcessTypes
<1>3. BrowserTypes /\ \A p \in Pages : page[p].at = "closed"
  BY <1>2, ClosedIs DEF Stream!Init, BrowserTypes
<1>4. CastInv
  BY ClosedIs, IdleIs DEF Stream!Init, CastInv
<1> QED BY <1>1, <1>3, <1>4 DEF StreamInv, PageFits

LEMMA StreamInvNext ==
    StreamConstantsFit /\ StreamInv /\ [Stream!Next]_(Stream!streamVars) => StreamInv'
<1> SUFFICES ASSUME StreamConstantsFit, StreamInv, [Stream!Next]_(Stream!streamVars)
             PROVE  StreamInv'
  OBVIOUS
<1>1. CASE UNCHANGED Stream!streamVars
  <2>1. /\ UNCHANGED <<flags, license, starting, listener, ending, timer, inbox, cast, again>>
        /\ UNCHANGED <<page, shown, opens, lost, faults>>
    BY <1>1 DEF Stream!streamVars, Stream!server, Stream!casting, Stream!streams
  <2>2. ProcessTypes' /\ BrowserTypes' /\ CastInv' /\ (Pending => Pending')
    BY <2>1 DEF StreamInv, ProcessTypes, BrowserTypes, CastInv, Pending
  <2> QED BY <2>1, <2>2, QuietPages DEF StreamInv
<1> QED
  BY <1>1, CommitSteps, DisconnectSteps, ListenerSteps, ListeningSteps, CastSteps,
     CastLicenseSteps, OneStreamSteps
  DEF Stream!Next

LEMMA StreamInvTypes == StreamInv => Stream!TypeOK
BY DEF StreamInv, ProcessTypes, BrowserTypes, CastInv, Casts, Streams, Stream!TypeOK

LEMMA StreamInvHolds == StreamInv => Stream!SettledPagesAreCurrent
<1> SUFFICES ASSUME StreamInv, NEW p \in Pages, Stream!Quiet, page[p].at = "open", p \notin lost
             PROVE  shown[p] = Stream!Now
  BY DEF Stream!SettledPagesAreCurrent
<1>1. ~Pending
  BY IdleIs DEF Stream!Quiet, Pending
<1> QED BY <1>1 DEF StreamInv, PageFits

(***************************************************************************)
(* The agents' console: actions and fetches                                *)
(***************************************************************************)

LEMMA ActionIs ==
    /\ Agents!NoAction.what = "none"
    /\ Agents!NoAction \in Modals /\ Agents!NoAction \in RowActions
       /\ Agents!NoAction \in BotActions
    /\ \A a \in Modals :
          /\ a.what \in RowSends => a \in [what : RowSends, pair : Pairs]
          /\ a.what \in BotSends => a \in [what : BotSends, pair : Bots]
          /\ a # Agents!NoAction => a.what \in RowSends \cup BotSends
    /\ \A a \in RowActions :
          /\ a.what \in RowSends \cup RowAnswers \cup {"fetch"} => a.pair \in Pairs
          /\ a # Agents!NoAction => a.what \in RowSends \cup RowAnswers \cup {"fetch"}
    /\ \A a \in BotActions :
          /\ a.what \in BotSends \cup {"answered", "fetch"} => a.pair \in Bots
          /\ a # Agents!NoAction => a.what \in BotSends \cup {"answered", "fetch"}
BY DEF Agents!NoAction, Modals, RowActions, BotActions, RowSends, RowAnswers, BotSends

LEMMA FetchIs ==
    ASSUME NEW V, NEW T
    PROVE  /\ Agents!Ended \in Agents!Loads(V, T) /\ Agents!Asked \in Agents!Loads(V, T)
           /\ Agents!Ended # Agents!Asked
           /\ Agents!Ended.at # "read" /\ Agents!Asked.at # "read"
           /\ \A load \in Agents!Loads(V, T) :
                 load.at = "read" => load.value \in V /\ load.since \subseteq T
<1>1. Agents!Ended.at = "ended" /\ Agents!Asked.at = "asked"
  BY DEF Agents!Ended, Agents!Asked
<1> QED BY <1>1 DEF Agents!Loads

LEMMA ReadIs ==
    ASSUME NEW V, NEW T, NEW value \in V
    PROVE  /\ Agents!Read(value) \in Agents!Loads(V, T) /\ Agents!Read(value) # Agents!Ended
           /\ Agents!Read(value).at = "read" /\ Agents!Read(value).value = value
           /\ Agents!Read(value).since = {}
<1>1. Agents!Read(value).at = "read" /\ Agents!Ended.at # "read"
  BY FetchIs DEF Agents!Read
<1> QED BY <1>1 DEF Agents!Read, Agents!Loads

\* A change made elsewhere is noted by what was read before it.
LEMMA NotingIs ==
    ASSUME NEW V, NEW T, NEW x \in T, NEW load \in Agents!Loads(V, T)
    PROVE  /\ Agents!Noting(load, x) \in Agents!Loads(V, T)
           /\ Agents!Noting(load, x).at = "read" <=> load.at = "read"
           /\ Agents!Noting(load, x) = Agents!Ended <=> load = Agents!Ended
           /\ load.at = "read" => /\ Agents!Noting(load, x).value = load.value
                                  /\ Agents!Noting(load, x).since = load.since \cup {x}
<1>1. CASE load.at = "read"
  <2>1. load \in [at : {"read"}, value : V, since : SUBSET T]
    BY <1>1, FetchIs DEF Agents!Loads
  <2>2. Agents!Noting(load, x) = [load EXCEPT !.since = load.since \cup {x}]
    BY <1>1 DEF Agents!Noting
  <2>3. /\ Agents!Noting(load, x) \in Agents!Loads(V, T) /\ Agents!Noting(load, x).at = "read"
        /\ Agents!Noting(load, x).value = load.value
        /\ Agents!Noting(load, x).since = load.since \cup {x}
    BY <2>1, <2>2 DEF Agents!Loads
  <2> QED BY <1>1, <2>3, FetchIs
<1>2. CASE load.at # "read"
  BY <1>2 DEF Agents!Noting
<1> QED BY <1>1, <1>2

\* Steps that leave the assignments, but for what is known to have changed.
LEMMA RowsStay ==
    ASSUME AgentsInv, UNCHANGED <<dv, shownRows, rowsLoad, action, submitting>>,
           unsure \cap Pairs \subseteq unsure',
           modal'.what \in RowSends =>
               modal.what \in RowSends \/ (~submitting /\ rowsLoad = Agents!Ended)
    PROVE  RowTypes' /\ RowControl' /\ \A p \in Pairs : RowFits(p)'
<1>1. RowTypes'
  BY DEF AgentsInv, RowTypes
<1>2. RowControl'
  BY DEF AgentsInv, RowControl
<1>3. \A p \in Pairs : RowFits(p)'
  BY DEF AgentsInv, RowFits, FirstLoad
<1> QED BY <1>1, <1>2, <1>3

\* The same for the bots.
LEMMA BotsStay ==
    ASSUME AgentsInv,
           UNCHANGED <<isolated, shownBots, botLoad, botAction, submittingBot, overlapped>>,
           unsure \cap Bots \subseteq unsure',
           modal'.what \in BotSends => modal.what \in BotSends \/ shownBots # Agents!Unloaded
    PROVE  BotTypes' /\ BotControl' /\ (~overlapped' => \A b \in Bots : BotFits(b)')
<1>1. BotTypes'
  BY DEF AgentsInv, BotTypes
<1>2. BotControl'
  BY DEF AgentsInv, BotControl
<1>3. ~overlapped' => \A b \in Bots : BotFits(b)'
  BY DEF AgentsInv, BotFits, Answering
<1> QED BY <1>1, <1>2, <1>3

(***************************************************************************)
(* The agents' console: actions are asked for                              *)
(***************************************************************************)

LEMMA AskSteps ==
    ASSUME AgentsConstantsFit, AgentsInv,
           \/ \E what \in RowSends, p \in Pairs : Agents!Ask(what, p)
           \/ \E b \in Bots : Agents!AskQuarantine(b)
           \/ Agents!Cancel
    PROVE  AgentsInv'
<1>1. /\ UNCHANGED <<dv, shownRows, rowsLoad, action, submitting>>
      /\ UNCHANGED <<isolated, shownBots, botLoad, botAction, submittingBot, overlapped>>
      /\ UNCHANGED <<actions, troubles, unsure>>
  BY DEF Agents!Ask, Agents!AskQuarantine, Agents!Cancel, Agents!rowVars, Agents!botVars
<1>2. /\ modal' \in Modals
      /\ modal'.what \in RowSends => ~submitting /\ rowsLoad = Agents!Ended
      /\ modal'.what \in BotSends => shownBots # Agents!Unloaded
  <2>1. ASSUME NEW what \in RowSends, NEW p \in Pairs, Agents!Ask(what, p)
        PROVE  /\ modal' \in Modals /\ modal'.what \in RowSends
               /\ ~submitting /\ rowsLoad = Agents!Ended
    <3>1. modal' = [what |-> what, pair |-> p] /\ ~submitting /\ shownRows[p] # "hidden"
      BY <2>1 DEF Agents!Ask, Agents!Offers
    <3>2. rowsLoad = Agents!Ended
      <4>1. action = Agents!NoAction
        BY <3>1 DEF AgentsInv, RowControl
      <4> QED BY <3>1, <4>1, ActionIs DEF AgentsInv, RowControl
    <3> QED BY <3>1, <3>2 DEF Modals
  <2>2. ASSUME NEW b \in Bots, Agents!AskQuarantine(b)
        PROVE  /\ modal' \in Modals /\ modal'.what \in BotSends
               /\ shownBots # Agents!Unloaded
    BY <2>2 DEF Agents!AskQuarantine, Modals, BotSends
  <2>3. ASSUME Agents!Cancel PROVE modal' \in Modals /\ modal'.what = "none"
    BY <2>3, ActionIs DEF Agents!Cancel
  <2> QED BY <2>1, <2>2, <2>3 DEF RowSends, BotSends
<1>3. RowTypes' /\ RowControl' /\ \A p \in Pairs : RowFits(p)'
  BY <1>1, <1>2, RowsStay
<1>4. BotTypes' /\ BotControl' /\ (~overlapped' => \A b \in Bots : BotFits(b)')
  BY <1>1, <1>2, BotsStay
<1>5. CounterTypes'
  BY <1>1, <1>2 DEF AgentsInv, CounterTypes
<1> QED BY <1>3, <1>4, <1>5 DEF AgentsInv

(***************************************************************************)
(* The agents' console: assignments                                        *)
(***************************************************************************)

\* What all steps on the assignments leave.
LEMMA RowStepsLeave ==
    ASSUME AgentsConstantsFit, AgentsInv,
           Agents!RowStep \/ Agents!Confirm \/ \E p \in Pairs : Agents!PatchRow(p)
    PROVE  /\ CounterTypes' /\ BotTypes' /\ BotControl'
           /\ ~overlapped' => \A b \in Bots : BotFits(b)'
<1>1. UNCHANGED <<isolated, shownBots, botLoad, botAction, submittingBot, overlapped>>
  BY DEF Agents!RowStep, Agents!ServerReadsRows, Agents!RowsArrive, Agents!RowsFail,
         Agents!Refused, Agents!PostFails, Agents!Post, Agents!Answered, Agents!Confirm,
         Agents!PatchRow, Agents!botVars
<1>2. /\ modal' = modal \/ modal' = Agents!NoAction
      /\ actions' \in 0 .. MaxActions /\ troubles' \in 0 .. MaxTroubles
  <2>1. modal' = modal \/ modal' = Agents!NoAction
    BY DEF Agents!RowStep, Agents!ServerReadsRows, Agents!RowsArrive, Agents!RowsFail,
           Agents!Refused, Agents!PostFails, Agents!Post, Agents!Answered, Agents!Confirm,
           Agents!PatchRow
  <2>2. /\ actions' = actions \/ (actions < MaxActions /\ actions' = actions + 1)
        /\ troubles' = troubles \/ Agents!Trouble
    BY DEF Agents!RowStep, Agents!ServerReadsRows, Agents!RowsArrive, Agents!RowsFail,
           Agents!Refused, Agents!PostFails, Agents!Post, Agents!Answered, Agents!Confirm,
           Agents!PatchRow
  <2> QED BY <2>1, <2>2 DEF AgentsInv, CounterTypes, AgentsConstantsFit, Agents!Trouble
<1>3. unsure' \subseteq Pairs \cup Bots /\ unsure \cap Bots \subseteq unsure'
  <2>1. rowsLoad.at = "read" => rowsLoad.since \subseteq Pairs
    BY FetchIs DEF AgentsInv, RowTypes
  <2>2. action.what \in RowSends => action.pair \in Pairs
    BY ActionIs DEF AgentsInv, RowTypes
  <2>3. unsure \subseteq Pairs \cup Bots /\ Pairs \cap Bots = {}
    BY DEF AgentsInv, CounterTypes, AgentsConstantsFit
  <2>4. CASE Agents!RowsArrive
    BY <2>1, <2>3, <2>4 DEF Agents!RowsArrive
  <2>5. CASE Agents!PostFails
    BY <2>2, <2>3, <2>5 DEF Agents!PostFails, RowSends
  <2>6. CASE Agents!RowsFail
    BY <2>3, <2>6 DEF Agents!RowsFail
  <2>7. CASE \E p \in Pairs : Agents!PatchRow(p)
    BY <2>3, <2>7 DEF Agents!PatchRow
  <2>8. CASE \/ Agents!ServerReadsRows \/ Agents!Refused \/ Agents!Post \/ Agents!Answered
             \/ Agents!Confirm
    BY <2>3, <2>8 DEF Agents!ServerReadsRows, Agents!Refused, Agents!Post, Agents!Answered,
                      Agents!Confirm
  <2> QED BY <2>4, <2>5, <2>6, <2>7, <2>8 DEF Agents!RowStep
<1>4. CounterTypes'
  BY <1>2, <1>3, ActionIs DEF AgentsInv, CounterTypes
<1>5. modal'.what \in BotSends => modal.what \in BotSends
  BY <1>2, ActionIs DEF BotSends
<1> QED BY <1>1, <1>3, <1>4, <1>5, BotsStay

\* The rows are read, arrive or fail to.
LEMMA RowLoadSteps ==
    ASSUME AgentsConstantsFit, AgentsInv,
           Agents!ServerReadsRows \/ Agents!RowsArrive \/ Agents!RowsFail
    PROVE  RowTypes' /\ RowControl' /\ \A p \in Pairs : RowFits(p)'
<1> USE DEF RowAnswers, RowSends
<1>1. UNCHANGED <<dv, modal>>
  BY DEF Agents!ServerReadsRows, Agents!RowsArrive, Agents!RowsFail
<1>2. RowTypes /\ RowControl /\ \A p \in Pairs : RowFits(p)
  BY DEF AgentsInv
<1>3. CASE Agents!ServerReadsRows
  <2>1. /\ rowsLoad = Agents!Asked /\ rowsLoad' = Agents!Read(dv)
        /\ UNCHANGED <<shownRows, action, submitting, unsure>>
    BY <1>3 DEF Agents!ServerReadsRows
  <2>2. /\ rowsLoad' \in Agents!Loads([Pairs -> Agents!Flags], Pairs)
        /\ rowsLoad' # Agents!Ended /\ rowsLoad'.at = "read" /\ rowsLoad'.value = dv
    BY <1>2, <2>1, ReadIs DEF RowTypes
  <2>3. rowsLoad # Agents!Ended
    BY <2>1, FetchIs
  <2>4. RowTypes' /\ RowControl'
    BY <1>1, <1>2, <2>1, <2>2, <2>3 DEF RowTypes, RowControl
  <2>5. ASSUME NEW p \in Pairs PROVE RowFits(p)'
    BY <1>1, <1>2, <2>1, <2>2, <2>3 DEF RowFits, FirstLoad
  <2> QED BY <2>4, <2>5
<1>4. CASE Agents!RowsArrive
  <2>1. /\ rowsLoad.at = "read" /\ shownRows' = rowsLoad.value
        /\ unsure' = (unsure \ Pairs) \cup rowsLoad.since
        /\ rowsLoad' = Agents!Ended /\ action' = Agents!NoAction /\ submitting' = FALSE
    BY <1>4 DEF Agents!RowsArrive
  <2>2. rowsLoad.value \in [Pairs -> Agents!Flags]
    BY <1>2, <2>1, FetchIs DEF RowTypes
  <2>3. RowTypes' /\ RowControl'
    BY <1>1, <1>2, <2>1, <2>2, FetchIs, ActionIs DEF RowTypes, RowControl
  <2>4. ASSUME NEW p \in Pairs PROVE RowFits(p)'
    BY <1>1, <1>2, <2>1, FetchIs, ActionIs DEF RowFits
  <2> QED BY <2>3, <2>4
<1>5. CASE Agents!RowsFail
  <2>1. /\ rowsLoad # Agents!Ended /\ UNCHANGED shownRows
        /\ rowsLoad' = Agents!Ended /\ action' = Agents!NoAction /\ submitting' = FALSE
        /\ unsure' = IF action = Agents!NoAction THEN unsure \cup Pairs ELSE unsure
    BY <1>5 DEF Agents!RowsFail, Agents!Quiet
  <2>2. RowTypes' /\ RowControl'
    BY <1>1, <1>2, <2>1, FetchIs, ActionIs DEF RowTypes, RowControl
  <2>3. action # Agents!NoAction => action.what = "fetch"
    BY <1>2, <2>1 DEF RowControl
  <2>4. ASSUME NEW p \in Pairs PROVE RowFits(p)'
    BY <1>1, <1>2, <2>1, <2>3, FetchIs, ActionIs DEF RowFits, FirstLoad
  <2> QED BY <2>2, <2>4
<1> QED BY <1>3, <1>4, <1>5

\* An action on an assignment is sent and answered.
LEMMA RowActionSteps ==
    ASSUME AgentsConstantsFit, AgentsInv,
           Agents!Confirm \/ Agents!Refused \/ Agents!PostFails \/ Agents!Post
    PROVE  RowTypes' /\ RowControl' /\ \A p \in Pairs : RowFits(p)'
<1> USE DEF RowAnswers, RowSends
<1>1. UNCHANGED <<shownRows, rowsLoad>> /\ RowTypes /\ RowControl /\ \A p \in Pairs : RowFits(p)
  BY DEF Agents!Confirm, Agents!Refused, Agents!PostFails, Agents!Post, AgentsInv
<1>2. CASE Agents!Confirm
  <2>1. /\ modal.what \in RowSends /\ action' = modal /\ submitting' = TRUE
        /\ modal' = Agents!NoAction /\ UNCHANGED <<dv, unsure>>
    <3>1. modal.what \in {"block", "unblock"}
      BY <1>2 DEF Agents!Confirm
    <3> QED BY <1>2, <3>1 DEF Agents!Confirm
  <2>2. rowsLoad = Agents!Ended /\ action = Agents!NoAction
    <3>1. action = Agents!NoAction
      BY <1>1, <2>1 DEF RowControl
    <3>2. Agents!NoAction.what # "fetch"
      BY ActionIs
    <3> QED BY <1>1, <2>1, <3>1, <3>2 DEF RowControl
  <2>3. modal \in [what : RowSends, pair : Pairs]
    BY <2>1, ActionIs DEF AgentsInv, CounterTypes
  <2>4. modal \in RowActions /\ modal # Agents!NoAction
    BY <2>3, ActionIs DEF RowActions
  <2>5. RowTypes' /\ RowControl'
    BY <1>1, <2>1, <2>2, <2>4, ActionIs DEF RowTypes, RowControl
  <2>6. ASSUME NEW p \in Pairs PROVE RowFits(p)'
    BY <1>1, <2>1, <2>2, <2>3, ActionIs DEF RowFits, FirstLoad
  <2> QED BY <2>5, <2>6
<1>3. CASE Agents!Refused \/ Agents!PostFails
  <2>1. /\ action.what \in RowSends /\ action' = Agents!NoAction /\ submitting' = FALSE
        /\ UNCHANGED modal
    BY <1>3 DEF Agents!Refused, Agents!PostFails
  <2>2. action.pair \in Pairs /\ rowsLoad = Agents!Ended /\ action # Agents!NoAction
    BY <1>1, <2>1, ActionIs DEF RowTypes, RowControl
  <2>3. /\ dv' = dv /\ unsure' = unsure
        \/ /\ dv' \in {dv, [dv EXCEPT ![action.pair] = Agents!Outcome(action.what)]}
           /\ unsure' = unsure \cup {action.pair}
    BY <1>3 DEF Agents!Refused, Agents!PostFails
  <2>4. dv' \in [Pairs -> Agents!Flags]
    BY <1>1, <2>2, <2>3 DEF RowTypes, Agents!Outcome, Agents!Flags
  <2>5. RowTypes' /\ RowControl'
    BY <1>1, <2>1, <2>2, <2>4, ActionIs DEF RowTypes, RowControl
  <2>6. ASSUME NEW p \in Pairs PROVE RowFits(p)'
    <3>1. p \notin unsure' => p \notin unsure /\ dv'[p] = dv[p]
      BY <1>1, <2>2, <2>3 DEF RowTypes
    <3> QED BY <1>1, <2>1, <2>2, <3>1, FetchIs, ActionIs DEF RowFits, FirstLoad
  <2> QED BY <2>5, <2>6
<1>4. CASE Agents!Post
  <2>1. /\ action.what \in RowSends /\ UNCHANGED <<modal, submitting, unsure>>
        /\ dv[action.pair] = IF action.what = "block" THEN "free" ELSE "blocked"
        /\ dv' = [dv EXCEPT ![action.pair] = Agents!Outcome(action.what)]
        /\ action' = [action EXCEPT !.what = IF action.what = "block" THEN "blocked" ELSE "unblocked"]
    BY <1>4 DEF Agents!Post
  <2>2. action.pair \in Pairs /\ rowsLoad = Agents!Ended /\ action # Agents!NoAction
    BY <1>1, <2>1, ActionIs DEF RowTypes, RowControl
  <2>3. action \in [what : RowSends \cup RowAnswers \cup {"fetch"}, pair : Pairs]
    BY <1>1, <2>2 DEF RowTypes, RowActions
  <2>4. /\ action' \in RowActions /\ action'.pair = action.pair
        /\ action'.what = IF action.what = "block" THEN "blocked" ELSE "unblocked"
    BY <2>1, <2>3 DEF RowActions
  <2>5. /\ dv' \in [Pairs -> Agents!Flags]
        /\ dv'[action.pair] = IF action.what = "block" THEN "blocked" ELSE "free"
        /\ \A p \in Pairs \ {action.pair} : dv'[p] = dv[p]
    BY <1>1, <2>1, <2>2 DEF RowTypes, Agents!Outcome, Agents!Flags
  <2>6. action' # Agents!NoAction
    BY <2>4, ActionIs
  <2>7. RowTypes' /\ RowControl'
    BY <1>1, <2>1, <2>2, <2>4, <2>5, <2>6 DEF RowTypes, RowControl
  <2>8. ASSUME NEW p \in Pairs PROVE RowFits(p)'
    <3>1. p \notin unsure => shownRows[p] = dv[p]
      BY <1>1, <2>1, <2>2 DEF RowFits, FirstLoad
    <3>2. CASE p = action.pair
      BY <1>1, <2>1, <2>2, <2>4, <2>5, <3>1, <3>2, FetchIs DEF RowFits
    <3>3. CASE p # action.pair
      BY <1>1, <2>1, <2>2, <2>4, <2>5, <3>1, <3>3, FetchIs DEF RowFits
    <3> QED BY <3>2, <3>3
  <2> QED BY <2>7, <2>8
<1> QED BY <1>2, <1>3, <1>4

\* The console patches its copy and fetches again.
LEMMA AnsweredSteps ==
    ASSUME AgentsConstantsFit, AgentsInv, Agents!Answered
    PROVE  RowTypes' /\ RowControl' /\ \A p \in Pairs : RowFits(p)'
<1> USE DEF RowAnswers, RowSends
<1>1. RowTypes /\ RowControl /\ \A p \in Pairs : RowFits(p)
  BY DEF AgentsInv
<1>2. /\ action.what \in RowAnswers /\ UNCHANGED <<dv, submitting, modal, unsure>>
      /\ shownRows' = [shownRows EXCEPT ![action.pair] =
                          IF shownRows[action.pair] = "hidden" THEN shownRows[action.pair]
                          ELSE IF action.what = "blocked" THEN "blocked" ELSE "free"]
      /\ action' = [action EXCEPT !.what = "fetch"] /\ rowsLoad' = Agents!Asked
  BY DEF Agents!Answered
<1>3. action.pair \in Pairs /\ rowsLoad = Agents!Ended /\ action # Agents!NoAction
  BY <1>1, <1>2, ActionIs DEF RowTypes, RowControl
<1>4. action \in [what : RowSends \cup RowAnswers \cup {"fetch"}, pair : Pairs]
  BY <1>1, <1>3 DEF RowTypes, RowActions
<1>5. action' \in RowActions /\ action'.what = "fetch" /\ action' # Agents!NoAction
  <2>1. action' \in RowActions /\ action'.what = "fetch"
    BY <1>2, <1>4 DEF RowActions
  <2> QED BY <2>1, ActionIs
<1>6. shownRows' \in [Pairs -> Agents!Flags]
  BY <1>1, <1>2, <1>3 DEF RowTypes, Agents!Flags
<1>7. RowTypes' /\ RowControl'
  BY <1>1, <1>2, <1>3, <1>5, <1>6, FetchIs DEF RowTypes, RowControl
<1>8. ASSUME NEW p \in Pairs PROVE RowFits(p)'
  <2>1. p \notin unsure => shownRows'[p] = dv[p]
    <3>1. CASE p = action.pair
      BY <1>1, <1>2, <1>3, <3>1 DEF RowFits, FirstLoad, RowTypes
    <3>2. CASE p # action.pair
      BY <1>1, <1>2, <1>3, <3>2 DEF RowFits, FirstLoad, RowTypes
    <3> QED BY <3>1, <3>2
  <2> QED BY <1>2, <1>5, <2>1, FetchIs DEF RowFits
<1> QED BY <1>7, <1>8

\* A row is changed elsewhere.
LEMMA PatchRowSteps ==
    ASSUME AgentsConstantsFit, AgentsInv, NEW q \in Pairs, Agents!PatchRow(q)
    PROVE  RowTypes' /\ RowControl' /\ \A p \in Pairs : RowFits(p)'
<1>1. RowTypes /\ RowControl /\ \A p \in Pairs : RowFits(p)
  BY DEF AgentsInv
<1>2. /\ unsure' = unsure \cup {q} /\ rowsLoad' = Agents!Noting(rowsLoad, q)
      /\ UNCHANGED <<shownRows, action, submitting, modal>>
  BY DEF Agents!PatchRow
<1>3. dv' \in [Pairs -> Agents!Flags] /\ \A p \in Pairs \ {q} : dv'[p] = dv[p]
  BY <1>1 DEF Agents!PatchRow, RowTypes
<1>4. /\ rowsLoad' \in Agents!Loads([Pairs -> Agents!Flags], Pairs)
      /\ rowsLoad'.at = "read" <=> rowsLoad.at = "read"
      /\ rowsLoad' = Agents!Ended <=> rowsLoad = Agents!Ended
      /\ rowsLoad.at = "read" =>
            rowsLoad'.value = rowsLoad.value /\ rowsLoad'.since = rowsLoad.since \cup {q}
  BY <1>1, <1>2, NotingIs DEF RowTypes
<1>5. RowTypes' /\ RowControl'
  BY <1>1, <1>2, <1>3, <1>4 DEF RowTypes, RowControl
<1>6. ASSUME NEW p \in Pairs PROVE RowFits(p)'
  BY <1>1, <1>2, <1>3, <1>4 DEF RowFits, FirstLoad
<1> QED BY <1>5, <1>6

LEMMA RowSteps ==
    ASSUME AgentsConstantsFit, AgentsInv,
           Agents!RowStep \/ Agents!Confirm \/ \E p \in Pairs : Agents!PatchRow(p)
    PROVE  AgentsInv'
<1>1. /\ CounterTypes' /\ BotTypes' /\ BotControl'
      /\ ~overlapped' => \A b \in Bots : BotFits(b)'
  BY RowStepsLeave
<1>2. RowTypes' /\ RowControl' /\ \A p \in Pairs : RowFits(p)'
  BY RowLoadSteps, RowActionSteps, AnsweredSteps, PatchRowSteps DEF Agents!RowStep
<1> QED BY <1>1, <1>2 DEF AgentsInv

(***************************************************************************)
(* The agents' console: bots                                               *)
(***************************************************************************)

\* What all steps on the bots leave.
LEMMA BotStepsLeave ==
    ASSUME AgentsConstantsFit, AgentsInv,
           UNCHANGED <<dv, shownRows, rowsLoad, action, submitting>>,
           modal' = modal \/ modal' = Agents!NoAction,
           actions' = actions \/ (actions < MaxActions /\ actions' = actions + 1),
           troubles' = troubles \/ Agents!Trouble,
           unsure' \subseteq Pairs \cup Bots, unsure \cap Pairs \subseteq unsure'
    PROVE  CounterTypes' /\ RowTypes' /\ RowControl' /\ \A p \in Pairs : RowFits(p)'
<1>1. CounterTypes'
  <2>1. actions' \in 0 .. MaxActions /\ troubles' \in 0 .. MaxTroubles
    BY DEF AgentsInv, CounterTypes, AgentsConstantsFit, Agents!Trouble
  <2> QED BY <2>1, ActionIs DEF AgentsInv, CounterTypes
<1>2. modal'.what \in RowSends => modal.what \in RowSends
  BY ActionIs DEF RowSends
<1> QED BY <1>1, <1>2, RowsStay

\* The fetches other than that of a page, and whose actions they end.
LEMMA FetchesAre ==
    ASSUME AgentsConstantsFit, AgentsInv, NEW f \in Fetches, botLoad[f] # Agents!Ended
    PROVE  \/ /\ f = Nobody /\ f \notin Ops /\ shownBots = Agents!Unloaded
              /\ \A o \in Ops : botAction[o] = Agents!NoAction
           \/ /\ f \in Ops /\ f # Nobody /\ shownBots # Agents!Unloaded
              /\ botAction[f] \in [what : {"fetch"}, pair : Bots]
              /\ botAction[f] # Agents!NoAction
<1>1. BotControl /\ \A o \in Ops : botAction[o] \in BotActions
  BY DEF AgentsInv, BotTypes
<1>2. CASE f = Nobody
  BY <1>1, <1>2 DEF BotControl, AgentsConstantsFit
<1>3. CASE f \in Ops
  <2>1. botAction[f].what = "fetch" /\ Nobody \notin Ops
    BY <1>1, <1>3 DEF BotControl, AgentsConstantsFit
  <2>2. botAction[f] # Agents!NoAction
    BY <2>1, ActionIs
  <2>3. botAction[f] \in [what : {"fetch"}, pair : Bots]
    BY <1>1, <1>3, <2>1, <2>2 DEF BotActions
  <2> QED BY <1>1, <1>3, <2>1, <2>2, <2>3 DEF BotControl
<1> QED BY <1>2, <1>3 DEF Fetches

LEMMA UnloadedIs ==
    ASSUME AgentsConstantsFit, NEW S \in SUBSET Bots
    PROVE  S # Agents!Unloaded
BY DEF AgentsConstantsFit, Agents!Unloaded

\* The server reads the bots for a fetch.
LEMMA BotReadSteps ==
    ASSUME AgentsConstantsFit, AgentsInv, NEW f \in Fetches, Agents!ServerReadsBots(f)
    PROVE  AgentsInv'
<1>1. BotTypes /\ BotControl /\ (~overlapped => \A b \in Bots : BotFits(b))
  BY DEF AgentsInv
<1>2. /\ botLoad[f] = Agents!Asked
      /\ botLoad' = [botLoad EXCEPT ![f] = Agents!Read(isolated)]
      /\ UNCHANGED <<isolated, shownBots, botAction, submittingBot, overlapped>>
      /\ UNCHANGED <<modal, actions, troubles, unsure>>
      /\ UNCHANGED <<dv, shownRows, rowsLoad, action, submitting>>
  BY DEF Agents!ServerReadsBots, Agents!rowVars
<1>3. /\ Agents!Read(isolated) \in Agents!Loads(SUBSET Bots, Bots)
      /\ Agents!Read(isolated) # Agents!Ended /\ Agents!Read(isolated).value = isolated
      /\ botLoad[f] # Agents!Ended
  BY <1>1, <1>2, ReadIs, FetchIs DEF BotTypes
<1>4. /\ botLoad' \in [Fetches -> Agents!Loads(SUBSET Bots, Bots)]
      /\ botLoad'[f] = Agents!Read(isolated)
      /\ \A other \in Fetches \ {f} : botLoad'[other] = botLoad[other]
  BY <1>1, <1>2, <1>3 DEF BotTypes
<1>5. BotTypes'
  BY <1>1, <1>2, <1>4 DEF BotTypes
<1>6. \A other \in Fetches : botLoad'[other] = Agents!Ended <=> botLoad[other] = Agents!Ended
  BY <1>3, <1>4
<1>7. BotControl'
  BY <1>1, <1>2, <1>6 DEF BotControl, Fetches
<1>8. ASSUME ~overlapped, NEW b \in Bots PROVE BotFits(b)'
  <2>1. ASSUME NEW other \in Fetches, botLoad'[other].at = "read", b \notin botLoad'[other].since
        PROVE  b \in botLoad'[other].value <=> b \in isolated
    BY <1>1, <1>3, <1>4, <1>8, <2>1 DEF BotFits
  <2>2. Answering(b)' <=> Answering(b)
    BY <1>2 DEF Answering
  <2> QED BY <1>1, <1>2, <1>8, <2>1, <2>2 DEF BotFits
<1>9. CounterTypes' /\ RowTypes' /\ RowControl' /\ \A p \in Pairs : RowFits(p)'
  <2>1. unsure \subseteq Pairs \cup Bots
    BY DEF AgentsInv, CounterTypes
  <2> QED BY <1>2, <2>1, BotStepsLeave
<1> QED BY <1>2, <1>5, <1>7, <1>8, <1>9 DEF AgentsInv

\* A fetch ends, and its action with it.
LEMMA EndFetchIs ==
    ASSUME AgentsConstantsFit, AgentsInv, NEW f \in Fetches, Agents!EndFetch(f)
    PROVE  /\ botLoad' \in [Fetches -> Agents!Loads(SUBSET Bots, Bots)]
           /\ botLoad'[f] = Agents!Ended
           /\ \A other \in Fetches \ {f} : botLoad'[other] = botLoad[other]
           /\ botAction' \in [Ops -> BotActions]
           /\ f \in Ops => botAction'[f] = Agents!NoAction
           /\ \A o \in Ops \ {f} : botAction'[o] = botAction[o]
           /\ submittingBot' \in Bots \cup {Nobody}
<1>1. BotTypes
  BY DEF AgentsInv
<1>2. Agents!Ended \in Agents!Loads(SUBSET Bots, Bots) /\ Agents!NoAction \in BotActions
  BY FetchIs, ActionIs
<1>3. /\ botLoad' = [botLoad EXCEPT ![f] = Agents!Ended]
      /\ botAction' = [o \in Ops |-> IF o = f THEN Agents!NoAction ELSE botAction[o]]
      /\ submittingBot' = IF f \in Ops THEN Nobody ELSE submittingBot
  BY DEF Agents!EndFetch
<1>4. /\ botLoad' \in [Fetches -> Agents!Loads(SUBSET Bots, Bots)]
      /\ botLoad'[f] = Agents!Ended
      /\ \A other \in Fetches \ {f} : botLoad'[other] = botLoad[other]
  BY <1>1, <1>2, <1>3 DEF BotTypes
<1>5. botAction' \in [Ops -> BotActions]
  BY <1>1, <1>2, <1>3 DEF BotTypes
<1>6. submittingBot' \in Bots \cup {Nobody}
  BY <1>1, <1>3 DEF BotTypes
<1> QED BY <1>3, <1>4, <1>5, <1>6

\* What is left of a fetch that ended, but for what is shown.
LEMMA EndFetchControl ==
    ASSUME AgentsConstantsFit, AgentsInv, NEW f \in Fetches, Agents!EndFetch(f),
           shownBots' = shownBots \/ shownBots' \subseteq Bots,
           shownBots = Agents!Unloaded /\ f # Nobody => shownBots' = shownBots,
           shownBots' = Agents!Unloaded => modal'.what \notin BotSends,
           overlapped' = overlapped
    PROVE  BotControl'
<1>1. BotTypes /\ BotControl
  BY DEF AgentsInv
<1>2. /\ botLoad'[f] = Agents!Ended
      /\ \A other \in Fetches \ {f} : botLoad'[other] = botLoad[other]
      /\ f \in Ops => botAction'[f] = Agents!NoAction
      /\ \A o \in Ops \ {f} : botAction'[o] = botAction[o]
  BY EndFetchIs
<1>3. shownBots' = Agents!Unloaded => shownBots = Agents!Unloaded
  BY UnloadedIs
<1>4. shownBots' = Agents!Unloaded => \A o \in Ops : botAction'[o] = Agents!NoAction
  BY <1>1, <1>2, <1>3 DEF BotControl
<1>5. shownBots' # Agents!Unloaded => botLoad'[Nobody] = Agents!Ended
  <2>1. CASE f = Nobody
    BY <1>2, <2>1
  <2>2. CASE f # Nobody
    BY <1>1, <1>2, <2>2 DEF BotControl, Fetches
  <2> QED BY <2>1, <2>2
<1>6. \A o \in Ops : botLoad'[o] # Agents!Ended <=> botAction'[o].what = "fetch"
  <2>1. Agents!NoAction.what # "fetch"
    BY ActionIs
  <2> QED BY <1>1, <1>2, <2>1 DEF BotControl, Fetches
<1>7. ~overlapped' =>
          \A o, other \in Ops :
              botAction'[o] # Agents!NoAction /\ botAction'[other] # Agents!NoAction => o = other
  BY <1>1, <1>2 DEF BotControl
<1> QED BY <1>4, <1>5, <1>6, <1>7 DEF BotControl

\* What a fetch brought is shown.
LEMMA BotsArriveSteps ==
    ASSUME AgentsConstantsFit, AgentsInv, NEW f \in Fetches, Agents!BotsArrive(f)
    PROVE  AgentsInv'
<1>1. BotTypes /\ BotControl /\ (~overlapped => \A b \in Bots : BotFits(b))
  BY DEF AgentsInv
<1>2. /\ botLoad[f].at = "read" /\ shownBots' = botLoad[f].value
      /\ unsure' = (unsure \ Bots) \cup botLoad[f].since /\ Agents!EndFetch(f)
      /\ UNCHANGED <<isolated, overlapped, modal, actions, troubles>>
      /\ UNCHANGED <<dv, shownRows, rowsLoad, action, submitting>>
  BY DEF Agents!BotsArrive, Agents!rowVars
<1>3. /\ botLoad[f].value \subseteq Bots /\ botLoad[f].since \subseteq Bots
      /\ botLoad[f] # Agents!Ended
  BY <1>1, <1>2, FetchIs DEF BotTypes
<1>4. /\ botLoad' \in [Fetches -> Agents!Loads(SUBSET Bots, Bots)]
      /\ botLoad'[f] = Agents!Ended
      /\ \A other \in Fetches \ {f} : botLoad'[other] = botLoad[other]
      /\ botAction' \in [Ops -> BotActions]
      /\ f \in Ops => botAction'[f] = Agents!NoAction
      /\ \A o \in Ops \ {f} : botAction'[o] = botAction[o]
      /\ submittingBot' \in Bots \cup {Nobody}
  BY <1>2, EndFetchIs
<1>5. BotTypes'
  BY <1>1, <1>2, <1>3, <1>4 DEF BotTypes
<1>6. BotControl'
  <2>1. shownBots' # Agents!Unloaded
    BY <1>2, <1>3, UnloadedIs
  <2>2. shownBots = Agents!Unloaded /\ f # Nobody => shownBots' = shownBots
    BY <1>3, FetchesAre
  <2> QED BY <1>2, <1>3, <2>1, <2>2, EndFetchControl
<1>7. ASSUME ~overlapped, NEW b \in Bots PROVE BotFits(b)'
  <2>1. b \notin unsure' => (b \in shownBots' <=> b \in isolated')
    BY <1>1, <1>2, <1>7 DEF BotFits
  <2>2. ASSUME NEW other \in Fetches, botLoad'[other].at = "read", b \notin botLoad'[other].since
        PROVE  b \in botLoad'[other].value <=> b \in isolated'
    <3>1. other # f
      BY <1>4, <2>2, FetchIs
    <3> QED BY <1>1, <1>2, <1>4, <1>7, <2>2, <3>1 DEF BotFits
  <2> QED BY <2>1, <2>2 DEF BotFits
<1>8. CounterTypes' /\ RowTypes' /\ RowControl' /\ \A p \in Pairs : RowFits(p)'
  <2>1. unsure' \subseteq Pairs \cup Bots /\ unsure \cap Pairs \subseteq unsure'
    BY <1>2, <1>3 DEF AgentsInv, CounterTypes, AgentsConstantsFit
  <2> QED BY <1>2, <2>1, BotStepsLeave
<1> QED BY <1>2, <1>5, <1>6, <1>7, <1>8 DEF AgentsInv

\* The bots are not loaded.
LEMMA BotsFailSteps ==
    ASSUME AgentsConstantsFit, AgentsInv, NEW f \in Fetches, Agents!BotsFail(f)
    PROVE  AgentsInv'
<1>1. BotTypes /\ BotControl /\ (~overlapped => \A b \in Bots : BotFits(b))
  BY DEF AgentsInv
<1>2. /\ botLoad[f] # Agents!Ended /\ Agents!Trouble /\ Agents!EndFetch(f)
      /\ UNCHANGED <<isolated, shownBots, overlapped, modal, actions, unsure>>
      /\ UNCHANGED <<dv, shownRows, rowsLoad, action, submitting>>
  BY DEF Agents!BotsFail, Agents!rowVars
<1>3. /\ botLoad' \in [Fetches -> Agents!Loads(SUBSET Bots, Bots)]
      /\ botLoad'[f] = Agents!Ended
      /\ \A other \in Fetches \ {f} : botLoad'[other] = botLoad[other]
      /\ botAction' \in [Ops -> BotActions]
      /\ f \in Ops => botAction'[f] = Agents!NoAction
      /\ \A o \in Ops \ {f} : botAction'[o] = botAction[o]
      /\ submittingBot' \in Bots \cup {Nobody}
  BY <1>2, EndFetchIs
<1>4. BotTypes'
  BY <1>1, <1>2, <1>3 DEF BotTypes
<1>5. BotControl'
  <2>1. shownBots' = Agents!Unloaded => modal'.what \notin BotSends
    BY <1>1, <1>2 DEF BotControl
  <2> QED BY <1>2, <2>1, EndFetchControl
<1>6. ASSUME ~overlapped, NEW b \in Bots PROVE BotFits(b)'
  <2>1. Answering(b) => Answering(b)'
    <3>1. ASSUME NEW o \in Ops, botAction[o].what = "answered", botAction[o].pair = b
          PROVE  Answering(b)'
      <4>1. o # f
        BY <1>1, <1>2, <3>1 DEF BotControl
      <4> QED BY <1>3, <3>1, <4>1 DEF Answering
    <3> QED BY <3>1 DEF Answering
  <2>2. ASSUME NEW other \in Fetches, botLoad'[other].at = "read", b \notin botLoad'[other].since
        PROVE  b \in botLoad'[other].value <=> b \in isolated'
    <3>1. other # f
      BY <1>3, <2>2, FetchIs
    <3> QED BY <1>1, <1>2, <1>3, <1>6, <2>2, <3>1 DEF BotFits
  <2> QED BY <1>1, <1>2, <1>6, <2>1, <2>2 DEF BotFits
<1>7. CounterTypes' /\ RowTypes' /\ RowControl' /\ \A p \in Pairs : RowFits(p)'
  <2>1. unsure' \subseteq Pairs \cup Bots /\ unsure \cap Pairs \subseteq unsure'
    BY <1>2 DEF AgentsInv, CounterTypes
  <2> QED BY <1>2, <2>1, BotStepsLeave
<1> QED BY <1>2, <1>4, <1>5, <1>6, <1>7 DEF AgentsInv

(***************************************************************************)
(* The agents' console: quarantines                                        *)
(***************************************************************************)

\* An action that is under way: the bots were loaded, and unless actions
\* overlapped, no fetch is under way but its own.
LEMMA ActionsAre ==
    ASSUME AgentsConstantsFit, AgentsInv, NEW o \in Ops, botAction[o] # Agents!NoAction
    PROVE  /\ botAction[o] \in [what : BotSends \cup {"answered", "fetch"}, pair : Bots]
           /\ shownBots \subseteq Bots /\ botLoad[Nobody] = Agents!Ended
           /\ ~overlapped => \A other \in Ops \ {o} : botAction[other] = Agents!NoAction
           /\ ~overlapped => \A f \in Fetches \ {o} : botLoad[f] = Agents!Ended
<1>1. BotTypes /\ BotControl
  BY DEF AgentsInv
<1>2. botAction[o] \in [what : BotSends \cup {"answered", "fetch"}, pair : Bots]
  BY <1>1 DEF BotTypes, BotActions
<1>3. shownBots \subseteq Bots /\ botLoad[Nobody] = Agents!Ended
  BY <1>1 DEF BotTypes, BotControl
<1>4. ~overlapped => \A other \in Ops \ {o} : botAction[other] = Agents!NoAction
  BY <1>1 DEF BotControl
<1>5. ASSUME ~overlapped, NEW f \in Fetches \ {o} PROVE botLoad[f] = Agents!Ended
  BY <1>1, <1>3, <1>4, <1>5, ActionIs DEF BotControl, Fetches
<1> QED BY <1>2, <1>3, <1>4, <1>5

\* What the other steps of quarantines leave.
LEMMA QuarantineStepsLeave ==
    ASSUME AgentsConstantsFit, AgentsInv,
           \/ \E o \in Ops : \/ Agents!ConfirmQuarantine(o) \/ Agents!PostQuarantine(o)
                             \/ Agents!QuarantineFails(o) \/ Agents!QuarantineAnswered(o)
           \/ \E b \in Bots : Agents!ElsewhereQuarantined(b)
    PROVE  CounterTypes' /\ RowTypes' /\ RowControl' /\ \A p \in Pairs : RowFits(p)'
<1>1. /\ UNCHANGED <<dv, shownRows, rowsLoad, action, submitting>>
      /\ modal' = modal \/ modal' = Agents!NoAction
      /\ actions' = actions \/ (actions < MaxActions /\ actions' = actions + 1)
      /\ troubles' = troubles \/ Agents!Trouble
  BY DEF Agents!ConfirmQuarantine, Agents!PostQuarantine, Agents!QuarantineFails,
         Agents!QuarantineAnswered, Agents!ElsewhereQuarantined, Agents!rowVars
<1>2. unsure' \subseteq Pairs \cup Bots /\ unsure \cap Pairs \subseteq unsure'
  <2>1. unsure \subseteq Pairs \cup Bots
    BY DEF AgentsInv, CounterTypes
  <2>2. ASSUME NEW o \in Ops, Agents!QuarantineFails(o)
        PROVE  unsure' = unsure \cup {botAction[o].pair} /\ botAction[o].pair \in Bots
    <3>1. botAction[o].what \in BotSends
      BY <2>2 DEF Agents!QuarantineFails, Agents!Sent, BotSends
    <3> QED BY <2>2, <3>1, ActionIs DEF Agents!QuarantineFails, AgentsInv, BotTypes
  <2>3. ASSUME NEW o \in Ops,
               \/ Agents!ConfirmQuarantine(o) \/ Agents!PostQuarantine(o)
               \/ Agents!QuarantineAnswered(o)
        PROVE  unsure' = unsure
    BY <2>3 DEF Agents!ConfirmQuarantine, Agents!PostQuarantine, Agents!QuarantineAnswered
  <2>4. ASSUME NEW b \in Bots, Agents!ElsewhereQuarantined(b)
        PROVE  unsure' = unsure \cup {b}
    BY <2>4 DEF Agents!ElsewhereQuarantined
  <2> QED BY <2>1, <2>2, <2>3, <2>4
<1> QED BY <1>1, <1>2, BotStepsLeave

LEMMA ConfirmQuarantineSteps ==
    ASSUME AgentsConstantsFit, AgentsInv, NEW o \in Ops, Agents!ConfirmQuarantine(o)
    PROVE  BotTypes' /\ BotControl' /\ (~overlapped' => \A b \in Bots : BotFits(b)')
<1>1. BotTypes /\ BotControl /\ (~overlapped => \A b \in Bots : BotFits(b)) /\ modal \in Modals
  BY DEF AgentsInv, CounterTypes
<1>2. /\ modal.what \in BotSends /\ botAction[o] = Agents!NoAction /\ modal' = Agents!NoAction
      /\ submittingBot' = modal.pair /\ botAction' = [botAction EXCEPT ![o] = modal]
      /\ overlapped' = (overlapped \/ \E other \in Ops : botAction[other] # Agents!NoAction)
      /\ UNCHANGED <<isolated, shownBots, botLoad, unsure>>
  BY DEF Agents!ConfirmQuarantine, BotSends
<1>3. modal \in [what : BotSends, pair : Bots] /\ modal \in BotActions /\ modal # Agents!NoAction
  BY <1>1, <1>2, ActionIs DEF BotActions, BotSends
<1>4. modal.what # "answered" /\ modal.what # "fetch" /\ Agents!NoAction.what \notin BotSends
  BY <1>2, ActionIs DEF BotSends
<1>5. /\ botAction' \in [Ops -> BotActions] /\ botAction'[o] = modal
      /\ \A other \in Ops \ {o} : botAction'[other] = botAction[other]
  BY <1>1, <1>2, <1>3 DEF BotTypes
<1>6. BotTypes'
  BY <1>1, <1>2, <1>3, <1>5 DEF BotTypes
<1>7. BotControl'
  <2>1. shownBots # Agents!Unloaded /\ botLoad[Nobody] = Agents!Ended
    BY <1>1, <1>2 DEF BotControl
  <2>2. \A x \in Ops : botLoad[x] # Agents!Ended <=> botAction'[x].what = "fetch"
    BY <1>1, <1>2, <1>4, <1>5, ActionIs DEF BotControl
  <2>3. ~overlapped' =>
            \A x, y \in Ops :
                botAction'[x] # Agents!NoAction /\ botAction'[y] # Agents!NoAction => x = y
    BY <1>2, <1>5
  <2> QED BY <1>2, <2>1, <2>2, <2>3 DEF BotControl
<1>8. ASSUME ~overlapped', NEW b \in Bots PROVE BotFits(b)'
  <2>1. ~overlapped
    BY <1>2, <1>8
  <2>2. Answering(b) => Answering(b)'
    BY <1>2, <1>5, ActionIs DEF Answering
  <2> QED BY <1>1, <1>2, <2>1, <2>2 DEF BotFits
<1> QED BY <1>6, <1>7, <1>8

\* What a quarantine does to the other bots.
LEMMA EffectIs ==
    ASSUME AgentsInv, NEW o \in Ops, botAction[o].pair \in Bots
    PROVE  /\ Agents!Effect(o) \subseteq Bots
           /\ \A b \in Bots \ {botAction[o].pair} : b \in Agents!Effect(o) <=> b \in isolated
BY DEF AgentsInv, BotTypes, Agents!Effect

LEMMA PostQuarantineSteps ==
    ASSUME AgentsConstantsFit, AgentsInv, NEW o \in Ops, Agents!PostQuarantine(o)
    PROVE  BotTypes' /\ BotControl' /\ (~overlapped' => \A b \in Bots : BotFits(b)')
<1>1. BotTypes /\ BotControl /\ (~overlapped => \A b \in Bots : BotFits(b))
  BY DEF AgentsInv
<1>2. /\ botAction[o].what \in BotSends /\ isolated' = Agents!Effect(o)
      /\ botAction' = [botAction EXCEPT ![o].what = "answered"]
      /\ UNCHANGED <<shownBots, botLoad, submittingBot, overlapped, modal, unsure>>
  BY DEF Agents!PostQuarantine, Agents!Sent, BotSends
<1>3. botAction[o] # Agents!NoAction /\ botAction[o].what # "fetch"
  BY <1>2, ActionIs DEF BotSends
<1>4. /\ botAction[o] \in [what : BotSends \cup {"answered", "fetch"}, pair : Bots]
      /\ shownBots \subseteq Bots /\ botLoad[Nobody] = Agents!Ended
      /\ ~overlapped => \A f \in Fetches \ {o} : botLoad[f] = Agents!Ended
  BY <1>3, ActionsAre
<1>5. /\ botAction' \in [Ops -> BotActions]
      /\ botAction'[o] = [what |-> "answered", pair |-> botAction[o].pair]
      /\ \A other \in Ops \ {o} : botAction'[other] = botAction[other]
  <2>1. [what |-> "answered", pair |-> botAction[o].pair] \in BotActions
    BY <1>4 DEF BotActions
  <2>2. [botAction[o] EXCEPT !.what = "answered"] = [what |-> "answered", pair |-> botAction[o].pair]
    BY <1>4
  <2>3. botAction' = [botAction EXCEPT ![o] = [botAction[o] EXCEPT !.what = "answered"]]
    BY <1>2
  <2> QED BY <1>1, <2>1, <2>2, <2>3 DEF BotTypes
<1>6. isolated' \subseteq Bots
  BY <1>2, <1>4, EffectIs
<1>7. BotTypes'
  BY <1>1, <1>2, <1>5, <1>6 DEF BotTypes
<1>8. BotControl'
  <2>1. shownBots # Agents!Unloaded
    BY <1>4, UnloadedIs
  <2>2. \A x \in Ops : botLoad[x] # Agents!Ended <=> botAction'[x].what = "fetch"
    BY <1>1, <1>3, <1>5 DEF BotControl
  <2>3. ASSUME ~overlapped, NEW x \in Ops, NEW y \in Ops, botAction'[x] # Agents!NoAction,
               botAction'[y] # Agents!NoAction
        PROVE  x = y
    BY <1>1, <1>3, <1>5, <2>3 DEF BotControl
  <2> QED BY <1>2, <1>4, <2>1, <2>2, <2>3 DEF BotControl
<1>9. ASSUME ~overlapped, NEW b \in Bots PROVE BotFits(b)'
  <2>1. ASSUME NEW f \in Fetches PROVE botLoad'[f].at # "read"
    <3>1. botLoad[o] = Agents!Ended
      BY <1>1, <1>3 DEF BotControl
    <3> QED BY <1>2, <1>4, <1>9, <3>1, FetchIs
  <2>2. Answering(b) => Answering(b)'
    BY <1>5 DEF Answering
  <2>3. b = botAction[o].pair => Answering(b)'
    BY <1>5 DEF Answering
  <2>4. b # botAction[o].pair => (b \in isolated' <=> b \in isolated)
    BY <1>2, <1>4, EffectIs
  <2> QED BY <1>1, <1>2, <1>9, <2>1, <2>2, <2>3, <2>4 DEF BotFits
<1> QED BY <1>2, <1>7, <1>8, <1>9

LEMMA QuarantineFailsSteps ==
    ASSUME AgentsConstantsFit, AgentsInv, NEW o \in Ops, Agents!QuarantineFails(o)
    PROVE  BotTypes' /\ BotControl' /\ (~overlapped' => \A b \in Bots : BotFits(b)')
<1>1. /\ BotTypes /\ BotControl /\ (~overlapped => \A b \in Bots : BotFits(b))
      /\ o \in Fetches
  BY DEF AgentsInv, Fetches
<1>2. /\ botAction[o].what \in BotSends /\ isolated' \in {isolated, Agents!Effect(o)}
      /\ unsure' = unsure \cup {botAction[o].pair} /\ Agents!EndFetch(o)
      /\ UNCHANGED <<shownBots, overlapped, modal>>
  BY DEF Agents!QuarantineFails, Agents!Sent, BotSends
<1>3. botAction[o] # Agents!NoAction /\ botAction[o].what \notin {"fetch", "answered"}
  BY <1>2, ActionIs DEF BotSends
<1>4. /\ botAction[o] \in [what : BotSends \cup {"answered", "fetch"}, pair : Bots]
      /\ ~overlapped => \A f \in Fetches \ {o} : botLoad[f] = Agents!Ended
  BY <1>3, ActionsAre
<1>5. /\ botLoad' \in [Fetches -> Agents!Loads(SUBSET Bots, Bots)]
      /\ botLoad'[o] = Agents!Ended
      /\ \A other \in Fetches \ {o} : botLoad'[other] = botLoad[other]
      /\ botAction' \in [Ops -> BotActions]
      /\ \A other \in Ops \ {o} : botAction'[other] = botAction[other]
      /\ submittingBot' \in Bots \cup {Nobody}
  BY <1>1, <1>2, EndFetchIs
<1>6. isolated' \subseteq Bots
  BY <1>1, <1>2, <1>4, EffectIs DEF BotTypes
<1>7. BotTypes'
  BY <1>1, <1>2, <1>5, <1>6 DEF BotTypes
<1>8. BotControl'
  <2>1. shownBots' = Agents!Unloaded => modal'.what \notin BotSends
    BY <1>1, <1>2 DEF BotControl
  <2> QED BY <1>1, <1>2, <2>1, EndFetchControl
<1>9. ASSUME ~overlapped, NEW b \in Bots PROVE BotFits(b)'
  <2>1. ASSUME NEW f \in Fetches PROVE botLoad'[f].at # "read"
    BY <1>4, <1>5, <1>9, FetchIs
  <2>2. Answering(b) => Answering(b)'
    BY <1>3, <1>5 DEF Answering
  <2>3. b # botAction[o].pair => (b \in isolated' <=> b \in isolated)
    BY <1>2, <1>4, EffectIs
  <2> QED BY <1>1, <1>2, <1>9, <2>1, <2>2, <2>3 DEF BotFits
<1> QED BY <1>2, <1>7, <1>8, <1>9

LEMMA QuarantineAnsweredSteps ==
    ASSUME AgentsConstantsFit, AgentsInv, NEW o \in Ops, Agents!QuarantineAnswered(o)
    PROVE  BotTypes' /\ BotControl' /\ (~overlapped' => \A b \in Bots : BotFits(b)')
<1>1. BotTypes /\ BotControl /\ (~overlapped => \A b \in Bots : BotFits(b))
  BY DEF AgentsInv
<1>2. /\ botAction[o].what = "answered"
      /\ shownBots' = (shownBots \ {botAction[o].pair}) \cup (isolated \cap {botAction[o].pair})
      /\ botAction' = [botAction EXCEPT ![o].what = "fetch"]
      /\ botLoad' = [botLoad EXCEPT ![o] = Agents!Asked]
      /\ UNCHANGED <<isolated, submittingBot, overlapped, modal, unsure>>
  BY DEF Agents!QuarantineAnswered
<1>3. botAction[o] # Agents!NoAction
  BY <1>2, ActionIs
<1>4. /\ botAction[o] \in [what : BotSends \cup {"answered", "fetch"}, pair : Bots]
      /\ shownBots \subseteq Bots /\ botLoad[Nobody] = Agents!Ended
  BY <1>3, ActionsAre
<1>5. /\ botAction' \in [Ops -> BotActions]
      /\ botAction'[o] = [what |-> "fetch", pair |-> botAction[o].pair]
      /\ \A other \in Ops \ {o} : botAction'[other] = botAction[other]
  <2>1. [what |-> "fetch", pair |-> botAction[o].pair] \in BotActions
    BY <1>4 DEF BotActions
  <2>2. [botAction[o] EXCEPT !.what = "fetch"] = [what |-> "fetch", pair |-> botAction[o].pair]
    BY <1>4
  <2>3. botAction' = [botAction EXCEPT ![o] = [botAction[o] EXCEPT !.what = "fetch"]]
    BY <1>2
  <2> QED BY <1>1, <2>1, <2>2, <2>3 DEF BotTypes
<1>6. /\ botLoad' \in [Fetches -> Agents!Loads(SUBSET Bots, Bots)]
      /\ botLoad'[o] = Agents!Asked
      /\ \A other \in Fetches \ {o} : botLoad'[other] = botLoad[other]
  <2>1. Agents!Asked \in Agents!Loads(SUBSET Bots, Bots) /\ o \in Fetches
    BY FetchIs DEF Fetches
  <2> QED BY <1>1, <1>2, <2>1 DEF BotTypes
<1>7. shownBots' \subseteq Bots /\ isolated \subseteq Bots
  BY <1>1, <1>2, <1>4 DEF BotTypes
<1>8. BotTypes'
  BY <1>1, <1>2, <1>5, <1>6, <1>7 DEF BotTypes
<1>9. BotControl'
  <2>1. shownBots' # Agents!Unloaded
    BY <1>7, UnloadedIs
  <2>2. botLoad'[Nobody] = Agents!Ended
    BY <1>4, <1>6 DEF Fetches, AgentsConstantsFit
  <2>3. \A x \in Ops : botLoad'[x] # Agents!Ended <=> botAction'[x].what = "fetch"
    BY <1>1, <1>5, <1>6, FetchIs DEF BotControl, Fetches
  <2>4. ASSUME ~overlapped, NEW x \in Ops, NEW y \in Ops, botAction'[x] # Agents!NoAction,
               botAction'[y] # Agents!NoAction
        PROVE  x = y
    BY <1>1, <1>3, <1>5, <2>4 DEF BotControl
  <2> QED BY <1>2, <2>1, <2>2, <2>3, <2>4 DEF BotControl
<1>10. ASSUME ~overlapped, NEW b \in Bots PROVE BotFits(b)'
  <2>1. ASSUME NEW f \in Fetches, botLoad'[f].at = "read", b \notin botLoad'[f].since
        PROVE  b \in botLoad'[f].value <=> b \in isolated
    BY <1>1, <1>6, <1>10, <2>1, FetchIs DEF BotFits
  <2>2. ASSUME b \notin unsure, ~Answering(b)' PROVE b \in shownBots' <=> b \in isolated
    <3>1. CASE b = botAction[o].pair
      BY <1>2, <3>1
    <3>2. CASE b # botAction[o].pair
      <4>1. ~Answering(b)
        BY <1>5, <2>2, <3>2 DEF Answering
      <4>2. shownBots # Agents!Unloaded
        BY <1>4, UnloadedIs
      <4> QED BY <1>1, <1>2, <1>10, <2>2, <3>2, <4>1, <4>2 DEF BotFits
    <3> QED BY <3>1, <3>2
  <2> QED BY <1>2, <2>1, <2>2 DEF BotFits
<1> QED BY <1>2, <1>8, <1>9, <1>10

\* A bot is quarantined, or released, elsewhere.
LEMMA ElsewhereSteps ==
    ASSUME AgentsConstantsFit, AgentsInv, NEW x \in Bots, Agents!ElsewhereQuarantined(x)
    PROVE  BotTypes' /\ BotControl' /\ (~overlapped' => \A b \in Bots : BotFits(b)')
<1>1. BotTypes /\ BotControl /\ (~overlapped => \A b \in Bots : BotFits(b))
  BY DEF AgentsInv
<1>2. /\ isolated' = (isolated \ {x}) \cup ({x} \ isolated) /\ unsure' = unsure \cup {x}
      /\ botLoad' = [f \in Fetches |-> Agents!Noting(botLoad[f], x)]
      /\ UNCHANGED <<shownBots, botAction, submittingBot, overlapped, modal>>
  BY <1>1 DEF Agents!ElsewhereQuarantined, BotTypes
<1>3. ASSUME NEW f \in Fetches
      PROVE  /\ botLoad'[f] \in Agents!Loads(SUBSET Bots, Bots)
             /\ botLoad'[f].at = "read" <=> botLoad[f].at = "read"
             /\ botLoad'[f] = Agents!Ended <=> botLoad[f] = Agents!Ended
             /\ botLoad[f].at = "read" => /\ botLoad'[f].value = botLoad[f].value
                                          /\ botLoad'[f].since = botLoad[f].since \cup {x}
  <2>1. botLoad[f] \in Agents!Loads(SUBSET Bots, Bots)
        /\ botLoad'[f] = Agents!Noting(botLoad[f], x)
    BY <1>1, <1>2 DEF BotTypes
  <2> QED BY <2>1, NotingIs
<1>4. BotTypes'
  BY <1>1, <1>2, <1>3 DEF BotTypes
<1>5. BotControl'
  BY <1>1, <1>2, <1>3 DEF BotControl, Fetches
<1>6. ASSUME ~overlapped, NEW b \in Bots PROVE BotFits(b)'
  <2>1. Answering(b)' <=> Answering(b)
    BY <1>2 DEF Answering
  <2>2. b # x => (b \in isolated' <=> b \in isolated)
    BY <1>2
  <2> QED BY <1>1, <1>2, <1>3, <1>6, <2>1, <2>2 DEF BotFits
<1> QED BY <1>2, <1>4, <1>5, <1>6

(***************************************************************************)
(* The agents' console: its invariant                                      *)
(***************************************************************************)

LEMMA AgentsInvInit == AgentsConstantsFit /\ Agents!Init => AgentsInv
<1> SUFFICES ASSUME AgentsConstantsFit, Agents!Init PROVE AgentsInv
  OBVIOUS
<1>1. /\ dv \in [Pairs -> Agents!Flags] /\ shownRows = [p \in Pairs |-> "hidden"]
      /\ rowsLoad = Agents!Asked /\ modal = Agents!NoAction /\ action = Agents!NoAction
      /\ submitting = FALSE /\ isolated \subseteq Bots /\ shownBots = Agents!Unloaded
      /\ botLoad = [f \in Fetches |-> IF f = Nobody THEN Agents!Asked ELSE Agents!Ended]
      /\ botAction = [o \in Ops |-> Agents!NoAction] /\ submittingBot = Nobody
      /\ actions = 0 /\ troubles = 0 /\ unsure = {} /\ overlapped = FALSE
  BY DEF Agents!Init, Fetches
<1>2. 0 \in 0 .. MaxActions /\ 0 \in 0 .. MaxTroubles
  BY DEF AgentsConstantsFit
<1>3. CounterTypes
  BY <1>1, <1>2, ActionIs DEF CounterTypes
<1>4. RowTypes
  <2>1. shownRows \in [Pairs -> Agents!Flags]
    BY <1>1 DEF Agents!Flags
  <2>2. rowsLoad \in Agents!Loads([Pairs -> Agents!Flags], Pairs)
    BY <1>1, FetchIs
  <2> QED BY <1>1, <2>1, <2>2, ActionIs DEF RowTypes
<1>5. BotTypes
  <2>1. Agents!Asked \in Agents!Loads(SUBSET Bots, Bots)
        /\ Agents!Ended \in Agents!Loads(SUBSET Bots, Bots)
    BY FetchIs
  <2>2. botLoad \in [Fetches -> Agents!Loads(SUBSET Bots, Bots)]
    BY <1>1, <2>1
  <2> QED BY <1>1, <2>2, ActionIs DEF BotTypes
<1>6. RowControl
  BY <1>1, ActionIs, FetchIs DEF RowControl, RowSends
<1>7. BotControl
  <2>1. \A o \in Ops : botLoad[o] = Agents!Ended
    BY <1>1 DEF Fetches, AgentsConstantsFit
  <2> QED BY <1>1, <2>1, ActionIs DEF BotControl, BotSends
<1>8. ASSUME NEW p \in Pairs PROVE RowFits(p)
  BY <1>1, FetchIs DEF RowFits, FirstLoad
<1>9. ASSUME NEW b \in Bots PROVE BotFits(b)
  <2>1. \A f \in Fetches : botLoad[f].at # "read"
    BY <1>1, FetchIs
  <2> QED BY <1>1, <2>1 DEF BotFits
<1> QED BY <1>3, <1>4, <1>5, <1>6, <1>7, <1>8, <1>9 DEF AgentsInv

LEMMA AgentsInvNext ==
    AgentsConstantsFit /\ AgentsInv /\ [Agents!Next]_(Agents!consoleVars) => AgentsInv'
<1> SUFFICES ASSUME AgentsConstantsFit, AgentsInv, [Agents!Next]_(Agents!consoleVars)
             PROVE  AgentsInv'
  OBVIOUS
<1>1. CASE \/ \E what \in RowSends, p \in Pairs : Agents!Ask(what, p)
           \/ \E b \in Bots : Agents!AskQuarantine(b)
           \/ Agents!Cancel
  BY <1>1, AskSteps
<1>2. CASE Agents!RowStep \/ Agents!Confirm \/ \E p \in Pairs : Agents!PatchRow(p)
  BY <1>2, RowSteps
<1>3. CASE \E f \in Fetches :
               Agents!ServerReadsBots(f) \/ Agents!BotsArrive(f) \/ Agents!BotsFail(f)
  BY <1>3, BotReadSteps, BotsArriveSteps, BotsFailSteps
<1>4. CASE \/ \E o \in Ops : \/ Agents!ConfirmQuarantine(o) \/ Agents!PostQuarantine(o)
                             \/ Agents!QuarantineFails(o) \/ Agents!QuarantineAnswered(o)
           \/ \E b \in Bots : Agents!ElsewhereQuarantined(b)
  <2>1. CounterTypes' /\ RowTypes' /\ RowControl' /\ \A p \in Pairs : RowFits(p)'
    BY <1>4, QuarantineStepsLeave
  <2>2. BotTypes' /\ BotControl' /\ (~overlapped' => \A b \in Bots : BotFits(b)')
    BY <1>4, ConfirmQuarantineSteps, PostQuarantineSteps, QuarantineFailsSteps,
       QuarantineAnsweredSteps, ElsewhereSteps
  <2> QED BY <2>1, <2>2 DEF AgentsInv
<1>5. CASE UNCHANGED Agents!consoleVars
  <2>1. /\ UNCHANGED <<dv, shownRows, rowsLoad, action, submitting>>
        /\ UNCHANGED <<isolated, shownBots, botLoad, botAction, submittingBot, overlapped>>
        /\ UNCHANGED <<modal, actions, troubles, unsure>>
    BY <1>5 DEF Agents!consoleVars, Agents!rowVars, Agents!botVars
  <2>2. CounterTypes'
    BY <2>1 DEF AgentsInv, CounterTypes
  <2> QED BY <2>1, <2>2, RowsStay, BotsStay DEF AgentsInv
<1> QED BY <1>1, <1>2, <1>3, <1>4, <1>5 DEF Agents!Next, Fetches, RowSends

LEMMA AgentsInvTypes == AgentsConstantsFit /\ AgentsInv => Agents!TypeOK
<1> SUFFICES ASSUME AgentsConstantsFit, AgentsInv PROVE Agents!TypeOK
  OBVIOUS
<1>1. CounterTypes /\ RowTypes /\ BotTypes
  BY DEF AgentsInv
<1>2. Agents!NoAction.pair = Nobody
  BY DEF Agents!NoAction
<1>3. modal.pair \in Pairs \cup Bots \cup {Nobody}
  BY <1>1, <1>2 DEF CounterTypes, Modals
<1>4. action.pair \in Pairs \cup Bots \cup {Nobody}
  BY <1>1, <1>2 DEF RowTypes, RowActions
<1>5. ASSUME NEW o \in Ops PROVE botAction[o].pair \in Pairs \cup Bots \cup {Nobody}
  <2>1. botAction[o] \in BotActions
    BY <1>1 DEF BotTypes
  <2> QED BY <1>2, <2>1 DEF BotActions
<1>6. \A a \in {modal, action} \cup {botAction[o] : o \in Ops} :
          a.pair \in Pairs \cup Bots \cup {Nobody}
  BY <1>3, <1>4, <1>5
<1>7. \A f \in Ops \cup {Nobody} : botLoad[f] \in Agents!Loads(SUBSET Bots, Bots)
  BY <1>1 DEF BotTypes, Fetches
<1> QED BY <1>1, <1>6, <1>7 DEF Agents!TypeOK, CounterTypes, RowTypes, BotTypes

LEMMA AgentsInvHolds == AgentsInv => Agents!RowsAreCurrent /\ Agents!BotsAreCurrent
<1> SUFFICES ASSUME AgentsInv PROVE Agents!RowsAreCurrent /\ Agents!BotsAreCurrent
  OBVIOUS
<1>1. Agents!RowsAreCurrent
  <2> SUFFICES ASSUME rowsLoad = Agents!Ended, action = Agents!NoAction, NEW p \in Pairs \ unsure
               PROVE  shownRows[p] = dv[p]
    BY DEF Agents!RowsAreCurrent, Agents!Quiet
  <2>1. Agents!NoAction.what \notin RowAnswers
    BY ActionIs DEF RowAnswers
  <2> QED BY <2>1 DEF AgentsInv, RowFits, FirstLoad
<1>2. Agents!BotsAreCurrent
  <2> SUFFICES ASSUME \A o \in Ops : botAction[o] = Agents!NoAction, shownBots # Agents!Unloaded,
                      ~overlapped, NEW b \in Bots \ unsure
               PROVE  b \in shownBots <=> b \in isolated
    BY DEF Agents!BotsAreCurrent
  <2>1. ~Answering(b)
    BY ActionIs DEF Answering
  <2> QED BY <2>1 DEF AgentsInv, BotFits
<1> QED BY <1>1, <1>2

(***************************************************************************)
(* The job console: jobs and forms                                         *)
(***************************************************************************)

LEMMA FormsAre ==
    ASSUME JobsConstantsFit
    PROVE  /\ JobPages!NoForm \in Forms /\ JobPages!NoForm.phase \notin JobPages!Phases
           /\ JobPages!NoForm.op \notin JobPages!FormOps
           /\ \A f \in Forms :
                 f # JobPages!NoForm \/ f.phase \in JobPages!Phases \/ f.op \in JobPages!FormOps =>
                     f \in [op : JobPages!FormOps, job : Jobs, phase : JobPages!Phases]
BY DEF JobsConstantsFit, Forms, JobPages!NoForm, JobPages!Phases, JobPages!FormOps

\* A form that goes on.
LEMMA FormGoes ==
    ASSUME JobsConstantsFit, JobTypes, NEW s \in JobPages!Slots, form[s].op \in JobPages!FormOps,
           NEW phase \in JobPages!Phases, form' = [form EXCEPT ![s].phase = phase]
    PROVE  /\ form' \in [JobPages!Slots -> Forms]
           /\ form'[s].op = form[s].op /\ form'[s].job = form[s].job /\ form'[s].phase = phase
           /\ \A other \in JobPages!Slots \ {s} : form'[other] = form[other]
<1> DEFINE new == [form[s] EXCEPT !.phase = phase]
<1>1. form[s] \in [op : JobPages!FormOps, job : Jobs, phase : JobPages!Phases]
  BY FormsAre DEF JobTypes
<1>2. new \in Forms /\ new.op = form[s].op /\ new.job = form[s].job /\ new.phase = phase
  BY <1>1 DEF Forms
<1>3. form' = [form EXCEPT ![s] = new]
  OBVIOUS
<1> HIDE DEF new
<1> QED BY <1>2, <1>3 DEF JobTypes

LEMMA RowsAre ==
    ASSUME NEW r \in JobPages!JobRows
    PROVE  /\ \A run \in {"running", "done"} :
                 /\ [r EXCEPT !.run = run] \in JobPages!JobRows
                 /\ [r EXCEPT !.run = run].enabled = r.enabled
                 /\ [r EXCEPT !.run = run].schedule = r.schedule
           /\ \A s \in {"none", "enabled", "paused"} :
                 /\ [r EXCEPT !.schedule = s] \in JobPages!JobRows
                 /\ [r EXCEPT !.schedule = s].enabled = r.enabled
                 /\ [r EXCEPT !.schedule = s].schedule = s
           /\ \A b \in BOOLEAN :
                 /\ [r EXCEPT !.enabled = b] \in JobPages!JobRows
                 /\ [r EXCEPT !.enabled = b].enabled = b
                 /\ [r EXCEPT !.enabled = b].schedule = r.schedule
BY DEF JobPages!JobRows

LEMMA NotIs ==
    ASSUME NEW b
    PROVE  (~b) \in BOOLEAN
OBVIOUS

\* One of the jobs changes.
LEMMA JobChanges ==
    ASSUME JobTypes, NEW x \in Jobs, NEW row \in JobPages!JobRows,
           job' = [job EXCEPT ![x] = row]
    PROVE  /\ job' \in [Jobs -> JobPages!JobRows]
           /\ \A j \in Jobs : job'[j] = IF j = x THEN row ELSE job[j]
BY DEF JobTypes

\* A run begins or ends.
LEMMA RunIs ==
    ASSUME JobTypes, NEW x \in Jobs, NEW run \in {"running", "done"},
           job' = [job EXCEPT ![x].run = run]
    PROVE  /\ job' \in [Jobs -> JobPages!JobRows]
           /\ \A j \in Jobs : job'[j].schedule = job[j].schedule /\ job'[j].enabled = job[j].enabled
<1> DEFINE row == [job[x] EXCEPT !.run = run]
<1>1. /\ row \in JobPages!JobRows /\ row.enabled = job[x].enabled
      /\ row.schedule = job[x].schedule
  <2>1. job[x] \in JobPages!JobRows
    BY DEF JobTypes
  <2> QED BY <2>1 DEF JobPages!JobRows
<1>2. job' = [job EXCEPT ![x] = row]
  OBVIOUS
<1> HIDE DEF row
<1> QED BY <1>1, <1>2, JobChanges

\* What the steps do to the license, the database and the bound.
LEMMA JobCounters ==
    ASSUME JobsConstantsFit, JobsInv, JobPages!Next
    PROVE  licensed' \in BOOLEAN /\ dbUp' \in BOOLEAN /\ events' \in 0 .. MaxEvents
<1> USE DEF JobPages!Refuse, JobPages!FormFails, JobPages!RunNow, JobPages!PauseSchedule,
            JobPages!ResumeSchedule, JobPages!ResumeJob, JobPages!Confirm, JobPages!Goes,
            JobPages!FormTimesOut, JobPages!LicenseChanges, JobPages!DbFails,
            JobPages!DbReturns, JobPages!Answers, JobPages!Poll, JobPages!PollArrives,
            JobPages!ServerReads, JobPages!Open, JobPages!Click, JobPages!SchedulerRuns,
            JobPages!RunEnds, JobPages!EditSchedule, JobPages!ToggleJob, JobPages!Elsewhere,
            JobPages!Event
<1>1. licensed' \in {licensed, ~licensed} /\ dbUp' \in {dbUp, TRUE, FALSE}
  BY DEF JobPages!Next
<1>2. events' = events \/ (events < MaxEvents /\ events' = events + 1)
  BY DEF JobPages!Next
<1> HIDE DEF JobPages!Refuse, JobPages!FormFails, JobPages!RunNow, JobPages!PauseSchedule,
             JobPages!ResumeSchedule, JobPages!ResumeJob, JobPages!Confirm, JobPages!Goes,
             JobPages!FormTimesOut, JobPages!LicenseChanges, JobPages!DbFails,
             JobPages!DbReturns, JobPages!Answers, JobPages!Poll, JobPages!PollArrives,
             JobPages!ServerReads, JobPages!Open, JobPages!Click, JobPages!SchedulerRuns,
             JobPages!RunEnds, JobPages!EditSchedule, JobPages!ToggleJob, JobPages!Elsewhere,
             JobPages!Event
<1>3. licensed' \in BOOLEAN /\ dbUp' \in BOOLEAN
  BY <1>1 DEF JobsInv, JobTypes
<1>4. events' \in 0 .. MaxEvents
  BY <1>2 DEF JobsInv, JobTypes, JobsConstantsFit
<1> QED BY <1>3, <1>4

JobFits ==
    /\ job \in [Jobs -> JobPages!JobRows] /\ left \subseteq Jobs /\ told \in [Jobs -> Answered]
    /\ form \in [JobPages!Slots -> Forms] /\ FormInv

LEMMA JobFitsNow ==
    ASSUME JobsInv
    PROVE  JobTypes /\ JobFits /\ FormInv
BY DEF JobsInv, JobTypes, JobFits

LEMMA SlotsAre ==
    /\ "tab" \in JobPages!Slots /\ "late" \in JobPages!Slots
    /\ \A s \in JobPages!Slots : s \in {"tab", "late"}
    /\ \A s \in JobPages!Slots : s # "admin"
BY DEF JobPages!Slots

\* The forms but one stay: a job that is stuck is known to be.
LEMMA StuckFollows ==
    ASSUME JobsInv, NEW s \in JobPages!Slots,
           \A other \in JobPages!Slots \ {s} : form'[other] = form[other],
           NEW j \in Jobs, j \in left => j \in left' \/ ~Stuck(j)' \/ Half(s, j)',
           Stuck(j)' => j \in left' \/ Half(s, j)' \/ (Stuck(j) /\ ~Half(s, j))
    PROVE  StuckIsKnown(j)'
<1> SUFFICES ASSUME Stuck(j)', j \notin left', ~Half(s, j)'
             PROVE  \E t \in JobPages!Slots : Half(t, j)'
  BY DEF StuckIsKnown
<1>1. Stuck(j) /\ ~Half(s, j) /\ j \notin left
  OBVIOUS
<1>2. PICK t \in JobPages!Slots : Half(t, j)
  BY <1>1, JobFitsNow DEF FormInv, StuckIsKnown
<1> QED BY <1>1, <1>2 DEF Half

\* Nobody wrote what was answered of a job.
LEMMA SaidFollows ==
    ASSUME JobsConstantsFit, JobsInv, NEW j \in Jobs, told'[j] \in {None, told[j]},
           told'[j] # None => /\ job'[j].schedule = job[j].schedule
                              /\ job[j].enabled => job'[j].enabled,
           told'[j] = "tab" => form'["tab"] = form["tab"]
    PROVE  Said(j)'
<1>1. Said(j) /\ None \notin {"tab", "pause", "resume"}
  BY JobFitsNow DEF FormInv, JobsConstantsFit
<1> QED BY <1>1 DEF Said, PauseHolds, ResumeHolds

\* A form, or an admin, writes the schedule or the job.
LEMMA WritesAre ==
    ASSUME JobsConstantsFit, JobsInv, NEW x \in Jobs, NEW row \in JobPages!JobRows, NEW who,
           JobPages!Writes(x, row, who)
    PROVE  /\ job' \in [Jobs -> JobPages!JobRows]
           /\ \A j \in Jobs : job'[j] = IF j = x THEN row ELSE job[j]
           /\ told' \in [Jobs -> Answered]
           /\ told'[x] = IF who = "tab" THEN "tab" ELSE None
           /\ \A j \in Jobs \ {x} : told'[j] = told[j]
           /\ left' \subseteq Jobs
           /\ \A j \in left : j \in left' \/ (j = x /\ ~Stuck(j)')
           /\ who = "admin" /\ Stuck(x)' => x \in left'
<1>1. JobTypes /\ job' = [job EXCEPT ![x] = row]
      /\ told' = [told EXCEPT ![x] = IF who = "tab" THEN who ELSE None]
  BY JobFitsNow DEF JobPages!Writes
<1>2. /\ job' \in [Jobs -> JobPages!JobRows]
      /\ \A j \in Jobs : job'[j] = IF j = x THEN row ELSE job[j]
  BY <1>1, JobChanges
<1>3. /\ told' \in [Jobs -> Answered]
      /\ told'[x] = IF who = "tab" THEN "tab" ELSE None
      /\ \A j \in Jobs \ {x} : told'[j] = told[j]
  BY <1>1 DEF JobTypes, Answered
<1>4. \/ ~JobPages!Stuck(row) /\ left' = left \ {x}
      \/ JobPages!Stuck(row) /\ who = "admin" /\ left' = left \cup {x}
      \/ JobPages!Stuck(row) /\ who # "admin" /\ left' = left
  BY DEF JobPages!Writes
<1>5. Stuck(x)' <=> JobPages!Stuck(row)
  BY <1>2 DEF Stuck, JobPages!Stuck
<1>6. left \subseteq Jobs
  BY <1>1 DEF JobTypes
<1> QED BY <1>2, <1>3, <1>4, <1>5, <1>6

LEMMA NoFormIs ==
    ASSUME JobsConstantsFit, JobsInv, NEW s \in JobPages!Slots,
           form' = [form EXCEPT ![s] = JobPages!NoForm]
    PROVE  /\ form' \in [JobPages!Slots -> Forms] /\ form'[s] = JobPages!NoForm
           /\ \A other \in JobPages!Slots \ {s} : form'[other] = form[other]
           /\ \A t \in JobPages!Slots : PhaseFits(t)'
<1>1. /\ form' \in [JobPages!Slots -> Forms] /\ form'[s] = JobPages!NoForm
      /\ \A other \in JobPages!Slots \ {s} : form'[other] = form[other]
  BY JobFitsNow, FormsAre DEF JobTypes
<1>2. PhaseFits(s)'
  BY <1>1, FormsAre DEF PhaseFits, JobPages!Phases
<1>3. ASSUME NEW t \in JobPages!Slots, t # s PROVE PhaseFits(t)'
  BY <1>1, <1>3, JobFitsNow DEF FormInv, PhaseFits
<1> QED BY <1>1, <1>2, <1>3

\* Nothing is said to be done yet by a form that has not written.
LEMMA TabIs ==
    ASSUME JobsConstantsFit, JobsInv, NEW j \in Jobs, told[j] = "tab"
    PROVE  /\ form["tab"].phase \in {"halfway", "written"} /\ form["tab"].job = j
           /\ form["tab"].op \in {"pause", "resume"}
BY JobFitsNow DEF FormInv, Said

\* A form ends that has not written all: the license refuses it, the database
\* fails it, or it only starts a run.
LEMMA FormEnds ==
    ASSUME JobsConstantsFit, JobsInv, NEW s \in JobPages!Slots,
           JobPages!Refuse(s) \/ JobPages!FormFails(s) \/ JobPages!RunNow(s)
    PROVE  JobFits' /\ JobPages!Done(s)
<1> DEFINE x == form[s].job
<1>1. JobTypes /\ JobPages!Done(s) /\ form' = [form EXCEPT ![s] = JobPages!NoForm]
  BY JobFitsNow DEF JobPages!Refuse, JobPages!FormFails, JobPages!RunNow, JobPages!Done
<1>2. CASE JobPages!Refuse(s)
  <2>1. form[s].phase = "posted" /\ UNCHANGED <<job, told, left>>
    BY <1>2 DEF JobPages!Refuse, JobPages!At
  <2>2. ASSUME NEW j \in Jobs PROVE StuckIsKnown(j)' /\ Said(j)'
    <3>1. StuckIsKnown(j)'
      BY <1>1, <2>1, NoFormIs, StuckFollows DEF Stuck, Half
    <3>2. told[j] = "tab" => form'["tab"] = form["tab"]
      BY <1>1, <2>1, NoFormIs, TabIs, SlotsAre
    <3>3. Said(j)'
      BY <2>1, <3>2, SaidFollows
    <3> QED BY <3>1, <3>3
  <2> QED BY <1>1, <2>1, <2>2, NoFormIs DEF JobFits, FormInv, JobTypes
<1>3. CASE JobPages!FormFails(s)
  <2>1. /\ form[s] # JobPages!NoForm /\ UNCHANGED job
        /\ told' = IF s = "tab" THEN JobPages!Unsaid ELSE told
        /\ left' = IF form[s].phase = "halfway" /\ Stuck(x) THEN left \cup {x} ELSE left
    BY <1>3 DEF JobPages!FormFails, JobPages!At, Stuck, JobPages!Stuck
  <2>2. x \in Jobs
    BY <1>1, <2>1, FormsAre DEF JobTypes
  <2>3. /\ told' \in [Jobs -> Answered] /\ \A j \in Jobs : told'[j] \in {None, told[j]}
        /\ s = "tab" => \A j \in Jobs : told'[j] # "tab"
    BY <1>1, <2>1 DEF JobTypes, JobPages!Unsaid, Answered, JobsConstantsFit
  <2>4. ASSUME NEW j \in Jobs PROVE StuckIsKnown(j)' /\ Said(j)'
    <3>1. StuckIsKnown(j)'
      BY <1>1, <2>1, NoFormIs, StuckFollows DEF Stuck, Half
    <3>2. told'[j] = "tab" => form'["tab"] = form["tab"]
      BY <1>1, <2>3, NoFormIs, SlotsAre
    <3>3. Said(j)'
      BY <2>1, <2>3, <3>2, SaidFollows
    <3> QED BY <3>1, <3>3
  <2>5. left' \subseteq Jobs
    BY <1>1, <2>1, <2>2 DEF JobTypes
  <2> QED BY <1>1, <2>1, <2>3, <2>4, <2>5, NoFormIs DEF JobFits, FormInv, JobTypes
<1>4. CASE JobPages!RunNow(s)
  <2>1. /\ form[s].op = "runNow" /\ UNCHANGED <<told, left>>
        /\ job' = [job EXCEPT ![x].run = "running"]
    BY <1>4 DEF JobPages!RunNow
  <2>2. x \in Jobs
    BY <1>1, <2>1, FormsAre DEF JobTypes, JobPages!FormOps
  <2>3. /\ job' \in [Jobs -> JobPages!JobRows]
        /\ \A j \in Jobs : job'[j].schedule = job[j].schedule /\ job'[j].enabled = job[j].enabled
    BY <1>1, <2>1, <2>2, RunIs
  <2>4. \A j \in Jobs : ~Half(s, j)
    BY <2>1, JobFitsNow DEF FormInv, PhaseFits, Half
  <2>5. ASSUME NEW j \in Jobs PROVE StuckIsKnown(j)' /\ Said(j)'
    <3>1. StuckIsKnown(j)'
      BY <1>1, <2>1, <2>3, <2>4, NoFormIs, StuckFollows DEF Stuck
    <3>2. told[j] = "tab" => form'["tab"] = form["tab"]
      BY <1>1, <2>1, NoFormIs, TabIs, SlotsAre
    <3>3. Said(j)'
      BY <2>1, <2>3, <3>2, SaidFollows
    <3> QED BY <3>1, <3>3
  <2> QED BY <1>1, <2>1, <2>3, <2>5, NoFormIs DEF JobFits, FormInv, JobTypes
<1> QED BY <1>1, <1>2, <1>3, <1>4

\* The first transaction of a resume, or the one of a pause.
LEMMA ScheduleSteps ==
    ASSUME JobsConstantsFit, JobsInv, NEW s \in JobPages!Slots,
           JobPages!PauseSchedule(s) \/ JobPages!ResumeSchedule(s)
    PROVE  JobFits' /\ UNCHANGED <<page, shown, polls>>
<1> DEFINE x == form[s].job
           pausing == form[s].op = "pause"
           row == [job[x] EXCEPT !.schedule = IF pausing THEN "paused" ELSE "enabled"]
           phase == IF pausing THEN "written" ELSE "halfway"
<1>1. /\ JobTypes /\ form[s].op \in {"pause", "resume"} /\ form[s].phase = "posted"
      /\ JobPages!Writes(x, row, s) /\ JobPages!Goes(s, phase)
  BY JobFitsNow DEF JobPages!PauseSchedule, JobPages!ResumeSchedule, JobPages!At
<1>2. x \in Jobs
  BY <1>1, FormsAre DEF JobTypes, JobPages!FormOps
<1>3. row \in JobPages!JobRows /\ row.schedule = IF pausing THEN "paused" ELSE "enabled"
  <2>1. job[x] \in JobPages!JobRows
    BY <1>1, <1>2 DEF JobTypes
  <2> HIDE DEF x
  <2>2. CASE pausing
    BY <2>1, <2>2 DEF JobPages!JobRows
  <2>3. CASE ~pausing
    BY <2>1, <2>3 DEF JobPages!JobRows
  <2> QED BY <2>2, <2>3
<1>4. /\ form' \in [JobPages!Slots -> Forms] /\ UNCHANGED <<page, shown, polls>>
      /\ form'[s].op = form[s].op /\ form'[s].job = x /\ form'[s].phase = phase
      /\ \A other \in JobPages!Slots \ {s} : form'[other] = form[other]
  BY <1>1, FormGoes DEF JobPages!Goes, JobPages!FormOps, JobPages!Phases
<1> HIDE DEF row
<1>5. /\ job' \in [Jobs -> JobPages!JobRows]
      /\ \A j \in Jobs : job'[j] = IF j = x THEN row ELSE job[j]
      /\ told' \in [Jobs -> Answered] /\ left' \subseteq Jobs
      /\ told'[x] = IF s = "tab" THEN "tab" ELSE None
      /\ \A j \in Jobs \ {x} : told'[j] = told[j]
      /\ \A j \in left : j \in left' \/ (j = x /\ ~Stuck(j)')
  BY <1>1, <1>2, <1>3, WritesAre
<1>6. ASSUME NEW t \in JobPages!Slots PROVE PhaseFits(t)'
  <2>1. CASE t = s
    BY <1>1, <1>4, <2>1 DEF PhaseFits
  <2>2. CASE t # s
    BY <1>4, <2>2, JobFitsNow DEF FormInv, PhaseFits
  <2> QED BY <2>1, <2>2
<1>7. ASSUME NEW j \in Jobs PROVE StuckIsKnown(j)'
  <2>1. CASE j = x
    <3>1. Stuck(j)' => Half(s, j)'
      BY <1>1, <1>3, <1>4, <1>5, <2>1 DEF Stuck, Half
    <3> QED BY <1>4, <1>5, <2>1, <3>1, StuckFollows
  <2>2. CASE j # x
    <3>1. Stuck(j)' => Stuck(j) /\ ~Half(s, j)
      BY <1>1, <1>5, <2>2 DEF Stuck, Half
    <3> QED BY <1>4, <1>5, <2>2, <3>1, StuckFollows
  <2> QED BY <2>1, <2>2
<1>8. ASSUME NEW j \in Jobs PROVE Said(j)'
  <2>1. CASE j = x /\ s = "tab"
    BY <1>1, <1>3, <1>4, <1>5, <2>1 DEF Said, PauseHolds, ResumeHolds
  <2>2. CASE j = x /\ s # "tab"
    <3>1. told'[j] = None
      BY <1>5, <2>2
    <3> QED BY <3>1 DEF Said, JobsConstantsFit
  <2>3. CASE j # x
    <3>1. told'[j] = "tab" => form'["tab"] = form["tab"]
      BY <1>1, <1>4, <1>5, <2>3, TabIs, SlotsAre
    <3> QED BY <1>5, <2>3, <3>1, SaidFollows
  <2> QED BY <2>1, <2>2, <2>3
<1> QED BY <1>4, <1>5, <1>6, <1>7, <1>8 DEF JobFits, FormInv

\* The second transaction of a resume.
LEMMA ResumeJobSteps ==
    ASSUME JobsConstantsFit, JobsInv, NEW s \in JobPages!Slots, JobPages!ResumeJob(s)
    PROVE  JobFits' /\ UNCHANGED <<page, shown, polls>>
<1> DEFINE x == form[s].job
           row == [job[x] EXCEPT !.enabled = TRUE]
<1>1. /\ JobTypes /\ form[s].op = "resume" /\ form[s].phase = "halfway"
      /\ job' = [job EXCEPT ![x] = row] /\ left' = left \ {x} /\ UNCHANGED told
      /\ JobPages!Goes(s, "written")
  BY JobFitsNow DEF JobPages!ResumeJob, JobPages!At, FormInv, PhaseFits
<1>2. x \in Jobs
  BY <1>1, FormsAre DEF JobTypes, JobPages!FormOps
<1>3. row \in JobPages!JobRows /\ row.schedule = job[x].schedule /\ row.enabled
  BY <1>1, <1>2, RowsAre DEF JobTypes
<1>4. /\ form' \in [JobPages!Slots -> Forms] /\ UNCHANGED <<page, shown, polls>>
      /\ form'[s].op = form[s].op /\ form'[s].job = x /\ form'[s].phase = "written"
      /\ \A other \in JobPages!Slots \ {s} : form'[other] = form[other]
  BY <1>1, FormGoes DEF JobPages!Goes, JobPages!FormOps, JobPages!Phases
<1> HIDE DEF row
<1>5. /\ job' \in [Jobs -> JobPages!JobRows]
      /\ \A j \in Jobs : job'[j] = IF j = x THEN row ELSE job[j]
  BY <1>1, <1>2, <1>3, JobChanges
<1>6. ASSUME NEW t \in JobPages!Slots PROVE PhaseFits(t)'
  <2>1. CASE t = s
    BY <1>1, <1>4, <2>1 DEF PhaseFits
  <2>2. CASE t # s
    BY <1>4, <2>2, JobFitsNow DEF FormInv, PhaseFits
  <2> QED BY <2>1, <2>2
<1>7. ASSUME NEW j \in Jobs PROVE StuckIsKnown(j)'
  <2>1. Stuck(j)' => Stuck(j) /\ j # x
    BY <1>3, <1>5 DEF Stuck
  <2>2. ~Half(s, j) \/ j = x
    BY DEF Half
  <2>3. j \in left => j \in left' \/ j = x
    BY <1>1
  <2> QED BY <1>4, <2>1, <2>2, <2>3, StuckFollows
<1>8. ASSUME NEW j \in Jobs PROVE Said(j)'
  <2>1. job'[j].schedule = job[j].schedule /\ (job[j].enabled => job'[j].enabled)
    BY <1>3, <1>5
  <2>2. CASE told[j] = "tab" /\ s = "tab"
    <3>1. j = x /\ job[x].schedule = "enabled"
      BY <1>1, <2>2, JobFitsNow DEF FormInv, Said
    <3> QED BY <1>1, <1>3, <1>4, <1>5, <2>2, <3>1 DEF Said, ResumeHolds
  <2>3. CASE told[j] # "tab" \/ s # "tab"
    <3>1. told'[j] = told[j] /\ (told'[j] = "tab" => form'["tab"] = form["tab"])
      BY <1>1, <1>4, <2>3, SlotsAre
    <3> QED BY <2>1, <3>1, SaidFollows
  <2> QED BY <2>2, <2>3
<1>9. told' \in [Jobs -> Answered] /\ left' \subseteq Jobs
  BY <1>1 DEF JobTypes
<1> QED BY <1>4, <1>5, <1>6, <1>7, <1>8, <1>9 DEF JobFits, FormInv

\* A form is answered as done.
LEMMA ConfirmSteps ==
    ASSUME JobsConstantsFit, JobsInv, NEW s \in JobPages!Slots, JobPages!Confirm(s)
    PROVE  JobFits' /\ JobPages!Done(s)
<1> DEFINE x == form[s].job
<1>1. /\ JobTypes /\ form[s].phase = "written" /\ JobPages!Done(s) /\ UNCHANGED <<job, left>>
      /\ form' = [form EXCEPT ![s] = JobPages!NoForm]
      /\ told' = IF s = "tab" /\ told[x] = "tab" THEN [told EXCEPT ![x] = form[s].op] ELSE told
  BY JobFitsNow DEF JobPages!Confirm, JobPages!At, JobPages!Done
<1>2. x \in Jobs /\ form[s].op \in {"pause", "resume"}
  BY <1>1, FormsAre, JobFitsNow DEF JobTypes, FormInv, PhaseFits, JobPages!Phases
<1>3. /\ told' \in [Jobs -> Answered]
      /\ \A j \in Jobs : told'[j] = IF s = "tab" /\ told[x] = "tab" /\ j = x
                                    THEN form[s].op ELSE told[j]
  BY <1>1, <1>2 DEF JobTypes, Answered
<1>4. ASSUME NEW j \in Jobs PROVE StuckIsKnown(j)'
  BY <1>1, NoFormIs, StuckFollows DEF Stuck, Half
<1>5. ASSUME NEW j \in Jobs PROVE Said(j)'
  <2>1. CASE s = "tab" /\ told[x] = "tab" /\ j = x
    BY <1>1, <1>2, <1>3, <2>1, JobFitsNow DEF FormInv, Said, PauseHolds, ResumeHolds
  <2>2. CASE ~(s = "tab" /\ told[x] = "tab" /\ j = x)
    <3>1. told'[j] = told[j]
      BY <1>3, <2>2
    <3>2. told[j] = "tab" => form'["tab"] = form["tab"]
      BY <1>1, <2>2, NoFormIs, TabIs, SlotsAre
    <3> QED BY <1>1, <3>1, <3>2, SaidFollows
  <2> QED BY <2>1, <2>2
<1> QED BY <1>1, <1>3, <1>4, <1>5, NoFormIs DEF JobFits, FormInv, JobTypes

\* A form is clicked.
LEMMA ClickSteps ==
    ASSUME JobsConstantsFit, JobsInv, NEW j \in Jobs, NEW op \in JobPages!FormOps,
           JobPages!Click(j, op)
    PROVE  JobFits'
<1> DEFINE new == [op |-> op, job |-> j, phase |-> "posted"]
<1>1. /\ JobTypes /\ form["tab"] = JobPages!NoForm /\ form' = [form EXCEPT !["tab"] = new]
      /\ UNCHANGED <<job, told, left>>
  BY JobFitsNow DEF JobPages!Click
<1>2. new \in Forms /\ new.phase = "posted"
  BY DEF Forms, JobPages!Phases
<1> HIDE DEF new
<1>3. /\ form' \in [JobPages!Slots -> Forms] /\ form'["tab"] = new
      /\ \A other \in JobPages!Slots \ {"tab"} : form'[other] = form[other]
  BY <1>1, <1>2, SlotsAre DEF JobTypes
<1>4. ASSUME NEW t \in JobPages!Slots PROVE PhaseFits(t)'
  <2>1. CASE t = "tab"
    BY <1>2, <1>3, <2>1 DEF PhaseFits
  <2>2. CASE t # "tab"
    BY <1>3, <2>2, JobFitsNow DEF FormInv, PhaseFits
  <2> QED BY <2>1, <2>2
<1>5. ASSUME NEW k \in Jobs PROVE StuckIsKnown(k)' /\ Said(k)'
  <2>1. ~Half("tab", k) /\ told[k] # "tab"
    BY <1>1, FormsAre, TabIs DEF Half, JobPages!Phases
  <2>2. StuckIsKnown(k)'
    BY <1>1, <1>3, <2>1, SlotsAre, StuckFollows DEF Stuck
  <2>3. Said(k)'
    BY <1>1, <2>1, SaidFollows
  <2> QED BY <2>2, <2>3
<1> QED BY <1>1, <1>3, <1>4, <1>5 DEF JobFits, FormInv, JobTypes

\* A form is given up and goes on.
LEMMA FormTimesOutSteps ==
    ASSUME JobsConstantsFit, JobsInv, JobPages!FormTimesOut
    PROVE  JobFits'
<1>1. /\ JobTypes /\ form["late"] = JobPages!NoForm /\ UNCHANGED <<job, left>>
      /\ form' = [form EXCEPT !["late"] = form["tab"], !["tab"] = JobPages!NoForm]
      /\ told' = JobPages!Unsaid
  BY JobFitsNow DEF JobPages!FormTimesOut
<1>2. /\ form' \in [JobPages!Slots -> Forms]
      /\ form'["late"] = form["tab"] /\ form'["tab"] = form["late"]
  BY <1>1, FormsAre, SlotsAre DEF JobTypes
<1>3. /\ \A s \in JobPages!Slots : \E t \in JobPages!Slots : form'[s] = form[t]
      /\ \A s \in JobPages!Slots : \E t \in JobPages!Slots : form[s] = form'[t]
  BY <1>2, SlotsAre
<1>4. ASSUME NEW s \in JobPages!Slots PROVE PhaseFits(s)'
  BY <1>3, JobFitsNow DEF FormInv, PhaseFits
<1>5. /\ told' \in [Jobs -> Answered] /\ \A j \in Jobs : told'[j] \in {None, told[j]}
      /\ \A j \in Jobs : told'[j] # "tab"
  BY <1>1 DEF JobTypes, JobPages!Unsaid, Answered, JobsConstantsFit
<1>6. ASSUME NEW j \in Jobs PROVE StuckIsKnown(j)' /\ Said(j)'
  <2>1. StuckIsKnown(j)'
    <3> SUFFICES ASSUME Stuck(j), j \notin left
                 PROVE  \E t \in JobPages!Slots : Half(t, j)'
      BY <1>1 DEF StuckIsKnown, Stuck
    <3>1. PICK s \in JobPages!Slots : Half(s, j)
      BY JobFitsNow DEF FormInv, StuckIsKnown
    <3>2. PICK t \in JobPages!Slots : form[s] = form'[t]
      BY <1>3
    <3> QED BY <3>1, <3>2 DEF Half
  <2>2. Said(j)'
    BY <1>1, <1>5, SaidFollows
  <2> QED BY <2>1, <2>2
<1> QED BY <1>1, <1>2, <1>4, <1>5, <1>6 DEF JobFits, FormInv, JobTypes

\* A job changes elsewhere.
LEMMA JobSteps ==
    ASSUME JobsConstantsFit, JobsInv, NEW x \in Jobs,
           \/ JobPages!SchedulerRuns(x) \/ JobPages!RunEnds(x)
           \/ JobPages!EditSchedule(x) \/ JobPages!ToggleJob(x)
    PROVE  JobFits' /\ UNCHANGED <<page, shown, polls>>
<1>1. JobTypes /\ UNCHANGED form /\ UNCHANGED <<page, shown, polls>>
  BY JobFitsNow DEF JobPages!SchedulerRuns, JobPages!RunEnds, JobPages!EditSchedule,
                    JobPages!ToggleJob, JobPages!Elsewhere
<1>2. \A t \in JobPages!Slots : PhaseFits(t)'
  BY <1>1, JobFitsNow DEF FormInv, PhaseFits
<1>3. ASSUME NEW row \in JobPages!JobRows, JobPages!Writes(x, row, "admin") PROVE JobFits'
  <2>1. /\ job' \in [Jobs -> JobPages!JobRows]
        /\ \A j \in Jobs : job'[j] = IF j = x THEN row ELSE job[j]
        /\ told' \in [Jobs -> Answered] /\ left' \subseteq Jobs /\ told'[x] = None
        /\ \A j \in Jobs \ {x} : told'[j] = told[j]
        /\ \A j \in left : j \in left' \/ (j = x /\ ~Stuck(j)')
        /\ Stuck(x)' => x \in left'
    BY <1>3, WritesAre
  <2>2. ASSUME NEW j \in Jobs PROVE Said(j)'
    BY <1>1, <2>1, SaidFollows
  <2>3. ASSUME NEW j \in Jobs PROVE StuckIsKnown(j)'
    <3>1. CASE j = x
      BY <2>1, <3>1 DEF StuckIsKnown
    <3>2. CASE j # x
      <4>1. (Stuck(j)' <=> Stuck(j)) /\ (j \in left => j \in left')
        BY <2>1, <3>2 DEF Stuck
      <4> QED BY <1>1, <4>1, JobFitsNow DEF FormInv, StuckIsKnown, Half
    <3> QED BY <3>1, <3>2
  <2> QED BY <1>1, <1>2, <2>1, <2>2, <2>3 DEF JobFits, FormInv, JobTypes
<1>4. CASE JobPages!EditSchedule(x)
  <2>1. PICK s \in {"none", "enabled", "paused"} :
            JobPages!Writes(x, [job[x] EXCEPT !.schedule = s], "admin")
    BY <1>4 DEF JobPages!EditSchedule
  <2> DEFINE row == [job[x] EXCEPT !.schedule = s]
  <2>2. job[x] \in JobPages!JobRows
    BY <1>1 DEF JobTypes
  <2>3. row \in JobPages!JobRows /\ JobPages!Writes(x, row, "admin")
    BY <2>1, <2>2, RowsAre
  <2> HIDE DEF row
  <2> QED BY <1>1, <1>3, <2>3
<1>5. CASE JobPages!ToggleJob(x)
  <2> DEFINE b == ~job[x].enabled
  <2>1. JobPages!Writes(x, [job[x] EXCEPT !.enabled = b], "admin")
    BY <1>5 DEF JobPages!ToggleJob
  <2>2. b \in BOOLEAN
    BY NotIs
  <2> HIDE DEF b
  <2> DEFINE row == [job[x] EXCEPT !.enabled = b]
  <2>3. job[x] \in JobPages!JobRows
    BY <1>1 DEF JobTypes
  <2>4. row \in JobPages!JobRows /\ JobPages!Writes(x, row, "admin")
    BY <2>1, <2>2, <2>3, RowsAre
  <2> HIDE DEF row
  <2> QED BY <1>1, <1>3, <2>4
<1>6. CASE JobPages!SchedulerRuns(x) \/ JobPages!RunEnds(x)
  <2>1. UNCHANGED <<told, left>> /\ \E run \in {"running", "done"} : job' = [job EXCEPT ![x].run = run]
    BY <1>6 DEF JobPages!SchedulerRuns, JobPages!RunEnds
  <2>2. /\ job' \in [Jobs -> JobPages!JobRows]
        /\ \A j \in Jobs : job'[j].schedule = job[j].schedule /\ job'[j].enabled = job[j].enabled
    BY <1>1, <2>1, RunIs
  <2>3. ASSUME NEW j \in Jobs PROVE StuckIsKnown(j)' /\ Said(j)'
    <3>1. StuckIsKnown(j)'
      BY <1>1, <2>1, <2>2, JobFitsNow DEF FormInv, StuckIsKnown, Stuck, Half
    <3>2. Said(j)'
      BY <1>1, <2>1, <2>2, SaidFollows
    <3> QED BY <3>1, <3>2
  <2> QED BY <1>1, <1>2, <2>1, <2>2, <2>3 DEF JobFits, FormInv, JobTypes
<1> QED BY <1>1, <1>4, <1>5, <1>6

\* Steps that leave the jobs and the forms.
LEMMA JobsStay ==
    ASSUME JobsConstantsFit, JobsInv, UNCHANGED <<job, told, left, form>>
    PROVE  JobFits'
<1>1. ASSUME NEW j \in Jobs PROVE StuckIsKnown(j)' /\ Said(j)'
  <2>1. StuckIsKnown(j)'
    BY JobFitsNow DEF FormInv, StuckIsKnown, Stuck, Half
  <2>2. Said(j)'
    BY SaidFollows
  <2> QED BY <2>1, <2>2
<1>2. \A t \in JobPages!Slots : PhaseFits(t)'
  BY JobFitsNow DEF FormInv, PhaseFits
<1> QED BY <1>1, <1>2, JobFitsNow DEF JobFits, FormInv

(***************************************************************************)
(* The job console: pages and polls                                        *)
(***************************************************************************)

\* A page that is loaded, or not.
LEMMA LoadedIs ==
    ASSUME NEW p
    PROVE  LET new == JobPages!Loaded(p)
           IN  /\ new = [rows |-> new.rows, readOnly |-> ~licensed, db |-> None, error |-> FALSE]
               /\ new.readOnly = ~licensed /\ new.db = None /\ new.error = FALSE
<1> DEFINE r == CASE p = "overview" -> None
                  [] p = "jobs"     -> JobPages!Rows
                  [] p = "runs"     -> JobPages!LatestRuns
<1>1. JobPages!Loaded(p) = [JobPages!Blank EXCEPT !.readOnly = ~licensed, !.rows = r]
  BY DEF JobPages!Loaded
<1> HIDE DEF r
<1>2. JobPages!Loaded(p) = [rows |-> r, readOnly |-> ~licensed, db |-> None, error |-> FALSE]
  BY <1>1 DEF JobPages!Blank
<1> QED BY <1>2

LEMMA LoadSteps ==
    ASSUME JobsConstantsFit, JobsInv, NEW p \in JobPages!PageKinds \cup {"error"},
           JobPages!Load(p)
    PROVE  ShownTypes' /\ PollTypes'
<1>1. /\ page' = (IF dbUp THEN p ELSE "error") /\ polls' = {}
      /\ shown' = IF dbUp THEN JobPages!Loaded(p) ELSE JobPages!Blank
  BY DEF JobPages!Load
<1>2. /\ shown'.readOnly \in BOOLEAN /\ shown'.db = None /\ shown'.error \in BOOLEAN
      /\ shown' = [rows |-> shown'.rows, readOnly |-> shown'.readOnly, db |-> shown'.db,
                   error |-> shown'.error]
  <2>1. CASE dbUp
    BY <1>1, <2>1, LoadedIs
  <2>2. CASE ~dbUp
    BY <1>1, <2>2 DEF JobPages!Blank
  <2> QED BY <2>1, <2>2
<1>3. ShownTypes'
  BY <1>1, <1>2 DEF ShownTypes
<1>4. IsFiniteSet({}) /\ Cardinality({}) = 0
  BY FS_EmptySet
<1>5. PollTypes'
  BY <1>1, <1>4 DEF PollTypes, JobsConstantsFit
<1> QED BY <1>3, <1>5

\* Steps that leave the page and its polls.
LEMMA PagesStay ==
    ASSUME JobsInv, UNCHANGED <<page, shown, polls>>
    PROVE  ShownTypes' /\ PollTypes'
BY DEF JobsInv, ShownTypes, PollTypes

LEMMA PageIs ==
    ASSUME JobsInv
    PROVE  page \in JobPages!PageKinds \cup {"error"}
BY DEF JobsInv, ShownTypes

LEMMA DoneSteps ==
    ASSUME JobsConstantsFit, JobsInv, NEW s, JobPages!Done(s)
    PROVE  ShownTypes' /\ PollTypes'
<1>1. JobPages!Load(page) \/ UNCHANGED <<page, shown, polls>>
  BY DEF JobPages!Done
<1> QED BY <1>1, LoadSteps, PagesStay, PageIs

LEMMA PollSteps ==
    ASSUME JobsConstantsFit, JobsInv, JobPages!Poll
    PROVE  ShownTypes' /\ PollTypes'
<1> DEFINE new == [part \in JobPages!Parts(page) |-> JobPages!Read(part)]
           asked == [part \in JobPages!Parts(page) |-> Unread]
<1>1. ShownTypes /\ PollTypes
  BY DEF JobsInv
<1>2. /\ page \in JobPages!Live /\ Cardinality(polls) < MaxPolls
      /\ polls' = polls \cup {asked} /\ UNCHANGED <<page, shown>>
  BY DEF JobPages!Poll, JobPages!Cardinality, Cardinality
<1>3. IsFiniteSet(polls') /\ Cardinality(polls') <= MaxPolls
  <2>1. /\ IsFiniteSet(polls) /\ Cardinality(polls) \in Nat
    BY <1>1, FS_CardinalityType DEF PollTypes
  <2>2. /\ IsFiniteSet(polls \cup {asked})
        /\ Cardinality(polls \cup {asked}) = Cardinality(polls)
           \/ Cardinality(polls \cup {asked}) = Cardinality(polls) + 1
    BY <2>1, FS_AddElement
  <2> QED BY <1>2, <2>1, <2>2 DEF JobsConstantsFit
<1>4. asked = [part \in JobPages!Parts(page) |-> asked[part]]
  OBVIOUS
<1>5. page = "overview" => asked["health"] = Unread
  BY DEF JobPages!Parts
<1> HIDE DEF asked
<1>6. PollTypes'
  BY <1>1, <1>2, <1>3, <1>4, <1>5 DEF PollTypes
<1>7. ShownTypes'
  BY <1>1, <1>2 DEF ShownTypes
<1> QED BY <1>6, <1>7

\* Polls that are replaced by one, or by none, remain within the bound.
LEMMA PollsLess ==
    ASSUME JobsConstantsFit, PollTypes, NEW r \in polls
    PROVE  /\ IsFiniteSet(polls \ {r}) /\ Cardinality(polls \ {r}) <= MaxPolls
           /\ \A new : /\ IsFiniteSet((polls \ {r}) \cup {new})
                       /\ Cardinality((polls \ {r}) \cup {new}) <= MaxPolls
<1>1. /\ IsFiniteSet(polls) /\ Cardinality(polls) \in Nat /\ Cardinality(polls) <= MaxPolls
  BY FS_CardinalityType DEF PollTypes
<1>2. IsFiniteSet(polls \ {r}) /\ Cardinality(polls \ {r}) = Cardinality(polls) - 1
  BY <1>1, FS_RemoveElement
<1>3. ASSUME NEW new
      PROVE  /\ IsFiniteSet((polls \ {r}) \cup {new})
             /\ Cardinality((polls \ {r}) \cup {new}) = Cardinality(polls \ {r})
                \/ Cardinality((polls \ {r}) \cup {new}) = Cardinality(polls \ {r}) + 1
  BY <1>2, FS_AddElement
<1>4. Cardinality(polls \ {r}) <= MaxPolls
  BY <1>1, <1>2 DEF JobsConstantsFit
<1>5. ASSUME NEW new PROVE Cardinality((polls \ {r}) \cup {new}) <= MaxPolls
  <2>1. Cardinality((polls \ {r}) \cup {new}) = Cardinality(polls \ {r})
        \/ Cardinality((polls \ {r}) \cup {new}) = Cardinality(polls \ {r}) + 1
    BY <1>3
  <2> HIDE DEF PollTypes
  <2> QED BY <1>1, <1>2, <2>1 DEF JobsConstantsFit
<1> QED BY <1>2, <1>3, <1>4, <1>5

LEMMA ServerReadSteps ==
    ASSUME JobsConstantsFit, JobsInv, NEW part, JobPages!ServerReads(part)
    PROVE  ShownTypes' /\ PollTypes'
<1>1. ShownTypes /\ PollTypes /\ dbUp \in BOOLEAN /\ UNCHANGED <<page, shown>>
  BY DEF JobsInv, JobTypes, JobPages!ServerReads
<1>2. PICK r \in polls : /\ part \in DOMAIN r
                         /\ polls' = (polls \ {r}) \cup {[r EXCEPT ![part] = JobPages!Read(part)]}
  BY DEF JobPages!ServerReads
<1> DEFINE new == [r EXCEPT ![part] = JobPages!Read(part)]
<1>3. page \in JobPages!Live /\ r = [x \in JobPages!Parts(page) |-> r[x]]
  BY <1>1 DEF PollTypes
<1>4. new = [x \in JobPages!Parts(page) |-> new[x]]
  BY <1>3
<1>5. page = "overview" => new["health"] \in BOOLEAN \cup {Unread}
  <2>1. JobPages!Read("health") = dbUp
    BY DEF JobPages!Read
  <2>2. page = "overview" =>
            r["health"] \in BOOLEAN \cup {Unread} /\ "health" \in JobPages!Parts(page)
    BY <1>1 DEF PollTypes, JobPages!Parts
  <2>3. CASE part = "health"
    BY <1>1, <1>3, <2>1, <2>2, <2>3
  <2>4. CASE part # "health"
    BY <1>3, <2>2, <2>4
  <2> QED BY <2>3, <2>4
<1> HIDE DEF new
<1>6. polls' = (polls \ {r}) \cup {new}
  BY <1>2 DEF new
<1>7. IsFiniteSet(polls') /\ Cardinality(polls') <= MaxPolls
  BY <1>1, <1>6, PollsLess
<1>8. PollTypes'
  BY <1>1, <1>3, <1>4, <1>5, <1>6, <1>7 DEF PollTypes
<1>9. ShownTypes'
  BY <1>1 DEF ShownTypes
<1> QED BY <1>8, <1>9

LEMMA PollArriveSteps ==
    ASSUME JobsConstantsFit, JobsInv, JobPages!PollArrives
    PROVE  ShownTypes' /\ PollTypes'
<1>1. ShownTypes /\ PollTypes /\ UNCHANGED page
  BY DEF JobsInv, JobPages!PollArrives
<1>2. PICK r \in polls :
          /\ \A part \in DOMAIN r : r[part] # Unread
          /\ shown' = JobPages!Answer(r) /\ polls' = polls \ {r}
  BY DEF JobPages!PollArrives
<1>3. page \in JobPages!Live /\ r = [x \in JobPages!Parts(page) |-> r[x]]
  BY <1>1 DEF PollTypes
<1>4. page = "overview" => r["health"] \in BOOLEAN
  <2>1. page = "overview" => "health" \in DOMAIN r /\ r["health"] \in BOOLEAN \cup {Unread}
    BY <1>1, <1>3 DEF PollTypes, JobPages!Parts
  <2> QED BY <1>2, <2>1
<1>5. PollTypes'
  BY <1>1, <1>2, PollsLess DEF PollTypes
<1>6. shown = [rows |-> shown.rows, readOnly |-> shown.readOnly, db |-> shown.db,
               error |-> shown.error]
  BY <1>1 DEF ShownTypes
<1>7. \/ shown' = [rows |-> shown.rows, readOnly |-> shown.readOnly, db |-> shown.db, error |-> TRUE]
      \/ /\ page = "overview"
         /\ shown' = [rows |-> r["jobs"][1], readOnly |-> ~r["jobs"][2], db |-> r["health"],
                      error |-> FALSE]
      \/ /\ page # "overview"
         /\ shown' = [rows |-> r["runs"], readOnly |-> shown.readOnly, db |-> shown.db,
                      error |-> FALSE]
  <2>1. \/ shown' = [shown EXCEPT !.error = TRUE]
        \/ /\ page = "overview"
           /\ shown' = [rows |-> r["jobs"][1], readOnly |-> ~r["jobs"][2], db |-> r["health"],
                        error |-> FALSE]
        \/ page # "overview" /\ shown' = [shown EXCEPT !.rows = r["runs"], !.error = FALSE]
    BY <1>2 DEF JobPages!Answer
  <2> QED BY <1>6, <2>1
<1>8. /\ shown'.readOnly \in BOOLEAN /\ shown'.db \in BOOLEAN \cup {None}
         /\ shown'.error \in BOOLEAN
      /\ shown' = [rows |-> shown'.rows, readOnly |-> shown'.readOnly, db |-> shown'.db,
                   error |-> shown'.error]
      /\ page # "overview" => shown'.db = None
  <2>1. (~r["jobs"][2]) \in BOOLEAN
    BY NotIs
  <2> DEFINE readOnly == ~r["jobs"][2]
  <2>2. readOnly \in BOOLEAN
    BY <2>1
  <2>3. \/ shown' = [rows |-> shown.rows, readOnly |-> shown.readOnly, db |-> shown.db, error |-> TRUE]
        \/ /\ page = "overview"
           /\ shown' = [rows |-> r["jobs"][1], readOnly |-> readOnly, db |-> r["health"],
                        error |-> FALSE]
        \/ /\ page # "overview"
           /\ shown' = [rows |-> r["runs"], readOnly |-> shown.readOnly, db |-> shown.db,
                        error |-> FALSE]
    BY <1>7
  <2> HIDE DEF readOnly
  <2>4. CASE shown' = [rows |-> shown.rows, readOnly |-> shown.readOnly, db |-> shown.db,
                       error |-> TRUE]
    BY <1>1, <2>4 DEF ShownTypes
  <2>5. CASE /\ page = "overview"
             /\ shown' = [rows |-> r["jobs"][1], readOnly |-> readOnly, db |-> r["health"],
                          error |-> FALSE]
    BY <1>4, <2>2, <2>5
  <2>6. CASE /\ page # "overview"
             /\ shown' = [rows |-> r["runs"], readOnly |-> shown.readOnly, db |-> shown.db,
                          error |-> FALSE]
    BY <1>1, <2>6 DEF ShownTypes
  <2> QED BY <2>3, <2>4, <2>5, <2>6
<1>9. ShownTypes'
  BY <1>1, <1>8 DEF ShownTypes
<1> QED BY <1>5, <1>9

(***************************************************************************)
(* The job console: its invariant                                          *)
(***************************************************************************)

LEMMA JobsInvFollows ==
    ASSUME JobsConstantsFit, JobFits', ShownTypes', PollTypes',
           licensed' \in BOOLEAN, dbUp' \in BOOLEAN, events' \in 0 .. MaxEvents
    PROVE  JobsInv'
BY DEF JobsInv, JobTypes, JobFits

LEMMA JobsInvInit == JobsConstantsFit /\ JobPages!Init => JobsInv
<1> SUFFICES ASSUME JobsConstantsFit, JobPages!Init PROVE JobsInv
  OBVIOUS
<1>1. /\ job \in [Jobs -> {row \in JobPages!JobRows : row.run = "none"}]
      /\ licensed \in BOOLEAN /\ dbUp = TRUE /\ page \in JobPages!PageKinds
      /\ shown = JobPages!Loaded(page) /\ polls = {}
      /\ form = [s \in JobPages!Slots |-> JobPages!NoForm] /\ told = [j \in Jobs |-> None]
      /\ left = {j \in Jobs : Stuck(j)} /\ events = 0
  BY DEF JobPages!Init, JobPages!Stuck, Stuck
<1>2. 0 \in 0 .. MaxEvents /\ 0 <= MaxPolls
  BY DEF JobsConstantsFit
<1>3. /\ job \in [Jobs -> JobPages!JobRows] /\ told \in [Jobs -> Answered]
      /\ left \subseteq Jobs /\ \A j \in Jobs : told[j] = None
  BY <1>1 DEF Answered
<1>4. form \in [JobPages!Slots -> Forms] /\ \A s \in JobPages!Slots : PhaseFits(s)
  BY <1>1, FormsAre DEF PhaseFits, JobPages!Phases
<1>5. JobTypes
  BY <1>1, <1>2, <1>3, <1>4 DEF JobTypes
<1>6. /\ shown.readOnly \in BOOLEAN /\ shown.db = None /\ shown.error = FALSE
      /\ shown = [rows |-> shown.rows, readOnly |-> shown.readOnly, db |-> shown.db,
                  error |-> shown.error]
  BY <1>1, LoadedIs
<1>7. ShownTypes
  BY <1>1, <1>6 DEF ShownTypes
<1>8. PollTypes
  <2>1. IsFiniteSet({}) /\ Cardinality({}) = 0
    BY FS_EmptySet
  <2> QED BY <1>1, <1>2, <2>1 DEF PollTypes
<1>9. FormInv
  <2>1. ASSUME NEW j \in Jobs PROVE StuckIsKnown(j) /\ Said(j)
    BY <1>1, <1>3 DEF StuckIsKnown, Said, JobsConstantsFit
  <2> QED BY <1>4, <2>1 DEF FormInv
<1> QED BY <1>5, <1>7, <1>8, <1>9 DEF JobsInv

LEMMA JobsInvNext ==
    JobsConstantsFit /\ JobsInv /\ [JobPages!Next]_(JobPages!consoleJobVars) => JobsInv'
<1> SUFFICES ASSUME JobsConstantsFit, JobsInv, [JobPages!Next]_(JobPages!consoleJobVars)
             PROVE  JobsInv'
  OBVIOUS
<1>1. CASE UNCHANGED JobPages!consoleJobVars
  <2>1. /\ UNCHANGED <<job, told, left, form>> /\ UNCHANGED <<page, shown, polls>>
        /\ UNCHANGED <<licensed, dbUp, events>>
    BY <1>1 DEF JobPages!consoleJobVars
  <2>2. licensed' \in BOOLEAN /\ dbUp' \in BOOLEAN /\ events' \in 0 .. MaxEvents
    BY <2>1 DEF JobsInv, JobTypes
  <2> QED BY <2>1, <2>2, JobsStay, PagesStay, JobsInvFollows
<1>2. CASE JobPages!Next
  <2>1. licensed' \in BOOLEAN /\ dbUp' \in BOOLEAN /\ events' \in 0 .. MaxEvents
    BY <1>2, JobCounters
  <2>2. CASE \/ JobPages!LicenseChanges \/ JobPages!DbFails \/ JobPages!DbReturns
    <3>1. UNCHANGED <<job, told, left, form>> /\ UNCHANGED <<page, shown, polls>>
      BY <2>2 DEF JobPages!LicenseChanges, JobPages!DbFails, JobPages!DbReturns
    <3> QED BY <2>1, <3>1, JobsStay, PagesStay, JobsInvFollows
  <2>3. CASE \/ JobPages!Poll \/ JobPages!PollArrives
             \/ \E part \in JobPages!Parts(page) : JobPages!ServerReads(part)
    <3>1. UNCHANGED <<job, told, left, form>>
      BY <2>3 DEF JobPages!Poll, JobPages!PollArrives, JobPages!ServerReads
    <3>2. ShownTypes' /\ PollTypes'
      BY <2>3, PollSteps, PollArriveSteps, ServerReadSteps
    <3> QED BY <2>1, <3>1, <3>2, JobsStay, JobsInvFollows
  <2>4. CASE \E p \in JobPages!PageKinds : JobPages!Open(p)
    <3>1. UNCHANGED <<job, told, left, form>> /\ \E p \in JobPages!PageKinds : JobPages!Load(p)
      BY <2>4 DEF JobPages!Open
    <3> QED BY <2>1, <3>1, JobsStay, LoadSteps, JobsInvFollows
  <2>5. ASSUME NEW s \in JobPages!Slots, JobPages!Answers(s) PROVE JobsInv'
    <3>1. CASE \/ JobPages!Refuse(s) \/ JobPages!FormFails(s) \/ JobPages!RunNow(s)
               \/ JobPages!Confirm(s)
      BY <2>1, <3>1, FormEnds, ConfirmSteps, DoneSteps, JobsInvFollows
    <3>2. CASE \/ JobPages!PauseSchedule(s) \/ JobPages!ResumeSchedule(s) \/ JobPages!ResumeJob(s)
      BY <2>1, <3>2, ScheduleSteps, ResumeJobSteps, PagesStay, JobsInvFollows
    <3> QED BY <2>5, <3>1, <3>2 DEF JobPages!Answers
  <2>6. CASE \E j \in Jobs, op \in JobPages!FormOps : JobPages!Click(j, op)
    <3>1. UNCHANGED <<page, shown, polls>>
      BY <2>6 DEF JobPages!Click
    <3>2. JobFits'
      BY <2>6, ClickSteps
    <3> QED BY <2>1, <3>1, <3>2, PagesStay, JobsInvFollows
  <2>7. CASE JobPages!FormTimesOut
    <3>1. JobPages!Load(page)
      BY <2>7 DEF JobPages!FormTimesOut
    <3>2. JobFits'
      BY <2>7, FormTimesOutSteps
    <3> QED BY <2>1, <3>1, <3>2, LoadSteps, PageIs, JobsInvFollows
  <2>8. CASE \E j \in Jobs : \/ JobPages!SchedulerRuns(j) \/ JobPages!RunEnds(j)
                             \/ JobPages!EditSchedule(j) \/ JobPages!ToggleJob(j)
    BY <2>1, <2>8, JobSteps, PagesStay, JobsInvFollows
  <2> QED BY <1>2, <2>2, <2>3, <2>4, <2>5, <2>6, <2>7, <2>8 DEF JobPages!Next
<1> QED BY <1>1, <1>2

LEMMA JobsInvTypes == JobsConstantsFit /\ JobsInv => JobPages!TypeOK
<1> SUFFICES ASSUME JobsConstantsFit, JobsInv PROVE JobPages!TypeOK
  OBVIOUS
<1>1. JobTypes /\ ShownTypes /\ PollTypes
  BY DEF JobsInv
<1>2. \A r \in polls : page \in JobPages!Live /\ DOMAIN r = JobPages!Parts(page)
  BY <1>1 DEF PollTypes
<1>3. JobPages!Cardinality(polls) <= MaxPolls
  BY <1>1 DEF PollTypes, JobPages!Cardinality, Cardinality
<1>4. \A s \in JobPages!Slots :
          \/ form[s] = JobPages!NoForm
          \/ form[s] \in [op : JobPages!FormOps, job : Jobs, phase : JobPages!Phases]
  BY <1>1 DEF JobTypes, Forms
<1> QED BY <1>1, <1>2, <1>3, <1>4 DEF JobPages!TypeOK, JobTypes, ShownTypes, Answered

LEMMA JobsInvHolds == JobsInv => JobPages!JobAnswersHold
BY DEF JobsInv, FormInv, StuckIsKnown, Stuck, Half, Said, PauseHolds, ResumeHolds,
       JobPages!JobAnswersHold, JobPages!Stuck, JobPages!At

(***************************************************************************)
(* The revocation: its requests                                            *)
(***************************************************************************)

RequestsFit == request \in [Revoke!Deletions -> Revoke!Stages \cup Revoke!Results]

LEMMA GotoIs ==
    ASSUME RevokeInv, NEW q, NEW stage \in Revoke!Stages \cup Revoke!Results,
           Revoke!Goto(q, stage)
    PROVE  RequestsFit'
BY DEF RevokeInv, GraphTypes, RequestsFit, Revoke!Goto

LEMMA FaultIs ==
    ASSUME RevokeConstantsFit, RevokeInv, Revoke!Fault
    PROVE  faults' \in 0 .. MaxFaults
BY DEF RevokeConstantsFit, RevokeInv, GraphTypes, Revoke!Fault

LEMMA LogIs ==
    ASSUME RevokeInv, NEW p \in Permissions, NEW outcome \in {"success", "failed"},
           Revoke!Log(p, outcome) \/ UNCHANGED revokeLog
    PROVE  revokeLog' \subseteq Permissions \X {"success", "failed"}
BY DEF RevokeInv, GraphTypes, Revoke!Log

LEMMA LogMaybeIs ==
    ASSUME RevokeConstantsFit, RevokeInv, NEW p \in Permissions,
           NEW outcome \in {"success", "failed"}, Revoke!LogMaybe(p, outcome)
    PROVE  revokeLog' \subseteq Permissions \X {"success", "failed"} /\ faults' \in 0 .. MaxFaults
<1>1. Revoke!Log(p, outcome) \/ UNCHANGED revokeLog
  BY DEF Revoke!LogMaybe
<1>2. Revoke!Fault \/ UNCHANGED faults
  BY DEF Revoke!LogMaybe
<1> QED BY <1>1, <1>2, LogIs, FaultIs DEF RevokeInv, GraphTypes

LEMMA StagesAre ==
    Revoke!Stages \cup Revoke!Results =
        {"none", "get", "delete", "sync", "audit", "audit warned", "ok", "warned", "failed"}
BY DEF Revoke!Stages, Revoke!Results

Handles(q) ==
    Revoke!Refuse(q) \/ Revoke!Validate(q) \/ Revoke!Delete(q) \/ Revoke!SyncRows(q)
    \/ Revoke!Finish(q) \/ Revoke!AnswerLost(q)

LEMMA HandlerSteps ==
    ASSUME RevokeConstantsFit, RevokeInv, NEW q \in Revoke!Deletions, Handles(q)
    PROVE  RevokeInv'
<1>1. q[2] \in Permissions
  BY DEF Revoke!Deletions
<1>2. /\ UNCHANGED <<kind, holds, listed, scan>> /\ UNCHANGED Revoke!pageVars
  BY DEF Handles, Revoke!Refuse, Revoke!Validate, Revoke!Delete, Revoke!SyncRows,
         Revoke!Finish, Revoke!AnswerLost, Revoke!graphVars, Revoke!localVars
<1>3. remote' \subseteq remote /\ rows' \subseteq rows
  BY DEF Handles, Revoke!Refuse, Revoke!Validate, Revoke!Delete, Revoke!SyncRows,
         Revoke!Finish, Revoke!AnswerLost, Revoke!graphVars, Revoke!localVars
<1>4. recent' \in {recent, TRUE}
  BY DEF Handles, Revoke!Refuse, Revoke!Validate, Revoke!Delete, Revoke!SyncRows,
         Revoke!Finish, Revoke!AnswerLost, Revoke!localVars
<1>5. RequestsFit'
  <2>1. \E stage \in {"failed", "delete", "sync", "audit", "audit warned", "ok", "warned"} :
            Revoke!Goto(q, stage)
    BY DEF Handles, Revoke!Refuse, Revoke!Validate, Revoke!Delete, Revoke!SyncRows,
           Revoke!Finish, Revoke!AnswerLost
  <2> QED BY <2>1, GotoIs, StagesAre
<1>6. revokeLog' \subseteq Permissions \X {"success", "failed"} /\ faults' \in 0 .. MaxFaults
  <2>1. ASSUME Revoke!Log(q[2], "failed") \/ Revoke!Log(q[2], "success") \/ UNCHANGED revokeLog
        PROVE  revokeLog' \subseteq Permissions \X {"success", "failed"}
    BY <1>1, <2>1, LogIs
  <2>2. faults \in 0 .. MaxFaults
    BY DEF RevokeInv, GraphTypes
  <2>3. CASE Revoke!Refuse(q) \/ Revoke!AnswerLost(q)
    BY <2>1, <2>3, FaultIs DEF Revoke!Refuse, Revoke!AnswerLost
  <2>4. CASE Revoke!Validate(q)
    BY <1>1, <2>1, <2>2, <2>4, LogMaybeIs DEF Revoke!Validate
  <2>5. CASE Revoke!Delete(q)
    <3>1. Revoke!Log(q[2], "failed") \/ UNCHANGED revokeLog
      BY <2>5 DEF Revoke!Delete
    <3>2. \/ UNCHANGED faults \/ Revoke!Fault
          \/ /\ q[2] \in remote => faults < MaxFaults
             /\ faults' = IF q[2] \in remote THEN faults + 1 ELSE faults
      BY <2>5 DEF Revoke!Delete
    <3>3. faults' = faults \/ (faults < MaxFaults /\ faults' = faults + 1)
      BY <3>2 DEF Revoke!Fault
    <3>4. faults' \in 0 .. MaxFaults
      BY <2>2, <3>3 DEF RevokeConstantsFit
    <3> QED BY <2>1, <3>1, <3>4
  <2>6. CASE Revoke!SyncRows(q)
    BY <2>1, <2>2, <2>6, FaultIs DEF Revoke!SyncRows
  <2>7. CASE Revoke!Finish(q)
    BY <1>1, <2>1, <2>7, LogMaybeIs, FaultIs DEF Revoke!Finish
  <2> QED BY <2>3, <2>4, <2>5, <2>6, <2>7 DEF Handles
<1>7. PageTypes'
  BY <1>2 DEF RevokeInv, PageTypes, Revoke!pageVars
<1>8. GraphTypes'
  BY <1>2, <1>3, <1>4, <1>5, <1>6 DEF RevokeInv, GraphTypes, RequestsFit
<1> QED BY <1>7, <1>8 DEF RevokeInv

(***************************************************************************)
(* The revocation: the page, Graph and the worker                          *)
(***************************************************************************)

LEMMA RevokePageSteps ==
    ASSUME RevokeConstantsFit, RevokeInv,
           \/ \E b \in Revoke!Buttons :
                  Revoke!Click(b) \/ Revoke!Collect(b) \/ Revoke!CheckLive(b)
           \/ Revoke!Refresh \/ Revoke!Reload
    PROVE  RevokeInv'
<1>1. UNCHANGED <<kind, holds, remote, listed, rows, recent, scan, revokeLog>>
  BY DEF Revoke!Click, Revoke!Collect, Revoke!CheckLive, Revoke!Refresh, Revoke!Reload,
         Revoke!graphVars, Revoke!localVars
<1>2. GraphTypes /\ PageTypes
  BY DEF RevokeInv
<1>3. CASE Revoke!Refresh \/ Revoke!Reload
  <2>1. GraphTypes'
    BY <1>1, <1>2, <1>3 DEF GraphTypes, Revoke!Refresh, Revoke!Reload
  <2>2. PageTypes'
    BY <1>2, <1>3 DEF PageTypes, GraphTypes, Revoke!Refresh, Revoke!Reload
  <2> QED BY <2>1, <2>2 DEF RevokeInv
<1>4. ASSUME NEW b \in Revoke!Buttons, Revoke!Click(b) PROVE RevokeInv'
  <2>1. Revoke!TargetsOf(b) \subseteq Permissions
    BY <1>2 DEF Revoke!TargetsOf, Revoke!DirectOf, PageTypes
  <2>2. request' \in [Revoke!Deletions -> Revoke!Stages \cup Revoke!Results]
    <3>1. /\ request' = [q \in DOMAIN request |->
                             IF q[1] = b
                             /\ q[2] \in Revoke!TargetsOf(b) THEN "get" ELSE request[q]]
          /\ request \in [Revoke!Deletions -> Revoke!Stages \cup Revoke!Results]
          /\ "get" \in Revoke!Stages \cup Revoke!Results
      BY <1>2, <1>4, StagesAre DEF Revoke!Click, GraphTypes
    <3> QED BY <3>1
  <2>3. clicks' \in 0 .. MaxClicks
    BY <1>2, <1>4 DEF PageTypes, Revoke!Click, RevokeConstantsFit
  <2>4. PageTypes'
    BY <1>2, <1>4, <2>1, <2>3 DEF PageTypes, Revoke!Click
  <2>5. UNCHANGED faults
    BY <1>4 DEF Revoke!Click
  <2>6. GraphTypes'
    BY <1>1, <1>2, <2>2, <2>5 DEF GraphTypes
  <2> QED BY <2>4, <2>6 DEF RevokeInv
<1>5. ASSUME NEW b \in Revoke!Buttons, Revoke!Collect(b) PROVE RevokeInv'
  <2>1. GraphTypes'
    BY <1>1, <1>2, <1>5 DEF GraphTypes, Revoke!Collect
  <2>2. PageTypes'
    BY <1>2, <1>5 DEF PageTypes, Revoke!Collect
  <2> QED BY <2>1, <2>2 DEF RevokeInv
<1>6. ASSUME NEW b \in Revoke!Buttons, Revoke!CheckLive(b) PROVE RevokeInv'
  <2>1. faults' \in 0 .. MaxFaults /\ UNCHANGED request
    BY <1>2, <1>6, FaultIs DEF GraphTypes, Revoke!CheckLive
  <2>2. GraphTypes'
    BY <1>1, <1>2, <2>1 DEF GraphTypes
  <2>3. \A results : Revoke!Verdict(results) \in {"success", "failed", "partial"}
    BY DEF Revoke!Verdict
  <2>4. PageTypes'
    BY <1>2, <1>6, <2>3 DEF PageTypes, Revoke!CheckLive
  <2> QED BY <2>2, <2>4 DEF RevokeInv
<1> QED BY <1>3, <1>4, <1>5, <1>6

LEMMA GraphSteps ==
    ASSUME RevokeConstantsFit, RevokeInv,
           Revoke!CatchUp \/ Revoke!Age \/ Revoke!ScanRead \/ Revoke!ScanWrite
    PROVE  RevokeInv'
<1>1. /\ UNCHANGED <<kind, holds, remote, revokeLog, request, faults>>
         /\ UNCHANGED Revoke!pageVars
  BY DEF Revoke!CatchUp, Revoke!Age, Revoke!ScanRead, Revoke!ScanWrite, Revoke!graphVars
<1>2. GraphTypes
  BY DEF RevokeInv
<1>3. /\ listed' \subseteq Permissions /\ recent' \in BOOLEAN
      /\ scan' = {} \/ \E S \in SUBSET Permissions : scan' = {S}
  <2>1. CASE Revoke!CatchUp
    BY <1>2, <2>1 DEF GraphTypes, Revoke!CatchUp, Revoke!localVars
  <2>2. CASE Revoke!Age
    BY <1>2, <2>2 DEF GraphTypes, Revoke!Age, Revoke!graphVars
  <2>3. CASE Revoke!ScanRead
    <3>1. scan' = {listed} /\ UNCHANGED <<listed, recent>>
      BY <2>3 DEF Revoke!ScanRead, Revoke!graphVars
    <3>2. listed \in SUBSET Permissions /\ recent \in BOOLEAN
      BY <1>2 DEF GraphTypes
    <3> QED BY <3>1, <3>2
  <2>4. CASE Revoke!ScanWrite
    BY <1>2, <2>4 DEF GraphTypes, Revoke!ScanWrite, Revoke!graphVars
  <2> QED BY <2>1, <2>2, <2>3, <2>4
<1>4. rows' \subseteq Permissions
  <2>1. UNION scan \subseteq Permissions
    BY <1>2 DEF GraphTypes
  <2>2. rows' = rows \/ rows' = UNION scan
    BY DEF Revoke!CatchUp, Revoke!Age, Revoke!ScanRead, Revoke!ScanWrite, Revoke!localVars
  <2> QED BY <1>2, <2>1, <2>2 DEF GraphTypes
<1>5. PageTypes'
  BY <1>1 DEF RevokeInv, PageTypes, Revoke!pageVars
<1>6. GraphTypes'
  BY <1>1, <1>2, <1>3, <1>4 DEF GraphTypes
<1> QED BY <1>5, <1>6 DEF RevokeInv

(***************************************************************************)
(* The revocation: its invariant                                           *)
(***************************************************************************)

LEMMA RevokeInvInit == RevokeConstantsFit /\ Revoke!Init => RevokeInv
<1> SUFFICES ASSUME RevokeConstantsFit, Revoke!Init PROVE RevokeInv
  OBVIOUS
<1>1. 0 \in 0 .. MaxClicks /\ 0 \in 0 .. MaxFaults
  BY DEF RevokeConstantsFit
<1>2. GraphTypes
  BY <1>1, StagesAre DEF GraphTypes, Revoke!Init
<1>3. PageTypes
  BY <1>1 DEF PageTypes, Revoke!Init
<1> QED BY <1>2, <1>3 DEF RevokeInv

LEMMA RevokeInvNext ==
    RevokeConstantsFit /\ RevokeInv /\ [Revoke!Next]_(Revoke!revokeVars) => RevokeInv'
<1> SUFFICES ASSUME RevokeConstantsFit, RevokeInv, [Revoke!Next]_(Revoke!revokeVars)
             PROVE  RevokeInv'
  OBVIOUS
<1>1. CASE Revoke!Next
  BY <1>1, HandlerSteps, RevokePageSteps, GraphSteps DEF Revoke!Next, Handles
<1>2. CASE UNCHANGED Revoke!revokeVars
  <2>1. GraphTypes' /\ PageTypes'
    BY <1>2 DEF RevokeInv, GraphTypes, PageTypes, Revoke!revokeVars, Revoke!graphVars,
                Revoke!localVars, Revoke!pageVars
  <2> QED BY <2>1 DEF RevokeInv
<1> QED BY <1>1, <1>2

LEMMA RevokeInvTypes == RevokeInv => Revoke!TypeOK
<1> SUFFICES ASSUME RevokeInv PROVE Revoke!TypeOK
  OBVIOUS
<1>1. GraphTypes /\ PageTypes
  BY DEF RevokeInv
<1>2. scan \subseteq SUBSET Permissions /\ Revoke!Cardinality(scan) <= 1
  <2>1. \A S : Cardinality({S}) = 1
    BY FS_Singleton
  <2>2. Cardinality({}) = 0
    BY FS_EmptySet
  <2>3. Cardinality(scan) <= 1
    <3>1. CASE scan = {}
      BY <2>2, <3>1
    <3>2. CASE scan # {}
      <4>1. PICK S : scan = {S}
        BY <1>1, <3>2 DEF GraphTypes
      <4> QED BY <2>1, <4>1
    <3> QED BY <3>1, <3>2
  <2>4. scan \subseteq SUBSET Permissions
    BY <1>1 DEF GraphTypes
  <2> QED BY <2>3, <2>4 DEF Revoke!Cardinality, Cardinality
<1> QED BY <1>1, <1>2 DEF Revoke!TypeOK, GraphTypes, PageTypes

(***************************************************************************)
(* The pages together                                                      *)
(***************************************************************************)

LEMMA ConstantsFit ==
    StreamConstantsFit /\ AgentsConstantsFit /\ JobsConstantsFit /\ RevokeConstantsFit
BY ConsoleAssumption
DEF StreamConstantsFit, AgentsConstantsFit, JobsConstantsFit, RevokeConstantsFit

StreamInvariant == subject = "stream" => StreamInv
AgentsInvariant == subject = "agents" => AgentsInv
JobsInvariant == subject = "jobs" => JobsInv
RevokeInvariant == subject = "revoke" => RevokeInv

LEMMA StreamIsKept == Spec => []StreamInvariant
<1>1. Init => StreamInvariant
  BY ConstantsFit, StreamInvInit DEF Init, StreamInvariant
<1>2. StreamInvariant /\ [Next]_variables => StreamInvariant'
  <2> SUFFICES ASSUME StreamInvariant, [Next]_variables, subject' = "stream"
               PROVE  StreamInv'
    BY DEF StreamInvariant
  <2>1. subject = "stream" /\ StreamInv
    BY DEF StreamInvariant, Next, StreamStep, RevokeStep, AgentsStep, JobsStep, Step, variables
  <2>2. \/ Stream!Next
        \/ UNCHANGED <<v1, v2, v3, v4, v5, v6, v7, v8, v9, v10, v11, v12, v13, v14>>
    BY <2>1 DEF Next, StreamStep, RevokeStep, AgentsStep, JobsStep, Step, variables, from13
  <2>3. [Stream!Next]_(Stream!streamVars)
    BY <2>2 DEF Stream!streamVars, Stream!server, Stream!casting, Stream!streams,
        flags, license, starting, listener, ending, timer, inbox, cast, again, page, shown,
        lost, faults, opens
  <2> QED BY <2>1, <2>3, ConstantsFit, StreamInvNext
<1> QED BY <1>1, <1>2, PTL DEF Spec

LEMMA AgentsIsKept == Spec => []AgentsInvariant
<1>1. Init => AgentsInvariant
  BY ConstantsFit, AgentsInvInit DEF Init, AgentsInvariant
<1>2. AgentsInvariant /\ [Next]_variables => AgentsInvariant'
  <2> SUFFICES ASSUME AgentsInvariant, [Next]_variables, subject' = "agents"
               PROVE  AgentsInv'
    BY DEF AgentsInvariant
  <2>1. subject = "agents" /\ AgentsInv
    BY DEF AgentsInvariant, Next, StreamStep, RevokeStep, AgentsStep, JobsStep, Step, variables
  <2>2. \/ Agents!Next
        \/ UNCHANGED <<v1, v2, v3, v4, v5, v6, v7, v8, v9, v10, v11, v12, v13, v14, v15>>
    BY <2>1
    DEF Next, StreamStep, RevokeStep, AgentsStep, JobsStep, Step, variables, from13, from15
  <2>3. [Agents!Next]_(Agents!consoleVars)
    BY <2>2 DEF Agents!consoleVars, Agents!rowVars, Agents!botVars,
        dv, shownRows, rowsLoad, modal, action, submitting, isolated, shownBots, botLoad,
        botAction, submittingBot, actions, troubles, unsure, overlapped
  <2> QED BY <2>1, <2>3, ConstantsFit, AgentsInvNext
<1> QED BY <1>1, <1>2, PTL DEF Spec

LEMMA JobsIsKept == Spec => []JobsInvariant
<1>1. Init => JobsInvariant
  BY ConstantsFit, JobsInvInit DEF Init, JobsInvariant
<1>2. JobsInvariant /\ [Next]_variables => JobsInvariant'
  <2> SUFFICES ASSUME JobsInvariant, [Next]_variables, subject' = "jobs"
               PROVE  JobsInv'
    BY DEF JobsInvariant
  <2>1. subject = "jobs" /\ JobsInv
    BY DEF JobsInvariant, Next, StreamStep, RevokeStep, AgentsStep, JobsStep, Step, variables
  <2>2. JobPages!Next \/ UNCHANGED <<v1, v2, v3, v4, v5, v6, v7, v8, v9, v10, v11, v12>>
    BY <2>1 DEF Next, StreamStep, RevokeStep, AgentsStep, JobsStep, Step, variables
  <2>3. [JobPages!Next]_(JobPages!consoleJobVars)
    BY <2>2 DEF JobPages!consoleJobVars,
        job, licensed, dbUp, page, shown, polls, form, told, left, events
  <2> QED BY <2>1, <2>3, ConstantsFit, JobsInvNext
<1> QED BY <1>1, <1>2, PTL DEF Spec

LEMMA RevokeIsKept == Spec => []RevokeInvariant
<1>1. Init => RevokeInvariant
  BY ConstantsFit, RevokeInvInit DEF Init, RevokeInvariant
<1>2. RevokeInvariant /\ [Next]_variables => RevokeInvariant'
  <2> SUFFICES ASSUME RevokeInvariant, [Next]_variables, subject' = "revoke"
               PROVE  RevokeInv'
    BY DEF RevokeInvariant
  <2>1. subject = "revoke" /\ RevokeInv
    BY DEF RevokeInvariant, Next, StreamStep, RevokeStep, AgentsStep, JobsStep, Step, variables
  <2>2. \/ Revoke!Next
        \/ UNCHANGED <<v1, v2, v3, v4, v5, v6, v7, v8, v9, v10, v11, v12, v13, v14, v15, v16, v17>>
    BY <2>1 DEF Next, StreamStep, RevokeStep, AgentsStep, JobsStep, Step, variables, from13,
                from15, from16
  <2>3. [Revoke!Next]_(Revoke!revokeVars)
    BY <2>2 DEF Revoke!revokeVars, Revoke!graphVars, Revoke!localVars, Revoke!pageVars,
        kind, holds, remote, listed, rows, recent, scan, revokeLog, request, view,
        refreshing, step, targets, status, reload, clicks, faults
  <2> QED BY <2>1, <2>3, ConstantsFit, RevokeInvNext
<1> QED BY <1>1, <1>2, PTL DEF Spec

\* (FeatureStream, AgentConsole) When nothing is in flight any more a page shows
\* what is stored: the flags in whatever order snapshot, broadcasts and
\* reconnects came, the assignments and bots whichever fetch failed.
THEOREM PagesAreAlwaysCurrent == Spec => []PagesAreCurrent
<1>1. StreamInvariant /\ AgentsInvariant => PagesAreCurrent
  BY StreamInvHolds, AgentsInvHolds DEF StreamInvariant, AgentsInvariant, PagesAreCurrent
<1> QED BY StreamIsKept, AgentsIsKept, <1>1, PTL

\* (JobConsole) What the web app answered of a Pause or a Resume of a job holds until
\* somebody writes the job again, and a job that is left disabled under an enabled
\* schedule was left so by an admin, or by a resume that is half done or broken.
THEOREM JobAnswersAlwaysHold == Spec => []JobAnswersHold
<1>1. JobsInvariant => JobAnswersHold
  BY JobsInvHolds DEF JobsInvariant, JobAnswersHold
<1> QED BY JobsIsKept, <1>1, PTL

\* Whichever page a behaviour is about, its variables have their types.
THEOREM PagesHaveTheirTypes == Spec => []TypeOK
<1>1. StreamInvariant => (subject = "stream" => Stream!TypeOK)
  BY StreamInvTypes DEF StreamInvariant
<1>2. AgentsInvariant => (subject = "agents" => Agents!TypeOK)
  BY ConstantsFit, AgentsInvTypes DEF AgentsInvariant
<1>3. JobsInvariant => (subject = "jobs" => JobPages!TypeOK)
  BY ConstantsFit, JobsInvTypes DEF JobsInvariant
<1>4. RevokeInvariant => (subject = "revoke" => Revoke!TypeOK)
  BY RevokeInvTypes DEF RevokeInvariant
<1>5. StreamInvariant /\ AgentsInvariant /\ JobsInvariant /\ RevokeInvariant => TypeOK
  BY <1>1, <1>2, <1>3, <1>4 DEF TypeOK
<1> QED BY StreamIsKept, AgentsIsKept, JobsIsKept, RevokeIsKept, <1>5, PTL

=============================================================================
