--------------------------- MODULE FeatureStream ---------------------------
(***************************************************************************)
(* How a change of a feature flag or of the license reaches the open       *)
(* pages: web/app/lib/feature-flags-stream.ts (one LISTEN connection per   *)
(* web process, and the broadcast), the SSE handler of                     *)
(* web/app/api/feature-flags/stream/route.ts, what a payload is read from  *)
(* (web/app/lib/feature-flags.ts) and the page's EventSource               *)
(* (web/components/feature-flags-provider.tsx).                            *)
(*                                                                         *)
(* A commit that changes the effective flags notifies the sessions that    *)
(* listen at that moment, and no other.  startListener always tears down   *)
(* the connection there is before it makes a new one, and every new        *)
(* subscriber calls it.  A payload is read in two queries, the flags and   *)
(* then the license, so commits count the changes of each.                 *)
(***************************************************************************)
EXTENDS Naturals, Sequences

CONSTANTS
    Pages,
    MaxCommits,
    MaxFaults,      \* bound on failures of the database and of connections
    MaxOpens        \* bound on streams opened, reconnects included

VARIABLES
    flags, license,     \* number of commits to either
    starting,           \* connectListener: "no", "env", "ending", "connecting"
    listener,           \* state.client: "none", "new", "listening", "dead"
    ending,             \* error or end handlers waiting for client.end()
    timer,              \* state.reconnectTimer is set
    inbox,              \* a notification is on its way
    cast,               \* the broadcast: its step, what it has read, and
                        \* (history) whether a notification was lost since
    again,              \* state.broadcastQueued
    page,               \* page[p]: the page's stream, on the server
    shown,              \* shown[p]: the flags the page works with
    lost,               \* history: pages a notification was lost for
    faults, opens

server == <<starting, listener, ending, timer, inbox>>
casting == <<cast, again>>
streams == <<page, shown, opens>>
streamVars == <<flags, license, server, casting, streams, lost, faults>>

Idle == [step |-> "no", flags |-> 0, stale |-> FALSE]
Closed == [at |-> "closed", flags |-> 0, queue |-> <<>>]
Now == [flags |-> flags, license |-> license]
Subscribers == {p \in Pages : page[p].at # "closed"}

Init ==
    /\ flags = 0 /\ license = 0
    /\ starting = "no" /\ listener = "none" /\ ending = 0
    /\ timer = FALSE /\ inbox = FALSE
    /\ cast = Idle /\ again = FALSE
    /\ page = [p \in Pages |-> Closed]
    /\ shown = [p \in Pages |-> Now]
    /\ lost = {}
    /\ faults = 0 /\ opens = 0

Lose ==
    /\ lost' = lost \cup Subscribers
    /\ cast' = [cast EXCEPT !.stale = cast # Idle]

Fault == faults < MaxFaults /\ faults' = faults + 1

-----------------------------------------------------------------------------
(* The database.                                                            *)

\* The trigger notifies who listens.  Notifications that are under way merge
\* into one: the broadcast reads the latest state for each of them.
Notify ==
    IF listener = "listening"
    THEN inbox' = TRUE /\ UNCHANGED <<lost, cast>>
    ELSE Lose /\ UNCHANGED inbox

Commit ==
    /\ flags + license < MaxCommits
    /\ \/ flags' = flags + 1 /\ UNCHANGED license
       \/ license' = license + 1 /\ UNCHANGED flags
    /\ Notify
    /\ UNCHANGED <<starting, listener, ending, timer, again, streams, faults>>

-----------------------------------------------------------------------------
(* The listener.                                                            *)

\* Single flight: whoever finds one under way waits for it.
StartListener == starting' = IF starting = "no" THEN "env" ELSE starting

\* disconnectListener, up to its await: a notification that was on its way
\* reaches nobody.
Disconnect ==
    /\ timer' = FALSE
    /\ listener' = "none"
    /\ inbox' = FALSE
    /\ IF inbox THEN Lose ELSE UNCHANGED <<lost, cast>>

ScheduleReconnect == timer' = TRUE

\* DATABASE_URL is known: the client there is, however healthy, is ended.
TearDown ==
    /\ starting = "env"
    /\ Disconnect
    /\ starting' = "ending"
    /\ UNCHANGED <<flags, license, ending, again, streams, faults>>

NewClient ==
    /\ starting = "ending"
    /\ listener' = "new"
    /\ starting' = "connecting"
    /\ UNCHANGED <<flags, license, ending, timer, inbox, casting, streams, lost, faults>>

\* LISTEN has run: whoever waits for the listener goes on to its snapshot.
Listening ==
    /\ starting = "connecting" /\ listener = "new"
    /\ listener' = "listening"
    /\ starting' = "no"
    /\ page' = [p \in Pages |-> IF page[p].at = "subscribing"
                                THEN [page[p] EXCEPT !.at = "flags"] ELSE page[p]]
    /\ UNCHANGED <<flags, license, ending, timer, inbox, casting, shown, opens, lost, faults>>

\* The environment, the connection or LISTEN failed, or an event has taken
\* the new client away: whoever waits gets the error, and its stream closes.
StartFails ==
    /\ starting # "no"
    /\ IF starting = "connecting" /\ listener = "none" THEN UNCHANGED faults ELSE Fault
    /\ starting' = "no"
    /\ ScheduleReconnect
    /\ listener' = IF listener = "new" THEN "dead" ELSE listener
    /\ page' = [p \in Pages |-> IF page[p].at = "subscribing" THEN Closed ELSE page[p]]
    /\ UNCHANGED <<flags, license, ending, inbox, casting, shown, opens, lost>>

\* "error" or "end" of the current client.
ConnectionLost ==
    /\ listener \in {"new", "listening"}
    /\ Fault
    /\ Disconnect
    /\ ending' = ending + 1
    /\ UNCHANGED <<flags, license, starting, again, streams>>

\* Its handler has ended the client and asks for a reconnect, although a
\* new client may be in place by now.
EndedBug ==
    /\ ending > 0
    /\ ending' = ending - 1
    /\ UNCHANGED <<flags, license, starting, listener, timer, inbox, casting, streams, lost, faults>>

Ended ==
    /\ ending > 0
    /\ ending' = ending - 1
    /\ ScheduleReconnect
    /\ UNCHANGED <<flags, license, starting, listener, inbox, casting, streams, lost, faults>>

Reconnect ==
    /\ timer
    /\ timer' = FALSE
    /\ StartListener
    /\ UNCHANGED <<flags, license, listener, ending, inbox, casting, streams, lost, faults>>

-----------------------------------------------------------------------------
(* The broadcast.                                                           *)

\* One that is under way is asked to read once more.
NotificationBug ==
    /\ inbox
    /\ inbox' = FALSE
    /\ cast' = IF cast = Idle THEN [cast EXCEPT !.step = "flags"] ELSE cast
    /\ UNCHANGED <<flags, license, starting, listener, ending, timer, again, streams, lost, faults>>

Notification ==
    /\ inbox
    /\ inbox' = FALSE
    /\ IF cast = Idle
       THEN cast' = [cast EXCEPT !.step = "flags"] /\ again' = FALSE
       ELSE again' = TRUE /\ UNCHANGED cast
    /\ UNCHANGED <<flags, license, starting, listener, ending, timer, streams, lost, faults>>

CastFlags ==
    /\ cast.step = "flags"
    /\ cast' = [cast EXCEPT !.step = "license", !.flags = flags]
    /\ UNCHANGED <<flags, license, server, again, streams, lost, faults>>

\* The subscriber of a page: a payload that arrives before the snapshot is
\* kept until the snapshot has been sent.
Deliver(payload) ==
    /\ page' = [p \in Pages |->
            IF page[p].at \in {"subscribing", "flags", "license"}
            THEN [page[p] EXCEPT !.queue = Append(@, payload)] ELSE page[p]]
    /\ shown' = [p \in Pages |-> IF page[p].at = "open" THEN payload ELSE shown[p]]

CastLicense ==
    /\ cast.step = "license"
    /\ Deliver([flags |-> cast.flags, license |-> license])
    /\ cast' = IF again THEN [Idle EXCEPT !.step = "flags"] ELSE Idle
    /\ again' = FALSE
    /\ lost' = IF cast.stale THEN lost \cup Subscribers ELSE lost
    /\ UNCHANGED <<flags, license, server, opens, faults>>

\* A failed read ends the broadcast, with the one that was asked for.
CastFails ==
    /\ cast # Idle
    /\ Fault
    /\ cast' = Idle
    /\ lost' = lost \cup Subscribers
    /\ UNCHANGED <<flags, license, server, again, streams>>

-----------------------------------------------------------------------------
(* The pages' streams.                                                      *)

Open(p) ==
    /\ page[p].at = "closed"
    /\ opens < MaxOpens
    /\ opens' = opens + 1
    /\ page' = [page EXCEPT ![p] = [Closed EXCEPT !.at = "subscribing"]]
    /\ lost' = lost \ {p}
    /\ StartListener
    /\ UNCHANGED <<flags, license, listener, ending, timer, inbox, casting, shown, faults>>

SnapshotFlags(p) ==
    /\ page[p].at = "flags"
    /\ page' = [page EXCEPT ![p].at = "license", ![p].flags = flags]
    /\ UNCHANGED <<flags, license, server, casting, shown, opens, lost, faults>>

\* The snapshot goes out, and after it what has been kept; the page applies
\* every payload it gets, whatever its version.
LastOf(snapshot, queue) == IF queue = <<>> THEN snapshot ELSE queue[Len(queue)]

Snapshot(p) ==
    /\ page[p].at = "license"
    /\ shown' = [shown EXCEPT ![p] =
            LastOf([flags |-> page[p].flags, license |-> license], page[p].queue)]
    /\ page' = [page EXCEPT ![p] = [Closed EXCEPT !.at = "open"]]
    /\ UNCHANGED <<flags, license, server, casting, opens, lost, faults>>

\* The connection to the browser breaks, or the snapshot cannot be read:
\* the server forgets the stream, and the EventSource opens another one.
Drop(p) ==
    /\ page[p].at # "closed"
    /\ Fault
    /\ page' = [page EXCEPT ![p] = Closed]
    /\ UNCHANGED <<flags, license, server, casting, shown, opens, lost>>

Next ==
    \/ Commit
    \/ TearDown
    \/ NewClient
    \/ Listening
    \/ StartFails
    \/ ConnectionLost
    \/ Ended
    \/ Reconnect
    \/ Notification
    \/ CastFlags
    \/ CastLicense
    \/ CastFails
    \/ \E p \in Pages :
        \/ Open(p)
        \/ SnapshotFlags(p)
        \/ Snapshot(p)
        \/ Drop(p)

\* Promises settle and timers fire; an EventSource that was closed is opened
\* again.  Nothing obliges anyone to commit, or anything to fail.
Fairness ==
    /\ WF_streamVars(TearDown)
    /\ WF_streamVars(NewClient)
    /\ WF_streamVars(Listening)
    /\ WF_streamVars(starting = "connecting" /\ listener = "none" /\ StartFails)
    /\ WF_streamVars(Ended)
    /\ WF_streamVars(Reconnect)
    /\ WF_streamVars(Notification)
    /\ WF_streamVars(CastFlags)
    /\ WF_streamVars(CastLicense)
    /\ \A p \in Pages :
        /\ WF_streamVars(Open(p))
        /\ WF_streamVars(SnapshotFlags(p))
        /\ WF_streamVars(Snapshot(p))

Spec == Init /\ [][Next]_streamVars
FairSpec == Spec /\ Fairness

-----------------------------------------------------------------------------
(* Properties.                                                              *)

Counts == 0 .. MaxCommits
Payloads == [flags : Counts, license : Counts]

\* Types of the variables.
TypeOK ==
    /\ {flags, license} \subseteq Counts
    /\ starting \in {"no", "env", "ending", "connecting"}
    /\ listener \in {"none", "new", "listening", "dead"}
    /\ ending \in 0 .. MaxFaults /\ faults \in 0 .. MaxFaults /\ opens \in 0 .. MaxOpens
    /\ {timer, inbox, again} \subseteq BOOLEAN
    /\ cast \in [step : {"no", "flags", "license"}, flags : Counts, stale : BOOLEAN]
    /\ page \in [Pages -> [at : {"closed", "subscribing", "flags", "license", "open"},
                           flags : Counts, queue : Seq(Payloads)]]
    /\ shown \in [Pages -> Payloads]
    /\ lost \subseteq Pages

Quiet == ~inbox /\ cast = Idle /\ starting = "no"

\* When the traffic is over, an open page shows the flags that the database
\* holds, in whatever order snapshot, broadcasts, commits and reconnects
\* came, unless a notification was lost while the page was subscribed or
\* while a broadcast that it got was reading.
SettledPagesAreCurrent ==
    \A p \in Pages : Quiet /\ page[p].at = "open" /\ p \notin lost => shown[p] = Now

\* DB-README.md:192 "The web app listens to that channel to update
\* /api/feature-flags/stream": every change reaches the streams that are open
\* and listening, at the latest when the traffic is over.
\* Refuted: the README's divergences say how.
StreamsAreUpdated ==
    \A p \in Pages :
        Quiet /\ page[p].at = "open" /\ listener = "listening" /\ faults = 0 => shown[p] = Now

\* Once a page has asked for its stream, the process listens again and
\* again, however errors, ends, failed attempts and new subscribers meet, as
\* long as failures come to an end.
Listens == opens = 0 \/ listener = "listening"
ListenerComesBack == []<>Listens
=============================================================================
