----------------------------- MODULE DataverseToken -----------------------------
(***************************************************************************)
(* The web process's Dataverse client: its token, shared by every request  *)
(* and cached until a minute before it expires, and the requests that read *)
(* tables page by page or patch a row (web/app/lib/dataverse.ts,           *)
(* web/app/lib/http.ts).                                                   *)
(*                                                                         *)
(* JavaScript: an action runs from one await to the next.  The token, its  *)
(* expiry, the promise of an acquisition and the MSAL client are module    *)
(* variables, which acquisitions in flight overwrite under one another     *)
(* while an administrator changes the configuration.                       *)
(*                                                                         *)
(* Abstracted: the four settings are one configuration, read in one step;  *)
(* the code awaits each before it compares them (dataverse.ts:62-65), and  *)
(* a change that falls between two of these reads is not modelled.  The    *)
(* base URL is read again for the scope, as the code does.  Rows and       *)
(* queries.  A token is the configuration it was asked under, the client's *)
(* and the scope's.  An acquisition is named by the request that began it. *)
(***************************************************************************)
EXTENDS Integers, FiniteSets

CONSTANTS
    Requests,
    Configs, NotSet,    \* configurations; settings missing
    None,
    Life, Margin,       \* of a token; 60 s
    Pages,              \* pages of the table read
    Troubles,           \* what the messages of failures may say
    LastMoment, MaxConfigures   \* bounds

VARIABLES
    moment, config, configures,
    client,     \* the configuration msalClient was built for
    cached,     \* cachedToken and cachedTokenExpiresAt
    shared,     \* tokenPromise: the acquisition it belongs to
    acq,        \* acquisitions
    call,       \* requests
    rebuilds,   \* history: clients built
    overtaken   \* history: a former client's token came after the new client

tokenVars == <<moment, config, configures, client, cached, shared, acq, call, rebuilds, overtaken>>

NoAcq == [at |-> "none", key |-> NotSet, asked |-> NotSet, scope |-> NotSet, token |-> None]
NoCall == [at |-> "idle", url |-> NotSet, on |-> None, token |-> None, page |-> 1, error |-> "none"]

Init ==
    /\ moment = 0 /\ config \in Configs /\ configures = 0
    /\ client = NotSet /\ cached = None /\ shared = None
    /\ acq = [r \in Requests |-> NoAcq]
    /\ call = [r \in Requests |-> NoCall]
    /\ rebuilds = 0 /\ overtaken = FALSE

CachedIsLive == cached # None /\ moment < cached.until - Margin

\* What a failure is called, by the words of its message.
ClassifyDataverseError(words) ==
    CASE words = "must be set"                          -> "not_configured"
      [] words \in {"(401)", "unauthorized", "no token"} -> "auth_failed"
      [] words \in {"(403)", "forbidden"}               -> "permission_denied"
      [] words \in {"(503)", "timed out"}               -> "unreachable"
      [] OTHER                                          -> "unknown"

Fail(r, words) ==
    [call[r] EXCEPT !.at = "failed", !.token = None, !.error = ClassifyDataverseError(words)]

-----------------------------------------------------------------------------
(* Time, and an administrator's change of the settings *)

Tick ==
    /\ moment < LastMoment
    /\ moment' = moment + 1
    /\ UNCHANGED <<config, configures, client, cached, shared, acq, call, rebuilds, overtaken>>

Configure(c) ==
    /\ configures < MaxConfigures /\ c # config
    /\ config' = c
    /\ configures' = configures + 1
    /\ UNCHANGED <<moment, client, cached, shared, acq, call, rebuilds, overtaken>>

-----------------------------------------------------------------------------
(* A request *)

BuildUrl(r) ==
    /\ call[r].at = "idle"
    /\ call' = [call EXCEPT ![r] = IF config = NotSet THEN Fail(r, "must be set")
                                   ELSE [@ EXCEPT !.at = "ready", !.url = config]]
    /\ UNCHANGED <<moment, config, configures, client, cached, shared, acq, rebuilds, overtaken>>

\* getDataverseToken: join the acquisition in flight or begin one, which a live
\* token in the cache ends at once, whatever the configuration is by then.
AskTokenBug(r) ==
    /\ call[r].at = "ready"
    /\ acq' = [acq EXCEPT ![r] = IF CachedIsLive THEN [NoAcq EXCEPT !.at = "settled", !.token = cached]
                                 ELSE [NoAcq EXCEPT !.at = "client"]]
    /\ shared' = r
    /\ call' = [call EXCEPT ![r] = [@ EXCEPT !.at = "asking", !.on = r]]
    /\ UNCHANGED <<moment, config, configures, client, cached, rebuilds, overtaken>>
AskToken(r) ==
    /\ call[r].at = "ready"
    /\ IF shared # None THEN UNCHANGED <<acq, shared>>
       ELSE /\ acq' = [acq EXCEPT ![r] =
                  IF CachedIsLive THEN [NoAcq EXCEPT !.at = "settled", !.token = cached]
                  ELSE [NoAcq EXCEPT !.at = "client"]]
            /\ shared' = r
    /\ call' = [call EXCEPT ![r] = [@ EXCEPT !.at = "asking", !.on = shared']]
    /\ UNCHANGED <<moment, config, configures, client, cached, rebuilds, overtaken>>

\* fetchDataverse: the next page asks for the token again.  Dataverse takes one
\* of its own scope that has not expired; the timeout is fetchWithTimeout's.
Respond(r) ==
    /\ call[r].at = "sent"
    /\ \/ /\ call[r].token.scope = call[r].url /\ moment < call[r].token.until
          /\ call' = [call EXCEPT ![r] =
                IF call[r].page < Pages
                THEN [@ EXCEPT !.at = "ready", !.token = None, !.page = call[r].page + 1]
                ELSE [@ EXCEPT !.at = "done", !.token = None]]
       \/ /\ call[r].token.scope # call[r].url \/ moment >= call[r].token.until
          /\ call' = [call EXCEPT ![r] = Fail(r, "(401)")]
       \/ \E words \in Troubles :
              call' = [call EXCEPT ![r] = Fail(r, words)]
    /\ UNCHANGED <<moment, config, configures, client, cached, shared, acq, rebuilds, overtaken>>

-----------------------------------------------------------------------------
(* An acquisition *)

Lost(r, words) ==
    acq' = [acq EXCEPT ![r] = [NoAcq EXCEPT !.at = "failed", !.key = words]]

\* A new configuration: forget the token and the promise, the caller's own too.
NewClientBug == cached' = cached /\ shared' = None
NewClient == cached' = None /\ shared' = None

GetMsalClientBug(r) ==
    /\ acq[r].at = "client"
    /\ IF config = NotSet
       THEN Lost(r, "must be set") /\ UNCHANGED <<client, cached, shared, rebuilds, overtaken>>
       ELSE /\ client' = (IF client = NotSet THEN config ELSE client)
            /\ acq' = [acq EXCEPT ![r] = [@ EXCEPT !.at = "scope", !.key = client', !.asked = config]]
            /\ UNCHANGED <<cached, shared, rebuilds, overtaken>>
    /\ UNCHANGED <<moment, config, configures, call>>
GetMsalClient(r) ==
    /\ acq[r].at = "client"
    /\ \/ /\ config = NotSet
          /\ Lost(r, "must be set")
          /\ UNCHANGED <<client, cached, shared, rebuilds, overtaken>>
       \/ /\ config # NotSet
          /\ acq' = [acq EXCEPT ![r] = [@ EXCEPT !.at = "scope", !.key = config, !.asked = config]]
          /\ \/ client = config /\ UNCHANGED <<client, cached, shared, rebuilds, overtaken>>
             \/ /\ client # config
                /\ client' = config
                /\ NewClient
                /\ rebuilds' = rebuilds + 1 /\ overtaken' = FALSE
    /\ UNCHANGED <<moment, config, configures, call>>

ReadScope(r) ==
    /\ acq[r].at = "scope"
    /\ IF config = NotSet THEN Lost(r, "must be set")
       ELSE acq' = [acq EXCEPT ![r] = [@ EXCEPT !.at = "entra", !.scope = config]]
    /\ UNCHANGED <<moment, config, configures, client, cached, shared, call, rebuilds, overtaken>>

EntraAnswers(r) ==
    /\ acq[r].at = "entra"
    /\ LET token == [key |-> acq[r].key, asked |-> acq[r].asked, scope |-> acq[r].scope,
                     until |-> moment + Life]
       IN  /\ cached' = token
           /\ acq' = [acq EXCEPT ![r] = [@ EXCEPT !.at = "settled", !.token = token]]
    /\ overtaken' = (acq[r].key # client)
    /\ UNCHANGED <<moment, config, configures, client, shared, call, rebuilds>>

EntraFails(r) ==
    /\ acq[r].at = "entra"
    /\ \E words \in Troubles : Lost(r, words)
    /\ UNCHANGED <<moment, config, configures, client, cached, shared, call, rebuilds, overtaken>>

\* The promise's finally, which clears tokenPromise whosever it is by moment, and
\* then its waiters.
Settle(r) ==
    /\ acq[r].at \in {"settled", "failed"}
    /\ shared' = None
    /\ call' = [q \in Requests |->
                   IF call[q].on # r THEN call[q]
                   ELSE IF acq[r].at = "failed" THEN [Fail(q, acq[r].key) EXCEPT !.on = None]
                   ELSE [call[q] EXCEPT !.at = "sent", !.on = None, !.token = acq[r].token]]
    /\ acq' = [acq EXCEPT ![r] = NoAcq]
    /\ UNCHANGED <<moment, config, configures, client, cached, rebuilds, overtaken>>

Next ==
    \/ Tick
    \/ \E c \in Configs \cup {NotSet} : Configure(c)
    \/ \E r \in Requests :
          BuildUrl(r) \/ AskToken(r) \/ Respond(r) \/ GetMsalClient(r) \/ ReadScope(r)
            \/ EntraAnswers(r) \/ EntraFails(r) \/ Settle(r)

Spec == Init /\ [][Next]_tokenVars

-----------------------------------------------------------------------------
(* Properties *)

Token == [key : Configs, asked : Configs, scope : Configs, until : 0..(LastMoment + Life)]

TypeOK ==
    /\ moment \in 0..LastMoment /\ config \in Configs \cup {NotSet}
    /\ client \in Configs \cup {NotSet} /\ shared \in Requests \cup {None}
    /\ cached \in Token \cup {None}
    /\ \A r \in Requests :
          /\ acq[r].at \in {"none", "client", "scope", "entra", "settled", "failed"}
          /\ call[r].on \in Requests \cup {None} /\ call[r].token \in Token \cup {None}
          /\ call[r].at = "sent" <=> call[r].token # None
          /\ call[r].at = "asking" <=> call[r].on # None
          /\ call[r].at = "failed" <=> call[r].error # "none"

\* However the settings change and acquisitions overtake one another, a request
\* carries a token of the client of the settings its acquisition read; and a
\* token that would still be served is the current client's, unless an
\* acquisition under former settings answered after that client was built.
TokensFollowTheConfiguration ==
    /\ \A r \in Requests : call[r].at = "sent" => call[r].token.key = call[r].token.asked
    /\ CachedIsLive => cached.key = client \/ overtaken

\* Requests share acquisitions: however many ask at once, there is one in flight
\* that requests join, and one besides for each time a client was built.  No
\* request waits on an acquisition that is over.
AcquisitionsAreShared ==
    /\ Cardinality({r \in Requests : acq[r].at # "none"} \ {shared}) <= rebuilds
    /\ \A r \in Requests : call[r].at = "asking" => acq[call[r].on].at # "none"

=============================================================================
