-------------------------- MODULE CopilotQuarantine --------------------------
(***************************************************************************)
(* Quarantining a Copilot agent on behalf of a signed-in administrator:    *)
(* web/app/lib/copilot-quarantine.ts, the store of delegated tokens it     *)
(* works with (web/app/lib/delegated-auth-store.ts), the sign-in and       *)
(* sign-out callbacks that fill and empty that store (web/app/lib/auth.ts) *)
(* and the handlers of web/app/api/copilot-quarantine and                  *)
(* web/app/api/auth/warmup.                                                *)
(*                                                                         *)
(* All of it lives in the memory of one web process.  Two caches sit on    *)
(* top of the store, one of access tokens and one of role answers; an      *)
(* entry of either counts only while the store still holds the state it    *)
(* was written under (the same updatedAt).  A request gives up the thread  *)
(* at every call to Entra, Graph or Power Platform, and sign-ins,          *)
(* sign-outs and other requests run in between: the page that follows a    *)
(* sign-in waits at most 900 ms for the warm-up it has started.            *)
(* Administrators share nothing, so there is one.                          *)
(***************************************************************************)
EXTENDS Naturals

CONSTANTS
    Requests,
    RoleTTL,        \* COPILOT_ROLE_CACHE_TTL_SECONDS, in ticks
    MaxTime,
    MaxSignIns,
    MaxChanges      \* bound on changes of roles and consent

VARIABLES
    clock,
    roles,      \* is a matching role held; if not, when it last was
    consented,  \* the scopes the tenant has consented to
    changes,    \* history: changes of roles and consent
    signedIn,
    signIn,     \* number of the latest sign-in
    store,      \* delegatedAuthState: whose refresh token
    tokens,     \* delegatedTokenCache
    answer,     \* roleCache
    req,        \* req[r]: a request and where it is
    bot,        \* is the agent quarantined, in Power Platform
    raced,      \* history: a call was in flight at the latest switch
    primed      \* history: the latest thing that happened is a full warm-up

tenant == <<roles, consented, changes>>
session == <<signedIn, signIn, raced>>
vars == <<clock, tenant, session, store, tokens, answer, req, bot, primed>>

Scopes == {"graph", "power"}
RequestKinds == {"warm", "view", "toggle"}
Nothing == [of |-> 0]       \* no state, no token, no answer
NoReq == [kind |-> "warm", pc |-> "idle", checks |-> 0, of |-> 0, gap |-> 0]

\* The request waits for Entra or Graph, and will write what it hears.
InCall(r) == req[r].pc \in {"graphToken", "me", "powerToken"}

Init ==
    /\ clock = 0
    /\ roles \in [held : BOOLEAN, last : {0}]
    /\ consented \in SUBSET Scopes
    /\ changes = 0
    /\ signedIn = FALSE /\ signIn = 0
    /\ store = Nothing
    /\ tokens = [s \in Scopes |-> Nothing]
    /\ answer = Nothing
    /\ req = [r \in Requests |-> NoReq]
    /\ bot = FALSE
    /\ raced = FALSE /\ primed = FALSE

-----------------------------------------------------------------------------
(* The store and the two caches.  An entry carries the updatedAt of the     *)
(* state it was written under: "this" is the state in the store, "none"     *)
(* that there was none.  One written under a state that is gone can never   *)
(* count again, so the model drops it with the state, and the code when     *)
(* it is next looked up.                                                    *)

Under == IF store = Nothing THEN "none" ELSE "this"
Current(e) == e # Nothing /\ e.under = Under

OutdatedBug(e) == e
Outdated(e) == IF e # Nothing /\ e.under = "this" THEN Nothing ELSE e

Save(of) ==
    /\ store' = [of |-> of]
    /\ tokens' = [s \in Scopes |-> Outdated(tokens[s])]
    /\ answer' = Outdated(answer)

ClearBug == UNCHANGED <<store, tokens, answer>>

Clear ==
    /\ store' = Nothing
    /\ tokens' = [s \in Scopes |-> Outdated(tokens[s])]
    /\ answer' = Outdated(answer)

TokenServes(s) == Current(tokens[s])

RoleServesBug == Current(answer)

RoleServes == Current(answer) /\ clock - answer.at <= RoleTTL

-----------------------------------------------------------------------------
(* Signing in and out.                                                      *)

Switched(in) ==
    /\ signedIn' = in
    /\ raced' = \E r \in Requests : InCall(r)
    /\ primed' = FALSE

SignIn ==
    /\ signIn < MaxSignIns
    /\ signIn' = signIn + 1
    /\ Save(signIn + 1)
    /\ Switched(TRUE)
    /\ UNCHANGED <<clock, tenant, req, bot>>

SignOut ==
    /\ signedIn
    /\ Clear
    /\ Switched(FALSE)
    /\ UNCHANGED <<clock, tenant, signIn, req, bot>>

-----------------------------------------------------------------------------
(* Requests.                                                                *)

Go(r, pc) == req' = [req EXCEPT ![r].pc = pc]
End(r) == req' = [req EXCEPT ![r] = NoReq]

\* A toggle asks for the roles in the handler and again in the library.
Start(r, k) ==
    /\ signedIn /\ req[r].pc = "idle"
    /\ req' = [req EXCEPT ![r] = [NoReq EXCEPT
                !.kind = k, !.pc = "role", !.checks = IF k = "toggle" THEN 2 ELSE 1]]
    /\ primed' = FALSE
    /\ UNCHANGED <<clock, tenant, session, store, tokens, answer, bot>>

\* An allowed answer lets r go on: to its second check, or to Power Platform.
Allowed(r) ==
    req' = [req EXCEPT ![r].checks = @ - 1,
                       ![r].pc = IF req[r].checks > 1 THEN "role" ELSE "power",
                       ![r].of = 0,
                       ![r].gap = IF roles.held THEN 0 ELSE clock - roles.last]

Decide(r, allowed) == IF allowed THEN Allowed(r) ELSE End(r)

ServeRole(r) ==
    /\ req[r].pc = "role"
    /\ RoleServes
    /\ Decide(r, answer.allowed)
    /\ UNCHANGED <<clock, tenant, session, store, tokens, answer, bot, primed>>

\* No usable answer: take a cached Graph token, or ask Entra for one, or
\* give up without a refresh token; an error takes the answer out.
AskRole(r) ==
    /\ req[r].pc = "role"
    /\ ~RoleServes
    /\ answer' = Nothing
    /\ tokens' = [tokens EXCEPT !["graph"] = IF TokenServes("graph") THEN @ ELSE Nothing]
    /\ CASE TokenServes("graph") ->
              req' = [req EXCEPT ![r].pc = "me", ![r].of = tokens["graph"].of]
         [] ~TokenServes("graph") /\ store # Nothing ->
              req' = [req EXCEPT ![r].pc = "graphToken", ![r].of = store.of]
         [] OTHER -> End(r)
    /\ UNCHANGED <<clock, tenant, session, store, bot, primed>>

\* Entra's answer is kept in the store and in the token cache, whatever has
\* become of the state the request started from.
KeepToken(r, s) ==
    LET of == req[r].of IN
    /\ store' = [of |-> of]
    /\ tokens' = [t \in Scopes |-> IF t = s THEN [of |-> of, under |-> "this"]
                                           ELSE Outdated(tokens[t])]

GraphToken(r) ==
    /\ req[r].pc = "graphToken"
    /\ "graph" \in consented
    /\ KeepToken(r, "graph")
    /\ answer' = Outdated(answer)
    /\ Go(r, "me")
    /\ UNCHANGED <<clock, tenant, session, bot, primed>>

\* No consent, or any failure of Entra or Graph: the result has an error,
\* and an error is never kept.
GraphTokenFails(r) ==
    /\ req[r].pc = "graphToken"
    /\ answer' = Nothing
    /\ tokens' = [tokens EXCEPT !["graph"] = Nothing]
    /\ End(r)
    /\ UNCHANGED <<clock, tenant, session, store, bot, primed>>

MeFails(r) ==
    /\ req[r].pc = "me"
    /\ answer' = Nothing
    /\ End(r)
    /\ UNCHANGED <<clock, tenant, session, store, tokens, bot, primed>>

\* The answer is kept under the state that is in the store now.
Me(r) ==
    /\ req[r].pc = "me"
    /\ answer' = [of |-> req[r].of, allowed |-> roles.held, under |-> Under, at |-> clock]
    /\ Decide(r, roles.held)
    /\ UNCHANGED <<clock, tenant, session, store, tokens, bot, primed>>

(* With the token in hand. *)

Warmed(r) ==
    /\ req[r].kind = "warm"
    /\ End(r)
    /\ primed' = \A q \in Requests \ {r} : req[q].pc = "idle"

\* The page reads the agents and their states, and writes nothing.
Viewed(r) ==
    /\ req[r].kind = "view"
    /\ End(r)
    /\ primed' = FALSE

\* Unless the token lacks the scope that the switch needs.
Toggling(r) ==
    /\ req[r].kind = "toggle"
    /\ req' = [req EXCEPT ![r].pc = "env", ![r].of = 0] \/ End(r)
    /\ primed' = FALSE

WithPower(r) == Warmed(r) \/ Viewed(r) \/ Toggling(r)

ServePower(r) ==
    /\ req[r].pc = "power"
    /\ TokenServes("power")
    /\ WithPower(r)
    /\ UNCHANGED <<clock, tenant, session, store, tokens, answer, bot>>

AskPowerBug(r) ==
    /\ req[r].pc = "power"
    /\ ~TokenServes("power")
    /\ tokens' = [tokens EXCEPT !["power"] = Nothing]
    /\ req' = [req EXCEPT ![r].pc = "powerToken", ![r].of = store.of]
    /\ UNCHANGED <<clock, tenant, session, store, answer, bot, primed>>

AskPower(r) ==
    /\ req[r].pc = "power"
    /\ ~TokenServes("power")
    /\ tokens' = [tokens EXCEPT !["power"] = Nothing]
    /\ IF store # Nothing
       THEN req' = [req EXCEPT ![r].pc = "powerToken", ![r].of = store.of]
       ELSE End(r)
    /\ UNCHANGED <<clock, tenant, session, store, answer, bot, primed>>

PowerToken(r) ==
    /\ req[r].pc = "powerToken"
    /\ "power" \in consented
    /\ KeepToken(r, "power")
    /\ answer' = Outdated(answer)
    /\ WithPower(r)
    /\ UNCHANGED <<clock, tenant, session, bot>>

PowerFails(r) ==
    /\ req[r].pc = "powerToken"
    /\ tokens' = [tokens EXCEPT !["power"] = Nothing]
    /\ End(r)
    /\ UNCHANGED <<clock, tenant, session, store, answer, bot, primed>>

ResolveEnvironment(r) ==
    /\ req[r].pc = "env"
    /\ \/ Go(r, "post")
       \/ End(r)
    /\ UNCHANGED <<clock, tenant, session, store, tokens, answer, bot, primed>>

\* The POST may be carried out and its answer lost; the status is read after
\* an answer only.  Either way one row of the log ends the request.
Post(r) ==
    /\ req[r].pc = "post"
    /\ \/ /\ bot' \in BOOLEAN
          /\ Go(r, "status") \/ End(r)
       \/ bot' = bot /\ End(r)
    /\ UNCHANGED <<clock, tenant, session, store, tokens, answer, primed>>

Status(r) ==
    /\ req[r].pc = "status"
    /\ End(r)
    /\ UNCHANGED <<clock, tenant, session, store, tokens, answer, bot, primed>>

-----------------------------------------------------------------------------
(* The rest of the world.                                                   *)

\* Time passes, and access tokens come within 60 s of the expiry that Entra
\* has given them.
Tick ==
    /\ clock < MaxTime
    /\ clock' = clock + 1
    /\ \E expired \in SUBSET Scopes :
        tokens' = [s \in Scopes |-> IF s \in expired THEN Nothing ELSE tokens[s]]
    /\ primed' = FALSE
    /\ UNCHANGED <<tenant, session, store, answer, req, bot>>

\* A day without a save (STATE_TTL_MS): the next use of the store prunes the
\* state, and what the caches hold has expired long before.
DayPasses ==
    /\ store # Nothing
    /\ \A r \in Requests : req[r].pc = "idle"
    /\ store' = Nothing /\ answer' = Nothing
    /\ tokens' = [s \in Scopes |-> Nothing]
    /\ primed' = FALSE
    /\ UNCHANGED <<clock, tenant, session, req, bot>>

RolesChange ==
    /\ changes < MaxChanges
    /\ changes' = changes + 1
    /\ roles' = [held |-> ~roles.held, last |-> IF roles.held THEN clock ELSE 0]
    /\ primed' = FALSE
    /\ UNCHANGED <<clock, consented, session, store, tokens, answer, req, bot>>

Consent ==
    /\ changes < MaxChanges
    /\ changes' = changes + 1
    /\ consented' \in SUBSET Scopes
    /\ primed' = FALSE
    /\ UNCHANGED <<clock, roles, session, store, tokens, answer, req, bot>>

Next ==
    \/ SignIn
    \/ SignOut
    \/ \E r \in Requests :
        \/ \E k \in RequestKinds : Start(r, k)
        \/ ServeRole(r)
        \/ AskRole(r)
        \/ GraphToken(r)
        \/ GraphTokenFails(r)
        \/ MeFails(r)
        \/ Me(r)
        \/ ServePower(r)
        \/ AskPower(r)
        \/ PowerToken(r)
        \/ PowerFails(r)
        \/ ResolveEnvironment(r)
        \/ Post(r)
        \/ Status(r)
    \/ Tick
    \/ DayPasses
    \/ RolesChange
    \/ Consent

Spec == Init /\ [][Next]_vars

-----------------------------------------------------------------------------
(* Properties.                                                              *)

SignIns == 0 .. MaxSignIns
Time == 0 .. MaxTime
Unders == {"this", "none"}

\* Types of the variables, and: what is cached was got under a sign-in.
TypeOK ==
    /\ clock \in Time /\ changes \in 0 .. MaxChanges
    /\ roles \in [held : BOOLEAN, last : Time]
    /\ consented \subseteq Scopes
    /\ signedIn \in BOOLEAN /\ signIn \in SignIns
    /\ store \in {Nothing} \cup [of : SignIns \ {0}]
    /\ tokens \in [Scopes -> {Nothing} \cup [of : SignIns \ {0}, under : {"this"}]]
    /\ answer \in {Nothing} \cup
            [of : SignIns \ {0}, allowed : BOOLEAN, under : Unders, at : Time]
    /\ req \in [Requests -> [kind : RequestKinds, checks : 0 .. 2, of : SignIns, gap : Time,
            pc : {"idle", "role", "graphToken", "me", "power", "powerToken", "env",
                  "post", "status"}]]
    /\ bot \in BOOLEAN /\ raced \in BOOLEAN /\ primed \in BOOLEAN

\* Whoever switches the agent has held one of the roles within the last
\* RoleTTL before the handler let the request through, although the answer
\* may come from the cache, may have been written under a state that another
\* request has replaced, and the role may have been withdrawn meanwhile.
PostsAreEntitled ==
    \A r \in Requests : req[r].pc \in {"env", "post", "status"} => req[r].gap <= RoleTTL

\* After a sign-out the server keeps no refresh token of the administrator,
\* unless a refresh was under way that put it back.
SignedOutIsForgotten == ~signedIn /\ ~raced => store = Nothing

\* Requests are answered with the tokens and the roles of the latest
\* sign-in, not of an earlier one, unless a call was under way during it.
LatestSignInCounts ==
    signedIn /\ ~raced =>
        /\ store # Nothing => store.of = signIn
        /\ \A s \in Scopes : TokenServes(s) => tokens[s].of = signIn
        /\ RoleServes => answer.of = signIn

\* web/tests/auth-warmup-route.test.ts:90 "auth warmup primes quarantine auth
\* state for admins": the page that follows a warm-up nothing has disturbed
\* finds both the role answer and the Power Platform token in the caches.
\* Refuted: the README's divergences say how.
PrimedIsServed == primed => RoleServes /\ TokenServes("power")
=============================================================================
