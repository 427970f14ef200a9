---------------------------- MODULE RequestGate ----------------------------
(***************************************************************************)
(* The way of a request into the web application: the proxy                *)
(* (web/proxy.ts), which looks up the administrators' group in Key Vault   *)
(* (web/app/lib/proxy-runtime-env.ts) and hands out the CSRF token, then   *)
(* the handler, which looks the group up again (web/app/lib/auth.ts,       *)
(* web/app/lib/runtime-env.ts) and checks the token of a form              *)
(* (web/app/lib/csrf.ts).                                                  *)
(*                                                                         *)
(* A lookup notes the value in process.env, asks the vault, and applies    *)
(* the answer when it comes; the vault's value changes, and vault and      *)
(* process fail, in between.  The two lookups keep a last-known-good value *)
(* each; only the handler's writes process.env.  The secret that signs     *)
(* sessions and CSRF tokens lives as long as the process.                  *)
(***************************************************************************)
EXTENDS Naturals

CONSTANTS
    Tabs,           \* the browser tabs of one administrator
    Groups,         \* values of ADMIN_GROUP_ID
    Member,         \* the groups in the session's token
    MaxRotations,   \* bound on changes of the vault and its reachability
    MaxBoots,
    MaxTokens       \* bound on CSRF tokens made

VARIABLES
    vault,      \* the secret: a group, or "none" (missing, blank or unset)
    reachable,
    env,        \* process.env.ADMIN_GROUP_ID
    good,       \* lastKnownGood
    proxyGood,  \* proxyLastKnownGood
    boot,       \* number of starts of the process
    session,    \* the boot under which the browser's session was signed
    csrf,       \* the browser's CSRF cookie
    made,       \* number of CSRF tokens made
    tab,        \* tab[t]: a tab, its page and its request
    rotations,
    fetched,    \* history: the value that the vault gave a handler last
    crossed     \* history: handler lookups have overlapped

config == <<vault, reachable, rotations>>
memory == <<env, good, proxyGood>>
browser == <<session, csrf, made>>
gateVars == <<config, memory, boot, browser, tab, fetched, crossed>>

Values == Groups \cup {"none"}
NoToken == [boot |-> 0, id |-> 0]
NoLook == [step |-> "ask", was |-> "none", got |-> "none"]
NoRequest == [at |-> "idle", kind |-> "page", look |-> NoLook, token |-> NoToken,
              page |-> NoToken, fresh |-> FALSE, held |-> {}, gap |-> FALSE, mixed |-> FALSE]

\* Start-up: what the process has not been given comes from the vault, and
\* without the group, or without the vault, the process does not start.
Hydrated(given) == IF given = "none" THEN vault ELSE given
Starts(given) == reachable /\ Hydrated(given) # "none"

Init ==
    /\ vault \in Values /\ reachable = TRUE
    /\ \E given \in Values : Starts(given) /\ env = Hydrated(given)
    /\ good = "none" /\ proxyGood = "none"
    /\ boot = 1 /\ session = 1
    /\ csrf = NoToken /\ made = 0
    /\ tab = [t \in Tabs |-> NoRequest]
    /\ rotations = 0
    /\ fetched = "none" /\ crossed = FALSE

-----------------------------------------------------------------------------
(* Lookups.                                                                 *)

Set(t, new) == tab' = [tab EXCEPT ![t] = new]

\* getRuntimeEnv, getProxyRuntimeEnv: process.env is read before the call.
Ask(t) ==
    /\ tab[t].at \in {"proxy", "handler"} /\ tab[t].look.step = "ask"
    /\ tab' = [tab EXCEPT ![t].look = [NoLook EXCEPT !.step = "fetch", !.was = env]]
    /\ crossed' = (crossed \/ (tab[t].at = "handler" /\ \E u \in Tabs \ {t} :
                       tab[u].at = "handler" /\ tab[u].look.step # "ask"))
    /\ UNCHANGED <<config, memory, boot, browser, fetched>>

Fetch(t) ==
    /\ tab[t].look.step = "fetch"
    /\ tab' = [tab EXCEPT ![t].look.step = "apply",
                          ![t].look.got = IF reachable THEN vault ELSE "failed"]
    /\ fetched' = IF tab[t].at = "handler" /\ reachable /\ vault # "none"
                  THEN vault ELSE fetched
    /\ UNCHANGED <<config, memory, boot, browser, crossed>>

\* What a lookup returns: the vault's value, else what process.env had; when
\* the vault does not answer, the last-known-good value first.
ResultBug(look, lastGood) ==
    CASE look.was # "none" -> look.was
      [] look.got \in Groups -> look.got
      [] OTHER -> lastGood

Result(look, lastGood) ==
    CASE look.got \in Groups -> look.got
      [] look.got = "none" -> look.was
      [] OTHER -> IF lastGood # "none" THEN lastGood ELSE look.was

\* The handler's lookup leaves its result in lastKnownGood, and what came
\* from the vault in process.env.
RememberBug(look) ==
    /\ good' = IF look.got = "none" THEN look.was ELSE good
    /\ env' = IF look.got \in Groups THEN look.got
              ELSE IF look.got = "none" /\ look.was = "none" THEN "none" ELSE env
    /\ UNCHANGED proxyGood

Remember(look) ==
    /\ good' = Result(look, good)
    /\ env' = IF look.got \in Groups THEN look.got
              ELSE IF look.got = "none" /\ look.was = "none" THEN "none" ELSE env
    /\ UNCHANGED proxyGood

\* The proxy's lookup keeps no failed lookup's result, and leaves
\* process.env alone.
RememberProxy(look) ==
    /\ proxyGood' = IF look.got = "failed" THEN proxyGood ELSE Result(look, proxyGood)
    /\ UNCHANGED <<good, env>>

-----------------------------------------------------------------------------
(* Requests.                                                                *)

ValidToken(token) == token.boot = boot

\* A form is sent from a page and carries the page's token; the request
\* carries the cookies that the browser has now.
Send(t, kind) ==
    /\ tab[t].at = "idle"
    /\ kind = "form" => tab[t].page # NoToken
    /\ Set(t, [tab[t] EXCEPT !.at = "proxy", !.kind = kind, !.look = NoLook,
                !.token = csrf, !.held = {vault}, !.gap = ~reachable \/ vault = "none"])
    /\ UNCHANGED <<config, memory, boot, browser, fetched, crossed>>

Done(t) == [tab[t] EXCEPT !.at = "idle", !.look = NoLook, !.token = NoToken,
                          !.fresh = FALSE, !.held = {}, !.gap = FALSE]

\* A session of another boot: to the sign-in page, or 401.
Unauthorized(t) ==
    /\ tab[t].at = "proxy" /\ tab[t].look.step = "ask"
    /\ session # boot
    /\ Set(t, Done(t))
    /\ UNCHANGED <<config, memory, boot, browser, fetched, crossed>>

\* The proxy lets an administrator through, with the CSRF cookie of the
\* browser, or with a new token when that one is not of this boot.
AdmitBug(t) ==
    LET look == tab[t].look IN
    /\ tab[t].at = "proxy" /\ look.step = "apply"
    /\ session = boot
    /\ Result(look, proxyGood) \in Member
    /\ RememberProxy(look)
    /\ made < MaxTokens
    /\ made' = made + 1
    /\ Set(t, [tab[t] EXCEPT !.at = "handler", !.look = NoLook,
                             !.token = [boot |-> boot, id |-> made + 1], !.fresh = TRUE])
    /\ UNCHANGED <<config, boot, session, csrf, fetched, crossed>>

Admit(t) ==
    LET look == tab[t].look IN
    /\ tab[t].at = "proxy" /\ look.step = "apply"
    /\ session = boot
    /\ Result(look, proxyGood) \in Member
    /\ RememberProxy(look)
    /\ IF ValidToken(tab[t].token)
       THEN Set(t, [tab[t] EXCEPT !.at = "handler", !.look = NoLook]) /\ UNCHANGED made
       ELSE /\ made < MaxTokens
            /\ made' = made + 1
            /\ Set(t, [tab[t] EXCEPT !.at = "handler", !.look = NoLook,
                                     !.token = [boot |-> boot, id |-> made + 1],
                                     !.fresh = TRUE])
    /\ UNCHANGED <<config, boot, session, csrf, fetched, crossed>>

\* 403, or 500 when there is no value at all.
Turn(t) ==
    LET look == tab[t].look IN
    /\ tab[t].at = "proxy" /\ look.step = "apply"
    /\ Result(look, proxyGood) \notin Member
    /\ RememberProxy(look)
    /\ Set(t, Done(t))
    /\ UNCHANGED <<config, boot, browser, fetched, crossed>>

\* requireAdmin asks for the group once more.
HandlerRefuses(t) ==
    LET look == tab[t].look IN
    /\ tab[t].at = "handler" /\ look.step = "apply"
    /\ Result(look, good) \notin Member
    /\ Remember(look)
    /\ Set(t, Done(t))
    /\ UNCHANGED <<config, boot, browser, fetched, crossed>>

Entered(t) ==
    LET look == tab[t].look IN
    /\ tab[t].at = "handler" /\ look.step = "apply"
    /\ Result(look, good) \in Member
    /\ Remember(look)
    /\ Set(t, [tab[t] EXCEPT !.at = "inside", !.look = NoLook])
    /\ UNCHANGED <<config, boot, browser, fetched, crossed>>

\* The response sets the cookie if the token is new.  The tabs keep the
\* tokens of their pages.
SetCookie(t) == csrf' = IF tab[t].fresh THEN tab[t].token ELSE csrf

Respond(t, new) ==
    /\ SetCookie(t)
    /\ tab' = [u \in Tabs |->
            IF u = t THEN new
            ELSE [tab[u] EXCEPT !.mixed = @ \/ (tab[u].page # NoToken /\ csrf' # csrf)]]
    /\ UNCHANGED <<config, memory, boot, session, made, fetched, crossed>>

\* The page is rendered with the token.
PageSent(t) ==
    /\ tab[t].at = "inside" /\ tab[t].kind = "page"
    /\ Respond(t, [Done(t) EXCEPT !.page = tab[t].token, !.mixed = csrf' # tab[t].token])

\* validateCsrfRequest: the page's token against the cookie, as the proxy
\* has put it into the request.
Matches(t) == ValidToken(tab[t].page) /\ tab[t].page = tab[t].token

Accept(t) ==
    /\ tab[t].at = "inside" /\ tab[t].kind = "form"
    /\ Matches(t)
    /\ Set(t, Done(t))
    /\ UNCHANGED <<config, memory, boot, browser, fetched, crossed>>

\* The form is refused; the response may still set the new cookie.
Refuse(t) ==
    /\ tab[t].at = "inside" /\ tab[t].kind = "form"
    /\ ~Matches(t)
    /\ Respond(t, Done(t))

-----------------------------------------------------------------------------
(* The rest of the world.                                                   *)

\* Requests under way remember what the vault held while they ran.
Watch(v, up) ==
    tab' = [t \in Tabs |-> IF tab[t].at = "idle" THEN tab[t] ELSE
        [tab[t] EXCEPT !.held = @ \cup {v}, !.gap = @ \/ ~up \/ v = "none"]]

Rotate(v) ==
    /\ rotations < MaxRotations
    /\ rotations' = rotations + 1
    /\ v # vault /\ vault' = v
    /\ Watch(v, reachable)
    /\ UNCHANGED <<reachable, memory, boot, browser, fetched, crossed>>

Outage ==
    /\ rotations < MaxRotations
    /\ rotations' = rotations + 1
    /\ reachable' = ~reachable
    /\ Watch(vault, ~reachable)
    /\ UNCHANGED <<vault, memory, boot, browser, fetched, crossed>>

\* A new process has a new environment and new secrets; requests
\* under way are lost, pages and cookies stay in the browser.
Restart(v) ==
    /\ boot < MaxBoots
    /\ boot' = boot + 1
    /\ Starts(v)
    /\ env' = Hydrated(v) /\ good' = "none" /\ proxyGood' = "none"
    /\ fetched' = "none" /\ crossed' = FALSE
    /\ tab' = [t \in Tabs |-> Done(t)]
    /\ UNCHANGED <<config, browser>>

SignInAgain ==
    /\ session # boot
    /\ session' = boot
    /\ UNCHANGED <<config, memory, boot, csrf, made, tab, fetched, crossed>>

Next ==
    \/ \E t \in Tabs :
        \/ \E kind \in {"page", "form"} : Send(t, kind)
        \/ Ask(t)
        \/ Fetch(t)
        \/ Unauthorized(t)
        \/ Admit(t)
        \/ Turn(t)
        \/ HandlerRefuses(t)
        \/ Entered(t)
        \/ PageSent(t)
        \/ Accept(t)
        \/ Refuse(t)
    \/ \E v \in Values : Rotate(v) \/ Restart(v)
    \/ Outage
    \/ SignInAgain

Spec == Init /\ [][Next]_gateVars

-----------------------------------------------------------------------------
(* Properties.                                                              *)

Tokens == [boot : 0 .. MaxBoots, id : 0 .. MaxTokens]

\* Types of the variables.
TypeOK ==
    /\ {vault, env, good, proxyGood, fetched} \subseteq Values
    /\ {reachable, crossed} \subseteq BOOLEAN
    /\ boot \in 1 .. MaxBoots /\ session \in 1 .. MaxBoots
    /\ csrf \in Tokens /\ made \in 0 .. MaxTokens /\ rotations \in 0 .. MaxRotations
    /\ tab \in [Tabs -> [at : {"idle", "proxy", "handler", "inside"},
            kind : {"page", "form"}, token : Tokens, page : Tokens,
            look : [step : {"ask", "fetch", "apply"}, was : Values,
                    got : Values \cup {"failed"}],
            fresh : BOOLEAN, held : SUBSET Values, gap : BOOLEAN, mixed : BOOLEAN]]

\* Who gets to a handler is in a group that was the administrators' group
\* while the request ran: a group that has been replaced stops counting with
\* the next request, although two last-known-good values and process.env
\* still hold it, unless the vault failed or had no value meanwhile.
AdmittedByTheVault ==
    \A t \in Tabs : tab[t].at = "inside" /\ ~tab[t].gap => tab[t].held \cap Member # {}

\* What the handlers fall back on in an outage is the latest value that the
\* vault has given any of them, unless two of their lookups overlapped.
FallbackIsNewest ==
    ~crossed /\ fetched # "none" /\ (\A t \in Tabs : tab[t].look.step # "apply") =>
        good = fetched

\* A form is refused for its token only after a restart of the process, or
\* when the cookie of the browser is not the one its page was loaded with,
\* because pages of two tabs were loaded side by side.
FreshFormsPass ==
    \A t \in Tabs :
        tab[t].at = "inside" /\ tab[t].kind = "form" /\ ~tab[t].mixed
        /\ tab[t].page.boot = boot => Matches(t)
=============================================================================
