-------------------------- MODULE MCWebServicesProofs --------------------------
(***************************************************************************)
(* Proofs about the services of the web process, each in the names of its  *)
(* own variables: Gate (RequestGate), Licensing (License), Dataverse       *)
(* (DataverseToken), Revoke (PermissionRevoke) and Quarantine              *)
(* (CopilotQuarantine).  A behaviour's subject stays the same, and its     *)
(* steps are the service's.                                                *)
(***************************************************************************)
EXTENDS MCWebServices, FiniteSetTheorems, TLAPS

(***************************************************************************)
(* The gate: the inductive invariant                                       *)
(***************************************************************************)

\* A group is an identifier, neither a missing value nor an error.
GateConstantsFit ==
    /\ "none" \notin Groups /\ "failed" \notin Groups
    /\ MaxRotations \in Nat /\ MaxBoots \in Nat \ {0} /\ MaxTokens \in Nat

(***************************************************************************)
(* The inductive invariant                                                 *)
(***************************************************************************)

Answers == Gate!Values \cup {"failed"}
Looks == [step : {"ask", "fetch", "apply"}, was : Gate!Values, got : Answers]
TabStates == [at : {"idle", "proxy", "handler", "inside"},
              kind : {"page", "form"}, token : Gate!Tokens, page : Gate!Tokens, look : Looks,
              fresh : BOOLEAN, held : SUBSET Gate!Values, gap : BOOLEAN, mixed : BOOLEAN]

StoreTypes ==
    /\ vault \in Gate!Values /\ reachable \in BOOLEAN /\ rotations \in 0 .. MaxRotations
    /\ env \in Gate!Values /\ good \in Gate!Values /\ proxyGood \in Gate!Values
    /\ boot \in 1 .. MaxBoots /\ session \in 1 .. MaxBoots
    /\ csrf \in Gate!Tokens /\ made \in 0 .. MaxTokens
    /\ fetched \in Gate!Values /\ crossed \in BOOLEAN

GateTypes == StoreTypes /\ tab \in [Tabs -> TabStates]

\* A request knows what the vault has held since it was sent, and that it
\* failed; what its lookup brings back is among it.
Watches(r) ==
    /\ r.at \in {"idle", "inside"} => r.look.step = "ask"
    /\ r.at # "idle" => vault \in r.held /\ (r.gap \/ (reachable /\ vault # "none"))
    /\ r.look.step = "apply" => r.gap \/ (r.look.got \in Groups /\ r.look.got \in r.held)
    /\ r.at = "inside" => r.gap \/ r.held \cap Member # {}

WatchInv == \A t \in Tabs : Watches(tab[t])

\* The page of a tab that is not mixed up has the token of the cookie, and the
\* form sent from it carries that token.
PageIsCurrent(r) == ~r.mixed /\ r.page.boot = boot
Carries(r) ==
    /\ r.page.boot <= boot /\ r.token.boot <= boot
    /\ r.at = "idle" => ~r.fresh
    /\ PageIsCurrent(r) => r.page = csrf
    /\ PageIsCurrent(r) /\ r.at # "idle" /\ r.kind = "form" => r.token = r.page /\ ~r.fresh

CsrfInv == csrf.boot <= boot /\ \A t \in Tabs : Carries(tab[t])

\* A lookup of a handler that has been asked for.
Looking(r) == r.at = "handler" /\ r.look.step # "ask"
Brings(r) == Looking(r) /\ r.look.step = "apply" /\ r.look.got \in Groups

LookupsFit ==
    /\ \A t, u \in Tabs : Looking(tab[t]) /\ Looking(tab[u]) => t = u
    /\ \A t \in Tabs : Looking(tab[t]) => tab[t].look.was = env
    /\ \A t \in Tabs : Brings(tab[t]) => tab[t].look.got = fetched
    /\ fetched # "none" =>
          (good = fetched /\ env = fetched) \/ \E t \in Tabs : Brings(tab[t])

LookupInv == ~crossed => LookupsFit

GateInv == GateTypes /\ WatchInv /\ CsrfInv /\ LookupInv

(***************************************************************************)
(* What a step does to the tabs                                            *)
(***************************************************************************)

\* The tabs but t are left alone.
Apart(t) == tab' \in [Tabs -> TabStates] /\ \A u \in Tabs \ {t} : tab'[u] = tab[u]

SamePage(r, s) == s.page = r.page /\ s.mixed = r.mixed
SameForm(r, s) == SamePage(r, s) /\ s.kind = r.kind /\ s.token = r.token /\ s.fresh = r.fresh
SameHeld(r, s) == s.held = r.held /\ s.gap = r.gap

LEMMA NoLookIs ==
    /\ Gate!NoLook \in Looks /\ Gate!NoLook.step = "ask" /\ Gate!NoToken.boot = 0
    /\ GateConstantsFit => Gate!NoToken \in Gate!Tokens
BY DEF Gate!NoLook, Looks, Answers, Gate!Values, Gate!NoToken, Gate!Tokens, GateConstantsFit

LEMMA SendIs ==
    ASSUME GateConstantsFit, GateTypes, NEW t \in Tabs, NEW k \in {"page", "form"},
           Gate!Send(t, k)
    PROVE  /\ Apart(t) /\ SamePage(tab[t], tab'[t]) /\ tab'[t].fresh = tab[t].fresh
           /\ tab'[t].at = "proxy" /\ tab'[t].kind = k /\ tab'[t].token = csrf
           /\ tab'[t].look = Gate!NoLook
           /\ tab'[t].held = {vault} /\ tab'[t].gap = (~reachable \/ vault = "none")
<1> DEFINE r == [tab[t] EXCEPT !.at = "proxy", !.kind = k, !.look = Gate!NoLook,
                    !.token = csrf, !.held = {vault}, !.gap = ~reachable \/ vault = "none"]
<1>1. tab' = [tab EXCEPT ![t] = r] /\ tab[t] \in TabStates /\ tab \in [Tabs -> TabStates]
  BY DEF Gate!Send, Gate!Set, GateTypes
<1>2. /\ Gate!NoLook \in Looks /\ csrf \in Gate!Tokens /\ {vault} \in SUBSET Gate!Values
      /\ (~reachable \/ vault = "none") \in BOOLEAN
  BY NoLookIs DEF GateTypes, StoreTypes
<1>3. /\ r \in TabStates /\ SamePage(tab[t], r) /\ r.fresh = tab[t].fresh
      /\ r.at = "proxy" /\ r.kind = k /\ r.token = csrf /\ r.look = Gate!NoLook
      /\ r.held = {vault} /\ r.gap = (~reachable \/ vault = "none")
  BY <1>1, <1>2 DEF TabStates, SamePage
<1> HIDE DEF r
<1> QED BY <1>1, <1>3 DEF Apart

LEMMA AskIs ==
    ASSUME GateConstantsFit, GateTypes, NEW t \in Tabs, Gate!Ask(t)
    PROVE  /\ Apart(t) /\ SameForm(tab[t], tab'[t]) /\ SameHeld(tab[t], tab'[t])
           /\ tab'[t].at = tab[t].at /\ tab'[t].look.step = "fetch" /\ tab'[t].look.was = env
<1> DEFINE l == [Gate!NoLook EXCEPT !.step = "fetch", !.was = env]
           r == [tab[t] EXCEPT !.look = l]
<1>1. tab' = [tab EXCEPT ![t] = r] /\ tab[t] \in TabStates /\ tab \in [Tabs -> TabStates]
  BY DEF Gate!Ask, GateTypes
<1>2. l \in Looks /\ l.step = "fetch" /\ l.was = env
  BY NoLookIs DEF Looks, GateTypes, StoreTypes
<1> HIDE DEF l
<1>3. /\ r \in TabStates /\ SameForm(tab[t], r) /\ SameHeld(tab[t], r)
      /\ r.at = tab[t].at /\ r.look = l
  BY <1>1, <1>2 DEF TabStates, SameForm, SamePage, SameHeld
<1> HIDE DEF r
<1> QED BY <1>1, <1>2, <1>3 DEF Apart

LEMMA FetchIs ==
    ASSUME GateConstantsFit, GateTypes, NEW t \in Tabs, Gate!Fetch(t)
    PROVE  /\ Apart(t) /\ SameForm(tab[t], tab'[t]) /\ SameHeld(tab[t], tab'[t])
           /\ tab'[t].at = tab[t].at /\ tab'[t].look.step = "apply"
           /\ tab'[t].look.was = tab[t].look.was
           /\ tab'[t].look.got = (IF reachable THEN vault ELSE "failed")
<1> DEFINE l == [tab[t].look EXCEPT !.step = "apply", !.got = IF reachable THEN vault ELSE "failed"]
           r == [tab[t] EXCEPT !.look = l]
<1>1. tab[t] \in TabStates /\ tab \in [Tabs -> TabStates] /\ tab[t].look \in Looks
  BY DEF GateTypes, TabStates
<1>2. tab' = [tab EXCEPT ![t] = r]
  BY <1>1 DEF Gate!Fetch, TabStates, Looks
<1>3. /\ l \in Looks /\ l.step = "apply" /\ l.was = tab[t].look.was
      /\ l.got = (IF reachable THEN vault ELSE "failed")
  BY <1>1 DEF Looks, Answers, GateTypes, StoreTypes
<1> HIDE DEF l
<1>4. /\ r \in TabStates /\ SameForm(tab[t], r) /\ SameHeld(tab[t], r)
      /\ r.at = tab[t].at /\ r.look = l
  BY <1>1, <1>3 DEF TabStates, SameForm, SamePage, SameHeld
<1> HIDE DEF r
<1> QED BY <1>1, <1>2, <1>3, <1>4 DEF Apart

\* The request is over.
LEMMA DoneIs ==
    ASSUME GateConstantsFit, GateTypes, NEW t \in Tabs
    PROVE  /\ Gate!Done(t) \in TabStates /\ Gate!Done(t).at = "idle"
              /\ Gate!Done(t).look = Gate!NoLook
           /\ SamePage(tab[t], Gate!Done(t)) /\ ~Gate!Done(t).fresh
              /\ Gate!Done(t).token = Gate!NoToken
<1>1. tab[t] \in TabStates /\ Gate!NoLook \in Looks /\ Gate!NoToken \in Gate!Tokens
      /\ {} \in SUBSET Gate!Values
  BY NoLookIs DEF GateTypes
<1> QED BY <1>1 DEF Gate!Done, TabStates, SamePage

LEMMA OverIs ==
    ASSUME GateConstantsFit, GateTypes, NEW t \in Tabs, Gate!Set(t, Gate!Done(t))
    PROVE  /\ Apart(t) /\ SamePage(tab[t], tab'[t]) /\ tab'[t].at = "idle"
           /\ tab'[t].look = Gate!NoLook /\ ~tab'[t].fresh /\ tab'[t].token = Gate!NoToken
<1>1. tab' = [tab EXCEPT ![t] = Gate!Done(t)] /\ tab \in [Tabs -> TabStates]
  BY DEF Gate!Set, GateTypes
<1> QED BY <1>1, DoneIs DEF Apart

\* The proxy lets the request through, with the token it has or a new one.
LEMMA AdmitIs ==
    ASSUME GateConstantsFit, GateTypes, NEW t \in Tabs, Gate!Admit(t)
    PROVE  /\ Apart(t) /\ SamePage(tab[t], tab'[t]) /\ SameHeld(tab[t], tab'[t])
           /\ tab'[t].at = "handler" /\ tab'[t].look = Gate!NoLook /\ tab'[t].kind = tab[t].kind
           /\ \/ /\ Gate!ValidToken(tab[t].token) /\ made' = made
                 /\ tab'[t].token = tab[t].token /\ tab'[t].fresh = tab[t].fresh
              \/ /\ ~Gate!ValidToken(tab[t].token) /\ made < MaxTokens /\ made' = made + 1
                 /\ tab'[t].token.boot = boot
<1>1. /\ tab[t] \in TabStates /\ tab \in [Tabs -> TabStates] /\ Gate!NoLook \in Looks
      /\ made \in Nat /\ boot \in 0 .. MaxBoots
  BY NoLookIs DEF GateTypes, StoreTypes, GateConstantsFit
<1>2. CASE Gate!ValidToken(tab[t].token)
  <2> DEFINE r == [tab[t] EXCEPT !.at = "handler", !.look = Gate!NoLook]
  <2>1. tab' = [tab EXCEPT ![t] = r] /\ made' = made
    BY <1>2 DEF Gate!Admit, Gate!Set
  <2>2. /\ r \in TabStates /\ SameForm(tab[t], r) /\ SameHeld(tab[t], r)
        /\ r.at = "handler" /\ r.look = Gate!NoLook
    BY <1>1 DEF TabStates, SameForm, SamePage, SameHeld
  <2> HIDE DEF r
  <2> QED BY <1>1, <1>2, <2>1, <2>2 DEF Apart, SameForm
<1>3. CASE ~Gate!ValidToken(tab[t].token)
  <2> DEFINE k == [boot |-> boot, id |-> made + 1]
             r == [tab[t] EXCEPT !.at = "handler", !.look = Gate!NoLook,
                                 !.token = k, !.fresh = TRUE]
  <2>1. tab' = [tab EXCEPT ![t] = r] /\ made < MaxTokens /\ made' = made + 1
    BY <1>3 DEF Gate!Admit, Gate!Set
  <2>2. k \in Gate!Tokens /\ k.boot = boot
    BY <1>1, <2>1 DEF Gate!Tokens, GateConstantsFit
  <2> HIDE DEF k
  <2>3. /\ r \in TabStates /\ SamePage(tab[t], r) /\ SameHeld(tab[t], r)
        /\ r.at = "handler" /\ r.look = Gate!NoLook /\ r.kind = tab[t].kind /\ r.token = k
    BY <1>1, <2>2 DEF TabStates, SamePage, SameHeld
  <2> HIDE DEF r
  <2> QED BY <1>1, <1>3, <2>1, <2>2, <2>3 DEF Apart
<1> QED BY <1>2, <1>3

LEMMA EnteredIs ==
    ASSUME GateConstantsFit, GateTypes, NEW t \in Tabs, Gate!Entered(t)
    PROVE  /\ Apart(t) /\ SameForm(tab[t], tab'[t]) /\ SameHeld(tab[t], tab'[t])
           /\ tab'[t].at = "inside" /\ tab'[t].look = Gate!NoLook
<1> DEFINE r == [tab[t] EXCEPT !.at = "inside", !.look = Gate!NoLook]
<1>1. tab' = [tab EXCEPT ![t] = r] /\ tab[t] \in TabStates /\ tab \in [Tabs -> TabStates]
  BY DEF Gate!Entered, Gate!Set, GateTypes
<1>2. /\ r \in TabStates /\ SameForm(tab[t], r) /\ SameHeld(tab[t], r)
      /\ r.at = "inside" /\ r.look = Gate!NoLook
  BY <1>1, NoLookIs DEF TabStates, SameForm, SamePage, SameHeld
<1> HIDE DEF r
<1> QED BY <1>1, <1>2 DEF Apart

\* A response: the cookie may be new, and then the pages of other tabs are
\* mixed up.
Answered(u) ==
    /\ tab'[u].at = tab[u].at /\ tab'[u].look = tab[u].look /\ SameHeld(tab[u], tab'[u])
    /\ tab'[u].kind = tab[u].kind /\ tab'[u].token = tab[u].token /\ tab'[u].fresh = tab[u].fresh
    /\ tab'[u].page = tab[u].page
    /\ tab'[u].mixed = (tab[u].mixed \/ (tab[u].page # Gate!NoToken /\ csrf' # csrf))

LEMMA PageRespondIs ==
    ASSUME GateConstantsFit, GateTypes, NEW t \in Tabs, NEW new \in TabStates,
           Gate!Respond(t, new)
    PROVE  /\ tab' \in [Tabs -> TabStates] /\ tab'[t] = new
           /\ \A u \in Tabs \ {t} : Answered(u)
           /\ csrf' = IF tab[t].fresh THEN tab[t].token ELSE csrf
           /\ csrf' \in Gate!Tokens
<1>1. tab \in [Tabs -> TabStates] /\ csrf \in Gate!Tokens
  BY DEF GateTypes, StoreTypes
<1>2. tab' = [u \in Tabs |->
            IF u = t THEN new
            ELSE [tab[u] EXCEPT !.mixed = tab[u].mixed
                                          \/ (tab[u].page # Gate!NoToken /\ csrf' # csrf)]]
  BY DEF Gate!Respond
<1>3. ASSUME NEW u \in Tabs \ {t} PROVE tab'[u] \in TabStates /\ Answered(u)
  <2> DEFINE b == tab[u].mixed \/ (tab[u].page # Gate!NoToken /\ csrf' # csrf)
  <2>1. tab'[u] = [tab[u] EXCEPT !.mixed = b] /\ tab[u] \in TabStates
    BY <1>1, <1>2
  <2>2. b \in BOOLEAN
    BY <1>1 DEF TabStates
  <2>3. b = (tab[u].mixed \/ (tab[u].page # Gate!NoToken /\ csrf' # csrf))
    OBVIOUS
  <2> HIDE DEF b
  <2> QED BY <2>1, <2>2, <2>3 DEF TabStates, Answered, SameHeld
<1>4. tab'[t] = new
  BY <1>2
<1>5. tab' \in [Tabs -> TabStates]
  BY <1>2, <1>3, <1>4
<1>6. csrf' = IF tab[t].fresh THEN tab[t].token ELSE csrf
  BY DEF Gate!Respond, Gate!SetCookie
<1>7. csrf' \in Gate!Tokens
  BY <1>1, <1>6 DEF TabStates
<1> QED BY <1>3, <1>4, <1>5, <1>6, <1>7

LEMMA PageSentIs ==
    ASSUME GateConstantsFit, GateTypes, NEW t \in Tabs, Gate!PageSent(t)
    PROVE  /\ tab' \in [Tabs -> TabStates]
           /\ \A u \in Tabs \ {t} : Answered(u)
           /\ csrf' = IF tab[t].fresh THEN tab[t].token ELSE csrf
           /\ csrf' \in Gate!Tokens
           /\ tab'[t].at = "idle" /\ tab'[t].look = Gate!NoLook /\ tab'[t].page = tab[t].token
           /\ tab'[t].token = Gate!NoToken /\ ~tab'[t].fresh
              /\ tab'[t].mixed = (csrf' # tab[t].token)
<1> DEFINE r == [Gate!Done(t) EXCEPT !.page = tab[t].token, !.mixed = csrf' # tab[t].token]
<1>1. Gate!Done(t) \in TabStates /\ tab[t].token \in Gate!Tokens
      /\ (csrf' # tab[t].token) \in BOOLEAN
  BY DoneIs DEF GateTypes, TabStates
<1>2. /\ r \in TabStates /\ r.at = "idle" /\ r.look = Gate!NoLook /\ r.page = tab[t].token
      /\ r.token = Gate!NoToken /\ ~r.fresh /\ r.mixed = (csrf' # tab[t].token)
  BY <1>1, DoneIs DEF TabStates
<1>3. Gate!Respond(t, r)
  BY DEF Gate!PageSent
<1> HIDE DEF r
<1> QED BY <1>2, <1>3, PageRespondIs

LEMMA RefuseIs ==
    ASSUME GateConstantsFit, GateTypes, NEW t \in Tabs, Gate!Refuse(t)
    PROVE  /\ tab' \in [Tabs -> TabStates]
           /\ \A u \in Tabs \ {t} : Answered(u)
           /\ csrf' = IF tab[t].fresh THEN tab[t].token ELSE csrf
           /\ csrf' \in Gate!Tokens
           /\ tab'[t].at = "idle" /\ tab'[t].look = Gate!NoLook /\ SamePage(tab[t], tab'[t])
           /\ tab'[t].token = Gate!NoToken /\ ~tab'[t].fresh
BY DoneIs, PageRespondIs DEF Gate!Refuse

\* What the requests under way see of the vault.
LEMMA WatchIs ==
    ASSUME GateConstantsFit, GateTypes, NEW v \in Gate!Values, NEW up \in BOOLEAN,
           Gate!Watch(v, up)
    PROVE  /\ tab' \in [Tabs -> TabStates]
           /\ \A t \in Tabs : /\ tab'[t].at = tab[t].at /\ tab'[t].look = tab[t].look
                              /\ SameForm(tab[t], tab'[t])
                              /\ tab[t].at # "idle" =>
                                    /\ tab'[t].held = tab[t].held \cup {v}
                                    /\ tab'[t].gap = (tab[t].gap \/ ~up \/ v = "none")
                              /\ tab[t].at = "idle" => tab'[t] = tab[t]
<1>1. tab \in [Tabs -> TabStates]
  BY DEF GateTypes
<1>2. tab' = [t \in Tabs |-> IF tab[t].at = "idle" THEN tab[t] ELSE
        [tab[t] EXCEPT !.held = tab[t].held \cup {v}, !.gap = tab[t].gap \/ ~up \/ v = "none"]]
  BY DEF Gate!Watch
<1>3. ASSUME NEW t \in Tabs, tab[t].at # "idle"
      PROVE  /\ tab'[t] \in TabStates
             /\ tab'[t].at = tab[t].at /\ tab'[t].look = tab[t].look
             /\ SameForm(tab[t], tab'[t])
             /\ tab'[t].held = tab[t].held \cup {v}
             /\ tab'[t].gap = (tab[t].gap \/ ~up \/ v = "none")
  <2> DEFINE h == tab[t].held \cup {v}
             g == tab[t].gap \/ ~up \/ v = "none"
  <2>1. tab'[t] = [tab[t] EXCEPT !.held = h, !.gap = g] /\ tab[t] \in TabStates
    BY <1>1, <1>2, <1>3
  <2>2. h \in SUBSET Gate!Values /\ g \in BOOLEAN
    BY <1>1 DEF TabStates
  <2>3. h = tab[t].held \cup {v} /\ g = (tab[t].gap \/ ~up \/ v = "none")
    OBVIOUS
  <2> HIDE DEF h, g
  <2> QED BY <2>1, <2>2, <2>3 DEF TabStates, SameForm, SamePage
<1>4. ASSUME NEW t \in Tabs, tab[t].at = "idle" PROVE tab'[t] = tab[t]
  BY <1>2, <1>4
<1> QED BY <1>1, <1>2, <1>3, <1>4 DEF SameForm, SamePage

LEMMA RestartIs ==
    ASSUME GateConstantsFit, GateTypes, NEW v \in Gate!Values, Gate!Restart(v)
    PROVE  /\ tab' \in [Tabs -> TabStates]
           /\ \A t \in Tabs : /\ tab'[t].at = "idle" /\ tab'[t].look = Gate!NoLook
                              /\ SamePage(tab[t], tab'[t])
                              /\ ~tab'[t].fresh /\ tab'[t].token = Gate!NoToken
<1>1. tab' = [t \in Tabs |-> Gate!Done(t)]
  BY DEF Gate!Restart
<1> QED BY <1>1, DoneIs

(***************************************************************************)
(* Types                                                                   *)
(***************************************************************************)

LEMMA ResultIs ==
    ASSUME NEW look \in Looks, NEW lastGood \in Gate!Values
    PROVE  Gate!Result(look, lastGood) \in Gate!Values
BY DEF Gate!Result, Looks, Answers, Gate!Values

LEMMA InitGateTypes == GateConstantsFit /\ Gate!Init => GateTypes
<1> SUFFICES ASSUME GateConstantsFit, Gate!Init PROVE GateTypes
  OBVIOUS
<1>1. Gate!NoRequest \in TabStates
  BY NoLookIs DEF Gate!NoRequest, TabStates, Gate!Values
<1>2. tab \in [Tabs -> TabStates]
  BY <1>1 DEF Gate!Init
<1>3. env \in Gate!Values
  BY DEF Gate!Init, Gate!Hydrated, Gate!Values
<1>4. /\ vault \in Gate!Values /\ reachable \in BOOLEAN /\ "none" \in Gate!Values
      /\ good = "none" /\ proxyGood = "none" /\ fetched = "none" /\ crossed \in BOOLEAN
  BY DEF Gate!Init, Gate!Values
<1>5. csrf \in Gate!Tokens
  BY NoLookIs DEF Gate!Init
<1>6. /\ rotations \in 0 .. MaxRotations /\ made \in 0 .. MaxTokens
      /\ boot \in 1 .. MaxBoots /\ session \in 1 .. MaxBoots
  BY DEF Gate!Init, GateConstantsFit
<1> QED BY <1>2, <1>3, <1>4, <1>5, <1>6 DEF GateTypes, StoreTypes

\* A step of a tab.
TabStep(t) ==
    \/ \E k \in {"page", "form"} : Gate!Send(t, k)
    \/ Gate!Ask(t) \/ Gate!Fetch(t) \/ Gate!Unauthorized(t) \/ Gate!Admit(t) \/ Gate!Turn(t)
    \/ Gate!HandlerRefuses(t) \/ Gate!Entered(t) \/ Gate!PageSent(t) \/ Gate!Accept(t)
       \/ Gate!Refuse(t)

LEMMA TabStepTypes ==
    ASSUME GateConstantsFit, GateTypes, NEW t \in Tabs, TabStep(t)
    PROVE  GateTypes'
<1>1. tab' \in [Tabs -> TabStates]
  BY SendIs, AskIs, FetchIs, OverIs, AdmitIs, EnteredIs, PageSentIs, RefuseIs
  DEF TabStep, Gate!Unauthorized, Gate!Turn, Gate!HandlerRefuses, Gate!Accept, Apart
<1>2. tab[t].look \in Looks /\ StoreTypes
  BY DEF GateTypes, TabStates
<1>3. env' \in Gate!Values /\ good' \in Gate!Values /\ proxyGood' \in Gate!Values
  <2>1. CASE UNCHANGED Gate!memory
    BY <1>2, <2>1 DEF Gate!memory, StoreTypes
  <2>2. CASE Gate!Remember(tab[t].look)
    BY <1>2, <2>2, ResultIs DEF Gate!Remember, StoreTypes, Gate!Values
  <2>3. CASE Gate!RememberProxy(tab[t].look)
    BY <1>2, <2>3, ResultIs DEF Gate!RememberProxy, StoreTypes
  <2> QED BY <2>1, <2>2, <2>3
          DEF TabStep, Gate!Send, Gate!Ask, Gate!Fetch, Gate!Unauthorized, Gate!Admit, Gate!Turn,
              Gate!HandlerRefuses, Gate!Entered, Gate!PageSent, Gate!Accept, Gate!Refuse,
              Gate!Respond
<1>4. made' \in 0 .. MaxTokens
  <2>1. CASE Gate!Admit(t)
    BY <1>2, <2>1, AdmitIs DEF StoreTypes, GateConstantsFit
  <2>2. CASE ~Gate!Admit(t)
    BY <1>2, <2>2
    DEF TabStep, Gate!Send, Gate!Ask, Gate!Fetch, Gate!Unauthorized, Gate!Turn,
        Gate!HandlerRefuses, Gate!Entered, Gate!PageSent, Gate!Accept, Gate!Refuse, Gate!Respond,
        Gate!browser, StoreTypes
  <2> QED BY <2>1, <2>2
<1>5. csrf' \in Gate!Tokens
  <2>1. CASE Gate!PageSent(t) \/ Gate!Refuse(t)
    BY <2>1, PageSentIs, RefuseIs
  <2>2. CASE ~(Gate!PageSent(t) \/ Gate!Refuse(t))
    BY <1>2, <2>2
    DEF TabStep, Gate!Send, Gate!Ask, Gate!Fetch, Gate!Unauthorized, Gate!Admit, Gate!Turn,
        Gate!HandlerRefuses, Gate!Entered, Gate!Accept, Gate!browser, StoreTypes
  <2> QED BY <2>1, <2>2
<1>6. fetched' \in Gate!Values /\ crossed' \in BOOLEAN
  <2>1. CASE Gate!Ask(t)
    BY <1>2, <2>1 DEF Gate!Ask, StoreTypes
  <2>2. CASE Gate!Fetch(t)
    BY <1>2, <2>2 DEF Gate!Fetch, StoreTypes
  <2>3. CASE ~(Gate!Ask(t) \/ Gate!Fetch(t))
    BY <1>2, <2>3
    DEF TabStep, Gate!Send, Gate!Unauthorized, Gate!Admit, Gate!Turn, Gate!HandlerRefuses,
        Gate!Entered, Gate!PageSent, Gate!Accept, Gate!Refuse, Gate!Respond, StoreTypes
  <2> QED BY <2>1, <2>2, <2>3
<1>7. UNCHANGED <<Gate!config, boot, session>>
  BY DEF TabStep, Gate!Send, Gate!Ask, Gate!Fetch, Gate!Unauthorized, Gate!Admit, Gate!Turn,
         Gate!HandlerRefuses, Gate!Entered, Gate!PageSent, Gate!Accept, Gate!Refuse,
         Gate!Respond, Gate!browser
<1> QED BY <1>1, <1>2, <1>3, <1>4, <1>5, <1>6, <1>7 DEF GateTypes, StoreTypes, Gate!config

LEMMA WorldStepTypes ==
    ASSUME GateConstantsFit, GateTypes,
           (\E v \in Gate!Values : Gate!Rotate(v) \/ Gate!Restart(v)) \/ Gate!Outage
           \/ Gate!SignInAgain
    PROVE  GateTypes'
<1>1. ASSUME NEW v \in Gate!Values, Gate!Rotate(v) PROVE GateTypes'
  <2>1. tab' \in [Tabs -> TabStates] /\ rotations' \in 0 .. MaxRotations
    BY <1>1, WatchIs DEF Gate!Rotate, GateTypes, StoreTypes, GateConstantsFit
  <2> QED BY <1>1, <2>1 DEF Gate!Rotate, GateTypes, StoreTypes, Gate!memory, Gate!browser
<1>2. ASSUME NEW v \in Gate!Values, Gate!Restart(v) PROVE GateTypes'
  <2>1. tab' \in [Tabs -> TabStates]
    BY <1>2, RestartIs
  <2>3. boot' \in 1 .. MaxBoots
    BY <1>2 DEF Gate!Restart, GateTypes, StoreTypes, GateConstantsFit
  <2>2. env' \in Gate!Values
    BY <1>2 DEF Gate!Restart, Gate!Hydrated, GateTypes, StoreTypes
  <2>4. "none" \in Gate!Values
    BY DEF Gate!Values
  <2> QED BY <1>2, <2>1, <2>2, <2>3, <2>4
          DEF Gate!Restart, GateTypes, StoreTypes, Gate!config, Gate!browser
<1>3. CASE Gate!Outage
  <2>1. vault \in Gate!Values /\ (~reachable) \in BOOLEAN /\ rotations \in 0 .. MaxRotations
    BY DEF GateTypes, StoreTypes
  <2>2. tab' \in [Tabs -> TabStates]
    <3>1. Gate!Watch(vault, ~reachable)
      BY <1>3 DEF Gate!Outage
    <3> QED BY <2>1, <3>1, WatchIs
  <2>3. reachable' \in BOOLEAN /\ rotations' \in 0 .. MaxRotations
    BY <1>3, <2>1 DEF Gate!Outage, GateConstantsFit
  <2> QED BY <1>3, <2>2, <2>3 DEF Gate!Outage, GateTypes, StoreTypes, Gate!memory, Gate!browser
<1>4. CASE Gate!SignInAgain
  BY <1>4 DEF Gate!SignInAgain, GateTypes, StoreTypes, Gate!config, Gate!memory
<1> QED BY <1>1, <1>2, <1>3, <1>4

LEMMA NextGateTypes == GateConstantsFit /\ GateTypes /\ [Gate!Next]_(Gate!gateVars) => GateTypes'
<1> SUFFICES ASSUME GateConstantsFit, GateTypes, [Gate!Next]_(Gate!gateVars) PROVE GateTypes'
  OBVIOUS
<1>1. CASE UNCHANGED Gate!gateVars
  BY <1>1 DEF Gate!gateVars, Gate!config, Gate!memory, Gate!browser, GateTypes, StoreTypes
<1>2. CASE Gate!Next
  BY <1>2, TabStepTypes, WorldStepTypes DEF Gate!Next, TabStep
<1> QED BY <1>1, <1>2

(***************************************************************************)
(* Who is inside was let in by a value of the vault                        *)
(***************************************************************************)

\* A tab moves, the vault does not.
LEMMA TabWatches ==
    ASSUME WatchInv, NEW t \in Tabs, Apart(t), UNCHANGED <<vault, reachable>>,
           Watches(tab[t])'
    PROVE  WatchInv'
<1> SUFFICES ASSUME NEW u \in Tabs PROVE Watches(tab[u])'
  BY DEF WatchInv
<1>1. CASE u = t
  BY <1>1
<1>2. CASE u # t
  BY <1>2 DEF WatchInv, Apart, Watches
<1> QED BY <1>1, <1>2

\* The tabs' requests are what they were, or over.
LEMMA OthersWatch ==
    ASSUME WatchInv, UNCHANGED <<vault, reachable>>,
           \A u \in Tabs : \/ tab'[u].at = "idle" /\ tab'[u].look.step = "ask"
                           \/ tab'[u].at = tab[u].at /\ tab'[u].look = tab[u].look
                              /\ SameHeld(tab[u], tab'[u])
    PROVE  WatchInv'
<1> SUFFICES ASSUME NEW u \in Tabs PROVE Watches(tab[u])'
  BY DEF WatchInv
<1>1. Watches(tab[u])
  BY DEF WatchInv
<1> QED BY <1>1 DEF Watches, SameHeld

LEMMA TabStepWatches ==
    ASSUME GateConstantsFit, GateTypes, WatchInv, NEW t \in Tabs, TabStep(t)
    PROVE  WatchInv'
<1>1. UNCHANGED <<vault, reachable>>
  BY DEF TabStep, Gate!Send, Gate!Ask, Gate!Fetch, Gate!Unauthorized, Gate!Admit, Gate!Turn,
         Gate!HandlerRefuses, Gate!Entered, Gate!PageSent, Gate!Accept, Gate!Refuse,
         Gate!Respond, Gate!config
<1>2. /\ Watches(tab[t]) /\ Gate!NoLook.step = "ask" /\ vault \in Gate!Values
      /\ tab[t] \in TabStates /\ tab[t].look \in Looks
  BY NoLookIs DEF WatchInv, GateTypes, StoreTypes, TabStates
<1>3. ASSUME NEW k \in {"page", "form"}, Gate!Send(t, k) PROVE WatchInv'
  <2>1. Watches(tab[t])'
    BY <1>1, <1>2, <1>3, SendIs DEF Watches
  <2> QED BY <1>1, <1>3, <2>1, SendIs, TabWatches
<1>4. CASE Gate!Ask(t)
  <2>1. tab[t].at \in {"proxy", "handler"}
    BY <1>4 DEF Gate!Ask
  <2>2. Watches(tab[t])'
    BY <1>1, <1>2, <1>4, <2>1, AskIs DEF Watches, SameHeld
  <2> QED BY <1>1, <1>4, <2>2, AskIs, TabWatches
<1>5. CASE Gate!Fetch(t)
  <2>1. tab[t].look.step = "fetch" /\ tab[t].at \in {"proxy", "handler"}
    BY <1>2, <1>5 DEF Gate!Fetch, Watches, TabStates
  <2>2. /\ tab'[t].at = tab[t].at /\ tab'[t].held = tab[t].held /\ tab'[t].gap = tab[t].gap
        /\ tab'[t].look.step = "apply"
        /\ tab'[t].look.got = (IF reachable THEN vault ELSE "failed")
    BY <1>5, FetchIs DEF SameHeld
  <2>3. vault \in tab[t].held /\ (tab[t].gap \/ (reachable /\ vault # "none"))
    BY <1>2, <2>1 DEF Watches
  <2>4. tab'[t].gap \/ (tab'[t].look.got \in Groups /\ tab'[t].look.got \in tab'[t].held)
    BY <1>2, <2>2, <2>3 DEF Gate!Values
  <2>5. Watches(tab[t])'
    BY <1>1, <2>1, <2>2, <2>3, <2>4 DEF Watches
  <2> QED BY <1>1, <1>5, <2>5, FetchIs, TabWatches
<1>6. CASE Gate!Unauthorized(t) \/ Gate!Turn(t) \/ Gate!HandlerRefuses(t) \/ Gate!Accept(t)
  <2>1. Gate!Set(t, Gate!Done(t))
    BY <1>6 DEF Gate!Unauthorized, Gate!Turn, Gate!HandlerRefuses, Gate!Accept
  <2>2. Watches(tab[t])'
    BY <1>1, <1>2, <2>1, OverIs DEF Watches
  <2> QED BY <1>1, <2>1, <2>2, OverIs, TabWatches
<1>7. CASE Gate!Admit(t)
  <2>1. tab[t].at = "proxy"
    BY <1>7 DEF Gate!Admit
  <2>2. Watches(tab[t])'
    BY <1>1, <1>2, <1>7, <2>1, AdmitIs DEF Watches, SameHeld
  <2> QED BY <1>1, <1>7, <2>2, AdmitIs, TabWatches
<1>8. CASE Gate!Entered(t)
  <2>1. /\ tab[t].at = "handler" /\ tab[t].look.step = "apply"
        /\ Gate!Result(tab[t].look, good) \in Member
    BY <1>8 DEF Gate!Entered
  <2>2. tab[t].gap \/ tab[t].held \cap Member # {}
    <3>1. CASE tab[t].look.got \in Groups /\ tab[t].look.got \in tab[t].held
      <4>1. Gate!Result(tab[t].look, good) = tab[t].look.got
        BY <3>1 DEF Gate!Result, GateConstantsFit
      <4> QED BY <2>1, <3>1, <4>1
    <3> QED BY <1>2, <2>1, <3>1 DEF Watches
  <2>3. Watches(tab[t])'
    BY <1>1, <1>2, <1>8, <2>1, <2>2, EnteredIs DEF Watches, SameHeld
  <2> QED BY <1>1, <1>8, <2>3, EnteredIs, TabWatches
<1>9. CASE Gate!PageSent(t) \/ Gate!Refuse(t)
  <2>1. tab'[t].at = "idle" /\ tab'[t].look.step = "ask"
    BY <1>2, <1>9, PageSentIs, RefuseIs
  <2>2. \A u \in Tabs \ {t} : /\ tab'[u].at = tab[u].at /\ tab'[u].look = tab[u].look
                              /\ SameHeld(tab[u], tab'[u])
    BY <1>9, PageSentIs, RefuseIs DEF Answered
  <2> QED BY <1>1, <2>1, <2>2, OthersWatch
<1> QED BY <1>3, <1>4, <1>5, <1>6, <1>7, <1>8, <1>9 DEF TabStep

\* The vault is rotated, or comes or goes, under the eyes of the requests.
LEMMA VaultWatches ==
    ASSUME GateConstantsFit, GateTypes, WatchInv, NEW v \in Gate!Values, NEW up \in BOOLEAN,
           Gate!Watch(v, up), vault' = v, reachable' = up
    PROVE  WatchInv'
<1> SUFFICES ASSUME NEW u \in Tabs PROVE Watches(tab[u])'
  BY DEF WatchInv
<1>1. Watches(tab[u]) /\ tab[u] \in TabStates
  BY DEF WatchInv, GateTypes
<1>2. /\ tab'[u].at = tab[u].at /\ tab'[u].look = tab[u].look
      /\ tab[u].at # "idle" => /\ tab'[u].held = tab[u].held \cup {v}
                               /\ tab'[u].gap = (tab[u].gap \/ ~up \/ v = "none")
      /\ tab[u].at = "idle" => tab'[u] = tab[u]
  BY WatchIs
<1>3. CASE tab[u].at = "idle"
  BY <1>1, <1>2, <1>3 DEF Watches
<1>4. CASE tab[u].at # "idle"
  <2>1. v \in tab'[u].held /\ (tab'[u].gap \/ (up /\ v # "none"))
    BY <1>2, <1>4
  <2>2. tab[u].gap => tab'[u].gap
    BY <1>2, <1>4
  <2>3. tab[u].held \subseteq tab'[u].held
    BY <1>2, <1>4
  <2> QED BY <1>1, <1>2, <1>4, <2>1, <2>2, <2>3 DEF Watches
<1> QED BY <1>3, <1>4

LEMMA InitWatches == GateConstantsFit /\ Gate!Init => WatchInv
<1> SUFFICES ASSUME GateConstantsFit, Gate!Init, NEW t \in Tabs PROVE Watches(tab[t])
  BY DEF WatchInv
<1>1. tab[t].at = "idle" /\ tab[t].look.step = "ask"
  BY NoLookIs DEF Gate!Init, Gate!NoRequest
<1> QED BY <1>1 DEF Watches

LEMMA NextWatches == GateConstantsFit /\ GateTypes /\ WatchInv /\ [Gate!Next]_(Gate!gateVars) =>
                         WatchInv'
<1> SUFFICES ASSUME GateConstantsFit, GateTypes, WatchInv, [Gate!Next]_(Gate!gateVars)
             PROVE  WatchInv'
  OBVIOUS
<1>1. CASE UNCHANGED Gate!gateVars
  BY <1>1 DEF Gate!gateVars, Gate!config, WatchInv, Watches
<1>2. ASSUME NEW v \in Gate!Values, Gate!Rotate(v) PROVE WatchInv'
  <2>1. Gate!Watch(v, reachable) /\ vault' = v /\ reachable' = reachable /\ reachable \in BOOLEAN
    BY <1>2 DEF Gate!Rotate, GateTypes, StoreTypes
  <2> QED BY <2>1, VaultWatches
<1>3. CASE Gate!Outage
  <2>1. Gate!Watch(vault, ~reachable) /\ vault' = vault /\ reachable' = ~reachable
    BY <1>3 DEF Gate!Outage
  <2>2. vault \in Gate!Values /\ (~reachable) \in BOOLEAN
    BY DEF GateTypes, StoreTypes
  <2> QED BY <2>1, <2>2, VaultWatches
<1>4. ASSUME NEW v \in Gate!Values, Gate!Restart(v) PROVE WatchInv'
  <2>1. UNCHANGED <<vault, reachable>>
    BY <1>4 DEF Gate!Restart, Gate!config
  <2>2. \A u \in Tabs : tab'[u].at = "idle" /\ tab'[u].look.step = "ask"
    BY <1>4, NoLookIs, RestartIs
  <2> QED BY <2>1, <2>2, OthersWatch
<1>5. CASE Gate!SignInAgain
  BY <1>5 DEF Gate!SignInAgain, Gate!config, WatchInv, Watches
<1>6. CASE Gate!Next
  BY <1>2, <1>3, <1>4, <1>5, <1>6, TabStepWatches DEF Gate!Next, TabStep
<1> QED BY <1>1, <1>6

(***************************************************************************)
(* The token of a fresh page is the token of the cookie                    *)
(***************************************************************************)

LEMMA TabCarries ==
    ASSUME CsrfInv, NEW t \in Tabs, Apart(t), UNCHANGED <<boot, csrf>>,
           Carries(tab[t])'
    PROVE  CsrfInv'
<1> SUFFICES ASSUME NEW u \in Tabs PROVE Carries(tab[u])'
  BY DEF CsrfInv
<1>1. CASE u = t
  BY <1>1
<1>2. CASE u # t
  BY <1>2 DEF CsrfInv, Apart, Carries, PageIsCurrent
<1> QED BY <1>1, <1>2

\* A response that sets the cookie leaves no page unmixed that has another.
LEMMA AnsweredCarries ==
    ASSUME GateTypes, CsrfInv, NEW u \in Tabs, Answered(u), boot' = boot
    PROVE  Carries(tab[u])'
<1>1. Carries(tab[u]) /\ boot > 0 /\ Gate!NoToken.boot = 0
  BY DEF CsrfInv, GateTypes, StoreTypes, Gate!NoToken
<1>2. ~tab'[u].mixed /\ tab'[u].page.boot = boot => ~tab[u].mixed /\ csrf' = csrf
  <2>1. tab[u].page.boot = boot => tab[u].page # Gate!NoToken
    BY <1>1 DEF GateTypes, StoreTypes
  <2> QED BY <2>1 DEF Answered
<1> QED BY <1>1, <1>2 DEF Carries, PageIsCurrent, Answered

LEMMA TabStepCarries ==
    ASSUME GateConstantsFit, GateTypes, CsrfInv, NEW t \in Tabs, TabStep(t)
    PROVE  CsrfInv'
<1>1. boot' = boot /\ boot \in Nat /\ boot > 0 /\ Gate!NoToken.boot = 0
  BY DEF TabStep, Gate!Send, Gate!Ask, Gate!Fetch, Gate!Unauthorized, Gate!Admit, Gate!Turn,
         Gate!HandlerRefuses, Gate!Entered, Gate!PageSent, Gate!Accept, Gate!Refuse,
         Gate!Respond, GateTypes, StoreTypes, GateConstantsFit, Gate!NoToken
<1>2. Carries(tab[t]) /\ csrf.boot <= boot
  BY DEF CsrfInv
<1>3. ASSUME NEW k \in {"page", "form"}, Gate!Send(t, k) PROVE CsrfInv'
  <2>1. csrf' = csrf /\ tab[t].at = "idle"
    BY <1>3 DEF Gate!Send, Gate!browser
  <2>2. Carries(tab[t])'
    BY <1>1, <1>2, <1>3, <2>1, SendIs DEF Carries, PageIsCurrent, SamePage
  <2> QED BY <1>1, <1>3, <2>1, <2>2, SendIs, TabCarries
<1>4. CASE Gate!Ask(t) \/ Gate!Fetch(t)
  <2>1. csrf' = csrf
    BY <1>4 DEF Gate!Ask, Gate!Fetch, Gate!browser
  <2>2. SameForm(tab[t], tab'[t]) /\ tab'[t].at = tab[t].at /\ Apart(t)
    BY <1>4, AskIs, FetchIs
  <2>3. Carries(tab[t])'
    BY <1>1, <1>2, <2>1, <2>2 DEF Carries, PageIsCurrent, SameForm, SamePage
  <2> QED BY <1>1, <2>1, <2>2, <2>3, TabCarries
<1>5. CASE Gate!Unauthorized(t) \/ Gate!Turn(t) \/ Gate!HandlerRefuses(t) \/ Gate!Accept(t)
  <2>1. Gate!Set(t, Gate!Done(t)) /\ csrf' = csrf
    BY <1>5 DEF Gate!Unauthorized, Gate!Turn, Gate!HandlerRefuses, Gate!Accept, Gate!browser
  <2>2. Carries(tab[t])'
    BY <1>1, <1>2, <2>1, OverIs DEF Carries, PageIsCurrent, SamePage
  <2> QED BY <1>1, <2>1, <2>2, OverIs, TabCarries
<1>6. CASE Gate!Admit(t)
  <2>1. csrf' = csrf /\ tab[t].at = "proxy"
    BY <1>6 DEF Gate!Admit
  <2>2. Carries(tab[t])'
    <3>1. CASE Gate!ValidToken(tab[t].token) /\ tab'[t].token = tab[t].token
               /\ tab'[t].fresh = tab[t].fresh
      BY <1>1, <1>2, <1>6, <2>1, <3>1, AdmitIs DEF Carries, PageIsCurrent, SamePage
    <3>2. CASE ~Gate!ValidToken(tab[t].token) /\ tab'[t].token.boot = boot
      <4>1. ~(PageIsCurrent(tab[t]) /\ tab[t].kind = "form")
        BY <1>2, <2>1, <3>2 DEF Carries, PageIsCurrent, Gate!ValidToken
      <4> QED BY <1>1, <1>2, <1>6, <2>1, <3>2, <4>1, AdmitIs DEF Carries, PageIsCurrent, SamePage
    <3> QED BY <1>6, <3>1, <3>2, AdmitIs
  <2> QED BY <1>1, <1>6, <2>1, <2>2, AdmitIs, TabCarries
<1>7. CASE Gate!Entered(t)
  <2>1. csrf' = csrf /\ tab[t].at = "handler"
    BY <1>7 DEF Gate!Entered, Gate!browser
  <2>2. Carries(tab[t])'
    BY <1>1, <1>2, <1>7, <2>1, EnteredIs DEF Carries, PageIsCurrent, SameForm, SamePage
  <2> QED BY <1>1, <1>7, <2>1, <2>2, EnteredIs, TabCarries
<1>8. CASE Gate!PageSent(t)
  <2>1. csrf' = IF tab[t].fresh THEN tab[t].token ELSE csrf
    BY <1>8, PageSentIs
  <2>2. csrf'.boot <= boot
    BY <1>2, <2>1 DEF Carries
  <2>3. Carries(tab[t])'
    <3>1. /\ tab'[t].at = "idle" /\ tab'[t].page = tab[t].token /\ tab'[t].token = Gate!NoToken
          /\ ~tab'[t].fresh
      BY <1>8, PageSentIs
    <3>2. ~tab'[t].mixed => csrf' = tab[t].token
      <4>1. tab'[t].mixed = (csrf' # tab[t].token)
        BY <1>8, PageSentIs
      <4> QED BY <4>1
    <3>3. tab'[t].page.boot <= boot /\ tab'[t].token.boot <= boot
      BY <1>1, <1>2, <3>1 DEF Carries
    <3> QED BY <1>1, <3>1, <3>2, <3>3 DEF Carries, PageIsCurrent
  <2>4. \A u \in Tabs \ {t} : Carries(tab[u])'
    BY <1>1, <1>8, PageSentIs, AnsweredCarries
  <2> QED BY <1>1, <2>2, <2>3, <2>4 DEF CsrfInv
<1>9. CASE Gate!Refuse(t)
  <2>1. /\ csrf' = IF tab[t].fresh THEN tab[t].token ELSE csrf
        /\ tab[t].at = "inside" /\ tab[t].kind = "form" /\ ~Gate!Matches(t)
    BY <1>9, RefuseIs DEF Gate!Refuse
  <2>2. csrf'.boot <= boot
    BY <1>2, <2>1 DEF Carries
  <2>3. ~PageIsCurrent(tab[t])
    BY <1>2, <2>1 DEF Carries, PageIsCurrent, Gate!Matches, Gate!ValidToken
  <2>4. Carries(tab[t])'
    BY <1>1, <1>2, <1>9, <2>3, RefuseIs DEF Carries, PageIsCurrent, SamePage
  <2>5. \A u \in Tabs \ {t} : Carries(tab[u])'
    BY <1>1, <1>9, RefuseIs, AnsweredCarries
  <2> QED BY <1>1, <2>2, <2>4, <2>5 DEF CsrfInv
<1> QED BY <1>3, <1>4, <1>5, <1>6, <1>7, <1>8, <1>9 DEF TabStep

LEMMA InitCarries == GateConstantsFit /\ Gate!Init => CsrfInv
<1> SUFFICES ASSUME GateConstantsFit, Gate!Init PROVE CsrfInv
  OBVIOUS
<1>1. csrf.boot = 0 /\ boot = 1
  BY NoLookIs DEF Gate!Init
<1>2. ASSUME NEW t \in Tabs PROVE Carries(tab[t])
  <2>1. tab[t].page.boot = 0 /\ tab[t].token.boot = 0 /\ tab[t].at = "idle" /\ ~tab[t].fresh
    BY NoLookIs DEF Gate!Init, Gate!NoRequest
  <2> QED BY <1>1, <2>1 DEF Carries, PageIsCurrent
<1> QED BY <1>1, <1>2 DEF CsrfInv

LEMMA NextCarries == GateConstantsFit /\ GateTypes /\ CsrfInv /\ [Gate!Next]_(Gate!gateVars) =>
                         CsrfInv'
<1> SUFFICES ASSUME GateConstantsFit, GateTypes, CsrfInv, [Gate!Next]_(Gate!gateVars)
             PROVE  CsrfInv'
  OBVIOUS
<1>1. boot \in Nat /\ boot > 0 /\ csrf.boot \in Nat /\ csrf.boot <= boot
      /\ \A t \in Tabs : tab[t].page.boot \in Nat /\ tab[t].token.boot \in Nat /\ Carries(tab[t])
  <2>1. csrf \in Gate!Tokens /\ \A t \in Tabs : tab[t] \in TabStates
    BY DEF GateTypes, StoreTypes
  <2> QED BY <2>1 DEF GateTypes, StoreTypes, TabStates, Gate!Tokens, CsrfInv, GateConstantsFit
<1>2. CASE UNCHANGED Gate!gateVars
  BY <1>2 DEF Gate!gateVars, Gate!browser, CsrfInv, Carries, PageIsCurrent
<1>3. ASSUME UNCHANGED <<boot, csrf>>,
             \A t \in Tabs : tab'[t].at = tab[t].at /\ SameForm(tab[t], tab'[t])
      PROVE  CsrfInv'
  BY <1>1, <1>3 DEF CsrfInv, Carries, PageIsCurrent, SameForm, SamePage
<1>4. ASSUME NEW v \in Gate!Values, Gate!Rotate(v) PROVE CsrfInv'
  <2>1. Gate!Watch(v, reachable) /\ reachable \in BOOLEAN /\ UNCHANGED <<boot, csrf>>
    BY <1>4 DEF Gate!Rotate, GateTypes, StoreTypes, Gate!browser
  <2> QED BY <1>3, <2>1, WatchIs
<1>5. CASE Gate!Outage
  <2>1. Gate!Watch(vault, ~reachable) /\ UNCHANGED <<boot, csrf>>
    BY <1>5 DEF Gate!Outage, Gate!browser
  <2>2. vault \in Gate!Values /\ (~reachable) \in BOOLEAN
    BY DEF GateTypes, StoreTypes
  <2> QED BY <1>3, <2>1, <2>2, WatchIs
<1>6. ASSUME NEW v \in Gate!Values, Gate!Restart(v) PROVE CsrfInv'
  <2>1. boot' = boot + 1 /\ csrf' = csrf
    BY <1>6 DEF Gate!Restart, Gate!browser
  <2>2. ASSUME NEW t \in Tabs PROVE Carries(tab[t])'
    <3>1. /\ tab'[t].at = "idle" /\ SamePage(tab[t], tab'[t]) /\ ~tab'[t].fresh
          /\ tab'[t].token.boot = 0
      BY <1>6, NoLookIs, RestartIs
    <3>2. tab'[t].page.boot <= boot
      BY <1>1, <3>1 DEF Carries, SamePage
    <3>3. tab'[t].page.boot \in Nat
      BY <1>1, <3>1 DEF SamePage
    <3> QED BY <1>1, <2>1, <3>1, <3>2, <3>3 DEF Carries, PageIsCurrent
  <2> QED BY <1>1, <2>1, <2>2 DEF CsrfInv
<1>7. CASE Gate!SignInAgain
  BY <1>7 DEF Gate!SignInAgain, CsrfInv, Carries, PageIsCurrent
<1>8. CASE Gate!Next
  BY <1>4, <1>5, <1>6, <1>7, <1>8, TabStepCarries DEF Gate!Next, TabStep
<1> QED BY <1>2, <1>8

(***************************************************************************)
(* What handlers fall back on                                              *)
(***************************************************************************)

\* Lookups that are neither asked for, answered nor remembered.
LEMMA SameLookups ==
    ASSUME LookupInv, UNCHANGED <<env, good, fetched, crossed>>,
           \A u \in Tabs : \/ ~Looking(tab[u]) /\ ~Looking(tab'[u])
                           \/ tab'[u].at = tab[u].at /\ tab'[u].look = tab[u].look
    PROVE  LookupInv'
<1> SUFFICES ASSUME ~crossed PROVE LookupsFit'
  BY DEF LookupInv
<1>1. LookupsFit
  BY DEF LookupInv
<1>2. \A u \in Tabs : /\ Looking(tab[u])' = Looking(tab[u])
                      /\ Brings(tab[u])' = Brings(tab[u])
                      /\ Looking(tab[u]) => tab'[u].look = tab[u].look
  BY DEF Looking, Brings
<1>3. \A u \in Tabs : Brings(tab[u]) => Looking(tab[u])
  BY DEF Brings
<1> QED BY <1>1, <1>2, <1>3 DEF LookupsFit

LEMMA AskLooks ==
    ASSUME GateConstantsFit, GateTypes, LookupInv, NEW t \in Tabs, Gate!Ask(t)
    PROVE  LookupInv'
<1>1. /\ UNCHANGED <<env, good, fetched>>
      /\ \A u \in Tabs \ {t} : tab'[u] = tab[u]
      /\ tab'[t].at = tab[t].at /\ tab'[t].look.step = "fetch" /\ tab'[t].look.was = env
      /\ tab[t].look.step = "ask"
  BY AskIs DEF Gate!Ask, Gate!memory, Apart
<1>2. CASE tab[t].at # "handler"
  <2>1. ~Looking(tab[t]) /\ ~Looking(tab'[t])
    BY <1>1, <1>2 DEF Looking
  <2>2. crossed' = crossed
    BY <1>2 DEF Gate!Ask, GateTypes, StoreTypes
  <2> QED BY <1>1, <2>1, <2>2, SameLookups
<1>3. CASE tab[t].at = "handler"
  <2> SUFFICES ASSUME ~crossed' PROVE LookupsFit'
    BY DEF LookupInv
  <2>1. LookupsFit /\ \A u \in Tabs \ {t} : ~Looking(tab[u])
    BY <1>3 DEF Gate!Ask, LookupInv, Looking
  <2>2. ~Brings(tab[t])' /\ ~Brings(tab[t])
    BY <1>1 DEF Brings
  <2>3. \A u \in Tabs \ {t} : ~Looking(tab[u])' /\ ~Brings(tab[u])' /\ ~Brings(tab[u])
    BY <1>1, <2>1 DEF Looking, Brings
  <2>4. fetched # "none" => good = fetched /\ env = fetched
    BY <2>1, <2>2, <2>3 DEF LookupsFit
  <2> QED BY <1>1, <2>2, <2>3, <2>4 DEF LookupsFit
<1> QED BY <1>2, <1>3

LEMMA FetchLooks ==
    ASSUME GateConstantsFit, GateTypes, LookupInv, NEW t \in Tabs, Gate!Fetch(t)
    PROVE  LookupInv'
<1>1. /\ UNCHANGED <<env, good, crossed>>
      /\ \A u \in Tabs \ {t} : tab'[u] = tab[u]
      /\ tab'[t].at = tab[t].at /\ tab'[t].look.step = "apply"
      /\ tab'[t].look.was = tab[t].look.was
      /\ tab'[t].look.got = (IF reachable THEN vault ELSE "failed")
      /\ tab[t].look.step = "fetch"
      /\ fetched' = (IF tab[t].at = "handler" /\ reachable /\ vault # "none"
                     THEN vault ELSE fetched)
  BY FetchIs DEF Gate!Fetch, Gate!memory, Apart
<1>2. CASE tab[t].at # "handler"
  <2>1. ~Looking(tab[t]) /\ ~Looking(tab'[t]) /\ fetched' = fetched
    BY <1>1, <1>2 DEF Looking
  <2> QED BY <1>1, <2>1, SameLookups
<1>3. CASE tab[t].at = "handler"
  <2> SUFFICES ASSUME ~crossed PROVE LookupsFit'
    BY <1>1 DEF LookupInv
  <2>1. LookupsFit /\ Looking(tab[t]) /\ Looking(tab[t])'
    BY <1>1, <1>3 DEF LookupInv, Looking
  <2>2. \A u \in Tabs \ {t} : ~Looking(tab[u]) /\ ~Looking(tab[u])' /\ ~Brings(tab[u])'
                              /\ ~Brings(tab[u])
    BY <1>1, <2>1 DEF LookupsFit, Looking, Brings
  <2>3. ~Brings(tab[t])
    BY <1>1 DEF Brings
  <2>4. tab'[t].look.was = env
    BY <1>1, <2>1 DEF LookupsFit
  <2>5. CASE reachable /\ vault # "none"
    <3>1. vault \in Groups /\ tab'[t].look.got = vault /\ fetched' = vault
      BY <1>1, <1>3, <2>5 DEF GateTypes, StoreTypes, Gate!Values
    <3>2. Brings(tab[t])'
      BY <1>1, <2>1, <3>1 DEF Brings
    <3> QED BY <1>1, <2>1, <2>2, <2>4, <3>1, <3>2 DEF LookupsFit
  <2>6. CASE ~(reachable /\ vault # "none")
    <3>1. tab'[t].look.got \notin Groups /\ fetched' = fetched
      BY <1>1, <2>6 DEF GateConstantsFit
    <3>2. ~Brings(tab[t])'
      BY <3>1 DEF Brings
    <3>3. fetched # "none" => good = fetched /\ env = fetched
      BY <2>1, <2>2, <2>3 DEF LookupsFit
    <3> QED BY <1>1, <2>1, <2>2, <2>4, <3>1, <3>2, <3>3 DEF LookupsFit
  <2> QED BY <2>5, <2>6
<1> QED BY <1>2, <1>3

\* The handler applies the answer: with nobody else looking, it leaves what the
\* vault gave last.
LEMMA ApplyLooks ==
    ASSUME GateConstantsFit, GateTypes, LookupInv, NEW t \in Tabs,
           tab[t].at = "handler", tab[t].look.step = "apply", Gate!Remember(tab[t].look),
           Apart(t), tab'[t].look = Gate!NoLook, UNCHANGED <<fetched, crossed>>
    PROVE  LookupInv'
<1> SUFFICES ASSUME ~crossed PROVE LookupsFit'
  BY DEF LookupInv
<1> DEFINE l == tab[t].look
<1>1. LookupsFit /\ Looking(tab[t]) /\ ~Looking(tab[t])' /\ ~Brings(tab[t])'
  BY NoLookIs DEF LookupInv, Looking, Brings
<1>2. \A u \in Tabs \ {t} : ~Looking(tab[u]) /\ ~Looking(tab[u])' /\ ~Brings(tab[u])'
                            /\ ~Brings(tab[u])
  BY <1>1 DEF LookupsFit, Looking, Brings, Apart
<1>3. l.was = env /\ (l.got \in Groups => l.got = fetched)
  BY <1>1 DEF LookupsFit, Brings
<1>4. /\ l.got \in Groups \/ l.got = "none" \/ l.got = "failed"
      /\ "none" \notin Groups /\ "failed" \notin Groups /\ "none" # "failed"
  BY DEF GateTypes, TabStates, Looks, Answers, Gate!Values, GateConstantsFit
<1>5. /\ good' = Gate!Result(l, good)
      /\ env' = IF l.got \in Groups THEN l.got
                ELSE IF l.got = "none" /\ l.was = "none" THEN "none" ELSE env
  BY DEF Gate!Remember
<1>6. ASSUME fetched # "none" PROVE good' = fetched /\ env' = fetched
  <2>1. CASE l.got \in Groups
    <3>1. Gate!Result(l, good) = l.got
      BY <1>4, <2>1 DEF Gate!Result
    <3> QED BY <1>3, <1>5, <2>1, <3>1
  <2>2. CASE l.got \notin Groups
    <3>1. good = fetched /\ env = fetched
      <4>1. ~Brings(tab[t])
        BY <2>2 DEF Brings
      <4> QED BY <1>1, <1>2, <1>6, <4>1 DEF LookupsFit
    <3>2. Gate!Result(l, good) = fetched
      BY <1>3, <1>4, <1>6, <2>2, <3>1 DEF Gate!Result
    <3>3. env' = env
      BY <1>3, <1>5, <1>6, <2>2, <3>1
    <3> QED BY <1>5, <3>1, <3>2, <3>3
  <2> QED BY <2>1, <2>2
<1> QED BY <1>1, <1>2, <1>6 DEF LookupsFit

LEMMA TabStepLooks ==
    ASSUME GateConstantsFit, GateTypes, WatchInv, LookupInv, NEW t \in Tabs, TabStep(t)
    PROVE  LookupInv'
<1>1. CASE Gate!Ask(t)
  BY <1>1, AskLooks
<1>2. CASE Gate!Fetch(t)
  BY <1>2, FetchLooks
<1>3. CASE Gate!HandlerRefuses(t)
  <2>1. Gate!Set(t, Gate!Done(t)) /\ Gate!Remember(tab[t].look) /\ UNCHANGED <<fetched, crossed>>
        /\ tab[t].at = "handler" /\ tab[t].look.step = "apply"
    BY <1>3 DEF Gate!HandlerRefuses
  <2> QED BY <2>1, OverIs, ApplyLooks
<1>4. CASE Gate!Entered(t)
  <2>1. Gate!Remember(tab[t].look) /\ UNCHANGED <<fetched, crossed>>
        /\ tab[t].at = "handler" /\ tab[t].look.step = "apply"
    BY <1>4 DEF Gate!Entered
  <2> QED BY <1>4, <2>1, EnteredIs, ApplyLooks
<1>5. ASSUME UNCHANGED <<env, good, fetched, crossed>>, tab[t].at # "handler",
             Apart(t), tab'[t].look = Gate!NoLook
      PROVE  LookupInv'
  <2>1. ~Looking(tab[t]) /\ ~Looking(tab'[t])
    BY <1>5, NoLookIs DEF Looking
  <2> QED BY <1>5, <2>1, SameLookups DEF Apart
<1>6. ASSUME NEW k \in {"page", "form"}, Gate!Send(t, k) PROVE LookupInv'
  <2>1. tab[t].at = "idle" /\ UNCHANGED <<env, good, fetched, crossed>>
    BY <1>6 DEF Gate!Send, Gate!memory
  <2> QED BY <1>5, <1>6, <2>1, SendIs
<1>7. CASE Gate!Unauthorized(t) \/ Gate!Turn(t) \/ Gate!Accept(t)
  <2>1. Gate!Set(t, Gate!Done(t)) /\ tab[t].at # "handler"
        /\ UNCHANGED <<env, good, fetched, crossed>>
    BY <1>7 DEF Gate!Unauthorized, Gate!Turn, Gate!Accept, Gate!memory, Gate!RememberProxy
  <2> QED BY <1>5, <2>1, OverIs
<1>8. CASE Gate!Admit(t)
  <2>1. tab[t].at = "proxy" /\ UNCHANGED <<env, good, fetched, crossed>>
    BY <1>8 DEF Gate!Admit, Gate!RememberProxy
  <2> QED BY <1>5, <1>8, <2>1, AdmitIs
<1>9. CASE Gate!PageSent(t) \/ Gate!Refuse(t)
  <2>1. tab[t].at = "inside" /\ UNCHANGED <<env, good, fetched, crossed>>
    BY <1>9 DEF Gate!PageSent, Gate!Refuse, Gate!Respond, Gate!memory
  <2>2. tab'[t].at = "idle" /\ \A u \in Tabs \ {t} : Answered(u)
    BY <1>9, PageSentIs, RefuseIs
  <2>3. ~Looking(tab[t]) /\ ~Looking(tab'[t])
    BY <2>1, <2>2 DEF Looking
  <2> QED BY <2>1, <2>2, <2>3, SameLookups DEF Answered
<1> QED BY <1>1, <1>2, <1>3, <1>4, <1>6, <1>7, <1>8, <1>9 DEF TabStep

LEMMA InitLooks == GateConstantsFit /\ Gate!Init => LookupInv
<1> SUFFICES ASSUME GateConstantsFit, Gate!Init PROVE LookupsFit
  BY DEF LookupInv
<1>1. fetched = "none" /\ \A t \in Tabs : tab[t].look.step = "ask"
  BY NoLookIs DEF Gate!Init, Gate!NoRequest
<1> QED BY <1>1 DEF LookupsFit, Looking, Brings

LEMMA NextLooks ==
    GateConstantsFit /\ GateTypes /\ WatchInv /\ LookupInv /\ [Gate!Next]_(Gate!gateVars) =>
        LookupInv'
<1> SUFFICES ASSUME GateConstantsFit, GateTypes, WatchInv, LookupInv, [Gate!Next]_(Gate!gateVars)
             PROVE  LookupInv'
  OBVIOUS
<1>1. CASE UNCHANGED Gate!gateVars
  BY <1>1 DEF Gate!gateVars, Gate!memory, LookupInv, LookupsFit, Looking, Brings
<1>2. ASSUME NEW v \in Gate!Values, Gate!Rotate(v) PROVE LookupInv'
  <2>1. /\ Gate!Watch(v, reachable) /\ reachable \in BOOLEAN
        /\ UNCHANGED <<env, good, fetched, crossed>>
    BY <1>2 DEF Gate!Rotate, GateTypes, StoreTypes, Gate!memory
  <2> QED BY <2>1, WatchIs, SameLookups
<1>3. CASE Gate!Outage
  <2>1. Gate!Watch(vault, ~reachable) /\ UNCHANGED <<env, good, fetched, crossed>>
    BY <1>3 DEF Gate!Outage, Gate!memory
  <2>2. vault \in Gate!Values /\ (~reachable) \in BOOLEAN
    BY DEF GateTypes, StoreTypes
  <2> QED BY <2>1, <2>2, WatchIs, SameLookups
<1>4. ASSUME NEW v \in Gate!Values, Gate!Restart(v) PROVE LookupInv'
  <2>1. fetched' = "none" /\ \A t \in Tabs : tab'[t].look.step = "ask"
    BY <1>4, NoLookIs, RestartIs DEF Gate!Restart
  <2> QED BY <2>1 DEF LookupInv, LookupsFit, Looking, Brings
<1>5. CASE Gate!SignInAgain
  BY <1>5 DEF Gate!SignInAgain, Gate!memory, LookupInv, LookupsFit, Looking, Brings
<1>6. CASE Gate!Next
  BY <1>2, <1>3, <1>4, <1>5, <1>6, TabStepLooks DEF Gate!Next, TabStep
<1> QED BY <1>1, <1>6

(***************************************************************************)
(* The properties                                                          *)
(***************************************************************************)

LEMMA GateInvInit == GateConstantsFit /\ Gate!Init => GateInv
BY InitGateTypes, InitWatches, InitCarries, InitLooks DEF GateInv

LEMMA GateInvNext == GateConstantsFit /\ GateInv /\ [Gate!Next]_(Gate!gateVars) => GateInv'
BY NextGateTypes, NextWatches, NextCarries, NextLooks DEF GateInv

LEMMA GateInvTypes == GateInv => Gate!TypeOK
BY DEF GateInv, GateTypes, StoreTypes, TabStates, Looks, Answers, Gate!TypeOK

LEMMA GateInvHolds == GateConstantsFit /\ GateInv =>
                          Gate!AdmittedByTheVault /\ Gate!FallbackIsNewest /\ Gate!FreshFormsPass
<1> SUFFICES ASSUME GateConstantsFit, GateInv
             PROVE  Gate!AdmittedByTheVault /\ Gate!FallbackIsNewest /\ Gate!FreshFormsPass
  OBVIOUS
<1>1. Gate!AdmittedByTheVault
  BY DEF GateInv, WatchInv, Watches, Gate!AdmittedByTheVault
<1>2. Gate!FallbackIsNewest
  <2> SUFFICES ASSUME ~crossed, fetched # "none", \A t \in Tabs : tab[t].look.step # "apply"
               PROVE  good = fetched
    BY DEF Gate!FallbackIsNewest
  <2>1. LookupsFit /\ \A t \in Tabs : ~Brings(tab[t])
    BY DEF GateInv, LookupInv, Brings
  <2> QED BY <2>1 DEF LookupsFit
<1>3. Gate!FreshFormsPass
  <2> SUFFICES ASSUME NEW t \in Tabs, tab[t].at = "inside", tab[t].kind = "form",
                      ~tab[t].mixed, tab[t].page.boot = boot
               PROVE  Gate!Matches(t)
    BY DEF Gate!FreshFormsPass
  <2>1. tab[t].token = tab[t].page
    BY DEF GateInv, CsrfInv, Carries, PageIsCurrent
  <2> QED BY <2>1 DEF Gate!Matches, Gate!ValidToken
<1> QED BY <1>1, <1>2, <1>3

\* The gate holds for any number of tabs, groups, rotations, outages and
\* restarts: whoever reaches a handler is in a group that the vault held while
\* the request ran, unless it failed; what handlers fall back on is the newest
\* value, unless their lookups crossed; and a form of a page that is not mixed
\* up passes.
THEOREM GateHoldsAlways ==
    ASSUME GateConstantsFit
    PROVE  Gate!Spec =>
               [](Gate!TypeOK /\ Gate!AdmittedByTheVault
                  /\ Gate!FallbackIsNewest /\ Gate!FreshFormsPass)
<1>1. Gate!Init => GateInv
  BY GateInvInit
<1>2. GateInv /\ [Gate!Next]_(Gate!gateVars) => GateInv'
  BY GateInvNext
<1>3. GateInv =>
          Gate!TypeOK /\ Gate!AdmittedByTheVault /\ Gate!FallbackIsNewest /\ Gate!FreshFormsPass
  BY GateInvTypes, GateInvHolds
<1> QED BY <1>1, <1>2, <1>3, PTL DEF Gate!Spec

(***************************************************************************)
(* The license: the inductive invariant                                    *)
(***************************************************************************)

\* Durations are natural numbers, a text expires at some moment, and no text is
\* taken for the missing license or for the emulated one.
LicenseConstantsFit ==
    /\ LicenseTTL \in Nat /\ LicenseTime \in Nat /\ LicenseChanges \in Nat
    /\ Licensing!None \notin Texts /\ Licensing!Emulated \notin Texts
    /\ \A t \in Texts : t.expires \in Nat

(***************************************************************************)
(* The inductive invariant                                                 *)
(***************************************************************************)

Moments == [key : BOOLEAN, tenant : BOOLEAN, now : 0 .. LicenseTime]
Caches == [key : Licensing!Slots, until : 0 .. LicenseTime + LicenseTTL,
           granted : SUBSET Licensing!Features]
CheckStates == [at : {"idle", "lookup", "row", "done"},
                key : Licensing!Slots, began : 0 .. LicenseTime,
                granted : SUBSET Licensing!Features]

WorldTypes ==
    /\ now \in 0 .. LicenseTime /\ edits \in 0 .. LicenseChanges
    /\ local \in BOOLEAN /\ keyFile \in BOOLEAN /\ tenantKnown \in BOOLEAN
    /\ self \in Licensing!Processes /\ loaded \in BOOLEAN
    /\ inserted \in {Licensing!None} \cup Texts /\ slot \in Licensing!Slots
    /\ seen \subseteq Moments

LicenseTypes == WorldTypes /\ cache \in Caches /\ check \in [Checks -> CheckStates]

\* The result for a slot, as an evaluation at moment m could have found it.
Deserved(x, m, granted) ==
    \E key \in BOOLEAN : (m.key => key) /\ granted = Licensing!Granted(x, [m EXCEPT !.key = key])

\* What the cache holds was found TTL before it ends; the present is seen.
CacheInv ==
    /\ Licensing!Moment \in seen
    /\ cache.until # 0 =>
          \E m \in seen : m.now + LicenseTTL = cache.until
                          /\ Deserved(cache.key.holds, m, cache.granted)

\* An answer was deserved at a moment that is recent enough.
AnsweredInTime(c) ==
    \E m \in seen :
        /\ m.now + LicenseTTL > check[c].began \/ m.now >= check[c].began
        /\ Deserved(check[c].key.holds, m, check[c].granted)

CheckInv ==
    \A c \in Checks : check[c].began <= now /\ (check[c].at = "done" => AnsweredInTime(c))

\* Only a local deployment has the emulated license.
LocalInv ==
    /\ slot.holds = Licensing!Emulated => local
    /\ \A c \in Checks : check[c].key.holds = Licensing!Emulated => local

LicenseInv == LicenseTypes /\ CacheInv /\ CheckInv /\ LocalInv

(***************************************************************************)
(* Types                                                                   *)
(***************************************************************************)

LEMMA KindsDiffer == Licensing!None # Licensing!Emulated
<1>1. Licensing!None.kind = "none" /\ Licensing!Emulated.kind = "emulated"
  BY DEF Licensing!None, Licensing!Emulated
<1> QED BY <1>1

\* Whatever is evaluated, features are granted.
LEMMA GrantedTypes ==
    ASSUME NEW x, NEW m
    PROVE  Licensing!Granted(x, m) \subseteq Licensing!Features
<1>1. Licensing!Defaults \subseteq Licensing!Features
      /\ x.features \cap Licensing!Features \subseteq Licensing!Features
  BY DEF Licensing!Defaults, Licensing!Features
<1> QED BY <1>1 DEF Licensing!Granted

LEMMA NothingTypes ==
    ASSUME LicenseConstantsFit
    PROVE  /\ Licensing!None \in Licensing!Holdings /\ Licensing!Emulated \in Licensing!Holdings
           /\ Licensing!NoSlot \in Licensing!Slots /\ Licensing!NoSlot.holds = Licensing!None
           /\ Licensing!NoCheck \in CheckStates /\ Licensing!NoCheck.at = "idle"
              /\ Licensing!NoCheck.key = Licensing!NoSlot
           /\ Licensing!NoCheck.began = 0
           /\ Licensing!Empty \in Caches /\ Licensing!Empty.until = 0
<1>1. Licensing!None \in Licensing!Holdings /\ Licensing!Emulated \in Licensing!Holdings
  BY DEF Licensing!Holdings
<1>2. Licensing!NoSlot \in Licensing!Slots /\ Licensing!NoSlot.holds = Licensing!None
  BY <1>1 DEF LicenseConstantsFit, Licensing!NoSlot, Licensing!Slots
<1>3. Licensing!NoCheck \in CheckStates /\ Licensing!NoCheck.at = "idle"
      /\ Licensing!NoCheck.key = Licensing!NoSlot /\ Licensing!NoCheck.began = 0
  BY <1>2 DEF LicenseConstantsFit, Licensing!NoCheck, CheckStates
<1>4. Licensing!Empty \in Caches /\ Licensing!Empty.until = 0
  BY <1>2 DEF LicenseConstantsFit, Licensing!Empty, Caches
<1> QED BY <1>1, <1>2, <1>3, <1>4

LEMMA MomentTypes == WorldTypes =>
                         Licensing!Moment \in Moments /\ Licensing!Moment.now = now
                         /\ Licensing!Moment.key = keyFile
BY DEF WorldTypes, Licensing!Moment, Moments

\* What ReadSlot does to the evaluation it begins.
LEMMA ReadSlotIs ==
    ASSUME LicenseConstantsFit, LicenseTypes, NEW c \in Checks, Licensing!ReadSlot(c)
    PROVE  /\ check' \in [Checks -> CheckStates]
           /\ check'[c].at = "lookup" /\ check'[c].key = slot /\ check'[c].began = now
           /\ \A d \in Checks \ {c} : check'[d] = check[d]
<1> DEFINE r == [Licensing!NoCheck EXCEPT !.at = "lookup", !.key = slot, !.began = now]
<1>1. slot \in Licensing!Slots /\ now \in 0 .. LicenseTime /\ check \in [Checks -> CheckStates]
  BY DEF LicenseTypes, WorldTypes
<1>2. r \in CheckStates /\ r.at = "lookup" /\ r.key = slot /\ r.began = now
  BY <1>1, NothingTypes DEF CheckStates
<1>3. check' = [check EXCEPT ![c] = r]
  BY DEF Licensing!ReadSlot
<1> HIDE DEF r
<1> QED BY <1>1, <1>2, <1>3

\* An answer leaves everything else about its evaluation alone.
LEMMA AnswerIs ==
    ASSUME LicenseTypes, NEW c \in Checks, NEW granted \in SUBSET Licensing!Features,
           Licensing!Answer(c, granted)
    PROVE  /\ check' \in [Checks -> CheckStates]
           /\ check'[c].at = "done" /\ check'[c].granted = granted
           /\ check'[c].key = check[c].key /\ check'[c].began = check[c].began
           /\ \A d \in Checks \ {c} : check'[d] = check[d]
<1> DEFINE r == [check[c] EXCEPT !.at = "done", !.granted = granted]
<1>1. check \in [Checks -> CheckStates] /\ check[c] \in CheckStates
  BY DEF LicenseTypes
<1>2. /\ r \in CheckStates /\ r.at = "done" /\ r.granted = granted
      /\ r.key = check[c].key /\ r.began = check[c].began
  BY <1>1 DEF CheckStates
<1>3. check' = [check EXCEPT ![c] = r]
  BY <1>1 DEF Licensing!Answer
<1> HIDE DEF r
<1> QED BY <1>1, <1>2, <1>3

LEMMA MissIs ==
    ASSUME LicenseTypes, NEW c \in Checks, Licensing!Miss(c)
    PROVE  /\ check' \in [Checks -> CheckStates]
           /\ check'[c].at = "row"
           /\ check'[c].key = check[c].key /\ check'[c].began = check[c].began
           /\ \A d \in Checks \ {c} : check'[d] = check[d]
<1> DEFINE r == [check[c] EXCEPT !.at = "row"]
<1>1. check \in [Checks -> CheckStates] /\ check[c] \in CheckStates
  BY DEF LicenseTypes
<1>2. r \in CheckStates /\ r.at = "row" /\ r.key = check[c].key /\ r.began = check[c].began
  BY <1>1 DEF CheckStates
<1>3. check' = [check EXCEPT ![c] = r]
  BY <1>1 DEF Licensing!Miss
<1> HIDE DEF r
<1> QED BY <1>1, <1>2, <1>3

LEMMA KeepTypes ==
    ASSUME LicenseConstantsFit, LicenseTypes, NEW c \in Checks,
           NEW granted \in SUBSET Licensing!Features,
           Licensing!Keep(c, granted)
    PROVE  /\ cache' \in Caches
           /\ cache'.key = check[c].key /\ cache'.until = now + LicenseTTL
              /\ cache'.granted = granted
<1>1. check[c].key \in Licensing!Slots /\ now + LicenseTTL \in 0 .. LicenseTime + LicenseTTL
  BY DEF LicenseTypes, WorldTypes, CheckStates, LicenseConstantsFit
<1> QED BY <1>1 DEF Licensing!Keep, Caches

LEMMA InitLicenseTypes == LicenseConstantsFit /\ Licensing!Init => LicenseTypes
<1> SUFFICES ASSUME LicenseConstantsFit, Licensing!Init PROVE LicenseTypes
  OBVIOUS
<1>1. now \in 0 .. LicenseTime /\ edits \in 0 .. LicenseChanges
  BY DEF Licensing!Init, LicenseConstantsFit
<1>2. slot \in Licensing!Slots
  BY NothingTypes DEF Licensing!Init, Licensing!Slots, LicenseConstantsFit
<1>3. Licensing!Moment \in Moments
  BY <1>1 DEF Licensing!Init, Licensing!Moment, Moments
<1>4. WorldTypes
  BY <1>1, <1>2, <1>3 DEF Licensing!Init, WorldTypes
<1> QED BY <1>4, NothingTypes DEF Licensing!Init, LicenseTypes

\* The evaluations' steps.
CheckStep(c) == Licensing!ReadSlot(c) \/ Licensing!Hit(c) \/ Licensing!MissSimple(c)
    \/ Licensing!Miss(c) \/ Licensing!Inspect(c)

LEMMA CheckStepTypes ==
    ASSUME LicenseConstantsFit, LicenseTypes, NEW c \in Checks, CheckStep(c)
    PROVE  LicenseTypes'
<1>1. CASE Licensing!ReadSlot(c)
  BY <1>1, ReadSlotIs DEF Licensing!ReadSlot, Licensing!world, LicenseTypes, WorldTypes
<1>2. CASE Licensing!Hit(c)
  <2>1. cache.granted \in SUBSET Licensing!Features
    BY DEF LicenseTypes, Caches
  <2>2. Licensing!Answer(c, cache.granted)
    BY <1>2 DEF Licensing!Hit
  <2>3. check' \in [Checks -> CheckStates]
    BY <2>1, <2>2, AnswerIs
  <2> QED BY <1>2, <2>3 DEF Licensing!Hit, Licensing!world, LicenseTypes, WorldTypes
<1>3. CASE Licensing!MissSimple(c)
  <2> DEFINE granted == Licensing!Granted(check[c].key.holds, Licensing!Moment)
  <2>1. granted \in SUBSET Licensing!Features
    BY GrantedTypes
  <2>2. Licensing!Keep(c, granted) /\ Licensing!Answer(c, granted)
    BY <1>3 DEF Licensing!MissSimple, Licensing!Keep
  <2> HIDE DEF granted
  <2>3. cache' \in Caches /\ check' \in [Checks -> CheckStates]
    BY <2>1, <2>2, KeepTypes, AnswerIs
  <2> QED BY <1>3, <2>3 DEF Licensing!MissSimple, Licensing!world, LicenseTypes, WorldTypes
<1>4. CASE Licensing!Miss(c)
  BY <1>4, MissIs DEF Licensing!Miss, Licensing!world, LicenseTypes, WorldTypes
<1>5. CASE Licensing!Inspect(c)
  <2> DEFINE granted == Licensing!Granted(check[c].key.holds,
                                          [Licensing!Moment EXCEPT !.key = loaded \/ keyFile])
  <2>1. granted \in SUBSET Licensing!Features
    BY GrantedTypes
  <2>2. Licensing!Keep(c, granted) /\ Licensing!Answer(c, granted)
    BY <1>5 DEF Licensing!Inspect, Licensing!Keep
  <2> HIDE DEF granted
  <2>3. cache' \in Caches /\ check' \in [Checks -> CheckStates]
    BY <2>1, <2>2, KeepTypes, AnswerIs
  <2>4. loaded' \in BOOLEAN
    BY <1>5 DEF Licensing!Inspect, LicenseTypes, WorldTypes
  <2> QED BY <1>5, <2>3, <2>4 DEF Licensing!Inspect, Licensing!world, LicenseTypes, WorldTypes
<1> QED BY <1>1, <1>2, <1>3, <1>4, <1>5 DEF CheckStep

\* A change is counted, and stamps the slot.
LEMMA ChangeTypes ==
    ASSUME LicenseConstantsFit, LicenseTypes, Licensing!Change
    PROVE  /\ edits' \in 0 .. LicenseChanges
           /\ \A x \in Licensing!Holdings : [holds |-> x, stamp |-> edits'] \in Licensing!Slots
BY DEF Licensing!Change, LicenseTypes, WorldTypes, LicenseConstantsFit, Licensing!Slots

LEMMA ForgetTypes == LicenseConstantsFit /\ LicenseTypes /\ Licensing!Forget => cache' \in Caches
BY NothingTypes DEF Licensing!Forget, LicenseTypes

LEMMA NextLicenseTypes == LicenseConstantsFit /\ LicenseTypes
                          /\ [Licensing!Next]_(Licensing!licenseVars) => LicenseTypes'
<1> SUFFICES ASSUME LicenseConstantsFit, LicenseTypes, [Licensing!Next]_(Licensing!licenseVars)
             PROVE  LicenseTypes'
  OBVIOUS
<1>1. CASE UNCHANGED Licensing!licenseVars
  BY <1>1 DEF Licensing!licenseVars, Licensing!world, LicenseTypes, WorldTypes
<1>2. ASSUME NEW c \in Checks, CheckStep(c) PROVE LicenseTypes'
  BY <1>2, CheckStepTypes
<1>3. ASSUME NEW t \in Texts, Licensing!Insert(t) PROVE LicenseTypes'
  BY <1>3, ForgetTypes DEF Licensing!Insert, LicenseTypes, WorldTypes
<1>4. ASSUME NEW t \in Texts, Licensing!Activate(t) PROVE LicenseTypes'
  <2>1. t \in Licensing!Holdings
    BY DEF Licensing!Holdings
  <2> QED BY <1>4, <2>1, ChangeTypes, ForgetTypes DEF Licensing!Activate, LicenseTypes, WorldTypes
<1>5. CASE Licensing!ClearSlot
  BY <1>5, ChangeTypes, ForgetTypes, NothingTypes
  DEF Licensing!ClearSlot, LicenseTypes, WorldTypes
<1>6. ASSUME NEW on \in BOOLEAN, Licensing!Emulate(on) PROVE LicenseTypes'
  BY <1>6, ChangeTypes, NothingTypes DEF Licensing!Emulate, LicenseTypes, WorldTypes
<1>7. CASE Licensing!Configure
  <2>1. /\ keyFile' \in BOOLEAN /\ tenantKnown' \in BOOLEAN
        /\ now' \in 0 .. LicenseTime /\ edits' \in 0 .. LicenseChanges
    BY <1>7, ChangeTypes DEF Licensing!Configure, LicenseTypes, WorldTypes
  <2>2. seen' \subseteq Moments
    BY <1>7, <2>1
    DEF Licensing!Configure, Licensing!See, Licensing!Moment, Moments, LicenseTypes, WorldTypes
  <2> QED BY <1>7, <2>1, <2>2 DEF Licensing!Configure, LicenseTypes, WorldTypes
<1>8. CASE Licensing!Restart
  <2>1. check' \in [Checks -> CheckStates] /\ cache' \in Caches
    BY <1>8, NothingTypes DEF Licensing!Restart
  <2> QED BY <1>8, <2>1 DEF Licensing!Restart, LicenseTypes, WorldTypes
<1>9. CASE Licensing!Tick
  <2>1. now' \in 0 .. LicenseTime
    BY <1>9 DEF Licensing!Tick, LicenseTypes, WorldTypes, LicenseConstantsFit
  <2>2. seen' \subseteq Moments
    BY <1>9, <2>1
    DEF Licensing!Tick, Licensing!world, Licensing!See, Licensing!Moment, Moments, LicenseTypes,
        WorldTypes
  <2> QED BY <1>9, <2>1, <2>2 DEF Licensing!Tick, Licensing!world, LicenseTypes, WorldTypes
<1> QED BY <1>1, <1>2, <1>3, <1>4, <1>5, <1>6, <1>7, <1>8, <1>9 DEF Licensing!Next, CheckStep

(***************************************************************************)
(* Answers                                                                 *)
(***************************************************************************)

\* A result found now is deserved now; a key that has been read stays.
LEMMA DeservedNow ==
    ASSUME LicenseTypes, NEW x, NEW key \in BOOLEAN, keyFile => key
    PROVE  Deserved(x, Licensing!Moment,
                    Licensing!Granted(x, [Licensing!Moment EXCEPT !.key = key]))
<1>1. Licensing!Moment.key => key
  BY MomentTypes DEF LicenseTypes
<1> QED BY <1>1 DEF Deserved

\* Every moment that was seen stays seen, and no evaluation but c moves.
LEMMA OthersAnswer ==
    ASSUME CheckInv, NEW c, seen \subseteq seen', now' = now,
           \A d \in Checks \ {c} : check'[d] = check[d],
           c \in Checks =>
               check'[c].began <= now' /\ (check'[c].at = "done" => AnsweredInTime(c)')
    PROVE  CheckInv'
<1> SUFFICES ASSUME NEW d \in Checks
             PROVE  check'[d].began <= now' /\ (check'[d].at = "done" => AnsweredInTime(d)')
  BY DEF CheckInv
<1>1. CASE d = c
  BY <1>1
<1>2. CASE d # c
  BY <1>2 DEF CheckInv, AnsweredInTime
<1> QED BY <1>1, <1>2

\* The evaluations stay as they are while time goes on.
LEMMA SameAnswers ==
    ASSUME LicenseTypes, CheckInv, seen \subseteq seen', check' = check, now' \in Nat, now <= now'
    PROVE  CheckInv'
<1> SUFFICES ASSUME NEW d \in Checks
             PROVE  check'[d].began <= now' /\ (check'[d].at = "done" => AnsweredInTime(d)')
  BY DEF CheckInv
<1>1. check[d].began \in Nat /\ now \in Nat /\ check[d].began <= now
  BY DEF LicenseTypes, WorldTypes, CheckStates, CheckInv
<1>2. check'[d].began <= now'
  BY <1>1
<1> QED BY <1>2 DEF CheckInv, AnsweredInTime

\* What an evaluation finds now may be kept, and is an answer to it.
LEMMA KeepsAndAnswers ==
    ASSUME LicenseConstantsFit, LicenseTypes, CacheInv, CheckInv, NEW c \in Checks,
           NEW granted \in SUBSET Licensing!Features,
           Deserved(check[c].key.holds, Licensing!Moment, granted),
           Licensing!Keep(c, granted), UNCHANGED <<now, Licensing!world, seen>>
    PROVE  CacheInv' /\ CheckInv'
<1>1. Licensing!Moment \in seen /\ Licensing!Moment.now = now
      /\ Licensing!Moment' = Licensing!Moment /\ now \in Nat
  BY MomentTypes DEF CacheInv, LicenseTypes, WorldTypes, Licensing!Moment, Licensing!world
<1>2. cache'.key = check[c].key /\ cache'.until = now + LicenseTTL /\ cache'.granted = granted
  BY KeepTypes
<1>3. CacheInv'
  BY <1>1, <1>2 DEF CacheInv
<1>4. /\ check'[c].granted = granted /\ check'[c].key = check[c].key
      /\ check'[c].began = check[c].began /\ \A d \in Checks \ {c} : check'[d] = check[d]
  BY AnswerIs DEF Licensing!Keep
<1>5. check[c].began <= now
  BY DEF CheckInv
<1>6. AnsweredInTime(c)'
  BY <1>1, <1>4, <1>5 DEF AnsweredInTime, LicenseTypes, CheckStates
<1>7. CheckInv'
  BY <1>1, <1>4, <1>5, <1>6, OthersAnswer
<1> QED BY <1>3, <1>7

LEMMA CheckStepAnswers ==
    ASSUME LicenseConstantsFit, LicenseTypes, CacheInv, CheckInv, NEW c \in Checks, CheckStep(c)
    PROVE  CacheInv' /\ CheckInv'
<1>1. CASE Licensing!ReadSlot(c)
  <2>1. CacheInv'
    BY <1>1 DEF Licensing!ReadSlot, CacheInv, Licensing!Moment, Licensing!world
  <2>2. now \in Nat /\ now <= now
    BY DEF LicenseTypes, WorldTypes
  <2>3. CheckInv'
    BY <1>1, <2>2, ReadSlotIs, OthersAnswer DEF Licensing!ReadSlot
  <2> QED BY <2>1, <2>3
<1>2. CASE Licensing!Hit(c)
  <2>1. CacheInv'
    BY <1>2 DEF Licensing!Hit, CacheInv, Licensing!Moment, Licensing!world
  <2>2. cache.granted \in SUBSET Licensing!Features /\ Licensing!Answer(c, cache.granted)
    BY <1>2 DEF Licensing!Hit, LicenseTypes, Caches
  <2>3. /\ check'[c].granted = cache.granted /\ check'[c].key = check[c].key
        /\ check'[c].began = check[c].began /\ \A d \in Checks \ {c} : check'[d] = check[d]
    BY <2>2, AnswerIs
  <2>4. cache.key = check[c].key /\ cache.until > now /\ check[c].began <= now
    BY <1>2 DEF Licensing!Hit, Licensing!Serves, CheckInv
  <2>5. now \in Nat /\ cache.until \in Nat /\ check[c].began \in Nat
    BY DEF LicenseTypes, WorldTypes, Caches, CheckStates, LicenseConstantsFit
  <2>6. PICK m \in seen :
            m.now + LicenseTTL = cache.until /\ Deserved(cache.key.holds, m, cache.granted)
    BY <2>4, <2>5 DEF CacheInv
  <2>7. m.now + LicenseTTL > check'[c].began
        /\ Deserved(check'[c].key.holds, m, check'[c].granted)
    BY <2>3, <2>4, <2>5, <2>6
  <2>8. seen' = seen /\ now' = now
    BY <1>2 DEF Licensing!Hit
  <2>9. AnsweredInTime(c)'
    BY <2>7, <2>8 DEF AnsweredInTime
  <2> QED BY <2>1, <2>3, <2>4, <2>8, <2>9, OthersAnswer
<1>3. CASE Licensing!MissSimple(c)
  <2> DEFINE granted == Licensing!Granted(check[c].key.holds, Licensing!Moment)
  <2>1. Licensing!Keep(c, granted) /\ UNCHANGED <<now, Licensing!world, seen>>
        /\ granted \in SUBSET Licensing!Features
    BY <1>3, GrantedTypes DEF Licensing!MissSimple, Licensing!world
  <2>2. Licensing!Moment = [Licensing!Moment EXCEPT !.key = keyFile]
    BY DEF Licensing!Moment
  <2>3. Deserved(check[c].key.holds, Licensing!Moment, granted)
    BY <2>2, MomentTypes DEF Deserved, LicenseTypes, WorldTypes
  <2> HIDE DEF granted
  <2> QED BY <2>1, <2>3, KeepsAndAnswers
<1>4. CASE Licensing!Miss(c)
  <2>1. CacheInv'
    BY <1>4 DEF Licensing!Miss, CacheInv, Licensing!Moment, Licensing!world
  <2>2. check[c].began <= now
    BY DEF CheckInv
  <2>3. CheckInv'
    BY <1>4, <2>2, MissIs, OthersAnswer DEF Licensing!Miss
  <2> QED BY <2>1, <2>3
<1>5. CASE Licensing!Inspect(c)
  <2> DEFINE key == loaded \/ keyFile
             granted == Licensing!Granted(check[c].key.holds, [Licensing!Moment EXCEPT !.key = key])
  <2>1. key \in BOOLEAN /\ (keyFile => key)
    BY DEF LicenseTypes, WorldTypes
  <2>2. Licensing!Keep(c, granted) /\ UNCHANGED <<now, Licensing!world, seen>>
    BY <1>5 DEF Licensing!Inspect
  <2> HIDE DEF key
  <2>3. granted \in SUBSET Licensing!Features
    BY GrantedTypes
  <2>4. Deserved(check[c].key.holds, Licensing!Moment, granted)
    BY <2>1, DeservedNow
  <2> HIDE DEF granted
  <2> QED BY <2>2, <2>3, <2>4, KeepsAndAnswers
<1> QED BY <1>1, <1>2, <1>3, <1>4, <1>5 DEF CheckStep

\* Forgetting leaves nothing to serve.
LEMMA ForgetIs == LicenseConstantsFit /\ Licensing!Forget => cache' = cache \/ cache'.until = 0
BY NothingTypes DEF Licensing!Forget

LEMMA InitAnswers == LicenseConstantsFit /\ Licensing!Init => CacheInv /\ CheckInv
<1> SUFFICES ASSUME LicenseConstantsFit, Licensing!Init PROVE CacheInv /\ CheckInv
  OBVIOUS
<1>1. CacheInv
  BY NothingTypes DEF Licensing!Init, CacheInv
<1>2. now = 0 /\ \A c \in Checks : check[c].at = "idle" /\ check[c].began = 0
  BY NothingTypes DEF Licensing!Init
<1>3. ASSUME NEW c \in Checks PROVE check[c].began <= now /\ check[c].at # "done"
  <2>1. now = 0 /\ check[c].began = 0 /\ check[c].at = "idle"
    BY <1>2
  <2>2. check[c].began <= now
    BY <2>1, SMT
  <2> QED BY <2>1, <2>2
<1>4. CheckInv
  BY <1>3 DEF CheckInv
<1> QED BY <1>1, <1>4

LEMMA NextAnswers ==
    LicenseConstantsFit /\ LicenseTypes /\ CacheInv /\ CheckInv
    /\ [Licensing!Next]_(Licensing!licenseVars) => CacheInv' /\ CheckInv'
<1> SUFFICES ASSUME LicenseConstantsFit, LicenseTypes, CacheInv, CheckInv,
                    [Licensing!Next]_(Licensing!licenseVars)
             PROVE  CacheInv' /\ CheckInv'
  OBVIOUS
<1>0. now \in Nat /\ now <= now
  BY DEF LicenseTypes, WorldTypes
<1>1. CASE UNCHANGED Licensing!licenseVars
  BY <1>0, <1>1, SameAnswers
  DEF Licensing!licenseVars, Licensing!world, CacheInv, Licensing!Moment
<1>2. ASSUME NEW c \in Checks, CheckStep(c) PROVE CacheInv' /\ CheckInv'
  BY <1>2, CheckStepAnswers
<1>3. ASSUME NEW t \in Texts, Licensing!Insert(t) PROVE CacheInv' /\ CheckInv'
  BY <1>0, <1>3, ForgetIs, SameAnswers DEF Licensing!Insert, CacheInv, Licensing!Moment
<1>4. ASSUME NEW t \in Texts, Licensing!Activate(t) PROVE CacheInv' /\ CheckInv'
  BY <1>0, <1>4, ForgetIs, SameAnswers DEF Licensing!Activate, CacheInv, Licensing!Moment
<1>5. CASE Licensing!ClearSlot
  BY <1>0, <1>5, ForgetIs, SameAnswers DEF Licensing!ClearSlot, CacheInv, Licensing!Moment
<1>6. ASSUME NEW on \in BOOLEAN, Licensing!Emulate(on) PROVE CacheInv' /\ CheckInv'
  BY <1>0, <1>6, SameAnswers DEF Licensing!Emulate, CacheInv, Licensing!Moment
<1>7. CASE Licensing!Configure
  <2>1. UNCHANGED <<now, cache, check>> /\ seen' = seen \cup {Licensing!Moment'}
    BY <1>7 DEF Licensing!Configure, Licensing!See
  <2> QED BY <1>0, <2>1, SameAnswers DEF CacheInv
<1>8. CASE Licensing!Restart
  <2>1. CacheInv'
    BY <1>8, NothingTypes DEF Licensing!Restart, CacheInv, Licensing!Moment
  <2>2. \A c \in Checks : check'[c].at = "idle" /\ check'[c].began = 0
    BY <1>8, NothingTypes DEF Licensing!Restart
  <2>3. now' \in Nat
    BY <1>0, <1>8 DEF Licensing!Restart
  <2> QED BY <2>1, <2>2, <2>3 DEF CheckInv
<1>9. CASE Licensing!Tick
  <2>1. UNCHANGED <<cache, check>> /\ seen' = seen \cup {Licensing!Moment'} /\ now' = now + 1
    BY <1>9 DEF Licensing!Tick, Licensing!See
  <2>2. now' \in Nat /\ now <= now'
    BY <1>0, <2>1
  <2> QED BY <2>1, <2>2, SameAnswers DEF CacheInv
<1> QED BY <1>1, <1>2, <1>3, <1>4, <1>5, <1>6, <1>7, <1>8, <1>9 DEF Licensing!Next, CheckStep

(***************************************************************************)
(* The emulated license                                                    *)
(***************************************************************************)

LEMMA InitLocal == LicenseConstantsFit /\ Licensing!Init => LocalInv
BY NothingTypes, KindsDiffer DEF Licensing!Init, LocalInv

LEMMA NextLocal == LicenseConstantsFit /\ LicenseTypes /\ LocalInv
                   /\ [Licensing!Next]_(Licensing!licenseVars) => LocalInv'
<1> SUFFICES ASSUME LicenseConstantsFit, LicenseTypes, LocalInv,
                    [Licensing!Next]_(Licensing!licenseVars)
             PROVE  LocalInv'
  OBVIOUS
<1>1. CASE UNCHANGED Licensing!licenseVars
  BY <1>1 DEF Licensing!licenseVars, Licensing!world, LocalInv
<1>2. ASSUME NEW c \in Checks, CheckStep(c) PROVE LocalInv'
  <2>1. UNCHANGED <<local, slot>>
    BY <1>2
    DEF CheckStep, Licensing!ReadSlot, Licensing!Hit, Licensing!MissSimple, Licensing!Miss,
        Licensing!Inspect, Licensing!world
  <2>2. \A d \in Checks \ {c} : check'[d] = check[d]
    BY <1>2, ReadSlotIs, MissIs
    DEF CheckStep, Licensing!Hit, Licensing!MissSimple, Licensing!Inspect, Licensing!Keep,
        Licensing!Answer, LicenseTypes
  <2>3. check'[c].key \in {slot, check[c].key}
    <3>1. CASE Licensing!ReadSlot(c)
      BY <3>1, ReadSlotIs
    <3>2. CASE Licensing!Miss(c)
      BY <3>2, MissIs
    <3>3. ASSUME NEW granted, Licensing!Answer(c, granted) PROVE check'[c].key = check[c].key
      BY <3>3 DEF Licensing!Answer, LicenseTypes, CheckStates
    <3> QED BY <1>2, <3>1, <3>2, <3>3
            DEF CheckStep, Licensing!Hit, Licensing!MissSimple, Licensing!Inspect, Licensing!Keep
  <2> QED BY <2>1, <2>2, <2>3 DEF LocalInv
<1>3. ASSUME NEW t \in Texts, Licensing!Insert(t) PROVE LocalInv'
  BY <1>3 DEF Licensing!Insert, LocalInv
<1>4. ASSUME NEW t \in Texts, Licensing!Activate(t) PROVE LocalInv'
  BY <1>4 DEF Licensing!Activate, LocalInv, LicenseConstantsFit
<1>5. CASE Licensing!ClearSlot
  BY <1>5, NothingTypes, KindsDiffer DEF Licensing!ClearSlot, LocalInv
<1>6. ASSUME NEW on \in BOOLEAN, Licensing!Emulate(on) PROVE LocalInv'
  BY <1>6 DEF Licensing!Emulate, LocalInv
<1>7. CASE Licensing!Configure
  BY <1>7 DEF Licensing!Configure, LocalInv
<1>8. CASE Licensing!Restart
  BY <1>8, NothingTypes, KindsDiffer DEF Licensing!Restart, LocalInv
<1>9. CASE Licensing!Tick
  BY <1>9 DEF Licensing!Tick, Licensing!world, LocalInv
<1> QED BY <1>1, <1>2, <1>3, <1>4, <1>5, <1>6, <1>7, <1>8, <1>9 DEF Licensing!Next, CheckStep

(***************************************************************************)
(* The theorems                                                            *)
(***************************************************************************)

LEMMA LicenseInvInit == LicenseConstantsFit /\ Licensing!Init => LicenseInv
BY InitLicenseTypes, InitAnswers, InitLocal DEF LicenseInv

LEMMA LicenseInvNext == LicenseConstantsFit /\ LicenseInv
                        /\ [Licensing!Next]_(Licensing!licenseVars) => LicenseInv'
BY NextLicenseTypes, NextAnswers, NextLocal DEF LicenseInv

LEMMA LicenseInvTypes == LicenseInv => Licensing!TypeOK
BY DEF LicenseInv, LicenseTypes, WorldTypes, Moments, Caches, CheckStates, Licensing!TypeOK

LEMMA RecentAnswers == LicenseInv => Licensing!AnswersAreRecent
<1> SUFFICES ASSUME LicenseInv, NEW c \in Checks, check[c].at = "done"
             PROVE  Licensing!Recently(c, check[c].granted)
  BY DEF Licensing!AnswersAreRecent
<1>1. AnsweredInTime(c)
  BY DEF LicenseInv, CheckInv
<1> QED BY <1>1 DEF AnsweredInTime, Deserved, Licensing!Recently

\* Job control comes from the emulated license or from a good one.
LEMMA JobControlIs ==
    ASSUME LicenseConstantsFit, NEW x \in Licensing!Holdings, NEW m \in Moments,
           NEW key \in BOOLEAN,
           "job_control" \in Licensing!Granted(x, [m EXCEPT !.key = key])
    PROVE  \/ x = Licensing!Emulated
           \/ x \in Texts /\ Licensing!Verified(x, key) /\ x.tenant = "ours"
              /\ ~Licensing!Expired(x, m.now)
              /\ "job_control" \in x.features
<1> DEFINE n == [m EXCEPT !.key = key]
<1>1. n.key = key /\ n.now = m.now
  BY DEF Moments
<1> HIDE DEF n
<1>2. "job_control" \notin Licensing!Defaults
  BY DEF Licensing!Defaults
<1>3. CASE x = Licensing!None
  BY <1>2, <1>3 DEF Licensing!Granted
<1>4. CASE x = Licensing!Emulated
  BY <1>4
<1>5. CASE x # Licensing!None /\ x # Licensing!Emulated
  <2>1. x \in Texts /\ "job_control" \in Licensing!Granted(x, n)
    BY <1>5 DEF Licensing!Holdings, n
  <2> QED BY <1>1, <1>2, <1>5, <2>1 DEF Licensing!Granted
<1> QED BY <1>3, <1>4, <1>5

LEMMA PaidIsLicensed == LicenseConstantsFit /\ LicenseInv => Licensing!PaidNeedsALicense
<1> SUFFICES ASSUME LicenseConstantsFit, LicenseInv, NEW c \in Checks, check[c].at = "done",
                    "job_control" \in check[c].granted
             PROVE  LET x == check[c].key.holds IN
                    \/ local /\ x = Licensing!Emulated
                    \/ /\ x \in Texts
                       /\ x.signature = "right" /\ x.canonical /\ x.delimiters = 1
                       /\ x.tenant = "ours" /\ "job_control" \in x.features
                       /\ check[c].began < x.expires + LicenseTTL + 1
  BY DEF Licensing!PaidNeedsALicense
<1> DEFINE x == check[c].key.holds
<1>1. x \in Licensing!Holdings /\ check[c].began \in Nat
  BY DEF LicenseInv, LicenseTypes, CheckStates, Licensing!Slots
<1>2. PICK m \in seen :
          /\ m.now + LicenseTTL > check[c].began \/ m.now >= check[c].began
          /\ Deserved(x, m, check[c].granted)
  BY DEF LicenseInv, CheckInv, AnsweredInTime
<1>3. m \in Moments /\ m.now \in Nat
  BY DEF LicenseInv, LicenseTypes, WorldTypes, Moments
<1>4. PICK key \in BOOLEAN : check[c].granted = Licensing!Granted(x, [m EXCEPT !.key = key])
  BY <1>2 DEF Deserved
<1>5. x = Licensing!Emulated => local
  BY DEF LicenseInv, LocalInv
<1> HIDE DEF x
<1>6. CASE x = Licensing!Emulated
  BY <1>5, <1>6 DEF x
<1>7. CASE x # Licensing!Emulated
  <2>1. /\ x \in Texts /\ Licensing!Verified(x, key) /\ x.tenant = "ours"
           /\ ~Licensing!Expired(x, m.now)
        /\ "job_control" \in x.features
    BY <1>1, <1>3, <1>4, <1>7, JobControlIs
  <2>2. x.expires \in Nat /\ ~(x.expires < m.now)
    BY <2>1 DEF LicenseConstantsFit, Licensing!Expired
  <2>3. check[c].began < x.expires + LicenseTTL + 1
    BY <1>1, <1>2, <1>3, <2>2 DEF LicenseConstantsFit
  <2> QED BY <2>1, <2>3 DEF Licensing!Verified, Licensing!WellFormed, x
<1> QED BY <1>6, <1>7

\* Although evaluations overtake one another and share a cache that is cleared,
\* kept and outlived by licenses and settings, an answer is one that the license
\* in force when the evaluation began deserved within the last TTL, and job
\* control is granted under the emulated license of a local deployment or a
\* signed, canonical, current license of this tenant (license.ts, license.py).
THEOREM LicenseHoldsAlways ==
    ASSUME LicenseConstantsFit
    PROVE  Licensing!Spec =>
               [](Licensing!TypeOK /\ Licensing!AnswersAreRecent /\ Licensing!PaidNeedsALicense)
<1>1. Licensing!Init => LicenseInv
  BY LicenseInvInit
<1>2. LicenseInv /\ [Licensing!Next]_(Licensing!licenseVars) => LicenseInv'
  BY LicenseInvNext
<1>3. LicenseInv => Licensing!TypeOK /\ Licensing!AnswersAreRecent /\ Licensing!PaidNeedsALicense
  BY LicenseInvTypes, RecentAnswers, PaidIsLicensed
<1> QED BY <1>1, <1>2, <1>3, PTL DEF Licensing!Spec

(***************************************************************************)
(* The Dataverse token: the inductive invariant                            *)
(***************************************************************************)

\* Requests are finitely many; NoEntry is no request and no token.
TokenConstantsFit ==
    /\ IsFiniteSet(Requests) /\ NoEntry \notin Requests /\ NoEntry \notin Dataverse!Token
    /\ LastMoment \in Nat /\ MaxConfigures \in Nat /\ Life \in Nat /\ Pages \in Nat \ {0}

Settings == Configs \cup {NotSet}
Errors == {"none", "not_configured", "auth_failed", "permission_denied", "unreachable", "unknown"}

Acqs == [at : {"none", "client", "scope", "entra", "settled", "failed"},
         key : Settings \cup Troubles \cup {"must be set"},
         asked : Settings, scope : Settings, token : Dataverse!Token \cup {NoEntry}]
Calls == [at : {"idle", "ready", "asking", "sent", "done", "failed"},
          url : Settings, on : Requests \cup {NoEntry}, token : Dataverse!Token \cup {NoEntry},
          page : 1 .. Pages, error : Errors]

ClientTypes ==
    /\ moment \in 0 .. LastMoment /\ config \in Settings /\ client \in Settings
    /\ shared \in Requests \cup {NoEntry} /\ cached \in Dataverse!Token \cup {NoEntry}
    /\ rebuilds \in Nat /\ overtaken \in BOOLEAN

TokenTypes == ClientTypes /\ acq \in [Requests -> Acqs] /\ call \in [Requests -> Calls]

\* A token that was asked for under the settings its client was built for.
Own(token) == token.key = token.asked

AcqFits(a) ==
    /\ a.at \in {"scope", "entra"} => a.key \in Configs /\ a.asked = a.key
    /\ a.at = "entra" => a.scope \in Configs
    /\ a.at = "settled" => a.token \in Dataverse!Token /\ Own(a.token)

CallFits(c) ==
    /\ c.at = "sent" <=> c.token # NoEntry
    /\ c.at = "asking" <=> c.on # NoEntry
    /\ c.at = "failed" <=> c.error # "none"
    /\ c.at = "sent" => Own(c.token)

CachedFits == cached # NoEntry => Own(cached) /\ (cached.key = client \/ overtaken)

\* Acquisitions under way; every other one than the shared one was left over
\* when a client was built.
Active == {r \in Requests : acq[r].at # "none"}

SharedFits ==
    /\ shared # NoEntry => shared \in Active
    /\ \A r \in Requests : call[r].at = "asking" => call[r].on \in Active
    /\ Cardinality(Active \ {shared}) <= rebuilds

TokenInv ==
    /\ TokenTypes
    /\ \A r \in Requests : AcqFits(acq[r]) /\ CallFits(call[r])
    /\ CachedFits
    /\ SharedFits

(***************************************************************************)
(* What a step does to requests and acquisitions                           *)
(***************************************************************************)

\* The requests, or the acquisitions, but r's are left alone.
CallsApart(r) ==
    /\ call' \in [Requests -> Calls] /\ CallFits(call'[r])
    /\ \A q \in Requests \ {r} : call'[q] = call[q]
AcqsApart(r) ==
    /\ acq' \in [Requests -> Acqs] /\ AcqFits(acq'[r])
    /\ \A q \in Requests \ {r} : acq'[q] = acq[q]

LEMMA ErrorTypes ==
    ASSUME NEW words
    PROVE  Dataverse!ClassifyDataverseError(words) \in Errors \ {"none"}
BY DEF Dataverse!ClassifyDataverseError, Errors

LEMMA NothingAsked ==
    ASSUME TokenConstantsFit
    PROVE  /\ Dataverse!NoAcq \in Acqs /\ Dataverse!NoAcq.at = "none" /\ AcqFits(Dataverse!NoAcq)
           /\ Dataverse!NoCall \in Calls /\ Dataverse!NoCall.at = "idle"
              /\ Dataverse!NoCall.on = NoEntry
           /\ CallFits(Dataverse!NoCall)
<1>1. Dataverse!NoAcq \in Acqs /\ Dataverse!NoAcq.at = "none"
  BY DEF Dataverse!NoAcq, Acqs, Settings
<1>2. /\ Dataverse!NoCall \in Calls /\ Dataverse!NoCall.at = "idle"
         /\ Dataverse!NoCall.on = NoEntry
      /\ Dataverse!NoCall.token = NoEntry /\ Dataverse!NoCall.error = "none"
  BY DEF Dataverse!NoCall, Calls, Settings, Errors, TokenConstantsFit
<1> QED BY <1>1, <1>2 DEF AcqFits, CallFits

\* A request that fails, for whatever reason.
LEMMA FailIs ==
    ASSUME TokenConstantsFit, TokenInv, NEW r \in Requests, NEW words
    PROVE  /\ Dataverse!Fail(r, words) \in Calls /\ Dataverse!Fail(r, words).at = "failed"
           /\ Dataverse!Fail(r, words).token = NoEntry /\ Dataverse!Fail(r, words).error # "none"
           /\ Dataverse!Fail(r, words).on = call[r].on
<1> DEFINE e == Dataverse!ClassifyDataverseError(words)
<1>1. e \in Errors /\ e # "none" /\ call[r] \in Calls
  BY ErrorTypes DEF TokenInv, TokenTypes
<1> HIDE DEF e
<1>2. Dataverse!Fail(r, words) = [call[r] EXCEPT !.at = "failed", !.token = NoEntry, !.error = e]
  BY DEF Dataverse!Fail, e
<1> QED BY <1>1, <1>2 DEF Calls

\* The call record of a request that neither asks nor has a token.
LEMMA CallSets ==
    ASSUME TokenConstantsFit, TokenInv, NEW r \in Requests, NEW new \in Calls,
           call' = [call EXCEPT ![r] = new], CallFits(new)
    PROVE  CallsApart(r) /\ call'[r] = new
<1>1. call \in [Requests -> Calls]
  BY DEF TokenInv, TokenTypes
<1> QED BY <1>1 DEF CallsApart

LEMMA AcqSets ==
    ASSUME TokenConstantsFit, TokenInv, NEW r \in Requests, NEW new \in Acqs,
           acq' = [acq EXCEPT ![r] = new], AcqFits(new)
    PROVE  AcqsApart(r) /\ acq'[r] = new
<1>1. acq \in [Requests -> Acqs]
  BY DEF TokenInv, TokenTypes
<1> QED BY <1>1 DEF AcqsApart

LEMMA BuildUrlIs ==
    ASSUME TokenConstantsFit, TokenInv, NEW r \in Requests, Dataverse!BuildUrl(r)
    PROVE  CallsApart(r) /\ call'[r].at # "asking"
<1>1. call[r] \in Calls /\ CallFits(call[r]) /\ call[r].at = "idle" /\ config \in Settings
  BY DEF TokenInv, TokenTypes, ClientTypes, Dataverse!BuildUrl
<1>2. CASE config = NotSet
  <2> DEFINE new == Dataverse!Fail(r, "must be set")
  <2>1. new \in Calls /\ CallFits(new) /\ new.at = "failed"
    BY <1>1, FailIs DEF CallFits
  <2>2. call' = [call EXCEPT ![r] = new]
    BY <1>2 DEF Dataverse!BuildUrl
  <2> HIDE DEF new
  <2> QED BY <2>1, <2>2, CallSets
<1>3. CASE config # NotSet
  <2> DEFINE new == [call[r] EXCEPT !.at = "ready", !.url = config]
  <2>1. /\ new \in Calls /\ new.at = "ready" /\ new.on = call[r].on
        /\ new.token = call[r].token /\ new.error = call[r].error
    BY <1>1 DEF Calls
  <2>2. call' = [call EXCEPT ![r] = new]
    BY <1>3 DEF Dataverse!BuildUrl
  <2> HIDE DEF new
  <2>3. CallFits(new)
    BY <1>1, <2>1 DEF CallFits
  <2> QED BY <2>1, <2>2, <2>3, CallSets
<1> QED BY <1>2, <1>3

LEMMA RespondIs ==
    ASSUME TokenConstantsFit, TokenInv, NEW r \in Requests, Dataverse!Respond(r)
    PROVE  CallsApart(r) /\ call'[r].at # "asking"
<1>1. call[r] \in Calls /\ CallFits(call[r]) /\ call[r].at = "sent" /\ Pages \in Nat
  BY DEF TokenInv, TokenTypes, Dataverse!Respond, TokenConstantsFit
<1>2. ASSUME NEW words, call' = [call EXCEPT ![r] = Dataverse!Fail(r, words)]
      PROVE  CallsApart(r) /\ call'[r].at # "asking"
  <2> DEFINE new == Dataverse!Fail(r, words)
  <2>1. new \in Calls /\ CallFits(new) /\ new.at = "failed"
    BY <1>1, FailIs DEF CallFits
  <2>2. call' = [call EXCEPT ![r] = new]
    BY <1>2
  <2> HIDE DEF new
  <2> QED BY <2>1, <2>2, CallSets
<1>3. ASSUME call[r].page < Pages,
             call' = [call EXCEPT ![r] = [@ EXCEPT !.at = "ready", !.token = NoEntry,
                                                   !.page = call[r].page + 1]]
      PROVE  CallsApart(r) /\ call'[r].at # "asking"
  <2> DEFINE page == call[r].page + 1
             new == [call[r] EXCEPT !.at = "ready", !.token = NoEntry, !.page = page]
  <2>1. page \in 1 .. Pages
    BY <1>1, <1>3 DEF Calls
  <2>2. call' = [call EXCEPT ![r] = new]
    BY <1>3
  <2> HIDE DEF page
  <2>3. /\ new \in Calls /\ new.at = "ready" /\ new.on = call[r].on
        /\ new.token = NoEntry /\ new.error = call[r].error
    BY <1>1, <2>1 DEF Calls
  <2> HIDE DEF new
  <2>4. CallFits(new)
    BY <1>1, <2>3 DEF CallFits
  <2> QED BY <2>2, <2>3, <2>4, CallSets
<1>4. ASSUME call' = [call EXCEPT ![r] = [@ EXCEPT !.at = "done", !.token = NoEntry]]
      PROVE  CallsApart(r) /\ call'[r].at # "asking"
  <2> DEFINE new == [call[r] EXCEPT !.at = "done", !.token = NoEntry]
  <2>1. call' = [call EXCEPT ![r] = new]
    BY <1>4
  <2>2. /\ new \in Calls /\ new.at = "done" /\ new.on = call[r].on
        /\ new.token = NoEntry /\ new.error = call[r].error
    BY <1>1 DEF Calls
  <2> HIDE DEF new
  <2>3. CallFits(new)
    BY <1>1, <2>2 DEF CallFits
  <2> QED BY <2>1, <2>2, <2>3, CallSets
<1> QED BY <1>2, <1>3, <1>4 DEF Dataverse!Respond

LEMMA AskTokenIs ==
    ASSUME TokenConstantsFit, TokenInv, NEW r \in Requests, Dataverse!AskToken(r)
    PROVE  /\ CallsApart(r) /\ call'[r].at = "asking" /\ call'[r].on = shared'
           /\ \/ shared # NoEntry /\ UNCHANGED <<acq, shared>>
              \/ /\ shared = NoEntry /\ shared' = r
                 /\ AcqsApart(r) /\ acq'[r].at # "none"
<1>1. /\ call[r] \in Calls /\ CallFits(call[r]) /\ call[r].at = "ready"
      /\ shared \in Requests \cup {NoEntry} /\ cached \in Dataverse!Token \cup {NoEntry}
         /\ CachedFits
  BY DEF TokenInv, TokenTypes, ClientTypes, Dataverse!AskToken
<1>2. shared' \in Requests
  BY <1>1 DEF Dataverse!AskToken
<1>3. CallsApart(r) /\ call'[r].at = "asking" /\ call'[r].on = shared'
  <2> DEFINE new == [call[r] EXCEPT !.at = "asking", !.on = shared']
  <2>1. call' = [call EXCEPT ![r] = new]
    BY DEF Dataverse!AskToken
  <2>2. /\ new \in Calls /\ new.at = "asking" /\ new.on = shared'
        /\ new.token = call[r].token /\ new.error = call[r].error
    BY <1>1, <1>2 DEF Calls
  <2> HIDE DEF new
  <2>3. new.on # NoEntry
    BY <1>2, <2>2 DEF TokenConstantsFit
  <2>4. CallFits(new)
    BY <1>1, <2>2, <2>3 DEF CallFits
  <2> QED BY <2>1, <2>2, <2>4, CallSets
<1>4. CASE shared # NoEntry
  BY <1>3, <1>4 DEF Dataverse!AskToken
<1>5. CASE shared = NoEntry
  <2>1. CASE Dataverse!CachedIsLive
    <3> DEFINE new == [Dataverse!NoAcq EXCEPT !.at = "settled", !.token = cached]
    <3>1. acq' = [acq EXCEPT ![r] = new] /\ shared' = r
      BY <1>5, <2>1 DEF Dataverse!AskToken
    <3>2. cached \in Dataverse!Token /\ Own(cached)
      BY <1>1, <2>1 DEF Dataverse!CachedIsLive, CachedFits
    <3>3. new \in Acqs /\ new.at = "settled" /\ new.token = cached
      BY <3>2, NothingAsked DEF Acqs
    <3> HIDE DEF new
    <3>4. AcqFits(new)
      BY <3>2, <3>3 DEF AcqFits
    <3> QED BY <1>3, <1>5, <3>1, <3>3, <3>4, AcqSets
  <2>2. CASE ~Dataverse!CachedIsLive
    <3> DEFINE new == [Dataverse!NoAcq EXCEPT !.at = "client"]
    <3>1. acq' = [acq EXCEPT ![r] = new] /\ shared' = r
      BY <1>5, <2>2 DEF Dataverse!AskToken
    <3>2. new \in Acqs /\ new.at = "client"
      BY NothingAsked DEF Acqs
    <3> HIDE DEF new
    <3>3. AcqFits(new)
      BY <3>2 DEF AcqFits
    <3> QED BY <1>3, <1>5, <3>1, <3>2, <3>3, AcqSets
  <2> QED BY <2>1, <2>2
<1> QED BY <1>4, <1>5

LEMMA LostIs ==
    ASSUME TokenConstantsFit, TokenInv, NEW r \in Requests,
           NEW words \in Troubles \cup {"must be set"}, Dataverse!Lost(r, words)
    PROVE  AcqsApart(r) /\ acq'[r].at = "failed"
<1> DEFINE new == [Dataverse!NoAcq EXCEPT !.at = "failed", !.key = words]
<1>1. acq' = [acq EXCEPT ![r] = new]
  BY DEF Dataverse!Lost
<1>2. new \in Acqs /\ new.at = "failed"
  BY NothingAsked DEF Acqs
<1> HIDE DEF new
<1>3. AcqFits(new)
  BY <1>2 DEF AcqFits
<1> QED BY <1>1, <1>2, <1>3, AcqSets

LEMMA GetMsalClientIs ==
    ASSUME TokenConstantsFit, TokenInv, NEW r \in Requests, Dataverse!GetMsalClient(r)
    PROVE  /\ AcqsApart(r) /\ acq[r].at # "none" /\ acq'[r].at # "none"
           /\ \/ UNCHANGED <<client, cached, shared, rebuilds, overtaken>>
              \/ /\ client' = config /\ cached' = NoEntry /\ shared' = NoEntry
                 /\ rebuilds' = rebuilds + 1 /\ overtaken' = FALSE
<1>1. acq[r] \in Acqs /\ acq[r].at = "client" /\ config \in Settings
  BY DEF TokenInv, TokenTypes, ClientTypes, Dataverse!GetMsalClient
<1>2. CASE config = NotSet
  <2>1. Dataverse!Lost(r, "must be set")
        /\ UNCHANGED <<client, cached, shared, rebuilds, overtaken>>
    BY <1>2 DEF Dataverse!GetMsalClient
  <2> QED BY <1>1, <2>1, LostIs
<1>3. CASE config # NotSet
  <2> DEFINE new == [acq[r] EXCEPT !.at = "scope", !.key = config, !.asked = config]
  <2>1. config \in Configs
    BY <1>1, <1>3 DEF Settings
  <2>2. acq' = [acq EXCEPT ![r] = new]
    BY <1>3 DEF Dataverse!GetMsalClient
  <2>3. new \in Acqs /\ new.at = "scope" /\ new.key = config /\ new.asked = config
    BY <1>1, <2>1 DEF Acqs
  <2> HIDE DEF new
  <2>4. AcqFits(new)
    BY <2>1, <2>3 DEF AcqFits
  <2>5. AcqsApart(r) /\ acq'[r].at = "scope"
    BY <2>2, <2>3, <2>4, AcqSets
  <2>6. \/ UNCHANGED <<client, cached, shared, rebuilds, overtaken>>
        \/ /\ client' = config /\ cached' = NoEntry /\ shared' = NoEntry
           /\ rebuilds' = rebuilds + 1 /\ overtaken' = FALSE
    BY <1>3 DEF Dataverse!GetMsalClient, Dataverse!NewClient
  <2> QED BY <1>1, <2>5, <2>6
<1> QED BY <1>2, <1>3

LEMMA ReadScopeIs ==
    ASSUME TokenConstantsFit, TokenInv, NEW r \in Requests, Dataverse!ReadScope(r)
    PROVE  AcqsApart(r) /\ acq[r].at # "none" /\ acq'[r].at # "none"
<1>1. acq[r] \in Acqs /\ AcqFits(acq[r]) /\ acq[r].at = "scope" /\ config \in Settings
  BY DEF TokenInv, TokenTypes, ClientTypes, Dataverse!ReadScope
<1>2. CASE config = NotSet
  <2>1. Dataverse!Lost(r, "must be set")
    BY <1>2 DEF Dataverse!ReadScope
  <2> QED BY <1>1, <2>1, LostIs
<1>3. CASE config # NotSet
  <2> DEFINE new == [acq[r] EXCEPT !.at = "entra", !.scope = config]
  <2>1. config \in Configs
    BY <1>1, <1>3 DEF Settings
  <2>2. acq' = [acq EXCEPT ![r] = new]
    BY <1>3 DEF Dataverse!ReadScope
  <2>3. /\ new \in Acqs /\ new.at = "entra" /\ new.scope = config
        /\ new.key = acq[r].key /\ new.asked = acq[r].asked
    BY <1>1 DEF Acqs
  <2> HIDE DEF new
  <2>4. AcqFits(new)
    BY <1>1, <2>1, <2>3 DEF AcqFits
  <2> QED BY <1>1, <2>2, <2>3, <2>4, AcqSets
<1> QED BY <1>2, <1>3

LEMMA EntraAnswersIs ==
    ASSUME TokenConstantsFit, TokenInv, NEW r \in Requests, Dataverse!EntraAnswers(r)
    PROVE  /\ AcqsApart(r) /\ acq[r].at # "none" /\ acq'[r].at # "none"
           /\ cached' \in Dataverse!Token /\ Own(cached')
           /\ cached'.key = client \/ overtaken'
<1> DEFINE token == [key |-> acq[r].key, asked |-> acq[r].asked, scope |-> acq[r].scope,
                     until |-> moment + Life]
           new == [acq[r] EXCEPT !.at = "settled", !.token = token]
<1>1. acq[r] \in Acqs /\ AcqFits(acq[r]) /\ acq[r].at = "entra" /\ moment \in 0 .. LastMoment
  BY DEF TokenInv, TokenTypes, ClientTypes, Dataverse!EntraAnswers
<1>2. moment + Life \in 0 .. (LastMoment + Life)
  BY <1>1 DEF TokenConstantsFit
<1>3. acq[r].key \in Configs /\ acq[r].asked = acq[r].key /\ acq[r].scope \in Configs
  BY <1>1 DEF AcqFits
<1>4. token \in Dataverse!Token /\ Own(token) /\ token.key = acq[r].key
  BY <1>2, <1>3 DEF Dataverse!Token, Own
<1>5. /\ cached' = token /\ acq' = [acq EXCEPT ![r] = new]
      /\ overtaken' = (acq[r].key # client)
  BY DEF Dataverse!EntraAnswers
<1> HIDE DEF token
<1>6. new \in Acqs /\ new.at = "settled" /\ new.token = token
  BY <1>1, <1>4 DEF Acqs
<1> HIDE DEF new
<1>7. AcqFits(new)
  BY <1>4, <1>6 DEF AcqFits
<1>8. AcqsApart(r) /\ acq'[r] = new
  BY <1>5, <1>6, <1>7, AcqSets
<1> QED BY <1>1, <1>4, <1>5, <1>6, <1>8

\* Who waited for an acquisition that is over waits no longer.
LEMMA SettleIs ==
    ASSUME TokenConstantsFit, TokenInv, NEW r \in Requests, Dataverse!Settle(r)
    PROVE  /\ AcqsApart(r) /\ acq[r].at # "none" /\ acq'[r].at = "none"
           /\ call' \in [Requests -> Calls]
           /\ \A q \in Requests :
                 /\ CallFits(call'[q])
                 /\ call'[q].at = "asking" => call'[q] = call[q] /\ call[q].on # r
<1>1. acq[r] \in Acqs /\ AcqFits(acq[r]) /\ acq[r].at \in {"settled", "failed"}
  BY DEF TokenInv, TokenTypes, Dataverse!Settle
<1>2. AcqsApart(r) /\ acq'[r] = Dataverse!NoAcq
  BY NothingAsked, AcqSets DEF Dataverse!Settle
<1> DEFINE fate(q) == IF call[q].on # r THEN call[q]
                      ELSE IF acq[r].at = "failed"
                           THEN [Dataverse!Fail(q, acq[r].key) EXCEPT !.on = NoEntry]
                           ELSE [call[q] EXCEPT !.at = "sent", !.on = NoEntry,
                                                !.token = acq[r].token]
<1>3. call' = [q \in Requests |-> fate(q)]
  BY DEF Dataverse!Settle
<1>4. ASSUME NEW q \in Requests
      PROVE  /\ fate(q) \in Calls /\ CallFits(fate(q))
             /\ fate(q).at = "asking" => fate(q) = call[q] /\ call[q].on # r
  <2>1. call[q] \in Calls /\ CallFits(call[q])
    BY DEF TokenInv, TokenTypes
  <2>2. CASE call[q].on # r
    BY <2>1, <2>2
  <2>3. CASE call[q].on = r /\ acq[r].at = "failed"
    <3> DEFINE failed == Dataverse!Fail(q, acq[r].key)
               new == [failed EXCEPT !.on = NoEntry]
    <3>1. /\ failed \in Calls /\ failed.at = "failed" /\ failed.token = NoEntry
          /\ failed.error # "none"
      BY FailIs
    <3>2. fate(q) = new
      BY <2>3
    <3> HIDE DEF failed
    <3>3. /\ new \in Calls /\ new.at = "failed" /\ new.token = NoEntry /\ new.on = NoEntry
          /\ new.error # "none"
      BY <3>1 DEF Calls
    <3> HIDE DEF new, fate
    <3>4. CallFits(new)
      BY <3>3 DEF CallFits
    <3> QED BY <3>2, <3>3, <3>4
  <2>4. CASE call[q].on = r /\ acq[r].at # "failed"
    <3> DEFINE new == [call[q] EXCEPT !.at = "sent", !.on = NoEntry, !.token = acq[r].token]
    <3>1. acq[r].token \in Dataverse!Token /\ Own(acq[r].token) /\ acq[r].token # NoEntry
      BY <1>1, <2>4 DEF AcqFits, TokenConstantsFit
    <3>2. fate(q) = new
      BY <2>4
    <3>3. /\ new \in Calls /\ new.at = "sent" /\ new.token = acq[r].token /\ new.on = NoEntry
          /\ new.error = call[q].error
      BY <2>1, <3>1 DEF Calls
    <3>4. call[q].error = "none"
      <4>1. call[q].at = "asking"
        BY <2>1, <2>4 DEF CallFits, TokenConstantsFit
      <4> QED BY <2>1, <4>1 DEF CallFits
    <3> HIDE DEF new, fate
    <3>5. CallFits(new)
      BY <3>1, <3>3, <3>4 DEF CallFits
    <3> QED BY <3>2, <3>3, <3>5
  <2> QED BY <2>2, <2>3, <2>4
<1> HIDE DEF fate
<1> QED BY <1>1, <1>2, <1>3, <1>4, NothingAsked

(***************************************************************************)
(* Every step keeps the invariant                                          *)
(***************************************************************************)

RequestStep(r) ==
    Dataverse!BuildUrl(r) \/ Dataverse!AskToken(r) \/ Dataverse!Respond(r)
    \/ Dataverse!GetMsalClient(r) \/ Dataverse!ReadScope(r)
        \/ Dataverse!EntraAnswers(r) \/ Dataverse!EntraFails(r) \/ Dataverse!Settle(r)

RecordsFit ==
    /\ acq \in [Requests -> Acqs] /\ call \in [Requests -> Calls]
    /\ \A r \in Requests : AcqFits(acq[r]) /\ CallFits(call[r])

LEMMA RecordSteps ==
    ASSUME TokenConstantsFit, TokenInv, NEW r \in Requests, RequestStep(r)
    PROVE  RecordsFit'
<1>1. RecordsFit
  BY DEF TokenInv, TokenTypes, RecordsFit
<1>2. ASSUME CallsApart(r), acq' = acq PROVE RecordsFit'
  BY <1>1, <1>2 DEF CallsApart, RecordsFit
<1>3. ASSUME AcqsApart(r), call' = call PROVE RecordsFit'
  BY <1>1, <1>3 DEF AcqsApart, RecordsFit
<1>4. CASE Dataverse!BuildUrl(r) \/ Dataverse!Respond(r)
  BY <1>2, <1>4, BuildUrlIs, RespondIs DEF Dataverse!BuildUrl, Dataverse!Respond
<1>5. CASE Dataverse!AskToken(r)
  BY <1>1, <1>2, <1>5, AskTokenIs DEF CallsApart, AcqsApart, RecordsFit
<1>6. CASE Dataverse!GetMsalClient(r) \/ Dataverse!ReadScope(r) \/ Dataverse!EntraAnswers(r)
  BY <1>3, <1>6, GetMsalClientIs, ReadScopeIs, EntraAnswersIs
  DEF Dataverse!GetMsalClient, Dataverse!ReadScope, Dataverse!EntraAnswers
<1>7. CASE Dataverse!EntraFails(r)
  <2>1. PICK words \in Troubles : Dataverse!Lost(r, words)
    BY <1>7 DEF Dataverse!EntraFails
  <2>2. AcqsApart(r)
    BY <2>1, LostIs
  <2> QED BY <1>3, <1>7, <2>2 DEF Dataverse!EntraFails
<1>8. CASE Dataverse!Settle(r)
  BY <1>1, <1>8, SettleIs DEF AcqsApart, RecordsFit
<1> QED BY <1>4, <1>5, <1>6, <1>7, <1>8 DEF RequestStep

LEMMA ClientSteps ==
    ASSUME TokenConstantsFit, TokenInv, NEW r \in Requests, RequestStep(r)
    PROVE  ClientTypes' /\ CachedFits'
<1>1. ClientTypes /\ CachedFits
  BY DEF TokenInv, TokenTypes
<1>2. CASE Dataverse!BuildUrl(r) \/ Dataverse!Respond(r) \/ Dataverse!ReadScope(r)
           \/ Dataverse!EntraFails(r)
  BY <1>1, <1>2
  DEF Dataverse!BuildUrl, Dataverse!Respond, Dataverse!ReadScope, Dataverse!EntraFails,
      ClientTypes, CachedFits
<1>3. CASE Dataverse!AskToken(r)
  <2>1. shared' \in Requests \cup {NoEntry}
    BY <1>1, <1>3, AskTokenIs DEF ClientTypes
  <2> QED BY <1>1, <1>3, <2>1 DEF Dataverse!AskToken, ClientTypes, CachedFits
<1>4. CASE Dataverse!GetMsalClient(r)
  <2>1. UNCHANGED <<moment, config>>
    BY <1>4 DEF Dataverse!GetMsalClient
  <2>2. \/ UNCHANGED <<client, cached, shared, rebuilds, overtaken>>
        \/ /\ client' = config /\ cached' = NoEntry /\ shared' = NoEntry
           /\ rebuilds' = rebuilds + 1 /\ overtaken' = FALSE
    BY <1>4, GetMsalClientIs
  <2>3. CASE UNCHANGED <<client, cached, shared, rebuilds, overtaken>>
    BY <1>1, <2>1, <2>3 DEF ClientTypes, CachedFits
  <2>4. CASE /\ client' = config /\ cached' = NoEntry /\ shared' = NoEntry
             /\ rebuilds' = rebuilds + 1 /\ overtaken' = FALSE
    <3>1. rebuilds \in Nat /\ rebuilds' = rebuilds + 1
      BY <1>1, <2>4 DEF ClientTypes
    <3>2. rebuilds' \in Nat
      BY <3>1
    <3>3. overtaken' \in BOOLEAN
      BY <2>4
    <3> QED BY <1>1, <2>1, <2>4, <3>2, <3>3 DEF ClientTypes, CachedFits
  <2> QED BY <2>2, <2>3, <2>4
<1>5. CASE Dataverse!EntraAnswers(r)
  <2>1. cached' \in Dataverse!Token /\ Own(cached') /\ (cached'.key = client \/ overtaken')
    BY <1>5, EntraAnswersIs
  <2>2. UNCHANGED <<moment, config, client, shared, rebuilds>> /\ overtaken' \in BOOLEAN
    BY <1>5 DEF Dataverse!EntraAnswers
  <2> QED BY <1>1, <2>1, <2>2 DEF ClientTypes, CachedFits
<1>6. CASE Dataverse!Settle(r)
  BY <1>1, <1>6 DEF Dataverse!Settle, ClientTypes, CachedFits
<1> QED BY <1>2, <1>3, <1>4, <1>5, <1>6 DEF RequestStep

(* Sharing. *)

LEMMA ActiveIsFinite ==
    TokenConstantsFit => /\ \A S \in SUBSET Requests : IsFiniteSet(S) /\ Cardinality(S) \in Nat
                         /\ Active \in SUBSET Requests
<1> SUFFICES ASSUME TokenConstantsFit, NEW S \in SUBSET Requests
             PROVE  IsFiniteSet(S) /\ Cardinality(S) \in Nat
  BY DEF Active
<1>1. IsFiniteSet(S)
  BY FS_Subset DEF TokenConstantsFit
<1> QED BY <1>1, FS_CardinalityType

\* No acquisition begins or ends.
LEMMA SharedKept ==
    ASSUME TokenConstantsFit, TokenInv, UNCHANGED <<shared, rebuilds>>,
           \A q \in Requests : acq'[q].at = "none" <=> acq[q].at = "none",
           \A q \in Requests : call'[q].at = "asking" =>
               call[q].at = "asking" /\ call'[q].on = call[q].on
    PROVE  SharedFits'
<1>1. Active' = Active
  BY DEF Active
<1> QED BY <1>1 DEF TokenInv, SharedFits

LEMMA AskTokenShares ==
    ASSUME TokenConstantsFit, TokenInv, NEW r \in Requests, Dataverse!AskToken(r)
    PROVE  SharedFits'
<1>1. /\ rebuilds' = rebuilds /\ SharedFits
      /\ CallsApart(r) /\ call'[r].at = "asking" /\ call'[r].on = shared'
  BY AskTokenIs DEF Dataverse!AskToken, TokenInv
<1>2. CASE shared # NoEntry
  <2>1. UNCHANGED <<acq, shared>>
    BY <1>2, AskTokenIs
  <2>2. Active' = Active
    BY <2>1 DEF Active
  <2> QED BY <1>1, <1>2, <2>1, <2>2 DEF SharedFits, CallsApart
<1>3. CASE shared = NoEntry
  <2>1. shared' = r /\ AcqsApart(r) /\ acq'[r].at # "none"
    BY <1>3, AskTokenIs
  <2>2. r \in Active' /\ Active \subseteq Active' /\ Active' \ {r} \subseteq Active \ {NoEntry}
    BY <2>1 DEF Active, AcqsApart, TokenConstantsFit
  <2>3. Active \ {NoEntry} \in SUBSET Requests /\ Active' \ {r} \in SUBSET (Active \ {NoEntry})
    BY <2>2 DEF Active
  <2>4. Cardinality(Active' \ {r}) <= Cardinality(Active \ {NoEntry})
    BY <2>3, ActiveIsFinite, FS_Subset
  <2>5. Cardinality(Active \ {NoEntry}) \in Nat /\ Cardinality(Active' \ {r}) \in Nat
    BY <2>2, <2>3, ActiveIsFinite
  <2>6. Cardinality(Active \ {NoEntry}) <= rebuilds /\ rebuilds \in Nat
    BY <1>1, <1>3 DEF SharedFits, TokenInv, TokenTypes, ClientTypes
  <2>7. Cardinality(Active' \ {shared'}) <= rebuilds'
    BY <1>1, <2>1, <2>4, <2>5, <2>6
  <2>8. \A q \in Requests : call'[q].at = "asking" => call'[q].on \in Active'
    BY <1>1, <2>1, <2>2 DEF SharedFits, CallsApart
  <2> QED BY <2>1, <2>2, <2>7, <2>8 DEF SharedFits
<1> QED BY <1>2, <1>3

LEMMA GetMsalClientShares ==
    ASSUME TokenConstantsFit, TokenInv, NEW r \in Requests, Dataverse!GetMsalClient(r)
    PROVE  SharedFits'
<1>1. /\ SharedFits /\ call' = call
      /\ AcqsApart(r) /\ acq[r].at # "none" /\ acq'[r].at # "none"
  BY GetMsalClientIs DEF Dataverse!GetMsalClient, TokenInv
<1>2. \A q \in Requests : acq'[q].at = "none" <=> acq[q].at = "none"
  BY <1>1 DEF AcqsApart
<1>3. CASE UNCHANGED <<shared, rebuilds>>
  BY <1>1, <1>2, <1>3, SharedKept
<1>4. CASE shared' = NoEntry /\ rebuilds' = rebuilds + 1
  <2>1. Active' = Active /\ Active' \ {NoEntry} = Active
    BY <1>2 DEF Active, TokenConstantsFit
  <2>2. IsFiniteSet(Active) /\ Cardinality(Active) \in Nat
    BY ActiveIsFinite
  <2>3. Cardinality(Active) <= Cardinality(Active \ {shared}) + 1
    BY <2>2, FS_RemoveElement
  <2>4. Cardinality(Active \ {shared}) <= rebuilds /\ rebuilds \in Nat
    BY <1>1 DEF SharedFits, TokenInv, TokenTypes, ClientTypes
  <2>5. Cardinality(Active \ {shared}) \in Nat
    BY ActiveIsFinite
  <2>6. Active' \ {shared'} = Active
    BY <1>4, <2>1
  <2>7. Cardinality(Active) <= rebuilds + 1
    BY <2>2, <2>3, <2>4, <2>5
  <2>8. Cardinality(Active' \ {shared'}) <= rebuilds'
    BY <1>4, <2>6, <2>7
  <2> QED BY <1>1, <1>4, <2>1, <2>8 DEF SharedFits
<1> QED BY <1>3, <1>4, GetMsalClientIs

LEMMA SettleShares ==
    ASSUME TokenConstantsFit, TokenInv, NEW r \in Requests, Dataverse!Settle(r)
    PROVE  SharedFits'
<1>1. /\ SharedFits /\ rebuilds' = rebuilds /\ shared' = NoEntry
      /\ AcqsApart(r) /\ acq[r].at # "none" /\ acq'[r].at = "none"
  BY SettleIs DEF Dataverse!Settle, TokenInv
<1>2. Active' = Active \ {r} /\ Active' \ {NoEntry} = Active' /\ r \in Active
  BY <1>1 DEF Active, AcqsApart, TokenConstantsFit
<1>3. \A q \in Requests : call'[q].at = "asking" => call'[q].on \in Active'
  BY <1>1, <1>2, SettleIs DEF SharedFits
<1>4. IsFiniteSet(Active) /\ Cardinality(Active) \in Nat
      /\ Cardinality(Active \ {shared}) \in Nat
  BY ActiveIsFinite
<1>5. Cardinality(Active \ {r}) = Cardinality(Active) - 1
  BY <1>2, <1>4, FS_RemoveElement
<1>6. Cardinality(Active) - 1 <= Cardinality(Active \ {shared})
  <2>1. Cardinality(Active \ {shared}) =
            IF shared \in Active THEN Cardinality(Active) - 1 ELSE Cardinality(Active)
    BY <1>4, FS_RemoveElement
  <2> QED BY <1>4, <2>1
<1>7. Cardinality(Active \ {shared}) <= rebuilds /\ rebuilds \in Nat
  BY <1>1 DEF SharedFits, TokenInv, TokenTypes, ClientTypes
<1>8. Cardinality(Active' \ {shared'}) <= rebuilds'
  <2> DEFINE all == Cardinality(Active)
             others == Cardinality(Active \ {shared})
  <2>1. Active' \ {shared'} = Active \ {r}
    BY <1>1, <1>2
  <2>2. Cardinality(Active' \ {shared'}) = all - 1
    BY <1>5, <2>1
  <2>3. all \in Nat /\ others \in Nat /\ all - 1 <= others /\ others <= rebuilds
    BY <1>4, <1>6, <1>7
  <2> HIDE DEF all, others
  <2>4. all - 1 <= rebuilds
    BY <1>7, <2>3
  <2> QED BY <1>1, <2>2, <2>4
<1> QED BY <1>1, <1>3, <1>8 DEF SharedFits

LEMMA SharedSteps ==
    ASSUME TokenConstantsFit, TokenInv, NEW r \in Requests, RequestStep(r)
    PROVE  SharedFits'
<1>1. CASE Dataverse!BuildUrl(r) \/ Dataverse!Respond(r)
  <2>1. UNCHANGED <<shared, rebuilds, acq>> /\ CallsApart(r) /\ call'[r].at # "asking"
    BY <1>1, BuildUrlIs, RespondIs DEF Dataverse!BuildUrl, Dataverse!Respond
  <2> QED BY <2>1, SharedKept DEF CallsApart
<1>2. CASE Dataverse!ReadScope(r) \/ Dataverse!EntraAnswers(r)
  <2>1. UNCHANGED <<shared, rebuilds, call>> /\ AcqsApart(r)
        /\ acq[r].at # "none" /\ acq'[r].at # "none"
    BY <1>2, ReadScopeIs, EntraAnswersIs DEF Dataverse!ReadScope, Dataverse!EntraAnswers
  <2> QED BY <2>1, SharedKept DEF AcqsApart
<1>3. CASE Dataverse!EntraFails(r)
  <2>1. PICK words \in Troubles : Dataverse!Lost(r, words)
    BY <1>3 DEF Dataverse!EntraFails
  <2>2. UNCHANGED <<shared, rebuilds, call>> /\ acq[r].at = "entra"
    BY <1>3 DEF Dataverse!EntraFails
  <2>3. AcqsApart(r) /\ acq'[r].at = "failed"
    BY <2>1, LostIs
  <2> QED BY <2>2, <2>3, SharedKept DEF AcqsApart
<1> QED BY <1>1, <1>2, <1>3, AskTokenShares, GetMsalClientShares, SettleShares DEF RequestStep

\* DataverseToken counts as this module does.
LEMMA SameCardinality == \A S : Dataverse!Cardinality(S) = Cardinality(S)
BY DEF Dataverse!Cardinality, Cardinality

(***************************************************************************)
(* The Dataverse token: the theorem                                        *)
(***************************************************************************)

LEMMA TokenInvInit == TokenConstantsFit /\ Dataverse!Init => TokenInv
<1> SUFFICES ASSUME TokenConstantsFit, Dataverse!Init PROVE TokenInv
  OBVIOUS
<1>1. ClientTypes /\ CachedFits
  <2>1. moment \in 0 .. LastMoment /\ rebuilds \in Nat
    BY DEF Dataverse!Init, TokenConstantsFit
  <2>2. /\ config \in Settings /\ client \in Settings /\ overtaken \in BOOLEAN
        /\ shared = NoEntry /\ cached = NoEntry
    BY DEF Dataverse!Init, Settings
  <2> QED BY <2>1, <2>2 DEF ClientTypes, CachedFits
<1>2. /\ acq \in [Requests -> Acqs] /\ call \in [Requests -> Calls]
      /\ \A r \in Requests : AcqFits(acq[r]) /\ CallFits(call[r])
      /\ \A r \in Requests : acq[r].at = "none" /\ call[r].at = "idle"
  BY NothingAsked DEF Dataverse!Init
<1>3. Active = {} /\ Active \ {shared} = {}
  BY <1>2 DEF Active
<1>4. Cardinality(Active \ {shared}) = 0
  BY <1>3, FS_EmptySet
<1>5. shared = NoEntry /\ rebuilds = 0
  BY DEF Dataverse!Init
<1>6. SharedFits
  BY <1>2, <1>4, <1>5 DEF SharedFits
<1> QED BY <1>1, <1>2, <1>6 DEF TokenInv, TokenTypes

LEMMA TokenInvNext == TokenConstantsFit /\ TokenInv /\ [Dataverse!Next]_(Dataverse!tokenVars) =>
                          TokenInv'
<1> SUFFICES ASSUME TokenConstantsFit, TokenInv, [Dataverse!Next]_(Dataverse!tokenVars)
             PROVE  TokenInv'
  OBVIOUS
<1>1. CASE UNCHANGED Dataverse!tokenVars
  BY <1>1
  DEF Dataverse!tokenVars, TokenInv, TokenTypes, ClientTypes, CachedFits, SharedFits, Active
<1>2. CASE Dataverse!Tick
  <2>1. moment' \in 0 .. LastMoment
    BY <1>2 DEF Dataverse!Tick, TokenInv, TokenTypes, ClientTypes, TokenConstantsFit
  <2> QED BY <1>2, <2>1
          DEF Dataverse!Tick, TokenInv, TokenTypes, ClientTypes, CachedFits, SharedFits, Active
<1>3. ASSUME NEW c \in Configs \cup {NotSet}, Dataverse!Configure(c) PROVE TokenInv'
  BY <1>3
  DEF Dataverse!Configure, TokenInv, TokenTypes, ClientTypes, Settings, CachedFits, SharedFits,
      Active
<1>4. ASSUME NEW r \in Requests, RequestStep(r) PROVE TokenInv'
  <2>1. RecordsFit' /\ ClientTypes' /\ CachedFits' /\ SharedFits'
    BY <1>4, RecordSteps, ClientSteps, SharedSteps
  <2> QED BY <2>1 DEF RecordsFit, TokenInv, TokenTypes
<1> QED BY <1>1, <1>2, <1>3, <1>4 DEF Dataverse!Next, RequestStep

LEMMA TokenInvTypes == TokenInv => Dataverse!TypeOK
BY DEF TokenInv, TokenTypes, ClientTypes, CallFits, Acqs, Calls, Settings, Dataverse!TypeOK

LEMMA TokenInvHolds == TokenInv =>
                           Dataverse!TokensFollowTheConfiguration
                           /\ Dataverse!AcquisitionsAreShared
<1> SUFFICES ASSUME TokenInv
             PROVE  Dataverse!TokensFollowTheConfiguration /\ Dataverse!AcquisitionsAreShared
  OBVIOUS
<1>1. Dataverse!TokensFollowTheConfiguration
  BY DEF TokenInv, CallFits, CachedFits, Own, Dataverse!CachedIsLive,
         Dataverse!TokensFollowTheConfiguration
<1>2. Dataverse!AcquisitionsAreShared
  BY SameCardinality DEF TokenInv, SharedFits, Active, Dataverse!AcquisitionsAreShared
<1> QED BY <1>1, <1>2

\* However the settings change and acquisitions overtake one another, requests
\* carry a token of the client of the settings their acquisition read, the cached
\* token is the current client's unless a former client's came after it, and
\* requests share acquisitions (dataverse.ts).
THEOREM DataverseHoldsAlways ==
    ASSUME TokenConstantsFit
    PROVE  Dataverse!Spec =>
               [](Dataverse!TypeOK /\ Dataverse!TokensFollowTheConfiguration
                  /\ Dataverse!AcquisitionsAreShared)
<1>1. Dataverse!Init => TokenInv
  BY TokenInvInit
<1>2. TokenInv /\ [Dataverse!Next]_(Dataverse!tokenVars) => TokenInv'
  BY TokenInvNext
<1>3. TokenInv =>
          Dataverse!TypeOK /\ Dataverse!TokensFollowTheConfiguration
          /\ Dataverse!AcquisitionsAreShared
  BY TokenInvTypes, TokenInvHolds
<1> QED BY <1>1, <1>2, <1>3, PTL DEF Dataverse!Spec

(***************************************************************************)
(* The revocation of permissions: the inductive invariant                  *)
(***************************************************************************)

RevokeConstantsFit == MaxClicks \in Nat /\ MaxFaults \in Nat

RevokeTypes ==
    /\ kind \in [Permissions -> Kinds] /\ holds \in [Principals -> SUBSET Permissions]
    /\ remote \subseteq Permissions /\ listed \subseteq Permissions
    /\ rows \subseteq Permissions /\ recent \in BOOLEAN
    /\ scan = {} \/ \E S \in SUBSET Permissions : scan = {S}
    /\ revokeLog \subseteq Permissions \X {"success", "failed"}
    /\ request \in [Revoke!Deletions -> Revoke!Stages \cup Revoke!Results]
    /\ faults \in 0 .. MaxFaults

PageTypes ==
    /\ view \subseteq Permissions /\ refreshing \in BOOLEAN /\ reload \in BOOLEAN
    /\ step \in [Revoke!Buttons -> {"idle", "deleting", "checking"}]
    /\ targets \in [Revoke!Buttons -> SUBSET Permissions]
    /\ status \in [Revoke!Buttons -> {"none", "success", "partial", "failed", "sync-delay"}]
    /\ clicks \in 0 .. MaxClicks

\* Only a direct permission gets as far as its deletion; what got beyond is
\* gone from Graph, and a success is in the log unless something failed.
Deleted == {"sync", "audit", "audit warned", "ok", "warned"}
RequestFits(q) ==
    /\ request[q] = "delete" => kind[q[2]] = "direct"
    /\ request[q] \in Deleted => q[2] \notin remote
    /\ request[q] = "ok" /\ faults = 0 => <<q[2], "success">> \in revokeLog

StatusFits(b) ==
    status[b] = "success" =>
        /\ targets[b] \cap remote = {}
        /\ faults = 0 => targets[b] \X {"success"} \subseteq revokeLog

RevokeInv ==
    /\ RevokeTypes /\ PageTypes
    /\ \A q \in Revoke!Deletions : RequestFits(q)
    /\ \A b \in Revoke!Buttons : StatusFits(b)
    /\ \A p \in Permissions : kind[p] # "direct" => p \in remote

(***************************************************************************)
(* What a step does to permissions and requests                            *)
(***************************************************************************)

\* Nothing comes back to Graph or leaves the log, and failures are not forgotten.
Onward ==
    /\ kind' = kind /\ remote' \subseteq remote /\ revokeLog \subseteq revokeLog'
    /\ faults' = 0 => faults = 0

LEMMA RequestIs ==
    ASSUME NEW q \in Revoke!Deletions
    PROVE  q[1] \in Revoke!Buttons /\ q[2] \in Permissions /\ q = <<q[1], q[2]>>
BY DEF Revoke!Deletions

LEMMA GotoIs ==
    ASSUME RevokeInv, NEW q \in Revoke!Deletions, NEW stage \in Revoke!Stages \cup Revoke!Results,
           Revoke!Goto(q, stage)
    PROVE  /\ request' \in [Revoke!Deletions -> Revoke!Stages \cup Revoke!Results]
           /\ request'[q] = stage
           /\ \A u \in Revoke!Deletions \ {q} : request'[u] = request[u]
BY DEF RevokeInv, RevokeTypes, Revoke!Goto

LEMMA FaultIs ==
    ASSUME RevokeConstantsFit, RevokeInv, Revoke!Fault
    PROVE  faults' \in 0 .. MaxFaults /\ faults' # 0
BY DEF RevokeConstantsFit, RevokeInv, RevokeTypes, Revoke!Fault

LEMMA LogIs ==
    ASSUME RevokeInv, NEW p \in Permissions, NEW outcome \in {"success", "failed"},
           Revoke!Log(p, outcome)
    PROVE  /\ revokeLog' \subseteq Permissions \X {"success", "failed"}
           /\ revokeLog \subseteq revokeLog' /\ <<p, outcome>> \in revokeLog'
BY DEF RevokeInv, RevokeTypes, Revoke!Log

LEMMA LogMaybeIs ==
    ASSUME RevokeConstantsFit, RevokeInv, NEW p \in Permissions,
           NEW outcome \in {"success", "failed"}, Revoke!LogMaybe(p, outcome)
    PROVE  /\ revokeLog' \subseteq Permissions \X {"success", "failed"}
           /\ revokeLog \subseteq revokeLog' /\ faults' \in 0 .. MaxFaults
           /\ faults' = 0 => faults = 0 /\ <<p, outcome>> \in revokeLog'
<1>1. CASE Revoke!Log(p, outcome) /\ UNCHANGED faults
  BY <1>1, LogIs DEF RevokeInv, RevokeTypes
<1>2. CASE Revoke!Fault /\ UNCHANGED revokeLog
  BY <1>2, FaultIs DEF RevokeInv, RevokeTypes
<1> QED BY <1>1, <1>2 DEF Revoke!LogMaybe

\* One DELETE moves on, to a stage that fits; the page is left alone.
LEMMA RequestMoves ==
    ASSUME RevokeConstantsFit, RevokeInv, NEW q \in Revoke!Deletions,
           NEW stage \in Revoke!Stages \cup Revoke!Results, Revoke!Goto(q, stage), Onward,
           RevokeTypes', UNCHANGED Revoke!pageVars,
           stage = "delete" => kind[q[2]] = "direct",
           stage \in Deleted => q[2] \notin remote',
           stage = "ok" /\ faults' = 0 => <<q[2], "success">> \in revokeLog',
           \A p \in Permissions : p \in remote /\ p \notin remote' => kind[p] = "direct"
    PROVE  RevokeInv'
<1>1. PageTypes' /\ UNCHANGED <<status, targets>>
  BY DEF RevokeInv, PageTypes, Revoke!pageVars
<1>2. ASSUME NEW u \in Revoke!Deletions PROVE RequestFits(u)'
  <2>1. CASE u = q
    BY <2>1, GotoIs DEF RequestFits, Onward
  <2>2. CASE u # q
    BY <2>2, GotoIs DEF RevokeInv, RequestFits, Onward
  <2> QED BY <2>1, <2>2
<1>3. ASSUME NEW b \in Revoke!Buttons PROVE StatusFits(b)'
  BY <1>1 DEF RevokeInv, StatusFits, Onward
<1>4. \A p \in Permissions : kind'[p] # "direct" => p \in remote'
  BY DEF RevokeInv, Onward
<1> QED BY <1>1, <1>2, <1>3, <1>4 DEF RevokeInv

LEMMA StagesAre ==
    /\ Revoke!Stages \cup Revoke!Results = {"none", "get", "delete",
                                            "sync", "audit", "audit warned",
                                  "ok", "warned", "failed"}
    /\ "failed" \notin Deleted /\ "delete" \notin Deleted
BY DEF Revoke!Stages, Revoke!Results, Deleted

\* The DELETE handler's steps, and the loss of its answer.
HandlerStep(q) ==
    Revoke!Refuse(q) \/ Revoke!Validate(q) \/ Revoke!Delete(q) \/ Revoke!SyncRows(q)
    \/ Revoke!Finish(q) \/ Revoke!AnswerLost(q)

LEMMA DeleteSteps ==
    ASSUME RevokeConstantsFit, RevokeInv, NEW q \in Revoke!Deletions, Revoke!Delete(q)
    PROVE  RevokeInv'
<1>1. /\ UNCHANGED <<kind, holds, listed>> /\ UNCHANGED Revoke!localVars
         /\ UNCHANGED Revoke!pageVars
      /\ kind[q[2]] = "direct" /\ q[2] \in Permissions
  BY RequestIs DEF Revoke!Delete, RevokeInv, RequestFits
<1>2. faults \in 0 .. MaxFaults /\ revokeLog \subseteq Permissions \X {"success", "failed"}
      /\ remote \subseteq Permissions
  BY DEF RevokeInv, RevokeTypes
<1>3. ASSUME NEW stage \in {"sync", "failed"}, Revoke!Goto(q, stage), remote' = remote \ {q[2]},
             faults' \in 0 .. MaxFaults, faults' = 0 => faults = 0,
             revokeLog' \subseteq Permissions \X {"success", "failed"},
             revokeLog \subseteq revokeLog'
      PROVE  RevokeInv'
  <2>1. Onward /\ stage \in Revoke!Stages \cup Revoke!Results
    BY <1>1, <1>3, StagesAre DEF Onward
  <2>2. request' \in [Revoke!Deletions -> Revoke!Stages \cup Revoke!Results]
    BY <1>3, <2>1, GotoIs
  <2>3. RevokeTypes'
    BY <1>1, <1>2, <1>3, <2>2 DEF RevokeInv, RevokeTypes, Revoke!localVars
  <2> QED BY <1>1, <1>3, <2>1, <2>3, RequestMoves
<1>4. ASSUME Revoke!Goto(q, "failed"), remote' = remote, Revoke!Log(q[2], "failed"),
             faults' \in 0 .. MaxFaults, faults' = 0 => faults = 0
      PROVE  RevokeInv'
  <2>1. /\ revokeLog' \subseteq Permissions \X {"success", "failed"}
           /\ revokeLog \subseteq revokeLog'
        /\ "failed" \in Revoke!Stages \cup Revoke!Results
    BY <1>1, <1>4, LogIs, StagesAre
  <2>2. request' \in [Revoke!Deletions -> Revoke!Stages \cup Revoke!Results] /\ Onward
    BY <1>1, <1>4, <2>1, GotoIs DEF Onward
  <2>3. RevokeTypes'
    BY <1>1, <1>2, <1>4, <2>1, <2>2 DEF RevokeInv, RevokeTypes, Revoke!localVars
  <2> QED BY <1>4, <1>1, <2>1, <2>2, <2>3, RequestMoves, StagesAre
<1>5. CASE /\ q[2] \in remote /\ remote' = remote \ {q[2]}
           /\ Revoke!Goto(q, "sync") /\ UNCHANGED <<revokeLog, faults>>
  BY <1>2, <1>3, <1>5
<1>6. CASE /\ q[2] \in remote /\ remote' = remote \ {q[2]}
           /\ Revoke!Fault /\ Revoke!Goto(q, "failed") /\ Revoke!Log(q[2], "failed")
  BY <1>1, <1>2, <1>3, <1>6, FaultIs, LogIs
<1>7. CASE /\ q[2] \notin remote \/ faults < MaxFaults
           /\ faults' = IF q[2] \in remote THEN faults + 1 ELSE faults
           /\ Revoke!Goto(q, "failed") /\ Revoke!Log(q[2], "failed") /\ UNCHANGED remote
  <2>1. faults' \in 0 .. MaxFaults /\ (faults' = 0 => faults = 0)
    BY <1>2, <1>7 DEF RevokeConstantsFit
  <2> QED BY <1>4, <1>7, <2>1
<1> QED BY <1>5, <1>6, <1>7 DEF Revoke!Delete

LEMMA FailSteps ==
    ASSUME RevokeConstantsFit, RevokeInv, NEW q \in Revoke!Deletions,
           Revoke!Refuse(q) \/ Revoke!Validate(q) \/ Revoke!AnswerLost(q)
    PROVE  RevokeInv'
<1>1. UNCHANGED Revoke!graphVars /\ UNCHANGED Revoke!localVars /\ UNCHANGED Revoke!pageVars
      /\ q[2] \in Permissions
  BY RequestIs DEF Revoke!Refuse, Revoke!Validate, Revoke!AnswerLost
<1>2. faults \in 0 .. MaxFaults /\ revokeLog \subseteq Permissions \X {"success", "failed"}
  BY DEF RevokeInv, RevokeTypes
<1>3. ASSUME NEW stage \in {"delete", "failed"}, Revoke!Goto(q, stage),
             stage = "delete" => kind[q[2]] = "direct",
             faults' \in 0 .. MaxFaults, faults' = 0 => faults = 0,
             revokeLog' \subseteq Permissions \X {"success", "failed"},
             revokeLog \subseteq revokeLog'
      PROVE  RevokeInv'
  <2>1. /\ Onward /\ stage \in Revoke!Stages \cup Revoke!Results /\ stage \notin Deleted
           /\ stage # "ok"
        /\ UNCHANGED <<kind, holds, remote, listed>>
    BY <1>1, <1>3, StagesAre DEF Onward, Revoke!graphVars
  <2>2. request' \in [Revoke!Deletions -> Revoke!Stages \cup Revoke!Results]
    BY <1>3, <2>1, GotoIs
  <2>3. RevokeTypes'
    BY <1>1, <1>3, <2>1, <2>2 DEF RevokeInv, RevokeTypes, Revoke!localVars
  <2> QED BY <1>1, <1>3, <2>1, <2>3, RequestMoves
<1>4. CASE Revoke!Refuse(q)
  <2>1. Revoke!Goto(q, "failed") /\ Revoke!Fault
        /\ (Revoke!Log(q[2], "failed") \/ UNCHANGED revokeLog)
    BY <1>4 DEF Revoke!Refuse
  <2> QED BY <1>1, <1>2, <1>3, <2>1, FaultIs, LogIs
<1>5. CASE Revoke!Validate(q)
  <2>1. \/ Revoke!Goto(q, "delete") /\ kind[q[2]] = "direct" /\ UNCHANGED <<revokeLog, faults>>
        \/ Revoke!Goto(q, "failed") /\ Revoke!LogMaybe(q[2], "failed")
    BY <1>5 DEF Revoke!Validate, Revoke!MayDelete
  <2> QED BY <1>1, <1>2, <1>3, <2>1, LogMaybeIs
<1>6. CASE Revoke!AnswerLost(q)
  <2>1. Revoke!Goto(q, "failed") /\ Revoke!Fault /\ UNCHANGED revokeLog
    BY <1>6 DEF Revoke!AnswerLost
  <2> QED BY <1>2, <1>3, <2>1, FaultIs
<1> QED BY <1>4, <1>5, <1>6

LEMMA FinishSteps ==
    ASSUME RevokeConstantsFit, RevokeInv, NEW q \in Revoke!Deletions,
           Revoke!SyncRows(q) \/ Revoke!Finish(q)
    PROVE  RevokeInv'
<1>1. /\ UNCHANGED Revoke!graphVars /\ UNCHANGED Revoke!pageVars /\ UNCHANGED scan
      /\ q[2] \in Permissions /\ request[q] \in Deleted
  BY RequestIs DEF Revoke!SyncRows, Revoke!Finish, Revoke!localVars, Deleted
<1>2. /\ faults \in 0 .. MaxFaults /\ revokeLog \subseteq Permissions \X {"success", "failed"}
      /\ q[2] \notin remote
  BY <1>1 DEF RevokeInv, RevokeTypes, RequestFits
<1>3. ASSUME NEW stage \in Deleted, Revoke!Goto(q, stage),
             stage = "ok" /\ faults' = 0 => <<q[2], "success">> \in revokeLog',
             faults' \in 0 .. MaxFaults, faults' = 0 => faults = 0,
             revokeLog' \subseteq Permissions \X {"success", "failed"},
             revokeLog \subseteq revokeLog',
             rows' \subseteq Permissions, recent' \in BOOLEAN
      PROVE  RevokeInv'
  <2>1. /\ Onward /\ stage \in Revoke!Stages \cup Revoke!Results /\ stage # "delete"
        /\ UNCHANGED <<kind, holds, remote, listed>>
    BY <1>1, <1>3, StagesAre DEF Onward, Revoke!graphVars, Deleted
  <2>2. request' \in [Revoke!Deletions -> Revoke!Stages \cup Revoke!Results]
    BY <1>3, <2>1, GotoIs
  <2>3. RevokeTypes'
    BY <1>1, <1>3, <2>1, <2>2 DEF RevokeInv, RevokeTypes
  <2> QED BY <1>1, <1>2, <1>3, <2>1, <2>3, RequestMoves
<1>4. rows \subseteq Permissions /\ recent \in BOOLEAN
  BY DEF RevokeInv, RevokeTypes
<1>5. CASE Revoke!SyncRows(q)
  <2>1. revokeLog' = revokeLog
    BY <1>5 DEF Revoke!SyncRows
  <2>2. \/ Revoke!Goto(q, "audit") /\ rows' = rows \ {q[2]} /\ recent' = TRUE /\ UNCHANGED faults
        \/ Revoke!Goto(q, "audit warned") /\ Revoke!Fault /\ UNCHANGED <<rows, recent>>
    BY <1>5 DEF Revoke!SyncRows
  <2>3. "audit" \in Deleted /\ "audit warned" \in Deleted
    BY DEF Deleted
  <2> QED BY <1>2, <1>3, <1>4, <2>1, <2>2, <2>3, FaultIs
<1>6. CASE Revoke!Finish(q)
  <2>1. UNCHANGED <<rows, recent>> /\ "ok" \in Deleted /\ "warned" \in Deleted
    BY <1>6 DEF Revoke!Finish, Revoke!localVars, Deleted
  <2>2. \/ Revoke!Goto(q, "ok") /\ Revoke!LogMaybe(q[2], "success")
        \/ Revoke!Goto(q, "warned") /\ Revoke!LogMaybe(q[2], "success")
        \/ Revoke!Goto(q, "warned") /\ Revoke!Fault /\ Revoke!Log(q[2], "success")
    BY <1>6 DEF Revoke!Finish
  <2> QED BY <1>1, <1>2, <1>3, <1>4, <2>1, <2>2, FaultIs, LogIs, LogMaybeIs
<1> QED BY <1>5, <1>6

(* The page. *)

LEMMA TargetsOfTypes ==
    ASSUME RevokeInv, NEW b \in Revoke!Buttons
    PROVE  Revoke!TargetsOf(b) \subseteq Permissions
<1>1. view \subseteq Permissions
  BY DEF RevokeInv, PageTypes
<1> QED BY <1>1 DEF Revoke!TargetsOf, Revoke!DirectOf

\* Success is the verdict only when every deletion went well.
LEMMA VerdictIs ==
    ASSUME NEW b \in Revoke!Buttons
    PROVE  /\ Revoke!Verdict(Revoke!ResultsOf(b)) \in {"success", "failed", "partial"}
           /\ Revoke!Verdict(Revoke!ResultsOf(b)) = "success" =>
                  \A p \in targets[b] : request[<<b, p>>] = "ok"
<1> DEFINE results == Revoke!ResultsOf(b)
<1>1. \A p \in targets[b] : request[<<b, p>>] \in results
  BY DEF Revoke!ResultsOf
<1> HIDE DEF results
<1>2. /\ Revoke!Verdict(results) \in {"success", "failed", "partial"}
      /\ Revoke!Verdict(results) = "success" => results = {"ok"}
  <2>1. CASE results = {"ok"}
    <3>1. results # {"failed"}
      BY <2>1
    <3> QED BY <2>1, <3>1 DEF Revoke!Verdict
  <2>2. CASE results # {"ok"} /\ results = {"failed"}
    BY <2>2 DEF Revoke!Verdict
  <2>3. CASE results # {"ok"} /\ results # {"failed"}
    BY <2>3 DEF Revoke!Verdict
  <2> QED BY <2>1, <2>2, <2>3
<1> QED BY <1>1, <1>2 DEF results

\* The page moves on, and no DELETE does.
LEMMA PageMoves ==
    ASSUME RevokeInv, UNCHANGED Revoke!graphVars, UNCHANGED Revoke!localVars,
           UNCHANGED <<revokeLog, request>>,
           faults' \in 0 .. MaxFaults, faults' = 0 => faults = 0, PageTypes',
           \A b \in Revoke!Buttons : StatusFits(b)'
    PROVE  RevokeInv'
<1>1. RevokeTypes' /\ Onward
  BY DEF RevokeInv, RevokeTypes, Revoke!graphVars, Revoke!localVars, Onward, Revoke!Deletions,
         Revoke!Buttons, Revoke!Stages, Revoke!Results
<1>2. ASSUME NEW u \in Revoke!Deletions PROVE RequestFits(u)'
  BY <1>1 DEF RevokeInv, RequestFits, Revoke!graphVars, Onward
<1>3. \A p \in Permissions : kind'[p] # "direct" => p \in remote'
  BY DEF RevokeInv, Revoke!graphVars
<1> QED BY <1>1, <1>2, <1>3 DEF RevokeInv

LEMMA ClickSteps ==
    ASSUME RevokeConstantsFit, RevokeInv, NEW b \in Revoke!Buttons, Revoke!Click(b)
    PROVE  RevokeInv'
<1>1. /\ UNCHANGED Revoke!graphVars /\ UNCHANGED Revoke!localVars
         /\ UNCHANGED <<revokeLog, faults>>
      /\ UNCHANGED <<view, refreshing, reload>>
      /\ step' = [step EXCEPT ![b] = "deleting"] /\ status' = [status EXCEPT ![b] = "none"]
      /\ targets' = [targets EXCEPT ![b] = Revoke!TargetsOf(b)]
      /\ clicks < MaxClicks /\ clicks' = clicks + 1
  BY DEF Revoke!Click
<1>2. /\ request' \in [Revoke!Deletions -> Revoke!Stages \cup Revoke!Results]
      /\ \A q \in Revoke!Deletions : request'[q] \in {"get", request[q]}
  <2>1. /\ request \in [Revoke!Deletions -> Revoke!Stages \cup Revoke!Results]
        /\ "get" \in Revoke!Stages \cup Revoke!Results
    BY StagesAre DEF RevokeInv, RevokeTypes
  <2>2. request' = [q \in Revoke!Deletions |->
                      IF q[1] = b /\ q[2] \in Revoke!TargetsOf(b) THEN "get" ELSE request[q]]
    BY <2>1 DEF Revoke!Click
  <2> QED BY <2>1, <2>2
<1>3. RevokeTypes' /\ Onward
  BY <1>1, <1>2 DEF RevokeInv, RevokeTypes, Revoke!graphVars, Revoke!localVars, Onward
<1>4. PageTypes'
  <2>1. clicks' \in 0 .. MaxClicks
    BY <1>1 DEF RevokeConstantsFit, RevokeInv, PageTypes
  <2> QED BY <1>1, <2>1, TargetsOfTypes DEF RevokeInv, PageTypes
<1>5. ASSUME NEW u \in Revoke!Deletions PROVE RequestFits(u)'
  <2>1. "get" \notin Deleted
    BY DEF Deleted
  <2> QED BY <1>1, <1>2, <2>1 DEF RevokeInv, RequestFits, Revoke!graphVars
<1>6. ASSUME NEW a \in Revoke!Buttons PROVE StatusFits(a)'
  BY <1>1 DEF RevokeInv, PageTypes, StatusFits, Revoke!graphVars
<1>7. \A p \in Permissions : kind'[p] # "direct" => p \in remote'
  BY <1>1 DEF RevokeInv, Revoke!graphVars
<1> QED BY <1>3, <1>4, <1>5, <1>6, <1>7 DEF RevokeInv

LEMMA CollectSteps ==
    ASSUME RevokeConstantsFit, RevokeInv, NEW b \in Revoke!Buttons, Revoke!Collect(b)
    PROVE  RevokeInv'
<1>1. /\ UNCHANGED Revoke!graphVars /\ UNCHANGED Revoke!localVars
         /\ UNCHANGED <<revokeLog, request, faults>>
      /\ UNCHANGED <<view, targets, reload, clicks>>
  BY DEF Revoke!Collect
<1>2. \/ /\ step' = [step EXCEPT ![b] = "idle"] /\ UNCHANGED refreshing
         /\ status' = [status EXCEPT ![b] = "failed"]
      \/ step' = [step EXCEPT ![b] = "checking"] /\ refreshing' = TRUE /\ UNCHANGED status
  BY DEF Revoke!Collect
<1>3. PageTypes' /\ faults' \in 0 .. MaxFaults
  BY <1>1, <1>2 DEF RevokeInv, RevokeTypes, PageTypes
<1>4. ASSUME NEW a \in Revoke!Buttons PROVE StatusFits(a)'
  BY <1>1, <1>2 DEF RevokeInv, PageTypes, StatusFits, Revoke!graphVars
<1> QED BY <1>1, <1>3, <1>4, PageMoves

LEMMA CheckLiveSteps ==
    ASSUME RevokeConstantsFit, RevokeInv, NEW b \in Revoke!Buttons, Revoke!CheckLive(b)
    PROVE  RevokeInv'
<1>1. /\ UNCHANGED Revoke!graphVars /\ UNCHANGED Revoke!localVars
         /\ UNCHANGED <<revokeLog, request>>
      /\ UNCHANGED <<view, refreshing, targets, clicks>>
      /\ step' = [step EXCEPT ![b] = "idle"]
  BY DEF Revoke!CheckLive
<1> DEFINE verdict == Revoke!Verdict(Revoke!ResultsOf(b))
<1>2. PICK said \in {"sync-delay", verdict} :
          status' = [status EXCEPT ![b] = said] /\ reload' \in {TRUE, reload}
  BY DEF Revoke!CheckLive
<1>3. faults' \in 0 .. MaxFaults /\ (faults' = 0 => faults = 0)
  BY FaultIs DEF Revoke!CheckLive, RevokeInv, RevokeTypes
<1>4. /\ said \in {"success", "partial", "failed", "sync-delay"}
      /\ said = "success" => \A p \in targets[b] : request[<<b, p>>] = "ok"
  BY <1>2, VerdictIs
<1> HIDE DEF verdict
<1>5. PageTypes'
  <2>1. reload' \in BOOLEAN
    BY <1>2 DEF RevokeInv, PageTypes
  <2> QED BY <1>1, <1>2, <1>4, <2>1 DEF RevokeInv, PageTypes
<1>6. ASSUME NEW a \in Revoke!Buttons PROVE StatusFits(a)'
  <2>1. CASE a # b
    BY <1>1, <1>2, <1>3, <2>1 DEF RevokeInv, PageTypes, StatusFits, Revoke!graphVars
  <2>2. CASE a = b /\ said # "success"
    BY <1>2, <2>2 DEF RevokeInv, PageTypes, StatusFits
  <2>3. CASE a = b /\ said = "success"
    <3>1. targets[b] \subseteq Permissions
      BY DEF RevokeInv, PageTypes
    <3>2. ASSUME NEW p \in targets[b]
          PROVE  p \notin remote /\ (faults = 0 => <<p, "success">> \in revokeLog)
      <4> DEFINE q == <<b, p>>
      <4>1. q \in Revoke!Deletions /\ q[2] = p /\ request[q] = "ok"
        BY <1>4, <2>3, <3>1 DEF Revoke!Deletions
      <4>2. RequestFits(q)
        BY <4>1 DEF RevokeInv
      <4> HIDE DEF q
      <4> QED BY <4>1, <4>2 DEF RequestFits, Deleted
    <3>3. targets' = targets /\ remote' = remote /\ revokeLog' = revokeLog
      BY <1>1 DEF Revoke!graphVars
    <3>4. targets[b] \cap remote = {}
      BY <3>2
    <3>5. faults' = 0 => targets[b] \X {"success"} \subseteq revokeLog
      BY <1>3, <3>2
    <3> QED BY <2>3, <3>3, <3>4, <3>5 DEF StatusFits
  <2> QED BY <2>1, <2>2, <2>3
<1> QED BY <1>1, <1>3, <1>5, <1>6, PageMoves

LEMMA RenderSteps ==
    ASSUME RevokeConstantsFit, RevokeInv, Revoke!Refresh \/ Revoke!Reload
    PROVE  RevokeInv'
<1>1. /\ UNCHANGED Revoke!graphVars /\ UNCHANGED Revoke!localVars
         /\ UNCHANGED <<revokeLog, request, faults>>
      /\ view' = listed /\ refreshing' = FALSE /\ UNCHANGED clicks
      /\ \/ UNCHANGED <<step, targets, status, reload>>
         \/ /\ step' = [b \in Revoke!Buttons |-> "idle"]
               /\ targets' = [b \in Revoke!Buttons |-> {}]
            /\ status' = [b \in Revoke!Buttons |-> "none"] /\ reload' = FALSE
  BY DEF Revoke!Refresh, Revoke!Reload
<1>2. PageTypes' /\ faults' \in 0 .. MaxFaults
  BY <1>1 DEF RevokeInv, RevokeTypes, PageTypes
<1>3. ASSUME NEW a \in Revoke!Buttons PROVE StatusFits(a)'
  BY <1>1 DEF RevokeInv, StatusFits, Revoke!graphVars
<1> QED BY <1>1, <1>2, <1>3, PageMoves

(* Graph and the worker. *)

LEMMA ScanSteps ==
    ASSUME RevokeInv, Revoke!CatchUp \/ Revoke!Age \/ Revoke!ScanRead \/ Revoke!ScanWrite
    PROVE  RevokeInv'
<1>1. /\ UNCHANGED <<kind, holds, remote, revokeLog, request, faults>>
         /\ UNCHANGED Revoke!pageVars
  BY DEF Revoke!CatchUp, Revoke!Age, Revoke!ScanRead, Revoke!ScanWrite, Revoke!graphVars
<1>2. \/ listed' = remote /\ UNCHANGED <<rows, recent, scan>>
      \/ recent' = FALSE /\ UNCHANGED <<listed, rows, scan>>
      \/ scan' = {listed} /\ UNCHANGED <<listed, rows, recent>>
      \/ scan # {} /\ scan' = {} /\ rows' = UNION scan /\ recent' = TRUE /\ UNCHANGED listed
  BY DEF Revoke!CatchUp, Revoke!Age, Revoke!ScanRead, Revoke!ScanWrite, Revoke!graphVars,
         Revoke!localVars
<1>3. UNION scan \subseteq Permissions
  BY DEF RevokeInv, RevokeTypes
<1>4. RevokeTypes'
  BY <1>1, <1>2, <1>3 DEF RevokeInv, RevokeTypes
<1>5. PageTypes'
  BY <1>1 DEF RevokeInv, PageTypes, Revoke!pageVars
<1>6. ASSUME NEW q \in Revoke!Deletions PROVE RequestFits(q)'
  BY <1>1 DEF RevokeInv, RequestFits
<1>7. ASSUME NEW b \in Revoke!Buttons PROVE StatusFits(b)'
  BY <1>1 DEF RevokeInv, StatusFits, Revoke!pageVars
<1>8. \A p \in Permissions : kind'[p] # "direct" => p \in remote'
  BY <1>1 DEF RevokeInv
<1> QED BY <1>4, <1>5, <1>6, <1>7, <1>8 DEF RevokeInv

(***************************************************************************)
(* The revocation of permissions: the theorem                              *)
(***************************************************************************)

LEMMA RevokeInvInit == RevokeConstantsFit /\ Revoke!Init => RevokeInv
<1> SUFFICES ASSUME RevokeConstantsFit, Revoke!Init PROVE RevokeInv
  OBVIOUS
<1>1. RevokeTypes
  <2>1. faults \in 0 .. MaxFaults
    BY DEF Revoke!Init, RevokeConstantsFit
  <2>2. request \in [Revoke!Deletions -> Revoke!Stages \cup Revoke!Results]
    BY StagesAre DEF Revoke!Init
  <2> QED BY <2>1, <2>2 DEF Revoke!Init, RevokeTypes
<1>2. PageTypes
  <2>1. clicks \in 0 .. MaxClicks
    BY DEF Revoke!Init, RevokeConstantsFit
  <2> QED BY <2>1 DEF Revoke!Init, PageTypes
<1>3. /\ \A q \in Revoke!Deletions : request[q] = "none"
      /\ \A b \in Revoke!Buttons : status[b] = "none"
      /\ remote = Permissions
  BY DEF Revoke!Init
<1>4. "none" \notin Deleted
  BY DEF Deleted
<1>5. ASSUME NEW q \in Revoke!Deletions PROVE RequestFits(q)
  BY <1>3, <1>4 DEF RequestFits
<1>6. ASSUME NEW b \in Revoke!Buttons PROVE StatusFits(b)
  BY <1>3 DEF StatusFits
<1>7. \A p \in Permissions : kind[p] # "direct" => p \in remote
  BY <1>3
<1> QED BY <1>1, <1>2, <1>5, <1>6, <1>7 DEF RevokeInv

LEMMA RevokeInvNext == RevokeConstantsFit /\ RevokeInv /\ [Revoke!Next]_(Revoke!revokeVars) =>
                           RevokeInv'
<1> SUFFICES ASSUME RevokeConstantsFit, RevokeInv, [Revoke!Next]_(Revoke!revokeVars)
             PROVE  RevokeInv'
  OBVIOUS
<1>1. CASE UNCHANGED Revoke!revokeVars
  BY <1>1
  DEF Revoke!revokeVars, Revoke!graphVars, Revoke!localVars, Revoke!pageVars, RevokeInv,
      RevokeTypes, PageTypes, RequestFits, StatusFits
<1>2. CASE Revoke!Next
  BY <1>2, DeleteSteps, FailSteps, FinishSteps, ClickSteps, CollectSteps, CheckLiveSteps,
     RenderSteps, ScanSteps DEF Revoke!Next
<1> QED BY <1>1, <1>2

LEMMA RevokeSameCardinality == \A S : Revoke!Cardinality(S) = Cardinality(S)
BY DEF Revoke!Cardinality, Cardinality

LEMMA RevokeInvTypes == RevokeInv => Revoke!TypeOK
<1> SUFFICES ASSUME RevokeInv PROVE Revoke!TypeOK
  OBVIOUS
<1>1. scan \subseteq SUBSET Permissions
  BY DEF RevokeInv, RevokeTypes
<1>2. Revoke!Cardinality(scan) <= 1
  <2>1. CASE scan = {}
    <3>1. Cardinality(scan) = 0
      BY <2>1, FS_EmptySet
    <3> QED BY <3>1, RevokeSameCardinality
  <2>2. CASE scan # {}
    <3>1. PICK S : scan = {S}
      BY <2>2 DEF RevokeInv, RevokeTypes
    <3>2. Cardinality(scan) = 1
      BY <3>1, FS_Singleton
    <3> QED BY <3>2, RevokeSameCardinality
  <2> QED BY <2>1, <2>2
<1> QED BY <1>1, <1>2 DEF RevokeInv, RevokeTypes, PageTypes, Revoke!TypeOK

LEMMA RevokeInvHolds == RevokeInv => Revoke!SuccessIsRevoked /\ Revoke!ProtectedPermissionsStay
BY DEF RevokeInv, StatusFits, Revoke!SuccessIsRevoked, Revoke!ProtectedPermissionsStay

\* However the page's requests interleave, fail and lose their answers, success is
\* shown only when Graph enforces none of the permissions the click was about and
\* the log says so, and only direct permissions without an owner role are ever
\* removed (drive-item-permissions/route.ts, item-tables.tsx).
THEOREM RevokeHoldsAlways ==
    ASSUME RevokeConstantsFit
    PROVE  Revoke!Spec =>
               [](Revoke!TypeOK /\ Revoke!SuccessIsRevoked /\ Revoke!ProtectedPermissionsStay)
<1>1. Revoke!Init => RevokeInv
  BY RevokeInvInit
<1>2. RevokeInv /\ [Revoke!Next]_(Revoke!revokeVars) => RevokeInv'
  BY RevokeInvNext
<1>3. RevokeInv => Revoke!TypeOK /\ Revoke!SuccessIsRevoked /\ Revoke!ProtectedPermissionsStay
  BY RevokeInvTypes, RevokeInvHolds
<1> QED BY <1>1, <1>2, <1>3, PTL DEF Revoke!Spec

(***************************************************************************)
(* The quarantine: the inductive invariant                                 *)
(***************************************************************************)

QuarantineConstantsFit ==
    RoleTTL \in Nat /\ RoleTime \in Nat /\ MaxSignIns \in Nat /\ RoleChanges \in Nat

Held == Quarantine!SignIns \ {0}
TokenEntries == {Quarantine!Nothing} \cup [of : Held, under : {"this"}]
RoleAnswers == {Quarantine!Nothing} \cup
    [of : Held, allowed : BOOLEAN, under : Quarantine!Unders, at : Quarantine!Time]
Pcs == {"idle", "role", "graphToken", "me", "power", "powerToken", "env", "post", "status"}
Reqs == [kind : Quarantine!RequestKinds, checks : 0 .. 2, of : Quarantine!SignIns,
         gap : Quarantine!Time, pc : Pcs]

TenantTypes ==
    /\ clock \in Quarantine!Time /\ changes \in 0 .. RoleChanges
    /\ roles \in [held : BOOLEAN, last : Quarantine!Time] /\ roles.last <= clock
    /\ consented \subseteq Quarantine!Scopes
    /\ signedIn \in BOOLEAN /\ signIn \in Quarantine!SignIns
    /\ bot \in BOOLEAN /\ raced \in BOOLEAN /\ primed \in BOOLEAN

CacheTypes ==
    /\ store \in {Quarantine!Nothing} \cup [of : Held]
    /\ tokens \in [Quarantine!Scopes -> TokenEntries]
    /\ answer \in RoleAnswers

InCalls == {"graphToken", "me", "powerToken"}
Checking == {"role", "graphToken", "me"}
Admitted == {"power", "powerToken", "env", "post", "status"}

\* A request in a call knows whose token it asked with, one that is being
\* checked has a check to come, and one that was let through was entitled.
ReqFits(r) ==
    /\ req[r].pc \in InCalls => req[r].of # 0
    /\ req[r].pc \in Checking => req[r].checks > 0
    /\ req[r].pc \in Admitted => req[r].gap <= RoleTTL

ReqInv == req \in [Requests -> Reqs] /\ \A r \in Requests : ReqFits(r)

\* When the role answer was written, it was true.
AnswerInv ==
    answer # Quarantine!Nothing =>
        /\ answer.at <= clock
        /\ answer.allowed /\ ~roles.held => roles.last >= answer.at

\* Unless a call was in flight at the latest switch, everything belongs to the
\* latest sign-in, and nothing to no one.
NoCalls == \A r \in Requests : req[r].pc \notin InCalls
LatestOnly ==
    /\ store # Quarantine!Nothing => store.of = signIn
    /\ \A r \in Requests : req[r].pc \in InCalls => req[r].of = signIn
    /\ \A s \in Quarantine!Scopes : tokens[s] # Quarantine!Nothing => tokens[s].of = signIn
    /\ Quarantine!Current(answer) => answer.of = signIn

RaceInv ==
    ~raced => /\ store = Quarantine!Nothing => NoCalls
              /\ ~signedIn => store = Quarantine!Nothing
              /\ signedIn => LatestOnly

QuarantineInv == TenantTypes /\ CacheTypes /\ ReqInv /\ AnswerInv /\ RaceInv

(***************************************************************************)
(* What a step does to requests and caches                                 *)
(***************************************************************************)

LEMMA TokensAreOutdated ==
    ASSUME NEW e \in TokenEntries
    PROVE  Quarantine!Outdated(e) = Quarantine!Nothing
BY DEF TokenEntries, Quarantine!Outdated

LEMMA AnswerOutdated ==
    ASSUME NEW e \in RoleAnswers
    PROVE  /\ Quarantine!Outdated(e) \in RoleAnswers
           /\ Quarantine!Outdated(e) # Quarantine!Nothing =>
                  Quarantine!Outdated(e) = e /\ e.under # "this"
BY DEF RoleAnswers, Quarantine!Outdated

\* The requests but r are left alone.
ReqsApart(r) == req' \in [Requests -> Reqs] /\ \A q \in Requests \ {r} : req'[q] = req[q]

LEMMA ReqSets ==
    ASSUME QuarantineInv, NEW r \in Requests, NEW new \in Reqs, req' = [req EXCEPT ![r] = new]
    PROVE  ReqsApart(r) /\ req'[r] = new
BY DEF QuarantineInv, ReqInv, ReqsApart

LEMMA NoReqIs ==
    ASSUME QuarantineConstantsFit
    PROVE  Quarantine!NoReq \in Reqs /\ Quarantine!NoReq.pc = "idle"
BY DEF Quarantine!NoReq, Reqs, Pcs, Quarantine!RequestKinds, Quarantine!SignIns, Quarantine!Time,
       QuarantineConstantsFit

LEMMA EndIs ==
    ASSUME QuarantineConstantsFit, QuarantineInv, NEW r \in Requests, Quarantine!End(r)
    PROVE  ReqsApart(r) /\ req'[r].pc = "idle"
BY NoReqIs, ReqSets DEF Quarantine!End

LEMMA GoIs ==
    ASSUME QuarantineInv, NEW r \in Requests, NEW pc \in Pcs, Quarantine!Go(r, pc)
    PROVE  /\ ReqsApart(r) /\ req'[r].pc = pc /\ req'[r].of = req[r].of
           /\ req'[r].checks = req[r].checks /\ req'[r].gap = req[r].gap
<1> DEFINE new == [req[r] EXCEPT !.pc = pc]
<1>1. req[r] \in Reqs /\ req \in [Requests -> Reqs]
  BY DEF QuarantineInv, ReqInv
<1>2. /\ new \in Reqs /\ new.pc = pc /\ new.of = req[r].of
      /\ new.checks = req[r].checks /\ new.gap = req[r].gap
  BY <1>1 DEF Reqs
<1>3. req' = [req EXCEPT ![r] = new]
  BY <1>1 DEF Quarantine!Go
<1> HIDE DEF new
<1> QED BY <1>2, <1>3, ReqSets

LEMMA CallIs ==
    ASSUME QuarantineInv, NEW r \in Requests, NEW pc \in Pcs, NEW of \in Quarantine!SignIns,
           req' = [req EXCEPT ![r].pc = pc, ![r].of = of]
    PROVE  /\ ReqsApart(r) /\ req'[r].pc = pc /\ req'[r].of = of
           /\ req'[r].checks = req[r].checks /\ req'[r].gap = req[r].gap
<1> DEFINE new == [req[r] EXCEPT !.pc = pc, !.of = of]
<1>1. req[r] \in Reqs /\ req \in [Requests -> Reqs]
  BY DEF QuarantineInv, ReqInv
<1>2. /\ new \in Reqs /\ new.pc = pc /\ new.of = of
      /\ new.checks = req[r].checks /\ new.gap = req[r].gap
  BY <1>1 DEF Reqs
<1>3. req' = [req EXCEPT ![r] = new]
  BY <1>1
<1> HIDE DEF new
<1> QED BY <1>2, <1>3, ReqSets

\* Who is let through holds a role now, or held it when the answer was written.
LEMMA AllowedIs ==
    ASSUME QuarantineConstantsFit, QuarantineInv, NEW r \in Requests, req[r].pc \in Checking,
           Quarantine!Allowed(r), roles.held \/ clock - roles.last <= RoleTTL
    PROVE  /\ ReqsApart(r) /\ req'[r].pc \in {"role", "power"}
           /\ req'[r].pc = "role" => req'[r].checks > 0
           /\ req'[r].gap <= RoleTTL
<1> DEFINE checks == req[r].checks - 1
           pc == IF req[r].checks > 1 THEN "role" ELSE "power"
           gap == IF roles.held THEN 0 ELSE clock - roles.last
           new == [req[r] EXCEPT !.checks = checks, !.pc = pc, !.of = 0, !.gap = gap]
<1>1. req[r] \in Reqs /\ req \in [Requests -> Reqs] /\ req[r].checks > 0
  BY DEF QuarantineInv, ReqInv, ReqFits
<1>2. checks \in 0 .. 2 /\ pc \in {"role", "power"} /\ (pc = "role" => checks > 0)
  BY <1>1 DEF Reqs
<1>3. clock \in 0 .. RoleTime /\ roles.last \in 0 .. RoleTime /\ roles.last <= clock
      /\ RoleTime \in Nat /\ RoleTTL \in Nat
  BY DEF QuarantineInv, TenantTypes, Quarantine!Time, QuarantineConstantsFit
<1>4. gap \in 0 .. RoleTime /\ gap <= RoleTTL
  BY <1>3
<1>5. 0 \in Quarantine!SignIns
  BY DEF Quarantine!SignIns, QuarantineConstantsFit
<1>6. req' = [req EXCEPT ![r] = new]
  BY <1>1 DEF Quarantine!Allowed
<1> HIDE DEF checks, pc, gap
<1>7. new \in Reqs /\ new.pc = pc /\ new.checks = checks /\ new.gap = gap
  BY <1>1, <1>2, <1>4, <1>5 DEF Reqs, Pcs, Quarantine!Time
<1> HIDE DEF new
<1> QED BY <1>2, <1>4, <1>6, <1>7, ReqSets

\* A call in flight that no switch has overtaken is the latest sign-in's.
LEMMA CallIsLatest ==
    ASSUME QuarantineInv, ~raced, NEW r \in Requests, req[r].pc \in InCalls
    PROVE  store # Quarantine!Nothing /\ signedIn /\ LatestOnly /\ req[r].of = signIn
<1>1. store # Quarantine!Nothing /\ signedIn
  BY DEF QuarantineInv, RaceInv, NoCalls
<1> QED BY <1>1 DEF QuarantineInv, RaceInv, LatestOnly

LEMMA ReqKept ==
    ASSUME QuarantineInv, NEW r \in Requests, ReqsApart(r), ReqFits(r)'
    PROVE  ReqInv'
BY DEF QuarantineInv, ReqInv, ReqsApart, ReqFits

LEMMA RaceKept ==
    ASSUME QuarantineInv, NEW r \in Requests, ReqsApart(r), UNCHANGED <<signedIn, signIn, raced>>,
           ~raced /\ req'[r].pc \in InCalls => store # Quarantine!Nothing /\ req'[r].of = signIn,
           \/ store' = store
           \/ ~raced =>
                  store # Quarantine!Nothing /\ store' # Quarantine!Nothing /\ store'.of = signIn,
           ~raced => \A s \in Quarantine!Scopes : tokens'[s] # Quarantine!Nothing =>
                         tokens'[s] = tokens[s] \/ tokens'[s].of = signIn,
           ~raced /\ signedIn /\ Quarantine!Current(answer)' => answer'.of = signIn
    PROVE  RaceInv'
<1> SUFFICES ASSUME ~raced
             PROVE  /\ store' = Quarantine!Nothing => NoCalls'
                    /\ ~signedIn => store' = Quarantine!Nothing
                    /\ signedIn => LatestOnly'
  BY DEF RaceInv
<1>1. /\ store = Quarantine!Nothing => NoCalls
      /\ ~signedIn => store = Quarantine!Nothing
      /\ signedIn => LatestOnly
  BY DEF QuarantineInv, RaceInv
<1>2. \A q \in Requests \ {r} : req'[q] = req[q]
  BY DEF ReqsApart
<1>3. store' = Quarantine!Nothing => store = Quarantine!Nothing
  OBVIOUS
<1>4. store' = Quarantine!Nothing => NoCalls'
  BY <1>1, <1>2, <1>3 DEF NoCalls
<1>5. ~signedIn => store' = Quarantine!Nothing
  BY <1>1
<1>6. ASSUME signedIn PROVE LatestOnly'
  <2>1. store' # Quarantine!Nothing => store'.of = signIn
    BY <1>1, <1>6 DEF LatestOnly
  <2>2. \A q \in Requests : req'[q].pc \in InCalls => req'[q].of = signIn
    BY <1>1, <1>2, <1>6 DEF LatestOnly
  <2>3. \A s \in Quarantine!Scopes : tokens'[s] # Quarantine!Nothing => tokens'[s].of = signIn
    BY <1>1, <1>6 DEF LatestOnly
  <2>4. Quarantine!Current(answer)' => answer'.of = signIn
    BY <1>6
  <2> QED BY <2>1, <2>2, <2>3, <2>4 DEF LatestOnly
<1> QED BY <1>4, <1>5, <1>6

\* The role answer is kept, dropped or outdated, while nobody comes or goes.
LEMMA AnswerKept ==
    ASSUME QuarantineInv, UNCHANGED <<signIn, signedIn, clock, roles>>,
           answer' \in {answer, Quarantine!Nothing},
           (store' = Quarantine!Nothing) <=> (store = Quarantine!Nothing)
    PROVE  /\ AnswerInv' /\ answer' \in RoleAnswers
           /\ ~raced /\ signedIn /\ Quarantine!Current(answer)' => answer'.of = signIn
<1>1. AnswerInv'
  BY DEF QuarantineInv, AnswerInv
<1>2. answer' \in RoleAnswers
  BY DEF QuarantineInv, CacheTypes, RoleAnswers
<1>3. ASSUME ~raced, signedIn, Quarantine!Current(answer)' PROVE answer'.of = signIn
  <2>1. answer' = answer /\ Quarantine!Current(answer)
    BY <1>3 DEF Quarantine!Current, Quarantine!Under
  <2> QED BY <1>3, <2>1 DEF QuarantineInv, RaceInv, LatestOnly
<1> QED BY <1>1, <1>2, <1>3

(***************************************************************************)
(* The quarantine: requests                                                *)
(***************************************************************************)

\* A request moves on and writes nothing; who starts a call is treated apart.
LEMMA QuietMoves ==
    ASSUME QuarantineConstantsFit, QuarantineInv, NEW r \in Requests, ReqsApart(r), ReqFits(r)',
           req'[r].pc \notin InCalls, UNCHANGED Quarantine!tenant, UNCHANGED Quarantine!session,
           UNCHANGED <<clock, store>>, answer' \in {answer, Quarantine!Nothing},
           tokens' \in [Quarantine!Scopes -> TokenEntries],
           \A s \in Quarantine!Scopes : tokens'[s] \in {tokens[s], Quarantine!Nothing},
           bot' \in BOOLEAN, primed' \in BOOLEAN
    PROVE  QuarantineInv'
<1>1. TenantTypes'
  BY DEF QuarantineInv, TenantTypes, Quarantine!tenant, Quarantine!session
<1>2. /\ AnswerInv' /\ answer' \in RoleAnswers
      /\ ~raced /\ signedIn /\ Quarantine!Current(answer)' => answer'.of = signIn
  BY AnswerKept DEF Quarantine!tenant, Quarantine!session
<1>3. CacheTypes'
  BY <1>2 DEF QuarantineInv, CacheTypes
<1>4. RaceInv'
  BY <1>2, RaceKept DEF Quarantine!session
<1> QED BY <1>1, <1>2, <1>3, <1>4, ReqKept DEF QuarantineInv

LEMMA DecideIs ==
    ASSUME QuarantineConstantsFit, QuarantineInv, NEW r \in Requests, req[r].pc \in Checking,
           NEW allowed \in BOOLEAN, Quarantine!Decide(r, allowed),
           allowed => roles.held \/ clock - roles.last <= RoleTTL
    PROVE  ReqsApart(r) /\ ReqFits(r)' /\ req'[r].pc \notin InCalls
<1>1. CASE allowed
  <2>1. /\ ReqsApart(r) /\ req'[r].pc \in {"role", "power"}
        /\ req'[r].pc = "role" => req'[r].checks > 0
        /\ req'[r].gap <= RoleTTL
    BY <1>1, AllowedIs DEF Quarantine!Decide
  <2> QED BY <2>1 DEF ReqFits, InCalls, Checking
<1>2. CASE ~allowed
  BY <1>2, EndIs DEF Quarantine!Decide, ReqFits, InCalls, Checking, Admitted
<1> QED BY <1>1, <1>2

LEMMA EndFits ==
    ASSUME QuarantineConstantsFit, QuarantineInv, NEW r \in Requests, Quarantine!End(r)
    PROVE  ReqsApart(r) /\ ReqFits(r)' /\ req'[r].pc \notin InCalls
BY EndIs DEF ReqFits, InCalls, Checking, Admitted

LEMMA StartSteps ==
    ASSUME QuarantineConstantsFit, QuarantineInv, NEW r \in Requests, NEW k \in Quarantine!RequestKinds,
           Quarantine!Start(r, k)
    PROVE  QuarantineInv'
<1> DEFINE checks == IF k = "toggle" THEN 2 ELSE 1
           new == [Quarantine!NoReq EXCEPT !.kind = k, !.pc = "role", !.checks = checks]
<1>1. req' = [req EXCEPT ![r] = new]
  BY DEF Quarantine!Start
<1>2. checks \in 0 .. 2 /\ checks > 0
  OBVIOUS
<1> HIDE DEF checks
<1>3. new \in Reqs /\ new.pc = "role" /\ new.checks = checks
  BY <1>2, NoReqIs DEF Reqs, Pcs
<1> HIDE DEF new
<1>4. ReqsApart(r) /\ req'[r] = new
  BY <1>1, <1>3, ReqSets
<1>5. ReqFits(r)' /\ req'[r].pc \notin InCalls
  BY <1>2, <1>3, <1>4 DEF ReqFits, InCalls, Checking, Admitted
<1>6. /\ UNCHANGED Quarantine!tenant /\ UNCHANGED Quarantine!session
      /\ UNCHANGED <<clock, store, answer, tokens, bot>> /\ primed' \in BOOLEAN
  BY DEF Quarantine!Start
<1>7. tokens \in [Quarantine!Scopes -> TokenEntries] /\ bot \in BOOLEAN
  BY DEF QuarantineInv, CacheTypes, TenantTypes
<1> QED BY <1>4, <1>5, <1>6, <1>7, QuietMoves

LEMMA ServeRoleSteps ==
    ASSUME QuarantineConstantsFit, QuarantineInv, NEW r \in Requests, Quarantine!ServeRole(r)
    PROVE  QuarantineInv'
<1>1. /\ req[r].pc \in Checking /\ Quarantine!Decide(r, answer.allowed)
      /\ answer # Quarantine!Nothing /\ clock - answer.at <= RoleTTL
      /\ UNCHANGED Quarantine!tenant /\ UNCHANGED Quarantine!session
      /\ UNCHANGED <<clock, store, answer, tokens, bot, primed>>
  BY DEF Quarantine!ServeRole, Quarantine!RoleServes, Quarantine!Current, Checking
<1>2. answer.allowed \in BOOLEAN /\ answer.at \in 0 .. RoleTime
  BY <1>1 DEF QuarantineInv, CacheTypes, RoleAnswers, Quarantine!Time
<1>3. clock \in 0 .. RoleTime /\ roles.last \in 0 .. RoleTime /\ RoleTTL \in Nat
      /\ RoleTime \in Nat
  BY DEF QuarantineInv, TenantTypes, Quarantine!Time, QuarantineConstantsFit
<1>4. answer.allowed /\ ~roles.held => roles.last >= answer.at
  BY <1>1 DEF QuarantineInv, AnswerInv
<1>5. answer.allowed /\ ~roles.held => clock - roles.last <= RoleTTL
  <2> SUFFICES ASSUME answer.allowed, ~roles.held PROVE clock - roles.last <= RoleTTL
    OBVIOUS
  <2>1. roles.last >= answer.at
    BY <1>4
  <2> QED BY <1>1, <1>2, <1>3, <2>1
<1>6. ReqsApart(r) /\ ReqFits(r)' /\ req'[r].pc \notin InCalls
  BY <1>1, <1>2, <1>5, DecideIs
<1>7. tokens \in [Quarantine!Scopes -> TokenEntries] /\ bot \in BOOLEAN /\ primed \in BOOLEAN
  BY DEF QuarantineInv, CacheTypes, TenantTypes
<1> QED BY <1>1, <1>6, <1>7, QuietMoves

\* The failures, and what a request does with a token in hand.
LEMMA FailingSteps ==
    ASSUME QuarantineConstantsFit, QuarantineInv, NEW r \in Requests,
           Quarantine!GraphTokenFails(r) \/ Quarantine!MeFails(r) \/ Quarantine!PowerFails(r)
    PROVE  QuarantineInv'
<1>1. /\ Quarantine!End(r) /\ UNCHANGED Quarantine!tenant /\ UNCHANGED Quarantine!session
         /\ UNCHANGED <<clock, store, bot, primed>>
      /\ answer' \in {answer, Quarantine!Nothing}
      /\ \/ tokens' = tokens
         \/ \E s \in Quarantine!Scopes : tokens' = [tokens EXCEPT ![s] = Quarantine!Nothing]
  BY DEF Quarantine!GraphTokenFails, Quarantine!MeFails, Quarantine!PowerFails, Quarantine!Scopes
<1>2. tokens \in [Quarantine!Scopes -> TokenEntries] /\ bot \in BOOLEAN /\ primed \in BOOLEAN
  BY DEF QuarantineInv, CacheTypes, TenantTypes
<1>3. Quarantine!Nothing \in TokenEntries
  BY DEF TokenEntries
<1>4. /\ tokens' \in [Quarantine!Scopes -> TokenEntries]
      /\ \A s \in Quarantine!Scopes : tokens'[s] \in {tokens[s], Quarantine!Nothing}
  BY <1>1, <1>2, <1>3
<1> QED BY <1>1, <1>2, <1>4, EndFits, QuietMoves

LEMMA AskRoleSteps ==
    ASSUME QuarantineConstantsFit, QuarantineInv, NEW r \in Requests, Quarantine!AskRole(r)
    PROVE  QuarantineInv'
<1>1. /\ req[r].pc = "role" /\ req[r].checks > 0 /\ req[r] \in Reqs
      /\ tokens \in [Quarantine!Scopes -> TokenEntries]
         /\ store \in {Quarantine!Nothing} \cup [of : Held]
      /\ "graph" \in Quarantine!Scopes
  BY DEF Quarantine!AskRole, QuarantineInv, ReqInv, ReqFits, Checking, CacheTypes,
         Quarantine!Scopes
<1>2. /\ UNCHANGED Quarantine!tenant /\ UNCHANGED Quarantine!session
         /\ UNCHANGED <<clock, store, bot, primed>>
      /\ answer' = Quarantine!Nothing
      /\ tokens' = [tokens EXCEPT !["graph"] = IF Quarantine!TokenServes("graph") THEN @
                                               ELSE Quarantine!Nothing]
  BY DEF Quarantine!AskRole
<1>3. /\ tokens' \in [Quarantine!Scopes -> TokenEntries]
      /\ \A s \in Quarantine!Scopes : tokens'[s] \in {tokens[s], Quarantine!Nothing}
  <2>1. Quarantine!Nothing \in TokenEntries
    BY DEF TokenEntries
  <2> QED BY <1>1, <1>2, <2>1
<1>4. bot \in BOOLEAN /\ primed \in BOOLEAN
  BY DEF QuarantineInv, TenantTypes
\* A call, with the refresh token in the store or the access token in the cache.
<1>5. ASSUME NEW pc \in {"me", "graphToken"}, NEW of \in Held,
             req' = [req EXCEPT ![r].pc = pc, ![r].of = of],
             ~raced => store # Quarantine!Nothing /\ of = signIn
      PROVE  QuarantineInv'
  <2>1. of \in Quarantine!SignIns /\ of # 0 /\ pc \in Pcs
    BY DEF Held, Pcs
  <2>2. /\ ReqsApart(r) /\ req'[r].pc = pc /\ req'[r].of = of
        /\ req'[r].checks = req[r].checks /\ req'[r].gap = req[r].gap
    BY <1>5, <2>1, CallIs
  <2>3. ReqFits(r)'
    BY <1>1, <2>1, <2>2 DEF ReqFits, Admitted
  <2>4. TenantTypes'
    BY <1>2, <1>4 DEF QuarantineInv, TenantTypes, Quarantine!tenant, Quarantine!session
  <2>5. /\ AnswerInv' /\ answer' \in RoleAnswers
        /\ ~raced /\ signedIn /\ Quarantine!Current(answer)' => answer'.of = signIn
    BY <1>2, AnswerKept DEF Quarantine!tenant, Quarantine!session
  <2>6. CacheTypes'
    BY <1>1, <1>2, <1>3, <2>5 DEF CacheTypes
  <2>7. RaceInv'
    BY <1>2, <1>3, <1>5, <2>2, <2>5, RaceKept DEF Quarantine!session
  <2> QED BY <2>2, <2>3, <2>4, <2>5, <2>6, <2>7, ReqKept DEF QuarantineInv
<1>6. CASE Quarantine!TokenServes("graph")
  <2>1. req' = [req EXCEPT ![r].pc = "me", ![r].of = tokens["graph"].of]
    BY <1>6 DEF Quarantine!AskRole
  <2>2. /\ tokens["graph"] # Quarantine!Nothing
           /\ tokens["graph"] \in [of : Held, under : {"this"}]
        /\ store # Quarantine!Nothing
    BY <1>1, <1>6 DEF Quarantine!TokenServes, Quarantine!Current, TokenEntries, Quarantine!Under
  <2>3. tokens["graph"].of \in Held
    BY <2>2
  <2>4. ASSUME ~raced PROVE tokens["graph"].of = signIn
    BY <1>1, <2>2, <2>4 DEF QuarantineInv, RaceInv, LatestOnly
  <2> QED BY <1>5, <2>1, <2>2, <2>3, <2>4
<1>7. CASE ~Quarantine!TokenServes("graph") /\ store # Quarantine!Nothing
  <2>1. req' = [req EXCEPT ![r].pc = "graphToken", ![r].of = store.of]
    BY <1>7 DEF Quarantine!AskRole
  <2>2. store.of \in Held
    BY <1>1, <1>7
  <2>3. ASSUME ~raced PROVE store.of = signIn
    BY <1>7, <2>3 DEF QuarantineInv, RaceInv, LatestOnly
  <2> QED BY <1>5, <1>7, <2>1, <2>2, <2>3
<1>8. CASE ~Quarantine!TokenServes("graph") /\ store = Quarantine!Nothing
  <2>1. Quarantine!End(r)
    BY <1>8 DEF Quarantine!AskRole
  <2> QED BY <1>2, <1>3, <1>4, <2>1, EndFits, QuietMoves
<1> QED BY <1>6, <1>7, <1>8

LEMMA MeSteps ==
    ASSUME QuarantineConstantsFit, QuarantineInv, NEW r \in Requests, Quarantine!Me(r)
    PROVE  QuarantineInv'
<1>1. /\ req[r].pc = "me" /\ req[r].of \in Held /\ clock \in Quarantine!Time
         /\ roles.held \in BOOLEAN
      /\ Quarantine!Under \in Quarantine!Unders /\ bot \in BOOLEAN /\ primed \in BOOLEAN
  <2>1. req[r].pc = "me" /\ req[r].of # 0 /\ req[r] \in Reqs
    BY DEF Quarantine!Me, QuarantineInv, ReqInv, ReqFits, InCalls
  <2> QED BY <2>1 DEF Reqs, Held, QuarantineInv, TenantTypes, Quarantine!Under, Quarantine!Unders
<1>2. /\ UNCHANGED Quarantine!tenant /\ UNCHANGED Quarantine!session
         /\ UNCHANGED <<clock, store, tokens, bot, primed>>
      /\ answer' = [of |-> req[r].of, allowed |-> roles.held,
                    under |-> Quarantine!Under, at |-> clock]
      /\ Quarantine!Decide(r, roles.held)
  BY DEF Quarantine!Me
<1>3. ReqsApart(r) /\ ReqFits(r)' /\ req'[r].pc \notin InCalls
  BY <1>1, <1>2, DecideIs DEF Checking
<1>4. TenantTypes'
  BY <1>1, <1>2 DEF QuarantineInv, TenantTypes, Quarantine!tenant, Quarantine!session
<1>5. CacheTypes'
  <2>1. answer' \in RoleAnswers
    BY <1>1, <1>2 DEF RoleAnswers
  <2> QED BY <1>2, <2>1 DEF QuarantineInv, CacheTypes
<1>6. AnswerInv'
  <2>1. answer'.at = clock /\ answer'.allowed = roles.held /\ clock' = clock /\ roles' = roles
    BY <1>2 DEF Quarantine!tenant
  <2>2. clock <= clock
    BY <1>1 DEF Quarantine!Time
  <2> QED BY <2>1, <2>2 DEF AnswerInv
<1>7. RaceInv'
  <2>1. ~raced => answer'.of = signIn
    BY <1>1, <1>2, CallIsLatest DEF InCalls
  <2> QED BY <1>2, <1>3, <2>1, RaceKept DEF Quarantine!session
<1> QED BY <1>3, <1>4, <1>5, <1>6, <1>7, ReqKept DEF QuarantineInv

\* Entra's answer is kept, and the request calls on or is done with calling.
LEMMA KeepTokenSteps ==
    ASSUME QuarantineConstantsFit, QuarantineInv, NEW r \in Requests, NEW s \in Quarantine!Scopes,
           req[r].pc \in {"graphToken", "powerToken"}, Quarantine!KeepToken(r, s),
           answer' = Quarantine!Outdated(answer), UNCHANGED Quarantine!tenant,
           UNCHANGED Quarantine!session,
           UNCHANGED <<clock, bot>>, primed' \in BOOLEAN,
           ReqsApart(r), ReqFits(r)', req'[r].pc \in InCalls => req'[r].of = req[r].of
    PROVE  QuarantineInv'
<1> DEFINE of == req[r].of
           entry == [of |-> of, under |-> "this"]
<1>1. /\ of \in Held /\ req[r].pc \in InCalls
      /\ tokens \in [Quarantine!Scopes -> TokenEntries] /\ answer \in RoleAnswers
  <2>1. req[r].pc \in InCalls /\ of # 0 /\ req[r] \in Reqs
    BY DEF QuarantineInv, ReqInv, ReqFits, InCalls
  <2> QED BY <2>1 DEF Reqs, Held, QuarantineInv, CacheTypes
<1>2. store' = [of |-> of] /\ store'.of = of /\ store' # Quarantine!Nothing
      /\ store' \in [of : Held]
  <2>1. store' = [of |-> of]
    BY DEF Quarantine!KeepToken
  <2>2. of # 0
    BY <1>1 DEF Held
  <2> QED BY <1>1, <2>1, <2>2 DEF Quarantine!Nothing
<1>3. entry \in TokenEntries /\ entry.of = of
  BY <1>1 DEF TokenEntries
<1>4. tokens' = [t \in Quarantine!Scopes |-> IF t = s THEN entry
                                             ELSE Quarantine!Outdated(tokens[t])]
  BY DEF Quarantine!KeepToken
<1> HIDE DEF of, entry
<1>5. \A t \in Quarantine!Scopes : Quarantine!Outdated(tokens[t]) = Quarantine!Nothing
  BY <1>1, TokensAreOutdated
<1>6. /\ tokens' \in [Quarantine!Scopes -> TokenEntries]
      /\ \A t \in Quarantine!Scopes : tokens'[t] # Quarantine!Nothing => tokens'[t].of = of
  <2>1. Quarantine!Nothing \in TokenEntries
    BY DEF TokenEntries
  <2> QED BY <1>3, <1>4, <1>5, <2>1
<1>7. /\ answer' \in RoleAnswers
      /\ answer' # Quarantine!Nothing => answer' = answer /\ answer'.under # "this"
  BY <1>1, AnswerOutdated
<1>8. TenantTypes'
  BY DEF QuarantineInv, TenantTypes, Quarantine!tenant, Quarantine!session
<1>9. CacheTypes'
  BY <1>2, <1>6, <1>7 DEF CacheTypes
<1>10. AnswerInv'
  BY <1>7 DEF QuarantineInv, AnswerInv, Quarantine!tenant
<1>11. ~Quarantine!Current(answer)'
  BY <1>2, <1>7 DEF Quarantine!Current, Quarantine!Under
<1>12. RaceInv'
  <2>1. ASSUME ~raced PROVE store # Quarantine!Nothing /\ of = signIn
    BY <1>1, <2>1, CallIsLatest DEF of
  <2>2. ~raced /\ req'[r].pc \in InCalls => store # Quarantine!Nothing /\ req'[r].of = signIn
    BY <2>1 DEF of
  <2>3. ~raced => \A t \in Quarantine!Scopes : tokens'[t] # Quarantine!Nothing =>
            tokens'[t] = tokens[t] \/ tokens'[t].of = signIn
    BY <1>6, <2>1
  <2>4. ~raced => store # Quarantine!Nothing /\ store' # Quarantine!Nothing /\ store'.of = signIn
    BY <1>2, <2>1
  <2> QED BY <1>11, <2>2, <2>3, <2>4, RaceKept DEF Quarantine!session
<1> QED BY <1>8, <1>9, <1>10, <1>12, ReqKept DEF QuarantineInv

\* With the Power Platform token in hand, no call follows.
LEMMA WithPowerIs ==
    ASSUME QuarantineConstantsFit, QuarantineInv, NEW r \in Requests,
           req[r].pc \in {"power", "powerToken"}, Quarantine!WithPower(r)
    PROVE  ReqsApart(r) /\ ReqFits(r)' /\ req'[r].pc \notin InCalls /\ primed' \in BOOLEAN
<1>1. primed' \in BOOLEAN
  BY DEF Quarantine!WithPower, Quarantine!Warmed, Quarantine!Viewed, Quarantine!Toggling
<1>2. Quarantine!End(r) \/ req' = [req EXCEPT ![r].pc = "env", ![r].of = 0]
  BY DEF Quarantine!WithPower, Quarantine!Warmed, Quarantine!Viewed, Quarantine!Toggling
<1>3. ASSUME req' = [req EXCEPT ![r].pc = "env", ![r].of = 0]
      PROVE  ReqsApart(r) /\ ReqFits(r)' /\ req'[r].pc \notin InCalls
  <2>1. 0 \in Quarantine!SignIns /\ "env" \in Pcs
    BY DEF Quarantine!SignIns, QuarantineConstantsFit, Pcs
  <2>2. ReqsApart(r) /\ req'[r].pc = "env" /\ req'[r].gap = req[r].gap
    BY <1>3, <2>1, CallIs
  <2>3. req[r].gap <= RoleTTL
    BY DEF QuarantineInv, ReqInv, ReqFits, Admitted
  <2> QED BY <2>2, <2>3 DEF ReqFits, InCalls, Checking
<1> QED BY <1>1, <1>2, <1>3, EndFits

LEMMA GraphTokenSteps ==
    ASSUME QuarantineConstantsFit, QuarantineInv, NEW r \in Requests, Quarantine!GraphToken(r)
    PROVE  QuarantineInv'
<1>1. /\ req[r].pc = "graphToken" /\ Quarantine!KeepToken(r, "graph")
         /\ answer' = Quarantine!Outdated(answer)
      /\ Quarantine!Go(r, "me") /\ UNCHANGED Quarantine!tenant /\ UNCHANGED Quarantine!session
      /\ UNCHANGED <<clock, bot, primed>>
  BY DEF Quarantine!GraphToken
<1>2. "me" \in Pcs /\ "graph" \in Quarantine!Scopes
  BY DEF Pcs, Quarantine!Scopes
<1>3. /\ ReqsApart(r) /\ req'[r].pc = "me" /\ req'[r].of = req[r].of
      /\ req'[r].checks = req[r].checks
  BY <1>1, <1>2, GoIs
<1>4. ReqFits(r)'
  BY <1>1, <1>3 DEF QuarantineInv, ReqInv, ReqFits, InCalls, Checking, Admitted
<1>5. primed' \in BOOLEAN
  BY <1>1 DEF QuarantineInv, TenantTypes
<1> QED BY <1>1, <1>2, <1>3, <1>4, <1>5, KeepTokenSteps

LEMMA PowerTokenSteps ==
    ASSUME QuarantineConstantsFit, QuarantineInv, NEW r \in Requests, Quarantine!PowerToken(r)
    PROVE  QuarantineInv'
<1>1. /\ req[r].pc = "powerToken" /\ Quarantine!KeepToken(r, "power")
         /\ answer' = Quarantine!Outdated(answer)
      /\ Quarantine!WithPower(r) /\ UNCHANGED Quarantine!tenant /\ UNCHANGED Quarantine!session
         /\ UNCHANGED <<clock, bot>>
  BY DEF Quarantine!PowerToken
<1>2. "power" \in Quarantine!Scopes
  BY DEF Quarantine!Scopes
<1> QED BY <1>1, <1>2, WithPowerIs, KeepTokenSteps

LEMMA ServePowerSteps ==
    ASSUME QuarantineConstantsFit, QuarantineInv, NEW r \in Requests, Quarantine!ServePower(r)
    PROVE  QuarantineInv'
<1>1. /\ req[r].pc = "power" /\ Quarantine!WithPower(r) /\ UNCHANGED Quarantine!tenant
         /\ UNCHANGED Quarantine!session
      /\ UNCHANGED <<clock, store, tokens, answer, bot>>
  BY DEF Quarantine!ServePower
<1>2. tokens \in [Quarantine!Scopes -> TokenEntries] /\ bot \in BOOLEAN
  BY DEF QuarantineInv, CacheTypes, TenantTypes
<1> QED BY <1>1, <1>2, WithPowerIs, QuietMoves

LEMMA AskPowerSteps ==
    ASSUME QuarantineConstantsFit, QuarantineInv, NEW r \in Requests, Quarantine!AskPower(r)
    PROVE  QuarantineInv'
<1>1. /\ req[r].pc = "power" /\ req[r].gap <= RoleTTL
      /\ tokens \in [Quarantine!Scopes -> TokenEntries]
         /\ store \in {Quarantine!Nothing} \cup [of : Held]
      /\ bot \in BOOLEAN /\ primed \in BOOLEAN /\ answer \in RoleAnswers
  BY DEF Quarantine!AskPower, QuarantineInv, ReqInv, ReqFits, Admitted, CacheTypes, TenantTypes
<1>2. /\ UNCHANGED Quarantine!tenant /\ UNCHANGED Quarantine!session
      /\ UNCHANGED <<clock, store, answer, bot, primed>>
      /\ tokens' = [tokens EXCEPT !["power"] = Quarantine!Nothing]
  BY DEF Quarantine!AskPower
<1>3. /\ tokens' \in [Quarantine!Scopes -> TokenEntries]
      /\ \A s \in Quarantine!Scopes : tokens'[s] \in {tokens[s], Quarantine!Nothing}
  <2>1. Quarantine!Nothing \in TokenEntries
    BY DEF TokenEntries
  <2> QED BY <1>1, <1>2, <2>1
<1>4. CASE store = Quarantine!Nothing
  <2>1. Quarantine!End(r)
    BY <1>4 DEF Quarantine!AskPower
  <2> QED BY <1>1, <1>2, <1>3, <2>1, EndFits, QuietMoves
<1>5. CASE store # Quarantine!Nothing
  <2>1. req' = [req EXCEPT ![r].pc = "powerToken", ![r].of = store.of]
    BY <1>5 DEF Quarantine!AskPower
  <2>2. store.of \in Quarantine!SignIns /\ store.of # 0 /\ "powerToken" \in Pcs
    BY <1>1, <1>5 DEF Held, Pcs
  <2>3. /\ ReqsApart(r) /\ req'[r].pc = "powerToken" /\ req'[r].of = store.of
        /\ req'[r].gap = req[r].gap
    BY <2>1, <2>2, CallIs
  <2>4. ReqFits(r)'
    BY <1>1, <2>2, <2>3 DEF ReqFits, Checking
  <2>5. ~raced => store.of = signIn
    BY <1>5 DEF QuarantineInv, RaceInv, LatestOnly
  <2>6. TenantTypes'
    BY <1>1, <1>2 DEF QuarantineInv, TenantTypes, Quarantine!tenant, Quarantine!session
  <2>7. /\ AnswerInv' /\ answer' \in RoleAnswers
        /\ ~raced /\ signedIn /\ Quarantine!Current(answer)' => answer'.of = signIn
    BY <1>2, AnswerKept DEF Quarantine!tenant, Quarantine!session
  <2>8. CacheTypes'
    BY <1>1, <1>2, <1>3, <2>7 DEF CacheTypes
  <2>9. RaceInv'
    BY <1>2, <1>3, <1>5, <2>3, <2>5, <2>7, RaceKept DEF Quarantine!session
  <2> QED BY <2>3, <2>4, <2>6, <2>7, <2>8, <2>9, ReqKept DEF QuarantineInv
<1> QED BY <1>4, <1>5

\* The switch itself: the environment, the POST and the status.
LEMMA SwitchSteps ==
    ASSUME QuarantineConstantsFit, QuarantineInv, NEW r \in Requests,
           Quarantine!ResolveEnvironment(r) \/ Quarantine!Post(r) \/ Quarantine!Status(r)
    PROVE  QuarantineInv'
<1>1. /\ req[r].pc \in {"env", "post", "status"}
      /\ Quarantine!End(r) \/ \E pc \in {"post", "status"} : Quarantine!Go(r, pc)
      /\ UNCHANGED Quarantine!tenant /\ UNCHANGED Quarantine!session
      /\ UNCHANGED <<clock, store, tokens, answer, primed>> /\ bot' \in BOOLEAN
  BY DEF QuarantineInv, TenantTypes, Quarantine!ResolveEnvironment, Quarantine!Post,
         Quarantine!Status
<1>2. tokens \in [Quarantine!Scopes -> TokenEntries] /\ primed \in BOOLEAN
  BY DEF QuarantineInv, CacheTypes, TenantTypes
<1>3. ASSUME NEW pc \in {"post", "status"}, Quarantine!Go(r, pc)
      PROVE  ReqsApart(r) /\ ReqFits(r)' /\ req'[r].pc \notin InCalls
  <2>1. pc \in Pcs
    BY DEF Pcs
  <2>2. ReqsApart(r) /\ req'[r].pc = pc /\ req'[r].gap = req[r].gap
    BY <1>3, <2>1, GoIs
  <2>3. req[r].gap <= RoleTTL
    BY <1>1 DEF QuarantineInv, ReqInv, ReqFits, Admitted
  <2> QED BY <2>2, <2>3 DEF ReqFits, InCalls, Checking
<1>4. ReqsApart(r) /\ ReqFits(r)' /\ req'[r].pc \notin InCalls
  BY <1>1, <1>3, EndFits
<1> QED BY <1>1, <1>2, <1>4, QuietMoves

(***************************************************************************)
(* The quarantine: sign-ins, time, roles and consent                       *)
(***************************************************************************)

LEMMA SwitchedIs ==
    ASSUME NEW in \in BOOLEAN, Quarantine!Switched(in)
    PROVE  /\ signedIn' = in /\ raced' \in BOOLEAN /\ primed' \in BOOLEAN
           /\ ~raced' => NoCalls
BY DEF Quarantine!Switched, Quarantine!InCall, NoCalls, InCalls

\* No token outlives its state, and no role answer counts under the next one.
LEMMA OutdatedAll ==
    ASSUME QuarantineInv, tokens' = [s \in Quarantine!Scopes |-> Quarantine!Outdated(tokens[s])],
           answer' = Quarantine!Outdated(answer), UNCHANGED <<clock, roles>>
    PROVE  /\ tokens' = [s \in Quarantine!Scopes |-> Quarantine!Nothing]
              /\ answer' \in RoleAnswers /\ AnswerInv'
           /\ answer' # Quarantine!Nothing => answer'.under # "this"
<1>1. tokens \in [Quarantine!Scopes -> TokenEntries] /\ answer \in RoleAnswers
  BY DEF QuarantineInv, CacheTypes
<1>2. \A s \in Quarantine!Scopes : Quarantine!Outdated(tokens[s]) = Quarantine!Nothing
  BY <1>1, TokensAreOutdated
<1>3. /\ answer' \in RoleAnswers
      /\ answer' # Quarantine!Nothing => answer' = answer /\ answer'.under # "this"
  BY <1>1, AnswerOutdated
<1>4. AnswerInv'
  BY <1>3 DEF QuarantineInv, AnswerInv
<1> QED BY <1>2, <1>3, <1>4

LEMMA SignInSteps ==
    ASSUME QuarantineConstantsFit, QuarantineInv, Quarantine!SignIn
    PROVE  QuarantineInv'
<1>1. /\ signIn < MaxSignIns /\ signIn' = signIn + 1 /\ Quarantine!Save(signIn + 1)
         /\ Quarantine!Switched(TRUE)
      /\ UNCHANGED Quarantine!tenant /\ UNCHANGED <<clock, req, bot>>
  BY DEF Quarantine!SignIn
<1>2. signIn' \in Held /\ signIn' \in Quarantine!SignIns
  <2>1. signIn \in 0 .. MaxSignIns /\ MaxSignIns \in Nat
    BY DEF QuarantineInv, TenantTypes, Quarantine!SignIns, QuarantineConstantsFit
  <2>2. signIn + 1 \in 0 .. MaxSignIns /\ signIn + 1 # 0
    BY <1>1, <2>1
  <2> QED BY <1>1, <2>2 DEF Held, Quarantine!SignIns
<1>3. signedIn' = TRUE /\ raced' \in BOOLEAN /\ primed' \in BOOLEAN /\ (~raced' => NoCalls)
  BY <1>1, SwitchedIs
<1>4. /\ tokens' = [s \in Quarantine!Scopes |-> Quarantine!Nothing] /\ answer' \in RoleAnswers
         /\ AnswerInv'
      /\ answer' # Quarantine!Nothing => answer'.under # "this"
  BY <1>1, OutdatedAll DEF Quarantine!Save, Quarantine!tenant
<1>5. store' = [of |-> signIn'] /\ store'.of = signIn' /\ store' # Quarantine!Nothing
  <2>1. store' = [of |-> signIn']
    BY <1>1 DEF Quarantine!Save
  <2>2. signIn' # 0
    BY <1>2 DEF Held
  <2> QED BY <2>1, <2>2 DEF Quarantine!Nothing
<1>6. TenantTypes'
  BY <1>1, <1>2, <1>3 DEF QuarantineInv, TenantTypes, Quarantine!tenant
<1>7. CacheTypes'
  <2>1. Quarantine!Nothing \in TokenEntries
    BY DEF TokenEntries
  <2>2. store' \in [of : Held]
    BY <1>2, <1>5
  <2> QED BY <1>4, <2>1, <2>2 DEF CacheTypes
<1>8. ReqInv'
  BY <1>1 DEF QuarantineInv, ReqInv, ReqFits
<1>9. RaceInv'
  <2>1. ~Quarantine!Current(answer)'
    BY <1>4, <1>5 DEF Quarantine!Current, Quarantine!Under
  <2>2. ASSUME ~raced' PROVE LatestOnly'
    <3>1. \A r \in Requests : req'[r].pc \notin InCalls
      BY <1>1, <1>3, <2>2 DEF NoCalls
    <3>2. \A s \in Quarantine!Scopes : tokens'[s] = Quarantine!Nothing
      BY <1>4
    <3> QED BY <1>5, <2>1, <3>1, <3>2 DEF LatestOnly
  <2> QED BY <1>3, <1>5, <2>2 DEF RaceInv
<1> QED BY <1>4, <1>6, <1>7, <1>8, <1>9 DEF QuarantineInv

LEMMA SignOutSteps ==
    ASSUME QuarantineConstantsFit, QuarantineInv, Quarantine!SignOut
    PROVE  QuarantineInv'
<1>1. /\ Quarantine!Clear /\ Quarantine!Switched(FALSE) /\ UNCHANGED Quarantine!tenant
         /\ UNCHANGED <<clock, signIn, req, bot>>
  BY DEF Quarantine!SignOut
<1>2. signedIn' = FALSE /\ raced' \in BOOLEAN /\ primed' \in BOOLEAN /\ (~raced' => NoCalls)
  BY <1>1, SwitchedIs
<1>3. /\ tokens' = [s \in Quarantine!Scopes |-> Quarantine!Nothing] /\ answer' \in RoleAnswers
         /\ AnswerInv'
  BY <1>1, OutdatedAll DEF Quarantine!Clear, Quarantine!tenant
<1>4. store' = Quarantine!Nothing
  BY <1>1 DEF Quarantine!Clear
<1>5. TenantTypes'
  BY <1>1, <1>2 DEF QuarantineInv, TenantTypes, Quarantine!tenant
<1>6. CacheTypes'
  <2>1. Quarantine!Nothing \in TokenEntries
    BY DEF TokenEntries
  <2> QED BY <1>3, <1>4, <2>1 DEF CacheTypes
<1>7. ReqInv'
  BY <1>1 DEF QuarantineInv, ReqInv, ReqFits
<1>8. RaceInv'
  BY <1>1, <1>2, <1>4 DEF RaceInv, NoCalls
<1> QED BY <1>3, <1>5, <1>6, <1>7, <1>8 DEF QuarantineInv

\* Nothing but the tenant changes, and tokens that expire.
LEMMA QuietWorld ==
    ASSUME QuarantineConstantsFit, QuarantineInv, TenantTypes', AnswerInv',
           UNCHANGED Quarantine!session, UNCHANGED <<store, answer, req>>,
           tokens' \in [Quarantine!Scopes -> TokenEntries],
           \A s \in Quarantine!Scopes : tokens'[s] \in {tokens[s], Quarantine!Nothing}
    PROVE  QuarantineInv'
<1>1. CacheTypes'
  BY DEF QuarantineInv, CacheTypes
<1>2. ReqInv'
  BY DEF QuarantineInv, ReqInv, ReqFits
<1>3. RaceInv'
  <2> SUFFICES ASSUME ~raced
               PROVE  /\ store = Quarantine!Nothing => NoCalls'
                      /\ ~signedIn => store = Quarantine!Nothing
                      /\ signedIn => LatestOnly'
    BY DEF RaceInv, Quarantine!session
  <2>1. /\ store = Quarantine!Nothing => NoCalls
        /\ ~signedIn => store = Quarantine!Nothing
        /\ signedIn => LatestOnly
    BY DEF QuarantineInv, RaceInv
  <2>2. NoCalls => NoCalls'
    BY DEF NoCalls
  <2>3. LatestOnly => LatestOnly'
    <3>1. signIn' = signIn /\ (Quarantine!Current(answer)' <=> Quarantine!Current(answer))
      BY DEF Quarantine!session, Quarantine!Current, Quarantine!Under
    <3> QED BY <3>1 DEF LatestOnly
  <2> QED BY <2>1, <2>2, <2>3
<1> QED BY <1>1, <1>2, <1>3 DEF QuarantineInv

LEMMA TickSteps ==
    ASSUME QuarantineConstantsFit, QuarantineInv, Quarantine!Tick
    PROVE  QuarantineInv'
<1>1. /\ clock < RoleTime /\ clock' = clock + 1 /\ primed' = FALSE
      /\ UNCHANGED Quarantine!tenant /\ UNCHANGED Quarantine!session
         /\ UNCHANGED <<store, answer, req, bot>>
      /\ \E expired \in SUBSET Quarantine!Scopes :
            tokens' = [s \in Quarantine!Scopes |-> IF s \in expired THEN Quarantine!Nothing
                                                   ELSE tokens[s]]
  BY DEF Quarantine!Tick
<1>2. /\ tokens' \in [Quarantine!Scopes -> TokenEntries]
      /\ \A s \in Quarantine!Scopes : tokens'[s] \in {tokens[s], Quarantine!Nothing}
  <2>1. Quarantine!Nothing \in TokenEntries /\ tokens \in [Quarantine!Scopes -> TokenEntries]
    BY DEF TokenEntries, QuarantineInv, CacheTypes
  <2> QED BY <1>1, <2>1
<1>3. clock' \in Quarantine!Time /\ roles.last <= clock'
      /\ (answer # Quarantine!Nothing => answer.at <= clock')
  <2>1. clock \in 0 .. RoleTime /\ roles.last \in 0 .. RoleTime /\ roles.last <= clock
        /\ RoleTime \in Nat
    BY DEF QuarantineInv, TenantTypes, Quarantine!Time, QuarantineConstantsFit
  <2>2. answer # Quarantine!Nothing => answer.at \in 0 .. RoleTime /\ answer.at <= clock
    BY DEF QuarantineInv, AnswerInv, CacheTypes, RoleAnswers, Quarantine!Time
  <2>3. clock' \in 0 .. RoleTime /\ roles.last <= clock'
    BY <1>1, <2>1
  <2>4. ASSUME answer # Quarantine!Nothing PROVE answer.at <= clock'
    <3>1. answer.at \in 0 .. RoleTime /\ answer.at <= clock
      BY <2>2, <2>4
    <3> QED BY <1>1, <2>1, <3>1
  <2> QED BY <2>3, <2>4 DEF Quarantine!Time
<1>4. TenantTypes'
  BY <1>1, <1>3 DEF QuarantineInv, TenantTypes, Quarantine!tenant, Quarantine!session
<1>5. AnswerInv'
  BY <1>1, <1>3 DEF QuarantineInv, AnswerInv, Quarantine!tenant
<1> QED BY <1>1, <1>2, <1>4, <1>5, QuietWorld

LEMMA RolesChangeSteps ==
    ASSUME QuarantineConstantsFit, QuarantineInv, Quarantine!RolesChange
    PROVE  QuarantineInv'
<1>1. /\ changes < RoleChanges /\ changes' = changes + 1 /\ primed' = FALSE
      /\ roles' = [held |-> ~roles.held, last |-> IF roles.held THEN clock ELSE 0]
      /\ UNCHANGED Quarantine!session
      /\ UNCHANGED <<clock, consented, store, tokens, answer, req, bot>>
  BY DEF Quarantine!RolesChange
<1>2. changes' \in 0 .. RoleChanges
  <2>1. changes \in 0 .. RoleChanges /\ RoleChanges \in Nat
    BY DEF QuarantineInv, TenantTypes, QuarantineConstantsFit
  <2> QED BY <1>1, <2>1
<1>3. clock \in 0 .. RoleTime /\ RoleTime \in Nat /\ 0 \in 0 .. RoleTime /\ 0 <= clock
      /\ clock <= clock
  BY DEF QuarantineInv, TenantTypes, Quarantine!Time, QuarantineConstantsFit
<1>4. roles' \in [held : BOOLEAN, last : Quarantine!Time] /\ roles'.last <= clock
  <2> DEFINE last == IF roles.held THEN clock ELSE 0
  <2>1. last \in Quarantine!Time /\ last <= clock
    BY <1>3 DEF Quarantine!Time
  <2>2. roles' = [held |-> ~roles.held, last |-> last]
    BY <1>1
  <2> HIDE DEF last
  <2> QED BY <2>1, <2>2
<1>5. ~roles'.held => roles'.last = clock
  <2>1. roles'.held = ~roles.held /\ (roles.held => roles'.last = clock)
    BY <1>1
  <2>2. roles.held \in BOOLEAN
    BY DEF QuarantineInv, TenantTypes
  <2> QED BY <2>1, <2>2
<1>6. TenantTypes'
  BY <1>1, <1>2, <1>4 DEF QuarantineInv, TenantTypes, Quarantine!session
<1>7. AnswerInv'
  <2>1. ASSUME answer # Quarantine!Nothing PROVE answer.at <= clock /\ clock >= answer.at
    <3>1. answer.at \in 0 .. RoleTime /\ answer.at <= clock
      BY <2>1 DEF QuarantineInv, AnswerInv, CacheTypes, RoleAnswers, Quarantine!Time
    <3> QED BY <1>3, <3>1
  <2> QED BY <1>1, <1>5, <2>1 DEF AnswerInv
<1>8. tokens \in [Quarantine!Scopes -> TokenEntries]
  BY DEF QuarantineInv, CacheTypes
<1> QED BY <1>1, <1>6, <1>7, <1>8, QuietWorld

LEMMA ConsentSteps ==
    ASSUME QuarantineConstantsFit, QuarantineInv, Quarantine!Consent
    PROVE  QuarantineInv'
<1>1. /\ changes < RoleChanges /\ changes' = changes + 1 /\ primed' = FALSE
      /\ consented' \subseteq Quarantine!Scopes /\ UNCHANGED Quarantine!session
      /\ UNCHANGED <<clock, roles, store, tokens, answer, req, bot>>
  BY DEF Quarantine!Consent
<1>2. changes' \in 0 .. RoleChanges
  <2>1. changes \in 0 .. RoleChanges /\ RoleChanges \in Nat
    BY DEF QuarantineInv, TenantTypes, QuarantineConstantsFit
  <2> QED BY <1>1, <2>1
<1>3. TenantTypes'
  BY <1>1, <1>2 DEF QuarantineInv, TenantTypes, Quarantine!session
<1>4. AnswerInv'
  BY <1>1 DEF QuarantineInv, AnswerInv
<1>5. tokens \in [Quarantine!Scopes -> TokenEntries]
  BY DEF QuarantineInv, CacheTypes
<1> QED BY <1>1, <1>3, <1>4, <1>5, QuietWorld

LEMMA DayPassesSteps ==
    ASSUME QuarantineConstantsFit, QuarantineInv, Quarantine!DayPasses
    PROVE  QuarantineInv'
<1>1. /\ \A r \in Requests : req[r].pc = "idle"
      /\ store' = Quarantine!Nothing /\ answer' = Quarantine!Nothing
         /\ tokens' = [s \in Quarantine!Scopes |-> Quarantine!Nothing]
      /\ primed' = FALSE /\ UNCHANGED Quarantine!tenant /\ UNCHANGED Quarantine!session
      /\ UNCHANGED <<clock, req, bot>>
  BY DEF Quarantine!DayPasses
<1>2. TenantTypes'
  BY <1>1 DEF QuarantineInv, TenantTypes, Quarantine!tenant, Quarantine!session
<1>3. CacheTypes'
  BY <1>1 DEF CacheTypes, TokenEntries, RoleAnswers
<1>4. ReqInv'
  BY <1>1 DEF QuarantineInv, ReqInv, ReqFits
<1>5. AnswerInv'
  BY <1>1 DEF AnswerInv
<1>6. NoCalls'
  BY <1>1 DEF NoCalls, InCalls
<1>7. LatestOnly'
  BY <1>1, <1>6 DEF LatestOnly, NoCalls, Quarantine!Current
<1> QED BY <1>1, <1>2, <1>3, <1>4, <1>5, <1>6, <1>7 DEF QuarantineInv, RaceInv

(***************************************************************************)
(* The quarantine: the theorem                                             *)
(***************************************************************************)

LEMMA QuarantineInvInit ==
    ASSUME QuarantineConstantsFit, Quarantine!Init
    PROVE  QuarantineInv
<1>1. 0 \in Quarantine!Time /\ 0 \in Quarantine!SignIns /\ 0 \in 0 .. RoleChanges
  BY DEF Quarantine!Time, Quarantine!SignIns, QuarantineConstantsFit
<1>2. TenantTypes
  <2>1. roles \in [held : BOOLEAN, last : Quarantine!Time] /\ roles.last = 0 /\ clock = 0
    BY <1>1 DEF Quarantine!Init
  <2>2. roles.last <= clock
    BY <2>1
  <2> QED BY <1>1, <2>1, <2>2 DEF Quarantine!Init, TenantTypes
<1>3. CacheTypes
  BY DEF Quarantine!Init, CacheTypes, TokenEntries, RoleAnswers
<1>4. \A r \in Requests : req[r] = Quarantine!NoReq
  BY DEF Quarantine!Init
<1>5. ReqInv
  BY <1>4, NoReqIs DEF Quarantine!Init, ReqInv, ReqFits, InCalls, Checking, Admitted
<1>6. AnswerInv
  BY DEF Quarantine!Init, AnswerInv
<1>7. RaceInv
  <2>1. NoCalls
    BY <1>4, NoReqIs DEF NoCalls, InCalls
  <2>2. signedIn = FALSE /\ store = Quarantine!Nothing
    BY DEF Quarantine!Init
  <2> QED BY <2>1, <2>2 DEF RaceInv
<1> QED BY <1>2, <1>3, <1>5, <1>6, <1>7 DEF QuarantineInv

LEMMA QuarantineInvNext ==
    ASSUME QuarantineConstantsFit, QuarantineInv, [Quarantine!Next]_(Quarantine!vars)
    PROVE  QuarantineInv'
<1>1. CASE UNCHANGED Quarantine!vars
  <2>1. /\ UNCHANGED Quarantine!tenant /\ UNCHANGED Quarantine!session
        /\ UNCHANGED <<clock, store, tokens, answer, req, bot, primed>>
    BY <1>1 DEF Quarantine!vars
  <2>2. TenantTypes' /\ AnswerInv'
    BY <2>1 DEF QuarantineInv, TenantTypes, AnswerInv, Quarantine!tenant, Quarantine!session
  <2>3. tokens \in [Quarantine!Scopes -> TokenEntries]
    BY DEF QuarantineInv, CacheTypes
  <2> QED BY <2>1, <2>2, <2>3, QuietWorld
<1>2. CASE Quarantine!SignIn
  BY <1>2, SignInSteps
<1>3. CASE Quarantine!SignOut
  BY <1>3, SignOutSteps
<1>4. CASE Quarantine!Tick
  BY <1>4, TickSteps
<1>5. CASE Quarantine!DayPasses
  BY <1>5, DayPassesSteps
<1>6. CASE Quarantine!RolesChange
  BY <1>6, RolesChangeSteps
<1>7. CASE Quarantine!Consent
  BY <1>7, ConsentSteps
<1>8. ASSUME NEW r \in Requests, \E k \in Quarantine!RequestKinds : Quarantine!Start(r, k)
      PROVE  QuarantineInv'
  BY <1>8, StartSteps
<1>9. ASSUME NEW r \in Requests,
             Quarantine!ServeRole(r) \/ Quarantine!AskRole(r) \/ Quarantine!Me(r)
      PROVE  QuarantineInv'
  BY <1>9, ServeRoleSteps, AskRoleSteps, MeSteps
<1>10. ASSUME NEW r \in Requests, Quarantine!GraphToken(r) \/ Quarantine!PowerToken(r)
       PROVE  QuarantineInv'
  BY <1>10, GraphTokenSteps, PowerTokenSteps
<1>11. ASSUME NEW r \in Requests,
              Quarantine!GraphTokenFails(r) \/ Quarantine!MeFails(r) \/ Quarantine!PowerFails(r)
       PROVE  QuarantineInv'
  BY <1>11, FailingSteps
<1>12. ASSUME NEW r \in Requests, Quarantine!ServePower(r) \/ Quarantine!AskPower(r)
       PROVE  QuarantineInv'
  BY <1>12, ServePowerSteps, AskPowerSteps
<1>13. ASSUME NEW r \in Requests,
              Quarantine!ResolveEnvironment(r) \/ Quarantine!Post(r) \/ Quarantine!Status(r)
       PROVE  QuarantineInv'
  BY <1>13, SwitchSteps
<1> QED
  BY <1>1, <1>2, <1>3, <1>4, <1>5, <1>6, <1>7, <1>8, <1>9, <1>10, <1>11, <1>12, <1>13
  DEF Quarantine!Next

LEMMA QuarantineInvTypes ==
    ASSUME QuarantineInv
    PROVE  Quarantine!TypeOK
<1>1. TenantTypes /\ CacheTypes /\ req \in [Requests -> Reqs]
  BY DEF QuarantineInv, ReqInv
<1> QED BY <1>1
        DEF TenantTypes, CacheTypes, Reqs, Pcs, TokenEntries, RoleAnswers, Held,
            Quarantine!TypeOK

LEMMA QuarantineInvHolds ==
    ASSUME QuarantineInv
    PROVE  Quarantine!PostsAreEntitled /\ Quarantine!SignedOutIsForgotten
           /\ Quarantine!LatestSignInCounts
<1>1. Quarantine!PostsAreEntitled
  BY DEF QuarantineInv, ReqInv, ReqFits, Admitted, Quarantine!PostsAreEntitled
<1>2. Quarantine!SignedOutIsForgotten
  BY DEF QuarantineInv, RaceInv, Quarantine!SignedOutIsForgotten
<1>3. Quarantine!LatestSignInCounts
  BY DEF QuarantineInv, RaceInv, LatestOnly, Quarantine!LatestSignInCounts,
         Quarantine!TokenServes, Quarantine!RoleServes, Quarantine!Current
<1> QED BY <1>1, <1>2, <1>3

\* Whoever switches an agent was entitled to within RoleTTL before the handler
\* let the request through; a sign-out leaves no refresh token behind and a
\* sign-in replaces all that was kept, unless a call was in flight.
THEOREM QuarantineHoldsAlways ==
    ASSUME QuarantineConstantsFit
    PROVE  Quarantine!Spec =>
               [](Quarantine!TypeOK /\ Quarantine!PostsAreEntitled
                  /\ Quarantine!SignedOutIsForgotten
                         /\ Quarantine!LatestSignInCounts)
<1>1. Quarantine!Init => QuarantineInv
  BY QuarantineInvInit
<1>2. QuarantineInv /\ [Quarantine!Next]_(Quarantine!vars) => QuarantineInv'
  BY QuarantineInvNext
<1>3. QuarantineInv =>
          /\ Quarantine!TypeOK /\ Quarantine!PostsAreEntitled /\ Quarantine!SignedOutIsForgotten
                       /\ Quarantine!LatestSignInCounts
  BY QuarantineInvTypes, QuarantineInvHolds
<1> QED BY <1>1, <1>2, <1>3, PTL DEF Quarantine!Spec

(***************************************************************************)
(* The services together                                                   *)
(***************************************************************************)

LEMMA ConstantsFit ==
    /\ GateConstantsFit /\ LicenseConstantsFit /\ TokenConstantsFit
    /\ RevokeConstantsFit /\ QuarantineConstantsFit
BY ServicesAssumption
DEF GateConstantsFit, LicenseConstantsFit, TokenConstantsFit, RevokeConstantsFit,
    QuarantineConstantsFit

GateInvariant == subject = "gate" => GateInv
LicenseInvariant == subject = "license" => LicenseInv
TokenInvariant == subject = "dataverse" => TokenInv
RevokeInvariant == subject = "revoke" => RevokeInv
QuarantineInvariant == subject = "quarantine" => QuarantineInv

LEMMA GateIsKept == Spec => []GateInvariant
<1>1. Init => GateInvariant
  BY ConstantsFit, GateInvInit DEF Init, GateInvariant
<1>2. GateInvariant /\ [Next]_variables => GateInvariant'
  <2> SUFFICES ASSUME GateInvariant, [Next]_variables, subject' = "gate"
               PROVE  GateInv'
    BY DEF GateInvariant
  <2>1. subject = "gate" /\ GateInv
    BY DEF GateInvariant, Next, Is, variables
  <2>2. Gate!Next \/ UNCHANGED <<v1, v2, v3, v4, v5, v6, v7, v8, v9, v10, v11, v12, v13>>
    BY <2>1 DEF Next, Is, variables, from11, from13
  <2>3. [Gate!Next]_(Gate!gateVars)
    BY <2>2 DEF Gate!gateVars, Gate!config, Gate!memory, Gate!browser,
        vault, reachable, env, good, proxyGood, boot, session, csrf, made, tab, rotations,
        fetched, crossed
  <2> QED BY <2>1, <2>3, ConstantsFit, GateInvNext
<1> QED BY <1>1, <1>2, PTL DEF Spec

LEMMA LicenseIsKept == Spec => []LicenseInvariant
<1>1. Init => LicenseInvariant
  BY ConstantsFit, LicenseInvInit DEF Init, LicenseInvariant
<1>2. LicenseInvariant /\ [Next]_variables => LicenseInvariant'
  <2> SUFFICES ASSUME LicenseInvariant, [Next]_variables, subject' = "license"
               PROVE  LicenseInv'
    BY DEF LicenseInvariant
  <2>1. subject = "license" /\ LicenseInv
    BY DEF LicenseInvariant, Next, Is, variables
  <2>2. Licensing!Next \/ UNCHANGED <<v1, v2, v3, v4, v5, v6, v7, v8, v9, v10, v11, v12>>
    BY <2>1 DEF Next, Is, variables, from11
  <2>3. [Licensing!Next]_(Licensing!licenseVars)
    BY <2>2 DEF Licensing!licenseVars, Licensing!world,
        now, self, local, inserted, slot, keyFile, tenantKnown, loaded, cache, check, seen,
        edits
  <2> QED BY <2>1, <2>3, ConstantsFit, LicenseInvNext
<1> QED BY <1>1, <1>2, PTL DEF Spec

LEMMA TokenIsKept == Spec => []TokenInvariant
<1>1. Init => TokenInvariant
  BY ConstantsFit, TokenInvInit DEF Init, TokenInvariant
<1>2. TokenInvariant /\ [Next]_variables => TokenInvariant'
  <2> SUFFICES ASSUME TokenInvariant, [Next]_variables, subject' = "dataverse"
               PROVE  TokenInv'
    BY DEF TokenInvariant
  <2>1. subject = "dataverse" /\ TokenInv
    BY DEF TokenInvariant, Next, Is, variables
  <2>2. Dataverse!Next \/ UNCHANGED <<v1, v2, v3, v4, v5, v6, v7, v8, v9, v10>>
    BY <2>1 DEF Next, Is, variables
  <2>3. [Dataverse!Next]_(Dataverse!tokenVars)
    BY <2>2 DEF Dataverse!tokenVars,
        moment, config, configures, client, cached, shared, acq, call, rebuilds, overtaken
  <2> QED BY <2>1, <2>3, ConstantsFit, TokenInvNext
<1> QED BY <1>1, <1>2, PTL DEF Spec

LEMMA RevokeIsKept == Spec => []RevokeInvariant
<1>1. Init => RevokeInvariant
  BY ConstantsFit, RevokeInvInit DEF Init, RevokeInvariant
<1>2. RevokeInvariant /\ [Next]_variables => RevokeInvariant'
  <2> SUFFICES ASSUME RevokeInvariant, [Next]_variables, subject' = "revoke"
               PROVE  RevokeInv'
    BY DEF RevokeInvariant
  <2>1. subject = "revoke" /\ RevokeInv
    BY DEF RevokeInvariant, Next, Is, variables
  <2>2. Revoke!Next \/ UNCHANGED <<v1, v2, v3, v4, v5, v6, v7, v8, v9, v10, v11, v12, v13, v14,
                                   v15, v16, v17>>
    BY <2>1 DEF Next, Is, variables, from11, from13, from14
  <2>3. [Revoke!Next]_(Revoke!revokeVars)
    BY <2>2 DEF Revoke!revokeVars, Revoke!graphVars, Revoke!localVars, Revoke!pageVars,
        kind, holds, remote, listed, rows, recent, scan, revokeLog, request, view,
        refreshing, step, targets, status, reload, clicks, faults
  <2> QED BY <2>1, <2>3, ConstantsFit, RevokeInvNext
<1> QED BY <1>1, <1>2, PTL DEF Spec

LEMMA QuarantineIsKept == Spec => []QuarantineInvariant
<1>1. Init => QuarantineInvariant
  BY ConstantsFit, QuarantineInvInit DEF Init, QuarantineInvariant
<1>2. QuarantineInvariant /\ [Next]_variables => QuarantineInvariant'
  <2> SUFFICES ASSUME QuarantineInvariant, [Next]_variables, subject' = "quarantine"
               PROVE  QuarantineInv'
    BY DEF QuarantineInvariant
  <2>1. subject = "quarantine" /\ QuarantineInv
    BY DEF QuarantineInvariant, Next, Is, variables
  <2>2. \/ Quarantine!Next
        \/ UNCHANGED <<v1, v2, v3, v4, v5, v6, v7, v8, v9, v10, v11, v12, v13>>
    BY <2>1 DEF Next, Is, variables, from11, from13
  <2>3. [Quarantine!Next]_(Quarantine!vars)
    BY <2>2 DEF Quarantine!vars, Quarantine!tenant, Quarantine!session,
        clock, roles, consented, changes, signedIn, signIn, store, tokens, answer, req, bot,
        raced, primed
  <2> QED BY <2>1, <2>3, ConstantsFit, QuarantineInvNext
<1> QED BY <1>1, <1>2, PTL DEF Spec

\* (RequestGate) Who gets to a handler is in a group that was the administrators'
\* group while the request ran, unless the vault failed; the handlers' fallback
\* is the newest value; and fresh forms pass: in every behaviour of the services.
THEOREM GateAlwaysHolds == Spec => []GateHolds
<1>1. GateInvariant => GateHolds
  BY ConstantsFit, GateInvHolds DEF GateInvariant, GateHolds
<1> QED BY GateIsKept, <1>1, PTL

\* (License) An answer is one that the license in force deserved within the last
\* TTL, and job control needs a license that is signed, canonical, of this tenant
\* and current: in every behaviour of the services.
THEOREM LicenseAlwaysHolds == Spec => []LicenseAnswersHold
<1>1. LicenseInvariant => LicenseAnswersHold
  BY ConstantsFit, RecentAnswers, PaidIsLicensed DEF LicenseInvariant, LicenseAnswersHold
<1> QED BY LicenseIsKept, <1>1, PTL

\* (DataverseToken) Requests carry tokens of the settings that their acquisition
\* read, the cache holds the current client's unless a former client's came late,
\* and acquisitions are shared: in every behaviour of the services.
THEOREM TokensAlwaysFollow == Spec => []TokensFollowTheConfiguration
<1>1. TokenInvariant => TokensFollowTheConfiguration
  BY TokenInvHolds DEF TokenInvariant, TokensFollowTheConfiguration
<1> QED BY TokenIsKept, <1>1, PTL

\* (PermissionRevoke) Success is shown only for permissions that Graph no longer
\* enforces, and only direct permissions without an owner role are ever removed:
\* in every behaviour of the services.
THEOREM RevokeAlwaysHolds == Spec => []RevokeAnswersHold
<1>1. RevokeInvariant => RevokeAnswersHold
  BY RevokeInvHolds DEF RevokeInvariant, RevokeAnswersHold
<1> QED BY RevokeIsKept, <1>1, PTL

\* (CopilotQuarantine) Whoever switches an agent held a role within RoleTTL before
\* the request was let through: in every behaviour of the services.
THEOREM PostsAreAlwaysEntitled == Spec => []PostsAreEntitled
<1>1. QuarantineInvariant => PostsAreEntitled
  BY QuarantineInvHolds DEF QuarantineInvariant, PostsAreEntitled
<1> QED BY QuarantineIsKept, <1>1, PTL

\* (CopilotQuarantine) Unless a call was in flight, a sign-out leaves no refresh
\* token behind and what is served after a sign-in is that sign-in's: in every
\* behaviour of the services.
THEOREM SignInsAreAlwaysKept == Spec => []SignInsAreKept
<1>1. QuarantineInvariant => SignInsAreKept
  BY QuarantineInvHolds DEF QuarantineInvariant, SignInsAreKept
<1> QED BY QuarantineIsKept, <1>1, PTL

\* Whichever service a behaviour is about, its variables have their types.
THEOREM ServicesHaveTheirTypes == Spec => []TypeOK
<1>1. GateInvariant => (subject = "gate" => Gate!TypeOK)
  BY GateInvTypes DEF GateInvariant
<1>2. LicenseInvariant => (subject = "license" => Licensing!TypeOK)
  BY LicenseInvTypes DEF LicenseInvariant
<1>3. TokenInvariant => (subject = "dataverse" => Dataverse!TypeOK)
  BY TokenInvTypes DEF TokenInvariant
<1>4. RevokeInvariant => (subject = "revoke" => Revoke!TypeOK)
  BY RevokeInvTypes DEF RevokeInvariant
<1>5. QuarantineInvariant => (subject = "quarantine" => Quarantine!TypeOK)
  BY QuarantineInvTypes DEF QuarantineInvariant
<1>6. GateInvariant /\ LicenseInvariant /\ TokenInvariant /\ RevokeInvariant
      /\ QuarantineInvariant
          => TypeOK
  BY <1>1, <1>2, <1>3, <1>4, <1>5 DEF TypeOK
<1> QED
  BY GateIsKept, LicenseIsKept, TokenIsKept, RevokeIsKept, QuarantineIsKept, <1>6, PTL

=============================================================================
