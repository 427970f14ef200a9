---- MODULE AgentConsole ----
(***************************************************************************)
(* The agent access console in the browser                                 *)
(* (dashboard/agents/agent-access-control/agent-access-control-client.tsx) *)
(* and the handlers that read and patch the Dataverse rows behind it       *)
(* (api/agents/agent-access-control/route.ts).                             *)
(*                                                                         *)
(* The console keeps a copy of the assignments (users of agents) and of    *)
(* the quarantine state of the bots. After a successful action it patches  *)
(* its copy and then fetches everything again. One user action at a time   *)
(* is sent; quarantine actions of different bots may overlap. Another      *)
(* administrator or a sync may change either system at any time.           *)
(*                                                                         *)
(* What a block does behind the handler is in AgentBlocks, what a          *)
(* quarantine does in CopilotQuarantine: here each is one step.            *)
(***************************************************************************)
EXTENDS Naturals, FiniteSets

CONSTANTS Pairs,      \* assignments: a user of an agent
          Bots,       \* agents that can be quarantined
          Ops,        \* identities of quarantine actions
          Nobody,     \* no pair, no bot
          MaxActions, \* bound on actions sent
          MaxTroubles \* bound on failures and on changes made elsewhere

VARIABLES dv,         \* Dataverse: "hidden" (userdeleteflag), "free" or "blocked"
          shownRows,  \* rows
          rowsLoad,   \* the fetch of the rows
          modal,      \* the action that waits for its confirmation
          action,     \* the user action in flight
          submitting,
          isolated,   \* Power Platform: the quarantined bots
          shownBots,  \* quarantineContext
          botLoad,    \* fetches of the context: one per action, Nobody's is the page's
          botAction,  \* the quarantine actions
          submittingBot, \* quarantineSubmittingBotId
          actions, troubles,
          unsure,     \* history: a pair or bot changed behind the console's back
          overlapped  \* history: two quarantine actions were in flight

rowVars == <<dv, shownRows, rowsLoad, action, submitting>>
botVars == <<isolated, shownBots, botLoad, botAction, submittingBot, overlapped>>
consoleVars == <<rowVars, botVars, modal, actions, troubles, unsure>>

Flags    == {"hidden", "free", "blocked"}
Unloaded == {Nobody}

\* A fetch: not sent, on its way to the server, or answered with what the
\* server read; "since" are the pairs or bots changed elsewhere after that.
Ended    == [at |-> "ended"]
Asked    == [at |-> "asked"]
Read(value) == [at |-> "read", value |-> value, since |-> {}]
Noting(load, x) == IF load.at = "read" THEN [load EXCEPT !.since = @ \cup {x}] ELSE load

NoAction == [what |-> "none", pair |-> Nobody]
Quiet    == action = NoAction

Trouble == troubles < MaxTroubles /\ troubles' = troubles + 1

----------------------------------------------------------------------------
(* Reading the assignments *)

\* GET: all rows of the table whose userdeleteflag is "allowed". The client
\* filters once more.
ServerReadsRows ==
    /\ rowsLoad = Asked
    /\ rowsLoad' = Read(dv)
    /\ UNCHANGED <<dv, shownRows, action, submitting, botVars, modal, actions,
                   troubles, unsure>>

\* A request that fails leaves the rows and shows an error instead.
RowsArrive ==
    /\ rowsLoad.at = "read"
    /\ shownRows' = rowsLoad.value
    /\ unsure' = (unsure \ Pairs) \cup rowsLoad.since
    /\ rowsLoad' = Ended
    /\ action' = NoAction
    /\ submitting' = FALSE
    /\ UNCHANGED <<dv, botVars, modal, actions, troubles>>

RowsFail ==
    /\ rowsLoad # Ended
    /\ Trouble
    /\ rowsLoad' = Ended
    /\ action' = NoAction
    /\ submitting' = FALSE
    /\ unsure' = IF Quiet THEN unsure \cup Pairs ELSE unsure
    /\ UNCHANGED <<dv, shownRows, botVars, modal, actions>>

\* What the administrator can pick: the users of an agent that are not
\* blocked, and the active blocks.
Offers(what) == {p \in Pairs : shownRows[p] = IF what = "block" THEN "free" ELSE "blocked"}

----------------------------------------------------------------------------
(* Blocking and unblocking a user *)

\* Both buttons are disabled while an action is in flight, and the modal
\* covers the page. Selecting needs the first load.
Ask(what, p) ==
    /\ modal = NoAction
    /\ ~submitting
    /\ p \in Offers(what)
    /\ modal' = [what |-> what, pair |-> p]
    /\ UNCHANGED <<rowVars, botVars, actions, troubles, unsure>>

Cancel ==
    /\ modal # NoAction
    /\ modal' = NoAction
    /\ UNCHANGED <<rowVars, botVars, actions, troubles, unsure>>

\* executeBlock and executeUnblock, up to the request.
Confirm ==
    /\ modal.what \in {"block", "unblock"}
    /\ actions < MaxActions
    /\ actions' = actions + 1
    /\ modal' = NoAction
    /\ submitting' = TRUE
    /\ action' = modal
    /\ UNCHANGED <<dv, shownRows, rowsLoad, botVars, troubles, unsure>>

Outcome(what) == IF what = "block" THEN "blocked" ELSE "free"

\* The handler refuses a row that is gone, blocked already or not blocked.
Refused ==
    /\ action.what \in {"block", "unblock"}
    /\ dv[action.pair] # IF action.what = "block" THEN "free" ELSE "blocked"
    /\ action' = NoAction
    /\ submitting' = FALSE
    /\ UNCHANGED <<dv, shownRows, rowsLoad, botVars, modal, actions, troubles, unsure>>

\* A bug: an action that failed leaves the console submitting.
PostFailsBug ==
    /\ action.what \in {"block", "unblock"}
    /\ Trouble
    /\ \/ UNCHANGED dv
       \/ dv' = [dv EXCEPT ![action.pair] = Outcome(action.what)]
    /\ unsure' = unsure \cup {action.pair}
    /\ action' = NoAction
    /\ UNCHANGED <<shownRows, rowsLoad, submitting, botVars, modal, actions>>

\* The request fails, before or after the row was patched. The console shows
\* the error and fetches nothing.
PostFails ==
    /\ action.what \in {"block", "unblock"}
    /\ Trouble
    /\ \/ UNCHANGED dv
       \/ dv' = [dv EXCEPT ![action.pair] = Outcome(action.what)]
    /\ unsure' = unsure \cup {action.pair}
    /\ action' = NoAction
    /\ submitting' = FALSE
    /\ UNCHANGED <<shownRows, rowsLoad, botVars, modal, actions>>

Post ==
    /\ action.what \in {"block", "unblock"}
    /\ dv[action.pair] = IF action.what = "block" THEN "free" ELSE "blocked"
    /\ dv' = [dv EXCEPT ![action.pair] = Outcome(action.what)]
    /\ action' = [action EXCEPT !.what = IF @ = "block" THEN "blocked" ELSE "unblocked"]
    /\ UNCHANGED <<shownRows, rowsLoad, submitting, botVars, modal, actions,
                   troubles, unsure>>

\* A bug: the copy is not patched before it is fetched again.
AnsweredBug ==
    /\ action.what \in {"blocked", "unblocked"}
    /\ action' = [action EXCEPT !.what = "fetch"]
    /\ rowsLoad' = Asked
    /\ UNCHANGED <<dv, shownRows, submitting, botVars, modal, actions, troubles, unsure>>

\* patchDvState, then fetchDv. The action ends with the fetch.
Answered ==
    /\ action.what \in {"blocked", "unblocked"}
    /\ shownRows' = [shownRows EXCEPT ![action.pair] =
                       IF @ = "hidden" THEN @
                       ELSE IF action.what = "blocked" THEN "blocked" ELSE "free"]
    /\ action' = [action EXCEPT !.what = "fetch"]
    /\ rowsLoad' = Asked
    /\ UNCHANGED <<dv, submitting, botVars, modal, actions, troubles, unsure>>

----------------------------------------------------------------------------
(* Quarantine *)

\* The context handler asks Power Platform for every bot.
ServerReadsBots(f) ==
    /\ botLoad[f] = Asked
    /\ botLoad' = [botLoad EXCEPT ![f] = Read(isolated)]
    /\ UNCHANGED <<rowVars, isolated, shownBots, botAction, submittingBot,
                   overlapped, modal, actions, troubles, unsure>>

\* The end of an action clears the one slot for the bot being submitted,
\* whichever bot it names.
EndFetch(f) ==
    /\ botLoad' = [botLoad EXCEPT ![f] = Ended]
    /\ botAction' = [o \in Ops |-> IF o = f THEN NoAction ELSE botAction[o]]
    /\ submittingBot' = IF f \in Ops THEN Nobody ELSE submittingBot

BotsArrive(f) ==
    /\ botLoad[f].at = "read"
    /\ shownBots' = botLoad[f].value
    /\ unsure' = (unsure \ Bots) \cup botLoad[f].since
    /\ EndFetch(f)
    /\ UNCHANGED <<rowVars, isolated, overlapped, modal, actions, troubles>>

\* The context failed to load: the quarantine card shows an error above the
\* bots of the context before.
BotsFail(f) ==
    /\ botLoad[f] # Ended
    /\ Trouble
    /\ EndFetch(f)
    /\ UNCHANGED <<rowVars, isolated, shownBots, overlapped, modal, actions, unsure>>

AskQuarantine(b) ==
    /\ modal = NoAction
    /\ shownBots # Unloaded
    /\ submittingBot # b
    /\ modal' = [what |-> IF b \in shownBots THEN "unquarantine" ELSE "quarantine",
                 pair |-> b]
    /\ UNCHANGED <<rowVars, botVars, actions, troubles, unsure>>

\* executeQuarantineAction, up to the request.
ConfirmQuarantine(o) ==
    /\ modal.what \in {"quarantine", "unquarantine"}
    /\ actions < MaxActions
    /\ botAction[o] = NoAction
    /\ actions' = actions + 1
    /\ modal' = NoAction
    /\ submittingBot' = modal.pair
    /\ botAction' = [botAction EXCEPT ![o] = modal]
    /\ overlapped' = (overlapped \/ \E other \in Ops : botAction[other] # NoAction)
    /\ UNCHANGED <<rowVars, isolated, shownBots, botLoad, troubles, unsure>>

Sent(o) == botAction[o].what \in {"quarantine", "unquarantine"}

Effect(o) == IF botAction[o].what = "quarantine" THEN isolated \cup {botAction[o].pair}
             ELSE isolated \ {botAction[o].pair}

PostQuarantine(o) ==
    /\ Sent(o)
    /\ isolated' = Effect(o)
    /\ botAction' = [botAction EXCEPT ![o].what = "answered"]
    /\ UNCHANGED <<rowVars, shownBots, botLoad, submittingBot, overlapped, modal,
                   actions, troubles, unsure>>

\* It fails before or after it took effect; nothing is fetched again.
QuarantineFails(o) ==
    /\ Sent(o)
    /\ Trouble
    /\ isolated' \in {isolated, Effect(o)}
    /\ unsure' = unsure \cup {botAction[o].pair}
    /\ EndFetch(o)
    /\ UNCHANGED <<rowVars, shownBots, overlapped, modal, actions>>

\* A bug: the answered agent does not replace the row.
QuarantineAnsweredBug(o) ==
    /\ botAction[o].what = "answered"
    /\ botAction' = [botAction EXCEPT ![o].what = "fetch"]
    /\ botLoad' = [botLoad EXCEPT ![o] = Asked]
    /\ UNCHANGED <<rowVars, isolated, shownBots, submittingBot, overlapped, modal,
                   actions, troubles, unsure>>

\* The answer carries the bot's state, as the handler read it after the post;
\* it replaces the row, then the whole context is fetched.
QuarantineAnswered(o) ==
    /\ botAction[o].what = "answered"
    /\ shownBots' = (shownBots \ {botAction[o].pair}) \cup (isolated \cap {botAction[o].pair})
    /\ botAction' = [botAction EXCEPT ![o].what = "fetch"]
    /\ botLoad' = [botLoad EXCEPT ![o] = Asked]
    /\ UNCHANGED <<rowVars, isolated, submittingBot, overlapped, modal, actions,
                   troubles, unsure>>

----------------------------------------------------------------------------
\* Another administrator, the agent sync, or the POST handler of the same
\* route that patches one row.
PatchRow(p) ==
    /\ Trouble
    /\ \E flag \in Flags \ {dv[p]} : dv' = [dv EXCEPT ![p] = flag]
    /\ unsure' = unsure \cup {p}
    /\ rowsLoad' = Noting(rowsLoad, p)
    /\ UNCHANGED <<shownRows, action, submitting, botVars, modal, actions>>

ElsewhereQuarantined(b) ==
    /\ Trouble
    /\ isolated' = (isolated \ {b}) \cup ({b} \ isolated)
    /\ unsure' = unsure \cup {b}
    /\ botLoad' = [f \in DOMAIN botLoad |-> Noting(botLoad[f], b)]
    /\ UNCHANGED <<rowVars, shownBots, botAction, submittingBot, overlapped,
                   modal, actions>>

Init ==
    /\ dv \in [Pairs -> Flags]
    /\ shownRows = [p \in Pairs |-> "hidden"]
    /\ rowsLoad = Asked
    /\ modal = NoAction /\ action = NoAction /\ submitting = FALSE
    /\ isolated \in SUBSET Bots
    /\ shownBots = Unloaded
    /\ botLoad = [f \in Ops \cup {Nobody} |-> IF f = Nobody THEN Asked ELSE Ended]
    /\ botAction = [o \in Ops |-> NoAction]
    /\ submittingBot = Nobody
    /\ actions = 0 /\ troubles = 0 /\ unsure = {} /\ overlapped = FALSE

RowStep == ServerReadsRows \/ RowsArrive \/ RowsFail
           \/ Refused \/ PostFails \/ Post \/ Answered

Next ==
    \/ RowStep
    \/ \E what \in {"block", "unblock"}, p \in Pairs : Ask(what, p)
    \/ Cancel \/ Confirm
    \/ \E f \in Ops \cup {Nobody} : ServerReadsBots(f) \/ BotsArrive(f) \/ BotsFail(f)
    \/ \E o \in Ops : \/ ConfirmQuarantine(o) \/ PostQuarantine(o)
                      \/ QuarantineFails(o) \/ QuarantineAnswered(o)
    \/ \E b \in Bots : AskQuarantine(b) \/ ElsewhereQuarantined(b)
    \/ \E p \in Pairs : PatchRow(p)

Spec == Init /\ [][Next]_consoleVars

\* Requests are answered: each server call behind them has a timeout.
FairSpec == Spec /\ WF_consoleVars(RowStep)

----------------------------------------------------------------------------
(* Properties *)

Loads(values, things) ==
    {Ended, Asked} \cup [at : {"read"}, value : values, since : SUBSET things]

\* Every variable stays in its set.
TypeOK ==
    /\ dv \in [Pairs -> Flags] /\ shownRows \in [Pairs -> Flags]
    /\ rowsLoad \in Loads([Pairs -> Flags], Pairs)
    /\ \A a \in {modal, action} \cup {botAction[o] : o \in Ops} :
         a.pair \in Pairs \cup Bots \cup {Nobody}
    /\ submitting \in BOOLEAN /\ overlapped \in BOOLEAN
    /\ isolated \subseteq Bots /\ shownBots \in {Unloaded} \cup SUBSET Bots
    /\ \A f \in Ops \cup {Nobody} : botLoad[f] \in Loads(SUBSET Bots, Bots)
    /\ submittingBot \in Bots \cup {Nobody}
    /\ actions \in 0..MaxActions /\ troubles \in 0..MaxTroubles
    /\ unsure \subseteq Pairs \cup Bots

\* Once nothing is in flight, the console shows what Dataverse has, also when
\* the fetch after an action failed; an assignment changed elsewhere since the
\* last fetch, or by an action whose answer was a failure, is excused.
RowsAreCurrent ==
    rowsLoad = Ended /\ Quiet =>
        \A p \in Pairs \ unsure : shownRows[p] = dv[p]

\* The same for the quarantined bots, unless two actions overlapped: then the
\* context read first may arrive last.
BotsAreCurrent ==
    /\ \A f \in DOMAIN botLoad : botLoad[f] = Ended
    /\ \A o \in Ops : botAction[o] = NoAction
    /\ shownBots # Unloaded /\ ~overlapped
    => \A b \in Bots \ unsure : b \in shownBots <=> b \in isolated

\* Whatever fails, the buttons of the user actions are enabled again.
Enabled == ~submitting
ConsoleComesBack == []<>Enabled
====
