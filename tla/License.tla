------------------------------ MODULE License ------------------------------
(***************************************************************************)
(* The license: its artifacts and the slot that names the one in force     *)
(* (web/app/api/license/route.ts), the emulated license of a local         *)
(* deployment (web/app/lib/local-testing-state.ts), and the evaluation,    *)
(* which web/app/lib/license.ts and worker/app/license.py do alike.        *)
(*                                                                         *)
(* An evaluation reads the slot, looks at the cache, and otherwise reads   *)
(* and checks the artifact; between the reads it waits, and the slot, the  *)
(* configuration and the cache move on.  Its result is kept under the key  *)
(* that was read at the start.  The two processes share the slot and no    *)
(* cache, so the model follows one of them, whichever it is.               *)
(***************************************************************************)
EXTENDS Naturals

CONSTANTS
    Checks,         \* evaluations that may be under way
    Texts,          \* the license texts that administrators upload
    TTL,            \* LICENSE_CACHE_TTL_SECONDS, in ticks
    MaxTime,
    MaxChanges      \* bound on changes of the slot and of the configuration

VARIABLES
    now,
    self,           \* the process that evaluates
    local,          \* LOCAL_DOCKER_DEPLOYMENT
    inserted,       \* the artifact an upload has inserted and not activated
    slot,           \* active_license_artifact, or local_testing_state
    keyFile,        \* the public key can be read
    tenantKnown,    \* ENTRA_TENANT_ID is set
    loaded,         \* cachedPublicKey
    cache,          \* cachedSummary
    check,          \* check[c]: an evaluation
    seen,           \* history: what an evaluation at a moment could find
    edits           \* number of changes, also the source of updated_at

world == <<self, local, inserted, slot, keyFile, tenantKnown, edits>>
licenseVars == <<now, world, loaded, cache, check, seen>>

Processes == {"web", "worker"}
Features == {"job_control", "agents_dashboard"}
Defaults == {"agents_dashboard"}        \* what a missing license leaves
None == [kind |-> "none"]
Emulated == [kind |-> "emulated"]
NoSlot == [holds |-> None, stamp |-> 0]
NoCheck == [at |-> "idle", key |-> NoSlot, began |-> 0, granted |-> {}]
Empty == [key |-> NoSlot, until |-> 0, granted |-> {}]  \* until 0: never served

Moment == [key |-> keyFile, tenant |-> tenantKnown, now |-> now]

Init ==
    /\ now = 0
    /\ self \in Processes
    /\ local \in BOOLEAN
    /\ inserted = None
    /\ slot = [holds |-> IF local THEN Emulated ELSE None, stamp |-> 0]
    /\ keyFile = TRUE /\ tenantKnown = TRUE
    /\ loaded = FALSE
    /\ cache = Empty
    /\ check = [c \in Checks |-> NoCheck]
    /\ seen = {Moment}
    /\ edits = 0

-----------------------------------------------------------------------------
(* What an artifact is worth.                                               *)

\* One delimiter, one signature without blanks, a payload of the schema.
WellFormed(t) ==
    /\ t.delimiters = 1
    /\ t.signature \in {"right", "wrong"}
    /\ t.schema

\* The signature is one of the canonical payload.
VerifiedBug(t, key) == WellFormed(t) /\ key /\ t.signature = "right"
Verified(t, key) == WellFormed(t) /\ t.canonical /\ key /\ t.signature = "right"

Expired(t, at) == t.expires < at

\* The features granted.  Whatever is wrong with the artifact, or cannot be
\* found out, leaves the defaults; a good one may grant less than those.
Granted(x, m) ==
    CASE x = None -> Defaults
      [] x = Emulated -> Features
      [] OTHER ->
            IF Verified(x, m.key) /\ m.tenant /\ x.tenant = "ours" /\ ~Expired(x, m.now)
            THEN x.features \cap Features ELSE Defaults

-----------------------------------------------------------------------------
(* Evaluations.                                                             *)

\* The slot, or the state of local testing, is the key of the cache.
ReadSlot(c) ==
    /\ check[c].at \in {"idle", "done"}
    /\ check' = [check EXCEPT ![c] =
            [NoCheck EXCEPT !.at = "lookup", !.key = slot, !.began = now]]
    /\ UNCHANGED <<now, world, loaded, cache, seen>>

ServesBug(key) == cache.until > now
Serves(key) == cache.key = key /\ cache.until > now

Answer(c, granted) ==
    check' = [check EXCEPT ![c].at = "done", ![c].granted = granted]

Hit(c) ==
    /\ check[c].at = "lookup"
    /\ Serves(check[c].key)
    /\ Answer(c, cache.granted)
    /\ UNCHANGED <<now, world, loaded, cache, seen>>

Keep(c, granted) ==
    /\ cache' = [key |-> check[c].key, until |-> now + TTL, granted |-> granted]
    /\ Answer(c, granted)

\* No artifact to read: the answer is at hand.
MissSimple(c) ==
    /\ check[c].at = "lookup"
    /\ ~Serves(check[c].key)
    /\ check[c].key.holds \in {None, Emulated}
    /\ Keep(c, Granted(check[c].key.holds, Moment))
    /\ UNCHANGED <<now, world, loaded, seen>>

Miss(c) ==
    /\ check[c].at = "lookup"
    /\ ~Serves(check[c].key)
    /\ check[c].key.holds \notin {None, Emulated}
    /\ check' = [check EXCEPT ![c].at = "row"]
    /\ UNCHANGED <<now, world, loaded, cache, seen>>

\* The public key is read for a well-formed text only, and once; a key that
\* cannot be read makes the license invalid, and this answer is kept too.
Inspect(c) ==
    LET x == check[c].key.holds IN
    /\ check[c].at = "row"
    /\ loaded' = (loaded \/ (keyFile /\ WellFormed(x) /\ x.canonical))
    /\ Keep(c, Granted(x, [Moment EXCEPT !.key = loaded \/ keyFile]))
    /\ UNCHANGED <<now, world, seen>>

-----------------------------------------------------------------------------
(* Administration.  Each step is a transaction; the artifact is kept and    *)
(* made to count in two, and the web process may die in between.            *)

\* clearLicenseCache, which runs in the web process.
Forget == cache' = IF self = "web" THEN Empty ELSE cache

Change ==
    /\ edits < MaxChanges
    /\ edits' = edits + 1

Insert(t) ==
    /\ ~local
    /\ inserted' = t
    /\ Forget
    /\ UNCHANGED <<now, self, local, slot, keyFile, tenantKnown, edits, loaded, check, seen>>

Activate(t) ==
    /\ Change
    /\ inserted = t
    /\ inserted' = None
    /\ slot' = [holds |-> t, stamp |-> edits']
    /\ Forget
    /\ UNCHANGED <<now, self, local, keyFile, tenantKnown, loaded, check, seen>>

ClearSlot ==
    /\ ~local
    /\ Change
    /\ slot' = NoSlot
    /\ Forget
    /\ UNCHANGED <<now, self, local, inserted, keyFile, tenantKnown, loaded, check, seen>>

\* The switch of local testing clears no cache: the key changes.
Emulate(on) ==
    /\ local
    /\ Change
    /\ slot' = [holds |-> IF on THEN Emulated ELSE None, stamp |-> edits']
    /\ UNCHANGED <<now, self, local, inserted, keyFile, tenantKnown, loaded, cache, check, seen>>

-----------------------------------------------------------------------------
(* The rest of the world.                                                   *)

See == seen' = seen \cup {Moment'}

Configure ==
    /\ Change
    /\ \/ keyFile' = ~keyFile /\ UNCHANGED tenantKnown
       \/ tenantKnown' = ~tenantKnown /\ UNCHANGED keyFile
    /\ UNCHANGED <<now, self, local, inserted, slot, loaded, cache, check>>
    /\ See

Restart ==
    /\ loaded' = FALSE
    /\ cache' = Empty
    /\ check' = [c \in Checks |-> NoCheck]
    /\ inserted' = IF self = "web" THEN None ELSE inserted
    /\ UNCHANGED <<now, self, local, slot, keyFile, tenantKnown, edits, seen>>

Tick ==
    /\ now < MaxTime
    /\ now' = now + 1
    /\ UNCHANGED <<world, loaded, cache, check>>
    /\ See

Next ==
    \/ \E c \in Checks :
        \/ ReadSlot(c)
        \/ Hit(c)
        \/ MissSimple(c)
        \/ Miss(c)
        \/ Inspect(c)
    \/ \E t \in Texts : Insert(t) \/ Activate(t)
    \/ ClearSlot
    \/ \E on \in BOOLEAN : Emulate(on)
    \/ Configure
    \/ Restart
    \/ Tick

Spec == Init /\ [][Next]_licenseVars

-----------------------------------------------------------------------------
(* Properties.                                                              *)

Holdings == {None, Emulated} \cup Texts
Slots == [holds : Holdings, stamp : 0 .. MaxChanges]

\* Types of the variables.
TypeOK ==
    /\ now \in 0 .. MaxTime /\ edits \in 0 .. MaxChanges
    /\ {local, keyFile, tenantKnown} \subseteq BOOLEAN
    /\ self \in Processes
    /\ inserted \in {None} \cup Texts
    /\ slot \in Slots
    /\ loaded \in BOOLEAN
    /\ cache \in [key : Slots, until : 0 .. MaxTime + TTL, granted : SUBSET Features]
    /\ check \in [Checks -> [at : {"idle", "lookup", "row", "done"},
            key : Slots, began : 0 .. MaxTime, granted : SUBSET Features]]
    /\ seen \subseteq [key : BOOLEAN, tenant : BOOLEAN, now : 0 .. MaxTime]

\* Was it so at a moment less than TTL before the evaluation began, or later?
\* The public key, once read, needs no file any more.
Recently(c, granted) ==
    \E m \in seen, key \in BOOLEAN :
        /\ m.now + TTL > check[c].began \/ m.now >= check[c].began
        /\ m.key => key
        /\ granted = Granted(check[c].key.holds, [m EXCEPT !.key = key])

\* An answer, granting or not, is one that the license in force when the
\* evaluation began deserved within the last TTL: no result of an earlier
\* license, and no older moment, is served, although other evaluations of
\* the process put their results into the same cache at any time.
AnswersAreRecent ==
    \A c \in Checks : check[c].at = "done" => Recently(c, check[c].granted)

\* Job control is granted under the emulated license of a local deployment,
\* or under a signed, canonical license of this tenant that names it and had
\* not expired TTL ago.
PaidNeedsALicense ==
    \A c \in Checks :
        LET x == check[c].key.holds IN
        check[c].at = "done" /\ "job_control" \in check[c].granted =>
            \/ local /\ x = Emulated
            \/ /\ x \in Texts
               /\ x.signature = "right" /\ x.canonical /\ x.delimiters = 1
               /\ x.tenant = "ours" /\ "job_control" \in x.features
               /\ check[c].began < x.expires + TTL + 1
=============================================================================
