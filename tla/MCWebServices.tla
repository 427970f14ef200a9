----------------------------- MODULE MCWebServices -----------------------------
(***************************************************************************)
(* Five services of the web process that share no state: the quarantine of *)
(* Copilot agents, the license, the gate in front of every request, the    *)
(* revocation of permissions and the Dataverse token.  A behaviour is one  *)
(* service's, its subject, whose variables v1, v2, ... are, under the      *)
(* names it gives them.  Those a service does not need are 0.              *)
(***************************************************************************)
EXTENDS Naturals, FiniteSets, TLC

CONSTANTS
    Requests, RoleTTL, RoleTime, MaxSignIns, RoleChanges,               \* the quarantine
    Checks, Texts, LicenseTTL, LicenseTime, LicenseChanges,             \* the license
    Tabs, Groups, Member, MaxRotations, MaxBoots, MaxTokens,            \* the gate
    Permissions, Principals, Kinds, MaxClicks, MaxFaults,               \* the revocation
    Configs, NotSet, NoEntry, Life, Margin, Pages, Troubles,            \* the token, with
    LastMoment, MaxConfigures                                           \* Requests again

VARIABLES subject, v1, v2, v3, v4, v5, v6, v7, v8, v9, v10, v11, v12, v13, v14, v15, v16, v17

from14 == <<v14, v15, v16, v17>>
from13 == <<v13, from14>>
from11 == <<v11, v12, from13>>
variables == <<subject, v1, v2, v3, v4, v5, v6, v7, v8, v9, v10, from11>>

No14 == v14 = 0 /\ v15 = 0 /\ v16 = 0 /\ v17 = 0
No13 == v13 = 0 /\ No14
No11 == v11 = 0 /\ v12 = 0 /\ No13

-----------------------------------------------------------------------------
(* The services and the names of their variables. *)

clock == v1
roles == v2
consented == v3
changes == v4
signedIn == v5
signIn == v6
store == v7
tokens == v8
answer == v9
req == v10
bot == v11
raced == v12
primed == v13
Quarantine == INSTANCE CopilotQuarantine WITH MaxTime <- RoleTime, MaxChanges <- RoleChanges

now == v1
self == v2
local == v3
inserted == v4
slot == v5
keyFile == v6
tenantKnown == v7
loaded == v8
cache == v9
check == v10
seen == v11
edits == v12
Licensing == INSTANCE License WITH
    TTL <- LicenseTTL, MaxTime <- LicenseTime, MaxChanges <- LicenseChanges

vault == v1
reachable == v2
env == v3
good == v4
proxyGood == v5
boot == v6
session == v7
csrf == v8
made == v9
tab == v10
rotations == v11
fetched == v12
crossed == v13
Gate == INSTANCE RequestGate

kind == v1
holds == v2
remote == v3
listed == v4
rows == v5
recent == v6
scan == v7
revokeLog == v8
request == v9
view == v10
refreshing == v11
step == v12
targets == v13
status == v14
reload == v15
clicks == v16
faults == v17
Revoke == INSTANCE PermissionRevoke

moment == v1
config == v2
configures == v3
client == v4
cached == v5
shared == v6
acq == v7
call == v8
rebuilds == v9
overtaken == v10
Dataverse == INSTANCE DataverseToken WITH None <- NoEntry

\* Bounds and durations are counts. A group is an identifier, neither a missing
\* value nor an error; a license text expires at some moment and is neither the
\* missing license nor the emulated one; requests are finitely many, and NoEntry is
\* no request and no token.
ASSUME ServicesAssumption ==
    /\ {RoleTTL, RoleTime, MaxSignIns, RoleChanges} \subseteq Nat
    /\ {LicenseTTL, LicenseTime, LicenseChanges} \subseteq Nat
    /\ Licensing!None \notin Texts /\ Licensing!Emulated \notin Texts
    /\ \A t \in Texts : t.expires \in Nat
    /\ "none" \notin Groups /\ "failed" \notin Groups
    /\ {MaxRotations, MaxTokens} \subseteq Nat /\ MaxBoots \in Nat \ {0}
    /\ {MaxClicks, MaxFaults} \subseteq Nat
    /\ IsFiniteSet(Requests) /\ NoEntry \notin Requests /\ NoEntry \notin Dataverse!Token
    /\ {LastMoment, MaxConfigures, Life} \subseteq Nat /\ Pages \in Nat \ {0}

-----------------------------------------------------------------------------

Is(s) == subject = s /\ UNCHANGED subject

Init ==
    \/ subject = "quarantine" /\ Quarantine!Init /\ No14
    \/ subject = "license" /\ Licensing!Init /\ No13
    \/ subject = "gate" /\ Gate!Init /\ No14
    \/ subject = "revoke" /\ Revoke!Init
    \/ subject = "dataverse" /\ Dataverse!Init /\ No11

Next ==
    \/ Is("quarantine") /\ Quarantine!Next /\ UNCHANGED from14
    \/ Is("license") /\ Licensing!Next /\ UNCHANGED from13
    \/ Is("gate") /\ Gate!Next /\ UNCHANGED from14
    \/ Is("revoke") /\ Revoke!Next
    \/ Is("dataverse") /\ Dataverse!Next /\ UNCHANGED from11

Spec == Init /\ [][Next]_variables

-----------------------------------------------------------------------------
(* Properties *)

\* Every variable of the service holds a value of its type.
TypeOK ==
    /\ subject = "quarantine" => Quarantine!TypeOK
    /\ subject = "license" => Licensing!TypeOK
    /\ subject = "gate" => Gate!TypeOK
    /\ subject = "revoke" => Revoke!TypeOK
    /\ subject = "dataverse" => Dataverse!TypeOK

\* Whoever switches an agent has held one of the roles within the last RoleTTL
\* before the handler let the request through, although answers are cached and
\* written by requests that overtake one another (copilot-quarantine.ts).
PostsAreEntitled == subject = "quarantine" => Quarantine!PostsAreEntitled

\* Unless a call was under way during it, a sign-out leaves no refresh token of
\* the administrator behind, and after a sign-in nothing that belongs to an
\* earlier one is served (delegated-auth-store.ts, copilot-quarantine.ts).
SignInsAreKept ==
    subject = "quarantine" => Quarantine!SignedOutIsForgotten /\ Quarantine!LatestSignInCounts

\* Although evaluations share a cache and overtake one another, an answer is one
\* that the license in force deserved within the last TTL, and job control is
\* granted only under a license that names it, is signed, canonical and of this
\* tenant, and had not expired TTL ago (license.ts, license.py).
LicenseAnswersHold ==
    subject = "license" => Licensing!AnswersAreRecent /\ Licensing!PaidNeedsALicense

\* Who gets to a handler is in a group that was the administrators' group while
\* the request ran, unless the vault failed meanwhile; what handlers fall back on
\* then is the latest value it gave any of them, unless two of their lookups
\* overlapped; and a form is refused for its token only after a restart, or when
\* pages of two tabs were loaded side by side (runtime-env.ts,
\* proxy-runtime-env.ts, auth.ts, csrf.ts).
GateHolds ==
    subject = "gate" =>
        Gate!AdmittedByTheVault /\ Gate!FallbackIsNewest /\ Gate!FreshFormsPass

\* "Success: access revoked." is shown only when Graph enforces none of the
\* permissions the click was about and the log says so; and however requests
\* interleave, only direct permissions without an owner role are ever removed
\* (drive-item-permissions/route.ts, item-tables.tsx).
RevokeAnswersHold ==
    subject = "revoke" => Revoke!SuccessIsRevoked /\ Revoke!ProtectedPermissionsStay

\* Requests carry a token of the client of the settings that its acquisition
\* read, a token in the cache is the current client's unless a former client's
\* came after it, and requests share the acquisitions (dataverse.ts).
TokensFollowTheConfiguration ==
    subject = "dataverse" =>
        Dataverse!TokensFollowTheConfiguration /\ Dataverse!AcquisitionsAreShared

-----------------------------------------------------------------------------
(* The instance that is checked. *)

\* A license the process accepts, one altered after it was signed, and one of
\* another tenant.
Signed == [kind |-> "text", delimiters |-> 1, signature |-> "right", schema |-> TRUE,
           canonical |-> TRUE, tenant |-> "ours", expires |-> 1, features |-> {"job_control"}]
LicenseTexts == {Signed, [Signed EXCEPT !.canonical = FALSE], [Signed EXCEPT !.tenant = "theirs"]}

\* Requests, checks, tabs and permissions are the same two, which are alike.
Interchangeable == Permutations(Requests)

=============================================================================
