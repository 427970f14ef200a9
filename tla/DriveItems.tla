----------------------------- MODULE DriveItems -----------------------------
(***************************************************************************)
(* The drive_items stage of the graph_ingest job                           *)
(* (worker/app/jobs/graph_ingest.py): one drive of Microsoft Graph, its    *)
(* mirror in msgraph_drive_items, the delta cursor that says how far the   *)
(* mirror has come, and the switch between full and test mode that resets  *)
(* the cursor and prunes the mirror.                                       *)
(*                                                                         *)
(* Graph is a log of changes.  A position of the log stands for a delta    *)
(* link as well as for what Graph says of an item at that moment, so a row *)
(* is the position of the change it was written from, and a batch is a set *)
(* of positions: a later entry of a listing is a higher position.          *)
(* Every page of a listing carries one entry, so that a call may fail      *)
(* between any two entries.  JobScheduler keeps the runs of the job apart: *)
(* there is one at a time.  The stage handles one drive after the other,   *)
(* and a drive shares nothing with the others but the run.                 *)
(***************************************************************************)
EXTENDS Integers, Sequences, FiniteSets, FiniteSetsExt

CONSTANTS
    Items,
    TestScopes,      \* test mode, with a group or another
    FlushEvery,      \* flush_every
    MaxRetries,      \* DB_WRITE_MAX_RETRIES
    CursorsExpire,   \* Graph may answer 410 to a delta link
    RepeatsItems,    \* a listing may name an item more than once
    MaxChanges, MaxSwitches, MaxFaults  \* bound the exploration

ASSUME DriveAssumption ==
    /\ FlushEvery \in Nat \ {0} /\ MaxRetries \in Nat
    /\ "full" \notin TestScopes
    /\ CursorsExpire \in BOOLEAN /\ RepeatsItems \in BOOLEAN
    /\ MaxChanges \in Nat /\ MaxSwitches \in Nat /\ MaxFaults \in Nat

VARIABLES
    log,         \* Graph: the changes of the drive's items so far
    mirror,      \* mirror[i]: the change the row of i was written from, 0: no row
    granted,     \* items with rows in msgraph_drive_item_permissions
    cursor,      \* msgraph_delta_state.delta_link of the drive
    drive,       \* the row of the drive in msgraph_drives
    savedScope,  \* graph_sync_mode_state
    run,         \* the running graph_ingest job
    relisted,    \* history: where the last full listing was taken
    mixed,       \* history: where item i was last listed as live and as removed
    switches, faults

bookkeeping == <<relisted, mixed, switches>>
vars == <<log, mirror, granted, cursor, drive, savedScope, run, bookkeeping, faults>>

NoCursor == -1
Scopes == {"full"} \cup TestScopes
Positions == 1..MaxChanges

\* pc: the stage, or the place in the drive_items stage;
\* covered: full mode, or the drive is in scope["drive_ids"];
\* listed: the drives stage has run;  ended: the last page was read.
NoRun == [pc |-> "idle", scope |-> "full", covered |-> FALSE, listed |-> FALSE,
          byCursor |-> FALSE, todo |-> {}, token |-> NoCursor, active |-> {},
          removed |-> {}, ended |-> FALSE, incomplete |-> FALSE, retries |-> 0]

Fault == faults < MaxFaults /\ faults' = faults + 1

\* The last change of item i among the first n, 0 if there is none.
Last(i, n) == Max({p \in 1..n : log[p].item = i} \cup {0})

\* Graph has item i, and the mirror says so.
Exists(i) == Last(i, Len(log)) > 0 /\ log[Last(i, Len(log))].live
Shown(i) == mirror[i] > 0 /\ log[mirror[i]].live

Init ==
    /\ log = <<>>
    /\ mirror = [i \in Items |-> 0]
    /\ granted = {}
    /\ cursor = NoCursor
    /\ drive = "absent"
    /\ savedScope = "full"
    /\ run = NoRun
    /\ relisted = 0
    /\ mixed = [i \in Items |-> 0]
    /\ switches = 0
    /\ faults = 0

-----------------------------------------------------------------------------
(* Microsoft Graph. *)

\* An item is created, changed or restored (live), or deleted.
Change(i, live) ==
    /\ Len(log) < MaxChanges
    /\ live \/ Exists(i)
    /\ log' = Append(log, [item |-> i, live |-> live])
    /\ UNCHANGED <<mirror, granted, cursor, drive, savedScope, run, bookkeeping, faults>>

\* What a listing by a delta link may hold: the latest state of the items that
\* changed since then, and with RepeatsItems any of the changes before it.
ChangesSince(n) ==
    LET latest == {p \in n + 1 .. Len(log) : p = Last(log[p].item, Len(log))}
    IN  IF RepeatsItems THEN {latest \cup s : s \in SUBSET (n + 1 .. Len(log))}
                        ELSE {latest}

\* A full listing holds the items that exist, and nothing of those that do not.
Existing == {Last(i, Len(log)) : i \in {j \in Items : Exists(j)}}

-----------------------------------------------------------------------------
(* run_graph_ingest up to the drive_items stage. *)

\* The run reads the test_mode flag and the scope of the run before, and
\* forgets the cursors when the scope is another one.
StartRun(s) ==
    /\ run.pc = "idle"
    /\ run' = [NoRun EXCEPT !.pc = "drives", !.scope = s]
    /\ \/ s = savedScope /\ UNCHANGED <<cursor, switches>>
       \/ /\ s # savedScope
          /\ switches < MaxSwitches /\ switches' = switches + 1
          /\ cursor' = NoCursor
    /\ UNCHANGED <<log, mirror, granted, drive, savedScope, relisted, mixed, faults>>

\* The drives stage finds the drive: its row is upserted as available.
ListDriveBug ==
    /\ run.pc = "drives"
    /\ drive' = IF drive = "absent" THEN "available" ELSE drive
    /\ run' = [run EXCEPT !.pc = "items", !.covered = TRUE, !.listed = TRUE]
    /\ UNCHANGED <<log, mirror, granted, cursor, savedScope, bookkeeping, faults>>
ListDrive ==
    /\ run.pc = "drives"
    /\ drive' = "available"
    /\ run' = [run EXCEPT !.pc = "items", !.covered = TRUE, !.listed = TRUE]
    /\ UNCHANGED <<log, mirror, granted, cursor, savedScope, bookkeeping, faults>>

\* The drives stage does not find it: the drive is no one's of the test
\* group, or its owner's listing failed, which may mark it unavailable.  The
\* scope of test mode is what the stage has found.
MissDrive ==
    /\ run.pc = "drives"
    /\ \/ run.scope # "full" /\ UNCHANGED faults
       \/ run.scope = "full" /\ Fault
    /\ drive' \in {drive, IF drive = "absent" THEN "absent" ELSE "unavailable"}
    /\ run' = [run EXCEPT !.pc = "items", !.covered = run.scope = "full",
                          !.listed = TRUE]
    /\ UNCHANGED <<log, mirror, granted, cursor, savedScope, bookkeeping>>

\* A stage named in skip_stages.
SkipStage ==
    /\ Fault
    /\ \/ /\ run.pc = "drives"
          /\ run' = [run EXCEPT !.pc = "items", !.covered = run.scope = "full"]
       \/ run.pc = "items" /\ run' = [run EXCEPT !.pc = "permissions"]
       \/ run.pc = "permissions" /\ run' = [run EXCEPT !.pc = "prune"]
    /\ UNCHANGED <<log, mirror, granted, cursor, drive, savedScope, bookkeeping>>

-----------------------------------------------------------------------------
(* _ingest_drive_items, for the drive. *)

\* The drive may be processed.  When the drives stage has left no drives in a
\* test scope, those in the database whose owners are in scope are taken.
Eligible == drive = "available" /\ (run.covered \/ run.scope # "full")

\* The delta link is read; without one the drive is listed from its root.
OpenDrive ==
    /\ run.pc = "items"
    /\ Eligible
    /\ run' = [run EXCEPT !.pc = "open", !.covered = TRUE,
                          !.byCursor = cursor # NoCursor]
    /\ UNCHANGED <<log, mirror, granted, cursor, drive, savedScope, bookkeeping, faults>>

PassDrive ==
    /\ run.pc = "items"
    /\ drive # "available" \/ ~run.covered
    /\ run' = [run EXCEPT !.pc = "permissions"]
    /\ UNCHANGED <<log, mirror, granted, cursor, drive, savedScope, bookkeeping, faults>>

\* The first page.  Its listing ends at the present, which is what the delta
\* link of its last page stands for.
StartListing ==
    /\ run.pc = "open"
    /\ \E entries \in IF run.byCursor THEN ChangesSince(cursor) ELSE {Existing} :
          /\ run' = [run EXCEPT !.pc = "list", !.token = Len(log), !.todo = entries]
          /\ mixed' = [i \in Items |->
                 IF Cardinality({log[p].live : p \in {q \in entries : log[q].item = i}}) = 2
                 THEN Len(log) ELSE mixed[i]]
    /\ relisted' = IF run.byCursor THEN relisted ELSE Len(log)
    /\ UNCHANGED <<log, mirror, granted, cursor, drive, savedScope, switches,
                   faults>>

\* The next entry joins the batch of its kind, and a batch that has become
\* full is written.
TakeEntry ==
    /\ run.pc = "list" /\ run.todo # {}
    /\ LET p == Min(run.todo)
           batch == IF log[p].live THEN run.active ELSE run.removed
           full == Cardinality(batch) + 1 >= FlushEvery
       IN  run' = [run EXCEPT
               !.todo = @ \ {p},
               !.active = IF log[p].live THEN @ \cup {p} ELSE @,
               !.removed = IF log[p].live THEN @ ELSE @ \cup {p},
               !.pc = CASE ~full -> "list"
                        [] full /\ log[p].live -> "active"
                        [] OTHER -> "removed"]
    /\ UNCHANGED <<log, mirror, granted, cursor, drive, savedScope, bookkeeping, faults>>

\* The last page is read: what is left in the batches is written.
EndListing ==
    /\ run.pc = "list" /\ run.todo = {}
    /\ run' = [run EXCEPT !.pc = "active", !.ended = TRUE]
    /\ UNCHANGED <<log, mirror, granted, cursor, drive, savedScope, bookkeeping, faults>>

\* The rows after a batch is upserted: the last entry of an item is kept.
Upserted(batch) ==
    [i \in Items |-> Max({p \in batch : log[p].item = i} \cup
                         (IF \E p \in batch : log[p].item = i THEN {} ELSE {mirror[i]}))]

ItemsOf(batch) == {log[p].item : p \in batch}

\* upsert_active_sql and its commit.
WriteActive ==
    /\ run.pc = "active"
    /\ mirror' = Upserted(run.active)
    /\ run' = [run EXCEPT !.active = {}, !.pc = IF run.ended THEN "removed" ELSE "list"]
    /\ UNCHANGED <<log, granted, cursor, drive, savedScope, bookkeeping, faults>>

\* What follows the write of the removed batch, or giving it up.
AfterRemoved == [run EXCEPT !.removed = {}, !.retries = 0,
                            !.pc = IF run.ended THEN "cursor" ELSE "list"]

\* The removed items are marked as deleted and their permissions deleted, in
\* one transaction.
WriteRemovedBug ==
    /\ run.pc = "removed"
    /\ mirror' = Upserted(run.removed)
    /\ run' = AfterRemoved
    /\ UNCHANGED <<log, granted, cursor, drive, savedScope, bookkeeping, faults>>
WriteRemoved ==
    /\ run.pc = "removed"
    /\ mirror' = Upserted(run.removed)
    /\ granted' = granted \ ItemsOf(run.removed)
    /\ run' = AfterRemoved
    /\ UNCHANGED <<log, cursor, drive, savedScope, bookkeeping, faults>>

\* It fails with an error that is worth another attempt, and is rolled back.
RetryRemovedBug ==
    /\ run.pc = "removed" /\ run.removed # {}
    /\ run.retries <= MaxRetries
    /\ Fault
    /\ run' = [run EXCEPT !.retries = @ + 1]
    /\ UNCHANGED <<log, mirror, granted, cursor, drive, savedScope, bookkeeping>>
RetryRemoved ==
    /\ run.pc = "removed" /\ run.removed # {}
    /\ run.retries < MaxRetries
    /\ Fault
    /\ run' = [run EXCEPT !.retries = @ + 1]
    /\ UNCHANGED <<log, mirror, granted, cursor, drive, savedScope, bookkeeping>>

\* The attempts are used up: the batch is given up and the stage goes on.
ExhaustRemoved ==
    /\ run.pc = "removed" /\ run.removed # {}
    /\ run.retries = MaxRetries
    /\ Fault
    /\ run' = [AfterRemoved EXCEPT !.incomplete = TRUE]
    /\ UNCHANGED <<log, mirror, granted, cursor, drive, savedScope, bookkeeping>>

\* The cursor moves to the end of the listing if every write succeeded.
AdvanceCursorBug ==
    /\ run.pc = "cursor"
    /\ cursor' = run.token
    /\ run' = [run EXCEPT !.pc = "permissions"]
    /\ UNCHANGED <<log, mirror, granted, drive, savedScope, bookkeeping, faults>>
AdvanceCursor ==
    /\ run.pc = "cursor"
    /\ cursor' = IF run.incomplete THEN cursor ELSE run.token
    /\ run' = [run EXCEPT !.pc = "permissions"]
    /\ UNCHANGED <<log, mirror, granted, drive, savedScope, bookkeeping, faults>>

\* 410 for the delta link: the cursor is forgotten and the second attempt
\* lists the drive from its root.
CursorGone ==
    /\ CursorsExpire /\ Fault
    /\ run.pc \in {"open", "list"} /\ run.byCursor
    /\ cursor' = NoCursor
    /\ run' = [run EXCEPT !.pc = "open", !.byCursor = FALSE, !.todo = {},
                          !.active = {}, !.removed = {}, !.incomplete = FALSE]
    /\ UNCHANGED <<log, mirror, granted, drive, savedScope, bookkeeping>>

\* Any other error of Graph: the batches are dropped and the stage goes on
\* with the next drive.  An error that will not go away marks this one.
ListingFails ==
    /\ run.pc \in {"open", "list"}
    /\ Fault
    /\ drive' \in {drive, "unavailable"}
    /\ run' = [run EXCEPT !.pc = "permissions"]
    /\ UNCHANGED <<log, mirror, granted, cursor, savedScope, bookkeeping>>

-----------------------------------------------------------------------------
(* What follows in run_graph_ingest. *)

\* Items the permissions stage may look at: any of them may be read and gets
\* rows, or is found without permissions, or gone.
Candidates == IF Eligible THEN {i \in Items : Shown(i)} ELSE {}

ScanPermissions(found) ==
    /\ run.pc = "permissions"
    /\ found \subseteq Candidates
    /\ granted' = (granted \ Candidates) \cup found
    /\ \E c \in {run.covered, Eligible} :
          run' = [run EXCEPT !.pc = "prune", !.covered = run.covered \/ c]
    /\ UNCHANGED <<log, mirror, cursor, drive, savedScope, bookkeeping, faults>>

\* At the end of a run in test mode everything of a drive out of scope is
\* deleted in one transaction, provided the drives stage has run.
OutOfScope == run.scope # "full" /\ run.listed /\ ~run.covered

PruneBug ==
    /\ run.pc = "prune" /\ OutOfScope
    /\ mirror' = [i \in Items |-> 0]
    /\ granted' = {}
    /\ drive' = "absent"
    /\ run' = [run EXCEPT !.pc = "save"]
    /\ UNCHANGED <<log, cursor, savedScope, bookkeeping, faults>>
Prune ==
    /\ run.pc = "prune" /\ OutOfScope
    /\ mirror' = [i \in Items |-> 0]
    /\ granted' = {}
    /\ cursor' = NoCursor
    /\ drive' = "absent"
    /\ run' = [run EXCEPT !.pc = "save"]
    /\ UNCHANGED <<log, savedScope, bookkeeping, faults>>

KeepDrive ==
    /\ run.pc = "prune" /\ ~OutOfScope
    /\ run' = [run EXCEPT !.pc = "save"]
    /\ UNCHANGED <<log, mirror, granted, cursor, drive, savedScope, bookkeeping, faults>>

SaveScope ==
    /\ run.pc = "save"
    /\ savedScope' = run.scope
    /\ run' = NoRun
    /\ UNCHANGED <<log, mirror, granted, cursor, drive, bookkeeping, faults>>

\* The run ends with an exception (an error of the database outside of the
\* retried writes, of Graph in another stage) or the worker stops.  What was
\* committed stays.
Abort ==
    /\ run.pc # "idle"
    /\ Fault
    /\ run' = NoRun
    /\ UNCHANGED <<log, mirror, granted, cursor, drive, savedScope, bookkeeping>>

-----------------------------------------------------------------------------
Stage ==
    \/ ListDrive \/ MissDrive \/ SkipStage
    \/ OpenDrive \/ PassDrive
    \/ StartListing \/ TakeEntry \/ EndListing
    \/ WriteActive
    \/ WriteRemoved \/ RetryRemoved \/ ExhaustRemoved
    \/ AdvanceCursor
    \/ CursorGone \/ ListingFails
    \/ \E found \in SUBSET Items : ScanPermissions(found)
    \/ Prune \/ KeepDrive \/ SaveScope

Next ==
    \/ \E i \in Items, live \in BOOLEAN : Change(i, live)
    \/ \E s \in Scopes : StartRun(s)
    \/ Stage
    \/ Abort

Spec == Init /\ [][Next]_vars

\* The scheduler starts the job again and again, and a run goes on until it
\* ends.  Failures are bounded by MaxFaults: from some moment on every call
\* succeeds.  Nothing is assumed about Graph's changes.
FairSpec ==
    /\ Spec
    /\ WF_vars(\E s \in Scopes : StartRun(s))
    /\ WF_vars(Stage)

-----------------------------------------------------------------------------
(* Properties. *)

Run == [pc : {"idle", "drives", "items", "open", "list", "active", "removed",
              "cursor", "permissions", "prune", "save"},
        scope : Scopes, covered : BOOLEAN, listed : BOOLEAN, byCursor : BOOLEAN,
        todo : SUBSET Positions, token : {NoCursor} \cup 0..MaxChanges,
        active : SUBSET Positions, removed : SUBSET Positions, ended : BOOLEAN,
        incomplete : BOOLEAN, retries : 0..MaxRetries]

\* Every variable holds a value of its type: the retries of a write stay
\* within DB_WRITE_MAX_RETRIES.
TypeOK ==
    /\ log \in Seq([item : Items, live : BOOLEAN]) /\ Len(log) <= MaxChanges
    /\ mirror \in [Items -> 0..Len(log)]
    /\ granted \subseteq Items
    /\ cursor \in {NoCursor} \cup 0..Len(log)
    /\ drive \in {"absent", "available", "unavailable"}
    /\ savedScope \in Scopes
    /\ run \in Run
    /\ relisted \in 0..Len(log)
    /\ mixed \in [Items -> 0..Len(log)]
    /\ switches \in 0..MaxSwitches
    /\ faults \in 0..MaxFaults

\* The mirror shows what the first n changes made of item i, or something
\* later.  An item that was removed needs no row.
Reflects(i, n) ==
    LET p == Last(i, n)
    IN  \/ p = 0
        \/ mirror[i] >= p
        \/ ~log[p].live /\ ~Shown(i)

\* The two ways in which a change is lost for good.  A removal that no delta
\* listing will ever name again: a full listing came after it, and full
\* listings do not name what is gone.  And an item that one listing names both
\* as live and as removed: the entries go to different batches, which are not
\* written in the order of the entries.
Lost(i, n) ==
    LET p == Last(i, n)
    IN  /\ p > 0
        /\ \/ ~log[p].live /\ p <= relisted
           \/ p <= mixed[i]

\* The cursor never runs ahead of the mirror: whatever Graph changed up to the
\* delta link in msgraph_delta_state is in the rows, through crashes, failed
\* writes, expired links, switches to test mode and back, and pruning, but for
\* what is lost in the two ways above.
CursorCoversItsChanges ==
    cursor # NoCursor => \A i \in Items : Reflects(i, cursor) \/ Lost(i, cursor)

\* An item that the mirror holds as removed, or does not hold, has no rows of
\* permissions or grants left: the removal deletes them with it, and no later
\* stage brings them back.
OnlyShownItemsAreGranted == \A i \in granted : Shown(i)

\* Whatever changes in Graph reaches the mirror, unless a later change of the
\* same item takes its place or it is lost as above: failed runs are made good
\* by later ones, a cursor that was not advanced is used again, and a drive
\* marked unavailable comes back.  In test mode a drive may be out of the scope,
\* and is pruned.
ChangesArrive ==
    \A i \in Items, n \in Positions :
        []<>(n <= Len(log) =>
            \/ \E m \in n..Len(log) : Reflects(i, m) \/ Lost(i, m)
            \/ drive = "absent" \/ savedScope # "full")

\* What WORKER-README.md:125 says of the items: latest-state rows with soft
\* deletes.  When no run is active and the cursor has reached Graph's last
\* change, the rows that are not deleted are the items that exist.
LatestState ==
    run.pc = "idle" /\ cursor = Len(log) => \A i \in Items : Shown(i) <=> Exists(i)
=============================================================================
