-------------------------- MODULE DriveItemsProofs --------------------------
(***************************************************************************)
(* Proofs about DriveItems for any items, test scopes, batch sizes and     *)
(* numbers of changes, switches and faults: the delta cursor never runs    *)
(* ahead of the mirror, and only rows of shown items have permissions.     *)
(***************************************************************************)
EXTENDS DriveItems, FiniteSetTheorems, WellFoundedInduction, TLAPS

(***************************************************************************)
(* The largest and the smallest of some numbers                            *)
(***************************************************************************)

LEMMA SmallestOf ==
    ASSUME NEW S \in SUBSET Nat, S # {}
    PROVE  \E x \in S : \A y \in S : x <= y
<1>1. PICK x \in S : \A y \in S : ~(<<y, x>> \in OpToRel(<, Nat))
  BY NatLessThanWellFounded, WFMin
<1>2. \A y \in S : ~(y < x)
  BY <1>1 DEF OpToRel
<1>3. ASSUME NEW y \in S PROVE x <= y
  <2>1. x \in Nat /\ y \in Nat /\ ~(y < x)
    BY <1>2
  <2> QED BY <2>1
<1> QED BY <1>3

LEMMA LargestOf ==
    ASSUME NEW n \in Nat, NEW S \in SUBSET (0..n), S # {}
    PROVE  \E x \in S : \A y \in S : y <= x
<1> DEFINE T == {n - x : x \in S}
<1>1. T \in SUBSET Nat /\ T # {}
  <2>1. \A x \in S : x \in Nat /\ n - x \in Nat
    OBVIOUS
  <2> QED BY <2>1
<1>2. PICK t \in T : \A y \in T : t <= y
  BY <1>1, SmallestOf
<1>3. PICK x \in S : t = n - x
  OBVIOUS
<1>4. \A y \in S : y <= x
  BY <1>2, <1>3
<1> QED BY <1>3, <1>4

LEMMA MinIs ==
    ASSUME NEW S \in SUBSET Nat, S # {}
    PROVE  Min(S) \in S /\ \A y \in S : Min(S) <= y
BY SmallestOf DEF Min

LEMMA MaxIs ==
    ASSUME NEW n \in Nat, NEW S \in SUBSET (0..n), S # {}
    PROVE  Max(S) \in S /\ \A y \in S : y <= Max(S)
<1>1. \E x \in S : \A y \in S : x >= y
  BY LargestOf
<1>2. Max(S) \in S /\ \A y \in S : Max(S) >= y
  BY <1>1 DEF Max
<1> QED BY <1>2

(***************************************************************************)
(* The last change of an item                                              *)
(***************************************************************************)

Changes == [item : Items, live : BOOLEAN]

\* The changes of item i among the first n.
Of(i, n) == {p \in 1..n : log[p].item = i}

LEMMA LastIs ==
    ASSUME NEW i, NEW n \in Nat
    PROVE  /\ Last(i, n) \in 0..n
           /\ Last(i, n) > 0 => Last(i, n) \in 1..n /\ log[Last(i, n)].item = i
           /\ \A p \in 1..n : log[p].item = i => p <= Last(i, n)
<1> DEFINE S == Of(i, n) \cup {0}
<1>1. S \in SUBSET (0..n) /\ S # {}
  BY DEF Of
<1>2. Max(S) \in S /\ \A p \in S : p <= Max(S)
  BY <1>1, MaxIs
<1>3. Last(i, n) = Max(S)
  BY DEF Last, Of
<1> HIDE DEF S
<1>4. Last(i, n) \in S /\ \A p \in S : p <= Last(i, n)
  BY <1>2, <1>3
<1> QED BY <1>4 DEF S, Of

\* A change that no later one follows is the last.
LEMMA LastOf ==
    ASSUME NEW i, NEW n \in Nat, NEW p \in 1..n, log[p].item = i,
           \A q \in 1..n : log[q].item = i => q <= p
    PROVE  Last(i, n) = p
<1>1. /\ Last(i, n) \in 0..n /\ p <= Last(i, n)
      /\ Last(i, n) > 0 => Last(i, n) \in 1..n /\ log[Last(i, n)].item = i
  BY LastIs
<1>2. Last(i, n) <= p
  BY <1>1
<1> QED BY <1>1, <1>2

\* The last among the first n is the last among fewer that hold it.
LEMMA LastAmongFewer ==
    ASSUME NEW i, NEW n \in Nat, NEW m \in 0..n, Last(i, n) <= m
    PROVE  Last(i, m) = Last(i, n)
<1>1. /\ Last(i, n) \in 0..n
      /\ Last(i, n) > 0 => Last(i, n) \in 1..n /\ log[Last(i, n)].item = i
      /\ \A p \in 1..n : log[p].item = i => p <= Last(i, n)
  BY LastIs
<1>2. /\ Last(i, m) \in 0..m
      /\ Last(i, m) > 0 => Last(i, m) \in 1..m /\ log[Last(i, m)].item = i
      /\ \A p \in 1..m : log[p].item = i => p <= Last(i, m)
  BY LastIs
<1> QED BY <1>1, <1>2

\* What Graph adds to its log changes nothing of what is there.
LEMMA LogGrows ==
    ASSUME log \in Seq(Changes), NEW c \in Changes, log' = Append(log, c)
    PROVE  /\ log' \in Seq(Changes) /\ Len(log') = Len(log) + 1
           /\ \A p \in 1..Len(log) : log'[p] = log[p]
           /\ \A i, n : n \in 0..Len(log) => Last(i, n)' = Last(i, n)
<1>1. /\ log' \in Seq(Changes) /\ Len(log') = Len(log) + 1
      /\ \A p \in 1..Len(log) : log'[p] = log[p]
  OBVIOUS
<1>2. ASSUME NEW i, NEW n \in 0..Len(log) PROVE Last(i, n)' = Last(i, n)
  <2>1. \A p \in 1..n : log'[p] = log[p]
    BY <1>1
  <2>2. {p \in 1..n : log'[p].item = i} = {p \in 1..n : log[p].item = i}
    BY <2>1
  <2> QED BY <2>2 DEF Last
<1> QED BY <1>1, <1>2

(***************************************************************************)
(* Types                                                                   *)
(*                                                                         *)
(* The entries of a listing are changes of the log, and so is where its    *)
(* delta link stands.                                                      *)
(***************************************************************************)

EntriesOfRun(r) == r.todo \cup r.active \cup r.removed
RunTyped(r) ==
    /\ r \in Run
    /\ EntriesOfRun(r) \subseteq 1..Len(log)
    /\ r.token \in {NoCursor} \cup 0..Len(log)

StoreTypes ==
    /\ log \in Seq(Changes) /\ Len(log) <= MaxChanges
    /\ mirror \in [Items -> 0..Len(log)]
    /\ granted \subseteq Items
    /\ cursor \in {NoCursor} \cup 0..Len(log)
    /\ drive \in {"absent", "available", "unavailable"}
    /\ savedScope \in Scopes

HistoryTypes ==
    /\ relisted \in 0..Len(log)
    /\ mixed \in [Items -> 0..Len(log)]
    /\ switches \in 0..MaxSwitches
    /\ faults \in 0..MaxFaults

\* A listing starts by the cursor exactly when there is one.
OpenFits == run.pc = "open" => run.byCursor = (cursor # NoCursor)

TypeInv == StoreTypes /\ HistoryTypes /\ RunTyped(run) /\ OpenFits

LEMMA TypesAreTypeOK == TypeInv => TypeOK
BY DEF TypeInv, StoreTypes, HistoryTypes, RunTyped, TypeOK, Changes

LEMMA NoRunTyped == NoRun \in Run /\ EntriesOfRun(NoRun) = {} /\ NoRun.token = NoCursor
BY DriveAssumption DEF NoRun, Run, NoCursor, Scopes, EntriesOfRun

\* The rows after a batch: the last entry of an item that the batch holds.
LEMMA UpsertedIs ==
    ASSUME StoreTypes, NEW batch \in SUBSET (1..Len(log))
    PROVE  /\ Upserted(batch) \in [Items -> 0..Len(log)]
           /\ \A i \in Items :
                \/ /\ \A p \in batch : log[p].item # i
                   /\ Upserted(batch)[i] = mirror[i]
                \/ /\ Upserted(batch)[i] \in batch /\ log[Upserted(batch)[i]].item = i
                   /\ \A p \in batch : log[p].item = i => p <= Upserted(batch)[i]
<1>1. ASSUME NEW i \in Items
      PROVE  /\ Upserted(batch)[i] \in 0..Len(log)
             /\ \/ /\ \A p \in batch : log[p].item # i
                   /\ Upserted(batch)[i] = mirror[i]
                \/ /\ Upserted(batch)[i] \in batch /\ log[Upserted(batch)[i]].item = i
                   /\ \A p \in batch : log[p].item = i => p <= Upserted(batch)[i]
  <2> DEFINE S == {p \in batch : log[p].item = i}
  <2>1. mirror[i] \in 0..Len(log) /\ Len(log) \in Nat
    BY DEF StoreTypes
  <2>2. CASE \E p \in batch : log[p].item = i
    <3>1. S \in SUBSET (0..Len(log)) /\ S # {}
      <4>1. \A p \in batch : p \in 0..Len(log)
        BY <2>1
      <4> QED BY <2>2, <4>1
    <3>2. Upserted(batch)[i] = Max(S)
      <4>1. Upserted(batch)[i] = Max(S \cup {})
        BY <2>2 DEF Upserted
      <4>2. S \cup {} = S
        OBVIOUS
      <4> QED BY <4>1, <4>2
    <3>3. Max(S) \in S /\ \A p \in S : p <= Max(S)
      BY <2>1, <3>1, MaxIs
    <3> HIDE DEF S
    <3>4. Upserted(batch)[i] \in S /\ \A p \in S : p <= Upserted(batch)[i]
      BY <3>2, <3>3
    <3> QED BY <3>1, <3>4 DEF S
  <2>3. CASE ~\E p \in batch : log[p].item = i
    <3>1. Upserted(batch)[i] = Max(S \cup {mirror[i]})
      BY <2>3 DEF Upserted
    <3>2. S \cup {mirror[i]} = {mirror[i]}
      BY <2>3
    <3>3. {mirror[i]} \in SUBSET (0..Len(log)) /\ {mirror[i]} # {}
      BY <2>1
    <3>4. Max({mirror[i]}) \in {mirror[i]}
      BY <2>1, <3>3, MaxIs
    <3> QED BY <2>1, <2>3, <3>1, <3>2, <3>4
  <2> QED BY <2>2, <2>3
<1> QED BY <1>1 DEF Upserted

(***************************************************************************)
(* The type invariant is inductive                                         *)
(***************************************************************************)

LEMMA InitTypes == Init => TypeInv
<1> SUFFICES ASSUME Init PROVE TypeInv
  OBVIOUS
<1>1. Len(log) = 0 /\ log \in Seq(Changes)
  BY DEF Init
<1>2. StoreTypes /\ HistoryTypes
  BY <1>1, DriveAssumption DEF Init, StoreTypes, HistoryTypes, Scopes
<1>3. RunTyped(run) /\ OpenFits
  BY NoRunTyped DEF Init, RunTyped, OpenFits, NoRun
<1> QED BY <1>2, <1>3 DEF TypeInv

LEMMA ChangeTypes ==
    ASSUME TypeInv, NEW i \in Items, NEW live \in BOOLEAN, Change(i, live)
    PROVE  TypeInv'
<1> DEFINE c == [item |-> i, live |-> live]
<1>1. log \in Seq(Changes) /\ c \in Changes /\ log' = Append(log, c) /\ Len(log) \in Nat
  BY DEF TypeInv, StoreTypes, Change, Changes
<1> HIDE DEF c
<1>2. log' \in Seq(Changes) /\ Len(log') = Len(log) + 1
  BY <1>1, LogGrows
<1>3. Len(log) < MaxChanges /\ UNCHANGED <<mirror, granted, cursor, drive, savedScope, run, bookkeeping, faults>>
  BY DEF Change
<1>4. StoreTypes'
  <2>1. mirror' \in [Items -> 0..Len(log')] /\ cursor' \in {NoCursor} \cup 0..Len(log')
    BY <1>1, <1>2, <1>3 DEF TypeInv, StoreTypes
  <2>2. Len(log') <= MaxChanges
    BY <1>1, <1>2, <1>3, DriveAssumption
  <2> QED BY <1>2, <1>3, <2>1, <2>2 DEF TypeInv, StoreTypes
<1>5. HistoryTypes'
  BY <1>1, <1>2, <1>3 DEF TypeInv, HistoryTypes, bookkeeping
<1>6. RunTyped(run)' /\ OpenFits'
  BY <1>1, <1>2, <1>3 DEF TypeInv, RunTyped, OpenFits
<1> QED BY <1>4, <1>5, <1>6 DEF TypeInv

LEMMA StartRunTypes ==
    ASSUME TypeInv, NEW s \in Scopes, StartRun(s)
    PROVE  TypeInv'
<1>1. run' \in Run /\ EntriesOfRun(run') = {} /\ run'.token = NoCursor /\ run'.pc = "drives"
  <2>1. run' = [NoRun EXCEPT !.pc = "drives", !.scope = s]
    BY DEF StartRun
  <2>2. NoRun \in Run
    BY NoRunTyped
  <2>3. /\ run' \in Run /\ run'.pc = "drives" /\ run'.token = NoRun.token
        /\ run'.todo = NoRun.todo /\ run'.active = NoRun.active /\ run'.removed = NoRun.removed
    BY <2>1, <2>2 DEF Run
  <2> QED BY <2>3, NoRunTyped DEF EntriesOfRun
<1>2. RunTyped(run)' /\ OpenFits'
  BY <1>1 DEF RunTyped, OpenFits
<1>3. StoreTypes' /\ HistoryTypes'
  <2>1. /\ UNCHANGED <<log, mirror, granted, drive, savedScope, relisted, mixed, faults>>
        /\ cursor' \in {cursor, NoCursor}
        /\ switches' = switches \/ (switches < MaxSwitches /\ switches' = switches + 1)
    BY DEF StartRun
  <2>2. switches' \in 0..MaxSwitches
    BY <2>1, DriveAssumption DEF TypeInv, HistoryTypes
  <2> QED BY <2>1, <2>2 DEF TypeInv, StoreTypes, HistoryTypes
<1> QED BY <1>2, <1>3 DEF TypeInv

\* Stages that only look at the run, the drive and the cursor.
PlainStep ==
    \/ ListDrive \/ MissDrive \/ SkipStage \/ OpenDrive \/ PassDrive \/ EndListing
    \/ RetryRemoved \/ AdvanceCursor \/ CursorGone \/ ListingFails \/ KeepDrive

LEMMA PlainTypes ==
    ASSUME TypeInv, PlainStep
    PROVE  TypeInv'
<1>1. run \in Run /\ RunTyped(run) /\ StoreTypes /\ HistoryTypes
  BY DEF TypeInv, RunTyped
<1>2. /\ run' \in Run /\ EntriesOfRun(run') \subseteq EntriesOfRun(run)
      /\ run'.token = run.token
      /\ run'.pc = "open" => run'.byCursor = (cursor' # NoCursor)
  <2>1. CASE ListDrive
    BY <1>1, <2>1 DEF ListDrive, Run, EntriesOfRun
  <2>2. CASE MissDrive
    BY <1>1, <2>2 DEF MissDrive, Run, EntriesOfRun
  <2>3. CASE SkipStage
    BY <1>1, <2>3 DEF SkipStage, Run, EntriesOfRun
  <2>4. CASE OpenDrive
    BY <1>1, <2>4 DEF OpenDrive, Run, EntriesOfRun
  <2>5. CASE PassDrive
    BY <1>1, <2>5 DEF PassDrive, Run, EntriesOfRun
  <2>6. CASE EndListing
    BY <1>1, <2>6 DEF EndListing, Run, EntriesOfRun
  <2>7. CASE RetryRemoved
    BY <1>1, <2>7, DriveAssumption DEF RetryRemoved, Run, EntriesOfRun
  <2>8. CASE AdvanceCursor
    BY <1>1, <2>8 DEF AdvanceCursor, Run, EntriesOfRun
  <2>9. CASE CursorGone
    BY <1>1, <2>9 DEF CursorGone, Run, EntriesOfRun
  <2>10. CASE ListingFails
    BY <1>1, <2>10 DEF ListingFails, Run, EntriesOfRun
  <2>11. CASE KeepDrive
    BY <1>1, <2>11 DEF KeepDrive, Run, EntriesOfRun
  <2> QED BY <2>1, <2>2, <2>3, <2>4, <2>5, <2>6, <2>7, <2>8, <2>9, <2>10, <2>11 DEF PlainStep
<1>3. /\ UNCHANGED <<log, mirror, granted, savedScope, bookkeeping>>
      /\ drive' \in {"absent", "available", "unavailable"}
      /\ cursor' \in {cursor, NoCursor, run.token}
      /\ faults' \in 0..MaxFaults
  BY <1>1, DriveAssumption
  DEF StoreTypes, HistoryTypes, PlainStep, ListDrive, MissDrive, SkipStage, OpenDrive, PassDrive,
      EndListing, RetryRemoved, AdvanceCursor, CursorGone, ListingFails, KeepDrive, Fault
<1>4. StoreTypes'
  BY <1>1, <1>3 DEF StoreTypes, RunTyped
<1>5. HistoryTypes'
  BY <1>1, <1>3 DEF HistoryTypes, bookkeeping
<1>6. RunTyped(run)' /\ OpenFits'
  BY <1>1, <1>2, <1>3 DEF RunTyped, OpenFits
<1> QED BY <1>4, <1>5, <1>6 DEF TypeInv

\* What a listing may hold lies between the cursor and the present.
LEMMA ListedByCursor ==
    ASSUME StoreTypes, cursor # NoCursor, NEW entries \in ChangesSince(cursor)
    PROVE  /\ entries \subseteq cursor + 1 .. Len(log)
           /\ \A p \in cursor + 1 .. Len(log) : p = Last(log[p].item, Len(log)) => p \in entries
BY DEF StoreTypes, ChangesSince

LEMMA ListedFromRoot ==
    ASSUME StoreTypes
    PROVE  /\ Existing \subseteq 1..Len(log)
           /\ \A p \in Existing : p = Last(log[p].item, Len(log)) /\ log[p].live
           /\ \A i \in Items : Exists(i) => Last(i, Len(log)) \in Existing
<1>1. Len(log) \in Nat
  BY DEF StoreTypes
<1>2. ASSUME NEW p \in Existing
      PROVE  p \in 1..Len(log) /\ p = Last(log[p].item, Len(log)) /\ log[p].live
  <2>1. PICK i \in Items : Exists(i) /\ p = Last(i, Len(log))
    BY DEF Existing
  <2>2. p \in 1..Len(log) /\ log[p].item = i
    BY <1>1, <2>1, LastIs DEF Exists
  <2> QED BY <2>1, <2>2 DEF Exists
<1> QED BY <1>2 DEF Existing

LEMMA StartListingTypes ==
    ASSUME TypeInv, StartListing
    PROVE  TypeInv'
<1>1. StoreTypes /\ HistoryTypes /\ RunTyped(run) /\ run \in Run /\ Len(log) \in Nat /\ Len(log) <= MaxChanges
  BY DEF TypeInv, RunTyped, StoreTypes
<1>2. PICK entries \in IF run.byCursor THEN ChangesSince(cursor) ELSE {Existing} :
          run' = [run EXCEPT !.pc = "list", !.token = Len(log), !.todo = entries]
  BY DEF StartListing
<1>3. entries \subseteq 1..Len(log)
  <2>1. CASE run.byCursor
    <3>1. cursor # NoCursor
      BY <2>1 DEF TypeInv, OpenFits, StartListing
    <3>2. cursor \in Nat
      BY <1>1, <3>1 DEF StoreTypes
    <3>3. entries \subseteq cursor + 1 .. Len(log)
      BY <1>1, <1>2, <2>1, <3>1, ListedByCursor
    <3> QED BY <1>1, <3>2, <3>3
  <2>2. CASE ~run.byCursor
    BY <1>1, <1>2, <2>2, ListedFromRoot
  <2> QED BY <2>1, <2>2
<1>4. /\ run' \in Run /\ run'.todo = entries /\ run'.token = Len(log) /\ run'.pc = "list"
      /\ run'.active = run.active /\ run'.removed = run.removed
  <2>1. entries \in SUBSET Positions /\ Len(log) \in {NoCursor} \cup 0..MaxChanges
    BY <1>1, <1>3, DriveAssumption DEF Positions
  <2> QED BY <1>1, <1>2, <2>1 DEF Run
<1>5. UNCHANGED <<log, mirror, granted, cursor, drive, savedScope, switches, faults>>
  BY DEF StartListing
<1>6. RunTyped(run)' /\ OpenFits'
  <2>1. EntriesOfRun(run') \subseteq 1..Len(log)
    BY <1>1, <1>3, <1>4 DEF RunTyped, EntriesOfRun
  <2>2. run'.token \in {NoCursor} \cup 0..Len(log)
    BY <1>1, <1>4
  <2> QED BY <1>4, <1>5, <2>1, <2>2 DEF RunTyped, OpenFits
<1>7. HistoryTypes'
  <2>1. relisted' \in 0..Len(log)
    BY <1>1 DEF StartListing, HistoryTypes
  <2>2. mixed' \in [Items -> 0..Len(log)]
    BY <1>1 DEF StartListing, HistoryTypes
  <2> QED BY <1>1, <1>5, <2>1, <2>2 DEF HistoryTypes
<1> QED BY <1>1, <1>5, <1>6, <1>7 DEF TypeInv, StoreTypes

LEMMA TakeEntryRun ==
    ASSUME TypeInv, TakeEntry
    PROVE  /\ run' \in Run
           /\ \E p \in run.todo :
                /\ \A q \in run.todo : p <= q
                /\ run'.todo = run.todo \ {p}
                /\ run'.active = IF log[p].live THEN run.active \cup {p} ELSE run.active
                /\ run'.removed = IF log[p].live THEN run.removed ELSE run.removed \cup {p}
           /\ run'.pc \in {"list", "active", "removed"}
           /\ run'.token = run.token /\ run'.ended = run.ended
           /\ run'.incomplete = run.incomplete
<1> DEFINE p == Min(run.todo)
           live == log[p].live
           full == Cardinality(IF live THEN run.active ELSE run.removed) + 1 >= FlushEvery
           place == CASE ~full -> "list" [] full /\ live -> "active" [] OTHER -> "removed"
<1>1. /\ run \in Run /\ run.todo \subseteq Positions /\ run.active \subseteq Positions
      /\ run.removed \subseteq Positions
  BY DEF TypeInv, RunTyped, Run
<1>2. p \in run.todo /\ \A q \in run.todo : p <= q
  <2>1. run.todo \in SUBSET Nat /\ run.todo # {}
    BY <1>1, DriveAssumption DEF TakeEntry, Positions
  <2> QED BY <2>1, MinIs
<1>3. run' = [run EXCEPT !.todo = run.todo \ {p},
                         !.active = IF live THEN run.active \cup {p} ELSE run.active,
                         !.removed = IF live THEN run.removed ELSE run.removed \cup {p},
                         !.pc = place]
  BY DEF TakeEntry
<1>4. place \in {"list", "active", "removed"}
  OBVIOUS
<1> HIDE DEF place, p
<1> QED BY <1>1, <1>2, <1>3, <1>4 DEF Run

LEMMA TakeEntryTypes ==
    ASSUME TypeInv, TakeEntry
    PROVE  TypeInv'
<1>1. UNCHANGED <<log, mirror, granted, cursor, drive, savedScope, bookkeeping, faults>>
  BY DEF TakeEntry
<1>2. StoreTypes' /\ HistoryTypes'
  BY <1>1 DEF TypeInv, StoreTypes, HistoryTypes, bookkeeping
<1>3. EntriesOfRun(run') \subseteq EntriesOfRun(run)
  BY TakeEntryRun DEF EntriesOfRun
<1>4. RunTyped(run)' /\ OpenFits'
  BY <1>1, <1>3, TakeEntryRun DEF TypeInv, RunTyped, OpenFits
<1> QED BY <1>2, <1>4 DEF TypeInv

\* A batch is written, and the run goes on without it.
LEMMA WriteActiveRun ==
    ASSUME TypeInv, WriteActive
    PROVE  /\ run' \in Run /\ run'.active = {}
           /\ run'.pc = IF run.ended THEN "removed" ELSE "list"
           /\ run'.todo = run.todo /\ run'.removed = run.removed
           /\ run'.token = run.token /\ run'.ended = run.ended /\ run'.incomplete = run.incomplete
BY DEF TypeInv, RunTyped, WriteActive, Run

LEMMA AfterRemovedRun ==
    ASSUME TypeInv
    PROVE  /\ AfterRemoved \in Run /\ AfterRemoved.removed = {}
           /\ AfterRemoved.pc = IF run.ended THEN "cursor" ELSE "list"
           /\ AfterRemoved.todo = run.todo /\ AfterRemoved.active = run.active
           /\ AfterRemoved.token = run.token /\ AfterRemoved.ended = run.ended
           /\ AfterRemoved.incomplete = run.incomplete
<1>1. run \in Run /\ 0 \in 0..MaxRetries
  BY DriveAssumption DEF TypeInv, RunTyped
<1>2. ASSUME NEW place \in {"cursor", "list"}
      PROVE  LET r == [run EXCEPT !.removed = {}, !.retries = 0, !.pc = place] IN
             /\ r \in Run /\ r.removed = {} /\ r.pc = place /\ r.todo = run.todo
             /\ r.active = run.active /\ r.token = run.token /\ r.ended = run.ended
             /\ r.incomplete = run.incomplete
  BY <1>1 DEF Run
<1>3. CASE run.ended
  BY <1>2, <1>3 DEF AfterRemoved
<1>4. CASE ~run.ended
  BY <1>2, <1>4 DEF AfterRemoved
<1> QED BY <1>3, <1>4

LEMMA ExhaustRemovedRun ==
    ASSUME TypeInv, ExhaustRemoved
    PROVE  /\ run' \in Run /\ run'.removed = {}
           /\ run'.pc = IF run.ended THEN "cursor" ELSE "list"
           /\ run'.todo = run.todo /\ run'.active = run.active
           /\ run'.token = run.token /\ run'.ended = run.ended /\ run'.incomplete
<1>1. run' = [AfterRemoved EXCEPT !.incomplete = TRUE]
  BY DEF ExhaustRemoved
<1> QED BY <1>1, AfterRemovedRun DEF Run

LEMMA WriteTypes ==
    ASSUME TypeInv, WriteActive \/ WriteRemoved \/ ExhaustRemoved
    PROVE  TypeInv'
<1>1. StoreTypes /\ HistoryTypes /\ RunTyped(run) /\ run.active \subseteq 1..Len(log)
      /\ run.removed \subseteq 1..Len(log)
  BY DEF TypeInv, RunTyped, EntriesOfRun
<1>2. /\ UNCHANGED <<log, cursor, drive, savedScope, bookkeeping>>
      /\ granted' \subseteq Items
      /\ mirror' \in {mirror, Upserted(run.active), Upserted(run.removed)}
      /\ faults' \in 0..MaxFaults
  BY <1>1, DriveAssumption DEF WriteActive, WriteRemoved, ExhaustRemoved, StoreTypes, HistoryTypes, Fault
<1>3. StoreTypes'
  <2>1. mirror' \in [Items -> 0..Len(log)]
    BY <1>1, <1>2, UpsertedIs DEF StoreTypes
  <2> QED BY <1>1, <1>2, <2>1 DEF StoreTypes
<1>4. HistoryTypes'
  BY <1>1, <1>2 DEF HistoryTypes, bookkeeping
<1>5. /\ run' \in Run /\ run'.pc # "open" /\ run'.token = run.token
      /\ EntriesOfRun(run') \subseteq EntriesOfRun(run)
  <2>1. CASE WriteActive
    BY <2>1, WriteActiveRun DEF EntriesOfRun
  <2>2. CASE WriteRemoved
    BY <2>2, AfterRemovedRun DEF WriteRemoved, EntriesOfRun
  <2>3. CASE ExhaustRemoved
    BY <2>3, ExhaustRemovedRun DEF EntriesOfRun
  <2> QED BY <2>1, <2>2, <2>3
<1>6. RunTyped(run)' /\ OpenFits'
  BY <1>1, <1>2, <1>5 DEF RunTyped, OpenFits
<1> QED BY <1>3, <1>4, <1>6 DEF TypeInv

\* The end of a run: the permissions stage, pruning, and the run is over.
EndStep ==
    \/ \E found \in SUBSET Items : ScanPermissions(found)
    \/ Prune \/ SaveScope \/ Abort

LEMMA EndTypes ==
    ASSUME TypeInv, EndStep
    PROVE  TypeInv'
<1>1. StoreTypes /\ HistoryTypes /\ RunTyped(run) /\ run \in Run
  BY DEF TypeInv, RunTyped
<1>2. /\ run' \in Run /\ run'.pc # "open"
      /\ EntriesOfRun(run') \subseteq EntriesOfRun(run)
      /\ run'.token \in {run.token, NoCursor}
  <2>1. ASSUME NEW found \in SUBSET Items, ScanPermissions(found)
        PROVE  /\ run' \in Run /\ run'.pc # "open" /\ run'.token = run.token
               /\ EntriesOfRun(run') = EntriesOfRun(run)
    <3>1. PICK c \in {run.covered, Eligible} :
            run' = [run EXCEPT !.pc = "prune", !.covered = run.covered \/ c]
      BY <2>1 DEF ScanPermissions
    <3>2. (run.covered \/ c) \in BOOLEAN
      OBVIOUS
    <3> QED BY <1>1, <3>1, <3>2 DEF Run, EntriesOfRun
  <2>2. CASE Prune
    BY <1>1, <2>2 DEF Prune, Run, EntriesOfRun
  <2>3. CASE SaveScope \/ Abort
    <3>1. run' = NoRun /\ NoRun.pc = "idle"
      BY <2>3 DEF SaveScope, Abort, NoRun
    <3> QED BY <3>1, NoRunTyped
  <2> QED BY <2>1, <2>2, <2>3 DEF EndStep
<1>3. /\ UNCHANGED <<log, bookkeeping>>
      /\ mirror' \in {mirror, [i \in Items |-> 0]}
      /\ granted' \subseteq Items
      /\ cursor' \in {cursor, NoCursor}
      /\ drive' \in {drive, "absent"}
      /\ savedScope' \in {savedScope, run.scope}
      /\ faults' \in 0..MaxFaults
  BY <1>1, DriveAssumption
  DEF EndStep, ScanPermissions, Prune, SaveScope, Abort, Fault, StoreTypes, HistoryTypes
<1>4. StoreTypes'
  <2>1. mirror' \in [Items -> 0..Len(log)]
    BY <1>1, <1>3 DEF StoreTypes
  <2> QED BY <1>1, <1>3, <2>1 DEF StoreTypes, Run
<1>5. HistoryTypes'
  BY <1>1, <1>3 DEF HistoryTypes, bookkeeping
<1>6. RunTyped(run)' /\ OpenFits'
  BY <1>1, <1>2, <1>3 DEF RunTyped, OpenFits
<1> QED BY <1>4, <1>5, <1>6 DEF TypeInv

LEMMA NextTypes == TypeInv /\ [Next]_vars => TypeInv'
<1> SUFFICES ASSUME TypeInv, [Next]_vars PROVE TypeInv'
  OBVIOUS
<1>1. CASE UNCHANGED vars
  BY <1>1 DEF vars, bookkeeping, TypeInv, StoreTypes, HistoryTypes, RunTyped, OpenFits
<1>2. CASE Next
  BY <1>2, ChangeTypes, StartRunTypes, PlainTypes, StartListingTypes, TakeEntryTypes, WriteTypes, EndTypes
  DEF Next, Stage, PlainStep, EndStep
<1> QED BY <1>1, <1>2

\* The variables hold what the code can store; the retries of a write stay
\* within DB_WRITE_MAX_RETRIES, and neither a row nor the cursor stands for
\* something that Graph has not said.
THEOREM DriveTypeCorrect == Spec => []TypeOK
<1> QED BY InitTypes, NextTypes, TypesAreTypeOK, PTL DEF Spec

(***************************************************************************)
(* The batches of a listing                                                *)
(*                                                                         *)
(* Entries join a batch in the order of the listing, the batches are       *)
(* written before the cursor moves, and with a cursor they hold only what  *)
(* came after it.                                                          *)
(***************************************************************************)

Entries == EntriesOfRun(run)
Listing == run.pc \in {"list", "active", "removed", "cursor"}

\* Nothing is left over when a listing starts.
FreshFits ==
    run.pc \in {"drives", "items", "open"} => Entries = {} /\ ~run.ended /\ ~run.incomplete

PlacesFit ==
    /\ run.pc = "list" => ~run.ended
    /\ run.ended => run.todo = {}
    /\ run.pc = "removed" /\ run.ended => run.active = {}
    /\ run.pc = "cursor" => Entries = {}

BatchesFit ==
    /\ run.token \in 0..Len(log) /\ Entries \subseteq 1..run.token
    /\ \A p \in run.active : log[p].live
    /\ \A p \in run.removed : ~log[p].live
    /\ \A p \in run.active \cup run.removed, q \in run.todo : p < q
    /\ cursor # NoCursor => \A p \in Entries : cursor < p

BatchInv == FreshFits /\ (Listing => PlacesFit /\ BatchesFit)

LEMMA StartRunRun ==
    ASSUME NEW s \in Scopes, StartRun(s)
    PROVE  run'.pc = "drives" /\ EntriesOfRun(run') = {} /\ ~run'.ended /\ ~run'.incomplete
<1>1. run' = [NoRun EXCEPT !.pc = "drives", !.scope = s] /\ NoRun \in Run
  BY NoRunTyped DEF StartRun
<1>2. /\ run'.pc = "drives" /\ run'.todo = NoRun.todo
      /\ run'.active = NoRun.active /\ run'.removed = NoRun.removed
      /\ run'.ended = NoRun.ended /\ run'.incomplete = NoRun.incomplete
  BY <1>1 DEF Run
<1>3. ~NoRun.ended /\ ~NoRun.incomplete
  BY DEF NoRun
<1> QED BY <1>2, <1>3, NoRunTyped DEF EntriesOfRun

LEMMA StartListingRun ==
    ASSUME TypeInv, StartListing
    PROVE  /\ run'.pc = "list" /\ run'.token = Len(log)
           /\ run'.todo \in IF run.byCursor THEN ChangesSince(cursor) ELSE {Existing}
           /\ run'.active = run.active /\ run'.removed = run.removed
           /\ run'.ended = run.ended /\ run'.incomplete = run.incomplete
           /\ \A i \in Items :
                mixed'[i] = IF Cardinality({log[p].live : p \in {q \in run'.todo : log[q].item = i}}) = 2
                            THEN Len(log) ELSE mixed[i]
<1>1. PICK entries \in IF run.byCursor THEN ChangesSince(cursor) ELSE {Existing} :
          /\ run' = [run EXCEPT !.pc = "list", !.token = Len(log), !.todo = entries]
          /\ mixed' = [i \in Items |->
                 IF Cardinality({log[p].live : p \in {q \in entries : log[q].item = i}}) = 2
                 THEN Len(log) ELSE mixed[i]]
  BY DEF StartListing
<1>2. /\ run'.pc = "list" /\ run'.token = Len(log) /\ run'.todo = entries
      /\ run'.active = run.active /\ run'.removed = run.removed
      /\ run'.ended = run.ended /\ run'.incomplete = run.incomplete
  BY <1>1 DEF TypeInv, RunTyped, Run
<1>3. \A i \in Items :
        mixed'[i] = IF Cardinality({log[p].live : p \in {q \in run'.todo : log[q].item = i}}) = 2
                    THEN Len(log) ELSE mixed[i]
  BY <1>1, <1>2
<1> QED BY <1>1, <1>2, <1>3

\* The entries listed are changes, after the cursor if there is one.
LEMMA StartListingEntries ==
    ASSUME TypeInv, StartListing
    PROVE  /\ run'.todo \subseteq 1..Len(log)
           /\ cursor # NoCursor => \A p \in run'.todo : cursor < p
<1>1. StoreTypes /\ (run.byCursor = (cursor # NoCursor))
  BY DEF TypeInv, OpenFits, StartListing
<1>2. RunTyped(run)' /\ UNCHANGED log
  BY StartListingTypes DEF TypeInv, StartListing
<1>3. run'.todo \subseteq 1..Len(log)
  BY <1>2 DEF RunTyped, EntriesOfRun
<1>4. ASSUME cursor # NoCursor, NEW p \in run'.todo PROVE cursor < p
  <2>1. run'.todo \in ChangesSince(cursor)
    BY <1>1, <1>4, StartListingRun
  <2>2. run'.todo \subseteq cursor + 1 .. Len(log)
    BY <1>1, <1>4, <2>1, ListedByCursor
  <2>3. cursor \in Int /\ Len(log) \in Int
    BY <1>1 DEF StoreTypes, NoCursor
  <2> QED BY <2>2, <2>3
<1> QED BY <1>3, <1>4

\* A step after which no listing is under way.
Elsewhere(r) == r.pc \in {"idle", "permissions", "prune", "save"}

LEMMA ElsewhereBatches == ASSUME Elsewhere(run') PROVE BatchInv' /\ ~Listing'
BY DEF Elsewhere, BatchInv, FreshFits, Listing

LeavingStep ==
    \/ PassDrive \/ AdvanceCursor \/ ListingFails \/ KeepDrive \/ EndStep
    \/ SkipStage /\ run.pc # "drives"

LEMMA LeavingGoesElsewhere ==
    ASSUME TypeInv, LeavingStep
    PROVE  Elsewhere(run')
<1>1. run \in Run
  BY DEF TypeInv, RunTyped
<1>2. ASSUME NEW found \in SUBSET Items, ScanPermissions(found) PROVE Elsewhere(run')
  BY <1>1, <1>2 DEF ScanPermissions, Elsewhere, Run
<1>3. CASE SaveScope \/ Abort
  BY <1>3 DEF SaveScope, Abort, Elsewhere, NoRun
<1>4. CASE SkipStage /\ run.pc # "drives"
  BY <1>1, <1>4 DEF SkipStage, Elsewhere, Run
<1>5. CASE PassDrive \/ AdvanceCursor \/ ListingFails \/ KeepDrive \/ Prune
  BY <1>1, <1>5 DEF PassDrive, AdvanceCursor, ListingFails, KeepDrive, Prune, Elsewhere, Run
<1> QED BY <1>2, <1>3, <1>4, <1>5 DEF LeavingStep, EndStep

\* A step that leads to the next listing.
ComingStep ==
    ListDrive \/ MissDrive \/ (SkipStage /\ run.pc = "drives") \/ OpenDrive

LEMMA ComingRun ==
    ASSUME TypeInv, ComingStep
    PROVE  /\ run.pc \in {"drives", "items"} /\ run'.pc \in {"items", "open"}
           /\ EntriesOfRun(run') = Entries
           /\ run'.ended = run.ended /\ run'.incomplete = run.incomplete
<1>1. run \in Run
  BY DEF TypeInv, RunTyped
<1>2. CASE ListDrive
  BY <1>1, <1>2 DEF ListDrive, EntriesOfRun, Entries, Run
<1>3. CASE MissDrive
  BY <1>1, <1>3 DEF MissDrive, EntriesOfRun, Entries, Run
<1>4. CASE SkipStage /\ run.pc = "drives"
  BY <1>1, <1>4 DEF SkipStage, EntriesOfRun, Entries, Run
<1>5. CASE OpenDrive
  BY <1>1, <1>5 DEF OpenDrive, EntriesOfRun, Entries, Run
<1> QED BY <1>2, <1>3, <1>4, <1>5 DEF ComingStep

LEMMA InitBatches == Init => BatchInv
BY DEF Init, NoRun, BatchInv, FreshFits, Listing

LEMMA ListingBatches ==
    ASSUME TypeInv, BatchInv, StartListing
    PROVE  BatchInv'
<1>1. Entries = {} /\ ~run.ended /\ UNCHANGED <<log, cursor>> /\ Len(log) \in Nat
  BY DEF BatchInv, FreshFits, StartListing, TypeInv, StoreTypes
<1>2. /\ run'.pc = "list" /\ run'.token = Len(log) /\ run'.ended = run.ended
      /\ run'.active = {} /\ run'.removed = {}
  BY <1>1, StartListingRun DEF Entries, EntriesOfRun
<1>3. Entries' = run'.todo
  BY <1>2 DEF Entries, EntriesOfRun
<1>4. PlacesFit'
  BY <1>1, <1>2 DEF PlacesFit
<1>5. BatchesFit'
  BY <1>1, <1>2, <1>3, StartListingEntries DEF BatchesFit
<1> QED BY <1>2, <1>4, <1>5 DEF BatchInv, FreshFits

LEMMA TakeEntryBatches ==
    ASSUME TypeInv, BatchInv, TakeEntry
    PROVE  BatchInv' /\ Entries' = Entries /\ Listing /\ Listing'
<1>1. PICK p \in run.todo :
        /\ \A q \in run.todo : p <= q
        /\ run'.todo = run.todo \ {p}
        /\ run'.active = IF log[p].live THEN run.active \cup {p} ELSE run.active
        /\ run'.removed = IF log[p].live THEN run.removed ELSE run.removed \cup {p}
  BY TakeEntryRun
<1>2. /\ run'.pc \in {"list", "active", "removed"} /\ run'.token = run.token
      /\ run'.ended = run.ended /\ run.pc = "list" /\ UNCHANGED <<log, cursor>>
  BY TakeEntryRun DEF TakeEntry
<1>3. PlacesFit /\ BatchesFit /\ Listing /\ Listing'
  BY <1>2 DEF BatchInv, Listing
<1>4. Entries' = Entries
  BY <1>1 DEF Entries, EntriesOfRun
<1>5. ~run'.ended
  BY <1>2, <1>3 DEF PlacesFit
<1>6. PlacesFit'
  BY <1>2, <1>5 DEF PlacesFit
<1>7. \A q \in run'.active \cup run'.removed, x \in run'.todo : q < x
  <2>1. run.todo \subseteq Nat
    BY DriveAssumption DEF TypeInv, RunTyped, Run, Positions
  <2>2. ASSUME NEW q \in run'.active \cup run'.removed, NEW x \in run'.todo PROVE q < x
    <3>1. x \in run.todo /\ x # p /\ p <= x /\ x \in Nat /\ p \in Nat
      BY <1>1, <2>1
    <3>2. CASE q = p
      BY <3>1, <3>2
    <3>3. CASE q # p
      BY <1>1, <1>3, <3>1, <3>3 DEF BatchesFit
    <3> QED BY <3>2, <3>3
  <2> QED BY <2>2
<1>8. BatchesFit'
  <2>1. /\ \A q \in run'.active : log[q].live
        /\ \A q \in run'.removed : ~log[q].live
    BY <1>1, <1>3 DEF BatchesFit
  <2> QED BY <1>2, <1>3, <1>4, <1>7, <2>1 DEF BatchesFit
<1> QED BY <1>2, <1>3, <1>4, <1>6, <1>8 DEF BatchInv, FreshFits

\* What remains of a listing whose entries become fewer.
LEMMA FewerEntries ==
    ASSUME BatchesFit, UNCHANGED <<log, cursor>>, run'.token = run.token,
           run'.todo \subseteq run.todo, run'.active \subseteq run.active,
           run'.removed \subseteq run.removed
    PROVE  BatchesFit' /\ Entries' \subseteq Entries
BY DEF BatchesFit, Entries, EntriesOfRun

LEMMA WriteBatches ==
    ASSUME TypeInv, BatchInv, WriteActive \/ WriteRemoved \/ ExhaustRemoved
    PROVE  BatchInv' /\ Listing /\ run'.token = run.token
<1>1. UNCHANGED <<log, cursor>> /\ run.pc \in {"active", "removed"}
  BY DEF WriteActive, WriteRemoved, ExhaustRemoved
<1>2. Listing /\ PlacesFit /\ BatchesFit
  BY <1>1 DEF BatchInv, Listing
<1>3. CASE WriteActive
  <2>1. run'.pc = IF run.ended THEN "removed" ELSE "list"
    BY <1>3, WriteActiveRun
  <2>2. BatchesFit'
    BY <1>1, <1>2, <1>3, WriteActiveRun, FewerEntries
  <2>3. PlacesFit'
    BY <1>2, <1>3, <2>1, WriteActiveRun DEF PlacesFit
  <2> QED BY <1>2, <1>3, <2>1, <2>2, <2>3, WriteActiveRun DEF BatchInv, FreshFits
<1>4. CASE WriteRemoved \/ ExhaustRemoved
  <2>1. /\ run.pc = "removed" /\ run'.removed = {}
        /\ run'.pc = IF run.ended THEN "cursor" ELSE "list"
        /\ run'.todo = run.todo /\ run'.active = run.active
        /\ run'.token = run.token /\ run'.ended = run.ended
    BY <1>4, AfterRemovedRun, ExhaustRemovedRun DEF WriteRemoved, ExhaustRemoved
  <2>2. BatchesFit'
    BY <1>1, <1>2, <2>1, FewerEntries
  <2>3. PlacesFit'
    BY <1>2, <2>1 DEF PlacesFit, Entries, EntriesOfRun
  <2> QED BY <1>2, <2>1, <2>2, <2>3 DEF BatchInv, FreshFits
<1> QED BY <1>3, <1>4

\* The listing stays as it is.
LEMMA SameBatches ==
    ASSUME TypeInv, BatchInv, EndListing \/ RetryRemoved
    PROVE  /\ BatchInv' /\ Listing /\ Entries' = Entries
           /\ run'.token = run.token /\ run'.incomplete = run.incomplete
<1>1. run \in Run /\ UNCHANGED <<log, cursor>> /\ run.pc \in {"list", "removed"}
  BY DEF TypeInv, RunTyped, EndListing, RetryRemoved
<1>2. Listing /\ PlacesFit /\ BatchesFit
  BY <1>1 DEF BatchInv, Listing
<1>3. /\ run'.todo = run.todo /\ run'.active = run.active /\ run'.removed = run.removed
      /\ run'.token = run.token /\ run'.incomplete = run.incomplete
      /\ \/ run'.pc = "active" /\ run'.ended /\ run.todo = {}
         \/ run'.pc = run.pc /\ run'.ended = run.ended
  <2>1. CASE EndListing
    BY <1>1, <2>1 DEF EndListing, Run
  <2>2. CASE RetryRemoved
    BY <1>1, <2>2, DriveAssumption DEF RetryRemoved, Run
  <2> QED BY <2>1, <2>2
<1>4. Entries' = Entries
  BY <1>3 DEF Entries, EntriesOfRun
<1>5. BatchesFit'
  BY <1>1, <1>2, <1>3, FewerEntries
<1>6. PlacesFit'
  BY <1>2, <1>3, <1>4 DEF PlacesFit
<1>7. run'.pc \in {"active", "list", "removed"}
  BY <1>1, <1>3
<1> QED BY <1>2, <1>3, <1>4, <1>5, <1>6, <1>7 DEF BatchInv, FreshFits

LEMMA GoneBatches ==
    ASSUME TypeInv, BatchInv, CursorGone
    PROVE  BatchInv' /\ run'.pc = "open"
<1>1. run \in Run /\ run.pc \in {"open", "list"}
  BY DEF TypeInv, RunTyped, CursorGone
<1>2. ~run.ended
  BY <1>1 DEF BatchInv, FreshFits, Listing, PlacesFit
<1>3. /\ run'.pc = "open" /\ EntriesOfRun(run') = {} /\ ~run'.incomplete
      /\ run'.ended = run.ended
  BY <1>1 DEF CursorGone, Run, EntriesOfRun
<1> QED BY <1>2, <1>3 DEF BatchInv, FreshFits, Listing, Entries

LEMMA ChangeBatches ==
    ASSUME TypeInv, BatchInv, NEW i \in Items, NEW live \in BOOLEAN, Change(i, live)
    PROVE  BatchInv'
<1>1. PICK c \in Changes : log' = Append(log, c)
  BY DEF Change, Changes
<1>2. log \in Seq(Changes) /\ Len(log) \in Nat /\ UNCHANGED <<run, cursor>>
  BY DEF TypeInv, StoreTypes, Change
<1>3. Len(log') = Len(log) + 1 /\ \A p \in 1..Len(log) : log'[p] = log[p]
  BY <1>1, <1>2, LogGrows
<1>4. Entries \subseteq 1..Len(log) /\ run.active \subseteq Entries /\ run.removed \subseteq Entries
  BY DEF TypeInv, RunTyped, Entries, EntriesOfRun
<1>5. UNCHANGED <<FreshFits, Listing, PlacesFit, Entries>>
  BY <1>2 DEF FreshFits, Listing, PlacesFit, Entries
<1>6. ASSUME BatchesFit PROVE BatchesFit'
  <2>1. run.token \in 0..Len(log')
    BY <1>2, <1>3, <1>6 DEF BatchesFit
  <2>2. (\A p \in run.active : log'[p].live) /\ (\A p \in run.removed : ~log'[p].live)
    BY <1>3, <1>4, <1>6 DEF BatchesFit
  <2>3. /\ Entries \subseteq 1..run.token
        /\ \A p \in run.active \cup run.removed, q \in run.todo : p < q
        /\ cursor # NoCursor => \A p \in Entries : cursor < p
    BY <1>6 DEF BatchesFit
  <2> QED BY <1>2, <1>5, <2>1, <2>2, <2>3 DEF BatchesFit
<1> QED BY <1>5, <1>6 DEF BatchInv

LEMMA NextBatches == TypeInv /\ BatchInv /\ [Next]_vars => BatchInv'
<1> SUFFICES ASSUME TypeInv, BatchInv, [Next]_vars PROVE BatchInv'
  OBVIOUS
<1>1. CASE UNCHANGED vars
  BY <1>1 DEF vars, BatchInv, FreshFits, Listing, PlacesFit, BatchesFit, Entries
<1>2. ASSUME NEW s \in Scopes, StartRun(s) PROVE BatchInv'
  BY <1>2, StartRunRun DEF BatchInv, FreshFits, Listing, Entries
<1>3. CASE LeavingStep
  BY <1>3, LeavingGoesElsewhere, ElsewhereBatches
<1>4. CASE ComingStep
  BY <1>4, ComingRun DEF BatchInv, FreshFits, Listing, Entries
<1>5. CASE Next
  BY <1>2, <1>3, <1>4, <1>5, ListingBatches, TakeEntryBatches, WriteBatches, SameBatches,
     GoneBatches, ChangeBatches
  DEF Next, Stage, LeavingStep, ComingStep, EndStep
<1> QED BY <1>1, <1>5

(***************************************************************************)
(* The cursor covers its changes                                           *)
(*                                                                         *)
(* What the cursor will stand for once the listing is written is accounted *)
(* for before: the last change of an item is still among the entries, or   *)
(* it is in the mirror and no entry is left that would write the item's    *)
(* row again, or it is lost.  This holds unless a batch was given up.      *)
(***************************************************************************)

EntriesOf(i) == {p \in Entries : log[p].item = i}
Kept(i, n) == Reflects(i, n) \/ Lost(i, n)

Accounted(i) ==
    \/ Last(i, run.token) \in Entries
    \/ Lost(i, run.token)
    \/ Reflects(i, run.token) /\ EntriesOf(i) = {}

\* An item of which a listing holds entries of both kinds counts as mixed.
MixedFits ==
    Listing => \A i \in Items : \A p, q \in EntriesOf(i) :
                   log[p].live = log[q].live \/ run.token <= mixed[i]

ListingCovers == Listing /\ ~run.incomplete => \A i \in Items : Accounted(i)

CoverInv == MixedFits /\ ListingCovers /\ CursorCoversItsChanges

\* A step that leaves the listing, if there is one, as it is.
LEMMA SameCovers ==
    ASSUME CoverInv, UNCHANGED <<log, mirror, bookkeeping>>,
           cursor' \in {cursor, NoCursor},
           Listing' => /\ Listing /\ Entries' = Entries /\ run'.token = run.token
                       /\ run'.incomplete = run.incomplete
    PROVE  CoverInv'
<1>1. CursorCoversItsChanges'
  <2>1. SUFFICES ASSUME cursor' # NoCursor, NEW i \in Items PROVE Kept(i, cursor)'
    BY DEF CursorCoversItsChanges, Kept
  <2>2. cursor' = cursor /\ Kept(i, cursor)
    BY <2>1 DEF CoverInv, CursorCoversItsChanges, Kept
  <2>3. Last(i, cursor)' = Last(i, cursor)
    BY <2>2 DEF Last
  <2> QED BY <2>2, <2>3 DEF Kept, Reflects, Lost, Shown, bookkeeping
<1>2. ASSUME Listing' PROVE MixedFits' /\ ListingCovers'
  <2>1. Listing /\ Entries' = Entries /\ run'.token = run.token /\ run'.incomplete = run.incomplete
    BY <1>2
  <2>2. \A i : EntriesOf(i)' = EntriesOf(i)
    BY <2>1 DEF EntriesOf
  <2>3. MixedFits'
    BY <2>1, <2>2 DEF CoverInv, MixedFits, bookkeeping
  <2>4. ASSUME NEW i \in Items, Accounted(i) PROVE Accounted(i)'
    <3>1. Last(i, run.token)' = Last(i, run.token)
      BY <2>1 DEF Last
    <3> QED BY <2>1, <2>2, <2>4, <3>1 DEF Accounted, Reflects, Lost, Shown, bookkeeping
  <2> QED BY <2>1, <2>3, <2>4 DEF CoverInv, ListingCovers
<1> QED BY <1>1, <1>2 DEF CoverInv, MixedFits, ListingCovers

LEMMA StartListingCovers ==
    ASSUME TypeInv, BatchInv, CoverInv, StartListing
    PROVE  CoverInv'
<1> DEFINE N == Len(log)
<1>1. /\ N \in Nat /\ UNCHANGED <<log, mirror, cursor>> /\ StoreTypes
      /\ cursor \in {NoCursor} \cup 0..N
      /\ run.byCursor = (cursor # NoCursor)
      /\ relisted' = (IF run.byCursor THEN relisted ELSE N)
  BY DEF StartListing, TypeInv, StoreTypes, OpenFits
<1>2. /\ run'.token = N /\ Entries' = run'.todo
      /\ run'.todo \in IF run.byCursor THEN ChangesSince(cursor) ELSE {Existing}
      /\ run'.todo \subseteq 1..N
      /\ cursor # NoCursor => \A p \in run'.todo : cursor < p
  <2>1. run.active = {} /\ run.removed = {}
    BY DEF BatchInv, FreshFits, StartListing, Entries, EntriesOfRun
  <2> QED BY <2>1, StartListingRun, StartListingEntries DEF Entries, EntriesOfRun
<1>3. /\ relisted <= relisted' /\ relisted' \in Nat
      /\ \A i \in Items : mixed[i] <= mixed'[i] /\ mixed'[i] \in Nat
  <2>1. relisted \in 0..N /\ \A i \in Items : mixed[i] \in 0..N
    BY DEF TypeInv, HistoryTypes
  <2>2. \A i \in Items : mixed'[i] \in {N, mixed[i]}
    BY StartListingRun
  <2> QED BY <1>1, <2>1, <2>2
<1>4. \A i \in Items : mixed[i] \in Nat /\ relisted \in Nat
  BY DEF TypeInv, HistoryTypes
<1>5. CursorCoversItsChanges'
  <2>1. SUFFICES ASSUME cursor' # NoCursor, NEW i \in Items
                 PROVE  Reflects(i, cursor)' \/ Lost(i, cursor)'
    BY DEF CursorCoversItsChanges
  <2>2. Last(i, cursor)' = Last(i, cursor)
    BY <1>1 DEF Last
  <2>3. Last(i, cursor) \in Nat /\ (Reflects(i, cursor) \/ Lost(i, cursor))
    BY <1>1, <2>1, LastIs DEF CoverInv, CursorCoversItsChanges
  <2>4. mixed[i] <= mixed'[i] /\ relisted <= relisted' /\ mixed[i] \in Nat /\ relisted \in Nat
        /\ mixed'[i] \in Nat /\ relisted' \in Nat
    BY <1>3, <1>4
  <2>5. Reflects(i, cursor) => Reflects(i, cursor)'
    BY <1>1, <2>2 DEF Reflects, Shown
  <2>6. Lost(i, cursor) => Lost(i, cursor)'
    BY <1>1, <2>2, <2>3, <2>4 DEF Lost
  <2> QED BY <2>3, <2>5, <2>6
<1>6. MixedFits'
  <2>1. ASSUME NEW i \in Items, NEW p \in EntriesOf(i)', NEW q \in EntriesOf(i)',
               log[p].live # log[q].live
        PROVE  mixed'[i] = N
    <3> DEFINE kinds == {log[x].live : x \in {y \in run'.todo : log[y].item = i}}
    <3>1. p \in run'.todo /\ q \in run'.todo /\ log[p].item = i /\ log[q].item = i
      BY <1>1, <1>2 DEF EntriesOf
    <3>2. \A x \in run'.todo : log[x] \in Changes
      BY <1>1, <1>2 DEF StoreTypes
    <3>3. kinds = {FALSE} \cup {TRUE}
      <4>1. \A x \in run'.todo : log[x].live \in BOOLEAN
        BY <3>2 DEF Changes
      <4>2. log[p].live \in kinds /\ log[q].live \in kinds /\ kinds \subseteq BOOLEAN
        BY <3>1, <4>1
      <4> QED BY <2>1, <3>1, <4>1, <4>2
    <3>4. ASSUME NEW x, NEW y, x # y PROVE Cardinality({x} \cup {y}) = 2
      <4>1. IsFiniteSet({x}) /\ Cardinality({x}) = 1
        BY FS_Singleton
      <4>2. Cardinality({x} \cup {y}) = Cardinality({x}) + 1
        BY <3>4, <4>1, FS_AddElement
      <4> QED BY <4>1, <4>2
    <3>5. Cardinality({FALSE} \cup {TRUE}) = 2
      BY <3>4
    <3>6. Cardinality(kinds) = 2
      BY <3>3, <3>5
    <3>7. mixed'[i] = IF Cardinality(kinds) = 2 THEN N ELSE mixed[i]
      BY StartListingRun
    <3> QED BY <3>6, <3>7
  <2> QED BY <1>1, <1>2, <2>1 DEF MixedFits
<1>7. ASSUME NEW i \in Items PROVE Accounted(i)'
  <2> DEFINE p == Last(i, N)
  <2>1. /\ p \in 0..N
        /\ p > 0 => p \in 1..N /\ log[p].item = i
        /\ \A q \in 1..N : log[q].item = i => q <= p
    BY <1>1, LastIs
  <2>2. p = Last(i, run.token)' /\ run'.token = N
    BY <1>1, <1>2 DEF Last
  <2>3. EntriesOf(i)' = {q \in run'.todo : log[q].item = i}
    BY <1>1, <1>2 DEF EntriesOf
  <2>4. \A q \in EntriesOf(i)' : q \in 1..N /\ q <= p
    BY <1>2, <2>1, <2>3
  <2> HIDE DEF p
  <2>5. CASE p = 0
    <3>1. EntriesOf(i)' = {}
      BY <1>1, <2>4, <2>5
    <3>2. Reflects(i, run.token)'
      BY <2>2, <2>5 DEF Reflects
    <3> QED BY <3>1, <3>2 DEF Accounted
  <2>6. CASE p > 0 /\ run.byCursor
    <3>1. /\ cursor # NoCursor /\ cursor \in 0..N /\ run'.todo \in ChangesSince(cursor)
      BY <1>1, <1>2, <2>6
    <3>2. CASE p > cursor
      <4>1. p \in cursor + 1 .. N /\ p = Last(log[p].item, N)
        BY <1>1, <2>1, <2>6, <3>1, <3>2 DEF p
      <4>2. p \in run'.todo
        BY <1>1, <3>1, <4>1, ListedByCursor
      <4> QED BY <1>2, <2>2, <4>2 DEF Accounted
    <3>3. CASE p <= cursor
      <4>1. Last(i, cursor) = p
        BY <1>1, <3>1, <3>3, LastAmongFewer DEF p
      <4>2. EntriesOf(i)' = {}
        <5>1. \A q \in EntriesOf(i)' : cursor < q
          BY <1>2, <2>3, <3>1
        <5> QED BY <1>1, <2>1, <2>4, <3>1, <3>3, <5>1
      <4>3. Reflects(i, cursor) \/ Lost(i, cursor)
        BY <3>1 DEF CoverInv, CursorCoversItsChanges
      <4>4. Last(i, N) = Last(i, cursor)
        BY <4>1 DEF p
      <4>5. Reflects(i, N) \/ Lost(i, N)
        BY <4>3, <4>4 DEF Reflects, Lost
      <4>6. Reflects(i, run.token)' \/ Lost(i, run.token)'
        BY <1>1, <1>3, <1>4, <2>1, <2>2, <4>5 DEF Reflects, Lost, Shown, p
      <4> QED BY <4>2, <4>6 DEF Accounted
    <3> QED BY <2>1, <3>1, <3>2, <3>3
  <2>7. CASE p > 0 /\ ~run.byCursor
    <3>1. run'.todo = Existing /\ relisted' = N
      BY <1>1, <1>2, <2>7
    <3>2. CASE log[p].live
      <4>1. p \in Existing
        BY <1>1, <2>7, <3>2, ListedFromRoot DEF Exists, p
      <4> QED BY <1>2, <2>2, <3>1, <4>1 DEF Accounted
    <3>3. CASE ~log[p].live
      <4>1. Lost(i, run.token)'
        BY <1>1, <2>1, <2>2, <2>7, <3>1, <3>3 DEF Lost
      <4> QED BY <4>1 DEF Accounted
    <3> QED BY <3>2, <3>3
  <2> QED BY <2>1, <2>5, <2>6, <2>7
<1> QED BY <1>5, <1>6, <1>7 DEF CoverInv, ListingCovers

\* A batch is written to the mirror.  What it writes is later than the cursor,
\* and what is left is later than the batch or of the other kind.
LEMMA BatchCovers ==
    ASSUME TypeInv, BatchInv, CoverInv, Listing, Listing',
           NEW batch \in SUBSET Entries, mirror' = Upserted(batch),
           UNCHANGED <<log, cursor, bookkeeping>>,
           run'.token = run.token, run'.incomplete = run.incomplete,
           Entries' \subseteq Entries, Entries \subseteq Entries' \cup batch,
           \A p \in batch, q \in Entries' : p < q \/ log[p].live # log[q].live
    PROVE  CoverInv'
<1> DEFINE T == run.token
<1>1. /\ StoreTypes /\ Len(log) \in Nat /\ T \in 0..Len(log) /\ Entries \subseteq 1..T
      /\ cursor \in {NoCursor} \cup 0..Len(log)
      /\ cursor # NoCursor => \A p \in Entries : cursor < p
      /\ UNCHANGED <<relisted, mixed>>
  BY DEF TypeInv, StoreTypes, BatchInv, BatchesFit, bookkeeping
<1>2. batch \in SUBSET (1..Len(log)) /\ batch \in SUBSET (1..T)
  BY <1>1
<1>3. \A i \in Items :
        \/ (\A p \in batch : log[p].item # i) /\ mirror'[i] = mirror[i]
        \/ /\ mirror'[i] \in batch /\ log[mirror'[i]].item = i
           /\ \A p \in batch : log[p].item = i => p <= mirror'[i]
  BY <1>1, <1>2, UpsertedIs
<1>4. \A i : EntriesOf(i)' \subseteq EntriesOf(i)
  BY DEF EntriesOf
<1>5. CursorCoversItsChanges'
  <2>1. SUFFICES ASSUME cursor' # NoCursor, NEW i \in Items
                 PROVE  Reflects(i, cursor)' \/ Lost(i, cursor)'
    BY DEF CursorCoversItsChanges
  <2>2. Last(i, cursor)' = Last(i, cursor) /\ cursor' = cursor
    BY DEF Last
  <2>3. /\ cursor \in 0..Len(log) /\ Last(i, cursor) \in 0..cursor
        /\ Reflects(i, cursor) \/ Lost(i, cursor)
    BY <1>1, <2>1, <2>2, LastIs DEF CoverInv, CursorCoversItsChanges
  <2>4. CASE mirror'[i] = mirror[i]
    BY <1>1, <2>2, <2>3, <2>4 DEF Reflects, Lost, Shown
  <2>5. CASE mirror'[i] \in batch
    <3>1. mirror'[i] \in Nat /\ cursor < mirror'[i]
      BY <1>1, <1>2, <2>1, <2>2, <2>5
    <3>2. mirror'[i] >= Last(i, cursor)
      BY <1>1, <2>3, <3>1
    <3> QED BY <2>2, <3>2 DEF Reflects
  <2> QED BY <1>3, <2>4, <2>5
<1>6. MixedFits'
  <2>1. \A i \in Items : \A p, q \in EntriesOf(i)' :
            log[p].live = log[q].live \/ T <= mixed[i]
    BY <1>4 DEF CoverInv, MixedFits
  <2> QED BY <1>1, <2>1 DEF MixedFits
<1>7. ASSUME ~run.incomplete, NEW i \in Items PROVE Accounted(i)'
  <2> DEFINE L == Last(i, T)
  <2>1. /\ L \in 0..T /\ (L > 0 => log[L].item = i)
        /\ \A q \in 1..T : log[q].item = i => q <= L
    BY <1>1, LastIs
  <2>2. L = Last(i, run.token)'
    BY DEF Last
  <2>3. Accounted(i)
    BY <1>7 DEF CoverInv, ListingCovers
  <2> HIDE DEF L
  <2>4. CASE L \in Entries'
    BY <2>2, <2>4 DEF Accounted
  <2>5. CASE L \in batch
    <3>1. L \in 1..T /\ log[L].item = i /\ L \in EntriesOf(i)
      BY <1>2, <2>1, <2>5 DEF EntriesOf
    <3>2. Reflects(i, run.token)'
      <4>1. mirror'[i] >= L
        BY <1>2, <1>3, <2>5, <3>1
      <4> QED BY <2>2, <4>1 DEF Reflects
    <3>3. ASSUME NEW q \in EntriesOf(i)' PROVE Lost(i, run.token)'
      <4>1. q \in EntriesOf(i) /\ q \in Entries' /\ q \in 1..T /\ q <= L
        BY <1>1, <1>4, <2>1, <3>3 DEF EntriesOf
      <4>2. log[L].live # log[q].live
        BY <2>5, <3>1, <4>1
      <4>3. T <= mixed[i]
        BY <3>1, <4>1, <4>2 DEF CoverInv, MixedFits
      <4>4. mixed[i] \in Nat
        BY DEF TypeInv, HistoryTypes
      <4>5. L > 0 /\ L <= mixed[i]
        BY <1>1, <3>1, <4>3, <4>4
      <4> QED BY <1>1, <2>2, <4>5 DEF Lost
    <3> QED BY <3>2, <3>3 DEF Accounted
  <2>6. CASE Lost(i, T)
    <3>1. Lost(i, run.token)'
      BY <1>1, <2>2, <2>6 DEF Lost, L
    <3> QED BY <3>1 DEF Accounted
  <2>7. CASE Reflects(i, T) /\ EntriesOf(i) = {}
    <3>1. EntriesOf(i)' = {}
      BY <1>4, <2>7
    <3>2. \A p \in batch : log[p].item # i
      BY <2>7 DEF EntriesOf
    <3>3. mirror'[i] = mirror[i]
      BY <1>3, <3>2
    <3>4. Reflects(i, run.token)'
      BY <2>2, <2>7, <3>3 DEF Reflects, Shown, L
    <3> QED BY <3>1, <3>4 DEF Accounted
  <2> QED BY <2>3, <2>4, <2>5, <2>6, <2>7 DEF Accounted, L
<1> QED BY <1>5, <1>6, <1>7 DEF CoverInv, ListingCovers

LEMMA WriteCovers ==
    ASSUME TypeInv, BatchInv, CoverInv, WriteActive \/ WriteRemoved
    PROVE  CoverInv'
<1>1. /\ Listing /\ BatchesFit /\ run'.token = run.token
      /\ UNCHANGED <<log, cursor, bookkeeping>>
  BY WriteBatches DEF BatchInv, WriteActive, WriteRemoved
<1>2. CASE WriteActive
  <2>1. /\ Entries' = run.todo \cup run.removed /\ Listing'
        /\ run'.incomplete = run.incomplete /\ mirror' = Upserted(run.active)
    BY <1>2, WriteActiveRun DEF Entries, EntriesOfRun, Listing, WriteActive
  <2>2. run.active \in SUBSET Entries /\ Entries' \subseteq Entries
        /\ Entries \subseteq Entries' \cup run.active
    BY <2>1 DEF Entries, EntriesOfRun
  <2>3. \A p \in run.active, q \in Entries' : p < q \/ log[p].live # log[q].live
    BY <1>1, <2>1 DEF BatchesFit
  <2> QED BY <1>1, <2>1, <2>2, <2>3, BatchCovers
<1>3. CASE WriteRemoved
  <2>1. /\ Entries' = run.todo \cup run.active /\ Listing'
        /\ run'.incomplete = run.incomplete /\ mirror' = Upserted(run.removed)
    BY <1>3, AfterRemovedRun DEF Entries, EntriesOfRun, Listing, WriteRemoved
  <2>2. run.removed \in SUBSET Entries /\ Entries' \subseteq Entries
        /\ Entries \subseteq Entries' \cup run.removed
    BY <2>1 DEF Entries, EntriesOfRun
  <2>3. \A p \in run.removed, q \in Entries' : p < q \/ log[p].live # log[q].live
    BY <1>1, <2>1 DEF BatchesFit
  <2> QED BY <1>1, <2>1, <2>2, <2>3, BatchCovers
<1> QED BY <1>2, <1>3

LEMMA ExhaustCovers ==
    ASSUME TypeInv, BatchInv, CoverInv, ExhaustRemoved
    PROVE  CoverInv'
<1>1. /\ Listing /\ run'.token = run.token /\ UNCHANGED <<log, mirror, cursor, bookkeeping>>
      /\ run'.incomplete /\ Entries' \subseteq Entries
  BY WriteBatches, ExhaustRemovedRun DEF ExhaustRemoved, Entries, EntriesOfRun
<1>2. CursorCoversItsChanges'
  <2>1. \A i : Last(i, cursor)' = Last(i, cursor)
    BY <1>1 DEF Last
  <2> QED BY <1>1, <2>1 DEF CoverInv, CursorCoversItsChanges, Reflects, Lost, Shown, bookkeeping
<1>3. MixedFits'
  BY <1>1 DEF CoverInv, MixedFits, EntriesOf, bookkeeping
<1> QED BY <1>1, <1>2, <1>3 DEF CoverInv, ListingCovers

\* The cursor moves when nothing is left of the listing.
LEMMA AdvanceCovers ==
    ASSUME TypeInv, BatchInv, CoverInv, AdvanceCursor
    PROVE  CoverInv'
<1>1. /\ Listing /\ Entries = {} /\ ~Listing' /\ UNCHANGED <<log, mirror, bookkeeping>>
      /\ cursor' = IF run.incomplete THEN cursor ELSE run.token
  <2>1. run.pc = "cursor" /\ Listing
    BY DEF AdvanceCursor, Listing
  <2>2. LeavingStep
    BY DEF LeavingStep
  <2>3. ~Listing'
    BY <2>2, LeavingGoesElsewhere, ElsewhereBatches
  <2> QED BY <2>1, <2>3 DEF BatchInv, PlacesFit, AdvanceCursor
<1>2. CASE run.incomplete
  BY <1>1, <1>2, SameCovers
<1>3. CASE ~run.incomplete
  <2>1. ASSUME NEW i \in Items PROVE Reflects(i, cursor)' \/ Lost(i, cursor)'
    <3>1. Accounted(i)
      BY <1>1, <1>3 DEF CoverInv, ListingCovers
    <3>2. Last(i, cursor)' = Last(i, run.token)
      BY <1>1, <1>3 DEF Last
    <3>3. Reflects(i, run.token) \/ Lost(i, run.token)
      BY <1>1, <3>1 DEF Accounted
    <3> QED BY <1>1, <1>3, <3>2, <3>3 DEF Reflects, Lost, Shown, bookkeeping
  <2> QED BY <1>1, <2>1 DEF CoverInv, MixedFits, ListingCovers, CursorCoversItsChanges
<1> QED BY <1>2, <1>3

\* Graph goes on changing: what the mirror and the cursor stand for stays.
LEMMA ChangeCovers ==
    ASSUME TypeInv, BatchInv, CoverInv, NEW i \in Items, NEW live \in BOOLEAN, Change(i, live)
    PROVE  CoverInv'
<1>1. PICK c \in Changes : log' = Append(log, c)
  BY DEF Change, Changes
<1>2. /\ log \in Seq(Changes) /\ Len(log) \in Nat
      /\ UNCHANGED <<run, cursor, mirror, relisted, mixed, Entries, Listing>>
      /\ mirror \in [Items -> 0..Len(log)] /\ cursor \in {NoCursor} \cup 0..Len(log)
  BY DEF TypeInv, StoreTypes, Change, Entries, Listing, bookkeeping
<1>3. /\ \A p \in 1..Len(log) : log'[p] = log[p]
      /\ \A j, n : n \in 0..Len(log) => Last(j, n)' = Last(j, n)
  BY <1>1, <1>2, LogGrows
<1>4. \A j \in Items : Shown(j)' = Shown(j)
  BY <1>2, <1>3 DEF Shown
<1>5. ASSUME NEW j \in Items, cursor # NoCursor, Reflects(j, cursor) \/ Lost(j, cursor)
      PROVE  Reflects(j, cursor)' \/ Lost(j, cursor)'
  <2>1. cursor \in 0..Len(log)
    BY <1>2, <1>5
  <2>2. Last(j, cursor)' = Last(j, cursor)
    BY <1>2, <1>3, <2>1 DEF Last
  <2>3. Last(j, cursor) > 0 => log'[Last(j, cursor)] = log[Last(j, cursor)]
    BY <1>2, <1>3, <2>1, LastIs
  <2>4. Last(j, cursor) \in Nat
    BY <2>1, LastIs
  <2> QED BY <1>2, <1>4, <1>5, <2>2, <2>3, <2>4 DEF Reflects, Lost
<1>6. ASSUME Listing
      PROVE  MixedFits' /\ ListingCovers'
  <2>1. run.token \in 0..Len(log) /\ Entries \subseteq 1..Len(log)
    BY <1>2, <1>6 DEF BatchInv, BatchesFit
  <2>2. \A j : EntriesOf(j)' = EntriesOf(j)
    BY <1>2, <1>3, <2>1 DEF EntriesOf
  <2>3. MixedFits'
    BY <1>2, <1>3, <1>6, <2>1, <2>2 DEF CoverInv, MixedFits, EntriesOf
  <2>4. ASSUME NEW j \in Items, Accounted(j) PROVE Accounted(j)'
    <3>1. Last(j, run.token)' = Last(j, run.token)
      BY <1>2, <1>3, <2>1 DEF Last
    <3>2. Last(j, run.token) > 0 => log'[Last(j, run.token)] = log[Last(j, run.token)]
      BY <1>2, <1>3, <2>1, LastIs
    <3>3. Last(j, run.token) \in Nat
      BY <2>1, LastIs
    <3>4. Reflects(j, run.token) => Reflects(j, run.token)'
      BY <1>2, <1>4, <3>1, <3>2, <3>3 DEF Reflects
    <3>5. Lost(j, run.token) => Lost(j, run.token)'
      BY <1>2, <3>1, <3>2 DEF Lost
    <3> QED BY <1>2, <2>2, <2>4, <3>1, <3>4, <3>5 DEF Accounted
  <2> QED BY <1>2, <1>6, <2>3, <2>4 DEF CoverInv, ListingCovers
<1> QED BY <1>2, <1>5, <1>6 DEF CoverInv, MixedFits, ListingCovers, CursorCoversItsChanges

LEMMA InitCovers == Init => CoverInv
BY DEF Init, NoRun, NoCursor, CoverInv, MixedFits, ListingCovers, Listing, CursorCoversItsChanges

LEMMA NextCovers == TypeInv /\ BatchInv /\ CoverInv /\ [Next]_vars => CoverInv'
<1> SUFFICES ASSUME TypeInv, BatchInv, CoverInv, [Next]_vars PROVE CoverInv'
  OBVIOUS
<1>1. CASE UNCHANGED vars
  <2>1. UNCHANGED <<log, mirror, bookkeeping, Listing, Entries, run, cursor>>
    BY <1>1 DEF vars, Listing, Entries
  <2> QED BY <2>1, SameCovers
<1>2. ASSUME NEW s \in Scopes, StartRun(s) PROVE CoverInv'
  <2>1. ~Listing'
    BY <1>2, StartRunRun DEF Listing
  <2>2. UNCHANGED <<log, mirror, relisted, mixed>> /\ cursor' \in {cursor, NoCursor}
    BY <1>2 DEF StartRun
  <2>3. CursorCoversItsChanges'
    <3>1. SUFFICES ASSUME cursor' # NoCursor, NEW i \in Items
                   PROVE  Reflects(i, cursor)' \/ Lost(i, cursor)'
      BY DEF CursorCoversItsChanges
    <3>2. cursor' = cursor /\ (Reflects(i, cursor) \/ Lost(i, cursor))
      BY <2>2, <3>1 DEF CoverInv, CursorCoversItsChanges
    <3>3. Last(i, cursor)' = Last(i, cursor)
      BY <2>2, <3>2 DEF Last
    <3> QED BY <2>2, <3>2, <3>3 DEF Reflects, Lost, Shown
  <2> QED BY <2>1, <2>3 DEF CoverInv, MixedFits, ListingCovers
<1>3. CASE LeavingStep /\ ~AdvanceCursor /\ ~Prune
  <2>1. ~Listing'
    BY <1>3, LeavingGoesElsewhere, ElsewhereBatches
  <2>2. UNCHANGED <<log, mirror, bookkeeping, cursor>>
    BY <1>3 DEF LeavingStep, EndStep, PassDrive, ListingFails, KeepDrive, SkipStage,
                ScanPermissions, SaveScope, Abort
  <2> QED BY <2>1, <2>2, SameCovers
<1>4. CASE Prune
  <2>1. ~Listing'
    BY <1>4, LeavingGoesElsewhere, ElsewhereBatches DEF LeavingStep, EndStep
  <2> QED BY <1>4, <2>1
      DEF Prune, CoverInv, MixedFits, ListingCovers, CursorCoversItsChanges
<1>5. CASE ComingStep
  <2>1. ~Listing'
    BY <1>5, ComingRun DEF Listing
  <2>2. UNCHANGED <<log, mirror, bookkeeping, cursor>>
    BY <1>5 DEF ComingStep, ListDrive, MissDrive, SkipStage, OpenDrive
  <2> QED BY <2>1, <2>2, SameCovers
<1>6. CASE TakeEntry
  <2>1. /\ Entries' = Entries /\ Listing /\ run'.token = run.token
        /\ run'.incomplete = run.incomplete
    BY <1>6, TakeEntryBatches, TakeEntryRun
  <2>2. UNCHANGED <<log, mirror, bookkeeping, cursor>>
    BY <1>6 DEF TakeEntry
  <2> QED BY <2>1, <2>2, SameCovers
<1>7. CASE EndListing \/ RetryRemoved
  <2>1. UNCHANGED <<log, mirror, bookkeeping, cursor>>
    BY <1>7 DEF EndListing, RetryRemoved
  <2> QED BY <1>7, <2>1, SameBatches, SameCovers
<1>8. CASE CursorGone
  <2>1. ~Listing'
    BY <1>8, GoneBatches DEF Listing
  <2>2. UNCHANGED <<log, mirror, bookkeeping>> /\ cursor' = NoCursor
    BY <1>8 DEF CursorGone
  <2> QED BY <2>1, <2>2, SameCovers
<1>9. CASE Next
  BY <1>2, <1>3, <1>4, <1>5, <1>6, <1>7, <1>8, <1>9, StartListingCovers, WriteCovers,
     ExhaustCovers, AdvanceCovers, ChangeCovers
  DEF Next, Stage, LeavingStep, ComingStep, EndStep
<1> QED BY <1>1, <1>9

\* The delta cursor never runs ahead of the mirror: what Graph changed up to
\* the delta link is in the rows, through crashes, writes that are given up,
\* expired links, scope switches and pruning, unless it is lost in one of the
\* two ways of Lost.
THEOREM CursorNeverAhead == Spec => []CursorCoversItsChanges
<1>1. Init => TypeInv /\ BatchInv /\ CoverInv
  BY InitTypes, InitBatches, InitCovers
<1>2. TypeInv /\ BatchInv /\ CoverInv /\ [Next]_vars => (TypeInv /\ BatchInv /\ CoverInv)'
  BY NextTypes, NextBatches, NextCovers
<1>3. CoverInv => CursorCoversItsChanges
  BY DEF CoverInv
<1> QED BY <1>1, <1>2, <1>3, PTL DEF Spec

(***************************************************************************)
(* Permissions of shown items only                                         *)
(***************************************************************************)

\* What the batch of live entries writes is shown, and the batch of removed
\* ones takes the permissions of what it writes away.
LEMMA WriteGrants ==
    ASSUME TypeInv, BatchInv, OnlyShownItemsAreGranted, WriteActive \/ WriteRemoved
    PROVE  OnlyShownItemsAreGranted'
<1>1. /\ StoreTypes /\ Len(log) \in Nat /\ log' = log /\ granted \subseteq Items
      /\ run.active \in SUBSET (1..Len(log)) /\ run.removed \in SUBSET (1..Len(log))
      /\ \A p \in run.active : log[p].live
  <2>1. BatchesFit
    BY WriteBatches DEF BatchInv
  <2> QED BY <2>1 DEF TypeInv, StoreTypes, RunTyped, EntriesOfRun, BatchesFit, WriteActive, WriteRemoved
<1>2. CASE WriteActive
  <2>1. granted' = granted /\ mirror' = Upserted(run.active)
    BY <1>2 DEF WriteActive
  <2>2. ASSUME NEW i \in granted PROVE Shown(i)'
    <3>1. i \in Items /\ Shown(i)
      BY <1>1, <2>2 DEF OnlyShownItemsAreGranted
    <3>2. mirror'[i] = mirror[i] \/ mirror'[i] \in run.active
      BY <1>1, <2>1, <3>1, UpsertedIs
    <3> QED BY <1>1, <3>1, <3>2 DEF Shown
  <2> QED BY <2>1, <2>2 DEF OnlyShownItemsAreGranted
<1>3. CASE WriteRemoved
  <2>1. granted' = granted \ ItemsOf(run.removed) /\ mirror' = Upserted(run.removed)
    BY <1>3 DEF WriteRemoved
  <2>2. ASSUME NEW i \in granted' PROVE Shown(i)'
    <3>1. i \in Items /\ Shown(i) /\ \A p \in run.removed : log[p].item # i
      BY <1>1, <2>1, <2>2 DEF OnlyShownItemsAreGranted, ItemsOf
    <3>2. mirror'[i] = mirror[i]
      BY <1>1, <2>1, <3>1, UpsertedIs
    <3> QED BY <1>1, <3>1, <3>2 DEF Shown
  <2> QED BY <2>2 DEF OnlyShownItemsAreGranted
<1> QED BY <1>2, <1>3

LEMMA NextGrants ==
    TypeInv /\ BatchInv /\ OnlyShownItemsAreGranted /\ [Next]_vars => OnlyShownItemsAreGranted'
<1> SUFFICES ASSUME TypeInv, BatchInv, OnlyShownItemsAreGranted, [Next]_vars
             PROVE  OnlyShownItemsAreGranted'
  OBVIOUS
<1>1. ASSUME UNCHANGED <<log, mirror>>, granted' = granted PROVE OnlyShownItemsAreGranted'
  BY <1>1 DEF OnlyShownItemsAreGranted, Shown
<1>2. CASE UNCHANGED vars
  BY <1>1, <1>2 DEF vars
<1>3. ASSUME NEW s \in Scopes, StartRun(s) PROVE OnlyShownItemsAreGranted'
  BY <1>1, <1>3 DEF StartRun
<1>4. ASSUME NEW i \in Items, NEW live \in BOOLEAN, Change(i, live)
      PROVE  OnlyShownItemsAreGranted'
  <2>1. PICK c \in Changes : log' = Append(log, c)
    BY <1>4 DEF Change, Changes
  <2>2. /\ log \in Seq(Changes) /\ mirror \in [Items -> 0..Len(log)] /\ granted \subseteq Items
        /\ UNCHANGED <<mirror, granted>> /\ Len(log) \in Nat
    BY <1>4 DEF TypeInv, StoreTypes, Change
  <2>3. \A p \in 1..Len(log) : log'[p] = log[p]
    BY <2>1, <2>2, LogGrows
  <2> QED BY <2>2, <2>3 DEF OnlyShownItemsAreGranted, Shown
<1>5. ASSUME NEW found \in SUBSET Items, ScanPermissions(found)
      PROVE  OnlyShownItemsAreGranted'
  <2>1. \A i \in Candidates : Shown(i)
    BY DEF Candidates
  <2> QED BY <1>5, <2>1 DEF ScanPermissions, OnlyShownItemsAreGranted, Shown
<1>6. CASE Prune
  BY <1>6 DEF Prune, OnlyShownItemsAreGranted
<1>7. CASE PlainStep \/ StartListing \/ TakeEntry \/ ExhaustRemoved \/ SaveScope \/ Abort
  BY <1>1, <1>7 DEF PlainStep, ListDrive, MissDrive, SkipStage, OpenDrive, PassDrive, EndListing,
     RetryRemoved, AdvanceCursor, CursorGone, ListingFails, KeepDrive, StartListing, TakeEntry,
     ExhaustRemoved, SaveScope, Abort
<1>8. CASE Next
  BY <1>3, <1>4, <1>5, <1>6, <1>7, <1>8, WriteGrants DEF Next, Stage, PlainStep
<1> QED BY <1>2, <1>8

\* An item that the mirror holds as removed, or does not hold, has no rows of
\* permissions: the write of the removal takes them away, the permissions
\* stage looks at shown items only, and pruning leaves none.
THEOREM GrantsNeedItems == Spec => []OnlyShownItemsAreGranted
<1>1. Init => TypeInv /\ BatchInv /\ OnlyShownItemsAreGranted
  BY InitTypes, InitBatches DEF Init, OnlyShownItemsAreGranted
<1>2. TypeInv /\ BatchInv /\ OnlyShownItemsAreGranted /\ [Next]_vars
      => (TypeInv /\ BatchInv /\ OnlyShownItemsAreGranted)'
  BY NextTypes, NextBatches, NextGrants
<1> QED BY <1>1, <1>2, PTL DEF Spec
=============================================================================
