--------------------------- MODULE MvRefreshProofs ---------------------------
(***************************************************************************)
(* Proofs about MvRefresh for any views, tables, dependencies, triggers    *)
(* and sessions: the queue forgets a dirty view only for a known reason.   *)
(***************************************************************************)
EXTENDS MvRefresh, TLAPS

(***************************************************************************)
(* Types                                                                   *)
(*                                                                         *)
(* That uncommitted rows are rows is inductive only together with          *)
(* InsertersApart: a rollback takes its own rows away, which must not be   *)
(* those of another session.                                               *)
(***************************************************************************)

Places == Views \cup Writers
Tx == [pc : {"idle", "open", "enqueue"}, wrote : SUBSET Tables, inserted : SUBSET Views]
RefreshRun == [pc : {"idle", "mark", "refresh", "delete"},
               view : Views \cup {NoView}, todo : SUBSET Views, missed : BOOLEAN]

\* The rows a transaction has inserted are uncommitted as long as it is open.
InsertedFits(t, queue) == t.inserted \subseteq IF t.pc = "open" THEN queue ELSE {}

\* ON CONFLICT waits: no two open transactions have inserted the same row.
InsertersApart ==
    \A w, x \in Writers : w # x => tx[w].inserted \cap tx[x].inserted = {}

TxTypes ==
    /\ tx \in [Writers -> Tx]
    /\ \A w \in Writers : InsertedFits(tx[w], rows)
    /\ InsertersApart

RunTypes == run \in RefreshRun /\ ((run.pc = "idle") = (run.view = NoView))

SetTypes ==
    /\ rows \subseteq Views /\ stale \subseteq Views /\ excused \subseteq Views
    /\ ahead \in [Places -> SUBSET Places]
    /\ faults \in Nat

\* TypeOK and what makes it inductive.
TypeInv == SetTypes /\ TxTypes /\ RunTypes

LEMMA TypesAreTypeOK == TypeInv => TypeOK
BY DEF TypeInv, SetTypes, TxTypes, RunTypes, InsertedFits, TypeOK, Places, Tx, RefreshRun

\* What a set of tables invalidates are views.
LEMMA ImpactedViews == \A ts : Impacted(ts) \subseteq Views
BY DEF Impacted

LEMMA NoRunIsRun == NoRun \in RefreshRun /\ NoRun.pc = "idle" /\ NoRun.view = NoView
BY DEF NoRun, RefreshRun

LEMMA NoTxIsTx ==
    NoTx \in Tx /\ NoTx.pc = "idle" /\ NoTx.wrote = {} /\ NoTx.inserted = {}
BY DEF NoTx, Tx

\* The loop goes on with a view of the list, or ends.
LEMMA GoOnRun ==
    ASSUME NEW todo \in SUBSET Views, GoOn(todo)
    PROVE  \/ run' = NoRun
           \/ /\ run' \in RefreshRun /\ run'.pc = "mark"
              /\ run'.view \in todo /\ run'.todo = todo \ {run'.view}
BY DEF GoOn, NoRun, RefreshRun

LEMMA GoOnTypes ==
    ASSUME NEW todo \in SUBSET Views, GoOn(todo)
    PROVE  RunTypes'
BY GoOnRun, NoRunIsRun, MvAssumption DEF RunTypes

LEMMA GoneTypes ==
    ASSUME ahead \in [Places -> SUBSET Places], NEW S
    PROVE  Gone(S) \in [Places -> SUBSET Places]
BY DEF Gone, Places

\* One transaction changes, and its uncommitted rows are its own.
LEMMA OneTx ==
    ASSUME TxTypes, NEW w \in Writers, NEW t \in Tx, tx' = [tx EXCEPT ![w] = t],
           InsertedFits(t, rows'),
           \A x \in Writers \ {w} : /\ InsertedFits(tx[x], rows')
                                    /\ t.inserted \cap tx[x].inserted = {}
    PROVE  TxTypes'
<1>1. tx' \in [Writers -> Tx] /\ tx'[w] = t /\ \A x \in Writers \ {w} : tx'[x] = tx[x]
  BY DEF TxTypes
<1>2. \A x \in Writers : InsertedFits(tx'[x], rows')
  BY <1>1
<1>3. InsertersApart'
  BY <1>1 DEF TxTypes, InsertersApart
<1> QED BY <1>1, <1>2, <1>3 DEF TxTypes

\* The same for a transaction that has no uncommitted rows, or ends.
LEMMA EndTx ==
    ASSUME TxTypes, NEW w \in Writers, NEW t \in Tx, tx' = [tx EXCEPT ![w] = t],
           t.inserted = {}, rows \ tx[w].inserted \subseteq rows'
    PROVE  TxTypes'
BY OneTx DEF TxTypes, InsertersApart, InsertedFits

(***************************************************************************)
(* What a writer's step makes of its transaction                           *)
(***************************************************************************)

Queued(t) == IF t \in Triggered THEN Impacted({t}) ELSE {}

LEMMA TxAt ==
    ASSUME TypeInv, NEW w \in Writers, NEW t, tx' = [tx EXCEPT ![w] = t]
    PROVE  tx'[w] = t /\ \A x \in Writers \ {w} : tx'[x] = tx[x]
BY DEF TypeInv, TxTypes

LEMMA BeginTx ==
    ASSUME TypeInv, NEW w \in Writers, Begin(w)
    PROVE  /\ tx[w].pc = "idle" /\ tx[w].inserted = {}
           /\ tx' = [tx EXCEPT ![w] = [pc |-> "open", wrote |-> tx[w].wrote, inserted |-> {}]]
<1>1. tx[w] \in Tx /\ tx[w].pc = "idle" /\ tx[w].inserted = {}
  BY DEF Begin, TypeInv, TxTypes, InsertedFits
<1>2. [tx[w] EXCEPT !.pc = "open"] = [pc |-> "open", wrote |-> tx[w].wrote, inserted |-> {}]
  BY <1>1 DEF Tx
<1>3. tx' = [tx EXCEPT ![w] = [@ EXCEPT !.pc = "open"]]
  BY DEF Begin
<1> QED BY <1>1, <1>2, <1>3

LEMMA WriteTx ==
    ASSUME TypeInv, NEW w \in Writers, NEW t \in Tables, Write(w, t)
    PROVE  /\ tx[w].pc = "open"
           /\ tx' = [tx EXCEPT ![w] = [pc |-> "open", wrote |-> tx[w].wrote \cup {t},
                                       inserted |-> tx[w].inserted \cup (Queued(t) \ rows)]]
           /\ t \in Triggered \/ w \in JobWriters
           /\ \A x \in Writers \ {w} : Queued(t) \cap tx[x].inserted = {}
           /\ rows' = rows \cup Queued(t)
           /\ ahead' = InsertedBy(w, Queued(t) \ rows)
           /\ UNCHANGED <<stale, run, excused, faults>>
<1> DEFINE S == Queued(t) \ rows
<1>1. tx[w] \in Tx /\ tx[w].pc = "open"
  BY DEF Write, TypeInv, TxTypes
<1>2. [[tx[w] EXCEPT !.wrote = tx[w].wrote \cup {t}] EXCEPT !.inserted = tx[w].inserted \cup S]
        = [pc |-> "open", wrote |-> tx[w].wrote \cup {t}, inserted |-> tx[w].inserted \cup S]
  <2>1. [tx[w] EXCEPT !.wrote = tx[w].wrote \cup {t}]
          = [pc |-> "open", wrote |-> tx[w].wrote \cup {t}, inserted |-> tx[w].inserted]
    BY <1>1 DEF Tx
  <2>2. \A a, b, c, d : [[pc |-> a, wrote |-> b, inserted |-> c] EXCEPT !.inserted = d]
                          = [pc |-> a, wrote |-> b, inserted |-> d]
    OBVIOUS
  <2>3. [[pc |-> "open", wrote |-> tx[w].wrote \cup {t}, inserted |-> tx[w].inserted]
           EXCEPT !.inserted = tx[w].inserted \cup S]
          = [pc |-> "open", wrote |-> tx[w].wrote \cup {t}, inserted |-> tx[w].inserted \cup S]
    BY <2>2
  <2> QED BY <2>1, <2>3, Zenon
<1>3. tx' = [tx EXCEPT ![w] =
               [[tx[w] EXCEPT !.wrote = tx[w].wrote \cup {t}] EXCEPT
                  !.inserted = tx[w].inserted \cup S]]
  <2>1. tx' = [tx EXCEPT ![w].wrote = @ \cup {t}, ![w].inserted = @ \cup S]
    BY DEF Write, Queued
  <2> HIDE DEF S
  <2>2. tx \in [Writers -> Tx]
    BY DEF TypeInv, TxTypes
  <2> QED BY <2>1, <2>2
<1>4. \A x \in Writers \ {w} : Queued(t) \cap tx[x].inserted = {}
  BY DEF Write, Queued, MustWait
<1>5. /\ t \in Triggered \/ w \in JobWriters
      /\ rows' = rows \cup Queued(t) /\ ahead' = InsertedBy(w, Queued(t) \ rows)
      /\ UNCHANGED <<stale, run, excused, faults>>
  BY DEF Write, Queued
<1> QED BY <1>1, <1>2, <1>3, <1>4, <1>5

LEMMA CommitTx ==
    ASSUME TypeInv, NEW w \in Writers, Commit(w)
    PROVE  /\ tx' = [tx EXCEPT ![w] = AfterCommit(w)]
           /\ AfterCommit(w) \in Tx
           /\ AfterCommit(w).inserted = {} /\ AfterCommit(w).pc # "open"
           /\ w \in JobWriters => AfterCommit(w).pc = "enqueue" /\ AfterCommit(w).wrote = tx[w].wrote
           /\ w \notin JobWriters => AfterCommit(w) = NoTx
BY NoTxIsTx DEF Commit, AfterCommit, TypeInv, TxTypes, Tx

LEMMA InitTypes == Init => TypeInv
<1> SUFFICES ASSUME Init PROVE TypeInv
  OBVIOUS
<1>1. SetTypes
  BY DEF Init, SetTypes, Places
<1>2. TxTypes
  BY NoTxIsTx DEF Init, TxTypes, InsertedFits, InsertersApart
<1>3. RunTypes
  BY NoRunIsRun DEF Init, RunTypes
<1> QED BY <1>1, <1>2, <1>3 DEF TypeInv

WriterStep(w) ==
    \/ Begin(w) \/ Commit(w) \/ Rollback(w) \/ Enqueue(w) \/ EnqueueFails(w)
    \/ \E t \in Tables : Write(w, t)

LEMMA WriterTypes ==
    ASSUME TypeInv, NEW w \in Writers, WriterStep(w)
    PROVE  TypeInv'
<1> USE DEF TypeInv
<1>1. CASE Begin(w)
  <2>1. SetTypes' /\ RunTypes'
    BY <1>1 DEF Begin, SetTypes, Open, Places, RunTypes
  <2>2. [pc |-> "open", wrote |-> tx[w].wrote, inserted |-> {}] \in Tx
    BY DEF TxTypes, Tx
  <2>3. TxTypes'
    BY <1>1, <2>2, BeginTx, EndTx DEF Begin
  <2> QED BY <2>1, <2>3
<1>2. ASSUME NEW t \in Tables, Write(w, t)
      PROVE  TypeInv'
  <2> DEFINE S == Queued(t) \ rows
             u == [pc |-> "open", wrote |-> tx[w].wrote \cup {t},
                   inserted |-> tx[w].inserted \cup S]
  <2>1. /\ tx[w].pc = "open" /\ tx' = [tx EXCEPT ![w] = u]
        /\ \A x \in Writers \ {w} : Queued(t) \cap tx[x].inserted = {}
        /\ rows' = rows \cup Queued(t) /\ ahead' = InsertedBy(w, S)
        /\ UNCHANGED <<stale, run, excused, faults>>
    BY <1>2, WriteTx
  <2>2. Queued(t) \subseteq Views
    BY ImpactedViews DEF Queued
  <2>3. InsertedBy(w, S) \in [Places -> SUBSET Places]
    BY <2>2 DEF InsertedBy, SetTypes, Places
  <2>4. SetTypes' /\ RunTypes'
    BY <2>1, <2>2, <2>3 DEF SetTypes, RunTypes
  <2>5. u \in Tx
    BY <2>2 DEF TxTypes, Tx
  <2>6. InsertedFits(u, rows')
    BY <2>1 DEF InsertedFits, TxTypes
  <2>7. \A x \in Writers \ {w} : InsertedFits(tx[x], rows')
    BY <2>1 DEF InsertedFits, TxTypes
  <2>8. \A x \in Writers \ {w} : u.inserted \cap tx[x].inserted = {}
    BY <2>1 DEF TxTypes, InsertersApart
  <2>9. TxTypes'
    BY <2>1, <2>5, <2>6, <2>7, <2>8, OneTx
  <2> QED BY <2>4, <2>9
<1>3. CASE Commit(w)
  <2>1. SetTypes'
    BY <1>3, GoneTypes, ImpactedViews DEF Commit, SetTypes
  <2>2. RunTypes'
    BY <1>3 DEF Commit, RunTypes, RefreshRun
  <2>3. TxTypes'
    BY <1>3, CommitTx, EndTx DEF Commit
  <2> QED BY <2>1, <2>2, <2>3
<1>4. CASE Rollback(w)
  <2>1. SetTypes' /\ RunTypes'
    BY <1>4, GoneTypes DEF Rollback, SetTypes, RunTypes
  <2>2. TxTypes'
    BY <1>4, NoTxIsTx, EndTx DEF Rollback
  <2> QED BY <2>1, <2>2
<1>5. CASE Enqueue(w)
  <2>1. SetTypes' /\ RunTypes'
    BY <1>5, ImpactedViews DEF Enqueue, Open, Places, SetTypes, RunTypes
  <2>2. TxTypes'
    BY <1>5, NoTxIsTx, EndTx DEF Enqueue
  <2> QED BY <2>1, <2>2
<1>6. CASE EnqueueFails(w)
  <2>1. SetTypes' /\ RunTypes'
    BY <1>6, ImpactedViews DEF EnqueueFails, Fault, SetTypes, RunTypes
  <2>2. TxTypes'
    BY <1>6, NoTxIsTx, EndTx DEF EnqueueFails
  <2> QED BY <2>1, <2>2
<1> QED BY <1>1, <1>2, <1>3, <1>4, <1>5, <1>6 DEF WriterStep

(***************************************************************************)
(* What the run and the writers rely on                                    *)
(***************************************************************************)

\* The views of a run keep their committed rows until the run deletes them:
\* nobody else deletes a committed row.
RunIsVisible ==
    run.pc # "idle" =>
        /\ {run.view} \cup run.todo \subseteq Visible
        /\ run.view \notin run.todo

\* What an open transaction has written to tables with triggers is queued, by
\* itself or visibly, unless a run has deleted the row since.
OpenWritesAreQueued ==
    \A w \in Writers : tx[w].pc = "open" =>
        \A v \in Impacted(tx[w].wrote \cap Triggered) :
            v \in excused \/ v \in Visible \/ v \in tx[w].inserted

\* Sessions that are not ingest jobs write to tables with triggers only.
WritersFit ==
    \A w \in Writers :
        /\ tx[w].pc = "idle" => tx[w].wrote = {}
        /\ w \notin JobWriters => tx[w].wrote \subseteq Triggered

\* An ingest job is still going to queue the view for a table without a trigger.
Owed(v) ==
    \E w \in Writers : tx[w].pc = "enqueue" /\ v \in Impacted(tx[w].wrote \ Triggered)

DirtyIsOwed == \A v \in stale \ excused : v \in Visible \/ Owed(v)

\* The inductive invariant.
QueueInv ==
    TypeInv /\ RunIsVisible /\ WritersFit /\ OpenWritesAreQueued /\ DirtyIsOwed

LEMMA VisibleRows ==
    \A v : v \in Visible <=> v \in rows /\ \A w \in Writers : v \notin tx[w].inserted
BY DEF Visible, Uncommitted

LEMMA VisibleRowsNext ==
    \A v : v \in Visible' <=> v \in rows' /\ \A w \in Writers : v \notin tx'[w].inserted
BY DEF Visible, Uncommitted

LEMMA ImpactedUnion ==
    \A ts, us : Impacted(ts \cup us) = Impacted(ts) \cup Impacted(us)
BY DEF Impacted

LEMMA ImpactedNone == Impacted({}) = {}
BY DEF Impacted

LEMMA RunnerTypes == TypeInv /\ RunIsVisible /\ RunnerStep => TypeInv'
<1> SUFFICES ASSUME TypeInv, RunIsVisible, RunnerStep PROVE TypeInv'
  OBVIOUS
<1> USE DEF TypeInv
<1>1. CASE StartRun
  <2>1. PICK S \in SUBSET Visible : GoOn(S)
    BY <1>1 DEF StartRun
  <2>2. S \in SUBSET Views
    BY DEF Visible, SetTypes
  <2>3. RunTypes'
    BY <2>1, <2>2, GoOnTypes
  <2> QED BY <1>1, <2>3 DEF StartRun, SetTypes, TxTypes, InsertersApart
<1>2. CASE StartRefresh \/ EndRefresh
  <2>1. RunTypes'
    BY <1>2 DEF StartRefresh, EndRefresh, RunTypes, RefreshRun
  <2>2. UNCHANGED <<rows, ahead, tx, faults>> /\ stale' \subseteq stale /\ excused' \subseteq excused
    BY <1>2 DEF StartRefresh, EndRefresh
  <2> QED BY <2>1, <2>2 DEF SetTypes, TxTypes, InsertersApart
<1>3. CASE DeleteRow
  <2>1. run.todo \in SUBSET Views /\ run.view \in Visible
    BY <1>3 DEF DeleteRow, RunTypes, RefreshRun, RunIsVisible
  <2>2. RunTypes'
    BY <1>3, <2>1, GoOnTypes DEF DeleteRow
  <2>3. SetTypes'
    BY <1>3, <2>1, GoneTypes DEF DeleteRow, SetTypes, Visible
  <2>4. \A w \in Writers : InsertedFits(tx[w], rows')
    BY <1>3, <2>1, VisibleRows DEF DeleteRow, TxTypes, InsertedFits
  <2> QED BY <1>3, <2>2, <2>3, <2>4 DEF DeleteRow, TxTypes, InsertersApart
<1>4. CASE RefreshFails
  <2>1. RunTypes'
    BY <1>4, GoOnTypes DEF RefreshFails, RunTypes, RefreshRun
  <2> QED BY <1>4, <2>1 DEF RefreshFails, SetTypes, TxTypes, InsertersApart
<1> QED BY <1>1, <1>2, <1>3, <1>4 DEF RunnerStep

\* A crash excuses what the ingest jobs still owed for tables without triggers.
LEMMA CrashExcuses ==
    ASSUME Crash
    PROVE  \A v : v \in excused' <=>
             \/ v \in excused
             \/ \E w \in JobWriters : tx[w].pc = "enqueue" /\ v \in Impacted(tx[w].wrote \ Triggered)
<1>1. excused' = excused \cup UNION {Impacted(tx[w].wrote \ Triggered) :
                                       w \in {x \in JobWriters : tx[x].pc = "enqueue"}}
  BY DEF Crash
<1> QED BY <1>1

LEMMA FaultTypes == TypeInv /\ (SkipView \/ AbortRun \/ Crash) => TypeInv'
<1> SUFFICES ASSUME TypeInv, SkipView \/ AbortRun \/ Crash PROVE TypeInv'
  OBVIOUS
<1> USE DEF TypeInv
<1>1. CASE SkipView
  <2>1. RunTypes'
    BY <1>1, GoOnTypes DEF SkipView, RunTypes, RefreshRun
  <2> QED BY <1>1, <2>1 DEF SkipView, Fault, SetTypes, TxTypes, InsertersApart
<1>2. CASE AbortRun
  BY <1>2, NoRunIsRun DEF AbortRun, Fault, RunTypes, SetTypes, TxTypes, InsertersApart
<1>3. CASE Crash
  <2>1. RunTypes'
    BY <1>3, NoRunIsRun DEF Crash, RunTypes
  <2>2. /\ rows' \subseteq rows /\ stale' = stale /\ faults' \in Nat
        /\ ahead' \in [Places -> SUBSET Places]
    BY <1>3, GoneTypes DEF Crash, Fault, SetTypes
  <2>3. excused' \subseteq Views
    BY <1>3, CrashExcuses, ImpactedViews DEF SetTypes
  <2>4. tx' \in [Writers -> Tx]
    BY <1>3, NoTxIsTx DEF Crash, TxTypes
  <2>5. \A w \in Writers : tx'[w] = IF w \in JobWriters THEN NoTx ELSE tx[w]
    BY <1>3 DEF Crash
  <2>6. \A v \in rows : (\A w \in JobWriters : v \notin tx[w].inserted) => v \in rows'
    <3>1. rows' = rows \ UNION {tx[w].inserted : w \in JobWriters}
      BY <1>3 DEF Crash
    <3> QED BY <3>1
  <2>7. ASSUME NEW w \in Writers PROVE InsertedFits(tx'[w], rows')
    <3>1. CASE w \in JobWriters
      BY <2>5, <3>1, NoTxIsTx DEF InsertedFits
    <3>2. CASE w \notin JobWriters
      BY <2>5, <2>6, <3>2, MvAssumption DEF InsertedFits, TxTypes, InsertersApart
    <3> QED BY <3>1, <3>2
  <2>8. InsertersApart'
    BY <2>5, NoTxIsTx DEF TxTypes, InsertersApart
  <2> QED BY <2>1, <2>2, <2>3, <2>4, <2>7, <2>8 DEF SetTypes, TxTypes
<1> QED BY <1>1, <1>2, <1>3

LEMMA NextTypes == TypeInv /\ RunIsVisible /\ [Next]_vars => TypeInv'
<1> SUFFICES ASSUME TypeInv, RunIsVisible, [Next]_vars PROVE TypeInv'
  OBVIOUS
<1>1. CASE UNCHANGED vars
  BY <1>1 DEF vars, TypeInv, SetTypes, TxTypes, RunTypes, InsertersApart
<1>2. Next => RunnerStep \/ SkipView \/ AbortRun \/ Crash \/ \E w \in Writers : WriterStep(w)
  BY DEF Next, WriterStep
<1> QED BY <1>1, <1>2, WriterTypes, RunnerTypes, FaultTypes

(***************************************************************************)
(* Writers and the queue                                                   *)
(***************************************************************************)

\* A writer never takes a committed row away, and leaves the run where it is.
LEMMA WriterVisible ==
    ASSUME TypeInv, NEW w \in Writers, WriterStep(w)
    PROVE  /\ Visible \subseteq Visible'
           /\ run'.pc = run.pc /\ run'.view = run.view /\ run'.todo = run.todo
           /\ \A x \in Writers \ {w} : tx'[x] = tx[x]
<1>1. CASE Begin(w)
  <2>1. tx'[w].inserted = {} /\ \A x \in Writers \ {w} : tx'[x] = tx[x]
    BY <1>1, BeginTx, TxAt
  <2> QED BY <1>1, <2>1, VisibleRows, VisibleRowsNext DEF Begin
<1>2. ASSUME NEW t \in Tables, Write(w, t)
      PROVE  /\ Visible \subseteq Visible' /\ run' = run
             /\ \A x \in Writers \ {w} : tx'[x] = tx[x]
  <2>1. /\ rows \subseteq rows' /\ run' = run
        /\ tx'[w].inserted = tx[w].inserted \cup (Queued(t) \ rows)
        /\ \A x \in Writers \ {w} : tx'[x] = tx[x]
    <3>1. tx' = [tx EXCEPT ![w] = [pc |-> "open", wrote |-> tx[w].wrote \cup {t},
                                   inserted |-> tx[w].inserted \cup (Queued(t) \ rows)]]
      BY <1>2, WriteTx
    <3>2. rows \subseteq rows' /\ run' = run
      BY <1>2 DEF Write
    <3>3. /\ tx'[w] = [pc |-> "open", wrote |-> tx[w].wrote \cup {t},
                       inserted |-> tx[w].inserted \cup (Queued(t) \ rows)]
          /\ \A x \in Writers \ {w} : tx'[x] = tx[x]
      BY <3>1, TxAt
    <3> QED BY <3>2, <3>3
  <2> QED BY <2>1, VisibleRows, VisibleRowsNext
<1>3. CASE Commit(w)
  <2>1. tx'[w].inserted = {} /\ \A x \in Writers \ {w} : tx'[x] = tx[x]
    BY <1>3, CommitTx, TxAt
  <2>2. run'.pc = run.pc /\ run'.view = run.view /\ run'.todo = run.todo
    BY <1>3 DEF Commit, TypeInv, RunTypes, RefreshRun
  <2> QED BY <1>3, <2>1, <2>2, VisibleRows, VisibleRowsNext DEF Commit
<1>4. CASE Rollback(w) \/ Enqueue(w) \/ EnqueueFails(w)
  <2>1. tx'[w].inserted = {} /\ (\A x \in Writers \ {w} : tx'[x] = tx[x]) /\ run' = run
    BY <1>4, NoTxIsTx DEF Rollback, Enqueue, EnqueueFails, TypeInv, TxTypes
  <2>2. rows \ tx[w].inserted \subseteq rows'
    BY <1>4 DEF Rollback, Enqueue, EnqueueFails
  <2> QED BY <2>1, <2>2, VisibleRows, VisibleRowsNext
<1> QED BY <1>1, <1>2, <1>3, <1>4 DEF WriterStep

\* Of a writer's step only its own transaction has to be looked at.
LEMMA OthersQueued ==
    ASSUME OpenWritesAreQueued, WritersFit, NEW w \in Writers,
           Visible \subseteq Visible', excused \subseteq excused',
           \A x \in Writers \ {w} : tx'[x] = tx[x],
           tx'[w].pc = "idle" => tx'[w].wrote = {},
           w \notin JobWriters => tx'[w].wrote \subseteq Triggered,
           tx'[w].pc = "open" =>
             \A v \in Impacted(tx'[w].wrote \cap Triggered) :
                v \in excused \/ v \in Visible' \/ v \in tx'[w].inserted
    PROVE  OpenWritesAreQueued' /\ WritersFit'
<1>1. WritersFit'
  BY DEF WritersFit
<1>2. ASSUME NEW x \in Writers, tx'[x].pc = "open", NEW v \in Impacted(tx'[x].wrote \cap Triggered)
      PROVE  v \in excused' \/ v \in Visible' \/ v \in tx'[x].inserted
  <2>1. CASE x = w
    BY <1>2, <2>1
  <2>2. CASE x # w
    BY <1>2, <2>2 DEF OpenWritesAreQueued
  <2> QED BY <2>1, <2>2
<1>3. OpenWritesAreQueued'
  BY <1>2 DEF OpenWritesAreQueued, Impacted
<1> QED BY <1>1, <1>3

\* What is owed stays owed unless the one who owes it has moved on.
LEMMA OthersOwe ==
    ASSUME NEW w \in Writers, \A x \in Writers \ {w} : tx'[x] = tx[x], NEW v, Owed(v)
    PROVE  Owed(v)' \/ (tx[w].pc = "enqueue" /\ v \in Impacted(tx[w].wrote \ Triggered))
<1>1. PICK x \in Writers : tx[x].pc = "enqueue" /\ v \in Impacted(tx[x].wrote \ Triggered)
  BY DEF Owed
<1>2. CASE x = w
  BY <1>1, <1>2
<1>3. CASE x # w
  BY <1>1, <1>3 DEF Owed, Impacted
<1> QED BY <1>2, <1>3

LEMMA WriterQueue ==
    ASSUME TypeInv, WritersFit, OpenWritesAreQueued, DirtyIsOwed,
           NEW w \in Writers, WriterStep(w)
    PROVE  WritersFit' /\ OpenWritesAreQueued' /\ DirtyIsOwed'
<1> USE DEF TypeInv
<1>a. Visible \subseteq Visible' /\ \A x \in Writers \ {w} : tx'[x] = tx[x]
  BY WriterVisible
<1>1. CASE Begin(w)
  <2>1. /\ tx[w].pc = "idle" /\ tx'[w] = [pc |-> "open", wrote |-> {}, inserted |-> {}]
        /\ stale' = stale /\ excused' = excused
    <3>1. tx[w].pc = "idle" /\ tx[w].wrote = {} /\ stale' = stale /\ excused' = excused
      BY <1>1 DEF Begin, WritersFit
    <3>2. tx' = [tx EXCEPT ![w] = [pc |-> "open", wrote |-> tx[w].wrote, inserted |-> {}]]
      BY <1>1, BeginTx
    <3> QED BY <3>1, <3>2, TxAt
  <2>2. WritersFit' /\ OpenWritesAreQueued'
    BY <1>a, <2>1, ImpactedNone, OthersQueued
  <2>3. DirtyIsOwed'
    BY <1>a, <2>1, OthersOwe DEF DirtyIsOwed
  <2> QED BY <2>2, <2>3
<1>2. ASSUME NEW t \in Tables, Write(w, t)
      PROVE  WritersFit' /\ OpenWritesAreQueued' /\ DirtyIsOwed'
  <2>1. /\ tx[w].pc = "open" /\ rows' = rows \cup Queued(t)
        /\ tx'[w] = [pc |-> "open", wrote |-> tx[w].wrote \cup {t},
                     inserted |-> tx[w].inserted \cup (Queued(t) \ rows)]
        /\ t \in Triggered \/ w \in JobWriters
        /\ \A x \in Writers \ {w} : Queued(t) \cap tx[x].inserted = {}
        /\ stale' = stale /\ excused' = excused
    <3>1. tx' = [tx EXCEPT ![w] = [pc |-> "open", wrote |-> tx[w].wrote \cup {t},
                                   inserted |-> tx[w].inserted \cup (Queued(t) \ rows)]]
      BY <1>2, WriteTx
    <3>2. /\ tx[w].pc = "open" /\ rows' = rows \cup Queued(t)
          /\ t \in Triggered \/ w \in JobWriters
          /\ \A x \in Writers \ {w} : Queued(t) \cap tx[x].inserted = {}
          /\ stale' = stale /\ excused' = excused
      BY <1>2, WriteTx
    <3> QED BY <3>1, <3>2, TxAt
  <2>2. ASSUME NEW v \in Impacted(tx'[w].wrote \cap Triggered)
        PROVE  v \in excused \/ v \in Visible' \/ v \in tx'[w].inserted
    <3>1. v \in Impacted(tx[w].wrote \cap Triggered) \/ v \in Queued(t)
      BY <2>1, <2>2 DEF Impacted, Queued
    <3>2. CASE v \in Impacted(tx[w].wrote \cap Triggered)
      BY <1>a, <2>1, <3>2 DEF OpenWritesAreQueued
    <3>3. CASE v \in Queued(t)
      BY <1>a, <2>1, <3>3, VisibleRowsNext
    <3> QED BY <3>1, <3>2, <3>3
  <2>3. WritersFit' /\ OpenWritesAreQueued'
    BY <1>a, <2>1, <2>2, OthersQueued DEF WritersFit
  <2>4. DirtyIsOwed'
    BY <1>a, <2>1, OthersOwe DEF DirtyIsOwed
  <2> QED BY <2>3, <2>4
<1>3. CASE Commit(w)
  <2>1. /\ tx[w].pc = "open" /\ stale' = stale \cup Impacted(tx[w].wrote)
        /\ excused' = excused /\ rows' = rows
    BY <1>3 DEF Commit
  <2>2. /\ tx'[w] = AfterCommit(w) /\ AfterCommit(w).pc # "open" /\ AfterCommit(w).inserted = {}
        /\ w \in JobWriters => AfterCommit(w).pc = "enqueue" /\ AfterCommit(w).wrote = tx[w].wrote
        /\ w \notin JobWriters => AfterCommit(w) = NoTx
    BY <1>3, CommitTx DEF TxTypes
  <2>3. WritersFit' /\ OpenWritesAreQueued'
    BY <1>a, <2>1, <2>2, NoTxIsTx, OthersQueued
  <2>4. ASSUME NEW v \in Impacted(tx[w].wrote \cap Triggered), v \notin excused
        PROVE  v \in Visible'
    <3>1. v \in Visible \/ v \in tx[w].inserted
      BY <2>1, <2>4 DEF OpenWritesAreQueued
    <3>2. CASE v \in tx[w].inserted
      BY <1>a, <2>1, <2>2, <3>2, VisibleRowsNext DEF TxTypes, InsertedFits, InsertersApart
    <3> QED BY <1>a, <3>1, <3>2
  <2>5. ASSUME NEW v \in Impacted(tx[w].wrote \ Triggered)
        PROVE  Owed(v)'
    <3>1. w \in JobWriters
      BY <2>5 DEF WritersFit, Impacted
    <3> QED BY <2>2, <2>5, <3>1 DEF Owed, Impacted
  <2>6. ASSUME NEW v \in stale' \ excused' PROVE v \in Visible' \/ Owed(v)'
    <3>1. CASE v \in stale
      BY <1>a, <2>1, <3>1, <2>6, OthersOwe DEF DirtyIsOwed
    <3>2. CASE v \in Impacted(tx[w].wrote)
      <4>1. \/ v \in Impacted(tx[w].wrote \cap Triggered)
            \/ v \in Impacted(tx[w].wrote \ Triggered)
        BY <3>2 DEF Impacted
      <4> QED BY <2>1, <2>4, <2>5, <2>6, <4>1
    <3> QED BY <2>1, <2>6, <3>1, <3>2
  <2>7. DirtyIsOwed'
    BY <2>6 DEF DirtyIsOwed
  <2> QED BY <2>3, <2>7
<1>4. CASE Rollback(w)
  <2>1. tx[w].pc = "open" /\ tx'[w] = NoTx /\ stale' = stale /\ excused' = excused
    BY <1>4 DEF Rollback, TxTypes
  <2>2. WritersFit' /\ OpenWritesAreQueued'
    BY <1>a, <2>1, NoTxIsTx, OthersQueued
  <2>3. DirtyIsOwed'
    BY <1>a, <2>1, OthersOwe DEF DirtyIsOwed
  <2> QED BY <2>2, <2>3
<1>5. CASE Enqueue(w)
  <2>1. /\ tx[w].pc = "enqueue" /\ tx'[w] = NoTx /\ stale' = stale /\ excused' = excused
        /\ rows' = rows \cup Impacted(tx[w].wrote)
        /\ \A x \in Writers \ {w} : Impacted(tx[w].wrote) \cap tx[x].inserted = {}
    BY <1>5 DEF Enqueue, MustWait, TxTypes
  <2>2. WritersFit' /\ OpenWritesAreQueued'
    BY <1>a, <2>1, NoTxIsTx, OthersQueued
  <2>3. Impacted(tx[w].wrote) \subseteq Visible'
    BY <1>a, <2>1, NoTxIsTx, VisibleRowsNext
  <2>4. Impacted(tx[w].wrote \ Triggered) \subseteq Impacted(tx[w].wrote)
    BY DEF Impacted
  <2>5. DirtyIsOwed'
    BY <1>a, <2>1, <2>3, <2>4, OthersOwe DEF DirtyIsOwed
  <2> QED BY <2>2, <2>5
<1>6. CASE EnqueueFails(w)
  <2>1. /\ tx[w].pc = "enqueue" /\ tx'[w] = NoTx /\ stale' = stale
        /\ excused' = excused \cup Impacted(tx[w].wrote \ Triggered)
    BY <1>6 DEF EnqueueFails, TxTypes
  <2>2. WritersFit' /\ OpenWritesAreQueued'
    BY <1>a, <2>1, NoTxIsTx, OthersQueued
  <2>3. DirtyIsOwed'
    BY <1>a, <2>1, OthersOwe DEF DirtyIsOwed
  <2> QED BY <2>2, <2>3
<1> QED BY <1>1, <1>2, <1>3, <1>4, <1>5, <1>6 DEF WriterStep

(***************************************************************************)
(* The run and the queue                                                   *)
(***************************************************************************)

\* The run starts with visible rows and keeps to those it has not deleted.
LEMMA GoOnVisible ==
    ASSUME NEW todo \in SUBSET Views, GoOn(todo), todo \subseteq Visible'
    PROVE  RunIsVisible'
BY GoOnRun, NoRunIsRun DEF RunIsVisible

\* What is said of the writers and the dirty views does not depend on the run.
LEMMA QueueKept ==
    ASSUME UNCHANGED <<rows, tx>>, stale' \subseteq stale,
           WritersFit, OpenWritesAreQueued, DirtyIsOwed,
           \A v \in excused \ excused' : v \in Visible
    PROVE  WritersFit' /\ OpenWritesAreQueued' /\ DirtyIsOwed'
<1>1. Visible' = Visible /\ \A v : Owed(v)' <=> Owed(v)
  BY DEF Visible, Uncommitted, Owed
<1>2. \A w \in Writers : Impacted(tx'[w].wrote \cap Triggered) = Impacted(tx[w].wrote \cap Triggered)
  OBVIOUS
<1>3. WritersFit'
  BY DEF WritersFit
<1>4. OpenWritesAreQueued'
  BY <1>1, <1>2 DEF OpenWritesAreQueued
<1>5. DirtyIsOwed'
  BY <1>1 DEF DirtyIsOwed
<1> QED BY <1>3, <1>4, <1>5

\* A view leaves the queue with everything that was written to its tables
\* before excused, as far as the refresh may have missed it.
LEMMA DeleteRowQueue ==
    ASSUME TypeInv, RunIsVisible, WritersFit, OpenWritesAreQueued, DirtyIsOwed, DeleteRow
    PROVE  RunIsVisible' /\ WritersFit' /\ OpenWritesAreQueued' /\ DirtyIsOwed'
<1> DEFINE v == run.view
<1>1. /\ tx' = tx /\ stale' = stale /\ rows' = rows \ {v} /\ GoOn(run.todo)
      /\ excused' = IF Overlapped(v) THEN excused \cup {v} ELSE excused
  BY DEF DeleteRow
<1>2. \A x : x \in Visible' <=> x \in Visible /\ x # v
  BY <1>1, VisibleRows, VisibleRowsNext
<1>3. RunIsVisible'
  <2>1. run.todo \in SUBSET Views /\ run.todo \subseteq Visible'
    BY <1>2 DEF DeleteRow, RunIsVisible, TypeInv, RunTypes, RefreshRun
  <2> QED BY <1>1, <2>1, GoOnVisible
<1>4. WritersFit'
  BY <1>1 DEF WritersFit
<1>5. OpenWritesAreQueued'
  <2>1. ASSUME NEW w \in Writers, tx[w].pc = "open", NEW u \in Impacted(tx[w].wrote \cap Triggered)
        PROVE  u \in excused' \/ u \in Visible' \/ u \in tx[w].inserted
    <3>1. CASE u = v
      <4>1. u \in Impacted(tx[w].wrote) /\ w \in Open
        BY <2>1 DEF Impacted, Open
      <4>2. Overlapped(v)
        BY <3>1, <4>1 DEF Overlapped
      <4> QED BY <1>1, <3>1, <4>2
    <3>2. CASE u # v
      BY <1>1, <1>2, <2>1, <3>2 DEF OpenWritesAreQueued
    <3> QED BY <3>1, <3>2
  <2> QED BY <1>1, <2>1 DEF OpenWritesAreQueued, Impacted
<1>6. DirtyIsOwed'
  <2>1. \A u : Owed(u) => Owed(u)'
    BY <1>1 DEF Owed, Impacted
  <2>2. v \in stale => v \in excused'
    BY <1>1 DEF Overlapped
  <2> QED BY <1>1, <1>2, <2>1, <2>2 DEF DirtyIsOwed
<1> QED BY <1>3, <1>4, <1>5, <1>6

LEMMA RunnerQueue ==
    ASSUME TypeInv, RunIsVisible, WritersFit, OpenWritesAreQueued, DirtyIsOwed,
           RunnerStep \/ SkipView \/ AbortRun
    PROVE  RunIsVisible' /\ WritersFit' /\ OpenWritesAreQueued' /\ DirtyIsOwed'
<1>1. CASE StartRun
  <2>1. PICK S \in SUBSET Visible : GoOn(S)
    BY <1>1 DEF StartRun
  <2>2. S \in SUBSET Views /\ Visible' = Visible
    BY <1>1 DEF StartRun, Visible, Uncommitted, TypeInv, SetTypes
  <2>3. RunIsVisible'
    BY <2>1, <2>2, GoOnVisible
  <2> QED BY <1>1, <2>3, QueueKept DEF StartRun
<1>2. CASE StartRefresh \/ EndRefresh
  <2>1. /\ UNCHANGED <<rows, tx>> /\ stale' \subseteq stale
        /\ \A v \in excused \ excused' : v = run.view
        /\ run.pc # "idle"
    BY <1>2 DEF StartRefresh, EndRefresh
  <2>2. Visible' = Visible
    BY <2>1 DEF Visible, Uncommitted
  <2>3. run'.view = run.view /\ run'.todo = run.todo
    BY <1>2 DEF StartRefresh, EndRefresh, TypeInv, RunTypes, RefreshRun
  <2>4. RunIsVisible'
    BY <2>1, <2>2, <2>3 DEF RunIsVisible
  <2> QED BY <2>1, <2>4, QueueKept DEF RunIsVisible
<1>3. CASE DeleteRow
  BY <1>3, DeleteRowQueue
<1>4. CASE RefreshFails \/ SkipView
  <2>1. UNCHANGED <<rows, tx, stale, excused>> /\ GoOn(run.todo) /\ run.pc # "idle"
    BY <1>4 DEF RefreshFails, SkipView
  <2>2. run.todo \in SUBSET Views /\ Visible' = Visible /\ run.todo \subseteq Visible
    BY <2>1 DEF Visible, Uncommitted, RunIsVisible, TypeInv, RunTypes, RefreshRun
  <2>3. RunIsVisible'
    BY <2>1, <2>2, GoOnVisible
  <2> QED BY <2>1, <2>3, QueueKept
<1>5. CASE AbortRun
  <2>1. RunIsVisible'
    BY <1>5, NoRunIsRun DEF AbortRun, RunIsVisible
  <2> QED BY <1>5, <2>1, QueueKept DEF AbortRun
<1> QED BY <1>1, <1>2, <1>3, <1>4, <1>5 DEF RunnerStep

\* A crash rolls the ingest jobs back and excuses what they still owed.
LEMMA CrashQueue ==
    ASSUME TypeInv, WritersFit, OpenWritesAreQueued, DirtyIsOwed, Crash
    PROVE  RunIsVisible' /\ WritersFit' /\ OpenWritesAreQueued' /\ DirtyIsOwed'
<1>1. \A w \in Writers : tx'[w] = IF w \in JobWriters THEN NoTx ELSE tx[w]
  BY DEF Crash
<1>2. stale' = stale /\ excused \subseteq excused' /\ run' = NoRun
  BY DEF Crash
<1>3. Visible \subseteq Visible'
  <2>1. rows' = rows \ UNION {tx[w].inserted : w \in JobWriters}
    BY DEF Crash
  <2> QED BY <1>1, <2>1, VisibleRows, VisibleRowsNext, NoTxIsTx, MvAssumption
<1>4. RunIsVisible'
  BY <1>2, NoRunIsRun DEF RunIsVisible
<1>5. WritersFit'
  BY <1>1, NoTxIsTx DEF WritersFit
<1>6. OpenWritesAreQueued'
  BY <1>1, <1>2, <1>3, NoTxIsTx DEF OpenWritesAreQueued, Impacted
<1>7. ASSUME NEW v, Owed(v) PROVE Owed(v)' \/ v \in excused'
  <2>1. PICK w \in Writers : tx[w].pc = "enqueue" /\ v \in Impacted(tx[w].wrote \ Triggered)
    BY <1>7 DEF Owed
  <2>2. CASE w \in JobWriters
    BY <2>1, <2>2, CrashExcuses
  <2>3. CASE w \notin JobWriters
    BY <1>1, <2>1, <2>3 DEF Owed, Impacted
  <2> QED BY <2>2, <2>3
<1>8. DirtyIsOwed'
  BY <1>2, <1>3, <1>7 DEF DirtyIsOwed
<1> QED BY <1>4, <1>5, <1>6, <1>8

LEMMA InitQueue == Init => QueueInv
BY InitTypes, NoRunIsRun, NoTxIsTx
DEF Init, QueueInv, RunIsVisible, WritersFit, OpenWritesAreQueued, DirtyIsOwed

LEMMA NextQueue == QueueInv /\ [Next]_vars => QueueInv'
<1> SUFFICES ASSUME QueueInv, [Next]_vars PROVE QueueInv'
  OBVIOUS
<1> USE DEF QueueInv
<1>1. TypeInv'
  BY NextTypes
<1>2. ASSUME NEW w \in Writers, WriterStep(w)
      PROVE  RunIsVisible'
  BY <1>2, WriterVisible DEF RunIsVisible
<1>3. CASE UNCHANGED vars
  <2>1. RunIsVisible'
    BY <1>3 DEF vars, RunIsVisible, Visible, Uncommitted
  <2> QED BY <1>1, <1>3, <2>1, QueueKept DEF vars
<1>4. Next => \/ RunnerStep \/ SkipView \/ AbortRun \/ Crash
              \/ \E w \in Writers : WriterStep(w)
  BY DEF Next, WriterStep
<1> QED BY <1>1, <1>2, <1>3, <1>4, WriterQueue, RunnerQueue, CrashQueue

\* The variables of the queue keep their types for any views, tables and
\* sessions; what an open transaction has inserted stays in the queue.
THEOREM QueueTypeCorrect == Spec => []TypeOK
<1>1. QueueInv => TypeOK
  BY TypesAreTypeOK DEF QueueInv
<1> QED BY <1>1, InitQueue, NextQueue, PTL DEF Spec

\* For any dependencies, triggers and sessions, whatever is rolled back, fails
\* or crashes: a dirty view is forgotten by the queue only when a write
\* overlapped the refresh that removed its row, or when an ingest job could
\* not queue it for a table without a trigger.
THEOREM OnlyOverlapsForgotten == Spec => []OnlyOverlapsAreForgotten
<1>1. QueueInv => OnlyOverlapsAreForgotten
  <2>1. \A v : Owed(v) => ToBeEnqueued(v)
    BY DEF Owed, ToBeEnqueued, Impacted
  <2> QED BY <2>1 DEF QueueInv, DirtyIsOwed, OnlyOverlapsAreForgotten
<1> QED BY <1>1, InitQueue, NextQueue, PTL DEF Spec

=============================================================================
