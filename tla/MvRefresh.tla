------------------------------ MODULE MvRefresh ------------------------------
(***************************************************************************)
(* Materialized views, the queue of dirty ones and the mv_refresh job      *)
(* (worker/app/jobs/mv_refresh.py; refresh_impacted_mvs and its triggers   *)
(* in db/init).                                                            *)
(*                                                                         *)
(* What a view shows is abstracted to whether it is stale: whether a write *)
(* to one of its tables was committed after the snapshot of its last       *)
(* refresh.  dirty_since is abstracted to its order.  The job's own lock   *)
(* (JobScheduler) keeps its runs apart, so there is one runner.            *)
(***************************************************************************)
EXTENDS Naturals, FiniteSets

CONSTANTS
    Views, Tables,
    DependsOn,     \* mv_dependencies: pairs <<view, table>>
    Triggered,     \* tables with a trg_refresh_mvs_* trigger
    Writers,       \* sessions that write to the tables
    JobWriters,    \* those of the worker's ingest jobs
    Broken,        \* views whose refresh always fails
    Limit,         \* max_views_per_run
    NoView,
    MaxFaults      \* bounds the exploration

ASSUME MvAssumption ==
    /\ DependsOn \subseteq Views \X Tables
    /\ Triggered \subseteq Tables
    /\ JobWriters \subseteq Writers
    /\ Writers \cap Views = {}
    /\ Broken \subseteq Views
    /\ NoView \notin Views
    /\ Limit \in Nat \ {0} /\ MaxFaults \in Nat

VARIABLES
    rows,     \* views with a row in mv_refresh_queue, committed or not
    ahead,    \* ahead[x]: the rows and open transactions whose now() is
              \* before that of the row or open transaction x
    tx,       \* tx[w]: the transaction of writer w
    stale,    \* views that do not show some committed write
    run,      \* the mv_refresh run: where it is, its view, the views left,
              \* whether a write was committed behind the refresh's snapshot
    excused,  \* history: views whose invalidation was lost for a known reason
    faults

vars == <<rows, ahead, tx, stale, run, excused, faults>>

NoTx == [pc |-> "idle", wrote |-> {}, inserted |-> {}]
NoRun == [pc |-> "idle", view |-> NoView, todo |-> {}, missed |-> FALSE]

Impacted(ts) == {v \in Views : \E t \in ts : <<v, t>> \in DependsOn}

\* Rows that other sessions cannot see yet, and those that they can.
Uncommitted == UNION {tx[w].inserted : w \in Writers}
Visible == rows \ Uncommitted

Open == {w \in Writers : tx[w].pc = "open"}

Fault == faults < MaxFaults /\ faults' = faults + 1

Init ==
    /\ rows = {}
    /\ ahead = [x \in Views \cup Writers |-> {}]
    /\ tx = [w \in Writers |-> NoTx]
    /\ stale = {}
    /\ run = NoRun
    /\ excused = {}
    /\ faults = 0

-----------------------------------------------------------------------------
(* The queue.                                                              *)

\* The elements of S leave the order of dirty_since; the others keep theirs.
Gone(S) == [x \in Views \cup Writers |-> IF x \in S THEN {} ELSE ahead[x] \ S]

\* The views of S are inserted with the now() of the open transaction w.
InsertedBy(w, S) ==
    [x \in Views \cup Writers |-> CASE x \in S -> ahead[w]
                                    [] w \in ahead[x] -> ahead[x] \cup S
                                    [] OTHER -> ahead[x]]

\* INSERT ... ON CONFLICT (mv_name) DO NOTHING waits for a session that is
\* inserting the same row.
MustWait(w, S) == \E x \in Writers \ {w} : S \cap tx[x].inserted # {}

-----------------------------------------------------------------------------
(* Writers.                                                                *)

Begin(w) ==
    /\ tx[w].pc = "idle"
    /\ tx' = [tx EXCEPT ![w].pc = "open"]
    /\ ahead' = [ahead EXCEPT ![w] = rows \cup Open]
    /\ UNCHANGED <<rows, stale, run, excused, faults>>

\* A statement on t and its statement-level trigger, with its rows at once.
\* A table without a trigger is written by the ingest jobs only.
Write(w, t) ==
    LET S == IF t \in Triggered THEN Impacted({t}) ELSE {}
    IN  /\ tx[w].pc = "open" /\ t \notin tx[w].wrote
        /\ t \in Triggered \/ w \in JobWriters
        /\ ~MustWait(w, S)
        /\ tx' = [tx EXCEPT ![w].wrote = @ \cup {t}, ![w].inserted = @ \cup (S \ rows)]
        /\ rows' = rows \cup S
        /\ ahead' = InsertedBy(w, S \ rows)
        /\ UNCHANGED <<stale, run, excused, faults>>

AfterCommit(w) == IF w \in JobWriters
                  THEN [pc |-> "enqueue", wrote |-> tx[w].wrote, inserted |-> {}]
                  ELSE NoTx

\* The write becomes visible, and the rows it queued with it.  An ingest job
\* goes on to queue the views itself.
Commit(w) ==
    /\ tx[w].pc = "open"
    /\ stale' = stale \cup Impacted(tx[w].wrote)
    /\ run' = [run EXCEPT !.missed = @ \/ (run.pc = "refresh" /\ run.view \in Impacted(tx[w].wrote))]
    /\ tx' = [tx EXCEPT ![w] = AfterCommit(w)]
    /\ ahead' = Gone({w})
    /\ UNCHANGED <<rows, excused, faults>>

\* The transaction fails, the victim of a deadlock included.
Rollback(w) ==
    /\ tx[w].pc = "open"
    /\ tx' = [tx EXCEPT ![w] = NoTx]
    /\ rows' = rows \ tx[w].inserted
    /\ ahead' = Gone({w} \cup tx[w].inserted)
    /\ UNCHANGED <<stale, run, excused, faults>>

\* enqueue_impacted_mvs_for_tables, a transaction of its own.
Enqueue(w) ==
    LET S == Impacted(tx[w].wrote)
    IN  /\ tx[w].pc = "enqueue"
        /\ ~MustWait(w, S)
        /\ rows' = rows \cup S
        /\ ahead' = [x \in Views \cup Writers |-> IF x \in S \ rows THEN rows \cup Open ELSE ahead[x]]
        /\ tx' = [tx EXCEPT ![w] = NoTx]
        /\ UNCHANGED <<stale, run, excused, faults>>

\* Its exception is logged and forgotten.
EnqueueFails(w) ==
    /\ Fault
    /\ tx[w].pc = "enqueue"
    /\ excused' = excused \cup Impacted(tx[w].wrote \ Triggered)
    /\ tx' = [tx EXCEPT ![w] = NoTx]
    /\ UNCHANGED <<rows, ahead, stale, run>>

-----------------------------------------------------------------------------
(* run_mv_refresh.                                                         *)

\* ORDER BY dirty_since LIMIT max_views_per_run.
Oldest(S) ==
    /\ S \subseteq Visible
    /\ \A v \in S : ahead[v] \cap Visible \subseteq S
    /\ IF Cardinality(Visible) <= Limit THEN S = Visible ELSE Cardinality(S) = Limit

GoOnBug(todo) ==
    \/ todo = {} /\ run' = [run EXCEPT !.pc = "idle"]
    \/ \E v \in todo : run' = [NoRun EXCEPT !.pc = "mark", !.view = v, !.todo = todo \ {v}]

\* The loop over pending_rows goes on; the order within a run is left open.
GoOn(todo) ==
    \/ todo = {} /\ run' = NoRun
    \/ \E v \in todo : run' = [NoRun EXCEPT !.pc = "mark", !.view = v, !.todo = todo \ {v}]

StartRun ==
    /\ run.pc = "idle"
    /\ \E S \in SUBSET Visible : Oldest(S) /\ S # {} /\ GoOn(S)
    /\ UNCHANGED <<rows, ahead, tx, stale, excused, faults>>

\* attempts + 1, and REFRESH MATERIALIZED VIEW CONCURRENTLY takes its snapshot.
StartRefresh ==
    /\ run.pc = "mark"
    /\ run' = [run EXCEPT !.pc = "refresh"]
    /\ UNCHANGED <<rows, ahead, tx, stale, excused, faults>>

\* The view shows the snapshot.
EndRefresh ==
    /\ run.pc = "refresh" /\ run.view \notin Broken
    /\ run' = [run EXCEPT !.pc = "delete", !.missed = FALSE]
    /\ stale' = IF run.missed THEN stale ELSE stale \ {run.view}
    /\ excused' = excused \ {run.view}
    /\ UNCHANGED <<rows, ahead, tx, faults>>

\* A write of the view that the refresh did not see, committed or not.
Overlapped(v) == v \in stale \/ \E w \in Open : v \in Impacted(tx[w].wrote)

\* The upsert of mv_refresh_log, which nothing here reads, and then DELETE FROM
\* mv_refresh_queue WHERE mv_name, whatever happened meanwhile.
DeleteRow ==
    /\ run.pc = "delete"
    /\ rows' = rows \ {run.view}
    /\ ahead' = Gone({run.view})
    /\ excused' = IF Overlapped(run.view) THEN excused \cup {run.view} ELSE excused
    /\ GoOn(run.todo)
    /\ UNCHANGED <<tx, stale, faults>>

RefreshFailsBug ==
    /\ run.pc = "refresh" /\ run.view \in Broken
    /\ run' = NoRun
    /\ UNCHANGED <<rows, ahead, tx, stale, excused, faults>>

\* The exception of a view is caught and its row stays.
RefreshFails ==
    /\ run.pc = "refresh" /\ run.view \in Broken
    /\ GoOn(run.todo)
    /\ UNCHANGED <<rows, ahead, tx, stale, excused, faults>>

SkipViewBug ==
    /\ Fault
    /\ run.pc \in {"refresh", "delete"}
    /\ GoOn(run.todo)
    /\ rows' = rows \ {run.view}
    /\ ahead' = Gone({run.view})
    /\ UNCHANGED <<tx, stale, excused>>

\* A statement inside the try fails once.
SkipView ==
    /\ Fault
    /\ run.pc \in {"refresh", "delete"}
    /\ GoOn(run.todo)
    /\ UNCHANGED <<rows, ahead, tx, stale, excused>>

\* The UPDATE outside of the try fails: the exception ends the run.
AbortRun ==
    /\ Fault
    /\ run.pc = "mark"
    /\ run' = NoRun
    /\ UNCHANGED <<rows, ahead, tx, stale, excused>>

\* The worker ends: the refresh and the ingest jobs with it.
Crash ==
    LET undone == UNION {tx[w].inserted : w \in JobWriters}
        owing == {w \in JobWriters : tx[w].pc = "enqueue"}
    IN  /\ Fault
        /\ run' = NoRun
        /\ tx' = [w \in Writers |-> IF w \in JobWriters THEN NoTx ELSE tx[w]]
        /\ rows' = rows \ undone
        /\ ahead' = Gone(JobWriters \cup undone)
        /\ excused' = excused \cup UNION {Impacted(tx[w].wrote \ Triggered) : w \in owing}
        /\ UNCHANGED <<stale>>

-----------------------------------------------------------------------------
RunnerStep ==
    \/ StartRun \/ StartRefresh \/ EndRefresh \/ DeleteRow \/ RefreshFails

Next ==
    \/ \E w \in Writers :
         \/ Begin(w) \/ Commit(w) \/ Rollback(w) \/ Enqueue(w) \/ EnqueueFails(w)
         \/ \E t \in Tables : Write(w, t)
    \/ RunnerStep
    \/ SkipView \/ AbortRun \/ Crash

Spec == Init /\ [][Next]_vars

\* The mv_refresh job is scheduled and its statements end; transactions end;
\* an ingest job goes on to queue the views, and its INSERT is woken up when a
\* transaction it waits for ends (hence SF).  Nobody has to write.
Fairness ==
    /\ WF_vars(RunnerStep)
    /\ \A w \in Writers : WF_vars(Commit(w) \/ Rollback(w)) /\ SF_vars(Enqueue(w))

FairSpec == Spec /\ Fairness

-----------------------------------------------------------------------------
(* Properties.                                                             *)

\* Types; a run has a view unless it is idle, and only open transactions have
\* uncommitted rows.
TypeOK ==
    /\ rows \subseteq Views
    /\ ahead \in [Views \cup Writers -> SUBSET (Views \cup Writers)]
    /\ tx \in [Writers -> [pc : {"idle", "open", "enqueue"}, wrote : SUBSET Tables,
                           inserted : SUBSET Views]]
    /\ stale \subseteq Views /\ excused \subseteq Views
    /\ run \in [pc : {"idle", "mark", "refresh", "delete"},
                view : Views \cup {NoView}, todo : SUBSET Views, missed : BOOLEAN]
    /\ (run.pc = "idle") = (run.view = NoView)
    /\ \A w \in Writers : tx[w].inserted \subseteq IF tx[w].pc = "open" THEN rows ELSE {}
    /\ faults \in Nat

\* An ingest job that has committed is still going to queue the view.
ToBeEnqueued(v) == \E w \in Writers : tx[w].pc = "enqueue" /\ v \in Impacted(tx[w].wrote)

\* README.md:175: "dirty views queued in Postgres".  A view that does not show
\* a committed write has a row in mv_refresh_queue, or gets one.
DirtyViewIsQueued == \A v \in stale : v \in Visible \/ ToBeEnqueued(v)

\* The queue forgets a dirty view only when a write to one of its tables
\* overlapped the refresh that removed the row, or when the enqueue of a table
\* without a trigger failed: no rollback, LIMIT, failed refresh, failed log
\* write or crash of the job loses one.
OnlyOverlapsAreForgotten ==
    \A v \in stale \ excused : v \in Visible \/ ToBeEnqueued(v)

\* A dirty view that can be refreshed is, however many writes follow, as long
\* as the broken views, which keep their places at the head of the queue, are
\* fewer than max_views_per_run.
DirtyViewIsRefreshed ==
    \A v \in Views \ Broken : v \in stale ~> v \notin stale \/ v \in excused

=============================================================================
