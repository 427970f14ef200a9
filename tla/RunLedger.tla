----------------------------- MODULE RunLedger -----------------------------
(***************************************************************************)
(* What the job machinery promises to the readers of job_runs (the admin   *)
(* pages, /jobs/status, mv_latest_job_runs), with no scheduler, thread,    *)
(* database session or lock in sight:                                      *)
(*                                                                         *)
(*   - a job has at most one live run: a run that is being executed by     *)
(*     someone whose claim to the job is still valid;                      *)
(*   - a row starts as "running" together with that claim, is settled at   *)
(*     most once by its executor, and only after the claim was given up;   *)
(*   - recovery may mark running rows "interrupted", and such a mark is    *)
(*     the only one a late settlement may still replace.                   *)
(*                                                                         *)
(* JobScheduler implements this specification (Ledger in that module).     *)
(***************************************************************************)

CONSTANTS Jobs,    \* job_id values
          Runs,    \* run_id values
          NoJob,   \* the job of a row that was not inserted yet
          NoRun    \* the live run of a job that nobody executes

VARIABLES rows,    \* rows[r]: the job_runs row of run r
          live     \* live[j]: the run of job j that is being executed

vars == <<rows, live>>

Settled == {"success", "failed"}
RowStatus == {"none", "running", "interrupted"} \cup Settled
Row == [job : Jobs \cup {NoJob}, status : RowStatus]

Init ==
    /\ rows = [r \in Runs |-> [job |-> NoJob, status |-> "none"]]
    /\ live = [j \in Jobs |-> NoRun]

\* A run of j starts: its row appears and it becomes the live run of j.
Start(j, r) ==
    /\ live[j] = NoRun
    /\ rows[r].status = "none"
    /\ rows' = [rows EXCEPT ![r] = [job |-> j, status |-> "running"]]
    /\ live' = [live EXCEPT ![j] = r]

\* The executors of the jobs in S give up their claim: finished or failed.
Release(S) ==
    /\ live' = [j \in Jobs |-> IF j \in S THEN NoRun ELSE live[j]]
    /\ UNCHANGED rows

\* The outcome of a run that is no longer live is recorded.
Settle(r, s) ==
    /\ rows[r].status \in {"running", "interrupted"}
    /\ \A j \in Jobs : live[j] # r
    /\ rows' = [rows EXCEPT ![r].status = s]
    /\ UNCHANGED live

\* Recovery marks every row that says "running".
Interrupt ==
    /\ rows' = [r \in Runs |->
                  IF rows[r].status = "running"
                  THEN [rows[r] EXCEPT !.status = "interrupted"]
                  ELSE rows[r]]
    /\ UNCHANGED live

\* A refusal is recorded as a run that failed without ever being executed.
RecordRefusal(j, r) ==
    /\ rows[r].status = "none"
    /\ rows' = [rows EXCEPT ![r] = [job |-> j, status |-> "failed"]]
    /\ UNCHANGED live

Next ==
    \/ \E j \in Jobs, r \in Runs : Start(j, r) \/ RecordRefusal(j, r)
    \/ \E S \in SUBSET Jobs : Release(S)
    \/ \E r \in Runs, s \in Settled : Settle(r, s)
    \/ Interrupt

Spec == Init /\ [][Next]_vars

=============================================================================
