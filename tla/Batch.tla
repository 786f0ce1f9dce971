-------------------------------- MODULE Batch --------------------------------
(***************************************************************************)
(* BatchOrchestrator (assets/batch.py): one object of the process runs any  *)
(* number of batches.  run_batch claims its batch in the database, starts a *)
(* coroutine per asset, and finalizes the batch when all have ended.  The   *)
(* coroutines of a batch share a semaphore, and those of all batches the    *)
(* counter _ai_used.                                                        *)
(*                                                                          *)
(* A coroutine suspends only at the semaphore, during the copy of the APK   *)
(* (a thread), and during the scan.  RunLifecycle models the scan; here it  *)
(* completes or fails, has sent some AI requests, and left a record of them *)
(* in the run's manifest or not: a failed scan may not have come so far,    *)
(* and a cleanup of the run may have overwritten it.                        *)
(*                                                                          *)
(* Not modelled: the removal of an asset, which no caller in src/ performs. *)
(***************************************************************************)
EXTENDS Naturals, FiniteSets, FiniteSetsExt

CONSTANTS
    Batches,
    Assets,
    AssetsOf,           \* AssetsOf[b]: the snapshot in assets_json
    Runners,            \* invocations of run_batch
    BatchOf,            \* BatchOf[r]: the batch it was called with
    MaxAiCallsChoices,  \* values batch.max_ai_calls may have, 0 for no cap
    MaxConcurrentRunsChoices,   \* and batch.max_concurrent_runs
    MaxRequestsPerRun,  \* settings.ai.max_requests_per_run
    MaxDeletions        \* bound on the runs a user deletes

ASSUME BatchAssumption ==
    /\ AssetsOf \in [Batches -> (SUBSET Assets) \ {{}}]
    /\ BatchOf \in [Runners -> Batches]
    /\ MaxAiCallsChoices \subseteq Nat
    /\ MaxConcurrentRunsChoices \subseteq Nat \ {0}
    /\ MaxRequestsPerRun \in Nat
    /\ MaxDeletions \in Nat
    /\ IsFiniteSet(Assets) /\ IsFiniteSet(Runners)

VARIABLES
    status,         \* status of the row of each batch
    max_ai_calls,   \* its budget, a snapshot of the settings at its creation
    max_concurrent_runs,    \* the setting the process was started with
    runner,         \* where each run_batch is
    semaphore,      \* and the permits left of its semaphore
    pc,             \* pc[r][a]: where the coroutine of the asset is
    run,            \* run[r][a]: the run it makes
    asset_status,   \* status of the row of each asset
    ai_used         \* BatchOrchestrator._ai_used

rows == <<status, max_ai_calls, max_concurrent_runs>>
vars == <<rows, runner, semaphore, pc, run, asset_status, ai_used>>

\* A run that does not exist yet, and what has been decided of it.
NoRun == [status |-> "none", skip_reason |-> "none", spent |-> 0, counted |-> TRUE]

Init ==
    /\ status = [b \in Batches |-> "pending"]
    /\ \E cap \in MaxAiCallsChoices : max_ai_calls = [b \in Batches |-> cap]
    /\ max_concurrent_runs \in MaxConcurrentRunsChoices
    /\ runner = [r \in Runners |-> "called"]
    /\ semaphore = [r \in Runners |-> max_concurrent_runs]
    /\ pc = [r \in Runners |-> [a \in Assets |-> "none"]]
    /\ run = [r \in Runners |-> [a \in Assets |-> NoRun]]
    /\ asset_status = [a \in Assets |-> "ready"]
    /\ ai_used = 0

AssetsIn(r) == AssetsOf[BatchOf[r]]

Goto(r, a, label) == pc' = [pc EXCEPT ![r][a] = label]

\* Seeded bug: the status is not part of the UPDATE's condition.
Claimable_Any(r) == runner[r] = "called"

\* _claim_batch: UPDATE ... WHERE status='pending', one winner.
Claimable(r) == status[BatchOf[r]] = "pending"

Claim(r) ==
    /\ runner[r] = "called"
    /\ IF Claimable(r)
         THEN /\ status' = [status EXCEPT ![BatchOf[r]] = "running"]
              /\ runner' = [runner EXCEPT ![r] = "running"]
              /\ pc' = [pc EXCEPT ![r] = [a \in Assets |->
                          IF a \in AssetsIn(r) THEN "waiting" ELSE "none"]]
         ELSE /\ runner' = [runner EXCEPT ![r] = "conflict"]
              /\ UNCHANGED <<status, pc>>
    /\ UNCHANGED <<max_ai_calls, max_concurrent_runs, semaphore, run, asset_status, ai_used>>

\* Seeded bug: the budget may be reached, not only used up, before it binds.
DegradeReasons_OffByOne(b) ==
    IF max_ai_calls[b] > 0 /\ ai_used > max_ai_calls[b]
      THEN {"batch_budget"} ELSE {"none", "batch_wall_clock"}

\* _degrade_decision: why the AI of the run is skipped, if it is.  The wall
\* clock may have run out at any time.
DegradeReasons(b) ==
    IF max_ai_calls[b] > 0 /\ ai_used >= max_ai_calls[b]
      THEN {"batch_budget"} ELSE {"none", "batch_wall_clock"}

\* The semaphore is held from before the decision until the run has ended.
Acquire(r, a) ==
    /\ pc[r][a] = "waiting"
    /\ semaphore[r] > 0
    /\ semaphore' = [semaphore EXCEPT ![r] = @ - 1]
    /\ \E reason \in DegradeReasons(BatchOf[r]) :
          run' = [run EXCEPT ![r][a].skip_reason = reason]
    /\ Goto(r, a, "ingesting")
    /\ UNCHANGED <<rows, runner, asset_status, ai_used>>

\* Seeded bug: a coroutine that raises keeps its permit.
Release_OnlyRun(r, a) ==
    semaphore' = [semaphore EXCEPT ![r] = @ + IF run[r][a].status = "none" THEN 0 ELSE 1]

Release(r, a) == semaphore' = [semaphore EXCEPT ![r] = @ + 1]

\* The end of process_asset.
EndAsset(r, a, new_status) ==
    /\ Goto(r, a, "ended")
    /\ Release(r, a)
    /\ asset_status' = [asset_status EXCEPT ![a] = new_status]
    /\ UNCHANGED <<rows, runner>>

\* The copy fails: there is no run, and the asset is in error.
IngestFails(r, a) ==
    /\ pc[r][a] = "ingesting"
    /\ EndAsset(r, a, "error")
    /\ run' = [run EXCEPT ![r][a] = NoRun]
    /\ UNCHANGED ai_used

\* The copy is there: the run gets its row, and the scan begins.
Ingested(r, a) ==
    /\ pc[r][a] = "ingesting"
    /\ run' = [run EXCEPT ![r][a].status = "running"]
    /\ asset_status' = [asset_status EXCEPT ![a] = "scanning"]
    /\ Goto(r, a, "scanning")
    /\ UNCHANGED <<rows, runner, semaphore, ai_used>>

\* Requests a scan may have sent when it ends.
Spendable(r, a) == 0..(IF run[r][a].skip_reason = "none" THEN MaxRequestsPerRun ELSE 0)

\* _requests_used_of, of a run whose AI was not skipped.
CountUsage(r, a, spent, counted) ==
    ai_used' = ai_used + IF run[r][a].skip_reason = "none" /\ counted THEN spent ELSE 0

\* The scan ends, with a final status in the row of the run.
ScanEnds(r, a, final, spent, counted) ==
    /\ pc[r][a] = "scanning"
    /\ run[r][a].status = "running"
    /\ spent \in Spendable(r, a)
    /\ counted \/ spent > 0
    /\ run' = [run EXCEPT ![r][a] =
                 [@ EXCEPT !.status = final, !.spent = spent, !.counted = counted]]
    /\ CountUsage(r, a, spent, counted)
    /\ EndAsset(r, a, IF final = "completed" THEN "ready" ELSE "error")

\* Seeded bug: an exception of the scan leaves the status of the asset.
ScanRaises_AssetKept(r, a) ==
    /\ pc[r][a] = "scanning"
    /\ run[r][a].status = "deleted"
    /\ EndAsset(r, a, asset_status[a])
    /\ UNCHANGED <<run, ai_used>>

\* The row of the run is gone: the scan raises or get_run does, the update of
\* the row by the handler fails too, and nothing is counted.
ScanRaises(r, a) ==
    /\ pc[r][a] = "scanning"
    /\ run[r][a].status = "deleted"
    /\ EndAsset(r, a, "error")
    /\ UNCHANGED <<run, ai_used>>

Deleted == {p \in Runners \X Assets : run[p[1]][p[2]].status = "deleted"}

\* A user deletes a run (cleanup_run, delete_run) of a batch that is running.
UserDeletesRun(r, a) ==
    /\ runner[r] = "running"
    /\ run[r][a].status \notin {"none", "deleted"}
    /\ Cardinality(Deleted) < MaxDeletions
    /\ run' = [run EXCEPT ![r][a].status = "deleted"]
    /\ UNCHANGED <<rows, runner, semaphore, pc, asset_status, ai_used>>

\* Runs of the batch, by whichever runner they were made.
RunsOf(b) == {p \in Runners \X Assets : BatchOf[p[1]] = b}
HasRun(b, statuses) == {p \in RunsOf(b) : run[p[1]][p[2]].status \in statuses}

\* _finalize_batch, from the runs in the database.
Verdict(b) ==
    IF HasRun(b, {"failed"}) = {} THEN "completed"
    ELSE IF HasRun(b, {"completed"}) = {} THEN "failed" ELSE "partial"

Finalize(r) ==
    /\ runner[r] = "running"
    /\ \A a \in AssetsIn(r) : pc[r][a] = "ended"
    /\ status' = [status EXCEPT ![BatchOf[r]] = Verdict(BatchOf[r])]
    /\ runner' = [runner EXCEPT ![r] = "returned"]
    /\ UNCHANGED <<max_ai_calls, max_concurrent_runs, semaphore, pc, run, asset_status, ai_used>>

AssetStep(r, a) ==
    \/ Acquire(r, a) \/ IngestFails(r, a) \/ Ingested(r, a)
    \/ \E final \in {"completed", "failed"}, spent \in 0..MaxRequestsPerRun,
          counted \in BOOLEAN : ScanEnds(r, a, final, spent, counted)
    \/ ScanRaises(r, a)

Progress ==
    \/ \E r \in Runners : Claim(r) \/ Finalize(r)
    \/ \E r \in Runners, a \in Assets : AssetStep(r, a)

Next == Progress \/ \E r \in Runners, a \in Assets : UserDeletesRun(r, a)

\* The event loop runs what is ready, copies end, and scans end (RunLifecycle).
\* A coroutine has a bounded number of steps, so it is enough that some step is
\* taken as long as there is one.
Fairness == WF_vars(Progress)

Spec == Init /\ [][Next]_vars /\ Fairness
-----------------------------------------------------------------------------
Terminal == {"completed", "partial", "failed"}

TypeOK ==
    /\ status \in [Batches -> {"pending", "running"} \cup Terminal]
    /\ max_ai_calls \in [Batches -> MaxAiCallsChoices]
    /\ max_concurrent_runs \in MaxConcurrentRunsChoices
    /\ runner \in [Runners -> {"called", "conflict", "running", "returned"}]
    /\ semaphore \in [Runners -> 0..max_concurrent_runs]
    /\ pc \in [Runners -> [Assets -> {"none", "waiting", "ingesting", "scanning", "ended"}]]
    /\ run \in [Runners -> [Assets ->
         [status : {"none", "running", "completed", "failed", "deleted"},
          skip_reason : {"none", "batch_budget", "batch_wall_clock"},
          spent : 0..MaxRequestsPerRun, counted : BOOLEAN]]]
    /\ asset_status \in [Assets -> {"ready", "scanning", "error"}]
    /\ ai_used \in Nat

\* However often run_batch is called for a batch, one call runs it: no asset of
\* a batch is scanned twice, and each other call ends in a conflict (comment R-7).
ClaimedOnce ==
    \A b \in Batches :
        /\ Cardinality({r \in Runners : BatchOf[r] = b
                                        /\ runner[r] \in {"running", "returned"}}) <= 1
        /\ \A a \in Assets : Cardinality({p \in HasRun(b, {"running", "completed", "failed"}) :
                                             p[2] = a}) <= 1

\* A batch that has ended leaves nothing behind: every run it made is over, and
\* no asset that no other batch is scanning says it is being scanned, whatever
\* failed or was deleted in between (comment in _process_asset).
NothingDangles ==
    /\ \A b \in Batches : status[b] \in Terminal => HasRun(b, {"running"}) = {}
    /\ \A a \in Assets :
         asset_status[a] = "scanning" => \E r \in Runners : pc[r][a] = "scanning"

\* Requests of a batch that its runs recorded.
Recorded(b) ==
    MapThenSumSet(LAMBDA p : run[p[1]][p[2]].spent,
                  {p \in RunsOf(b) : run[p[1]][p[2]].counted})

\* The soft cap: since the decision is taken with the permit in hand, a batch
\* exceeds its budget by at most what its concurrent runs had in flight.
SoftCap ==
    \A b \in Batches :
        max_ai_calls[b] > 0 =>
            Recorded(b) <= max_ai_calls[b] - 1 + max_concurrent_runs * MaxRequestsPerRun

\* Every batch that is claimed is finalized, whatever happens to its assets.
BatchesFinish == \A b \in Batches : status[b] = "running" ~> status[b] \in Terminal
=============================================================================
