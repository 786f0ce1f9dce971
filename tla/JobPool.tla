------------------------------- MODULE JobPool -------------------------------
(***************************************************************************)
(* What a caller of run_indexed_jobs is promised, whatever the number of    *)
(* workers: every job is begun at most once, a job that has begun keeps its *)
(* own outcome, no job begins once the pool is stopped, and the jobs that   *)
(* never began are skipped together, when nothing runs any more.            *)
(***************************************************************************)
CONSTANT Jobs

VARIABLES
    outcome,    \* what has become of each job
    stopped,    \* the circuit of the task is open
    closed      \* run() has returned

vars == <<outcome, stopped, closed>>

Init ==
    /\ outcome = [j \in Jobs |-> "pending"]
    /\ stopped = FALSE
    /\ closed = FALSE

Begin(j) ==
    /\ ~stopped
    /\ ~closed
    /\ outcome[j] = "pending"
    /\ outcome' = [outcome EXCEPT ![j] = "running"]
    /\ UNCHANGED <<stopped, closed>>

Finish(j, result, stops) ==
    /\ outcome[j] = "running"
    /\ outcome' = [outcome EXCEPT ![j] = result]
    /\ stopped' = (stopped \/ stops)
    /\ UNCHANGED closed

\* Only a running job can stop the pool.
Stop ==
    /\ \E j \in Jobs : outcome[j] = "running"
    /\ stopped' = TRUE
    /\ UNCHANGED <<outcome, closed>>

Close ==
    /\ ~closed
    /\ \A j \in Jobs : outcome[j] # "running"
    /\ (\E j \in Jobs : outcome[j] = "pending") => stopped
    /\ outcome' = [j \in Jobs |->
                     IF outcome[j] = "pending" THEN "skipped" ELSE outcome[j]]
    /\ closed' = TRUE
    /\ UNCHANGED stopped

Next ==
    \/ \E j \in Jobs : Begin(j)
    \/ \E j \in Jobs, result \in {"succeeded", "failed"}, stops \in BOOLEAN :
          Finish(j, result, stops)
    \/ Stop
    \/ Close

\* The promise: a pool always returns.
Spec == Init /\ [][Next]_vars /\ <>closed
=============================================================================
