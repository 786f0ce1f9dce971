----------------------------- MODULE AIScheduler -----------------------------
(***************************************************************************)
(* BoundedJobScheduler.run and TaskCircuit (analysis/ai_scheduler.py): a    *)
(* fixed number of consume() coroutines take indexed jobs from one queue    *)
(* until it is empty or the task circuit opens.  All of them run in one     *)
(* event loop, so whatever lies between two awaits is one step.             *)
(*                                                                          *)
(* The worker callback is any coroutine that may open the circuit while it  *)
(* runs (orchestrator.analyze_job does) and then raises or returns a value  *)
(* that may itself be circuit breaking.  CandidateAnalysis models the       *)
(* callback that the orchestrator passes.                                   *)
(***************************************************************************)
EXTENDS Naturals, FiniteSets

CONSTANTS
    JobCount,       \* len(submitted)
    MaxConcurrency  \* BoundedJobScheduler.max_concurrency

\* __init__ refuses a concurrency below 1; the job list may be empty.
ASSUME AISchedulerAssumption ==
    /\ JobCount \in Nat
    /\ MaxConcurrency \in Nat \ {0}

\* The jobs in the order they were put in the queue.
Jobs == 1..JobCount

\* worker_count = min(self.max_concurrency, len(submitted))
Workers == (1..MaxConcurrency) \cap Jobs

VARIABLES
    queue,      \* the jobs still in the asyncio.Queue
    pc,         \* pc[w]: where the w-th consume() is
    job,        \* job[w]: the job it has in hand, 0 for none
    results,    \* results[j]: status of the j-th job, "none" before it has one
    circuit,    \* TaskCircuit: open, and the reason kept (who gave it)
    started, succeeded, failed, active, peak_active,   \* counters of run()
    returned    \* run() has returned

counters == <<started, succeeded, failed, active, peak_active>>
vars == <<queue, pc, job, results, circuit, counters, returned>>

NoReason == [by |-> "nobody", job |-> 0]
WorkerReason(j) == [by |-> "worker", job |-> j]
SchedulerReason(j) == [by |-> "scheduler", job |-> j]
Reasons == {NoReason} \cup {WorkerReason(j) : j \in Jobs}
                      \cup {SchedulerReason(j) : j \in Jobs}

Max2(a, b) == IF a >= b THEN a ELSE b

Init ==
    /\ queue = Jobs
    /\ pc = [w \in Workers |-> "consume"]
    /\ job = [w \in Workers |-> 0]
    /\ results = [j \in Jobs |-> "none"]
    /\ circuit = [open |-> FALSE, reason |-> NoReason]
    /\ started = 0
    /\ succeeded = 0
    /\ failed = 0
    /\ active = 0
    /\ peak_active = 0
    /\ returned = FALSE

\* Seeded bug: the last reason wins.
Opened_LastReason(c, reason) == [open |-> TRUE, reason |-> reason]

\* TaskCircuit.open: the first reason stays.
Opened(c, reason) ==
    IF c.open THEN c ELSE [open |-> TRUE, reason |-> reason]

\* queue.get_nowait(): the oldest job.
IsOldest(j) == j \in queue /\ \A i \in queue : j <= i

\* while not is_open: get_nowait, count, and enter the worker.  The second
\* test of the circuit cannot fail here: nothing is awaited in between.
Consume(w) ==
    /\ pc[w] = "consume"
    /\ ~circuit.open
    /\ \E j \in queue :
         /\ IsOldest(j)
         /\ queue' = queue \ {j}
         /\ job' = [job EXCEPT ![w] = j]
    /\ pc' = [pc EXCEPT ![w] = "working"]
    /\ started' = started + 1
    /\ active' = active + 1
    /\ peak_active' = Max2(peak_active, active + 1)
    /\ UNCHANGED <<results, circuit, succeeded, failed, returned>>

\* Seeded bug: a worker waits for the queue to drain, also when it is stopped.
Leave_OnlyWhenDrained(w) ==
    /\ pc[w] = "consume"
    /\ queue = {}
    /\ pc' = [pc EXCEPT ![w] = "left"]
    /\ UNCHANGED <<queue, job, results, circuit, counters, returned>>

\* The coroutine ends: the circuit is open or the queue is empty.
Leave(w) ==
    /\ pc[w] = "consume"
    /\ circuit.open \/ queue = {}
    /\ pc' = [pc EXCEPT ![w] = "left"]
    /\ UNCHANGED <<queue, job, results, circuit, counters, returned>>

\* The worker opens the circuit itself and goes on.
WorkerOpensCircuit(w) ==
    /\ pc[w] = "working"
    /\ circuit' = Opened(circuit, WorkerReason(job[w]))
    /\ UNCHANGED <<queue, pc, job, results, counters, returned>>

\* What the end of a job always does (the finally clause).
EndJob(w, status) ==
    /\ results' = [results EXCEPT ![job[w]] = status]
    /\ active' = active - 1
    /\ pc' = [pc EXCEPT ![w] = "consume"]
    /\ job' = [job EXCEPT ![w] = 0]
    /\ UNCHANGED <<queue, started, peak_active, returned>>

WorkerReturns(w, breaking) ==
    /\ pc[w] = "working"
    /\ succeeded' = succeeded + 1
    /\ EndJob(w, "succeeded")
    /\ circuit' = IF breaking THEN Opened(circuit, SchedulerReason(job[w])) ELSE circuit
    /\ UNCHANGED failed

WorkerRaises(w) ==
    /\ pc[w] = "working"
    /\ failed' = failed + 1
    /\ EndJob(w, "failed")
    /\ UNCHANGED <<circuit, succeeded>>

\* The TaskGroup is done: what has no result is skipped, and run() returns.
Collect ==
    /\ ~returned
    /\ \A w \in Workers : pc[w] = "left"
    /\ results' = [j \in Jobs |->
                     IF results[j] = "none" THEN "skipped" ELSE results[j]]
    /\ returned' = TRUE
    /\ UNCHANGED <<queue, pc, job, circuit, counters>>

WorkerStep(w) ==
    \/ Consume(w)
    \/ Leave(w)
    \/ \E breaking \in BOOLEAN : WorkerReturns(w, breaking)
    \/ WorkerRaises(w)

Next ==
    \/ \E w \in Workers : WorkerStep(w) \/ WorkerOpensCircuit(w)
    \/ Collect

\* The event loop runs every ready coroutine, and a worker ends: each of its
\* requests has a wall-clock timeout and a bounded number of attempts.
Fairness ==
    /\ \A w \in Workers : WF_vars(WorkerStep(w))
    /\ WF_vars(Collect)

Spec == Init /\ [][Next]_vars /\ Fairness
-----------------------------------------------------------------------------
\* SchedulerStats.skipped and .completed, as run() computes them
Skipped == JobCount - started
Completed == succeeded + failed

HasStatus(status) == {j \in Jobs : results[j] = status}
Working == {w \in Workers : pc[w] = "working"}
InHand == {job[w] : w \in Working}

TypeOK ==
    /\ queue \subseteq Jobs
    /\ pc \in [Workers -> {"consume", "working", "left"}]
    /\ job \in [Workers -> Jobs \cup {0}]
    /\ results \in [Jobs -> {"none", "succeeded", "failed", "skipped"}]
    /\ circuit \in [open : BOOLEAN, reason : Reasons]
    /\ started \in Nat /\ succeeded \in Nat /\ failed \in Nat
    /\ active \in Nat /\ peak_active \in Nat
    /\ returned \in BOOLEAN

\* Every job is in exactly one place: in the queue, in the hands of exactly one
\* worker, or finished; so each is run at most once (docstring of run()).
EachJobInOnePlace ==
    /\ \A w \in Workers : pc[w] = "working" <=> job[w] # 0
    /\ \A v, w \in Working : job[v] = job[w] => v = w
    /\ \A j \in Jobs :
         /\ j \in queue \/ j \in InHand => results[j] \in {"none", "skipped"}
         /\ j \in InHand => j \notin queue /\ results[j] = "none"
         /\ results[j] = "none" => j \in queue \/ j \in InHand
         /\ results[j] = "skipped" => returned /\ j \in queue

\* The counters that run() keeps by hand agree with the results it returns, so
\* SchedulerStats adds up; in particular `skipped', computed as submitted minus
\* started, is the number of results that say skipped.
StatsAddUp ==
    /\ active = Cardinality(Working)
    /\ succeeded = Cardinality(HasStatus("succeeded"))
    /\ failed = Cardinality(HasStatus("failed"))
    /\ started = succeeded + failed + active
    /\ active <= peak_active /\ peak_active <= Cardinality(Workers)
    /\ returned => /\ Skipped = Cardinality(HasStatus("skipped"))
                   /\ Completed + Skipped = JobCount

\* A job is skipped only because a job that had begun opened the circuit, and
\* what is skipped is a tail of the submission order: no job overtakes another.
SkippedOnlyByCircuit ==
    \A j \in HasStatus("skipped") :
        /\ circuit.open
        /\ circuit.reason.by \in {"worker", "scheduler"}
        /\ results[circuit.reason.job] \in {"succeeded", "failed"}
        /\ \A i \in Jobs : i >= j => results[i] = "skipped"

\* The circuit stops new jobs but never touches those in flight, and it keeps
\* its first reason (docstrings of run() and TaskCircuit).
OpenCircuitOnlyDrains ==
    [][circuit.open =>
         /\ circuit' = circuit
         /\ started' = started
         /\ \A j \in InHand : results'[j] # "skipped"]_vars

\* The abstract pool: a job is pending in the queue, running in hand.
Outcome == [j \in Jobs |->
    IF results[j] # "none" THEN results[j]
    ELSE IF j \in queue THEN "pending" ELSE "running"]

Pool == INSTANCE JobPool
          WITH outcome <- Outcome, stopped <- circuit.open, closed <- returned

\* The scheduler implements the pool, its promise to return included.
ImplementsPool == Pool!Spec
=============================================================================
