------------------------------- MODULE PoolProofs -------------------------------
(***************************************************************************)
(* Proofs about the two pools of workers, AIScheduler, which runs the AI's  *)
(* jobs as coroutines, and RuleRun, which runs the rules as processes, and  *)
(* about DataFlow, the interpreter inside a rule.  The three modules share  *)
(* no state.                                                                *)
(***************************************************************************)
EXTENDS AIScheduler, RuleRun, DataFlow, DataTheorems

-----------------------------------------------------------------------------
(***************************************************************************)
(* AIScheduler, for any number of jobs and any concurrency.  IInv adds to   *)
(* the invariants of AIScheduler what links the circuit, the queue and the  *)
(* workers that left.                                                       *)
(***************************************************************************)

\* The queue holds a tail of the submission order.
QueueIsTail == \A i \in queue, k \in Jobs : k >= i => k \in queue

\* Workers leave only a stopped or drained pool, and run() waits for them all.
LeftOnlyWhenDone ==
    /\ \A w \in Workers : pc[w] = "left" => circuit.open \/ queue = {}
    /\ returned => \A w \in Workers : pc[w] = "left"

\* The job that opened the circuit had begun: it is in hand or has a result.
ReasonHasBegun ==
    circuit.open =>
        /\ circuit.reason.by \in {"worker", "scheduler"}
        /\ circuit.reason.job \in Jobs
        /\ \/ results[circuit.reason.job] \in {"succeeded", "failed"}
           \/ \E w \in Workers : pc[w] = "working" /\ job[w] = circuit.reason.job

\* After the return nothing is without a result; before it nothing is skipped.
SkippedAtTheEnd ==
    \A j \in Jobs : /\ results[j] = "skipped" => returned
                    /\ returned => results[j] # "none"

IInv ==
    /\ TypeOK
    /\ EachJobInOnePlace
    /\ QueueIsTail
    /\ LeftOnlyWhenDone
    /\ ReasonHasBegun
    /\ SkippedAtTheEnd
    /\ StatsAddUp

-----------------------------------------------------------------------------
(* Finiteness and counting                                                  *)

\* The sets the counters count are finite.
LEMMA SetsAreFinite ==
    /\ IsFiniteSet(Jobs) /\ Cardinality(Jobs) = JobCount
    /\ IsFiniteSet(Workers)
    /\ IsFiniteSet(Working)
    /\ \A s : IsFiniteSet(HasStatus(s))
<1>1. IsFiniteSet(Jobs) /\ Cardinality(Jobs) = JobCount
  BY FS_Interval, AISchedulerAssumption DEF Jobs
<1>2. IsFiniteSet(Workers)
  BY <1>1, FS_Subset DEF Workers
<1>3. IsFiniteSet(Working)
  BY <1>2, FS_Subset DEF Working
<1>4. \A s : IsFiniteSet(HasStatus(s))
  BY <1>1, FS_Subset DEF HasStatus
<1> QED
  BY <1>1, <1>2, <1>3, <1>4

\* The same after a step.
LEMMA SetsStayFinite ==
    /\ IsFiniteSet(Working')
    /\ \A s : IsFiniteSet(HasStatus(s)')
<1>1. Working' \in SUBSET Workers
  BY DEF Working
<1>2. \A s : HasStatus(s)' \in SUBSET Jobs
  BY DEF HasStatus
<1> QED
  BY <1>1, <1>2, SetsAreFinite, FS_Subset
-----------------------------------------------------------------------------
(* Init                                                                     *)

LEMMA InitEstablishes == Init => IInv
<1> SUFFICES ASSUME Init PROVE IInv
  OBVIOUS
<1>1. TypeOK
  BY DEF Init, TypeOK, NoReason, Reasons
<1>2. EachJobInOnePlace
  BY DEF Init, EachJobInOnePlace, Working, InHand
<1>3. QueueIsTail /\ LeftOnlyWhenDone /\ ReasonHasBegun /\ SkippedAtTheEnd
  BY DEF Init, QueueIsTail, LeftOnlyWhenDone, ReasonHasBegun, SkippedAtTheEnd
<1>4. StatsAddUp
  <2>1. Working = {} /\ HasStatus("succeeded") = {} /\ HasStatus("failed") = {}
    BY DEF Init, Working, HasStatus
  <2>2. Cardinality(Workers) \in Nat
    BY SetsAreFinite, FS_CardinalityType
  <2> QED
    BY <2>1, <2>2, FS_EmptySet DEF Init, StatsAddUp
<1> QED
  BY <1>1, <1>2, <1>3, <1>4 DEF IInv
-----------------------------------------------------------------------------
(* A worker takes a job                                                     *)

LEMMA ConsumePreserves ==
    ASSUME IInv, NEW w \in Workers, Consume(w)
    PROVE  IInv'
<1> USE DEF IInv
<1>0. PICK j \in queue :
        /\ \A i \in queue : j <= i
        /\ queue' = queue \ {j}
        /\ job' = [job EXCEPT ![w] = j]
  BY DEF Consume, IsOldest
<1>1. /\ j \in Jobs /\ j # 0 /\ w \in Workers
      /\ ~returned /\ ~circuit.open
      /\ pc[w] = "consume" /\ job[w] = 0 /\ results[j] = "none"
  BY <1>0 DEF Consume, TypeOK, EachJobInOnePlace, LeftOnlyWhenDone, Jobs, SkippedAtTheEnd
<1>2. /\ pc' = [pc EXCEPT ![w] = "working"]
      /\ UNCHANGED <<results, circuit, succeeded, failed, returned>>
      /\ started' = started + 1
      /\ active' = active + 1
      /\ peak_active' = Max2(peak_active, active + 1)
  BY DEF Consume
<1>3. TypeOK'
  BY <1>0, <1>1, <1>2 DEF TypeOK, Max2
<1>4. EachJobInOnePlace'
  <2>1. (\A v \in Workers : pc[v] = "working" <=> job[v] # 0)'
    BY <1>0, <1>1, <1>2 DEF TypeOK, EachJobInOnePlace
  <2>2. Working' = Working \cup {w}
    BY <1>1, <1>2 DEF TypeOK, Working
  <2>3. InHand' = InHand \cup {j}
    BY <1>0, <1>1, <1>2, <2>2 DEF InHand, Working, TypeOK
  <2>4. (\A u, v \in Working : job[u] = job[v] => u = v)'
    BY <1>0, <1>1, <1>2, <2>2 DEF EachJobInOnePlace, InHand, Working, TypeOK
  <2>5. \A i \in Jobs :
          /\ i \in queue' \/ i \in InHand' => results'[i] \in {"none", "skipped"}
          /\ i \in InHand' => i \notin queue' /\ results'[i] = "none"
          /\ results'[i] = "none" => i \in queue' \/ i \in InHand'
          /\ results'[i] = "skipped" => returned' /\ i \in queue'
    BY <1>0, <1>1, <1>2, <2>3 DEF EachJobInOnePlace, SkippedAtTheEnd
  <2> QED
    BY <2>1, <2>4, <2>5 DEF EachJobInOnePlace
<1>5. QueueIsTail'
  BY <1>0, <1>1 DEF QueueIsTail, Jobs, TypeOK
<1>6. LeftOnlyWhenDone' /\ ReasonHasBegun' /\ SkippedAtTheEnd'
  BY <1>0, <1>1, <1>2 DEF LeftOnlyWhenDone, ReasonHasBegun, SkippedAtTheEnd, TypeOK
<1>7. StatsAddUp'
  <2>1. Working' = Working \cup {w} /\ w \notin Working
    BY <1>1, <1>2 DEF TypeOK, Working
  <2>2. Cardinality(Working') = Cardinality(Working) + 1
    BY <2>1, SetsAreFinite, FS_AddElement
  <2>3. Cardinality(Working') <= Cardinality(Workers) /\ Cardinality(Workers) \in Nat
    BY SetsAreFinite, FS_Subset, FS_CardinalityType, Working' \in SUBSET Workers
       DEF Working
  <2>4. HasStatus("succeeded")' = HasStatus("succeeded")
        /\ HasStatus("failed")' = HasStatus("failed")
    BY <1>2 DEF HasStatus
  <2> QED
    BY <1>1, <1>2, <2>2, <2>3, <2>4 DEF StatsAddUp, Max2, TypeOK
<1> QED
  BY <1>3, <1>4, <1>5, <1>6, <1>7
-----------------------------------------------------------------------------
(* A worker leaves, or opens the circuit and goes on                        *)

LEMMA LeavePreserves ==
    ASSUME IInv, NEW w \in Workers, Leave(w)
    PROVE  IInv'
<1> USE DEF IInv
<1>1. /\ pc[w] = "consume"
      /\ circuit.open \/ queue = {}
      /\ pc' = [pc EXCEPT ![w] = "left"]
      /\ UNCHANGED <<queue, job, results, circuit, counters, returned>>
  BY DEF Leave
<1>2. TypeOK'
  BY <1>1 DEF TypeOK, counters
<1>3. Working' = Working /\ InHand' = InHand
  BY <1>1 DEF TypeOK, Working, InHand
<1>4. EachJobInOnePlace'
  BY <1>1, <1>3 DEF EachJobInOnePlace, TypeOK
<1>5. QueueIsTail' /\ LeftOnlyWhenDone' /\ ReasonHasBegun' /\ SkippedAtTheEnd'
  BY <1>1 DEF QueueIsTail, LeftOnlyWhenDone, ReasonHasBegun, SkippedAtTheEnd, TypeOK
<1>6. StatsAddUp'
  BY <1>1, <1>3 DEF StatsAddUp, HasStatus, Skipped, Completed, counters
<1> QED
  BY <1>2, <1>4, <1>5, <1>6

LEMMA WorkerOpensCircuitPreserves ==
    ASSUME IInv, NEW w \in Workers, WorkerOpensCircuit(w)
    PROVE  IInv'
<1> USE DEF IInv
<1>1. /\ pc[w] = "working"
      /\ job[w] \in Jobs
      /\ circuit' = Opened(circuit, WorkerReason(job[w]))
      /\ UNCHANGED <<queue, pc, job, results, counters, returned>>
  BY DEF WorkerOpensCircuit, TypeOK, EachJobInOnePlace
<1>2. circuit' \in [open : BOOLEAN, reason : Reasons] /\ circuit'.open
  BY <1>1 DEF TypeOK, Opened, Reasons
<1>3. TypeOK'
  BY <1>1, <1>2 DEF TypeOK, counters
<1>4. EachJobInOnePlace'
  BY <1>1 DEF EachJobInOnePlace, Working, InHand
<1>5. ReasonHasBegun'
  BY <1>1 DEF ReasonHasBegun, Opened, WorkerReason
<1>6. QueueIsTail' /\ LeftOnlyWhenDone' /\ SkippedAtTheEnd'
  BY <1>1, <1>2 DEF QueueIsTail, LeftOnlyWhenDone, SkippedAtTheEnd
<1>7. StatsAddUp'
  BY <1>1 DEF StatsAddUp, Working, HasStatus, Skipped, Completed, counters
<1> QED
  BY <1>3, <1>4, <1>5, <1>6, <1>7
-----------------------------------------------------------------------------
(* A job ends, with either status                                           *)

\* What both ends of a job preserve, whatever they do to the circuit.
LEMMA EndJobPreserves ==
    ASSUME IInv, NEW w \in Workers, NEW status \in {"succeeded", "failed"},
           pc[w] = "working", EndJob(w, status),
           succeeded' = IF status = "succeeded" THEN succeeded + 1 ELSE succeeded,
           failed' = IF status = "failed" THEN failed + 1 ELSE failed,
           circuit' = circuit \/ circuit' = Opened(circuit, SchedulerReason(job[w]))
    PROVE  IInv'
<1> USE DEF IInv
<1> DEFINE k == job[w]
<1>1. /\ results' = [results EXCEPT ![k] = status]
      /\ active' = active - 1
      /\ pc' = [pc EXCEPT ![w] = "consume"]
      /\ job' = [job EXCEPT ![w] = 0]
      /\ UNCHANGED <<queue, started, peak_active, returned>>
  BY DEF EndJob
<1>2. /\ k \in Jobs /\ k \in InHand /\ k \notin queue /\ results[k] = "none"
      /\ ~returned
  <2>1. k \in Jobs /\ k \in InHand
    BY DEF TypeOK, EachJobInOnePlace, InHand, Working
  <2>2. k \notin queue /\ results[k] = "none"
    BY <2>1 DEF EachJobInOnePlace
  <2> QED
    BY <2>1, <2>2 DEF SkippedAtTheEnd
<1>3. circuit' \in [open : BOOLEAN, reason : Reasons] /\ (circuit.open => circuit' = circuit)
  <2>1. SchedulerReason(k) \in Reasons
    BY <1>2 DEF Reasons
  <2>2. CASE circuit' = circuit
    BY <2>2 DEF TypeOK
  <2>3. CASE circuit' = Opened(circuit, SchedulerReason(k))
    BY <2>1, <2>3 DEF TypeOK, Opened
  <2> QED
    BY <2>2, <2>3
<1>4. Working' = Working \ {w} /\ w \in Working
  BY <1>1 DEF TypeOK, Working
<1>5. Cardinality(Working') = Cardinality(Working) - 1
  BY <1>4, SetsAreFinite, FS_RemoveElement
<1>6. Cardinality(Working) \in Nat /\ Cardinality(Working') \in Nat
  BY SetsAreFinite, SetsStayFinite, FS_CardinalityType
<1>7. TypeOK'
  <2>1. active' \in Nat /\ succeeded' \in Nat /\ failed' \in Nat
    BY <1>1, <1>5, <1>6 DEF TypeOK, StatsAddUp
  <2> QED
    BY <1>1, <1>2, <1>3, <2>1 DEF TypeOK
<1>8. EachJobInOnePlace'
  <2>1. (\A v \in Workers : pc[v] = "working" <=> job[v] # 0)'
    BY <1>1 DEF TypeOK, EachJobInOnePlace
  <2>2. InHand' = InHand \ {k}
    BY <1>1, <1>4 DEF InHand, TypeOK, Working, EachJobInOnePlace
  <2>3. (\A u, v \in Working : job[u] = job[v] => u = v)'
    BY <1>1, <1>4 DEF EachJobInOnePlace, TypeOK, Working
  <2>4. \A i \in Jobs :
          /\ i \in queue' \/ i \in InHand' => results'[i] \in {"none", "skipped"}
          /\ i \in InHand' => i \notin queue' /\ results'[i] = "none"
          /\ results'[i] = "none" => i \in queue' \/ i \in InHand'
          /\ results'[i] = "skipped" => returned' /\ i \in queue'
    BY <1>1, <1>2, <2>2 DEF EachJobInOnePlace, SkippedAtTheEnd, TypeOK
  <2> QED
    BY <2>1, <2>3, <2>4 DEF EachJobInOnePlace
<1>9. ReasonHasBegun'
  <2>1. CASE circuit' = circuit
    BY <2>1, <1>1, <1>2 DEF ReasonHasBegun, TypeOK
  <2>2. CASE circuit' # circuit
    <3>1. ~circuit.open /\ circuit' = [open |-> TRUE, reason |-> SchedulerReason(k)]
      BY <2>2 DEF Opened
    <3>2. results'[k] \in {"succeeded", "failed"}
      BY <1>1, <1>2 DEF TypeOK
    <3> QED
      BY <3>1, <3>2, <1>2 DEF ReasonHasBegun, SchedulerReason
  <2> QED
    BY <2>1, <2>2
<1>10. QueueIsTail' /\ LeftOnlyWhenDone' /\ SkippedAtTheEnd'
  BY <1>1, <1>2, <1>3 DEF QueueIsTail, LeftOnlyWhenDone, SkippedAtTheEnd, TypeOK
<1>11. StatsAddUp'
  <2>1. HasStatus(status)' = HasStatus(status) \cup {k} /\ k \notin HasStatus(status)
    BY <1>1, <1>2 DEF HasStatus, TypeOK
  <2>2. \A s \in {"succeeded", "failed"} \ {status} : HasStatus(s)' = HasStatus(s)
    BY <1>1, <1>2 DEF HasStatus, TypeOK
  <2>3. Cardinality(HasStatus(status)') = Cardinality(HasStatus(status)) + 1
    BY <2>1, SetsAreFinite, FS_AddElement
  <2>4. /\ succeeded' = Cardinality(HasStatus("succeeded")')
        /\ failed' = Cardinality(HasStatus("failed")')
    BY <2>2, <2>3 DEF StatsAddUp
  <2>5. Cardinality(Workers) \in Nat
    BY SetsAreFinite, FS_CardinalityType
  <2> QED
    BY <1>1, <1>2, <1>5, <1>6, <2>4, <2>5 DEF StatsAddUp, TypeOK
<1> QED
  BY <1>7, <1>8, <1>9, <1>10, <1>11

LEMMA WorkerReturnsPreserves ==
    ASSUME IInv, NEW w \in Workers, NEW breaking \in BOOLEAN, WorkerReturns(w, breaking)
    PROVE  IInv'
BY EndJobPreserves DEF WorkerReturns

LEMMA WorkerRaisesPreserves ==
    ASSUME IInv, NEW w \in Workers, WorkerRaises(w)
    PROVE  IInv'
BY EndJobPreserves DEF WorkerRaises
-----------------------------------------------------------------------------
(* run() collects the results                                               *)

LEMMA CollectPreserves ==
    ASSUME IInv, Collect
    PROVE  IInv'
<1> USE DEF IInv
<1>1. /\ ~returned
      /\ \A w \in Workers : pc[w] = "left"
      /\ results' = [j \in Jobs |-> IF results[j] = "none" THEN "skipped" ELSE results[j]]
      /\ returned' = TRUE
      /\ UNCHANGED <<queue, pc, job, circuit, counters>>
  BY DEF Collect
<1>2. Working = {} /\ InHand = {} /\ Working' = {} /\ InHand' = {}
  BY <1>1 DEF Working, InHand
<1>3. TypeOK'
  BY <1>1 DEF TypeOK, counters
<1>4. EachJobInOnePlace'
  <2>1. (\A w \in Workers : pc[w] = "working" <=> job[w] # 0)'
    BY <1>1 DEF EachJobInOnePlace
  <2>2. \A j \in Jobs :
          /\ j \in queue => results'[j] \in {"none", "skipped"}
          /\ results'[j] # "none"
          /\ results'[j] = "skipped" => j \in queue
    BY <1>1, <1>2 DEF EachJobInOnePlace, SkippedAtTheEnd, TypeOK
  <2> QED
    BY <1>1, <1>2, <2>1, <2>2 DEF EachJobInOnePlace
<1>5. QueueIsTail' /\ LeftOnlyWhenDone' /\ SkippedAtTheEnd'
  BY <1>1 DEF QueueIsTail, LeftOnlyWhenDone, SkippedAtTheEnd
<1>6. ReasonHasBegun'
  BY <1>1 DEF ReasonHasBegun, TypeOK
<1>7. StatsAddUp'
  <2>1. /\ HasStatus("succeeded")' = HasStatus("succeeded")
        /\ HasStatus("failed")' = HasStatus("failed")
    BY <1>1 DEF HasStatus, TypeOK
  <2>2. active = 0 /\ started = succeeded + failed
    BY <1>2, FS_EmptySet DEF StatsAddUp, TypeOK
  <2>3. Cardinality(HasStatus("skipped")') = JobCount - started
    <3>1. HasStatus("skipped")' = Jobs \ (HasStatus("succeeded") \cup HasStatus("failed"))
      BY <1>1 DEF HasStatus, TypeOK
    <3>2. HasStatus("succeeded") \cap HasStatus("failed") = {}
      BY DEF HasStatus
    <3>3. Cardinality(HasStatus("succeeded") \cup HasStatus("failed")) = started
      BY <2>2, <3>2, SetsAreFinite, FS_Union, FS_EmptySet DEF StatsAddUp, TypeOK
    <3>4. Jobs \cap (HasStatus("succeeded") \cup HasStatus("failed"))
            = HasStatus("succeeded") \cup HasStatus("failed")
      BY DEF HasStatus
    <3> QED
      BY <3>1, <3>3, <3>4, SetsAreFinite, FS_Difference
  <2> QED
    BY <1>1, <1>2, <2>1, <2>2, <2>3, AISchedulerAssumption
    DEF StatsAddUp, Skipped, Completed, counters, TypeOK
<1> QED
  BY <1>3, <1>4, <1>5, <1>6, <1>7
-----------------------------------------------------------------------------
(* The invariance                                                           *)

LEMMA IInvIsInductive == IInv /\ [Next]_vars => IInv'
<1> SUFFICES ASSUME IInv, [Next]_vars PROVE IInv'
  OBVIOUS
<1>1. ASSUME NEW w \in Workers, WorkerStep(w) \/ WorkerOpensCircuit(w)
      PROVE  IInv'
  BY <1>1, ConsumePreserves, LeavePreserves, WorkerReturnsPreserves,
     WorkerRaisesPreserves, WorkerOpensCircuitPreserves DEF WorkerStep
<1>2. CASE Collect
  BY <1>2, CollectPreserves
<1>3. CASE UNCHANGED vars
  BY <1>3 DEF vars, counters, IInv, TypeOK, EachJobInOnePlace, QueueIsTail,
     LeftOnlyWhenDone, ReasonHasBegun, SkippedAtTheEnd, StatsAddUp, Working,
     InHand, HasStatus, Skipped, Completed
<1> QED
  BY <1>1, <1>2, <1>3 DEF Next

\* The inductive invariant holds in every reachable state.
THEOREM Invariance == Spec => []IInv
BY InitEstablishes, IInvIsInductive, PTL DEF Spec

\* Type correctness of BoundedJobScheduler.run: in particular the counter of
\* active jobs, decremented in a finally clause, never goes below zero.
THEOREM TypeCorrect == Spec => []TypeOK
<1>1. IInv => TypeOK
  BY DEF IInv
<1> QED
  BY <1>1, Invariance, PTL

\* consume() runs each job at most once and loses none: it is in the queue, in
\* the hands of one worker, or finished.
THEOREM OnePlace == Spec => []EachJobInOnePlace
<1>1. IInv => EachJobInOnePlace
  BY DEF IInv
<1> QED
  BY <1>1, Invariance, PTL

\* SchedulerStats, counted by hand, agrees with the results run() returns.
THEOREM StatsCorrect == Spec => []StatsAddUp
<1>1. IInv => StatsAddUp
  BY DEF IInv
<1> QED
  BY <1>1, Invariance, PTL

\* What run() reports as skipped is a tail of the submission order, skipped
\* because a job that had begun opened the circuit and has itself a result.
THEOREM SkippedCorrect == Spec => []SkippedOnlyByCircuit
<1>1. IInv => SkippedOnlyByCircuit
  <2> SUFFICES ASSUME IInv, NEW j \in HasStatus("skipped")
               PROVE  /\ circuit.open
                      /\ circuit.reason.by \in {"worker", "scheduler"}
                      /\ results[circuit.reason.job] \in {"succeeded", "failed"}
                      /\ \A i \in Jobs : i >= j => results[i] = "skipped"
    BY DEF SkippedOnlyByCircuit
  <2> USE DEF IInv
  <2>1. j \in Jobs /\ j \in queue /\ returned
    BY DEF HasStatus, EachJobInOnePlace
  <2>2. \A w \in Workers : pc[w] = "left"
    BY <2>1 DEF LeftOnlyWhenDone
  <2>3. \E w \in Workers : TRUE
    BY <2>1, AISchedulerAssumption, 1 \in Workers DEF Workers, Jobs
  <2>4. circuit.open
    BY <2>1, <2>2, <2>3 DEF LeftOnlyWhenDone
  <2>5. /\ circuit.reason.by \in {"worker", "scheduler"}
        /\ results[circuit.reason.job] \in {"succeeded", "failed"}
    BY <2>2, <2>4 DEF ReasonHasBegun
  <2>6. ASSUME NEW i \in Jobs, i >= j PROVE results[i] = "skipped"
    BY <2>1, <2>6 DEF QueueIsTail, EachJobInOnePlace, SkippedAtTheEnd
  <2> QED
    BY <2>4, <2>5, <2>6
<1> QED
  BY <1>1, Invariance, PTL

\* TaskCircuit is monotone and first-wins, and once it is open consume() takes
\* no further job and those in flight keep their outcome.
THEOREM OpenCircuit == Spec => OpenCircuitOnlyDrains
<1>1. IInv /\ [Next]_vars =>
        [circuit.open =>
           /\ circuit' = circuit
           /\ started' = started
           /\ \A j \in InHand : results'[j] # "skipped"]_vars
  <2> SUFFICES ASSUME IInv, Next, circuit.open
               PROVE  /\ circuit' = circuit
                      /\ started' = started
                      /\ \A j \in InHand : results'[j] # "skipped"
    OBVIOUS
  <2> USE DEF IInv
  <2>1. \A j \in InHand : j \in Jobs /\ results[j] = "none"
    BY DEF EachJobInOnePlace, InHand, Working, TypeOK
  <2>2. ASSUME NEW w \in Workers, WorkerStep(w) \/ WorkerOpensCircuit(w)
        PROVE  /\ circuit' = circuit
               /\ started' = started
               /\ \A j \in InHand : results'[j] # "skipped"
    BY <2>1, <2>2 DEF WorkerStep, Consume, Leave, WorkerReturns, WorkerRaises,
       WorkerOpensCircuit, EndJob, Opened, counters, TypeOK
  <2>3. CASE Collect
    BY <2>1, <2>3 DEF Collect, InHand, Working, counters
  <2> QED
    BY <2>2, <2>3 DEF Next
<1> QED
  BY <1>1, Invariance, PTL DEF Spec, OpenCircuitOnlyDrains
-----------------------------------------------------------------------------
(* The scheduler implements the abstract pool, its promise to return apart   *)

\* What is pending, running and finished in the pool.
LEMMA OutcomeOf ==
    ASSUME IInv, NEW j \in Jobs
    PROVE  /\ Outcome[j] = "pending" <=> results[j] = "none" /\ j \in queue
           /\ Outcome[j] = "running" <=> results[j] = "none" /\ j \in InHand
           /\ results[j] # "none" => Outcome[j] = results[j]
BY DEF IInv, TypeOK, Outcome, EachJobInOnePlace

LEMMA ConsumeBegins ==
    ASSUME IInv, NEW w \in Workers, Consume(w)
    PROVE  \E j \in Jobs : Pool!Begin(j)
<1> USE DEF IInv
<1>1. PICK j \in queue : queue' = queue \ {j}
  BY DEF Consume
<1>2. /\ j \in Jobs /\ results[j] = "none"
      /\ ~circuit.open /\ ~returned
      /\ UNCHANGED <<results, circuit, returned>>
  BY <1>1 DEF Consume, TypeOK, EachJobInOnePlace, LeftOnlyWhenDone, SkippedAtTheEnd
<1>3. Outcome' = [Outcome EXCEPT ![j] = "running"]
  BY <1>1, <1>2 DEF Outcome
<1>4. Pool!Begin(j)
  BY <1>2, <1>3, OutcomeOf DEF Pool!Begin
<1> QED
  BY <1>2, <1>4

LEMMA EndJobFinishes ==
    ASSUME IInv, NEW w \in Workers, pc[w] = "working",
           NEW status \in {"succeeded", "failed"}, EndJob(w, status),
           NEW stops \in BOOLEAN, circuit'.open = (circuit.open \/ stops)
    PROVE  Pool!Finish(job[w], status, stops) /\ job[w] \in Jobs
<1> USE DEF IInv
<1>1. job[w] \in Jobs /\ job[w] \in InHand /\ results[job[w]] = "none"
  BY DEF TypeOK, EachJobInOnePlace, InHand, Working
<1>2. /\ results' = [results EXCEPT ![job[w]] = status]
      /\ UNCHANGED <<queue, returned>>
  BY DEF EndJob
<1>3. Outcome' = [Outcome EXCEPT ![job[w]] = status]
  BY <1>1, <1>2 DEF Outcome, TypeOK
<1> QED
  BY <1>1, <1>2, <1>3, OutcomeOf DEF Pool!Finish

LEMMA WorkerReturnsFinishes ==
    ASSUME IInv, NEW w \in Workers, NEW breaking \in BOOLEAN, WorkerReturns(w, breaking)
    PROVE  \E j \in Jobs, stops \in BOOLEAN : Pool!Finish(j, "succeeded", stops)
<1>1. circuit.open \in BOOLEAN
  BY DEF IInv, TypeOK
<1>2. circuit'.open = (circuit.open \/ breaking)
  <2>1. CASE breaking
    BY <2>1, <1>1 DEF WorkerReturns, Opened
  <2>2. CASE ~breaking
    BY <2>2, <1>1 DEF WorkerReturns
  <2> QED
    BY <2>1, <2>2
<1> QED
  BY <1>2, EndJobFinishes DEF WorkerReturns

LEMMA WorkerRaisesFinishes ==
    ASSUME IInv, NEW w \in Workers, WorkerRaises(w)
    PROVE  \E j \in Jobs, stops \in BOOLEAN : Pool!Finish(j, "failed", stops)
<1>1. circuit'.open = (circuit.open \/ FALSE)
  BY DEF WorkerRaises, IInv, TypeOK
<1> QED
  BY <1>1, EndJobFinishes DEF WorkerRaises

LEMMA WorkerOpensCircuitStops ==
    ASSUME IInv, NEW w \in Workers, WorkerOpensCircuit(w)
    PROVE  Pool!Stop
<1> USE DEF IInv
<1>1. job[w] \in Jobs /\ job[w] \in InHand /\ results[job[w]] = "none"
  BY DEF WorkerOpensCircuit, TypeOK, EachJobInOnePlace, InHand, Working
<1>2. circuit'.open = TRUE
  BY DEF WorkerOpensCircuit, Opened, TypeOK
<1>3. Outcome' = Outcome /\ returned' = returned
  BY DEF WorkerOpensCircuit, Outcome
<1> QED
  BY <1>1, <1>2, <1>3, OutcomeOf DEF Pool!Stop

LEMMA CollectCloses ==
    ASSUME IInv, Collect
    PROVE  Pool!Close
<1> USE DEF IInv
<1>1. /\ ~returned /\ returned'
      /\ \A w \in Workers : pc[w] = "left"
      /\ results' = [j \in Jobs |-> IF results[j] = "none" THEN "skipped" ELSE results[j]]
      /\ queue' = queue /\ circuit' = circuit
  BY DEF Collect
<1>2. InHand = {}
  BY <1>1 DEF InHand, Working
<1>3. \A j \in Jobs : Outcome[j] # "running"
  BY <1>2, OutcomeOf
<1>4. (\E j \in Jobs : Outcome[j] = "pending") => circuit.open
  <2> SUFFICES ASSUME NEW j \in Jobs, j \in queue PROVE circuit.open
    BY OutcomeOf
  <2>1. 1 \in Workers
    BY AISchedulerAssumption DEF Workers, Jobs
  <2> QED
    BY <1>1, <2>1 DEF LeftOnlyWhenDone
<1>5. Outcome' = [j \in Jobs |-> IF Outcome[j] = "pending" THEN "skipped" ELSE Outcome[j]]
  <2>1. \A j \in Jobs : results[j] = "none" => j \in queue
    BY <1>2 DEF EachJobInOnePlace
  <2>2. \A j \in Jobs :
          results'[j] = IF Outcome[j] = "pending" THEN "skipped" ELSE Outcome[j]
    BY <1>1, <2>1, OutcomeOf DEF TypeOK
  <2>3. \A j \in Jobs : results'[j] # "none"
    BY <1>1 DEF TypeOK
  <2> QED
    BY <2>2, <2>3 DEF Outcome
<1>6. circuit.open' = circuit.open /\ returned' = TRUE
  BY <1>1 DEF Collect
<1> QED
  BY <1>1, <1>3, <1>4, <1>5, <1>6 DEF Pool!Close

\* The safety part of ImplementsPool: whatever the interleaving of the consume()
\* coroutines, a step of run() is a step of JobPool or leaves it unchanged.
THEOREM RefinesPool == Spec => Pool!Init /\ [][Pool!Next]_(Pool!vars)
<1>1. Init => Pool!Init
  BY DEF Init, Pool!Init, Outcome
<1>2. IInv /\ [Next]_vars => [Pool!Next]_(Pool!vars)
  <2> SUFFICES ASSUME IInv, [Next]_vars PROVE Pool!Next \/ UNCHANGED Pool!vars
    OBVIOUS
  <2>1. ASSUME NEW w \in Workers, Leave(w) PROVE UNCHANGED Pool!vars
    BY <2>1 DEF Leave, Pool!vars, Outcome
  <2>2. ASSUME NEW w \in Workers, WorkerStep(w) \/ WorkerOpensCircuit(w)
        PROVE  Pool!Next \/ UNCHANGED Pool!vars
    BY <2>1, <2>2, ConsumeBegins, WorkerReturnsFinishes, WorkerRaisesFinishes,
       WorkerOpensCircuitStops DEF WorkerStep, Pool!Next
  <2>3. CASE Collect
    BY <2>3, CollectCloses DEF Pool!Next
  <2>4. CASE UNCHANGED vars
    BY <2>4 DEF vars, Pool!vars, Outcome
  <2> QED
    BY <2>2, <2>3, <2>4 DEF Next
<1> QED
  BY <1>1, <1>2, Invariance, PTL DEF Spec
-----------------------------------------------------------------------------
(***************************************************************************)
(* RuleRun, for any rules on any applications, any number of workers and    *)
(* either order of the deadlines.  What a rule makes of a subject           *)
(* (CandidatesOf, BinderGaps) may be anything here.                         *)
(***************************************************************************)

RuleNames == {input.rules[i] : i \in DOMAIN input.rules}
States == {"queued", "loading", "running", "ended", "collected"}
Occupied == {q \in RuleNames : proc[q].state \in {"loading", "running", "ended"}}

IsProcess(p) ==
    /\ p = [state |-> p.state, left |-> p.left, found |-> p.found, notes |-> p.notes,
            clock |-> p.clock]
    /\ p.state \in States
    /\ p.left \in Seq(ToSet(input.subjects))

RulesTypes ==
    /\ stage \in {"running", "done", "raised"}
    /\ input.rules \in Seq(RuleNames)
    /\ input.subjects \in Seq(ToSet(input.subjects))
    /\ proc = [r \in RuleNames |-> proc[r]]
    /\ result = [r \in RuleNames |-> result[r]]
    /\ \A r \in RuleNames : IsProcess(proc[r])

\* A subject whose candidates are among those found, or that a note says was
\* not analysed.
Covered(r, seen, notes, s) ==
    \/ CandidatesOf(r, input.manifest, s) \subseteq seen
    \/ \E n \in notes : n.subject = s.name /\ n.status # "completed"

\* A process has covered the subjects that it is past; a result that counts
\* covers all.
SubjectsCovered ==
    \A r \in RuleNames :
        /\ proc[r].state = "loading" => proc[r].left = Subjects(r)
        /\ proc[r].state = "running" =>
             \A s \in ToSet(Subjects(r)) :
                s \in ToSet(proc[r].left) \/ Covered(r, proc[r].found, proc[r].notes, s)
        /\ proc[r].state \in {"ended", "collected"} =>
             \/ result[r].status = "failed"
             \/ /\ result[r].status = "completed"
                /\ \A s \in ToSet(Subjects(r)) : Covered(r, result[r].found, result[r].notes, s)

WorkersBounded == Cardinality(Occupied) <= MaxWorkers

RulesInv == RulesTypes /\ SubjectsCovered /\ WorkersBounded /\ AnswerIsWhole
-----------------------------------------------------------------------------
LEMMA FilteredIsListed ==
    ASSUME NEW S, NEW s \in Seq(S), NEW T, T \subseteq DOMAIN s
    PROVE  Picked(s, T) \in Seq(S)
BY PickedInOrder

LEMMA SubjectsAreListed ==
    ASSUME RulesTypes, NEW r
    PROVE  Subjects(r) \in Seq(ToSet(input.subjects))
<1> DEFINE kind(s) == s.kind = Kind(r)
           open(s) == /\ s.effective = "true"
                      /\ Evaluate(input.manifest, s, "component_entry", "any").status
                           # "strongly_protected"
           all == Filtered(input.subjects, kind)
<1>1. all \in Seq(ToSet(input.subjects))
  <2>1. input.subjects \in Seq(ToSet(input.subjects))
    BY DEF RulesTypes
  <2> DEFINE T == {i \in DOMAIN input.subjects : kind(input.subjects[i])}
  <2>2. Picked(input.subjects, T) \in Seq(ToSet(input.subjects))
    BY <2>1, FilteredIsListed
  <2> QED
    BY <2>2 DEF Filtered
<1>2. Filtered(all, open) \in Seq(ToSet(input.subjects))
  <2> DEFINE T == {i \in DOMAIN all : open(all[i])}
  <2>1. T \subseteq DOMAIN all
    OBVIOUS
  <2> HIDE DEF all
  <2>2. Picked(all, T) \in Seq(ToSet(input.subjects))
    BY <1>1, <2>1, FilteredIsListed
  <2> QED
    BY <2>2 DEF Filtered
<1>3. Subjects(r) = IF r = BinderRule THEN Filtered(all, open) ELSE all
  BY DEF Subjects
<1> QED
  BY <1>1, <1>2, <1>3

LEMMA SubjectsStay ==
    ASSUME input' = input, NEW r
    PROVE  Subjects(r)' = Subjects(r)
BY DEF Subjects, Filtered

LEMMA CoveredStays ==
    ASSUME input' = input, NEW r, NEW seen, NEW notes, NEW s
    PROVE  Covered(r, seen, notes, s)' <=> Covered(r, seen, notes, s)
BY DEF Covered

LEMMA CoveredGrows ==
    ASSUME NEW r, NEW f1, NEW n1, NEW f2, NEW n2, f1 \subseteq f2, n1 \subseteq n2,
           NEW s, Covered(r, f1, n1, s)
    PROVE  Covered(r, f2, n2, s)
BY DEF Covered

LEMMA AnswerStays ==
    ASSUME AnswerIsWhole, input' = input, answer' = answer, DOMAIN proc' = DOMAIN proc,
           stage' = "done" => stage = "done"
    PROVE  AnswerIsWhole'
<1>1. \A r : Subjects(r)' = Subjects(r)
  BY SubjectsStay
<1>2. \A r : Reported(r)' = Reported(r)
  BY DEF Reported
<1> QED
  BY <1>1, <1>2 DEF AnswerIsWhole, Rules
-----------------------------------------------------------------------------
(***************************************************************************)
(* A step of one rule: its process becomes p, and its result with it.       *)
(***************************************************************************)

\* What a process and a result have to hold for.
Progressed(r, p, res) ==
    /\ p.state = "loading" => p.left = Subjects(r)
    /\ p.state = "running" =>
         \A s \in ToSet(Subjects(r)) :
            s \in ToSet(p.left) \/ Covered(r, p.found, p.notes, s)
    /\ p.state \in {"ended", "collected"} =>
         \/ res.status = "failed"
         \/ /\ res.status = "completed"
            /\ \A s \in ToSet(Subjects(r)) : Covered(r, res.found, res.notes, s)

Process(st, l, f, n, c) == [state |-> st, left |-> l, found |-> f, notes |-> n, clock |-> c]

LEMMA ProcessFields ==
    ASSUME NEW st \in States, NEW l \in Seq(ToSet(input.subjects)), NEW f, NEW n, NEW c
    PROVE  /\ IsProcess(Process(st, l, f, n, c))
           /\ Process(st, l, f, n, c).state = st /\ Process(st, l, f, n, c).left = l
           /\ Process(st, l, f, n, c).found = f /\ Process(st, l, f, n, c).notes = n
BY DEF Process, IsProcess

\* The edits of a process that occur.
LEMMA FieldEdits ==
    ASSUME NEW q, IsProcess(q), NEW v
    PROVE  /\ [q EXCEPT !.state = v] = Process(v, q.left, q.found, q.notes, q.clock)
           /\ [q EXCEPT !.left = v] = Process(q.state, v, q.found, q.notes, q.clock)
           /\ [q EXCEPT !.clock = v] = Process(q.state, q.left, q.found, q.notes, v)
<1> DEFINE a == q.state
           b == q.left
           d == q.found
           e == q.notes
           g == q.clock
<1>1. q = Process(a, b, d, e, g)
  BY Zenon DEF IsProcess, Process
<1> HIDE DEF a, b, d, e, g
<1>2. /\ [q EXCEPT !.state = v] = Process(v, b, d, e, g)
      /\ [q EXCEPT !.left = v] = Process(a, v, d, e, g)
      /\ [q EXCEPT !.clock = v] = Process(a, b, d, e, v)
  BY <1>1 DEF Process
<1> QED
  BY <1>2, Zenon DEF a, b, d, e, g

LEMMA EditStateAndLeft ==
    ASSUME NEW q, IsProcess(q), NEW st, NEW l
    PROVE  [q EXCEPT !.state = st, !.left = l] = Process(st, l, q.found, q.notes, q.clock)
<1> DEFINE q1 == [q EXCEPT !.state = st]
<1>1. q1 = Process(st, q.left, q.found, q.notes, q.clock)
  BY FieldEdits, Zenon
<1>2. [q EXCEPT !.state = st, !.left = l] = [q1 EXCEPT !.left = l]
  OBVIOUS
<1> HIDE DEF q1
<1>3. [q1 EXCEPT !.left = l] = Process(st, l, q.found, q.notes, q.clock)
  BY <1>1 DEF Process
<1> QED
  BY <1>2, <1>3, Zenon

LEMMA EditStateLeftAndNotes ==
    ASSUME NEW q, IsProcess(q), NEW st, NEW l, NEW n
    PROVE  [q EXCEPT !.state = st, !.left = l, !.notes = n] = Process(st, l, q.found, n, q.clock)
<1> DEFINE q1 == [q EXCEPT !.state = st, !.left = l]
<1>1. q1 = Process(st, l, q.found, q.notes, q.clock)
  BY EditStateAndLeft, Zenon
<1>2. [q EXCEPT !.state = st, !.left = l, !.notes = n] = [q1 EXCEPT !.notes = n]
  OBVIOUS
<1> HIDE DEF q1
<1>3. [q1 EXCEPT !.notes = n] = Process(st, l, q.found, n, q.clock)
  BY <1>1 DEF Process
<1> QED
  BY <1>2, <1>3, Zenon

LEMMA EditLeftAndNotes ==
    ASSUME NEW q, IsProcess(q), NEW l, NEW n
    PROVE  [q EXCEPT !.left = l, !.notes = n] = Process(q.state, l, q.found, n, q.clock)
<1> DEFINE q1 == [q EXCEPT !.left = l]
<1>1. q1 = Process(q.state, l, q.found, q.notes, q.clock)
  BY FieldEdits, Zenon
<1>2. [q EXCEPT !.left = l, !.notes = n] = [q1 EXCEPT !.notes = n]
  OBVIOUS
<1> HIDE DEF q1
<1>3. [q1 EXCEPT !.notes = n] = Process(q.state, l, q.found, n, q.clock)
  BY <1>1 DEF Process
<1> QED
  BY <1>2, <1>3, Zenon

LEMMA EditLeftFoundAndNotes ==
    ASSUME NEW q, IsProcess(q), NEW l, NEW f, NEW n
    PROVE  [q EXCEPT !.left = l, !.found = f, !.notes = n] = Process(q.state, l, f, n, q.clock)
<1> DEFINE q1 == [q EXCEPT !.left = l]
           q2 == [q1 EXCEPT !.found = f]
<1>1. q1 = Process(q.state, l, q.found, q.notes, q.clock)
  BY FieldEdits, Zenon
<1>2. [q EXCEPT !.left = l, !.found = f, !.notes = n] = [q2 EXCEPT !.notes = n]
  OBVIOUS
<1> HIDE DEF q1
<1>3. q2 = Process(q.state, l, f, q.notes, q.clock)
  BY <1>1 DEF Process
<1> HIDE DEF q2
<1>4. [q2 EXCEPT !.notes = n] = Process(q.state, l, f, n, q.clock)
  BY <1>3 DEF Process
<1> QED
  BY <1>2, <1>4, Zenon

LEMMA ProgressOfRules ==
    SubjectsCovered <=> \A r \in RuleNames : Progressed(r, proc[r], result[r])
BY DEF SubjectsCovered, Progressed

LEMMA ProcessStep ==
    ASSUME RulesTypes, SubjectsCovered, NEW r \in RuleNames, NEW p, NEW res,
           IsProcess(p), Progressed(r, p, res),
           proc' = [proc EXCEPT ![r] = p],
           result' = [result EXCEPT ![r] = res],
           input' = input, stage' \in {"running", "done", "raised"}
    PROVE  RulesTypes' /\ SubjectsCovered' /\ DOMAIN proc' = DOMAIN proc
<1>1. RuleNames' = RuleNames
  BY DEF RuleNames
<1>2. \A q \in RuleNames : q # r => proc'[q] = proc[q] /\ result'[q] = result[q]
  BY DEF RulesTypes
<1>3. proc'[r] = p /\ result'[r] = res
  BY DEF RulesTypes
<1>4. \A q \in RuleNames : IsProcess(proc'[q])
  BY <1>2, <1>3 DEF RulesTypes
<1>5. \A q \in RuleNames : IsProcess(proc[q])' <=> IsProcess(proc'[q])
  BY DEF IsProcess
<1>6. /\ proc' = [q \in RuleNames |-> proc'[q]] /\ DOMAIN proc' = DOMAIN proc
      /\ result' = [q \in RuleNames |-> result'[q]]
  BY DEF RulesTypes
<1>7. RulesTypes'
  BY <1>1, <1>4, <1>5, <1>6 DEF RulesTypes
<1>8. \A q : Subjects(q)' = Subjects(q)
  BY SubjectsStay
<1>9. ASSUME NEW q \in RuleNames PROVE Progressed(q, proc[q], result[q])'
  <2>1. Progressed(q, proc'[q], result'[q])
    BY <1>2, <1>3, ProgressOfRules
  <2>2. \A seen, notes, s : Covered(q, seen, notes, s)' <=> Covered(q, seen, notes, s)
    BY DEF Covered
  <2> QED
    BY <1>8, <2>1 DEF Progressed, Covered
<1> QED
  BY <1>1, <1>6, <1>7, <1>9 DEF SubjectsCovered, Progressed

LEMMA OccupiedFinite ==
    ASSUME RulesTypes
    PROVE  IsFiniteSet(Occupied) /\ Cardinality(Occupied) \in Nat
<1>1. IsFiniteSet(RuleNames)
  <2>1. DOMAIN input.rules = 1..Len(input.rules) /\ Len(input.rules) \in Nat
    BY DEF RulesTypes
  <2>2. input.rules \in Surjection(1..Len(input.rules), RuleNames)
    BY <2>1 DEF Surjection, RuleNames, RulesTypes
  <2> QED
    BY <2>1, <2>2, FS_NatSurjection DEF ExistsSurjection
<1> QED
  BY <1>1, FS_Subset, FS_CardinalityType DEF Occupied

LEMMA WorkersStay ==
    ASSUME WorkersBounded, RulesTypes, NEW r \in RuleNames, NEW p,
           proc' = [proc EXCEPT ![r] = p], input' = input,
           p.state \in {"loading", "running", "ended"} => r \in Occupied
    PROVE  WorkersBounded'
<1>1. RuleNames' = RuleNames
  BY DEF RuleNames
<1>2. Occupied' \subseteq Occupied
  BY <1>1 DEF Occupied, RulesTypes
<1>4. IsFiniteSet(Occupied) /\ Cardinality(Occupied) \in Nat
  BY OccupiedFinite
<1>5. Cardinality(Occupied') <= Cardinality(Occupied) /\ Cardinality(Occupied') \in Nat
  BY <1>2, <1>4, FS_Subset, FS_CardinalityType
<1> QED
  BY <1>4, <1>5, RuleRunAssumption DEF WorkersBounded, RuleRunAssumption
-----------------------------------------------------------------------------
\* The steps of one rule.

LEMMA StartStep ==
    ASSUME RulesInv, NEW r \in Rules, Start(r)
    PROVE  RulesInv'
<1> DEFINE st == IF r = BinderRule THEN "loading" ELSE "running"
           p == [proc[r] EXCEPT !.state = st, !.left = Subjects(r)]
<1>1. r \in RuleNames /\ RulesTypes /\ SubjectsCovered /\ IsProcess(proc[r])
  BY DEF RulesInv, RulesTypes, Rules
<1>2. proc' = [proc EXCEPT ![r] = p] /\ input' = input /\ stage' = stage /\ answer' = answer
  BY DEF Start
<1>3. result' = [result EXCEPT ![r] = result[r]]
  BY <1>1 DEF Start, RulesTypes
<1>4. IsProcess(p) /\ p.state \in {"loading", "running"} /\ p.left = Subjects(r)
  <2>1. Subjects(r) \in Seq(ToSet(input.subjects)) /\ st \in States \cap {"loading", "running"}
    BY <1>1, SubjectsAreListed DEF States
  <2> HIDE DEF st
  <2>2. p = Process(st, Subjects(r), proc[r].found, proc[r].notes, proc[r].clock)
    BY <1>1, EditStateAndLeft, Zenon
  <2> HIDE DEF p
  <2> QED
    BY <2>1, <2>2, ProcessFields
<1>5. \A s \in ToSet(Subjects(r)) : s \in ToSet(p.left)
  BY <1>4
<1>6. Progressed(r, p, result[r])
  BY <1>4, <1>5 DEF Progressed
<1> HIDE DEF p
<1>7. RulesTypes' /\ SubjectsCovered' /\ DOMAIN proc' = DOMAIN proc
  BY <1>1, <1>2, <1>3, <1>4, <1>6, ProcessStep DEF RulesTypes
<1>8. AnswerIsWhole'
  BY <1>2, <1>7, AnswerStays DEF RulesInv
<1>9. WorkersBounded'
  <2>1. Occupied' \subseteq Occupied \cup {r}
    BY <1>1, <1>2 DEF Occupied, RuleNames, RulesTypes
  <2>2. Cardinality(Occupied) < MaxWorkers
    BY <1>1 DEF Start, Occupied, Rules, RulesTypes
  <2>3. IsFiniteSet(Occupied) /\ Cardinality(Occupied) \in Nat
    BY <1>1, OccupiedFinite
  <2>4. IsFiniteSet(Occupied \cup {r}) /\ Cardinality(Occupied \cup {r}) <= Cardinality(Occupied) + 1
        /\ Cardinality(Occupied \cup {r}) \in Nat
    BY <2>3, FS_AddElement, FS_CardinalityType
  <2>5. Cardinality(Occupied') <= Cardinality(Occupied \cup {r}) /\ Cardinality(Occupied') \in Nat
    BY <2>1, <2>4, FS_Subset, FS_CardinalityType
  <2> QED
    BY <2>2, <2>3, <2>4, <2>5, RuleRunAssumption DEF WorkersBounded, RuleRunAssumption
<1> QED
  BY <1>7, <1>8, <1>9 DEF RulesInv

\* Every later step of a rule's process is one of these.
LEMMA RunningStep ==
    ASSUME RulesInv, NEW r \in RuleNames, r \in Occupied, NEW p, NEW res,
           IsProcess(p), Progressed(r, p, res),
           proc' = [proc EXCEPT ![r] = p], result' = [result EXCEPT ![r] = res],
           input' = input, answer' = answer, stage' = stage
    PROVE  RulesInv'
<1>1. RulesTypes' /\ SubjectsCovered' /\ DOMAIN proc' = DOMAIN proc
  BY ProcessStep DEF RulesInv, RulesTypes
<1>2. AnswerIsWhole'
  BY <1>1, AnswerStays DEF RulesInv
<1>3. WorkersBounded'
  BY WorkersStay DEF RulesInv
<1> QED
  BY <1>1, <1>2, <1>3 DEF RulesInv

LEMMA OccupiedRule ==
    ASSUME RulesInv, NEW r \in Rules, proc[r].state \in {"loading", "running", "ended"}
    PROVE  /\ r \in RuleNames /\ r \in Occupied /\ IsProcess(proc[r])
           /\ Progressed(r, proc[r], result[r])
           /\ result = [result EXCEPT ![r] = result[r]]
<1>1. r \in RuleNames
  BY DEF RulesInv, RulesTypes, Rules
<1> QED
  BY <1>1, ProgressOfRules DEF RulesInv, RulesTypes, Occupied

LEMMA LoadStep ==
    ASSUME RulesInv, NEW r \in Rules, Load(r)
    PROVE  RulesInv'
<1>1. proc[r].state = "loading"
  BY DEF Load
<1>2. /\ r \in RuleNames /\ r \in Occupied /\ IsProcess(proc[r])
      /\ Progressed(r, proc[r], result[r])
      /\ result = [result EXCEPT ![r] = result[r]]
  BY <1>1, OccupiedRule
<1>3. input' = input /\ stage' = stage /\ answer' = answer /\ result' = result
  BY DEF Load
<1>4. CASE proc' = [proc EXCEPT ![r].state = "running"]
  <2> DEFINE p == [proc[r] EXCEPT !.state = "running"]
  <2>1. p = Process("running", proc[r].left, proc[r].found, proc[r].notes, proc[r].clock)
    BY <1>2, FieldEdits, Zenon
  <2>2. /\ IsProcess(p) /\ p.state = "running" /\ p.left = proc[r].left
        /\ p.found = proc[r].found /\ p.notes = proc[r].notes
    <3> HIDE DEF p
    <3> QED
      BY <1>2, <2>1, ProcessFields DEF IsProcess, States
  <2>3. Progressed(r, p, result[r])
    BY <1>1, <1>2, <2>2 DEF Progressed
  <2>4. proc' = [proc EXCEPT ![r] = p]
    BY <1>4
  <2> HIDE DEF p
  <2> QED
    BY <1>2, <1>3, <2>2, <2>3, <2>4, RunningStep
<1>5. CASE proc' = [proc EXCEPT ![r] =
                [@ EXCEPT !.state = "running", !.left = << >>,
                          !.notes = {Note(c, "timeout", {"BINDER_BATCH_TIMEOUT"}) :
                                        c \in ToSet(proc[r].left)}]]
  <2> DEFINE late == {Note(c, "timeout", {"BINDER_BATCH_TIMEOUT"}) : c \in ToSet(proc[r].left)}
             none == << >>
             p == [proc[r] EXCEPT !.state = "running", !.left = none, !.notes = late]
  <2>1. p = Process("running", none, proc[r].found, late, proc[r].clock)
    <3> HIDE DEF late, none
    <3>1. IsProcess(proc[r])
      BY <1>2
    <3> QED
      BY ONLY <3>1, EditStateLeftAndNotes, Zenon
  <2>2. IsProcess(p) /\ p.state = "running" /\ p.found = proc[r].found /\ p.notes = late
    <3>1. none \in Seq(ToSet(input.subjects)) /\ "running" \in States
      BY DEF States
    <3> DEFINE new == Process("running", none, proc[r].found, late, proc[r].clock)
    <3> HIDE DEF p, late, none
    <3>2. IsProcess(new) /\ new.state = "running" /\ new.found = proc[r].found /\ new.notes = late
      BY <3>1, ProcessFields
    <3> QED
      BY <2>1, <3>2, Zenon
  <2>3. ASSUME NEW s \in ToSet(Subjects(r)) PROVE Covered(r, p.found, p.notes, s)
    <3>1. s \in ToSet(proc[r].left)
      BY <1>1, <1>2 DEF Progressed
    <3>2. Note(s, "timeout", {"BINDER_BATCH_TIMEOUT"}) \in p.notes
      BY <2>2, <3>1
    <3>3. /\ Note(s, "timeout", {"BINDER_BATCH_TIMEOUT"}).subject = s.name
          /\ Note(s, "timeout", {"BINDER_BATCH_TIMEOUT"}).status = "timeout"
      BY DEF Note
    <3> HIDE DEF p
    <3> QED
      BY <3>2, <3>3, Zenon DEF Covered
  <2>4. proc' = [proc EXCEPT ![r] = p]
    BY <1>5
  <2>5. Progressed(r, p, result[r])
    BY <2>2, <2>3 DEF Progressed
  <2> HIDE DEF p
  <2> QED
    BY <1>2, <1>3, <2>2, <2>4, <2>5, RunningStep
<1> QED
  BY <1>4, <1>5 DEF Load

\* Nothing that the process table or the results say changes.
LEMMA UnchangedRules ==
    ASSUME RulesInv, UNCHANGED <<input, proc, result>>,
           stage' \in {"running", "done", "raised"}
    PROVE  RulesTypes' /\ SubjectsCovered' /\ WorkersBounded'
<1>1. RuleNames' = RuleNames /\ \A r : Subjects(r)' = Subjects(r)
  BY SubjectsStay DEF RuleNames
<1>2. RulesTypes'
  BY <1>1 DEF RulesInv, RulesTypes, IsProcess
<1>3. SubjectsCovered'
  BY <1>1 DEF RulesInv, SubjectsCovered, Covered
<1>4. WorkersBounded'
  BY <1>1 DEF RulesInv, WorkersBounded, Occupied
<1> QED
  BY <1>2, <1>3, <1>4

LEMMA HeadAndTail ==
    ASSUME NEW S, NEW s \in Seq(S), s # << >>
    PROVE  /\ Tail(s) \in Seq(S)
           /\ \A x \in ToSet(s) : x = Head(s) \/ x \in ToSet(Tail(s))
<1>1. Tail(s) \in Seq(S)
  OBVIOUS
<1>2. ASSUME NEW i \in DOMAIN s, i # 1 PROVE s[i] \in ToSet(Tail(s))
  <2>1. i - 1 \in DOMAIN Tail(s) /\ Tail(s)[i - 1] = s[i]
    BY <1>2
  <2> QED
    BY <2>1 DEF ToSet
<1>3. s[1] = Head(s)
  OBVIOUS
<1> QED
  BY <1>1, <1>2, <1>3 DEF ToSet

\* The process goes on to its next subject, with what it found and noted of this one.
LEMMA AdvanceStep ==
    ASSUME RulesInv, NEW r \in Rules, proc[r].state = "running", proc[r].left # << >>,
           NEW seen, NEW notes, proc[r].found \subseteq seen, proc[r].notes \subseteq notes,
           Covered(r, seen, notes, Head(proc[r].left)),
           NEW p, p = Process("running", Tail(proc[r].left), seen, notes, proc[r].clock),
           proc' = [proc EXCEPT ![r] = p],
           input' = input, stage' = stage, answer' = answer, result' = result
    PROVE  RulesInv'
<1>1. /\ r \in RuleNames /\ r \in Occupied /\ IsProcess(proc[r])
      /\ Progressed(r, proc[r], result[r])
      /\ result = [result EXCEPT ![r] = result[r]]
  BY OccupiedRule
<1>2. /\ Tail(proc[r].left) \in Seq(ToSet(input.subjects))
      /\ \A s \in ToSet(proc[r].left) : s = Head(proc[r].left) \/ s \in ToSet(Tail(proc[r].left))
  BY <1>1, HeadAndTail DEF IsProcess
<1>3. /\ IsProcess(p) /\ p.state = "running" /\ p.left = Tail(proc[r].left)
      /\ p.found = seen /\ p.notes = notes
  BY <1>2, ProcessFields DEF States
<1>4. ASSUME NEW s \in ToSet(Subjects(r))
      PROVE  s \in ToSet(p.left) \/ Covered(r, p.found, p.notes, s)
  <2>1. s \in ToSet(proc[r].left) \/ Covered(r, proc[r].found, proc[r].notes, s)
    BY <1>1 DEF Progressed
  <2>2. CASE Covered(r, proc[r].found, proc[r].notes, s)
    BY <1>3, <2>2, CoveredGrows
  <2>3. CASE s \in ToSet(proc[r].left)
    BY <1>2, <1>3, <2>3
  <2> QED
    BY <2>1, <2>2, <2>3
<1>5. Progressed(r, p, result[r])
  BY <1>3, <1>4 DEF Progressed
<1> QED
  BY <1>1, <1>3, <1>5, RunningStep

LEMMA AnalyseStep ==
    ASSUME RulesInv, NEW r \in Rules, Analyse(r)
    PROVE  RulesInv'
<1> DEFINE c == Head(proc[r].left)
           late == r = BinderRule /\ proc[r].clock >= 1
           note == IF late THEN Note(c, "timeout", {"BINDER_RULE_DEADLINE_EXCEEDED"})
                   ELSE Note(c, "completed", BinderGaps(c))
           seen == proc[r].found
                      \cup (IF late THEN {} ELSE CandidatesOf(r, input.manifest, c))
           notes == IF r = BinderRule THEN proc[r].notes \cup {note} ELSE proc[r].notes
           left == Tail(proc[r].left)
           p == [proc[r] EXCEPT !.left = left, !.found = seen, !.notes = notes]
<1>1. /\ proc[r].state = "running" /\ proc[r].left # << >>
      /\ proc' = [proc EXCEPT ![r] = p]
      /\ input' = input /\ stage' = stage /\ answer' = answer /\ result' = result
  BY DEF Analyse
<1>2. IsProcess(proc[r])
  BY <1>1, OccupiedRule
<1>3. proc[r].found \subseteq seen /\ proc[r].notes \subseteq notes
  OBVIOUS
<1>4. Covered(r, seen, notes, c)
  <2>1. CASE late
    <3>1. note \in notes /\ note.subject = c.name /\ note.status # "completed"
      BY <2>1 DEF Note
    <3> HIDE DEF note, notes, seen
    <3> QED
      BY <3>1 DEF Covered
  <2>2. CASE ~late
    <3>1. CandidatesOf(r, input.manifest, c) \subseteq seen
      BY <2>2
    <3> HIDE DEF seen, notes
    <3> QED
      BY <3>1 DEF Covered
  <2> QED
    BY <2>1, <2>2
<1> HIDE DEF seen, notes, left
<1>5. p = Process(proc[r].state, left, seen, notes, proc[r].clock)
  BY ONLY <1>2, EditLeftFoundAndNotes, Zenon
<1> HIDE DEF p
<1> QED
  BY <1>1, <1>3, <1>4, <1>5, AdvanceStep DEF left

\* The process is at its end: its result is a failure, or that of all its subjects.
LEMMA SettleStep ==
    ASSUME RulesInv, NEW r \in Rules, proc[r].state \in {"loading", "running", "ended"},
           NEW st \in {"ended", "collected"}, NEW res,
           \/ res.status = "failed"
           \/ /\ res.status = "completed"
              /\ \A s \in ToSet(Subjects(r)) : Covered(r, res.found, res.notes, s),
           proc' = [proc EXCEPT ![r].state = st], result' = [result EXCEPT ![r] = res],
           input' = input, stage' = stage, answer' = answer
    PROVE  RulesInv'
<1> DEFINE p == [proc[r] EXCEPT !.state = st]
<1>1. /\ r \in RuleNames /\ r \in Occupied /\ IsProcess(proc[r])
      /\ proc' = [proc EXCEPT ![r] = p]
  BY OccupiedRule
<1>2. p = Process(st, proc[r].left, proc[r].found, proc[r].notes, proc[r].clock)
  BY <1>1, FieldEdits, Zenon
<1> HIDE DEF p
<1>3. IsProcess(p) /\ p.state = st
  BY <1>1, <1>2, ProcessFields DEF IsProcess, States
<1>4. Progressed(r, p, res)
  BY <1>3 DEF Progressed
<1> QED
  BY <1>1, <1>3, <1>4, RunningStep

LEMMA FailedIsFailed == Failed.status = "failed"
BY DEF Failed, NoResult

LEMMA ComponentFailsStep ==
    ASSUME RulesInv, NEW r \in Rules, ComponentFails(r)
    PROVE  RulesInv'
<1> DEFINE c == Head(proc[r].left)
           note == Note(c, "error", BinderGaps(c) \cup {"BINDER_COMPONENT_ANALYSIS_FAILED"})
           notes == proc[r].notes \cup {note}
           left == Tail(proc[r].left)
           p == [proc[r] EXCEPT !.left = left, !.notes = notes]
<1>1. /\ proc[r].state = "running" /\ proc[r].left # << >>
      /\ input' = input /\ stage' = stage /\ answer' = answer
  BY DEF ComponentFails
<1>2. CASE r = BinderRule
  <2>1. proc' = [proc EXCEPT ![r] = p] /\ result' = result
    BY <1>2 DEF ComponentFails
  <2>2. IsProcess(proc[r])
    BY <1>1, OccupiedRule
  <2>3. Covered(r, proc[r].found, notes, c)
    <3>1. note \in notes /\ note.subject = c.name /\ note.status # "completed"
      BY DEF Note
    <3> HIDE DEF note, notes
    <3> QED
      BY <3>1 DEF Covered
  <2>4. proc[r].notes \subseteq notes
    OBVIOUS
  <2> HIDE DEF notes, left
  <2>5. p = Process(proc[r].state, left, proc[r].found, notes, proc[r].clock)
    BY ONLY <2>2, EditLeftAndNotes, Zenon
  <2> HIDE DEF p
  <2> QED
    BY <1>1, <2>1, <2>3, <2>4, <2>5, AdvanceStep DEF left
<1>3. CASE r # BinderRule
  <2>1. proc' = [proc EXCEPT ![r].state = "ended"] /\ result' = [result EXCEPT ![r] = Failed]
    BY <1>3 DEF ComponentFails
  <2> QED
    BY <1>1, <2>1, SettleStep, FailedIsFailed
<1> QED
  BY <1>2, <1>3

LEMMA ExitStep ==
    ASSUME RulesInv, NEW r \in Rules, Exit(r)
    PROVE  RulesInv'
<1> DEFINE res == [status |-> "completed", found |-> proc[r].found, notes |-> proc[r].notes]
<1>1. /\ proc[r].state = "running" /\ proc[r].left = << >>
      /\ proc' = [proc EXCEPT ![r].state = "ended"] /\ result' = [result EXCEPT ![r] = res]
      /\ input' = input /\ stage' = stage /\ answer' = answer
  BY DEF Exit
<1>2. Progressed(r, proc[r], result[r])
  BY <1>1, OccupiedRule
<1>3. ToSet(proc[r].left) = {}
  BY <1>1 DEF ToSet
<1>4. \A s \in ToSet(Subjects(r)) : Covered(r, proc[r].found, proc[r].notes, s)
  BY <1>1, <1>2, <1>3 DEF Progressed
<1>5. res.status = "completed" /\ res.found = proc[r].found /\ res.notes = proc[r].notes
  OBVIOUS
<1> HIDE DEF res
<1> QED
  BY <1>1, <1>4, <1>5, SettleStep

LEMMA TickStep ==
    ASSUME RulesInv, NEW r \in Rules, Tick(r)
    PROVE  RulesInv'
<1> DEFINE clock == proc[r].clock + 1
           p == [proc[r] EXCEPT !.clock = clock]
<1>1. /\ proc[r].state \in {"loading", "running"}
      /\ proc' = [proc EXCEPT ![r] = p]
      /\ input' = input /\ stage' = stage /\ answer' = answer /\ result' = result
  BY DEF Tick
<1>2. /\ r \in RuleNames /\ r \in Occupied /\ IsProcess(proc[r])
      /\ Progressed(r, proc[r], result[r])
      /\ result = [result EXCEPT ![r] = result[r]]
  BY <1>1, OccupiedRule
<1> HIDE DEF clock
<1>3. p = Process(proc[r].state, proc[r].left, proc[r].found, proc[r].notes, clock)
  BY <1>2, FieldEdits, Zenon
<1> HIDE DEF p
<1>4. /\ IsProcess(p) /\ p.state = proc[r].state /\ p.left = proc[r].left
      /\ p.found = proc[r].found /\ p.notes = proc[r].notes
  BY <1>2, <1>3, ProcessFields DEF IsProcess
<1>5. Progressed(r, p, result[r])
  BY <1>2, <1>4 DEF Progressed
<1> QED
  BY <1>1, <1>2, <1>4, <1>5, RunningStep

LEMMA EndStep ==
    ASSUME RulesInv, NEW r \in Rules, Kill(r) \/ Breaks(r)
    PROVE  RulesInv'
BY SettleStep, FailedIsFailed DEF Kill, Breaks, End

LEMMA TakeResultStep ==
    ASSUME RulesInv, NEW r \in Rules, TakeResult(r)
    PROVE  RulesInv'
<1>1. /\ proc[r].state = "ended" /\ proc' = [proc EXCEPT ![r].state = "collected"]
      /\ input' = input /\ stage' = stage /\ answer' = answer /\ result' = result
  BY DEF TakeResult
<1>2. /\ Progressed(r, proc[r], result[r])
      /\ result = [result EXCEPT ![r] = result[r]]
  BY <1>1, OccupiedRule
<1>3. \/ result[r].status = "failed"
      \/ /\ result[r].status = "completed"
         /\ \A s \in ToSet(Subjects(r)) : Covered(r, result[r].found, result[r].notes, s)
  BY <1>1, <1>2 DEF Progressed
<1> QED
  BY <1>1, <1>2, <1>3, SettleStep

\* run_all raises: nothing is answered.
LEMMA WorkerDiesStep ==
    ASSUME RulesInv, NEW r \in Rules, WorkerDies(r)
    PROVE  RulesInv'
<1>1. stage' = "raised" /\ UNCHANGED <<input, proc, result, answer>>
  BY DEF WorkerDies
<1>2. AnswerIsWhole'
  BY <1>1, AnswerStays DEF RulesInv
<1>3. RulesTypes' /\ SubjectsCovered' /\ WorkersBounded'
  BY <1>1, UnchangedRules
<1> QED
  BY <1>2, <1>3 DEF RulesInv
-----------------------------------------------------------------------------
(***************************************************************************)
(* The answer: the results in the order of the rules.                       *)
(***************************************************************************)

\* The places of the rules that ended with a status, and those rules.
Places(status) == {k \in DOMAIN input.rules : result[input.rules[k]].status = status}
Ended(status) == Picked(input.rules, Places(status))

LEMMA EndedInOrder ==
    ASSUME RulesTypes, NEW status
    PROVE  /\ DOMAIN Ended(status) = 1..Len(Ended(status))
           /\ \A k \in Places(status) : \E i \in DOMAIN Ended(status) : Ended(status)[i] = input.rules[k]
           /\ \A i, j \in DOMAIN Ended(status) : i < j =>
                \E k, l \in DOMAIN input.rules :
                    k < l /\ input.rules[k] = Ended(status)[i] /\ input.rules[l] = Ended(status)[j]
<1> DEFINE s == input.rules
           ks == Places(status)
<1>1. ks \in SUBSET DOMAIN s /\ s \in Seq(RuleNames)
  BY DEF Places, RulesTypes
<1> HIDE DEF s, ks
<1>2. /\ DOMAIN Picked(s, ks) = 1..Len(Picked(s, ks))
      /\ \A k \in ks : \E i \in DOMAIN Picked(s, ks) : Picked(s, ks)[i] = s[k]
      /\ \A i, j \in DOMAIN Picked(s, ks) : i < j =>
            \E k, l \in ks : k < l /\ s[k] = Picked(s, ks)[i] /\ s[l] = Picked(s, ks)[j]
  BY <1>1, PickedInOrder
<1>3. Ended(status) = Picked(s, ks)
  BY DEF Ended, s, ks
<1>4. \A k \in ks : k \in DOMAIN s
  BY <1>1
<1> HIDE DEF Ended
<1>5. /\ DOMAIN Ended(status) = 1..Len(Ended(status))
      /\ \A k \in ks : \E i \in DOMAIN Ended(status) : Ended(status)[i] = s[k]
      /\ \A i, j \in DOMAIN Ended(status) : i < j =>
            \E k, l \in DOMAIN s : k < l /\ s[k] = Ended(status)[i] /\ s[l] = Ended(status)[j]
  BY <1>2, <1>3, <1>4
<1> QED
  BY <1>5 DEF s, ks

LEMMA AnswerOfAggregate ==
    ASSUME RulesTypes, Aggregate
    PROVE  /\ answer'.failures = Ended("failed")
           /\ answer'.candidates = [i \in DOMAIN Ended("completed") |->
                <<Ended("completed")[i], result[Ended("completed")[i]].found>>]
           /\ answer'.gaps = UNION {Partial(Ended("completed")[i]) : i \in DOMAIN Ended("completed")}
           /\ stage' = "done" /\ \A r \in Rules : proc[r].state = "collected"
           /\ UNCHANGED <<input, proc, result>>
BY DEF Aggregate, Filtered, Ended, Places

LEMMA AggregateStep ==
    ASSUME RulesInv, Aggregate
    PROVE  RulesInv'
<1> DEFINE completed == Ended("completed")
           broken == Ended("failed")
           named == [i \in DOMAIN answer'.candidates |-> answer'.candidates[i][1]]
<1>1. RulesTypes
  BY DEF RulesInv
<1>2. /\ answer'.failures = broken
      /\ answer'.candidates = [i \in DOMAIN completed |-> <<completed[i], result[completed[i]].found>>]
      /\ answer'.gaps = UNION {Partial(completed[i]) : i \in DOMAIN completed}
      /\ stage' = "done" /\ \A r \in Rules : proc[r].state = "collected"
      /\ UNCHANGED <<input, proc, result>>
  BY <1>1, AnswerOfAggregate
<1>3. /\ \A status : \A k \in Places(status) :
            \E i \in DOMAIN Ended(status) : Ended(status)[i] = input.rules[k]
      /\ \A status : \A i, j \in DOMAIN Ended(status) : i < j =>
            \E k, l \in DOMAIN input.rules :
                k < l /\ input.rules[k] = Ended(status)[i] /\ input.rules[l] = Ended(status)[j]
      /\ DOMAIN completed = 1..Len(completed)
  BY <1>1, EndedInOrder
<1> HIDE DEF completed, broken
<1>4. named = completed
  <2>1. DOMAIN named = DOMAIN completed /\ \A i \in DOMAIN completed : named[i] = completed[i]
    BY <1>2
  <2>2. completed = [i \in DOMAIN completed |-> completed[i]]
    BY DEF completed, Ended, Picked
  <2> QED
    BY <2>1, <2>2
<1>5. ASSUME NEW list \in {answer'.failures, named},
             NEW i \in DOMAIN list, NEW j \in DOMAIN list, i < j
      PROVE  \E k, l \in DOMAIN input'.rules :
                k < l /\ input'.rules[k] = list[i] /\ input'.rules[l] = list[j]
  <2>1. CASE list = completed
    BY <1>2, <1>3, <1>5, <2>1 DEF completed
  <2>2. CASE list = broken
    BY <1>2, <1>3, <1>5, <2>2 DEF broken
  <2> HIDE DEF named
  <2> QED
    BY <1>2, <1>4, <2>1, <2>2
<1>6. ASSUME NEW r \in Rules
      PROVE  \/ \E i \in DOMAIN answer'.failures : answer'.failures[i] = r
             \/ \A s \in ToSet(Subjects(r)) :
                   \/ CandidatesOf(r, input.manifest, s) \subseteq Reported(r)'
                   \/ \E g \in answer'.gaps : g.rule = r /\ g.subject = s.name
  <2>1. r \in RuleNames /\ proc[r].state = "collected"
    BY <1>1, <1>2 DEF Rules, RulesTypes
  <2>2. PICK k \in DOMAIN input.rules : input.rules[k] = r
    BY <2>1 DEF RuleNames
  <2>3. \/ result[r].status = "failed"
        \/ /\ result[r].status = "completed"
           /\ \A s \in ToSet(Subjects(r)) : Covered(r, result[r].found, result[r].notes, s)
    BY <2>1 DEF RulesInv, SubjectsCovered
  <2>4. CASE result[r].status = "failed"
    <3>1. k \in Places("failed")
      BY <2>2, <2>4 DEF Places
    <3> QED
      BY <1>2, <1>3, <2>2, <3>1 DEF broken
  <2>5. CASE /\ result[r].status = "completed"
             /\ \A s \in ToSet(Subjects(r)) : Covered(r, result[r].found, result[r].notes, s)
    <3>1. k \in Places("completed")
      BY <2>2, <2>5 DEF Places
    <3>2. PICK i \in DOMAIN completed : completed[i] = r
      BY <1>3, <2>2, <3>1 DEF completed
    <3>3. result[r].found \subseteq Reported(r)'
      <4> DEFINE e == <<r, result[r].found>>
      <4>1. e \in ToSet(answer'.candidates) /\ e[1] = r /\ e[2] = result[r].found
        BY <1>2, <3>2 DEF ToSet
      <4> HIDE DEF e
      <4> QED
        BY <4>1 DEF Reported
    <3>4. Partial(r) \subseteq answer'.gaps
      BY <1>2, <3>2
    <3>5. ASSUME NEW s \in ToSet(Subjects(r)),
                 ~(CandidatesOf(r, input.manifest, s) \subseteq Reported(r)')
          PROVE  \E g \in answer'.gaps : g.rule = r /\ g.subject = s.name
      <4>1. PICK n \in result[r].notes : n.subject = s.name /\ n.status # "completed"
        BY <2>5, <3>3, <3>5 DEF Covered
      <4> DEFINE g == [rule |-> r, subject |-> n.subject, status |-> n.status,
                       gaps |-> Critical(n.gaps)]
      <4>2. g \in Partial(r) /\ g.rule = r /\ g.subject = s.name
        BY <4>1 DEF Partial
      <4> HIDE DEF g
      <4> QED
        BY <3>4, <4>2
    <3> QED
      BY <3>5
  <2> QED
    BY <2>3, <2>4, <2>5
<1>7. AnswerIsWhole'
  <2>1. \A r : Subjects(r)' = Subjects(r)
    BY <1>2, SubjectsStay
  <2>2. Rules' = Rules /\ input' = input
    BY <1>2 DEF Rules
  <2> QED
    BY <1>5, <1>6, <2>1, <2>2 DEF AnswerIsWhole
<1>8. RulesTypes' /\ SubjectsCovered' /\ WorkersBounded'
  BY <1>2, UnchangedRules
<1> QED
  BY <1>7, <1>8 DEF RulesInv
-----------------------------------------------------------------------------
LEMMA RulesInitEstablish == RulesInit => RulesInv
<1> SUFFICES ASSUME RulesInit PROVE RulesInv
  OBVIOUS
<1>1. /\ input.rules \in Seq(ToSet(input.rules))
      /\ input.subjects \in Seq(ToSet(input.subjects))
  BY RuleRunAssumption DEF RulesInit, RuleRunAssumption
<1>2. ToSet(input.rules) = RuleNames
  BY DEF ToSet, RuleNames
<1>3. proc = [r \in RuleNames |-> Idle] /\ result = [r \in RuleNames |-> NoResult]
  BY DEF RulesInit, RuleNames
<1>4. IsProcess(Idle) /\ Idle.state = "queued"
  BY DEF Idle, IsProcess, States
<1>5. RulesTypes
  BY <1>1, <1>2, <1>3, <1>4 DEF RulesInit, RulesTypes
<1>6. SubjectsCovered
  BY <1>3, <1>4 DEF SubjectsCovered
<1>7. WorkersBounded
  <2>1. Occupied = {}
    BY <1>3, <1>4 DEF Occupied
  <2> QED
    BY <2>1, FS_EmptySet, RuleRunAssumption DEF WorkersBounded, RuleRunAssumption
<1>8. AnswerIsWhole
  BY DEF RulesInit, AnswerIsWhole
<1> QED
  BY <1>5, <1>6, <1>7, <1>8 DEF RulesInv

LEMMA RulesStep == RulesInv /\ [RulesNext]_rule_vars => RulesInv'
<1> SUFFICES ASSUME RulesInv, [RulesNext]_rule_vars PROVE RulesInv'
  OBVIOUS
<1>1. ASSUME NEW r \in Rules, RuleStep(r) PROVE RulesInv'
  BY <1>1, StartStep, LoadStep, AnalyseStep, ComponentFailsStep, ExitStep, TickStep, EndStep,
     TakeResultStep, WorkerDiesStep DEF RuleStep
<1>2. CASE Aggregate
  BY <1>2, AggregateStep
<1>3. CASE UNCHANGED rule_vars
  <2>1. UNCHANGED <<input, stage, proc, result, answer>>
    BY <1>3 DEF rule_vars
  <2>2. AnswerIsWhole'
    BY <2>1, AnswerStays DEF RulesInv
  <2>3. RulesTypes' /\ SubjectsCovered' /\ WorkersBounded'
    BY <2>1, UnchangedRules DEF RulesInv, RulesTypes
  <2> QED
    BY <2>2, <2>3 DEF RulesInv
<1> QED
  BY <1>1, <1>2, <1>3 DEF RulesNext

\* RulesInv holds in every state of every run of the rules.
THEOREM RulesInvariance == RulesSpec => []RulesInv
<1> QED
  BY RulesInitEstablish, RulesStep, PTL DEF RulesSpec

\* Whatever order the rules end in and whatever ends them, run_all's answer lists
\* them in the order of the rules, and a rule that did not fail has the candidates
\* of all its subjects, but for those that a gap names.
THEOREM AnswersAreWhole == RulesSpec => []AnswerIsWhole
<1>1. RulesInv => AnswerIsWhole
  BY DEF RulesInv
<1> QED
  BY <1>1, RulesInvariance, PTL

\* The pool never runs more processes than max_concurrency, one for each rule.
THEOREM ProcessesBounded == RulesSpec => []WorkersBounded
<1>1. RulesInv => WorkersBounded
  BY DEF RulesInv
<1> QED
  BY <1>1, RulesInvariance, PTL

-----------------------------------------------------------------------------
(***************************************************************************)
(* Who may reach a component, for any manifest and any catalogue: the       *)
(* verdicts of the matrix held against what Android checks.                 *)
(***************************************************************************)

\* No name stands for no permission.
Proper(m) == None \notin DOMAIN m.declared \cup DOMAIN Catalog \cup PlatformNames

LEMMA FirstOfTwo ==
    ASSUME NEW a, NEW b
    PROVE  FirstOf(<<a, b>>) = IF a # None THEN a ELSE b
<1> DEFINE s == <<a, b>>
           given == {i \in DOMAIN s : s[i] # None}
           least == CHOOSE i \in given : \A j \in given : i <= j
<1>1. DOMAIN s = 1..2 /\ s[1] = a /\ s[2] = b
  OBVIOUS
<1>2. FirstOf(s) = IF given = {} THEN None ELSE s[least]
  BY DEF FirstOf
<1>3. given \subseteq 1..2 /\ (1 \in given <=> a # None) /\ (2 \in given <=> b # None)
  BY <1>1
<1> HIDE DEF s, given
<1>4. CASE a # None
  <2>1. \E i \in given : \A j \in given : i <= j
    BY <1>3, <1>4
  <2>2. least \in given /\ \A j \in given : least <= j
    BY <2>1
  <2> HIDE DEF least
  <2>3. least = 1
    <3>1. least \in 1..2 /\ least <= 1
      BY <1>3, <1>4, <2>2
    <3> QED
      BY <3>1
  <2> QED
    BY <1>1, <1>2, <1>3, <1>4, <2>3 DEF s
<1>5. CASE a = None /\ b # None
  <2>1. given = {2}
    <3>1. \A i \in given : i = 2
      BY <1>3, <1>5
    <3>2. 2 \in given
      BY <1>3, <1>5
    <3> QED
      BY <3>1, <3>2
  <2>2. least = 2
    BY <2>1
  <2> HIDE DEF least
  <2> QED
    BY <1>1, <1>2, <1>5, <2>1, <2>2 DEF s
<1>6. CASE a = None /\ b = None
  <2>1. given = {}
    BY <1>3, <1>6
  <2> QED
    BY <1>2, <1>6, <2>1 DEF s
<1> QED
  BY <1>4, <1>5, <1>6

\* The first is no name.
LEMMA FirstOfNoneAndTwo ==
    ASSUME NEW b, NEW d, NEW a
    PROVE  FirstOf(<<a, b, d>>) = IF a # None THEN a ELSE IF b # None THEN b ELSE d
<1> DEFINE s == <<a, b, d>>
           given == {i \in DOMAIN s : s[i] # None}
           least == CHOOSE i \in given : \A j \in given : i <= j
<1>1. DOMAIN s = 1..3 /\ s[1] = a /\ s[2] = b /\ s[3] = d
  OBVIOUS
<1>2. FirstOf(s) = IF given = {} THEN None ELSE s[least]
  BY DEF FirstOf
<1>3. /\ given \subseteq 1..3
      /\ (1 \in given <=> a # None) /\ (2 \in given <=> b # None) /\ (3 \in given <=> d # None)
  BY <1>1
<1> HIDE DEF s, given
<1>4. ASSUME NEW k \in given, \A j \in given : k <= j
      PROVE  FirstOf(s) = s[k]
  <2>1. least \in given /\ \A j \in given : least <= j
    BY <1>4
  <2> HIDE DEF least
  <2>2. least = k
    <3>1. least \in 1..3 /\ k \in 1..3 /\ k <= least /\ least <= k
      BY <1>3, <1>4, <2>1
    <3> QED
      BY <3>1
  <2> QED
    BY <1>2, <1>4, <2>2
<1>5. CASE a # None
  BY <1>1, <1>3, <1>4, <1>5 DEF s
<1>6. CASE a = None /\ b # None
  BY <1>1, <1>3, <1>4, <1>6 DEF s
<1>7. CASE a = None /\ b = None /\ d # None
  BY <1>1, <1>3, <1>4, <1>7 DEF s
<1>8. CASE a = None /\ b = None /\ d = None
  <2>1. given = {}
    BY <1>3, <1>8
  <2> QED
    BY <1>2, <1>8, <2>1 DEF s
<1> QED
  BY <1>5, <1>6, <1>7, <1>8

LEMMA LevelStatuses ==
    ASSUME NEW level
    PROVE  LevelStatus(level) \in {"unknown", "strongly_protected", "conditional"}
BY DEF LevelStatus, TokenStatus

LEMMA PolicyByName ==
    ASSUME NEW m, Proper(m), NEW p, NEW hint
    PROVE  PermissionPolicy(m, <<p, hint>>) =
             IF p = None THEN "unprotected"
             ELSE IF p \in DOMAIN m.declared THEN LevelStatus(m.declared[p])
             ELSE IF p \in DOMAIN Catalog THEN LevelStatus(Catalog[p])
             ELSE IF p \in PlatformNames THEN "unknown"
             ELSE IF hint \in DOMAIN m.declared THEN LevelStatus(m.declared[hint])
             ELSE "unknown"
BY DEF PermissionPolicy, Proper

LEMMA HasByName ==
    ASSUME NEW m, Proper(m), NEW levels, NEW p
    PROVE  Has(m, levels, p) =
             IF p = None THEN TRUE
             ELSE IF p \in DOMAIN m.declared THEN LevelStatus(m.declared[p]) \in levels
             ELSE IF p \in DOMAIN Catalog THEN LevelStatus(Catalog[p]) \in levels
             ELSE levels # Nothing /\ (p \notin PlatformNames \/ "unknown" \in levels)
BY DEF Has, Proper

\* The status of a permission, held against who can hold it.
LEMMA PolicyAndHas ==
    ASSUME NEW m, Proper(m), NEW p, NEW hint
    PROVE  /\ PermissionPolicy(m, <<p, hint>>) \in
                {"unprotected", "conditional", "unknown", "strongly_protected"}
           /\ PermissionPolicy(m, <<p, hint>>) = "unprotected" <=> p = None
           /\ PermissionPolicy(m, <<p, hint>>) # "strongly_protected" => Has(m, MayObtain, p)
           /\ hint = p \/ hint = None \/ p \in DOMAIN m.declared =>
                (Has(m, Obtainable, p) => PermissionPolicy(m, <<p, hint>>) # "strongly_protected")
           /\ Has(m, Nothing, p) <=> p = None
<1> DEFINE L(x) == LevelStatus(x)
<1>1. \A x : L(x) \in {"unknown", "strongly_protected", "conditional"}
  BY LevelStatuses
<1>2. PermissionPolicy(m, <<p, hint>>) =
             IF p = None THEN "unprotected"
             ELSE IF p \in DOMAIN m.declared THEN L(m.declared[p])
             ELSE IF p \in DOMAIN Catalog THEN L(Catalog[p])
             ELSE IF p \in PlatformNames THEN "unknown"
             ELSE IF hint \in DOMAIN m.declared THEN L(m.declared[hint])
             ELSE "unknown"
  BY PolicyByName
<1>3. \A levels : Has(m, levels, p) =
             IF p = None THEN TRUE
             ELSE IF p \in DOMAIN m.declared THEN L(m.declared[p]) \in levels
             ELSE IF p \in DOMAIN Catalog THEN L(Catalog[p]) \in levels
             ELSE levels # Nothing /\ (p \notin PlatformNames \/ "unknown" \in levels)
  BY HasByName
<1> HIDE DEF L
<1> QED
  BY <1>1, <1>2, <1>3 DEF MayObtain, Obtainable, Nothing, Proper

LEMMA WeakestOf ==
    ASSUME NEW S, S \subseteq {Ranked[i] : i \in 1..5}, S # {}
    PROVE  /\ Weakest(S) # "strongly_protected" <=> \E x \in S : x # "strongly_protected"
           /\ Weakest(S) = "unprotected" <=> "unprotected" \in S
<1> DEFINE P(i) == Ranked[i] \in S /\ \A j \in 1..(i - 1) : Ranked[j] \notin S
           k == CHOOSE i \in DOMAIN Ranked : P(i)
<1>1. /\ DOMAIN Ranked = 1..5 /\ Ranked[1] = "unprotected" /\ Ranked[2] = "conditional"
      /\ Ranked[3] = "unknown" /\ Ranked[4] = "protected" /\ Ranked[5] = "strongly_protected"
  BY DEF Ranked
<1>2. Weakest(S) = Ranked[k]
  BY DEF Weakest
<1>3. k \in 1..5 /\ P(k)
  <2> DEFINE T == {i \in 1..5 : Ranked[i] \in S}
  <2>1. T \subseteq Nat /\ T # {}
    OBVIOUS
  <2> HIDE DEF T
  <2>2. PICK i \in T : \A j \in T : i <= j
    BY <2>1, LeastNumber
  <2>3. i \in DOMAIN Ranked /\ P(i)
    BY <1>1, <2>2 DEF T
  <2> HIDE DEF P
  <2> QED
    BY <1>1, <2>3
<1> HIDE DEF k
<1>4. \A x \in S : \E i \in 1..5 : x = Ranked[i]
  OBVIOUS
<1>5. ASSUME Ranked[k] = "strongly_protected", NEW x \in S PROVE x = "strongly_protected"
  <2>1. k = 5
    BY <1>1, <1>3, <1>5
  <2>2. PICK i \in 1..5 : x = Ranked[i]
    BY <1>4
  <2>3. i = 5
    BY <1>3, <2>1, <2>2
  <2> QED
    BY <1>1, <2>2, <2>3
<1>6. ASSUME "unprotected" \in S PROVE k = 1
  BY <1>1, <1>3, <1>6
<1> QED
  BY <1>1, <1>2, <1>3, <1>5, <1>6

LEMMA SomeDirection ==
    ASSUME NEW operation, NEW mode
    PROVE  Directions(operation, mode) # {}
BY DEF Directions

\* The row of an exported component.
LEMMA RowOfExported ==
    ASSUME NEW m, NEW c, c.effective = "true", NEW d, NEW region
    PROVE  /\ Row(m, c, d, region).status =
                IF UriGrant(c, region) THEN "conditional"
                ELSE PermissionPolicy(m, EffectivePermission(m, c, d, region))
           /\ Row(m, c, d, region).grant = UriGrant(c, region)
<1> DEFINE status == PermissionPolicy(m, EffectivePermission(m, c, d, region))
           grant == UriGrant(c, region)
<1>1. Row(m, c, d, region) = RowOf(c, status, grant)
  BY DEF Row
<1>2. grant \in BOOLEAN
  BY DEF UriGrant
<1> HIDE DEF status, grant
<1>3. /\ RowOf(c, status, grant).status = IF grant THEN "conditional" ELSE status
      /\ RowOf(c, status, grant).grant = grant
  <2>1. Reachability(c) = "reachable"
    BY DEF Reachability
  <2> QED
    BY <1>2, <2>1 DEF RowOf
<1> QED
  BY <1>1, <1>3 DEF status, grant

\* What the rows say of the verdict.
LEMMA VerdictOfRows ==
    ASSUME NEW m, NEW c, NEW operation, NEW mode,
           \A d \in Directions(operation, mode) : \A region \in Regions(c) :
                Row(m, c, d, region).status \in {Ranked[i] : i \in 1..5}
    PROVE  LET verdict == Evaluate(m, c, operation, mode)
           IN  /\ verdict.status # "strongly_protected" <=>
                    \E d \in Directions(operation, mode) : \E region \in Regions(c) :
                        Row(m, c, d, region).status # "strongly_protected"
               /\ verdict.status = "unprotected" <=>
                    \E d \in Directions(operation, mode) : \E region \in Regions(c) :
                        Row(m, c, d, region).status = "unprotected"
               /\ verdict.grant <=>
                    \E d \in Directions(operation, mode) : \E region \in Regions(c) :
                        Row(m, c, d, region).grant
<1> DEFINE rows == Matrix(m, c, operation, mode)
           statuses == {row.status : row \in rows}
           verdict == Evaluate(m, c, operation, mode)
           R(d, region) == Row(m, c, d, region)
<1>1. rows = {R(d, region) : d \in Directions(operation, mode), region \in Regions(c)}
  BY DEF Matrix
<1>2. /\ verdict.status = Weakest(statuses)
      /\ verdict.grant = \E row \in rows : row.grant
  BY DEF Evaluate, Verdict
<1>3. PICK d1 \in Directions(operation, mode) : TRUE
  BY SomeDirection
<1>4. {} \in Regions(c)
  BY DEF Regions
<1>5. \A d \in Directions(operation, mode) : \A region \in Regions(c) :
         R(d, region).status \in {Ranked[i] : i \in 1..5}
  OBVIOUS
<1> HIDE DEF R, rows, verdict
<1>6. \A row \in rows : \E d \in Directions(operation, mode) : \E region \in Regions(c) :
         row = R(d, region)
  BY <1>1
<1>7. \A d \in Directions(operation, mode) : \A region \in Regions(c) : R(d, region) \in rows
  BY <1>1
<1>8. statuses \subseteq {Ranked[i] : i \in 1..5}
  BY <1>5, <1>6
<1>9. statuses # {}
  BY <1>3, <1>4, <1>7
<1>10. /\ verdict.status # "strongly_protected" <=> \E x \in statuses : x # "strongly_protected"
       /\ verdict.status = "unprotected" <=> "unprotected" \in statuses
  BY <1>2, <1>8, <1>9, WeakestOf
<1>11. \A x : x \in statuses <=> \E d \in Directions(operation, mode) : \E region \in Regions(c) :
                                     x = R(d, region).status
  BY <1>6, <1>7
<1> HIDE DEF statuses
<1>12. /\ verdict.status # "strongly_protected" <=>
            \E d \in Directions(operation, mode) : \E region \in Regions(c) :
                R(d, region).status # "strongly_protected"
       /\ verdict.status = "unprotected" <=>
            \E d \in Directions(operation, mode) : \E region \in Regions(c) :
                R(d, region).status = "unprotected"
  BY <1>10, <1>11
<1>13. verdict.grant <=> \E d \in Directions(operation, mode) : \E region \in Regions(c) :
                             R(d, region).grant
  BY <1>2, <1>6, <1>7
<1> QED
  BY <1>12, <1>13, Zenon DEF R, verdict

\* A permission as a pair.
LEMMA PermissionPair ==
    ASSUME NEW m, NEW c, NEW d, NEW region
    PROVE  \E p, hint : EffectivePermission(m, c, d, region) = <<p, hint>>
<1> DEFINE own == {p \in region : OwnPermission(p, d) # None}
<1>1. CASE own # {}
  <2> DEFINE p == CHOOSE p \in own : TRUE
  <2>1. EffectivePermission(m, c, d, region) = <<OwnPermission(p, d), PolicyHint(c, p, d)>>
    BY <1>1 DEF EffectivePermission
  <2> QED
    BY <2>1
<1>2. CASE own = {}
  <2> DEFINE alias == IF c.aliasOf = None THEN None ELSE AliasPermission(m, c)
             q == FirstOf(<<alias, ComponentPermission(c, d), m.appPermission>>)
  <2>1. EffectivePermission(m, c, d, region) = <<q, q>>
    BY <1>2 DEF EffectivePermission
  <2> QED
    BY <2>1
<1> QED
  BY <1>1, <1>2

LEMMA StatusesRanked ==
    ASSUME NEW m, Proper(m), NEW c, c.effective = "true", NEW d, NEW region
    PROVE  Row(m, c, d, region).status \in {Ranked[i] : i \in 1..5}
<1>1. PICK p, hint : EffectivePermission(m, c, d, region) = <<p, hint>>
  BY PermissionPair
<1>2. PermissionPolicy(m, <<p, hint>>) \in {"unprotected", "conditional", "unknown", "strongly_protected"}
  BY PolicyAndHas
<1>3. Row(m, c, d, region).status \in {"unprotected", "conditional", "unknown", "strongly_protected"}
  BY <1>1, <1>2, RowOfExported
<1>4. {Ranked[1], Ranked[2], Ranked[3], Ranked[5]} =
         {"unprotected", "conditional", "unknown", "strongly_protected"}
  BY DEF Ranked
<1> QED
  BY <1>3, <1>4

\* The verdict on an exported component, by what the rows hold.
LEMMA VerdictOfExported ==
    ASSUME NEW m, Proper(m), NEW c, c.effective = "true", NEW operation, NEW mode
    PROVE  LET verdict == Evaluate(m, c, operation, mode)
               policy(d, region) == PermissionPolicy(m, EffectivePermission(m, c, d, region))
           IN  /\ verdict.status # "strongly_protected" <=>
                    \E d \in Directions(operation, mode) : \E region \in Regions(c) :
                        UriGrant(c, region) \/ policy(d, region) # "strongly_protected"
               /\ verdict.status = "unprotected" <=>
                    \E d \in Directions(operation, mode) : \E region \in Regions(c) :
                        ~UriGrant(c, region) /\ policy(d, region) = "unprotected"
               /\ verdict.grant <=> \E region \in Regions(c) : UriGrant(c, region)
<1> DEFINE verdict == Evaluate(m, c, operation, mode)
           policy(d, region) == PermissionPolicy(m, EffectivePermission(m, c, d, region))
           R(d, region) == Row(m, c, d, region)
           G(region) == UriGrant(c, region)
           Ds == Directions(operation, mode)
<1>1. /\ verdict.status # "strongly_protected" <=>
            \E d \in Ds : \E region \in Regions(c) : R(d, region).status # "strongly_protected"
      /\ verdict.status = "unprotected" <=>
            \E d \in Ds : \E region \in Regions(c) : R(d, region).status = "unprotected"
      /\ verdict.grant <=> \E d \in Ds : \E region \in Regions(c) : R(d, region).grant
  BY StatusesRanked, VerdictOfRows, Zenon
<1>2. \A d, region : /\ R(d, region).status = IF G(region) THEN "conditional" ELSE policy(d, region)
                     /\ R(d, region).grant = G(region)
  BY RowOfExported, Zenon
<1>3. Ds # {}
  BY SomeDirection
<1> HIDE DEF verdict, policy, R, G, Ds
<1>4. /\ verdict.status # "strongly_protected" <=>
            \E d \in Ds : \E region \in Regions(c) :
                G(region) \/ policy(d, region) # "strongly_protected"
      /\ verdict.status = "unprotected" <=>
            \E d \in Ds : \E region \in Regions(c) : ~G(region) /\ policy(d, region) = "unprotected"
      /\ verdict.grant <=> \E region \in Regions(c) : G(region)
  BY <1>1, <1>2, <1>3
<1> QED
  BY <1>4, Zenon DEF verdict, policy, G, Ds

\* The permission that guards the entry of a component, by Android's rule.
Required(m, r) == IF r.aliasOf # None THEN r.permission ELSE Inherited(m, r)

LEMMA AttributesKept ==
    ASSUME NEW m, NEW s, ComponentIsParsed(m, s)
    PROVE  /\ s.effective = EffectiveExported(m, s.raw) /\ s.declares = s.raw.permission
           /\ s.permission = ParsedPermission(m, s.raw)
           /\ s.kind = s.raw.kind /\ s.exported = s.raw.exported /\ s.filtered = s.raw.filtered
           /\ s.aliasOf = s.raw.aliasOf /\ s.read = s.raw.read /\ s.write = s.raw.write
           /\ s.paths = s.raw.paths
BY DEF ComponentIsParsed

LEMMA ExportedIsReachable ==
    ASSUME NEW m, NEW s, ComponentIsParsed(m, s), s.effective = "true"
    PROVE  ExportedByAndroid(m, s.raw)
<1> DEFINE r == s.raw
<1>1. EffectiveExported(m, r) = "true"
  BY AttributesKept
<1> HIDE DEF r
<1>2. CASE r.exported # "absent"
  <2>1. EffectiveExported(m, r) = r.exported
    BY <1>2 DEF EffectiveExported
  <2>2. ExportedByAndroid(m, r) = (r.exported # "false")
    BY <1>2, Zenon DEF ExportedByAndroid
  <2> QED
    BY <1>1, <2>1, <2>2 DEF r
<1>3. CASE r.exported = "absent" /\ r.kind = "provider"
  <2>1. m.targetSdk < 17
    <3>1. EffectiveExported(m, r) =
             IF m.targetSdk = 0 THEN "unknown" ELSE IF m.targetSdk < 17 THEN "true" ELSE "false"
      BY <1>3 DEF EffectiveExported
    <3> QED
      BY <1>1, <3>1
  <2>2. ExportedByAndroid(m, r) = (m.targetSdk < 17)
    BY <1>3, Zenon DEF ExportedByAndroid
  <2> QED
    BY <2>1, <2>2, Zenon DEF r
<1>4. CASE r.exported = "absent" /\ r.kind # "provider"
  <2>1. r.filtered
    <3>1. EffectiveExported(m, r) =
             IF ~r.filtered THEN "false" ELSE IF m.targetSdk >= 31 THEN "conditional" ELSE "true"
      BY <1>4 DEF EffectiveExported
    <3> QED
      BY <1>1, <3>1
  <2>2. ExportedByAndroid(m, r) = r.filtered
    BY <1>4, Zenon DEF ExportedByAndroid
  <2> QED
    BY <2>1, <2>2, Zenon DEF r
<1> QED
  BY <1>2, <1>3, <1>4 DEF r

\* The permission of the matrix at the entry is the one that Android asks for; an
\* alias without one may be given that of its target.
LEMMA EntryPermission ==
    ASSUME NEW m, NEW s, ComponentIsParsed(m, s)
    PROVE  \E q : /\ EffectivePermission(m, s, "entry", {}) = <<q, q>>
                  /\ Required(m, s.raw) # None => q = Required(m, s.raw)
                  /\ s.aliasOf = None /\ Required(m, s.raw) = None => q = None
<1> DEFINE r == s.raw
           alias == IF s.aliasOf = None THEN None ELSE AliasPermission(m, s)
           q == FirstOf(<<alias, s.permission, m.appPermission>>)
<1>1. EffectivePermission(m, s, "entry", {}) = <<q, q>>
  BY DEF EffectivePermission, ComponentPermission
<1>2. q = IF alias # None THEN alias ELSE IF s.permission # None THEN s.permission ELSE m.appPermission
  BY FirstOfNoneAndTwo
<1>3. Inherited(m, r) = IF r.permission # None THEN r.permission ELSE m.appPermission
  BY FirstOfTwo DEF Inherited
<1>4. s.aliasOf = r.aliasOf /\ s.declares = r.permission /\ s.permission = ParsedPermission(m, r)
  BY AttributesKept
<1> HIDE DEF q, r
<1>5. CASE s.aliasOf = None
  <2>1. s.permission = Inherited(m, r)
    BY <1>4, <1>5 DEF ParsedPermission
  <2> QED
    BY <1>1, <1>2, <1>3, <1>4, <1>5, <2>1 DEF Required, r
<1>6. CASE s.aliasOf # None
  <2>1. Required(m, r) = r.permission
    BY <1>4, <1>6 DEF Required
  <2>2. r.permission # None => alias = r.permission
    BY <1>4, <1>6 DEF AliasPermission
  <2> HIDE DEF alias
  <2> QED
    BY <1>1, <1>2, <1>6, <2>1, <2>2 DEF r
<1> QED
  BY <1>5, <1>6

\* A component without paths and grants: one row, by the permission at the entry.
LEMMA EntryVerdict ==
    ASSUME NEW m, Proper(m), NEW s, ComponentIsParsed(m, s), s.effective = "true",
           s.kind \in {"activity", "service", "receiver"}
    PROVE  LET verdict == Evaluate(m, s, "component_entry", "any")
           IN  /\ ~verdict.grant
               /\ verdict.status = "unprotected" => Has(m, Nothing, Required(m, s.raw))
               /\ verdict.status # "strongly_protected" => Has(m, MayObtain, Required(m, s.raw))
               /\ s.aliasOf = None /\ Has(m, Nothing, Required(m, s.raw)) =>
                    verdict.status = "unprotected"
               /\ s.aliasOf = None /\ Has(m, Obtainable, Required(m, s.raw)) =>
                    verdict.status # "strongly_protected"
<1> DEFINE verdict == Evaluate(m, s, "component_entry", "any")
           policy(d, region) == PermissionPolicy(m, EffectivePermission(m, s, d, region))
           required == Required(m, s.raw)
<1>1. Directions("component_entry", "any") = {"entry"}
  BY DEF Directions
<1>2. s.paths = {} /\ s.grant = "false" /\ s.patterns = {}
  BY DEF ComponentIsParsed
<1>3. Regions(s) = {{}}
  BY <1>2 DEF Regions
<1>4. ~UriGrant(s, {})
  BY <1>2 DEF UriGrant
<1>5. /\ verdict.status # "strongly_protected" <=> policy("entry", {}) # "strongly_protected"
      /\ verdict.status = "unprotected" <=> policy("entry", {}) = "unprotected"
      /\ ~verdict.grant
  <2>1. /\ verdict.status # "strongly_protected" <=>
               \E d \in {"entry"} : \E region \in {{}} :
                   UriGrant(s, region) \/ policy(d, region) # "strongly_protected"
        /\ verdict.status = "unprotected" <=>
               \E d \in {"entry"} : \E region \in {{}} :
                   ~UriGrant(s, region) /\ policy(d, region) = "unprotected"
        /\ verdict.grant <=> \E region \in {{}} : UriGrant(s, region)
    <3>1. Directions("component_entry", "any") = {"entry"} /\ Regions(s) = {{}}
      BY <1>1, <1>3
    <3>2. /\ verdict.status # "strongly_protected" <=>
                \E d \in Directions("component_entry", "any") : \E region \in Regions(s) :
                    UriGrant(s, region) \/ policy(d, region) # "strongly_protected"
          /\ verdict.status = "unprotected" <=>
                \E d \in Directions("component_entry", "any") : \E region \in Regions(s) :
                    ~UriGrant(s, region) /\ policy(d, region) = "unprotected"
          /\ verdict.grant <=> \E region \in Regions(s) : UriGrant(s, region)
      BY VerdictOfExported, Zenon
    <3> HIDE DEF verdict, policy
    <3> QED
      BY <3>1, <3>2
  <2> HIDE DEF verdict, policy
  <2> QED
    BY <1>4, <2>1
<1>6. PICK q : /\ EffectivePermission(m, s, "entry", {}) = <<q, q>>
               /\ required # None => q = required
               /\ s.aliasOf = None /\ required = None => q = None
  BY EntryPermission, Zenon
<1>7. policy("entry", {}) = PermissionPolicy(m, <<q, q>>)
  BY <1>6, Zenon
<1>8. /\ PermissionPolicy(m, <<q, q>>) = "unprotected" <=> q = None
      /\ PermissionPolicy(m, <<q, q>>) # "strongly_protected" => Has(m, MayObtain, q)
      /\ Has(m, Obtainable, q) => PermissionPolicy(m, <<q, q>>) # "strongly_protected"
  BY PolicyAndHas, Zenon
<1>9. Has(m, Nothing, required) <=> required = None
  BY PolicyAndHas, Zenon
<1>10. required = None => Has(m, MayObtain, required)
  BY HasByName
<1> HIDE DEF verdict, policy, required
<1>11. /\ ~verdict.grant
       /\ verdict.status = "unprotected" => Has(m, Nothing, required)
       /\ verdict.status # "strongly_protected" => Has(m, MayObtain, required)
       /\ s.aliasOf = None /\ Has(m, Nothing, required) => verdict.status = "unprotected"
       /\ s.aliasOf = None /\ Has(m, Obtainable, required) => verdict.status # "strongly_protected"
  <2>1. CASE required # None
    BY <1>5, <1>6, <1>7, <1>8, <1>9, <2>1
  <2>2. CASE required = None
    BY <1>5, <1>6, <1>7, <1>8, <1>9, <1>10, <2>2
  <2> QED
    BY <2>1, <2>2
<1> QED
  BY <1>11, Zenon DEF verdict, required

LEMMA EntersByPermission ==
    ASSUME NEW s, NEW levels
    PROVE  Enters(s, "component_entry", "any", levels) <=>
             /\ ExportedByAndroid(input.manifest, s.raw)
             /\ Has(input.manifest, levels, Required(input.manifest, s.raw))
<1> DEFINE m == input.manifest
           r == s.raw
<1>1. Admits(m, r, "component_entry", "any", levels) = Has(m, levels, Required(m, r))
  BY DEF Admits, Required
<1> HIDE DEF m, r
<1> QED
  BY <1>1 DEF Enters, m, r

\* The permission of a provider for reading or writing.
Direct(m, r, d) == FirstOf(<<IF d = "read" THEN r.read ELSE r.write, Inherited(m, r)>>)

LEMMA ProviderPermission ==
    ASSUME NEW m, NEW s, ComponentIsParsed(m, s), s.kind = "provider", NEW d \in {"read", "write"}
    PROVE  /\ EffectivePermission(m, s, d, {}) = <<Direct(m, s.raw, d), Direct(m, s.raw, d)>>
           /\ \A p : EffectivePermission(m, s, d, {p}) =
                        IF OwnPermission(p, d) = None
                        THEN <<Direct(m, s.raw, d), Direct(m, s.raw, d)>>
                        ELSE <<OwnPermission(p, d), PolicyHint(s, p, d)>>
<1> DEFINE r == s.raw
           q == FirstOf(<<None, ComponentPermission(s, d), m.appPermission>>)
           q0 == Direct(m, r, d)
           mine == IF d = "read" THEN r.read ELSE r.write
<1>1. s.aliasOf = None
  BY DEF ComponentIsParsed
<1>2. ComponentPermission(s, d) = FirstOf(<<mine, s.permission>>)
  <2>1. s.read = r.read /\ s.write = r.write
    BY AttributesKept
  <2> HIDE DEF r
  <2>2. CASE d = "read"
    BY <2>1, <2>2 DEF ComponentPermission
  <2>3. CASE d = "write"
    BY <2>1, <2>3 DEF ComponentPermission
  <2> QED
    BY <2>2, <2>3
<1>3. s.permission = Inherited(m, r)
  <2>1. s.permission = ParsedPermission(m, r) /\ r.aliasOf = None
    BY <1>1, AttributesKept
  <2> HIDE DEF r
  <2> QED
    BY <2>1 DEF ParsedPermission
<1>4. Inherited(m, r) = IF r.permission # None THEN r.permission ELSE m.appPermission
  BY FirstOfTwo DEF Inherited
<1>5. q = q0
  <2>1. q = IF ComponentPermission(s, d) # None THEN ComponentPermission(s, d) ELSE m.appPermission
    BY FirstOfNoneAndTwo
  <2>2. ComponentPermission(s, d) = IF mine # None THEN mine ELSE Inherited(m, r)
    BY <1>2, <1>3, FirstOfTwo
  <2>3. q0 = IF mine # None THEN mine ELSE Inherited(m, r)
    BY FirstOfTwo DEF Direct
  <2> HIDE DEF q, q0, mine, r
  <2> QED
    BY <1>4, <2>1, <2>2, <2>3
<1>6. ASSUME NEW region, {p \in region : OwnPermission(p, d) # None} = {}
      PROVE  EffectivePermission(m, s, d, region) = <<q0, q0>>
  <2>1. EffectivePermission(m, s, d, region) = <<q, q>>
    BY <1>1, <1>6 DEF EffectivePermission
  <2> HIDE DEF q, q0
  <2> QED
    BY <1>5, <2>1
<1>7. ASSUME NEW p, OwnPermission(p, d) # None
      PROVE  EffectivePermission(m, s, d, {p}) = <<OwnPermission(p, d), PolicyHint(s, p, d)>>
  <2> DEFINE own == {x \in {p} : OwnPermission(x, d) # None}
  <2>1. own = {p}
    BY <1>7
  <2>2. (CHOOSE x \in own : TRUE) = p
    BY <2>1
  <2>3. EffectivePermission(m, s, d, {p}) =
           <<OwnPermission(CHOOSE x \in own : TRUE, d), PolicyHint(s, CHOOSE x \in own : TRUE, d)>>
    <3>1. own # {}
      BY <2>1
    <3> QED
      BY <3>1, Zenon DEF EffectivePermission
  <2> QED
    BY <2>2, <2>3, Zenon
<1>8. EffectivePermission(m, s, d, {}) = <<q0, q0>>
  BY <1>6
<1>9. ASSUME NEW p, OwnPermission(p, d) = None
      PROVE  EffectivePermission(m, s, d, {p}) = <<q0, q0>>
  <2>1. {x \in {p} : OwnPermission(x, d) # None} = {}
    BY <1>9
  <2> QED
    BY <1>6, <2>1
<1> HIDE DEF q0
<1>10. \A p : EffectivePermission(m, s, d, {p}) =
                 IF OwnPermission(p, d) = None THEN <<q0, q0>>
                 ELSE <<OwnPermission(p, d), PolicyHint(s, p, d)>>
  BY <1>7, <1>9
<1> QED
  BY <1>8, <1>10, Zenon DEF q0

\* An open row is a way in, where one may hold what cannot be ruled out.
LEMMA OpenRowIsAWay ==
    ASSUME NEW m, Proper(m), NEW s, ComponentIsParsed(m, s), s.kind = "provider",
           NEW d \in {"read", "write"}, NEW region \in Regions(s),
           PermissionPolicy(m, EffectivePermission(m, s, d, region)) # "strongly_protected"
    PROVE  \E path \in Paths(s.raw) : OpenAt(m, s.raw, d, path, MayObtain)
<1> DEFINE r == s.raw
           direct == Direct(m, r, d)
<1>1. /\ r.paths = s.paths
      /\ \A p \in r.paths : p.path # "elsewhere"
      /\ region = {} \/ \E p \in r.paths : region = {p}
  BY AttributesKept DEF ComponentIsParsed, Regions
<1>2. /\ EffectivePermission(m, s, d, {}) = <<direct, direct>>
      /\ \A p : EffectivePermission(m, s, d, {p}) =
                   IF OwnPermission(p, d) = None THEN <<direct, direct>>
                   ELSE <<OwnPermission(p, d), PolicyHint(s, p, d)>>
  BY ProviderPermission, Zenon
<1>3. \A p, hint : PermissionPolicy(m, <<p, hint>>) # "strongly_protected" => Has(m, MayObtain, p)
  BY PolicyAndHas, Zenon
<1>4. "elsewhere" \in Paths(r) /\ \A p \in r.paths : p.path \in Paths(r)
  BY DEF Paths
<1>5. \A path : OpenAt(m, r, d, path, MayObtain) <=>
        LET guards == {OwnPermission(p, d) : p \in {x \in r.paths : x.path = path}} \ {None}
        IN  \/ direct # None /\ Has(m, MayObtain, direct)
            \/ \E g \in guards : Has(m, MayObtain, g)
            \/ direct = None /\ guards = {}
  BY Zenon DEF OpenAt, Direct
<1> HIDE DEF r, direct
<1>6. CASE EffectivePermission(m, s, d, region) = <<direct, direct>>
  <2>1. Has(m, MayObtain, direct)
    BY <1>3, <1>6
  <2>2. {OwnPermission(p, d) : p \in {x \in r.paths : x.path = "elsewhere"}} = {}
    BY <1>1
  <2>3. OpenAt(m, r, d, "elsewhere", MayObtain)
    BY <1>5, <2>1, <2>2
  <2> QED
    BY <1>4, <2>3 DEF r
<1>7. CASE \E p \in r.paths : region = {p} /\ OwnPermission(p, d) # None
  <2>1. PICK p \in r.paths : region = {p} /\ OwnPermission(p, d) # None
    BY <1>7
  <2>2. Has(m, MayObtain, OwnPermission(p, d))
    BY <1>2, <1>3, <2>1
  <2>3. OwnPermission(p, d) \in
           {OwnPermission(y, d) : y \in {x \in r.paths : x.path = p.path}} \ {None}
    BY <2>1
  <2>4. OpenAt(m, r, d, p.path, MayObtain)
    BY <1>5, <2>2, <2>3
  <2> QED
    BY <1>4, <2>4 DEF r
<1> QED
  BY <1>1, <1>2, <1>6, <1>7

\* A way in that any app may get is an open row, where no guard of a path is a
\* permission that is not declared.
LEMMA WayIsAnOpenRow ==
    ASSUME NEW m, Proper(m), NEW s, ComponentIsParsed(m, s), s.kind = "provider",
           NEW d \in {"read", "write"}, NEW path, OpenAt(m, s.raw, d, path, Obtainable),
           \A p \in s.paths : OwnPermission(p, d) \in DOMAIN m.declared \cup {None}
    PROVE  \E region \in Regions(s) :
             PermissionPolicy(m, EffectivePermission(m, s, d, region)) # "strongly_protected"
<1> DEFINE r == s.raw
           direct == Direct(m, r, d)
           guards == {OwnPermission(p, d) : p \in {x \in r.paths : x.path = path}} \ {None}
<1>1. r.paths = s.paths
  BY AttributesKept
<1>2. /\ EffectivePermission(m, s, d, {}) = <<direct, direct>>
      /\ \A p : EffectivePermission(m, s, d, {p}) =
                   IF OwnPermission(p, d) = None THEN <<direct, direct>>
                   ELSE <<OwnPermission(p, d), PolicyHint(s, p, d)>>
  BY ProviderPermission, Zenon
<1>3. \A p, hint : /\ p = None => PermissionPolicy(m, <<p, hint>>) = "unprotected"
                   /\ hint = p \/ p \in DOMAIN m.declared =>
                        (Has(m, Obtainable, p) =>
                            PermissionPolicy(m, <<p, hint>>) # "strongly_protected")
  BY PolicyAndHas, Zenon
<1>4. {} \in Regions(s) /\ \A p \in s.paths : {p} \in Regions(s)
  BY DEF Regions
<1>5. \/ direct # None /\ Has(m, Obtainable, direct)
      \/ \E g \in guards : Has(m, Obtainable, g)
      \/ direct = None /\ guards = {}
  BY Zenon DEF OpenAt, Direct
<1> HIDE DEF r, direct
<1>6. CASE Has(m, Obtainable, direct) \/ direct = None
  <2>1. PermissionPolicy(m, <<direct, direct>>) # "strongly_protected"
    BY <1>3, <1>6
  <2> QED
    BY <1>2, <1>4, <2>1
<1>7. CASE \E g \in guards : Has(m, Obtainable, g)
  <2>1. PICK p \in r.paths : OwnPermission(p, d) # None /\ Has(m, Obtainable, OwnPermission(p, d))
    BY <1>7
  <2>2. EffectivePermission(m, s, d, {p}) = <<OwnPermission(p, d), PolicyHint(s, p, d)>>
    BY <1>2, <2>1
  <2>3. OwnPermission(p, d) \in DOMAIN m.declared
    BY <1>1, <2>1
  <2>4. PermissionPolicy(m, EffectivePermission(m, s, d, {p})) # "strongly_protected"
    BY <1>3, <2>1, <2>2, <2>3
  <2> QED
    BY <1>1, <1>4, <2>1, <2>4
<1> QED
  BY <1>5, <1>6, <1>7

ProviderOperations == Mutations \cup {"query", "provider_access"}

LEMMA ProviderDirections ==
    ASSUME NEW operation \in ProviderOperations, NEW mode
    PROVE  Directions(operation, mode) \subseteq {"read", "write"}
BY DEF Directions, ProviderOperations, Mutations

LEMMA GrantOfRegion ==
    ASSUME NEW s, NEW region \in Regions(s), UriGrant(s, region)
    PROVE  UriGrant(s, s.paths)
BY DEF UriGrant, Regions

LEMMA WaysIn ==
    ASSUME NEW m, NEW r, NEW levels, NEW operation \in ProviderOperations, NEW mode
    PROVE  Admits(m, r, operation, mode, levels) <=>
             \E d \in CASE operation \in {"call", "provider_access"} -> {"read", "write"}
                        [] operation \in {"insert", "update", "delete", "applyBatch"} -> {"write"}
                        [] operation = "query" -> {"read"}
                        [] OTHER -> CASE mode = "r" -> {"read"} [] mode = "any" -> {"read", "write"}
                                      [] OTHER -> {"write"} :
                \E path \in Paths(r) : OpenAt(m, r, d, path, levels)
<1> DEFINE open(Ds) == \E d \in Ds, p \in Paths(r) : OpenAt(m, r, d, p, levels)
<1>1. CASE operation \in {"call", "provider_access"}
  BY <1>1 DEF Admits
<1>2. CASE operation \in {"insert", "update", "delete", "applyBatch"}
  BY <1>2 DEF Admits
<1>3. CASE operation = "query"
  BY <1>3 DEF Admits
<1>4. CASE operation = "openFile"
  BY <1>4 DEF Admits
<1> QED
  BY <1>1, <1>2, <1>3, <1>4 DEF ProviderOperations, Mutations

\* A verdict that is not closed on an exported provider: there is a way in.
LEMMA OpenProviderIsReachable ==
    ASSUME NEW m, Proper(m), NEW s, ComponentIsParsed(m, s),
           s.kind = "provider", s.effective = "true", NEW operation \in ProviderOperations, NEW mode,
           \/ Evaluate(m, s, operation, mode).status # "strongly_protected"
           \/ Evaluate(m, s, operation, mode).grant
    PROVE  \/ ExportedByAndroid(m, s.raw) /\ Admits(m, s.raw, operation, "any", MayObtain)
           \/ UriGrant(s, s.paths)
<1> DEFINE verdict == Evaluate(m, s, operation, mode)
           policy(d, region) == PermissionPolicy(m, EffectivePermission(m, s, d, region))
           Ds == Directions(operation, mode)
<1>1. /\ verdict.status # "strongly_protected" <=>
            \E d \in Ds : \E region \in Regions(s) :
                UriGrant(s, region) \/ policy(d, region) # "strongly_protected"
      /\ verdict.status = "unprotected" <=>
            \E d \in Ds : \E region \in Regions(s) :
                ~UriGrant(s, region) /\ policy(d, region) = "unprotected"
      /\ verdict.grant <=> \E region \in Regions(s) : UriGrant(s, region)
  BY VerdictOfExported, Zenon
<1>2. verdict.status # "strongly_protected" \/ verdict.grant
  OBVIOUS
<1>3. ASSUME ~UriGrant(s, s.paths)
      PROVE  ExportedByAndroid(m, s.raw) /\ Admits(m, s.raw, operation, "any", MayObtain)
  <2>1. \A region \in Regions(s) : ~UriGrant(s, region)
    BY <1>3, GrantOfRegion
  <2> HIDE DEF verdict, policy, Ds
  <2>2. PICK d \in Ds : \E region \in Regions(s) : policy(d, region) # "strongly_protected"
    BY <1>1, <1>2, <2>1
  <2>3. d \in {"read", "write"}
    BY ProviderDirections DEF Ds
  <2>4. \E path \in Paths(s.raw) : OpenAt(m, s.raw, d, path, MayObtain)
    BY <2>2, <2>3, OpenRowIsAWay DEF policy
  <2>5. d \in CASE operation \in {"call", "provider_access"} -> {"read", "write"}
                [] operation \in {"insert", "update", "delete", "applyBatch"} -> {"write"}
                [] operation = "query" -> {"read"}
                [] OTHER -> CASE "any" = "r" -> {"read"} [] "any" = "any" -> {"read", "write"}
                              [] OTHER -> {"write"}
    BY <2>3, <2>2 DEF Ds, Directions, ProviderOperations, Mutations
  <2>6. Admits(m, s.raw, operation, "any", MayObtain)
    BY <2>4, <2>5, WaysIn
  <2> QED
    BY <2>6, ExportedIsReachable
<1> QED
  BY <1>3

\* What any app may do to an exported provider has a verdict that is not closed.
LEMMA ReachableProviderIsOpen ==
    ASSUME NEW m, Proper(m), NEW s, ComponentIsParsed(m, s),
           s.kind = "provider", s.effective = "true",
           NEW operation \in ProviderOperations \ {"call"}, NEW mode,
           Admits(m, s.raw, operation, mode, Obtainable),
           \A p \in s.paths : \A d \in {"read", "write"} :
                OwnPermission(p, d) \in DOMAIN m.declared \cup {None}
    PROVE  Evaluate(m, s, operation, mode).status # "strongly_protected"
<1> DEFINE verdict == Evaluate(m, s, operation, mode)
           policy(d, region) == PermissionPolicy(m, EffectivePermission(m, s, d, region))
           Ds == Directions(operation, mode)
<1>1. /\ verdict.status # "strongly_protected" <=>
            \E d \in Ds : \E region \in Regions(s) :
                UriGrant(s, region) \/ policy(d, region) # "strongly_protected"
      /\ verdict.status = "unprotected" <=>
            \E d \in Ds : \E region \in Regions(s) :
                ~UriGrant(s, region) /\ policy(d, region) = "unprotected"
      /\ verdict.grant <=> \E region \in Regions(s) : UriGrant(s, region)
  BY VerdictOfExported, Zenon
<1>2. Admits(m, s.raw, operation, mode, Obtainable)
  OBVIOUS
<1>3. PICK d \in CASE operation \in {"call", "provider_access"} -> {"read", "write"}
                   [] operation \in {"insert", "update", "delete", "applyBatch"} -> {"write"}
                   [] operation = "query" -> {"read"}
                   [] OTHER -> CASE mode = "r" -> {"read"} [] mode = "any" -> {"read", "write"}
                                 [] OTHER -> {"write"} :
           \E path \in Paths(s.raw) : OpenAt(m, s.raw, d, path, Obtainable)
  BY <1>2, WaysIn
<1>4. d \in Ds /\ d \in {"read", "write"}
  <2>1. CASE operation = "openFile"
    BY <1>3, <2>1 DEF Directions
  <2>2. CASE operation # "openFile"
    BY <1>3, <2>2 DEF Directions, ProviderOperations, Mutations
  <2> QED
    BY <2>1, <2>2
<1>5. \E region \in Regions(s) : policy(d, region) # "strongly_protected"
  BY <1>3, <1>4, WayIsAnOpenRow
<1> HIDE DEF verdict, policy, Ds
<1> QED
  BY <1>1, <1>4, <1>5 DEF verdict

-----------------------------------------------------------------------------
(***************************************************************************)
(* What a rule makes of a subject, held against who may reach it.           *)
(***************************************************************************)

RouteRule == "ACTIVITY_EXTERNAL_ROUTE_INJECTION"
ReadWriteRule == "PROVIDER_READ_WRITE_PERMISSION_MISSING"
RegistrationRule == "DYNAMIC_RECEIVER_EXPORTED_NO_PERMISSION"

LEMMA KindOfRule ==
    ASSUME NEW r
    PROVE  /\ r \in FlowRules \cup ExposureRules \cup {RouteRule, BinderRule} =>
                Kind(r) \in {"activity", "service", "receiver"}
           /\ r \in ProviderRules \cup {ReadWriteRule} => Kind(r) = "provider"
           /\ r = RegistrationRule => Kind(r) = "registration"
           /\ r = "RECEIVER_EXPORTED_NO_PERMISSION" => Kind(r) = "receiver"
           /\ r = BinderRule => Kind(r) = "service"
<1> USE DEF FlowRules, ExposureRules, ProviderRules, RouteRule, BinderRule, ReadWriteRule,
           RegistrationRule, ManifestRules
<1>1. r \in FlowRules \cup ExposureRules \cup {RouteRule, BinderRule} =>
                Kind(r) \in {"activity", "service", "receiver"}
  BY DEF Kind
<1>2. r \in ProviderRules \cup {ReadWriteRule} => Kind(r) = "provider"
  BY DEF Kind
<1>3. r = RegistrationRule => Kind(r) = "registration"
  BY DEF Kind
<1>4. /\ r = "RECEIVER_EXPORTED_NO_PERMISSION" => Kind(r) = "receiver"
      /\ r = BinderRule => Kind(r) = "service"
  BY DEF Kind
<1> QED
  BY <1>1, <1>2, <1>3, <1>4

LEMMA NotOfFiles ==
    ASSUME NEW r \in FlowRules \cup ExposureRules \cup ProviderRules
                     \cup {RouteRule, BinderRule, ReadWriteRule, RegistrationRule}
    PROVE  Kind(r) # "file"
BY KindOfRule

LEMMA CandidatesOfRule ==
    ASSUME NEW r, NEW m, NEW s
    PROVE  /\ r \in FlowRules => CandidatesOf(r, m, s) = FlowCandidates(r, m, s)
           /\ r = RouteRule => CandidatesOf(r, m, s) = RouteCandidates(r, m, s)
           /\ r = BinderRule => CandidatesOf(r, m, s) = BinderCandidates(r, m, s)
           /\ r \in ProviderRules => CandidatesOf(r, m, s) = ProviderCandidates(r, m, s)
           /\ r = RegistrationRule => CandidatesOf(r, m, s) = RegistrationCandidates(r, m, s)
           /\ r \in ExposureRules \cup {ReadWriteRule} =>
                CandidatesOf(r, m, s) = ComponentCandidates(r, m, s)
           /\ \/ CandidatesOf(r, m, s) = FlowCandidates(r, m, s)
              \/ CandidatesOf(r, m, s) = RouteCandidates(r, m, s)
              \/ CandidatesOf(r, m, s) = BinderCandidates(r, m, s)
              \/ CandidatesOf(r, m, s) = ProviderCandidates(r, m, s)
              \/ CandidatesOf(r, m, s) = ManifestCandidates(r, m, s)
              \/ CandidatesOf(r, m, s) = RegistrationCandidates(r, m, s)
              \/ CandidatesOf(r, m, s) = FileCandidates(r, s)
              \/ CandidatesOf(r, m, s) = ComponentCandidates(r, m, s)
<1> USE DEF FlowRules, ExposureRules, ProviderRules, RouteRule, BinderRule, ReadWriteRule,
           RegistrationRule, ManifestRules
<1>1. r \in FlowRules => CandidatesOf(r, m, s) = FlowCandidates(r, m, s)
  BY NotOfFiles DEF CandidatesOf
<1>2. r = RouteRule => CandidatesOf(r, m, s) = RouteCandidates(r, m, s)
  BY NotOfFiles DEF CandidatesOf
<1>3. r = BinderRule => CandidatesOf(r, m, s) = BinderCandidates(r, m, s)
  BY NotOfFiles DEF CandidatesOf
<1>4. r \in ProviderRules => CandidatesOf(r, m, s) = ProviderCandidates(r, m, s)
  BY NotOfFiles DEF CandidatesOf
<1>5. r = RegistrationRule => CandidatesOf(r, m, s) = RegistrationCandidates(r, m, s)
  BY NotOfFiles DEF CandidatesOf
<1>6. r \in ExposureRules \cup {ReadWriteRule} => CandidatesOf(r, m, s) = ComponentCandidates(r, m, s)
  <2>1. r \in ExposureRules \cup {ReadWriteRule} => Kind(r) # "file"
    BY KindOfRule
  <2> QED
    BY <2>1 DEF CandidatesOf
<1>7. \/ CandidatesOf(r, m, s) = FlowCandidates(r, m, s)
      \/ CandidatesOf(r, m, s) = RouteCandidates(r, m, s)
      \/ CandidatesOf(r, m, s) = BinderCandidates(r, m, s)
      \/ CandidatesOf(r, m, s) = ProviderCandidates(r, m, s)
      \/ CandidatesOf(r, m, s) = ManifestCandidates(r, m, s)
      \/ CandidatesOf(r, m, s) = RegistrationCandidates(r, m, s)
      \/ CandidatesOf(r, m, s) = FileCandidates(r, s)
      \/ CandidatesOf(r, m, s) = ComponentCandidates(r, m, s)
  BY DEF CandidatesOf
<1> QED
  BY <1>1, <1>2, <1>3, <1>4, <1>5, <1>6, <1>7

\* A candidate bears the name of its subject.
LEMMA CandidateNamed ==
    ASSUME NEW rule, NEW c, NEW chain, NEW level, NEW verified, NEW codes
    PROVE  /\ Candidate(rule, c, chain, level, verified, codes).subject = c.name
           /\ Candidate(rule, c, chain, level, verified, codes).chain = chain
           /\ Candidate(rule, c, chain, level, verified, codes).gaps = codes
BY DEF Candidate

\* The candidates of a flow, of a Binder and of a provider, one for each chain.
FlowGaps(m, c, chain) ==
    chain.gaps \cup Evaluate(m, c, "component_entry", "any").gaps \cup ChainGaps(Scope(c), chain)
    \cup (IF chain.gated THEN {"INPUT_PROTOCOL_UNCONTROLLED"} ELSE {})
FlowVerified(m, c, chain) ==
    chain.effect /\ c.converged /\ Critical(FlowGaps(m, c, chain)) = {}
FlowChains(c) == IF c.chains # {} THEN c.chains
                 ELSE IF c.fallback.found THEN {Inferred(c)} ELSE {}

LEMMA FlowCandidatesAre ==
    ASSUME NEW r, NEW m, NEW c
    PROVE  FlowCandidates(r, m, c) =
             IF \/ c.effective # "true" \/ ~Scope(c).files
                \/ Closed(Evaluate(m, c, "component_entry", "any"))
             THEN {}
             ELSE {Candidate(r, c, chain.id, "L2", FlowVerified(m, c, chain), FlowGaps(m, c, chain)) :
                      chain \in {h \in FlowChains(c) : h.guard # "present_effective"}}
BY DEF FlowCandidates, FlowGaps, FlowVerified, FlowChains

BinderChainGaps(m, c, tx, chain) ==
    TransactionGaps(c, tx) \cup chain.gaps \cup Evaluate(m, c, "component_entry", "any").gaps
OfTransaction(r, m, c, tx) ==
    {Candidate(r, c, chain.id, "L2",
               chain.effect /\ Critical(BinderChainGaps(m, c, tx, chain)) = {},
               BinderChainGaps(m, c, tx, chain)) :
        chain \in {h \in TransactionChains(c, tx) : ~Dismissed(c, tx, h)}}

LEMMA BinderCandidatesAre ==
    ASSUME NEW r, NEW m, NEW c
    PROVE  BinderCandidates(r, m, c) =
             IF ~c.indexed \/ ~c.binder.onBind THEN {}
             ELSE (IF Closed(Evaluate(m, c, "component_entry", "any")) THEN {}
                   ELSE UNION {OfTransaction(r, m, c, tx) : tx \in Transactions(c.binder)})
                  \cup {Candidate(r, c, "onBind", "L2", FALSE, g) : g \in Unbound(c.binder)}
BY DEF BinderCandidates, BinderChainGaps, OfTransaction

EntryVerdictOf(m, c, e, h) == Evaluate(m, c, Operation(e), Mode(e, h))
EntryGaps(m, c, e, h) ==
    h.gaps \cup EntryVerdictOf(m, c, e, h).gaps
    \cup (IF c.proven THEN {} ELSE {"PROVIDER_INHERITANCE_UNPROVEN"})
    \cup (IF h.flow = "columns" THEN {} ELSE e.calls)
EntryVerified(r, m, c, e, h) ==
    /\ h.effect /\ Critical(EntryGaps(m, c, e, h)) = {}
    /\ r = "PROVIDER_URI_TO_FILE" => c.boundary = "unsafe_prefix"
OfEntry(r, m, c, e) ==
    {Candidate(r, c, <<e.name, h.id>>, "L2", EntryVerified(r, m, c, e, h), EntryGaps(m, c, e, h)) :
        h \in {h \in ProviderChains(r, e) :
                  ~Closed(EntryVerdictOf(m, c, e, h)) /\ h.guard # "present_effective"}}

LEMMA ProviderCandidatesAre ==
    ASSUME NEW r, NEW m, NEW c
    PROVE  ProviderCandidates(r, m, c) =
             IF c.effective # "true" THEN {}
             ELSE UNION {OfEntry(r, m, c, e) : e \in EntryScopes(c)}
BY Zenon DEF ProviderCandidates, EntryVerdictOf, EntryGaps, EntryVerified, OfEntry

LEMMA SubjectOfCandidate ==
    ASSUME NEW r, NEW m, NEW s, NEW f \in CandidatesOf(r, m, s)
    PROVE  f.subject = s.name
<1> DEFINE Made(x) == \E chain, level, verified, codes : x = Candidate(r, s, chain, level, verified, codes)
<1>1. CASE f \in FlowCandidates(r, m, s)
  <2>1. Made(f)
    BY <1>1, FlowCandidatesAre
  <2> QED
    BY <2>1, CandidateNamed
<1>2. CASE f \in RouteCandidates(r, m, s)
  <2>1. Made(f)
    BY <1>2 DEF RouteCandidates
  <2> QED
    BY <2>1, CandidateNamed
<1>3. CASE f \in BinderCandidates(r, m, s)
  <2>1. Made(f)
    <3>1. \/ \E tx \in Transactions(s.binder) : f \in OfTransaction(r, m, s, tx)
          \/ f \in {Candidate(r, s, "onBind", "L2", FALSE, g) : g \in Unbound(s.binder)}
      BY <1>3, BinderCandidatesAre
    <3>2. ASSUME NEW tx, f \in OfTransaction(r, m, s, tx) PROVE Made(f)
      BY <3>2 DEF OfTransaction
    <3> QED
      BY <3>1, <3>2
  <2> QED
    BY <2>1, CandidateNamed
<1>4. CASE f \in ProviderCandidates(r, m, s)
  <2>1. Made(f)
    <3>1. \E e \in EntryScopes(s) : f \in OfEntry(r, m, s, e)
      BY <1>4, ProviderCandidatesAre
    <3>2. ASSUME NEW e, f \in OfEntry(r, m, s, e) PROVE Made(f)
      BY <3>2 DEF OfEntry
    <3> QED
      BY <3>1, <3>2
  <2> QED
    BY <2>1, CandidateNamed
<1>5. CASE f \in ManifestCandidates(r, m, s)
  <2>1. Made(f)
    BY <1>5 DEF ManifestCandidates
  <2> QED
    BY <2>1, CandidateNamed
<1>6. CASE f \in RegistrationCandidates(r, m, s)
  <2>1. Made(f)
    BY <1>6 DEF RegistrationCandidates
  <2> QED
    BY <2>1, CandidateNamed
<1>7. CASE f \in FileCandidates(r, s)
  <2>1. Made(f)
    BY <1>7 DEF FileCandidates
  <2> QED
    BY <2>1, CandidateNamed
<1>8. CASE f \in ComponentCandidates(r, m, s)
  <2>1. Made(f)
    BY <1>8 DEF ComponentCandidates
  <2> QED
    BY <2>1, CandidateNamed
<1> QED
  BY <1>1, <1>2, <1>3, <1>4, <1>5, <1>6, <1>7, <1>8, CandidatesOfRule

\* What the verdict on a registration says.
LEMMA VerdictOnRegistration ==
    ASSUME NEW m, NEW s
    PROVE  LET v == RegistrationVerdict(m, s)
           IN  /\ v.reported <=>
                    /\ s.family # "application_method" /\ ~s.sticky
                    /\ Reachable(s, FlagStatus(s)) # "no"
                    /\ PermissionStatus(m, s) # "strongly_protected"
               /\ v.reachable = Reachable(s, FlagStatus(s))
               /\ FlagStatus(s) = "unknown" => "RECEIVER_FLAG_UNKNOWN" \in v.gaps
BY DEF RegistrationVerdict

LEMMA RegistrationFlags ==
    ASSUME NEW s
    PROVE  /\ s.family = "local_broadcast" => FlagStatus(s) = "local"
           /\ s.family # "local_broadcast" /\ Overload(s) = << >> => FlagStatus(s) = "unknown"
           /\ s.family # "local_broadcast" /\ Overload(s) # << >> /\ Overload(s)[2] # 0 =>
                /\ {"EXPORTED", "NOT_EXPORTED"} \subseteq s.flags => FlagStatus(s) = "unknown"
                /\ FlagStatus(s) = "not_exported" => "NOT_EXPORTED" \in s.flags
                /\ "NOT_EXPORTED" \in s.flags /\ "EXPORTED" \notin s.flags =>
                        FlagStatus(s) = "not_exported"
<1>1. s.family = "local_broadcast" => FlagStatus(s) = "local"
  BY DEF FlagStatus
<1>2. s.family # "local_broadcast" /\ Overload(s) = << >> => FlagStatus(s) = "unknown"
  BY DEF FlagStatus
<1>3. ASSUME s.family # "local_broadcast", Overload(s) # << >>, Overload(s)[2] # 0
      PROVE  /\ {"EXPORTED", "NOT_EXPORTED"} \subseteq s.flags => FlagStatus(s) = "unknown"
             /\ FlagStatus(s) = "not_exported" => "NOT_EXPORTED" \in s.flags
             /\ "NOT_EXPORTED" \in s.flags /\ "EXPORTED" \notin s.flags =>
                    FlagStatus(s) = "not_exported"
  <2> DEFINE named == s.flags \cap {"EXPORTED", "NOT_EXPORTED"}
             both == {"EXPORTED", "NOT_EXPORTED"} \subseteq s.flags
  <2>1. CASE s.flags = {"opaque"}
    <3>1. FlagStatus(s) = "unknown"
      BY <1>3, <2>1 DEF FlagStatus
    <3>2. "NOT_EXPORTED" \notin s.flags
      BY <2>1
    <3> QED
      BY <3>1, <3>2
  <2>2. CASE s.flags # {"opaque"}
    <3>1. FlagStatus(s) = CASE both -> "unknown"
                            [] named = {"NOT_EXPORTED"} -> "not_exported"
                            [] named = {"EXPORTED"} -> "exported"
                            [] OTHER -> "unknown"
      BY <1>3, <2>2 DEF FlagStatus
    <3>2. both => named # {"NOT_EXPORTED"} /\ named # {"EXPORTED"}
      OBVIOUS
    <3>3. named = {"NOT_EXPORTED"} <=> "NOT_EXPORTED" \in s.flags /\ "EXPORTED" \notin s.flags
      OBVIOUS
    <3>4. {"NOT_EXPORTED"} # {"EXPORTED"}
      OBVIOUS
    <3> HIDE DEF named, both
    <3>5. /\ both => FlagStatus(s) = "unknown"
          /\ FlagStatus(s) = "not_exported" => named = {"NOT_EXPORTED"}
          /\ named = {"NOT_EXPORTED"} => FlagStatus(s) = "not_exported"
      BY <3>1, <3>2, <3>4
    <3> QED
      BY <3>3, <3>5 DEF both
  <2> QED
    BY <2>1, <2>2
<1> QED
  BY <1>1, <1>2, <1>3

LEMMA PlacesOfOverload ==
    ASSUME NEW s
    PROVE  /\ Overload(s) # << >> => Overload(s) = OverloadOf(s.family, s.args)
           /\ OverloadOf(s.family, s.args) # << >> =>
                s.family \in {"local_broadcast", "platform_context", "context_compat"}
BY DEF Overload, OverloadOf

LEMMA PermissionOfRegistration ==
    ASSUME NEW m, Proper(m), NEW s, Overload(s) # << >>
    PROVE  /\ PermissionStatus(m, s) # "strongly_protected" /\ Overload(s)[1] # 0 =>
                s.permission = "opaque" \/ Has(m, MayObtain, s.permission)
           /\ (Overload(s)[1] # 0 => s.permission = "opaque" \/ Has(m, Obtainable, s.permission)) =>
                PermissionStatus(m, s) # "strongly_protected"
<1> DEFINE place == Overload(s)
<1>1. \A p : /\ PermissionPolicy(m, <<p, None>>) # "strongly_protected" => Has(m, MayObtain, p)
             /\ Has(m, Obtainable, p) => PermissionPolicy(m, <<p, None>>) # "strongly_protected"
             /\ p = None => PermissionPolicy(m, <<p, None>>) = "unprotected"
  BY PolicyAndHas, Zenon
<1>2. PermissionStatus(m, s) =
         IF place[1] # 0 /\ s.permission = "opaque" THEN "unknown"
         ELSE PermissionPolicy(m, <<IF place[1] = 0 THEN None ELSE s.permission, None>>)
  BY DEF PermissionStatus
<1> HIDE DEF place
<1>3. CASE place[1] = 0
  BY <1>1, <1>2, <1>3 DEF place
<1>4. CASE place[1] # 0
  BY <1>1, <1>2, <1>4 DEF place
<1> QED
  BY <1>3, <1>4

LEMMA ReachableIs ==
    ASSUME NEW s, NEW flags
    PROVE  Reachable(s, flags) = "no" <=> flags \in {"local", "not_exported"} \/ ProtectedOnly(s)
BY DEF Reachable

LEMMA ReportedRegistration ==
    ASSUME NEW r, NEW s, Proper(input.manifest), SubjectIsParsed(input.manifest, s),
           s.kind = "registration", NEW f \in RegistrationCandidates(r, input.manifest, s)
    PROVE  \/ RegistrationOpen(s, MayObtain)
           \/ UnknownCall(s) /\ "RECEIVER_FLAG_UNKNOWN" \in f.gaps
<1> DEFINE m == input.manifest
           v == RegistrationVerdict(m, s)
           codes == v.gaps \cup TargetGap(s) \cup s.gaps
           effects == IF s.target \in {"exact", "simple_name"} THEN s.effects ELSE {}
           complete == /\ v.reachable = "yes" /\ "plain" \in s.actions
                       /\ effects # {} /\ codes = {}
           made == CASE ~v.reported -> {}
                     [] v.reported /\ complete -> {Candidate(r, s, e, "L2", TRUE, {}) : e \in effects}
                     [] OTHER -> {Candidate(r, s, "registration", "L1", FALSE, codes)}
<1>1. RegistrationCandidates(r, m, s) = made
  BY DEF RegistrationCandidates
<1>2. /\ v.reported <=>
            /\ s.family # "application_method" /\ ~s.sticky /\ Reachable(s, FlagStatus(s)) # "no"
            /\ PermissionStatus(m, s) # "strongly_protected"
      /\ v.reachable = Reachable(s, FlagStatus(s))
      /\ FlagStatus(s) = "unknown" => "RECEIVER_FLAG_UNKNOWN" \in v.gaps
  BY VerdictOnRegistration, Zenon
<1>3. f \in made
  BY <1>1
<1>4. s.actions # {} /\ s.actions \subseteq {"plain", "protected", "opaque"}
  BY DEF SubjectIsParsed
<1>5. Proper(m)
  OBVIOUS
<1> HIDE DEF v, m, effects
<1>6. v.reported
  BY <1>3
<1>7. ASSUME "RECEIVER_FLAG_UNKNOWN" \in v.gaps PROVE "RECEIVER_FLAG_UNKNOWN" \in f.gaps
  <2>1. ~complete /\ "RECEIVER_FLAG_UNKNOWN" \in codes
    BY <1>7
  <2> HIDE DEF codes, complete
  <2>2. f = Candidate(r, s, "registration", "L1", FALSE, codes)
    BY <1>3, <1>6, <2>1
  <2>3. f.gaps = codes
    BY ONLY <2>2 DEF Candidate
  <2> QED
    BY <2>1, <2>3
<1> HIDE DEF made
<1>8. ~ProtectedOnly(s) /\ FlagStatus(s) \notin {"local", "not_exported"}
  BY <1>2, <1>6, ReachableIs
<1>9. s.family # "local_broadcast"
  BY <1>8, RegistrationFlags
<1>10. CASE Overload(s) = << >>
  BY <1>2, <1>7, <1>9, <1>10, RegistrationFlags DEF UnknownCall
<1>11. CASE Overload(s) # << >> /\ Overload(s)[2] # 0 /\ {"EXPORTED", "NOT_EXPORTED"} \subseteq s.flags
  BY <1>2, <1>7, <1>9, <1>11, RegistrationFlags DEF UnknownCall
<1>12. CASE /\ Overload(s) # << >>
            /\ Overload(s)[2] = 0 \/ ~({"EXPORTED", "NOT_EXPORTED"} \subseteq s.flags)
  <2>1. /\ OverloadOf(s.family, s.args) = Overload(s)
        /\ s.family \in {"platform_context", "context_compat"}
    BY <1>9, <1>12, PlacesOfOverload
  <2>2. Overload(s)[2] # 0 => "NOT_EXPORTED" \notin s.flags
    BY <1>8, <1>9, <1>12, RegistrationFlags
  <2>3. s.actions \cap {"plain", "opaque"} # {}
    BY <1>4, <1>8 DEF ProtectedOnly
  <2>4. Overload(s)[1] # 0 => s.permission = "opaque" \/ Has(m, MayObtain, s.permission)
    BY <1>2, <1>5, <1>6, <1>12, PermissionOfRegistration
  <2> QED
    BY <1>2, <1>6, <1>12, <2>1, <2>2, <2>3, <2>4 DEF RegistrationOpen, m
<1> QED
  BY <1>10, <1>11, <1>12

\* What the rules that look at the manifest alone make of a component.
LEMMA ComponentCandidatesAre ==
    ASSUME NEW r, NEW m, NEW s
    PROVE  /\ r \in ExposureRules /\ s.kind # "provider" =>
                (ComponentCandidates(r, m, s) # {} <=>
                    /\ s.effective = "true"
                    /\ Evaluate(m, s, "component_entry", "any").status = "unprotected"
                    /\ s.kind = "receiver" => ~ProtectedActionsOnly(s))
           /\ r = ReadWriteRule /\ s.kind = "provider" =>
                (ComponentCandidates(r, m, s) # {} <=>
                    /\ s.effective = "true"
                    /\ Evaluate(m, s, "provider_access", "any").status # "strongly_protected")
<1> USE DEF ReadWriteRule
<1> DEFINE of(v) == {Candidate(r, s, "manifest", "L1", FALSE, v.gaps)}
           entry == Evaluate(m, s, "component_entry", "any")
           access == Evaluate(m, s, "provider_access", "any")
<1>1. ASSUME r \in ExposureRules, s.kind # "provider"
      PROVE  ComponentCandidates(r, m, s) =
                IF /\ s.effective = "true" /\ entry.status = "unprotected"
                   /\ s.kind = "receiver" => ~ProtectedActionsOnly(s)
                THEN of(entry) ELSE {}
  <2> DEFINE exposed == /\ s.effective = "true" /\ entry.status = "unprotected"
                        /\ s.kind = "receiver" => ~ProtectedActionsOnly(s)
             weak == s.effective = "true" /\ entry.status # "strongly_protected"
  <2>1. ComponentCandidates(r, m, s) =
          IF CASE r \in ExposureRules -> exposed
               [] r = "PROVIDER_READ_WRITE_PERMISSION_MISSING" -> weak
               [] OTHER -> s.hint
          THEN of(entry) ELSE {}
    BY <1>1, Zenon DEF ComponentCandidates
  <2>2. "PROVIDER_READ_WRITE_PERMISSION_MISSING" \notin ExposureRules
    BY DEF ExposureRules
  <2> HIDE DEF exposed, weak, of, entry
  <2>3. ComponentCandidates(r, m, s) = IF exposed THEN of(entry) ELSE {}
    BY <1>1, <2>1, <2>2
  <2> QED
    BY <2>3 DEF exposed, entry
<1>2. ASSUME r = ReadWriteRule, s.kind = "provider"
      PROVE  ComponentCandidates(r, m, s) =
                IF s.effective = "true" /\ access.status # "strongly_protected"
                THEN of(access) ELSE {}
  <2>1. r \notin ExposureRules
    BY <1>2 DEF ExposureRules
  <2> QED
    BY <1>2, <2>1 DEF ComponentCandidates
<1>3. \A v : of(v) # {}
  OBVIOUS
<1> HIDE DEF of, entry, access
<1>4. ASSUME r \in ExposureRules, s.kind # "provider"
      PROVE  ComponentCandidates(r, m, s) # {} <=>
                /\ s.effective = "true" /\ entry.status = "unprotected"
                /\ s.kind = "receiver" => ~ProtectedActionsOnly(s)
  BY <1>1, <1>3, <1>4
<1>5. ASSUME r = ReadWriteRule, s.kind = "provider"
      PROVE  ComponentCandidates(r, m, s) # {} <=>
                s.effective = "true" /\ access.status # "strongly_protected"
  BY <1>2, <1>3, <1>5
<1> QED
  BY <1>4, <1>5 DEF entry, access

LEMMA WithinReachIs ==
    ASSUME NEW r, NEW s, NEW f
    PROVE  /\ r \in ExposureRules =>
                (WithinReach(r, s, f) <=> Enters(s, "component_entry", "any", Nothing))
           /\ r \in FlowRules \cup {BinderRule, RouteRule} =>
                (WithinReach(r, s, f) <=> Enters(s, "component_entry", "any", MayObtain))
           /\ r = ReadWriteRule =>
                (WithinReach(r, s, f) <=>
                    Enters(s, "provider_access", "any", MayObtain) \/ UriGrant(s, s.paths))
           /\ r \in ProviderRules =>
                (WithinReach(r, s, f) <=>
                    Enters(s, f.chain[1], "any", MayObtain) \/ UriGrant(s, s.paths))
           /\ r = RegistrationRule =>
                (WithinReach(r, s, f) <=>
                    \/ RegistrationOpen(s, MayObtain)
                    \/ UnknownCall(s) /\ "RECEIVER_FLAG_UNKNOWN" \in f.gaps)
           /\ r \notin ExposureRules \cup FlowRules \cup ProviderRules
                       \cup {BinderRule, RouteRule, ReadWriteRule, RegistrationRule} =>
                WithinReach(r, s, f)
<1> DEFINE a == Enters(s, "component_entry", "any", Nothing)
           b == Enters(s, "component_entry", "any", MayObtain)
           d == Enters(s, "provider_access", "any", MayObtain) \/ UriGrant(s, s.paths)
           e == Enters(s, f.chain[1], "any", MayObtain) \/ UriGrant(s, s.paths)
           g == RegistrationOpen(s, MayObtain)
                \/ (UnknownCall(s) /\ "RECEIVER_FLAG_UNKNOWN" \in f.gaps)
<1>1. WithinReach(r, s, f) =
        CASE r \in ExposureRules -> a
          [] r \in FlowRules \cup {BinderRule, RouteRule} -> b
          [] r = ReadWriteRule -> d
          [] r \in ProviderRules -> e
          [] r = RegistrationRule -> g
          [] OTHER -> TRUE
  BY DEF WithinReach, RouteRule, ReadWriteRule, RegistrationRule
<1> HIDE DEF a, b, d, e, g
<1>2. /\ r \in ExposureRules => r \notin FlowRules \cup {BinderRule, RouteRule} \cup ProviderRules
                                         \cup {ReadWriteRule, RegistrationRule}
      /\ r \in FlowRules \cup {BinderRule, RouteRule} =>
            r \notin ProviderRules \cup {ReadWriteRule, RegistrationRule}
      /\ r \in ProviderRules => r \notin {ReadWriteRule, RegistrationRule}
      /\ ReadWriteRule # RegistrationRule
  BY DEF ExposureRules, FlowRules, ProviderRules, BinderRule, RouteRule, ReadWriteRule,
         RegistrationRule
<1>3. r \in ExposureRules => (WithinReach(r, s, f) <=> a)
  BY <1>1, <1>2
<1>4. r \in FlowRules \cup {BinderRule, RouteRule} => (WithinReach(r, s, f) <=> b)
  BY <1>1, <1>2
<1>5. r = ReadWriteRule => (WithinReach(r, s, f) <=> d)
  BY <1>1, <1>2
<1>6. r \in ProviderRules => (WithinReach(r, s, f) <=> e)
  BY <1>1, <1>2
<1>7. r = RegistrationRule => (WithinReach(r, s, f) <=> g)
  BY <1>1, <1>2
<1>8. r \notin ExposureRules \cup FlowRules \cup ProviderRules
                       \cup {BinderRule, RouteRule, ReadWriteRule, RegistrationRule} =>
                WithinReach(r, s, f)
  BY <1>1
<1> QED
  BY <1>3, <1>4, <1>5, <1>6, <1>7, <1>8 DEF a, b, d, e, g

LEMMA EntersIs ==
    ASSUME NEW s, NEW operation, NEW mode, NEW levels
    PROVE  Enters(s, operation, mode, levels) <=>
             /\ ExportedByAndroid(input.manifest, s.raw)
             /\ Admits(input.manifest, s.raw, operation, mode, levels)
BY DEF Enters

\* Of a component with an entry: its verdict against who can start it.
LEMMA EntryReached ==
    ASSUME NEW s, Proper(input.manifest), ComponentIsParsed(input.manifest, s),
           s.effective = "true", s.kind \in {"activity", "service", "receiver"}
    PROVE  LET verdict == Evaluate(input.manifest, s, "component_entry", "any")
           IN  /\ verdict.status = "unprotected" => Enters(s, "component_entry", "any", Nothing)
               /\ ~Closed(verdict) => Enters(s, "component_entry", "any", MayObtain)
               /\ verdict.status # "strongly_protected" =>
                    Enters(s, "component_entry", "any", MayObtain)
<1> DEFINE m == input.manifest
           verdict == Evaluate(m, s, "component_entry", "any")
<1>1. /\ ~verdict.grant
      /\ verdict.status = "unprotected" => Has(m, Nothing, Required(m, s.raw))
      /\ verdict.status # "strongly_protected" => Has(m, MayObtain, Required(m, s.raw))
  BY EntryVerdict, Zenon
<1>2. ExportedByAndroid(m, s.raw)
  BY ExportedIsReachable, Zenon
<1>3. \A levels : Enters(s, "component_entry", "any", levels) <=>
                    ExportedByAndroid(m, s.raw) /\ Has(m, levels, Required(m, s.raw))
  BY EntersByPermission, Zenon
<1>4. Closed(verdict) <=> verdict.status = "strongly_protected" /\ ~verdict.grant
  BY DEF Closed
<1> HIDE DEF verdict, m
<1>5. /\ verdict.status = "unprotected" => Enters(s, "component_entry", "any", Nothing)
      /\ ~Closed(verdict) => Enters(s, "component_entry", "any", MayObtain)
      /\ verdict.status # "strongly_protected" => Enters(s, "component_entry", "any", MayObtain)
  BY <1>1, <1>2, <1>3, <1>4, Zenon
<1> QED
  BY <1>5 DEF verdict, m

LEMMA ProviderReached ==
    ASSUME NEW s, Proper(input.manifest), ComponentIsParsed(input.manifest, s),
           s.effective = "true", s.kind = "provider",
           NEW operation \in ProviderOperations, NEW mode,
           ~Closed(Evaluate(input.manifest, s, operation, mode))
    PROVE  Enters(s, operation, "any", MayObtain) \/ UriGrant(s, s.paths)
<1> DEFINE m == input.manifest
           verdict == Evaluate(m, s, operation, mode)
<1>1. verdict.status # "strongly_protected" \/ verdict.grant
  BY DEF Closed
<1>2. \/ ExportedByAndroid(m, s.raw) /\ Admits(m, s.raw, operation, "any", MayObtain)
      \/ UriGrant(s, s.paths)
  BY <1>1, OpenProviderIsReachable, Zenon
<1> QED
  BY <1>2, EntersIs, Zenon

\* A candidate of a provider is of the operation it is named for.
LEMMA OperationOfEntry ==
    ASSUME NEW e, e.name \in Mutations \cup {"query"}
    PROVE  Operation(e) = e.name /\ e.name \in ProviderOperations
BY DEF Operation, ProviderOperations

LEMMA ProviderCandidateReached ==
    ASSUME NEW r, NEW s, Proper(input.manifest), ComponentIsParsed(input.manifest, s),
           s.kind = "provider", NEW f \in ProviderCandidates(r, input.manifest, s)
    PROVE  Enters(s, f.chain[1], "any", MayObtain) \/ UriGrant(s, s.paths)
<1> DEFINE m == input.manifest
<1>1. s.effective = "true" /\ \E e \in EntryScopes(s) : f \in OfEntry(r, m, s, e)
  BY ProviderCandidatesAre
<1>2. PICK e \in EntryScopes(s) : f \in OfEntry(r, m, s, e)
  BY <1>1
<1>3. PICK h : /\ ~Closed(EntryVerdictOf(m, s, e, h))
               /\ f = Candidate(r, s, <<e.name, h.id>>, "L2", EntryVerified(r, m, s, e, h),
                                EntryGaps(m, s, e, h))
  BY <1>2 DEF OfEntry
<1>4. f.chain = <<e.name, h.id>>
  BY <1>3, CandidateNamed
<1>5. f.chain[1] = e.name
  BY <1>4
<1>6. e.name \in Mutations \cup {"query"}
  BY <1>2 DEF EntryScopes, ComponentIsParsed
<1>7. Operation(e) = e.name /\ e.name \in ProviderOperations
  BY <1>6, OperationOfEntry
<1>8. ~Closed(Evaluate(m, s, e.name, Mode(e, h)))
  BY <1>3, <1>7 DEF EntryVerdictOf
<1> QED
  BY <1>1, <1>5, <1>7, <1>8, ProviderReached

ComponentKinds == {"activity", "service", "receiver", "provider"}

\* The subjects the Binder rule takes: exported services that are not protected.
OpenToBinder(s) ==
    /\ s.effective = "true"
    /\ Evaluate(input.manifest, s, "component_entry", "any").status # "strongly_protected"

LEMMA ReportedWithin ==
    ASSUME NEW r, NEW s, Proper(input.manifest), SubjectIsParsed(input.manifest, s),
           s.kind = Kind(r), r = BinderRule => OpenToBinder(s),
           NEW f \in CandidatesOf(r, input.manifest, s)
    PROVE  WithinReach(r, s, f) /\ f.subject = s.name
<1> DEFINE m == input.manifest
           verdict == Evaluate(m, s, "component_entry", "any")
<1>1. f.subject = s.name
  BY SubjectOfCandidate
<1>2. s.kind \in ComponentKinds => ComponentIsParsed(m, s)
  BY DEF SubjectIsParsed, ComponentKinds
<1>3. ASSUME s.kind \in {"activity", "service", "receiver"}, s.effective = "true"
      PROVE  /\ verdict.status = "unprotected" => Enters(s, "component_entry", "any", Nothing)
             /\ ~Closed(verdict) => Enters(s, "component_entry", "any", MayObtain)
             /\ verdict.status # "strongly_protected" =>
                    Enters(s, "component_entry", "any", MayObtain)
  <2>1. ComponentIsParsed(m, s)
    BY <1>2, <1>3 DEF ComponentKinds
  <2> QED
    BY <1>3, <2>1, EntryReached
<1>4. CASE r \in ExposureRules
  <2>1. s.kind \in {"activity", "service", "receiver"} /\ s.kind # "provider"
    BY <1>4, KindOfRule
  <2>2. ComponentCandidates(r, m, s) # {}
    BY <1>4, CandidatesOfRule
  <2>3. s.effective = "true" /\ verdict.status = "unprotected"
    BY <1>4, <2>1, <2>2, ComponentCandidatesAre
  <2>4. Enters(s, "component_entry", "any", Nothing)
    BY <1>3, <2>1, <2>3, Zenon
  <2> QED
    BY <1>1, <1>4, <2>4, WithinReachIs
<1>5. CASE r \in FlowRules \cup {RouteRule}
  <2>1. s.kind \in {"activity", "service", "receiver"}
    BY <1>5, KindOfRule
  <2>2. s.effective = "true" /\ ~Closed(verdict)
    <3>1. CASE r \in FlowRules
      <4>1. f \in FlowCandidates(r, m, s)
        BY <3>1, CandidatesOfRule
      <4> QED
        BY <4>1, FlowCandidatesAre
    <3>2. CASE r = RouteRule
      <4>1. f \in RouteCandidates(r, m, s)
        BY <3>2, CandidatesOfRule
      <4> QED
        BY <4>1 DEF RouteCandidates
    <3> QED
      BY <1>5, <3>1, <3>2
  <2>3. Enters(s, "component_entry", "any", MayObtain)
    BY <1>3, <2>1, <2>2, Zenon
  <2> QED
    BY <1>1, <1>5, <2>3, WithinReachIs
<1>6. CASE r = BinderRule
  <2>1. s.kind \in {"activity", "service", "receiver"}
    BY <1>6, KindOfRule
  <2>2. s.effective = "true" /\ verdict.status # "strongly_protected"
    BY <1>6 DEF OpenToBinder
  <2>3. Enters(s, "component_entry", "any", MayObtain)
    BY <1>3, <2>1, <2>2, Zenon
  <2> QED
    BY <1>1, <1>6, <2>3, WithinReachIs
<1>7. CASE r = ReadWriteRule
  <2>1. s.kind = "provider" /\ ComponentIsParsed(m, s)
    BY <1>2, <1>7, KindOfRule DEF ComponentKinds
  <2>2. ComponentCandidates(r, m, s) # {}
    BY <1>7, CandidatesOfRule
  <2>3. s.effective = "true" /\ Evaluate(m, s, "provider_access", "any").status # "strongly_protected"
    BY <1>7, <2>1, <2>2, ComponentCandidatesAre
  <2>4. ~Closed(Evaluate(m, s, "provider_access", "any"))
    BY <2>3 DEF Closed
  <2>5. "provider_access" \in ProviderOperations
    BY DEF ProviderOperations
  <2>6. Enters(s, "provider_access", "any", MayObtain) \/ UriGrant(s, s.paths)
    BY <2>1, <2>3, <2>4, <2>5, ProviderReached
  <2> QED
    BY <1>1, <1>7, <2>6, WithinReachIs
<1>8. CASE r \in ProviderRules
  <2>1. s.kind = "provider" /\ ComponentIsParsed(m, s)
    BY <1>2, <1>8, KindOfRule DEF ComponentKinds
  <2>2. f \in ProviderCandidates(r, m, s)
    BY <1>8, CandidatesOfRule
  <2>3. Enters(s, f.chain[1], "any", MayObtain) \/ UriGrant(s, s.paths)
    BY <2>1, <2>2, ProviderCandidateReached
  <2> QED
    BY <1>1, <1>8, <2>3, WithinReachIs
<1>9. CASE r = RegistrationRule
  <2>1. s.kind = "registration" /\ f \in RegistrationCandidates(r, m, s)
    BY <1>9, KindOfRule, CandidatesOfRule
  <2>2. \/ RegistrationOpen(s, MayObtain)
        \/ UnknownCall(s) /\ "RECEIVER_FLAG_UNKNOWN" \in f.gaps
    BY <2>1, ReportedRegistration
  <2> QED
    BY <1>1, <1>9, <2>2, WithinReachIs
<1>10. CASE r \notin ExposureRules \cup FlowRules \cup ProviderRules
                       \cup {BinderRule, RouteRule, ReadWriteRule, RegistrationRule}
  BY <1>1, <1>10, WithinReachIs
<1> QED
  BY <1>4, <1>5, <1>6, <1>7, <1>8, <1>9, <1>10

-----------------------------------------------------------------------------
(***************************************************************************)
(* What is exposed, and what the rules leave of it.                         *)
(***************************************************************************)

LEMMA ExposedIs ==
    ASSUME NEW r, NEW s
    PROVE  /\ r \in ExposureRules =>
                (Exposed(r, s) <=> Enters(s, "component_entry", "any", Nothing))
           /\ r = ReadWriteRule =>
                (Exposed(r, s) <=> Enters(s, "provider_access", "any", Obtainable))
           /\ r \in FlowRules =>
                (Exposed(r, s) <=>
                    /\ Enters(s, "component_entry", "any", Obtainable)
                    /\ Unguarded(s.chains) # {})
           /\ r = RouteRule =>
                (Exposed(r, s) <=>
                    Enters(s, "component_entry", "any", Obtainable) /\ Launches(s) # {})
           /\ r = BinderRule =>
                (Exposed(r, s) <=>
                    /\ Enters(s, "component_entry", "any", Obtainable)
                    /\ OpenTransactions(s) # {})
           /\ r \in ProviderRules =>
                (Exposed(r, s) <=>
                    \E e \in s.entries : \E h \in Unguarded(ProviderChains(r, e)) :
                        Enters(s, Operation(e), Mode(e, h), Obtainable))
           /\ r = RegistrationRule => (Exposed(r, s) <=> RegistrationOpen(s, Obtainable))
           /\ r \notin ExposureRules \cup FlowRules \cup ProviderRules
                       \cup {BinderRule, RouteRule, ReadWriteRule, RegistrationRule} =>
                ~Exposed(r, s)
<1> DEFINE a == Enters(s, "component_entry", "any", Nothing)
           b == Enters(s, "provider_access", "any", Obtainable)
           d == Enters(s, "component_entry", "any", Obtainable) /\ Unguarded(s.chains) # {}
           e == /\ Enters(s, "component_entry", "any", Obtainable)
                /\ \E x \in s.routes : x.id \in Reached(s) /\ x.launch /\ (x.target \/ x.bulk)
           g == Enters(s, "component_entry", "any", Obtainable) /\ OpenTransactions(s) # {}
           k == \E y \in s.entries : \E h \in Unguarded(ProviderChains(r, y)) :
                    Enters(s, Operation(y), Mode(y, h), Obtainable)
           o == RegistrationOpen(s, Obtainable)
<1>1. Exposed(r, s) =
        CASE r \in ExposureRules -> a
          [] r = ReadWriteRule -> b
          [] r \in FlowRules -> d
          [] r = RouteRule -> e
          [] r = BinderRule -> g
          [] r \in ProviderRules -> k
          [] r = RegistrationRule -> o
          [] OTHER -> FALSE
  BY DEF Exposed, RouteRule, ReadWriteRule, RegistrationRule
<1>2. e <=> Enters(s, "component_entry", "any", Obtainable) /\ Launches(s) # {}
  BY DEF Launches
<1> HIDE DEF a, b, d, e, g, k, o
<1>3. /\ r \in ExposureRules => r \notin FlowRules \cup {BinderRule, RouteRule} \cup ProviderRules
                                         \cup {ReadWriteRule, RegistrationRule}
      /\ r \in FlowRules =>
            r \notin ProviderRules \cup {BinderRule, RouteRule, ReadWriteRule, RegistrationRule}
      /\ r \in ProviderRules => r \notin {BinderRule, RouteRule, ReadWriteRule, RegistrationRule}
      /\ r \in {BinderRule, RouteRule, ReadWriteRule, RegistrationRule} =>
            r \notin ExposureRules \cup FlowRules \cup ProviderRules
      /\ ReadWriteRule # RegistrationRule /\ ReadWriteRule # RouteRule /\ ReadWriteRule # BinderRule
      /\ RouteRule # BinderRule /\ RouteRule # RegistrationRule /\ BinderRule # RegistrationRule
  BY DEF ExposureRules, FlowRules, ProviderRules, BinderRule, RouteRule, ReadWriteRule,
         RegistrationRule
<1>4. r \in ExposureRules => (Exposed(r, s) <=> a)
  BY <1>1, <1>3
<1>5. r = ReadWriteRule => (Exposed(r, s) <=> b)
  BY <1>1, <1>3
<1>6. r \in FlowRules => (Exposed(r, s) <=> d)
  BY <1>1, <1>3
<1>7. r = RouteRule => (Exposed(r, s) <=> e)
  BY <1>1, <1>3
<1>8. r = BinderRule => (Exposed(r, s) <=> g)
  BY <1>1, <1>3
<1>9. r \in ProviderRules => (Exposed(r, s) <=> k)
  BY <1>1, <1>3
<1>10. r = RegistrationRule => (Exposed(r, s) <=> o)
  BY <1>1, <1>3
<1>11. r \notin ExposureRules \cup FlowRules \cup ProviderRules
                       \cup {BinderRule, RouteRule, ReadWriteRule, RegistrationRule} =>
                ~Exposed(r, s)
  BY <1>1
<1> QED
  BY <1>2, <1>4, <1>5, <1>6, <1>7, <1>8, <1>9, <1>10, <1>11 DEF a, b, d, g, k, o

LEMMA NoBlindSpot ==
    ASSUME NEW r, NEW s, ~BlindSpot(r, s)
    PROVE  /\ r = RegistrationRule => ~(ProtectedOnly(s) /\ s.elsewhere)
           /\ r # RegistrationRule =>
                /\ s.effective = "true"
                /\ r = "RECEIVER_EXPORTED_NO_PERMISSION" => ~ProtectedActionsOnly(s)
                /\ \A p \in s.paths : \A d \in {"read", "write"} :
                      OwnPermission(p, d) \in DOMAIN input.manifest.declared \cup {None}
                /\ s.entry # "beyond"
                /\ \A e \in s.entries : e.name # "call" /\ e.at # "beyond"
                /\ r = BinderRule =>
                      /\ s.binder.onBind /\ s.binder.type # "unresolved"
                      /\ \A tx \in OpenTransactions(s) :
                            ~(tx.text /\ Bound(tx) /\ DispatchGaps(tx) # {})
<1>1. r = RegistrationRule => ~(ProtectedOnly(s) /\ s.elsewhere)
  BY DEF BlindSpot, RegistrationRule
<1>2. r # RegistrationRule =>
                /\ s.effective = "true"
                /\ r = "RECEIVER_EXPORTED_NO_PERMISSION" => ~ProtectedActionsOnly(s)
                /\ \A p \in s.paths : \A d \in {"read", "write"} :
                      OwnPermission(p, d) \in DOMAIN input.manifest.declared \cup {None}
                /\ s.entry # "beyond"
                /\ \A e \in s.entries : e.name # "call" /\ e.at # "beyond"
                /\ r = BinderRule =>
                      /\ s.binder.onBind /\ s.binder.type # "unresolved"
                      /\ \A tx \in OpenTransactions(s) :
                            ~(tx.text /\ Bound(tx) /\ DispatchGaps(tx) # {})
  BY DEF BlindSpot, RegistrationRule
<1> QED
  BY <1>1, <1>2

\* Of a component with an entry that is not an alias: an app that can start it
\* meets no strong verdict.
LEMMA OpenEntry ==
    ASSUME NEW s, Proper(input.manifest), ComponentIsParsed(input.manifest, s),
           s.effective = "true", s.kind \in {"activity", "service", "receiver"}, s.aliasOf = None
    PROVE  LET verdict == Evaluate(input.manifest, s, "component_entry", "any")
           IN  /\ Enters(s, "component_entry", "any", Nothing) => verdict.status = "unprotected"
               /\ Enters(s, "component_entry", "any", Obtainable) =>
                    verdict.status # "strongly_protected" /\ ~Closed(verdict)
<1> DEFINE m == input.manifest
           verdict == Evaluate(m, s, "component_entry", "any")
<1>1. /\ Has(m, Nothing, Required(m, s.raw)) => verdict.status = "unprotected"
      /\ Has(m, Obtainable, Required(m, s.raw)) => verdict.status # "strongly_protected"
  BY EntryVerdict, Zenon
<1>2. \A levels : Enters(s, "component_entry", "any", levels) =>
                    Has(m, levels, Required(m, s.raw))
  BY EntersByPermission, Zenon
<1>3. Closed(verdict) => verdict.status = "strongly_protected"
  BY DEF Closed
<1> HIDE DEF verdict, m
<1>4. /\ Enters(s, "component_entry", "any", Nothing) => verdict.status = "unprotected"
      /\ Enters(s, "component_entry", "any", Obtainable) =>
            verdict.status # "strongly_protected" /\ ~Closed(verdict)
  BY <1>1, <1>2, <1>3, Zenon
<1> QED
  BY <1>4 DEF verdict, m

\* A component that is neither missing in the index nor a blind spot.
LEMMA InTheIndex ==
    ASSUME NEW s, ComponentIsParsed(input.manifest, s), s.kind \in ComponentKinds,
           s.effective = "true", ~MissingClass(s)
    PROVE  s.indexed /\ ~s.nested /\ s.aliasOf = None
BY DEF ComponentIsParsed, MissingClass, ComponentKinds

LEMMA ScopeIsFound ==
    ASSUME NEW m, NEW s, ComponentIsParsed(m, s), s.indexed, ~s.nested, s.entry # "beyond",
           s.chains # {} \/ s.routes # {}
    PROVE  Scope(s).files
<1>1. s.entry \in {"own", "base"}
  BY DEF ComponentIsParsed
<1> QED
  BY <1>1 DEF Scope

LEMMA ExposureLeft ==
    ASSUME NEW r \in ExposureRules, NEW s, Proper(input.manifest),
           SubjectIsParsed(input.manifest, s), s.kind = Kind(r),
           Exposed(r, s), ~BlindSpot(r, s), ~MissingClass(s)
    PROVE  CandidatesOf(r, input.manifest, s) # {}
<1>1. /\ s.kind \in {"activity", "service", "receiver"} /\ s.kind # "provider"
      /\ s.kind \in ComponentKinds /\ ComponentIsParsed(input.manifest, s)
  BY KindOfRule DEF SubjectIsParsed, ComponentKinds
<1>2. r # RegistrationRule /\ (s.kind = "receiver" => r = "RECEIVER_EXPORTED_NO_PERMISSION")
  BY DEF ExposureRules, RegistrationRule, Kind
<1>3. s.effective = "true" /\ (s.kind = "receiver" => ~ProtectedActionsOnly(s))
  BY <1>2, NoBlindSpot
<1>4. s.aliasOf = None
  BY <1>1, <1>3, InTheIndex
<1>5. Enters(s, "component_entry", "any", Nothing)
  BY ExposedIs
<1>6. Evaluate(input.manifest, s, "component_entry", "any").status = "unprotected"
  BY <1>1, <1>3, <1>4, <1>5, OpenEntry
<1> QED
  BY <1>1, <1>3, <1>6, ComponentCandidatesAre, CandidatesOfRule

LEMMA FlowLeft ==
    ASSUME NEW r \in FlowRules \cup {RouteRule}, NEW s, Proper(input.manifest),
           SubjectIsParsed(input.manifest, s), s.kind = Kind(r),
           Exposed(r, s), ~BlindSpot(r, s), ~MissingClass(s)
    PROVE  CandidatesOf(r, input.manifest, s) # {}
<1> DEFINE m == input.manifest
           verdict == Evaluate(m, s, "component_entry", "any")
<1>1. /\ s.kind \in {"activity", "service", "receiver"} /\ s.kind \in ComponentKinds
      /\ ComponentIsParsed(m, s)
  BY KindOfRule DEF SubjectIsParsed, ComponentKinds
<1>2. r # RegistrationRule
  BY DEF FlowRules, RouteRule, RegistrationRule
<1>3. s.effective = "true" /\ s.entry # "beyond"
  BY <1>2, NoBlindSpot
<1>4. s.indexed /\ ~s.nested /\ s.aliasOf = None
  BY <1>1, <1>3, InTheIndex
<1>5. Enters(s, "component_entry", "any", Obtainable)
  BY ExposedIs
<1>6. ~Closed(verdict)
  BY <1>1, <1>3, <1>4, <1>5, OpenEntry
<1> HIDE DEF verdict
<1>7. CASE r \in FlowRules
  <2>1. PICK h \in s.chains : h.guard # "present_effective"
    BY <1>7, ExposedIs DEF Unguarded
  <2>2. Scope(s).files
    BY <1>1, <1>3, <1>4, <2>1, ScopeIsFound
  <2>3. FlowChains(s) = s.chains
    BY <2>1 DEF FlowChains
  <2>4. h \in {x \in FlowChains(s) : x.guard # "present_effective"}
    BY <2>1, <2>3
  <2>5. Candidate(r, s, h.id, "L2", FlowVerified(m, s, h), FlowGaps(m, s, h)) \in
            FlowCandidates(r, m, s)
    BY <1>3, <1>6, <2>2, <2>4, FlowCandidatesAre DEF verdict
  <2> QED
    BY <1>7, <2>5, CandidatesOfRule
<1>8. CASE r = RouteRule
  <2>1. PICK x \in Launches(s) : TRUE
    BY <1>8, ExposedIs
  <2>2. s.routes # {}
    BY <2>1 DEF Launches
  <2>3. Scope(s).files
    BY <1>1, <1>3, <1>4, <2>2, ScopeIsFound
  <2>4. Candidate(r, s, x.id, IF x.explicit = "unregistered" THEN "L1" ELSE "L2",
                  FALSE, LaunchGaps(x)) \in RouteCandidates(r, m, s)
    BY <1>3, <1>6, <2>1, <2>3 DEF RouteCandidates, verdict
  <2> QED
    BY <1>8, <2>4, CandidatesOfRule
<1> QED
  BY <1>7, <1>8

LEMMA AccessLeft ==
    ASSUME NEW s, Proper(input.manifest), SubjectIsParsed(input.manifest, s),
           s.kind = "provider", Exposed(ReadWriteRule, s), ~BlindSpot(ReadWriteRule, s)
    PROVE  CandidatesOf(ReadWriteRule, input.manifest, s) # {}
<1> DEFINE m == input.manifest
           operation == "provider_access"
<1>1. ComponentIsParsed(m, s)
  BY DEF SubjectIsParsed
<1>2. ReadWriteRule # RegistrationRule
  BY DEF ReadWriteRule, RegistrationRule
<1>3. /\ s.effective = "true"
      /\ \A p \in s.paths : \A d \in {"read", "write"} :
                      OwnPermission(p, d) \in DOMAIN m.declared \cup {None}
  BY <1>2, NoBlindSpot
<1>4. Admits(m, s.raw, operation, "any", Obtainable)
  BY ExposedIs, EntersIs
<1>5. operation \in ProviderOperations \ {"call"}
  BY DEF ProviderOperations
<1> HIDE DEF operation
<1>6. Evaluate(m, s, operation, "any").status # "strongly_protected"
  BY <1>1, <1>3, <1>4, <1>5, ReachableProviderIsOpen
<1> QED
  BY <1>3, <1>6, ComponentCandidatesAre, CandidatesOfRule DEF operation

LEMMA EntryLeft ==
    ASSUME NEW r \in ProviderRules, NEW s, Proper(input.manifest),
           SubjectIsParsed(input.manifest, s), s.kind = "provider",
           Exposed(r, s), ~BlindSpot(r, s), ~MissingClass(s)
    PROVE  CandidatesOf(r, input.manifest, s) # {}
<1> DEFINE m == input.manifest
<1>1. ComponentIsParsed(m, s) /\ s.kind \in ComponentKinds
  BY DEF SubjectIsParsed, ComponentKinds
<1>2. r # RegistrationRule
  BY DEF ProviderRules, RegistrationRule
<1>3. /\ s.effective = "true"
      /\ \A p \in s.paths : \A d \in {"read", "write"} :
                      OwnPermission(p, d) \in DOMAIN m.declared \cup {None}
      /\ \A e \in s.entries : e.name # "call" /\ e.at # "beyond"
  BY <1>2, NoBlindSpot
<1>4. s.indexed
  BY <1>1, <1>3, InTheIndex
<1>5. PICK e \in s.entries : \E h \in Unguarded(ProviderChains(r, e)) :
                                Enters(s, Operation(e), Mode(e, h), Obtainable)
  BY ExposedIs
<1>6. PICK h \in ProviderChains(r, e) :
            h.guard # "present_effective" /\ Enters(s, Operation(e), Mode(e, h), Obtainable)
  BY <1>5 DEF Unguarded
<1>7. e.name \in Mutations \cup {"query"} /\ e.at \in {"own", "base", "beyond"}
  BY <1>1 DEF ComponentIsParsed
<1>8. e \in EntryScopes(s)
  BY <1>3, <1>4, <1>7 DEF EntryScopes
<1>9. Operation(e) \in ProviderOperations \ {"call"}
  BY <1>3, <1>7, OperationOfEntry
<1>10. Admits(m, s.raw, Operation(e), Mode(e, h), Obtainable)
  BY <1>6, EntersIs
<1>11. Evaluate(m, s, Operation(e), Mode(e, h)).status # "strongly_protected"
  BY <1>1, <1>3, <1>9, <1>10, ReachableProviderIsOpen
<1>12. ~Closed(EntryVerdictOf(m, s, e, h))
  BY <1>11 DEF Closed, EntryVerdictOf
<1>13. Candidate(r, s, <<e.name, h.id>>, "L2", EntryVerified(r, m, s, e, h), EntryGaps(m, s, e, h))
          \in OfEntry(r, m, s, e)
  BY <1>6, <1>12 DEF OfEntry
<1>14. ProviderCandidates(r, m, s) # {}
  BY <1>3, <1>8, <1>13, ProviderCandidatesAre
<1> QED
  BY <1>14, CandidatesOfRule

\* A transaction that is not bound to one implementation has a critical gap, of
\* the transaction and of the component.
LEMMA UnboundHasGaps ==
    ASSUME NEW tx, ~Bound(tx)
    PROVE  Critical(BindingGap(tx) \cup DispatchGaps(tx)) # {}
<1> DEFINE sure == tx.token \/ Dispatched(tx)
<1>1. BindingGap(tx) = IF ~sure \/ Bound(tx) THEN {}
                       ELSE {IF Fitting(tx) > 1 THEN "BINDER_IMPLEMENTATION_AMBIGUOUS"
                             ELSE "BINDER_IMPLEMENTATION_UNRESOLVED"}
  BY DEF BindingGap
<1>2. ~sure => "BINDER_DISPATCH_TARGET_UNRESOLVED" \in DispatchGaps(tx)
  BY DEF DispatchGaps
<1> HIDE DEF sure
<1>3. sure => \/ "BINDER_IMPLEMENTATION_AMBIGUOUS" \in BindingGap(tx)
              \/ "BINDER_IMPLEMENTATION_UNRESOLVED" \in BindingGap(tx)
  BY <1>1
<1>4. /\ "BINDER_DISPATCH_TARGET_UNRESOLVED" \notin NonCritical
      /\ "BINDER_IMPLEMENTATION_AMBIGUOUS" \notin NonCritical
      /\ "BINDER_IMPLEMENTATION_UNRESOLVED" \notin NonCritical
  BY DEF NonCritical
<1> QED
  BY <1>2, <1>3, <1>4 DEF Critical

LEMMA GapsOfTransaction ==
    ASSUME NEW c, NEW tx \in Transactions(c.binder)
    PROVE  /\ BindingGap(tx) \subseteq BinderGaps(c)
           /\ ~Bound(tx) => DispatchGaps(tx) \subseteq BinderGaps(c)
<1> DEFINE of(y) == BindingGap(y) \cup
                    (IF Bound(y) THEN DispatchGaps(y) \ Dispatch ELSE DispatchGaps(y))
<1>1. UNION {of(y) : y \in Transactions(c.binder)} \subseteq BinderGaps(c)
  BY DEF BinderGaps
<1>2. of(tx) \subseteq BinderGaps(c)
  <2> HIDE DEF of
  <2> QED
    BY <1>1
<1> QED
  BY <1>2

LEMMA TypeGapOf ==
    ASSUME NEW c
    PROVE  /\ c.binder.type = "resolved" =>
                TypeGap(c.binder) = {} /\ Transactions(c.binder) = c.binder.transactions
           /\ c.binder.type = "ambiguous" => Critical(BinderGaps(c)) # {}
<1>1. c.binder.type = "resolved" =>
                TypeGap(c.binder) = {} /\ Transactions(c.binder) = c.binder.transactions
  BY DEF TypeGap, Transactions
<1>2. ASSUME c.binder.type = "ambiguous" PROVE Critical(BinderGaps(c)) # {}
  <2>1. "BINDER_RETURN_TYPE_AMBIGUOUS" \in TypeGap(c.binder)
    BY <1>2 DEF TypeGap
  <2>2. "BINDER_RETURN_TYPE_AMBIGUOUS" \in BinderGaps(c)
    BY <2>1 DEF BinderGaps
  <2> QED
    BY <2>2 DEF Critical, NonCritical
<1> QED
  BY <1>1, <1>2

\* An open transaction leaves a chain that is not dismissed, or a critical gap.
LEMMA OpenTransactionLeft ==
    ASSUME NEW c, c.binder.type = "resolved", NEW tx \in OpenTransactions(c),
           ~(tx.text /\ Bound(tx) /\ DispatchGaps(tx) # {}),
           \A h \in tx.chains : h.flow # "critical_gap"
    PROVE  \/ \E h \in TransactionChains(c, tx) : ~Dismissed(c, tx, h)
           \/ Critical(BinderGaps(c)) # {}
<1>1. /\ tx \in Transactions(c.binder) /\ TypeGap(c.binder) = {}
      /\ tx.common # "present_effective" /\ tx.case # "present_effective"
  BY TypeGapOf DEF OpenTransactions
<1>2. PICK h \in tx.chains : h.guard # "present_effective"
  BY DEF OpenTransactions, Unguarded
<1>3. TransactionGaps(c, tx) = DispatchGaps(tx) \cup BindingGap(tx)
  BY <1>1 DEF TransactionGaps, Critical
<1>4. CASE Bound(tx)
  <2>1. h \in TransactionChains(c, tx)
    BY <1>2, <1>4 DEF TransactionChains
  <2>2. BindingGap(tx) = {}
    BY <1>4 DEF BindingGap
  <2>3. ~Dismissed(c, tx, h)
    BY <1>1, <1>2, <1>3, <1>4, <2>2 DEF Dismissed
  <2> QED
    BY <2>1, <2>3
<1>5. CASE ~Bound(tx)
  <2> DEFINE codes == TransactionGaps(c, tx)
             mark == [id |-> <<"gap", tx.code>>, effect |-> FALSE, guard |-> "unknown",
                      gaps |-> codes, flow |-> "critical_gap"]
  <2>1. codes # {} /\ Critical(BindingGap(tx) \cup DispatchGaps(tx)) # {}
    BY <1>3, <1>5, UnboundHasGaps DEF Critical
  <2>2. TransactionChains(c, tx) = {mark}
    BY <1>5, <2>1 DEF TransactionChains
  <2>3. mark.guard = "unknown" /\ mark.flow = "critical_gap"
    OBVIOUS
  <2> HIDE DEF mark, codes
  <2>4. CASE ~tx.text
    <3>1. ~Dismissed(c, tx, mark)
      BY <1>1, <2>3, <2>4 DEF Dismissed
    <3> QED
      BY <2>2, <3>1
  <2>5. CASE tx.text
    <3>1. BindingGap(tx) \cup DispatchGaps(tx) \subseteq BinderGaps(c)
      BY <1>1, <1>5, GapsOfTransaction
    <3> QED
      BY <2>1, <3>1 DEF Critical
  <2> QED
    BY <2>4, <2>5
<1> QED
  BY <1>4, <1>5

LEMMA BinderLeft ==
    ASSUME NEW s, Proper(input.manifest),
           SubjectIsParsed(input.manifest, s), s.kind = "service",
           Exposed(BinderRule, s), ~BlindSpot(BinderRule, s), ~MissingClass(s)
    PROVE  /\ OpenToBinder(s)
           /\ \/ CandidatesOf(BinderRule, input.manifest, s) # {}
              \/ Critical(BinderGaps(s)) # {}
<1> DEFINE m == input.manifest
           verdict == Evaluate(m, s, "component_entry", "any")
           r == BinderRule
<1>1. /\ s.kind \in {"activity", "service", "receiver"} /\ s.kind \in ComponentKinds
      /\ ComponentIsParsed(m, s)
  BY DEF SubjectIsParsed, ComponentKinds
<1>2. r # RegistrationRule
  BY DEF BinderRule, RegistrationRule
<1>3. /\ s.effective = "true" /\ s.binder.onBind /\ s.binder.type # "unresolved"
      /\ \A tx \in OpenTransactions(s) : ~(tx.text /\ Bound(tx) /\ DispatchGaps(tx) # {})
  BY <1>2, NoBlindSpot
<1>4. s.indexed /\ s.aliasOf = None
  BY <1>1, <1>3, InTheIndex
<1>5. Enters(s, "component_entry", "any", Obtainable)
  BY ExposedIs
<1>6. verdict.status # "strongly_protected" /\ ~Closed(verdict)
  BY <1>1, <1>3, <1>4, <1>5, OpenEntry
<1>7. OpenToBinder(s)
  BY <1>3, <1>6 DEF OpenToBinder
<1> HIDE DEF verdict
<1>8. s.binder.type \in {"resolved", "ambiguous"}
  BY <1>1, <1>3 DEF ComponentIsParsed
<1>9. CASE s.binder.type = "ambiguous"
  BY <1>7, <1>9, TypeGapOf
<1>10. CASE s.binder.type = "resolved"
  <2>1. PICK tx \in OpenTransactions(s) : TRUE
    BY ExposedIs
  <2>2. tx \in Transactions(s.binder) /\ \A h \in tx.chains : h.flow # "critical_gap"
    BY <1>1, <1>10, TypeGapOf DEF OpenTransactions, ComponentIsParsed
  <2>3. \/ \E h \in TransactionChains(s, tx) : ~Dismissed(s, tx, h)
        \/ Critical(BinderGaps(s)) # {}
    BY <1>3, <1>10, <2>2, OpenTransactionLeft
  <2>4. ASSUME NEW h \in TransactionChains(s, tx), ~Dismissed(s, tx, h)
        PROVE  CandidatesOf(r, m, s) # {}
    <3>1. Candidate(r, s, h.id, "L2", h.effect /\ Critical(BinderChainGaps(m, s, tx, h)) = {},
                    BinderChainGaps(m, s, tx, h)) \in OfTransaction(r, m, s, tx)
      BY <2>4 DEF OfTransaction
    <3>2. BinderCandidates(r, m, s) # {}
      BY <1>3, <1>4, <1>6, <2>2, <3>1, BinderCandidatesAre DEF verdict
    <3> QED
      BY <3>2, CandidatesOfRule
  <2> QED
    BY <1>7, <2>3, <2>4
<1> QED
  BY <1>8, <1>9, <1>10

LEMMA OpenRegistrationStatus ==
    ASSUME NEW s, s.family # "local_broadcast",
           Overload(s) # << >> /\ Overload(s)[2] # 0 => "NOT_EXPORTED" \notin s.flags
    PROVE  FlagStatus(s) \notin {"local", "not_exported"}
<1>1. CASE Overload(s) # << >> /\ Overload(s)[2] = 0
  <2>1. FlagStatus(s) = "legacy_unspecified"
    BY <1>1 DEF FlagStatus
  <2> QED
    BY <2>1
<1>2. CASE Overload(s) = << >>
  BY <1>2, RegistrationFlags
<1>3. CASE Overload(s) # << >> /\ Overload(s)[2] # 0
  <2>1. FlagStatus(s) # "not_exported"
    BY <1>3, RegistrationFlags
  <2>2. FlagStatus(s) # "local"
    <3> DEFINE rest == CASE {"EXPORTED", "NOT_EXPORTED"} \subseteq s.flags -> "unknown"
                         [] s.flags \cap {"EXPORTED", "NOT_EXPORTED"} = {"NOT_EXPORTED"} -> "not_exported"
                         [] s.flags \cap {"EXPORTED", "NOT_EXPORTED"} = {"EXPORTED"} -> "exported"
                         [] OTHER -> "unknown"
    <3>1. FlagStatus(s) = IF s.flags = {"opaque"} THEN "unknown" ELSE rest
      BY <1>3 DEF FlagStatus
    <3>2. rest # "local"
      OBVIOUS
    <3> HIDE DEF rest
    <3> QED
      BY <3>1, <3>2
  <2> QED
    BY <2>1, <2>2
<1> QED
  BY <1>1, <1>2, <1>3

LEMMA RegistrationLeft ==
    ASSUME NEW s, Proper(input.manifest), SubjectIsParsed(input.manifest, s),
           s.kind = "registration", Exposed(RegistrationRule, s), ~BlindSpot(RegistrationRule, s)
    PROVE  CandidatesOf(RegistrationRule, input.manifest, s) # {}
<1> DEFINE m == input.manifest
           r == RegistrationRule
           place == OverloadOf(s.family, s.args)
           v == RegistrationVerdict(m, s)
           codes == v.gaps \cup TargetGap(s) \cup s.gaps
           effects == IF s.target \in {"exact", "simple_name"} THEN s.effects ELSE {}
           complete == /\ v.reachable = "yes" /\ "plain" \in s.actions
                       /\ effects # {} /\ codes = {}
           made == CASE ~v.reported -> {}
                     [] v.reported /\ complete -> {Candidate(r, s, e, "L2", TRUE, {}) : e \in effects}
                     [] OTHER -> {Candidate(r, s, "registration", "L1", FALSE, codes)}
<1>1. /\ s.family \in {"platform_context", "context_compat"} /\ ~s.sticky
      /\ place[2] # 0 => "NOT_EXPORTED" \notin s.flags
      /\ s.actions \cap {"plain", "opaque"} # {} \/ s.elsewhere
      /\ place[1] # 0 => s.permission = "opaque" \/ Has(m, Obtainable, s.permission)
  BY ExposedIs DEF RegistrationOpen
<1>2. Overload(s) # << >> => Overload(s) = place
  BY PlacesOfOverload
<1> HIDE DEF place
<1>3. ~ProtectedOnly(s)
  <2>1. ~(ProtectedOnly(s) /\ s.elsewhere)
    BY NoBlindSpot
  <2>2. s.actions \subseteq {"protected"} => s.actions \cap {"plain", "opaque"} = {}
    OBVIOUS
  <2> QED
    BY <1>1, <2>1, <2>2 DEF ProtectedOnly
<1>4. FlagStatus(s) \notin {"local", "not_exported"}
  BY <1>1, <1>2, OpenRegistrationStatus
<1>5. Reachable(s, FlagStatus(s)) # "no"
  BY <1>3, <1>4, ReachableIs
<1>6. PermissionStatus(m, s) # "strongly_protected"
  <2>1. CASE Overload(s) = << >>
    BY <2>1 DEF PermissionStatus
  <2>2. CASE Overload(s) # << >>
    BY <1>1, <1>2, <2>2, PermissionOfRegistration
  <2> QED
    BY <2>1, <2>2
<1>7. v.reported
  <2>1. v.reported <=>
            /\ s.family # "application_method" /\ ~s.sticky /\ Reachable(s, FlagStatus(s)) # "no"
            /\ PermissionStatus(m, s) # "strongly_protected"
    BY VerdictOnRegistration, Zenon
  <2>2. s.family # "application_method"
    BY <1>1
  <2> QED
    BY <1>1, <1>5, <1>6, <2>1, <2>2, Zenon
<1>8. RegistrationCandidates(r, m, s) = made
  BY DEF RegistrationCandidates
<1>9. made # {}
  <2> HIDE DEF v, codes, effects
  <2> QED
    BY <1>7
<1> QED
  BY <1>8, <1>9, CandidatesOfRule

\* What an ordinary app can reach and the code does not overlook leaves a candidate
\* of the rule, a critical gap of a Binder, or no class in the index.
LEMMA ExposedLeavesTrace ==
    ASSUME NEW r, NEW s, Proper(input.manifest), SubjectIsParsed(input.manifest, s),
           s.kind = Kind(r), Exposed(r, s), ~BlindSpot(r, s), ~MissingClass(s)
    PROVE  /\ r = BinderRule => OpenToBinder(s)
           /\ \/ CandidatesOf(r, input.manifest, s) # {}
              \/ r = BinderRule /\ Critical(BinderGaps(s)) # {}
<1>0. BinderRule \notin ExposureRules \cup FlowRules \cup ProviderRules
                        \cup {RouteRule, ReadWriteRule, RegistrationRule}
  BY DEF ExposureRules, FlowRules, ProviderRules, BinderRule, RouteRule, ReadWriteRule,
         RegistrationRule
<1>1. CASE r \in ExposureRules
  BY <1>0, <1>1, ExposureLeft
<1>2. CASE r \in FlowRules \cup {RouteRule}
  BY <1>0, <1>2, FlowLeft
<1>3. CASE r = BinderRule
  BY <1>3, BinderLeft, KindOfRule
<1>4. CASE r = ReadWriteRule
  BY <1>0, <1>4, AccessLeft, KindOfRule
<1>5. CASE r \in ProviderRules
  BY <1>0, <1>5, EntryLeft, KindOfRule
<1>6. CASE r = RegistrationRule
  BY <1>0, <1>6, RegistrationLeft, KindOfRule
<1>7. CASE r \notin ExposureRules \cup FlowRules \cup ProviderRules
                       \cup {BinderRule, RouteRule, ReadWriteRule, RegistrationRule}
  BY <1>7, ExposedIs
<1> QED
  BY <1>1, <1>2, <1>3, <1>4, <1>5, <1>6, <1>7

-----------------------------------------------------------------------------
(***************************************************************************)
(* GroundInv: the candidates of a process, of a result and of the answer    *)
(* are of the rule's own subjects, and the gaps of a service are noted.     *)
(***************************************************************************)

\* What a rule can have found: candidates of its subjects.
Made(r) == UNION {CandidatesOf(r, input.manifest, s) : s \in ToSet(Subjects(r))}

\* A service with a note on it, that it was not analysed or what its gaps are.
Noted(notes, s) ==
    \E n \in notes : n.subject = s.name /\ (n.status # "completed" \/ BinderGaps(s) \subseteq n.gaps)

Grounded(r, p, res) ==
    /\ ToSet(p.left) \subseteq ToSet(Subjects(r))
    /\ p.found \subseteq Made(r) /\ res.found \subseteq Made(r)
    /\ r = BinderRule /\ p.state = "running" =>
         \A s \in ToSet(Subjects(r)) : s \in ToSet(p.left) \/ Noted(p.notes, s)
    /\ r = BinderRule /\ p.state \in {"ended", "collected"} =>
         res.status = "failed" \/ \A s \in ToSet(Subjects(r)) : Noted(res.notes, s)

InputGiven == \E family \in Scenarios : input \in family

AnswerGrounded ==
    stage = "done" =>
        \A r \in RuleNames :
            /\ Reported(r) \subseteq Made(r)
            /\ r = BinderRule =>
                 \/ \E i \in DOMAIN answer.failures : answer.failures[i] = r
                 \/ \A s \in ToSet(Subjects(r)) : Critical(BinderGaps(s)) # {} =>
                        \E g \in answer.gaps : g.rule = r /\ g.subject = s.name

RulesGrounded == \A r \in RuleNames : Grounded(r, proc[r], result[r])

GroundInv == InputGiven /\ RulesGrounded /\ AnswerGrounded
-----------------------------------------------------------------------------
LEMMA GroundedStays ==
    ASSUME input' = input
    PROVE  /\ RuleNames' = RuleNames
           /\ \A r : Subjects(r)' = Subjects(r) /\ Made(r)' = Made(r)
           /\ \A r, p, res : Grounded(r, p, res)' <=> Grounded(r, p, res)
           /\ InputGiven => InputGiven'
<1>1. RuleNames' = RuleNames
  BY DEF RuleNames
<1>2. \A r : Subjects(r)' = Subjects(r)
  BY SubjectsStay
<1>3. \A r : Made(r)' = Made(r)
  BY <1>2 DEF Made
<1>4. \A r, p, res : Grounded(r, p, res)' <=> Grounded(r, p, res)
  BY <1>2, <1>3 DEF Grounded, Noted
<1>5. InputGiven => InputGiven'
  BY DEF InputGiven
<1> QED
  BY <1>1, <1>2, <1>3, <1>4, <1>5

LEMMA AnswerGroundedStays ==
    ASSUME AnswerGrounded, input' = input, answer' = answer, stage' = "done" => stage = "done"
    PROVE  AnswerGrounded'
<1>1. /\ RuleNames' = RuleNames
      /\ \A r : Subjects(r)' = Subjects(r) /\ Made(r)' = Made(r)
  BY GroundedStays
<1>2. \A r : Reported(r)' = Reported(r)
  BY DEF Reported
<1> QED
  BY <1>1, <1>2 DEF AnswerGrounded

LEMMA GroundedStep ==
    ASSUME RulesTypes, GroundInv, NEW r \in RuleNames, NEW p, NEW res, Grounded(r, p, res),
           proc' = [proc EXCEPT ![r] = p], result' = [result EXCEPT ![r] = res],
           input' = input, answer' = answer, stage' = stage
    PROVE  GroundInv'
<1>1. /\ RuleNames' = RuleNames /\ InputGiven'
      /\ \A q, x, y : Grounded(q, x, y)' <=> Grounded(q, x, y)
  BY GroundedStays DEF GroundInv
<1>2. \A q \in RuleNames : q # r => proc'[q] = proc[q] /\ result'[q] = result[q]
  BY DEF RulesTypes
<1>3. proc'[r] = p /\ result'[r] = res
  BY DEF RulesTypes
<1>4. ASSUME NEW q \in RuleNames PROVE Grounded(q, proc'[q], result'[q])
  BY <1>2, <1>3 DEF GroundInv, RulesGrounded
<1>5. RulesGrounded'
  <2>1. \A q : Grounded(q, proc[q], result[q])' <=> Grounded(q, proc'[q], result'[q])
    <3>1. \A q : Subjects(q)' = Subjects(q) /\ Made(q)' = Made(q)
      BY GroundedStays
    <3> QED
      BY <3>1 DEF Grounded, Noted
  <2> QED
    BY <1>1, <1>4, <2>1 DEF RulesGrounded
<1>6. AnswerGrounded'
  BY AnswerGroundedStays DEF GroundInv
<1> QED
  BY <1>1, <1>5, <1>6 DEF GroundInv

LEMMA UnchangedGround ==
    ASSUME GroundInv, UNCHANGED <<input, proc, result, answer>>, stage' = "done" => stage = "done"
    PROVE  GroundInv'
<1>1. /\ RuleNames' = RuleNames /\ InputGiven'
      /\ \A r : Subjects(r)' = Subjects(r) /\ Made(r)' = Made(r)
  BY GroundedStays DEF GroundInv
<1>2. RulesGrounded'
  BY <1>1 DEF GroundInv, RulesGrounded, Grounded, Noted
<1>3. AnswerGrounded'
  BY AnswerGroundedStays DEF GroundInv
<1> QED
  BY <1>1, <1>2, <1>3 DEF GroundInv

LEMMA GroundInitEstablish == RulesInit => GroundInv
<1> SUFFICES ASSUME RulesInit PROVE GroundInv
  OBVIOUS
<1>1. proc = [r \in RuleNames |-> Idle] /\ result = [r \in RuleNames |-> NoResult]
  BY DEF RulesInit, RuleNames
<1>2. Idle.state = "queued" /\ Idle.left = << >> /\ Idle.found = {} /\ NoResult.found = {}
  BY DEF Idle, NoResult
<1>3. ToSet(Idle.left) = {}
  BY <1>2 DEF ToSet
<1>4. \A r \in RuleNames : proc[r] = Idle /\ result[r] = NoResult
  BY <1>1
<1>5. RulesGrounded
  BY <1>2, <1>3, <1>4 DEF RulesGrounded, Grounded
<1> QED
  BY <1>5 DEF RulesInit, GroundInv, InputGiven, AnswerGrounded

LEMMA FieldsOf ==
    ASSUME NEW st, NEW l, NEW f, NEW n, NEW c
    PROVE  /\ Process(st, l, f, n, c).state = st /\ Process(st, l, f, n, c).left = l
           /\ Process(st, l, f, n, c).found = f /\ Process(st, l, f, n, c).notes = n
BY DEF Process

\* A rule whose process is under way, with what its candidates are grounded on.
LEMMA GroundedRule ==
    ASSUME RulesInv, GroundInv, NEW r \in Rules
    PROVE  /\ r \in RuleNames /\ IsProcess(proc[r]) /\ Grounded(r, proc[r], result[r])
           /\ RulesTypes /\ result = [result EXCEPT ![r] = result[r]]
<1>1. r \in RuleNames /\ RulesTypes
  BY DEF RulesInv, RulesTypes, Rules
<1>2. result = [result EXCEPT ![r] = result[r]]
  BY <1>1 DEF RulesTypes
<1> QED
  BY <1>1, <1>2 DEF RulesTypes, GroundInv, RulesGrounded

LEMMA StartGrounded ==
    ASSUME RulesInv, GroundInv, NEW r \in Rules, Start(r)
    PROVE  GroundInv'
<1> DEFINE st == IF r = BinderRule THEN "loading" ELSE "running"
           p == [proc[r] EXCEPT !.state = st, !.left = Subjects(r)]
<1>1. /\ r \in RuleNames /\ IsProcess(proc[r]) /\ Grounded(r, proc[r], result[r])
      /\ RulesTypes /\ result = [result EXCEPT ![r] = result[r]]
  BY GroundedRule
<1>2. /\ proc' = [proc EXCEPT ![r] = p] /\ input' = input /\ stage' = stage /\ answer' = answer
      /\ result' = result
  BY DEF Start
<1>3. st \in {"loading", "running"} /\ (r = BinderRule => st = "loading")
  OBVIOUS
<1> HIDE DEF st
<1>4. p = Process(st, Subjects(r), proc[r].found, proc[r].notes, proc[r].clock)
  BY <1>1, EditStateAndLeft, Zenon
<1> HIDE DEF p
<1>5. p.state = st /\ p.left = Subjects(r) /\ p.found = proc[r].found
  BY <1>4, FieldsOf
<1>6. Grounded(r, p, result[r])
  BY <1>1, <1>3, <1>5 DEF Grounded
<1> QED
  BY <1>1, <1>2, <1>6, GroundedStep

LEMMA LoadGrounded ==
    ASSUME RulesInv, GroundInv, NEW r \in Rules, Load(r)
    PROVE  GroundInv'
<1>1. /\ r \in RuleNames /\ IsProcess(proc[r]) /\ Grounded(r, proc[r], result[r])
      /\ RulesTypes /\ result = [result EXCEPT ![r] = result[r]]
  BY GroundedRule
<1>2. /\ input' = input /\ stage' = stage /\ answer' = answer /\ result' = result
      /\ proc[r].state = "loading"
  BY DEF Load
<1>3. proc[r].left = Subjects(r)
  BY <1>1, <1>2 DEF RulesInv, SubjectsCovered
<1>4. CASE proc' = [proc EXCEPT ![r].state = "running"]
  <2> DEFINE p == [proc[r] EXCEPT !.state = "running"]
  <2>1. p = Process("running", proc[r].left, proc[r].found, proc[r].notes, proc[r].clock)
    BY <1>1, FieldEdits, Zenon
  <2>2. proc' = [proc EXCEPT ![r] = p]
    BY <1>4
  <2> HIDE DEF p
  <2>3. p.state = "running" /\ p.left = proc[r].left /\ p.found = proc[r].found
    BY <2>1, FieldsOf
  <2>4. Grounded(r, p, result[r])
    BY <1>1, <1>3, <2>3 DEF Grounded
  <2> QED
    BY <1>1, <1>2, <2>2, <2>4, GroundedStep
<1>5. CASE proc' = [proc EXCEPT ![r] =
                [@ EXCEPT !.state = "running", !.left = << >>,
                          !.notes = {Note(c, "timeout", {"BINDER_BATCH_TIMEOUT"}) :
                                        c \in ToSet(proc[r].left)}]]
  <2> DEFINE late == {Note(c, "timeout", {"BINDER_BATCH_TIMEOUT"}) : c \in ToSet(proc[r].left)}
             none == << >>
             p == [proc[r] EXCEPT !.state = "running", !.left = none, !.notes = late]
  <2>1. p = Process("running", none, proc[r].found, late, proc[r].clock)
    <3> HIDE DEF late, none
    <3> QED
      BY ONLY <1>1, EditStateLeftAndNotes, Zenon
  <2>2. proc' = [proc EXCEPT ![r] = p]
    BY <1>5
  <2>3. ToSet(none) = {}
    BY DEF ToSet
  <2>4. ASSUME NEW s \in ToSet(Subjects(r)) PROVE Noted(late, s)
    <3> DEFINE n == Note(s, "timeout", {"BINDER_BATCH_TIMEOUT"})
    <3>1. n \in late
      BY <1>3
    <3>2. n.subject = s.name /\ n.status # "completed"
      BY DEF Note
    <3> HIDE DEF n, late
    <3> QED
      BY <3>1, <3>2 DEF Noted
  <2> HIDE DEF p, late, none
  <2>5. p.left = none /\ p.found = proc[r].found /\ p.notes = late /\ p.state = "running"
    BY <2>1, FieldsOf
  <2>6. Grounded(r, p, result[r])
    BY <1>1, <2>3, <2>4, <2>5 DEF Grounded
  <2> QED
    BY <1>1, <1>2, <2>2, <2>6, GroundedStep
<1> QED
  BY <1>4, <1>5 DEF Load

LEMMA NotedGrows ==
    ASSUME NEW n1, NEW n2, n1 \subseteq n2, NEW s, Noted(n1, s)
    PROVE  Noted(n2, s)
BY DEF Noted

\* The process goes on to its next subject.
LEMMA AdvanceGrounded ==
    ASSUME RulesInv, GroundInv, NEW r \in Rules, proc[r].state = "running", proc[r].left # << >>,
           NEW seen, NEW notes, seen \subseteq Made(r), proc[r].notes \subseteq notes,
           r = BinderRule => Noted(notes, Head(proc[r].left)),
           NEW p, p = Process("running", Tail(proc[r].left), seen, notes, proc[r].clock),
           proc' = [proc EXCEPT ![r] = p],
           input' = input, stage' = stage, answer' = answer, result' = result
    PROVE  GroundInv'
<1>1. /\ r \in RuleNames /\ IsProcess(proc[r]) /\ Grounded(r, proc[r], result[r])
      /\ RulesTypes /\ result = [result EXCEPT ![r] = result[r]]
  BY GroundedRule
<1>2. p.state = "running" /\ p.left = Tail(proc[r].left) /\ p.found = seen /\ p.notes = notes
  BY FieldsOf
<1>3. /\ \A s \in ToSet(proc[r].left) : s = Head(proc[r].left) \/ s \in ToSet(Tail(proc[r].left))
      /\ ToSet(Tail(proc[r].left)) \subseteq ToSet(proc[r].left)
  <2>1. proc[r].left \in Seq(ToSet(input.subjects))
    BY <1>1 DEF IsProcess
  <2>2. ASSUME NEW S, NEW s \in Seq(S), s # << >> PROVE ToSet(Tail(s)) \subseteq ToSet(s)
    <3>1. \A i \in DOMAIN Tail(s) : i + 1 \in DOMAIN s /\ Tail(s)[i] = s[i + 1]
      BY <2>2
    <3> QED
      BY <3>1 DEF ToSet
  <2> QED
    BY <2>1, <2>2, HeadAndTail
<1>4. ASSUME NEW s \in ToSet(Subjects(r)), r = BinderRule
      PROVE  s \in ToSet(p.left) \/ Noted(p.notes, s)
  <2>1. s \in ToSet(proc[r].left) \/ Noted(proc[r].notes, s)
    BY <1>1, <1>4 DEF Grounded
  <2>2. CASE Noted(proc[r].notes, s)
    BY <1>2, <2>2, NotedGrows
  <2>3. CASE s \in ToSet(proc[r].left)
    BY <1>2, <1>3, <1>4, <2>3
  <2> QED
    BY <2>1, <2>2, <2>3
<1>5. Grounded(r, p, result[r])
  BY <1>1, <1>2, <1>3, <1>4 DEF Grounded
<1> QED
  BY <1>1, <1>5, GroundedStep

LEMMA HeadIsSubject ==
    ASSUME RulesInv, GroundInv, NEW r \in Rules, proc[r].left # << >>
    PROVE  Head(proc[r].left) \in ToSet(Subjects(r))
<1>1. IsProcess(proc[r]) /\ Grounded(r, proc[r], result[r])
  BY GroundedRule
<1>2. proc[r].left \in Seq(ToSet(input.subjects))
  BY <1>1 DEF IsProcess
<1>3. 1 \in DOMAIN proc[r].left /\ Head(proc[r].left) = proc[r].left[1]
  BY <1>2
<1>4. Head(proc[r].left) \in ToSet(proc[r].left)
  BY <1>3 DEF ToSet
<1> QED
  BY <1>1, <1>4 DEF Grounded

LEMMA AnalyseGrounded ==
    ASSUME RulesInv, GroundInv, NEW r \in Rules, Analyse(r)
    PROVE  GroundInv'
<1> DEFINE c == Head(proc[r].left)
           late == r = BinderRule /\ proc[r].clock >= 1
           note == IF late THEN Note(c, "timeout", {"BINDER_RULE_DEADLINE_EXCEEDED"})
                   ELSE Note(c, "completed", BinderGaps(c))
           seen == proc[r].found
                      \cup (IF late THEN {} ELSE CandidatesOf(r, input.manifest, c))
           notes == IF r = BinderRule THEN proc[r].notes \cup {note} ELSE proc[r].notes
           left == Tail(proc[r].left)
           p == [proc[r] EXCEPT !.left = left, !.found = seen, !.notes = notes]
<1>1. /\ proc[r].state = "running" /\ proc[r].left # << >>
      /\ proc' = [proc EXCEPT ![r] = p]
      /\ input' = input /\ stage' = stage /\ answer' = answer /\ result' = result
  BY DEF Analyse
<1>2. IsProcess(proc[r]) /\ Grounded(r, proc[r], result[r])
  BY GroundedRule
<1>3. proc[r].notes \subseteq notes
  OBVIOUS
<1>4. seen \subseteq Made(r)
  <2>1. c \in ToSet(Subjects(r))
    BY <1>1, HeadIsSubject
  <2>2. CandidatesOf(r, input.manifest, c) \subseteq Made(r)
    BY <2>1 DEF Made
  <2>3. proc[r].found \subseteq Made(r)
    BY <1>2 DEF Grounded
  <2> QED
    BY <2>2, <2>3
<1>5. r = BinderRule => Noted(notes, c)
  <2>1. /\ note.subject = c.name
        /\ note.status # "completed" \/ BinderGaps(c) \subseteq note.gaps
    BY DEF Note
  <2>2. r = BinderRule => note \in notes
    OBVIOUS
  <2> HIDE DEF note, notes, c
  <2> QED
    BY <2>1, <2>2 DEF Noted
<1> HIDE DEF seen, notes, left
<1>6. p = Process(proc[r].state, left, seen, notes, proc[r].clock)
  BY ONLY <1>2, EditLeftFoundAndNotes, Zenon
<1> HIDE DEF p
<1> QED
  BY <1>1, <1>3, <1>4, <1>5, <1>6, AdvanceGrounded DEF left

\* The process is at its end.
LEMMA SettleGrounded ==
    ASSUME RulesInv, GroundInv, NEW r \in Rules, NEW st \in {"ended", "collected"}, NEW res,
           res.found \subseteq Made(r),
           r = BinderRule =>
                res.status = "failed" \/ \A s \in ToSet(Subjects(r)) : Noted(res.notes, s),
           proc' = [proc EXCEPT ![r].state = st], result' = [result EXCEPT ![r] = res],
           input' = input, stage' = stage, answer' = answer
    PROVE  GroundInv'
<1> DEFINE p == [proc[r] EXCEPT !.state = st]
<1>1. /\ r \in RuleNames /\ IsProcess(proc[r]) /\ Grounded(r, proc[r], result[r])
      /\ RulesTypes
  BY GroundedRule
<1>2. proc' = [proc EXCEPT ![r] = p]
  OBVIOUS
<1>3. p = Process(st, proc[r].left, proc[r].found, proc[r].notes, proc[r].clock)
  BY <1>1, FieldEdits, Zenon
<1> HIDE DEF p
<1>4. p.state = st /\ p.left = proc[r].left /\ p.found = proc[r].found
  BY <1>3, FieldsOf
<1>5. Grounded(r, p, res)
  BY <1>1, <1>4 DEF Grounded
<1> QED
  BY <1>1, <1>2, <1>5, GroundedStep

LEMMA FailedIsEmpty == Failed.status = "failed" /\ Failed.found = {}
BY DEF Failed, NoResult

LEMMA ComponentFailsGrounded ==
    ASSUME RulesInv, GroundInv, NEW r \in Rules, ComponentFails(r)
    PROVE  GroundInv'
<1> DEFINE c == Head(proc[r].left)
           note == Note(c, "error", BinderGaps(c) \cup {"BINDER_COMPONENT_ANALYSIS_FAILED"})
           notes == proc[r].notes \cup {note}
           left == Tail(proc[r].left)
           p == [proc[r] EXCEPT !.left = left, !.notes = notes]
<1>1. /\ proc[r].state = "running" /\ proc[r].left # << >>
      /\ input' = input /\ stage' = stage /\ answer' = answer
  BY DEF ComponentFails
<1>2. CASE r = BinderRule
  <2>1. proc' = [proc EXCEPT ![r] = p] /\ result' = result
    BY <1>2 DEF ComponentFails
  <2>2. IsProcess(proc[r]) /\ proc[r].found \subseteq Made(r)
    BY GroundedRule DEF Grounded
  <2>3. Noted(notes, c)
    <3>1. note \in notes /\ note.subject = c.name /\ note.status # "completed"
      BY DEF Note
    <3> HIDE DEF note, notes
    <3> QED
      BY <3>1 DEF Noted
  <2>4. proc[r].notes \subseteq notes
    OBVIOUS
  <2> HIDE DEF notes, left
  <2>5. p = Process(proc[r].state, left, proc[r].found, notes, proc[r].clock)
    BY ONLY <2>2, EditLeftAndNotes, Zenon
  <2> HIDE DEF p
  <2> QED
    BY <1>1, <2>1, <2>2, <2>3, <2>4, <2>5, AdvanceGrounded DEF left
<1>3. CASE r # BinderRule
  <2>1. proc' = [proc EXCEPT ![r].state = "ended"] /\ result' = [result EXCEPT ![r] = Failed]
    BY <1>3 DEF ComponentFails
  <2> QED
    BY <1>1, <2>1, SettleGrounded, FailedIsEmpty
<1> QED
  BY <1>2, <1>3

LEMMA ExitGrounded ==
    ASSUME RulesInv, GroundInv, NEW r \in Rules, Exit(r)
    PROVE  GroundInv'
<1> DEFINE res == [status |-> "completed", found |-> proc[r].found, notes |-> proc[r].notes]
<1>1. /\ proc[r].state = "running" /\ proc[r].left = << >>
      /\ proc' = [proc EXCEPT ![r].state = "ended"] /\ result' = [result EXCEPT ![r] = res]
      /\ input' = input /\ stage' = stage /\ answer' = answer
  BY DEF Exit
<1>2. Grounded(r, proc[r], result[r])
  BY GroundedRule
<1>3. ToSet(proc[r].left) = {}
  BY <1>1 DEF ToSet
<1>4. proc[r].found \subseteq Made(r)
  BY <1>2 DEF Grounded
<1>5. r = BinderRule => \A s \in ToSet(Subjects(r)) : Noted(proc[r].notes, s)
  BY <1>1, <1>2, <1>3 DEF Grounded
<1>6. res.found = proc[r].found /\ res.notes = proc[r].notes
  OBVIOUS
<1> HIDE DEF res
<1> QED
  BY <1>1, <1>4, <1>5, <1>6, SettleGrounded

LEMMA EndGrounded ==
    ASSUME RulesInv, GroundInv, NEW r \in Rules, Kill(r) \/ Breaks(r)
    PROVE  GroundInv'
BY SettleGrounded, FailedIsEmpty DEF Kill, Breaks, End

LEMMA TakeResultGrounded ==
    ASSUME RulesInv, GroundInv, NEW r \in Rules, TakeResult(r)
    PROVE  GroundInv'
<1>1. /\ proc[r].state = "ended" /\ proc' = [proc EXCEPT ![r].state = "collected"]
      /\ input' = input /\ stage' = stage /\ answer' = answer /\ result' = result
  BY DEF TakeResult
<1>2. /\ Grounded(r, proc[r], result[r])
      /\ result = [result EXCEPT ![r] = result[r]]
  BY GroundedRule
<1>3. /\ result[r].found \subseteq Made(r)
      /\ r = BinderRule => \/ result[r].status = "failed"
                           \/ \A s \in ToSet(Subjects(r)) : Noted(result[r].notes, s)
  BY <1>1, <1>2 DEF Grounded
<1> QED
  BY <1>1, <1>2, <1>3, SettleGrounded

LEMMA TickGrounded ==
    ASSUME RulesInv, GroundInv, NEW r \in Rules, Tick(r)
    PROVE  GroundInv'
<1> DEFINE clock == proc[r].clock + 1
           p == [proc[r] EXCEPT !.clock = clock]
<1>1. /\ proc' = [proc EXCEPT ![r] = p]
      /\ input' = input /\ stage' = stage /\ answer' = answer /\ result' = result
  BY DEF Tick
<1>2. /\ r \in RuleNames /\ IsProcess(proc[r]) /\ Grounded(r, proc[r], result[r])
      /\ RulesTypes /\ result = [result EXCEPT ![r] = result[r]]
  BY GroundedRule
<1> HIDE DEF clock
<1>3. p = Process(proc[r].state, proc[r].left, proc[r].found, proc[r].notes, clock)
  BY <1>2, FieldEdits, Zenon
<1> HIDE DEF p
<1>4. /\ p.state = proc[r].state /\ p.left = proc[r].left
      /\ p.found = proc[r].found /\ p.notes = proc[r].notes
  BY <1>3, FieldsOf
<1>5. Grounded(r, p, result[r])
  BY <1>2, <1>4 DEF Grounded
<1> QED
  BY <1>1, <1>2, <1>5, GroundedStep

LEMMA WorkerDiesGrounded ==
    ASSUME GroundInv, NEW r \in Rules, WorkerDies(r)
    PROVE  GroundInv'
<1>1. stage' = "raised" /\ UNCHANGED <<input, proc, result, answer>>
  BY DEF WorkerDies
<1> QED
  BY <1>1, UnchangedGround

LEMMA AggregateGrounded ==
    ASSUME RulesInv, GroundInv, Aggregate
    PROVE  GroundInv'
<1> DEFINE completed == Ended("completed")
           broken == Ended("failed")
<1>1. RulesTypes
  BY DEF RulesInv
<1>2. /\ answer'.failures = broken
      /\ answer'.candidates = [i \in DOMAIN completed |-> <<completed[i], result[completed[i]].found>>]
      /\ answer'.gaps = UNION {Partial(completed[i]) : i \in DOMAIN completed}
      /\ stage' = "done" /\ \A r \in Rules : proc[r].state = "collected"
      /\ UNCHANGED <<input, proc, result>>
  BY <1>1, AnswerOfAggregate
<1>3. \A status : \A k \in Places(status) :
            \E i \in DOMAIN Ended(status) : Ended(status)[i] = input.rules[k]
  BY <1>1, EndedInOrder
<1> HIDE DEF completed, broken
<1>4. ASSUME NEW r \in RuleNames PROVE Reported(r)' \subseteq Made(r)
  <2>1. result[r].found \subseteq Made(r)
    BY DEF GroundInv, RulesGrounded, Grounded
  <2>2. ASSUME NEW e \in ToSet(answer'.candidates), e[1] = r PROVE e[2] \subseteq Made(r)
    <3>1. PICK i \in DOMAIN completed : e = <<completed[i], result[completed[i]].found>>
      BY <1>2 DEF ToSet
    <3> QED
      BY <2>1, <2>2, <3>1
  <2> QED
    BY <2>2 DEF Reported
<1>5. ASSUME NEW r \in RuleNames, r = BinderRule
      PROVE  \/ \E i \in DOMAIN answer'.failures : answer'.failures[i] = r
             \/ \A s \in ToSet(Subjects(r)) : Critical(BinderGaps(s)) # {} =>
                    \E g \in answer'.gaps : g.rule = r /\ g.subject = s.name
  <2>1. proc[r].state = "collected"
    BY <1>1, <1>2 DEF Rules, RulesTypes
  <2>2. PICK k \in DOMAIN input.rules : input.rules[k] = r
    BY DEF RuleNames
  <2>3. result[r].status \in {"failed", "completed"}
    BY <2>1 DEF RulesInv, SubjectsCovered
  <2>4. CASE result[r].status = "failed"
    <3>1. k \in Places("failed")
      BY <2>2, <2>4 DEF Places
    <3> QED
      BY <1>2, <1>3, <2>2, <3>1 DEF broken
  <2>5. CASE result[r].status = "completed"
    <3>1. k \in Places("completed")
      BY <2>2, <2>5 DEF Places
    <3>2. PICK i \in DOMAIN completed : completed[i] = r
      BY <1>3, <2>2, <3>1 DEF completed
    <3>3. Partial(r) \subseteq answer'.gaps
      BY <1>2, <3>2
    <3>4. ASSUME NEW s \in ToSet(Subjects(r)), Critical(BinderGaps(s)) # {}
          PROVE  \E g \in answer'.gaps : g.rule = r /\ g.subject = s.name
      <4>1. Noted(result[r].notes, s)
        BY <1>5, <2>1, <2>5 DEF GroundInv, RulesGrounded, Grounded
      <4>2. PICK n \in result[r].notes :
                n.subject = s.name /\ (n.status # "completed" \/ BinderGaps(s) \subseteq n.gaps)
        BY <4>1 DEF Noted
      <4>3. n.status # "completed" \/ Critical(n.gaps) # {}
        BY <3>4, <4>2 DEF Critical
      <4> DEFINE g == [rule |-> r, subject |-> n.subject, status |-> n.status,
                       gaps |-> Critical(n.gaps)]
      <4>4. g \in Partial(r) /\ g.rule = r /\ g.subject = s.name
        BY <4>2, <4>3 DEF Partial
      <4> HIDE DEF g
      <4> QED
        BY <3>3, <4>4
    <3> QED
      BY <3>4
  <2> QED
    BY <2>3, <2>4, <2>5
<1>6. /\ RuleNames' = RuleNames /\ InputGiven'
      /\ \A r : Subjects(r)' = Subjects(r) /\ Made(r)' = Made(r)
  BY <1>2, GroundedStays DEF GroundInv
<1>7. RulesGrounded'
  BY <1>2, <1>6 DEF GroundInv, RulesGrounded, Grounded, Noted
<1>8. AnswerGrounded'
  BY <1>4, <1>5, <1>6 DEF AnswerGrounded
<1> QED
  BY <1>6, <1>7, <1>8 DEF GroundInv

LEMMA GroundStep == RulesInv /\ GroundInv /\ [RulesNext]_rule_vars => GroundInv'
<1> SUFFICES ASSUME RulesInv, GroundInv, [RulesNext]_rule_vars PROVE GroundInv'
  OBVIOUS
<1>1. ASSUME NEW r \in Rules, RuleStep(r) PROVE GroundInv'
  BY <1>1, StartGrounded, LoadGrounded, AnalyseGrounded, ComponentFailsGrounded, ExitGrounded,
     TickGrounded, EndGrounded, TakeResultGrounded, WorkerDiesGrounded DEF RuleStep
<1>2. CASE Aggregate
  BY <1>2, AggregateGrounded
<1>3. CASE UNCHANGED rule_vars
  <2>1. UNCHANGED <<input, stage, proc, result, answer>>
    BY <1>3 DEF rule_vars
  <2> QED
    BY <2>1, UnchangedGround
<1> QED
  BY <1>1, <1>2, <1>3 DEF RulesNext

\* GroundInv holds in every state of every run of the rules.
THEOREM RulesAreGrounded == RulesSpec => []GroundInv
<1> QED
  BY RulesInvariance, GroundInitEstablish, GroundStep, PTL DEF RulesSpec
-----------------------------------------------------------------------------
\* The subjects of a rule are those of its kind; the Binder rule takes the open ones.
LEMMA MembersOfFiltered ==
    ASSUME NEW S, NEW list \in Seq(S), NEW Chosen, Chosen \subseteq DOMAIN list
    PROVE  ToSet(Picked(list, Chosen)) = {list[k] : k \in Chosen}
<1>1. /\ \A i \in DOMAIN Picked(list, Chosen) : \E k \in Chosen : Picked(list, Chosen)[i] = list[k]
      /\ \A k \in Chosen : \E i \in DOMAIN Picked(list, Chosen) : Picked(list, Chosen)[i] = list[k]
  BY PickedInOrder
<1> QED
  BY <1>1 DEF ToSet

LEMMA SubjectsOfRule ==
    ASSUME RulesTypes, NEW r, NEW s
    PROVE  s \in ToSet(Subjects(r)) <=>
             /\ s \in ToSet(input.subjects) /\ s.kind = Kind(r)
             /\ r = BinderRule => OpenToBinder(s)
<1> DEFINE kind(x) == x.kind = Kind(r)
           open(x) == /\ x.effective = "true"
                      /\ Evaluate(input.manifest, x, "component_entry", "any").status
                           # "strongly_protected"
           K == {i \in DOMAIN input.subjects : kind(input.subjects[i])}
           all == Picked(input.subjects, K)
           O == {i \in DOMAIN all : open(all[i])}
<1>1. input.subjects \in Seq(ToSet(input.subjects))
  BY DEF RulesTypes
<1>2. ToSet(all) = {input.subjects[k] : k \in K}
  BY <1>1, MembersOfFiltered
<1>3. s \in ToSet(all) <=> s \in ToSet(input.subjects) /\ s.kind = Kind(r)
  BY <1>2 DEF ToSet
<1>4. all \in Seq(ToSet(input.subjects))
  BY <1>1, FilteredIsListed
<1>5. Subjects(r) = IF r = BinderRule THEN Picked(all, O) ELSE all
  BY DEF Subjects, Filtered
<1> HIDE DEF all
<1>6. ToSet(Picked(all, O)) = {all[k] : k \in O}
  BY <1>4, MembersOfFiltered
<1>7. s \in ToSet(Picked(all, O)) <=> s \in ToSet(all) /\ open(s)
  BY <1>6 DEF ToSet
<1>8. open(s) <=> OpenToBinder(s)
  BY DEF OpenToBinder
<1> QED
  BY <1>3, <1>5, <1>7, <1>8

\* What is given comes from the parser.
LEMMA InputParsed ==
    ASSUME InputGiven
    PROVE  Proper(input.manifest) /\ \A s \in ToSet(input.subjects) : SubjectIsParsed(input.manifest, s)
<1>1. PICK family \in Scenarios : input \in family
  BY DEF InputGiven
<1> DEFINE Given(x) == /\ None \notin DOMAIN x.manifest.declared \cup DOMAIN Catalog \cup PlatformNames
                       /\ \A s \in ToSet(x.subjects) : SubjectIsParsed(x.manifest, s)
<1>2. \A x \in family : Given(x)
  BY <1>1, ParsedAssumption DEF ParsedAssumption
<1> HIDE DEF Given
<1>3. Given(input)
  BY <1>1, <1>2
<1> QED
  BY <1>3 DEF Given, Proper

LEMMA GroundedIsReachable == RulesInv /\ GroundInv => ReportedIsReachable
<1> SUFFICES ASSUME RulesInv, GroundInv, stage = "done", NEW r \in Rules, NEW f \in Reported(r)
             PROVE  \E s \in ToSet(input.subjects) :
                        s.kind = Kind(r) /\ s.name = f.subject /\ WithinReach(r, s, f)
  BY DEF ReportedIsReachable
<1>1. r \in RuleNames /\ RulesTypes
  BY DEF RulesInv, RulesTypes, Rules
<1>2. f \in Made(r)
  BY <1>1 DEF GroundInv, AnswerGrounded
<1>3. PICK s \in ToSet(Subjects(r)) : f \in CandidatesOf(r, input.manifest, s)
  BY <1>2 DEF Made
<1>4. s \in ToSet(input.subjects) /\ s.kind = Kind(r) /\ (r = BinderRule => OpenToBinder(s))
  BY <1>1, SubjectsOfRule
<1>5. Proper(input.manifest) /\ SubjectIsParsed(input.manifest, s)
  BY <1>4, InputParsed DEF GroundInv
<1>6. WithinReach(r, s, f) /\ f.subject = s.name
  BY <1>3, <1>4, <1>5, ReportedWithin
<1> QED
  BY <1>4, <1>6

LEMMA GroundedIsReported == RulesInv /\ GroundInv => ExposedIsReported
<1> DEFINE kind(r) == {i \in DOMAIN input.subjects : input.subjects[i].kind = Kind(r)}
<1> SUFFICES ASSUME RulesInv, GroundInv, stage = "done", NEW r \in Rules,
                    NEW s \in ToSet(Picked(input.subjects, kind(r))),
                    Exposed(r, s), ~BlindSpot(r, s)
             PROVE  Traced(r, s)
  BY DEF ExposedIsReported, Filtered
<1>1. r \in RuleNames /\ RulesTypes
  BY DEF RulesInv, RulesTypes, Rules
<1>2. s \in ToSet(input.subjects) /\ s.kind = Kind(r)
  <2>1. input.subjects \in Seq(ToSet(input.subjects))
    BY <1>1 DEF RulesTypes
  <2>2. ToSet(Picked(input.subjects, kind(r))) = {input.subjects[k] : k \in kind(r)}
    BY <2>1, MembersOfFiltered
  <2> QED
    BY <2>2 DEF ToSet
<1>3. Proper(input.manifest) /\ SubjectIsParsed(input.manifest, s)
  BY <1>2, InputParsed DEF GroundInv
<1>4. CASE MissingClass(s)
  BY <1>4 DEF Traced
<1>5. CASE ~MissingClass(s)
  <2>1. /\ r = BinderRule => OpenToBinder(s)
        /\ \/ CandidatesOf(r, input.manifest, s) # {}
           \/ r = BinderRule /\ Critical(BinderGaps(s)) # {}
    BY <1>2, <1>3, <1>5, ExposedLeavesTrace
  <2>2. s \in ToSet(Subjects(r))
    BY <1>1, <1>2, <2>1, SubjectsOfRule
  <2>3. \/ \E i \in DOMAIN answer.failures : answer.failures[i] = r
        \/ CandidatesOf(r, input.manifest, s) \subseteq Reported(r)
        \/ \E g \in answer.gaps : g.rule = r /\ g.subject = s.name
    BY <2>2 DEF RulesInv, AnswerIsWhole
  <2>4. CASE CandidatesOf(r, input.manifest, s) # {}
    <3>1. PICK f \in CandidatesOf(r, input.manifest, s) : TRUE
      BY <2>4
    <3>2. f.subject = s.name
      BY SubjectOfCandidate
    <3> QED
      BY <2>3, <3>1, <3>2 DEF Traced
  <2>5. CASE r = BinderRule /\ Critical(BinderGaps(s)) # {}
    <3>1. \/ \E i \in DOMAIN answer.failures : answer.failures[i] = r
          \/ \E g \in answer.gaps : g.rule = r /\ g.subject = s.name
      BY <1>1, <2>2, <2>5 DEF GroundInv, AnswerGrounded
    <3> QED
      BY <3>1 DEF Traced
  <2> QED
    BY <2>1, <2>4, <2>5
<1> QED
  BY <1>4, <1>5

\* Whatever an app can reach by what Android checks, on any application and for
\* every rule, leaves a candidate, a gap or the failure of the rule in run_all's
\* answer, but for the blind spots.
THEOREM ExposureIsReported == RulesSpec => []ExposedIsReported
<1> QED
  BY RulesInvariance, RulesAreGrounded, GroundedIsReported, PTL

\* run_all's answer has no candidate for a component that Android closes to every
\* app that holds no permission of the system.
THEOREM ReportsAreReachable == RulesSpec => []ReportedIsReachable
<1> QED
  BY RulesInvariance, RulesAreGrounded, GroundedIsReachable, PTL

-----------------------------------------------------------------------------
(***************************************************************************)
(* DataFlow, for any locals and keys, any number of steps, any depth and    *)
(* any number of chains.  A fact of the analyzer is held against the value  *)
(* that the run has in the same place.                                      *)
(***************************************************************************)

Trusts == {"trusted", "validated", "maybe_untrusted", "untrusted"}
Lineages == [source : {"intent", "call"}, state : Trusts]
FactsBy(m) == [state : Trusts, ver : 0..m, obj : 0..m + 1, lin : SUBSET Lineages]
FactsOrNone(m) == FactsBy(m) \cup {Absent}
IdsBy(m) == 0..m \cup {TheIntent, Vetted}
ValuesBy(m) == [id : IdsBy(m), obj : 0..m + 1]
FramesBy(m) ==
    [locals : [Locals -> FactsBy(m)], pending : [Locals -> [name : Locals \cup {"none"}, ver : 0..m]],
     line : Nat, control : FactsOrNone(m), scope : [end : Nat, previous : FactsOrNone(m)],
     path_gaps : BOOLEAN, block : Nat, target : Locals, returned : FactsOrNone(m)]
RunFramesBy(m) == [locals : [Locals -> ValuesBy(m)], checks : [Locals -> IdsBy(m)]]

\* A fact that warns of its value, and one that is sure of it.
Warns(f) == Tainted(f.state) /\ \E l \in f.lin : Tainted(l.state)
Sure(f) == \E l \in f.lin : l.state = "untrusted"
Frank(f) == f.state = "untrusted" => Sure(f)

\* A fact that hides no unchecked value, and one that makes none up.  What is in
\* an object of the program's own is told by the object's slots.
Sound(f, v, checked) ==
    /\ f.obj = v.obj
    /\ f.obj = 0 => (v.id \in checked \/ Warns(f))
    /\ f.obj = 1 => /\ v.id = TheIntent /\ f.lin # {}
                    /\ TheIntent \in checked \/ \E l \in f.lin : Tainted(l.state)
    /\ f.obj > 1 => v.id = NotHis
Exact(f, v, his) ==
    /\ Frank(f)
    /\ Sure(f) => f.obj = 1 \/ (f.obj = 0 /\ v.id # NotHis) \/ (f.obj > 1 /\ f.obj \in his)

HisObjects == {o \in Objects : o \in run.open \/ \E k \in Keys : run.heap[o][k] \notin {NotHis, Unset}}

\* A check that still counts is a check of the value that the name has.
ChecksCount(fr, rf) ==
    \A b \in Locals : LET p == fr.pending[b] IN
        p.name # "none" /\ fr.locals[p.name].ver = p.ver => rf.checks[b] = rf.locals[p.name].id

FrameSound(fr, rf, m, checked) ==
    /\ fr \in FramesBy(m) /\ rf \in RunFramesBy(m)
    /\ \A n \in Locals : Sound(fr.locals[n], rf.locals[n], checked)
    /\ ChecksCount(fr, rf)
FrameExact(fr, rf, his) ==
    /\ \A n \in Locals : Exact(fr.locals[n], rf.locals[n], his)
    /\ ~fr.path_gaps => fr.control = Absent /\ fr.scope.previous = Absent

\* What the analyzer reads under a key.
SlotFor(o, k) == IF slots[o][k] # Absent THEN slots[o][k] ELSE slots[o][UNKNOWN_KEY]

ObjectSound(o) ==
    /\ o \in unknown <=> slots[o][UNKNOWN_KEY] # Absent
    /\ \A k \in Slots : slots[o][k].obj = NoObject
    /\ \A k \in Keys :
          /\ \/ run.heap[o][k] \in run.checked /\ ~(run.heap[o][k] = Unset /\ o \in run.open)
             \/ Warns(SlotFor(o, k))
          /\ slots[o][k] # Absent => run.heap[o][k] # Unset \/ o \in run.open
    /\ o \in run.open => Warns(slots[o][UNKNOWN_KEY])
    /\ o > steps + 1 => /\ \A k \in Slots : slots[o][k] = Absent
                        /\ \A k \in Keys : run.heap[o][k] = Unset
ObjectExact(o) ==
    /\ \A k \in Slots : Frank(slots[o][k])
    /\ \A k \in Keys : Sure(slots[o][k]) =>
          run.heap[o][k] \notin {NotHis, Unset} \/ (run.heap[o][k] = Unset /\ o \in run.open)
    /\ Sure(slots[o][UNKNOWN_KEY]) => o \in HisObjects

TheIntentKept ==
    /\ 1 \in unknown /\ 1 \in run.open
    /\ \A k \in Slots : slots[1][k] = Absent
    /\ \A k \in Keys : run.heap[1][k] = Unset

RunTypes ==
    /\ run \in [frames : Seq(RunFramesBy(steps)), away : {Live},
                heap : [Objects -> [Keys -> IdsBy(steps) \cup {Unset}]], open : SUBSET Objects,
                checked : SUBSET (IdsBy(steps) \cup {Unset})]
    /\ {NotHis, Unset, Vetted} \subseteq run.checked

SoundFlow ==
    /\ steps \in 0..MaxSteps
    /\ frames \in Seq(FramesBy(steps)) /\ Len(run.frames) = Len(frames)
    /\ RunTypes
    /\ slots \in [Objects -> [Slots -> FactsOrNone(steps)]] /\ unknown \subseteq Objects
    /\ \A i \in DOMAIN frames : FrameSound(frames[i], run.frames[i], steps, run.checked)
    /\ TheIntentKept
    /\ \A o \in Objects \ {1} : ObjectSound(o)
ExactFlow ==
    /\ \A i \in DOMAIN frames : FrameExact(frames[i], run.frames[i], HisObjects)
    /\ \A o \in Objects \ {1} : ObjectExact(o)

Clear == blurred \subseteq Widening
FlowInv ==
    /\ Clear /\ frames # << >> => SoundFlow
    /\ blurred = {} /\ frames # << >> => ExactFlow
    /\ NothingMissed /\ NothingInvented
-----------------------------------------------------------------------------
(* What merging facts keeps.                                                *)

LEMMA WorstIsThere ==
    ASSUME NEW m, NEW facts \in SUBSET FactsBy(m), facts # {}
    PROVE  /\ \E f \in facts : f.state = WorstState(facts)
           /\ \A f \in facts : TRUST_ORDER[f.state] <= TRUST_ORDER[WorstState(facts)]
<1> DEFINE states == {f.state : f \in facts}
           worst(s) == \A f \in facts : TRUST_ORDER[f.state] <= TRUST_ORDER[s]
<1>1. states # {} /\ states \subseteq Trusts
  BY DEF FactsBy
<1>2. \A s \in Trusts, t \in Trusts :
         /\ TRUST_ORDER[s] \in 0..3
         /\ s = "untrusted" => TRUST_ORDER[t] <= TRUST_ORDER[s]
         /\ s = "maybe_untrusted" /\ t # "untrusted" => TRUST_ORDER[t] <= TRUST_ORDER[s]
         /\ s = "validated" /\ t \in {"trusted", "validated"} => TRUST_ORDER[t] <= TRUST_ORDER[s]
         /\ s = "trusted" /\ t = "trusted" => TRUST_ORDER[t] <= TRUST_ORDER[s]
  BY DEF Trusts, TRUST_ORDER
<1>3. \A f \in facts : f.state \in states
  OBVIOUS
<1>4. \E s \in states : worst(s)
  <2>1. CASE "untrusted" \in states
    BY <2>1, <1>1, <1>2, <1>3
  <2>2. CASE "untrusted" \notin states /\ "maybe_untrusted" \in states
    BY <2>2, <1>1, <1>2, <1>3
  <2>3. CASE "untrusted" \notin states /\ "maybe_untrusted" \notin states /\ "validated" \in states
    <3>1. \A f \in facts : f.state \in {"trusted", "validated"}
      BY <2>3, <1>1, <1>3 DEF Trusts
    <3> QED
      BY <3>1, <2>3, <1>1, <1>2
  <2>4. CASE "untrusted" \notin states /\ "maybe_untrusted" \notin states /\ "validated" \notin states
    <3>1. \A f \in facts : f.state = "trusted"
      BY <2>4, <1>1, <1>3 DEF Trusts
    <3>2. "trusted" \in states
      BY <3>1, <1>1, <1>3
    <3> QED
      BY <3>1, <3>2, <1>1, <1>2
  <2> QED
    BY <2>1, <2>2, <2>3, <2>4
<1>5. WorstState(facts) \in states /\ worst(WorstState(facts))
  <2> HIDE DEF states
  <2>1. WorstState(facts) = CHOOSE s \in states : worst(s)
    BY DEF WorstState, states
  <2> QED
    BY <1>4, <2>1
<1> QED
  BY <1>5

LEMMA TaintWins ==
    ASSUME NEW s \in Trusts, NEW t \in Trusts, TRUST_ORDER[s] <= TRUST_ORDER[t]
    PROVE  /\ Tainted(s) => Tainted(t)
           /\ t = "trusted" => s = "trusted"
BY DEF Trusts, TRUST_ORDER, Tainted

\* Facts put together warn when one of them does, and are sure when one is.
LEMMA MergedFacts ==
    ASSUME NEW m \in Nat, NEW facts \in SUBSET FactsBy(m), facts # {}, NEW o \in 0..m + 1,
           NEW g, g = Fact(WorstState(facts), UNION {f.lin : f \in facts}, o)
    PROVE  /\ g \in FactsBy(m) /\ g.obj = o /\ g.ver = 0
           /\ (\E f \in facts : Warns(f)) => Warns(g)
           /\ Sure(g) => \E f \in facts : Sure(f)
           /\ (\A f \in facts : Frank(f)) => Frank(g)
           /\ \A f \in facts : f.lin \subseteq g.lin
<1>1. PICK w \in facts : w.state = WorstState(facts)
  BY WorstIsThere
<1>2. \A f \in facts : TRUST_ORDER[f.state] <= TRUST_ORDER[WorstState(facts)]
  BY WorstIsThere
<1>3. g.state = WorstState(facts) /\ g.lin = UNION {f.lin : f \in facts} /\ g.obj = o /\ g.ver = 0
  BY DEF Fact
<1>4. g.state \in Trusts /\ g.lin \subseteq Lineages
  BY <1>1, <1>3 DEF FactsBy
<1>5. g \in FactsBy(m)
  BY <1>3, <1>4 DEF FactsBy, Fact
<1>6. \A f \in facts : f.lin \subseteq g.lin
  BY <1>3
<1>7. ASSUME NEW f \in facts, Warns(f) PROVE Warns(g)
  <2>1. Tainted(g.state)
    BY <1>2, <1>3, <1>4, <1>7, TaintWins DEF Warns, FactsBy
  <2> QED
    BY <2>1, <1>6, <1>7 DEF Warns
<1>8. Sure(g) => \E f \in facts : Sure(f)
  BY <1>3 DEF Sure
<1>9. ASSUME \A f \in facts : Frank(f) PROVE Frank(g)
  BY <1>9, <1>1, <1>3, <1>6 DEF Frank, Sure
<1> QED
  BY <1>3, <1>5, <1>6, <1>7, <1>8, <1>9

LEMMA NoneIsNoFact ==
    /\ Absent.state = "none" /\ Absent.obj = 0 /\ Absent.lin = {}
    /\ \A m : Absent \notin FactsBy(m)
    /\ ~Warns(Absent) /\ ~Sure(Absent) /\ Frank(Absent)
BY DEF Absent, FactsBy, Trusts, Warns, Sure, Frank, NoObject, Tainted
-----------------------------------------------------------------------------
(* The facts and the values of one state.                                   *)

LEMMA NumbersApart ==
    /\ MaxSteps \in Nat /\ NotHis = 0 /\ TheIntent = MaxSteps + 1
    /\ Unset = MaxSteps + 2 /\ Vetted = MaxSteps + 3 /\ NoObject = 0
    /\ UNKNOWN_KEY \in Slots /\ UNKNOWN_KEY \notin Keys /\ Keys \subseteq Slots
    /\ Slots = Keys \cup {UNKNOWN_KEY} /\ Keys # {}
    /\ Objects = 1..MaxSteps + 1
BY DataFlowAssumption DEF NotHis, TheIntent, Unset, Vetted, NoObject, Slots, Objects

LEMMA TopIsRight ==
    ASSUME SoundFlow, frames # << >>
    PROVE  /\ Len(frames) \in Nat /\ Len(frames) >= 1 /\ Len(frames) \in DOMAIN frames
           /\ Top = frames[Len(frames)] /\ RunTop = run.frames[Len(frames)]
           /\ FrameSound(Top, RunTop, steps, run.checked)
           /\ Top \in FramesBy(steps) /\ RunTop \in RunFramesBy(steps)
           /\ Back(run) = run /\ Running
           /\ steps \in Nat /\ steps <= MaxSteps
           /\ run.frames \in Seq(RunFramesBy(steps)) /\ Len(run.frames) = Len(frames)
           /\ ExactFlow => FrameExact(Top, RunTop, HisObjects)
<1>1. Len(frames) \in Nat /\ Len(frames) >= 1 /\ Len(frames) \in DOMAIN frames
  BY DEF SoundFlow
<1>2. Top = frames[Len(frames)] /\ RunTop = run.frames[Len(frames)]
  BY DEF Top, RunTop, SoundFlow
<1>3. FrameSound(Top, RunTop, steps, run.checked)
  BY <1>1, <1>2 DEF SoundFlow
<1>4. run.away = Live
  BY DEF SoundFlow, RunTypes
<1>5. Back(run) = run /\ Running
  BY <1>4 DEF Back, Running
<1>6. ExactFlow => FrameExact(Top, RunTop, HisObjects)
  BY <1>1, <1>2 DEF ExactFlow
<1>7. steps \in Nat /\ steps <= MaxSteps
  BY NumbersApart DEF SoundFlow
<1> QED
  BY <1>1, <1>2, <1>3, <1>5, <1>6, <1>7 DEF FrameSound, SoundFlow, RunTypes

LEMMA LocalIsRight ==
    ASSUME SoundFlow, frames # << >>, NEW n \in Locals
    PROVE  /\ Top.locals[n] \in FactsBy(steps) /\ Value(n) \in ValuesBy(steps)
           /\ Sound(Top.locals[n], Value(n), run.checked)
           /\ ExactFlow => Exact(Top.locals[n], Value(n), HisObjects)
           /\ Top.locals[n].obj \in 0..steps + 1 /\ Top.locals[n].obj \in Objects \cup {0}
<1>1. Top.locals[n] \in FactsBy(steps) /\ Value(n) \in ValuesBy(steps)
  BY TopIsRight DEF FramesBy, RunFramesBy, Value
<1>2. Sound(Top.locals[n], Value(n), run.checked)
  BY TopIsRight DEF FrameSound, Value
<1>3. ExactFlow => Exact(Top.locals[n], Value(n), HisObjects)
  BY TopIsRight DEF FrameExact, Value
<1>4. Top.locals[n].obj \in 0..steps + 1
  BY <1>1 DEF FactsBy
<1>5. Top.locals[n].obj \in Objects \cup {0}
  <2>1. ASSUME NEW b \in 0..steps + 1 PROVE b \in 1..MaxSteps + 1 \/ b = 0
    BY <2>1, TopIsRight, NumbersApart
  <2> QED
    BY <1>4, <2>1, NumbersApart
<1> QED
  BY <1>1, <1>2, <1>3, <1>4, <1>5

LEMMA FiniteValues ==
    ASSUME NEW S, IsFiniteSet(S), NEW T, NEW f \in [S -> T]
    PROVE  IsFiniteSet({f[x] : x \in S})
<1> DEFINE U == {f[x] : x \in S}
<1>1. f \in Surjection(S, U)
  BY DEF Surjection
<1> QED
  BY <1>1, FS_Surjection

\* What an object holds.
LEMMA HeldFacts ==
    ASSUME SoundFlow, NEW o \in Objects
    PROVE  /\ Held(o) \in SUBSET FactsBy(steps) /\ IsFiniteSet(Held(o))
           /\ o # 1 /\ Held(o) = {} => o \notin unknown
           /\ \A k \in Slots : slots[o][k] \in FactsOrNone(steps)
           /\ \A k \in Slots : slots[o][k] # Absent => slots[o][k] \in Held(o)
           /\ \A f \in Held(o) : \E k \in Slots : f = slots[o][k]
           /\ Held(1) = {} /\ 1 \in unknown
<1>1. \A k \in Slots : slots[o][k] \in FactsOrNone(steps)
  BY DEF SoundFlow
<1>0. slots[o] \in [Slots -> FactsOrNone(steps)]
  BY DEF SoundFlow
<1>2. Held(o) = {slots[o][k] : k \in Slots} \ {Absent}
  BY NumbersApart DEF Held
<1>3. IsFiniteSet(Held(o))
  <2>1. IsFiniteSet(Slots)
    BY DataFlowAssumption, FS_AddElement, NumbersApart
  <2>2. IsFiniteSet({slots[o][k] : k \in Slots})
    BY <2>1, <1>0, FiniteValues
  <2> QED
    BY <1>2, <2>2, FS_Subset
<1>4. o # 1 /\ Held(o) = {} => o \notin unknown
  BY <1>2, NumbersApart DEF SoundFlow, ObjectSound
<1>5. Held(1) = {} /\ 1 \in unknown
  BY NumbersApart DEF Held, SoundFlow, TheIntentKept
<1> QED
  BY <1>1, <1>2, <1>3, <1>4, <1>5 DEF FactsOrNone

\* What a name stands for in a call: its object as a whole, or its fact.
View(n) == IF Held(Eval(n).obj) # {} THEN ObjectAggregate(Eval(n).obj) ELSE Eval(n)

LEMMA AggregateIsRight ==
    ASSUME SoundFlow, NEW o \in Objects, Held(o) # {}
    PROVE  /\ ObjectAggregate(o) \in FactsBy(steps)
           /\ ObjectAggregate(o).obj = o /\ ObjectAggregate(o).ver = 0
           /\ (\E f \in Held(o) : Warns(f)) => Warns(ObjectAggregate(o))
           /\ Sure(ObjectAggregate(o)) => \E f \in Held(o) : Sure(f)
           /\ (\A f \in Held(o) : Frank(f)) => Frank(ObjectAggregate(o))
<1>1. ObjectAggregate(o) = Fact(WorstState(Held(o)), UNION {f.lin : f \in Held(o)}, o)
  BY NumbersApart DEF ObjectAggregate, Merged
<1>2. Held(o) \in SUBSET FactsBy(steps)
  BY HeldFacts
<1>3. steps \in Nat
  BY NumbersApart DEF SoundFlow
<1>4. CASE o \in 0..steps + 1
  <2> DEFINE g == ObjectAggregate(o)
  <2>1. g = Fact(WorstState(Held(o)), UNION {f.lin : f \in Held(o)}, o)
    BY <1>1
  <2> HIDE DEF g
  <2>2. /\ g \in FactsBy(steps) /\ g.obj = o /\ g.ver = 0
        /\ (\E f \in Held(o) : Warns(f)) => Warns(g)
        /\ Sure(g) => \E f \in Held(o) : Sure(f)
        /\ (\A f \in Held(o) : Frank(f)) => Frank(g)
    BY <2>1, <1>2, <1>3, <1>4, MergedFacts
  <2> QED
    BY <2>2 DEF g
<1>5. CASE o \notin 0..steps + 1
  <2>1. o > steps + 1 /\ o # 1
    BY <1>3, <1>5, NumbersApart
  <2>2. \A k \in Slots : slots[o][k] = Absent
    BY <2>1 DEF SoundFlow, ObjectSound
  <2> QED
    BY <2>2, HeldFacts, NoneIsNoFact
<1> QED
  BY <1>4, <1>5

\* Evaluating a name keeps its object and hides nothing.
LEMMA EvalIsRight ==
    ASSUME SoundFlow, frames # << >>, NEW n \in Locals
    PROVE  /\ Eval(n) \in FactsBy(steps) /\ Eval(n) # Absent
           /\ Eval(n).obj = Value(n).obj /\ Eval(n).obj \in 0..steps + 1
           /\ Eval(n).obj = 0 \/ Eval(n).obj \in Objects
           /\ Eval(n).obj = 1 => Eval(n).state = "maybe_untrusted"
           /\ Sound(Eval(n), Value(n), run.checked)
           /\ ExactFlow => Exact(Eval(n), Value(n), HisObjects)
<1> DEFINE f == Top.locals[n]
           v == Value(n)
<1>0. /\ f \in FactsBy(steps) /\ v \in ValuesBy(steps) /\ Sound(f, v, run.checked)
      /\ ExactFlow => Exact(f, v, HisObjects)
      /\ f.obj \in 0..steps + 1 /\ (f.obj \in Objects \/ f.obj = 0)
      /\ f.obj = v.obj
  <2>1. Sound(f, v, run.checked)
    BY LocalIsRight
  <2> QED
    BY <2>1, LocalIsRight DEF Sound
<1>1. Eval(n) = IF f.obj = NoObject \/ ObjectAggregate(f.obj) = Absent THEN f
                ELSE [ObjectAggregate(f.obj) EXCEPT
                        !.lin = IF ObjectAggregate(f.obj).lin # {} THEN ObjectAggregate(f.obj).lin ELSE f.lin]
  BY DEF Eval
<1> HIDE DEF f, v
<1>2. ASSUME Eval(n) = f, f.obj # 1
      PROVE  /\ Eval(n) \in FactsBy(steps) /\ Eval(n) # Absent
             /\ Eval(n).obj = v.obj /\ Eval(n).obj \in 0..steps + 1
             /\ Eval(n).obj = 0 \/ Eval(n).obj \in Objects
             /\ Eval(n).obj = 1 => Eval(n).state = "maybe_untrusted"
             /\ Sound(Eval(n), v, run.checked)
             /\ ExactFlow => Exact(Eval(n), v, HisObjects)
  BY <1>0, <1>2, NoneIsNoFact
<1>3. CASE f.obj = 0
  BY <1>1, <1>2, <1>3, NumbersApart DEF v
<1>4. CASE f.obj = 1
  <2>1. ObjectAggregate(f.obj) = Fact("maybe_untrusted", {}, 1)
    BY <1>4, HeldFacts, NumbersApart DEF ObjectAggregate, SoundFlow, TheIntentKept
  <2>2. ObjectAggregate(f.obj) # Absent
    BY <2>1, NoneIsNoFact DEF Fact
  <2>3. Eval(n) = Fact("maybe_untrusted", f.lin, 1)
    BY <1>1, <1>4, <2>1, <2>2, NumbersApart DEF Fact
  <2>4. Eval(n) \in FactsBy(steps)
    BY <2>3, <1>0, NumbersApart DEF Fact, FactsBy, Trusts, SoundFlow
  <2>5. Eval(n).obj = 1 /\ Eval(n).lin = f.lin /\ Eval(n).state = "maybe_untrusted"
    BY <2>3 DEF Fact
  <2>6. Sound(Eval(n), v, run.checked)
    BY <2>5, <1>0, <1>4 DEF Sound
  <2>7. ExactFlow => Exact(Eval(n), v, HisObjects)
    BY <2>5, <1>0, <1>4 DEF Exact, Frank, Sure
  <2> QED
    BY <2>4, <2>5, <2>6, <2>7, <1>0, <1>4, NoneIsNoFact, NumbersApart DEF v
<1>5. CASE f.obj # 0 /\ f.obj # 1 /\ Held(f.obj) = {}
  <2>1. f.obj \notin unknown
    BY <1>5, <1>0, HeldFacts
  <2>2. Eval(n) = f
    BY <1>1, <1>5, <2>1 DEF ObjectAggregate
  <2> QED
    BY <1>2, <1>5, <2>2 DEF v
<1>6. CASE f.obj # 0 /\ f.obj # 1 /\ Held(f.obj) # {}
  <2> DEFINE a == ObjectAggregate(f.obj)
  <2>1. /\ a \in FactsBy(steps) /\ a.obj = f.obj
        /\ Sure(a) => \E g \in Held(f.obj) : Sure(g)
        /\ (\A g \in Held(f.obj) : Frank(g)) => Frank(a)
    BY <1>0, <1>6, AggregateIsRight
  <2>2. a # Absent
    BY <2>1, NoneIsNoFact
  <2> DEFINE lin == IF a.lin # {} THEN a.lin ELSE f.lin
  <2>3. Eval(n) = [a EXCEPT !.lin = lin]
    BY <1>1, <1>6, <2>2, NumbersApart
  <2> HIDE DEF a
  <2>4. /\ Eval(n).obj = f.obj /\ Eval(n).state = a.state /\ Eval(n).lin = lin
        /\ Eval(n) \in FactsBy(steps)
    BY <2>1, <2>3, <1>0 DEF FactsBy
  <2>5. Sound(Eval(n), v, run.checked)
    BY <2>4, <1>0, <1>6 DEF Sound
  <2>6. ASSUME ExactFlow PROVE Exact(Eval(n), v, HisObjects)
    <3>1. /\ \A g \in Held(f.obj) : Frank(g)
          /\ \A g \in Held(f.obj) : Sure(g) => f.obj \in HisObjects
      <4>1. ObjectExact(f.obj)
        BY <2>6, <1>0, <1>6 DEF ExactFlow
      <4>2. ASSUME NEW k \in Slots
            PROVE  /\ Frank(slots[f.obj][k])
                   /\ Sure(slots[f.obj][k]) => f.obj \in HisObjects
        BY <4>1, <1>0, <1>6, NumbersApart DEF ObjectExact, HisObjects
      <4> QED
        BY <4>2, <1>0, <1>6, HeldFacts
    <3>2. Frank(Eval(n))
      BY <2>1, <2>4, <3>1 DEF Frank, Sure
    <3>3. ASSUME Sure(Eval(n)) PROVE f.obj \in HisObjects
      <4>1. CASE a.lin # {}
        BY <4>1, <2>1, <2>4, <3>1, <3>3 DEF Sure
      <4>2. CASE a.lin = {}
        BY <4>2, <2>4, <3>3, <1>0, <2>6, <1>6 DEF Sure, Exact
      <4> QED
        BY <4>1, <4>2
    <3>4. f.obj > 1
      BY <1>0, <1>6, NumbersApart
    <3> QED
      BY <3>2, <3>3, <3>4, <2>4 DEF Exact
  <2> QED
    BY <2>4, <2>5, <2>6, <1>0, <1>6, NoneIsNoFact DEF v
<1> QED
  BY <1>3, <1>4, <1>5, <1>6

\* What is seen of a name warns of what is dangerous in it, and is sure only of what
\* is the attacker's.
LEMMA ViewIsRight ==
    ASSUME SoundFlow, frames # << >>, NEW n \in Locals
    PROVE  /\ View(n) \in FactsBy(steps) /\ View(n).obj = Value(n).obj
           /\ Dangerous(Value(n)) => Warns(View(n))
           /\ Sound(View(n), Value(n), run.checked)
           /\ ExactFlow => Exact(View(n), Value(n), HisObjects)
           /\ ExactFlow /\ Sure(View(n)) => Attackers(Value(n))
<1> DEFINE e == Eval(n)
           v == Value(n)
           o == v.obj
<1>0. /\ e \in FactsBy(steps) /\ e.obj = o /\ o \in 0..steps + 1 /\ (o = 0 \/ o \in Objects)
      /\ o = 1 => e.state = "maybe_untrusted"
      /\ Sound(e, v, run.checked)
      /\ ExactFlow => Exact(e, v, HisObjects)
  BY EvalIsRight
<1>1. View(n) = IF Held(o) # {} THEN ObjectAggregate(o) ELSE e
  BY <1>0 DEF View
<1>2. v \in ValuesBy(steps)
  BY LocalIsRight
<1>3. Held(0) = {}
  BY NumbersApart DEF Held
<1>4. {NotHis, Unset, Vetted} \subseteq run.checked /\ run.open \subseteq Objects
  BY DEF SoundFlow, RunTypes
<1>5. Dangerous(v) <=> \/ v.id \notin run.checked
                       \/ o \in run.open /\ (v.id = NotHis \/ v.id \notin run.checked)
                       \/ o # 0 /\ \E k \in Keys : run.heap[o][k] \notin run.checked
  BY NumbersApart DEF Dangerous, Open, HeapOf, Unchecked
<1>6. Attackers(v) <=> \/ v.id # NotHis \/ o \in run.open
                       \/ o # 0 /\ \E k \in Keys : run.heap[o][k] \notin {NotHis, Unset}
  BY NumbersApart DEF Attackers, HeapOf
<1>7. o > 1 => (o \in HisObjects => Attackers(v))
  BY <1>6, NumbersApart DEF HisObjects
<1> HIDE DEF e, v, o
<1>8. CASE o = 0
  <2>1. View(n) = e
    BY <1>1, <1>3, <1>8
  <2>2. Dangerous(v) => v.id \notin run.checked
    BY <1>4, <1>5, <1>8, NumbersApart
  <2>3. Dangerous(v) => Warns(e)
    BY <2>2, <1>0, <1>8 DEF Sound
  <2>4. ExactFlow /\ Sure(e) => Attackers(v)
    BY <1>0, <1>6, <1>8 DEF Exact
  <2> QED
    BY <1>0, <2>1, <2>3, <2>4 DEF e, v, o
<1>9. CASE o = 1
  <2>1. View(n) = e
    BY <1>1, <1>9, HeldFacts, NumbersApart
  <2>2. v.id = TheIntent /\ TheIntent # NotHis
    <3>1. v.id = TheIntent
      BY <1>0, <1>9 DEF Sound
    <3>2. TheIntent # NotHis
      BY NumbersApart
    <3> QED
      BY <3>1, <3>2
  <2>3. \A k \in Keys : run.heap[1][k] = Unset
    BY DEF SoundFlow, TheIntentKept
  <2>4. Dangerous(v) => TheIntent \notin run.checked
    BY <1>4, <1>5, <1>9, <2>2, <2>3
  <2>5. Dangerous(v) => Warns(e)
    BY <2>4, <1>0, <1>9 DEF Sound, Warns, Tainted
  <2>6. Attackers(v)
    BY <1>6, <2>2
  <2> QED
    BY <1>0, <2>1, <2>5, <2>6 DEF e, v, o
<1>10. CASE o > 1
  <2>1. v.id = NotHis
    BY <1>0, <1>10 DEF Sound
  <2>2. o \in Objects /\ o # 1 /\ o # 0
    BY <1>0, <1>10, NumbersApart
  <2>3. ObjectSound(o)
    BY <2>2 DEF SoundFlow
  <2>4. ASSUME Dangerous(v) PROVE \E g \in Held(o) : Warns(g)
    <3>1. CASE o \in run.open
      <4>1. Warns(slots[o][UNKNOWN_KEY])
        BY <2>3, <3>1 DEF ObjectSound
      <4> QED
        BY <4>1, <2>2, HeldFacts, NoneIsNoFact, NumbersApart
    <3>2. CASE o \notin run.open
      <4>1. PICK k \in Keys : run.heap[o][k] \notin run.checked
        BY <3>2, <2>1, <2>4, <1>4, <1>5
      <4>2. Warns(SlotFor(o, k))
        BY <4>1, <2>3 DEF ObjectSound
      <4> QED
        BY <4>2, <2>2, HeldFacts, NoneIsNoFact, NumbersApart DEF SlotFor
    <3> QED
      BY <3>1, <3>2
  <2>5. CASE Held(o) = {}
    <3>1. View(n) = e
      BY <1>1, <2>5
    <3>2. ExactFlow /\ Sure(e) => Attackers(v)
      BY <1>0, <1>7, <1>10 DEF Exact
    <3> QED
      BY <1>0, <2>4, <2>5, <3>1, <3>2 DEF e, v, o
  <2>6. CASE Held(o) # {}
    <3> DEFINE a == ObjectAggregate(o)
    <3>1. /\ a \in FactsBy(steps) /\ a.obj = o
          /\ (\E g \in Held(o) : Warns(g)) => Warns(a)
          /\ Sure(a) => \E g \in Held(o) : Sure(g)
          /\ (\A g \in Held(o) : Frank(g)) => Frank(a)
      BY <2>2, <2>6, AggregateIsRight
    <3>2. View(n) = a
      BY <1>1, <2>6
    <3> HIDE DEF a
    <3>3. Sound(a, v, run.checked)
      BY <3>1, <2>1, <1>10, <2>2 DEF Sound, o
    <3>4. ASSUME ExactFlow
          PROVE  Exact(a, v, HisObjects) /\ (Sure(a) => o \in HisObjects)
      <4>1. ObjectExact(o)
        BY <3>4, <2>2 DEF ExactFlow
      <4>2. ASSUME NEW k \in Slots
            PROVE  /\ Frank(slots[o][k])
                   /\ Sure(slots[o][k]) => o \in HisObjects
        BY <4>1, <2>2, NumbersApart DEF ObjectExact, HisObjects
      <4> QED
        BY <4>2, <2>2, <3>1, <1>10, HeldFacts DEF Exact
    <3> QED
      BY <3>1, <3>2, <3>3, <3>4, <2>4, <1>7, <1>10 DEF v, o
  <2> QED
    BY <2>5, <2>6
<1> QED
  BY <1>0, <1>8, <1>9, <1>10, NumbersApart
-----------------------------------------------------------------------------
(* What an instruction computes from these.                                 *)

\* The result of a call that is not interpreted, when it is given the object that
\* the analyzer takes it for.
LEMMA ResultIsRight ==
    ASSUME SoundFlow, frames # << >>, NEW args \in SUBSET Locals, args # {},
           NEW got, got = Worst({Eval(n) : n \in args}),
           NEW made, made = Derived({Value(n) : n \in args}),
           NEW v \in {made} \cup {w \in {Value(n) : n \in args} : w.obj # NoObject /\ w.obj = got.obj},
           v.obj = got.obj
    PROVE  /\ got \in FactsBy(steps) /\ v \in ValuesBy(steps + 1)
           /\ Sound(got, v, run.checked)
           /\ ExactFlow => Exact(got, v, HisObjects)
<1> DEFINE facts == {View(n) : n \in args}
<1>1. got = Merged(facts, NoObject)
  <2>1. {IF Held(f.obj) # {} THEN ObjectAggregate(f.obj) ELSE f : f \in {Eval(n) : n \in args}} = facts
    BY DEF View
  <2> QED
    BY <2>1 DEF Worst
<1>2. \A n \in args :
        /\ View(n) \in FactsBy(steps) /\ View(n).obj = Value(n).obj
        /\ Dangerous(Value(n)) => Warns(View(n))
        /\ Sound(View(n), Value(n), run.checked)
        /\ ExactFlow => Exact(View(n), Value(n), HisObjects)
        /\ ExactFlow /\ Sure(View(n)) => Attackers(Value(n))
        /\ Value(n) \in ValuesBy(steps)
  BY ViewIsRight, LocalIsRight
<1>3. facts \in SUBSET FactsBy(steps) /\ facts # {} /\ IsFiniteSet(facts)
  <2>1. IsFiniteSet(args)
    BY DataFlowAssumption, FS_Subset
  <2> DEFINE view == [n \in args |-> View(n)]
  <2>2. view \in [args -> FactsBy(steps)]
    BY <1>2
  <2>3. facts = {view[n] : n \in args}
    OBVIOUS
  <2> HIDE DEF view
  <2>4. IsFiniteSet({view[n] : n \in args})
    BY <2>1, <2>2, FiniteValues
  <2> QED
    BY <1>2, <2>3, <2>4
<1>4. steps \in Nat /\ 0 \in 0..steps + 1 /\ {NotHis, Vetted} \subseteq run.checked
  BY NumbersApart DEF SoundFlow, RunTypes
<1>5. /\ made.obj = 0
      /\ made.id = IF \E n \in args : Dangerous(Value(n)) THEN steps + 1
                   ELSE IF \E n \in args : Attackers(Value(n)) THEN Vetted ELSE NotHis
      /\ made = [id |-> made.id, obj |-> 0]
  BY NumbersApart DEF Derived
<1>6. made \in ValuesBy(steps + 1)
  BY <1>4, <1>5, NumbersApart DEF ValuesBy, IdsBy
<1>7. got \in FactsBy(steps)
  <2>1. CASE Cardinality(facts) = 1
    BY <2>1, <1>1, <1>3 DEF Merged
  <2>2. CASE Cardinality(facts) # 1
    <3>1. got = Fact(WorstState(facts), UNION {f.lin : f \in facts}, 0)
      BY <2>2, <1>1, NumbersApart DEF Merged
    <3> HIDE DEF facts
    <3> QED
      BY <3>1, <1>3, <1>4, MergedFacts
  <2> QED
    BY <2>1, <2>2
<1>8. /\ (\E f \in facts : Warns(f)) => Warns(got)
      /\ Sure(got) => \E f \in facts : Sure(f)
      /\ (\A f \in facts : Frank(f)) => Frank(got)
      /\ got.obj # 0 => \A f \in facts : f = got
  <2>1. CASE Cardinality(facts) = 1
    <3>1. got \in facts /\ \A f \in facts : f = got
      <4>1. got = CHOOSE f \in facts : TRUE
        BY <2>1, <1>1 DEF Merged
      <4> HIDE DEF facts
      <4>2. PICK f : facts = {f}
        BY <2>1, <1>3, FS_Singleton
      <4> QED
        BY <4>1, <4>2
    <3> QED
      BY <3>1
  <2>2. CASE Cardinality(facts) # 1
    <3>1. got = Fact(WorstState(facts), UNION {f.lin : f \in facts}, 0)
      BY <2>2, <1>1, NumbersApart DEF Merged
    <3>2. got.obj = 0
      BY <3>1 DEF Fact
    <3> HIDE DEF facts
    <3>3. /\ (\E f \in facts : Warns(f)) => Warns(got)
          /\ Sure(got) => \E f \in facts : Sure(f)
          /\ (\A f \in facts : Frank(f)) => Frank(got)
      BY <3>1, <1>3, <1>4, MergedFacts
    <3> QED
      BY <3>2, <3>3
  <2> QED
    BY <2>1, <2>2
<1>9. CASE got.obj = 0
  <2>1. v = made
    BY <1>9, NumbersApart
  <2>2. v.id \in run.checked \/ Warns(got)
    BY <2>1, <1>2, <1>4, <1>5, <1>8
  <2>3. ASSUME ExactFlow PROVE Exact(got, v, HisObjects)
    <3>1. Frank(got)
      BY <2>3, <1>2, <1>8 DEF Exact
    <3>2. Sure(got) => v.id # NotHis
      BY <2>1, <2>3, <1>2, <1>4, <1>5, <1>8, NumbersApart
    <3> QED
      BY <3>1, <3>2, <1>9 DEF Exact
  <2> QED
    BY <1>6, <1>7, <1>9, <2>1, <2>2, <2>3 DEF Sound
<1>10. CASE got.obj # 0
  <2>1. PICK n \in args : v = Value(n)
    BY <1>5, <1>10
  <2>2. View(n) = got
    BY <1>8, <1>10
  <2>3. v \in ValuesBy(steps + 1)
    BY <1>2, <1>4, <2>1 DEF ValuesBy, IdsBy
  <2> QED
    BY <1>2, <1>7, <2>1, <2>2, <2>3
<1> QED
  BY <1>9, <1>10

\* What a fact is sure of is the attacker's.
LEMMA SureIsHis ==
    ASSUME SoundFlow, frames # << >>, NEW n \in Locals, NEW f,
           f.obj = Value(n).obj, Sound(f, Value(n), run.checked),
           Exact(f, Value(n), HisObjects), Sure(f)
    PROVE  Attackers(Value(n))
<1>1. CASE f.obj = 1
  BY <1>1, NumbersApart DEF Sound, Attackers
<1>2. CASE f.obj = 0
  BY <1>2 DEF Exact, Attackers
<1>3. CASE f.obj # 0 /\ f.obj # 1
  <2>1. f.obj \in HisObjects
    BY <1>3 DEF Exact
  <2> QED
    BY <2>1, <1>3, NumbersApart DEF Attackers, HeapOf, HisObjects
<1> QED
  BY <1>1, <1>2, <1>3

\* What a sink is given: a lineage for each danger, and no untrusted one for what
\* is not the attacker's.
LEMMA ReachingIsRight ==
    ASSUME SoundFlow, frames # << >>, NEW n \in Locals
    PROVE  /\ Dangerous(Value(n)) => Reaching(Eval(n)) # {}
           /\ ExactFlow /\ (\E l \in Reaching(Eval(n)) : l.state = "untrusted") => Attackers(Value(n))
<1> DEFINE e == Eval(n)
           o == e.obj
           candidates == IF Held(o) = {} THEN {e} ELSE Held(o) \cup IF o \in unknown THEN {e} ELSE {}
           lineages(g) == IF g.lin # {} THEN g.lin ELSE Lineage(g.state, {"unknown"})
<1>1. Reaching(e) = {l \in UNION {lineages(g) : g \in candidates} : Tainted(l.state)}
  BY DEF Reaching
<1>2. /\ e \in FactsBy(steps) /\ o = Value(n).obj /\ Sound(e, Value(n), run.checked)
      /\ ExactFlow => Exact(e, Value(n), HisObjects)
      /\ o = 0 \/ o \in Objects
  BY EvalIsRight
<1>3. Dangerous(Value(n)) => Warns(View(n))
  BY ViewIsRight
<1> HIDE DEF e
<1>4. View(n) = IF Held(o) # {} THEN ObjectAggregate(o) ELSE e
  BY DEF View, e
<1>5. ASSUME Dangerous(Value(n)) PROVE Reaching(e) # {}
  <2>1. PICK l \in View(n).lin : Tainted(l.state)
    BY <1>3, <1>5 DEF Warns
  <2>2. \E g \in candidates : l \in g.lin
    <3>1. CASE Held(o) = {}
      BY <3>1, <2>1, <1>4
    <3>2. CASE Held(o) # {}
      <4>1. o \in Objects
        BY <3>2, <1>2, NumbersApart DEF Held
      <4>2. View(n) = Fact(WorstState(Held(o)), UNION {f.lin : f \in Held(o)}, o)
        BY <3>2, <4>1, <1>4, NumbersApart DEF ObjectAggregate, Merged
      <4>3. l \in UNION {f.lin : f \in Held(o)}
        BY <4>2, <2>1 DEF Fact
      <4> QED
        BY <4>3, <3>2
    <3> QED
      BY <3>1, <3>2
  <2>3. \E g \in candidates : l \in lineages(g)
    BY <2>2
  <2> QED
    BY <2>1, <2>3, <1>1
<1>6. ASSUME ExactFlow, NEW l \in Reaching(e), l.state = "untrusted" PROVE Attackers(Value(n))
  <2>1. PICK g \in candidates : l \in lineages(g)
    BY <1>1
  <2>2. CASE g = e
    <3>1. Frank(e)
      BY <1>2, <1>6 DEF Exact
    <3>2. Sure(e)
      BY <3>1, <2>1, <2>2, <1>6 DEF Frank, Sure, Lineage
    <3> QED
      BY <3>2, <1>2, <1>6, SureIsHis
  <2>3. CASE g # e
    <3>1. g \in Held(o) /\ o \in Objects /\ o # 1
      <4>1. g \in Held(o)
        BY <2>1, <2>3
      <4> QED
        <5>1. o # NoObject
          BY <4>1 DEF Held
        <5>2. o \in Objects
          BY <5>1, <1>2, NumbersApart
        <5>3. o # 1
          BY <4>1, <5>2, HeldFacts
        <5> QED
          BY <4>1, <5>2, <5>3
    <3>2. PICK k \in Slots : g = slots[o][k]
      BY <3>1, HeldFacts
    <3>3. ObjectExact(o)
      BY <3>1, <1>6 DEF ExactFlow
    <3>4. Frank(g) /\ (Sure(g) => o \in HisObjects)
      BY <3>1, <3>2, <3>3, NumbersApart DEF ObjectExact, HisObjects
    <3>5. Sure(g)
      BY <3>4, <2>1, <1>6 DEF Frank, Sure, Lineage
    <3>6. o \in HisObjects /\ o # NoObject /\ Value(n).obj = o
      BY <3>1, <3>4, <3>5, <1>2, NumbersApart
    <3> HIDE DEF o
    <3> QED
      BY <3>6 DEF HisObjects, Attackers, HeapOf
  <2> QED
    BY <2>2, <2>3
<1> QED
  BY <1>5, <1>6 DEF e

\* An extra that is read, and what the analyzer takes it for.
LEMMA ReadIsRight ==
    ASSUME SoundFlow, frames # << >>, NEW o \in Locals, NEW k \in Keys,
           NEW r, r = ReadSlot(Eval(o), k), NEW x, x = Extra(Value(o), k)
    PROVE  /\ r \in FactsBy(steps) /\ x \in ValuesBy(steps + 1)
           /\ Sound(r, x, run.checked)
           /\ \/ ~ExactFlow
              \/ /\ Eval(o).obj # NoObject /\ x.id = NotHis
                 /\ slots[Eval(o).obj][k] = Absent /\ slots[Eval(o).obj][UNKNOWN_KEY] # Absent
              \/ Exact(r, x, HisObjects)
<1> DEFINE f == Eval(o)
           v == Value(o)
           b == f.obj
<1>0. /\ f \in FactsBy(steps) /\ b = v.obj /\ (b = 0 \/ b \in Objects)
      /\ b = 1 => f.state = "maybe_untrusted"
      /\ Sound(f, v, run.checked)
      /\ ExactFlow => Exact(f, v, HisObjects)
      /\ v \in ValuesBy(steps)
  BY EvalIsRight, LocalIsRight
<1>1. /\ steps \in Nat /\ {NotHis, Vetted, Unset} \subseteq run.checked /\ run.open \subseteq Objects
      /\ steps <= MaxSteps
  BY NumbersApart DEF SoundFlow, RunTypes
<1>2. r = IF b # 0 /\ slots[b][k] # Absent THEN slots[b][k]
          ELSE IF b # 0 /\ slots[b][UNKNOWN_KEY] # Absent THEN slots[b][UNKNOWN_KEY]
          ELSE IF b # 0 /\ b \notin unknown THEN TrustedFact
          ELSE IF Tainted(f.state) /\ f.lin # {} THEN Fact(f.state, f.lin, 0)
          ELSE f
  BY NumbersApart DEF ReadSlot
<1>3. x = IF b = 0 THEN [id |-> IF Dangerous(v) THEN steps + 1 ELSE IF Attackers(v) THEN Vetted ELSE NotHis,
                         obj |-> 0]
          ELSE IF run.heap[b][k] # Unset THEN [id |-> run.heap[b][k], obj |-> 0]
          ELSE [id |-> IF Open(v) THEN steps + 1 ELSE v.id, obj |-> 0]
  BY <1>0, NumbersApart DEF Extra, Derived
<1>4. b = 0 => (Dangerous(v) <=> v.id \notin run.checked)
  BY <1>0, <1>1, NumbersApart DEF Dangerous, Open, HeapOf, Unchecked
<1>5. b = 0 => (Attackers(v) <=> v.id # NotHis)
  BY <1>0, <1>1, NumbersApart DEF Attackers, HeapOf
<1>6. b # 0 => run.heap[b][k] \in IdsBy(steps) \cup {Unset}
  BY <1>0 DEF SoundFlow, RunTypes
<1>7. x \in ValuesBy(steps + 1) /\ x.obj = 0
  <2>1. v.id \in IdsBy(steps + 1) /\ (b # 0 /\ run.heap[b][k] # Unset => run.heap[b][k] \in IdsBy(steps + 1))
    BY <1>0, <1>1, <1>6 DEF ValuesBy, IdsBy
  <2>2. steps + 1 \in IdsBy(steps + 1) /\ Vetted \in IdsBy(steps + 1) /\ NotHis \in IdsBy(steps + 1)
    BY <1>1, NumbersApart DEF IdsBy
  <2>3. x.obj = 0 /\ x.id \in IdsBy(steps + 1) /\ x = [id |-> x.id, obj |-> x.obj]
    BY <1>3, <2>1, <2>2
  <2> QED
    BY <2>3, <1>1 DEF ValuesBy
<1>8. TrustedFact \in FactsBy(steps) /\ TrustedFact.obj = 0 /\ ~Sure(TrustedFact) /\ Frank(TrustedFact)
  BY <1>1, NumbersApart DEF TrustedFact, Fact, FactsBy, Trusts, Sure, Frank
<1> HIDE DEF f, v, b
<1>9. CASE b = 0 \/ b = 1
  <2>1. b = 1 => \A j \in Slots : slots[1][j] = Absent
    BY DEF SoundFlow, TheIntentKept
  <2>2. r = IF Tainted(f.state) /\ f.lin # {} THEN Fact(f.state, f.lin, 0) ELSE f
    BY <1>2, <1>9, <2>1, NumbersApart DEF SoundFlow, TheIntentKept
  <2>3. b = 1 => Tainted(f.state) /\ f.lin # {}
    BY <1>0 DEF Tainted, Sound, b
  <2>4. /\ r.state = f.state /\ r.lin = f.lin /\ r.obj = 0
        /\ r \in FactsBy(steps)
    <3>1. CASE Tainted(f.state) /\ f.lin # {}
      BY <3>1, <2>2, <1>0, <1>1, NumbersApart DEF Fact, FactsBy
    <3>2. CASE ~(Tainted(f.state) /\ f.lin # {})
      BY <3>2, <2>2, <2>3, <1>0, <1>9 DEF b
    <3> QED
      BY <3>1, <3>2
  <2>5. CASE b = 0
    <3>1. x.id = IF v.id \notin run.checked THEN steps + 1 ELSE IF v.id # NotHis THEN Vetted ELSE NotHis
      BY <2>5, <1>3, <1>4, <1>5
    <3>2. x.id \in run.checked \/ Warns(r)
      BY <3>1, <2>4, <2>5, <1>0, <1>1 DEF Sound, Warns, b
    <3>3. ExactFlow => Exact(r, x, HisObjects)
      BY <3>1, <2>4, <2>5, <1>0, <1>1, NumbersApart DEF Exact, Frank, Sure, b
    <3> QED
      BY <3>2, <3>3, <2>4, <1>7 DEF Sound
  <2>6. CASE b = 1
    <3>1. run.heap[b][k] = Unset /\ b \in run.open
      BY <2>6 DEF SoundFlow, TheIntentKept
    <3>2. v.id = TheIntent
      BY <2>6, <1>0 DEF Sound, b
    <3>3. TheIntent # NotHis
      BY NumbersApart
    <3>4. x.id = IF TheIntent \notin run.checked THEN steps + 1 ELSE TheIntent
      BY <2>6, <3>1, <3>2, <3>3, <1>0, <1>3 DEF Open, Unchecked
    <3>5. x.id \in run.checked \/ Warns(r)
      BY <3>4, <2>3, <2>4, <2>6, <1>0 DEF Sound, Warns, b
    <3>6. x.id # NotHis
      BY <3>3, <3>4, <1>1, NumbersApart
    <3>7. Frank(r)
      BY <2>4, <2>6, <1>0 DEF Frank
    <3> QED
      BY <3>5, <3>6, <3>7, <2>4, <1>7 DEF Sound, Exact
  <2> QED
    BY <1>9, <2>5, <2>6 DEF f, b
<1>10. CASE b # 0 /\ b # 1
  <2>1. b \in Objects /\ ObjectSound(b)
    BY <1>0, <1>10 DEF SoundFlow
  <2>2. r = IF SlotFor(b, k) # Absent THEN SlotFor(b, k) ELSE TrustedFact
    BY <2>1, <1>2, <1>10 DEF SlotFor, ObjectSound
  <2>3. SlotFor(b, k) \in FactsOrNone(steps) /\ SlotFor(b, k).obj = 0
    BY <2>1, HeldFacts, NumbersApart DEF SlotFor, ObjectSound
  <2>4. r \in FactsBy(steps) /\ r.obj = 0
    BY <2>2, <2>3, <1>8 DEF FactsOrNone
  <2>5. v.id = NotHis
    BY <1>0, <1>10, NumbersApart DEF Sound, b
  <2>6. x.id = IF run.heap[b][k] # Unset THEN run.heap[b][k]
               ELSE IF b \in run.open THEN steps + 1 ELSE NotHis
    BY <1>0, <1>3, <1>10, <2>5 DEF Open
  <2>7. x.id \in run.checked \/ Warns(r)
    BY <2>1, <2>2, <2>6, <1>1, NoneIsNoFact DEF ObjectSound
  <2>8. ASSUME ExactFlow, ~(x.id = NotHis /\ slots[b][k] = Absent /\ slots[b][UNKNOWN_KEY] # Absent)
        PROVE  Exact(r, x, HisObjects)
    <3>1. ObjectExact(b)
      BY <2>1, <2>8, <1>10 DEF ExactFlow
    <3>2. Frank(r)
      BY <3>1, <2>2, <1>8, NumbersApart DEF ObjectExact, SlotFor
    <3>3. Sure(r) => x.id # NotHis
      BY <3>1, <2>2, <2>6, <2>8, <1>1, <1>8, NumbersApart DEF ObjectExact, SlotFor
    <3> QED
      BY <3>2, <3>3, <2>4 DEF Exact
  <2> QED
    BY <2>4, <2>7, <2>8, <1>7, <1>10, NumbersApart DEF Sound, f, b
<1> QED
  BY <1>9, <1>10
-----------------------------------------------------------------------------
(* A step that leaves the objects alone.                                    *)

LEMMA FactsGrow ==
    ASSUME NEW m \in Nat, NEW m2 \in Nat, m <= m2
    PROVE  /\ FactsBy(m) \subseteq FactsBy(m2) /\ FactsOrNone(m) \subseteq FactsOrNone(m2)
           /\ IdsBy(m) \subseteq IdsBy(m2) /\ ValuesBy(m) \subseteq ValuesBy(m2)
           /\ FramesBy(m) \subseteq FramesBy(m2) /\ RunFramesBy(m) \subseteq RunFramesBy(m2)
<1>1. FactsBy(m) \subseteq FactsBy(m2)
  BY DEF FactsBy
<1>2. FactsOrNone(m) \subseteq FactsOrNone(m2)
  BY <1>1 DEF FactsOrNone
<1>3. IdsBy(m) \subseteq IdsBy(m2)
  BY DEF IdsBy
<1>4. ValuesBy(m) \subseteq ValuesBy(m2)
  BY <1>3 DEF ValuesBy
<1>5. FramesBy(m) \subseteq FramesBy(m2)
  <2>1. [name : Locals \cup {"none"}, ver : 0..m] \subseteq [name : Locals \cup {"none"}, ver : 0..m2]
    OBVIOUS
  <2>2. [end : Nat, previous : FactsOrNone(m)] \subseteq [end : Nat, previous : FactsOrNone(m2)]
    BY <1>2
  <2> QED
    BY <1>1, <1>2, <2>1, <2>2 DEF FramesBy
<1>6. RunFramesBy(m) \subseteq RunFramesBy(m2)
  BY <1>3, <1>4 DEF RunFramesBy
<1> QED
  BY <1>1, <1>2, <1>3, <1>4, <1>5, <1>6

LEMMA TrustedIsRight ==
    ASSUME NEW m \in Nat, NEW checked, NotHis \in checked, NEW his
    PROVE  /\ TrustedFact \in FactsBy(m) /\ Clean \in ValuesBy(m)
           /\ Sound(TrustedFact, Clean, checked) /\ Exact(TrustedFact, Clean, his)
<1>1. TrustedFact = [state |-> "trusted", ver |-> 0, obj |-> 0, lin |-> {}]
  BY DEF TrustedFact, Fact, NoObject
<1>2. Clean = [id |-> 0, obj |-> 0] /\ 0 \in checked /\ 0 \in IdsBy(m)
  BY DEF Clean, NoObject, NotHis, IdsBy
<1>3. TrustedFact \in FactsBy(m) /\ Clean \in ValuesBy(m)
  BY <1>1, <1>2 DEF FactsBy, Trusts, ValuesBy
<1>4. Sound(TrustedFact, Clean, checked) /\ Exact(TrustedFact, Clean, his)
  BY <1>1, <1>2 DEF Sound, Exact, Frank, Sure
<1> QED
  BY <1>3, <1>4

LEMMA FrameGrows ==
    ASSUME NEW m \in Nat, NEW m2 \in Nat, m <= m2, NEW ch, NEW ch2, ch \subseteq ch2,
           NEW fr, NEW rf, FrameSound(fr, rf, m, ch)
    PROVE  FrameSound(fr, rf, m2, ch2)
<1>1. fr \in FramesBy(m2) /\ rf \in RunFramesBy(m2)
  BY FactsGrow DEF FrameSound
<1>2. \A n \in Locals : Sound(fr.locals[n], rf.locals[n], ch2)
  BY DEF FrameSound, Sound
<1> QED
  BY <1>1, <1>2 DEF FrameSound

NormalRun(stack, checked) ==
    [frames |-> stack, away |-> Live, heap |-> run.heap, open |-> run.open, checked |-> checked]

LEMMA StackStep ==
    ASSUME SoundFlow, NEW stack, NEW checked, run' = NormalRun(stack, checked),
           steps' \in {steps, steps + 1}, steps' <= MaxSteps, UNCHANGED <<slots, unknown>>,
           frames' \in Seq(FramesBy(steps')), stack \in Seq(RunFramesBy(steps')), Len(stack) = Len(frames'),
           run.checked \subseteq checked, checked \subseteq IdsBy(steps') \cup {Unset},
           \A i \in DOMAIN frames' : FrameSound(frames'[i], stack[i], steps', checked)
    PROVE  /\ SoundFlow' /\ HisObjects' = HisObjects
           /\ ExactFlow /\ (\A i \in DOMAIN frames' : FrameExact(frames'[i], stack[i], HisObjects)) => ExactFlow'
<1>1. /\ run'.frames = stack /\ run'.heap = run.heap /\ run'.open = run.open /\ run'.checked = checked
      /\ run'.away = Live /\ slots' = slots /\ unknown' = unknown
  BY DEF NormalRun
<1>2. steps \in Nat /\ steps' \in Nat /\ steps <= steps' /\ steps' \in 0..MaxSteps
  BY NumbersApart DEF SoundFlow
<1>3. RunTypes'
  <2>1. IdsBy(steps) \subseteq IdsBy(steps')
    BY <1>2, FactsGrow
  <2>2. run.heap \in [Objects -> [Keys -> IdsBy(steps') \cup {Unset}]] /\ run.open \in SUBSET Objects
    BY <2>1 DEF SoundFlow, RunTypes
  <2>3. {NotHis, Unset, Vetted} \subseteq checked
    BY DEF SoundFlow, RunTypes
  <2> QED
    BY <2>2, <2>3, <1>1 DEF RunTypes, NormalRun
<1>4. slots' \in [Objects -> [Slots -> FactsOrNone(steps')]] /\ unknown' \subseteq Objects
  <2>1. FactsOrNone(steps) \subseteq FactsOrNone(steps')
    BY <1>2, FactsGrow
  <2> QED
    BY <2>1, <1>1 DEF SoundFlow
<1>5. \A i \in DOMAIN frames' : FrameSound(frames'[i], run'.frames[i], steps', run'.checked)
  BY <1>1
<1>6. TheIntentKept'
  BY <1>1 DEF SoundFlow, TheIntentKept
<1>7. ASSUME NEW o \in Objects \ {1} PROVE ObjectSound(o)'
  <2>1. ObjectSound(o)
    BY DEF SoundFlow
  <2>2. o > steps' + 1 => o > steps + 1
    BY <1>2, NumbersApart
  <2>3. SlotFor(o, UNKNOWN_KEY)' = SlotFor(o, UNKNOWN_KEY) /\ \A k \in Keys : SlotFor(o, k)' = SlotFor(o, k)
    BY <1>1 DEF SlotFor
  <2> QED
    BY <1>1, <2>1, <2>2, <2>3 DEF ObjectSound
<1>8. SoundFlow'
  BY <1>1, <1>2, <1>3, <1>4, <1>5, <1>6, <1>7 DEF SoundFlow
<1>9. HisObjects' = HisObjects
  BY <1>1 DEF HisObjects
<1>10. ASSUME ExactFlow, \A i \in DOMAIN frames' : FrameExact(frames'[i], stack[i], HisObjects)
       PROVE  ExactFlow'
  <2>1. \A o \in Objects \ {1} : ObjectExact(o)'
    BY <1>1, <1>9, <1>10 DEF ExactFlow, ObjectExact
  <2> QED
    BY <2>1, <1>1, <1>9, <1>10 DEF ExactFlow
<1> QED
  BY <1>8, <1>9, <1>10

\* The innermost frame changes.
LEMMA TopStep ==
    ASSUME SoundFlow, frames # << >>, Step, UNCHANGED <<slots, unknown>>,
           NEW g, SetTop(g), NEW h, NEW checked,
           run' = NormalRun([run.frames EXCEPT ![Len(frames)] = h], checked),
           run.checked \subseteq checked, checked \subseteq IdsBy(steps + 1) \cup {Unset},
           FrameSound(g, h, steps + 1, checked)
    PROVE  /\ SoundFlow' /\ frames' # << >>
           /\ ExactFlow /\ FrameExact(g, h, HisObjects) => ExactFlow'
<1> DEFINE stack == [run.frames EXCEPT ![Len(frames)] = h]
<1>1. /\ Len(frames) \in Nat /\ Len(frames) >= 1
      /\ steps \in Nat /\ steps' = steps + 1 /\ steps' <= MaxSteps
      /\ run.frames \in Seq(RunFramesBy(steps)) /\ Len(run.frames) = Len(frames)
  BY TopIsRight, NumbersApart DEF Step
<1>2. frames' = [frames EXCEPT ![Len(frames)] = g] /\ frames \in Seq(FramesBy(steps))
  BY DEF SetTop, SoundFlow
<1>3. FramesBy(steps) \subseteq FramesBy(steps') /\ RunFramesBy(steps) \subseteq RunFramesBy(steps')
  BY <1>1, FactsGrow
<1>4. g \in FramesBy(steps') /\ h \in RunFramesBy(steps')
  BY <1>1 DEF FrameSound
<1>5. frames' \in Seq(FramesBy(steps')) /\ Len(frames') = Len(frames)
  BY <1>1, <1>2, <1>3, <1>4
<1>6. stack \in Seq(RunFramesBy(steps')) /\ Len(stack) = Len(frames)
  BY <1>1, <1>3, <1>4
<1>7. \A i \in DOMAIN frames' :
         /\ i \in DOMAIN frames /\ i \in DOMAIN run.frames
         /\ frames'[i] = IF i = Len(frames) THEN g ELSE frames[i]
         /\ stack[i] = IF i = Len(frames) THEN h ELSE run.frames[i]
  BY <1>1, <1>2, <1>5
<1>8. \A i \in DOMAIN frames' : FrameSound(frames'[i], stack[i], steps', checked)
  <2> SUFFICES ASSUME NEW i \in DOMAIN frames' PROVE FrameSound(frames'[i], stack[i], steps', checked)
    OBVIOUS
  <2>1. CASE i = Len(frames)
    BY <2>1, <1>1, <1>7
  <2>2. CASE i # Len(frames)
    <3>1. FrameSound(frames[i], run.frames[i], steps, run.checked)
      BY <1>7 DEF SoundFlow
    <3>2. FrameSound(frames[i], run.frames[i], steps', checked)
      BY <3>1, <1>1, FrameGrows
    <3> QED
      BY <2>2, <3>2, <1>7
  <2> QED
    BY <2>1, <2>2
<1>9. ExactFlow /\ FrameExact(g, h, HisObjects)
        => \A i \in DOMAIN frames' : FrameExact(frames'[i], stack[i], HisObjects)
  BY <1>7 DEF ExactFlow
<1> HIDE DEF stack
<1>10. run' = NormalRun(stack, checked)
  BY DEF stack
<1>11. Len(stack) = Len(frames') /\ checked \subseteq IdsBy(steps') \cup {Unset}
  BY <1>1, <1>5, <1>6
<1>12. /\ SoundFlow'
       /\ ExactFlow /\ (\A i \in DOMAIN frames' : FrameExact(frames'[i], stack[i], HisObjects)) => ExactFlow'
  BY <1>1, <1>5, <1>6, <1>8, <1>10, <1>11, StackStep
<1>13. frames' # << >>
  BY <1>1, <1>5
<1> QED
  BY <1>9, <1>12, <1>13
-----------------------------------------------------------------------------
(* The instructions that define a name.                                     *)

LEMMA FlowKept ==
    ASSUME FlowInv, frames # << >>, blurred \subseteq blurred', stopped' => gaps' # {},
           Clear' /\ SoundFlow /\ missed' => missed,
           blurred' = {} /\ SoundFlow /\ ExactFlow /\ phantom' => phantom,
           Clear' /\ SoundFlow => SoundFlow' \/ frames' = << >>,
           blurred' = {} /\ SoundFlow /\ ExactFlow => ExactFlow' \/ frames' = << >>
    PROVE  FlowInv'
<1>1. Clear' => Clear
  BY DEF Clear
<1>2. blurred' = {} => blurred = {} /\ Clear
  BY DEF Clear
<1> QED
  BY <1>1, <1>2 DEF FlowInv, NothingMissed, NothingInvented, Clear

LEMMA FrameIsRight ==
    ASSUME SoundFlow, frames # << >>
    PROVE  /\ Frame \in FramesBy(steps)
           /\ Frame.locals = Top.locals /\ Frame.pending = Top.pending /\ Frame.path_gaps = Top.path_gaps
           /\ FrameSound(Frame, RunTop, steps, run.checked)
           /\ ExactFlow => FrameExact(Frame, RunTop, HisObjects)
<1>1. Top \in FramesBy(steps) /\ FrameSound(Top, RunTop, steps, run.checked)
  BY TopIsRight
<1>2. Here \in Nat /\ LeaveBlock(Top) \in FactsOrNone(steps)
  BY <1>1 DEF Here, LeaveBlock, FramesBy
<1>3. Absent \in FactsOrNone(steps)
  BY DEF FactsOrNone
<1> DEFINE scope == IF Here > Top.scope.end THEN [end |-> 0, previous |-> Absent] ELSE Top.scope
           block == IF Here > Top.block THEN 0 ELSE Top.block
<1>4. scope \in [end : Nat, previous : FactsOrNone(steps)] /\ block \in Nat
  BY <1>1, <1>3 DEF FramesBy
<1>5. Frame = [Top EXCEPT !.line = Here, !.control = LeaveBlock(Top), !.scope = scope, !.block = block]
  BY DEF Frame
<1> HIDE DEF scope, block
<1>6. /\ Frame \in FramesBy(steps)
      /\ Frame.locals = Top.locals /\ Frame.pending = Top.pending /\ Frame.path_gaps = Top.path_gaps
      /\ Frame.control = LeaveBlock(Top) /\ Frame.scope = scope
  BY <1>1, <1>2, <1>4, <1>5 DEF FramesBy
<1>7. FrameSound(Frame, RunTop, steps, run.checked)
  BY <1>1, <1>6 DEF FrameSound, ChecksCount
<1>8. ASSUME ExactFlow PROVE FrameExact(Frame, RunTop, HisObjects)
  <2>1. FrameExact(Top, RunTop, HisObjects)
    BY <1>8, TopIsRight
  <2>2. ~Top.path_gaps => LeaveBlock(Top) = Absent /\ scope.previous = Absent
    BY <2>1 DEF FrameExact, LeaveBlock, scope
  <2> QED
    BY <2>1, <2>2, <1>6 DEF FrameExact
<1> QED
  BY <1>6, <1>7, <1>8

RunDefined(rf, t, v) == [locals |-> [rf.locals EXCEPT ![t] = v], checks |-> [rf.checks EXCEPT ![t] = NotHis]]

LEMMA DefinedIsRight ==
    ASSUME NEW m \in Nat, NEW fr, NEW rf, NEW checked, FrameSound(fr, rf, m, checked),
           NEW t \in Locals, NEW f \in FactsBy(m + 1), NEW v \in ValuesBy(m + 1),
           Sound(f, v, checked), fr.pending[t].name = "none", steps = m
    PROVE  /\ FrameSound(Defined(fr, t, f), RunDefined(rf, t, v), m + 1, checked)
           /\ \A his : FrameExact(fr, rf, his) /\ Exact(f, v, his)
                         => FrameExact(Defined(fr, t, f), RunDefined(rf, t, v), his)
<1> DEFINE d == [f EXCEPT !.ver = m + 1]
           g == Defined(fr, t, f)
           h == RunDefined(rf, t, v)
<1>1. fr \in FramesBy(m + 1) /\ rf \in RunFramesBy(m + 1) /\ fr \in FramesBy(m) /\ rf \in RunFramesBy(m)
  BY FactsGrow DEF FrameSound
<1>2. d \in FactsBy(m + 1) /\ d.state = f.state /\ d.lin = f.lin /\ d.obj = f.obj /\ d.ver = m + 1
  BY DEF FactsBy
<1>3. g = [fr EXCEPT !.locals = [fr.locals EXCEPT ![t] = d]]
  BY DEF Defined
<1> HIDE DEF d
<1>4. /\ g \in FramesBy(m + 1) /\ g.locals = [fr.locals EXCEPT ![t] = d]
      /\ g.pending = fr.pending /\ g.path_gaps = fr.path_gaps
      /\ g.control = fr.control /\ g.scope = fr.scope
  <2> DEFINE locals == [fr.locals EXCEPT ![t] = d]
  <2>1. locals \in [Locals -> FactsBy(m + 1)]
    BY <1>1, <1>2 DEF FramesBy
  <2>2. g = [fr EXCEPT !.locals = locals]
    BY <1>3
  <2> HIDE DEF locals, g
  <2>3. g \in FramesBy(m + 1)
    BY <1>1, <2>1, <2>2 DEF FramesBy
  <2>4. /\ g.locals = locals /\ g.pending = fr.pending /\ g.path_gaps = fr.path_gaps
        /\ g.control = fr.control /\ g.scope = fr.scope
    BY <1>1, <2>2 DEF FramesBy
  <2> QED
    BY <2>3, <2>4 DEF locals
<1>5. h \in RunFramesBy(m + 1)
  <2>1. NotHis \in IdsBy(m + 1)
    BY NumbersApart DEF IdsBy
  <2> QED
    BY <1>1, <2>1 DEF RunDefined, RunFramesBy
<1>6. \A n \in Locals : /\ g.locals[n] = IF n = t THEN d ELSE fr.locals[n]
                        /\ h.locals[n] = IF n = t THEN v ELSE rf.locals[n]
                        /\ h.checks[n] = IF n = t THEN NotHis ELSE rf.checks[n]
  BY <1>1, <1>4 DEF FramesBy, RunFramesBy, RunDefined
<1> HIDE DEF g, h
<1>7. Sound(d, v, checked)
  BY <1>2 DEF Sound, Warns
<1>8. \A n \in Locals : Sound(g.locals[n], h.locals[n], checked)
  BY <1>6, <1>7 DEF FrameSound
<1>9. ChecksCount(g, h)
  <2> SUFFICES ASSUME NEW b \in Locals, g.pending[b].name # "none",
                      g.locals[g.pending[b].name].ver = g.pending[b].ver
               PROVE  h.checks[b] = h.locals[g.pending[b].name].id
    BY DEF ChecksCount
  <2> DEFINE p == fr.pending[b]
  <2>1. b # t /\ p = g.pending[b] /\ p.name \in Locals /\ p.ver \in 0..m
    BY <1>1, <1>4 DEF FramesBy
  <2> HIDE DEF p
  <2>2. p.name # t
    BY <2>1, <1>2, <1>6
  <2>3. fr.locals[p.name].ver = p.ver
    BY <2>1, <2>2, <1>6
  <2>4. rf.checks[b] = rf.locals[p.name].id
    BY <2>1, <2>3 DEF p, FrameSound, ChecksCount
  <2> QED
    BY <2>1, <2>2, <2>4, <1>6
<1>10. FrameSound(g, h, m + 1, checked)
  BY <1>4, <1>5, <1>8, <1>9 DEF FrameSound
<1>11. ASSUME NEW his, FrameExact(fr, rf, his), Exact(f, v, his) PROVE FrameExact(g, h, his)
  <2>1. Exact(d, v, his)
    BY <1>2, <1>11 DEF Exact, Frank, Sure
  <2> QED
    BY <2>1, <1>4, <1>6, <1>11 DEF FrameExact
<1> QED
  BY <1>10, <1>11 DEF g, h

DefinedRun(t, v) == NormalRun([run.frames EXCEPT ![Len(frames)] = RunDefined(RunTop, t, v)], run.checked)

Updated(r, j, t, v) == [r EXCEPT !.frames[j].locals[t] = v, !.frames[j].checks[t] = NotHis]

LEMMA DefinedInRun ==
    ASSUME NEW m, NEW stack \in Seq(RunFramesBy(m)), NEW j \in DOMAIN stack, NEW checked,
           NEW r, r = NormalRun(stack, checked), NEW t \in Locals, NEW v
    PROVE  Updated(r, j, t, v) = NormalRun([stack EXCEPT ![j] = RunDefined(stack[j], t, v)], checked)
<1>1. PICK top \in RunFramesBy(m) : stack[j] = top
  OBVIOUS
<1>2. top = [locals |-> top.locals, checks |-> top.checks]
  BY DEF RunFramesBy
<1>3. \A s, u : [NormalRun(s, checked) EXCEPT !.frames = u] = NormalRun(u, checked)
  BY DEF NormalRun
<1> DEFINE named == [top EXCEPT !.locals = [top.locals EXCEPT ![t] = v]]
           first == [stack EXCEPT ![j] = named]
           between == [r EXCEPT !.frames = first]
           both == [named EXCEPT !.checks = [named.checks EXCEPT ![t] = NotHis]]
           second == [first EXCEPT ![j] = both]
<1>4. r.frames = stack /\ r.frames[j] = top
  BY <1>1 DEF NormalRun
<1>5. [r EXCEPT !.frames[j].locals[t] = v] = between
  BY <1>4, Zenon
<1>6. between = NormalRun(first, checked)
  <2> HIDE DEF first
  <2> QED
    BY <1>3
<1>7. between.frames = first /\ first[j] = named
  <2>1. first[j] = named
    <3> HIDE DEF named
    <3> QED
      OBVIOUS
  <2> HIDE DEF between, first, named
  <2> QED
    BY <1>6, <2>1 DEF NormalRun
<1>8. Updated(r, j, t, v) = [between EXCEPT !.frames[j].checks[t] = NotHis]
  <2>1. Updated(r, j, t, v) = [[r EXCEPT !.frames[j].locals[t] = v] EXCEPT !.frames[j].checks[t] = NotHis]
    BY Zenon DEF Updated
  <2> HIDE DEF between
  <2> QED
    BY <1>5, <2>1, Zenon
<1>9. @ = [between EXCEPT !.frames = second]
  <2> HIDE DEF between, first, named
  <2> QED
    BY <1>7, Zenon
<1>10. @ = NormalRun(second, checked)
  <2> HIDE DEF second, first, between
  <2> QED
    BY <1>3, <1>6
<1>11. both = RunDefined(stack[j], t, v)
  <2>1. named = [locals |-> [top.locals EXCEPT ![t] = v], checks |-> top.checks]
    BY <1>2
  <2> HIDE DEF named
  <2> QED
    BY <1>1, <2>1 DEF RunDefined
<1>12. second = [stack EXCEPT ![j] = both]
  <2> HIDE DEF named, both
  <2> QED
    OBVIOUS
<1> QED
  <2> HIDE DEF second, both
  <2> QED
    BY <1>8, <1>9, <1>10, <1>11, <1>12

LEMMA DefinedRunIs ==
    ASSUME SoundFlow, frames # << >>, NEW t \in Locals, NEW v
    PROVE  [run EXCEPT !.frames[Len(run.frames)].locals[t] = v,
                       !.frames[Len(run.frames)].checks[t] = NotHis] = DefinedRun(t, v)
<1>1. /\ Len(run.frames) = Len(frames) /\ RunTop = run.frames[Len(frames)]
      /\ run.frames \in Seq(RunFramesBy(steps)) /\ Len(frames) \in DOMAIN run.frames
  BY TopIsRight
<1>2. run = NormalRun(run.frames, run.checked)
  BY DEF SoundFlow, RunTypes, NormalRun
<1>3. [run EXCEPT !.frames[Len(frames)].locals[t] = v, !.frames[Len(frames)].checks[t] = NotHis]
        = NormalRun([run.frames EXCEPT ![Len(frames)] = RunDefined(run.frames[Len(frames)], t, v)], run.checked)
  <2> DEFINE stack == run.frames
             r == run
             checked == run.checked
             j == Len(frames)
  <2>1. stack \in Seq(RunFramesBy(steps)) /\ j \in DOMAIN stack /\ r = NormalRun(stack, checked)
    BY <1>1, <1>2
  <2> HIDE DEF stack, r, checked, j
  <2>2. Updated(r, j, t, v) = NormalRun([stack EXCEPT ![j] = RunDefined(stack[j], t, v)], checked)
    BY <2>1, DefinedInRun
  <2> QED
    BY <2>2 DEF stack, r, checked, j, Updated
<1> QED
  BY <1>1, <1>3 DEF DefinedRun

LEMMA RunDefinesIs ==
    ASSUME SoundFlow, frames # << >>, NEW t \in Locals, NEW v, RunDefines(t, v)
    PROVE  run' = DefinedRun(t, v)
<1>1. Back(run) = run /\ Running
  BY TopIsRight
<1> QED
  BY <1>1, DefinedRunIs DEF RunDefines

\* Defining a name with a fact that is right of its value.
LEMMA DefineStep ==
    ASSUME SoundFlow, frames # << >>, Step, UNCHANGED <<slots, unknown>>,
           NEW t \in Locals, NEW f \in FactsBy(steps + 1), NEW v \in ValuesBy(steps + 1),
           SetTop(Defined(Frame, t, f)), run' = DefinedRun(t, v), Top.pending[t].name = "none",
           Sound(f, v, run.checked)
    PROVE  /\ SoundFlow' /\ frames' # << >>
           /\ ExactFlow /\ Exact(f, v, HisObjects) => ExactFlow'
<1> DEFINE g == Defined(Frame, t, f)
           h == RunDefined(RunTop, t, v)
<1>1. /\ FrameSound(Frame, RunTop, steps, run.checked) /\ Frame.pending = Top.pending
      /\ ExactFlow => FrameExact(Frame, RunTop, HisObjects)
  BY FrameIsRight
<1>2. steps \in Nat
  BY TopIsRight
<1>3. /\ FrameSound(g, h, steps + 1, run.checked)
      /\ ExactFlow /\ Exact(f, v, HisObjects) => FrameExact(g, h, HisObjects)
  BY <1>1, <1>2, DefinedIsRight
<1>4. run' = NormalRun([run.frames EXCEPT ![Len(frames)] = h], run.checked)
  BY DEF DefinedRun
<1>5. run.checked \subseteq IdsBy(steps + 1) \cup {Unset}
  <2>1. IdsBy(steps) \subseteq IdsBy(steps + 1)
    BY <1>2, FactsGrow
  <2> QED
    BY <2>1 DEF SoundFlow, RunTypes
<1>6. SetTop(g)
  OBVIOUS
<1> HIDE DEF g, h
<1> QED
  BY <1>3, <1>4, <1>5, <1>6, TopStep

LEMMA BlursLast ==
    ASSUME NEW causes, Blurs(causes)
    PROVE  /\ blurred \subseteq blurred' /\ causes \subseteq blurred'
           /\ Clear' => causes \subseteq Widening
           /\ blurred' = {} => causes = {}
BY DEF Blurs, Clear

LEMMA StaleIsBlurred ==
    ASSUME NEW t \in Locals, Stale(t) \subseteq Widening
    PROVE  Top.pending[t].name = "none"
BY DEF Stale, Blur, Widening

LEMMA DefinedKeeps ==
    ASSUME FlowInv, Step, UNCHANGED <<slots, unknown, stopped, missed, phantom>>, blurred \subseteq blurred',
           NEW t \in Locals, NEW f, NEW v, SetTop(Defined(Frame, t, f)),
           Clear' => Top.pending[t].name = "none",
           Clear' /\ SoundFlow => /\ run' = DefinedRun(t, v)
                                  /\ f \in FactsBy(steps + 1) /\ v \in ValuesBy(steps + 1)
                                  /\ Sound(f, v, run.checked),
           blurred' = {} /\ SoundFlow /\ ExactFlow => Exact(f, v, HisObjects)
    PROVE  FlowInv'
<1>1. frames # << >> /\ ~stopped'
  BY DEF Step
<1>2. ASSUME Clear', SoundFlow
      PROVE  SoundFlow' /\ (ExactFlow /\ Exact(f, v, HisObjects) => ExactFlow')
  BY <1>1, <1>2, DefineStep
<1>3. blurred' = {} => Clear'
  BY DEF Clear
<1> QED
  BY <1>1, <1>2, <1>3, FlowKept

LEMMA DefiningKeeps ==
    ASSUME FlowInv, Step, UNCHANGED <<slots, unknown, stopped, missed, phantom>>, blurred \subseteq blurred',
           NEW t \in Locals, NEW f, NEW v, SetTop(Defined(Frame, t, f)), RunDefines(t, v),
           Clear' => Top.pending[t].name = "none",
           Clear' /\ SoundFlow => /\ f \in FactsBy(steps) /\ v \in ValuesBy(steps + 1)
                                  /\ Sound(f, v, run.checked),
           blurred' = {} /\ SoundFlow /\ ExactFlow => Exact(f, v, HisObjects)
    PROVE  FlowInv'
<1>1. frames # << >>
  BY DEF Step
<1>2. ASSUME Clear', SoundFlow PROVE run' = DefinedRun(t, v) /\ f \in FactsBy(steps + 1)
  <2>1. f \in FactsBy(steps + 1)
    <3>1. steps \in Nat
      BY <1>1, <1>2, TopIsRight
    <3> QED
      BY <1>2, <3>1, FactsGrow
  <2> QED
    BY <1>1, <1>2, <2>1, RunDefinesIs
<1> QED
  BY <1>2, DefinedKeeps

LEMMA AssignLiteralKeeps ==
    ASSUME FlowInv, NEW t \in Locals, AssignLiteral(t)
    PROVE  FlowInv'
<1>1. /\ Step /\ SetTop(Defined(Frame, t, TrustedFact)) /\ RunDefines(t, Clean) /\ Blurs(Stale(t))
      /\ UNCHANGED <<slots, unknown, stopped, missed, phantom>>
  BY DEF AssignLiteral, Define
<1>2. blurred \subseteq blurred' /\ (Clear' => Top.pending[t].name = "none")
  BY <1>1, BlursLast, StaleIsBlurred
<1>3. SoundFlow => /\ TrustedFact \in FactsBy(steps) /\ Clean \in ValuesBy(steps + 1)
                   /\ Sound(TrustedFact, Clean, run.checked)
                   /\ Exact(TrustedFact, Clean, HisObjects)
  <2> HAVE SoundFlow
  <2>1. steps \in Nat /\ steps + 1 \in Nat /\ NotHis \in run.checked
    BY NumbersApart DEF SoundFlow, RunTypes
  <2>2. Clean \in ValuesBy(steps + 1)
    BY <2>1, TrustedIsRight
  <2> QED
    BY <2>1, <2>2, TrustedIsRight
<1> QED
  BY <1>1, <1>2, <1>3, DefiningKeeps

LEMMA AssignNameKeeps ==
    ASSUME FlowInv, NEW t \in Locals, NEW n \in Locals, AssignName(t, n)
    PROVE  FlowInv'
<1>1. /\ Step /\ SetTop(Defined(Frame, t, Eval(n))) /\ RunDefines(t, Value(n)) /\ Blurs(Stale(t))
      /\ UNCHANGED <<slots, unknown, stopped, missed, phantom>> /\ frames # << >>
  BY DEF AssignName, Define, Step
<1>2. blurred \subseteq blurred' /\ (Clear' => Top.pending[t].name = "none")
  BY <1>1, BlursLast, StaleIsBlurred
<1>3. ASSUME SoundFlow
      PROVE  /\ Eval(n) \in FactsBy(steps) /\ Value(n) \in ValuesBy(steps + 1)
             /\ Sound(Eval(n), Value(n), run.checked)
             /\ ExactFlow => Exact(Eval(n), Value(n), HisObjects)
  <2>1. ValuesBy(steps) \subseteq ValuesBy(steps + 1)
    BY <1>1, <1>3, TopIsRight, FactsGrow
  <2> QED
    BY <1>1, <1>3, <2>1, EvalIsRight, LocalIsRight
<1> QED
  BY <1>1, <1>2, <1>3, DefiningKeeps

LEMMA UninterpretedKeeps ==
    ASSUME FlowInv, Step, NEW t \in Locals, NEW args \in SUBSET Locals, args # {}, Uninterpreted(t, args)
    PROVE  FlowInv'
<1> DEFINE got == Worst({Eval(n) : n \in args})
           made == Derived({Value(n) : n \in args})
<1>1. PICK v \in {made} \cup {w \in {Value(n) : n \in args} : w.obj # NoObject /\ w.obj = got.obj} :
         RunDefines(t, v) /\ Blurs(Stale(t) \cup Blur("copy", v.obj # got.obj))
  BY DEF Uninterpreted
<1>2. /\ SetTop(Defined(Frame, t, got)) /\ frames # << >>
      /\ UNCHANGED <<slots, unknown, stopped, missed, phantom>>
  BY DEF Uninterpreted, Step
<1>3. blurred \subseteq blurred' /\ (Clear' => Top.pending[t].name = "none" /\ v.obj = got.obj)
  <2>1. Clear' => Stale(t) \subseteq Widening /\ Blur("copy", v.obj # got.obj) \subseteq Widening
    BY <1>1, BlursLast
  <2> QED
    BY <1>1, <2>1, BlursLast, StaleIsBlurred DEF Blur, Widening
<1>4. ASSUME SoundFlow, Clear'
      PROVE  /\ got \in FactsBy(steps) /\ v \in ValuesBy(steps + 1)
             /\ Sound(got, v, run.checked)
             /\ ExactFlow => Exact(got, v, HisObjects)
  BY <1>1, <1>2, <1>3, <1>4, ResultIsRight
<1>5. blurred' = {} => Clear'
  BY DEF Clear
<1> HIDE DEF got, made
<1> QED
  BY <1>1, <1>2, <1>3, <1>4, <1>5, DefiningKeeps

LEMMA GetExtraKeeps ==
    ASSUME FlowInv, NEW t \in Locals, NEW o \in Locals, NEW k \in Keys, GetExtra(t, o, k)
    PROVE  FlowInv'
<1> DEFINE r == ReadSlot(Eval(o), k)
           x == Extra(Value(o), k)
           other == /\ Eval(o).obj # NoObject /\ x.id = NotHis
                    /\ slots[Eval(o).obj][k] = Absent /\ slots[Eval(o).obj][UNKNOWN_KEY] # Absent
<1>1. /\ Step /\ frames # << >> /\ SetTop(Defined(Frame, t, r)) /\ RunDefines(t, x)
      /\ Blurs(Stale(t) \cup Blur("other_key", other))
      /\ UNCHANGED <<slots, unknown, stopped, missed, phantom>>
  BY DEF GetExtra, Define, Step
<1> HIDE DEF r, x, other
<1>2. /\ blurred \subseteq blurred' /\ (Clear' => Top.pending[t].name = "none")
      /\ blurred' = {} => ~other
  <2>1. Clear' => Stale(t) \subseteq Widening
    BY <1>1, BlursLast
  <2>2. blurred' = {} => Blur("other_key", other) = {}
    BY <1>1, BlursLast
  <2> QED
    BY <1>1, <2>1, <2>2, BlursLast, StaleIsBlurred DEF Blur
<1>3. ASSUME SoundFlow
      PROVE  /\ r \in FactsBy(steps) /\ x \in ValuesBy(steps + 1)
             /\ Sound(r, x, run.checked)
             /\ ExactFlow /\ ~other => Exact(r, x, HisObjects)
  BY <1>1, <1>3, ReadIsRight DEF r, x, other
<1> QED
  BY <1>1, <1>2, <1>3, DefiningKeeps

LEMMA NewObjectKeeps ==
    ASSUME FlowInv, NEW t \in Locals, NEW from \in {{}} \cup {{n} : n \in Locals}, NewObject(t, from)
    PROVE  FlowInv'
<1> DEFINE made == steps + 2
           extras(k) == IF from = {} THEN Unset ELSE Extra(Value(CHOOSE n \in from : TRUE), k).id
           f == Fact("trusted", {}, made)
           v == [id |-> NotHis, obj |-> made]
<1>1. /\ Step /\ frames # << >> /\ SetTop(Defined(Frame, t, f))
      /\ Blurs(Blur("copy", from # {}) \cup Stale(t))
      /\ UNCHANGED <<slots, unknown, stopped, missed, phantom>> /\ stopped = FALSE
      /\ steps < MaxSteps /\ steps' = steps + 1
  BY DEF NewObject, Step
<1>2. /\ blurred \subseteq blurred'
      /\ Clear' => Top.pending[t].name = "none" /\ from = {}
  <2>1. Clear' => Stale(t) \subseteq Widening /\ Blur("copy", from # {}) \subseteq Widening
    BY <1>1, BlursLast
  <2> QED
    BY <1>1, <2>1, BlursLast, StaleIsBlurred DEF Blur, Widening
<1>3. ASSUME SoundFlow, from = {}
      PROVE  run' = DefinedRun(t, v)
  <2>1. /\ Back(run) = run /\ Running /\ Len(run.frames) = Len(frames)
        /\ steps \in Nat
    BY <1>1, <1>3, TopIsRight
  <2>2. /\ made \in Objects /\ made # 1 /\ made > steps + 1
        /\ run.heap \in [Objects -> [Keys -> IdsBy(steps) \cup {Unset}]]
    BY <1>1, <1>3, <2>1, NumbersApart DEF SoundFlow, RunTypes
  <2>3. \A k \in Keys : run.heap[made][k] = Unset
    BY <1>3, <2>2 DEF SoundFlow, ObjectSound
  <2> HIDE DEF made
  <2> DEFINE empty == [k \in Keys |-> extras(k)]
  <2>4. run.heap[made] = empty
    BY <1>3, <2>2, <2>3
  <2>5. [run.heap EXCEPT ![made] = empty] = run.heap
    BY <2>2, <2>4
  <2>6. run' = [run EXCEPT !.frames[Len(run.frames)].locals[t] = v,
                           !.frames[Len(run.frames)].checks[t] = NotHis,
                           !.heap[made] = empty]
    BY <2>1 DEF NewObject, made
  <2> HIDE DEF empty, v
  <2>7. run = [frames |-> run.frames, away |-> Live, heap |-> run.heap, open |-> run.open, checked |-> run.checked]
    BY <1>3 DEF SoundFlow, RunTypes
  <2> DEFINE defined == [run EXCEPT !.frames[Len(run.frames)].locals[t] = v,
                                    !.frames[Len(run.frames)].checks[t] = NotHis]
  <2>8. run' = [defined EXCEPT !.heap = [run.heap EXCEPT ![made] = empty]]
    BY <2>6, <2>7
  <2>9. defined = DefinedRun(t, v)
    BY <1>1, <1>3, DefinedRunIs
  <2> QED
    BY <2>5, <2>8, <2>9 DEF NormalRun, DefinedRun
<1>4. ASSUME SoundFlow
      PROVE  /\ f \in FactsBy(steps + 1) /\ v \in ValuesBy(steps + 1)
             /\ Sound(f, v, run.checked) /\ Exact(f, v, HisObjects)
  <2>1. steps \in Nat
    BY <1>1, <1>4, TopIsRight
  <2>2. f \in FactsBy(steps + 1) /\ v \in ValuesBy(steps + 1)
    BY <2>1, NumbersApart DEF Fact, FactsBy, Trusts, ValuesBy, IdsBy
  <2>3. f.obj = made /\ v.obj = made /\ v.id = NotHis /\ made # 0 /\ made # 1 /\ f.state = "trusted" /\ f.lin = {}
    BY <2>1 DEF Fact
  <2> HIDE DEF f, v, made
  <2> QED
    BY <2>2, <2>3 DEF Sound, Exact, Frank, Sure
<1> HIDE DEF f, v
<1>5. blurred' = {} => Clear'
  BY DEF Clear
<1> QED
  BY <1>1, <1>2, <1>3, <1>4, <1>5, DefinedKeeps
-----------------------------------------------------------------------------
(* Checks, branches, sinks and calls.                                       *)

LEMMA RunStays ==
    ASSUME SoundFlow, frames # << >>, NEW ids
    PROVE  /\ Back(run) = NormalRun([run.frames EXCEPT ![Len(frames)] = RunTop], run.checked)
           /\ [Back(run) EXCEPT !.checked = ids] = NormalRun([run.frames EXCEPT ![Len(frames)] = RunTop], ids)
<1>1. /\ Back(run) = run /\ RunTop = run.frames[Len(frames)]
      /\ run.frames \in Seq(RunFramesBy(steps)) /\ Len(frames) \in DOMAIN run.frames
  BY TopIsRight
<1>2. [run.frames EXCEPT ![Len(frames)] = RunTop] = run.frames
  BY <1>1
<1>3. run = [frames |-> run.frames, away |-> Live, heap |-> run.heap, open |-> run.open, checked |-> run.checked]
  BY DEF SoundFlow, RunTypes
<1>4. [run EXCEPT !.checked = ids]
        = [frames |-> run.frames, away |-> Live, heap |-> run.heap, open |-> run.open, checked |-> ids]
  BY <1>3
<1> QED
  BY <1>1, <1>2, <1>3, <1>4 DEF NormalRun

LEMMA TopKeeps ==
    ASSUME FlowInv, Step, UNCHANGED <<slots, unknown>>, blurred \subseteq blurred', stopped' => gaps' # {},
           Clear' /\ SoundFlow /\ missed' => missed,
           blurred' = {} /\ SoundFlow /\ ExactFlow /\ phantom' => phantom,
           NEW g, NEW h, NEW checked, SetTop(g),
           Clear' /\ SoundFlow => /\ run' = NormalRun([run.frames EXCEPT ![Len(frames)] = h], checked)
                                  /\ run.checked \subseteq checked
                                  /\ checked \subseteq IdsBy(steps + 1) \cup {Unset}
                                  /\ FrameSound(g, h, steps + 1, checked),
           blurred' = {} /\ SoundFlow /\ ExactFlow => FrameExact(g, h, HisObjects)
    PROVE  FlowInv'
<1>1. frames # << >>
  BY DEF Step
<1>2. ASSUME Clear', SoundFlow
      PROVE  SoundFlow' /\ (ExactFlow /\ FrameExact(g, h, HisObjects) => ExactFlow')
  BY <1>1, <1>2, TopStep
<1>3. blurred' = {} => Clear'
  BY DEF Clear
<1> QED
  BY <1>1, <1>2, <1>3, FlowKept

\* Only the frame moves on.
LEMMA QuietFrame ==
    ASSUME SoundFlow, frames # << >>
    PROVE  /\ FrameSound(Frame, RunTop, steps + 1, run.checked)
           /\ run.checked \subseteq IdsBy(steps + 1) \cup {Unset}
           /\ Frame \in FramesBy(steps + 1) /\ RunTop \in RunFramesBy(steps + 1)
<1>1. steps \in Nat /\ FrameSound(Frame, RunTop, steps, run.checked)
  BY FrameIsRight, TopIsRight
<1>2. FrameSound(Frame, RunTop, steps + 1, run.checked)
  BY <1>1, FrameGrows
<1>3. IdsBy(steps) \subseteq IdsBy(steps + 1)
  BY <1>1, FactsGrow
<1> QED
  BY <1>2, <1>3 DEF SoundFlow, RunTypes, FrameSound

LEMMA ValidateKeeps ==
    ASSUME FlowInv, NEW b \in Locals, NEW x \in Locals, Validate(b, x)
    PROVE  FlowInv'
<1> DEFINE p == [name |-> x, ver |-> Eval(x).ver]
           fr == [Frame EXCEPT !.pending[b] = p]
           g == Defined(fr, b, TrustedFact)
           h == [locals |-> [RunTop.locals EXCEPT ![b] = Clean], checks |-> [RunTop.checks EXCEPT ![b] = Value(x).id]]
<1>1. /\ Step /\ frames # << >> /\ SetTop(g) /\ stopped' = FALSE /\ blurred' = blurred
      /\ UNCHANGED <<slots, unknown, missed, phantom>>
  BY DEF Validate, Step
<1>2. ASSUME SoundFlow
      PROVE  run' = NormalRun([run.frames EXCEPT ![Len(frames)] = h], run.checked)
  <2>1. /\ Back(run) = run /\ Running /\ Len(run.frames) = Len(frames) /\ RunTop = run.frames[Len(frames)]
        /\ run.frames \in Seq(RunFramesBy(steps)) /\ Len(frames) \in DOMAIN run.frames
        /\ RunTop \in RunFramesBy(steps)
    BY <1>1, <1>2, TopIsRight
  <2>2. run = [frames |-> run.frames, away |-> Live, heap |-> run.heap, open |-> run.open, checked |-> run.checked]
    BY <1>2 DEF SoundFlow, RunTypes
  <2>3. PICK r \in RunFramesBy(steps) : RunTop = r
    BY <2>1
  <2> DEFINE locals == [RunTop.locals EXCEPT ![b] = Clean]
             checks == [RunTop.checks EXCEPT ![b] = Value(x).id]
  <2>4. run' = [run EXCEPT !.frames = [run.frames EXCEPT ![Len(frames)] =
                  [run.frames[Len(frames)] EXCEPT !.locals = [run.frames[Len(frames)].locals EXCEPT ![b] = Clean],
                                                  !.checks = [run.frames[Len(frames)].checks EXCEPT ![b] = Value(x).id]]]]
    <3>1. run' = [run EXCEPT !.frames[Len(frames)].locals[b] = Clean,
                             !.frames[Len(frames)].checks[b] = Value(x).id]
      BY <2>1 DEF Validate
    <3>2. RunTop = [locals |-> RunTop.locals, checks |-> RunTop.checks]
      BY <2>1 DEF RunFramesBy
    <3> QED
      BY <3>1, <3>2, <2>1, <2>2
  <2>5. [r EXCEPT !.locals = locals, !.checks = checks] = [[r EXCEPT !.locals = locals] EXCEPT !.checks = checks]
    BY DEF RunFramesBy
  <2> HIDE DEF locals, checks
  <2>6. [r EXCEPT !.locals = locals] = [locals |-> locals, checks |-> r.checks]
    BY DEF RunFramesBy
  <2>7. [[locals |-> locals, checks |-> r.checks] EXCEPT !.checks = checks] = [locals |-> locals, checks |-> checks]
    OBVIOUS
  <2>8. run' = [run EXCEPT !.frames = [run.frames EXCEPT ![Len(frames)] =
                  [RunTop EXCEPT !.locals = locals, !.checks = checks]]]
    BY <2>1, <2>4 DEF locals, checks
  <2>9. run' = [run EXCEPT !.frames = [run.frames EXCEPT ![Len(frames)] = [locals |-> locals, checks |-> checks]]]
    BY <2>3, <2>5, <2>6, <2>7, <2>8
  <2> QED
    BY <2>2, <2>9 DEF NormalRun, locals, checks
<1>3. ASSUME SoundFlow
      PROVE  /\ FrameSound(g, h, steps + 1, run.checked)
             /\ run.checked \subseteq IdsBy(steps + 1) \cup {Unset}
             /\ ExactFlow => FrameExact(g, h, HisObjects)
  <2> DEFINE d == [TrustedFact EXCEPT !.ver = steps + 1]
  <2>1. /\ steps \in Nat /\ NotHis \in run.checked
        /\ Frame \in FramesBy(steps) /\ RunTop \in RunFramesBy(steps)
        /\ Frame \in FramesBy(steps + 1) /\ RunTop \in RunFramesBy(steps + 1)
        /\ FrameSound(Frame, RunTop, steps, run.checked)
        /\ ExactFlow => FrameExact(Frame, RunTop, HisObjects)
        /\ Frame.locals = Top.locals
    BY <1>1, <1>3, TopIsRight, FrameIsRight, QuietFrame DEF SoundFlow, RunTypes
  <2>2. /\ Eval(x) \in FactsBy(steps) /\ Value(x) \in ValuesBy(steps) /\ Value(x) = RunTop.locals[x]
    BY <1>1, <1>3, EvalIsRight, LocalIsRight DEF Value
  <2>3. d = [state |-> "trusted", ver |-> steps + 1, obj |-> 0, lin |-> {}]
    <3>1. TrustedFact = [state |-> "trusted", ver |-> 0, obj |-> 0, lin |-> {}]
      BY DEF TrustedFact, Fact, NoObject
    <3> QED
      BY <3>1
  <2>4. d \in FactsBy(steps + 1) /\ Clean \in ValuesBy(steps + 1) /\ Clean.id = NotHis /\ Clean.obj = 0
    BY <2>1, <2>3, NumbersApart DEF FactsBy, Trusts, Clean, ValuesBy, IdsBy
  <2> HIDE DEF d
  <2>5. p \in [name : Locals \cup {"none"}, ver : 0..steps] /\ p.name = x
    BY <2>2 DEF FactsBy
  <2> HIDE DEF p
  <2> DEFINE pending == [Frame.pending EXCEPT ![b] = p]
             locals == [Frame.locals EXCEPT ![b] = d]
  <2>6. fr = [Frame EXCEPT !.pending = pending]
    OBVIOUS
  <2>7. /\ pending \in [Locals -> [name : Locals \cup {"none"}, ver : 0..steps + 1]]
        /\ locals \in [Locals -> FactsBy(steps + 1)]
    BY <2>1, <2>4, <2>5 DEF FramesBy
  <2> HIDE DEF pending, locals, fr
  <2>8. /\ fr \in FramesBy(steps + 1) /\ fr.locals = Frame.locals /\ fr.pending = pending
        /\ fr.path_gaps = Frame.path_gaps /\ fr.control = Frame.control /\ fr.scope = Frame.scope
    BY <2>1, <2>6, <2>7 DEF FramesBy
  <2>9. g = [fr EXCEPT !.locals = locals]
    BY <2>8 DEF Defined, d, locals
  <2> HIDE DEF g, h
  <2>10. /\ g \in FramesBy(steps + 1) /\ g.locals = locals /\ g.pending = pending
         /\ g.path_gaps = Frame.path_gaps /\ g.control = Frame.control /\ g.scope = Frame.scope
    BY <2>7, <2>8, <2>9 DEF FramesBy
  <2>11. h \in RunFramesBy(steps + 1)
    <3>1. Value(x).id \in IdsBy(steps + 1)
      BY <2>1, <2>2, FactsGrow DEF ValuesBy
    <3> QED
      BY <3>1, <2>1, <2>4 DEF h, RunFramesBy
  <2>12. \A n \in Locals :
           /\ g.locals[n] = IF n = b THEN d ELSE Frame.locals[n]
           /\ g.pending[n] = IF n = b THEN p ELSE Frame.pending[n]
           /\ h.locals[n] = IF n = b THEN Clean ELSE RunTop.locals[n]
           /\ h.checks[n] = IF n = b THEN Value(x).id ELSE RunTop.checks[n]
    BY <2>1, <2>10 DEF h, locals, pending, FramesBy, RunFramesBy
  <2>13. \A n \in Locals : Sound(g.locals[n], h.locals[n], run.checked)
    <3>1. Sound(d, Clean, run.checked)
      BY <2>1, <2>3, <2>4 DEF Sound
    <3> QED
      BY <3>1, <2>1, <2>12 DEF FrameSound
  <2>14. ChecksCount(g, h)
    <3> SUFFICES ASSUME NEW c \in Locals, g.pending[c].name # "none",
                        g.locals[g.pending[c].name].ver = g.pending[c].ver
                 PROVE  h.checks[c] = h.locals[g.pending[c].name].id
      BY DEF ChecksCount
    <3>1. g.pending[c].name \in Locals /\ g.pending[c].ver \in 0..steps
      BY <2>1, <2>5, <2>12 DEF FramesBy
    <3>2. g.pending[c].name # b
      BY <3>1, <2>1, <2>3, <2>12
    <3>3. CASE c = b
      BY <3>2, <3>3, <2>2, <2>5, <2>12
    <3>4. CASE c # b
      BY <3>1, <3>2, <3>4, <2>1, <2>12 DEF FrameSound, ChecksCount
    <3> QED
      BY <3>3, <3>4
  <2>15. ASSUME ExactFlow PROVE FrameExact(g, h, HisObjects)
    <3>1. Exact(d, Clean, HisObjects)
      BY <2>3 DEF Exact, Frank, Sure
    <3>2. FrameExact(Frame, RunTop, HisObjects)
      BY <2>1, <2>15
    <3> QED
      BY <3>1, <3>2, <2>10, <2>12 DEF FrameExact
  <2> QED
    BY <1>1, <1>3, <2>10, <2>11, <2>13, <2>14, <2>15, QuietFrame DEF FrameSound
<1> HIDE DEF g, h
<1> QED
  BY <1>1, <1>2, <1>3, TopKeeps DEF Clear

\* A name that is checked: its fact is validated, and the run has checked its value.
LEMMA CheckingKeeps ==
    ASSUME FlowInv, Step, UNCHANGED <<slots, unknown, stopped, blurred, missed, phantom>>,
           NEW x \in Locals, NEW ver, NEW id, SetTop(ValidateCurrent(Frame, x, ver)), RunGoesOn(id),
           SoundFlow => /\ id \in IdsBy(steps)
                        /\ Frame.locals[x].ver = ver => id = Value(x).id
    PROVE  FlowInv'
<1> DEFINE f == Frame.locals[x]
           d == [f EXCEPT !.state = "validated", !.lin = {[l EXCEPT !.state = "validated"] : l \in f.lin}]
           g == ValidateCurrent(Frame, x, ver)
           checked == run.checked \cup {id}
<1>1. frames # << >> /\ ~stopped'
  BY DEF Step
<1>2. ASSUME SoundFlow
      PROVE  /\ run' = NormalRun([run.frames EXCEPT ![Len(frames)] = RunTop], checked)
             /\ checked \subseteq IdsBy(steps + 1) \cup {Unset}
             /\ FrameSound(g, RunTop, steps + 1, checked)
             /\ ExactFlow => FrameExact(g, RunTop, HisObjects)
  <2>1. /\ steps \in Nat /\ Running /\ Back(run) = run
        /\ FrameSound(Frame, RunTop, steps + 1, run.checked)
        /\ run.checked \subseteq IdsBy(steps + 1) \cup {Unset}
        /\ Frame \in FramesBy(steps + 1)
        /\ ExactFlow => FrameExact(Frame, RunTop, HisObjects)
    BY <1>1, <1>2, TopIsRight, QuietFrame, FrameIsRight
  <2>2. run' = NormalRun([run.frames EXCEPT ![Len(frames)] = RunTop], checked)
    BY <1>1, <1>2, <2>1, RunStays DEF RunGoesOn
  <2>3. checked \subseteq IdsBy(steps + 1) \cup {Unset}
    BY <1>2, <2>1, FactsGrow
  <2>4. FrameSound(Frame, RunTop, steps + 1, checked)
    <3>1. run.checked \subseteq checked /\ steps + 1 \in Nat /\ steps + 1 <= steps + 1
      BY <2>1
    <3> HIDE DEF checked
    <3> QED
      BY <2>1, <3>1, FrameGrows
  <2>5. CASE ~(f.ver = ver /\ Tainted(f.state))
    <3>1. g = Frame
      BY <2>5 DEF ValidateCurrent
    <3> QED
      BY <3>1, <2>1, <2>2, <2>3, <2>4
  <2>6. CASE f.ver = ver /\ Tainted(f.state)
    <3>1. f \in FactsBy(steps + 1)
      BY <2>1 DEF FramesBy
    <3> DEFINE lin == {[l EXCEPT !.state = "validated"] : l \in f.lin}
    <3>2. lin \subseteq Lineages /\ (\A l \in lin : l.state = "validated") /\ (f.lin # {} => lin # {})
      <4>1. f.lin \subseteq Lineages
        BY <3>1 DEF FactsBy
      <4>2. ASSUME NEW l \in Lineages
            PROVE  [l EXCEPT !.state = "validated"] \in Lineages /\ [l EXCEPT !.state = "validated"].state = "validated"
        BY DEF Lineages, Trusts
      <4> HIDE DEF f
      <4> QED
        BY <4>1, <4>2
    <3> HIDE DEF lin
    <3>3. d = [[f EXCEPT !.state = "validated"] EXCEPT !.lin = lin]
      BY <3>1 DEF FactsBy, lin
    <3>4. /\ d \in FactsBy(steps + 1) /\ d.ver = f.ver /\ d.obj = f.obj
          /\ d.state = "validated" /\ d.lin = lin
      BY <3>1, <3>2, <3>3 DEF FactsBy, Trusts
    <3> DEFINE locals == [Frame.locals EXCEPT ![x] = d]
    <3>5. g = [Frame EXCEPT !.locals = locals]
      BY <2>1, <2>6 DEF ValidateCurrent, FramesBy
    <3> HIDE DEF d
    <3>6. locals \in [Locals -> FactsBy(steps + 1)]
      BY <2>1, <3>4 DEF FramesBy
    <3> HIDE DEF locals, g, f
    <3>7. /\ g \in FramesBy(steps + 1) /\ g.locals = locals /\ g.pending = Frame.pending
          /\ g.path_gaps = Frame.path_gaps /\ g.control = Frame.control /\ g.scope = Frame.scope
      BY <2>1, <3>5, <3>6 DEF FramesBy
    <3>8. \A n \in Locals : g.locals[n] = IF n = x THEN d ELSE Frame.locals[n]
      BY <2>1, <3>7 DEF FramesBy, locals
    <3>9. Sound(d, RunTop.locals[x], checked)
      <4>1. Sound(f, RunTop.locals[x], checked)
        BY <2>4 DEF FrameSound, f
      <4>2. RunTop.locals[x].id \in checked
        BY <1>2, <2>6 DEF Value, f
      <4> QED
        BY <3>2, <3>4, <4>1, <4>2 DEF Sound
    <3>10. \A n \in Locals : g.locals[n].ver = Frame.locals[n].ver
      BY <3>4, <3>8 DEF f
    <3>11. ChecksCount(g, RunTop)
      <4>1. \A b \in Locals : Frame.pending[b].name \in Locals \cup {"none"}
        BY <2>1 DEF FramesBy
      <4> QED
        BY <4>1, <2>4, <3>7, <3>10 DEF ChecksCount, FrameSound
    <3>12. FrameSound(g, RunTop, steps + 1, checked)
      BY <2>4, <3>7, <3>8, <3>9, <3>11 DEF FrameSound
    <3>13. ASSUME ExactFlow PROVE FrameExact(g, RunTop, HisObjects)
      <4>1. Exact(d, RunTop.locals[x], HisObjects)
        BY <3>2, <3>4 DEF Exact, Frank, Sure
      <4>2. FrameExact(Frame, RunTop, HisObjects)
        BY <2>1, <3>13
      <4> QED
        BY <4>1, <4>2, <3>7, <3>8 DEF FrameExact
    <3> QED
      BY <2>2, <2>3, <3>12, <3>13
  <2> QED
    BY <2>5, <2>6
<1> HIDE DEF g, checked
<1>3. SetTop(g) /\ run.checked \subseteq checked
  BY DEF g, checked
<1> QED
  BY <1>1, <1>2, <1>3, TopKeeps DEF Clear

LEMMA ReturnUnlessValidKeeps ==
    ASSUME FlowInv, NEW x \in Locals, ReturnUnlessValid(x)
    PROVE  FlowInv'
<1>1. /\ Step /\ frames # << >> /\ UNCHANGED <<slots, unknown, stopped, blurred, missed, phantom>>
      /\ SetTop(ValidateCurrent(Frame, x, Eval(x).ver)) /\ RunGoesOn(Value(x).id)
  BY DEF ReturnUnlessValid, Step
<1>2. SoundFlow => Value(x).id \in IdsBy(steps)
  BY <1>1, LocalIsRight DEF ValuesBy
<1> QED
  BY <1>1, <1>2, CheckingKeeps

LEMMA ReturnUnlessKeeps ==
    ASSUME FlowInv, NEW b \in Locals, ReturnUnless(b)
    PROVE  FlowInv'
<1> DEFINE p == Top.pending[b]
<1>1. /\ Step /\ frames # << >> /\ UNCHANGED <<slots, unknown, gaps, stopped, blurred, missed, phantom>>
      /\ SetTop(ValidateCurrent(Frame, p.name, p.ver)) /\ RunGoesOn(RunTop.checks[b])
      /\ p.name # "none"
  BY DEF ReturnUnless, Step
<1>2. ASSUME SoundFlow
      PROVE  /\ p.name \in Locals /\ RunTop.checks[b] \in IdsBy(steps)
             /\ Frame.locals[p.name].ver = p.ver => RunTop.checks[b] = Value(p.name).id
  <2>1. /\ Top \in FramesBy(steps) /\ RunTop \in RunFramesBy(steps) /\ ChecksCount(Top, RunTop)
        /\ Frame.locals = Top.locals
    BY <1>1, <1>2, TopIsRight, FrameIsRight DEF FrameSound
  <2> QED
    BY <1>1, <2>1 DEF FramesBy, RunFramesBy, ChecksCount, Value
<1> HIDE DEF p
<1>3. CASE SoundFlow
  BY <1>1, <1>2, <1>3, CheckingKeeps
<1>4. CASE ~SoundFlow
  BY <1>1, <1>4, FlowKept DEF Step, Clear, FlowInv
<1> QED
  BY <1>3, <1>4

LEMMA BranchKeeps ==
    ASSUME FlowInv, NEW n \in Locals, NEW len \in 1..2, NEW known \in BOOLEAN, Branch(n, len, known)
    PROVE  FlowInv'
<1> DEFINE controls == Tainted(Eval(n).state)
           control == IF controls THEN Eval(n) ELSE Frame.control
           scope == IF controls /\ known THEN [end |-> Here + len, previous |-> Frame.control] ELSE Frame.scope
           g == [Frame EXCEPT !.block = Here + len, !.path_gaps = TRUE, !.control = control, !.scope = scope]
<1>1. /\ Step /\ frames # << >> /\ SetTop(g) /\ ~stopped'
      /\ UNCHANGED <<slots, unknown, stopped, missed, phantom>>
      /\ \/ run' = Back(run) /\ UNCHANGED blurred
         \/ Blurs({"branch"})
  BY DEF Branch, Step
<1>2. /\ blurred \subseteq blurred' /\ (Clear' => run' = Back(run))
      /\ (blurred' = {} => Clear')
  BY <1>1, BlursLast DEF Widening, Clear
<1>3. ASSUME SoundFlow
      PROVE  /\ run.checked \subseteq IdsBy(steps + 1) \cup {Unset}
             /\ FrameSound(g, RunTop, steps + 1, run.checked)
             /\ ExactFlow => FrameExact(g, RunTop, HisObjects)
  <2>1. /\ steps \in Nat
        /\ FrameSound(Frame, RunTop, steps + 1, run.checked)
        /\ run.checked \subseteq IdsBy(steps + 1) \cup {Unset}
        /\ Frame \in FramesBy(steps + 1) /\ Top \in FramesBy(steps)
        /\ ExactFlow => FrameExact(Frame, RunTop, HisObjects)
        /\ Eval(n) \in FactsBy(steps)
    BY <1>1, <1>3, TopIsRight, QuietFrame, FrameIsRight, EvalIsRight
  <2>2. Eval(n) \in FactsBy(steps + 1) /\ Here \in Nat
    <3>1. Here \in Nat
      BY <2>1 DEF Here, FramesBy
    <3>2. FactsBy(steps) \subseteq FactsBy(steps + 1)
      BY <2>1, FactsGrow
    <3> QED
      BY <2>1, <3>1, <3>2
  <2>3. /\ Here + len \in Nat /\ control \in FactsOrNone(steps + 1)
        /\ scope \in [end : Nat, previous : FactsOrNone(steps + 1)]
    BY <2>1, <2>2 DEF FramesBy, FactsOrNone
  <2> HIDE DEF control, scope
  <2>4. /\ g \in FramesBy(steps + 1) /\ g.locals = Frame.locals /\ g.pending = Frame.pending /\ g.path_gaps
    BY <2>1, <2>3 DEF FramesBy
  <2> HIDE DEF g
  <2> QED
    BY <2>1, <2>4 DEF FrameSound, ChecksCount, FrameExact
<1>4. SoundFlow => Back(run) = NormalRun([run.frames EXCEPT ![Len(frames)] = RunTop], run.checked)
  BY <1>1, RunStays
<1> HIDE DEF g
<1> QED
  BY <1>1, <1>2, <1>3, <1>4, TopKeeps

\* No chain is missing at a sink, and none is made up.
LEMMA SinkKeeps ==
    ASSUME FlowInv, NEW n \in Locals, Sink(n)
    PROVE  FlowInv'
<1> DEFINE reaching == Reaching(Eval(n))
           control == Frame.control # Absent /\ Tainted(Frame.control.state)
           certain == \/ \E l \in reaching : l.state = "untrusted"
                      \/ reaching = {} /\ control
<1>1. /\ Step /\ frames # << >> /\ SetTop(Frame) /\ run' = Back(run)
      /\ UNCHANGED <<slots, unknown, blurred>>
  BY DEF Sink, Step
<1>2. stopped' => gaps' # {}
  BY DEF Sink
<1>3. /\ missed' => missed \/ (Running /\ Dangerous(Value(n)) /\ reaching = {} /\ ~control)
      /\ phantom' => phantom \/ (Running /\ ~Attackers(Value(n)) /\ ~Frame.path_gaps /\ certain)
  BY DEF Sink
<1>4. SoundFlow /\ missed' => missed
  BY <1>1, <1>3, ReachingIsRight
<1>5. ASSUME SoundFlow, ExactFlow, phantom', ~phantom PROVE FALSE
  <2>1. ~Attackers(Value(n)) /\ ~Frame.path_gaps /\ certain
    BY <1>3, <1>5
  <2>2. Frame.control = Absent
    BY <1>1, <1>5, <2>1, FrameIsRight DEF FrameExact
  <2>3. \E l \in reaching : l.state = "untrusted"
    BY <2>1, <2>2
  <2> QED
    BY <1>1, <1>5, <2>1, <2>3, ReachingIsRight
<1>6. SoundFlow => Back(run) = NormalRun([run.frames EXCEPT ![Len(frames)] = RunTop], run.checked)
  BY <1>1, RunStays
<1>7. SoundFlow => /\ run.checked \subseteq IdsBy(steps + 1) \cup {Unset}
                   /\ FrameSound(Frame, RunTop, steps + 1, run.checked)
                   /\ ExactFlow => FrameExact(Frame, RunTop, HisObjects)
  BY <1>1, QuietFrame, FrameIsRight
<1> HIDE DEF reaching, control, certain
<1> QED
  BY <1>1, <1>2, <1>4, <1>5, <1>6, <1>7, TopKeeps

LEMMA OutOfStepsKeeps ==
    ASSUME FlowInv, OutOfSteps
    PROVE  FlowInv'
<1>1. /\ UNCHANGED <<frames, slots, unknown, found, steps, run, blurred, missed, phantom>>
      /\ gaps' # {} /\ frames # << >>
  BY DEF OutOfSteps
<1>2. SoundFlow => SoundFlow'
  BY <1>1 DEF SoundFlow, RunTypes, TheIntentKept, ObjectSound, SlotFor
<1>3. ExactFlow => ExactFlow'
  BY <1>1 DEF ExactFlow, ObjectExact, HisObjects
<1> QED
  BY <1>1, <1>2, <1>3, FlowKept
-----------------------------------------------------------------------------
(* Methods begin and end.                                                   *)

LEMMA StackGrows ==
    ASSUME SoundFlow, NEW m \in {steps, steps + 1}
    PROVE  /\ m \in Nat /\ frames \in Seq(FramesBy(m)) /\ run.frames \in Seq(RunFramesBy(m))
           /\ run.checked \subseteq IdsBy(m) \cup {Unset}
           /\ Len(frames) = Len(run.frames)
           /\ \A i \in DOMAIN frames : FrameSound(frames[i], run.frames[i], m, run.checked)
           /\ run = NormalRun(run.frames, run.checked)
<1>1. steps \in Nat /\ m \in Nat /\ steps <= m
  BY NumbersApart DEF SoundFlow
<1>2. /\ FramesBy(steps) \subseteq FramesBy(m) /\ RunFramesBy(steps) \subseteq RunFramesBy(m)
      /\ IdsBy(steps) \subseteq IdsBy(m)
  BY <1>1, FactsGrow
<1>3. \A i \in DOMAIN frames : FrameSound(frames[i], run.frames[i], m, run.checked)
  BY <1>1, FrameGrows DEF SoundFlow
<1>4. /\ frames \in Seq(FramesBy(steps)) /\ run.frames \in Seq(RunFramesBy(steps))
      /\ run.checked \subseteq IdsBy(steps) \cup {Unset} /\ Len(frames) = Len(run.frames)
  BY DEF SoundFlow, RunTypes
<1>5. run = NormalRun(run.frames, run.checked)
  BY DEF SoundFlow, RunTypes, NormalRun
<1> QED
  BY <1>1, <1>2, <1>3, <1>4, <1>5

LEMMA CallKeeps ==
    ASSUME FlowInv, NEW t \in Locals, NEW n \in Locals, Call(t, n)
    PROVE  FlowInv'
<1> DEFINE new == NewFrame(Eval(n), Frame.control, Frame.path_gaps, t)
           runNew == RunFrame(Value(n))
           deep == Len(frames) > MaxCallDepth
<1>1. /\ Step /\ frames # << >> /\ steps' = steps + 1 /\ steps < MaxSteps /\ ~stopped
      /\ UNCHANGED <<slots, unknown, blurred, missed, phantom>>
  BY DEF Call, Step
<1>2. deep => gaps' # {} /\ UNCHANGED <<frames, run>>
  BY DEF Call
<1>3. ~deep => /\ frames' = [frames EXCEPT ![Len(frames)] = Frame] \o <<new>>
               /\ run' = [Back(run) EXCEPT !.frames = run.frames \o <<runNew>>]
               /\ stopped' = stopped
  BY DEF Call, Back
<1>4. ASSUME SoundFlow PROVE SoundFlow' /\ (ExactFlow => ExactFlow')
  <2>1. /\ steps \in Nat /\ steps' \in {steps, steps + 1} /\ steps' <= MaxSteps
        /\ Len(frames) \in Nat /\ Len(frames) >= 1
    BY <1>1, <1>4, TopIsRight, NumbersApart
  <2>2. /\ frames \in Seq(FramesBy(steps')) /\ run.frames \in Seq(RunFramesBy(steps'))
        /\ run.checked \subseteq IdsBy(steps') \cup {Unset}
        /\ Len(frames) = Len(run.frames)
        /\ \A i \in DOMAIN frames : FrameSound(frames[i], run.frames[i], steps', run.checked)
        /\ run = NormalRun(run.frames, run.checked)
    BY <1>1, <1>4, StackGrows
  <2>3. ExactFlow => \A i \in DOMAIN frames : FrameExact(frames[i], run.frames[i], HisObjects)
    BY DEF ExactFlow
  <2>4. CASE deep
    <3>1. frames' = frames /\ run' = NormalRun(run.frames, run.checked)
      BY <1>2, <2>2, <2>4
    <3> QED
      BY <1>1, <1>4, <2>1, <2>2, <2>3, <3>1, StackStep
  <2>5. CASE ~deep
    <3> DEFINE below == [frames EXCEPT ![Len(frames)] = Frame]
               all == below \o <<new>>
               stack == run.frames \o <<runNew>>
    <3>1. /\ Back(run) = run /\ RunTop = run.frames[Len(frames)]
          /\ FrameSound(Frame, RunTop, steps', run.checked) /\ Frame \in FramesBy(steps')
          /\ ExactFlow => FrameExact(Frame, RunTop, HisObjects)
      BY <1>1, <1>4, TopIsRight, QuietFrame, FrameIsRight
    <3>2. run' = NormalRun(stack, run.checked)
      BY <1>3, <2>2, <2>5, <3>1 DEF NormalRun
    <3>3. /\ Eval(n) \in FactsBy(steps) /\ Value(n) \in ValuesBy(steps)
          /\ Eval(n) \in FactsBy(steps') /\ Value(n) \in ValuesBy(steps')
          /\ Sound(Eval(n), Value(n), run.checked)
          /\ ExactFlow => Exact(Eval(n), Value(n), HisObjects)
      <4>1. FactsBy(steps) \subseteq FactsBy(steps') /\ ValuesBy(steps) \subseteq ValuesBy(steps')
        BY <1>1, <2>1, FactsGrow
      <4> QED
        BY <1>1, <1>4, <4>1, EvalIsRight, LocalIsRight
    <3>4. /\ FrameSound(new, runNew, steps', run.checked)
          /\ ExactFlow => FrameExact(new, runNew, HisObjects)
      <4> DEFINE d == [Eval(n) EXCEPT !.ver = steps]
      <4>1. d \in FactsBy(steps') /\ d.state = Eval(n).state /\ d.lin = Eval(n).lin /\ d.obj = Eval(n).obj
        BY <1>1, <2>1, <3>3 DEF FactsBy
      <4>2. /\ new.locals = [x \in Locals |-> IF x = Param THEN d ELSE TrustedFact]
            /\ new.pending = [x \in Locals |-> [name |-> "none", ver |-> 0]]
            /\ new.path_gaps = Frame.path_gaps /\ new.control = Frame.control
            /\ new.scope = [end |-> 0, previous |-> Absent]
            /\ runNew.locals = [x \in Locals |-> IF x = Param THEN Value(n) ELSE Clean]
            /\ runNew.checks = [x \in Locals |-> NotHis]
        BY DEF NewFrame, RunFrame
      <4> HIDE DEF d
      <4>3. /\ TrustedFact \in FactsBy(steps') /\ Clean \in ValuesBy(steps')
            /\ Sound(TrustedFact, Clean, run.checked) /\ Exact(TrustedFact, Clean, HisObjects)
        <5>1. NotHis \in run.checked /\ steps' \in Nat
          BY <1>1, <1>4, <2>1 DEF SoundFlow, RunTypes
        <5> QED
          BY <5>1, TrustedIsRight
      <4>4. Sound(d, Value(n), run.checked) /\ (ExactFlow => Exact(d, Value(n), HisObjects))
        BY <3>3, <4>1 DEF Sound, Exact, Warns, Frank, Sure
      <4>5. new \in FramesBy(steps')
        <5>1. new.locals \in [Locals -> FactsBy(steps')]
          BY <4>1, <4>2, <4>3
        <5>2. new.pending \in [Locals -> [name : Locals \cup {"none"}, ver : 0..steps']]
          BY <1>1, <2>1, <4>2
        <5>3. new.control \in FactsOrNone(steps') /\ new.path_gaps \in BOOLEAN
          BY <3>1, <4>2 DEF FramesBy
        <5>4. Absent \in FactsOrNone(steps')
          BY DEF FactsOrNone
        <5>5. new = [locals |-> new.locals, pending |-> new.pending, line |-> 0, control |-> new.control,
                     scope |-> [end |-> 0, previous |-> Absent],
                     path_gaps |-> new.path_gaps, block |-> 0, target |-> t, returned |-> Absent]
          BY DEF NewFrame
        <5> HIDE DEF new
        <5> QED
          BY <5>1, <5>2, <5>3, <5>4, <5>5 DEF FramesBy
      <4>6. runNew \in RunFramesBy(steps')
        <5>1. NotHis \in IdsBy(steps')
          BY <1>1, <2>1, NumbersApart DEF IdsBy
        <5> QED
          BY <3>3, <4>3, <5>1 DEF RunFrame, RunFramesBy
      <4> HIDE DEF new, runNew
      <4>7. \A x \in Locals : Sound(new.locals[x], runNew.locals[x], run.checked)
        BY <4>2, <4>3, <4>4
      <4>8. ChecksCount(new, runNew)
        BY <4>2 DEF ChecksCount
      <4>9. ASSUME ExactFlow PROVE FrameExact(new, runNew, HisObjects)
        <5>1. \A x \in Locals : Exact(new.locals[x], runNew.locals[x], HisObjects)
          BY <4>2, <4>3, <4>4, <4>9
        <5>2. ~new.path_gaps => new.control = Absent /\ new.scope.previous = Absent
          BY <3>1, <4>2, <4>9 DEF FrameExact
        <5> QED
          BY <5>1, <5>2 DEF FrameExact
      <4> QED
        BY <4>5, <4>6, <4>7, <4>8, <4>9 DEF FrameSound
    <3> HIDE DEF new, runNew
    <3>5. below \in Seq(FramesBy(steps')) /\ Len(below) = Len(frames)
      BY <2>1, <2>2, <3>1
    <3>6. new \in FramesBy(steps') /\ runNew \in RunFramesBy(steps')
      BY <3>4 DEF FrameSound
    <3>7. /\ all \in Seq(FramesBy(steps')) /\ Len(all) = Len(frames) + 1
          /\ \A i \in DOMAIN all : \/ i \in DOMAIN frames /\ all[i] = below[i]
                                   \/ i = Len(frames) + 1 /\ all[i] = new
      <4> HIDE DEF below
      <4> QED
        BY <2>1, <3>5, <3>6, <2>2
    <3>8. /\ stack \in Seq(RunFramesBy(steps')) /\ Len(stack) = Len(frames) + 1
          /\ \A i \in DOMAIN frames : stack[i] = run.frames[i]
          /\ stack[Len(frames) + 1] = runNew
      BY <2>1, <2>2, <3>6
    <3>9. \A i \in DOMAIN frames : below[i] = IF i = Len(frames) THEN Frame ELSE frames[i]
      BY <2>1, <2>2
    <3>10. frames' = all
      BY <1>3, <2>5
    <3> HIDE DEF below, all, stack
    <3>11. \A i \in DOMAIN frames' : FrameSound(frames'[i], stack[i], steps', run.checked)
      BY <2>2, <3>1, <3>4, <3>7, <3>8, <3>9, <3>10
    <3>12. ExactFlow => \A i \in DOMAIN frames' : FrameExact(frames'[i], stack[i], HisObjects)
      BY <2>3, <3>1, <3>4, <3>7, <3>8, <3>9, <3>10
    <3>13. Len(stack) = Len(frames') /\ frames' \in Seq(FramesBy(steps'))
      BY <3>7, <3>8, <3>10
    <3> QED
      BY <1>1, <1>4, <2>1, <2>2, <3>2, <3>8, <3>11, <3>12, <3>13, StackStep
  <2> QED
    BY <2>4, <2>5
<1> HIDE DEF new, runNew
<1> QED
  BY <1>1, <1>2, <1>3, <1>4, FlowKept DEF Clear

LEMMA EndMethodKeeps ==
    ASSUME FlowInv, frames # << >>, ~stopped', UNCHANGED <<slots, unknown, missed, phantom>>,
           steps' \in {steps, steps + 1}, SoundFlow => steps' <= MaxSteps,
           NEW fact, NEW v, EndMethod(fact, v),
           fact # Absent /\ SoundFlow =>
              /\ steps' = steps + 1 /\ fact \in FactsBy(steps + 1) /\ v \in ValuesBy(steps + 1)
              /\ Sound(fact, v, run.checked)
              /\ ExactFlow => Exact(fact, v, HisObjects)
    PROVE  FlowInv'
<1> DEFINE last == Len(frames) - 1
           t == Top.target
           went == run.away.frame = Len(frames)
           below == [run EXCEPT !.frames = SubSeq(run.frames, 1, Len(run.frames) - 1),
                                !.away = IF went THEN Live ELSE run.away]
           under == SubSeq(frames, 1, last)
           cut == SubSeq(run.frames, 1, last)
<1>1. Len(frames) = 1 => frames' = << >> /\ UNCHANGED blurred
  BY DEF EndMethod
<1>2. Len(frames) # 1 /\ fact = Absent => frames' = under /\ run' = below /\ UNCHANGED blurred
  BY DEF EndMethod
<1>3. Len(frames) # 1 /\ fact # Absent =>
         /\ frames' = [under EXCEPT ![last] = Defined(under[last], t, fact)]
         /\ run' = IF ~Running /\ ~went THEN below ELSE Updated(below, last, t, v)
         /\ Blurs(Blur("stale_check", frames[last].pending[t].name # "none"))
  BY DEF EndMethod, Updated
<1>4. /\ blurred \subseteq blurred'
      /\ Clear' /\ Len(frames) # 1 /\ fact # Absent => frames[last].pending[t].name = "none"
  <2>1. CASE Len(frames) # 1 /\ fact # Absent
    BY <1>3, <2>1, BlursLast DEF Blur, Widening
  <2> QED
    BY <1>1, <1>2, <2>1
<1>5. ASSUME SoundFlow, Clear', Len(frames) # 1 PROVE SoundFlow' /\ (ExactFlow => ExactFlow')
  <2>1. /\ Len(frames) \in Nat /\ Len(frames) >= 1 /\ last \in Nat /\ last >= 1
        /\ steps \in Nat /\ Running /\ Len(run.frames) = Len(frames)
    <3>1. /\ Len(frames) \in Nat /\ Len(frames) >= 1
          /\ steps \in Nat /\ Running /\ Len(run.frames) = Len(frames)
      BY <1>5, TopIsRight
    <3> QED
      BY <3>1, <1>5
  <2>2. /\ steps' \in Nat /\ frames \in Seq(FramesBy(steps')) /\ run.frames \in Seq(RunFramesBy(steps'))
        /\ run.checked \subseteq IdsBy(steps') \cup {Unset}
        /\ \A i \in DOMAIN frames : FrameSound(frames[i], run.frames[i], steps', run.checked)
        /\ run = NormalRun(run.frames, run.checked)
    BY <1>5, StackGrows
  <2>3. t \in Locals
    BY <1>5, TopIsRight DEF FramesBy
  <2>4. below = NormalRun(cut, run.checked)
    <3>1. run.away = Live /\ ~went
      BY <1>5, <2>1 DEF SoundFlow, RunTypes, Live
    <3>2. \A s, u : [NormalRun(s, run.checked) EXCEPT !.frames = u] = NormalRun(u, run.checked)
      BY DEF NormalRun
    <3>3. \A u : [NormalRun(u, run.checked) EXCEPT !.away = Live] = NormalRun(u, run.checked)
      BY DEF NormalRun
    <3>4. below = [[run EXCEPT !.frames = cut] EXCEPT !.away = Live]
      <4>1. (IF went THEN Live ELSE run.away) = Live /\ SubSeq(run.frames, 1, Len(run.frames) - 1) = cut
        BY <2>1, <3>1
      <4> HIDE DEF went, cut
      <4> QED
        BY <4>1, Zenon
    <3>5. [run EXCEPT !.frames = cut] = NormalRun(cut, run.checked)
      BY <2>2, <3>2
    <3> HIDE DEF below, cut
    <3> QED
      BY <3>3, <3>4, <3>5
  <2>5. /\ under \in Seq(FramesBy(steps')) /\ Len(under) = last
        /\ \A i \in 1..last : under[i] = frames[i] /\ i \in DOMAIN frames
    BY <2>1, <2>2
  <2>6. /\ cut \in Seq(RunFramesBy(steps')) /\ Len(cut) = last
        /\ \A i \in 1..last : cut[i] = run.frames[i]
    BY <2>1, <2>2
  <2>10. DOMAIN under = 1..last /\ DOMAIN frames = 1..Len(frames)
    BY <2>1, <2>2, <2>5
  <2>7. ExactFlow => \A i \in DOMAIN frames : FrameExact(frames[i], run.frames[i], HisObjects)
    BY DEF ExactFlow
  <2> HIDE DEF under, cut, below, t
  <2>8. CASE fact = Absent
    <3>1. frames' = under /\ run' = NormalRun(cut, run.checked)
      BY <1>2, <1>5, <2>4, <2>8
    <3>2. \A i \in DOMAIN frames' : FrameSound(frames'[i], cut[i], steps', run.checked)
      BY <2>2, <2>5, <2>6, <2>10, <3>1
    <3>3. ExactFlow => \A i \in DOMAIN frames' : FrameExact(frames'[i], cut[i], HisObjects)
      BY <2>5, <2>6, <2>7, <2>10, <3>1
    <3> QED
      BY <1>5, <2>2, <2>5, <2>6, <3>1, <3>2, <3>3, StackStep
  <2>9. CASE fact # Absent
    <3> DEFINE g == Defined(frames[last], t, fact)
               h == RunDefined(run.frames[last], t, v)
               all == [under EXCEPT ![last] = g]
               stack == [cut EXCEPT ![last] = h]
    <3>1. last \in DOMAIN frames /\ last \in DOMAIN cut /\ under[last] = frames[last] /\ cut[last] = run.frames[last]
      BY <2>1, <2>5, <2>6
    <3>2. frames' = all
      BY <1>3, <1>5, <2>9, <3>1
    <3>3. run' = NormalRun(stack, run.checked)
      <4>1. Updated(below, last, t, v) = NormalRun([cut EXCEPT ![last] = RunDefined(cut[last], t, v)], run.checked)
        <5> DEFINE checked == run.checked
                   m == steps'
        <5>1. below = NormalRun(cut, checked) /\ cut \in Seq(RunFramesBy(m)) /\ last \in DOMAIN cut
          BY <2>4, <2>6, <3>1
        <5> HIDE DEF checked, last, m
        <5>2. Updated(below, last, t, v) = NormalRun([cut EXCEPT ![last] = RunDefined(cut[last], t, v)], checked)
          BY <2>3, <5>1, DefinedInRun
        <5> QED
          BY <5>2 DEF checked
      <4> QED
        BY <1>3, <1>5, <2>1, <2>9, <3>1, <4>1
    <3>4. FrameSound(frames[last], run.frames[last], steps, run.checked) /\ frames[last].pending[t].name = "none"
      BY <1>4, <1>5, <2>9, <3>1 DEF SoundFlow
    <3>5. /\ steps' = steps + 1 /\ fact \in FactsBy(steps + 1) /\ v \in ValuesBy(steps + 1)
          /\ Sound(fact, v, run.checked)
          /\ ExactFlow => Exact(fact, v, HisObjects)
      BY <1>5, <2>9
    <3>6. /\ FrameSound(g, h, steps', run.checked)
          /\ ExactFlow => FrameExact(g, h, HisObjects)
      <4>1. /\ FrameSound(g, h, steps + 1, run.checked)
            /\ \A his : FrameExact(frames[last], run.frames[last], his) /\ Exact(fact, v, his)
                           => FrameExact(g, h, his)
        BY <2>1, <2>3, <3>4, <3>5, DefinedIsRight
      <4> QED
        BY <2>7, <3>1, <3>5, <4>1
    <3> HIDE DEF g, h
    <3>7. /\ all \in Seq(FramesBy(steps')) /\ Len(all) = last
          /\ \A i \in 1..last : all[i] = IF i = last THEN g ELSE frames[i]
      <4>1. g \in FramesBy(steps')
        BY <3>6 DEF FrameSound
      <4> QED
        BY <2>1, <2>5, <4>1
    <3>8. /\ stack \in Seq(RunFramesBy(steps')) /\ Len(stack) = last
          /\ \A i \in 1..last : stack[i] = IF i = last THEN h ELSE run.frames[i]
      <4>1. h \in RunFramesBy(steps')
        BY <3>6 DEF FrameSound
      <4> QED
        BY <2>1, <2>6, <4>1
    <3>11. DOMAIN all = 1..last
      BY <2>1, <3>7
    <3> HIDE DEF all, stack
    <3>9. \A i \in DOMAIN frames' : FrameSound(frames'[i], stack[i], steps', run.checked)
      BY <2>2, <2>5, <3>2, <3>6, <3>7, <3>8, <3>11
    <3>10. ExactFlow => \A i \in DOMAIN frames' : FrameExact(frames'[i], stack[i], HisObjects)
      BY <2>5, <2>7, <3>2, <3>6, <3>7, <3>8, <3>11
    <3> QED
      BY <1>5, <2>2, <3>2, <3>3, <3>7, <3>8, <3>9, <3>10, StackStep
  <2> QED
    BY <2>8, <2>9
<1>6. blurred' = {} => Clear'
  BY DEF Clear
<1> QED
  BY <1>1, <1>4, <1>5, <1>6, FlowKept

LEMMA FallOffKeeps ==
    ASSUME FlowInv, FallOff
    PROVE  FlowInv'
<1>1. /\ frames # << >> /\ ~stopped' /\ EndMethod(Absent, Clean) /\ steps' = steps
      /\ UNCHANGED <<slots, unknown, missed, phantom>>
  BY DEF FallOff
<1>2. SoundFlow => steps' <= MaxSteps
  BY <1>1, TopIsRight
<1> QED
  BY <1>1, <1>2, EndMethodKeeps

LEMMA ReturnKeeps ==
    ASSUME FlowInv, NEW n \in Locals, Return(n)
    PROVE  FlowInv'
<1> DEFINE v == IF Running THEN Value(n) ELSE run.away.value
           g == [[Frame EXCEPT !.returned = Eval(n)] EXCEPT !.path_gaps = TRUE]
<1>1. /\ Step /\ frames # << >> /\ ~stopped' /\ steps' = steps + 1 /\ steps < MaxSteps
      /\ UNCHANGED <<slots, unknown, missed, phantom>>
  BY DEF Return, Step
<1>2. CASE Frame.block = 0
  <2>1. EndMethod(Eval(n), v)
    BY <1>2 DEF Return
  <2>2. ASSUME SoundFlow
        PROVE  /\ Eval(n) \in FactsBy(steps + 1) /\ v \in ValuesBy(steps + 1) /\ steps' <= MaxSteps
               /\ Sound(Eval(n), v, run.checked) /\ (ExactFlow => Exact(Eval(n), v, HisObjects))
    <3>1. Running /\ v = Value(n) /\ steps \in Nat
      BY <1>1, <2>2, TopIsRight
    <3>2. FactsBy(steps) \subseteq FactsBy(steps + 1) /\ ValuesBy(steps) \subseteq ValuesBy(steps + 1)
      BY <3>1, FactsGrow
    <3>3. steps' <= MaxSteps
      BY <1>1, <3>1, NumbersApart
    <3> QED
      BY <1>1, <2>2, <3>1, <3>2, <3>3, EvalIsRight, LocalIsRight
  <2> HIDE DEF v
  <2> QED
    BY <1>1, <2>1, <2>2, EndMethodKeeps
<1>3. CASE Frame.block # 0
  <2>1. /\ SetTop([Frame EXCEPT !.returned = Eval(n), !.path_gaps = TRUE])
        /\ IF Running THEN Blurs({"branch"}) ELSE run' = Back(run) /\ UNCHANGED blurred
    BY <1>3 DEF Return
  <2>2. blurred \subseteq blurred'
    BY <2>1, BlursLast
  <2>3. Clear' => ~SoundFlow
    <3>1. SoundFlow => Running
      BY <1>1, TopIsRight
    <3> QED
      BY <3>1, <2>1, BlursLast DEF Widening
  <2>4. blurred' = {} => Clear'
    BY DEF Clear
  <2> QED
    BY <1>1, <2>2, <2>3, <2>4, FlowKept
<1> QED
  BY <1>2, <1>3
-----------------------------------------------------------------------------
(* Instructions that write into an object.                                  *)

\* One object: its slots, its extras in the run, whether its keys are unknown and
\* whether it may hold anything of the attacker's.
RowSound(row, cells, known, open) ==
    /\ known <=> row[UNKNOWN_KEY] # Absent
    /\ \A k \in Slots : row[k].obj = NoObject
    /\ \A k \in Keys :
          /\ \/ cells[k] \in run.checked /\ ~(cells[k] = Unset /\ open)
             \/ Warns(IF row[k] # Absent THEN row[k] ELSE row[UNKNOWN_KEY])
          /\ row[k] # Absent => cells[k] # Unset \/ open
    /\ open => Warns(row[UNKNOWN_KEY])
HoldsHis(cells, open) == open \/ \E k \in Keys : cells[k] \notin {NotHis, Unset}
RowExact(row, cells, open) ==
    /\ \A k \in Slots : Frank(row[k])
    /\ \A k \in Keys : Sure(row[k]) => cells[k] \notin {NotHis, Unset} \/ (cells[k] = Unset /\ open)
    /\ Sure(row[UNKNOWN_KEY]) => HoldsHis(cells, open)

LEMMA RowOfObject ==
    ASSUME SoundFlow, NEW o \in Objects \ {1}
    PROVE  /\ RowSound(slots[o], run.heap[o], o \in unknown, o \in run.open)
           /\ ExactFlow => RowExact(slots[o], run.heap[o], o \in run.open)
           /\ o \in HisObjects <=> HoldsHis(run.heap[o], o \in run.open)
           /\ slots[o] \in [Slots -> FactsOrNone(steps)] /\ run.heap[o] \in [Keys -> IdsBy(steps) \cup {Unset}]
<1>1. ObjectSound(o) /\ (ExactFlow => ObjectExact(o))
  BY DEF SoundFlow, ExactFlow
<1>2. \A k \in Keys : SlotFor(o, k) = IF slots[o][k] # Absent THEN slots[o][k] ELSE slots[o][UNKNOWN_KEY]
  BY DEF SlotFor
<1>3. RowSound(slots[o], run.heap[o], o \in unknown, o \in run.open)
  BY <1>1, <1>2 DEF ObjectSound, RowSound
<1>4. o \in HisObjects <=> HoldsHis(run.heap[o], o \in run.open)
  BY DEF HisObjects, HoldsHis
<1>5. ExactFlow => RowExact(slots[o], run.heap[o], o \in run.open)
  BY <1>1, <1>4 DEF ObjectExact, RowExact
<1>6. slots[o] \in [Slots -> FactsOrNone(steps)] /\ run.heap[o] \in [Keys -> IdsBy(steps) \cup {Unset}]
  BY DEF SoundFlow, RunTypes
<1> QED
  BY <1>3, <1>4, <1>5, <1>6

LEMMA ObjectStep ==
    ASSUME SoundFlow, frames # << >>, Step, SetTop(Frame),
           NEW a \in Objects \ {1}, a <= steps + 1,
           NEW row \in [Slots -> FactsOrNone(steps)], NEW cells \in [Keys -> IdsBy(steps) \cup {Unset}],
           NEW open \in SUBSET Objects, open \ {a} = run.open \ {a},
           unknown' \subseteq Objects, unknown' \ {a} = unknown \ {a},
           slots' = [slots EXCEPT ![a] = row],
           run' = [frames |-> run.frames, away |-> Live, heap |-> [run.heap EXCEPT ![a] = cells],
                   open |-> open, checked |-> run.checked],
           RowSound(row, cells, a \in unknown', a \in open)
    PROVE  /\ SoundFlow' /\ frames' # << >>
           /\ ExactFlow /\ RowExact(row, cells, a \in open)
                /\ (Remembered(a) /\ a \in HisObjects => HoldsHis(cells, a \in open)) => ExactFlow'
<1>1. /\ run'.frames = run.frames /\ run'.heap = [run.heap EXCEPT ![a] = cells]
      /\ run'.open = open /\ run'.checked = run.checked /\ run'.away = Live
  OBVIOUS
<1>2. /\ steps \in Nat /\ steps' = steps + 1 /\ steps' \in Nat /\ steps' \in 0..MaxSteps
      /\ Len(frames) \in Nat /\ Len(frames) >= 1
  BY TopIsRight, NumbersApart DEF Step
<1>3. /\ IdsBy(steps) \subseteq IdsBy(steps') /\ FactsOrNone(steps) \subseteq FactsOrNone(steps')
      /\ FramesBy(steps) \subseteq FramesBy(steps') /\ RunFramesBy(steps) \subseteq RunFramesBy(steps')
  BY <1>2, FactsGrow
<1>4. RunTypes'
  <2>1. run.heap \in [Objects -> [Keys -> IdsBy(steps) \cup {Unset}]] /\ run.checked \subseteq IdsBy(steps) \cup {Unset}
    BY DEF SoundFlow, RunTypes
  <2>2. [run.heap EXCEPT ![a] = cells] \in [Objects -> [Keys -> IdsBy(steps') \cup {Unset}]]
    BY <2>1, <1>3
  <2>3. run.checked \subseteq IdsBy(steps') \cup {Unset} /\ {NotHis, Unset, Vetted} \subseteq run.checked
    BY <2>1, <1>3 DEF SoundFlow, RunTypes
  <2>4. run.frames \in Seq(RunFramesBy(steps'))
    BY <1>3, TopIsRight
  <2> QED
    BY <2>2, <2>3, <2>4, <1>1 DEF RunTypes
<1>5. \A o \in Objects : /\ slots'[o] = IF o = a THEN row ELSE slots[o]
                         /\ run'.heap[o] = IF o = a THEN cells ELSE run.heap[o]
                         /\ o # a => (o \in run'.open <=> o \in run.open) /\ (o \in unknown' <=> o \in unknown)
  BY <1>1 DEF SoundFlow, RunTypes
<1>6. slots' \in [Objects -> [Slots -> FactsOrNone(steps')]]
  BY <1>3 DEF SoundFlow
<1>7. TheIntentKept'
  <2>1. 1 \in Objects
    BY NumbersApart
  <2> QED
    BY <2>1, <1>5 DEF SoundFlow, TheIntentKept
<1>8. ASSUME NEW o \in Objects \ {1} PROVE ObjectSound(o)'
  <2>1. \A k \in Keys : SlotFor(o, k)' = IF slots'[o][k] # Absent THEN slots'[o][k] ELSE slots'[o][UNKNOWN_KEY]
    BY DEF SlotFor
  <2>2. CASE o = a
    <3>1. ~(o > steps' + 1)
      BY <2>2, <1>2, NumbersApart
    <3> QED
      BY <2>1, <2>2, <3>1, <1>1, <1>5 DEF ObjectSound, RowSound
  <2>3. CASE o # a
    <3>1. ObjectSound(o) /\ (o > steps' + 1 => o > steps + 1)
      <4>1. ObjectSound(o)
        BY DEF SoundFlow
      <4>2. o \in Nat
        BY NumbersApart
      <4> QED
        BY <1>2, <4>1, <4>2
    <3>2. \A k \in Keys : SlotFor(o, k)' = SlotFor(o, k)
      BY <2>1, <2>3, <1>5 DEF SlotFor
    <3> QED
      BY <2>3, <3>1, <3>2, <1>1, <1>5 DEF ObjectSound
  <2> QED
    BY <2>2, <2>3
<1>9. /\ frames' \in Seq(FramesBy(steps')) /\ Len(frames') = Len(frames) /\ Len(frames') = Len(run'.frames)
      /\ \A i \in DOMAIN frames' : /\ i \in DOMAIN frames
                                   /\ frames'[i] = IF i = Len(frames) THEN Frame ELSE frames[i]
  <2>1. frames' = [frames EXCEPT ![Len(frames)] = Frame] /\ frames \in Seq(FramesBy(steps'))
    BY <1>3 DEF SetTop, SoundFlow
  <2>2. Frame \in FramesBy(steps')
    BY <1>2, QuietFrame
  <2>3. Len(frames) = Len(run'.frames)
    BY <1>1 DEF SoundFlow
  <2> QED
    BY <2>1, <2>2, <2>3, <1>2
<1>10. RunTop = run.frames[Len(frames)]
  BY TopIsRight
<1>11. \A i \in DOMAIN frames' : FrameSound(frames'[i], run'.frames[i], steps', run'.checked)
  <2>1. FrameSound(Frame, RunTop, steps', run.checked)
    BY <1>2, QuietFrame
  <2>2. \A i \in DOMAIN frames : FrameSound(frames[i], run.frames[i], steps', run.checked)
    BY <1>2, StackGrows
  <2> QED
    BY <2>1, <2>2, <1>1, <1>9, <1>10
<1>12. SoundFlow'
  BY <1>2, <1>4, <1>6, <1>7, <1>8, <1>9, <1>11 DEF SoundFlow
<1>13. ASSUME ExactFlow, RowExact(row, cells, a \in open),
              Remembered(a) /\ a \in HisObjects => HoldsHis(cells, a \in open)
       PROVE  ExactFlow'
  <2>1. \A o \in Objects : o \in HisObjects' <=> IF o = a THEN HoldsHis(cells, a \in open) ELSE o \in HisObjects
    BY <1>1, <1>5 DEF HisObjects, HoldsHis
  <2>2. ASSUME NEW o \in Objects \ {1} PROVE ObjectExact(o)'
    <3>1. CASE o = a
      BY <2>1, <3>1, <1>1, <1>5, <1>13 DEF ObjectExact, RowExact
    <3>2. CASE o # a
      BY <2>1, <3>2, <1>1, <1>5, <1>13 DEF ObjectExact, ExactFlow
    <3> QED
      BY <3>1, <3>2
  <2>3. ASSUME NEW i \in DOMAIN frames' PROVE FrameExact(frames'[i], run'.frames[i], HisObjects')
    <3> DEFINE fr == frames'[i]
    <3>1. FrameExact(fr, run.frames[i], HisObjects) /\ fr.locals = frames[i].locals /\ i \in DOMAIN frames
      <4>1. CASE i = Len(frames)
        BY <4>1, <1>9, <1>10, <1>13, FrameIsRight, TopIsRight
      <4>2. CASE i # Len(frames)
        BY <4>2, <1>9, <1>13 DEF ExactFlow
      <4> QED
        BY <4>1, <4>2
    <3>2. fr \in FramesBy(steps')
      BY <1>9
    <3> HIDE DEF fr
    <3>3. ASSUME NEW n \in Locals PROVE Exact(fr.locals[n], run.frames[i].locals[n], HisObjects')
      <4> DEFINE f == fr.locals[n]
      <4>1. Exact(f, run.frames[i].locals[n], HisObjects)
        BY <3>1 DEF FrameExact
      <4>2. ASSUME Sure(f), f.obj = a, a \in HisObjects PROVE a \in HisObjects'
        <5>1. frames[i].locals[n].obj = a /\ frames[i].locals[n].lin # {}
          BY <3>1, <4>2 DEF Sure
        <5>2. Remembered(a)
          BY <3>1, <5>1 DEF Remembered
        <5> QED
          BY <2>1, <4>2, <5>2, <1>13
      <4>3. ASSUME Sure(f), f.obj # a, f.obj \in HisObjects PROVE f.obj \in HisObjects'
        BY <2>1, <4>3 DEF HisObjects
      <4> HIDE DEF f
      <4>4. Exact(f, run.frames[i].locals[n], HisObjects')
        BY <4>1, <4>2, <4>3 DEF Exact
      <4> QED
        BY <4>4 DEF f
    <3>4. FrameExact(fr, run.frames[i], HisObjects')
      BY <3>1, <3>3 DEF FrameExact
    <3> QED
      BY <3>4, <1>1 DEF fr
  <2> QED
    BY <2>2, <2>3 DEF ExactFlow
<1>14. frames' # << >>
  BY <1>2, <1>9
<1> QED
  BY <1>12, <1>13, <1>14

\* What a write under an unknown key makes of the slots of its object.
WildFact(row) ==
    IF row[UNKNOWN_KEY] # Absent THEN row[UNKNOWN_KEY]
    ELSE Fact("maybe_untrusted", Lineage("maybe_untrusted", {"call"}), NoObject)
WildOver(row, old) ==
    IF old.state \in {"trusted", "validated"}
    THEN Fact("maybe_untrusted",
              Lineage("maybe_untrusted", {l.source : l \in IF WildFact(row).lin # {} THEN WildFact(row).lin ELSE old.lin}),
              NoObject)
    ELSE old
WildRow(row) == [k \in Slots |-> IF k = UNKNOWN_KEY THEN WildFact(row) ELSE WildOver(row, row[k])]

LEMMA WildcardIs ==
    ASSUME NEW sl, NEW a
    PROVE  Wildcard(sl, a) = [sl EXCEPT ![a] = WildRow(sl[a])]
BY DEF Wildcard, WildRow, WildOver, WildFact

LEMMA LineageIs ==
    ASSUME NEW state \in Trusts, NEW sources \in SUBSET {"intent", "call"}
    PROVE  /\ Lineage(state, sources) \subseteq Lineages
           /\ \A l \in Lineage(state, sources) : l.state = state
           /\ sources # {} => Lineage(state, sources) # {}
<1>1. Lineage(state, sources) \subseteq Lineages /\ \A l \in Lineage(state, sources) : l.state = state
  BY DEF Lineage, Lineages
<1>2. ASSUME NEW s \in sources PROVE Lineage(state, sources) # {}
  <2>1. [source |-> s, state |-> state] \in Lineage(state, sources)
    BY DEF Lineage
  <2> QED
    BY <2>1
<1> QED
  BY <1>1, <1>2

LEMMA WildFactIs ==
    ASSUME NEW m \in Nat, NEW row \in [Slots -> FactsOrNone(m)], \A k \in Slots : row[k].obj = NoObject
    PROVE  /\ WildFact(row) \in FactsBy(m) /\ WildFact(row).obj = NoObject /\ WildFact(row) # Absent
           /\ row[UNKNOWN_KEY] # Absent => WildFact(row) = row[UNKNOWN_KEY]
           /\ row[UNKNOWN_KEY] = Absent => Warns(WildFact(row)) /\ ~Sure(WildFact(row)) /\ Frank(WildFact(row))
<1>1. UNKNOWN_KEY \in Slots /\ row[UNKNOWN_KEY] \in FactsOrNone(m) /\ NoObject = 0
  BY NumbersApart
<1>2. CASE row[UNKNOWN_KEY] # Absent
  BY <1>1, <1>2, NoneIsNoFact DEF WildFact, FactsOrNone
<1>3. CASE row[UNKNOWN_KEY] = Absent
  <2> DEFINE lin == Lineage("maybe_untrusted", {"call"})
             w == WildFact(row)
  <2>1. lin \subseteq Lineages /\ (\A l \in lin : l.state = "maybe_untrusted") /\ lin # {}
    BY LineageIs DEF Trusts
  <2> HIDE DEF lin
  <2>2. w = [state |-> "maybe_untrusted", ver |-> 0, obj |-> NoObject, lin |-> lin]
    BY <1>3 DEF WildFact, Fact, lin
  <2> HIDE DEF w
  <2>3. 0 \in 0..m /\ 0 \in 0..m + 1
    OBVIOUS
  <2>4. w \in FactsBy(m) /\ w.obj = NoObject
    BY <1>1, <2>1, <2>2, <2>3 DEF FactsBy, Trusts
  <2>5. Warns(w) /\ ~Sure(w) /\ Frank(w)
    BY <2>1, <2>2 DEF Warns, Sure, Frank, Tainted
  <2> QED
    BY <1>3, <2>4, <2>5, NoneIsNoFact DEF w
<1> QED
  BY <1>2, <1>3

LEMMA WildOverIs ==
    ASSUME NEW m \in Nat, NEW row \in [Slots -> FactsOrNone(m)], \A k \in Slots : row[k].obj = NoObject,
           NEW k \in Keys, NEW w, w = WildOver(row, row[k])
    PROVE  /\ w \in FactsOrNone(m) /\ w.obj = NoObject
           /\ w = Absent <=> row[k] = Absent
           /\ Tainted(row[k].state) => w = row[k]
           /\ ~Tainted(row[k].state) /\ row[k] # Absent
                 => Frank(w) /\ ~Sure(w) /\ (Warns(WildFact(row)) => Warns(w))
<1> DEFINE old == row[k]
           wild == WildFact(row)
           sources == {l.source : l \in IF wild.lin # {} THEN wild.lin ELSE old.lin}
           lin == Lineage("maybe_untrusted", sources)
<1>1. k \in Slots /\ old \in FactsOrNone(m) /\ old.obj = NoObject /\ NoObject = 0
  BY NumbersApart
<1>2. wild \in FactsBy(m)
  BY WildFactIs
<1>3. CASE old = Absent
  BY <1>1, <1>3, NoneIsNoFact DEF WildOver, Tainted
<1>4. CASE old # Absent /\ old.state \in {"trusted", "validated"}
  <2>1. old \in FactsBy(m)
    BY <1>1, <1>4 DEF FactsOrNone
  <2>2. sources \in SUBSET {"intent", "call"} /\ (wild.lin # {} => sources # {})
    BY <1>2, <2>1 DEF FactsBy, Lineages
  <2>3. w = [state |-> "maybe_untrusted", ver |-> 0, obj |-> NoObject, lin |-> lin]
    BY <1>4 DEF WildOver, Fact
  <2> HIDE DEF sources
  <2>4. /\ lin \subseteq Lineages /\ (\A l \in lin : l.state = "maybe_untrusted")
        /\ sources # {} => lin # {}
    BY <2>2, LineageIs DEF Trusts
  <2> HIDE DEF lin, wild, old
  <2>5. 0 \in 0..m /\ 0 \in 0..m + 1
    OBVIOUS
  <2>6. w \in FactsBy(m) /\ w.obj = NoObject
    BY <1>1, <2>3, <2>4, <2>5 DEF FactsBy, Trusts
  <2>7. Frank(w) /\ ~Sure(w) /\ (Warns(wild) => Warns(w))
    BY <2>2, <2>3, <2>4 DEF Warns, Sure, Frank, Tainted
  <2>8. ~Tainted(old.state) /\ w # Absent /\ w \in FactsOrNone(m)
    BY <1>4, <2>6, NoneIsNoFact DEF Tainted, FactsOrNone
  <2> QED
    BY <1>4, <2>6, <2>7, <2>8 DEF old, wild
<1>5. CASE old # Absent /\ old.state \notin {"trusted", "validated"}
  <2>1. w = old /\ Tainted(old.state)
    BY <1>1, <1>5 DEF WildOver, FactsOrNone, FactsBy, Trusts, Tainted
  <2> QED
    BY <1>1, <1>5, <2>1
<1> QED
  BY <1>3, <1>4, <1>5

\* Forgets, of a row of slots.
RowForgets(row) ==
    \/ row[UNKNOWN_KEY] # Absent
    \/ \E k \in Keys : Tainted(row[k].state) /\ \A l \in row[k].lin : ~Tainted(l.state)

LEMMA WildRowIs ==
    ASSUME NEW m \in Nat, NEW row \in [Slots -> FactsOrNone(m)], \A k \in Slots : row[k].obj = NoObject,
           NEW w, w = WildRow(row)
    PROVE  /\ w \in [Slots -> FactsOrNone(m)] /\ \A k \in Slots : w[k].obj = NoObject
           /\ w[UNKNOWN_KEY] = WildFact(row) /\ w[UNKNOWN_KEY] # Absent
           /\ row[UNKNOWN_KEY] # Absent => w[UNKNOWN_KEY] = row[UNKNOWN_KEY]
           /\ row[UNKNOWN_KEY] = Absent => Warns(w[UNKNOWN_KEY]) /\ ~Sure(w[UNKNOWN_KEY]) /\ Frank(w[UNKNOWN_KEY])
           /\ \A k \in Keys :
                 /\ w[k] = Absent <=> row[k] = Absent
                 /\ Tainted(row[k].state) => w[k] = row[k]
                 /\ ~Tainted(row[k].state) /\ row[k] # Absent
                       => Frank(w[k]) /\ ~Sure(w[k]) /\ (Warns(w[UNKNOWN_KEY]) => Warns(w[k]))
           /\ (\A k \in Slots : Frank(row[k])) => \A k \in Slots : Frank(w[k])
           /\ \A k \in Keys : Sure(w[k]) => w[k] = row[k]
<1>1. /\ w[UNKNOWN_KEY] = WildFact(row) /\ DOMAIN w = Slots /\ w = [k \in Slots |-> w[k]]
      /\ \A k \in Keys : w[k] = WildOver(row, row[k])
  BY NumbersApart DEF WildRow
<1>2. /\ WildFact(row) \in FactsBy(m) /\ WildFact(row).obj = NoObject /\ WildFact(row) # Absent
      /\ row[UNKNOWN_KEY] # Absent => WildFact(row) = row[UNKNOWN_KEY]
      /\ row[UNKNOWN_KEY] = Absent => Warns(WildFact(row)) /\ ~Sure(WildFact(row)) /\ Frank(WildFact(row))
  BY WildFactIs
<1>3. \A k \in Keys :
         /\ w[k] \in FactsOrNone(m) /\ w[k].obj = NoObject
         /\ w[k] = Absent <=> row[k] = Absent
         /\ Tainted(row[k].state) => w[k] = row[k]
         /\ ~Tainted(row[k].state) /\ row[k] # Absent
               => Frank(w[k]) /\ ~Sure(w[k]) /\ (Warns(WildFact(row)) => Warns(w[k]))
  <2> SUFFICES ASSUME NEW k \in Keys
               PROVE  /\ w[k] \in FactsOrNone(m) /\ w[k].obj = NoObject
                      /\ w[k] = Absent <=> row[k] = Absent
                      /\ Tainted(row[k].state) => w[k] = row[k]
                      /\ ~Tainted(row[k].state) /\ row[k] # Absent
                            => Frank(w[k]) /\ ~Sure(w[k]) /\ (Warns(WildFact(row)) => Warns(w[k]))
    OBVIOUS
  <2> DEFINE over == w[k]
  <2>1. over = WildOver(row, row[k])
    BY <1>1
  <2> HIDE DEF over
  <2>2. /\ over \in FactsOrNone(m) /\ over.obj = NoObject
        /\ over = Absent <=> row[k] = Absent
        /\ Tainted(row[k].state) => over = row[k]
        /\ ~Tainted(row[k].state) /\ row[k] # Absent
              => Frank(over) /\ ~Sure(over) /\ (Warns(WildFact(row)) => Warns(over))
    BY <2>1, WildOverIs
  <2> QED
    BY <2>2 DEF over
<1>4. \A k \in Slots : k = UNKNOWN_KEY \/ k \in Keys
  BY NumbersApart
<1>5. \A k \in Slots : w[k] \in FactsOrNone(m) /\ w[k].obj = NoObject
  BY <1>1, <1>2, <1>3, <1>4 DEF FactsOrNone
<1>6. w \in [Slots -> FactsOrNone(m)]
  BY <1>1, <1>5
<1>7. ASSUME \A k \in Slots : Frank(row[k]), NEW k \in Slots PROVE Frank(w[k])
  <2>1. CASE k = UNKNOWN_KEY
    BY <2>1, <1>1, <1>2, <1>7
  <2>2. CASE k \in Keys
    BY <2>2, <1>3, <1>7, NoneIsNoFact
  <2> QED
    BY <2>1, <2>2, <1>4
<1>8. \A k \in Keys : Sure(w[k]) => w[k] = row[k]
  BY <1>3, NoneIsNoFact
<1> QED
  BY <1>1, <1>2, <1>3, <1>5, <1>6, <1>7, <1>8

\* A wild slot that warns makes every key warn.
LEMMA WildWarns ==
    ASSUME NEW m \in Nat, NEW row \in [Slots -> FactsOrNone(m)], \A k \in Slots : row[k].obj = NoObject,
           NEW w, w = WildRow(row), Warns(w[UNKNOWN_KEY]),
           NEW k \in Keys, Tainted(row[k].state) => Warns(row[k])
    PROVE  Warns(IF w[k] # Absent THEN w[k] ELSE w[UNKNOWN_KEY])
BY WildRowIs

LEMMA PutExtraKeeps ==
    ASSUME FlowInv, NEW o \in Locals, NEW k \in Slots, NEW n \in Locals, PutExtra(o, k, n)
    PROVE  FlowInv'
<1> DEFINE a == Eval(o).obj
           put == [slots EXCEPT ![a][k] = Eval(n)]
           lost(key) == /\ Value(o).obj # NoObject /\ Value(n).id = NotHis
                        /\ run.heap[Value(o).obj][key] \notin {NotHis, Unset}
                        /\ k = UNKNOWN_KEY \/ Remembered(a)
<1>1. /\ Step /\ frames # << >> /\ ~stopped' /\ SetTop(Frame)
      /\ a # NoObject /\ Eval(n).obj = NoObject
      /\ slots' = IF k = UNKNOWN_KEY THEN Wildcard(put, a) ELSE put
      /\ unknown' = IF k = UNKNOWN_KEY THEN unknown \cup {a} ELSE unknown
      /\ UNCHANGED <<missed, phantom>>
  BY DEF PutExtra, Step
<1>2. PICK key \in IF k = UNKNOWN_KEY THEN Keys ELSE {k} :
         /\ RunWrites(o, key, Value(n).id)
         /\ Blurs(Blur("open_write", WritesOpen(o)) \cup
                  Blur("wildcard", k = UNKNOWN_KEY /\ Forgets(slots, a)) \cup
                  Blur("lost", Running /\ lost(key)))
  BY DEF PutExtra
<1>3. /\ blurred \subseteq blurred' /\ (blurred' = {} => Clear')
      /\ Clear' => ~WritesOpen(o) /\ ~(k = UNKNOWN_KEY /\ Forgets(slots, a))
      /\ blurred' = {} /\ Running => ~lost(key)
  <2> HIDE DEF a, lost
  <2> QED
    BY <1>2, BlursLast DEF Blur, Widening, Clear
<1>4. ASSUME SoundFlow, Clear'
      PROVE  /\ SoundFlow' /\ frames' # << >>
             /\ ExactFlow /\ blurred' = {} => ExactFlow'
  <2> DEFINE fact == Eval(n)
             id == Value(n).id
             old == slots[a]
             extras == run.heap[a]
             cells == [extras EXCEPT ![key] = id]
             putRow == [old EXCEPT ![k] = fact]
             row == IF k = UNKNOWN_KEY THEN WildRow(putRow) ELSE putRow
  <2>1. /\ Running /\ Back(run) = run /\ steps \in Nat /\ steps <= MaxSteps /\ a = Value(o).obj /\ a \in Objects
        /\ a <= steps + 1 /\ run = NormalRun(run.frames, run.checked) /\ run.away = Live
    <3>1. /\ Running /\ Back(run) = run /\ steps \in Nat /\ steps <= MaxSteps
      BY <1>1, <1>4, TopIsRight
    <3>2. a = Value(o).obj /\ a \in Objects /\ a \in 0..steps + 1
      BY <1>1, <1>4, EvalIsRight, NumbersApart
    <3>3. a <= steps + 1
      BY <3>1, <3>2
    <3>4. run = NormalRun(run.frames, run.checked) /\ run.away = Live
      BY <1>4, StackGrows DEF SoundFlow, RunTypes
    <3> QED
      BY <3>1, <3>2, <3>3, <3>4
  <2>2. a \notin run.open /\ a # 1
    <3>1. a \notin run.open
      BY <1>3, <1>4, <2>1 DEF WritesOpen
    <3> QED
      BY <3>1, <1>4 DEF SoundFlow, TheIntentKept
  <2>3. /\ key \in Keys /\ key \in Slots /\ UNKNOWN_KEY \notin Keys
        /\ k = UNKNOWN_KEY \/ k = key
        /\ Slots = Keys \cup {UNKNOWN_KEY}
    BY NumbersApart
  <2>4. /\ fact \in FactsBy(steps) /\ fact # Absent /\ fact.obj = NoObject /\ NoObject = 0
        /\ fact \in FactsOrNone(steps) /\ id \in IdsBy(steps)
        /\ id \in run.checked \/ Warns(fact)
        /\ ExactFlow => Frank(fact) /\ (Sure(fact) => id # NotHis)
    <3>1. /\ fact \in FactsBy(steps) /\ fact # Absent /\ Sound(fact, Value(n), run.checked)
          /\ ExactFlow => Exact(fact, Value(n), HisObjects)
      BY <1>1, <1>4, EvalIsRight
    <3>2. Value(n) \in ValuesBy(steps)
      BY <1>1, <1>4, LocalIsRight
    <3> HIDE DEF fact
    <3>3. fact.obj = 0
      BY <1>1, NumbersApart DEF fact
    <3> QED
      BY <3>1, <3>2, <3>3, NumbersApart DEF FactsOrNone, ValuesBy, Sound, Exact
  <2>5. id # Unset
    BY <2>1, <2>4, NumbersApart DEF IdsBy
  <2>6. /\ RowSound(old, extras, a \in unknown, a \in run.open)
        /\ ExactFlow => RowExact(old, extras, a \in run.open)
        /\ a \in HisObjects <=> HoldsHis(extras, a \in run.open)
        /\ old \in [Slots -> FactsOrNone(steps)] /\ extras \in [Keys -> IdsBy(steps) \cup {Unset}]
    BY <1>4, <2>1, <2>2, RowOfObject DEF NormalRun
  <2>7. /\ slots \in [Objects -> [Slots -> FactsOrNone(steps)]] /\ unknown \subseteq Objects
        /\ run.heap \in [Objects -> [Keys -> IdsBy(steps) \cup {Unset}]] /\ run.open \subseteq Objects
    BY <1>4 DEF SoundFlow, RunTypes
  <2>8. slots' = [slots EXCEPT ![a] = row]
    <3>1. put = [slots EXCEPT ![a] = putRow] /\ put[a] = putRow
      BY <2>1, <2>7
    <3>2. Wildcard(put, a) = [put EXCEPT ![a] = WildRow(put[a])]
      BY WildcardIs
    <3>3. slots' = IF k = UNKNOWN_KEY THEN Wildcard(put, a) ELSE put
      BY <1>1
    <3> HIDE DEF put, putRow, a
    <3> QED
      BY <3>1, <3>2, <3>3
  <2>9. run' = [frames |-> run.frames, away |-> Live, heap |-> [run.heap EXCEPT ![a] = cells],
                open |-> run.open, checked |-> run.checked]
    <3>1. run' = [run EXCEPT !.heap[a][key] = id]
      BY <1>1, <1>2, <2>1 DEF RunWrites
    <3>2. [run EXCEPT !.heap[a][key] = id] = [run EXCEPT !.heap = [run.heap EXCEPT ![a] = cells]]
      BY Zenon
    <3>3. \A h : [NormalRun(run.frames, run.checked) EXCEPT !.heap = h]
             = [frames |-> run.frames, away |-> Live, heap |-> h, open |-> run.open, checked |-> run.checked]
      BY DEF NormalRun
    <3> HIDE DEF cells, a, id
    <3> QED
      BY <2>1, <3>1, <3>2, <3>3
  <2> HIDE DEF fact, id, old, extras, a, put
  <2>10. /\ putRow \in [Slots -> FactsOrNone(steps)] /\ \A x \in Slots : putRow[x].obj = NoObject
         /\ \A x \in Slots : putRow[x] = IF x = k THEN fact ELSE old[x]
    BY <2>2, <2>4, <2>6 DEF RowSound
  <2>11. /\ cells \in [Keys -> IdsBy(steps) \cup {Unset}]
         /\ \A x \in Keys : cells[x] = IF x = key THEN id ELSE extras[x]
    BY <2>3, <2>4, <2>6
  <2>12. /\ row \in [Slots -> FactsOrNone(steps)]
         /\ RowSound(row, cells, a \in unknown', a \in run.open)
         /\ ExactFlow /\ blurred' = {} => RowExact(row, cells, a \in run.open)
    <3>1. CASE k # UNKNOWN_KEY
      <4>1. row = putRow /\ k = key
        BY <2>3, <3>1
      <4>2. a \in unknown' <=> a \in unknown
        BY <1>1, <3>1
      <4> HIDE DEF row, putRow, cells
      <4>3. RowSound(row, cells, a \in unknown', a \in run.open)
        BY <2>2, <4>1, <4>2, <2>3, <2>4, <2>5, <2>6, <2>10, <2>11, <3>1 DEF RowSound
      <4>4. ASSUME ExactFlow, blurred' = {} PROVE RowExact(row, cells, a \in run.open)
        <5>1. \A x \in Slots : Frank(row[x])
          BY <2>2, <4>1, <4>4, <2>4, <2>6, <2>10 DEF RowExact
        <5>2. \A x \in Keys : Sure(row[x]) => cells[x] \notin {NotHis, Unset}
          BY <2>2, <4>1, <4>4, <2>3, <2>4, <2>5, <2>6, <2>10, <2>11 DEF RowExact
        <5>3. ASSUME Sure(row[UNKNOWN_KEY]) PROVE HoldsHis(cells, a \in run.open)
          <6>1. Sure(old[UNKNOWN_KEY]) /\ old[UNKNOWN_KEY] # Absent
            BY <4>1, <5>3, <2>3, <2>10, <3>1, NoneIsNoFact
          <6>2. Remembered(a) /\ HoldsHis(extras, a \in run.open)
            BY <2>2, <6>1, <4>4, <2>6 DEF Remembered, RowExact, old
          <6>3. extras[key] \in {NotHis, Unset} \/ id # NotHis
            BY <6>2, <4>4, <1>3, <1>1, <2>1 DEF a, extras, id
          <6> QED
            BY <2>2, <6>2, <6>3, <2>5, <2>11, <2>3 DEF HoldsHis
        <5> QED
          BY <2>2, <5>1, <5>2, <5>3 DEF RowExact
      <4> QED
        BY <4>1, <4>3, <4>4, <2>10
    <3>2. CASE k = UNKNOWN_KEY
      <4>1. /\ row = WildRow(putRow) /\ putRow[UNKNOWN_KEY] = fact
            /\ \A x \in Keys : putRow[x] = old[x]
        BY <2>3, <2>10, <3>2
      <4>2. a \in unknown'
        BY <1>1, <3>2
      <4>3. /\ old[UNKNOWN_KEY] = Absent
            /\ \A x \in Keys : Tainted(old[x].state) => Warns(old[x])
        BY <1>3, <1>4, <3>2 DEF Forgets, Warns, old
      <4> HIDE DEF row, putRow, cells
      <4>4. /\ row \in [Slots -> FactsOrNone(steps)] /\ \A x \in Slots : row[x].obj = NoObject
            /\ row[UNKNOWN_KEY] = fact
            /\ \A x \in Keys :
                 /\ row[x] = Absent <=> old[x] = Absent
                 /\ Tainted(old[x].state) => row[x] = old[x]
                 /\ ~Tainted(old[x].state) /\ old[x] # Absent
                       => Frank(row[x]) /\ ~Sure(row[x]) /\ (Warns(fact) => Warns(row[x]))
            /\ (\A x \in Slots : Frank(putRow[x])) => \A x \in Slots : Frank(row[x])
            /\ \A x \in Keys : Sure(row[x]) => row[x] = old[x]
        BY <4>1, <2>1, <2>4, <2>10, WildRowIs
      <4>5. ASSUME NEW x \in Keys
            PROVE  /\ cells[x] \in run.checked \/ Warns(IF row[x] # Absent THEN row[x] ELSE row[UNKNOWN_KEY])
                   /\ row[x] # Absent => cells[x] # Unset
        <5>1. extras[x] \in run.checked \/ (old[x] # Absent /\ Warns(old[x]))
          BY <2>2, <4>3, <2>6, NoneIsNoFact DEF RowSound
        <5>2. Warns(old[x]) => Warns(row[x]) /\ row[x] # Absent
          BY <4>4, NoneIsNoFact DEF Warns
        <5>3. Warns(fact) /\ row[x] # Absent => Warns(row[x])
          BY <4>3, <4>4
        <5>4. row[x] # Absent => extras[x] # Unset
          BY <2>2, <4>4, <2>6 DEF RowSound
        <5> QED
          BY <5>1, <5>2, <5>3, <5>4, <4>4, <2>4, <2>5, <2>11
      <4>6. RowSound(row, cells, a \in unknown', a \in run.open)
        BY <2>2, <4>2, <4>4, <4>5, <2>4 DEF RowSound
      <4>7. ASSUME ExactFlow, blurred' = {} PROVE RowExact(row, cells, a \in run.open)
        <5>1. \A x \in Slots : Frank(row[x])
          BY <2>2, <4>4, <4>7, <2>4, <2>6, <2>10 DEF RowExact
        <5>2. extras[key] \in {NotHis, Unset} \/ id # NotHis
          BY <4>7, <3>2, <1>3, <1>1, <2>1 DEF a, extras, id
        <5>3. \A x \in Keys : Sure(row[x]) => cells[x] \notin {NotHis, Unset}
          BY <2>2, <4>4, <4>7, <5>2, <2>5, <2>6, <2>11 DEF RowExact
        <5>4. Sure(row[UNKNOWN_KEY]) => HoldsHis(cells, a \in run.open)
          BY <2>2, <4>4, <4>7, <2>3, <2>4, <2>5, <2>11 DEF HoldsHis
        <5> QED
          BY <2>2, <5>1, <5>3, <5>4 DEF RowExact
      <4> QED
        BY <4>4, <4>6, <4>7
    <3> QED
      BY <3>1, <3>2
  <2>13. ExactFlow /\ blurred' = {} /\ Remembered(a) /\ a \in HisObjects => HoldsHis(cells, a \in run.open)
    <3> SUFFICES ASSUME ExactFlow, blurred' = {}, Remembered(a), HoldsHis(extras, a \in run.open) PROVE HoldsHis(cells, a \in run.open)
      BY <2>6
    <3>1. extras[key] \in {NotHis, Unset} \/ id # NotHis
      BY <1>3, <1>1, <2>1 DEF a, extras, id
    <3> QED
      BY <2>2, <3>1, <2>3, <2>5, <2>11 DEF HoldsHis
  <2>14. unknown' \subseteq Objects /\ unknown' \ {a} = unknown \ {a}
    <3>1. unknown' = IF k = UNKNOWN_KEY THEN unknown \cup {a} ELSE unknown
      BY <1>1 DEF a
    <3> QED
      BY <3>1, <2>1, <2>7
  <2> HIDE DEF row, cells
  <2>15. a \in Objects \ {1}
    BY <2>1, <2>2
  <2> QED
    BY <1>1, <1>4, <2>1, <2>7, <2>8, <2>9, <2>11, <2>12, <2>13, <2>14, <2>15, ObjectStep
<1> HIDE DEF a, put, lost
<1> QED
  BY <1>1, <1>3, <1>4, FlowKept

LEMMA MergeExtrasKeeps ==
    ASSUME FlowInv, NEW o \in Locals, NEW s \in Locals, NEW replace \in BOOLEAN, MergeExtras(o, s, replace)
    PROVE  FlowInv'
<1> DEFINE to == Eval(o).obj
           src == Eval(s)
           base == IF replace THEN [slots EXCEPT ![to] = [k \in Slots |-> Absent]] ELSE slots
           left == IF replace THEN unknown \ {to} ELSE unknown
           taken == IF src.obj = NoObject THEN base
                    ELSE [base EXCEPT ![to] = [k \in Slots |->
                             IF k # UNKNOWN_KEY /\ base[src.obj][k] # Absent THEN base[src.obj][k]
                             ELSE base[to][k]]]
           put == IF src.obj = NoObject THEN [taken EXCEPT ![to][UNKNOWN_KEY] = src] ELSE taken
           wild == IF src.obj = NoObject THEN Tainted(src.state)
                   ELSE src.obj \in left \/ base[src.obj][UNKNOWN_KEY] # Absent
           a == Value(o).obj
           b == Value(s)
           his == IF b.obj = NoObject THEN Dangerous(b) ELSE b.obj \in run.open
           kept(k) == IF replace THEN Unset ELSE run.heap[a][k]
           copied(k) == IF b.obj # NoObject /\ run.heap[b.obj][k] # Unset THEN run.heap[b.obj][k]
                        ELSE IF his THEN Unset
                        ELSE IF b.obj = NoObject /\ Attackers(b) /\ kept(k) \in {NotHis, Unset} THEN Vetted
                        ELSE kept(k)
           lost(k) == /\ a # NoObject /\ run.heap[a][k] \notin {NotHis, Unset}
                      /\ copied(k) = NotHis \/ (copied(k) = Unset /\ ~his)
                      /\ \/ Remembered(to)
                         \/ ~replace /\ src.obj # NoObject /\ slots[src.obj][k] = Absent
           cells == [k \in Keys |-> copied(k)]
           open == IF his THEN run.open \cup {a} ELSE IF replace THEN run.open \ {a} ELSE run.open
<1>1. /\ Step /\ frames # << >> /\ ~stopped' /\ SetTop(Frame) /\ to # NoObject
      /\ slots' = IF wild THEN Wildcard(put, to) ELSE taken
      /\ unknown' = IF wild THEN left \cup {to} ELSE left
      /\ UNCHANGED <<missed, phantom>>
  BY DEF MergeExtras, Step
<1>2. Running /\ a # NoObject => run' = [Back(run) EXCEPT !.heap[a] = cells,
                                                        !.open = IF his THEN Back(run).open \cup {a}
                                                                 ELSE IF replace THEN Back(run).open \ {a}
                                                                 ELSE Back(run).open]
  BY DEF MergeExtras
<1>3. Blurs(Blur("open_write", WritesOpen(o)) \cup
            Blur("emptied", replace /\ src.obj = to) \cup
            Blur("wildcard", wild /\ Forgets(taken, to)) \cup
            Blur("lost", Running /\ \E k \in Keys : lost(k)))
  BY DEF MergeExtras
<1>4. /\ blurred \subseteq blurred' /\ (blurred' = {} => Clear')
      /\ Clear' => ~WritesOpen(o) /\ ~(replace /\ src.obj = to) /\ ~(wild /\ Forgets(taken, to))
      /\ blurred' = {} /\ Running => \A k \in Keys : ~lost(k)
  <2> HIDE DEF to, src, wild, taken, lost
  <2> QED
    BY <1>3, BlursLast DEF Blur, Widening, Clear
<1>5. ASSUME SoundFlow, Clear'
      PROVE  /\ SoundFlow' /\ frames' # << >>
             /\ ExactFlow /\ blurred' = {} => ExactFlow'
  <2> DEFINE old == slots[a]
             extras == run.heap[a]
             given == IF src.obj = NoObject THEN [k \in Slots |-> Absent] ELSE slots[src.obj]
             theirs == IF src.obj = NoObject THEN [k \in Keys |-> Unset] ELSE run.heap[src.obj]
             baseRow == IF replace THEN [k \in Slots |-> Absent] ELSE old
             takenRow == [k \in Slots |-> IF k # UNKNOWN_KEY /\ given[k] # Absent THEN given[k] ELSE baseRow[k]]
             putRow == IF src.obj = NoObject THEN [takenRow EXCEPT ![UNKNOWN_KEY] = src] ELSE takenRow
             row == IF wild THEN WildRow(putRow) ELSE takenRow
  <2>1. /\ Running /\ Back(run) = run /\ steps \in Nat /\ steps <= MaxSteps /\ a = to /\ to = a /\ a \in Objects
        /\ a <= steps + 1 /\ run = NormalRun(run.frames, run.checked) /\ run.away = Live /\ NoObject = 0
        /\ a # NoObject
    <3>1. /\ Running /\ Back(run) = run /\ steps \in Nat /\ steps <= MaxSteps
      BY <1>1, <1>5, TopIsRight
    <3>2. a = to /\ a \in Objects /\ a \in 0..steps + 1
      BY <1>1, <1>5, EvalIsRight, NumbersApart
    <3>3. a <= steps + 1
      BY <3>1, <3>2
    <3>4. run = NormalRun(run.frames, run.checked) /\ run.away = Live
      BY <1>5, StackGrows DEF SoundFlow, RunTypes
    <3> QED
      BY <1>1, <3>1, <3>2, <3>3, <3>4, NumbersApart
  <2>2. a \notin run.open /\ a # 1
    <3>1. a \notin run.open
      BY <1>4, <1>5, <2>1 DEF WritesOpen
    <3> QED
      BY <3>1, <1>5 DEF SoundFlow, TheIntentKept
  <2>3. /\ UNKNOWN_KEY \in Slots /\ UNKNOWN_KEY \notin Keys /\ Slots = Keys \cup {UNKNOWN_KEY} /\ Keys # {}
        /\ Vetted # Unset /\ Vetted # NotHis /\ NotHis # Unset
    BY NumbersApart
  <2>4. /\ {NotHis, Unset, Vetted} \subseteq run.checked
        /\ slots \in [Objects -> [Slots -> FactsOrNone(steps)]] /\ unknown \subseteq Objects
        /\ run.heap \in [Objects -> [Keys -> IdsBy(steps) \cup {Unset}]] /\ run.open \subseteq Objects
    BY <1>5 DEF SoundFlow, RunTypes
  <2>5. /\ src \in FactsBy(steps) /\ src # Absent /\ src.obj = b.obj
        /\ src.obj = NoObject \/ src.obj \in Objects
        /\ Sound(src, b, run.checked) /\ (ExactFlow => Exact(src, b, HisObjects))
    BY <1>1, <1>5, EvalIsRight, NumbersApart
  <2>6. src.obj = NoObject =>
           /\ b.id \in run.checked \/ Warns(src)
           /\ ExactFlow => Frank(src) /\ (Sure(src) => b.id # NotHis)
           /\ his <=> b.id \notin run.checked
           /\ Attackers(b) <=> b.id # NotHis
    <3> SUFFICES ASSUME src.obj = NoObject
                 PROVE  /\ b.id \in run.checked \/ Warns(src)
                        /\ ExactFlow => Frank(src) /\ (Sure(src) => b.id # NotHis)
                        /\ his <=> b.id \notin run.checked
                        /\ Attackers(b) <=> b.id # NotHis
      OBVIOUS
    <3>1. b.obj = 0 /\ 0 \notin run.open /\ HeapOf(b) = {}
      BY <2>1, <2>4, <2>5, NumbersApart DEF HeapOf
    <3> HIDE DEF src, b
    <3>2. his <=> b.id \notin run.checked
      BY <2>1, <3>1 DEF Dangerous, Open, Unchecked
    <3>3. Attackers(b) <=> b.id # NotHis
      BY <3>1 DEF Attackers
    <3> HIDE DEF his
    <3> QED
      BY <2>1, <2>5, <3>1, <3>2, <3>3 DEF Sound, Exact
  <2>7. /\ RowSound(old, extras, a \in unknown, a \in run.open)
        /\ ExactFlow => RowExact(old, extras, a \in run.open)
        /\ a \in HisObjects <=> HoldsHis(extras, a \in run.open)
        /\ old \in [Slots -> FactsOrNone(steps)] /\ extras \in [Keys -> IdsBy(steps) \cup {Unset}]
    BY <1>5, <2>1, <2>2, RowOfObject
  <2>8. /\ src.obj # NoObject => base[src.obj] = slots[src.obj] /\ (src.obj \in left <=> src.obj \in unknown)
        /\ src.obj = NoObject => (wild <=> Tainted(src.state))
        /\ src.obj # NoObject => (wild <=> src.obj \in unknown \/ slots[src.obj][UNKNOWN_KEY] # Absent)
    <3>1. src.obj # NoObject => base[src.obj] = slots[src.obj] /\ (src.obj \in left <=> src.obj \in unknown)
      <4> HIDE DEF src, to
      <4> QED
        BY <1>4, <1>5, <2>4, <2>5
    <3> HIDE DEF src, base, left
    <3> QED
      BY <3>1
  \* The object that is taken from.
  <2>9. /\ given \in [Slots -> FactsOrNone(steps)] /\ theirs \in [Keys -> IdsBy(steps) \cup {Unset}]
        /\ \A k \in Slots : given[k].obj = NoObject
        /\ \A k \in Keys : given[k] # Absent => theirs[k] # Unset \/ his
        /\ ~wild => /\ ~his
                    /\ \A k \in Keys : theirs[k] \in run.checked \/ (given[k] # Absent /\ Warns(given[k]))
        /\ ExactFlow => \A k \in Keys : /\ Frank(given[k])
                                        /\ Sure(given[k]) => \/ theirs[k] \notin {NotHis, Unset}
                                                             \/ theirs[k] = Unset /\ his
    <3>1. CASE src.obj = NoObject
      <4>1. given = [k \in Slots |-> Absent] /\ theirs = [k \in Keys |-> Unset]
        BY <3>1
      <4>2. Absent \in FactsOrNone(steps) /\ Absent.obj = NoObject
        BY <2>1, NoneIsNoFact DEF FactsOrNone
      <4>3. ~wild => ~his
        BY <2>6, <2>8, <3>1 DEF Warns
      <4> HIDE DEF given, theirs, wild, his
      <4> QED
        BY <2>3, <2>4, <4>1, <4>2, <4>3, NoneIsNoFact
    <3>2. CASE src.obj = 1
      <4>1. given = slots[1] /\ theirs = run.heap[1] /\ 1 \in Objects
        BY <2>1, <2>5, <3>2
      <4>2. /\ 1 \in unknown /\ 1 \in run.open /\ \A k \in Slots : slots[1][k] = Absent
        BY <1>5 DEF SoundFlow, TheIntentKept
      <4>3. wild
        BY <2>1, <2>8, <3>2, <4>2
      <4> HIDE DEF given, theirs, wild, his
      <4> QED
        BY <2>1, <2>3, <2>4, <4>1, <4>2, <4>3, NoneIsNoFact
    <3>3. CASE src.obj # NoObject /\ src.obj # 1
      <4> DEFINE c == src.obj
      <4>1. /\ given = slots[c] /\ theirs = run.heap[c] /\ c \in Objects \ {1}
            /\ his <=> c \in run.open
        BY <2>5, <3>3
      <4>2. wild <=> c \in unknown \/ slots[c][UNKNOWN_KEY] # Absent
        BY <2>8, <3>3
      <4> HIDE DEF given, theirs, wild, his, c
      <4>3. /\ RowSound(slots[c], run.heap[c], c \in unknown, c \in run.open)
            /\ ExactFlow => RowExact(slots[c], run.heap[c], c \in run.open)
            /\ slots[c] \in [Slots -> FactsOrNone(steps)] /\ run.heap[c] \in [Keys -> IdsBy(steps) \cup {Unset}]
        BY <1>5, <4>1, RowOfObject
      <4> QED
        BY <2>3, <4>1, <4>2, <4>3, NoneIsNoFact DEF RowSound, RowExact
    <3> QED
      BY <3>1, <3>2, <3>3
  <2>10. /\ taken = [slots EXCEPT ![a] = takenRow] /\ put = [slots EXCEPT ![a] = putRow] /\ taken[a] = takenRow
         /\ slots' = [slots EXCEPT ![a] = row]
    <3>1. base = [slots EXCEPT ![a] = baseRow] /\ base[a] = baseRow /\ base \in [Objects -> [Slots -> FactsOrNone(steps)]]
      <4>1. replace => base = [slots EXCEPT ![a] = [k \in Slots |-> Absent]]
        BY <2>1
      <4>2. ~replace => base = slots /\ baseRow = slots[a]
        OBVIOUS
      <4>3. replace => baseRow = [k \in Slots |-> Absent]
        OBVIOUS
      <4>4. baseRow \in [Slots -> FactsOrNone(steps)]
        <5>1. Absent \in FactsOrNone(steps)
          BY DEF FactsOrNone
        <5> HIDE DEF old
        <5> QED
          BY <2>7, <5>1
      <4> HIDE DEF a, base, baseRow
      <4>5. base = [slots EXCEPT ![a] = baseRow]
        <5>1. CASE replace
          BY <4>1, <4>3, <5>1
        <5>2. CASE ~replace
          BY <2>1, <2>4, <4>2, <5>2
        <5> QED
          BY <5>1, <5>2
      <4> QED
        BY <2>1, <2>4, <4>4, <4>5
    <3>2. /\ takenRow[UNKNOWN_KEY] = baseRow[UNKNOWN_KEY]
          /\ src.obj = NoObject => takenRow = baseRow
      <4>1. DOMAIN baseRow = Slots /\ baseRow = [k \in Slots |-> baseRow[k]]
        BY <2>7
      <4> HIDE DEF old, baseRow, src
      <4> QED
        BY <2>3, <4>1
    <3>3. taken = [base EXCEPT ![a] = takenRow]
      <4>1. CASE src.obj = NoObject
        <5>1. taken = base /\ takenRow = base[a]
          BY <3>1, <3>2, <4>1
        <5> HIDE DEF base, a, taken, takenRow
        <5> QED
          BY <3>1, <5>1
      <4>2. CASE src.obj # NoObject
        <5>1. [k \in Slots |-> IF k # UNKNOWN_KEY /\ base[src.obj][k] # Absent THEN base[src.obj][k] ELSE base[to][k]]
                = takenRow
          <6>1. base[src.obj] = given /\ base[to] = baseRow
            BY <2>1, <2>8, <3>1, <4>2
          <6> HIDE DEF base, given, baseRow
          <6> QED
            BY <6>1
        <5>2. taken = [base EXCEPT ![to] = [k \in Slots |-> IF k # UNKNOWN_KEY /\ base[src.obj][k] # Absent
                                                            THEN base[src.obj][k] ELSE base[to][k]]]
          BY <4>2
        <5> HIDE DEF base, a, to, taken, takenRow, src
        <5> QED
          BY <2>1, <5>1, <5>2
      <4> QED
        BY <4>1, <4>2
    <3>4. put = [taken EXCEPT ![a] = putRow]
      <4>1. taken[a] = takenRow
        <5> HIDE DEF base, a, taken, takenRow
        <5> QED
          BY <2>1, <3>1, <3>3
      <4>2. src.obj = NoObject => put = [taken EXCEPT ![a] = [takenRow EXCEPT ![UNKNOWN_KEY] = src]]
        <5>1. src.obj = NoObject => put = [taken EXCEPT ![to][UNKNOWN_KEY] = src]
          OBVIOUS
        <5> HIDE DEF a, to, taken, takenRow, put, src
        <5> QED
          BY <2>1, <4>1, <5>1
      <4>3. src.obj # NoObject => put = taken
        OBVIOUS
      <4>4. taken = [taken EXCEPT ![a] = taken[a]]
        <5> HIDE DEF base, a, taken, takenRow
        <5> QED
          BY <2>1, <3>1, <3>3
      <4>5. /\ src.obj = NoObject => putRow = [takenRow EXCEPT ![UNKNOWN_KEY] = src]
            /\ src.obj # NoObject => putRow = takenRow
        OBVIOUS
      <4> HIDE DEF a, taken, takenRow, put, putRow, src
      <4> QED
        BY <4>1, <4>2, <4>3, <4>4, <4>5
    <3>5. Wildcard(put, a) = [put EXCEPT ![a] = WildRow(put[a])]
      BY WildcardIs
    <3>6. slots' = IF wild THEN Wildcard(put, a) ELSE taken
      BY <1>1, <2>1
    <3>7. row = IF wild THEN WildRow(putRow) ELSE takenRow
      OBVIOUS
    <3> HIDE DEF a, base, baseRow, taken, takenRow, put, putRow, wild, row
    <3>8. taken = [slots EXCEPT ![a] = takenRow] /\ taken[a] = takenRow
      BY <2>1, <2>4, <3>1, <3>3
    <3>9. put = [slots EXCEPT ![a] = putRow] /\ put[a] = putRow
      BY <2>1, <2>4, <3>8, <3>4
    <3> QED
      BY <2>1, <2>4, <3>5, <3>6, <3>7, <3>8, <3>9
  <2>11. run' = [frames |-> run.frames, away |-> Live, heap |-> [run.heap EXCEPT ![a] = cells],
                 open |-> open, checked |-> run.checked]
    <3>1. run' = [run EXCEPT !.heap[a] = cells, !.open = open]
      <4> HIDE DEF cells, a, his
      <4> QED
        BY <1>2, <2>1
    <3>2. \A h, q : [[NormalRun(run.frames, run.checked) EXCEPT !.heap = h] EXCEPT !.open = q]
             = [frames |-> run.frames, away |-> Live, heap |-> h, open |-> q, checked |-> run.checked]
      <4>1. \A h : [NormalRun(run.frames, run.checked) EXCEPT !.heap = h]
              = [frames |-> run.frames, away |-> Live, heap |-> h, open |-> run.open, checked |-> run.checked]
        BY DEF NormalRun
      <4>2. \A h, q : [[frames |-> run.frames, away |-> Live, heap |-> h, open |-> run.open, checked |-> run.checked]
                         EXCEPT !.open = q]
              = [frames |-> run.frames, away |-> Live, heap |-> h, open |-> q, checked |-> run.checked]
        OBVIOUS
      <4> QED
        BY <4>1, <4>2
    <3> HIDE DEF cells, a, open
    <3>3. [run EXCEPT !.heap[a] = cells, !.open = open]
            = [[run EXCEPT !.heap = [run.heap EXCEPT ![a] = cells]] EXCEPT !.open = open]
      BY Zenon
    <3> QED
      BY <2>1, <3>1, <3>2, <3>3
  \* What is in the object afterwards.
  <2>12. \A k \in Keys :
            cells[k] = IF theirs[k] # Unset THEN theirs[k]
                       ELSE IF his THEN Unset
                       ELSE IF src.obj = NoObject /\ b.id # NotHis /\ (replace \/ extras[k] \in {NotHis, Unset})
                            THEN Vetted
                       ELSE IF replace THEN Unset ELSE extras[k]
    <3> SUFFICES ASSUME NEW k \in Keys
                 PROVE  copied(k) = IF theirs[k] # Unset THEN theirs[k]
                       ELSE IF his THEN Unset
                       ELSE IF src.obj = NoObject /\ b.id # NotHis /\ (replace \/ extras[k] \in {NotHis, Unset})
                            THEN Vetted
                       ELSE IF replace THEN Unset ELSE extras[k]
      OBVIOUS
    <3>1. /\ src.obj = NoObject => theirs[k] = Unset
          /\ src.obj # NoObject => theirs[k] = run.heap[b.obj][k]
          /\ kept(k) = IF replace THEN Unset ELSE extras[k]
      BY <2>5
    <3> HIDE DEF theirs, src, b, his, kept, extras
    <3> QED
      BY <2>5, <2>6, <3>1
  <2>13. \A k \in Keys : lost(k) <=> /\ extras[k] \notin {NotHis, Unset}
                                     /\ cells[k] = NotHis \/ (cells[k] = Unset /\ ~his)
                                     /\ \/ Remembered(a)
                                        \/ ~replace /\ src.obj # NoObject /\ given[k] = Absent
    <3> SUFFICES ASSUME NEW k \in Keys
                 PROVE  lost(k) <=> /\ extras[k] \notin {NotHis, Unset}
                                    /\ cells[k] = NotHis \/ (cells[k] = Unset /\ ~his)
                                    /\ \/ Remembered(a)
                                       \/ ~replace /\ src.obj # NoObject /\ given[k] = Absent
      OBVIOUS
    <3>1. cells[k] = copied(k) /\ (src.obj # NoObject => given[k] = slots[src.obj][k])
      OBVIOUS
    <3> HIDE DEF copied, cells, src, his, given, to, a
    <3> QED
      BY <2>1, <3>1
  <2>14. /\ \A k \in Keys : takenRow[k] = IF given[k] # Absent THEN given[k] ELSE baseRow[k]
         /\ takenRow[UNKNOWN_KEY] = baseRow[UNKNOWN_KEY]
         /\ takenRow \in [Slots -> FactsOrNone(steps)] /\ \A k \in Slots : takenRow[k].obj = NoObject
         /\ \A k \in Keys : putRow[k] = takenRow[k]
         /\ putRow[UNKNOWN_KEY] = IF src.obj = NoObject THEN src ELSE takenRow[UNKNOWN_KEY]
         /\ putRow \in [Slots -> FactsOrNone(steps)] /\ \A k \in Slots : putRow[k].obj = NoObject
         /\ \A k \in Slots : baseRow[k] = IF replace THEN Absent ELSE old[k]
    <3>1. \A k \in Slots : baseRow[k] = IF replace THEN Absent ELSE old[k]
      OBVIOUS
    <3>2. \A k \in Slots : baseRow[k] \in FactsOrNone(steps) /\ baseRow[k].obj = NoObject
      <4> HIDE DEF baseRow, old
      <4> QED
        BY <2>1, <2>7, <3>1, NoneIsNoFact DEF FactsOrNone, RowSound
    <3> HIDE DEF baseRow, given
    <3>3. /\ \A k \in Keys : takenRow[k] = IF given[k] # Absent THEN given[k] ELSE baseRow[k]
          /\ takenRow[UNKNOWN_KEY] = baseRow[UNKNOWN_KEY]
          /\ takenRow \in [Slots -> FactsOrNone(steps)] /\ \A k \in Slots : takenRow[k].obj = NoObject
      BY <2>3, <2>9, <3>2
    <3>4. src \in FactsOrNone(steps)
      BY <2>5 DEF FactsOrNone
    <3> HIDE DEF takenRow, src
    <3> QED
      BY <2>3, <3>1, <3>3, <3>4
  <2>15. wild => /\ takenRow[UNKNOWN_KEY] = Absent
                 /\ \A k \in Keys : Tainted(takenRow[k].state) => Warns(takenRow[k])
    <3>1. wild => ~Forgets(taken, a)
      BY <1>4, <1>5, <2>1
    <3> HIDE DEF wild, taken, takenRow
    <3> QED
      BY <2>10, <3>1 DEF Forgets, Warns
  <2>16. /\ open \in SUBSET Objects /\ open \ {a} = run.open \ {a} /\ (a \in open <=> his)
         /\ unknown' \subseteq Objects /\ unknown' \ {a} = unknown \ {a}
         /\ a \in unknown' <=> wild \/ (~replace /\ a \in unknown)
    <3>1. unknown' = IF wild THEN left \cup {a} ELSE left
      BY <1>1, <2>1
    <3>2. left = IF replace THEN unknown \ {a} ELSE unknown
      BY <2>1
    <3> HIDE DEF a, his, wild, left
    <3> QED
      BY <2>1, <2>2, <2>4, <3>1, <3>2
  <2>17. cells \in [Keys -> IdsBy(steps) \cup {Unset}]
    <3>1. Vetted \in IdsBy(steps)
      BY DEF IdsBy
    <3>2. cells = [k \in Keys |-> cells[k]]
      OBVIOUS
    <3> HIDE DEF cells, theirs, extras, src, b, his
    <3>3. \A k \in Keys : cells[k] \in IdsBy(steps) \cup {Unset}
      BY <2>7, <2>9, <2>12, <3>1
    <3> QED
      BY <3>2, <3>3
  <2> HIDE DEF to, src, base, left, taken, put, wild, a, b, his, kept, copied, lost, cells, open,
               old, extras, given, theirs, baseRow, takenRow, putRow
  <2>18. wild => /\ row \in [Slots -> FactsOrNone(steps)] /\ \A k \in Slots : row[k].obj = NoObject
                 /\ row[UNKNOWN_KEY] # Absent
                 /\ src.obj = NoObject => row[UNKNOWN_KEY] = src
                 /\ src.obj # NoObject => /\ Warns(row[UNKNOWN_KEY]) /\ ~Sure(row[UNKNOWN_KEY])
                                          /\ Frank(row[UNKNOWN_KEY])
                 /\ \A k \in Keys :
                       /\ row[k] = Absent <=> takenRow[k] = Absent
                       /\ Tainted(takenRow[k].state) => row[k] = takenRow[k]
                       /\ Sure(row[k]) => row[k] = takenRow[k]
                       /\ Frank(takenRow[k]) => Frank(row[k])
                       /\ Warns(row[UNKNOWN_KEY]) => Warns(IF row[k] # Absent THEN row[k] ELSE row[UNKNOWN_KEY])
    <3> SUFFICES ASSUME wild
                 PROVE  /\ row \in [Slots -> FactsOrNone(steps)] /\ \A k \in Slots : row[k].obj = NoObject
                        /\ row[UNKNOWN_KEY] # Absent
                        /\ src.obj = NoObject => row[UNKNOWN_KEY] = src
                        /\ src.obj # NoObject => /\ Warns(row[UNKNOWN_KEY]) /\ ~Sure(row[UNKNOWN_KEY])
                                                 /\ Frank(row[UNKNOWN_KEY])
                        /\ \A k \in Keys :
                              /\ row[k] = Absent <=> takenRow[k] = Absent
                              /\ Tainted(takenRow[k].state) => row[k] = takenRow[k]
                              /\ Sure(row[k]) => row[k] = takenRow[k]
                              /\ Frank(takenRow[k]) => Frank(row[k])
                              /\ Warns(row[UNKNOWN_KEY]) => Warns(IF row[k] # Absent THEN row[k] ELSE row[UNKNOWN_KEY])
      OBVIOUS
    <3>1. row = WildRow(putRow)
      OBVIOUS
    <3> HIDE DEF row
    <3>2. /\ row \in [Slots -> FactsOrNone(steps)] /\ \A k \in Slots : row[k].obj = NoObject
          /\ row[UNKNOWN_KEY] # Absent
          /\ putRow[UNKNOWN_KEY] # Absent => row[UNKNOWN_KEY] = putRow[UNKNOWN_KEY]
          /\ putRow[UNKNOWN_KEY] = Absent => Warns(row[UNKNOWN_KEY]) /\ ~Sure(row[UNKNOWN_KEY]) /\ Frank(row[UNKNOWN_KEY])
          /\ \A k \in Keys :
                /\ row[k] = Absent <=> putRow[k] = Absent
                /\ Tainted(putRow[k].state) => row[k] = putRow[k]
                /\ ~Tainted(putRow[k].state) /\ putRow[k] # Absent
                      => Frank(row[k]) /\ ~Sure(row[k]) /\ (Warns(row[UNKNOWN_KEY]) => Warns(row[k]))
          /\ \A k \in Keys : Sure(row[k]) => row[k] = putRow[k]
      BY <2>1, <2>14, <3>1, WildRowIs
    <3>3. ASSUME NEW k \in Keys
          PROVE  /\ Frank(putRow[k]) => Frank(row[k])
                 /\ Warns(row[UNKNOWN_KEY]) => Warns(IF row[k] # Absent THEN row[k] ELSE row[UNKNOWN_KEY])
      <4>1. Tainted(putRow[k].state) => Warns(putRow[k])
        BY <2>14, <2>15
      <4> QED
        BY <3>2, <4>1, NoneIsNoFact
    <3> QED
      BY <2>5, <2>14, <2>15, <3>2, <3>3
  <2>19. ~wild => row = takenRow
    OBVIOUS
  <2> HIDE DEF row
  <2>20. row \in [Slots -> FactsOrNone(steps)] /\ \A k \in Slots : row[k].obj = NoObject
    BY <2>14, <2>18, <2>19
  <2>21. his => Warns(row[UNKNOWN_KEY])
    BY <2>6, <2>9, <2>18
  <2>22. ASSUME NEW k \in Keys
         PROVE  \/ cells[k] \in run.checked /\ ~(cells[k] = Unset /\ a \in open)
                \/ Warns(IF row[k] # Absent THEN row[k] ELSE row[UNKNOWN_KEY])
    <3>1. \/ extras[k] \in run.checked
          \/ Warns(IF old[k] # Absent THEN old[k] ELSE old[UNKNOWN_KEY])
      BY <2>7 DEF RowSound
    <3>2. CASE wild /\ Warns(row[UNKNOWN_KEY])
      BY <2>18, <3>2
    <3>3. CASE wild /\ ~Warns(row[UNKNOWN_KEY])
      <4>1. src.obj = NoObject /\ ~his
        BY <2>18, <2>21, <3>3
      <4>2. theirs[k] = Unset
        BY <4>1 DEF theirs
      <4>3. CASE cells[k] = Vetted \/ cells[k] = Unset
        BY <2>4, <2>16, <4>1, <4>3
      <4>4. CASE ~replace /\ cells[k] = extras[k]
        <5>1. old[UNKNOWN_KEY] = Absent
          BY <2>3, <2>14, <2>15, <3>3, <4>4
        <5>2. extras[k] \in run.checked \/ (old[k] # Absent /\ Warns(old[k]))
          BY <3>1, <5>1, NoneIsNoFact
        <5>3. takenRow[k] = old[k]
          BY <2>3, <2>14, <4>1, <4>4 DEF given
        <5>4. Warns(old[k]) => row[k] = old[k]
          BY <2>18, <3>3, <5>3 DEF Warns
        <5> QED
          BY <2>16, <4>1, <4>4, <5>2, <5>4
      <4> QED
        BY <2>12, <4>1, <4>2, <4>3, <4>4
    <3>4. CASE ~wild
      <4>1. row = takenRow /\ ~his /\ a \notin open
        BY <2>9, <2>16, <2>19, <3>4
      <4>2. CASE theirs[k] # Unset
        <5>1. cells[k] = theirs[k]
          BY <2>12, <4>2
        <5>2. cells[k] \in run.checked \/ (given[k] # Absent /\ Warns(given[k]))
          BY <2>9, <3>4, <5>1
        <5> QED
          BY <2>14, <4>1, <5>2
      <4>3. CASE theirs[k] = Unset /\ (cells[k] = Vetted \/ cells[k] = Unset)
        BY <2>4, <4>1, <4>3
      <4>4. CASE theirs[k] = Unset /\ ~replace /\ cells[k] = extras[k]
        <5>1. given[k] = Absent
          BY <2>9, <4>1, <4>4
        <5>2. row[k] = old[k] /\ row[UNKNOWN_KEY] = old[UNKNOWN_KEY]
          BY <2>3, <2>14, <4>1, <4>4, <5>1
        <5> QED
          BY <3>1, <4>1, <4>4, <5>2
      <4> QED
        BY <2>12, <4>1, <4>2, <4>3, <4>4
    <3> QED
      BY <3>2, <3>3, <3>4
  <2>23. ASSUME NEW k \in Keys, row[k] # Absent PROVE cells[k] # Unset \/ a \in open
    <3>1. takenRow[k] # Absent
      BY <2>18, <2>19, <2>23
    <3>2. CASE given[k] # Absent
      BY <2>9, <2>12, <2>16, <3>2
    <3>3. CASE given[k] = Absent
      <4>1. ~replace /\ old[k] # Absent
        BY <2>3, <2>14, <3>1, <3>3
      <4>2. extras[k] # Unset
        BY <2>2, <2>7, <4>1 DEF RowSound
      <4> QED
        BY <2>3, <2>12, <2>16, <4>1, <4>2
    <3> QED
      BY <3>2, <3>3
  <2>24. RowSound(row, cells, a \in unknown', a \in open)
    <3>1. a \in unknown' <=> row[UNKNOWN_KEY] # Absent
      <4>1. a \in unknown <=> old[UNKNOWN_KEY] # Absent
        BY <2>7 DEF RowSound
      <4> QED
        BY <2>3, <2>14, <2>16, <2>18, <2>19, <4>1
    <3> QED
      BY <2>16, <2>20, <2>21, <2>22, <2>23, <3>1 DEF RowSound
  <2>25. ASSUME ExactFlow, blurred' = {}
         PROVE  /\ RowExact(row, cells, a \in open)
                /\ Remembered(a) /\ a \in HisObjects => HoldsHis(cells, a \in open)
    <3>1. \A k \in Keys : ~lost(k)
      BY <1>4, <2>1, <2>25
    <3>2. RowExact(old, extras, a \in run.open)
      BY <2>7, <2>25
    <3>3. Remembered(a) /\ a \in HisObjects => HoldsHis(cells, a \in open)
      <4> SUFFICES ASSUME Remembered(a), HoldsHis(extras, a \in run.open) PROVE HoldsHis(cells, a \in open)
        BY <2>7
      <4>1. PICK k \in Keys : extras[k] \notin {NotHis, Unset}
        BY <2>2 DEF HoldsHis
      <4>2. ~(cells[k] = NotHis \/ (cells[k] = Unset /\ ~his))
        BY <2>13, <3>1, <4>1
      <4> QED
        BY <2>16, <4>2 DEF HoldsHis
    <3>4. \A k \in Slots : Frank(row[k])
      <4>1. \A k \in Slots : Frank(takenRow[k])
        <5>1. \A k \in Slots : Frank(baseRow[k])
          BY <2>14, <3>2, NoneIsNoFact DEF RowExact
        <5> QED
          BY <2>3, <2>9, <2>14, <2>25, <5>1
      <4>2. wild => Frank(row[UNKNOWN_KEY])
        BY <2>6, <2>18, <2>25
      <4> QED
        BY <2>3, <2>18, <2>19, <4>1, <4>2
    <3>5. ASSUME NEW k \in Keys, Sure(row[k])
          PROVE  cells[k] \notin {NotHis, Unset} \/ (cells[k] = Unset /\ a \in open)
      <4>1. row[k] = takenRow[k] /\ Sure(takenRow[k])
        BY <2>18, <2>19, <3>5
      <4>2. CASE given[k] # Absent
        <5>1. Sure(given[k])
          BY <2>14, <4>1, <4>2
        <5>2. theirs[k] \notin {NotHis, Unset} \/ (theirs[k] = Unset /\ his)
          BY <2>9, <2>25, <5>1
        <5> QED
          BY <2>12, <2>16, <5>2
      <4>3. CASE given[k] = Absent
        <5>1. ~replace /\ Sure(old[k])
          BY <2>3, <2>14, <4>1, <4>3, NoneIsNoFact
        <5>2. extras[k] \notin {NotHis, Unset}
          BY <2>2, <3>2, <5>1 DEF RowExact
        <5>3. src.obj # NoObject => ~(cells[k] = NotHis \/ (cells[k] = Unset /\ ~his))
          BY <2>13, <3>1, <4>3, <5>1, <5>2
        <5>4. src.obj = NoObject => (cells[k] = Unset /\ his) \/ cells[k] = extras[k]
          <6>1. src.obj = NoObject => theirs[k] = Unset
            BY DEF theirs
          <6> QED
            BY <2>12, <5>1, <5>2, <6>1
        <5> QED
          BY <2>16, <5>2, <5>3, <5>4
      <4> QED
        BY <4>2, <4>3
    <3>6. ASSUME Sure(row[UNKNOWN_KEY]) PROVE HoldsHis(cells, a \in open)
      <4>1. CASE wild
        <5>1. src.obj = NoObject /\ b.id # NotHis
          BY <2>6, <2>18, <2>25, <3>6, <4>1
        <5>2. CASE his
          BY <2>16, <5>2 DEF HoldsHis
        <5>3. CASE ~his
          <6>1. PICK k \in Keys : TRUE
            BY <2>3
          <6>2. theirs[k] = Unset
            BY <5>1 DEF theirs
          <6>3. cells[k] = Vetted \/ (cells[k] = extras[k] /\ extras[k] \notin {NotHis, Unset})
            BY <2>12, <5>1, <5>3, <6>2
          <6> QED
            BY <2>3, <6>3 DEF HoldsHis
        <5> QED
          BY <5>2, <5>3
      <4>2. CASE ~wild
        <5>1. ~replace /\ Sure(old[UNKNOWN_KEY]) /\ old[UNKNOWN_KEY] # Absent
          BY <2>3, <2>14, <2>19, <3>6, <4>2, NoneIsNoFact
        <5>2. HoldsHis(extras, a \in run.open)
          BY <3>2, <5>1 DEF RowExact
        <5>3. Remembered(a)
          BY <5>1 DEF Remembered, old
        <5> QED
          BY <2>7, <3>3, <5>2, <5>3
      <4> QED
        BY <4>1, <4>2
    <3> QED
      BY <3>3, <3>4, <3>5, <3>6 DEF RowExact
  <2>26. a \in Objects \ {1}
    BY <2>1, <2>2
  <2> QED
    BY <1>1, <1>5, <2>1, <2>10, <2>11, <2>16, <2>17, <2>20, <2>24, <2>25, <2>26, ObjectStep
<1> HIDE DEF to, src, base, left, taken, put, wild, a, b, his, kept, copied, lost, cells, open
<1> QED
  BY <1>1, <1>4, <1>5, FlowKept
-----------------------------------------------------------------------------
(* The whole interpretation.                                                *)

LEMMA FlowBegins ==
    ASSUME FlowInit
    PROVE  FlowInv
<1> DEFINE lin == Lineage("untrusted", {"intent"})
           intent == [state |-> "untrusted", ver |-> 0, obj |-> 1, lin |-> lin]
           value == [id |-> TheIntent, obj |-> 1]
           first == NewFrame(intent, Absent, FALSE, Param)
           runFirst == RunFrame(value)
<1>1. /\ steps = 0 /\ frames = <<first>> /\ slots = [o \in Objects |-> [k \in Slots |-> Absent]]
      /\ unknown = {1} /\ ~stopped /\ blurred = {} /\ missed = FALSE /\ phantom = FALSE
      /\ run = [frames |-> <<runFirst>>, away |-> Live, heap |-> [o \in Objects |-> [k \in Keys |-> Unset]],
                open |-> {1}, checked |-> {NotHis, Unset, Vetted}]
  BY DEF FlowInit, Fact
<1>2. /\ MaxSteps \in Nat /\ MaxSteps >= 1 /\ NotHis = 0 /\ TheIntent = MaxSteps + 1 /\ Unset = MaxSteps + 2
      /\ NoObject = 0 /\ 1 \in Objects /\ UNKNOWN_KEY \in Slots /\ Keys \subseteq Slots /\ Param \in Locals
  BY NumbersApart, DataFlowAssumption
<1>3. /\ lin \subseteq Lineages /\ (\A l \in lin : l.state = "untrusted") /\ lin # {}
  BY LineageIs DEF Trusts
<1> HIDE DEF lin
<1>4. /\ intent \in FactsBy(0) /\ Absent \in FactsOrNone(0) /\ NotHis \in IdsBy(0) /\ TheIntent \in IdsBy(0)
      /\ Vetted \in IdsBy(0)
  <2>1. 0 \in 0..0 /\ 1 \in 0..0 + 1
    OBVIOUS
  <2> QED
    BY <1>2, <1>3, <2>1 DEF FactsBy, FactsOrNone, IdsBy, Trusts
<1>5. value \in ValuesBy(0) /\ value.obj = 1 /\ value.id = TheIntent
  <2>1. 1 \in 0..0 + 1
    OBVIOUS
  <2> QED
    BY <1>4, <2>1 DEF ValuesBy
<1>6. /\ Sound(intent, value, run.checked) /\ Exact(intent, value, HisObjects)
  <2>1. intent.obj = 1 /\ intent.lin = lin /\ intent.state = "untrusted"
    OBVIOUS
  <2>2. Sound(intent, value, run.checked)
    <3> HIDE DEF intent, value
    <3> QED
      BY <1>2, <1>3, <1>5, <2>1 DEF Sound, Tainted
  <2>3. Exact(intent, value, HisObjects)
    <3> HIDE DEF intent, value
    <3> QED
      BY <1>3, <2>1 DEF Exact, Frank, Sure
  <2> QED
    BY <2>2, <2>3
<1>7. /\ TrustedFact \in FactsBy(0) /\ Clean \in ValuesBy(0)
      /\ Sound(TrustedFact, Clean, run.checked) /\ Exact(TrustedFact, Clean, HisObjects)
  <2>1. NotHis \in run.checked /\ 0 \in Nat
    BY <1>1
  <2> QED
    BY <2>1, TrustedIsRight
<1> DEFINE d == [intent EXCEPT !.ver = 0]
<1>8. d = intent
  OBVIOUS
<1>9. /\ first.locals = [n \in Locals |-> IF n = Param THEN intent ELSE TrustedFact]
      /\ first.pending = [n \in Locals |-> [name |-> "none", ver |-> 0]]
      /\ first.path_gaps = FALSE /\ first.control = Absent /\ first.scope = [end |-> 0, previous |-> Absent]
      /\ first = [locals |-> first.locals, pending |-> first.pending, line |-> 0, control |-> Absent,
                  scope |-> [end |-> 0, previous |-> Absent],
                  path_gaps |-> FALSE, block |-> 0, target |-> Param, returned |-> Absent]
      /\ runFirst.locals = [n \in Locals |-> IF n = Param THEN value ELSE Clean]
      /\ runFirst.checks = [n \in Locals |-> NotHis]
      /\ runFirst = [locals |-> runFirst.locals, checks |-> runFirst.checks]
  BY <1>1, <1>8 DEF NewFrame, RunFrame
<1> HIDE DEF first, runFirst, intent, value, d
<1>10. FrameSound(first, runFirst, 0, run.checked) /\ FrameExact(first, runFirst, HisObjects)
  <2>1. first.locals \in [Locals -> FactsBy(0)]
    BY <1>4, <1>7, <1>9
  <2>2. first.pending \in [Locals -> [name : Locals \cup {"none"}, ver : 0..0]]
    <3>1. 0 \in 0..0
      OBVIOUS
    <3> QED
      BY <1>9, <3>1
  <2>3. first \in FramesBy(0)
    <3>1. [end |-> 0, previous |-> Absent] \in [end : Nat, previous : FactsOrNone(0)]
      BY <1>4
    <3> DEFINE locals == first.locals
               pending == first.pending
               scope == [end |-> 0, previous |-> Absent]
    <3>2. first = [locals |-> locals, pending |-> pending, line |-> 0, control |-> Absent, scope |-> scope,
                   path_gaps |-> FALSE, block |-> 0, target |-> Param, returned |-> Absent]
      BY <1>9
    <3> HIDE DEF locals, pending, scope
    <3>3. [locals |-> locals, pending |-> pending, line |-> 0, control |-> Absent, scope |-> scope,
           path_gaps |-> FALSE, block |-> 0, target |-> Param, returned |-> Absent] \in FramesBy(0)
      BY <1>2, <1>4, <2>1, <2>2, <3>1 DEF FramesBy, locals, pending, scope
    <3> QED
      BY <3>2, <3>3
  <2>4. runFirst \in RunFramesBy(0)
    BY <1>4, <1>5, <1>7, <1>9 DEF RunFramesBy
  <2>5. \A n \in Locals : Sound(first.locals[n], runFirst.locals[n], run.checked)
    BY <1>6, <1>7, <1>9
  <2>6. \A n \in Locals : Exact(first.locals[n], runFirst.locals[n], HisObjects)
    BY <1>6, <1>7, <1>9
  <2>7. ChecksCount(first, runFirst)
    BY <1>9 DEF ChecksCount
  <2> QED
    BY <1>9, <2>3, <2>4, <2>5, <2>6, <2>7 DEF FrameSound, FrameExact
<1>11. /\ frames \in Seq(FramesBy(steps)) /\ Len(frames) = 1 /\ DOMAIN frames = {1} /\ frames[1] = first
       /\ run.frames \in Seq(RunFramesBy(steps)) /\ Len(run.frames) = 1 /\ run.frames[1] = runFirst
  BY <1>1, <1>10 DEF FrameSound
<1>12. RunTypes
  <2>1. run.heap \in [Objects -> [Keys -> IdsBy(steps) \cup {Unset}]]
    BY <1>1
  <2>2. run.open \in SUBSET Objects /\ run.checked \in SUBSET (IdsBy(steps) \cup {Unset}) /\ run.away \in {Live}
    BY <1>1, <1>2, <1>4
  <2>3. run = [frames |-> run.frames, away |-> run.away, heap |-> run.heap, open |-> run.open, checked |-> run.checked]
    BY <1>1
  <2>4. {NotHis, Unset, Vetted} \subseteq run.checked
    BY <1>1
  <2> QED
    BY <1>11, <2>1, <2>2, <2>3, <2>4 DEF RunTypes
<1>13. \A o \in Objects : /\ \A k \in Slots : slots[o][k] = Absent
                          /\ \A k \in Keys : run.heap[o][k] = Unset
                          /\ o # 1 => o \notin unknown /\ o \notin run.open
  BY <1>1
<1>14. Absent.obj = NoObject /\ Frank(Absent) /\ ~Sure(Absent)
  BY <1>2, NoneIsNoFact
<1>15. TheIntentKept
  BY <1>1, <1>2, <1>13 DEF TheIntentKept
<1>16. \A o \in Objects \ {1} : ObjectSound(o) /\ ObjectExact(o)
  <2>1. Unset \in run.checked
    BY <1>1
  <2> QED
    BY <1>2, <1>13, <1>14, <2>1 DEF ObjectSound, ObjectExact
<1>17. slots \in [Objects -> [Slots -> FactsOrNone(steps)]] /\ unknown \subseteq Objects
  BY <1>1, <1>2, <1>4
<1>18. steps \in 0..MaxSteps
  BY <1>1, <1>2
<1>19. SoundFlow /\ ExactFlow
  BY <1>1, <1>10, <1>11, <1>12, <1>15, <1>16, <1>17, <1>18 DEF SoundFlow, ExactFlow
<1> QED
  BY <1>1, <1>19 DEF FlowInv, NothingMissed, NothingInvented

LEMMA FlowStays ==
    ASSUME FlowInv, UNCHANGED flow_vars
    PROVE  FlowInv'
<1>1. /\ frames' = frames /\ slots' = slots /\ unknown' = unknown /\ gaps' = gaps /\ steps' = steps
      /\ stopped' = stopped /\ run' = run /\ blurred' = blurred /\ missed' = missed /\ phantom' = phantom
  BY DEF flow_vars
<1>2. SoundFlow => SoundFlow'
  <2>1. TheIntentKept => TheIntentKept'
    BY <1>1 DEF TheIntentKept
  <2>2. \A o \in Objects : ObjectSound(o) => ObjectSound(o)'
    BY <1>1 DEF ObjectSound, SlotFor
  <2>3. RunTypes => RunTypes'
    BY <1>1 DEF RunTypes
  <2> QED
    BY <1>1, <2>1, <2>2, <2>3 DEF SoundFlow
<1>3. ExactFlow => ExactFlow'
  <2>1. HisObjects' = HisObjects
    BY <1>1 DEF HisObjects
  <2>2. \A o \in Objects : ObjectExact(o) => ObjectExact(o)'
    BY <1>1, <2>1 DEF ObjectExact
  <2> QED
    BY <1>1, <2>1, <2>2 DEF ExactFlow
<1> QED
  BY <1>1, <1>2, <1>3 DEF FlowInv, NothingMissed, NothingInvented, Clear

LEMMA FlowNextKeeps ==
    ASSUME FlowInv, FlowNext
    PROVE  FlowInv'
<1>1. ASSUME NEW t \in Locals, AssignLiteral(t) PROVE FlowInv'
  BY <1>1, AssignLiteralKeeps
<1>2. ASSUME NEW t \in Locals, NEW from \in {{}} \cup {{n} : n \in Locals}, NewObject(t, from) PROVE FlowInv'
  BY <1>2, NewObjectKeeps
<1>3. ASSUME NEW t \in Locals, NEW n \in Locals, AssignName(t, n) \/ Validate(t, n) \/ Call(t, n) PROVE FlowInv'
  BY <1>3, AssignNameKeeps, ValidateKeeps, CallKeeps
<1>4. ASSUME NEW t \in Locals, NEW n \in Locals, CallRecursive(t, n) PROVE FlowInv'
  <2>1. Step /\ Uninterpreted(t, {n}) /\ {n} \in SUBSET Locals /\ {n} # {}
    BY <1>4 DEF CallRecursive
  <2> QED
    BY <2>1, UninterpretedKeeps
<1>5. ASSUME NEW t \in Locals, NEW n \in Locals, NEW k \in Keys, GetExtra(t, n, k) PROVE FlowInv'
  BY <1>5, GetExtraKeeps
<1>6. ASSUME NEW t \in Locals, NEW args \in (SUBSET Locals) \ {{}}, NEW resolved \in BOOLEAN,
             CallExternal(t, args, resolved)
      PROVE  FlowInv'
  <2>1. Step /\ Uninterpreted(t, args) /\ args \in SUBSET Locals /\ args # {}
    BY <1>6 DEF CallExternal
  <2> QED
    BY <2>1, UninterpretedKeeps
<1>7. ASSUME NEW n \in Locals, ReturnUnlessValid(n) \/ ReturnUnless(n) \/ Sink(n) \/ Return(n) PROVE FlowInv'
  BY <1>7, ReturnUnlessValidKeeps, ReturnUnlessKeeps, SinkKeeps, ReturnKeeps
<1>8. ASSUME NEW n \in Locals, NEW len \in 1..2, NEW known \in BOOLEAN, Branch(n, len, known) PROVE FlowInv'
  BY <1>8, BranchKeeps
<1>9. ASSUME NEW n \in Locals, NEW o \in Locals, NEW k \in Slots, PutExtra(o, k, n) PROVE FlowInv'
  BY <1>9, PutExtraKeeps
<1>10. ASSUME NEW n \in Locals, NEW o \in Locals, NEW replace \in BOOLEAN, MergeExtras(o, n, replace) PROVE FlowInv'
  BY <1>10, MergeExtrasKeeps
<1>11. FallOff \/ OutOfSteps => FlowInv'
  BY FallOffKeeps, OutOfStepsKeeps
<1> QED
  BY <1>1, <1>2, <1>3, <1>4, <1>5, <1>6, <1>7, <1>8, <1>9, <1>10, <1>11 DEF FlowNext

\* Whatever the method, every fact of the analyzer is right of the value that the
\* run has in its place.
THEOREM FlowInvariance == FlowSpec => []FlowInv
<1>1. FlowInit => FlowInv
  BY FlowBegins
<1>2. FlowInv /\ [FlowNext]_flow_vars => FlowInv'
  BY FlowNextKeeps, FlowStays
<1> QED
  BY <1>1, <1>2, PTL DEF FlowSpec

\* No value of the attacker's reaches a sink unchecked and without a chain, on any
\* run that the linear interpretation follows, and an enumeration that stops has
\* said so in a gap.
THEOREM NothingIsMissed == FlowSpec => []NothingMissed
<1>1. FlowInv => NothingMissed
  BY DEF FlowInv
<1> QED
  BY <1>1, FlowInvariance, PTL

\* A chain that is said to be untrusted and has no gap on its way carries a value
\* of the attacker's.
THEOREM NothingIsInvented == FlowSpec => []NothingInvented
<1>1. FlowInv => NothingInvented
  BY DEF FlowInv
<1> QED
  BY <1>1, FlowInvariance, PTL
==============================================================================
