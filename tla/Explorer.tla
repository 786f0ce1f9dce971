------------------------------ MODULE Explorer ------------------------------
(***************************************************************************)
(* The explorer stage of a scan: ScanOrchestrator._run_explorer_stage       *)
(* (analysis/orchestrator.py) and ExplorerOrchestrator                      *)
(* (analysis/explorer.py).  The entry points are the jobs of a pool         *)
(* (JobPool).  Each is explored in rounds, one call of the model each; what *)
(* it proposes are candidates.  Entries that have been explored are         *)
(* appended to observations-partial.jsonl one by one; when all are, the     *)
(* observations and the candidates are written and that file is removed.    *)
(* Then candidates that were validated in part are dived into, one after    *)
(* the other.                                                               *)
(*                                                                          *)
(* The model's answers, file errors and the end of the process are chosen   *)
(* by the environment.  An entry is explored, or a file written, between    *)
(* two steps; a file that is written may be found torn, since nothing here  *)
(* writes to a temporary file first.  What is read of the code between      *)
(* rounds, and its budget, are left out.                                    *)
(***************************************************************************)
EXTENDS Integers, FiniteSets, FiniteSetsExt

CONSTANTS
    Entries,            \* the entry points that have a method
    EntryConcurrency,   \* explorer.entry_concurrency
    MaxRounds,          \* explorer.max_rounds_per_entry
    MaxProposals,       \* chain_proposals of one answer (ExplorerObservation: 8)
    MaxCandidates,      \* explorer.max_candidates_per_run
    MaxDiveRounds,      \* explorer.max_requests_per_candidate, at most 16
    MaxRequestsPerRun,  \* context_budget.max_requests_per_run
    MaxPartials         \* a bound: the candidates dived into

\* The ranges of config.py.
ASSUME ExplorerAssumption ==
    /\ IsFiniteSet(Entries)
    /\ {EntryConcurrency, MaxRounds, MaxProposals, MaxCandidates, MaxDiveRounds,
        MaxRequestsPerRun, MaxPartials} \subseteq Nat \ {0}

VARIABLES
    outcome, stopped, closed,   \* the pool of JobPool
    pc,             \* where the worker of each entry is
    round,          \* the rounds it has begun
    found,          \* the proposals it has collected
    terminated,     \* its terminated_by: a short circuit, the cap, or the rest
    candidate_total,    \* the shared count of candidates
    requests_used,      \* ScanOrchestrator._ai_requests_used
    ai_requests_used,   \* ExplorerOrchestrator._ai_requests_used
    partial,        \* the lines of observations-partial.jsonl; it is there if any are
    unwritten,      \* entries explored whose line could not be appended
    observations,   \* observations.json: "none", "torn" or "whole"
    candidates,     \* candidates.json: the same, "whole" also when dives are in it
    stage,          \* what the stage does
    dive,           \* the loop of the deep dives
    deep_dive_counts    \* and what it counts

pool == <<outcome, stopped, closed>>
work == <<pc, round, found, terminated, candidate_total>>
budget == <<requests_used, ai_requests_used>>
files == <<partial, unwritten, observations, candidates>>
diving == <<dive, deep_dive_counts>>
vars == <<pool, work, budget, files, stage, diving>>

Pool == INSTANCE JobPool WITH Jobs <- Entries

DiveResults == {"completed", "incomplete", "failed", "skipped"}

Init ==
    /\ Pool!Init
    /\ pc = [e \in Entries |-> "queued"]
    /\ round = [e \in Entries |-> 0]
    /\ found = [e \in Entries |-> 0]
    /\ terminated = [e \in Entries |-> "none"]
    /\ candidate_total = 0
    /\ requests_used = 0
    /\ ai_requests_used = 0
    /\ partial = {}
    /\ unwritten = {}
    /\ observations = "none"
    /\ candidates = "none"
    /\ stage = "exploring"
    /\ dive = [left |-> 0, round |-> 0, short_circuit |-> FALSE, requests_used |-> 0]
    /\ deep_dive_counts = [result \in DiveResults \cup {"partial_total"} |-> 0]

Affordable == requests_used < MaxRequestsPerRun

Active == {e \in Entries : outcome[e] = "running"}

\* Seeded bug: the cap is tested against the candidates already aggregated.
CapReached_Aggregated == candidates = "whole" /\ candidate_total >= MaxCandidates

CapReached == candidate_total >= MaxCandidates

\* A worker takes the entry and explores it.
Begin(e) ==
    /\ stage = "exploring"
    /\ Cardinality(Active) < EntryConcurrency
    /\ ~CapReached
    /\ Pool!Begin(e)
    /\ pc' = [pc EXCEPT ![e] = "asking"]
    /\ round' = [round EXCEPT ![e] = 1]
    /\ UNCHANGED <<found, terminated, candidate_total, budget, files, stage, diving>>

\* Or it does not, and returns at once: the pool's Begin and Finish in one.
SkipCapped(e) ==
    /\ stage = "exploring"
    /\ Cardinality(Active) < EntryConcurrency
    /\ CapReached
    /\ ~stopped /\ ~closed /\ outcome[e] = "pending"
    /\ outcome' = [outcome EXCEPT ![e] = "succeeded"]
    /\ terminated' = [terminated EXCEPT ![e] = "skipped_max_cap"]
    /\ UNCHANGED <<stopped, closed, pc, round, found, candidate_total,
                   budget, files, stage, diving>>

\* Seeded bug: the lines are written when all entries have been explored.
AppendPartial_Later(e) == UNCHANGED <<partial, unwritten>>

\* _append_partial_record: an error is swallowed.
AppendPartial(e) ==
    \/ partial' = partial \cup {e} /\ UNCHANGED unwritten
    \/ unwritten' = unwritten \cup {e} /\ UNCHANGED partial

\* The worker ends: no_method, error, budget, loop_done and no_new_requests are
\* alike to the stage.
Terminate(e, why, proposals) ==
    /\ pc' = [pc EXCEPT ![e] = "ended"]
    /\ round' = [round EXCEPT ![e] = 0]
    /\ found' = [found EXCEPT ![e] = proposals]
    /\ terminated' = [terminated EXCEPT ![e] = why]
    /\ candidate_total' = candidate_total + proposals
    /\ AppendPartial(e)
    /\ Pool!Finish(e, "succeeded", why = "short_circuit")

\* Seeded bug: the worker's exception is lost, and the pool is never told.
Raise_Lost(e) ==
    /\ pc' = [pc EXCEPT ![e] = "ended"]
    /\ round' = [round EXCEPT ![e] = 0]
    /\ found' = [found EXCEPT ![e] = 0]
    /\ UNCHANGED <<pool, terminated, candidate_total, partial, unwritten>>

\* The worker raises, and what it has found is lost.
Raise(e) ==
    /\ pc' = [pc EXCEPT ![e] = "ended"]
    /\ round' = [round EXCEPT ![e] = 0]
    /\ found' = [found EXCEPT ![e] = 0]
    /\ Pool!Finish(e, "failed", FALSE)
    /\ UNCHANGED <<terminated, candidate_total, partial, unwritten>>

\* Seeded bug: a refused call is charged.
Refused_Charged(returned) ==
    /\ requests_used' = requests_used + 1
    /\ ai_requests_used' = ai_requests_used + returned + 1

\* budgeted_ai_call refuses: the run is not charged.  The explorer counts the
\* calls that have returned, the refused ones too.
Refused(returned) ==
    /\ ai_requests_used' = ai_requests_used + returned + 1
    /\ UNCHANGED requests_used

\* A call is sent, after one that has returned or not; refused, it
\* short-circuits.
Send(e, to, returned) ==
    \/ /\ Affordable
       /\ requests_used' = requests_used + 1
       /\ ai_requests_used' = ai_requests_used + returned
       /\ pc' = [pc EXCEPT ![e] = to]
       /\ UNCHANGED <<pool, round, found, terminated, candidate_total, partial, unwritten>>
    \/ /\ ~Affordable
       /\ Refused(returned)
       /\ Terminate(e, "short_circuit", found[e])

\* A round begins, unless the seed hops or the input cannot be made.
Ask(e) ==
    /\ stage = "exploring"
    /\ pc[e] = "asking"
    /\ \/ Send(e, "waiting", 0)
       \/ Raise(e) /\ UNCHANGED budget
    /\ UNCHANGED <<observations, candidates, stage, diving>>

\* An answer that does not fit the schema is asked for again, once a round.
AskAgain(e) ==
    /\ stage = "exploring"
    /\ pc[e] = "waiting"
    /\ Send(e, "waiting_again", 1)
    /\ UNCHANGED <<observations, candidates, stage, diving>>

\* An answer: a failure; or some proposals and then the end, because the model
\* is done, only repeats itself or has no round left; or another round; or an
\* exception as the code it asks for is read.
Answer(e) ==
    /\ stage = "exploring"
    /\ pc[e] \in {"waiting", "waiting_again"}
    /\ ai_requests_used' = ai_requests_used + 1
    /\ \/ \E why \in {"explored", "short_circuit"} : Terminate(e, why, found[e])
       \/ \E n \in 0..MaxProposals :
             \/ Terminate(e, "explored", found[e] + n)
             \/ /\ round[e] < MaxRounds
                /\ found' = [found EXCEPT ![e] = @ + n]
                /\ round' = [round EXCEPT ![e] = @ + 1]
                /\ pc' = [pc EXCEPT ![e] = "asking"]
                /\ UNCHANGED <<pool, terminated, candidate_total, partial, unwritten>>
       \/ Raise(e)
    /\ UNCHANGED <<requests_used, observations, candidates, stage, diving>>
-----------------------------------------------------------------------------
Capped == {e \in Entries : terminated[e] = "skipped_max_cap"}

\* run_indexed_jobs has returned.
Aggregate ==
    /\ stage = "exploring"
    /\ Pool!Close
    /\ stage' = "writing_observations"
    /\ UNCHANGED <<work, budget, files, diving>>

\* A file is written, or an error leaves it as it was or torn.
Write(file, written) ==
    \/ written /\ file' = "whole"
    \/ ~written /\ file' \in {file, "torn"}

\* Seeded bug: the temporary file is removed before the final ones are written.
WriteObservations_UnlinksFirst ==
    /\ stage = "writing_observations"
    /\ partial' = {}
    /\ \E written \in BOOLEAN :
          /\ Write(observations, written)
          /\ stage' = IF written THEN "writing_candidates" ELSE "failed"
    /\ UNCHANGED <<pool, work, budget, unwritten, candidates, diving>>

\* _write_observations
WriteObservations ==
    /\ stage = "writing_observations"
    /\ \E written \in BOOLEAN :
          /\ Write(observations, written)
          /\ stage' = IF written THEN "writing_candidates" ELSE "failed"
    /\ UNCHANGED <<pool, work, budget, partial, unwritten, candidates, diving>>

\* _write_candidates
WriteCandidates ==
    /\ stage = "writing_candidates"
    /\ \E written \in BOOLEAN :
          /\ Write(candidates, written)
          /\ stage' = IF written THEN "unlinking" ELSE "failed"
    /\ UNCHANGED <<pool, work, budget, partial, unwritten, observations, diving>>

\* What the temporary file lacked is in the final one as well.
Unlink ==
    /\ stage = "unlinking"
    /\ \/ /\ partial' = {}
          /\ unwritten' = {}
          /\ stage' = "validating"
       \/ /\ stage' = "failed"
          /\ UNCHANGED <<partial, unwritten>>
    /\ UNCHANGED <<pool, work, budget, observations, candidates, diving>>

\* validate_explorer_candidates: some candidates are validated in part, and no
\* sink of their own is the reason.
Validate ==
    /\ stage = "validating"
    /\ \/ /\ \E n \in 0..Min({candidate_total, MaxPartials}) :
                dive' = [dive EXCEPT !.left = n]
          /\ stage' = "diving"
       \/ /\ stage' = "failed"
          /\ UNCHANGED dive
    /\ UNCHANGED <<pool, work, budget, files, deep_dive_counts>>
-----------------------------------------------------------------------------
(* deep_dive_partials and _deep_dive_one.  dive.round is 0 between dives,   *)
(* and else a call is under way.                                            *)

\* The dive is over; left counts it until then.
DiveEnds(result, breaking, returned) ==
    /\ dive' = [dive EXCEPT !.left = @ - 1, !.round = 0,
                            !.short_circuit = @ \/ breaking,
                            !.requests_used = @ + returned]
    /\ deep_dive_counts' = [deep_dive_counts EXCEPT !.partial_total = @ + 1,
                                                    ![result] = @ + 1]

\* Seeded bug: a refused dive does not stop the others.
DiveCall_GoesOn(returned) ==
    \/ /\ Affordable
       /\ requests_used' = requests_used + 1
       /\ dive' = [dive EXCEPT !.round = @ + 1, !.requests_used = @ + returned]
       /\ UNCHANGED deep_dive_counts
    \/ /\ ~Affordable
       /\ DiveEnds("skipped", FALSE, returned + 1)
       /\ UNCHANGED requests_used

\* budgeted_deep_dive_call, after a call that has returned or not; refused, it
\* short-circuits.
DiveCall(returned) ==
    \/ /\ Affordable
       /\ requests_used' = requests_used + 1
       /\ dive' = [dive EXCEPT !.round = @ + 1, !.requests_used = @ + returned]
       /\ UNCHANGED deep_dive_counts
    \/ /\ ~Affordable
       /\ DiveEnds("skipped", TRUE, returned + 1)
       /\ UNCHANGED requests_used

\* The next candidate: skipped after a short circuit or when its chain has no
\* hops; or its input cannot be made; or the model is called.
DiveNext ==
    /\ stage = "diving" /\ dive.round = 0 /\ dive.left > 0
    /\ \/ DiveEnds("skipped", FALSE, 0) /\ UNCHANGED requests_used
       \/ /\ ~dive.short_circuit
          /\ \/ DiveEnds("failed", FALSE, 0) /\ UNCHANGED requests_used
             \/ DiveCall(0)
    /\ UNCHANGED <<pool, work, ai_requests_used, files, stage>>

\* An answer: the call failed; or the facts are complete; or not, and nothing
\* was decided in the last two rounds or no round is left; or another round.
DiveAnswer ==
    /\ stage = "diving" /\ dive.round > 0
    /\ \/ /\ \/ DiveEnds("skipped", TRUE, 1)
             \/ \E result \in {"failed", "completed"} : DiveEnds(result, FALSE, 1)
             \/ /\ dive.round >= 2 \/ dive.round = MaxDiveRounds
                /\ DiveEnds("incomplete", FALSE, 1)
          /\ UNCHANGED requests_used
       \/ dive.round < MaxDiveRounds /\ DiveCall(1)
    /\ UNCHANGED <<pool, work, ai_requests_used, files, stage>>

\* save_candidates, and the records in the manifest.
Record ==
    /\ stage = "diving" /\ dive.left = 0
    /\ \E written \in BOOLEAN :
          /\ Write(candidates, written)
          /\ stage' = IF written THEN "completed" ELSE "failed"
    /\ UNCHANGED <<pool, work, budget, partial, unwritten, observations, diving>>

Over == stage \in {"completed", "failed", "killed"}

\* The process is killed; a file being written is torn.
Kill ==
    /\ ~Over
    /\ stage' = "killed"
    /\ observations' \in {observations} \cup
                          (IF stage = "writing_observations" THEN {"torn"} ELSE {})
    /\ candidates' \in {candidates} \cup
                        (IF stage \in {"writing_candidates", "diving"} THEN {"torn"} ELSE {})
    /\ UNCHANGED <<pool, work, budget, partial, unwritten, diving>>

EntryStep(e) == Begin(e) \/ SkipCapped(e) \/ Ask(e) \/ AskAgain(e) \/ Answer(e)

StageStep ==
    \/ \E e \in Entries : EntryStep(e)
    \/ Aggregate
    \/ WriteObservations
    \/ WriteCandidates
    \/ Unlink
    \/ Validate
    \/ DiveNext
    \/ DiveAnswer
    \/ Record

Next == StageStep \/ Kill

\* Every call of the model returns (AITransport's CallsReturn), and the pool
\* returns (AIScheduler's ImplementsPool).
Spec == Init /\ [][Next]_vars /\ WF_vars(StageStep)
-----------------------------------------------------------------------------
TypeOK ==
    /\ outcome \in [Entries -> {"pending", "running", "succeeded", "failed", "skipped"}]
    /\ stopped \in BOOLEAN /\ closed \in BOOLEAN
    /\ pc \in [Entries -> {"queued", "asking", "waiting", "waiting_again", "ended"}]
    /\ round \in [Entries -> 0..MaxRounds]
    /\ found \in [Entries -> 0..(MaxRounds * MaxProposals)]
    /\ terminated \in [Entries -> {"none", "skipped_max_cap", "short_circuit", "explored"}]
    /\ {candidate_total, requests_used, ai_requests_used} \subseteq Nat
    /\ partial \subseteq Entries
    /\ unwritten \subseteq Entries
    /\ {observations, candidates} \subseteq {"none", "torn", "whole"}
    /\ stage \in {"exploring", "writing_observations", "writing_candidates", "unlinking",
                  "validating", "diving", "completed", "failed", "killed"}
    /\ dive \in [left : Nat, round : 0..MaxDiveRounds, short_circuit : BOOLEAN,
                 requests_used : Nat]
    /\ deep_dive_counts \in [DiveResults \cup {"partial_total"} -> Nat]

\* The cap of candidates is soft: entries that have been begun are kept in
\* full, so it is exceeded by at most what the entries explored at once can
\* find (docstring of explore_all), less the one that was missing.
SoftCap ==
    candidate_total <= MaxCandidates - 1 + EntryConcurrency * MaxRounds * MaxProposals

\* Whenever the process stops, what an entry that was explored has yielded is
\* in a file: a line of the partial file until the observations are written
\* (docstring of _append_partial_record).  Only an error of that append loses it.
NothingLost ==
    \A e \in Entries :
        outcome[e] = "succeeded" /\ e \notin Capped \cup unwritten =>
            e \in partial \/ observations = "whole"

\* The stage's own accounts, with the calls under way, against the budget of
\* the run: they differ by the calls that were refused, and there is no more
\* than one of those for each entry in flight and one of the dives.
LedgersAgree ==
    LET under_way == {e \in Entries : pc[e] \in {"waiting", "waiting_again"}}
        counted == ai_requests_used + Cardinality(under_way)
                   + dive.requests_used + (IF dive.round > 0 THEN 1 ELSE 0)
    IN /\ requests_used <= MaxRequestsPerRun
       /\ requests_used <= counted
       /\ counted <= requests_used + EntryConcurrency + 1
       /\ requests_used < MaxRequestsPerRun => counted = requests_used

\* The stage comes to an end unless the process does.
StageEnds == <>Over
=============================================================================
