-------------------------- MODULE CandidateAnalysis --------------------------
(***************************************************************************)
(* The AI stage of a scan: ScanOrchestrator._run_ai_stage and everything    *)
(* under it (analysis/orchestrator.py, analysis/verify_agent.py).  The      *)
(* candidates are the jobs of a pool, of which JobPool is the promise and   *)
(* AIScheduler the implementation.  Each is verified claim by claim if it   *)
(* is an L2 candidate and verification is enabled; otherwise, and when the  *)
(* verification falls back, it is analysed in rounds that may ask for more  *)
(* context.  Every call of the model is paid from one budget of the run.    *)
(*                                                                          *)
(* A candidate's coroutine suspends only while the model is called, so the  *)
(* steps are: make a call, receive its answer and act on it.  (A call and   *)
(* the answer before it are one step of the code and two of the model.)     *)
(*                                                                          *)
(* What the model answers, what the expansion of a slice finds, the size of *)
(* the slice and the wall clock are chosen by the environment.  A           *)
(* checkpoint is written but never restored: a run has one AI stage, and    *)
(* each of its candidates is one job of it.                                 *)
(***************************************************************************)
EXTENDS Naturals, FiniteSets, FiniteSetsExt

CONSTANTS
    Candidates,             \* the candidates that have a slice
    L2,                     \* those with evidence_level L2; the others are L1
    CandidateConcurrency,   \* ai.candidate_concurrency
    MaxRequestsPerRun,      \* context_budget.max_requests_per_run (None: so many
                            \* that no run reaches it)
    RequestLimits,          \* values of context_budget.max_requests_per_candidate
    MaxExpansions,          \* context_budget.max_expansions_per_candidate
    MaxVerifyRounds         \* verify.max_rounds_per_candidate

\* The ranges of config.py.
ASSUME CandidateAnalysisAssumption ==
    /\ IsFiniteSet(Candidates)
    /\ L2 \subseteq Candidates
    /\ CandidateConcurrency \in Nat \ {0}
    /\ MaxRequestsPerRun \in Nat \ {0}
    /\ RequestLimits \subseteq Nat \ {0}
    /\ MaxExpansions \in Nat
    /\ MaxVerifyRounds \in Nat \ {0}

VARIABLES
    settings,       \* the settings the run was started with
    outcome, stopped, closed,   \* the pool of JobPool
    pc,             \* where the coroutine of each candidate is
    round,          \* its round_number
    request_count,  \* and its request_count
    verify_round,   \* the rounds of its VerifyAgent that have begun
    candidate,      \* what is written into the candidate
    result,         \* the status analyze_job returns for it
    checkpoint,     \* the candidates in the checkpoint file
    requests_used,          \* ScanOrchestrator._ai_requests_used
    verify_requests_used,   \* and _verify_requests_used
    explorer_requests_used, \* what was used when the stage began
    analyzed_count, verify_counts,  \* counters of the stage
    stage           \* the status of the stage, and its summary

pool == <<outcome, stopped, closed>>
calls == <<round, request_count, verify_round>>
budget == <<requests_used, verify_requests_used>>
counts == <<analyzed_count, verify_counts>>
fixed == <<settings, explorer_requests_used>>
vars == <<fixed, pool, pc, calls, candidate, result, checkpoint, budget, counts, stage>>

Pool == INSTANCE JobPool WITH Jobs <- Candidates

Fresh == [analysis_status |-> "rule_only", promotion_requested |-> FALSE,
          verify |-> "none"]

NoSummary == [completed |-> 0, failed |-> 0, skipped |-> 0, incomplete |-> 0]

Settings == [verify_enabled : BOOLEAN, fallback : BOOLEAN,
             max_requests_per_candidate : RequestLimits]

Init ==
    /\ settings \in Settings
    /\ Pool!Init
    /\ pc = [c \in Candidates |-> "queued"]
    /\ round = [c \in Candidates |-> 0]
    /\ request_count = [c \in Candidates |-> 0]
    /\ verify_round = [c \in Candidates |-> 0]
    /\ candidate = [c \in Candidates |-> Fresh]
    /\ result = [c \in Candidates |-> "none"]
    /\ checkpoint = {}
    /\ requests_used \in 0..MaxRequestsPerRun
    /\ explorer_requests_used = requests_used
    /\ verify_requests_used = 0
    /\ analyzed_count = 0
    /\ verify_counts = [attempted |-> 0, completed |-> 0, fallback |-> 0,
                        failed_no_fallback |-> 0]
    /\ stage = [status |-> "preflight", summary |-> NoSummary]

\* _mark_ai_unavailable: what has been written before stays.
Marked(c, status) == [candidate[c] EXCEPT !.analysis_status = status]

\* The early exits: AI switched off, nothing to analyse, or a preflight that
\* did not pass; only a recoverable failure counts as one.
SkipStage(recoverable) ==
    /\ stage.status = "preflight"
    /\ candidate' = [c \in Candidates |->
                       Marked(c, IF recoverable THEN "ai_failed" ELSE "ai_skipped")]
    /\ stage' = IF recoverable
                  THEN [status |-> "failed",
                        summary |-> [NoSummary EXCEPT !.failed = Cardinality(Candidates)]]
                  ELSE [status |-> "skipped",
                        summary |-> [NoSummary EXCEPT !.skipped = Cardinality(Candidates)]]
    /\ UNCHANGED <<fixed, pool, pc, calls, result, checkpoint, budget, counts>>

PreflightPasses ==
    /\ stage.status = "preflight"
    /\ stage' = [stage EXCEPT !.status = "running"]
    /\ UNCHANGED <<fixed, pool, pc, calls, candidate, result, checkpoint, budget, counts>>

\* Seeded bug: a worker that raised keeps its place.
Active_KeepsFailed == {c \in Candidates : outcome[c] \in {"running", "failed"}}

Active == {c \in Candidates : outcome[c] = "running"}

\* _verify_path_for
VerifyPath(c) == settings.verify_enabled /\ c \in L2

\* The pool hands the candidate to analyze_job.
Begin(c) ==
    /\ stage.status = "running"
    /\ Cardinality(Active) < CandidateConcurrency
    /\ Pool!Begin(c)
    /\ analyzed_count' = analyzed_count + 1
    /\ IF VerifyPath(c)
         THEN /\ pc' = [pc EXCEPT ![c] = "verify"]
              /\ verify_counts' = [verify_counts EXCEPT !.attempted = @ + 1]
         ELSE /\ pc' = [pc EXCEPT ![c] = "analyse"]
              /\ UNCHANGED verify_counts
    /\ UNCHANGED <<fixed, calls, candidate, result, checkpoint, budget, stage>>

\* Seeded bug: an analysis is checkpointed however it ended.
Returns_SavesAll(c, status, breaking) ==
    /\ result' = [result EXCEPT ![c] = status]
    /\ checkpoint' = checkpoint \cup {c}
    /\ Pool!Finish(c, "succeeded", breaking)

\* The end of analyze_job: the circuit, the trace, the checkpoint.
Returns(c, status, breaking) ==
    /\ result' = [result EXCEPT ![c] = status]
    /\ checkpoint' = checkpoint \cup (IF status = "completed" THEN {c} ELSE {})
    /\ Pool!Finish(c, "succeeded", breaking)

\* The trace cannot be written, or the checkpoint cannot, perhaps after the
\* new one has replaced the old one.  The circuit is open by then.
TailRaises(c, status, breaking) ==
    /\ checkpoint' \in {checkpoint,
                        checkpoint \cup (IF status = "completed" THEN {c} ELSE {})}
    /\ Pool!Finish(c, "failed", breaking)
    /\ UNCHANGED result

\* The analysis of c is over, with what is written into the candidate.
End(c, status, breaking, written) ==
    /\ candidate' = [candidate EXCEPT ![c] = written]
    /\ pc' = [pc EXCEPT ![c] = "ended"]
    /\ Returns(c, status, breaking) \/ TailRaises(c, status, breaking)

\* An exception before anything was written into the candidate.
Raise(c) ==
    /\ pc' = [pc EXCEPT ![c] = "ended"]
    /\ Pool!Finish(c, "failed", FALSE)
    /\ UNCHANGED <<candidate, result, checkpoint>>
-----------------------------------------------------------------------------
(* The budget of the run, tested and charged under one lock.               *)

Affordable == requests_used < MaxRequestsPerRun

\* Seeded bug: two accounts are kept, but only one is charged.
ChargeVerify_OwnAccount ==
    /\ verify_requests_used' = verify_requests_used + 1
    /\ UNCHANGED requests_used

\* _budgeted_protocol_call with the counter of the verifications.
ChargeVerify ==
    /\ requests_used' = requests_used + 1
    /\ verify_requests_used' = verify_requests_used + 1

-----------------------------------------------------------------------------
(* Verification: _verify_candidate and VerifyAgent.verify.                 *)

\* Whatever the reason, the caller goes on with the analysis in one turn.
FallBack(c) ==
    /\ pc' = [pc EXCEPT ![c] = "analyse"]
    /\ candidate' = [candidate EXCEPT ![c].verify = "fell_back"]
    /\ verify_counts' = [verify_counts EXCEPT !.fallback = @ + 1]
    /\ UNCHANGED <<pool, result, checkpoint>>

\* The agent did not complete: the setting decides.  A failure that should
\* open the circuit does not; the fallback would meet it again.
VerifyFails(c, status) ==
    IF settings.fallback
      THEN FallBack(c)
      ELSE /\ verify_counts' = [verify_counts EXCEPT !.failed_no_fallback = @ + 1]
           /\ End(c, status, FALSE,
                  Marked(c, IF status = "skipped" THEN "ai_skipped" ELSE "ai_failed"))

\* No index to read, or any exception: the setting is not asked.
VerifyUnavailable(c) ==
    /\ pc[c] = "verify" /\ verify_round[c] = 0
    /\ FallBack(c)
    /\ UNCHANGED <<fixed, calls, budget, analyzed_count, stage>>

\* No claim can be derived from the candidate, or no valid input made of it.
NothingToAsk(c) ==
    /\ pc[c] = "verify" /\ verify_round[c] = 0
    /\ \E status \in {"skipped", "failed"} : VerifyFails(c, status)
    /\ UNCHANGED <<fixed, calls, budget, analyzed_count, stage>>

VerifyCall(c) ==
    /\ pc[c] = "verify"
    /\ \/ /\ Affordable
          /\ ChargeVerify
          /\ verify_round' = [verify_round EXCEPT ![c] = @ + 1]
          /\ pc' = [pc EXCEPT ![c] = "verifying"]
          /\ UNCHANGED <<pool, candidate, result, checkpoint, verify_counts>>
       \/ /\ ~Affordable
          /\ VerifyFails(c, "skipped")
          /\ UNCHANGED <<budget, verify_round>>
    /\ UNCHANGED <<fixed, round, request_count, analyzed_count, stage>>

\* The adapted result is written, also when claims are left undecided; then
\* it is marked incomplete and recommends nothing.
Verified(c, undecided, supports) ==
    /\ verify_counts' = [verify_counts EXCEPT !.completed = @ + 1]
    /\ End(c, "completed", FALSE,
           [analysis_status |-> "ai_completed",
            promotion_requested |-> supports /\ ~undecided,
            verify |-> IF undecided THEN "undecided" ELSE "used"])

\* An answer of the verifying model: it decides the rest of the claims, or
\* leaves some open; then the rounds or the reads may be used up.
VerifyAnswer(c) ==
    /\ pc[c] = "verifying"
    /\ \/ \E status \in {"failed", "skipped"} : VerifyFails(c, status)
       \/ FallBack(c)
       \/ \E supports \in BOOLEAN : Verified(c, FALSE, supports)
       \/ \E supports \in BOOLEAN : Verified(c, TRUE, supports)
       \/ /\ verify_round[c] < MaxVerifyRounds
          /\ pc' = [pc EXCEPT ![c] = "verify"]
          /\ UNCHANGED <<pool, candidate, result, checkpoint, verify_counts>>
    /\ UNCHANGED <<fixed, calls, budget, analyzed_count, stage>>

-----------------------------------------------------------------------------
(* Analysis in one turn: _analyze_with_expansion and _budgeted_ai_call.    *)

\* The tests before a request, but for the size of the slice and the clock,
\* which may refuse any request.
MayCall(c) ==
    /\ request_count[c] < settings.max_requests_per_candidate
    /\ Affordable

\* _apply_ai_analysis with an analysis that is not complete.
Incomplete(c) == End(c, "incomplete", FALSE, Marked(c, "ai_incomplete"))

\* _verify_ai_evidence_refs withdraws the recommendation; an L1 candidate
\* can only propose.
Promotes(c, recommended, refs_valid) == recommended /\ refs_valid /\ c \in L2

\* The model concludes.
Complete(c) ==
    \E recommended, refs_valid \in BOOLEAN :
        End(c, "completed", FALSE,
            [candidate[c] EXCEPT
               !.analysis_status = "ai_completed",
               !.promotion_requested = @ \/ Promotes(c, recommended, refs_valid)])

\* Either call: refused (_finish_context_budget), or charged and sent.
Call(c, from, to) ==
    /\ pc[c] = from
    /\ \/ /\ MayCall(c)
          /\ requests_used' = requests_used + 1
          /\ request_count' = [request_count EXCEPT ![c] = @ + 1]
          /\ pc' = [pc EXCEPT ![c] = to]
          /\ UNCHANGED <<pool, candidate, result, checkpoint>>
       \/ /\ Incomplete(c)
          /\ UNCHANGED <<requests_used, request_count>>
    /\ UNCHANGED <<fixed, round, verify_round, verify_requests_used, counts, stage>>

Analyse(c) == Call(c, "analyse", "analysing")
Finalize(c) == Call(c, "finalize", "finalizing")

\* The slice is extended: context was added; or none, all of it being there
\* already, so the model is asked to conclude; or none could be found.
Expand(c) ==
    /\ round[c] < MaxExpansions
    /\ round' = [round EXCEPT ![c] = @ + 1]
    /\ \/ /\ \/ pc' = [pc EXCEPT ![c] = IF round[c] + 1 < MaxExpansions
                                          THEN "analyse" ELSE "finalize"]
             \/ pc' = [pc EXCEPT ![c] = "finalize"]
          /\ UNCHANGED <<pool, candidate, result, checkpoint>>
       \/ Incomplete(c)

\* An answer of the analysing model.  It fails, perhaps for good; it
\* concludes; it neither concludes nor asks for context, or asks for it when
\* the expansions are used up; or it asks and gets an expansion.  The trace of
\* the round, or the expansion, may raise.
AnalysisAnswer(c) ==
    /\ pc[c] = "analysing"
    /\ \/ /\ \/ \E breaking \in BOOLEAN :
                   End(c, "failed", breaking, Marked(c, "ai_failed"))
             \/ \E breaking \in BOOLEAN :
                   End(c, "skipped", breaking, Marked(c, "ai_skipped"))
             \/ Complete(c)
             \/ Incomplete(c)
             \/ Raise(c)
          /\ UNCHANGED round
       \/ Expand(c)
    /\ UNCHANGED <<fixed, request_count, verify_round, budget, counts, stage>>

\* The last answer: a conclusion, or anything else, a failure for good
\* included, and the candidate stays incomplete.
FinalAnswer(c) ==
    /\ pc[c] = "finalizing"
    /\ Complete(c) \/ Incomplete(c) \/ Raise(c)
    /\ UNCHANGED <<fixed, calls, budget, counts, stage>>
-----------------------------------------------------------------------------

\* A skipped candidate and one whose worker raised are marked; for the latter
\* this overwrites the status of an analysis whose bookkeeping raised.
Unavailable(c) ==
    CASE outcome[c] = "pending" -> Marked(c, "ai_skipped")
      [] outcome[c] = "failed" -> Marked(c, "ai_failed")
      [] OTHER -> candidate[c]

\* ai_counts: what analyze_job returned, or what stands in for it.
Counted(c) ==
    CASE outcome[c] = "pending" -> "skipped"
      [] outcome[c] = "failed" -> "failed"
      [] OTHER -> result[c]

\* run_indexed_jobs has returned: results are counted, the stage recorded.
Collect ==
    /\ stage.status = "running"
    /\ Pool!Close
    /\ candidate' = [c \in Candidates |-> Unavailable(c)]
    /\ LET count(status) == Cardinality({c \in Candidates : Counted(c) = status})
           counted == [status \in DOMAIN NoSummary |-> count(status)]
       IN stage' = [status |-> IF counted.completed = Cardinality(Candidates)
                                 THEN "completed" ELSE "partial",
                    summary |-> counted]
    /\ UNCHANGED <<fixed, pc, calls, result, checkpoint, budget, counts>>

CandidateStep(c) ==
    \/ Begin(c)
    \/ VerifyUnavailable(c)
    \/ NothingToAsk(c)
    \/ VerifyCall(c)
    \/ VerifyAnswer(c)
    \/ Analyse(c)
    \/ AnalysisAnswer(c)
    \/ Finalize(c)
    \/ FinalAnswer(c)

Preflight == PreflightPasses \/ \E recoverable \in BOOLEAN : SkipStage(recoverable)

Next ==
    \/ Preflight
    \/ \E c \in Candidates : CandidateStep(c)
    \/ Collect

\* Every call of the model returns (AITransport's CallsReturn), and the pool
\* returns (AIScheduler's ImplementsPool).
Fairness ==
    /\ WF_vars(Preflight)
    /\ WF_vars(\E c \in Candidates : CandidateStep(c))
    /\ WF_vars(Collect)

Spec == Init /\ [][Next]_vars /\ Fairness
-----------------------------------------------------------------------------
Statuses == {"completed", "failed", "skipped", "incomplete"}
Recorded == stage.status \notin {"preflight", "running"}
\* The stage got as far as giving its candidates to the pool, and is over.
Analysed == stage.status \in {"completed", "partial"}

TypeOK ==
    /\ settings \in Settings
    /\ outcome \in [Candidates -> {"pending", "running", "succeeded", "failed", "skipped"}]
    /\ stopped \in BOOLEAN /\ closed \in BOOLEAN
    /\ pc \in [Candidates -> {"queued", "verify", "verifying", "analyse", "analysing",
                              "finalize", "finalizing", "ended"}]
    /\ round \in [Candidates -> 0..MaxExpansions]
    /\ request_count \in [Candidates -> Nat]
    /\ verify_round \in [Candidates -> 0..MaxVerifyRounds]
    /\ candidate \in [Candidates ->
         [analysis_status : {"rule_only", "ai_completed", "ai_incomplete", "ai_failed", "ai_skipped"},
          promotion_requested : BOOLEAN,
          verify : {"none", "used", "undecided", "fell_back"}]]
    /\ result \in [Candidates -> {"none"} \cup Statuses]
    /\ checkpoint \subseteq Candidates
    /\ requests_used \in Nat /\ verify_requests_used \in Nat
    /\ explorer_requests_used \in Nat /\ analyzed_count \in Nat
    /\ verify_counts \in [{"attempted", "completed", "fallback", "failed_no_fallback"} -> Nat]
    /\ stage \in [status : {"preflight", "running", "completed", "partial", "failed", "skipped"},
                  summary : [Statuses -> Nat]]

\* Whatever candidates do at once, the run never sends more calls than its
\* budget, and the accounts of the stage's summary balance: what was used in
\* the stage is what the candidates asked, one by one, analysis and
\* verification together.
BudgetKept ==
    /\ requests_used <= MaxRequestsPerRun
    /\ requests_used - explorer_requests_used
         = verify_requests_used + SumFunction(request_count)
    /\ verify_requests_used = SumFunction(verify_round)

\* What the candidate says of its analysis is what became of it.  In
\* particular only a completed analysis of an L2 candidate requests a
\* promotion or is checkpointed, unless the bookkeeping after it raised: then
\* the status is overwritten and the request stays.  With the fallback on, a
\* verification never blocks the main chain (comment of _verify_candidate): a
\* candidate fails or is skipped only in the analysis in one turn, and its trace
\* says how the verification ended.  But it is not analysed whenever the
\* verification ran out: docs/02 line 100 and config.py:240 say that an
\* exhausted budget falls back, and the code (verify_agent.py:353) ends a
\* verification whose rounds or reads are used up as completed.  So a candidate
\* is completed without any request of the analysis just when its verification
\* went on to its end, also one that left claims undecided, and that one then
\* recommends no promotion.
StatusIsTruthful ==
    \A c \in Candidates :
        LET written == candidate[c]
        IN /\ outcome[c] = "succeeded" =>
                written.analysis_status =
                  CASE result[c] = "completed" -> "ai_completed"
                    [] result[c] = "incomplete" -> "ai_incomplete"
                    [] result[c] = "failed" -> "ai_failed"
                    [] OTHER -> "ai_skipped"
           /\ written.promotion_requested =>
                /\ c \in L2
                /\ written.verify # "undecided"
                /\ written.analysis_status = "ai_completed" \/ outcome[c] = "failed"
           /\ c \in checkpoint => result[c] = "completed" \/ outcome[c] = "failed"
           /\ Analysed => written.analysis_status # "rule_only"
           /\ outcome[c] = "succeeded" =>
                (written.verify \in {"used", "undecided"}
                   <=> result[c] = "completed" /\ request_count[c] = 0)
           /\ settings.fallback /\ outcome[c] = "succeeded" =>
                /\ result[c] \in {"failed", "skipped"} => request_count[c] > 0
                /\ verify_round[c] > 0 => written.verify # "none"

\* The stage comes to an end, with a status for every candidate.
StageEnds == <>Recorded
=============================================================================
