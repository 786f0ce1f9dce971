-------------------------- MODULE FindingPipeline --------------------------
(***************************************************************************)
(* From rule candidates to findings: CandidateFunnel.process routes the    *)
(* candidates, the orchestrator asks the AI about the representatives and  *)
(* shares their results, finalize_run_coverage, verify_candidate and       *)
(* DecisionEngine.decide judge every candidate, and aggregate_candidates   *)
(* merges those of one chain into a finding and grades it.                 *)
(*                                                                         *)
(* A candidate is the record of the facts the stages tell apart; a gap is  *)
(* "limit" when its code is one of the evidence-insufficiency codes that   *)
(* decision.py lets pass, "conflict" otherwise.  MC_FindingPipeline gives  *)
(* the candidates a run may start with and the answers the AI may give.    *)
(*                                                                         *)
(* Names that FindingStore has too begin with Pipeline: FindingProofs      *)
(* reasons about both modules.                                             *)
(***************************************************************************)
EXTENDS Naturals, FiniteSets

CONSTANTS
    Cand,           \* the candidates of the run
    Chains,         \* the keys that aggregate_candidates merges by
    KeysOf,         \* chain -> its scope and chain keys, without the component
    Starts,         \* the facts they may start with, functions on Cand
    Answers,        \* how the analysis of a representative may end
    MaxL1,          \* funnel.max_l1_candidates_per_run
    HighRisk,       \* funnel.min_l1_risk_score
    SkipL1,         \* funnel.l1_skip_ai
    PriorityClean,  \* funnel.l1_priority_clean
    Demote          \* funnel.demote_unproven_flow

VARIABLES
    stage,      \* the stage about to run
    partial,    \* the run has a gap that belongs to no candidate
    sourced,    \* source_analysis.enabled: the run has a code index
    facts,      \* candidate -> what the rules established
    cand,       \* candidate -> what the stages wrote on it
    findings    \* the aggregated findings
pipeline_vars == <<stage, partial, sourced, facts, cand, findings>>

Unfinished == {"ai_failed", "ai_skipped", "ai_incomplete"}

(* surface: a service's Binder (binder_remote_interface), a receiver        *)
(* registered in code (receiver_exposure), or anything else.  blocked is    *)
(* what apply_guard_verification found, which is not modelled.             *)
Facts == [surface : {"plain", "binder", "receiver"},
          level : {"L1", "L2"}, source : {"rule", "validated", "partial"},
          chain : Chains, auth : {"unprotected", "unknown", "protected"},
          guard : {"absent", "unknown", "present_effective"},
          impact : {"confirmed", "potential"}, basis : {"none", "other", "sdk"},
          confirms : BOOLEAN, gap : {"none", "limit", "conflict"},
          cover : {"full", "limit", "hole"}, sink : {"found", "lost"},
          proven : BOOLEAN, flow : BOOLEAN, blocked : BOOLEAN, signal : BOOLEAN,
          risk : 0..100, value : BOOLEAN, clean : BOOLEAN, open : BOOLEAN, aux : BOOLEAN]
AnswerRecord(statuses) ==
    [status : statuses, verdict : {"refutes", "unresolved", "supports"},
     flaw : {"yes", "no", "none"}, entry : BOOLEAN, strong : BOOLEAN,
     refs : {"valid", "incomplete", "invalid"}, gap : {"none", "limit", "conflict"},
     claim : BOOLEAN, promote : BOOLEAN, answered : BOOLEAN]

(* A verdict is written by _apply_ai_analysis only, which writes the       *)
(* metadata of the answer with it.                                         *)
ASSUME FindingPipelineAssumption ==
    /\ Starts \subseteq [Cand -> Facts]
    /\ Answers \subseteq AnswerRecord(Unfinished \cup {"ai_completed"})
    /\ \A a \in Answers : a.verdict # "unresolved" => a.answered

(* What an analysis that never answered leaves.                            *)
NoAnswer == [status |-> "rule_only", verdict |-> "unresolved", flaw |-> "none",
             entry |-> FALSE, strong |-> FALSE, refs |-> "invalid",
             gap |-> "none", claim |-> FALSE, promote |-> FALSE, answered |-> FALSE]

Fresh(c) == [disposition |-> "none", needs |-> FALSE, rep |-> c,
             eligible |-> FALSE, level |-> facts[c].level, sinks |-> TRUE,
             answer |-> NoAnswer, analysed |-> FALSE,
             decision |-> "none", review |-> "none"]

(* Without a code index the rules judge the manifest alone.                *)
OfTheManifest(f) ==
    /\ f.surface = "plain" /\ f.level = "L1" /\ f.source = "rule"
    /\ f.impact = "potential" /\ f.guard = "unknown"
    /\ ~f.proven /\ ~f.flow /\ ~f.signal /\ ~f.blocked

PipelineInit ==
    /\ stage = "funnel"
    /\ partial \in BOOLEAN /\ sourced \in BOOLEAN
    /\ facts \in Starts
    /\ ~sourced => \A c \in Cand : OfTheManifest(facts[c])
    /\ cand = [c \in Cand |-> Fresh(c)]
    /\ findings = {}

-----------------------------------------------------------------------------
(* The funnel.                                                             *)

(* The deterministic reasons against a candidate; sinks says whether any   *)
(* sink is left on it.                                                     *)
RefutedBy(f, sinks) ==
    {b \in {"strong_permission", "effective_guard", "other", "sdk", "no_real_sink"} :
        \/ b = "strong_permission" /\ f.auth = "protected"
        \/ b = "effective_guard" /\ f.guard = "present_effective"
        \/ b = "other" /\ f.basis = "other"
        \/ b = "sdk" /\ f.basis = "sdk" /\ sinks
        \/ b = "no_real_sink" /\ f.level = "L2" /\ ~sinks /\ ~f.proven}

Precheck(f) ==
    IF RefutedBy(f, TRUE) # {} THEN "deterministically_refuted"
    ELSE IF f.cover = "limit" \/ (f.level = "L2" /\ ~f.proven) THEN "coverage_insufficient"
    ELSE IF f.level = "L2" THEN "deterministically_promoted_l2"
    ELSE IF f.auth = "unprotected" /\ f.value /\ f.risk >= HighRisk THEN "high_risk_uncertain"
    ELSE "exposure_only"

Disposition(f) ==
    CASE f.source = "rule" -> Precheck(f)
      [] f.source = "validated" -> "explorer_promoted"
      [] f.source = "partial" -> "explorer_partial"

Uncertain(f) ==
    f.auth = "unknown" \/ f.guard = "unknown" \/ f.impact = "potential" \/ f.gap # "none"

RequiresAI(f) ==
    /\ ~f.blocked
    /\ IF f.level = "L1"
       THEN Disposition(f) \in {"high_risk_uncertain", "coverage_insufficient"}
       ELSE Disposition(f) # "deterministically_refuted" /\ (~f.proven \/ Uncertain(f))

Needs(f) ==
    /\ ~(Demote /\ f.signal /\ ~f.proven)
    /\ f.source # "rule" => Disposition(f) = "explorer_promoted"
    /\ RequiresAI(f)

(* What deterministic_fact_hash keeps of the facts.  The rule's own scores *)
(* and texts are left out of it, and so what is read from them; of a       *)
(* Binder surface also its flow, its sinks and what was proved of them; of *)
(* a receiver the component it is registered for, down to its owner.       *)
Hashed(f) ==
    LET g == [f EXCEPT !.risk = 0, !.value = TRUE]
    IN  CASE f.surface = "plain" -> g
          [] f.surface = "binder" ->
               [g EXCEPT !.impact = "potential", !.proven = FALSE, !.flow = FALSE,
                         !.signal = FALSE, !.basis = "none", !.sink = "found"]
          [] f.surface = "receiver" -> [g EXCEPT !.chain = KeysOf[f.chain]]

(* The three identity keys; added holds the fields that later stages wrote *)
(* on the candidate and the hash does not leave out.                       *)
Identity(f, added) == <<KeysOf[f.chain], Hashed(f), added>>
Group(c) == {d \in Cand : Identity(facts[d], {}) = Identity(facts[c], {})}

(* _pipeline_select_representative and _l1_sort_key; equal candidates are  *)
(* ordered by their ids.                                                   *)
Score(c, first) == 101 * first + facts[c].risk
Best(S, Rank(_)) == CHOOSE c \in S : \A d \in S : Rank(d) <= Rank(c)
Representative(c) ==
    LET Rank(d) == Score(d, IF Needs(facts[d]) THEN 1 ELSE 0)
    IN  Best(Group(c), Rank)
Tier(c) == IF PriorityClean /\ facts[c].clean THEN 4 ELSE 1

GroupNeeds(c) == \E d \in Group(c) : Needs(facts[d]) /\ ~facts[d].aux /\ ~facts[d].blocked
Skipped(c) ==
    /\ SkipL1 /\ ~facts[c].clean
    /\ Disposition(facts[c]) \notin {"exposure_only", "high_risk_uncertain"}
Candidates(level) ==
    {c \in Cand : /\ Representative(c) = c /\ GroupNeeds(c)
                  /\ facts[c].level = level
                  /\ ~facts[c].aux /\ ~facts[c].blocked}

Selections(S) ==
    {T \in SUBSET S :
        /\ Cardinality(T) = IF Cardinality(S) < MaxL1 THEN Cardinality(S) ELSE MaxL1
        /\ \A c \in T, d \in S \ T : Score(d, Tier(d)) <= Score(c, Tier(c))}

Funnel ==
    /\ stage = "funnel"
    /\ LET l1 == {c \in Candidates("L1") : ~Skipped(c)}
       IN  \E selected \in Selections(l1) :
             cand' = [c \in Cand |->
               [cand[c] EXCEPT
                  !.disposition = Disposition(facts[c]),
                  !.rep = Representative(c),
                  !.needs = IF Representative(c) = c THEN GroupNeeds(c) ELSE Needs(facts[c]),
                  !.eligible = c \in Candidates("L2") \cup selected,
                  !.answer.status = IF c \in l1 \ selected THEN "ai_budget_deferred"
                                    ELSE @]]
    /\ stage' = "ai"
    /\ UNCHANGED <<partial, sourced, facts, findings>>

-----------------------------------------------------------------------------
(* The AI stage and the sharing of its results.                            *)

(* _should_build_slice: only these are put to the AI.                      *)
Sliced(c) ==
    /\ cand[c].eligible
    /\ facts[c].level = "L1" => ~facts[c].aux /\ facts[c].open /\ facts[c].auth # "protected"

Analyse(c) ==
    /\ stage = "ai" /\ sourced /\ Sliced(c) /\ ~cand[c].analysed
    /\ \E a \in Answers :
         cand' = [cand EXCEPT ![c].answer = a, ![c].analysed = TRUE]
    /\ UNCHANGED <<stage, partial, sourced, facts, findings>>

(* The preflight failed, the AI is switched off, or there is no code to    *)
(* show it: nobody is asked.                                               *)
Unavailable ==
    /\ stage = "ai" /\ \A c \in Cand : ~cand[c].analysed
    /\ \E c \in Cand : Sliced(c)
    /\ \E s \in IF sourced THEN {"ai_failed", "ai_skipped"} ELSE {"ai_skipped"} :
         cand' = [c \in Cand |->
            IF Sliced(c) THEN [cand[c] EXCEPT !.answer.status = s, !.analysed = TRUE]
            ELSE cand[c]]
    /\ UNCHANGED <<stage, partial, sourced, facts, findings>>

(* The slice of a candidate leaves deterministic_facts on it, an answer    *)
(* prompt_id, model, ..., verify_used; no identity leaves them out.        *)
AddedFields(c) ==
    (IF sourced /\ Sliced(c) THEN {"deterministic_facts"} ELSE {})
        \cup (IF cand[c].answer.answered THEN {"ai_metadata"} ELSE {})

(* _pipeline_identity_compatible: the keys the funnel wrote are equal, and *)
(* they are what both identities are when recomputed.                      *)
Compatible_Recorded(r, m) == Identity(facts[r], {}) = Identity(facts[m], {})
Compatible(r, m) ==
    /\ Identity(facts[r], {}) = Identity(facts[m], {})
    /\ \A c \in {r, m} : Identity(facts[c], AddedFields(c)) = Identity(facts[c], {})

Shares(r, c) == r # c /\ r = cand[c].rep /\ Compatible(r, c)

Propagate ==
    /\ stage = "ai" /\ \A c \in Cand : Sliced(c) => cand[c].analysed
    /\ cand' = [c \in Cand |->
         IF \E r \in Cand : Shares(r, c)
         THEN [cand[c] EXCEPT !.answer = cand[CHOOSE r \in Cand : Shares(r, c)].answer]
         ELSE cand[c]]
    /\ stage' = "decision"
    /\ UNCHANGED <<partial, sourced, facts, findings>>

-----------------------------------------------------------------------------
(* Coverage, evidence and decision, for every candidate.                   *)

Status(c) == cand[c].answer.status
Gaps(c) ==
    (IF facts[c].cover = "full" THEN {} ELSE {facts[c].cover})
        \cup (IF Status(c) \in Unfinished THEN {"unfinished"} ELSE {})
AffectPositive(c) == IF facts[c].proven THEN Gaps(c) \ {"unfinished"} ELSE Gaps(c)

(* Gaps with no domain stand against negative proofs of every candidate.   *)
RunGap_NotTheAI == partial
RunGap == partial \/ \E c \in Cand : facts[c].level = "L2" /\ Status(c) \in Unfinished

CoverageAllows(c, claim) ==
    IF claim = "positive" THEN AffectPositive(c) = {} ELSE ~RunGap /\ Gaps(c) = {}
CoverageAllowsJoint(c, claim) ==
    CoverageAllows(c, claim) \/ (Gaps(c) # {} /\ Gaps(c) \subseteq {"limit"})

(* verify_candidate re-reads the evidence and drops what it cannot find.   *)
Sinks(c) == facts[c].sink = "found"
(* The AI's own gaps, those of its failure, and those its references earn. *)
(* A failure is critical by the candidate it was written on, which shares  *)
(* it only with those of the same proof.                                   *)
AIGaps(c) ==
    (CASE Status(c) \in {"ai_failed", "ai_skipped"} ->
            IF facts[c].proven THEN {} ELSE {"conflict"}
       [] Status(c) = "ai_incomplete" -> {"conflict"}
       [] OTHER -> {cand[c].answer.gap} \ {"none"})
    \cup (CASE ~cand[c].answer.answered \/ cand[c].answer.refs = "valid" -> {}
           [] cand[c].answer.refs = "incomplete" -> {"limit"}
           [] cand[c].answer.refs = "invalid" -> {"conflict"})
BlockingGap(c) == facts[c].gap # "none" \/ ~Sinks(c) \/ AIGaps(c) # {}
CriticalGap_OfTheRules(c) == facts[c].gap # "none" \/ AffectPositive(c) # {}
CriticalGap(c) == BlockingGap(c) \/ AffectPositive(c) # {}

Promoted(c) ==
    /\ cand[c].answer.promote /\ Status(c) = "ai_completed"
    /\ facts[c].level = "L2" /\ facts[c].proven /\ facts[c].flow
    /\ Sinks(c) /\ ~CriticalGap(c)
    /\ facts[c].guard = "absent" /\ facts[c].auth = "unprotected"

SDKRefutation(c) == facts[c].basis = "sdk" /\ Sinks(c)
Claims(a) ==
    CASE a.flaw = "yes" -> {"positive"}
      [] a.flaw = "no" -> {"negative"}
      [] a.flaw = "none" /\ a.verdict = "refutes" -> {"negative"}
      [] a.flaw = "none" /\ a.verdict = "unresolved" -> {"positive", "negative"}
      [] a.flaw = "none" /\ a.verdict = "supports" -> {"positive"}

ApplicableCriticalGap(c) ==
    \/ facts[c].gap = "conflict" \/ "conflict" \in AIGaps(c)
    \/ \E claim \in Claims(cand[c].answer) :
         /\ ~(claim = "negative" /\ SDKRefutation(c))
         /\ ~CoverageAllowsJoint(c, claim)

Applicable(c) ==
    \/ Status(c) \in {"ai_completed", "ai_incomplete"}
    \/ cand[c].needs /\ Status(c) # "rule_only"
ContractFails(c, lenient) ==
    /\ Applicable(c)
    /\ \/ Status(c) # "ai_completed"
       \/ cand[c].answer.refs # "valid" /\ ~lenient
       \/ ApplicableCriticalGap(c)

(* The AI's own reason counts only when a rule fact confirms it.           *)
CrossValidated(c) ==
    /\ CoverageAllows(c, "negative")
    /\ cand[c].answer.claim /\ facts[c].confirms
Basis(c) ==
    LET own == RefutedBy(facts[c], Sinks(c))
        counted == IF CoverageAllows(c, "negative") THEN own ELSE own \cap {"sdk"}
    IN  IF counted = {} /\ CrossValidated(c) THEN {"refutation_basis"} ELSE counted

LikelySupported(a) == a.flaw = "yes" /\ a.entry
StrongSupport(c) ==
    LikelySupported(cand[c].answer) /\ cand[c].answer.strong /\ facts[c].flow
LikelyFalse(c) == cand[c].answer.flaw = "no" /\ ~BlockingGap(c)

(* Support by the rules alone asks for the entry method, too: it is part of *)
(* what flow says.  A status of a reviewer, which derive_review_state       *)
(* keeps, no candidate of a scan has.                                      *)
Decision(c) ==
    LET a == cand[c].answer
        refutes == a.verdict = "refutes"
    IN  IF facts[c].blocked /\ ~refutes THEN "blocked"
        ELSE IF ~ContractFails(c, FALSE) /\ refutes /\ Basis(c) # {} THEN "ai_false_positive"
        ELSE IF Basis(c) # {} THEN "deterministically_refuted"
        ELSE IF refutes /\ a.flaw = "yes" THEN "unresolved"
        ELSE IF StrongSupport(c) /\ ~ContractFails(c, TRUE) THEN "supported"
        ELSE IF LikelySupported(a) /\ ~ContractFails(c, TRUE) THEN "ai_likely_supported"
        ELSE IF LikelyFalse(c) /\ ~ContractFails(c, TRUE) THEN "ai_likely_false_positive"
        ELSE IF ContractFails(c, FALSE) THEN "unresolved"
        ELSE IF facts[c].level = "L1" THEN "exposure_only"
        ELSE IF facts[c].proven /\ facts[c].flow THEN "supported"
        ELSE "unresolved"

StillRequired(c) == cand[c].needs /\ Status(c) # "ai_completed"
ReviewState(c) ==
    IF ContractFails(c, TRUE) THEN "pending_ai"
    ELSE IF Decision(c) = "ai_false_positive" THEN "ai_false_positive"
    ELSE IF StillRequired(c) THEN "pending_ai"
    ELSE "pending_manual"

Decide ==
    /\ stage = "decision"
    /\ cand' = [c \in Cand |->
         [cand[c] EXCEPT !.sinks = Sinks(c),
                         !.level = IF Promoted(c) THEN "L3" ELSE @,
                         !.decision = Decision(c), !.review = ReviewState(c)]]
    /\ stage' = "aggregation"
    /\ UNCHANGED <<partial, sourced, facts, findings>>

-----------------------------------------------------------------------------
(* Aggregation: one finding for the candidates of one chain.               *)

Members(chain) == {c \in Cand : facts[c].chain = chain /\ ~facts[c].aux}

Primary(M) ==
    LET Rank(c) == (CASE cand[c].level = "L1" -> 0 [] cand[c].level = "L2" -> 2
                      [] cand[c].level = "L3" -> 4) + (IF facts[c].proven THEN 1 ELSE 0)
    IN  Best(M, Rank)

FirstOf(order, S, default) ==
    IF \E i \in DOMAIN order : order[i] \in S
    THEN order[CHOOSE i \in DOMAIN order :
                 order[i] \in S /\ \A j \in 1..(i - 1) : order[j] \notin S]
    ELSE default

Authorization(M) ==
    FirstOf(<<"unprotected", "unknown", "protected">>, {facts[c].auth : c \in M}, "unknown")
Guard(M) ==
    LET S == {facts[c].guard : c \in M}
    IN  IF "unknown" \in S THEN "unknown"
        ELSE IF S = {"absent", "present_effective"} THEN "present_bypassable"
        ELSE CHOOSE g \in S : TRUE

AggregatedReview_AnyRefuted(M) ==
    FirstOf(<<"ai_false_positive", "pending_ai", "pending_manual">>,
            {cand[c].review : c \in M}, "pending_manual")
AggregatedReview(M) ==
    FirstOf(<<"pending_ai", "pending_manual", "ai_false_positive">>,
            {cand[c].review : c \in M}, "pending_manual")
AggregatedDecision(M) ==
    LET S == {cand[c].decision : c \in M}
    IN  IF Cardinality(S) = 1 THEN CHOOSE d \in S : TRUE ELSE "mixed"

(* The aggregated analysis_status is ai_failed or ai_skipped.              *)
AIMissing(M) ==
    LET S == {Status(c) : c \in M}
    IN  /\ "ai_completed" \notin S
        /\ \/ "ai_failed" \in S
           \/ "ai_skipped" \in S /\ "ai_incomplete" \notin S

(* graded: the hint of the rule, lowered or calibrated; no property tells   *)
(* its levels apart.                                                       *)
Severity(M, p) ==
    IF AggregatedDecision(M) \in {"ai_false_positive", "deterministically_refuted"}
        THEN "informational"
    ELSE IF AggregatedDecision(M) = "blocked" THEN "pending"
    ELSE IF cand[p].level = "L1" THEN "informational"
    ELSE IF \E c \in M : CriticalGap(c) THEN "pending"
    ELSE IF ~facts[p].flow THEN "pending"
    ELSE IF AIMissing(M) /\ ~facts[p].proven THEN "pending"
    ELSE IF Guard(M) = "present_effective" \/ Authorization(M) = "protected"
        THEN "informational"
    ELSE IF Authorization(M) = "unknown" \/ Guard(M) = "unknown" THEN "pending"
    ELSE "graded"

Aggregate ==
    /\ stage = "aggregation"
    /\ findings' = {[members |-> M, primary |-> Primary(M), status |-> AggregatedReview(M),
                     severity |-> Severity(M, Primary(M))] :
                       M \in {Members(facts[c].chain) : c \in Cand} \ {{}}}
    /\ stage' = "done"
    /\ UNCHANGED <<partial, sourced, facts, cand>>

PipelineNext ==
    \/ Funnel
    \/ \E c \in Cand : Analyse(c)
    \/ Unavailable
    \/ Propagate
    \/ Decide
    \/ Aggregate

PipelineSpec == PipelineInit /\ [][PipelineNext]_pipeline_vars

-----------------------------------------------------------------------------
(* What the pipeline promises.                                             *)

Judged == stage \in {"aggregation", "done"}
Waiting(c) == Needs(facts[c]) /\ Status(c) # "ai_completed"

(* A finding is closed as an AI false positive only when the AI refuted    *)
(* every one of its candidates with valid evidence, and each had a reason  *)
(* of its own among the facts; and while one of its candidates waits for   *)
(* the answer it needed from the AI, it waits, whatever became of the      *)
(* others.                                                                 *)
StatusIsEarned ==
    \A f \in findings : \A c \in f.members :
        /\ Waiting(c) => f.status = "pending_ai"
        /\ f.status = "ai_false_positive" =>
            /\ Status(c) = "ai_completed"
            /\ cand[c].answer.verdict = "refutes" /\ cand[c].answer.refs = "valid"
            /\ \/ RefutedBy(facts[c], cand[c].sinks) # {}
               \/ cand[c].answer.claim /\ facts[c].confirms

(* When part of the run is missing, or the AI did not finish some L2       *)
(* candidate, no candidate at all is written off, except one whose sink is *)
(* a broadcast inside the process.                                         *)
PartialRunDismissesNothing ==
    Judged /\ (partial \/ \E d \in Cand :
                    facts[d].level = "L2" /\ cand[d].answer.status \in Unfinished) =>
        \A c \in Cand :
            cand[c].decision \in {"ai_false_positive", "deterministically_refuted"}
                => facts[c].basis = "sdk"

(* A severity is given only on a proven flow, with the evidence of every   *)
(* member found again, no critical gap in any, and an open entry.          *)
GradeNeedsProof ==
    \A f \in findings : f.severity = "graded" =>
        /\ facts[f.primary].flow /\ facts[f.primary].level = "L2"
        /\ \E c \in f.members : facts[c].auth = "unprotected"
        /\ \A c \in f.members :
             /\ facts[c].gap = "none" /\ facts[c].cover = "full" /\ facts[c].sink = "found"
             /\ Status(c) \in Unfinished => facts[c].proven /\ Status(c) # "ai_incomplete"

(* Once the AI stage is over, whoever needs the AI was put to it, itself   *)
(* or through the representative of its group, unless that is an L1 that   *)
(* is out of reach or that the settings leave out.  And no candidate has a *)
(* result but its own, for those of a group need not agree in what was     *)
(* proved: build_initial and _apply_ai_analysis leave fields on the        *)
(* representative that its recomputed identity counts, so the others keep  *)
(* the status they had, even when it was analysed to the end.              *)
(* orchestrator.py:414, docs/02 line 68 and test_pipeline_v2_funnel.py:138 *)
(* say that they get its result: the code never does that.  All it passes  *)
(* on is, in a run without code, that the AI was skipped, and that only to *)
(* a candidate of the same facts.                                          *)
AskedNotLent ==
    \A c \in Cand :
        LET r == cand[c].rep
        IN  /\ stage \notin {"funnel", "ai"} /\ Needs(facts[c]) /\ ~facts[c].aux =>
                 \/ cand[r].analysed
                 \/ /\ facts[r].level = "L1"
                    /\ \/ Status(r) = "ai_budget_deferred"
                       \/ Skipped(r) \/ ~facts[r].open
            /\ Status(c) \in Unfinished \cup {"ai_completed"} /\ ~cand[c].analysed =>
                 /\ r # c /\ ~sourced
                 /\ Status(c) = "ai_skipped" /\ cand[r].analysed
                 /\ cand[r].answer = cand[c].answer
                 /\ facts[r] = [facts[c] EXCEPT !.risk = facts[r].risk,
                                                !.value = facts[r].value]
=============================================================================
