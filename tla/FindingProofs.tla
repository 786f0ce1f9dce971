----------------------------- MODULE FindingProofs -----------------------------
(***************************************************************************)
(* Proofs about the findings of a run, as FindingPipeline computes them and *)
(* FindingStore keeps them.  The two modules share no state.                *)
(***************************************************************************)
EXTENDS FindingStore, FindingPipeline, WellFoundedInduction, TLAPS

-----------------------------------------------------------------------------
(***************************************************************************)
(* The pipeline, for any number of candidates with any facts, any answers   *)
(* of the AI and any settings of the funnel.                                *)
(***************************************************************************)

Statuses == Unfinished \cup {"ai_completed", "rule_only", "ai_budget_deferred"}
Dispositions == {"deterministically_refuted", "coverage_insufficient",
                 "deterministically_promoted_l2", "high_risk_uncertain", "exposure_only",
                 "explorer_promoted", "explorer_partial"}
Decisions == {"blocked", "ai_false_positive", "deterministically_refuted", "unresolved",
              "supported", "ai_likely_supported", "ai_likely_false_positive",
              "exposure_only"}
Reviews == {"pending_ai", "pending_manual", "ai_false_positive"}

Written == [disposition : Dispositions \cup {"none"}, needs : BOOLEAN, rep : Cand,
            eligible : BOOLEAN, level : {"L1", "L2", "L3"}, sinks : BOOLEAN,
            answer : AnswerRecord(Statuses), analysed : BOOLEAN,
            decision : Decisions \cup {"none"}, review : Reviews \cup {"none"}]

PipelineTypes ==
    /\ stage \in {"funnel", "ai", "decision", "aggregation", "done"}
    /\ partial \in BOOLEAN /\ sourced \in BOOLEAN
    /\ facts \in [Cand -> Facts]
    /\ ~sourced => \A c \in Cand : facts[c].surface = "plain"
    /\ cand \in [Cand -> Written]

\* What the funnel decided stays decided.
Funnelled ==
    stage # "funnel" => \A c \in Cand :
        /\ cand[c].rep = Representative(c)
        /\ cand[c].needs = IF Representative(c) = c THEN GroupNeeds(c) ELSE Needs(facts[c])
        /\ cand[c].eligible => Representative(c) = c /\ GroupNeeds(c)
        /\ c \in Candidates("L2") => cand[c].eligible
        /\ c \in Candidates("L1") /\ ~Skipped(c) =>
             cand[c].eligible \/ Status(c) = "ai_budget_deferred"

\* What c has from its representative without having been put to the AI.
SkippedWith(c, r) ==
    /\ r # c /\ ~sourced
    /\ Status(c) = "ai_skipped" /\ cand[r].analysed
    /\ cand[r].answer = cand[c].answer
    /\ facts[r] = [facts[c] EXCEPT !.risk = facts[r].risk, !.value = facts[r].value]

\* Where answers come from: what the AI said stays with the candidate it was
\* asked about, because what its slice and its answer leave changes the identity.
Answered ==
    \A c \in Cand :
        /\ stage = "funnel" => ~cand[c].analysed
        /\ stage \in {"funnel", "ai"} /\ ~cand[c].analysed =>
             Status(c) \in {"rule_only", "ai_budget_deferred"}
        /\ cand[c].analysed => /\ Sliced(c)
                               /\ Status(c) \in Unfinished \cup {"ai_completed"}
                               /\ ~sourced => Status(c) = "ai_skipped"
        /\ cand[c].answer.answered => cand[c].analysed
        /\ cand[c].answer.verdict # "unresolved" => cand[c].answer.answered
        /\ stage \notin {"funnel", "ai"} /\ Sliced(c) => cand[c].analysed
        /\ Status(c) \in Unfinished \cup {"ai_completed"} /\ ~cand[c].analysed =>
             SkippedWith(c, cand[c].rep)

\* The AI raises a level of L2 only, and what the decision wrote is what the
\* facts and the answer say.
JudgedRight ==
    \A c \in Cand :
        /\ \/ cand[c].level = facts[c].level
           \/ cand[c].level = "L3" /\ facts[c].level = "L2"
        /\ Judged => /\ cand[c].sinks = Sinks(c)
                     /\ cand[c].decision = Decision(c)
                     /\ cand[c].review = ReviewState(c)

Nothing == stage # "done" => findings = {}

PipelineInv ==
        /\ PipelineTypes
        /\ Funnelled
        /\ Answered
        /\ JudgedRight
        /\ Nothing
        /\ StatusIsEarned
        /\ GradeNeedsProof

-----------------------------------------------------------------------------
LEMMA LeastExists ==
    ASSUME NEW T, T \subseteq Nat, T # {}
    PROVE  \E x \in T : \A y \in T : x <= y
<1>1. IsWellFoundedOn(OpToRel(<, Nat), Nat)
  BY NatLessThanWellFounded, Zenon
<1>2. PICK x \in T : \A y \in T : ~(<<y, x>> \in OpToRel(<, Nat))
  BY <1>1, WFMin, Zenon
<1>3. ASSUME NEW m \in Nat, NEW n \in Nat, m < n
      PROVE  <<m, n>> \in OpToRel(<, Nat)
  BY <1>3, Zenon DEF OpToRel
<1>4. ASSUME NEW y \in T PROVE ~(y < x)
  BY <1>2, <1>3, Zenon
<1>5. \A y \in T : x <= y
  BY <1>4
<1> QED
  BY <1>5

\* Among candidates of a bounded rank there is one of the highest.
LEMMA HighestExists ==
    ASSUME NEW S, S # {}, NEW B \in Nat, NEW rank \in [S -> 0..B]
    PROVE  \E c \in S : \A d \in S : rank[d] <= rank[c]
<1> DEFINE D == {n \in Nat : \E c \in S : n = B - rank[c]}
<1>1. \A c \in S : rank[c] \in 0..B
  OBVIOUS
<1>2. D # {}
  <2>1. PICK c \in S : TRUE
    OBVIOUS
  <2>2. B - rank[c] \in Nat
    BY <1>1
  <2> QED
    BY <2>2
<1>3. PICK n \in D : \A m \in D : n <= m
  BY <1>2, LeastExists
<1>4. PICK c \in S : n = B - rank[c]
  BY <1>3
<1>5. ASSUME NEW d \in S PROVE rank[d] <= rank[c]
  <2>1. B - rank[d] \in D
    BY <1>1
  <2>2. n <= B - rank[d]
    BY <1>3, <2>1
  <2> QED
    BY <1>1, <1>4, <2>2
<1> QED
  BY <1>4, <1>5

LEMMA PrimaryIsMember ==
    ASSUME PipelineTypes, NEW M, M # {}, M \subseteq Cand
    PROVE  Primary(M) \in M
<1> DEFINE rank == [c \in M |-> (CASE cand[c].level = "L1" -> 0 [] cand[c].level = "L2" -> 2
                                  [] cand[c].level = "L3" -> 4)
                               + (IF facts[c].proven THEN 1 ELSE 0)]
<1>1. rank \in [M -> 0..5]
  BY DEF PipelineTypes, Written
<1>2. \E c \in M : \A d \in M : rank[d] <= rank[c]
  BY <1>1, HighestExists
<1> QED
  BY <1>2 DEF Primary, Best

LEMMA RepresentativeIsMember ==
    ASSUME PipelineTypes, NEW c \in Cand
    PROVE  Representative(c) \in Group(c)
<1> DEFINE rank == [d \in Group(c) |-> Score(d, IF Needs(facts[d]) THEN 1 ELSE 0)]
<1>1. rank \in [Group(c) -> 0..201]
  BY DEF PipelineTypes, Facts, Score, Group
<1>2. c \in Group(c)
  BY DEF Group
<1>3. \E d \in Group(c) : \A e \in Group(c) : rank[e] <= rank[d]
  BY <1>1, <1>2, HighestExists
<1> QED
  BY <1>3 DEF Representative, Best
-----------------------------------------------------------------------------
\* What depends on the facts alone stays as it is.
LEMMA SameFacts ==
    ASSUME facts' = facts
    PROVE  /\ \A c : Group(c)' = Group(c)
           /\ \A c : Representative(c)' = Representative(c)
           /\ \A c : GroupNeeds(c)' = GroupNeeds(c)
           /\ \A c : Skipped(c)' = Skipped(c)
           /\ \A level : Candidates(level)' = Candidates(level)
           /\ \A chain : Members(chain)' = Members(chain)
<1>1. \A c : Group(c)' = Group(c)
  BY DEF Group
<1>2. \A c : Representative(c)' = Representative(c)
  BY <1>1 DEF Representative, Best, Score
<1>3. \A c : GroupNeeds(c)' = GroupNeeds(c)
  BY <1>1 DEF GroupNeeds
<1>4. \A c : Skipped(c)' = Skipped(c)
  BY DEF Skipped
<1>5. \A level : Candidates(level)' = Candidates(level)
  BY <1>2, <1>3 DEF Candidates
<1>6. \A chain : Members(chain)' = Members(chain)
  BY DEF Members
<1> QED
  BY <1>1, <1>2, <1>3, <1>4, <1>5, <1>6
-----------------------------------------------------------------------------
\* What the stages write.

LEMMA WrittenFields ==
    ASSUME NEW x \in Written
    PROVE  /\ x.answer \in AnswerRecord(Statuses)
           /\ x.answer.status \in Statuses
           /\ x.level \in {"L1", "L2", "L3"} /\ x.rep \in Cand
BY DEF Written, AnswerRecord

LEMMA StatusEdit ==
    ASSUME NEW a \in AnswerRecord(Statuses), NEW s \in Statuses
    PROVE  /\ [a EXCEPT !.status = s] \in AnswerRecord(Statuses)
           /\ [a EXCEPT !.status = s].status = s
           /\ [a EXCEPT !.status = s].verdict = a.verdict
           /\ [a EXCEPT !.status = s].answered = a.answered
           /\ [a EXCEPT !.status = a.status] = a
BY DEF AnswerRecord

LEMMA ValuesTyped ==
    ASSUME PipelineTypes, NEW c \in Cand
    PROVE  /\ Disposition(facts[c]) \in Dispositions
           /\ Needs(facts[c]) \in BOOLEAN /\ GroupNeeds(c) \in BOOLEAN
           /\ Decision(c) \in Decisions
           /\ ReviewState(c) \in Reviews
<1>1. facts[c] \in Facts
  BY DEF PipelineTypes
<1>2. Disposition(facts[c]) \in Dispositions
  BY <1>1 DEF Disposition, Precheck, Dispositions, Facts
<1>3. Needs(facts[c]) \in BOOLEAN /\ GroupNeeds(c) \in BOOLEAN
  BY DEF Needs, GroupNeeds
<1>4. Decision(c) \in Decisions
  BY DEF Decision, Decisions
<1>5. ReviewState(c) \in Reviews
  BY DEF ReviewState, Reviews
<1> QED
  BY <1>2, <1>3, <1>4, <1>5

\* CandidateFunnel.process.
LEMMA FunnelEffect ==
    ASSUME PipelineTypes, Funnel, NEW c \in Cand
    PROVE  /\ cand'[c] \in Written
           /\ cand'[c].rep = Representative(c)
           /\ cand'[c].needs = IF Representative(c) = c THEN GroupNeeds(c) ELSE Needs(facts[c])
           /\ cand'[c].eligible => Representative(c) = c /\ GroupNeeds(c)
           /\ c \in Candidates("L2") => cand'[c].eligible
           /\ c \in Candidates("L1") /\ ~Skipped(c) =>
                cand'[c].eligible \/ cand'[c].answer.status = "ai_budget_deferred"
           /\ cand'[c].answer \in {cand[c].answer,
                                   [cand[c].answer EXCEPT !.status = "ai_budget_deferred"]}
           /\ cand'[c].analysed = cand[c].analysed /\ cand'[c].level = cand[c].level
<1> DEFINE l1 == {d \in Candidates("L1") : ~Skipped(d)}
<1>1. PICK selected \in Selections(l1) :
        cand' = [d \in Cand |->
                   [cand[d] EXCEPT
                      !.disposition = Disposition(facts[d]),
                      !.rep = Representative(d),
                      !.needs = IF Representative(d) = d THEN GroupNeeds(d)
                                ELSE Needs(facts[d]),
                      !.eligible = d \in Candidates("L2") \cup selected,
                      !.answer.status = IF d \in l1 \ selected THEN "ai_budget_deferred"
                                        ELSE @]]
  BY DEF Funnel
<1>2. PICK s : s = IF c \in l1 \ selected THEN "ai_budget_deferred" ELSE cand[c].answer.status
  OBVIOUS
<1>3. PICK e : e = (c \in Candidates("L2") \cup selected)
  OBVIOUS
<1>4. PICK n : n = IF Representative(c) = c THEN GroupNeeds(c) ELSE Needs(facts[c])
  OBVIOUS
<1>5. cand'[c] = [cand[c] EXCEPT !.disposition = Disposition(facts[c]),
                                 !.rep = Representative(c), !.needs = n, !.eligible = e,
                                 !.answer.status = s]
  <2> HIDE DEF l1
  <2> QED
    BY <1>1, <1>2, <1>3, <1>4
<1>6. cand[c] \in Written /\ cand[c].answer \in AnswerRecord(Statuses) /\ s \in Statuses
  BY <1>2, WrittenFields DEF PipelineTypes, Statuses
<1>7. Representative(c) \in Cand
  BY RepresentativeIsMember DEF Group
<1>8. Disposition(facts[c]) \in Dispositions /\ n \in BOOLEAN /\ e \in BOOLEAN
  BY <1>3, <1>4, ValuesTyped
<1>9. /\ cand'[c] \in Written
      /\ cand'[c].rep = Representative(c) /\ cand'[c].needs = n /\ cand'[c].eligible = e
      /\ cand'[c].answer = [cand[c].answer EXCEPT !.status = s]
      /\ cand'[c].analysed = cand[c].analysed /\ cand'[c].level = cand[c].level
  <2>1. PICK a : a = [cand[c].answer EXCEPT !.status = s]
    OBVIOUS
  <2>2. a \in AnswerRecord(Statuses)
    BY <1>6, <2>1, StatusEdit
  <2>3. cand'[c] = [cand[c] EXCEPT !.disposition = Disposition(facts[c]),
                                   !.rep = Representative(c), !.needs = n, !.eligible = e,
                                   !.answer = a]
    BY <1>5, <2>1
  <2> QED
    BY <1>6, <1>7, <1>8, <2>1, <2>2, <2>3 DEF Written
<1>10. /\ e => Representative(c) = c /\ GroupNeeds(c)
       /\ c \in Candidates("L2") => e
       /\ c \in l1 => e \/ s = "ai_budget_deferred"
  BY <1>2, <1>3 DEF Selections, Candidates
<1>11. /\ cand'[c].answer.status = s
       /\ cand'[c].answer \in {cand[c].answer,
                               [cand[c].answer EXCEPT !.status = "ai_budget_deferred"]}
  BY <1>2, <1>6, <1>9, StatusEdit
<1> QED
  BY <1>4, <1>9, <1>10, <1>11

\* _apply_ai_analysis and what else ends an analysis.
LEMMA AnalyseEffect ==
    ASSUME PipelineTypes, NEW d \in Cand, Analyse(d)
    PROVE  /\ \A c \in Cand : c # d => cand'[c] = cand[c]
           /\ cand'[d] \in Written
           /\ cand'[d].answer \in Answers /\ cand'[d].analysed
           /\ cand'[d].rep = cand[d].rep /\ cand'[d].needs = cand[d].needs
           /\ cand'[d].eligible = cand[d].eligible /\ cand'[d].level = cand[d].level
<1>1. PICK a \in Answers : cand' = [cand EXCEPT ![d].answer = a, ![d].analysed = TRUE]
  BY DEF Analyse
<1>2. cand[d] \in Written /\ a \in AnswerRecord(Statuses)
  BY FindingPipelineAssumption DEF PipelineTypes, AnswerRecord, Statuses
<1>3. cand'[d] = [cand[d] EXCEPT !.answer = a, !.analysed = TRUE]
  BY <1>1 DEF PipelineTypes
<1>4. \A c \in Cand : c # d => cand'[c] = cand[c]
  BY <1>1 DEF PipelineTypes
<1>5. TRUE \in BOOLEAN
  OBVIOUS
<1> QED
  BY <1>2, <1>3, <1>4, <1>5 DEF Written

\* _mark_ai_unavailable.
LEMMA UnavailableEffect ==
    ASSUME PipelineTypes, Unavailable, NEW c \in Cand
    PROVE  /\ cand'[c] \in Written
           /\ ~Sliced(c) => cand'[c] = cand[c]
           /\ Sliced(c) => /\ cand'[c].answer.verdict = cand[c].answer.verdict
                           /\ cand'[c].answer.answered = cand[c].answer.answered
                           /\ cand'[c].answer.status \in {"ai_failed", "ai_skipped"}
                           /\ ~sourced => cand'[c].answer.status = "ai_skipped"
                           /\ cand'[c].analysed
           /\ cand'[c].rep = cand[c].rep /\ cand'[c].needs = cand[c].needs
           /\ cand'[c].eligible = cand[c].eligible /\ cand'[c].level = cand[c].level
<1>1. PICK s \in {"ai_failed", "ai_skipped"} :
        /\ ~sourced => s = "ai_skipped"
        /\ cand' = [d \in Cand |->
                   IF Sliced(d) THEN [cand[d] EXCEPT !.answer.status = s, !.analysed = TRUE]
                   ELSE cand[d]]
  BY DEF Unavailable
<1>2. cand[c] \in Written /\ cand[c].answer \in AnswerRecord(Statuses) /\ s \in Statuses
  BY WrittenFields DEF PipelineTypes, Statuses, Unfinished
<1>3. CASE Sliced(c)
  <2>1. cand'[c] = [cand[c] EXCEPT !.answer = [cand[c].answer EXCEPT !.status = s],
                                   !.analysed = TRUE]
    BY <1>1, <1>3
  <2>2. /\ [cand[c].answer EXCEPT !.status = s] \in AnswerRecord(Statuses)
        /\ [cand[c].answer EXCEPT !.status = s].verdict = cand[c].answer.verdict
        /\ [cand[c].answer EXCEPT !.status = s].answered = cand[c].answer.answered
        /\ [cand[c].answer EXCEPT !.status = s].status = s
        /\ TRUE \in BOOLEAN
    BY <1>2, StatusEdit
  <2> QED
    BY <1>1, <1>2, <1>3, <2>1, <2>2 DEF Written
<1>4. CASE ~Sliced(c)
  BY <1>1, <1>2, <1>4
<1> QED
  BY <1>3, <1>4

\* propagate_representative_analysis.
LEMMA PropagateEffect ==
    ASSUME PipelineTypes, Propagate, NEW c \in Cand
    PROVE  /\ cand'[c] \in Written
           /\ \A r \in Cand : Shares(r, c) => cand'[c].answer = cand[r].answer
           /\ (\A r \in Cand : ~Shares(r, c)) => cand'[c] = cand[c]
           /\ cand'[c].analysed = cand[c].analysed
           /\ cand'[c].rep = cand[c].rep /\ cand'[c].needs = cand[c].needs
           /\ cand'[c].eligible = cand[c].eligible /\ cand'[c].level = cand[c].level
<1>1. cand' = [d \in Cand |->
                 IF \E r \in Cand : Shares(r, d)
                 THEN [cand[d] EXCEPT !.answer = cand[CHOOSE r \in Cand : Shares(r, d)].answer]
                 ELSE cand[d]]
  BY DEF Propagate
<1>2. cand[c] \in Written /\ \A r \in Cand : cand[r].answer \in AnswerRecord(Statuses)
  BY WrittenFields DEF PipelineTypes
<1>3. ASSUME NEW r \in Cand, Shares(r, c)
      PROVE  /\ (CHOOSE q \in Cand : Shares(q, c)) = r
             /\ cand'[c] = [cand[c] EXCEPT !.answer = cand[r].answer]
  <2>1. \A q \in Cand : Shares(q, c) => q = r
    BY <1>3 DEF Shares
  <2>2. (CHOOSE q \in Cand : Shares(q, c)) = r
    BY <1>3, <2>1
  <2> QED
    BY <1>1, <1>3, <2>2
<1>4. ASSUME NEW r \in Cand, Shares(r, c)
      PROVE  /\ cand'[c] \in Written /\ cand'[c].answer = cand[r].answer
             /\ cand'[c].analysed = cand[c].analysed
             /\ cand'[c].rep = cand[c].rep /\ cand'[c].needs = cand[c].needs
             /\ cand'[c].eligible = cand[c].eligible /\ cand'[c].level = cand[c].level
  BY <1>2, <1>3, <1>4, cand'[c] = [cand[c] EXCEPT !.answer = cand[r].answer] DEF Written
<1>5. ASSUME \A r \in Cand : ~Shares(r, c) PROVE cand'[c] = cand[c]
  BY <1>1, <1>5
<1> QED
  BY <1>2, <1>4, <1>5

\* DecisionEngine.apply, after verify_candidate.
LEMMA DecideEffect ==
    ASSUME PipelineTypes, Decide, NEW c \in Cand
    PROVE  /\ cand'[c] \in Written
           /\ cand'[c].sinks = Sinks(c)
           /\ cand'[c].level = IF Promoted(c) THEN "L3" ELSE cand[c].level
           /\ cand'[c].decision = Decision(c) /\ cand'[c].review = ReviewState(c)
           /\ cand'[c].answer = cand[c].answer /\ cand'[c].analysed = cand[c].analysed
           /\ cand'[c].rep = cand[c].rep /\ cand'[c].needs = cand[c].needs
           /\ cand'[c].eligible = cand[c].eligible
<1>1. PICK l : l = IF Promoted(c) THEN "L3" ELSE cand[c].level
  OBVIOUS
<1>2. PICK f : f = Sinks(c)
  OBVIOUS
<1>3. cand'[c] = [cand[c] EXCEPT !.sinks = f, !.level = l, !.decision = Decision(c),
                                 !.review = ReviewState(c)]
  BY <1>1, <1>2 DEF Decide
<1>4. cand[c] \in Written /\ l \in {"L1", "L2", "L3"}
  BY <1>1, WrittenFields DEF PipelineTypes
<1>5. f \in BOOLEAN
  BY <1>2 DEF Sinks
<1>6. Decision(c) \in Decisions /\ ReviewState(c) \in Reviews
  BY ValuesTyped
<1> QED
  BY <1>1, <1>2, <1>3, <1>4, <1>5, <1>6 DEF Written
-----------------------------------------------------------------------------
\* The steps.

LEMMA FactsStay ==
    ASSUME [PipelineNext]_pipeline_vars
    PROVE  facts' = facts /\ partial' = partial /\ sourced' = sourced
BY DEF PipelineNext, pipeline_vars, Funnel, Analyse, Unavailable, Propagate, Decide, Aggregate

LEMMA PipelineTypesStep ==
    ASSUME PipelineTypes, [PipelineNext]_pipeline_vars
    PROVE  PipelineTypes'
<1>0. facts' = facts /\ partial' = partial /\ sourced' = sourced
  BY FactsStay
<1>1. CASE Funnel
  <2>1. \A c \in Cand : cand'[c] \in Written
    BY <1>1, FunnelEffect
  <2>2. cand' \in [Cand -> Written] /\ stage' = "ai"
    BY <1>1, <2>1 DEF Funnel
  <2> QED
    BY <1>0, <2>2 DEF PipelineTypes
<1>2. ASSUME NEW d \in Cand, Analyse(d) PROVE PipelineTypes'
  <2>1. \A c \in Cand : cand'[c] \in Written
    BY <1>2, AnalyseEffect DEF PipelineTypes
  <2> QED
    BY <1>0, <1>2, <2>1 DEF PipelineTypes, Analyse
<1>3. CASE Unavailable
  <2>1. \A c \in Cand : cand'[c] \in Written
    BY <1>3, UnavailableEffect
  <2>2. cand' \in [Cand -> Written] /\ stage' = "ai"
    BY <1>3, <2>1 DEF Unavailable
  <2> QED
    BY <1>0, <2>2 DEF PipelineTypes
<1>4. CASE Propagate
  <2>1. \A c \in Cand : cand'[c] \in Written
    BY <1>4, PropagateEffect
  <2> QED
    BY <1>0, <1>4, <2>1 DEF PipelineTypes, Propagate
<1>5. CASE Decide
  <2>1. \A c \in Cand : cand'[c] \in Written
    BY <1>5, DecideEffect
  <2>2. cand' \in [Cand -> Written] /\ stage' = "aggregation"
    BY <1>5, <2>1 DEF Decide
  <2> QED
    BY <1>0, <2>2 DEF PipelineTypes
<1>6. CASE Aggregate
  BY <1>6 DEF PipelineTypes, Aggregate
<1>7. CASE UNCHANGED pipeline_vars
  BY <1>7 DEF PipelineTypes, pipeline_vars
<1> QED
  BY <1>1, <1>2, <1>3, <1>4, <1>5, <1>6, <1>7 DEF PipelineNext

\* Those the AI must be asked about are known from the facts.
LEMMA FunnelledStep ==
    ASSUME PipelineTypes, Funnelled, [PipelineNext]_pipeline_vars
    PROVE  Funnelled'
<1>0. facts' = facts
  BY FactsStay
<1>1. \A c : /\ Representative(c)' = Representative(c) /\ GroupNeeds(c)' = GroupNeeds(c)
             /\ Skipped(c)' = Skipped(c)
  BY <1>0, SameFacts
<1>2. Candidates("L1")' = Candidates("L1") /\ Candidates("L2")' = Candidates("L2")
  BY <1>0, SameFacts
<1>3. CASE Funnel
  BY <1>0, <1>1, <1>2, <1>3, FunnelEffect DEF Funnelled, Status
<1>4. ASSUME NEW d \in Cand, Analyse(d) PROVE Funnelled'
  <2>1. stage = "ai" /\ stage' = "ai" /\ cand[d].eligible
    BY <1>4 DEF Analyse, Sliced
  <2> QED
    BY <1>0, <1>1, <1>2, <1>4, <2>1, AnalyseEffect DEF Funnelled, Status
<1>5. CASE Unavailable
  <2>1. stage = "ai" /\ stage' = "ai" /\ \A c \in Cand : Sliced(c) => cand[c].eligible
    BY <1>5 DEF Unavailable, Sliced
  <2> QED
    BY <1>0, <1>1, <1>2, <1>5, <2>1, UnavailableEffect DEF Funnelled, Status
<1>6. CASE Propagate
  <2>1. stage = "ai" /\ stage' = "decision"
    BY <1>6 DEF Propagate
  <2>2. ASSUME NEW c \in Cand, Representative(c) = c PROVE cand'[c] = cand[c]
    <3>1. \A r \in Cand : ~Shares(r, c)
      BY <2>1, <2>2 DEF Shares, Funnelled
    <3> QED
      BY <1>6, <3>1, PropagateEffect
  <2>3. \A c \in Candidates("L1") : Representative(c) = c
    BY DEF Candidates
  <2> QED
    BY <1>0, <1>1, <1>2, <1>6, <2>1, <2>2, <2>3, PropagateEffect DEF Funnelled, Status
<1>7. CASE Decide
  <2>1. stage = "decision" /\ stage' = "aggregation"
    BY <1>7 DEF Decide
  <2> QED
    BY <1>0, <1>1, <1>2, <1>7, <2>1, DecideEffect DEF Funnelled, Status
<1>8. CASE Aggregate
  BY <1>0, <1>1, <1>2, <1>8 DEF Aggregate, Funnelled, Status
<1>9. CASE UNCHANGED pipeline_vars
  BY <1>0, <1>1, <1>2, <1>9 DEF pipeline_vars, Funnelled, Status
<1> QED
  BY <1>3, <1>4, <1>5, <1>6, <1>7, <1>8, <1>9 DEF PipelineNext

LEMMA GroupHasOneRepresentative ==
    ASSUME PipelineTypes, NEW c \in Cand
    PROVE  /\ Representative(c) \in Cand
           /\ Representative(Representative(c)) = Representative(c)
           /\ c \in Group(Representative(c))
           /\ Hashed(facts[Representative(c)]) = Hashed(facts[c])
<1> DEFINE r == Representative(c)
<1>1. r \in Group(c)
  BY RepresentativeIsMember
<1> HIDE DEF r
<1>2. r \in Cand /\ Identity(facts[r], {}) = Identity(facts[c], {})
  BY <1>1 DEF Group
<1>3. Group(r) = Group(c)
  BY <1>2 DEF Group
<1>4. Representative(r) = Representative(c)
  BY <1>3 DEF Representative
<1>5. c \in Group(r)
  BY <1>3 DEF Group
<1>6. Hashed(facts[r]) = Hashed(facts[c])
  BY <1>2 DEF Identity
<1> QED
  BY <1>2, <1>4, <1>5, <1>6 DEF r

\* What every identity keeps.
LEMMA HashedKeeps ==
    ASSUME NEW f \in Facts
    PROVE  /\ Hashed(f).surface = f.surface /\ Hashed(f).level = f.level
           /\ Hashed(f).aux = f.aux /\ Hashed(f).blocked = f.blocked
           /\ Hashed(f).auth = f.auth
<1> DEFINE g == [f EXCEPT !.risk = 0, !.value = TRUE]
           h == [g EXCEPT !.impact = "potential", !.proven = FALSE, !.flow = FALSE,
                          !.signal = FALSE, !.basis = "none", !.sink = "found"]
           k == [g EXCEPT !.chain = KeysOf[f.chain]]
<1>1. /\ DOMAIN f = DOMAIN g /\ {"surface", "level", "aux", "blocked", "auth"} \subseteq DOMAIN f
      /\ \A x \in {"surface", "level", "aux", "blocked", "auth"} : g[x] = f[x]
  BY DEF Facts
<1>2. /\ \A x \in {"surface", "level", "aux", "blocked", "auth"} : h[x] = f[x]
      /\ \A x \in {"surface", "level", "aux", "blocked", "auth"} : k[x] = f[x]
  BY <1>1
<1>3. Hashed(f) \in {g, h, k}
  <2>1. f.surface \in {"plain", "binder", "receiver"}
    BY DEF Facts
  <2> QED
    BY <2>1 DEF Hashed
<1> HIDE DEF g, h, k
<1>4. \A x \in {"surface", "level", "aux", "blocked", "auth"} : Hashed(f)[x] = f[x]
  BY <1>1, <1>2, <1>3
<1> QED
  BY <1>4

\* The identity of a candidate that is no Binder surface and no receiver keeps
\* every fact but the scores and texts of the rule.
LEMMA SameButForScores ==
    ASSUME NEW f \in Facts, NEW g \in Facts, Hashed(f) = Hashed(g),
           f.surface = "plain", g.surface = "plain"
    PROVE  f = [g EXCEPT !.risk = f.risk, !.value = f.value]
<1>1. [f EXCEPT !.risk = 0, !.value = TRUE] = [g EXCEPT !.risk = 0, !.value = TRUE]
  BY DEF Hashed
<1> QED
  BY <1>1 DEF Facts

\* Answers come from analyses.
LEMMA AnsweredStep ==
    ASSUME PipelineTypes, Funnelled, Answered, [PipelineNext]_pipeline_vars
    PROVE  Answered'
<1>0. facts' = facts /\ sourced' = sourced
  BY FactsStay
<1>1. ASSUME NEW c \in Cand, cand'[c].eligible = cand[c].eligible
      PROVE  Sliced(c)' = Sliced(c)
  BY <1>0, <1>1 DEF Sliced
<1>2. CASE Funnel
  <2>1. stage = "funnel" /\ stage' = "ai"
    BY <1>2 DEF Funnel
  <2>2. ASSUME NEW c \in Cand
        PROVE  /\ ~cand'[c].analysed
               /\ cand'[c].answer.status \in {"rule_only", "ai_budget_deferred"}
               /\ cand'[c].answer.verdict = "unresolved" /\ ~cand'[c].answer.answered
    <3>1. /\ ~cand[c].analysed /\ cand[c].answer.verdict = "unresolved"
          /\ ~cand[c].answer.answered
          /\ cand[c].answer.status \in {"rule_only", "ai_budget_deferred"}
      BY <2>1 DEF Answered, Status
    <3>2. /\ cand[c].answer \in AnswerRecord(Statuses)
          /\ "ai_budget_deferred" \in Statuses
      BY WrittenFields DEF PipelineTypes, Statuses
    <3> QED
      <4>1. PICK a : a = [cand[c].answer EXCEPT !.status = "ai_budget_deferred"]
        OBVIOUS
      <4>2. /\ a.status = "ai_budget_deferred" /\ a.verdict = cand[c].answer.verdict
            /\ a.answered = cand[c].answer.answered
        BY <3>2, <4>1, StatusEdit
      <4>3. cand'[c].answer \in {cand[c].answer, a} /\ cand'[c].analysed = cand[c].analysed
        BY <1>2, <4>1, FunnelEffect
      <4> QED
        BY <3>1, <4>2, <4>3
  <2> QED
    BY <2>1, <2>2 DEF Answered, Status, Unfinished
<1>3. ASSUME NEW d \in Cand, Analyse(d) PROVE Answered'
  <2>1. stage = "ai" /\ stage' = "ai" /\ sourced /\ Sliced(d)
    BY <1>3 DEF Analyse
  <2>2. cand'[d].answer.status \in Unfinished \cup {"ai_completed"}
    BY <1>3, AnalyseEffect, FindingPipelineAssumption DEF AnswerRecord
  <2>3. cand'[d].answer.verdict # "unresolved" => cand'[d].answer.answered
    BY <1>3, AnalyseEffect, FindingPipelineAssumption
  <2>4. \A c \in Cand : c # d => cand'[c] = cand[c]
    BY <1>3, AnalyseEffect
  <2>5. cand'[d].analysed /\ cand'[d].eligible = cand[d].eligible
    BY <1>3, AnalyseEffect
  <2>6. \A c \in Cand : Sliced(c)' = Sliced(c)
    BY <1>1, <2>4, <2>5
  <2> QED
    BY <1>0, <2>1, <2>2, <2>3, <2>4, <2>5, <2>6 DEF Answered, Status, Unfinished
<1>4. CASE Unavailable
  <2>1. stage = "ai" /\ stage' = "ai" /\ \A c \in Cand : ~cand[c].analysed
    BY <1>4 DEF Unavailable
  <2>2. \A c \in Cand : cand[c].answer.verdict = "unresolved" /\ ~cand[c].answer.answered
    BY <2>1 DEF Answered
  <2>3. ASSUME NEW c \in Cand
        PROVE  /\ cand'[c].answer.verdict = "unresolved" /\ ~cand'[c].answer.answered
               /\ cand'[c].analysed => /\ Sliced(c)'
                                       /\ Status(c)' \in Unfinished \cup {"ai_completed"}
                                       /\ ~sourced => Status(c)' = "ai_skipped"
               /\ ~cand'[c].analysed => Status(c)' \in {"rule_only", "ai_budget_deferred"}
    <3>1. CASE Sliced(c)
      <4>1. Sliced(c)'
        BY <1>1, <1>4, <3>1, UnavailableEffect
      <4> QED
        BY <1>4, <2>2, <3>1, <4>1, UnavailableEffect DEF Status, Unfinished
    <3>2. CASE ~Sliced(c)
      BY <1>4, <2>1, <2>2, <3>2, UnavailableEffect DEF Answered, Status
    <3> QED
      BY <3>1, <3>2
  <2> QED
    BY <1>0, <2>1, <2>3 DEF Answered, Unfinished
<1>5. CASE Propagate
  <2>1. /\ stage = "ai" /\ stage' = "decision"
        /\ \A c \in Cand : Sliced(c) => cand[c].analysed
    BY <1>5 DEF Propagate
  <2>2. ASSUME NEW c \in Cand
        PROVE  /\ cand'[c].analysed => /\ Sliced(c)'
                                       /\ Status(c)' \in Unfinished \cup {"ai_completed"}
                                       /\ ~sourced => Status(c)' = "ai_skipped"
               /\ cand'[c].answer.answered => cand'[c].analysed
               /\ cand'[c].answer.verdict # "unresolved" => cand'[c].answer.answered
               /\ Sliced(c)' => cand'[c].analysed
               /\ Status(c)' \in Unfinished \cup {"ai_completed"} /\ ~cand'[c].analysed =>
                    SkippedWith(c, cand[c].rep)'
    <3>1. /\ Sliced(c)' = Sliced(c) /\ cand'[c].rep = cand[c].rep
          /\ cand'[c].analysed = cand[c].analysed
      BY <1>1, <1>5, PropagateEffect
    <3>2. ASSUME NEW r \in Cand, Shares(r, c)
          PROVE  /\ ~cand'[c].analysed /\ ~cand'[c].answer.answered /\ ~Sliced(c)
                 /\ cand'[c].answer.verdict = "unresolved"
                 /\ Status(c)' \in Unfinished \cup {"ai_completed"} =>
                      SkippedWith(c, cand[c].rep)'
      <4>1. r = Representative(c) /\ r # c /\ r = cand[c].rep
        BY <2>1, <3>2 DEF Shares, Funnelled
      <4>2. cand[r].rep = r
        BY <2>1, <4>1, GroupHasOneRepresentative DEF Funnelled
      <4>3. cand'[r] = cand[r]
        BY <1>5, <4>2, PropagateEffect DEF Shares
      <4>4. cand'[c].answer = cand[r].answer /\ Status(c)' = Status(r)
        BY <1>5, <3>2, PropagateEffect DEF Status
      <4>5. AddedFields(r) = {}
        BY <3>2 DEF Shares, Compatible, Identity
      <4>6. ~cand[r].answer.answered /\ ~(sourced /\ Sliced(r))
        BY <4>5 DEF AddedFields
      <4>7. ~Sliced(c)
        BY <2>1, <4>1 DEF Sliced, Funnelled
      <4>8. ~cand[c].analysed
        BY <4>7 DEF Answered
      <4>9. ASSUME Status(r) \in Unfinished \cup {"ai_completed"}
            PROVE  SkippedWith(c, r)'
        <5>1. cand[r].analysed
          BY <2>1, <4>9 DEF Answered, Unfinished
        <5>2. ~sourced /\ Status(r) = "ai_skipped"
          BY <4>6, <5>1 DEF Answered
        <5>3. facts[r] = [facts[c] EXCEPT !.risk = facts[r].risk, !.value = facts[r].value]
          <6>1. Hashed(facts[r]) = Hashed(facts[c])
            BY <4>1, GroupHasOneRepresentative
          <6>2. /\ facts[r] \in Facts /\ facts[r].surface = "plain"
                /\ facts[c] \in Facts /\ facts[c].surface = "plain"
            BY <5>2 DEF PipelineTypes
          <6> QED
            BY <6>1, <6>2, SameButForScores
        <5> QED
          BY <1>0, <4>1, <4>3, <4>4, <5>1, <5>2, <5>3 DEF SkippedWith
      <4>10. SkippedWith(c, cand[c].rep)' = SkippedWith(c, r)'
        BY <3>1, <4>1
      <4> QED
        BY <3>1, <4>4, <4>6, <4>7, <4>8, <4>9, <4>10 DEF Answered
    <3>3. CASE \A r \in Cand : ~Shares(r, c)
      <4>1. cand'[c] = cand[c]
        BY <1>5, <3>3, PropagateEffect
      <4>2. Status(c)' = Status(c)
        BY <4>1 DEF Status
      <4>3. ~(Status(c) \in Unfinished \cup {"ai_completed"} /\ ~cand[c].analysed)
        BY <2>1 DEF Answered, Unfinished
      <4> QED
        BY <2>1, <3>1, <4>1, <4>2, <4>3 DEF Answered
    <3> QED
      BY <2>1, <3>1, <3>2, <3>3
  <2> QED
    BY <1>0, <2>1, <2>2 DEF Answered
<1>6. ASSUME stage \in {"decision", "aggregation"}, stage' \in {"aggregation", "done"},
             \A c \in Cand : /\ cand'[c].answer = cand[c].answer
                             /\ cand'[c].analysed = cand[c].analysed
                             /\ cand'[c].eligible = cand[c].eligible
                             /\ cand'[c].rep = cand[c].rep
      PROVE  Answered'
  <2>1. \A c \in Cand : Sliced(c)' = Sliced(c) /\ Status(c)' = Status(c)
    BY <1>1, <1>6 DEF Status
  <2>2. ASSUME NEW c \in Cand, SkippedWith(c, cand[c].rep)
        PROVE  SkippedWith(c, cand[c].rep)'
    <3>1. cand[c].rep \in Cand
      BY WrittenFields DEF PipelineTypes
    <3> QED
      BY <1>0, <1>6, <2>1, <2>2, <3>1 DEF SkippedWith
  <2> QED
    BY <1>0, <1>6, <2>1, <2>2 DEF Answered
<1>7. CASE Decide
  BY <1>6, <1>7, DecideEffect DEF Decide
<1>8. CASE Aggregate
  BY <1>6, <1>8 DEF Aggregate
<1>9. CASE UNCHANGED pipeline_vars
  BY <1>9 DEF pipeline_vars, Answered, Status, Sliced, SkippedWith
<1> QED
  BY <1>2, <1>3, <1>4, <1>5, <1>7, <1>8, <1>9 DEF PipelineNext

\* What a decision is made of does not change with what it writes.
LEMMA SameAnswers ==
    ASSUME facts' = facts, partial' = partial,
           \A c \in Cand : cand'[c].answer = cand[c].answer /\ cand'[c].needs = cand[c].needs
    PROVE  \A c \in Cand : /\ Sinks(c)' = Sinks(c)
                           /\ Decision(c)' = Decision(c)
                           /\ ReviewState(c)' = ReviewState(c)
<1>1. \A c \in Cand : Status(c)' = Status(c)
  BY DEF Status
<1>2. \A c \in Cand : Gaps(c)' = Gaps(c)
  BY <1>1 DEF Gaps
<1>3. \A c \in Cand : AffectPositive(c)' = AffectPositive(c)
  BY <1>2 DEF AffectPositive
<1>4. RunGap' = RunGap
  BY <1>1 DEF RunGap
<1>5. \A c \in Cand : \A claim : CoverageAllows(c, claim)' = CoverageAllows(c, claim)
  BY <1>2, <1>3, <1>4 DEF CoverageAllows
<1>6. \A c \in Cand : \A claim : CoverageAllowsJoint(c, claim)' = CoverageAllowsJoint(c, claim)
  BY <1>2, <1>5 DEF CoverageAllowsJoint
<1>7. \A c \in Cand : Sinks(c)' = Sinks(c)
  BY DEF Sinks
<1>8. \A c \in Cand : AIGaps(c)' = AIGaps(c)
  BY <1>1 DEF AIGaps
<1>9. \A c \in Cand : BlockingGap(c)' = BlockingGap(c)
  BY <1>7, <1>8 DEF BlockingGap
<1>10. \A c \in Cand : SDKRefutation(c)' = SDKRefutation(c)
  BY <1>7 DEF SDKRefutation
<1>11. \A c \in Cand : ApplicableCriticalGap(c)' = ApplicableCriticalGap(c)
  BY <1>6, <1>8, <1>10 DEF ApplicableCriticalGap
<1>12. \A c \in Cand : Applicable(c)' = Applicable(c)
  BY <1>1 DEF Applicable
<1>13. \A c \in Cand : \A lenient : ContractFails(c, lenient)' = ContractFails(c, lenient)
  BY <1>1, <1>11, <1>12 DEF ContractFails
<1>14. \A c \in Cand : CrossValidated(c)' = CrossValidated(c)
  BY <1>5 DEF CrossValidated
<1>15. \A c \in Cand : Basis(c)' = Basis(c)
  BY <1>5, <1>7, <1>14 DEF Basis
<1>16. \A c \in Cand : StrongSupport(c)' = StrongSupport(c) /\ LikelyFalse(c)' = LikelyFalse(c)
  BY <1>9 DEF StrongSupport, LikelyFalse
<1>17. \A c \in Cand : Decision(c)' = Decision(c)
  BY <1>13, <1>15, <1>16 DEF Decision
<1>18. \A c \in Cand : StillRequired(c)' = StillRequired(c)
  BY <1>1 DEF StillRequired
<1>19. \A c \in Cand : ReviewState(c)' = ReviewState(c)
  BY <1>13, <1>17, <1>18 DEF ReviewState
<1> QED
  BY <1>7, <1>17, <1>19

LEMMA JudgedStep ==
    ASSUME PipelineTypes, JudgedRight, [PipelineNext]_pipeline_vars
    PROVE  JudgedRight'
<1>0. facts' = facts /\ partial' = partial
  BY FactsStay
<1>1. ASSUME ~Judged', \A c \in Cand : cand'[c].level = cand[c].level
      PROVE  JudgedRight'
  BY <1>0, <1>1 DEF JudgedRight
<1>2. CASE Funnel
  BY <1>1, <1>2, FunnelEffect DEF Funnel, Judged
<1>3. ASSUME NEW d \in Cand, Analyse(d) PROVE JudgedRight'
  BY <1>1, <1>3, AnalyseEffect DEF Analyse, Judged
<1>4. CASE Unavailable \/ Propagate
  BY <1>1, <1>4, UnavailableEffect, PropagateEffect DEF Unavailable, Propagate, Judged
<1>5. CASE Decide
  <2>1. \A c \in Cand : /\ Sinks(c)' = Sinks(c)
                        /\ Decision(c)' = Decision(c)
                        /\ ReviewState(c)' = ReviewState(c)
    BY <1>0, <1>5, DecideEffect, SameAnswers
  <2>2. \A c \in Cand : Promoted(c) => facts[c].level = "L2"
    BY DEF Promoted
  <2> QED
    BY <1>0, <1>5, <2>1, <2>2, DecideEffect DEF JudgedRight
<1>6. CASE Aggregate \/ UNCHANGED pipeline_vars
  <2>1. cand' = cand /\ (Judged' => Judged)
    BY <1>6 DEF Aggregate, pipeline_vars, Judged
  <2>2. \A c \in Cand : /\ Sinks(c)' = Sinks(c)
                        /\ Decision(c)' = Decision(c)
                        /\ ReviewState(c)' = ReviewState(c)
    BY <1>0, <2>1, SameAnswers
  <2> QED
    BY <1>0, <2>1, <2>2 DEF JudgedRight
<1> QED
  BY <1>1, <1>2, <1>3, <1>4, <1>5, <1>6 DEF PipelineNext
-----------------------------------------------------------------------------
\* The findings.

LEMMA FirstOfThree ==
    ASSUME NEW a, NEW b, NEW d, NEW S, NEW e
    PROVE  FirstOf(<<a, b, d>>, S, e) =
             IF a \in S THEN a ELSE IF b \in S THEN b ELSE IF d \in S THEN d ELSE e
<1> DEFINE order == <<a, b, d>>
           First(i) == order[i] \in S /\ \A j \in 1..(i - 1) : order[j] \notin S
<1>1. DOMAIN order = 1..3 /\ order[1] = a /\ order[2] = b /\ order[3] = d
  OBVIOUS
<1>2. \A i \in 1..3 : i = 1 \/ i = 2 \/ i = 3
  OBVIOUS
<1>3. CASE \E i \in 1..3 : order[i] \in S
  <2>1. PICK k \in 1..3 : k = CHOOSE i \in DOMAIN order : First(i)
    <3>1. \E i \in DOMAIN order : First(i)
      <4>1. CASE a \in S
        <5>1. First(1)
          BY <1>1, <4>1
        <5> QED
          BY <1>1, <5>1
      <4>2. CASE a \notin S /\ b \in S
        <5>1. First(2)
          BY <1>1, <4>2
        <5> QED
          BY <1>1, <5>1
      <4>3. CASE a \notin S /\ b \notin S
        <5>1. First(3)
          BY <1>1, <1>2, <1>3, <4>3
        <5> QED
          BY <1>1, <5>1
      <4> QED
        BY <4>1, <4>2, <4>3
    <3> QED
      BY <1>1, <3>1
  <2>2. First(k)
    <3>1. \E i \in DOMAIN order : First(i)
      <4>1. CASE a \in S
        BY <1>1, <4>1
      <4>2. CASE a \notin S /\ b \in S
        <5>1. First(2)
          BY <1>1, <4>2
        <5> QED
          BY <1>1, <5>1
      <4>3. CASE a \notin S /\ b \notin S
        <5>1. First(3)
          BY <1>1, <1>2, <1>3, <4>3
        <5> QED
          BY <1>1, <5>1
      <4> QED
        BY <4>1, <4>2, <4>3
    <3> HIDE DEF First
    <3> QED
      BY <2>1, <3>1
  <2>3. FirstOf(<<a, b, d>>, S, e) = order[k]
    BY <1>1, <1>3, <2>1 DEF FirstOf
  <2>4. order[k] = IF a \in S THEN a ELSE IF b \in S THEN b ELSE d
    BY <1>1, <1>2, <2>2
  <2>5. order[k] \in S
    BY <2>2
  <2> QED
    BY <1>1, <1>2, <1>3, <2>3, <2>4, <2>5
<1>4. CASE ~ \E i \in 1..3 : order[i] \in S
  BY <1>1, <1>4 DEF FirstOf
<1> QED
  BY <1>3, <1>4

\* What the AI refuted was asked, answered in full and confirmed.
LEMMA DismissalIsEarned ==
    ASSUME Answered, Funnelled, stage # "funnel",
           NEW c \in Cand, Decision(c) = "ai_false_positive"
    PROVE  /\ Status(c) = "ai_completed"
           /\ cand[c].answer.verdict = "refutes" /\ cand[c].answer.refs = "valid"
           /\ \/ RefutedBy(facts[c], Sinks(c)) # {}
              \/ cand[c].answer.claim /\ facts[c].confirms
<1>1. ~ContractFails(c, FALSE) /\ cand[c].answer.verdict = "refutes" /\ Basis(c) # {}
  BY DEF Decision
<1>2. cand[c].analysed /\ cand[c].eligible /\ Status(c) # "rule_only"
  BY <1>1 DEF Answered, Unfinished, Sliced
<1>3. cand[c].needs
  BY <1>2 DEF Funnelled
<1>4. Status(c) = "ai_completed" /\ cand[c].answer.refs = "valid"
  BY <1>1, <1>2, <1>3 DEF ContractFails, Applicable
<1>5. RefutedBy(facts[c], Sinks(c)) # {} \/ CrossValidated(c)
  BY <1>1 DEF Basis
<1> QED
  BY <1>1, <1>4, <1>5 DEF CrossValidated

LEMMA WaitingWaits ==
    ASSUME Answered, Funnelled, JudgedRight, stage = "aggregation",
           NEW c \in Cand, ~facts[c].aux, Waiting(c)
    PROVE  cand[c].review = "pending_ai"
<1>1. Needs(facts[c]) /\ Status(c) # "ai_completed" /\ ~facts[c].blocked
  BY DEF Waiting, Needs, RequiresAI
<1>2. c \in Group(c)
  BY DEF Group
<1>3. GroupNeeds(c)
  BY <1>1, <1>2 DEF GroupNeeds
<1>4. cand[c].needs
  BY <1>1, <1>3 DEF Funnelled
<1>5. StillRequired(c) /\ Decision(c) # "ai_false_positive"
  BY <1>1, <1>4, DismissalIsEarned DEF StillRequired
<1> QED
  BY <1>5 DEF JudgedRight, Judged, ReviewState

\* aggregate_review_states.
LEMMA ReviewOfFinding ==
    ASSUME PipelineTypes, Answered, Funnelled, JudgedRight, stage = "aggregation",
           NEW chain, NEW c \in Members(chain)
    PROVE  /\ Waiting(c) => AggregatedReview(Members(chain)) = "pending_ai"
           /\ AggregatedReview(Members(chain)) = "ai_false_positive" =>
                Decision(c) = "ai_false_positive"
<1> DEFINE S == {cand[d].review : d \in Members(chain)}
<1>1. c \in Cand /\ ~facts[c].aux /\ cand[c].review \in S
  BY DEF Members
<1>2. AggregatedReview(Members(chain)) =
        IF "pending_ai" \in S THEN "pending_ai"
        ELSE IF "pending_manual" \in S THEN "pending_manual"
        ELSE IF "ai_false_positive" \in S THEN "ai_false_positive" ELSE "pending_manual"
  <2>1. PICK T : T = {cand[d].review : d \in Members(chain)}
    OBVIOUS
  <2>2. FirstOf(<<"pending_ai", "pending_manual", "ai_false_positive">>, T, "pending_manual") =
          IF "pending_ai" \in T THEN "pending_ai"
          ELSE IF "pending_manual" \in T THEN "pending_manual"
          ELSE IF "ai_false_positive" \in T THEN "ai_false_positive" ELSE "pending_manual"
    BY FirstOfThree
  <2> QED
    BY <2>1, <2>2 DEF AggregatedReview
<1>3. cand[c].review = ReviewState(c)
  BY <1>1 DEF JudgedRight, Judged
<1>4. Waiting(c) => "pending_ai" \in S
  BY <1>1, WaitingWaits
<1>5. AggregatedReview(Members(chain)) = "ai_false_positive" =>
        ReviewState(c) \notin {"pending_ai", "pending_manual"}
  BY <1>1, <1>2, <1>3
<1>6. ReviewState(c) \notin {"pending_ai", "pending_manual"} =>
        Decision(c) = "ai_false_positive"
  BY DEF ReviewState
<1> QED
  BY <1>2, <1>4, <1>5, <1>6

\* The conditions of determine_severity.
LEMMA GradeOfFinding ==
    ASSUME PipelineTypes, JudgedRight, NEW chain, Members(chain) # {},
           Severity(Members(chain), Primary(Members(chain))) = "graded"
    PROVE  /\ facts[Primary(Members(chain))].flow
           /\ facts[Primary(Members(chain))].level = "L2"
           /\ \E c \in Members(chain) : facts[c].auth = "unprotected"
           /\ \A c \in Members(chain) :
                /\ facts[c].gap = "none" /\ facts[c].cover = "full" /\ facts[c].sink = "found"
                /\ Status(c) \in Unfinished => facts[c].proven /\ Status(c) # "ai_incomplete"
<1> DEFINE M == Members(chain)
           p == Primary(M)
<1>1. M \subseteq Cand /\ p \in Cand
  BY PrimaryIsMember DEF Members
<1>2. /\ cand[p].level # "L1" /\ ~(\E c \in M : CriticalGap(c)) /\ facts[p].flow
      /\ Authorization(M) \notin {"protected", "unknown"}
  <2> HIDE DEF p, M
  <2> QED
    BY Severity(M, p) = "graded" DEF Severity, p, M
<1>3. facts[p].level = "L2"
  BY <1>1, <1>2 DEF JudgedRight, PipelineTypes, Facts
<1>4. \E c \in M : facts[c].auth = "unprotected"
  <2> DEFINE S == {facts[c].auth : c \in M}
  <2>1. Authorization(M) = IF "unprotected" \in S THEN "unprotected"
                           ELSE IF "unknown" \in S THEN "unknown"
                           ELSE IF "protected" \in S THEN "protected" ELSE "unknown"
    <3>1. PICK T : T = {facts[c].auth : c \in M}
      OBVIOUS
    <3>2. FirstOf(<<"unprotected", "unknown", "protected">>, T, "unknown") =
            IF "unprotected" \in T THEN "unprotected"
            ELSE IF "unknown" \in T THEN "unknown"
            ELSE IF "protected" \in T THEN "protected" ELSE "unknown"
      BY FirstOfThree
    <3> QED
      BY <3>1, <3>2 DEF Authorization
  <2>2. "unprotected" \in S
    BY <1>2, <2>1
  <2> QED
    BY <2>2
<1>5. ASSUME NEW c \in M
      PROVE  /\ facts[c].gap = "none" /\ facts[c].cover = "full" /\ facts[c].sink = "found"
             /\ Status(c) \in Unfinished => facts[c].proven /\ Status(c) # "ai_incomplete"
  <2>1. facts[c] \in Facts
    BY <1>1 DEF PipelineTypes
  <2>2. facts[c].gap = "none" /\ Sinks(c) /\ AIGaps(c) = {} /\ AffectPositive(c) = {}
    BY <1>2 DEF CriticalGap, BlockingGap
  <2>3. facts[c].cover = "full"
    <3>1. facts[c].cover \in {"full", "limit", "hole"}
      BY <2>1 DEF Facts
    <3> QED
      BY <2>2, <3>1 DEF AffectPositive, Gaps
  <2>4. Status(c) \in Unfinished => facts[c].proven /\ Status(c) # "ai_incomplete"
    BY <2>2 DEF AIGaps, Unfinished
  <2> QED
    BY <2>2, <2>3, <2>4 DEF Sinks
<1> QED
  BY <1>2, <1>3, <1>4, <1>5
-----------------------------------------------------------------------------
\* The last stage, and the invariant.

\* aggregate_candidates: only it makes findings, and what it writes of one
\* finding is what the lemmas above say.
LEMMA AggregateEffect ==
    ASSUME Aggregate, NEW f \in findings'
    PROVE  \E chain : /\ Members(chain) # {} /\ f.members = Members(chain)
                      /\ f.primary = Primary(Members(chain))
                      /\ f.status = AggregatedReview(Members(chain))
                      /\ f.severity = Severity(Members(chain), Primary(Members(chain)))
<1>1. PICK M \in {Members(facts[c].chain) : c \in Cand} \ {{}} :
        f = [members |-> M, primary |-> Primary(M), status |-> AggregatedReview(M),
             severity |-> Severity(M, Primary(M))]
  BY DEF Aggregate
<1>2. PICK c \in Cand : M = Members(facts[c].chain)
  BY <1>1
<1>3. PICK chain : chain = facts[c].chain
  OBVIOUS
<1> QED
  BY <1>1, <1>2, <1>3

LEMMA FindingsStep ==
    ASSUME PipelineTypes, Funnelled, Answered, JudgedRight, Nothing,
           StatusIsEarned, GradeNeedsProof, [PipelineNext]_pipeline_vars
    PROVE  Nothing' /\ StatusIsEarned' /\ GradeNeedsProof'
<1>1. ASSUME stage' # "done", findings' = findings, stage # "done"
      PROVE  Nothing' /\ StatusIsEarned' /\ GradeNeedsProof'
  BY <1>1 DEF Nothing, StatusIsEarned, GradeNeedsProof
<1>2. CASE Funnel \/ (\E c \in Cand : Analyse(c)) \/ Unavailable \/ Propagate \/ Decide
  BY <1>1, <1>2 DEF Funnel, Analyse, Unavailable, Propagate, Decide
<1>3. CASE Aggregate
  <2>0. stage = "aggregation" /\ stage' = "done" /\ cand' = cand /\ facts' = facts
    BY <1>3 DEF Aggregate
  <2>1. ASSUME NEW f \in findings'
        PROVE  /\ \A c \in f.members :
                    /\ Waiting(c) => f.status = "pending_ai"
                    /\ f.status = "ai_false_positive" =>
                         /\ Status(c) = "ai_completed"
                         /\ cand[c].answer.verdict = "refutes"
                         /\ cand[c].answer.refs = "valid"
                         /\ \/ RefutedBy(facts[c], cand[c].sinks) # {}
                            \/ cand[c].answer.claim /\ facts[c].confirms
               /\ f.severity = "graded" =>
                    /\ facts[f.primary].flow /\ facts[f.primary].level = "L2"
                    /\ \E c \in f.members : facts[c].auth = "unprotected"
                    /\ \A c \in f.members :
                         /\ facts[c].gap = "none" /\ facts[c].cover = "full"
                         /\ facts[c].sink = "found"
                         /\ Status(c) \in Unfinished =>
                              facts[c].proven /\ Status(c) # "ai_incomplete"
    <3>1. PICK chain : /\ Members(chain) # {} /\ f.members = Members(chain)
                       /\ f.primary = Primary(Members(chain))
                       /\ f.status = AggregatedReview(Members(chain))
                       /\ f.severity = Severity(Members(chain), Primary(Members(chain)))
      BY <1>3, AggregateEffect
    <3>2. ASSUME NEW c \in Members(chain)
          PROVE  /\ Waiting(c) => f.status = "pending_ai"
                 /\ f.status = "ai_false_positive" =>
                      /\ Status(c) = "ai_completed"
                      /\ cand[c].answer.verdict = "refutes"
                      /\ cand[c].answer.refs = "valid"
                      /\ \/ RefutedBy(facts[c], cand[c].sinks) # {}
                         \/ cand[c].answer.claim /\ facts[c].confirms
      <4>1. c \in Cand
        BY DEF Members
      <4>2. cand[c].sinks = Sinks(c)
        BY <2>0, <4>1 DEF JudgedRight, Judged
      <4>3. /\ Waiting(c) => f.status = "pending_ai"
            /\ f.status = "ai_false_positive" => Decision(c) = "ai_false_positive"
        BY <2>0, <3>1, ReviewOfFinding
      <4> QED
        BY <2>0, <4>1, <4>2, <4>3, DismissalIsEarned
    <3>3. f.severity = "graded" =>
            /\ facts[f.primary].flow /\ facts[f.primary].level = "L2"
            /\ \E c \in f.members : facts[c].auth = "unprotected"
            /\ \A c \in f.members :
                 /\ facts[c].gap = "none" /\ facts[c].cover = "full"
                 /\ facts[c].sink = "found"
                 /\ Status(c) \in Unfinished => facts[c].proven /\ Status(c) # "ai_incomplete"
      <4>1. PICK M : M = Members(chain)
        OBVIOUS
      <4>2. Severity(M, Primary(M)) = "graded" =>
              /\ facts[Primary(M)].flow /\ facts[Primary(M)].level = "L2"
              /\ \E c \in M : facts[c].auth = "unprotected"
              /\ \A c \in M :
                   /\ facts[c].gap = "none" /\ facts[c].cover = "full"
                   /\ facts[c].sink = "found"
                   /\ Status(c) \in Unfinished =>
                        facts[c].proven /\ Status(c) # "ai_incomplete"
        BY <3>1, <4>1, GradeOfFinding
      <4> QED
        BY <3>1, <4>1, <4>2
    <3> QED
      BY <3>1, <3>2, <3>3
  <2>2. \A c : Status(c)' = Status(c) /\ Waiting(c)' = Waiting(c)
    BY <2>0 DEF Status, Waiting
  <2>3. StatusIsEarned'
    BY <2>0, <2>1, <2>2 DEF StatusIsEarned
  <2>4. GradeNeedsProof'
    BY <2>0, <2>1, <2>2 DEF GradeNeedsProof
  <2> QED
    BY <2>0, <2>3, <2>4 DEF Nothing
<1>4. CASE UNCHANGED pipeline_vars
  BY <1>4 DEF pipeline_vars, Nothing, StatusIsEarned, GradeNeedsProof, Waiting, Status
<1> QED
  BY <1>2, <1>3, <1>4 DEF PipelineNext

LEMMA PipelineInvInit ==
    ASSUME PipelineInit
    PROVE  PipelineInv
<1>1. facts \in [Cand -> Facts]
  BY FindingPipelineAssumption DEF PipelineInit
<1>2. ASSUME NEW c \in Cand
      PROVE  /\ cand[c] \in Written /\ cand[c].level = facts[c].level
             /\ ~cand[c].analysed /\ cand[c].answer = NoAnswer
  <2>1. cand[c] = Fresh(c)
    BY DEF PipelineInit
  <2>2. facts[c].level \in {"L1", "L2"}
    BY <1>1 DEF Facts
  <2>3. NoAnswer \in AnswerRecord(Statuses)
    BY DEF NoAnswer, AnswerRecord, Statuses
  <2>4. cand[c].answer = NoAnswer
    BY <2>1 DEF Fresh
  <2>5. cand[c] \in Written
    <3> HIDE DEF NoAnswer
    <3>1. PICK l : l = facts[c].level
      OBVIOUS
    <3> QED
      BY <2>1, <2>2, <2>3, <3>1 DEF Fresh, Written
  <2> QED
    BY <2>1, <2>4, <2>5 DEF Fresh
<1>3. /\ NoAnswer.status = "rule_only" /\ NoAnswer.verdict = "unresolved"
      /\ ~NoAnswer.answered
  BY DEF NoAnswer
<1>4. stage = "funnel" /\ findings = {}
  BY DEF PipelineInit
<1>5. PipelineTypes
  BY <1>1, <1>2 DEF PipelineInit, PipelineTypes, OfTheManifest
<1>6. Answered
  BY <1>2, <1>3, <1>4 DEF Answered, Status, Unfinished
<1>7. JudgedRight
  BY <1>2, <1>4 DEF JudgedRight, Judged
<1> QED
  BY <1>4, <1>5, <1>6, <1>7
     DEF PipelineInv, Funnelled, Nothing, StatusIsEarned, GradeNeedsProof

LEMMA PipelineInvStep ==
    ASSUME PipelineInv, [PipelineNext]_pipeline_vars
    PROVE  PipelineInv'
BY PipelineTypesStep, FunnelledStep, AnsweredStep, JudgedStep, FindingsStep DEF PipelineInv

\* The inductive invariant: what the funnel decided, where every answer comes
\* from, and that what the decision wrote is what the facts and the answer say.
THEOREM PipelineInvariance == PipelineSpec => []PipelineInv
<1>1. PipelineInit => PipelineInv
  BY PipelineInvInit
<1>2. PipelineInv /\ [PipelineNext]_pipeline_vars => PipelineInv'
  BY PipelineInvStep
<1> QED
  BY <1>1, <1>2, PTL DEF PipelineSpec

\* Every field of a candidate has a value that _apply_ai_analysis, the funnel
\* or the decision may write.
THEOREM PipelineTypeCorrect == PipelineSpec => []PipelineTypes
<1>1. PipelineInv => PipelineTypes
  BY DEF PipelineInv
<1> QED
  BY <1>1, PipelineInvariance, PTL

\* aggregate_review_states closes a finding only on what each member earned,
\* and keeps it open while one of them waits.
THEOREM FindingsAreEarned == PipelineSpec => []StatusIsEarned
<1>1. PipelineInv => StatusIsEarned
  BY DEF PipelineInv
<1> QED
  BY <1>1, PipelineInvariance, PTL

\* determine_severity grades what is proven and complete only.
THEOREM GradesAreProven == PipelineSpec => []GradeNeedsProof
<1>1. PipelineInv => GradeNeedsProof
  BY DEF PipelineInv
<1> QED
  BY <1>1, PipelineInvariance, PTL

\* coverage_allows: a gap of the run stands against every negative proof.
LEMMA GapStopsDismissal ==
    ASSUME NEW c \in Cand, RunGap,
           Decision(c) \in {"ai_false_positive", "deterministically_refuted"}
    PROVE  facts[c].basis = "sdk"
<1>1. ~CoverageAllows(c, "negative")
  BY DEF CoverageAllows
<1>2. Basis(c) = RefutedBy(facts[c], Sinks(c)) \cap {"sdk"}
  BY <1>1 DEF Basis, CrossValidated
<1>3. Basis(c) # {}
  BY DEF Decision
<1> QED
  BY <1>2, <1>3 DEF RefutedBy

\* No candidate is written off by a run that is incomplete, whatever the AI
\* and the rules say, except for a broadcast inside the process.
THEOREM PartialRunsDismissNothing == PipelineSpec => []PartialRunDismissesNothing
<1>1. PipelineInv => PartialRunDismissesNothing
  <2> SUFFICES ASSUME PipelineInv, Judged,
                      partial \/ \E d \in Cand :
                          facts[d].level = "L2" /\ cand[d].answer.status \in Unfinished,
                      NEW c \in Cand,
                      cand[c].decision \in {"ai_false_positive", "deterministically_refuted"}
               PROVE  facts[c].basis = "sdk"
    BY DEF PartialRunDismissesNothing
  <2>1. RunGap
    BY DEF RunGap, Status
  <2>2. cand[c].decision = Decision(c)
    BY DEF PipelineInv, JudgedRight
  <2> QED
    BY <2>1, <2>2, GapStopsDismissal
<1> QED
  BY <1>1, PipelineInvariance, PTL

\* The representative of a candidate that needs the AI is one the funnel
\* counts.
LEMMA RepresentativeCounts ==
    ASSUME PipelineTypes, NEW c \in Cand, Needs(facts[c]), ~facts[c].aux
    PROVE  /\ Representative(c) \in Cand
           /\ facts[Representative(c)].level \in {"L1", "L2"}
           /\ Representative(c) \in Candidates(facts[Representative(c)].level)
<1> DEFINE r == Representative(c)
<1>1. /\ r \in Cand /\ Representative(r) = r /\ c \in Group(r)
      /\ Hashed(facts[r]) = Hashed(facts[c])
  BY GroupHasOneRepresentative
<1> HIDE DEF r
<1>2. facts[c] \in Facts /\ facts[r] \in Facts
  BY <1>1 DEF PipelineTypes
<1>3. ~facts[c].blocked
  BY DEF Needs, RequiresAI
<1>4. GroupNeeds(r)
  BY <1>1, <1>3 DEF GroupNeeds
<1>5. /\ facts[r].aux = facts[c].aux /\ facts[r].blocked = facts[c].blocked
      /\ facts[r].level \in {"L1", "L2"}
  BY <1>1, <1>2, HashedKeeps DEF Facts
<1>6. ~facts[r].aux /\ ~facts[r].blocked /\ facts[r].level \in {"L1", "L2"}
  BY <1>3, <1>5
<1>7. r \in Candidates(facts[r].level)
  BY <1>1, <1>4, <1>6 DEF Candidates
<1> QED
  BY <1>1, <1>6, <1>7 DEF r

\* An L1 that needs the AI is not protected.
LEMMA NeedyIsOpen ==
    ASSUME NEW f \in Facts, Needs(f), f.level = "L1"
    PROVE  f.auth # "protected"
<1>1. Disposition(f) \in {"high_risk_uncertain", "coverage_insufficient"}
  BY DEF Needs, RequiresAI
<1>2. f.source = "rule"
  BY <1>1 DEF Disposition, Facts
<1>3. Precheck(f) # "deterministically_refuted"
  BY <1>1, <1>2 DEF Disposition
<1>4. "strong_permission" \notin RefutedBy(f, TRUE)
  BY <1>3 DEF Precheck
<1> QED
  BY <1>4 DEF RefutedBy

\* The AI is asked about whoever needs it, once for the candidates of one
\* identity, and nobody has the answer that was given about another.
THEOREM WhoNeedsIsAsked == PipelineSpec => []AskedNotLent
<1>1. PipelineInv => AskedNotLent
  <2> SUFFICES ASSUME PipelineInv, NEW c \in Cand, NEW r, r = cand[c].rep
               PROVE  /\ stage \notin {"funnel", "ai"} /\ Needs(facts[c]) /\ ~facts[c].aux =>
                           \/ cand[r].analysed
                           \/ /\ facts[r].level = "L1"
                              /\ \/ Status(r) = "ai_budget_deferred"
                                 \/ Skipped(r) \/ ~facts[r].open
                      /\ Status(c) \in Unfinished \cup {"ai_completed"} /\ ~cand[c].analysed =>
                           SkippedWith(c, r)
    BY DEF AskedNotLent, SkippedWith
  <2> USE DEF PipelineInv
  <2>1. Status(c) \in Unfinished \cup {"ai_completed"} /\ ~cand[c].analysed =>
            SkippedWith(c, r)
    BY DEF Answered
  <2>2. ASSUME stage \notin {"funnel", "ai"}, Needs(facts[c]), ~facts[c].aux
        PROVE  \/ cand[r].analysed
               \/ /\ facts[r].level = "L1"
                  /\ Status(r) = "ai_budget_deferred" \/ Skipped(r) \/ ~facts[r].open
    <3>1. r = Representative(c)
      BY <2>2 DEF Funnelled
    <3>2. r \in Cand /\ facts[r].level \in {"L1", "L2"} /\ r \in Candidates(facts[r].level)
      BY <2>2, <3>1, RepresentativeCounts
    <3>3. Sliced(r) => cand[r].analysed
      BY <2>2, <3>2 DEF Answered
    <3>4. CASE facts[r].level = "L2"
      <4>1. cand[r].eligible
        BY <2>2, <3>2, <3>4 DEF Funnelled
      <4>2. Sliced(r)
        BY <3>4, <4>1 DEF Sliced
      <4> QED
        BY <3>3, <4>2
    <3>5. CASE facts[r].level = "L1"
      <4>1. /\ facts[r].level = facts[c].level /\ facts[r].auth = facts[c].auth
            /\ facts[r].aux = facts[c].aux
        BY <3>1, <3>2, GroupHasOneRepresentative, HashedKeeps DEF PipelineTypes
      <4>2. facts[r].auth # "protected"
        BY <2>2, <3>5, <4>1, NeedyIsOpen DEF PipelineTypes
      <4>3. cand[r].eligible /\ facts[r].open => Sliced(r)
        BY <2>2, <4>1, <4>2 DEF Sliced
      <4>4. Skipped(r) \/ cand[r].eligible \/ Status(r) = "ai_budget_deferred"
        BY <2>2, <3>2, <3>5 DEF Funnelled
      <4> QED
        BY <3>3, <3>5, <4>3, <4>4
    <3> QED
      BY <3>2, <3>4, <3>5
  <2> QED
    BY <2>1, <2>2
<1> QED
  BY <1>1, PipelineInvariance, PTL
-----------------------------------------------------------------------------
(***************************************************************************)
(* The store, for any number of findings, reviewers, report requests, scans *)
(* and kills and any size of a batch.                                       *)
(***************************************************************************)

Rows == [status : ReviewStatus, deleted : BOOLEAN]
Records == [old : ReviewStatus, body : Requests]

Reviewing(r) == rpc[r] \in {"finding", "evidence", "report"}
Reporting(g) == gpc[g] \in {"write", "unmark"}
Scanning == spc \in {"files", "rows", "delete"}
Cleaning == cleaner \in {"findings", "reports", "rows"}

\* What a request has in hand is there as long as it is under way.
Types ==
    /\ row \in [Findings -> {NoRow} \cup Rows]
    /\ history \in [Findings -> Seq(Records)]
    /\ finding_file \in [Findings -> ReviewStatus \cup {NoFile}]
    /\ evidence \in [Findings -> ReviewStatus \cup {NoFile}]
    /\ report \in [Findings -> ReviewStatus \cup {NoFile}]
    /\ marked \in SUBSET Findings
    /\ dirs \in SUBSET {"findings", "reports"}
    /\ rpc \in [Reviewers -> Done \cup {"finding", "evidence", "report"}]
    /\ body \in [Reviewers -> Requests \cup {NoBody}]
    /\ rcopy \in [Reviewers -> ReviewStatus \cup {"none"}]
    /\ \A r \in Reviewers : Reviewing(r) => body[r] \in Requests /\ rcopy[r] \in ReviewStatus
    /\ gpc \in [Reporters -> Done \cup {"write", "unmark"}]
    /\ gcopy \in [Reporters -> (Findings \X ReviewStatus) \cup {<<"none", "none">>}]
    /\ \A g \in Reporters : Reporting(g) => gcopy[g] \in Findings \X ReviewStatus
    /\ spc \in {"idle", "done", "failed", "files", "rows", "delete"}
    /\ scan_no \in 0..Len(Scans)
    /\ at \in Nat \ {0}
    /\ shown \in SUBSET Findings
    /\ cleaner \in Done \cup {"findings", "reports", "rows"}
    /\ crossed \in BOOLEAN
    /\ kills \in Nat

\* What the scan has come to, while nobody clears the run.
ScanInv ==
    /\ spc = "idle" <=> scan_no = 0
    /\ cleaner \in {"failed", "killed"} => kills > 0
    /\ spc = "files" => at = 1
    /\ cleaner = "idle" =>
        /\ dirs = {"findings", "reports"}
        /\ spc \in {"idle", "files"} => Visible = shown
        /\ spc \in {"rows", "delete", "failed"} => shown \cap Found \subseteq Visible
        /\ spc = "rows" => Slice(1, at - 1) \subseteq Visible
        /\ spc = "delete" => Found \subseteq Visible
        /\ spc = "done" => shown = {} /\ Visible = Found

\* As long as nothing crossed anything, there is at most one at work.
Solo ==
    ~crossed =>
        /\ \A r, q \in Reviewers : Reviewing(r) /\ Reviewing(q) => r = q
        /\ \A g, h \in Reporters : Reporting(g) /\ Reporting(h) => g = h
        /\ \A r \in Reviewers : Reviewing(r) => ~Scanning /\ ~Cleaning
        /\ \A g \in Reporters : Reporting(g) => ~Scanning /\ ~Cleaning
        /\ \A r \in Reviewers, g \in Reporters : ~Reviewing(r) \/ ~Reporting(g)
        /\ ~Scanning \/ ~Cleaning

\* What a clear that was alone has removed so far stays away.
Cleared ==
    ~crossed =>
        /\ cleaner \in {"reports", "rows", "done"} =>
             /\ "findings" \notin dirs
             /\ \A f \in Findings : finding_file[f] = NoFile
        /\ cleaner \in {"rows", "done"} =>
             \A f \in Findings : evidence[f] = NoFile /\ report[f] = NoFile
        /\ cleaner = "done" =>
             /\ \A f \in Findings : row[f] = NoRow /\ history[f] = << >>
             /\ \A r \in Reviewers : ~Reviewing(r)
             /\ \A g \in Reporters : ~Reporting(g)
             /\ spc \notin {"rows", "delete"}

\* The files before the first scan is whole.
Unfound(f) == row[f] = NoRow /\ report[f] = NoFile
Prepared(f) ==
    /\ report[f] = NoFile
    /\ row[f] # NoRow => f \in Found /\ row[f].status = "pending_manual"
    /\ f \in Found => finding_file[f] = "pending_manual" /\ evidence[f] = "pending_manual"

\* And after it: a finding nobody reviews has files that follow its row, those
\* of one under review follow as far as the request has come, and a report that
\* is being made is about the row as it is.
Follows(f) ==
    /\ finding_file[f] = row[f].status
    /\ evidence[f] = row[f].status
    /\ report[f] \in {NoFile, row[f].status} \/ f \in marked
ReviewFollows(r) ==
    LET f == body[r].finding IN
    /\ rcopy[r] = row[f].status
    /\ evidence[f] # NoFile
    /\ rpc[r] \in {"evidence", "report"} => finding_file[f] = rcopy[r]
    /\ rpc[r] = "report" => evidence[f] = rcopy[r]
ReportFollows(g) ==
    LET f == gcopy[g][1] IN
    /\ gcopy[g][2] = row[f].status
    /\ gpc[g] = "unmark" => report[f] = row[f].status

\* Nothing overlapped, nobody was killed, and the run is scanned once.
OneByOne == ~crossed /\ kills = 0 /\ scan_no <= 1

NothingFound ==
    /\ \A f \in Findings : Unfound(f)
    /\ \A r \in Reviewers : ~Reviewing(r)
    /\ \A g \in Reporters : ~Reporting(g)
Following ==
    /\ \A f \in Visible :
         (\A r \in Reviewers : Reviewing(r) => body[r].finding # f) => Follows(f)
    /\ \A r \in Reviewers : Reviewing(r) => body[r].finding \in Visible /\ ReviewFollows(r)
    /\ \A g \in Reporters : Reporting(g) => gcopy[g][1] \in Visible /\ ReportFollows(g)

FilesInv ==
    OneByOne =>
        /\ spc \in {"idle", "files", "failed"} => NothingFound
        /\ spc \in {"rows", "delete"} => \A f \in Findings : Prepared(f)
        /\ spc = "done" /\ cleaner = "idle" => Following

IInv == /\ Types
        /\ HistoryIsAChain
        /\ ScanInv
        /\ Solo
        /\ Cleared
        /\ FilesInv
-----------------------------------------------------------------------------
LEMMA FoundIsFound ==
    ASSUME Types, spc # "idle", ScanInv
    PROVE  /\ scan_no \in 1..Len(Scans)
           /\ Scans[scan_no] \in Seq(Findings)
           /\ Found \subseteq Findings
           /\ \A i, j : Slice(i, j) \subseteq Found
<1>1. scan_no \in 1..Len(Scans)
  BY DEF Types, ScanInv
<1>2. Scans[scan_no] \in Seq(Findings)
  BY <1>1, FindingStoreAssumption
<1> QED
  BY <1>1, <1>2 DEF Found, Slice, ToSet

LEMMA RowEdits ==
    ASSUME NEW x \in Rows
    PROVE  /\ \A s \in ReviewStatus :
                /\ [x EXCEPT !.status = s] \in Rows
                /\ [x EXCEPT !.status = s].status = s
                /\ [x EXCEPT !.status = s].deleted = x.deleted
           /\ \A d \in BOOLEAN :
                /\ [x EXCEPT !.deleted = d] \in Rows
                /\ [x EXCEPT !.deleted = d].status = x.status
                /\ [x EXCEPT !.deleted = d].deleted = d
BY DEF Rows

LEMMA RowsAreRows ==
    /\ NoRow \notin Rows
    /\ \A x \in Rows : x.status \in ReviewStatus /\ x.deleted \in BOOLEAN
    /\ [status |-> "pending_manual", deleted |-> FALSE] \in Rows
BY DEF Rows, NoRow, ReviewStatus

LEMMA RequestsAreRequests ==
    ASSUME NEW b \in Requests
    PROVE  b.finding \in Findings /\ b.status \in ReviewStatus
BY FindingStoreAssumption

\* What a recorded review does to the row and to the history.
LEMMA ReviewRowEffect ==
    ASSUME Types, NEW b \in Requests, b.finding \in Visible, Recorded(b) = {}, ReviewRow(b)
    PROVE  /\ row[b.finding] \in Rows
           /\ row' = [row EXCEPT ![b.finding] = [row[b.finding] EXCEPT !.status = b.status]]
           /\ row'[b.finding] \in Rows
           /\ row'[b.finding].status = b.status
           /\ row'[b.finding].deleted = row[b.finding].deleted
           /\ [old |-> row[b.finding].status, body |-> b] \in Records
           /\ history[b.finding] \in Seq(Records)
           /\ history' = [history EXCEPT ![b.finding] =
                            Append(history[b.finding],
                                   [old |-> row[b.finding].status, body |-> b])]
<1>1. b.finding \in Findings /\ b.status \in ReviewStatus
  BY RequestsAreRequests
<1>2. row[b.finding] \in Rows
  BY <1>1 DEF Types, Visible
<1>3. row' = [row EXCEPT ![b.finding] = [row[b.finding] EXCEPT !.status = b.status]]
  BY DEF ReviewRow
<1>4. row'[b.finding] = [row[b.finding] EXCEPT !.status = b.status]
  BY <1>1, <1>3 DEF Types
<1>5. row[b.finding].status \in ReviewStatus
  BY <1>2, RowsAreRows
<1>6. [old |-> row[b.finding].status, body |-> b] \in Records
  BY <1>5 DEF Records
<1>7. history[b.finding] \in Seq(Records)
  BY <1>1 DEF Types
<1>8. history' = [history EXCEPT ![b.finding] =
                    Append(history[b.finding], [old |-> row[b.finding].status, body |-> b])]
  BY DEF ReviewRow
<1>9. /\ row'[b.finding] \in Rows
      /\ row'[b.finding].status = b.status
      /\ row'[b.finding].deleted = row[b.finding].deleted
  BY <1>1, <1>2, <1>4, RowEdits
<1> QED
  BY <1>2, <1>3, <1>6, <1>7, <1>8, <1>9

\* The types.
LEMMA TypesStep ==
    ASSUME Types, ScanInv, [Next]_vars
    PROVE  Types'
<1> USE DEF Done, Reviewing, Reporting
<1>1. ASSUME NEW r \in Reviewers, NEW b \in Requests, Review(r, b) PROVE Types'
  <2>1. b \in [finding : Findings, status : ReviewStatus,
               expected : ReviewStatus \cup {"any"}, id : RequestIds \cup {"none"}]
    BY FindingStoreAssumption
  <2>2. CASE b.finding \notin Visible \/ Rejected(b)
    BY <1>1, <2>2 DEF Review, Types, Crosses, Busy, files, db, reporters, scan
  <2>3. CASE b.finding \in Visible /\ ~Rejected(b)
    <3>1. ReviewRow(b) /\ b.finding \in Findings
      BY <1>1, <2>3, RequestsAreRequests DEF Review
    <3>2. /\ row' \in [Findings -> {NoRow} \cup Rows]
          /\ history' \in [Findings -> Seq(Records)]
          /\ row'[b.finding].status \in ReviewStatus
      <4>1. CASE Recorded(b) # {}
        <5>1. UNCHANGED <<row, history>>
          BY <3>1, <4>1 DEF ReviewRow, db
        <5>2. row[b.finding].status \in ReviewStatus
          BY <2>3, <3>1, RowsAreRows DEF Types, Visible
        <5> QED
          BY <5>1, <5>2 DEF Types
      <4>2. CASE Recorded(b) = {}
        <5>1. row' \in [Findings -> {NoRow} \cup Rows]
          BY <2>3, <3>1, <4>2, ReviewRowEffect DEF Types
        <5>2. history' \in [Findings -> Seq(Records)]
          <6> DEFINE e == [old |-> row[b.finding].status, body |-> b]
                     h == Append(history[b.finding], e)
          <6>1. /\ e \in Records /\ history[b.finding] \in Seq(Records)
                /\ history' = [history EXCEPT ![b.finding] = h]
            BY <2>3, <3>1, <4>2, ReviewRowEffect
          <6> HIDE DEF e
          <6>2. h \in Seq(Records)
            BY <6>1
          <6> HIDE DEF h
          <6> QED
            BY <6>1, <6>2 DEF Types
        <5>3. row'[b.finding].status \in ReviewStatus
          BY <2>3, <3>1, <4>2, ReviewRowEffect, RowsAreRows
        <5> QED
          BY <5>1, <5>2, <5>3
      <4> QED
        BY <4>1, <4>2
    <3>5. /\ body' = [body EXCEPT ![r] = b]
          /\ rpc' = [rpc EXCEPT ![r] = "finding"]
          /\ rcopy' = [rcopy EXCEPT ![r] = row'[b.finding].status]
          /\ crossed' \in BOOLEAN
          /\ UNCHANGED <<files, reporters, scan, cleaner, kills>>
      BY <1>1, <2>3 DEF Review, Crosses, Busy, Types
    <3> QED
      BY <3>2, <3>5 DEF Types, files, reporters, scan
  <2> QED
    BY <2>2, <2>3
<1>2. ASSUME NEW r \in Reviewers, ReviewFinding(r) \/ ReviewEvidence(r) \/ ReviewReport(r)
      PROVE  Types'
  <2>1. Reviewing(r) /\ body[r] \in Requests /\ body[r].finding \in Findings
    BY <1>2, FindingStoreAssumption DEF ReviewFinding, ReviewEvidence, ReviewReport, Types
  <2>2. CASE ReviewFinding(r)
    <3>1. CASE "findings" \in dirs
      BY <2>1, <2>2, <3>1 DEF ReviewFinding, Types, db, reporters, scan
    <3>2. CASE "findings" \notin dirs
      <4>1. /\ rpc' = [rpc EXCEPT ![r] = "failed"]
            /\ body' = [body EXCEPT ![r] = NoBody]
            /\ rcopy' = [rcopy EXCEPT ![r] = "none"]
            /\ UNCHANGED <<db, files, reporters, scan, cleaner, crossed, kills>>
        BY <2>2, <3>2 DEF ReviewFinding, Forget, files
      <4> QED
        BY <4>1 DEF Types, db, files, reporters, scan
    <3> QED
      BY <3>1, <3>2
  <2>3. CASE ReviewEvidence(r)
    BY <2>1, <2>3 DEF ReviewEvidence, Types, db, reporters, scan
  <2>4. CASE ReviewReport(r)
    BY <2>1, <2>4 DEF ReviewReport, MarkReport, Forget, Types, db, reporters, scan
  <2> QED
    BY <1>2, <2>2, <2>3, <2>4
<1>3. ASSUME NEW g \in Reporters, NEW f \in Findings, ReportReads(g, f) PROVE Types'
  <2>1. CASE f \in Visible
    <3>1. <<f, row[f].status>> \in Findings \X ReviewStatus
      BY <2>1, RowsAreRows DEF Visible, Types
    <3>2. /\ gcopy' = [gcopy EXCEPT ![g] = <<f, row[f].status>>]
          /\ gpc' = [gpc EXCEPT ![g] = "write"]
          /\ crossed' \in BOOLEAN
          /\ UNCHANGED <<db, files, reviewers, scan, cleaner, kills>>
      BY <1>3, <2>1 DEF ReportReads, Crosses, Busy, Types
    <3> QED
      BY <3>1, <3>2 DEF Types, db, files, reviewers, scan
  <2>2. CASE f \notin Visible
    BY <1>3, <2>2 DEF ReportReads, Types, Crosses, Busy, db, files, reviewers, scan
  <2> QED
    BY <2>1, <2>2
<1>4. ASSUME NEW g \in Reporters, ReportWrites(g) \/ ReportUnmarks(g) PROVE Types'
  <2>1. gcopy[g] \in Findings \X ReviewStatus
    BY <1>4 DEF ReportWrites, ReportUnmarks, Types
  <2>2. CASE ReportWrites(g)
    BY <2>1, <2>2 DEF ReportWrites, Types, db, reviewers, scan
  <2>3. CASE ReportUnmarks(g)
    BY <2>1, <2>3 DEF ReportUnmarks, Types, db, reviewers, scan
  <2> QED
    BY <1>4, <2>2, <2>3
<1>5. CASE ScanBegins
  BY <1>5, FindingStoreAssumption
  DEF ScanBegins, Types, Crosses, Busy, Visible, db, files, reviewers, reporters
<1>6. CASE ScanFiles
  BY <1>6 DEF ScanFiles, Types, ReviewStatus, db, reviewers, reporters
<1>7. CASE ScanRows
  <2>1. ASSUME NEW f \in Findings PROVE Upserted(f) \in Rows
    <3>1. row[f] = NoRow \/ row[f] \in Rows
      BY DEF Types
    <3> QED
      BY <3>1, RowEdits, RowsAreRows DEF Upserted
  <2>2. row' \in [Findings -> {NoRow} \cup Rows]
    <3>1. row' = row \/ row' = [f \in Findings |-> IF f \in Batch THEN Upserted(f) ELSE row[f]]
      BY <1>7 DEF ScanRows
    <3>2. \A f \in Findings : row[f] \in {NoRow} \cup Rows
      BY DEF Types
    <3>3. row \in [Findings -> {NoRow} \cup Rows]
      BY DEF Types
    <3> QED
      BY <2>1, <3>1, <3>2, <3>3, Zenon
  <2>3. at' \in Nat \ {0} /\ spc' \in {"rows", "delete"}
    BY <1>7, FindingStoreAssumption DEF ScanRows, Types
  <2> QED
    BY <1>7, <2>2, <2>3 DEF ScanRows, Types, files, reviewers, reporters
<1>8. CASE ScanDeletes
  <2>1. row' \in [Findings -> {NoRow} \cup Rows]
    <3>1. \A f \in Findings : row[f] # NoRow => [row[f] EXCEPT !.deleted = TRUE] \in Rows
      BY RowEdits DEF Types
    <3> QED
      BY <1>8, <3>1 DEF ScanDeletes, Types
  <2> QED
    BY <1>8, <2>1 DEF ScanDeletes, Types, files, reviewers, reporters
<1>9. CASE ClearBegins
  BY <1>9 DEF ClearBegins, Types, Crosses, Busy, db, files, reviewers, reporters, scan
<1>10. CASE ClearStep
  <2>1. CASE ClearFindingsDir
    BY <2>1 DEF ClearFindingsDir, Types, db, reviewers, reporters, scan
  <2>2. CASE ClearReportsDir
    BY <2>2 DEF ClearReportsDir, Types, db, reviewers, reporters, scan
  <2>3. CASE ClearRows
    <3>1. history' \in [Findings -> Seq(Records)]
      BY <2>3 DEF ClearRows
    <3> QED
      BY <2>3, <3>1 DEF ClearRows, Types, files, reviewers, reporters, scan
  <2> QED
    BY <1>10, <2>1, <2>2, <2>3 DEF ClearStep
<1>11. CASE Kill
  BY <1>11 DEF Kill, Types, db, files
<1>12. CASE UNCHANGED vars
  BY <1>12 DEF vars, Types, db, files, reviewers, reporters, scan
<1> QED
  BY <1>1, <1>2, <1>3, <1>4, <1>5, <1>6, <1>7, <1>8, <1>9, <1>10, <1>11, <1>12
  DEF Next, RequestStep, ScanStep
-----------------------------------------------------------------------------
\* The chain of one finding.
Chain(f) ==
    /\ \A i \in DOMAIN history[f] :
         /\ history[f][i].old = StatusBefore(f, i)
         /\ history[f][i].body.expected \in {"any", history[f][i].old}
    /\ row[f] # NoRow => row[f].status = StatusBefore(f, Len(history[f]) + 1)
    /\ row[f] = NoRow => history[f] = << >>

\* A review lengthens one chain by a link whose id is new.
LEMMA ReviewKeepsChain ==
    ASSUME Types, HistoryIsAChain, NEW b \in Requests, b.finding \in Visible,
           ~Rejected(b), Recorded(b) = {}, ReviewRow(b)
    PROVE  HistoryIsAChain'
<1> DEFINE f == b.finding
           e == [old |-> row[f].status, body |-> b]
           h == history[f]
<1>0. PICK n : n = Len(h) + 1
  OBVIOUS
<1>1. /\ f \in Findings
      /\ row[f] \in Rows /\ row'[f] \in Rows /\ row'[f].status = b.status
      /\ row' = [row EXCEPT ![f] = [row[f] EXCEPT !.status = b.status]]
      /\ e \in Records /\ h \in Seq(Records)
      /\ history' = [history EXCEPT ![f] = Append(h, e)]
  BY ReviewRowEffect, RequestsAreRequests
<1>2. e.old = row[f].status /\ e.body = b
  OBVIOUS
<1>3. b.expected \in {"any", row[f].status}
  BY DEF Rejected
<1> HIDE DEF e
<1>4. /\ n \in Nat \ {0} /\ DOMAIN h = 1..(n - 1)
      /\ DOMAIN Append(h, e) = 1..n /\ Len(Append(h, e)) = n
      /\ Append(h, e)[n] = e
      /\ \A i \in 1..(n - 1) : Append(h, e)[i] = h[i]
  BY <1>0, <1>1
<1>5. history'[f] = Append(h, e) /\ \A g \in Findings : g # f => history'[g] = history[g]
  BY <1>1 DEF Types
<1>6. \A g \in Findings : g # f => row'[g] = row[g]
  BY <1>1 DEF Types
<1> HIDE DEF h
<1>7. AppliedOnce'
  <2>1. ASSUME NEW g \in Findings, NEW i \in DOMAIN history[g], history[g][i].body.id = b.id
        PROVE  b.id = "none"
    <3>1. history[g][i] \in Entries
      BY DEF Entries, ToSet
    <3> QED
      BY <2>1, <3>1 DEF Recorded
  <2>2. ASSUME NEW g1 \in Findings, NEW g2 \in Findings,
               NEW i \in DOMAIN history'[g1], NEW j \in DOMAIN history'[g2],
               history'[g1][i].body.id = history'[g2][j].body.id,
               history'[g1][i].body.id # "none"
        PROVE  g1 = g2 /\ i = j
    <3>1. CASE g1 = f /\ i = n
      <4>1. history'[g1][i].body.id = b.id
        BY <1>2, <1>4, <1>5, <3>1
      <4>2. CASE g2 = f /\ j # n
        <5>1. j \in DOMAIN history[g2] /\ history'[g2][j] = history[g2][j]
          BY <1>4, <1>5, <4>2 DEF h
        <5> QED
          BY <2>1, <2>2, <4>1, <5>1
      <4>3. CASE g2 # f
        BY <1>5, <2>1, <2>2, <4>1, <4>3
      <4> QED
        BY <3>1, <4>2, <4>3
    <3>2. CASE g2 = f /\ j = n
      <4>1. history'[g2][j].body.id = b.id
        BY <1>2, <1>4, <1>5, <3>2
      <4>2. CASE g1 = f /\ i # n
        <5>1. i \in DOMAIN history[g1] /\ history'[g1][i] = history[g1][i]
          BY <1>4, <1>5, <4>2 DEF h
        <5> QED
          BY <2>1, <2>2, <4>1, <5>1
      <4>3. CASE g1 # f
        BY <1>5, <2>1, <2>2, <4>1, <4>3
      <4> QED
        BY <3>2, <4>2, <4>3
    <3>3. CASE ~(g1 = f /\ i = n) /\ ~(g2 = f /\ j = n)
      <4>1. i \in DOMAIN history[g1] /\ history'[g1][i] = history[g1][i]
        BY <1>4, <1>5, <3>3 DEF h
      <4>2. j \in DOMAIN history[g2] /\ history'[g2][j] = history[g2][j]
        BY <1>4, <1>5, <3>3 DEF h
      <4> QED
        BY <2>2, <4>1, <4>2 DEF HistoryIsAChain, AppliedOnce
    <3> QED
      BY <3>1, <3>2, <3>3
  <2> QED
    BY <2>2 DEF AppliedOnce
<1>8. ASSUME NEW g \in Findings, g # f PROVE Chain(g)'
  BY <1>5, <1>6, <1>8 DEF HistoryIsAChain, Chain, StatusBefore
<1>9. Chain(f)'
  <2>0. Chain(f) /\ row[f] # NoRow /\ row'[f] # NoRow
    BY <1>1, RowsAreRows DEF HistoryIsAChain, Chain
  <2>1. row[f].status = StatusBefore(f, n)
    BY <1>0, <2>0 DEF Chain, h
  <2>2. \A i \in 1..n : StatusBefore(f, i)' = StatusBefore(f, i)
    BY <1>4, <1>5 DEF StatusBefore, h
  <2>3. \A i \in 1..(n - 1) : /\ history'[f][i].old = StatusBefore(f, i)'
                              /\ history'[f][i].body.expected \in {"any", history'[f][i].old}
    BY <1>4, <1>5, <2>0, <2>2 DEF Chain, h
  <2>4. /\ history'[f][n].old = StatusBefore(f, n)'
        /\ history'[f][n].body.expected \in {"any", history'[f][n].old}
    <3>1. history'[f][n] = e /\ n \in 1..n
      BY <1>4, <1>5
    <3>2. StatusBefore(f, n)' = row[f].status
      BY <2>1, <2>2, <3>1
    <3> QED
      BY <1>2, <1>3, <3>1, <3>2
  <2>5. StatusBefore(f, n + 1)' = b.status
    <3>1. history'[f][n] = e /\ n + 1 # 1 /\ (n + 1) - 1 = n
      BY <1>4, <1>5
    <3>2. StatusBefore(f, n + 1)' = history'[f][(n + 1) - 1].body.status
      BY <3>1 DEF StatusBefore
    <3> QED
      BY <1>2, <3>1, <3>2
  <2>6. DOMAIN history'[f] = 1..n /\ Len(history'[f]) = n
    BY <1>4, <1>5
  <2>7. \A i \in DOMAIN history'[f] : i \in 1..(n - 1) \/ i = n
    BY <1>4, <2>6
  <2> QED
    <3>1. row'[f].status = StatusBefore(f, Len(history[f]) + 1)'
      BY <1>1, <2>5, <2>6
    <3> QED
      BY <2>0, <2>3, <2>4, <2>7, <3>1 DEF Chain
<1> QED
  BY <1>7, <1>8, <1>9 DEF HistoryIsAChain, Chain
-----------------------------------------------------------------------------
\* What the steps that write rows do to them.

LEMMA ScanRowsEffect ==
    ASSUME Types, ScanInv, ScanRows
    PROVE  /\ \A f \in Findings :
                /\ row[f] # NoRow => row'[f] # NoRow /\ row'[f].status = row[f].status
                /\ row[f] = NoRow /\ row'[f] # NoRow =>
                     row'[f].status = "pending_manual" /\ f \in Found
           /\ Visible \subseteq Visible'
           /\ spc' = "rows" => Batch \subseteq Visible'
<1>1. Found \subseteq Findings /\ Batch \subseteq Found
  BY FoundIsFound DEF ScanRows, Batch
<1>2. ASSUME NEW f \in Findings
      PROVE  /\ row[f] # NoRow => Upserted(f).status = row[f].status
             /\ row[f] = NoRow => Upserted(f).status = "pending_manual"
             /\ Upserted(f) \in Rows /\ Upserted(f).deleted = FALSE
  <2>1. row[f] = NoRow \/ row[f] \in Rows
    BY DEF Types
  <2> QED
    BY <2>1, RowEdits, RowsAreRows DEF Upserted
<1>3. CASE row' = row /\ spc' # "rows"
  BY <1>3 DEF Visible
<1>4. CASE row' = [f \in Findings |-> IF f \in Batch THEN Upserted(f) ELSE row[f]]
  BY <1>1, <1>2, <1>4, RowsAreRows DEF Visible
<1> QED
  BY <1>3, <1>4 DEF ScanRows

LEMMA ScanDeletesEffect ==
    ASSUME Types, ScanInv, ScanDeletes
    PROVE  /\ \A f \in Findings :
                /\ row'[f] = NoRow <=> row[f] = NoRow
                /\ row'[f].status = row[f].status
           /\ Visible' = Visible \cap Found
<1>1. ASSUME NEW f \in Findings, row[f] # NoRow
      PROVE  /\ [row[f] EXCEPT !.deleted = TRUE] \in Rows
             /\ [row[f] EXCEPT !.deleted = TRUE].status = row[f].status
             /\ [row[f] EXCEPT !.deleted = TRUE].deleted
  BY <1>1, RowEdits DEF Types
<1>2. \A f \in Findings :
        row'[f] = IF f \notin Found /\ row[f] # NoRow THEN [row[f] EXCEPT !.deleted = TRUE]
                  ELSE row[f]
  BY DEF ScanDeletes, Missing
<1>3. \A f \in Findings : /\ row'[f] = NoRow <=> row[f] = NoRow
                          /\ row'[f].status = row[f].status
  BY <1>1, <1>2, RowsAreRows
<1>4. \A f \in Findings : row'[f].deleted = (row[f].deleted \/ (f \notin Found /\ row[f] # NoRow))
  <2>1. ASSUME NEW f \in Findings
        PROVE  row'[f].deleted = (row[f].deleted \/ (f \notin Found /\ row[f] # NoRow))
    <3>1. row[f].deleted \in BOOLEAN
      <4>1. row[f] = NoRow \/ row[f] \in Rows
        BY DEF Types
      <4>2. NoRow.deleted \in BOOLEAN
        BY DEF NoRow
      <4> QED
        BY <4>1, <4>2, RowsAreRows, Zenon
    <3>2. CASE f \notin Found /\ row[f] # NoRow
      BY <1>1, <1>2, <3>2
    <3>3. CASE ~(f \notin Found /\ row[f] # NoRow)
      BY <1>2, <3>1, <3>3
    <3> QED
      BY <3>2, <3>3
  <2> QED
    BY <2>1
<1>5. Visible' = Visible \cap Found
  BY <1>3, <1>4 DEF Visible
<1> QED
  BY <1>3, <1>5

\* A review that is taken: a new record, or one that was there.
LEMMA ReviewEffect ==
    ASSUME Types, NEW r \in Reviewers, NEW b \in Requests, Review(r, b),
           b.finding \in Visible, ~Rejected(b)
    PROVE  /\ b.finding \in Findings
           /\ Visible' = Visible
           /\ \A f \in Findings : f # b.finding => row'[f] = row[f]
           /\ \A f \in Findings : row'[f] = NoRow <=> row[f] = NoRow
           /\ rpc' = [rpc EXCEPT ![r] = "finding"]
           /\ body' = [body EXCEPT ![r] = b]
           /\ rcopy' = [rcopy EXCEPT ![r] = row'[b.finding].status]
           /\ rpc[r] = "idle" /\ Crosses
           /\ UNCHANGED <<files, reporters, scan, cleaner, kills>>
<1>1. /\ b.finding \in Findings /\ row[b.finding] \in Rows
  BY RequestsAreRequests DEF Types, Visible
<1>2. ReviewRow(b)
  BY DEF Review
<1>3. CASE Recorded(b) # {}
  BY <1>1, <1>2, <1>3 DEF ReviewRow, db, Visible, Review
<1>4. CASE Recorded(b) = {}
  <2>1. /\ row' = [row EXCEPT ![b.finding] = [row[b.finding] EXCEPT !.status = b.status]]
        /\ row'[b.finding] \in Rows /\ row'[b.finding].deleted = row[b.finding].deleted
    BY <1>2, <1>4, ReviewRowEffect
  <2>2. \A f \in Findings : f # b.finding => row'[f] = row[f]
    BY <2>1 DEF Types
  <2>3. \A f \in Findings : row'[f] = NoRow <=> row[f] = NoRow
    BY <1>1, <2>1, <2>2, RowsAreRows
  <2>4. Visible' = Visible
    BY <2>1, <2>2, <2>3 DEF Visible
  <2> QED
    BY <1>1, <2>2, <2>3, <2>4 DEF Review
<1> QED
  BY <1>3, <1>4

\* Reviews, scans and a clear keep the chains.
LEMMA ChainStep ==
    ASSUME Types, ScanInv, HistoryIsAChain, [Next]_vars
    PROVE  HistoryIsAChain'
<1>1. CASE UNCHANGED db
  BY <1>1 DEF HistoryIsAChain, AppliedOnce, StatusBefore, db
<1>2. ASSUME NEW r \in Reviewers, NEW b \in Requests, Review(r, b) PROVE HistoryIsAChain'
  <2>1. CASE UNCHANGED db
    BY <1>1, <2>1
  <2>2. CASE b.finding \in Visible /\ ~Rejected(b) /\ Recorded(b) = {}
    BY <1>2, <2>2, ReviewKeepsChain DEF Review
  <2> QED
    BY <1>2, <2>1, <2>2 DEF Review, ReviewRow
<1>3. CASE ScanRows
  <2>1. \A f \in Findings : Chain(f)
    BY DEF HistoryIsAChain, Chain
  <2>2. ASSUME NEW f \in Findings PROVE Chain(f)'
    <3>1. history' = history
      BY <1>3 DEF ScanRows
    <3>2. row[f] = NoRow => StatusBefore(f, Len(history[f]) + 1) = "pending_manual"
      BY <2>1 DEF Chain, StatusBefore
    <3> QED
      BY <1>3, <2>1, <3>1, <3>2, ScanRowsEffect DEF Chain, StatusBefore
  <2>3. AppliedOnce'
    BY <1>3 DEF ScanRows, HistoryIsAChain, AppliedOnce
  <2> QED
    BY <2>2, <2>3 DEF HistoryIsAChain, Chain
<1>4. CASE ScanDeletes
  <2>1. history' = history
    BY <1>4 DEF ScanDeletes
  <2> QED
    BY <1>4, <2>1, ScanDeletesEffect DEF HistoryIsAChain, AppliedOnce, StatusBefore
<1>5. CASE ClearRows
  <2>1. \A f \in Findings : history'[f] = << >> /\ row'[f] = NoRow
    BY <1>5 DEF ClearRows
  <2> QED
    BY <2>1 DEF HistoryIsAChain, AppliedOnce
<1>6. [Next]_vars =>
        \/ UNCHANGED db \/ ScanRows \/ ScanDeletes \/ ClearRows
        \/ \E r \in Reviewers, b \in Requests : Review(r, b)
  BY DEF Next, vars, RequestStep, ReviewFinding, ReviewEvidence, ReviewReport, ReportReads,
         ReportWrites, ReportUnmarks, ScanBegins, ScanStep, ScanFiles, ClearBegins, ClearStep,
         ClearFindingsDir, ClearReportsDir, Kill
<1> QED
  BY <1>1, <1>2, <1>3, <1>4, <1>5, <1>6
-----------------------------------------------------------------------------
\* The scan.
LEMMA ScanStepKeeps ==
    ASSUME Types, ScanInv, [Next]_vars
    PROVE  ScanInv'
<1>0. scan_no' = scan_no => Found' = Found /\ \A i, j : Slice(i, j)' = Slice(i, j)
  BY DEF Found, Slice
<1>1. ASSUME NEW r \in Reviewers, NEW b \in Requests, Review(r, b) PROVE ScanInv'
  <2>1. CASE b.finding \in Visible /\ ~Rejected(b)
    BY <1>0, <1>1, <2>1, ReviewEffect DEF ScanInv, scan, files, Slice
  <2>2. CASE ~(b.finding \in Visible /\ ~Rejected(b))
    BY <1>0, <1>1, <2>2 DEF Review, ScanInv, Visible, db, scan, files, Slice
  <2> QED
    BY <2>1, <2>2
<1>2. CASE UNCHANGED <<db, scan, cleaner, dirs, kills>>
  BY <1>0, <1>2 DEF ScanInv, Visible, db, scan, Slice
<1>3. ASSUME NEW g \in Reporters, ReportWrites(g) PROVE ScanInv'
  BY <1>0, <1>3 DEF ReportWrites, ScanInv, Visible, db, scan, Slice
<1>4. CASE ScanBegins
  <2>1. Visible' = Visible
    BY <1>4 DEF ScanBegins, Visible, db
  <2> QED
    BY <1>4, <2>1, FindingStoreAssumption DEF ScanBegins, ScanInv, Types, files
<1>5. CASE ScanFiles
  <2>1. Visible' = Visible /\ Found \subseteq Findings
    BY <1>5, FoundIsFound DEF ScanFiles, Visible, db
  <2>2. at = 1 /\ Slice(1, at - 1) = {}
    BY <1>5, FoundIsFound DEF ScanFiles, ScanInv, Slice
  <2> QED
    BY <1>0, <1>5, <2>1, <2>2 DEF ScanFiles, ScanInv
<1>6. CASE ScanRows
  <2>1. at \in Nat /\ BatchSize \in Nat \ {0}
    BY FindingStoreAssumption DEF Types
  <2>2. Visible \subseteq Visible' /\ (spc' = "rows" => Batch \subseteq Visible')
    BY <1>6, ScanRowsEffect
  <2>3. CASE at > Len(Scans[scan_no])
    <3>1. Scans[scan_no] \in Seq(Findings)
      BY <1>6, FoundIsFound DEF ScanRows
    <3>2. Found = Slice(1, at - 1)
      BY <2>1, <2>3, <3>1 DEF Found, Slice, ToSet
    <3> QED
      BY <1>0, <1>6, <2>2, <2>3, <3>2 DEF ScanRows, ScanInv, files
  <2>4. CASE ~(at > Len(Scans[scan_no]))
    <3>1. at' = at + BatchSize /\ spc' = "rows" /\ scan_no' = scan_no
      BY <1>6, <2>4 DEF ScanRows
    <3>2. Scans[scan_no] \in Seq(Findings)
      BY <1>6, FoundIsFound DEF ScanRows
    <3>3. Slice(1, at + BatchSize - 1) \subseteq Slice(1, at - 1) \cup Batch
      BY <2>1, <3>2 DEF Slice, Batch
    <3>4. Slice(1, at - 1)' = Slice(1, at + BatchSize - 1)
      <4>1. at' - 1 = at + BatchSize - 1 /\ Scans[scan_no'] = Scans[scan_no]
        BY <2>1, <3>1
      <4> QED
        BY <4>1, Zenon DEF Slice
    <3> QED
      BY <1>0, <1>6, <2>2, <3>1, <3>3, <3>4 DEF ScanRows, ScanInv, files
  <2> QED
    BY <2>3, <2>4
<1>7. CASE ScanDeletes
  <2>1. Visible' = Visible \cap Found
    BY <1>7, ScanDeletesEffect
  <2> QED
    BY <1>0, <1>7, <2>1 DEF ScanDeletes, ScanInv, files
<1>8. CASE ClearBegins
  BY <1>0, <1>8 DEF ClearBegins, ScanInv, scan
<1>9. CASE ClearStep
  BY <1>0, <1>9 DEF ClearStep, ClearFindingsDir, ClearReportsDir, ClearRows, ScanInv, scan
<1>10. CASE Kill
  BY <1>0, <1>10 DEF Kill, ScanInv, Types, Done, Visible, db, files, Slice
<1>11. [Next]_vars =>
        \/ UNCHANGED <<db, scan, cleaner, dirs, kills>> \/ ScanBegins \/ ScanFiles
        \/ ScanRows \/ ScanDeletes \/ ClearBegins \/ ClearStep \/ Kill
        \/ \E r \in Reviewers, b \in Requests : Review(r, b)
        \/ \E g \in Reporters : ReportWrites(g)
  BY DEF Next, vars, files, RequestStep, ReviewFinding, ReviewEvidence, ReviewReport,
         ReportReads, ReportUnmarks, ScanStep
<1> QED
  BY <1>1, <1>2, <1>3, <1>4, <1>5, <1>6, <1>7, <1>8, <1>9, <1>10, <1>11
-----------------------------------------------------------------------------
\* Whoever begins alone finds nobody at work.
LEMMA BeginsAlone ==
    ASSUME Types, Crosses, ~crossed'
    PROVE  /\ ~crossed
           /\ \A r \in Reviewers : ~Reviewing(r)
           /\ \A g \in Reporters : ~Reporting(g)
           /\ ~Scanning /\ ~Cleaning
BY DEF Crosses, Busy, Types, Done, Reviewing, Reporting, Scanning, Cleaning

\* No step but a beginning puts anyone to work.
LEMMA StepsEnd ==
    ASSUME Types, RequestStep \/ ScanStep \/ ClearStep \/ Kill \/ UNCHANGED vars
    PROVE  /\ crossed' = crossed
           /\ \A r \in Reviewers : Reviewing(r)' => Reviewing(r)
           /\ \A g \in Reporters : Reporting(g)' => Reporting(g)
           /\ Scanning' => Scanning
           /\ Cleaning' => Cleaning
<1> USE DEF Reviewing, Reporting, Scanning, Cleaning
<1>1. ASSUME NEW r \in Reviewers, ReviewFinding(r) \/ ReviewEvidence(r) \/ ReviewReport(r)
      PROVE  /\ rpc[r] \in {"finding", "evidence", "report"}
             /\ UNCHANGED <<crossed, reporters, scan, cleaner>>
             /\ \E x \in {"evidence", "report", "done", "failed"} : rpc' = [rpc EXCEPT ![r] = x]
  BY <1>1 DEF ReviewFinding, ReviewEvidence, ReviewReport
<1>2. ASSUME NEW g \in Reporters, ReportWrites(g) \/ ReportUnmarks(g)
      PROVE  /\ gpc[g] \in {"write", "unmark"}
             /\ UNCHANGED <<crossed, reviewers, scan, cleaner>>
             /\ \E x \in {"unmark", "done"} : gpc' = [gpc EXCEPT ![g] = x]
  BY <1>2 DEF ReportWrites, ReportUnmarks
<1>3. CASE RequestStep
  BY <1>1, <1>2, <1>3 DEF RequestStep, Types, reviewers, reporters, scan
<1>4. CASE ScanStep
  BY <1>4 DEF ScanStep, ScanFiles, ScanRows, ScanDeletes, reviewers, reporters
<1>5. CASE ClearStep
  BY <1>5 DEF ClearStep, ClearFindingsDir, ClearReportsDir, ClearRows, reviewers, reporters,
              scan
<1>6. CASE Kill
  BY <1>6 DEF Kill, Types, Done
<1>7. CASE UNCHANGED vars
  BY <1>7 DEF vars, reviewers, reporters, scan
<1> QED
  BY <1>3, <1>4, <1>5, <1>6, <1>7

\* One at work, or none.
LEMMA SoloStep ==
    ASSUME Types, Solo, [Next]_vars
    PROVE  Solo'
<1>1. CASE RequestStep \/ ScanStep \/ ClearStep \/ Kill \/ UNCHANGED vars
  <2>1. /\ crossed' = crossed
        /\ \A r \in Reviewers : Reviewing(r)' => Reviewing(r)
        /\ \A g \in Reporters : Reporting(g)' => Reporting(g)
        /\ Scanning' => Scanning
        /\ Cleaning' => Cleaning
    BY <1>1, StepsEnd
  <2> QED
    BY <2>1 DEF Solo
<1>2. CASE \E r \in Reviewers, b \in Requests : Review(r, b)
  <2>1. PICK r \in Reviewers, b \in Requests : Review(r, b)
    BY <1>2
  <2>2. Crosses /\ UNCHANGED <<reporters, scan, cleaner>>
    BY <2>1 DEF Review
  <2>3. \A q \in Reviewers : q # r => rpc'[q] = rpc[q]
    BY <2>1 DEF Review, Types
  <2> QED
    BY <2>2, <2>3, BeginsAlone DEF Solo, Reviewing, Reporting, Scanning, Cleaning, reporters,
                                   scan
<1>3. CASE \E g \in Reporters, f \in Findings : ReportReads(g, f)
  <2>1. PICK g \in Reporters, f \in Findings : ReportReads(g, f)
    BY <1>3
  <2>2. Crosses /\ UNCHANGED <<reviewers, scan, cleaner>>
    BY <2>1 DEF ReportReads
  <2>3. \A q \in Reporters : q # g => gpc'[q] = gpc[q]
    BY <2>1 DEF ReportReads, Types
  <2> QED
    BY <2>2, <2>3, BeginsAlone DEF Solo, Reviewing, Reporting, Scanning, Cleaning, reviewers,
                                   scan
<1>4. CASE ScanBegins \/ ClearBegins
  <2>1. Crosses /\ UNCHANGED <<reviewers, reporters>> /\ (UNCHANGED scan \/ UNCHANGED cleaner)
    BY <1>4 DEF ScanBegins, ClearBegins
  <2> QED
    BY <2>1, BeginsAlone DEF Solo, Reviewing, Reporting, Scanning, Cleaning, reviewers,
                             reporters, scan
<1> QED
  BY <1>1, <1>2, <1>3, <1>4 DEF Next

\* What a clear removed stays away.
LEMMA ClearedStep ==
    ASSUME Types, Solo, Cleared, [Next]_vars
    PROVE  Cleared'
<1> USE DEF Reviewing, Reporting, Scanning, Cleaning
<1>1. ASSUME NEW r \in Reviewers, NEW b \in Requests, Review(r, b) PROVE Cleared'
  <2>1. Crosses /\ UNCHANGED <<files, reporters, scan, cleaner>>
    BY <1>1 DEF Review
  <2>2. cleaner = "done" /\ ~crossed => b.finding \notin Visible
    BY RequestsAreRequests DEF Cleared, Visible
  <2>3. cleaner = "done" /\ ~crossed => UNCHANGED db /\ rpc' = [rpc EXCEPT ![r] = "failed"]
    BY <1>1, <2>2 DEF Review
  <2>4. ~crossed' => ~crossed
    BY <2>1, BeginsAlone
  <2> QED
    BY <2>1, <2>3, <2>4 DEF Cleared, Types, files, reporters, scan, db
<1>2. ASSUME NEW r \in Reviewers, ReviewFinding(r) PROVE Cleared'
  <2>1. /\ Reviewing(r)
        /\ UNCHANGED <<db, evidence, report, dirs, reporters, scan, cleaner, crossed>>
        /\ "findings" \notin dirs => UNCHANGED finding_file
    BY <1>2 DEF ReviewFinding
  <2> QED
    BY <2>1 DEF Cleared, Solo, db, reporters, scan
<1>3. ASSUME NEW r \in Reviewers, ReviewEvidence(r) PROVE Cleared'
  <2>1. /\ Reviewing(r)
        /\ UNCHANGED <<db, finding_file, report, dirs, reporters, scan, cleaner, crossed>>
    BY <1>3 DEF ReviewEvidence
  <2> QED
    BY <2>1 DEF Cleared, Solo, db, reporters, scan
<1>4. ASSUME NEW r \in Reviewers, ReviewReport(r) PROVE Cleared'
  <2>1. /\ Reviewing(r)
        /\ UNCHANGED <<db, finding_file, evidence, report, dirs, reporters, scan, cleaner,
                        crossed>>
    BY <1>4 DEF ReviewReport
  <2> QED
    BY <2>1 DEF Cleared, Solo, db, reporters, scan
<1>5. ASSUME NEW g \in Reporters, NEW f \in Findings, ReportReads(g, f) PROVE Cleared'
  <2>1. Crosses /\ UNCHANGED <<db, files, reviewers, scan, cleaner>>
    BY <1>5 DEF ReportReads
  <2>2. cleaner = "done" /\ ~crossed => gpc' = [gpc EXCEPT ![g] = "failed"]
    BY <1>5 DEF ReportReads, Cleared, Visible
  <2>3. ~crossed' => ~crossed
    BY <2>1, BeginsAlone
  <2> QED
    BY <2>1, <2>2, <2>3 DEF Cleared, Types, files, reviewers, scan, db
<1>6. ASSUME NEW g \in Reporters, ReportWrites(g) \/ ReportUnmarks(g) PROVE Cleared'
  <2>1. /\ Reporting(g)
        /\ UNCHANGED <<db, finding_file, evidence, reviewers, scan, cleaner, crossed>>
        /\ "findings" \in dirs' => "findings" \in dirs
    BY <1>6 DEF ReportWrites, ReportUnmarks
  <2> QED
    BY <2>1 DEF Cleared, Solo, db, reviewers, scan
<1>7. CASE ScanBegins
  <2>1. ~crossed' => ~crossed
    BY <1>7, BeginsAlone DEF ScanBegins
  <2> QED
    BY <1>7, <2>1 DEF ScanBegins, Cleared, db, files, reviewers, reporters
<1>8. CASE ScanFiles
  <2>1. /\ UNCHANGED <<db, report, dirs, reviewers, reporters, cleaner, crossed>>
        /\ dirs # {"findings", "reports"} =>
             spc' = "failed" /\ UNCHANGED <<finding_file, evidence>>
    BY <1>8 DEF ScanFiles
  <2>2. ~crossed /\ cleaner \in {"reports", "rows", "done"} => dirs # {"findings", "reports"}
    BY DEF Cleared
  <2> QED
    BY <2>1, <2>2 DEF Cleared, db, reviewers, reporters
<1>9. CASE ScanRows \/ ScanDeletes
  BY <1>9 DEF ScanRows, ScanDeletes, Cleared, files, reviewers, reporters
<1>10. CASE ClearBegins
  BY <1>10 DEF ClearBegins, Cleared
<1>11. CASE ClearFindingsDir
  BY <1>11 DEF ClearFindingsDir, Cleared
<1>12. CASE ClearReportsDir
  BY <1>12 DEF ClearReportsDir, Cleared
<1>13. CASE ClearRows
  BY <1>13 DEF ClearRows, Cleared, Solo, files, reviewers, reporters, scan
<1>14. CASE Kill
  <2>1. UNCHANGED <<db, files, crossed>> /\ (cleaner' = cleaner \/ cleaner' = "killed")
    BY <1>14 DEF Kill
  <2>2. /\ \A r \in Reviewers : Reviewing(r)' => Reviewing(r)
        /\ \A g \in Reporters : Reporting(g)' => Reporting(g)
        /\ spc' \in {"rows", "delete"} => spc \in {"rows", "delete"}
    BY <1>14 DEF Kill, Types, Done
  <2> QED
    BY <2>1, <2>2 DEF Cleared, db, files
<1>15. CASE UNCHANGED vars
  BY <1>15 DEF vars, Cleared, db, files, reviewers, reporters, scan
<1> QED
  BY <1>1, <1>2, <1>3, <1>4, <1>5, <1>6, <1>7, <1>8, <1>9, <1>10, <1>11, <1>12, <1>13, <1>14,
     <1>15 DEF Next, RequestStep, ScanStep, ClearStep
-----------------------------------------------------------------------------
\* The files.

LEMMA OneByOneBefore ==
    ASSUME Types, [Next]_vars, OneByOne'
    PROVE  OneByOne /\ ~Kill /\ (spc = "done" /\ scan_no # 0 => ~ScanBegins)
<1>1. CASE RequestStep \/ ScanStep \/ ClearStep \/ Kill \/ UNCHANGED vars
  <2>1. crossed' = crossed
    BY <1>1, StepsEnd
  <2>2. scan_no' = scan_no /\ ((kills' = kills /\ ~Kill) \/ kills' = kills + 1)
    BY <1>1 DEF RequestStep, ReviewFinding, ReviewEvidence, ReviewReport, ReportWrites,
                ReportUnmarks, ScanStep, ScanFiles, ScanRows, ScanDeletes, ClearStep,
                ClearFindingsDir, ClearReportsDir, ClearRows, Kill, vars, scan
  <2> QED
    BY <2>1, <2>2 DEF OneByOne, Types, ScanBegins
<1>2. CASE \/ \E r \in Reviewers, b \in Requests : Review(r, b)
           \/ \E g \in Reporters, f \in Findings : ReportReads(g, f)
           \/ ScanBegins \/ ClearBegins
  <2>1. /\ Crosses /\ kills' = kills
        /\ \/ scan_no' = scan_no
           \/ ScanBegins /\ scan_no' = scan_no + 1
    <3>1. ASSUME NEW r \in Reviewers, NEW b \in Requests, Review(r, b)
          PROVE  Crosses /\ kills' = kills /\ scan_no' = scan_no
      BY <3>1 DEF Review, scan
    <3>2. ASSUME NEW g \in Reporters, NEW f \in Findings, ReportReads(g, f)
          PROVE  Crosses /\ kills' = kills /\ scan_no' = scan_no
      BY <3>2 DEF ReportReads, scan
    <3>3. ScanBegins => Crosses /\ kills' = kills /\ scan_no' = scan_no + 1
      BY DEF ScanBegins
    <3>4. ClearBegins => Crosses /\ kills' = kills /\ scan_no' = scan_no
      BY DEF ClearBegins, scan
    <3> QED
      BY <1>2, <3>1, <3>2, <3>3, <3>4
  <2>2. ~crossed
    BY <2>1, BeginsAlone DEF OneByOne
  <2>3. ~Kill
    BY <2>1 DEF Kill, Types
  <2>4. ScanBegins => scan_no' = scan_no + 1
    BY DEF ScanBegins
  <2> QED
    BY <2>1, <2>2, <2>3, <2>4 DEF OneByOne, Types
<1> QED
  BY <1>1, <1>2 DEF Next

\* Before the first scan wrote a row there is nothing to review or to report.
LEMMA NothingFoundStep ==
    ASSUME Types, ScanInv, Solo, FilesInv, [Next]_vars, OneByOne',
           spc' \in {"idle", "files", "failed"}
    PROVE  NothingFound'
<1> USE DEF Reviewing, Reporting
<1>1. OneByOne /\ ~Kill /\ spc \in {"idle", "files", "failed"}
  <2>1. OneByOne /\ ~Kill /\ (spc = "done" /\ scan_no # 0 => ~ScanBegins)
    BY OneByOneBefore
  <2>2. spc # "idle" => scan_no # 0
    BY DEF ScanInv
  <2>3. ~ScanBegins => spc' = spc \/ spc = "files" \/ spc' \in {"delete", "done"} 
    BY <2>1 DEF Next, vars, RequestStep, ReviewFinding, ReviewEvidence, ReviewReport, Review,
           ReportReads, ReportWrites, ReportUnmarks, ScanStep, ScanFiles, ScanRows,
           ScanDeletes, ClearBegins, ClearStep, ClearFindingsDir, ClearReportsDir, ClearRows,
           scan
  <2>4. ScanBegins => spc \in {"idle", "done"}
    BY DEF ScanBegins
  <2> QED
    BY <2>1, <2>2, <2>3, <2>4
<1>2. NothingFound /\ Visible = {}
  BY <1>1 DEF FilesInv, NothingFound, Unfound, Visible
<1>3. ASSUME NEW r \in Reviewers, NEW b \in Requests, Review(r, b) PROVE NothingFound'
  <2>1. /\ rpc' = [rpc EXCEPT ![r] = "failed"]
        /\ UNCHANGED <<row, report, gpc>>
    BY <1>2, <1>3 DEF Review, db, files, reporters
  <2> QED
    BY <1>2, <2>1 DEF NothingFound, Unfound, Types
<1>4. ASSUME NEW g \in Reporters, NEW f \in Findings, ReportReads(g, f) PROVE NothingFound'
  <2>1. /\ gpc' = [gpc EXCEPT ![g] = "failed"]
        /\ UNCHANGED <<row, report, rpc>>
    BY <1>2, <1>4 DEF ReportReads, db, files, reviewers
  <2> QED
    BY <1>2, <2>1 DEF NothingFound, Unfound, Types
<1>5. CASE ScanBegins \/ ClearBegins \/ ScanFiles \/ UNCHANGED vars
  BY <1>2, <1>5 DEF ScanBegins, ClearBegins, ScanFiles, vars, NothingFound, Unfound, db, files,
                    reviewers, reporters
<1>6. CASE ClearStep
  BY <1>2, <1>6 DEF ClearStep, ClearFindingsDir, ClearReportsDir, ClearRows, NothingFound,
                    Unfound, db, files, reviewers, reporters
<1>7. ~RequestStep
  BY <1>2 DEF RequestStep, ReviewFinding, ReviewEvidence, ReviewReport, ReportWrites,
              ReportUnmarks, NothingFound
<1>8. ~ScanRows /\ ~ScanDeletes
  BY <1>1 DEF ScanRows, ScanDeletes
<1> QED
  BY <1>1, <1>3, <1>4, <1>5, <1>6, <1>7, <1>8 DEF Next, ScanStep

\* While the first scan writes rows, the files wait for them.
LEMMA PreparedStep ==
    ASSUME Types, ScanInv, Solo, FilesInv, [Next]_vars, OneByOne',
           spc' \in {"rows", "delete"}
    PROVE  \A f \in Findings : Prepared(f)'
<1>0. OneByOne /\ ~Kill
  BY OneByOneBefore
<1>1. CASE ScanFiles
  <2>1. /\ spc = "files" /\ UNCHANGED <<row, report, scan_no>>
        /\ \A f \in Found : finding_file'[f] = "pending_manual" /\ evidence'[f] = "pending_manual"
        /\ Found' = Found
    BY <1>1, FoundIsFound DEF ScanFiles, db, Found
  <2> QED
    BY <1>0, <2>1 DEF FilesInv, NothingFound, Unfound, Prepared
<1>2. CASE ScanRows
  <2>1. /\ spc = "rows" /\ UNCHANGED <<finding_file, evidence, report>> /\ Found' = Found
    BY <1>2 DEF ScanRows, Found, files
  <2> QED
    BY <1>0, <1>2, <2>1, ScanRowsEffect DEF FilesInv, Prepared
<1>3. CASE UNCHANGED vars
  <2>1. UNCHANGED <<row, report, finding_file, evidence, scan_no, spc>>
    BY <1>3 DEF vars, db, files, scan
  <2>2. Found' = Found
    BY <2>1 DEF Found
  <2> QED
    BY <1>0, <2>1, <2>2 DEF FilesInv, Prepared
<1>4. spc \in {"rows", "delete"} \/ ScanFiles
  BY <1>0 DEF Next, vars, RequestStep, ReviewFinding, ReviewEvidence, ReviewReport, Review,
           ReportReads, ReportWrites, ReportUnmarks, ScanBegins, ScanStep, ScanRows,
           ScanDeletes, ClearBegins, ClearStep, ClearFindingsDir, ClearReportsDir, ClearRows,
           scan
<1>5. ASSUME spc \in {"rows", "delete"}
      PROVE  ScanRows \/ UNCHANGED vars
  <2>1. /\ ~crossed /\ ~Cleaning
        /\ \A r \in Reviewers : ~Reviewing(r)
        /\ \A g \in Reporters : ~Reporting(g)
    BY <1>0, <1>5 DEF OneByOne, Solo, Scanning
  <2>2. ~RequestStep
    BY <2>1 DEF RequestStep, ReviewFinding, ReviewEvidence, ReviewReport, ReportWrites,
                ReportUnmarks, Reviewing, Reporting
  <2>3. ~ClearStep
    BY <2>1 DEF ClearStep, ClearFindingsDir, ClearReportsDir, ClearRows, Cleaning
  <2>4. ~Crosses
    BY <1>5, BeginsAlone DEF OneByOne, Scanning
  <2>5. ~ScanDeletes /\ ~ScanFiles
    BY <1>5 DEF ScanDeletes, ScanFiles
  <2> QED
    BY <1>0, <2>2, <2>3, <2>4, <2>5
    DEF Next, Review, ReportReads, ScanBegins, ClearBegins, ScanStep
<1> QED
  BY <1>1, <1>2, <1>3, <1>4, <1>5

\* After it the files follow the rows, as far as each request has come.
LEMMA FollowingStep ==
    ASSUME Types, ScanInv, Solo, FilesInv, [Next]_vars, OneByOne',
           spc' = "done", cleaner' = "idle"
    PROVE  Following'
<1> USE DEF Reviewing, Reporting
<1>0. /\ OneByOne /\ ~Kill /\ cleaner = "idle"
      /\ spc = "done" \/ ScanDeletes
      /\ ~ScanBegins /\ ~ClearBegins /\ ~ClearStep
  <2>1. OneByOne /\ ~Kill /\ ~ScanBegins /\ ~ClearBegins
    BY OneByOneBefore DEF ScanBegins, ClearBegins
  <2>2. ~ClearStep
    BY DEF ClearStep, ClearFindingsDir, ClearReportsDir, ClearRows
  <2>3. spc = "done" \/ ScanDeletes
    BY <2>1, <2>2 DEF Next, vars, RequestStep, ReviewFinding, ReviewEvidence, ReviewReport,
           Review, ReportReads, ReportWrites, ReportUnmarks, ScanStep, ScanFiles, ScanRows, scan
  <2>4. cleaner = "idle"
    BY <2>1, <2>2 DEF Next, vars, RequestStep, ReviewFinding, ReviewEvidence, ReviewReport,
           Review, ReportReads, ReportWrites, ReportUnmarks, ScanStep, ScanFiles, ScanRows,
           ScanDeletes
  <2> QED
    BY <2>1, <2>2, <2>3, <2>4
<1>1. dirs = {"findings", "reports"} /\ ~crossed
  BY <1>0 DEF ScanInv, OneByOne
<1>2. CASE ScanDeletes
  <2>1. /\ spc = "delete"
        /\ UNCHANGED <<finding_file, evidence, report, rpc, gpc>>
    BY <1>2 DEF ScanDeletes, files, reviewers, reporters
  <2>2. /\ \A r \in Reviewers : ~Reviewing(r)
        /\ \A g \in Reporters : ~Reporting(g)
    BY <1>1, <2>1 DEF Solo, Scanning
  <2>3. \A f \in Findings : Prepared(f)
    BY <1>0, <2>1 DEF FilesInv
  <2>4. Visible' = Visible \cap Found
    BY <1>2, ScanDeletesEffect
  <2>5. ASSUME NEW f \in Visible' PROVE Follows(f)'
    <3>1. f \in Findings /\ row[f] # NoRow /\ row'[f].status = row[f].status
      BY <1>2, <2>4, ScanDeletesEffect DEF Visible
    <3> QED
      BY <2>1, <2>3, <2>4, <3>1 DEF Prepared, Follows
  <2> QED
    BY <2>1, <2>2, <2>5 DEF Following
<1>3. ASSUME spc = "done" PROVE Following
  BY <1>0, <1>3 DEF FilesInv
<1>4. ASSUME NEW r \in Reviewers, Reviewing(r)
      PROVE  /\ \A q \in Reviewers : Reviewing(q) => q = r
             /\ \A g \in Reporters : ~Reporting(g)
  BY <1>1, <1>4 DEF Solo
<1>5. ASSUME NEW g \in Reporters, Reporting(g)
      PROVE  /\ \A h \in Reporters : Reporting(h) => h = g
             /\ \A r \in Reviewers : ~Reviewing(r)
  BY <1>1, <1>5 DEF Solo
<1>6. ASSUME NEW r \in Reviewers, NEW b \in Requests, Review(r, b), spc = "done"
      PROVE  Following'
  <2>1. /\ Crosses /\ \A q \in Reviewers : ~Reviewing(q)
        /\ \A g \in Reporters : ~Reporting(g)
        /\ UNCHANGED <<files, reporters>>
    BY <1>6, BeginsAlone DEF Review, OneByOne
  <2>2. CASE b.finding \in Visible /\ ~Rejected(b)
    <3>1. \A f \in Visible : Follows(f)
      BY <1>3, <1>6, <2>1 DEF Following
    <3>2. evidence[b.finding] # NoFile
      <4>1. row[b.finding].status \in ReviewStatus
        BY <2>2, RowsAreRows DEF Types, Visible
      <4> QED
        BY <2>2, <3>1, <4>1 DEF Follows, NoFile, ReviewStatus
    <3>3. /\ Visible' = Visible
          /\ \A f \in Findings : f # b.finding => row'[f] = row[f]
          /\ rpc' = [rpc EXCEPT ![r] = "finding"]
          /\ body' = [body EXCEPT ![r] = b]
          /\ rcopy' = [rcopy EXCEPT ![r] = row'[b.finding].status]
      BY <1>6, <2>2, ReviewEffect
    <3>4. \A q \in Reviewers : Reviewing(q)' <=> q = r
      BY <2>1, <3>3 DEF Types
    <3>5. body'[r] = b /\ rcopy'[r] = row'[b.finding].status /\ rpc'[r] = "finding"
      BY <3>3 DEF Types
    <3>6. \A f \in Visible' : f # b.finding => Follows(f)'
      BY <2>1, <3>1, <3>3 DEF Follows, files, Visible
    <3>7. \A g \in Reporters : ~Reporting(g)'
      BY <2>1 DEF reporters
    <3>8. ReviewFollows(r)'
      BY <2>1, <3>2, <3>5 DEF ReviewFollows, files
    <3> QED
      BY <2>2, <3>3, <3>4, <3>5, <3>6, <3>7, <3>8 DEF Following
  <2>3. CASE ~(b.finding \in Visible /\ ~Rejected(b))
    <3>1. rpc' = [rpc EXCEPT ![r] = "failed"] /\ UNCHANGED db
      BY <1>6, <2>3 DEF Review, db
    <3>2. \A q \in Reviewers : ~Reviewing(q)'
      BY <2>1, <3>1 DEF Types
    <3>3. Visible' = Visible /\ \A f \in Visible' : Follows(f)'
      BY <1>3, <1>6, <2>1, <3>1 DEF Following, Follows, db, files, Visible
    <3> QED
      BY <2>1, <3>2, <3>3 DEF Following, reporters
  <2> QED
    BY <2>2, <2>3
<1>7. ASSUME NEW r \in Reviewers, ReviewFinding(r), spc = "done"
      PROVE  Following'
  <2>1. Reviewing(r) /\ rpc[r] = "finding"
    BY <1>7 DEF ReviewFinding
  <2>2. /\ finding_file' = [finding_file EXCEPT ![body[r].finding] = rcopy[r]]
        /\ rpc' = [rpc EXCEPT ![r] = "evidence"]
        /\ UNCHANGED <<body, rcopy, db, evidence, report, marked, reporters>>
    BY <1>1, <1>7 DEF ReviewFinding
  <2>3. Visible' = Visible
    BY <2>2 DEF Visible, db
  <2>4. body[r].finding \in Visible /\ body[r].finding \in Findings /\ ReviewFollows(r)
    BY <1>3, <1>7, <2>1 DEF Following, Visible
  <2>5. \A q \in Reviewers : Reviewing(q)' <=> q = r
    BY <1>4, <2>1, <2>2 DEF Types
  <2>6. ReviewFollows(r)'
    BY <2>2, <2>4 DEF ReviewFollows, Types, db
  <2>7. \A f \in Visible' : f # body[r].finding => Follows(f)'
    <3>1. \A f \in Visible : f # body[r].finding => Follows(f)
      BY <1>3, <1>4, <1>7, <2>1 DEF Following
    <3> QED
      BY <2>2, <2>3, <3>1 DEF Follows, Types, db, Visible
  <2> QED
    BY <1>4, <2>1, <2>2, <2>3, <2>4, <2>5, <2>6, <2>7 DEF Following, reporters
<1>8. ASSUME NEW r \in Reviewers, ReviewEvidence(r), spc = "done"
      PROVE  Following'
  <2>1. Reviewing(r) /\ rpc[r] = "evidence"
    BY <1>8 DEF ReviewEvidence
  <2>2. /\ evidence' = [evidence EXCEPT ![body[r].finding] =
                          IF @ = NoFile THEN NoFile ELSE rcopy[r]]
        /\ rpc' = [rpc EXCEPT ![r] = "report"]
        /\ UNCHANGED <<body, rcopy, db, finding_file, report, marked, reporters>>
    BY <1>8 DEF ReviewEvidence
  <2>3. Visible' = Visible
    BY <2>2 DEF Visible, db
  <2>4. body[r].finding \in Visible /\ body[r].finding \in Findings /\ ReviewFollows(r)
    BY <1>3, <1>8, <2>1 DEF Following, Visible
  <2>5. \A q \in Reviewers : Reviewing(q)' <=> q = r
    BY <1>4, <2>1, <2>2 DEF Types
  <2>6. ReviewFollows(r)'
    <3>1. rcopy[r] \in ReviewStatus /\ rcopy[r] # NoFile
      BY <2>1 DEF Types, ReviewStatus, NoFile
    <3>2. evidence'[body[r].finding] = rcopy[r]
      BY <2>2, <2>4 DEF ReviewFollows, Types
    <3> QED
      BY <2>1, <2>2, <2>4, <3>1, <3>2 DEF ReviewFollows, Types, db
  <2>7. \A f \in Visible' : f # body[r].finding => Follows(f)'
    <3>1. \A f \in Visible : f # body[r].finding => Follows(f)
      BY <1>3, <1>4, <1>8, <2>1 DEF Following
    <3> QED
      BY <2>2, <2>3, <3>1 DEF Follows, Types, db, Visible
  <2> QED
    BY <1>4, <2>1, <2>2, <2>3, <2>4, <2>5, <2>6, <2>7 DEF Following, reporters
<1>9. ASSUME NEW r \in Reviewers, ReviewReport(r), spc = "done"
      PROVE  Following'
  <2>1. Reviewing(r) /\ rpc[r] = "report"
    BY <1>9 DEF ReviewReport
  <2>2. /\ marked' = IF report[body[r].finding] # NoFile THEN marked \cup {body[r].finding}
                     ELSE marked
        /\ rpc' = [rpc EXCEPT ![r] = "done"]
        /\ UNCHANGED <<db, finding_file, evidence, report, reporters>>
    BY <1>9 DEF ReviewReport, MarkReport
  <2>3. Visible' = Visible
    BY <2>2 DEF Visible, db
  <2>4. body[r].finding \in Visible /\ ReviewFollows(r)
    BY <1>3, <1>9, <2>1 DEF Following
  <2>5. \A q \in Reviewers : ~Reviewing(q)'
    BY <1>4, <2>1, <2>2 DEF Types
  <2>0. PICK e : e = body[r].finding
    OBVIOUS
  <2>6. \A f \in Visible : f # e => Follows(f)
    BY <1>3, <1>4, <1>9, <2>0, <2>1 DEF Following
  <2>7. \A f \in Visible' : f # e => Follows(f)'
    BY <2>2, <2>3, <2>6 DEF Follows, db
  <2>8. Follows(e)'
    <3>1. finding_file[e] = row[e].status /\ evidence[e] = row[e].status
      BY <2>0, <2>1, <2>4 DEF ReviewFollows
    <3>2. report[e] = NoFile \/ e \in marked'
      BY <2>0, <2>2
    <3> QED
      BY <2>2, <3>1, <3>2 DEF Follows, db
  <2> QED
    BY <1>4, <2>1, <2>2, <2>3, <2>5, <2>7, <2>8 DEF Following, reporters
<1>10. ASSUME NEW g \in Reporters, NEW f \in Findings, ReportReads(g, f), spc = "done"
       PROVE  Following'
  <2>1. /\ \A r \in Reviewers : ~Reviewing(r)
        /\ \A h \in Reporters : ~Reporting(h)
        /\ UNCHANGED <<db, files, reviewers>>
    BY <1>10, BeginsAlone DEF ReportReads, OneByOne
  <2>2. Visible' = Visible /\ (\A e \in Visible' : Follows(e)') /\ \A r \in Reviewers : ~Reviewing(r)'
    BY <1>3, <1>10, <2>1 DEF Following, Follows, db, files, reviewers, Visible
  <2>3. CASE f \in Visible
    BY <1>10, <2>1, <2>2, <2>3 DEF ReportReads, Following, ReportFollows, Types, db
  <2>4. CASE f \notin Visible
    BY <1>10, <2>1, <2>2, <2>4 DEF ReportReads, Following, Types
  <2> QED
    BY <2>3, <2>4
<1>11. ASSUME NEW g \in Reporters, ReportWrites(g), spc = "done"
       PROVE  Following'
  <2>1. Reporting(g) /\ gcopy[g] \in Findings \X ReviewStatus
    BY <1>11 DEF ReportWrites, Types
  <2>2. /\ report' = [report EXCEPT ![gcopy[g][1]] = gcopy[g][2]]
        /\ gpc' = [gpc EXCEPT ![g] = "unmark"]
        /\ UNCHANGED <<db, finding_file, evidence, marked, reviewers, gcopy>>
    BY <1>11 DEF ReportWrites
  <2>3. gcopy[g][1] \in Visible /\ ReportFollows(g)
    BY <1>3, <1>11, <2>1 DEF Following
  <2>4. Visible' = Visible /\ \A r \in Reviewers : ~Reviewing(r)'
    BY <1>5, <2>1, <2>2 DEF Visible, db, reviewers
  <2>5. \A h \in Reporters : Reporting(h)' <=> h = g
    BY <1>5, <2>1, <2>2 DEF Types
  <2>6. \A f \in Visible' : Follows(f)'
    <3>1. \A f \in Visible : f \in Findings /\ Follows(f)
      BY <1>3, <1>5, <1>11, <2>1 DEF Following, Visible
    <3> QED
      BY <2>2, <2>3, <2>4, <3>1 DEF Follows, ReportFollows, Types, db
  <2>7. ReportFollows(g)'
    BY <2>1, <2>2, <2>3 DEF ReportFollows, Types, db
  <2> QED
    BY <2>2, <2>3, <2>4, <2>5, <2>6, <2>7 DEF Following
<1>12. ASSUME NEW g \in Reporters, ReportUnmarks(g), spc = "done"
       PROVE  Following'
  <2>1. Reporting(g) /\ gpc[g] = "unmark"
    BY <1>12 DEF ReportUnmarks
  <2>2. /\ marked' = marked \ {gcopy[g][1]}
        /\ gpc' = [gpc EXCEPT ![g] = "done"]
        /\ UNCHANGED <<db, finding_file, evidence, report, reviewers>>
    BY <1>12 DEF ReportUnmarks
  <2>3. ReportFollows(g)
    BY <1>3, <1>12, <2>1 DEF Following
  <2>4. Visible' = Visible /\ \A r \in Reviewers : ~Reviewing(r)'
    BY <1>5, <2>1, <2>2 DEF Visible, db, reviewers
  <2>5. \A h \in Reporters : ~Reporting(h)'
    BY <1>5, <2>1, <2>2 DEF Types
  <2>6. \A f \in Visible' : Follows(f)'
    <3>1. \A f \in Visible : Follows(f)
      BY <1>3, <1>5, <1>12, <2>1 DEF Following
    <3> QED
      BY <2>1, <2>2, <2>3, <2>4, <3>1 DEF Follows, ReportFollows, db
  <2> QED
    BY <2>4, <2>5, <2>6 DEF Following
<1>13. CASE UNCHANGED vars /\ spc = "done"
  BY <1>3, <1>13 DEF vars, db, files, reviewers, reporters, Following, Visible, Follows,
                     ReviewFollows, ReportFollows
<1>14. spc = "done" => ~ScanFiles /\ ~ScanRows
  BY DEF ScanFiles, ScanRows
<1> QED
  BY <1>0, <1>2, <1>6, <1>7, <1>8, <1>9, <1>10, <1>11, <1>12, <1>13, <1>14
  DEF Next, RequestStep, ScanStep
-----------------------------------------------------------------------------
LEMMA IInvInit ==
    Init => IInv
<1> SUFFICES ASSUME Init PROVE IInv
  OBVIOUS
<1>1. Types
  <2>1. /\ row \in [Findings -> {NoRow} \cup Rows]
        /\ history \in [Findings -> Seq(Records)]
    <3>1. << >> \in Seq(Records)
      OBVIOUS
    <3> QED
      BY <3>1 DEF Init
  <2>2. /\ finding_file \in [Findings -> ReviewStatus \cup {NoFile}]
        /\ evidence \in [Findings -> ReviewStatus \cup {NoFile}]
        /\ report \in [Findings -> ReviewStatus \cup {NoFile}]
        /\ marked \in SUBSET Findings
        /\ dirs \in SUBSET {"findings", "reports"}
    BY DEF Init
  <2>3. /\ rpc \in [Reviewers -> Done \cup {"finding", "evidence", "report"}]
        /\ body \in [Reviewers -> Requests \cup {NoBody}]
        /\ rcopy \in [Reviewers -> ReviewStatus \cup {"none"}]
        /\ \A r \in Reviewers : ~Reviewing(r)
    BY DEF Init, Done, Reviewing
  <2>4. /\ gpc \in [Reporters -> Done \cup {"write", "unmark"}]
        /\ gcopy \in [Reporters -> (Findings \X ReviewStatus) \cup {<<"none", "none">>}]
        /\ \A g \in Reporters : ~Reporting(g)
    BY DEF Init, Done, Reporting
  <2>5. scan_no \in 0..Len(Scans)
    <3>1. Len(Scans) \in Nat
      BY FindingStoreAssumption
    <3> QED
      BY <3>1 DEF Init
  <2>6. /\ spc \in {"idle", "done", "failed", "files", "rows", "delete"}
        /\ at \in Nat \ {0}
        /\ shown \in SUBSET Findings
        /\ cleaner \in Done \cup {"findings", "reports", "rows"}
        /\ crossed \in BOOLEAN
        /\ kills \in Nat
    <3>1. spc = "idle" /\ cleaner = "idle" /\ at = 1 /\ shown = {} /\ kills = 0
      BY DEF Init
    <3>2. crossed \in BOOLEAN
      BY Zenon DEF Init
    <3>3. at \in Nat \ {0} /\ kills \in Nat
      BY <3>1
    <3> QED
      BY <3>1, <3>2, <3>3, Zenon DEF Done
  <2> QED
    BY <2>1, <2>2, <2>3, <2>4, <2>5, <2>6, Zenon DEF Types
<1>2. HistoryIsAChain
  BY DEF Init, HistoryIsAChain, AppliedOnce
<1>3. ScanInv
  BY DEF Init, ScanInv, Visible
<1>4. Solo /\ Cleared
  BY DEF Init, Solo, Cleared, Reviewing, Reporting, Scanning, Cleaning
<1>5. FilesInv
  BY DEF Init, FilesInv, NothingFound, Unfound, Reviewing, Reporting
<1> QED
  BY <1>1, <1>2, <1>3, <1>4, <1>5 DEF IInv

LEMMA IInvStep ==
    IInv /\ [Next]_vars => IInv'
<1> SUFFICES ASSUME IInv, [Next]_vars PROVE IInv'
  OBVIOUS
<1>1. Types /\ HistoryIsAChain /\ ScanInv /\ Solo /\ Cleared /\ FilesInv
  BY DEF IInv
<1>2. Types' /\ HistoryIsAChain' /\ ScanInv' /\ Solo' /\ Cleared'
  BY <1>1, TypesStep, ChainStep, ScanStepKeeps, SoloStep, ClearedStep
<1>3. FilesInv'
  BY <1>1, NothingFoundStep, PreparedStep, FollowingStep DEF FilesInv
<1> QED
  BY <1>2, <1>3 DEF IInv

\* The induction over the steps of the specification: each of the theorems
\* below is one of its conjuncts, or follows from them.
THEOREM Invariance == Spec => []IInv
BY IInvInit, IInvStep, PTL DEF Spec

\* Types, and: what a review or a report request took from the database in its
\* first step (the body and the row of review_finding, the finding of
\* finding_report) is in its hands as long as it writes files.
THEOREM TypeCorrect == Spec => []Types
<1>1. IInv => Types
  BY DEF IInv
<1> QED
  BY <1>1, Invariance, PTL

\* review_finding, replace_findings and clear_sensitive_content keep the review
\* history of every finding a chain of applied requests: no request_id is
\* applied twice, each record names the status before it, and the row shows the
\* last one, through scans that find the finding again and kills of the server.
THEOREM ReviewsAreAChain == Spec => []HistoryIsAChain
<1>1. IInv => HistoryIsAChain
  BY DEF IInv
<1> QED
  BY <1>1, Invariance, PTL

\* replace_findings, one transaction per batch of any size: what two scans in a
\* row found never disappears between the batches, and after the last one the
\* findings of that scan and no others are visible.
THEOREM ScansReplaceWhole == Spec => []ReplacedWhole
<1>1. IInv => ReplacedWhole
  BY DEF IInv, Types, ScanInv, ReplacedWhole
<1> QED
  BY <1>1, Invariance, PTL

\* The files the routes write after the row (sync_finding_review,
\* mark_report_stale, finding_report) show the status of the row when requests
\* came one by one, and clear_sensitive_content leaves nothing behind.
THEOREM FilesAreInStep == Spec => []FilesFollow
<1>1. ASSUME IInv PROVE FilesFollow
  <2>1. Types /\ ScanInv /\ Cleared /\ FilesInv
    BY <1>1 DEF IInv
  <2>2. cleaner = "done" /\ ~crossed =>
          \A f \in Findings : /\ row[f] = NoRow /\ history[f] = << >>
                               /\ {finding_file[f], evidence[f], report[f]} = {NoFile}
    BY <2>1 DEF Cleared
  <2>3. ASSUME Quiet, ~crossed, scan_no = 1, NEW f \in Visible PROVE Follows(f)
    <3>1. /\ \A r \in Reviewers : ~Reviewing(r)
          /\ spc \in {"idle", "done", "failed"} /\ cleaner \in Done /\ OneByOne
      BY <2>1, <2>3 DEF Quiet, Busy, Done, Reviewing, OneByOne
    <3>2. spc = "done"
      BY <2>1, <2>3, <3>1 DEF ScanInv, FilesInv, NothingFound, Unfound, Visible
    <3>3. cleaner = "idle"
      BY <2>1, <2>2, <2>3, <3>1 DEF ScanInv, Quiet, Done, Visible
    <3> QED
      BY <2>1, <3>1, <3>2, <3>3 DEF FilesInv, Following
  <2> QED
    BY <2>2, <2>3 DEF FilesFollow, Follows
<1> QED
  BY <1>1, Invariance, PTL
=============================================================================
