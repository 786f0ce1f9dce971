------------------------ MODULE AnalysisProofs ------------------------
(***************************************************************************)
(* Proofs about CandidateAnalysis and ContextSlice, for any number of       *)
(* candidates, any index and any limits.                                    *)
(*                                                                          *)
(* CandidateAnalysis: the candidates share the budget and the pool, but     *)
(* what is written into one depends on its own way through the stage; the   *)
(* invariant says of each place what has been written so far.               *)
(*                                                                          *)
(* ContextSlice: the slices share the call relations, which are complete    *)
(* for the methods they were loaded for, whoever asked; a slice only grows, *)
(* so an answer that was true of it, and the place of an anchor in it, stay *)
(* so; and trimming keeps the important lines of every context of the core. *)
(***************************************************************************)
EXTENDS CandidateAnalysis, ContextSlice, DataTheorems

Verifying == {"verify", "verifying"}
Analysing == {"analyse", "analysing", "finalize", "finalizing"}
Places == {"queued", "ended"} \cup Verifying \cup Analysing
Written == [analysis_status : {"rule_only", "ai_completed", "ai_incomplete", "ai_failed", "ai_skipped"},
            promotion_requested : BOOLEAN,
            verify : {"none", "used", "undecided", "fell_back"}]
StageStatuses == {"preflight", "running", "completed", "partial", "failed", "skipped"}
Counts == [{"attempted", "completed", "fallback", "failed_no_fallback"} -> Nat]
Summaries == [Statuses -> Nat]

StatusOf(r) ==
    CASE r = "completed" -> "ai_completed"
      [] r = "incomplete" -> "ai_incomplete"
      [] r = "failed" -> "ai_failed"
      [] OTHER -> "ai_skipped"

\* A candidate that no worker has got yet, or ever will.
Waiting(c) ==
    pc[c] = "queued" =>
        /\ outcome[c] \in {"pending", "skipped"}
        /\ ~candidate[c].promotion_requested
        /\ c \notin checkpoint
        /\ verify_round[c] = 0
        /\ candidate[c].verify = "none"
        /\ outcome[c] = "skipped" => Recorded
        /\ Analysed => candidate[c].analysis_status # "rule_only"
        /\ ~Recorded => candidate[c].analysis_status = "rule_only"

\* One on its way has nothing written into it but that its verification fell
\* back, and the verification of one that is analysed did.
OnItsWay(c) ==
    pc[c] \in Verifying \cup Analysing =>
        /\ outcome[c] = "running"
        /\ stage.status = "running"
        /\ candidate[c].analysis_status = "rule_only"
        /\ ~candidate[c].promotion_requested
        /\ c \notin checkpoint
        /\ pc[c] \in Verifying => c \in L2 /\ candidate[c].verify = "none"
        /\ pc[c] = "verify" => verify_round[c] < MaxVerifyRounds
        /\ pc[c] \in Analysing =>
              /\ candidate[c].verify \in {"none", "fell_back"}
              /\ verify_round[c] > 0 => candidate[c].verify = "fell_back"

\* One that has ended.
Settled(c) ==
    pc[c] = "ended" =>
        /\ outcome[c] \in {"succeeded", "failed"}
        /\ stage.status # "preflight"
        /\ outcome[c] = "succeeded" => candidate[c].analysis_status = StatusOf(result[c])
        /\ candidate[c].promotion_requested =>
              /\ c \in L2
              /\ candidate[c].verify # "undecided"
              /\ candidate[c].analysis_status = "ai_completed" \/ outcome[c] = "failed"
        /\ c \in checkpoint => result[c] = "completed" \/ outcome[c] = "failed"
        /\ Analysed => candidate[c].analysis_status # "rule_only"
        /\ settings.fallback /\ outcome[c] = "succeeded" /\ verify_round[c] > 0 =>
              candidate[c].verify # "none"

Told(c) == Waiting(c) /\ OnItsWay(c) /\ Settled(c)

BudgetBounded == requests_used <= MaxRequestsPerRun

IInv == TypeOK /\ BudgetBounded /\ \A c \in Candidates : Told(c)
-----------------------------------------------------------------------------
(* How a candidate is written to                                            *)

LEMMA WrittenType ==
    ASSUME TypeOK, NEW c \in Candidates, NEW status \in {"ai_incomplete", "ai_failed", "ai_skipped"}
    PROVE  /\ Marked(c, status) \in Written
           /\ Marked(c, status).analysis_status = status
           /\ Marked(c, status).promotion_requested = candidate[c].promotion_requested
           /\ Marked(c, status).verify = candidate[c].verify
<1>1. candidate[c] \in Written
  BY DEF TypeOK, Written
<1> QED
  BY <1>1 DEF Marked, Written

\* The end of a candidate: every step that ends one is an instance of this.
Ends(c, written) ==
    /\ pc' = [pc EXCEPT ![c] = "ended"]
    /\ candidate' = [candidate EXCEPT ![c] = written]
    /\ \E out \in {"succeeded", "failed"} :
          /\ outcome' = [outcome EXCEPT ![c] = out]
          /\ out = "succeeded" => written.analysis_status = StatusOf(result'[c])
          /\ c \in checkpoint' => result'[c] = "completed" \/ out = "failed"
    /\ \E status \in Statuses : result' \in {result, [result EXCEPT ![c] = status]}
    /\ checkpoint' \in {checkpoint, checkpoint \cup {c}}
    /\ stopped' \in BOOLEAN /\ UNCHANGED closed

LEMMA EndEnds ==
    ASSUME TypeOK, NEW c \in Candidates, c \notin checkpoint,
           NEW status \in Statuses, NEW breaking \in BOOLEAN,
           NEW written \in Written, written.analysis_status = StatusOf(status),
           End(c, status, breaking, written)
    PROVE  Ends(c, written)
<1> USE DEF TypeOK
<1>1. CASE Returns(c, status, breaking)
  <2>1. result'[c] = status /\ result' = [result EXCEPT ![c] = status]
    BY <1>1 DEF Returns
  <2>2. outcome' = [outcome EXCEPT ![c] = "succeeded"] /\ stopped' \in BOOLEAN /\ UNCHANGED closed
    BY <1>1 DEF Returns, Pool!Finish
  <2>3. /\ checkpoint' \in {checkpoint, checkpoint \cup {c}}
        /\ c \in checkpoint' => status = "completed"
    BY <1>1 DEF Returns
  <2> QED
    BY <2>1, <2>2, <2>3 DEF End, Ends
<1>2. CASE TailRaises(c, status, breaking)
  <2>1. outcome' = [outcome EXCEPT ![c] = "failed"] /\ stopped' \in BOOLEAN /\ UNCHANGED <<closed, result>>
    BY <1>2 DEF TailRaises, Pool!Finish
  <2>2. checkpoint' \in {checkpoint, checkpoint \cup {c}}
    BY <1>2 DEF TailRaises
  <2> QED
    BY <2>1, <2>2 DEF End, Ends
<1> QED
  BY <1>1, <1>2 DEF End

LEMMA RaiseEnds ==
    ASSUME TypeOK, NEW c \in Candidates, c \notin checkpoint, Raise(c)
    PROVE  Ends(c, candidate[c])
<1> USE DEF TypeOK
<1>1. outcome' = [outcome EXCEPT ![c] = "failed"] /\ stopped' \in BOOLEAN /\ UNCHANGED closed
  BY DEF Raise, Pool!Finish
<1>2. candidate' = [candidate EXCEPT ![c] = candidate[c]]
  BY DEF Raise
<1> QED
  BY <1>1, <1>2 DEF Raise, Ends, Statuses

LEMMA EndsTypes ==
    ASSUME TypeOK, NEW c \in Candidates, NEW written \in Written, Ends(c, written)
    PROVE  /\ pc' \in [Candidates -> Places]
           /\ candidate' \in [Candidates -> Written]
           /\ outcome' \in [Candidates -> {"pending", "running", "succeeded", "failed", "skipped"}]
           /\ result' \in [Candidates -> {"none"} \cup Statuses]
           /\ checkpoint' \subseteq Candidates
           /\ stopped' \in BOOLEAN /\ closed' \in BOOLEAN
<1> USE DEF TypeOK, Ends
<1>1. pc' \in [Candidates -> Places] /\ candidate' \in [Candidates -> Written]
  BY DEF Places, Verifying, Analysing, Written
<1>2. PICK status \in Statuses : result' \in {result, [result EXCEPT ![c] = status]}
  OBVIOUS
<1>3. result' \in [Candidates -> {"none"} \cup Statuses]
  BY <1>2
<1> QED
  BY <1>1, <1>3

\* What must be written for the end to be told truthfully.
LEMMA EndsTold ==
    ASSUME TypeOK, NEW c \in Candidates, NEW written \in Written, Ends(c, written),
           stage.status = "running", UNCHANGED <<stage, settings>>,
           written.promotion_requested =>
              c \in L2 /\ written.verify # "undecided" /\ written.analysis_status = "ai_completed",
           settings.fallback /\ verify_round'[c] > 0 => written.verify # "none" \/ outcome'[c] = "failed"
    PROVE  Told(c)'
<1>1. pc'[c] = "ended" /\ candidate'[c] = written
  BY DEF Ends, TypeOK
<1>2. PICK out \in {"succeeded", "failed"} :
        /\ outcome'[c] = out
        /\ out = "succeeded" => written.analysis_status = StatusOf(result'[c])
        /\ c \in checkpoint' => result'[c] = "completed" \/ out = "failed"
  BY DEF Ends, TypeOK
<1>3. ~Analysed'
  BY DEF Analysed
<1>4. Waiting(c)' /\ OnItsWay(c)'
  BY <1>1 DEF Waiting, OnItsWay, Verifying, Analysing
<1>5. Settled(c)'
  BY <1>1, <1>2, <1>3 DEF Settled
<1> QED
  BY <1>4, <1>5 DEF Told

\* The end of another candidate, or any move of it, is nothing to this one.
LEMMA OthersTold ==
    ASSUME NEW d \in Candidates, Told(d),
           UNCHANGED <<pc[d], outcome[d], candidate[d], result[d], verify_round[d],
                       settings, stage>>,
           d \in checkpoint' <=> d \in checkpoint
    PROVE  Told(d)'
<1>1. (Recorded' <=> Recorded) /\ (Analysed' <=> Analysed)
  BY DEF Recorded, Analysed
<1>2. Waiting(d)'
  BY <1>1 DEF Told, Waiting
<1>3. OnItsWay(d)'
  BY DEF Told, OnItsWay, Verifying, Analysing
<1>4. Settled(d)'
  BY <1>1 DEF Told, Settled
<1> QED
  BY <1>2, <1>3, <1>4 DEF Told

LEMMA EndsOthers ==
    ASSUME TypeOK, NEW c \in Candidates, NEW written, Ends(c, written),
           NEW d \in Candidates, d # c
    PROVE  /\ UNCHANGED <<pc[d], outcome[d], candidate[d], result[d]>>
           /\ d \in checkpoint' <=> d \in checkpoint
BY DEF TypeOK, Ends

\* Every step of a candidate is one of four.
Starts(c) ==
    /\ stage.status = "running" /\ outcome[c] = "pending"
    /\ \E place \in {"verify", "analyse"} :
          pc' = [pc EXCEPT ![c] = place] /\ (place = "verify" => c \in L2)
    /\ outcome' = [outcome EXCEPT ![c] = "running"]
    /\ UNCHANGED <<stopped, closed, candidate, result, checkpoint, verify_round>>

GoesOn(c) ==
    /\ \/ pc[c] \in Verifying /\ pc' = [pc EXCEPT ![c] = "verifying"]
       \/ /\ pc[c] \in Verifying /\ pc' = [pc EXCEPT ![c] = "verify"]
          /\ verify_round'[c] < MaxVerifyRounds
       \/ /\ pc[c] \in Analysing /\ UNCHANGED verify_round
          /\ \E place \in Analysing : pc' = [pc EXCEPT ![c] = place]
    /\ UNCHANGED <<pool, candidate, result, checkpoint>>

FallsBack(c) ==
    /\ pc[c] \in Verifying
    /\ pc' = [pc EXCEPT ![c] = "analyse"]
    /\ candidate' = [candidate EXCEPT ![c].verify = "fell_back"]
    /\ UNCHANGED <<pool, result, checkpoint, verify_round>>

EndsWell(c) ==
    /\ pc[c] \in Verifying \cup Analysing
    /\ UNCHANGED verify_round
    /\ \E written \in Written :
          /\ Ends(c, written)
          /\ written.promotion_requested =>
                c \in L2 /\ written.verify # "undecided" /\ written.analysis_status = "ai_completed"
          /\ settings.fallback /\ verify_round[c] > 0 => written.verify # "none"

Small(c) == Starts(c) \/ GoesOn(c) \/ FallsBack(c) \/ EndsWell(c)

LEMMA StartsFrom ==
    ASSUME IInv, NEW c \in Candidates, Starts(c)
    PROVE  pc[c] = "queued"
BY DEF IInv, TypeOK, Starts, Told, OnItsWay, Settled, Verifying, Analysing

LEMMA SmallTypes ==
    ASSUME IInv, NEW c \in Candidates, Small(c)
    PROVE  /\ pc' \in [Candidates -> Places]
           /\ candidate' \in [Candidates -> Written]
           /\ outcome' \in [Candidates -> {"pending", "running", "succeeded", "failed", "skipped"}]
           /\ result' \in [Candidates -> {"none"} \cup Statuses]
           /\ checkpoint' \subseteq Candidates
           /\ stopped' \in BOOLEAN /\ closed' \in BOOLEAN
<1> USE DEF IInv
<1>1. CASE Starts(c)
  BY <1>1 DEF Starts, TypeOK, Places, Verifying, Analysing, Written
<1>2. CASE GoesOn(c)
  BY <1>2 DEF GoesOn, TypeOK, Places, Verifying, Analysing, Written, pool
<1>3. CASE FallsBack(c)
  <2>1. candidate[c] \in Written
    BY DEF TypeOK, Written
  <2>2. [candidate[c] EXCEPT !.verify = "fell_back"] \in Written
    BY <2>1 DEF Written
  <2>3. candidate' \in [Candidates -> Written]
    BY <1>3, <2>2 DEF FallsBack, TypeOK, Written
  <2> QED
    BY <1>3, <2>3 DEF FallsBack, TypeOK, Places, Verifying, Analysing, pool
<1>4. CASE EndsWell(c)
  BY <1>4, EndsTypes DEF EndsWell
<1> QED
  BY <1>1, <1>2, <1>3, <1>4 DEF Small

LEMMA SmallTold ==
    ASSUME IInv, NEW c \in Candidates, Small(c), UNCHANGED <<settings, stage>>,
           verify_round' = verify_round
             \/ (GoesOn(c) /\ \E n : verify_round' = [verify_round EXCEPT ![c] = n])
    PROVE  \A d \in Candidates : Told(d)'
<1> USE DEF IInv
<1>0. (Recorded' <=> Recorded) /\ (Analysed' <=> Analysed)
  BY DEF Recorded, Analysed
<1>1. ASSUME NEW d \in Candidates, d # c PROVE Told(d)'
  <2>1. UNCHANGED verify_round[d]
    BY <1>1 DEF TypeOK
  <2>2. /\ UNCHANGED <<pc[d], outcome[d], candidate[d], result[d]>>
        /\ d \in checkpoint' <=> d \in checkpoint
    <3>1. CASE Starts(c) \/ GoesOn(c) \/ FallsBack(c)
      BY <1>1, <3>1 DEF Starts, GoesOn, FallsBack, TypeOK, pool
    <3>2. CASE EndsWell(c)
      BY <1>1, <3>2, EndsOthers DEF EndsWell
    <3> QED
      BY <3>1, <3>2 DEF Small
  <2> QED
    BY <2>1, <2>2, OthersTold
<1>2. CASE Starts(c)
  <2>1. pc[c] = "queued"
    BY <1>2, StartsFrom
  <2>2. pc'[c] \in {"verify", "analyse"} /\ (pc'[c] = "verify" => c \in L2) /\ outcome'[c] = "running"
    BY <1>2 DEF Starts, TypeOK
  <2>3. UNCHANGED <<candidate[c], checkpoint, verify_round>> /\ stage'.status = "running"
    BY <1>2 DEF Starts
  <2>4. ~Recorded /\ MaxVerifyRounds > 0
    BY <1>2, CandidateAnalysisAssumption DEF Starts, Recorded
  <2>5. OnItsWay(c)'
    BY <2>1, <2>2, <2>3, <2>4 DEF Told, Waiting, OnItsWay, Verifying, Analysing
  <2>6. Waiting(c)' /\ Settled(c)'
    BY <2>2 DEF Waiting, Settled
  <2> QED
    BY <1>1, <2>5, <2>6 DEF Told
<1>3. CASE GoesOn(c)
  <2>1. UNCHANGED <<outcome[c], candidate[c], checkpoint>>
    BY <1>3 DEF GoesOn, pool
  <2>2. /\ pc[c] \in Verifying \cup Analysing
        /\ pc'[c] \in Verifying => pc[c] \in Verifying
        /\ pc'[c] \in Analysing => pc[c] \in Analysing /\ UNCHANGED verify_round
        /\ pc'[c] \in Verifying \cup Analysing
        /\ pc'[c] = "verify" => verify_round'[c] < MaxVerifyRounds
    BY <1>3 DEF GoesOn, TypeOK, Verifying, Analysing
  <2>3. OnItsWay(c)'
    BY <2>1, <2>2 DEF Told, OnItsWay, Verifying, Analysing
  <2>4. Waiting(c)' /\ Settled(c)'
    BY <2>2 DEF Waiting, Settled, Verifying, Analysing
  <2> QED
    BY <1>1, <2>3, <2>4 DEF Told
<1>4. CASE FallsBack(c)
  <2>1. UNCHANGED <<outcome[c], checkpoint>> /\ pc'[c] = "analyse" /\ pc[c] \in Verifying
    BY <1>4 DEF FallsBack, pool, TypeOK
  <2>2. /\ candidate'[c].verify = "fell_back"
        /\ candidate'[c].analysis_status = candidate[c].analysis_status
        /\ candidate'[c].promotion_requested = candidate[c].promotion_requested
    BY <1>4 DEF FallsBack, TypeOK
  <2>3. OnItsWay(c)'
    BY <2>1, <2>2 DEF Told, OnItsWay, Verifying, Analysing
  <2>4. Waiting(c)' /\ Settled(c)'
    BY <2>1 DEF Waiting, Settled
  <2> QED
    BY <1>1, <2>3, <2>4 DEF Told
<1>5. CASE EndsWell(c)
  <2>1. PICK written \in Written :
          /\ Ends(c, written)
          /\ written.promotion_requested =>
                c \in L2 /\ written.verify # "undecided" /\ written.analysis_status = "ai_completed"
          /\ settings.fallback /\ verify_round[c] > 0 => written.verify # "none"
    BY <1>5 DEF EndsWell
  <2>2. stage.status = "running" /\ UNCHANGED verify_round
    BY <1>5 DEF EndsWell, Told, OnItsWay
  <2> QED
    BY <1>1, <2>1, <2>2, EndsTold
<1> QED
  BY <1>2, <1>3, <1>4, <1>5 DEF Small
-----------------------------------------------------------------------------
(* The actions are such steps                                               *)

\* The variables Small says nothing of.
RestTypes ==
    /\ settings \in Settings
    /\ round \in [Candidates -> 0..MaxExpansions]
    /\ request_count \in [Candidates -> Nat]
    /\ verify_round \in [Candidates -> 0..MaxVerifyRounds]
    /\ requests_used \in Nat /\ verify_requests_used \in Nat
    /\ explorer_requests_used \in Nat /\ analyzed_count \in Nat
    /\ verify_counts \in Counts
    /\ stage \in [status : StageStatuses, summary : Summaries]
    /\ BudgetBounded

LEMMA TypesSplit == TypeOK /\ BudgetBounded => RestTypes
BY DEF TypeOK, RestTypes, Counts, StageStatuses, Summaries

LEMMA TypesJoin ==
    ASSUME RestTypes',
           pc' \in [Candidates -> Places],
           candidate' \in [Candidates -> Written],
           outcome' \in [Candidates -> {"pending", "running", "succeeded", "failed", "skipped"}],
           result' \in [Candidates -> {"none"} \cup Statuses],
           checkpoint' \subseteq Candidates,
           stopped' \in BOOLEAN /\ closed' \in BOOLEAN
    PROVE  TypeOK' /\ BudgetBounded'
BY DEF TypeOK, RestTypes, Places, Verifying, Analysing, Written, Counts, StageStatuses, Summaries

\* A step of a candidate as the invariant sees it.
StepOf(c) ==
    /\ Small(c)
    /\ UNCHANGED <<settings, stage>>
    /\ \/ verify_round' = verify_round
       \/ GoesOn(c) /\ \E n : verify_round' = [verify_round EXCEPT ![c] = n]
    /\ RestTypes'

LEMMA CountUp ==
    ASSUME verify_counts \in Counts,
           NEW k \in {"attempted", "completed", "fallback", "failed_no_fallback"}
    PROVE  [verify_counts EXCEPT ![k] = @ + 1] \in Counts
BY DEF Counts

LEMMA FallBackSmall ==
    ASSUME IInv, NEW c \in Candidates, pc[c] \in Verifying, FallBack(c), UNCHANGED calls
    PROVE  FallsBack(c) /\ Small(c) /\ verify_counts' \in Counts
<1>1. verify_counts' \in Counts
  BY CountUp DEF FallBack, IInv, TypeOK, Counts
<1> QED
  BY <1>1 DEF FallBack, FallsBack, Small, calls

\* A verification that fails, with and without the fallback.
LEMMA VerifyFailsSmall ==
    ASSUME IInv, NEW c \in Candidates, pc[c] \in Verifying,
           NEW status \in {"failed", "skipped"}, VerifyFails(c, status), UNCHANGED <<fixed, verify_round>>
    PROVE  Small(c) /\ verify_counts' \in Counts
<1> USE DEF IInv
<1>1. CASE settings.fallback
  <2>1. FallBack(c)
    BY <1>1 DEF VerifyFails
  <2>2. verify_counts' \in Counts
    BY <2>1, CountUp DEF FallBack, TypeOK, Counts
  <2> QED
    BY <2>1, <2>2 DEF FallBack, FallsBack, Small
<1>2. CASE ~settings.fallback
  <2> DEFINE mark == IF status = "skipped" THEN "ai_skipped" ELSE "ai_failed"
             written == Marked(c, mark)
  <2>1. End(c, status, FALSE, written) /\ verify_counts' \in Counts
    <3>1. verify_counts' = [verify_counts EXCEPT !.failed_no_fallback = @ + 1]
      BY <1>2 DEF VerifyFails
    <3>2. verify_counts' \in Counts
      BY <3>1, CountUp DEF TypeOK, Counts
    <3>3. End(c, status, FALSE, written)
      BY <1>2 DEF VerifyFails
    <3> QED
      BY <3>2, <3>3
  <2>2. mark \in {"ai_failed", "ai_skipped"} /\ mark = StatusOf(status)
    BY DEF StatusOf
  <2> HIDE DEF mark
  <2>3. /\ written \in Written /\ written.analysis_status = mark
        /\ written.promotion_requested = candidate[c].promotion_requested
    BY <2>2, WrittenType
  <2>4. c \notin checkpoint /\ ~candidate[c].promotion_requested
    BY DEF Told, OnItsWay
  <2> HIDE DEF written
  <2>5. Ends(c, written)
    BY <2>1, <2>2, <2>3, <2>4, EndEnds DEF Statuses
  <2>6. EndsWell(c)
    BY <1>2, <2>3, <2>4, <2>5 DEF EndsWell
  <2> QED
    BY <2>1, <2>6 DEF Small
<1> QED
  BY <1>1, <1>2

\* The ends of the analysis.
LEMMA IncompleteSmall ==
    ASSUME IInv, NEW c \in Candidates, pc[c] \in Analysing, UNCHANGED verify_round,
           NEW status \in {"failed", "skipped", "incomplete"}, NEW breaking \in BOOLEAN,
           End(c, status, breaking, Marked(c, StatusOf(status)))
    PROVE  Small(c)
<1> USE DEF IInv
<1> DEFINE written == Marked(c, StatusOf(status))
<1>1. StatusOf(status) \in {"ai_incomplete", "ai_failed", "ai_skipped"}
  BY DEF StatusOf
<1>2. /\ written \in Written /\ written.analysis_status = StatusOf(status)
      /\ written.promotion_requested = candidate[c].promotion_requested
      /\ written.verify = candidate[c].verify
  BY <1>1, WrittenType
<1>3. /\ c \notin checkpoint /\ ~candidate[c].promotion_requested
      /\ verify_round[c] > 0 => candidate[c].verify = "fell_back"
  BY DEF Told, OnItsWay
<1>4. End(c, status, breaking, written)
  OBVIOUS
<1> HIDE DEF written
<1>5. Ends(c, written)
  BY <1>2, <1>3, <1>4, EndEnds DEF Statuses
<1>6. EndsWell(c)
  BY <1>2, <1>3, <1>5 DEF EndsWell
<1> QED
  BY <1>6 DEF Small

LEMMA CompleteSmall ==
    ASSUME IInv, NEW c \in Candidates, pc[c] \in Analysing, UNCHANGED verify_round, Complete(c)
    PROVE  Small(c)
<1> USE DEF IInv
<1>1. /\ c \notin checkpoint /\ ~candidate[c].promotion_requested
      /\ candidate[c].verify \in {"none", "fell_back"}
      /\ verify_round[c] > 0 => candidate[c].verify = "fell_back"
  BY DEF Told, OnItsWay
<1>2. PICK recommended \in BOOLEAN, refs_valid \in BOOLEAN :
        End(c, "completed", FALSE,
            [candidate[c] EXCEPT
               !.analysis_status = "ai_completed",
               !.promotion_requested = @ \/ Promotes(c, recommended, refs_valid)])
  BY DEF Complete
<1> DEFINE written ==
            [candidate[c] EXCEPT
               !.analysis_status = "ai_completed",
               !.promotion_requested = @ \/ Promotes(c, recommended, refs_valid)]
<1>3. candidate[c] \in Written
  BY DEF TypeOK, Written
<1>4. /\ written \in Written /\ written.analysis_status = "ai_completed"
      /\ written.promotion_requested => c \in L2
      /\ written.verify = candidate[c].verify
  BY <1>1, <1>3 DEF Written, Promotes
<1>5. written.analysis_status = StatusOf("completed")
  BY <1>4 DEF StatusOf
<1>6. End(c, "completed", FALSE, written)
  BY <1>2
<1> HIDE DEF written
<1>7. Ends(c, written)
  BY <1>1, <1>4, <1>5, <1>6, EndEnds DEF Statuses
<1>8. EndsWell(c)
  BY <1>1, <1>4, <1>7 DEF EndsWell
<1> QED
  BY <1>8 DEF Small

LEMMA RaiseSmall ==
    ASSUME IInv, NEW c \in Candidates, pc[c] \in Analysing, UNCHANGED verify_round, Raise(c)
    PROVE  Small(c)
<1> USE DEF IInv
<1>1. /\ c \notin checkpoint /\ ~candidate[c].promotion_requested
      /\ verify_round[c] > 0 => candidate[c].verify = "fell_back"
  BY DEF Told, OnItsWay
<1>2. candidate[c] \in Written
  BY DEF TypeOK, Written
<1>3. EndsWell(c)
  BY <1>1, <1>2, RaiseEnds DEF EndsWell
<1> QED
  BY <1>3 DEF Small

LEMMA VerifiedSmall ==
    ASSUME IInv, NEW c \in Candidates, pc[c] \in Verifying, UNCHANGED verify_round,
           NEW undecided \in BOOLEAN, NEW supports \in BOOLEAN, Verified(c, undecided, supports)
    PROVE  Small(c) /\ verify_counts' \in Counts
<1> USE DEF IInv
<1> DEFINE written ==
           [analysis_status |-> "ai_completed",
            promotion_requested |-> supports /\ ~undecided,
            verify |-> IF undecided THEN "undecided" ELSE "used"]
<1>1. /\ written \in Written /\ written.analysis_status = StatusOf("completed")
      /\ written.promotion_requested => written.verify = "used"
      /\ written.analysis_status = "ai_completed" /\ written.verify # "none"
  BY DEF Written, StatusOf
<1>2. End(c, "completed", FALSE, written)
  BY DEF Verified
<1>3. verify_counts' \in Counts
  BY CountUp DEF Verified, TypeOK, Counts
<1>4. c \notin checkpoint /\ c \in L2
  BY DEF Told, OnItsWay
<1> HIDE DEF written
<1>5. Ends(c, written)
  BY <1>1, <1>2, <1>4, EndEnds DEF Statuses
<1>6. EndsWell(c)
  BY <1>1, <1>4, <1>5 DEF EndsWell
<1> QED
  BY <1>3, <1>6 DEF Small

LEMMA CandidateStepSmall ==
    ASSUME IInv, NEW c \in Candidates, CandidateStep(c)
    PROVE  StepOf(c)
<1> USE DEF IInv
<1>0. RestTypes
  BY TypesSplit
<1>1. CASE Begin(c)
  <2>1. /\ stage.status = "running" /\ outcome[c] = "pending"
        /\ outcome' = [outcome EXCEPT ![c] = "running"]
        /\ UNCHANGED <<stopped, closed, candidate, result, checkpoint, fixed, calls, budget, stage>>
        /\ analyzed_count' = analyzed_count + 1
    BY <1>1 DEF Begin, Pool!Begin
  <2>2. \E place \in {"verify", "analyse"} :
           pc' = [pc EXCEPT ![c] = place] /\ (place = "verify" => c \in L2)
    BY <1>1 DEF Begin, VerifyPath
  <2>3. verify_counts' \in Counts
    BY <1>1, CountUp DEF Begin, TypeOK, Counts
  <2>4. Starts(c)
    BY <2>1, <2>2 DEF Starts, calls
  <2>5. RestTypes'
    BY <1>0, <2>1, <2>3 DEF RestTypes, BudgetBounded, fixed, calls, budget
  <2> QED
    BY <2>1, <2>4, <2>5 DEF StepOf, Small, fixed, calls
<1>2. CASE VerifyUnavailable(c)
  <2>1. FallsBack(c) /\ Small(c) /\ verify_counts' \in Counts
    BY <1>2, FallBackSmall DEF VerifyUnavailable, Verifying
  <2>2. RestTypes'
    BY <1>0, <1>2, <2>1 DEF VerifyUnavailable, RestTypes, BudgetBounded, fixed, calls, budget
  <2> QED
    BY <1>2, <2>1, <2>2 DEF VerifyUnavailable, StepOf, fixed, calls
<1>3. CASE NothingToAsk(c)
  <2>1. Small(c) /\ verify_counts' \in Counts
    BY <1>3, VerifyFailsSmall DEF NothingToAsk, Verifying, calls
  <2>2. RestTypes'
    BY <1>0, <1>3, <2>1 DEF NothingToAsk, RestTypes, BudgetBounded, fixed, calls, budget
  <2> QED
    BY <1>3, <2>1, <2>2 DEF NothingToAsk, StepOf, fixed, calls
<1>4. CASE VerifyCall(c)
  <2>1. CASE Affordable /\ ChargeVerify /\ pc' = [pc EXCEPT ![c] = "verifying"]
             /\ verify_round' = [verify_round EXCEPT ![c] = @ + 1]
             /\ UNCHANGED <<pool, candidate, result, checkpoint, verify_counts>>
    <3>1. GoesOn(c)
      BY <1>4, <2>1 DEF VerifyCall, GoesOn, Verifying
    <3>2. verify_round[c] < MaxVerifyRounds /\ verify_round[c] \in Nat
      BY <1>4 DEF VerifyCall, Told, OnItsWay, Verifying, TypeOK
    <3>3. verify_round' \in [Candidates -> 0..MaxVerifyRounds]
      BY <2>1, <3>2, CandidateAnalysisAssumption DEF TypeOK
    <3>4. BudgetBounded' /\ requests_used' \in Nat /\ verify_requests_used' \in Nat
      BY <1>0, <2>1, CandidateAnalysisAssumption
         DEF Affordable, ChargeVerify, BudgetBounded, RestTypes
    <3>5. RestTypes'
      BY <1>0, <1>4, <2>1, <3>3, <3>4 DEF VerifyCall, RestTypes, fixed
    <3> QED
      BY <1>4, <2>1, <3>1, <3>5 DEF VerifyCall, StepOf, Small, fixed
  <2>2. CASE VerifyFails(c, "skipped") /\ UNCHANGED <<budget, verify_round>>
    <3>1. Small(c) /\ verify_counts' \in Counts
      BY <1>4, <2>2, VerifyFailsSmall DEF VerifyCall, Verifying
    <3>2. RestTypes'
      BY <1>0, <1>4, <2>2, <3>1 DEF VerifyCall, RestTypes, BudgetBounded, fixed, budget
    <3> QED
      BY <1>4, <2>2, <3>1, <3>2 DEF VerifyCall, StepOf, fixed
  <2> QED
    BY <1>4, <2>1, <2>2 DEF VerifyCall
<1>5. CASE VerifyAnswer(c)
  <2>1. /\ pc[c] \in Verifying /\ UNCHANGED <<fixed, calls, budget, analyzed_count, stage>>
    BY <1>5 DEF VerifyAnswer, Verifying
  <2>2. Small(c) /\ verify_counts' \in Counts
    <3>1. CASE \E status \in {"failed", "skipped"} : VerifyFails(c, status)
      BY <2>1, <3>1, VerifyFailsSmall DEF calls
    <3>2. CASE FallBack(c)
      BY <2>1, <3>2, FallBackSmall
    <3>3. CASE \E undecided, supports \in BOOLEAN : Verified(c, undecided, supports)
      BY <2>1, <3>3, VerifiedSmall DEF calls
    <3>4. CASE /\ verify_round[c] < MaxVerifyRounds
               /\ pc' = [pc EXCEPT ![c] = "verify"]
               /\ UNCHANGED <<pool, candidate, result, checkpoint, verify_counts>>
      <4>1. GoesOn(c)
        BY <2>1, <3>4 DEF GoesOn, calls
      <4> QED
        BY <3>4, <4>1 DEF Small, TypeOK, Counts
    <3> QED
      BY <1>5, <3>1, <3>2, <3>3, <3>4 DEF VerifyAnswer
  <2>3. RestTypes'
    BY <1>0, <2>1, <2>2 DEF RestTypes, BudgetBounded, fixed, calls, budget
  <2> QED
    BY <2>1, <2>2, <2>3 DEF StepOf, fixed, calls
<1>6. ASSUME NEW from \in Analysing, NEW to \in Analysing, Call(c, from, to) PROVE StepOf(c)
  <2>1. CASE /\ MayCall(c)
             /\ requests_used' = requests_used + 1
             /\ request_count' = [request_count EXCEPT ![c] = @ + 1]
             /\ pc' = [pc EXCEPT ![c] = to]
             /\ UNCHANGED <<pool, candidate, result, checkpoint>>
    <3>1. GoesOn(c)
      BY <1>6, <2>1 DEF Call, GoesOn
    <3>2. BudgetBounded' /\ requests_used' \in Nat
      BY <1>0, <2>1, CandidateAnalysisAssumption DEF MayCall, Affordable, BudgetBounded, RestTypes
    <3>3. request_count' \in [Candidates -> Nat]
      BY <2>1 DEF TypeOK
    <3>4. RestTypes'
      BY <1>0, <1>6, <3>2, <3>3 DEF Call, RestTypes, fixed, counts
    <3> QED
      BY <1>6, <3>1, <3>4 DEF Call, StepOf, Small, fixed
  <2>2. CASE Incomplete(c) /\ UNCHANGED <<requests_used, request_count>>
    <3>1. StatusOf("incomplete") = "ai_incomplete"
      BY DEF StatusOf
    <3>2. End(c, "incomplete", FALSE, Marked(c, StatusOf("incomplete")))
      BY <2>2, <3>1 DEF Incomplete
    <3>3. pc[c] \in Analysing /\ UNCHANGED verify_round
      BY <1>6 DEF Call
    <3>4. Small(c)
      BY <3>2, <3>3, IncompleteSmall
    <3>5. RestTypes'
      BY <1>0, <1>6, <2>2 DEF Call, RestTypes, BudgetBounded, fixed, counts
    <3> QED
      BY <1>6, <3>3, <3>4, <3>5 DEF Call, StepOf, fixed
  <2> QED
    BY <1>6, <2>1, <2>2 DEF Call
<1>7. CASE Analyse(c) \/ Finalize(c)
  BY <1>6, <1>7 DEF Analyse, Finalize, Analysing
<1>8. ASSUME Incomplete(c), pc[c] \in Analysing, UNCHANGED verify_round PROVE Small(c)
  <2>1. StatusOf("incomplete") = "ai_incomplete"
    BY DEF StatusOf
  <2>2. End(c, "incomplete", FALSE, Marked(c, StatusOf("incomplete")))
    BY <1>8, <2>1 DEF Incomplete
  <2> QED
    BY <1>8, <2>2, IncompleteSmall
<1>9. CASE AnalysisAnswer(c)
  <2>1. /\ pc[c] \in Analysing
        /\ UNCHANGED <<fixed, request_count, verify_round, budget, counts, stage>>
    BY <1>9 DEF AnalysisAnswer, Analysing
  <2>2. CASE Expand(c)
    <3>1. round[c] < MaxExpansions /\ round' = [round EXCEPT ![c] = @ + 1]
      BY <2>2 DEF Expand
    <3>2. round' \in [Candidates -> 0..MaxExpansions]
      BY <3>1, CandidateAnalysisAssumption DEF TypeOK
    <3>3. CASE Incomplete(c)
      BY <1>0, <1>8, <2>1, <3>2, <3>3 DEF StepOf, RestTypes, BudgetBounded, fixed, budget, counts
    <3>4. CASE /\ \E place \in Analysing : pc' = [pc EXCEPT ![c] = place]
               /\ UNCHANGED <<pool, candidate, result, checkpoint>>
      <4>1. GoesOn(c)
        BY <2>1, <3>4 DEF GoesOn
      <4> QED
        BY <1>0, <2>1, <3>2, <4>1 DEF StepOf, Small, RestTypes, BudgetBounded, fixed, budget, counts
    <3>5. Incomplete(c) \/ (/\ \E place \in Analysing : pc' = [pc EXCEPT ![c] = place]
                           /\ UNCHANGED <<pool, candidate, result, checkpoint>>)
      BY <2>2 DEF Expand, Analysing
    <3> QED
      BY <3>3, <3>4, <3>5
  <2>3. CASE UNCHANGED round /\ ~Expand(c)
    <3>1. Small(c)
      <4>1. CASE \E breaking \in BOOLEAN : End(c, "failed", breaking, Marked(c, "ai_failed"))
        <5>1. StatusOf("failed") = "ai_failed"
          BY DEF StatusOf
        <5>2. PICK breaking \in BOOLEAN : End(c, "failed", breaking, Marked(c, StatusOf("failed")))
          BY <4>1, <5>1
        <5> QED
          BY <2>1, <5>2, IncompleteSmall
      <4>2. CASE \E breaking \in BOOLEAN : End(c, "skipped", breaking, Marked(c, "ai_skipped"))
        <5>1. StatusOf("skipped") = "ai_skipped"
          BY DEF StatusOf
        <5>2. PICK breaking \in BOOLEAN : End(c, "skipped", breaking, Marked(c, StatusOf("skipped")))
          BY <4>2, <5>1
        <5> QED
          BY <2>1, <5>2, IncompleteSmall
      <4>3. CASE Complete(c)
        BY <2>1, <4>3, CompleteSmall
      <4>4. CASE Incomplete(c)
        BY <1>8, <2>1, <4>4
      <4>5. CASE Raise(c)
        BY <2>1, <4>5, RaiseSmall
      <4> QED
        BY <1>9, <2>3, <4>1, <4>2, <4>3, <4>4, <4>5 DEF AnalysisAnswer
    <3> QED
      BY <1>0, <2>1, <2>3, <3>1 DEF StepOf, RestTypes, BudgetBounded, fixed, budget, counts
  <2> QED
    BY <1>9, <2>2, <2>3 DEF AnalysisAnswer
<1>10. CASE FinalAnswer(c)
  <2>1. /\ pc[c] \in Analysing
        /\ UNCHANGED <<fixed, calls, budget, counts, stage>>
    BY <1>10 DEF FinalAnswer, Analysing
  <2>2. Small(c)
    BY <1>8, <1>10, <2>1, CompleteSmall, RaiseSmall DEF FinalAnswer, calls
  <2> QED
    BY <1>0, <2>1, <2>2 DEF StepOf, RestTypes, BudgetBounded, fixed, calls, budget, counts
<1> QED
  BY <1>1, <1>2, <1>3, <1>4, <1>5, <1>7, <1>9, <1>10 DEF CandidateStep

LEMMA CandidateStepKeeps ==
    ASSUME IInv, NEW c \in Candidates, CandidateStep(c)
    PROVE  IInv'
<1>1. StepOf(c)
  BY CandidateStepSmall
<1>2. TypeOK' /\ BudgetBounded'
  BY <1>1, SmallTypes, TypesJoin DEF StepOf
<1>3. \A d \in Candidates : Told(d)'
  BY <1>1, SmallTold DEF StepOf
<1> QED
  BY <1>2, <1>3 DEF IInv
-----------------------------------------------------------------------------
(* The beginning and the end of the stage                                   *)

LEMMA SummaryType ==
    ASSUME NEW a \in Nat, NEW b \in Nat, NEW d \in Nat, NEW e \in Nat
    PROVE  [completed |-> a, failed |-> b, skipped |-> d, incomplete |-> e] \in Summaries
BY DEF Summaries, Statuses

LEMMA PreflightKeeps ==
    ASSUME IInv, Preflight
    PROVE  IInv'
<1> USE DEF IInv
<1>0. stage.status = "preflight" /\ stage \in [status : StageStatuses, summary : Summaries]
  BY TypesSplit DEF Preflight, PreflightPasses, SkipStage, RestTypes
<1>1. ASSUME NEW c \in Candidates PROVE pc[c] \in {"queued", "ended"}
  BY <1>0 DEF Told, OnItsWay, TypeOK, Verifying, Analysing
<1>2. CASE PreflightPasses
  <2>1. stage'.status = "running" /\ stage' \in [status : StageStatuses, summary : Summaries]
    BY <1>0, <1>2 DEF PreflightPasses, StageStatuses
  <2>2. UNCHANGED <<fixed, pool, pc, calls, candidate, result, checkpoint, budget, counts>>
    BY <1>2 DEF PreflightPasses
  <2>3. TypeOK' /\ BudgetBounded'
    <3>1. RestTypes
      BY TypesSplit
    <3>2. RestTypes'
      BY <2>1, <2>2, <3>1 DEF RestTypes, BudgetBounded, fixed, calls, budget, counts
    <3> QED
      BY <2>2, <3>2 DEF TypeOK, RestTypes, Counts, StageStatuses, Summaries, pool
  <2>4. ASSUME NEW c \in Candidates PROVE Told(c)'
    <3>1. ~Recorded /\ ~Recorded' /\ ~Analysed'
      BY <1>0, <2>1 DEF Recorded, Analysed
    <3>2. pc[c] = "queued"
      BY <1>0, <1>1 DEF Told, Settled
    <3> QED
      BY <2>2, <3>1, <3>2
         DEF Told, Waiting, OnItsWay, Settled, Verifying, Analysing, fixed, pool, calls
  <2> QED
    BY <2>3, <2>4
<1>3. ASSUME NEW recoverable \in BOOLEAN, SkipStage(recoverable) PROVE IInv'
  <2> DEFINE mark == IF recoverable THEN "ai_failed" ELSE "ai_skipped"
  <2>1. /\ candidate' = [c \in Candidates |-> Marked(c, mark)]
        /\ UNCHANGED <<fixed, pool, pc, calls, result, checkpoint, budget, counts>>
    BY <1>3 DEF SkipStage
  <2>2. mark \in {"ai_failed", "ai_skipped"}
    OBVIOUS
  <2> HIDE DEF mark
  <2>3. Cardinality(Candidates) \in Nat
    BY CandidateAnalysisAssumption, FS_CardinalityType
  <2>4. stage'.status \in {"failed", "skipped"} /\ stage' \in [status : StageStatuses, summary : Summaries]
    <3>1. /\ [NoSummary EXCEPT !.failed = Cardinality(Candidates)] \in Summaries
          /\ [NoSummary EXCEPT !.skipped = Cardinality(Candidates)] \in Summaries
      BY <2>3 DEF NoSummary, Summaries, Statuses
    <3> QED
      BY <1>3, <3>1 DEF SkipStage, StageStatuses
  <2>5. \A c \in Candidates :
           /\ candidate'[c] \in Written
           /\ candidate'[c].analysis_status = mark
           /\ candidate'[c].promotion_requested = candidate[c].promotion_requested
           /\ candidate'[c].verify = candidate[c].verify
    BY <2>1, <2>2, WrittenType
  <2>6. TypeOK' /\ BudgetBounded'
    <3>1. candidate' \in [Candidates -> Written]
      BY <2>1, <2>5
    <3>2. RestTypes
      BY TypesSplit
    <3>3. RestTypes'
      BY <2>1, <2>4, <3>2 DEF RestTypes, BudgetBounded, fixed, calls, budget, counts
    <3> QED
      BY <2>1, <3>1, <3>3 DEF TypeOK, RestTypes, Written, Counts, StageStatuses, Summaries, pool
  <2>7. ASSUME NEW c \in Candidates PROVE Told(c)'
    <3>1. Recorded' /\ ~Analysed' /\ ~Recorded
      BY <1>0, <2>4 DEF Recorded, Analysed
    <3>2. pc[c] = "queued"
      BY <1>0, <1>1 DEF Told, Settled
    <3> QED
      BY <2>1, <2>5, <3>1, <3>2
         DEF Told, Waiting, OnItsWay, Settled, Verifying, Analysing, fixed, pool, calls
  <2> QED
    BY <2>6, <2>7
<1> QED
  BY <1>2, <1>3 DEF Preflight

\* Collect: what the workers could not settle is marked, and counted.
LEMMA CollectKeeps ==
    ASSUME IInv, Collect
    PROVE  IInv'
<1> USE DEF IInv
<1>1. /\ stage.status = "running" /\ candidate' = [c \in Candidates |-> Unavailable(c)]
      /\ \A c \in Candidates : outcome[c] # "running"
      /\ outcome' = [c \in Candidates |-> IF outcome[c] = "pending" THEN "skipped" ELSE outcome[c]]
      /\ closed' = TRUE
      /\ UNCHANGED <<stopped, fixed, pc, calls, result, checkpoint, budget, counts>>
  BY DEF Collect, Pool!Close
<1>2. stage'.status \in {"completed", "partial"} /\ stage' \in [status : StageStatuses, summary : Summaries]
  <2> DEFINE count(status) == Cardinality({c \in Candidates : Counted(c) = status})
             counted == [status \in DOMAIN NoSummary |-> count(status)]
  <2>1. \A status : count(status) \in Nat
    BY CandidateAnalysisAssumption, FS_Subset, FS_CardinalityType
  <2>2. DOMAIN NoSummary = Statuses
    BY DEF NoSummary, Statuses
  <2>3. counted \in Summaries
    BY <2>1, <2>2 DEF Summaries
  <2>4. stage' = [status |-> IF counted.completed = Cardinality(Candidates)
                               THEN "completed" ELSE "partial",
                  summary |-> counted]
    BY DEF Collect
  <2> HIDE DEF counted
  <2> QED
    BY <2>3, <2>4 DEF StageStatuses
<1>3. ASSUME NEW c \in Candidates
      PROVE  /\ Unavailable(c) \in Written
             /\ Unavailable(c).promotion_requested = candidate[c].promotion_requested
             /\ Unavailable(c).verify = candidate[c].verify
             /\ outcome[c] = "pending" => Unavailable(c).analysis_status = "ai_skipped"
             /\ outcome[c] = "failed" => Unavailable(c).analysis_status = "ai_failed"
             /\ outcome[c] \notin {"pending", "failed"} => Unavailable(c) = candidate[c]
  <2>1. CASE outcome[c] = "pending"
    <3>1. Unavailable(c) = Marked(c, "ai_skipped")
      BY <2>1 DEF Unavailable
    <3> QED
      BY <2>1, <3>1, WrittenType
  <2>2. CASE outcome[c] = "failed"
    <3>1. Unavailable(c) = Marked(c, "ai_failed")
      BY <2>2 DEF Unavailable
    <3> QED
      BY <2>2, <3>1, WrittenType
  <2>3. CASE outcome[c] \notin {"pending", "failed"}
    <3>1. Unavailable(c) = candidate[c]
      BY <2>3 DEF Unavailable
    <3> QED
      BY <2>3, <3>1 DEF TypeOK, Written
  <2> QED
    BY <2>1, <2>2, <2>3
<1>4. TypeOK' /\ BudgetBounded'
  <2>1. candidate' \in [Candidates -> Written]
    BY <1>1, <1>3
  <2>2. outcome' \in [Candidates -> {"pending", "running", "succeeded", "failed", "skipped"}]
    BY <1>1 DEF TypeOK
  <2>3. RestTypes
    BY TypesSplit
  <2>4. RestTypes'
    BY <1>1, <1>2, <2>3 DEF RestTypes, BudgetBounded, fixed, calls, budget, counts
  <2> QED
    BY <1>1, <2>1, <2>2, <2>4 DEF TypeOK, RestTypes, Written, Counts, StageStatuses, Summaries
<1>5. ASSUME NEW c \in Candidates PROVE Told(c)'
  <2>1. Recorded' /\ Analysed' /\ ~Recorded /\ stage'.status # "preflight"
    BY <1>1, <1>2 DEF Recorded, Analysed
  <2>2. candidate'[c] = Unavailable(c) /\ UNCHANGED <<pc, checkpoint, settings, verify_round, result>>
    BY <1>1 DEF fixed, calls
  <2>3. pc[c] \in {"queued", "ended"}
    BY <1>1 DEF Told, OnItsWay, TypeOK, Verifying, Analysing
  <2>4. CASE pc[c] = "queued"
    <3>1. outcome[c] = "pending" /\ outcome'[c] = "skipped"
      BY <1>1, <2>1, <2>4 DEF Told, Waiting
    <3> QED
      BY <1>3, <2>1, <2>2, <2>4, <3>1 DEF Told, Waiting, OnItsWay, Settled, Verifying, Analysing
  <2>5. CASE pc[c] = "ended"
    <3>1. outcome[c] \in {"succeeded", "failed"} /\ outcome'[c] = outcome[c]
      BY <1>1, <2>5 DEF Told, Settled
    <3>2. outcome[c] = "succeeded" => candidate[c].analysis_status # "rule_only"
      BY <2>5 DEF Told, Settled, StatusOf
    <3>3. Settled(c)'
      BY <1>3, <2>1, <2>2, <2>5, <3>1, <3>2 DEF Told, Settled
    <3> QED
      BY <2>2, <2>5, <3>3 DEF Told, Waiting, OnItsWay, Verifying, Analysing
  <2> QED
    BY <2>3, <2>4, <2>5
<1> QED
  BY <1>4, <1>5
-----------------------------------------------------------------------------
LEMMA IInvInit == Init => IInv
<1> SUFFICES ASSUME Init PROVE IInv
  OBVIOUS
<1>1. /\ Fresh \in Written /\ ~Fresh.promotion_requested
      /\ Fresh.verify = "none" /\ Fresh.analysis_status = "rule_only"
  BY DEF Fresh, Written
<1>2. outcome = [c \in Candidates |-> "pending"] /\ stopped = FALSE /\ closed = FALSE
  BY DEF Init, Pool!Init
<1>3. NoSummary \in Summaries
  BY SummaryType DEF NoSummary
<1>4. RestTypes
  BY <1>3, CandidateAnalysisAssumption
     DEF Init, RestTypes, BudgetBounded, Counts, StageStatuses
<1>5. TypeOK /\ BudgetBounded
  BY <1>1, <1>2, <1>4 DEF Init, TypeOK, RestTypes, Written, Counts, StageStatuses, Summaries
<1>6. ASSUME NEW c \in Candidates PROVE Told(c)
  BY <1>1, <1>2 DEF Init, Told, Waiting, OnItsWay, Settled, Recorded, Analysed, Verifying, Analysing
<1> QED
  BY <1>5, <1>6 DEF IInv

LEMMA IInvStep == IInv /\ [Next]_vars => IInv'
<1> SUFFICES ASSUME IInv, [Next]_vars PROVE IInv'
  OBVIOUS
<1>1. CASE Preflight
  BY <1>1, PreflightKeeps
<1>2. CASE \E c \in Candidates : CandidateStep(c)
  BY <1>2, CandidateStepKeeps
<1>3. CASE Collect
  BY <1>3, CollectKeeps
<1>4. CASE UNCHANGED vars
  <2>1. UNCHANGED <<settings, pc, outcome, candidate, result, checkpoint, verify_round, stage,
                    requests_used>>
    BY <1>4 DEF vars, fixed, pool, calls, budget
  <2>2. TypeOK' /\ BudgetBounded'
    BY <1>4 DEF IInv, TypeOK, BudgetBounded, vars, fixed, pool, calls, budget, counts
  <2>3. \A c \in Candidates : Told(c)'
    BY <2>1, OthersTold DEF IInv
  <2> QED
    BY <2>2, <2>3 DEF IInv
<1> QED
  BY <1>1, <1>2, <1>3, <1>4 DEF Next

THEOREM Invariance == Spec => []IInv
BY IInvInit, IInvStep, PTL DEF Spec

\* The types; and the rounds of a verification and of an analysis stay within
\* the settings' limits.
THEOREM TypeCorrect == Spec => []TypeOK
<1>1. IInv => TypeOK
  BY DEF IInv
<1> QED
  BY <1>1, Invariance, PTL

\* The budget of the run is never exceeded, however many candidates test and
\* charge it (_budgeted_ai_call, _budgeted_protocol_call).
THEOREM BudgetNeverExceeded == Spec => []BudgetBounded
<1>1. IInv => BudgetBounded
  BY DEF IInv
<1> QED
  BY <1>1, Invariance, PTL
-----------------------------------------------------------------------------
(* Which candidates asked the analysing model                               *)

\* What the requests of a candidate say of the way it took.
Accounted(c) ==
    /\ pc[c] \in {"queued", "verify", "verifying"} => request_count[c] = 0
    /\ pc[c] \in {"analysing", "finalize", "finalizing"} => request_count[c] > 0
    /\ pc[c] = "ended" /\ outcome[c] = "succeeded" =>
          /\ candidate[c].verify \in {"used", "undecided"}
               <=> result[c] = "completed" /\ request_count[c] = 0
          /\ settings.fallback /\ result[c] \in {"failed", "skipped"} => request_count[c] > 0

\* The end of a candidate that has asked as often as its way says.
LEMMA EndAsked ==
    ASSUME TypeOK, NEW c \in Candidates, NEW status \in Statuses, NEW breaking \in BOOLEAN,
           NEW written, End(c, status, breaking, written), UNCHANGED <<request_count, settings>>,
           written.verify \in {"used", "undecided"}
             <=> status = "completed" /\ request_count[c] = 0,
           settings.fallback /\ status \in {"failed", "skipped"} => request_count[c] > 0
    PROVE  Accounted(c)'
<1> USE DEF TypeOK
<1>1. pc'[c] = "ended" /\ candidate'[c] = written
  BY DEF End
<1>2. CASE Returns(c, status, breaking)
  <2>1. result'[c] = status
    BY <1>2 DEF Returns
  <2> QED
    BY <1>1, <2>1 DEF Accounted
<1>3. CASE TailRaises(c, status, breaking)
  <2>1. outcome'[c] = "failed"
    BY <1>3 DEF TailRaises, Pool!Finish
  <2> QED
    BY <1>1, <2>1 DEF Accounted
<1> QED
  BY <1>2, <1>3 DEF End

LEMMA FallBackAsked ==
    ASSUME TypeOK, NEW c \in Candidates, FallBack(c)
    PROVE  Accounted(c)'
BY DEF TypeOK, FallBack, Accounted

LEMMA VerifyFailsAsked ==
    ASSUME IInv, NEW c \in Candidates, Accounted(c), pc[c] \in Verifying,
           NEW status \in {"failed", "skipped"}, VerifyFails(c, status),
           UNCHANGED <<request_count, settings>>
    PROVE  Accounted(c)'
<1> USE DEF IInv
<1>1. CASE settings.fallback
  BY <1>1, FallBackAsked DEF VerifyFails
<1>2. CASE ~settings.fallback
  <2>1. PICK written : /\ written = Marked(c, IF status = "skipped" THEN "ai_skipped" ELSE "ai_failed")
                       /\ End(c, status, FALSE, written)
    BY <1>2 DEF VerifyFails
  <2>2. written.verify = candidate[c].verify
    BY <2>1, WrittenType
  <2>3. candidate[c].verify = "none"
    BY DEF Told, OnItsWay
  <2> QED
    BY <1>2, <2>1, <2>2, <2>3, EndAsked DEF Statuses
<1> QED
  BY <1>1, <1>2

\* The ends of an analysis in one turn; only one that never asked can be
\* refused its request.
LEMMA IncompleteAsked ==
    ASSUME IInv, NEW c \in Candidates, pc[c] \in Analysing,
           NEW status \in {"failed", "skipped", "incomplete"}, NEW breaking \in BOOLEAN,
           End(c, status, breaking, Marked(c, StatusOf(status))),
           status # "incomplete" => request_count[c] > 0,
           UNCHANGED <<request_count, settings>>
    PROVE  Accounted(c)'
<1> USE DEF IInv
<1>1. PICK written : written = Marked(c, StatusOf(status)) /\ End(c, status, breaking, written)
  OBVIOUS
<1>2. StatusOf(status) \in {"ai_incomplete", "ai_failed", "ai_skipped"}
  BY DEF StatusOf
<1>3. written.verify = candidate[c].verify
  BY <1>1, <1>2, WrittenType
<1>4. candidate[c].verify \in {"none", "fell_back"}
  BY DEF Told, OnItsWay
<1> QED
  BY <1>1, <1>3, <1>4, EndAsked DEF Statuses

LEMMA AnswerAsked ==
    ASSUME IInv, NEW c \in Candidates, pc[c] \in {"analysing", "finalizing"}, request_count[c] > 0,
           Complete(c) \/ Incomplete(c) \/ Raise(c), UNCHANGED <<request_count, settings>>
    PROVE  Accounted(c)'
<1> USE DEF IInv
<1>1. CASE Complete(c)
  <2>1. PICK recommended \in BOOLEAN, refs_valid \in BOOLEAN :
          End(c, "completed", FALSE,
              [candidate[c] EXCEPT
                 !.analysis_status = "ai_completed",
                 !.promotion_requested = @ \/ Promotes(c, recommended, refs_valid)])
    BY <1>1 DEF Complete
  <2>2. PICK written : /\ written = [candidate[c] EXCEPT
                             !.analysis_status = "ai_completed",
                             !.promotion_requested = @ \/ Promotes(c, recommended, refs_valid)]
                       /\ End(c, "completed", FALSE, written)
    BY <2>1
  <2>3. written.verify = candidate[c].verify
    BY <2>2 DEF TypeOK
  <2>4. candidate[c].verify \in {"none", "fell_back"}
    BY DEF Told, OnItsWay, Analysing
  <2>5. request_count[c] # 0
    OBVIOUS
  <2>6. ~(written.verify \in {"used", "undecided"})
    BY <2>3, <2>4
  <2> QED
    BY <2>2, <2>5, <2>6, EndAsked DEF Statuses
<1>2. CASE Incomplete(c)
  <2>1. StatusOf("incomplete") = "ai_incomplete"
    BY DEF StatusOf
  <2>2. End(c, "incomplete", FALSE, Marked(c, StatusOf("incomplete")))
    BY <1>2, <2>1 DEF Incomplete
  <2> QED
    BY <2>2, IncompleteAsked DEF Analysing
<1>3. CASE Raise(c)
  <2>1. pc'[c] = "ended" /\ outcome'[c] = "failed"
    BY <1>3 DEF Raise, Pool!Finish, TypeOK
  <2> QED
    BY <2>1 DEF Accounted
<1> QED
  BY <1>1, <1>2, <1>3

LEMMA CandidateStepAsks ==
    ASSUME IInv, NEW c \in Candidates, Accounted(c), CandidateStep(c)
    PROVE  Accounted(c)'
<1> USE DEF IInv
<1>0. request_count \in [Candidates -> Nat] /\ UNCHANGED settings
  BY DEF TypeOK, CandidateStep, Begin, VerifyUnavailable, NothingToAsk, VerifyCall, VerifyAnswer,
         Analyse, Finalize, Call, AnalysisAnswer, FinalAnswer, fixed
<1>1. CASE Begin(c)
  <2>1. pc[c] = "queued"
    BY <1>1 DEF Begin, Pool!Begin, TypeOK, Told, OnItsWay, Settled, Verifying, Analysing
  <2>2. pc'[c] \in {"verify", "analyse"} /\ UNCHANGED request_count
    BY <1>1 DEF Begin, TypeOK, calls
  <2> QED
    BY <2>1, <2>2 DEF Accounted
<1>2. CASE VerifyUnavailable(c)
  BY <1>2, FallBackAsked DEF VerifyUnavailable
<1>3. CASE NothingToAsk(c)
  BY <1>0, <1>3, VerifyFailsAsked DEF NothingToAsk, Verifying, calls
<1>4. CASE VerifyCall(c)
  <2>1. pc[c] \in Verifying /\ UNCHANGED request_count
    BY <1>4 DEF VerifyCall, Verifying
  <2>2. CASE VerifyFails(c, "skipped")
    BY <1>0, <2>1, <2>2, VerifyFailsAsked
  <2>3. CASE pc' = [pc EXCEPT ![c] = "verifying"]
    <3>1. pc'[c] = "verifying"
      BY <2>3 DEF TypeOK
    <3> QED
      BY <2>1, <3>1 DEF Accounted, Verifying
  <2> QED
    BY <1>4, <2>2, <2>3 DEF VerifyCall
<1>5. CASE VerifyAnswer(c)
  <2>1. pc[c] = "verifying" /\ UNCHANGED request_count /\ request_count[c] = 0
    BY <1>5 DEF VerifyAnswer, calls, Accounted
  <2>2. CASE \E status \in {"failed", "skipped"} : VerifyFails(c, status)
    BY <1>0, <2>1, <2>2, VerifyFailsAsked DEF Verifying
  <2>3. CASE FallBack(c)
    BY <2>3, FallBackAsked
  <2>4. CASE \E undecided, supports \in BOOLEAN : Verified(c, undecided, supports)
    <3>1. PICK undecided \in BOOLEAN, supports \in BOOLEAN : Verified(c, undecided, supports)
      BY <2>4
    <3>2. PICK written : /\ written = [analysis_status |-> "ai_completed",
                                       promotion_requested |-> supports /\ ~undecided,
                                       verify |-> IF undecided THEN "undecided" ELSE "used"]
                         /\ End(c, "completed", FALSE, written)
      BY <3>1 DEF Verified
    <3>3. written.verify \in {"used", "undecided"}
      BY <3>2
    <3> QED
      BY <1>0, <2>1, <3>2, <3>3, EndAsked DEF Statuses
  <2>5. CASE pc' = [pc EXCEPT ![c] = "verify"]
    <3>1. pc'[c] = "verify"
      BY <2>5 DEF TypeOK
    <3> QED
      BY <2>1, <3>1 DEF Accounted
  <2> QED
    BY <1>5, <2>2, <2>3, <2>4, <2>5 DEF VerifyAnswer
<1>6. ASSUME NEW from \in Analysing, NEW to \in {"analysing", "finalizing"}, Call(c, from, to)
      PROVE  Accounted(c)'
  <2>1. CASE /\ request_count' = [request_count EXCEPT ![c] = @ + 1]
             /\ pc' = [pc EXCEPT ![c] = to]
    <3>1. pc'[c] = to /\ request_count'[c] > 0
      BY <1>0, <2>1 DEF TypeOK
    <3> QED
      BY <3>1 DEF Accounted
  <2>2. CASE Incomplete(c) /\ UNCHANGED request_count
    <3>1. StatusOf("incomplete") = "ai_incomplete"
      BY DEF StatusOf
    <3>2. End(c, "incomplete", FALSE, Marked(c, StatusOf("incomplete")))
      BY <2>2, <3>1 DEF Incomplete
    <3>3. pc[c] \in Analysing
      BY <1>6 DEF Call
    <3> QED
      BY <1>0, <2>2, <3>2, <3>3, IncompleteAsked
  <2> QED
    BY <1>6, <2>1, <2>2 DEF Call
<1>7. CASE Analyse(c) \/ Finalize(c)
  BY <1>6, <1>7 DEF Analyse, Finalize, Analysing
<1>8. CASE AnalysisAnswer(c)
  <2>1. pc[c] = "analysing" /\ UNCHANGED request_count /\ request_count[c] > 0
    BY <1>8 DEF AnalysisAnswer, Accounted
  <2>2. CASE Complete(c) \/ Incomplete(c) \/ Raise(c)
    BY <1>0, <2>1, <2>2, AnswerAsked
  <2>3. ASSUME NEW status \in {"failed", "skipped"}, NEW breaking \in BOOLEAN,
               End(c, status, breaking, Marked(c, StatusOf(status)))
        PROVE  Accounted(c)'
    BY <1>0, <2>1, <2>3, IncompleteAsked DEF Analysing
  <2>4. CASE \E breaking \in BOOLEAN : End(c, "failed", breaking, Marked(c, "ai_failed"))
    <3>1. StatusOf("failed") = "ai_failed"
      BY DEF StatusOf
    <3> QED
      BY <2>3, <2>4, <3>1
  <2>5. CASE \E breaking \in BOOLEAN : End(c, "skipped", breaking, Marked(c, "ai_skipped"))
    <3>1. StatusOf("skipped") = "ai_skipped"
      BY DEF StatusOf
    <3> QED
      BY <2>3, <2>5, <3>1
  <2>6. CASE Expand(c)
    <3>1. CASE Incomplete(c)
      BY <2>2, <3>1
    <3>2. CASE \E place \in {"analyse", "finalize"} : pc' = [pc EXCEPT ![c] = place]
      <4>1. pc'[c] \in {"analyse", "finalize"}
        BY <3>2 DEF TypeOK
      <4> QED
        BY <2>1, <4>1 DEF Accounted
    <3> QED
      BY <2>6, <3>1, <3>2 DEF Expand
  <2> QED
    BY <1>8, <2>2, <2>4, <2>5, <2>6 DEF AnalysisAnswer
<1>9. CASE FinalAnswer(c)
  <2>1. pc[c] = "finalizing" /\ UNCHANGED request_count /\ request_count[c] > 0
    BY <1>9 DEF FinalAnswer, Accounted, calls
  <2> QED
    BY <1>0, <1>9, <2>1, AnswerAsked DEF FinalAnswer
<1> QED
  BY <1>1, <1>2, <1>3, <1>4, <1>5, <1>7, <1>8, <1>9 DEF CandidateStep

LEMMA AskedStep ==
    ASSUME IInv, \A c \in Candidates : Accounted(c), [Next]_vars
    PROVE  \A c \in Candidates : Accounted(c)'
<1>1. ASSUME NEW c \in Candidates, CandidateStep(c), NEW d \in Candidates PROVE Accounted(d)'
  <2>1. CASE d = c
    BY <1>1, <2>1, CandidateStepAsks
  <2>2. CASE d # c
    <3>1. Small(c)
      BY <1>1, CandidateStepSmall DEF StepOf
    <3>2. UNCHANGED <<pc[d], outcome[d], candidate[d], result[d]>>
      <4>1. CASE Starts(c) \/ GoesOn(c) \/ FallsBack(c)
        BY <2>2, <4>1 DEF Starts, GoesOn, FallsBack, IInv, TypeOK, pool
      <4>2. CASE EndsWell(c)
        BY <2>2, <4>2, EndsOthers DEF EndsWell, IInv
      <4> QED
        BY <3>1, <4>1, <4>2 DEF Small
    <3>3. UNCHANGED <<settings, request_count[d]>>
      BY <1>1, <2>2
         DEF IInv, TypeOK, CandidateStep, Begin, VerifyUnavailable, NothingToAsk, VerifyCall, VerifyAnswer,
             Analyse, Finalize, Call, AnalysisAnswer, FinalAnswer, fixed, calls
    <3> QED
      BY <3>2, <3>3 DEF Accounted
  <2> QED
    BY <2>1, <2>2
<1>2. ASSUME Preflight, NEW c \in Candidates PROVE Accounted(c)'
  <2>1. UNCHANGED <<pc, outcome, result, request_count, settings>>
    BY <1>2 DEF Preflight, PreflightPasses, SkipStage, fixed, pool, calls
  <2>2. candidate'[c].verify = candidate[c].verify
    <3>1. CASE PreflightPasses
      BY <3>1 DEF PreflightPasses
    <3>2. ASSUME NEW recoverable \in BOOLEAN, SkipStage(recoverable)
          PROVE  candidate'[c].verify = candidate[c].verify
      BY <3>2, WrittenType DEF SkipStage, IInv
    <3> QED
      BY <1>2, <3>1, <3>2 DEF Preflight
  <2> QED
    BY <2>1, <2>2 DEF Accounted
<1>3. ASSUME Collect, NEW c \in Candidates PROVE Accounted(c)'
  <2>1. /\ UNCHANGED <<pc, result, request_count, settings>>
        /\ candidate' = [d \in Candidates |-> Unavailable(d)]
        /\ outcome' = [d \in Candidates |-> IF outcome[d] = "pending" THEN "skipped" ELSE outcome[d]]
    BY <1>3 DEF Collect, Pool!Close, fixed, calls
  <2>2. CASE outcome'[c] = "succeeded"
    <3>1. outcome[c] = "succeeded"
      BY <2>1, <2>2
    <3>2. candidate'[c] = candidate[c]
      BY <2>1, <3>1 DEF Unavailable
    <3> QED
      BY <2>1, <3>1, <3>2 DEF Accounted
  <2>3. CASE outcome'[c] # "succeeded"
    BY <2>1, <2>3 DEF Accounted
  <2> QED
    BY <2>2, <2>3
<1>4. ASSUME UNCHANGED vars, NEW c \in Candidates PROVE Accounted(c)'
  BY <1>4 DEF Accounted, vars, fixed, pool, calls
<1> QED
  BY <1>1, <1>2, <1>3, <1>4 DEF Next

THEOREM AskedInvariance == Spec => [](IInv /\ \A c \in Candidates : Accounted(c))
<1>1. Init => \A c \in Candidates : Accounted(c)
  BY DEF Init, Accounted
<1>2. IInv /\ (\A c \in Candidates : Accounted(c)) /\ [Next]_vars => \A c \in Candidates : Accounted(c)'
  BY AskedStep
<1>3. IInv /\ (\A c \in Candidates : Accounted(c)) /\ IInv' /\ [Next]_vars
        => (\A c \in Candidates : Accounted(c))'
  BY <1>2
<1> QED
  BY <1>1, <1>3, Invariance, PTL DEF Spec

\* What is written into a candidate is what became of its analysis, and it is
\* completed without a request of its own just when it was verified.
THEOREM StatusCorrect == Spec => []StatusIsTruthful
<1>1. IInv /\ (\A c \in Candidates : Accounted(c)) => StatusIsTruthful
  <2> SUFFICES ASSUME IInv, \A d \in Candidates : Accounted(d), NEW c \in Candidates
               PROVE  /\ outcome[c] = "succeeded" => candidate[c].analysis_status = StatusOf(result[c])
                      /\ candidate[c].promotion_requested =>
                           /\ c \in L2
                           /\ candidate[c].verify # "undecided"
                           /\ candidate[c].analysis_status = "ai_completed" \/ outcome[c] = "failed"
                      /\ c \in checkpoint => result[c] = "completed" \/ outcome[c] = "failed"
                      /\ Analysed => candidate[c].analysis_status # "rule_only"
                      /\ outcome[c] = "succeeded" =>
                           (candidate[c].verify \in {"used", "undecided"}
                              <=> result[c] = "completed" /\ request_count[c] = 0)
                      /\ settings.fallback /\ outcome[c] = "succeeded" =>
                           /\ result[c] \in {"failed", "skipped"} => request_count[c] > 0
                           /\ verify_round[c] > 0 => candidate[c].verify # "none"
    BY Zenon DEF StatusIsTruthful, StatusOf
  <2>1. CASE pc[c] = "queued"
    BY <2>1 DEF IInv, Told, Waiting
  <2>2. CASE pc[c] \in Verifying \cup Analysing
    BY <2>2 DEF IInv, Told, OnItsWay, Analysed
  <2>3. CASE pc[c] = "ended"
    BY <2>3 DEF IInv, Told, Settled, Accounted
  <2> QED
    BY <2>1, <2>2, <2>3 DEF IInv, TypeOK, Verifying, Analysing
<1> QED
  BY <1>1, AskedInvariance, PTL
-----------------------------------------------------------------------------
(* The accounts of the stage                                                *)

\* BudgetKept's two equations, without subtraction.
Ledgers ==
    /\ requests_used = explorer_requests_used + verify_requests_used
                          + SumFunctionOnSet(request_count, Candidates)
    /\ verify_requests_used = SumFunctionOnSet(verify_round, Candidates)

Accounts == <<requests_used, verify_requests_used, request_count, verify_round>>

\* The two ways to pay for a call.
VerifyPays(c) ==
    /\ requests_used' = requests_used + 1
    /\ verify_requests_used' = verify_requests_used + 1
    /\ verify_round' = [verify_round EXCEPT ![c] = @ + 1]
    /\ UNCHANGED request_count

AnalysisPays(c) ==
    /\ requests_used' = requests_used + 1
    /\ request_count' = [request_count EXCEPT ![c] = @ + 1]
    /\ UNCHANGED <<verify_requests_used, verify_round>>

LEMMA StepPays ==
    ASSUME [Next]_vars
    PROVE  /\ UNCHANGED explorer_requests_used
           /\ \/ UNCHANGED Accounts
              \/ \E c \in Candidates : VerifyPays(c) \/ AnalysisPays(c)
<1>1. CASE Preflight \/ Collect \/ UNCHANGED vars
  BY <1>1 DEF Preflight, PreflightPasses, SkipStage, Collect, vars, fixed, calls, budget, Accounts
<1>2. ASSUME NEW c \in Candidates, Begin(c) \/ VerifyUnavailable(c) \/ NothingToAsk(c) \/ VerifyAnswer(c)
      PROVE  UNCHANGED <<explorer_requests_used, Accounts>>
  BY <1>2 DEF Begin, VerifyUnavailable, NothingToAsk, VerifyAnswer, fixed, calls, budget, Accounts
<1>3. ASSUME NEW c \in Candidates, AnalysisAnswer(c) \/ FinalAnswer(c)
      PROVE  UNCHANGED <<explorer_requests_used, Accounts>>
  BY <1>3 DEF AnalysisAnswer, FinalAnswer, fixed, calls, budget, Accounts
<1>4. ASSUME NEW c \in Candidates, VerifyCall(c)
      PROVE  UNCHANGED explorer_requests_used /\ (UNCHANGED Accounts \/ VerifyPays(c))
  BY <1>4 DEF VerifyCall, ChargeVerify, VerifyPays, fixed, budget, Accounts
<1>5. ASSUME NEW c \in Candidates, Analyse(c) \/ Finalize(c)
      PROVE  UNCHANGED explorer_requests_used /\ (UNCHANGED Accounts \/ AnalysisPays(c))
  BY <1>5 DEF Analyse, Finalize, Call, AnalysisPays, fixed, Accounts
<1> QED
  BY <1>1, <1>2, <1>3, <1>4, <1>5 DEF Next, CandidateStep

\* A counter of the candidates grows by what one of them adds.
LEMMA OneMore ==
    ASSUME NEW f \in [Candidates -> Nat], NEW g \in [Candidates -> Nat], NEW c \in Candidates,
           g[c] = f[c] + 1, \A d \in Candidates : d # c => g[d] = f[d]
    PROVE  SumFunctionOnSet(g, Candidates) = SumFunctionOnSet(f, Candidates) + 1
<1>1. IsFiniteSet(Candidates)
  BY CandidateAnalysisAssumption
<1>2. SumFunctionOnSet(g, Candidates) + f[c] = SumFunctionOnSet(f, Candidates) + g[c]
  BY <1>1, SumChanges
<1>3. SumFunctionOnSet(f, Candidates) \in Nat /\ SumFunctionOnSet(g, Candidates) \in Nat
  BY <1>1, SumTakes
<1> QED
  BY <1>2, <1>3

LEMMA CountersType ==
    ASSUME TypeOK
    PROVE  /\ request_count \in [Candidates -> Nat] /\ verify_round \in [Candidates -> Nat]
           /\ SumFunctionOnSet(request_count, Candidates) \in Nat
           /\ SumFunctionOnSet(verify_round, Candidates) \in Nat
<1>1. request_count \in [Candidates -> Nat] /\ verify_round \in [Candidates -> Nat]
  BY CandidateAnalysisAssumption DEF TypeOK
<1> QED
  BY <1>1, CandidateAnalysisAssumption, SumTakes

LEMMA LedgersInit == Init => Ledgers
<1> SUFFICES ASSUME Init PROVE Ledgers
  OBVIOUS
<1>1. PICK f : f = [c \in Candidates |-> 0]
  OBVIOUS
<1>2. f \in [Candidates -> Nat] /\ IsFiniteSet(Candidates) /\ {} \in SUBSET Candidates
  BY <1>1, CandidateAnalysisAssumption
<1>3. SumFunctionOnSet(f, {}) = 0
  BY <1>2, SumTakes
<1>4. SumFunctionOnSet(f, Candidates) = SumFunctionOnSet(f, {})
  BY <1>1, <1>2, SumOfPart
<1>5. request_count = f /\ verify_round = f
  BY <1>1 DEF Init
<1>6. requests_used \in Nat /\ explorer_requests_used = requests_used /\ verify_requests_used = 0
  BY CandidateAnalysisAssumption DEF Init
<1> QED
  BY <1>3, <1>4, <1>5, <1>6 DEF Ledgers

LEMMA LedgersStep == TypeOK /\ Ledgers /\ [Next]_vars => Ledgers'
<1> SUFFICES ASSUME TypeOK, Ledgers, [Next]_vars PROVE Ledgers'
  OBVIOUS
<1>1. PICK r : r = request_count
  OBVIOUS
<1>2. PICK v : v = verify_round
  OBVIOUS
<1>3. /\ r \in [Candidates -> Nat] /\ v \in [Candidates -> Nat]
      /\ SumFunctionOnSet(r, Candidates) \in Nat /\ SumFunctionOnSet(v, Candidates) \in Nat
      /\ explorer_requests_used \in Nat
  BY <1>1, <1>2, CountersType DEF TypeOK
<1>4. /\ requests_used = explorer_requests_used + verify_requests_used
                            + SumFunctionOnSet(r, Candidates)
      /\ verify_requests_used = SumFunctionOnSet(v, Candidates)
  BY <1>1, <1>2 DEF Ledgers
<1>5. UNCHANGED explorer_requests_used
  BY StepPays
<1>6. CASE UNCHANGED Accounts
  BY <1>5, <1>6 DEF Accounts, Ledgers
<1>7. ASSUME NEW c \in Candidates, VerifyPays(c) PROVE Ledgers'
  <2>1. PICK w : w = verify_round'
    OBVIOUS
  <2>2. w = [v EXCEPT ![c] = @ + 1] /\ request_count' = r
    BY <1>1, <1>2, <1>7, <2>1 DEF VerifyPays
  <2>3. SumFunctionOnSet(w, Candidates) = SumFunctionOnSet(v, Candidates) + 1
    <3>1. /\ w \in [Candidates -> Nat] /\ w[c] = v[c] + 1
          /\ \A d \in Candidates : d # c => w[d] = v[d]
      BY <1>3, <2>2
    <3> QED
      BY <1>3, <3>1, OneMore
  <2>4. requests_used' = requests_used + 1 /\ verify_requests_used' = verify_requests_used + 1
    BY <1>7 DEF VerifyPays
  <2>5. /\ SumFunctionOnSet(verify_round', Candidates) = SumFunctionOnSet(v, Candidates) + 1
        /\ SumFunctionOnSet(request_count', Candidates) = SumFunctionOnSet(r, Candidates)
    BY <2>1, <2>2, <2>3
  <2>6. /\ requests_used' = explorer_requests_used' + verify_requests_used'
                              + SumFunctionOnSet(request_count', Candidates)
        /\ verify_requests_used' = SumFunctionOnSet(verify_round', Candidates)
    BY <1>3, <1>4, <1>5, <2>4, <2>5
  <2> QED
    BY <2>6 DEF Ledgers
<1>8. ASSUME NEW c \in Candidates, AnalysisPays(c) PROVE Ledgers'
  <2>1. PICK w : w = request_count'
    OBVIOUS
  <2>2. w = [r EXCEPT ![c] = @ + 1] /\ verify_round' = v
    BY <1>1, <1>2, <1>8, <2>1 DEF AnalysisPays
  <2>3. SumFunctionOnSet(w, Candidates) = SumFunctionOnSet(r, Candidates) + 1
    <3>1. /\ w \in [Candidates -> Nat] /\ w[c] = r[c] + 1
          /\ \A d \in Candidates : d # c => w[d] = r[d]
      BY <1>3, <2>2
    <3> QED
      BY <1>3, <3>1, OneMore
  <2>4. requests_used' = requests_used + 1 /\ verify_requests_used' = verify_requests_used
    BY <1>8 DEF AnalysisPays
  <2>5. /\ SumFunctionOnSet(request_count', Candidates) = SumFunctionOnSet(r, Candidates) + 1
        /\ SumFunctionOnSet(verify_round', Candidates) = SumFunctionOnSet(v, Candidates)
    BY <2>1, <2>2, <2>3
  <2>6. /\ requests_used' = explorer_requests_used' + verify_requests_used'
                              + SumFunctionOnSet(request_count', Candidates)
        /\ verify_requests_used' = SumFunctionOnSet(verify_round', Candidates)
    BY <1>3, <1>4, <1>5, <2>4, <2>5
  <2> QED
    BY <2>6 DEF Ledgers
<1> QED
  BY <1>6, <1>7, <1>8, StepPays

\* The budget of the run is kept, and what the stage used is what its candidates
\* asked, one by one (_budgeted_ai_call and _budgeted_protocol_call charge the
\* run; request_count and the rounds of a VerifyAgent are the candidate's own).
THEOREM AccountsBalance == Spec => []BudgetKept
<1>1. Init => Ledgers
  BY LedgersInit
<1>2. TypeOK /\ Ledgers /\ [Next]_vars => Ledgers'
  BY LedgersStep
<1>3. TypeOK /\ BudgetBounded /\ Ledgers => BudgetKept
  <2> SUFFICES ASSUME TypeOK, BudgetBounded, Ledgers PROVE BudgetKept
    OBVIOUS
  <2>1. DOMAIN request_count = Candidates /\ DOMAIN verify_round = Candidates
    BY DEF TypeOK
  <2>2. /\ SumFunction(request_count) = SumFunctionOnSet(request_count, Candidates)
        /\ SumFunction(verify_round) = SumFunctionOnSet(verify_round, Candidates)
    BY <2>1 DEF SumFunction
  <2> QED
    BY <2>2, CountersType DEF TypeOK, BudgetBounded, Ledgers, BudgetKept
<1> QED
  BY <1>1, <1>2, <1>3, TypeCorrect, BudgetNeverExceeded, PTL DEF Spec
-----------------------------------------------------------------------------
\* ContextSlice.
\*
\* Lists of contexts are admitted one by one, so what a slice becomes is shown
\* by going through the values of AdmitAll's recursion from a first that
\* would be wrong; the same for the answers of an extension and for what fits
\* into a request.

\* What may be asked of the fields of a context and of a slice.
ContextFields == {"kind", "method", "name", "path", "first", "last", "weight"}
IsContext(c) ==
    /\ DOMAIN c = ContextFields
    /\ c.kind \in {"method", "window"} => c.first \in Nat /\ c.last \in Nat

SliceFields == {"contexts", "omitted", "edges", "guards", "symbols", "history", "unresolved", "asked"}
IsSlice(d) ==
    /\ DOMAIN d = SliceFields
    /\ IsList(d.contexts) /\ IsList(d.omitted)
    /\ \A c \in ToSet(d.contexts) : IsContext(c)

\* What an extension leaves of a slice.
Grows(d, e) ==
    /\ ToSet(d.contexts) \subseteq ToSet(e.contexts) /\ Len(d.contexts) <= Len(e.contexts)
    /\ ToSet(d.omitted) \subseteq ToSet(e.omitted) /\ Len(d.omitted) <= Len(e.omitted)
    /\ d.asked \subseteq e.asked
    /\ e.unresolved = d.unresolved

\* What becomes of a context that is to be admitted.
Placed(d, c) == Id(c) \in Ids(d) \/ Id(c) \in ToSet(d.omitted)

LEMMA IdsOf == ASSUME NEW d PROVE Ids(d) = {Id(c) : c \in ToSet(d.contexts)}
BY DEF Ids, ToSet

LEMMA GrowsOn ==
    ASSUME NEW d, NEW e, NEW f, IsSlice(d), IsSlice(e), IsSlice(f), Grows(d, e), Grows(e, f)
    PROVE  Grows(d, f)
<1>1. /\ Len(d.contexts) \in Nat /\ Len(e.contexts) \in Nat /\ Len(f.contexts) \in Nat
      /\ Len(d.omitted) \in Nat /\ Len(e.omitted) \in Nat /\ Len(f.omitted) \in Nat
  BY ListAppend DEF IsSlice
<1> QED
  BY <1>1 DEF Grows

LEMMA GrownIds ==
    ASSUME NEW d, NEW e, Grows(d, e)
    PROVE  Ids(d) \subseteq Ids(e) /\ MethodsIn(d) \subseteq MethodsIn(e)
<1>1. Ids(d) \subseteq Ids(e)
  BY IdsOf DEF Grows
<1> QED
  BY <1>1 DEF MethodsIn

LEMMA AdmitStep ==
    ASSUME NEW a, DOMAIN a = {"doc", "additions"}, IsSlice(a.doc), NEW c, IsContext(c)
    PROVE  /\ DOMAIN Admit(a, c) = {"doc", "additions"}
           /\ IsSlice(Admit(a, c).doc) /\ Grows(a.doc, Admit(a, c).doc)
           /\ \/ Id(c) \in Ids(Admit(a, c).doc)
              \/ /\ Id(c) \in ToSet(Admit(a, c).doc.omitted)
                 /\ Len(Admit(a, c).doc.omitted) > Len(a.doc.omitted)
<1> DEFINE d == a.doc
<1>0. Len(d.contexts) \in Nat /\ Len(d.omitted) \in Nat
  BY ListAppend DEF IsSlice
<1>1. CASE Id(c) \in Ids(d)
  BY <1>0, <1>1 DEF Admit, Grows
<1>2. CASE Id(c) \notin Ids(d) /\ Rejected(d, a.additions, c)
  <2> DEFINE e == Omit(d, c)
             b == [a EXCEPT !.doc = e]
  <2>1. Admit(a, c) = b
    BY <1>2 DEF Admit
  <2>2. DOMAIN b = {"doc", "additions"} /\ b.doc = e
    OBVIOUS
  <2>3. /\ DOMAIN e = SliceFields /\ e.omitted = Append(d.omitted, Id(c))
        /\ e.contexts = d.contexts /\ e.asked = d.asked /\ e.unresolved = d.unresolved
    BY DEF Omit, IsSlice, SliceFields
  <2> HIDE DEF b, e
  <2>4. /\ IsList(e.omitted) /\ Len(e.omitted) = Len(d.omitted) + 1
        /\ ToSet(d.omitted) \subseteq ToSet(e.omitted) /\ Id(c) \in ToSet(e.omitted)
    BY <2>3, ListAppend DEF IsSlice
  <2>5. IsSlice(e) /\ Grows(d, e) /\ Len(e.omitted) > Len(d.omitted)
    BY <1>0, <2>3, <2>4 DEF IsSlice, Grows
  <2> QED
    BY <2>1, <2>2, <2>4, <2>5
<1>3. CASE Id(c) \notin Ids(d) /\ ~Rejected(d, a.additions, c)
  <2> DEFINE e == [d EXCEPT !.contexts = Append(@, c)]
             b == [doc |-> e, additions |-> a.additions + 1]
  <2>1. Admit(a, c) = b
    BY <1>3 DEF Admit
  <2>2. DOMAIN b = {"doc", "additions"} /\ b.doc = e
    OBVIOUS
  <2>3. /\ DOMAIN e = SliceFields /\ e.contexts = Append(d.contexts, c)
        /\ e.omitted = d.omitted /\ e.asked = d.asked /\ e.unresolved = d.unresolved
    BY DEF IsSlice, SliceFields
  <2> HIDE DEF b, e
  <2>4. /\ IsList(e.contexts) /\ Len(e.contexts) = Len(d.contexts) + 1
        /\ ToSet(d.contexts) \subseteq ToSet(e.contexts) /\ c \in ToSet(e.contexts)
        /\ \A x \in ToSet(e.contexts) : x = c \/ x \in ToSet(d.contexts)
    BY <2>3, ListAppend DEF IsSlice
  <2>5. IsSlice(e) /\ Grows(d, e)
    BY <1>0, <2>3, <2>4 DEF IsSlice, Grows
  <2>6. Id(c) \in Ids(e)
    BY <2>4, IdsOf
  <2> QED
    BY <2>1, <2>2, <2>5, <2>6
<1> QED
  BY <1>1, <1>2, <1>3

\* What AdmitAll goes through.
Admissions(after, d, cs) ==
    after = [n \in 0..Len(cs) |->
                IF n = 0 THEN [doc |-> d, additions |-> 0] ELSE Admit(after[n - 1], cs[n])]

LEMMA AdmissionsExist ==
    ASSUME NEW d, NEW cs, Len(cs) \in Nat
    PROVE  \E after : Admissions(after, d, cs)
<1> DEFINE Upto(f, m) ==
             f = [n \in 0..m |-> IF n = 0 THEN [doc |-> d, additions |-> 0] ELSE Admit(f[n - 1], cs[n])]
           Bad == {m \in Nat : ~\E f : Upto(f, m)}
<1>1. ASSUME Bad # {} PROVE FALSE
  <2>1. PICK m \in Bad : \A k \in Bad : m <= k
    BY <1>1, LeastNumber
  <2>2. CASE m = 0
    <3> DEFINE f == [n \in 0..0 |-> [doc |-> d, additions |-> 0]]
    <3>1. Upto(f, 0)
      OBVIOUS
    <3> QED
      BY <2>1, <2>2, <3>1
  <2>3. CASE m # 0
    <3>1. m - 1 \in Nat /\ m - 1 \notin Bad
      <4>1. m \in Nat /\ m - 1 \in Nat /\ ~(m <= m - 1)
        BY <2>1, <2>3
      <4> HIDE DEF Bad
      <4> QED
        BY <2>1, <4>1
    <3>2. PICK f : Upto(f, m - 1)
      BY <3>1
    <3> DEFINE g == [n \in 0..m |-> IF n = m THEN Admit(f[m - 1], cs[m]) ELSE f[n]]
    <3>3. g = [n \in 0..m |-> IF n = 0 THEN [doc |-> d, additions |-> 0] ELSE Admit(g[n - 1], cs[n])]
      <4>1. \A n \in 0..m : g[n] = IF n = 0 THEN [doc |-> d, additions |-> 0] ELSE Admit(g[n - 1], cs[n])
        BY <3>1, <3>2, <2>1, <2>3
      <4> HIDE DEF g
      <4>2. DOMAIN g = 0..m /\ g = [n \in 0..m |-> g[n]]
        BY DEF g
      <4> QED
        BY <4>1, <4>2
    <3> QED
      BY <2>1, <3>3
  <2> QED
    BY <2>2, <2>3
<1> QED
  BY <1>1 DEF Admissions

LEMMA AdmitAllIs ==
    ASSUME NEW d, NEW cs, Len(cs) \in Nat
    PROVE  \E after : Admissions(after, d, cs) /\ AdmitAll(d, cs) = after[Len(cs)].doc
<1> DEFINE t == CHOOSE after : Admissions(after, d, cs)
<1>1. Admissions(t, d, cs)
  BY AdmissionsExist, Zenon
<1>2. AdmitAll(d, cs) = t[Len(cs)].doc
  BY Zenon DEF AdmitAll, Admissions
<1> QED
  BY <1>1, <1>2

LEMMA AdmitAllGrows ==
    ASSUME NEW d, IsSlice(d), NEW cs, Len(cs) \in Nat, \A i \in 1..Len(cs) : IsContext(cs[i])
    PROVE  /\ IsSlice(AdmitAll(d, cs)) /\ Grows(d, AdmitAll(d, cs))
           /\ \A i \in 1..Len(cs) : Placed(AdmitAll(d, cs), cs[i])
           /\ Len(AdmitAll(d, cs).omitted) = Len(d.omitted) =>
                \A i \in 1..Len(cs) : Id(cs[i]) \in Ids(AdmitAll(d, cs))
<1>1. PICK after : Admissions(after, d, cs) /\ AdmitAll(d, cs) = after[Len(cs)].doc
  BY AdmitAllIs
<1> DEFINE Good(n) ==
             /\ DOMAIN after[n] = {"doc", "additions"}
             /\ IsSlice(after[n].doc) /\ Grows(d, after[n].doc)
             /\ \A i \in 1..n : Placed(after[n].doc, cs[i])
             /\ Len(after[n].doc.omitted) = Len(d.omitted) =>
                  \A i \in 1..n : Id(cs[i]) \in Ids(after[n].doc)
           Bad == {n \in 0..Len(cs) : ~Good(n)}
<1>2. ASSUME Bad # {} PROVE FALSE
  <2>1. PICK n \in Bad : \A m \in Bad : n <= m
    <3>1. Bad \subseteq Nat
      OBVIOUS
    <3> HIDE DEF Bad
    <3> QED
      BY <1>2, <3>1, LeastNumber
  <2>2. n \in 0..Len(cs) /\ ~Good(n)
    OBVIOUS
  <2>3. CASE n = 0
    <3>1. after[0] = [doc |-> d, additions |-> 0]
      BY <1>1 DEF Admissions
    <3>2. Len(d.contexts) \in Nat /\ Len(d.omitted) \in Nat
      BY ListAppend DEF IsSlice
    <3>3. Grows(d, d)
      BY <3>2 DEF Grows
    <3> QED
      BY <2>2, <2>3, <3>1, <3>3
  <2>4. CASE n # 0
    <3> DEFINE a == after[n - 1]
    <3>1. n \in 1..Len(cs) /\ n - 1 \in 0..Len(cs) /\ ~(n <= n - 1)
      BY <2>2, <2>4
    <3>2. Good(n - 1)
      <4> HIDE DEF Good
      <4> QED
        BY <2>1, <3>1
    <3>3. after[n] = Admit(a, cs[n])
      BY <1>1, <2>4, <3>1 DEF Admissions
    <3>4. /\ DOMAIN after[n] = {"doc", "additions"}
          /\ IsSlice(after[n].doc) /\ Grows(a.doc, after[n].doc)
          /\ \/ Id(cs[n]) \in Ids(after[n].doc)
             \/ /\ Id(cs[n]) \in ToSet(after[n].doc.omitted)
                /\ Len(after[n].doc.omitted) > Len(a.doc.omitted)
      BY <3>1, <3>2, <3>3, AdmitStep
    <3>5. Grows(d, after[n].doc)
      BY <3>2, <3>4, GrowsOn
    <3>6. \A i \in 1..n : i = n \/ i \in 1..(n - 1)
      BY <3>1
    <3>7. \A i \in 1..n : Placed(after[n].doc, cs[i])
      <4>1. Ids(a.doc) \subseteq Ids(after[n].doc) /\ ToSet(a.doc.omitted) \subseteq ToSet(after[n].doc.omitted)
        BY <3>4, GrownIds DEF Grows
      <4> QED
        BY <3>2, <3>4, <3>6, <4>1 DEF Placed
    <3>8. ASSUME Len(after[n].doc.omitted) = Len(d.omitted)
          PROVE  \A i \in 1..n : Id(cs[i]) \in Ids(after[n].doc)
      <4>1. /\ Len(d.omitted) \in Nat /\ Len(a.doc.omitted) \in Nat
            /\ Len(d.omitted) <= Len(a.doc.omitted)
            /\ Len(a.doc.omitted) <= Len(after[n].doc.omitted)
        BY <3>2, <3>4, ListAppend DEF IsSlice, Grows
      <4>2. Id(cs[n]) \in Ids(after[n].doc) /\ Len(a.doc.omitted) = Len(d.omitted)
        BY <3>4, <3>8, <4>1
      <4> QED
        BY <3>2, <3>4, <3>6, <4>2, GrownIds
    <3> QED
      BY <2>2, <3>4, <3>5, <3>7, <3>8
  <2> QED
    BY <2>3, <2>4
<1>3. Good(Len(cs))
  BY <1>2
<1> QED
  BY <1>1, <1>3

LEMMA ByIdLists ==
    ASSUME NEW ms, ms \subseteq Nat, IsFiniteSet(ms)
    PROVE  Enumerates(ById(ms), ms)
<1> DEFINE s == ById(ms)
           B == [m \in ms |-> {n \in ms : n < m}]
<1>0. \A m, n \in ms : m \in Nat /\ n \in Nat
  OBVIOUS
<1>1. Orders(ms, B)
  <2>1. \A x, y, z \in ms : x < y /\ y < z => x < z
    BY <1>0
  <2>2. \A x, y \in ms : x # y => x < y \/ y < x
    BY <1>0
  <2>3. \A x \in ms : ~(x < x)
    BY <1>0
  <2> QED
    BY <2>1, <2>2, <2>3 DEF Orders
<1>2. s = [i \in 1..Cardinality(ms) |->
             CHOOSE x \in ms : Cardinality({y \in ms : y < x}) = i - 1]
  BY DEF ById, Sorted
<1>3. ASSUME NEW i \in 1..Cardinality(ms), \E x \in ms : Cardinality(B[x]) = i - 1
      PROVE  s[i] \in ms /\ Cardinality(B[s[i]]) = i - 1
  <2>1. \E x \in ms : Cardinality({y \in ms : y < x}) = i - 1
    BY <1>3
  <2>2. s[i] = CHOOSE x \in ms : Cardinality({y \in ms : y < x}) = i - 1
    BY <1>2
  <2>3. s[i] \in ms /\ Cardinality({y \in ms : y < s[i]}) = i - 1
    BY <2>1, <2>2, Zenon
  <2> QED
    BY <2>3
<1>4. s = [i \in 1..Cardinality(ms) |-> s[i]]
  BY <1>2
<1>5. Enumerates(s, ms)
  <2>1. GoesBy(s, ms, B)
    <3> HIDE DEF s, B
    <3> QED
      BY <1>3, <1>4, Zenon DEF GoesBy
  <2> HIDE DEF s, B
  <2> QED
    BY <1>1, <2>1, RankedList, Zenon
<1> QED
  BY <1>5

LEMMA InOrderLists ==
    ASSUME NEW ms, ms \subseteq Methods, IsFiniteSet(ms)
    PROVE  Enumerates(InOrder(ms), ms)
<1> DEFINE s == InOrder(ms)
           Before(m, n) == \/ Method[m].first < Method[n].first
                           \/ Method[m].first = Method[n].first /\ m < n
           B == [m \in ms |-> {n \in ms : Before(n, m)}]
<1>0. \A m \in ms : m \in Nat /\ Method[m].first \in Nat
  BY ContextSliceAssumption
<1>1. /\ \A x, y, z \in ms : Before(x, y) /\ Before(y, z) => Before(x, z)
      /\ \A x, y \in ms : x # y => Before(x, y) \/ Before(y, x)
      /\ \A x \in ms : ~Before(x, x)
  BY <1>0
<1>2. s = [i \in 1..Cardinality(ms) |->
             CHOOSE x \in ms : Cardinality({y \in ms : Before(y, x)}) = i - 1]
  BY DEF InOrder, Sorted
<1> HIDE DEF Before
<1>3. Orders(ms, B)
  BY <1>1 DEF Orders
<1>4. ASSUME NEW i \in 1..Cardinality(ms), \E x \in ms : Cardinality(B[x]) = i - 1
      PROVE  s[i] \in ms /\ Cardinality(B[s[i]]) = i - 1
  <2>1. \E x \in ms : Cardinality({y \in ms : Before(y, x)}) = i - 1
    BY <1>4
  <2>2. s[i] = CHOOSE x \in ms : Cardinality({y \in ms : Before(y, x)}) = i - 1
    BY <1>2
  <2>3. s[i] \in ms /\ Cardinality({y \in ms : Before(y, s[i])}) = i - 1
    BY <2>1, <2>2, Zenon
  <2> QED
    BY <2>3
<1>5. s = [i \in 1..Cardinality(ms) |-> s[i]]
  BY <1>2
<1>6. Enumerates(s, ms)
  <2>1. GoesBy(s, ms, B)
    <3> HIDE DEF s, B
    <3> QED
      BY <1>4, <1>5, Zenon DEF GoesBy
  <2> HIDE DEF s, B
  <2> QED
    BY <1>3, <2>1, RankedList, Zenon
<1> QED
  BY <1>6

AreContexts(cs) ==
    cs \in Seq(ToSet(cs)) /\ \A c \in ToSet(cs) : IsContext(c)

\* cs has been admitted to d.
GrownBy(d, e, cs) ==
    /\ IsSlice(e) /\ Grows(d, e)
    /\ \A c \in ToSet(cs) : Placed(e, c)
    /\ Len(e.omitted) = Len(d.omitted) => \A c \in ToSet(cs) : Id(c) \in Ids(e)

LEMMA AdmittedAll ==
    ASSUME NEW d, IsSlice(d), NEW cs, AreContexts(cs)
    PROVE  GrownBy(d, AdmitAll(d, cs), cs)
<1>1. Len(cs) \in Nat /\ DOMAIN cs = 1..Len(cs) /\ \A i \in 1..Len(cs) : cs[i] \in ToSet(cs)
  BY DEF AreContexts
<1>2. ToSet(cs) = {cs[i] : i \in 1..Len(cs)}
  BY <1>1 DEF ToSet
<1>3. \A i \in 1..Len(cs) : IsContext(cs[i])
  BY <1>1 DEF AreContexts
<1>4. /\ IsSlice(AdmitAll(d, cs)) /\ Grows(d, AdmitAll(d, cs))
      /\ \A i \in 1..Len(cs) : Placed(AdmitAll(d, cs), cs[i])
      /\ Len(AdmitAll(d, cs).omitted) = Len(d.omitted) =>
           \A i \in 1..Len(cs) : Id(cs[i]) \in Ids(AdmitAll(d, cs))
  BY <1>1, <1>3, AdmitAllGrows
<1> QED
  BY <1>2, <1>4 DEF GrownBy

LEMMA PartOfContexts ==
    ASSUME NEW cs, AreContexts(cs), NEW m \in Nat \ {0}, NEW n \in Nat, n <= Len(cs)
    PROVE  /\ AreContexts(SubSeq(cs, m, n))
           /\ \A i \in m..n : cs[i] \in ToSet(SubSeq(cs, m, n))
<1> DEFINE p == SubSeq(cs, m, n)
<1>0. Len(cs) \in Nat /\ \A i \in 1..Len(cs) : cs[i] \in ToSet(cs)
  BY DEF AreContexts
<1>1. \A i \in m..n : cs[i] \in ToSet(cs)
  BY <1>0
<1>2. /\ p \in Seq(ToSet(cs)) /\ Len(p) = IF m <= n THEN n - m + 1 ELSE 0
      /\ \A i \in 1..n - m + 1 : p[i] = cs[m + i - 1]
  BY <1>1, SubSeqProperties, m \in Int, n \in Int
<1> HIDE DEF p
<1>3. IsList(p) /\ DOMAIN p = 1..Len(p)
  BY <1>2, ListOf
<1>4. \A i \in DOMAIN p : p[i] \in ToSet(cs)
  BY <1>2
<1>5. AreContexts(p)
  BY <1>3, <1>4 DEF AreContexts, IsList, ToSet
<1>6. ASSUME NEW i \in m..n PROVE cs[i] \in ToSet(p)
  <2>1. i - m + 1 \in 1..n - m + 1 /\ m + (i - m + 1) - 1 = i /\ m <= n
    OBVIOUS
  <2>2. p[i - m + 1] = cs[i]
    BY <1>2, <2>1
  <2>3. i - m + 1 \in DOMAIN p
    BY <1>2, <1>3, <2>1
  <2> QED
    BY <2>2, <2>3 DEF ToSet
<1> QED
  BY <1>5, <1>6 DEF p

LEMMA AddedWanted ==
    ASSUME NEW d, IsSlice(d), NEW r, NEW cs, AreContexts(cs)
    PROVE  GrownBy(d, AddWanted(d, r, cs), cs)
<1>1. CASE Kind(r) \notin OfClasses
  BY <1>1, AdmittedAll DEF AddWanted
<1>2. CASE Kind(r) \in OfClasses
  <2> DEFINE k == Min({Len(cs), MaxMethods})
             first == SubSeq(cs, 1, k)
             rest == SubSeq(cs, MaxMethods + 1, Len(cs))
             e == AdmitAll(d, first)
             left == {i \in DOMAIN rest : Id(rest[i]) \notin Ids(e)}
             over == Picked(rest, left)
             more == [i \in DOMAIN over |-> Id(over[i])]
             f == [e EXCEPT !.omitted = @ \o more]
  <2>0. Len(cs) \in Nat /\ MaxMethods \in Nat /\ DOMAIN cs = 1..Len(cs)
    BY ContextSliceAssumption DEF AreContexts
  <2>1. AddWanted(d, r, cs) = f
    BY <1>2 DEF AddWanted, Filtered
  <2>2. k \in Nat /\ k <= Len(cs) /\ k <= MaxMethods /\ k \in {Len(cs), MaxMethods}
    <3>1. Len(cs) \in Int /\ MaxMethods \in Int
      BY <2>0
    <3>2. k \in {Len(cs), MaxMethods} /\ k <= Len(cs) /\ k <= MaxMethods
      BY <3>1, MinOfTwo
    <3> HIDE DEF k
    <3> QED
      BY <2>0, <3>2
  <2>3. AreContexts(first) /\ \A i \in 1..k : cs[i] \in ToSet(first)
    <3> HIDE DEF k
    <3> QED
      BY <2>2, PartOfContexts, 1 \in Nat \ {0}
  <2>4. AreContexts(rest) /\ \A i \in MaxMethods + 1..Len(cs) : cs[i] \in ToSet(rest)
    BY <2>0, PartOfContexts, MaxMethods + 1 \in Nat \ {0}
  <2>5. GrownBy(d, e, first)
    <3> HIDE DEF first
    <3> QED
      BY <2>3, AdmittedAll
  <2> HIDE DEF k, first, rest, e
  <2>6. /\ over \in Seq(ToSet(rest)) /\ DOMAIN over = 1..Len(over)
        /\ \A j \in left : \E i \in DOMAIN over : over[i] = rest[j]
    <3>1. rest \in Seq(ToSet(rest)) /\ left \in SUBSET DOMAIN rest
      BY <2>4 DEF AreContexts
    <3> HIDE DEF left
    <3> QED
      BY <3>1, PickedInOrder
  <2>7. more \in Seq({Id(c) : c \in ToSet(rest)}) /\ ToSet(more) = {Id(over[i]) : i \in DOMAIN over}
    <3>1. Len(over) \in Nat /\ \A i \in 1..Len(over) : over[i] \in ToSet(rest)
      BY <2>6
    <3>2. more = [i \in 1..Len(over) |-> Id(over[i])]
      BY <2>6
    <3> QED
      BY <2>6, <3>1, <3>2 DEF ToSet
  <2>8. IsList(more)
    BY <2>7, ListOf
  <2>9. IsSlice(e) /\ DOMAIN e = SliceFields
    BY <2>5 DEF GrownBy, IsSlice
  <2>10. /\ DOMAIN f = SliceFields /\ f.omitted = e.omitted \o more
         /\ f.contexts = e.contexts /\ f.asked = e.asked /\ f.unresolved = e.unresolved
    <3> HIDE DEF more
    <3> QED
      BY <2>9 DEF SliceFields
  <2> HIDE DEF more, f
  <2>11. /\ IsList(f.omitted) /\ Len(f.omitted) = Len(e.omitted) + Len(more)
         /\ Len(e.omitted) \in Nat /\ Len(more) \in Nat
         /\ ToSet(f.omitted) = ToSet(e.omitted) \cup ToSet(more)
    BY <2>8, <2>9, <2>10, ListConcat DEF IsSlice
  <2>12. Len(e.contexts) \in Nat
    BY <2>9, ListAppend DEF IsSlice
  <2>13. IsSlice(f) /\ Grows(e, f) /\ Ids(f) = Ids(e)
    <3>1. IsSlice(f)
      BY <2>9, <2>10, <2>11 DEF IsSlice
    <3>2. Grows(e, f)
      BY <2>10, <2>11, <2>12 DEF Grows
    <3> QED
      BY <2>10, <3>1, <3>2 DEF Ids
  <2>14. Grows(d, f)
    BY <2>5, <2>13, GrowsOn DEF GrownBy
  <2>15. ASSUME NEW i \in 1..Len(cs)
         PROVE  /\ Placed(f, cs[i])
                /\ Len(f.omitted) = Len(d.omitted) => Id(cs[i]) \in Ids(f)
    <3>0. i \in 1..k \/ i \in MaxMethods + 1..Len(cs)
      <4>1. CASE k = Len(cs)
        BY <4>1
      <4>2. CASE k = MaxMethods
        BY <2>0, <4>2
      <4> QED
        BY <2>2, <4>1, <4>2
    <3>1. CASE i \in 1..k
      <4>1. cs[i] \in ToSet(first)
        BY <2>3, <3>1
      <4>2. Placed(e, cs[i]) /\ (Len(e.omitted) = Len(d.omitted) => Id(cs[i]) \in Ids(e))
        BY <2>5, <4>1 DEF GrownBy
      <4>3. Len(f.omitted) = Len(d.omitted) => Len(e.omitted) = Len(d.omitted)
        <5>1. Len(d.omitted) <= Len(e.omitted) /\ Len(d.omitted) \in Nat
          BY <2>5, ListAppend DEF GrownBy, Grows, IsSlice
        <5> QED
          BY <2>11, <5>1
      <4> QED
        BY <2>11, <2>13, <4>2, <4>3 DEF Placed
    <3>2. CASE i \in MaxMethods + 1..Len(cs)
      <4>1. PICK j \in DOMAIN rest : rest[j] = cs[i]
        BY <2>4, <3>2 DEF ToSet
      <4>2. CASE Id(cs[i]) \in Ids(e)
        BY <2>13, <4>2 DEF Placed
      <4>3. CASE Id(cs[i]) \notin Ids(e)
        <5>1. j \in left
          BY <4>1, <4>3
        <5>2. PICK l \in DOMAIN over : over[l] = cs[i]
          BY <2>6, <4>1, <5>1
        <5>3. Id(cs[i]) \in ToSet(more)
          BY <2>7, <5>2
        <5>4. Len(more) > 0
          <6>1. DOMAIN more = 1..Len(more)
            BY <2>8 DEF IsList
          <6> QED
            BY <2>11, <5>3, <6>1 DEF ToSet
        <5>5. Len(d.omitted) <= Len(e.omitted) /\ Len(d.omitted) \in Nat
          BY <2>5, ListAppend DEF GrownBy, Grows, IsSlice
        <5>6. Len(f.omitted) # Len(d.omitted)
          BY <2>11, <5>4, <5>5
        <5> QED
          BY <2>11, <5>3, <5>6 DEF Placed
      <4> QED
        BY <4>2, <4>3
    <3> QED
      BY <3>0, <3>1, <3>2
  <2>16. ToSet(cs) = {cs[i] : i \in 1..Len(cs)}
    BY <2>0 DEF ToSet
  <2> QED
    BY <2>1, <2>13, <2>14, <2>15, <2>16 DEF GrownBy
<1> QED
  BY <1>1, <1>2

\* What is loaded of the call relations is right, and complete for the methods
\* it was loaded for.
GraphRight(g) ==
    /\ DOMAIN g = {"calls", "callers", "callees", "gaps"}
    /\ g.calls \subseteq {c \in Calls : c[1] # c[2]}
    /\ SitesOf(g.callers, g.callees) \subseteq g.calls

LEMMA EnsuredRight ==
    ASSUME NEW g, GraphRight(g), NEW ms, NEW relation
    PROVE  /\ GraphRight(Ensured(g, ms, relation))
           /\ relation \in {"callers", "both"} => ms \subseteq Ensured(g, ms, relation).callers
           /\ relation \in {"callees", "both"} => ms \subseteq Ensured(g, ms, relation).callees
           /\ ms \subseteq Ensured(g, ms, relation).gaps
<1> DEFINE callers == IF relation \in {"callers", "both"} THEN ms \ g.callers ELSE {}
           callees == IF relation \in {"callees", "both"} THEN ms \ g.callees ELSE {}
           h == Ensured(g, ms, relation)
<1>1. /\ DOMAIN h = {"calls", "callers", "callees", "gaps"}
      /\ h.calls = g.calls \cup SitesOf(callers, callees)
      /\ h.callers = g.callers \cup callers /\ h.callees = g.callees \cup callees
      /\ h.gaps = g.gaps \cup ms
  BY DEF Ensured
<1>2. /\ relation \in {"callers", "both"} => callers = ms \ g.callers
      /\ relation \in {"callees", "both"} => callees = ms \ g.callees
  OBVIOUS
<1> HIDE DEF h, callers, callees
<1>3. GraphRight(h)
  BY <1>1 DEF GraphRight, SitesOf
<1> QED
  BY <1>1, <1>2, <1>3 DEF h

\* The edges and symbol gaps of a slice.
Connected(d) ==
    /\ d.edges = {c \in Calls : c[1] # c[2] /\ {c[1], c[2]} \subseteq MethodsIn(d)}
    /\ d.symbols = MethodsIn(d) \cap AmbiguousIn

LEMMA RefreshedIs ==
    ASSUME NEW g, GraphRight(g), NEW d, IsSlice(d)
    PROVE  LET e == Refreshed(Loaded(g, d), d)
           IN /\ GraphRight(Loaded(g, d))
              /\ IsSlice(e) /\ Grows(d, e) /\ Grows(e, d) /\ Connected(e)
              /\ e.contexts = d.contexts /\ e.omitted = d.omitted /\ e.unresolved = d.unresolved
              /\ e.guards = {c \in Ids(d) : /\ c.kind \in {"method", "window"}
                                            /\ Guards[c.path] \cap Lines(c) # {}}
<1> DEFINE h == Loaded(g, d)
           M == MethodsIn(d)
           e == Refreshed(h, d)
<1>1. GraphRight(h) /\ M \subseteq h.callers /\ M \subseteq h.callees /\ M \subseteq h.gaps
  BY EnsuredRight DEF Loaded
<1> HIDE DEF h
<1>2. /\ DOMAIN e = SliceFields
      /\ e.contexts = d.contexts /\ e.omitted = d.omitted /\ e.asked = d.asked
      /\ e.unresolved = d.unresolved
      /\ e.edges = {c \in h.calls : {c[1], c[2]} \subseteq M}
      /\ e.symbols = M \cap h.gaps \cap AmbiguousIn
      /\ e.guards = {c \in Ids(d) : /\ c.kind \in {"method", "window"}
                                    /\ Guards[c.path] \cap Lines(c) # {}}
  <2> HIDE DEF M
  <2>1. DOMAIN d = SliceFields
    BY DEF IsSlice
  <2> QED
    BY <2>1 DEF Refreshed, SliceFields, M
<1> HIDE DEF e
<1>3. MethodsIn(e) = M
  BY <1>2 DEF MethodsIn, Ids
<1>4. {c \in h.calls : {c[1], c[2]} \subseteq M}
        = {c \in Calls : c[1] # c[2] /\ {c[1], c[2]} \subseteq M}
  BY <1>1 DEF GraphRight, SitesOf
<1>5. Connected(e)
  BY <1>1, <1>2, <1>3, <1>4 DEF Connected
<1>6. Len(d.contexts) \in Nat /\ Len(d.omitted) \in Nat
  BY ListAppend DEF IsSlice
<1>7. IsSlice(e) /\ Grows(d, e) /\ Grows(e, d)
  BY <1>2, <1>6 DEF IsSlice, Grows
<1> QED
  BY <1>1, <1>2, <1>5, <1>7 DEF h, e

\* An answer that is true of a slice stays true as the slice grows.
Truthful(d, a) ==
    LET r == a.request
        missing == Designated(r) \ MethodsIn(d)
    IN /\ a.status \in {"fulfilled", "already_present"} => missing = {}
       /\ a.status \in {"fulfilled_limited", "budget_limited"} =>
            /\ missing \subseteq {c.method : c \in ToSet(d.omitted)}
            /\ Key(r) \in d.asked
       /\ a.status = "empty_relation" => Designated(r) = {}
       /\ a.status \in {"not_found", "not_indexed", "ambiguous"} => Key(r) \in d.asked

LEMMA StaysTruthful ==
    ASSUME NEW d, NEW e, Grows(d, e), NEW a, Truthful(d, a)
    PROVE  Truthful(e, a)
<1>1. MethodsIn(d) \subseteq MethodsIn(e)
  BY GrownIds
<1>2. ToSet(d.omitted) \subseteq ToSet(e.omitted) /\ d.asked \subseteq e.asked
  BY DEF Grows
<1> QED
  BY <1>1, <1>2 DEF Truthful

\* What an extension is in the middle of.
IsExtension(x) ==
    /\ DOMAIN x = {"doc", "graph", "answers", "component"}
    /\ IsSlice(x.doc) /\ GraphRight(x.graph)
    /\ IsList(x.answers)
    /\ \A a \in ToSet(x.answers) : Truthful(x.doc, a)

LEMMA AnswerStep ==
    ASSUME NEW x, IsExtension(x), NEW r, NEW status,
           Truthful([x.doc EXCEPT !.asked = IF status \in Open THEN @ \cup {Key(r)} ELSE @],
                    [request |-> r, status |-> status])
    PROVE  IsExtension(Answer(x, r, status)) /\ Grows(x.doc, Answer(x, r, status).doc)
<1> DEFINE d == x.doc
           e == [d EXCEPT !.asked = IF status \in Open THEN @ \cup {Key(r)} ELSE @]
           a == [request |-> r, status |-> status]
           y == Answer(x, r, status)
<1>1. /\ DOMAIN y = {"doc", "graph", "answers", "component"}
      /\ y.doc = e /\ y.graph = x.graph /\ y.answers = Append(x.answers, a)
  BY DEF Answer, IsExtension
<1>2. /\ DOMAIN e = SliceFields /\ e.contexts = d.contexts /\ e.omitted = d.omitted
      /\ e.unresolved = d.unresolved /\ d.asked \subseteq e.asked
  BY DEF IsExtension, IsSlice, SliceFields
<1>3. Len(d.contexts) \in Nat /\ Len(d.omitted) \in Nat
  BY ListAppend DEF IsExtension, IsSlice
<1>4. Truthful(e, a)
  OBVIOUS
<1> HIDE DEF e, y, a
<1>5. IsSlice(e) /\ Grows(d, e)
  BY <1>2, <1>3 DEF IsExtension, IsSlice, Grows
<1>6. IsList(y.answers) /\ \A b \in ToSet(y.answers) : b = a \/ b \in ToSet(x.answers)
  BY <1>1, ListAppend DEF IsExtension
<1>7. \A b \in ToSet(y.answers) : Truthful(e, b)
  BY <1>4, <1>5, <1>6, StaysTruthful DEF IsExtension
<1>8. IsExtension(y)
  BY <1>1, <1>5, <1>6, <1>7 DEF IsExtension
<1> QED
  BY <1>1, <1>5, <1>8 DEF y

LEMMA MatchesAreMethods == ASSUME NEW r PROVE Matches(r) \subseteq Methods
BY DEF Matches, MethodsAt

LEMMA SomeMethods ==
    ASSUME NEW ms, ms \subseteq Methods
    PROVE  /\ ms \subseteq Nat /\ IsFiniteSet(ms) /\ Cardinality(ms) \in Nat
           /\ Cardinality(ms) = 1 => ms = {CHOOSE m \in ms : TRUE}
<1>1. IsFiniteSet(ms) /\ Cardinality(ms) \in Nat /\ ms \subseteq Nat
  BY ContextSliceAssumption, FS_Subset, FS_CardinalityType
<1>2. Cardinality(ms) = 1 => \E m : ms = {m}
  BY <1>1, FS_Singleton
<1> QED
  BY <1>1, <1>2

LEMMA SomeClasses ==
    ASSUME NEW cs, cs \subseteq Classes
    PROVE  /\ Cardinality(cs) \in Nat
           /\ Cardinality(cs) = 1 => cs = {CHOOSE c \in cs : TRUE}
<1>1. IsFiniteSet(cs) /\ Cardinality(cs) \in Nat
  BY ContextSliceAssumption, FS_Subset, FS_CardinalityType
<1>2. Cardinality(cs) = 1 => \E c : cs = {c}
  BY <1>1, FS_Singleton
<1> QED
  BY <1>1, <1>2

LEMMA MethodContextIs ==
    ASSUME NEW m \in Methods, NEW w
    PROVE  /\ IsContext(MethodContext(m, w))
           /\ Id(MethodContext(m, w)).kind = "method" /\ Id(MethodContext(m, w)).method = m
BY ContextSliceAssumption DEF MethodContext, Context, IsContext, ContextFields, Id

LEMMA MethodsListed ==
    ASSUME NEW ms, NEW S, S \subseteq Methods, Enumerates(ms, S), NEW w
    PROVE  /\ AreContexts(MethodContexts(ms, w))
           /\ \A m \in S : MethodContext(m, w) \in ToSet(MethodContexts(ms, w))
           /\ MethodContexts(ms, w) = << >> => S = {}
<1> DEFINE cs == MethodContexts(ms, w)
           T == {MethodContext(m, w) : m \in S}
<1>1. DOMAIN ms = 1..Len(ms) /\ Len(ms) \in Nat /\ \A i \in 1..Len(ms) : ms[i] \in S
  BY DEF Enumerates
<1>2. PICK n \in Nat : n = Len(ms)
  BY <1>1
<1>3. cs = [i \in 1..n |-> MethodContext(ms[i], w)]
  BY <1>1, <1>2 DEF MethodContexts
<1>4. \A i \in 1..n : MethodContext(ms[i], w) \in T
  BY <1>1, <1>2
<1>5. cs \in Seq(T)
  <2> HIDE DEF T, cs
  <2> QED
    BY <1>3, <1>4
<1>6. DOMAIN cs = 1..n
  BY <1>3
<1>7. \A m \in S : MethodContext(m, w) \in ToSet(cs)
  <2> SUFFICES ASSUME NEW m \in S PROVE MethodContext(m, w) \in ToSet(cs)
    OBVIOUS
  <2>1. PICK i \in 1..n : ms[i] = m
    BY <1>2 DEF Enumerates
  <2>2. cs[i] = MethodContext(m, w)
    BY <1>3, <2>1
  <2> HIDE DEF cs
  <2> QED
    BY <1>6, <2>1, <2>2 DEF ToSet
<1>8. \A c \in T : IsContext(c)
  BY MethodContextIs
<1>9. AreContexts(cs)
  <2> HIDE DEF T, cs
  <2>1. IsList(cs) /\ ToSet(cs) \subseteq T
    BY <1>5, ListOf DEF ToSet
  <2> QED
    BY <1>8, <2>1 DEF AreContexts, IsList
<1>10. cs = << >> => S = {}
  <2> HIDE DEF cs
  <2>1. ASSUME cs = << >>, NEW m \in S PROVE FALSE
    <3>1. ToSet(cs) = {}
      BY <2>1 DEF ToSet
    <3> QED
      BY <1>7, <3>1
  <2> QED
    BY <2>1
<1> QED
  BY <1>7, <1>9, <1>10

LEMMA OneContext ==
    ASSUME NEW c, IsContext(c)
    PROVE  AreContexts(<< c >>) /\ c \in ToSet(<< c >>)
<1>1. << c >> \in Seq({c}) /\ ToSet(<< c >>) = {c}
  BY DEF ToSet
<1> QED
  BY <1>1 DEF AreContexts

Asked(r) == r.type \in OfMethods \cup OfClasses \cup {"file_symbols"}

LEMMA Kinds ==
    ASSUME NEW r, Asked(r)
    PROVE  Kind(r) \in {"method", "callers", "callees", "class", "component", "file_symbols"}
BY DEF Asked, Kind, OfMethods, OfClasses

LEMMA Designates ==
    ASSUME NEW r, Asked(r), Unmet(r) = "met"
    PROVE  /\ Kind(r) \in OfMethods => Matches(r) = {CHOOSE m \in Matches(r) : TRUE}
           /\ Kind(r) \in OfClasses => ClassesOf(r.name) = {CHOOSE c \in ClassesOf(r.name) : TRUE}
<1> DEFINE n == IF Kind(r) \in OfMethods THEN Cardinality(Matches(r))
                ELSE IF Kind(r) \in OfClasses THEN Cardinality(ClassesOf(r.name))
                ELSE Cardinality({r.path} \cap Files)
<1>1. ~(n > 1) /\ n # 0
  BY DEF Unmet
<1>2. CASE Kind(r) \in OfMethods
  <2>1. Cardinality(Matches(r)) \in Nat
    BY MatchesAreMethods, SomeMethods
  <2>2. Cardinality(Matches(r)) = 1
    BY <1>1, <1>2, <2>1
  <2>3. Kind(r) \notin OfClasses
    BY <1>2 DEF OfMethods, OfClasses
  <2> QED
    BY <2>2, <2>3, MatchesAreMethods, SomeMethods
<1>3. CASE Kind(r) \in OfClasses
  <2>1. Cardinality(ClassesOf(r.name)) \in Nat /\ ClassesOf(r.name) \subseteq Classes
    BY SomeClasses DEF ClassesOf
  <2>2. Kind(r) \notin OfMethods
    BY <1>3 DEF OfMethods, OfClasses
  <2>3. Cardinality(ClassesOf(r.name)) = 1
    BY <1>1, <1>3, <2>1, <2>2
  <2> QED
    BY <2>1, <2>2, <2>3, SomeClasses
<1> QED
  BY <1>2, <1>3

\* What is wanted for a request is all that it designates.
LEMMA WantedIsDesignated ==
    ASSUME NEW r, Asked(r), Unmet(r) = "met", NEW g, GraphRight(g),
           Kind(r) = "callers" => Matches(r) \subseteq g.callers,
           Kind(r) = "callees" => Matches(r) \subseteq g.callees
    PROVE  /\ AreContexts(Wanted(g, r))
           /\ \A n \in Designated(r) : MethodContext(n, r.weight) \in ToSet(Wanted(g, r))
           /\ Designated(r) \subseteq Methods
           /\ Kind(r) \in {"callers", "callees"} /\ Wanted(g, r) = << >> => Designated(r) = {}
<1> DEFINE m == CHOOSE m \in Matches(r) : TRUE
           c == CHOOSE c \in ClassesOf(r.name) : TRUE
<1>0. Designated(r) \subseteq Methods
  BY MatchesAreMethods DEF Designated, MethodsOf
<1>1. CASE Kind(r) = "method"
  <2>1. Wanted(g, r) = << MethodContext(m, r.weight) >> /\ Designated(r) = Matches(r)
    BY <1>1 DEF Wanted, Designated, OfClasses
  <2>2. Matches(r) = {m}
    BY <1>1, Designates DEF OfMethods
  <2> HIDE DEF m
  <2>3. m \in Methods
    BY <2>2, MatchesAreMethods
  <2> QED
    BY <1>0, <1>1, <2>1, <2>2, <2>3, OneContext, MethodContextIs
<1>2. CASE Kind(r) \in {"callers", "callees"}
  <2> DEFINE S == Related(g, m, Kind(r))
  <2>1. Wanted(g, r) = MethodContexts(ById(S), r.weight)
    BY <1>2 DEF Wanted, OfClasses
  <2>2. Matches(r) = {m}
    BY <1>2, Designates DEF OfMethods
  <2> HIDE DEF m
  <2>3. S = Designated(r)
    <3>0. \A x \in Calls : x = <<x[1], x[2]>> /\ x[1] \in Methods /\ x[2] \in Methods
      BY ContextSliceAssumption
    <3>1. CASE Kind(r) = "callers"
      <4>1. Designated(r) = {n \in Methods : m # n /\ <<n, m>> \in Calls}
        BY <2>2, <3>1 DEF Designated
      <4>2. {x \in g.calls : x[2] = m} = {x \in Calls : x[1] # x[2] /\ x[2] = m}
        BY <2>2, <3>1 DEF GraphRight, SitesOf
      <4>3. S = {x[1] : x \in {x \in g.calls : x[2] = m}}
        BY <3>1 DEF Related
      <4>4. ASSUME NEW n PROVE n \in S <=> n \in Designated(r)
        <5>1. ASSUME n \in S PROVE n \in Designated(r)
          <6>1. PICK x \in Calls : x[1] # x[2] /\ x[2] = m /\ n = x[1]
            BY <4>2, <4>3, <5>1
          <6> QED
            BY <3>0, <4>1, <6>1
        <5>2. ASSUME n \in Designated(r) PROVE n \in S
          <6>1. <<n, m>> \in Calls /\ n # m /\ <<n, m>>[1] = n /\ <<n, m>>[2] = m
            BY <4>1, <5>2
          <6>2. <<n, m>> \in {x \in g.calls : x[2] = m}
            BY <4>2, <6>1
          <6> QED
            BY <4>3, <6>1, <6>2
        <5> QED
          BY <5>1, <5>2
      <4> QED
        BY <4>4
    <3>2. CASE Kind(r) = "callees"
      <4>1. Designated(r) = {n \in Methods : m # n /\ <<m, n>> \in Calls}
        BY <2>2, <3>2 DEF Designated
      <4>2. {x \in g.calls : x[1] = m} = {x \in Calls : x[1] # x[2] /\ x[1] = m}
        BY <2>2, <3>2 DEF GraphRight, SitesOf
      <4>3. S = {x[2] : x \in {x \in g.calls : x[1] = m}}
        BY <3>2 DEF Related
      <4>4. ASSUME NEW n PROVE n \in S <=> n \in Designated(r)
        <5>1. ASSUME n \in S PROVE n \in Designated(r)
          <6>1. PICK x \in Calls : x[1] # x[2] /\ x[1] = m /\ n = x[2]
            BY <4>2, <4>3, <5>1
          <6> QED
            BY <3>0, <4>1, <6>1
        <5>2. ASSUME n \in Designated(r) PROVE n \in S
          <6>1. <<m, n>> \in Calls /\ n # m /\ <<m, n>>[2] = n /\ <<m, n>>[1] = m
            BY <4>1, <5>2
          <6>2. <<m, n>> \in {x \in g.calls : x[1] = m}
            BY <4>2, <6>1
          <6> QED
            BY <4>3, <6>1, <6>2
        <5> QED
          BY <5>1, <5>2
      <4> QED
        BY <4>4
    <3> QED
      BY <1>2, <3>1, <3>2
  <2> HIDE DEF S
  <2>4. Enumerates(ById(S), S) /\ S \subseteq Methods
    BY <1>0, <2>3, SomeMethods, ByIdLists
  <2> QED
    BY <1>0, <2>1, <2>3, <2>4, MethodsListed
<1>3. CASE Kind(r) \in OfClasses
  <2>1. ClassesOf(r.name) = {c} /\ Kind(r) \in {"class", "component"}
    BY <1>3, Designates DEF OfClasses
  <2>2. Designated(r) \subseteq MethodsOf(c)
    <3>1. \A x \in Classes : x.name = r.name => x \in ClassesOf(r.name)
      BY DEF ClassesOf
    <3> HIDE DEF c
    <3>2. \A x \in Classes : x.name = r.name => x = c
      BY <2>1, <3>1
    <3> QED
      BY <2>1, <3>2 DEF Designated
  <2>3. Wanted(g, r) = IF MethodsOf(c) = {} THEN << ClassSummary(c, r.weight) >>
                       ELSE MethodContexts(InOrder(MethodsOf(c)), r.weight)
    BY <2>1 DEF Wanted, OfClasses
  <2> HIDE DEF c
  <2>4. CASE MethodsOf(c) = {}
    <3>1. IsContext(ClassSummary(c, r.weight))
      BY DEF ClassSummary, Context, IsContext, ContextFields
    <3> QED
      BY <1>0, <2>1, <2>2, <2>3, <2>4, <3>1, OneContext
  <2>5. CASE MethodsOf(c) # {}
    <3>1. MethodsOf(c) \subseteq Methods
      BY DEF MethodsOf
    <3>2. Enumerates(InOrder(MethodsOf(c)), MethodsOf(c))
      BY <3>1, SomeMethods, InOrderLists
    <3> QED
      BY <1>0, <2>1, <2>2, <2>3, <2>5, <3>1, <3>2, MethodsListed
  <2> QED
    BY <2>4, <2>5
<1>4. CASE Kind(r) = "file_symbols"
  <2>1. Wanted(g, r) = << FileSymbols(r.path, r.weight) >> /\ Designated(r) = {}
    BY <1>4 DEF Wanted, Designated, OfClasses
  <2>2. IsContext(FileSymbols(r.path, r.weight))
    BY DEF FileSymbols, Context, IsContext, ContextFields
  <2> QED
    BY <1>4, <2>1, <2>2, OneContext
<1> QED
  BY <1>1, <1>2, <1>3, <1>4, Kinds DEF OfClasses

LEMMA MetStep ==
    ASSUME NEW x, IsExtension(x), NEW r, Asked(r), Unmet(r) = "met"
    PROVE  IsExtension(Met(x, r)) /\ Grows(x.doc, Met(x, r).doc)
<1> DEFINE related == Kind(r) \in {"callers", "callees"}
           y == IF related THEN [x EXCEPT !.graph = Ensured(@, Matches(r), Kind(r))] ELSE x
           cs == Wanted(y.graph, r)
           d == x.doc
           e == AddWanted(d, r, cs)
           z == [y EXCEPT !.doc = e]
           added == Len(e.contexts) - Len(d.contexts)
           omitted == Len(e.omitted) - Len(d.omitted)
           status == Status(r, cs, added, omitted)
<1>1. /\ DOMAIN y = {"doc", "graph", "answers", "component"}
      /\ y.doc = d /\ y.answers = x.answers
      /\ y.graph = IF related THEN Ensured(x.graph, Matches(r), Kind(r)) ELSE x.graph
  BY DEF IsExtension
<1>2. Met(x, r) = Answer(z, r, status)
  <2>1. Met(x, r) = Grown(y, r, Wanted(y.graph, r))
    BY DEF Met
  <2> HIDE DEF y
  <2>2. Grown(y, r, cs) = Answer(z, r, status)
    BY <1>1 DEF Grown
  <2> QED
    BY <2>1, <2>2
<1> HIDE DEF y
<1>3. /\ GraphRight(y.graph)
      /\ Kind(r) = "callers" => Matches(r) \subseteq y.graph.callers
      /\ Kind(r) = "callees" => Matches(r) \subseteq y.graph.callees
  BY <1>1, EnsuredRight DEF IsExtension
<1>4. /\ AreContexts(cs)
      /\ \A n \in Designated(r) : MethodContext(n, r.weight) \in ToSet(cs)
      /\ Designated(r) \subseteq Methods
      /\ Kind(r) \in {"callers", "callees"} /\ cs = << >> => Designated(r) = {}
  BY <1>3, WantedIsDesignated
<1>5. IsSlice(d)
  BY DEF IsExtension
<1> HIDE DEF cs
<1>6. GrownBy(d, e, cs)
  BY <1>4, <1>5, AddedWanted
<1> HIDE DEF e
<1>7. /\ DOMAIN z = {"doc", "graph", "answers", "component"}
      /\ z.doc = e /\ z.answers = x.answers /\ z.graph = y.graph
  BY <1>1
<1> HIDE DEF z
<1>8. IsExtension(z) /\ Grows(d, e)
  BY <1>3, <1>6, <1>7, StaysTruthful DEF IsExtension, GrownBy
<1> DEFINE f == [e EXCEPT !.asked = IF status \in Open THEN @ \cup {Key(r)} ELSE @]
           a == [request |-> r, status |-> status]
<1> HIDE DEF status
<1>9. /\ f.contexts = e.contexts /\ f.omitted = e.omitted
      /\ status \in Open => Key(r) \in f.asked
  BY <1>6 DEF GrownBy, IsSlice, SliceFields
<1>10. MethodsIn(f) = MethodsIn(e)
  BY <1>9 DEF MethodsIn, Ids
<1> HIDE DEF f
<1>11. ASSUME NEW n \in Designated(r)
       PROVE  /\ Len(e.omitted) = Len(d.omitted) => n \in MethodsIn(e)
              /\ n \in MethodsIn(e) \/ n \in {c.method : c \in ToSet(e.omitted)}
  <2> DEFINE c == MethodContext(n, r.weight)
  <2>1. Id(c).kind = "method" /\ Id(c).method = n
    BY <1>4, MethodContextIs
  <2>2. c \in ToSet(cs)
    BY <1>4
  <2> HIDE DEF c
  <2>3. Id(c) \in Ids(e) => n \in MethodsIn(e)
    BY <2>1 DEF MethodsIn
  <2>4. Id(c) \in ToSet(e.omitted) => n \in {b.method : b \in ToSet(e.omitted)}
    BY <2>1
  <2> QED
    BY <1>6, <2>2, <2>3, <2>4 DEF GrownBy, Placed
<1>12. Truthful(f, a)
  <2>1. /\ Len(d.omitted) <= Len(e.omitted) /\ Len(d.omitted) \in Nat /\ Len(e.omitted) \in Nat
        /\ Len(d.contexts) \in Nat /\ Len(e.contexts) \in Nat
    BY <1>5, <1>6, ListAppend DEF GrownBy, Grows, IsSlice
  <2>2. status \in {"fulfilled", "already_present"} => Len(e.omitted) = Len(d.omitted)
    <3>1. status \in {"fulfilled", "already_present"} => ~(omitted > 0)
      <4> HIDE DEF omitted, added
      <4> QED
        BY DEF status, Status
    <3>2. ~(omitted > 0) => Len(e.omitted) = Len(d.omitted)
      <4>1. PICK m \in Nat : m = Len(e.omitted)
        BY <2>1
      <4>2. PICK n \in Nat : n = Len(d.omitted) /\ n <= m
        BY <2>1, <4>1
      <4>3. omitted = m - n
        BY <4>1, <4>2
      <4>4. ~(m - n > 0) => m = n
        BY <4>2
      <4> QED
        BY <4>1, <4>2, <4>3, <4>4, Zenon
    <3> HIDE DEF omitted
    <3> QED
      BY <3>1, <3>2, Zenon
  <2>3. status = "empty_relation" => Designated(r) = {}
    BY <1>4 DEF status, Status
  <2>4. /\ status \in {"empty_relation", "fulfilled_limited", "fulfilled", "budget_limited", "already_present"}
        /\ status \in {"fulfilled_limited", "budget_limited"} => status \in Open
    BY DEF status, Status, Open
  <2>5. a.request = r /\ a.status = status
    OBVIOUS
  <2> HIDE DEF a
  <2>6. ToSet(f.omitted) = ToSet(e.omitted)
    BY <1>9
  <2> QED
    BY <1>9, <1>10, <1>11, <2>2, <2>3, <2>4, <2>5, <2>6 DEF Truthful
<1>13. IsExtension(Answer(z, r, status)) /\ Grows(e, Answer(z, r, status).doc)
  BY <1>7, <1>8, <1>12, AnswerStep DEF f
<1>14. Grows(d, Answer(z, r, status).doc)
  <2>1. IsSlice(e) /\ IsSlice(Answer(z, r, status).doc)
    BY <1>7, <1>8, <1>13 DEF IsExtension
  <2> QED
    BY <1>5, <1>8, <1>13, <2>1, GrowsOn
<1> QED
  BY <1>2, <1>13, <1>14 DEF status

LEMMA ConsideredStep ==
    ASSUME NEW x, IsExtension(x), NEW r
    PROVE  IsExtension(Considered(x, r)) /\ Grows(x.doc, Considered(x, r).doc)
<1> DEFINE Says(status) == Truthful([x.doc EXCEPT !.asked = IF status \in Open THEN @ \cup {Key(r)} ELSE @],
                                    [request |-> r, status |-> status])
<1>1. CASE ~Asked(r)
  <2>1. Considered(x, r) = Answer(x, r, "unsupported")
    BY <1>1 DEF Considered, Asked, OfClasses
  <2>2. Says("unsupported")
    BY DEF Truthful
  <2> QED
    BY <2>1, <2>2, AnswerStep
<1>2. CASE Asked(r) /\ r.type = "component" /\ r.name = x.component
  <2>1. Considered(x, r) = Answer(x, r, "already_present")
    BY <1>2 DEF Considered, Asked
  <2>2. Designated(r) = {}
    BY <1>2 DEF Designated, Kind
  <2>3. Says("already_present")
    BY <2>2 DEF Truthful
  <2> QED
    BY <2>1, <2>3, AnswerStep
<1>3. CASE Asked(r) /\ ~(r.type = "component" /\ r.name = x.component)
  <2>1. Considered(x, r) = IF Unmet(r) = "met" THEN Met(x, r) ELSE Answer(x, r, Unmet(r))
    BY <1>3 DEF Considered, Asked
  <2>2. CASE Unmet(r) = "met"
    BY <1>3, <2>1, <2>2, MetStep
  <2>3. CASE Unmet(r) # "met"
    <3> DEFINE u == Unmet(r)
    <3>1. u \in {"ambiguous", "not_indexed", "not_found"} /\ u \in Open
      <4>1. u \in {"ambiguous", "not_indexed", "not_found"}
        BY <2>3 DEF Unmet
      <4> QED
        BY <4>1 DEF Open
    <3> HIDE DEF u
    <3>2. Says(u)
      BY <3>1 DEF Truthful, IsExtension, IsSlice, SliceFields
    <3>3. Considered(x, r) = Answer(x, r, u)
      BY <2>1, <2>3 DEF u
    <3> QED
      BY <3>2, <3>3, AnswerStep
  <2> QED
    BY <2>2, <2>3
<1> QED
  BY <1>1, <1>2, <1>3

LEMMA AnsweredStep ==
    ASSUME NEW x, IsExtension(x), NEW r
    PROVE  IsExtension(Answered(x, r)) /\ Grows(x.doc, Answered(x, r).doc)
<1>1. CASE Key(r) \in x.doc.history
  <2>1. Answered(x, r) = Answer(x, r, "duplicate_request")
    BY <1>1 DEF Answered
  <2>2. Truthful([x.doc EXCEPT !.asked = IF "duplicate_request" \in Open THEN @ \cup {Key(r)} ELSE @],
                 [request |-> r, status |-> "duplicate_request"])
    BY DEF Truthful
  <2> QED
    BY <2>1, <2>2, AnswerStep
<1>2. CASE Key(r) \notin x.doc.history
  <2> DEFINE y == [x EXCEPT !.doc.history = @ \cup {Key(r)}]
  <2>1. Answered(x, r) = Considered(y, r)
    BY <1>2 DEF Answered
  <2>2. /\ DOMAIN y = {"doc", "graph", "answers", "component"}
        /\ y.graph = x.graph /\ y.answers = x.answers
        /\ DOMAIN y.doc = SliceFields /\ y.doc.contexts = x.doc.contexts
        /\ y.doc.omitted = x.doc.omitted /\ y.doc.asked = x.doc.asked
        /\ y.doc.unresolved = x.doc.unresolved
    BY DEF IsExtension, IsSlice, SliceFields
  <2> HIDE DEF y
  <2>3. Len(x.doc.contexts) \in Nat /\ Len(x.doc.omitted) \in Nat
    BY ListAppend DEF IsExtension, IsSlice
  <2>4. IsSlice(y.doc) /\ Grows(x.doc, y.doc)
    BY <2>2, <2>3 DEF IsExtension, IsSlice, Grows
  <2>5. IsExtension(y)
    BY <2>2, <2>4, StaysTruthful DEF IsExtension
  <2>6. IsExtension(Considered(y, r)) /\ Grows(y.doc, Considered(y, r).doc)
    BY <2>5, ConsideredStep
  <2> QED
    BY <2>1, <2>4, <2>6, GrowsOn DEF IsExtension
<1> QED
  BY <1>1, <1>2

\* What AnswerAll goes through.
AnswersGiven(after, x, rs) ==
    after = [n \in 0..Len(rs) |-> IF n = 0 THEN x ELSE Answered(after[n - 1], rs[n])]

LEMMA AnswersExist ==
    ASSUME NEW x, NEW rs, Len(rs) \in Nat
    PROVE  \E after : AnswersGiven(after, x, rs)
<1> DEFINE Upto(f, m) == f = [n \in 0..m |-> IF n = 0 THEN x ELSE Answered(f[n - 1], rs[n])]
           Bad == {m \in Nat : ~\E f : Upto(f, m)}
<1>1. ASSUME Bad # {} PROVE FALSE
  <2>1. PICK m \in Bad : \A k \in Bad : m <= k
    BY <1>1, LeastNumber
  <2>2. CASE m = 0
    <3> DEFINE f == [n \in 0..0 |-> x]
    <3>1. Upto(f, 0)
      OBVIOUS
    <3> QED
      BY <2>1, <2>2, <3>1
  <2>3. CASE m # 0
    <3>1. m - 1 \in Nat /\ m - 1 \notin Bad
      <4>1. m \in Nat /\ m - 1 \in Nat /\ ~(m <= m - 1)
        BY <2>1, <2>3
      <4> HIDE DEF Bad
      <4> QED
        BY <2>1, <4>1
    <3>2. PICK f : Upto(f, m - 1)
      BY <3>1
    <3> DEFINE g == [n \in 0..m |-> IF n = m THEN Answered(f[m - 1], rs[m]) ELSE f[n]]
    <3>3. g = [n \in 0..m |-> IF n = 0 THEN x ELSE Answered(g[n - 1], rs[n])]
      <4>1. \A n \in 0..m : g[n] = IF n = 0 THEN x ELSE Answered(g[n - 1], rs[n])
        BY <3>1, <3>2, <2>1, <2>3
      <4> HIDE DEF g
      <4>2. DOMAIN g = 0..m /\ g = [n \in 0..m |-> g[n]]
        BY DEF g
      <4> QED
        BY <4>1, <4>2
    <3> QED
      BY <2>1, <3>3
  <2> QED
    BY <2>2, <2>3
<1> QED
  BY <1>1 DEF AnswersGiven

LEMMA AnswerAllIs ==
    ASSUME NEW x, NEW rs, Len(rs) \in Nat
    PROVE  \E after : AnswersGiven(after, x, rs) /\ AnswerAll(x, rs) = after[Len(rs)]
<1> DEFINE t == CHOOSE after : AnswersGiven(after, x, rs)
<1>1. AnswersGiven(t, x, rs)
  BY AnswersExist, Zenon
<1>2. AnswerAll(x, rs) = t[Len(rs)]
  BY Zenon DEF AnswerAll, AnswersGiven
<1> QED
  BY <1>1, <1>2

LEMMA AnswerAllStep ==
    ASSUME NEW x, IsExtension(x), NEW rs, Len(rs) \in Nat
    PROVE  IsExtension(AnswerAll(x, rs)) /\ Grows(x.doc, AnswerAll(x, rs).doc)
<1>1. PICK after : AnswersGiven(after, x, rs) /\ AnswerAll(x, rs) = after[Len(rs)]
  BY AnswerAllIs
<1> DEFINE Good(n) == IsExtension(after[n]) /\ Grows(x.doc, after[n].doc)
           Bad == {n \in 0..Len(rs) : ~Good(n)}
<1>2. ASSUME Bad # {} PROVE FALSE
  <2>1. PICK n \in Bad : \A m \in Bad : n <= m
    <3>1. Bad \subseteq Nat
      OBVIOUS
    <3> HIDE DEF Bad
    <3> QED
      BY <1>2, <3>1, LeastNumber
  <2>2. n \in 0..Len(rs) /\ ~Good(n)
    OBVIOUS
  <2>3. CASE n = 0
    <3>1. after[0] = x
      BY <1>1 DEF AnswersGiven
    <3>2. Len(x.doc.contexts) \in Nat /\ Len(x.doc.omitted) \in Nat
      BY ListAppend DEF IsSlice, IsExtension
    <3>3. Grows(x.doc, x.doc)
      BY <3>2 DEF Grows
    <3> QED
      BY <2>2, <2>3, <3>1, <3>3
  <2>4. CASE n # 0
    <3>1. n - 1 \in 0..Len(rs) /\ ~(n <= n - 1)
      BY <2>2, <2>4
    <3>2. Good(n - 1)
      <4> HIDE DEF Good
      <4> QED
        BY <2>1, <3>1
    <3>3. after[n] = Answered(after[n - 1], rs[n])
      BY <1>1, <2>2, <2>4 DEF AnswersGiven
    <3>4. IsExtension(after[n]) /\ Grows(after[n - 1].doc, after[n].doc)
      BY <3>2, <3>3, AnsweredStep
    <3>5. Grows(x.doc, after[n].doc)
      BY <3>2, <3>4, GrowsOn DEF IsExtension
    <3> QED
      BY <2>2, <3>4, <3>5
  <2> QED
    BY <2>3, <2>4
<1>3. Good(Len(rs))
  BY <1>2
<1> QED
  BY <1>1, <1>3

\* The lines of a context that must be shown are shown.
LEMMA KeptShows ==
    ASSUME NEW c, DOMAIN c = ContextFields, c.first \in Nat, c.last \in Nat,
           NEW lo \in Nat, NEW hi \in Nat, c.first <= lo, lo <= hi, hi <= c.last,
           hi - lo + 1 <= MaxLines
    PROVE  Kept(c, lo, hi).path = c.path /\ lo..hi \subseteq Lines(Kept(c, lo, hi))
<1> DEFINE available == MaxLines - (hi - lo + 1)
           half == available \div 2
           start == Max({c.first, lo - half})
           end == Min({c.last, start + MaxLines - 1})
           from == IF end = c.last THEN Max({c.first, end - MaxLines + 1}) ELSE start
           e == Kept(c, lo, hi)
<1>0. PICK f \in Nat, l \in Nat, M \in Nat : f = c.first /\ l = c.last /\ M = MaxLines
  BY ContextSliceAssumption
<1>1. e.path = c.path /\ e.first = from /\ e.last = end
  BY DEF Kept, ContextFields
<1>2. half \in Nat /\ half <= available /\ available \in Nat
  <2>1. available \in Nat
    BY <1>0
  <2> HIDE DEF available
  <2> QED
    BY <2>1
<1>3. half \in Int /\ half <= M - (hi - lo + 1) /\ 0 <= half
  BY <1>0, <1>2
<1> HIDE DEF half
<1>4. start \in Int /\ start \in {f, lo - half} /\ start >= f /\ start >= lo - half
  <2>1. f \in Int /\ lo - half \in Int /\ start = Max({f, lo - half})
    BY <1>0, <1>3
  <2> HIDE DEF start
  <2> QED
    BY <2>1, MaxOfTwo
<1> HIDE DEF start
<1>5. end \in Int /\ end \in {l, start + M - 1} /\ end <= l /\ end <= start + M - 1
  <2>1. l \in Int /\ start + M - 1 \in Int /\ end = Min({l, start + M - 1})
    BY <1>0, <1>4
  <2> HIDE DEF end
  <2> QED
    BY <2>1, MinOfTwo
<1> HIDE DEF end
<1>6. start <= lo
  BY <1>0, <1>3, <1>4
<1>7. hi <= end
  <2>1. hi <= start + M - 1
    BY <1>0, <1>3, <1>4
  <2> QED
    BY <1>0, <1>5, <2>1
<1>8. from \in Int /\ from <= lo
  <2>1. CASE end = l
    <3>1. l - M + 1 <= lo /\ l - M + 1 \in Int /\ f \in Int
      BY <1>0, <1>4, <1>5, <1>6, <2>1
    <3>2. from = Max({f, l - M + 1})
      BY <1>0, <2>1
    <3>3. from \in {f, l - M + 1}
      BY <3>1, <3>2, MaxOfTwo
    <3> HIDE DEF from
    <3> QED
      BY <1>0, <3>1, <3>3
  <2>2. CASE end # l
    BY <1>0, <1>4, <1>6, <2>2
  <2> QED
    BY <2>1, <2>2
<1> HIDE DEF from, e
<1>9. lo..hi \subseteq from..end
  BY <1>5, <1>7, <1>8
<1> QED
  BY <1>1, <1>9 DEF Lines, e

LEMMA TrimmedShows ==
    ASSUME NEW d, NEW k, NEW c, IsContext(c), c.kind \in {"method", "window"},
           ~Unsafe(d, k, c)
    PROVE  /\ Trimmed(d, k, c).path = c.path
           /\ Important(d, k, c) \subseteq Lines(Trimmed(d, k, c))
<1> DEFINE lines == Important(d, k, c)
<1>1. lines \subseteq Lines(c) /\ c.first \in Nat /\ c.last \in Nat /\ DOMAIN c = ContextFields
  BY DEF Important, IsContext
<1>2. CASE ~(Large(c) /\ lines # {})
  <2>1. Trimmed(d, k, c) = c
    BY <1>2 DEF Trimmed
  <2> QED
    BY <1>1, <2>1
<1>3. CASE Large(c) /\ lines # {}
  <2>1. Trimmed(d, k, c) = Kept(c, Min(lines), Max(lines))
    BY <1>3 DEF Trimmed
  <2>2. ~(Max(lines) - Min(lines) + 1 > MaxLines)
    BY <1>3 DEF Unsafe
  <2> HIDE DEF lines
  <2>3. \A x \in lines : x \in Nat /\ c.first <= x /\ x <= c.last
    BY <1>1 DEF Lines
  <2>4. Min(lines) \in lines /\ \A x \in lines : Min(lines) <= x
    <3>1. lines \subseteq Nat
      BY <2>3
    <3>2. \E x \in lines : \A y \in lines : x =< y
      BY <1>3, <3>1, LeastNumber
    <3> QED
      BY <3>2, Zenon DEF Min
  <2>5. Max(lines) \in lines /\ \A x \in lines : Max(lines) >= x
    <3>1. lines \subseteq 0..c.last
      BY <1>1, <2>3
    <3>2. \E x \in lines : \A y \in lines : y <= x
      BY <1>1, <1>3, <3>1, GreatestNumber
    <3>3. \E x \in lines : \A y \in lines : x >= y
      BY <2>3, <3>2
    <3> QED
      BY <3>3, Zenon DEF Max
  <2>6. PICK lo \in Nat, hi \in Nat : lo = Min(lines) /\ hi = Max(lines)
    BY <2>3, <2>4, <2>5
  <2>7. c.first <= lo /\ lo <= hi /\ hi <= c.last /\ hi - lo + 1 <= MaxLines
    <3>1. MaxLines \in Nat
      BY ContextSliceAssumption
    <3> QED
      BY <2>2, <2>3, <2>4, <2>5, <2>6, <3>1
  <2>8. Kept(c, lo, hi).path = c.path /\ lo..hi \subseteq Lines(Kept(c, lo, hi))
    BY <1>1, <2>7, KeptShows
  <2>9. lines \subseteq lo..hi
    BY <2>3, <2>4, <2>5, <2>6
  <2> QED
    BY <2>1, <2>6, <2>8, <2>9 DEF lines
<1> QED
  BY <1>2, <1>3

\* What Fill goes through.
Fillings(after, d, core, rest) ==
    after = [n \in 0..Len(rest) |->
                IF n = 0 THEN core
                ELSE IF Fits(d, Append(after[n - 1], rest[n])) THEN Append(after[n - 1], rest[n])
                ELSE after[n - 1]]

LEMMA FillingsExist ==
    ASSUME NEW d, NEW core, NEW rest, Len(rest) \in Nat
    PROVE  \E after : Fillings(after, d, core, rest)
<1> DEFINE Step(x, n) == IF Fits(d, Append(x, rest[n])) THEN Append(x, rest[n]) ELSE x
           Upto(f, m) == f = [n \in 0..m |-> IF n = 0 THEN core ELSE Step(f[n - 1], n)]
           Bad == {m \in Nat : ~\E f : Upto(f, m)}
<1>1. ASSUME Bad # {} PROVE FALSE
  <2> HIDE DEF Step
  <2>1. PICK m \in Bad : \A k \in Bad : m <= k
    BY <1>1, LeastNumber
  <2>2. CASE m = 0
    <3> DEFINE f == [n \in 0..0 |-> core]
    <3>1. Upto(f, 0)
      OBVIOUS
    <3> QED
      BY <2>1, <2>2, <3>1
  <2>3. CASE m # 0
    <3>1. m - 1 \in Nat /\ m - 1 \notin Bad
      <4>1. m \in Nat /\ m - 1 \in Nat /\ ~(m <= m - 1)
        BY <2>1, <2>3
      <4> HIDE DEF Bad
      <4> QED
        BY <2>1, <4>1
    <3>2. PICK f : Upto(f, m - 1)
      BY <3>1
    <3> DEFINE g == [n \in 0..m |-> IF n = m THEN Step(f[m - 1], m) ELSE f[n]]
    <3>3. g = [n \in 0..m |-> IF n = 0 THEN core ELSE Step(g[n - 1], n)]
      <4>1. \A n \in 0..m : g[n] = IF n = 0 THEN core ELSE Step(g[n - 1], n)
        BY <3>1, <3>2, <2>1, <2>3
      <4> HIDE DEF g
      <4>2. DOMAIN g = 0..m /\ g = [n \in 0..m |-> g[n]]
        BY DEF g
      <4> QED
        BY <4>1, <4>2
    <3> QED
      BY <2>1, <3>3
  <2> QED
    BY <2>2, <2>3
<1> QED
  BY <1>1 DEF Fillings

LEMMA FillIs ==
    ASSUME NEW d, NEW core, NEW rest, Len(rest) \in Nat
    PROVE  \E after : Fillings(after, d, core, rest) /\ Fill(d, core, rest) = after[Len(rest)]
<1> DEFINE t == CHOOSE after : Fillings(after, d, core, rest)
<1>1. Fillings(t, d, core, rest)
  BY FillingsExist, Zenon
<1>2. Fill(d, core, rest) = t[Len(rest)]
  BY Zenon DEF Fill, Fillings
<1> QED
  BY <1>1, <1>2

LEMMA FillKeeps ==
    ASSUME NEW d, NEW core, IsList(core), Fits(d, core), NEW rest, Len(rest) \in Nat
    PROVE  /\ ToSet(core) \subseteq ToSet(Fill(d, core, rest))
           /\ Fits(d, Fill(d, core, rest))
<1>1. PICK after : Fillings(after, d, core, rest) /\ Fill(d, core, rest) = after[Len(rest)]
  BY FillIs
<1> DEFINE Good(n) == /\ IsList(after[n]) /\ Fits(d, after[n])
                      /\ ToSet(core) \subseteq ToSet(after[n])
           Bad == {n \in 0..Len(rest) : ~Good(n)}
<1>2. ASSUME Bad # {} PROVE FALSE
  <2>1. PICK n \in Bad : \A m \in Bad : n <= m
    <3>1. Bad \subseteq Nat
      OBVIOUS
    <3> HIDE DEF Bad
    <3> QED
      BY <1>2, <3>1, LeastNumber
  <2>2. n \in 0..Len(rest) /\ ~Good(n)
    OBVIOUS
  <2>3. CASE n = 0
    <3>1. after[0] = core
      BY <1>1 DEF Fillings
    <3> QED
      BY <2>2, <2>3, <3>1
  <2>4. CASE n # 0
    <3>1. n - 1 \in 0..Len(rest) /\ ~(n <= n - 1)
      BY <2>2, <2>4
    <3>2. Good(n - 1)
      <4> HIDE DEF Good
      <4> QED
        BY <2>1, <3>1
    <3>3. after[n] = IF Fits(d, Append(after[n - 1], rest[n]))
                     THEN Append(after[n - 1], rest[n]) ELSE after[n - 1]
      BY <1>1, <2>2, <2>4 DEF Fillings
    <3>4. CASE Fits(d, Append(after[n - 1], rest[n]))
      <4>1. /\ IsList(Append(after[n - 1], rest[n]))
            /\ ToSet(after[n - 1]) \subseteq ToSet(Append(after[n - 1], rest[n]))
        BY <3>2, ListAppend
      <4> QED
        BY <2>2, <3>2, <3>3, <3>4, <4>1
    <3>5. CASE ~Fits(d, Append(after[n - 1], rest[n]))
      BY <2>2, <3>2, <3>3, <3>5
    <3> QED
      BY <3>4, <3>5
  <2> QED
    BY <2>3, <2>4
<1>3. Good(Len(rest))
  BY <1>2
<1> QED
  BY <1>1, <1>3

\* What a slice that can be sent is made of.
LEMMA TrimIs ==
    ASSUME NEW d, IsSlice(d), NEW k, Trim(d, k).ok
    PROVE  /\ \A i \in DOMAIN d.contexts :
                /\ ~Unsafe(d, k, d.contexts[i])
                /\ Core(d, k, d.contexts[i]) =>
                     Trimmed(d, k, d.contexts[i]) \in ToSet(Trim(d, k).contexts)
           /\ Fits(d, Trim(d, k).contexts)
<1> DEFINE N == Len(d.contexts)
           prepared == [i \in DOMAIN d.contexts |-> Trimmed(d, k, d.contexts[i])]
           IsCore(c) == \E i \in DOMAIN prepared : prepared[i] = c /\ Core(d, k, d.contexts[i])
           Rest(p) == {i \in DOMAIN prepared :
                         ~IsCore(prepared[i]) /\ p = IF Large(prepared[i]) THEN 3 ELSE prepared[i].weight}
           kept == {i \in DOMAIN prepared : IsCore(prepared[i])}
           core == Picked(prepared, kept)
           rest == Picked(prepared, Rest(2)) \o Picked(prepared, Rest(3))
           fails == \/ \E i \in DOMAIN d.contexts : Unsafe(d, k, d.contexts[i])
                    \/ ~Fits(d, core)
<1>1. Trim(d, k) = IF fails THEN NotSent ELSE [ok |-> TRUE, contexts |-> Fill(d, core, rest)]
  BY Zenon DEF Trim, Filtered
<1>2. DOMAIN prepared = DOMAIN d.contexts /\ DOMAIN d.contexts = 1..N /\ N \in Nat
  BY DEF IsSlice, IsList
<1>3. prepared \in Seq(ToSet(prepared))
  <2>1. \A i \in 1..N : prepared[i] \in ToSet(prepared)
    BY <1>2 DEF ToSet
  <2>2. prepared = [i \in 1..N |-> prepared[i]]
    BY <1>2
  <2> HIDE DEF prepared, N
  <2> QED
    BY <1>2, <2>1, <2>2
<1>4. ~fails /\ Trim(d, k).contexts = Fill(d, core, rest)
  <2> HIDE DEF fails, core, rest
  <2>1. CASE fails
    BY <1>1, <2>1 DEF NotSent
  <2>2. CASE ~fails
    BY <1>1, <2>2
  <2> QED
    BY <2>1, <2>2
<1>5. kept \in SUBSET DOMAIN prepared /\ Rest(2) \in SUBSET DOMAIN prepared /\ Rest(3) \in SUBSET DOMAIN prepared
  <2> HIDE DEF prepared, IsCore
  <2> QED
    OBVIOUS
<1>6. \A i \in DOMAIN d.contexts :
        /\ prepared[i] = Trimmed(d, k, d.contexts[i])
        /\ Core(d, k, d.contexts[i]) => i \in kept
  BY <1>2
<1>7. /\ \A i \in DOMAIN d.contexts : ~Unsafe(d, k, d.contexts[i])
      /\ Fits(d, core)
  <2> HIDE DEF core
  <2> QED
    BY <1>4
<1> HIDE DEF prepared, kept, Rest, fails
<1>8. /\ core \in Seq(ToSet(prepared))
      /\ \A i \in kept : \E j \in DOMAIN core : core[j] = prepared[i]
  <2>1. Picked(prepared, kept) \in Seq(ToSet(prepared))
    BY <1>3, <1>5, PickedInOrder
  <2>2. \A i \in kept : \E j \in DOMAIN Picked(prepared, kept) : Picked(prepared, kept)[j] = prepared[i]
    <3>1. PICK S, p, ks : S = ToSet(prepared) /\ p = prepared /\ ks = kept
      OBVIOUS
    <3>2. p \in Seq(S) /\ ks \in SUBSET DOMAIN p
      BY <1>3, <1>5, <3>1
    <3>3. \A i \in ks : \E j \in DOMAIN Picked(p, ks) : Picked(p, ks)[j] = p[i]
      BY ONLY <3>2, PickedInOrder
    <3> QED
      BY <3>1, <3>3
  <2> QED
    BY <2>1, <2>2 DEF core
<1>9. Picked(prepared, Rest(2)) \in Seq(ToSet(prepared)) /\ Picked(prepared, Rest(3)) \in Seq(ToSet(prepared))
  BY <1>3, <1>5, PickedInOrder
<1>10. Len(rest) \in Nat
  <2>1. rest \in Seq(ToSet(prepared))
    BY <1>9, ConcatProperties
  <2> HIDE DEF rest
  <2> QED
    BY <2>1
<1> HIDE DEF core, rest
<1>11. ToSet(core) \subseteq ToSet(Trim(d, k).contexts) /\ Fits(d, Trim(d, k).contexts)
  BY <1>4, <1>7, <1>8, <1>10, ListOf, FillKeeps
<1>12. \A i \in kept : prepared[i] \in ToSet(core)
  BY <1>8 DEF ToSet
<1> QED
  BY <1>6, <1>7, <1>11, <1>12

Shown(cs, path) == UNION {Lines(c) : c \in {x \in ToSet(cs) : x.path = path}}

LEMMA SameLines ==
    ASSUME NEW c, IsContext(c)
    PROVE  /\ Lines(Id(c)) = Lines(c) /\ Id(c).path = c.path /\ Id(c).kind = c.kind
           /\ Id(c).name = c.name /\ Id(c).method = c.method
BY DEF Lines, Id, IsContext, ContextFields

\* Whatever is important of a context is shown.
LEMMA TrimShows ==
    ASSUME NEW d, IsSlice(d), NEW k, Trim(d, k).ok,
           NEW c \in Ids(d), c.kind \in {"method", "window"}
    PROVE  /\ AnchorLines(k, c.path) \cap Lines(c) \subseteq Shown(Trim(d, k).contexts, c.path)
           /\ c \in d.guards => Words[c.path] \cap Lines(c) \subseteq Shown(Trim(d, k).contexts, c.path)
<1>1. PICK i \in DOMAIN d.contexts : c = Id(d.contexts[i])
  BY DEF Ids
<1> DEFINE b == d.contexts[i]
           t == Trimmed(d, k, b)
<1>2. IsContext(b)
  BY DEF IsSlice, ToSet
<1>3. Lines(c) = Lines(b) /\ c.path = b.path /\ c.kind = b.kind
  BY <1>1, <1>2, SameLines
<1>4. ~Unsafe(d, k, b) /\ (Core(d, k, b) => t \in ToSet(Trim(d, k).contexts))
  BY TrimIs
<1>5. t.path = b.path /\ Important(d, k, b) \subseteq Lines(t)
  BY <1>2, <1>3, <1>4, TrimmedShows
<1>6. ASSUME \/ AnchorLines(k, c.path) \cap Lines(c) # {}
             \/ c \in d.guards
      PROVE  Important(d, k, b) \subseteq Shown(Trim(d, k).contexts, c.path)
  <2>1. Priority(d, k, b) \in {0, 1}
    BY <1>1, <1>3, <1>6 DEF Priority
  <2>2. Core(d, k, b)
    BY <2>1 DEF Core
  <2>3. t \in ToSet(Trim(d, k).contexts) /\ t.path = c.path
    BY <1>3, <1>4, <1>5, <2>2
  <2> HIDE DEF t
  <2> QED
    BY <1>5, <2>3 DEF Shown
<1>7. /\ AnchorLines(k, c.path) \cap Lines(c) \subseteq Important(d, k, b)
      /\ c \in d.guards => Words[c.path] \cap Lines(c) \subseteq Important(d, k, b)
  BY <1>1, <1>3 DEF Important
<1> QED
  BY <1>6, <1>7

LEMMA AnchorContextIs ==
    ASSUME NEW a, a.path \in Files, a.line \in Nat
    PROVE  /\ IsContext(AnchorContext(a))
           /\ AnchorContext(a).kind \in {"method", "window"}
           /\ AnchorContext(a).path = a.path
           /\ a.line \in 1..LastLine[a.path] => a.line \in Lines(AnchorContext(a))
<1> DEFINE ms == MethodsAt(a.path, a.line)
           m == CHOOSE m \in ms : TRUE
           line == Max({1, a.line})
           w == Window(a.path, line, a.weight)
<1>1. CASE Cardinality(ms) = 1
  <2>1. AnchorContext(a) = MethodContext(m, a.weight)
    BY <1>1 DEF AnchorContext
  <2>2. ms = {m}
    BY <1>1, SomeMethods DEF MethodsAt
  <2>3. m \in Methods /\ Method[m].path = a.path /\ a.line \in Method[m].first..Method[m].last
    <3> HIDE DEF m
    <3>1. m \in ms
      BY <2>2
    <3> QED
      BY <3>1 DEF MethodsAt
  <2> HIDE DEF m
  <2>4. IsContext(MethodContext(m, a.weight))
    BY <2>3, MethodContextIs
  <2>5. /\ MethodContext(m, a.weight).kind = "method" /\ MethodContext(m, a.weight).path = a.path
        /\ a.line \in Lines(MethodContext(m, a.weight))
    BY <2>3 DEF MethodContext, Context, Lines
  <2> QED
    BY <2>1, <2>4, <2>5
<1>2. CASE Cardinality(ms) # 1
  <2>1. AnchorContext(a) = w
    BY <1>2 DEF AnchorContext
  <2>2. /\ HalfWindow \in Nat /\ LastLine[a.path] \in Nat
    BY ContextSliceAssumption
  <2>3. line \in Nat /\ line >= 1 /\ (a.line >= 1 => line = a.line)
    <3>1. line \in {1, a.line} /\ line >= 1 /\ line >= a.line
      <4>1. 1 \in Int /\ a.line \in Int
        OBVIOUS
      <4> HIDE DEF line
      <4> QED
        BY <4>1, MaxOfTwo DEF line
    <3> HIDE DEF line
    <3> QED
      BY <3>1
  <2> HIDE DEF line
  <2> DEFINE f == Max({1, line - HalfWindow})
             l == Min({LastLine[a.path], line + HalfWindow})
  <2>4. /\ DOMAIN w = ContextFields /\ w.kind = "window" /\ w.path = a.path
        /\ w.first = f /\ w.last = l
    BY DEF Window, Context, ContextFields
  <2>5. f \in {1, line - HalfWindow} /\ f >= 1 /\ f >= line - HalfWindow
    <3>1. 1 \in Int /\ line - HalfWindow \in Int
      BY <2>2, <2>3
    <3> QED
      BY <3>1, MaxOfTwo
  <2>6. l \in {LastLine[a.path], line + HalfWindow}
    <3>1. LastLine[a.path] \in Int /\ line + HalfWindow \in Int
      BY <2>2, <2>3
    <3> QED
      BY <3>1, MinOfTwo
  <2> HIDE DEF f, l, w
  <2>7. f \in Nat /\ l \in Nat /\ f <= line
    BY <2>2, <2>3, <2>5, <2>6
  <2>8. IsContext(w)
    BY <2>4, <2>7 DEF IsContext
  <2>9. ASSUME a.line \in 1..LastLine[a.path] PROVE a.line \in Lines(w)
    <3>1. a.line = line /\ line <= l
      BY <2>2, <2>3, <2>6, <2>9
    <3> QED
      BY <2>3, <2>4, <2>7, <3>1 DEF Lines
  <2> QED
    BY <2>1, <2>4, <2>8, <2>9
<1> QED
  BY <1>1, <1>2

\* Where the anchors of a candidate are.
AnchorsPlaced(k, d) ==
    \A a \in ToSet(Anchors(k)) :
        /\ a.path \in Files => Placed(d, AnchorContext(a))
        /\ a.path \in Files \cup {NoPath, "AndroidManifest.xml"}
             \/ [path |-> a.path, line |-> a.line] \in d.unresolved

LEMMA StaysPlaced ==
    ASSUME NEW k, NEW d, NEW e, Grows(d, e), AnchorsPlaced(k, d)
    PROVE  AnchorsPlaced(k, e)
<1>1. Ids(d) \subseteq Ids(e) /\ ToSet(d.omitted) \subseteq ToSet(e.omitted) /\ e.unresolved = d.unresolved
  BY GrownIds DEF Grows
<1> QED
  BY <1>1 DEF AnchorsPlaced, Placed

LEMMA AnchorsAre ==
    ASSUME NEW k \in SliceCandidates
    PROVE  IsList(Anchors(k)) /\ \A a \in ToSet(Anchors(k)) : a.line \in Nat
<1>1. /\ IsList(k.locations) /\ IsList(k.sources) /\ IsList(k.sinks)
      /\ \A a \in ToSet(k.locations) \cup ToSet(k.sources) \cup ToSet(k.sinks) : a.line \in Nat
  BY ContextSliceAssumption DEF IsList
<1>2. /\ IsList(k.locations \o k.sources)
      /\ ToSet(k.locations \o k.sources) = ToSet(k.locations) \cup ToSet(k.sources)
  BY <1>1, ListConcat
<1>3. /\ IsList(Anchors(k))
      /\ ToSet(Anchors(k)) = ToSet(k.locations) \cup ToSet(k.sources) \cup ToSet(k.sinks)
  BY <1>1, <1>2, ListConcat DEF Anchors
<1> QED
  BY <1>1, <1>3

LEMMA EmptySlice == IsSlice(Empty)
<1>1. << >> \in Seq({}) /\ ToSet(<< >>) = {}
  BY DEF ToSet
<1> QED
  BY <1>1 DEF Empty, IsSlice, SliceFields, IsList

LEMMA ContextsConcat ==
    ASSUME NEW s, AreContexts(s), NEW t, AreContexts(t)
    PROVE  AreContexts(s \o t) /\ ToSet(s \o t) = ToSet(s) \cup ToSet(t)
<1>1. IsList(s) /\ IsList(t)
  BY DEF AreContexts, IsList
<1>2. IsList(s \o t) /\ ToSet(s \o t) = ToSet(s) \cup ToSet(t)
  BY <1>1, ListConcat
<1> QED
  BY <1>2 DEF AreContexts, IsList

LEMMA InitialIs ==
    ASSUME NEW k \in SliceCandidates
    PROVE  IsSlice(Initial(k)) /\ AnchorsPlaced(k, Initial(k))
<1> DEFINE as == Anchors(k)
           there == {i \in DOMAIN as : as[i].path \in Files}
           indexed == Picked(as, there)
           lost == {a \in ToSet(as) : a.path \notin Files \cup {NoPath, "AndroidManifest.xml"}}
           gone == {[path |-> a.path, line |-> a.line] : a \in lost}
           class == ClassesOf(k.component)
           entries == IF Cardinality(class) # 1 THEN {}
                      ELSE {m \in MethodsOf(CHOOSE c \in class : TRUE) : Method[m].name \in Lifecycle}
           mid == [i \in DOMAIN indexed |-> AnchorContext(indexed[i])]
           tail == MethodContexts(InOrder(entries), 1)
           contexts == << ManifestContext >> \o mid \o tail
           e == AdmitAll(Empty, contexts)
           f == [e EXCEPT !.unresolved = gone]
<1>1. Initial(k) = f
  BY DEF Initial, Filtered
<1>2. as \in Seq(ToSet(as)) /\ \A a \in ToSet(as) : a.line \in Nat
  BY AnchorsAre DEF IsList
<1> HIDE DEF as
<1>3. /\ indexed \in Seq(ToSet(as)) /\ DOMAIN indexed = 1..Len(indexed)
      /\ \A i \in there : \E j \in DOMAIN indexed : indexed[j] = as[i]
      /\ \A j \in DOMAIN indexed : \E i \in there : indexed[j] = as[i]
  <2>1. there \in SUBSET DOMAIN as
    OBVIOUS
  <2> HIDE DEF there
  <2> QED
    BY <1>2, <2>1, PickedInOrder
<1>4. \A j \in DOMAIN indexed : indexed[j].path \in Files /\ indexed[j].line \in Nat
  <2>1. \A i \in there : as[i].path \in Files /\ as[i] \in ToSet(as)
    BY DEF ToSet
  <2> HIDE DEF there, indexed
  <2> QED
    BY <1>2, <1>3, <2>1
<1>5. \A a \in ToSet(as) : a.path \in Files => \E j \in DOMAIN indexed : indexed[j] = a
  <2> SUFFICES ASSUME NEW a \in ToSet(as), a.path \in Files
               PROVE  \E j \in DOMAIN indexed : indexed[j] = a
    OBVIOUS
  <2>1. PICK i \in there : as[i] = a
    BY DEF ToSet
  <2> HIDE DEF there, indexed
  <2> QED
    BY <1>3, <2>1
<1> HIDE DEF indexed
<1>6. AreContexts(mid) /\ ToSet(mid) = {AnchorContext(indexed[j]) : j \in DOMAIN indexed}
  <2> DEFINE T == {AnchorContext(indexed[j]) : j \in DOMAIN indexed}
  <2>1. mid = [i \in 1..Len(indexed) |-> AnchorContext(indexed[i])] /\ Len(indexed) \in Nat
    BY <1>3
  <2>2. \A i \in 1..Len(indexed) : AnchorContext(indexed[i]) \in T
    BY <1>3
  <2>3. mid \in Seq(T)
    <3> HIDE DEF T, mid
    <3> QED
      BY <2>1, <2>2
  <2>4. ToSet(mid) = T
    BY <1>3, <2>1 DEF ToSet
  <2>5. \A c \in T : IsContext(c)
    BY <1>4, AnchorContextIs
  <2> HIDE DEF T, mid
  <2> QED
    BY <2>3, <2>4, <2>5 DEF AreContexts, T
<1>7. AreContexts(tail)
  <2>1. entries \subseteq Methods
    BY DEF MethodsOf
  <2> HIDE DEF entries
  <2> QED
    BY <2>1, SomeMethods, InOrderLists, MethodsListed
<1>8. AreContexts(<< ManifestContext >>)
  <2>1. IsContext(ManifestContext)
    BY DEF ManifestContext, Context, IsContext, ContextFields
  <2> QED
    BY <2>1, OneContext
<1> HIDE DEF tail, mid
<1>9. AreContexts(contexts) /\ ToSet(mid) \subseteq ToSet(contexts)
  BY <1>6, <1>7, <1>8, ContextsConcat
<1> HIDE DEF contexts
<1>10. GrownBy(Empty, e, contexts)
  BY <1>9, EmptySlice, AdmittedAll
<1>11. IsSlice(e) /\ \A c \in ToSet(mid) : Placed(e, c)
  BY <1>9, <1>10 DEF GrownBy
<1> HIDE DEF e
<1>12. /\ DOMAIN f = SliceFields /\ f.contexts = e.contexts /\ f.omitted = e.omitted
       /\ f.unresolved = gone
  <2> HIDE DEF gone
  <2> QED
    BY <1>11 DEF IsSlice, SliceFields
<1> HIDE DEF f
<1>13. IsSlice(f)
  BY <1>11, <1>12 DEF IsSlice
<1>14. \A c \in ToSet(mid) : Placed(f, c)
  BY <1>11, <1>12 DEF Placed, Ids
<1>15. AnchorsPlaced(k, f)
  <2>1. \A a \in ToSet(as) : a.path \in Files => Placed(f, AnchorContext(a))
    BY <1>5, <1>6, <1>14
  <2>2. \A a \in ToSet(as) : a.path \in Files \cup {NoPath, "AndroidManifest.xml"}
                               \/ [path |-> a.path, line |-> a.line] \in f.unresolved
    BY <1>12
  <2> QED
    BY <2>1, <2>2 DEF AnchorsPlaced, as
<1> QED
  BY <1>1, <1>13, <1>15

-----------------------------------------------------------------------------
\* The invariant.

SliceTypes ==
    /\ cand \in [Slices -> SliceCandidates]
    /\ DOMAIN doc = Slices /\ \A s \in Slices : IsSlice(doc[s])
    /\ DOMAIN phase = Slices /\ DOMAIN sent = Slices /\ DOMAIN answers = Slices
    /\ GraphRight(graph)
Unbuilt == \A s \in Slices : phase[s] = "unbuilt" => answers[s] = << >> /\ ~sent[s].ok
SlicesConnected == \A s \in Slices : phase[s] # "unbuilt" => Connected(doc[s])
AnsweredTruly == \A s \in Slices : \A i \in DOMAIN answers[s] : Truthful(doc[s], answers[s][i])
BuiltOnAnchors == \A s \in Slices : phase[s] # "unbuilt" => AnchorsPlaced(cand[s], doc[s])

SliceInv == /\ SliceTypes /\ Unbuilt /\ SlicesConnected /\ AnsweredTruly
            /\ BuiltOnAnchors /\ ProofIsSent

LEMMA SliceInvInit == SliceInit => SliceInv
<1> SUFFICES ASSUME SliceInit PROVE SliceInv
  OBVIOUS
<1> USE DEF SliceInit
<1>1. SliceTypes
  BY EmptySlice DEF SliceTypes, GraphRight, SitesOf
<1>2. Unbuilt /\ SlicesConnected /\ BuiltOnAnchors
  BY DEF Unbuilt, SlicesConnected, BuiltOnAnchors, NotSent
<1>3. AnsweredTruly
  BY DEF AnsweredTruly
<1>4. ProofIsSent
  BY DEF ProofIsSent, NotSent
<1> QED
  BY <1>1, <1>2, <1>3, <1>4 DEF SliceInv

\* The two parts of ProofIsSent: of the anchors, and of what is being judged.
AnchorsSent(k, d, t) ==
    \A a \in ToSet(Anchors(k)) :
        /\ a.path \in Files /\ a.line \in 1..LastLine[a.path] =>
             a.line \in Shown(t.contexts, a.path) \cup Shown(d.omitted, a.path)
        /\ a.path \in Files \cup {NoPath, "AndroidManifest.xml"}
             \/ [path |-> a.path, line |-> a.line] \in d.unresolved
JudgedSent(k, d, t) ==
    /\ \A c \in Ids(d) : c.path \in Files /\ c.kind \in {"method", "window"} =>
         /\ AnchorLines(k, c.path) \cap Lines(c) \subseteq Shown(t.contexts, c.path)
         /\ c \in d.guards => Words[c.path] \cap Lines(c) \subseteq Shown(t.contexts, c.path)
    /\ Len(t.contexts) <= MaxContexts
    /\ Tokens(d, t.contexts) <= MaxTokens

LEMMA ProofSent ==
    ProofIsSent <=> \A s \in Slices : sent[s].ok =>
                       /\ AnchorsSent(cand[s], doc[s], sent[s])
                       /\ phase[s] = "asked" => JudgedSent(cand[s], doc[s], sent[s])
BY Zenon DEF ProofIsSent, AnchorsSent, JudgedSent, Shown

LEMMA StaysSent ==
    ASSUME NEW k, NEW d, NEW e, Grows(d, e), NEW t, AnchorsSent(k, d, t)
    PROVE  AnchorsSent(k, e, t)
<1>1. \A path : Shown(d.omitted, path) \subseteq Shown(e.omitted, path)
  BY DEF Grows, Shown
<1>2. e.unresolved = d.unresolved
  BY DEF Grows
<1> QED
  BY <1>1, <1>2 DEF AnchorsSent

LEMMA TrimSends ==
    ASSUME NEW k \in SliceCandidates, NEW d, IsSlice(d), AnchorsPlaced(k, d), Trim(d, k).ok
    PROVE  AnchorsSent(k, d, Trim(d, k)) /\ JudgedSent(k, d, Trim(d, k))
<1> DEFINE t == Trim(d, k)
<1>1. ASSUME NEW a \in ToSet(Anchors(k)), a.path \in Files, a.line \in 1..LastLine[a.path]
      PROVE  a.line \in Shown(t.contexts, a.path) \cup Shown(d.omitted, a.path)
  <2> DEFINE c == AnchorContext(a)
  <2>1. /\ IsContext(c) /\ c.kind \in {"method", "window"} /\ c.path = a.path
        /\ a.line \in Lines(c)
    BY <1>1, AnchorsAre, AnchorContextIs
  <2>2. Placed(d, c)
    BY <1>1 DEF AnchorsPlaced
  <2> HIDE DEF c, t
  <2>3. /\ a.line \in Lines(Id(c)) /\ Id(c).path = a.path
        /\ Id(c).kind \in {"method", "window"}
    BY <2>1, SameLines
  <2>4. a.line \in AnchorLines(k, a.path)
    <3>1. a \in ToSet(Anchors(k) \o k.propagation_paths)
      <4>1. IsList(k.propagation_paths)
        BY ContextSliceAssumption DEF IsList
      <4> QED
        BY <1>1, <4>1, AnchorsAre, ListConcat
    <3>2. a.line # 0
      BY <1>1
    <3> QED
      BY <3>1, <3>2 DEF AnchorLines
  <2>5. CASE Id(c) \in Ids(d)
    BY <2>3, <2>4, <2>5, TrimShows DEF t
  <2>6. CASE Id(c) \in ToSet(d.omitted)
    BY <2>3, <2>6 DEF Shown
  <2> QED
    BY <2>2, <2>5, <2>6 DEF Placed
<1>2. AnchorsSent(k, d, t)
  BY <1>1 DEF AnchorsSent, AnchorsPlaced
<1>3. Fits(d, t.contexts)
  BY TrimIs
<1>4. JudgedSent(k, d, t)
  BY <1>3, TrimShows DEF JudgedSent, Fits
<1> QED
  BY <1>2, <1>4

LEMMA BuildKeeps ==
    ASSUME SliceInv, NEW s \in Slices, Build(s)
    PROVE  SliceInv'
<1> DEFINE d == Initial(cand[s])
           e == Refreshed(Loaded(graph, d), d)
<1>1. cand[s] \in SliceCandidates /\ phase[s] = "unbuilt"
  BY DEF SliceInv, SliceTypes, Build
<1>2. IsSlice(d) /\ AnchorsPlaced(cand[s], d)
  BY <1>1, InitialIs
<1> HIDE DEF d
<1>3. GraphRight(Loaded(graph, d)) /\ IsSlice(e) /\ Grows(d, e) /\ Connected(e)
  BY <1>2, RefreshedIs DEF SliceInv, SliceTypes
<1>4. /\ graph' = Loaded(graph, d) /\ doc' = [doc EXCEPT ![s] = e]
      /\ phase' = [phase EXCEPT ![s] = "ready"]
      /\ UNCHANGED <<cand, extensions, sent, answers>>
  BY DEF Build, d
<1> HIDE DEF e
<1>5. doc'[s] = e /\ \A r \in Slices : r # s => doc'[r] = doc[r]
  BY <1>4 DEF SliceInv, SliceTypes
<1>6. phase'[s] = "ready" /\ \A r \in Slices : r # s => phase'[r] = phase[r]
  BY <1>4 DEF SliceInv, SliceTypes
<1>7. SliceTypes'
  BY <1>3, <1>4, <1>5 DEF SliceInv, SliceTypes
<1>8. Unbuilt'
  BY <1>4, <1>6 DEF SliceInv, Unbuilt
<1>9. SlicesConnected'
  BY <1>3, <1>5, <1>6 DEF SliceInv, SlicesConnected
<1>10. AnsweredTruly'
  BY <1>1, <1>4, <1>5 DEF SliceInv, Unbuilt, AnsweredTruly
<1>11. BuiltOnAnchors'
  <2>1. AnchorsPlaced(cand[s], e)
    BY <1>2, <1>3, StaysPlaced
  <2> QED
    BY <1>4, <1>5, <1>6, <2>1 DEF SliceInv, BuiltOnAnchors
<1>12. ProofIsSent'
  <2>1. ~sent'[s].ok
    BY <1>1, <1>4 DEF SliceInv, Unbuilt
  <2>2. \A r \in Slices : sent[r].ok =>
           /\ AnchorsSent(cand[r], doc[r], sent[r])
           /\ phase[r] = "asked" => JudgedSent(cand[r], doc[r], sent[r])
    BY ProofSent DEF SliceInv
  <2>3. \A r \in Slices : sent'[r].ok =>
           /\ AnchorsSent(cand'[r], doc'[r], sent'[r])
           /\ phase'[r] = "asked" => JudgedSent(cand'[r], doc'[r], sent'[r])
    BY <1>4, <1>5, <1>6, <2>1, <2>2
  <2> QED
    BY <2>3, Zenon DEF ProofIsSent, AnchorsSent, JudgedSent, Shown
<1> QED
  BY <1>7, <1>8, <1>9, <1>10, <1>11, <1>12 DEF SliceInv

LEMMA SendKeeps ==
    ASSUME SliceInv, NEW s \in Slices, Send(s)
    PROVE  SliceInv'
<1> DEFINE t == Trim(doc[s], cand[s])
<1>1. /\ phase[s] # "unbuilt" /\ cand[s] \in SliceCandidates /\ IsSlice(doc[s])
      /\ AnchorsPlaced(cand[s], doc[s])
  BY DEF SliceInv, SliceTypes, BuiltOnAnchors, Send
<1>2. /\ sent' = [sent EXCEPT ![s] = t] /\ UNCHANGED <<cand, doc, graph, extensions, answers>>
      /\ sent'[s] = t /\ \A r \in Slices : r # s => sent'[r] = sent[r]
      /\ phase'[s] \in {"asked", "over"} /\ \A r \in Slices : r # s => phase'[r] = phase[r]
      /\ DOMAIN phase' = Slices /\ DOMAIN sent' = Slices
  <2> HIDE DEF t
  <2> QED
    BY DEF SliceInv, SliceTypes, Send, t
<1>3. t.ok => AnchorsSent(cand[s], doc[s], t) /\ JudgedSent(cand[s], doc[s], t)
  BY <1>1, TrimSends
<1> HIDE DEF t
<1>4. SliceTypes'
  BY <1>2 DEF SliceInv, SliceTypes
<1>5. Unbuilt'
  BY <1>2 DEF SliceInv, Unbuilt
<1>6. SlicesConnected' /\ BuiltOnAnchors'
  BY <1>1, <1>2 DEF SliceInv, SlicesConnected, BuiltOnAnchors
<1>7. AnsweredTruly'
  BY <1>2 DEF SliceInv, AnsweredTruly
<1>8. ProofIsSent'
  <2>2. \A r \in Slices : sent[r].ok =>
           /\ AnchorsSent(cand[r], doc[r], sent[r])
           /\ phase[r] = "asked" => JudgedSent(cand[r], doc[r], sent[r])
    BY ProofSent DEF SliceInv
  <2>3. \A r \in Slices : sent'[r].ok =>
           /\ AnchorsSent(cand'[r], doc'[r], sent'[r])
           /\ phase'[r] = "asked" => JudgedSent(cand'[r], doc'[r], sent'[r])
    BY <1>2, <1>3, <2>2
  <2> QED
    BY <2>3, Zenon DEF ProofIsSent, AnchorsSent, JudgedSent, Shown
<1> QED
  BY <1>4, <1>5, <1>6, <1>7, <1>8 DEF SliceInv

LEMMA ExtendKeeps ==
    ASSUME SliceInv, NEW s \in Slices, NEW rs, Len(rs) \in Nat, Extend(s, rs)
    PROVE  SliceInv'
<1> DEFINE o == [doc |-> doc[s], graph |-> graph, answers |-> << >>, component |-> cand[s].component]
           x == AnswerAll(o, rs)
           d == x.doc
           e == Refreshed(Loaded(x.graph, d), d)
<1>1. phase[s] = "asked" /\ IsSlice(doc[s]) /\ GraphRight(graph)
  BY DEF SliceInv, SliceTypes, Extend
<1>2. IsExtension(o) /\ o.doc = doc[s]
  <2>1. << >> \in Seq({}) /\ ToSet(<< >>) = {}
    BY DEF ToSet
  <2> QED
    BY <1>1, <2>1 DEF IsExtension, IsList
<1>3. /\ graph' = Loaded(x.graph, d) /\ doc' = [doc EXCEPT ![s] = e]
      /\ answers' = [answers EXCEPT ![s] = x.answers]
      /\ UNCHANGED <<cand, sent>>
      /\ DOMAIN phase' = Slices
      /\ phase'[s] \in {"ready", "final", "over"} /\ \A r \in Slices : r # s => phase'[r] = phase[r]
  <2> HIDE DEF o
  <2>1. Becomes(s, x) /\ UNCHANGED <<cand, sent>>
    BY DEF Extend, o
  <2> HIDE DEF x
  <2> QED
    BY <2>1 DEF Becomes, SliceInv, SliceTypes
<1> HIDE DEF o
<1>4. IsExtension(x) /\ Grows(doc[s], d)
  BY <1>2, AnswerAllStep
<1> HIDE DEF x
<1>5. GraphRight(Loaded(x.graph, d)) /\ IsSlice(e) /\ Grows(d, e) /\ Connected(e)
  BY <1>4, RefreshedIs DEF IsExtension
<1>6. IsSlice(d) /\ IsList(x.answers) /\ \A a \in ToSet(x.answers) : Truthful(d, a)
  BY <1>4 DEF IsExtension
<1> HIDE DEF d, e
<1>7. Grows(doc[s], e)
  BY <1>1, <1>4, <1>5, <1>6, GrowsOn
<1>8. \A i \in DOMAIN x.answers : Truthful(e, x.answers[i])
  BY <1>5, <1>6, StaysTruthful DEF ToSet
<1>9. doc'[s] = e /\ \A r \in Slices : r # s => doc'[r] = doc[r]
  BY <1>3 DEF SliceInv, SliceTypes
<1>10. answers'[s] = x.answers /\ \A r \in Slices : r # s => answers'[r] = answers[r]
  BY <1>3 DEF SliceInv, SliceTypes
<1>11. SliceTypes'
  BY <1>3, <1>5, <1>9 DEF SliceInv, SliceTypes
<1>12. Unbuilt'
  BY <1>3, <1>10 DEF SliceInv, Unbuilt
<1>13. SlicesConnected'
  BY <1>3, <1>5, <1>9 DEF SliceInv, SlicesConnected
<1>14. AnsweredTruly'
  BY <1>8, <1>9, <1>10 DEF SliceInv, AnsweredTruly
<1>15. BuiltOnAnchors'
  <2>1. AnchorsPlaced(cand[s], e)
    BY <1>1, <1>7, StaysPlaced DEF SliceInv, BuiltOnAnchors
  <2> QED
    BY <1>3, <1>9, <2>1 DEF SliceInv, BuiltOnAnchors
<1>16. ProofIsSent'
  <2>1. \A r \in Slices : sent[r].ok =>
           /\ AnchorsSent(cand[r], doc[r], sent[r])
           /\ phase[r] = "asked" => JudgedSent(cand[r], doc[r], sent[r])
    BY ProofSent DEF SliceInv
  <2>2. sent[s].ok => AnchorsSent(cand[s], e, sent[s])
    BY <1>7, <2>1, StaysSent
  <2>3. \A r \in Slices : sent'[r].ok =>
           /\ AnchorsSent(cand'[r], doc'[r], sent'[r])
           /\ phase'[r] = "asked" => JudgedSent(cand'[r], doc'[r], sent'[r])
    BY <1>3, <1>9, <2>1, <2>2
  <2> QED
    BY <2>3, Zenon DEF ProofIsSent, AnchorsSent, JudgedSent, Shown
<1> QED
  BY <1>11, <1>12, <1>13, <1>14, <1>15, <1>16 DEF SliceInv

LEMMA ConcludeKeeps ==
    ASSUME SliceInv, NEW s \in Slices, Conclude(s)
    PROVE  SliceInv'
<1>1. /\ phase[s] = "asked" /\ UNCHANGED <<cand, doc, graph, extensions, sent, answers>>
      /\ phase'[s] = "over" /\ \A r \in Slices : r # s => phase'[r] = phase[r]
      /\ DOMAIN phase' = Slices
  BY DEF Conclude, SliceInv, SliceTypes
<1>2. SliceTypes' /\ Unbuilt' /\ AnsweredTruly'
  BY <1>1 DEF SliceInv, SliceTypes, Unbuilt, AnsweredTruly
<1>3. SlicesConnected' /\ BuiltOnAnchors'
  BY <1>1 DEF SliceInv, SlicesConnected, BuiltOnAnchors
<1>4. ProofIsSent'
  <2>1. \A r \in Slices : sent[r].ok =>
           /\ AnchorsSent(cand[r], doc[r], sent[r])
           /\ phase[r] = "asked" => JudgedSent(cand[r], doc[r], sent[r])
    BY ProofSent DEF SliceInv
  <2>2. \A r \in Slices : sent'[r].ok =>
           /\ AnchorsSent(cand'[r], doc'[r], sent'[r])
           /\ phase'[r] = "asked" => JudgedSent(cand'[r], doc'[r], sent'[r])
    BY <1>1, <2>1
  <2> QED
    BY <2>2, Zenon DEF ProofIsSent, AnchorsSent, JudgedSent, Shown
<1> QED
  BY <1>2, <1>3, <1>4 DEF SliceInv

\* Whatever the index, the candidates, the limits and the requests of the AI:
\* building a slice, extending it and trimming it keep the invariant, though
\* every slice loads relations for all of them.
THEOREM SliceInvariance == SliceSpec => []SliceInv
<1>1. SliceInit => SliceInv
  BY SliceInvInit
<1>2. SliceInv /\ [SliceNext]_slice_vars => SliceInv'
  <2> SUFFICES ASSUME SliceInv, [SliceNext]_slice_vars PROVE SliceInv'
    OBVIOUS
  <2>1. ASSUME NEW s \in Slices, Build(s) PROVE SliceInv'
    BY <2>1, BuildKeeps
  <2>2. ASSUME NEW s \in Slices, Send(s) PROVE SliceInv'
    BY <2>2, SendKeeps
  <2>3. ASSUME NEW s \in Slices, Conclude(s) PROVE SliceInv'
    BY <2>3, ConcludeKeeps
  <2>4. ASSUME NEW s \in Slices, NEW n \in 1..MaxRequests, NEW rs \in [1..n -> Requests], Extend(s, rs)
        PROVE  SliceInv'
    <3>1. n \in Nat
      OBVIOUS
    <3>2. rs \in Seq(Requests)
      BY <3>1
    <3>3. Len(rs) \in Nat
      BY <3>2
    <3> QED
      BY <2>4, <3>3, ExtendKeeps
  <2>5. CASE UNCHANGED slice_vars
    BY <2>5 DEF slice_vars, SliceInv, SliceTypes, Unbuilt, SlicesConnected, AnsweredTruly,
                BuiltOnAnchors, ProofIsSent
  <2> QED
    BY <2>1, <2>2, <2>3, <2>4, <2>5 DEF SliceNext
<1> QED
  BY <1>1, <1>2, PTL DEF SliceSpec

\* The edges of a slice are all resolved calls between its methods, and its
\* symbol gaps the unresolved ones, whichever slice loaded them and in which
\* direction (_refresh_edges after _ensure_relations).
THEOREM EdgesFollow == SliceSpec => []EdgesAreTheCalls
<1>1. SliceInv => EdgesAreTheCalls
  BY Zenon DEF SliceInv, SlicesConnected, Connected, EdgesAreTheCalls
<1> QED
  BY <1>1, SliceInvariance, PTL

\* What extend tells the AI of its requests is true of the slice, for as long
\* as the slice is extended: fulfilled means all of it is there, limited that
\* the rest is listed and stays open, empty that the index has none.
THEOREM AnswersAreTrue == SliceSpec => []AnswersAreTruthful
<1>1. SliceInv => AnswersAreTruthful
  BY Zenon DEF SliceInv, AnsweredTruly, Truthful, AnswersAreTruthful
<1> QED
  BY <1>1, SliceInvariance, PTL

\* No anchor is lost between the candidate and the request: in a slice that is
\* sent its line is shown or listed as omitted, and the lines of every anchor
\* and guard that the slice has are shown (build_initial, extend, trim).
THEOREM ProofReachesTheModel == SliceSpec => []ProofIsSent
<1>1. SliceInv => ProofIsSent
  BY DEF SliceInv
<1> QED
  BY <1>1, SliceInvariance, PTL
=============================================================================
