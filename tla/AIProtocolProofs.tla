---------------------------- MODULE AIProtocolProofs ----------------------------
(***************************************************************************)
(* Proofs about AIProtocol, for any number of calls and identities.  What a  *)
(* call returns depends on its own answers only, so the invariant is one of  *)
(* each call by itself: where it is, how many requests it has sent and how   *)
(* the last one was answered.                                                *)
(***************************************************************************)
EXTENDS AIProtocol, TLAPS

Sending == {"sending", "sending_uncached"}
Repairing == {"repairing", "repairing_uncached"}
InSave == {"prepare", "open", "replace"}

\* What a call knows at each place before it returns.
Underway(c) ==
    /\ pc[c] \in {"start"} \cup Sending => requests[c] = 0
    /\ pc[c] \in Repairing => /\ requests[c] = 1
                              /\ last[c].form \in {"relaxed", "misfit", "not_json"}
    /\ pc[c] \in InSave => /\ requests[c] \in 1..2
                           /\ last[c].form \in {"strict", "relaxed"}
                           /\ Cacheable(last[c].out)

\* And what it has returned: the three properties, of one call.
Honest(c) ==
    Returned(c) =>
        /\ requests[c] = 0 /\ result[c].status = "completed" =>
              result[c].out.of = identity[c] /\ Cacheable(result[c].out)
        /\ requests[c] > 0 =>
              /\ result[c].status = "completed" => result[c].out = last[c].out
              /\ last[c].form = "strict"
                 /\ (identity[c].track = "preflight" => Cacheable(last[c].out))
                    => result[c].status = "completed"
              /\ last[c].form \in Fatal => result[c].circuit_breaking
        /\ result[c].circuit_breaking =>
              \/ last[c].form \in Fatal
              \/ identity[c].track = "preflight"
              \/ requests[c] = 0 /\ result[c].classification = "prompt_registry_invalid"

IInv == TypeOK /\ \A c \in Calls : Underway(c) /\ Honest(c)
-----------------------------------------------------------------------------
(* Types                                                                    *)

\* What the operators return.
LEMMA FailureType ==
    ASSUME NEW class \in Classes, NEW breaking \in BOOLEAN
    PROVE  Failure(class, breaking) \in Results
BY DEF Failure, Results, Texts

\* The fields of a failure.
LEMMA FailureTrue ==
    ASSUME NEW class
    PROVE  /\ class \in Classes => Failure(class, TRUE) \in Results
           /\ Failure(class, TRUE).status = "failed"
           /\ Failure(class, TRUE).classification = class
           /\ Failure(class, TRUE).circuit_breaking
BY DEF Failure, Results, Texts

LEMMA FailureFalse ==
    ASSUME NEW class
    PROVE  /\ class \in Classes => Failure(class, FALSE) \in Results
           /\ Failure(class, FALSE).status = "failed"
           /\ Failure(class, FALSE).classification = class
           /\ ~Failure(class, FALSE).circuit_breaking
BY DEF Failure, Results, Texts

LEMMA RequestFailureFacts ==
    ASSUME NEW form \in RequestFailures
    PROVE  /\ form \in Classes
           /\ RequestFailure(form) \in Results
           /\ RequestFailure(form).status = "failed"
           /\ RequestFailure(form).circuit_breaking <=> form \in Fatal
<1>0. form \in Classes
  BY DEF Classes
<1>1. CASE form \in Fatal
  <2>1. RequestFailure(form) = Failure(form, TRUE)
    BY <1>1 DEF RequestFailure
  <2> QED
    BY <1>0, <1>1, <2>1, FailureTrue
<1>2. CASE form \notin Fatal
  <2>1. RequestFailure(form) = Failure(form, FALSE)
    BY <1>2 DEF RequestFailure
  <2> QED
    BY <1>0, <1>2, <2>1, FailureFalse
<1> QED
  BY <1>0, <1>1, <1>2

LEMMA RepairFailureFacts ==
    ASSUME NEW c, NEW class \in Classes
    PROVE  /\ RepairFailure(c, class) \in Results
           /\ RepairFailure(c, class).status = "failed"
           /\ RepairFailure(c, class).circuit_breaking
                 <=> class \in Fatal \/ identity[c].track = "preflight"
<1>1. CASE class \in Fatal \/ identity[c].track = "preflight"
  <2>1. RepairFailure(c, class) = Failure(class, TRUE)
    BY <1>1 DEF RepairFailure
  <2> QED
    BY <1>1, <2>1, FailureTrue
<1>2. CASE ~(class \in Fatal \/ identity[c].track = "preflight")
  <2>1. RepairFailure(c, class) = Failure(class, FALSE)
    BY <1>2 DEF RepairFailure
  <2> QED
    BY <1>2, <2>1, FailureFalse
<1> QED
  BY <1>1, <1>2

LEMMA AcceptedType ==
    ASSUME NEW c, NEW o \in Texts
    PROVE  Accepted(c, o) \in Results
<1>1. Failure("response_invalid", TRUE) \in Results
  BY FailureType DEF Classes
<1>2. [status |-> "completed", classification |-> "none",
       circuit_breaking |-> FALSE, out |-> o] \in Results
  BY DEF Results, Classes
<1> QED
  BY <1>1, <1>2 DEF Accepted

LEMMA AnswersType ==
    ASSUME NEW c \in Calls, NEW a \in Answers(c)
    PROVE  /\ a \in LastAnswers
           /\ a.form \in {"strict", "relaxed"} \cup RequestFailures \cup Unfit
           /\ a.out \in Texts
           /\ a.form \in {"strict", "relaxed"} => a.out.of = identity[c]
<1>1. CASE a \in {[form |-> f, out |-> NoOutput] : f \in RequestFailures \cup Unfit}
  <2>1. PICK f \in RequestFailures \cup Unfit : a = [form |-> f, out |-> NoOutput]
    BY <1>1
  <2> QED
    BY <2>1 DEF LastAnswers, Texts, RequestFailures, Fatal, Unfit
<1>2. CASE a \in {[form |-> f, out |-> o] : f \in {"strict", "relaxed"}, o \in OutputsOf(identity[c])}
  <2>1. PICK f \in {"strict", "relaxed"}, o \in OutputsOf(identity[c]) : a = [form |-> f, out |-> o]
    BY <1>2
  <2> QED
    BY <2>1 DEF LastAnswers, Texts, OutputsOf
<1> QED
  BY <1>1, <1>2 DEF Answers

LEMMA TypeInit == Init => TypeOK
<1> SUFFICES ASSUME Init PROVE TypeOK
  OBVIOUS
<1>1. NoResult \in Results /\ NoAnswer \in LastAnswers /\ NoEntry \in [out : Texts, sound : BOOLEAN]
  BY DEF NoResult, Results, Classes, NoAnswer, LastAnswers, NoEntry, Texts
<1> QED
  BY <1>1, AIProtocolAssumption DEF Init, TypeOK, Labels, NotClearing

\* A return, with a result of the right type.
LEMMA ReturnType ==
    ASSUME TypeOK, NEW c \in Calls, NEW r \in Results, Return(c, r)
    PROVE  pc' \in [Calls -> Labels] /\ result' \in [Calls -> Results]
BY DEF TypeOK, Return, Goto, Labels

LEMMA AcceptType ==
    ASSUME TypeOK, NEW c \in Calls, NEW a \in LastAnswers, NEW cached, Accept(c, a, cached)
    PROVE  /\ pc' \in [Calls -> Labels] /\ result' \in [Calls -> Results]
           /\ loop' \in Calls \cup {"free"}
<1>1. a.out \in Texts
  BY DEF LastAnswers
<1>2. CASE Saves(c, a.out, cached)
  BY <1>2 DEF Accept, Goto, TypeOK, Labels
<1>3. CASE ~Saves(c, a.out, cached)
  BY <1>1, <1>3, AcceptedType, ReturnType DEF Accept, TypeOK
<1> QED
  BY <1>2, <1>3

\* Every step of a call keeps the types.
LEMMA CallStepType ==
    ASSUME IInv, NEW c \in Calls, CallStep(c)
    PROVE  TypeOK'
<1> USE DEF IInv
<1>1. CASE EndEarly(c)
  <2>1. /\ [NoResult EXCEPT !.status = "skipped"] \in Results
        /\ Failure("schema_invalid", FALSE) \in Results
        /\ Failure("prompt_registry_invalid", TRUE) \in Results
    BY FailureType DEF Classes, NoResult, Results, Texts
  <2>2. pc' \in [Calls -> Labels] /\ result' \in [Calls -> Results]
    BY <1>1, <2>1, ReturnType DEF EndEarly
  <2> QED
    BY <1>1, <2>2 DEF EndEarly, TypeOK, files, settings, faults
<1>2. CASE LookUp(c)
  <2>1. Accepted(c, entries[identity[c]].out) \in Results /\ Failure("input_too_large", FALSE) \in Results
    BY FailureType, AcceptedType DEF TypeOK, Classes
  <2>2. pc' \in [Calls -> Labels] /\ result' \in [Calls -> Results]
    BY <1>2, <2>1, ReturnType DEF LookUp, Goto, TypeOK, Labels
  <2> QED
    BY <1>2, <2>2 DEF LookUp, TypeOK, files, settings, faults
<1>3. ASSUME NEW a \in Answers(c), FirstAnswer(c, a) PROVE TypeOK'
  <2>1. a \in LastAnswers /\ a.form \in {"strict", "relaxed"} \cup RequestFailures \cup Unfit
    BY AnswersType
  <2>2. \A class \in Classes, breaking \in BOOLEAN : Failure(class, breaking) \in Results
    BY FailureType
  <2>3. /\ pc' \in [Calls -> Labels] /\ result' \in [Calls -> Results]
        /\ loop' \in Calls \cup {"free"}
    <3>1. CASE a.form \in RequestFailures
      <4>0. a.form \notin {"strict", "relaxed", "duplicate_keys", "starved", "not_json", "misfit"}
        BY <3>1 DEF RequestFailures, Fatal
      <4>1. Return(c, RequestFailure(a.form)) /\ UNCHANGED loop
        BY <1>3, <3>1, <4>0 DEF FirstAnswer
      <4>2. RequestFailure(a.form) \in Results
        BY <3>1, RequestFailureFacts
      <4> QED
        BY <4>1, <4>2, ReturnType DEF TypeOK
    <3>2. CASE a.form \in {"duplicate_keys", "starved"}
      BY <1>3, <2>2, <3>2, ReturnType
         DEF FirstAnswer, Classes, TypeOK, RequestFailures, Fatal
    <3>3. CASE a.form \in {"strict", "relaxed", "not_json", "misfit"}
      <4> DEFINE strictly == identity[c].track = "preflight" /\ strict_preflight
                 fits == a.form = "strict" \/ (a.form = "relaxed" /\ ~strictly)
      <4>1. a.form \notin RequestFailures \cup {"duplicate_keys", "starved"}
        BY <3>3 DEF RequestFailures, Fatal
      <4>2. CASE fits
        <5>1. Accept(c, a, pc[c] = "sending")
          BY <1>3, <4>1, <4>2 DEF FirstAnswer
        <5> QED
          BY <2>1, <5>1, AcceptType
      <4>3. CASE ~fits
        <5>1. UNCHANGED loop
          BY <1>3, <4>1, <4>3 DEF FirstAnswer
        <5>2. CASE strictly
          <6>1. Return(c, Failure(IF a.form = "misfit" THEN "schema_invalid"
                                  ELSE "response_invalid", TRUE))
            BY <1>3, <4>1, <4>3, <5>2 DEF FirstAnswer
          <6>2. Failure(IF a.form = "misfit" THEN "schema_invalid"
                        ELSE "response_invalid", TRUE) \in Results
            BY <2>2 DEF Classes
          <6> QED
            BY <5>1, <6>1, <6>2, ReturnType DEF TypeOK
        <5>3. CASE ~strictly
          BY <1>3, <4>1, <4>3, <5>1, <5>3 DEF FirstAnswer, Goto, TypeOK, Labels
        <5> QED
          BY <5>2, <5>3
      <4> QED
        BY <4>2, <4>3
    <3> QED
      BY <2>1, <3>1, <3>2, <3>3 DEF Unfit
  <2>4. requests' \in [Calls -> 0..2] /\ last' \in [Calls -> LastAnswers]
    BY <1>3, <2>1 DEF FirstAnswer, Received, Running, Underway, Sending, TypeOK
  <2> QED
    BY <1>3, <2>3, <2>4 DEF FirstAnswer, TypeOK, files, settings, faults
<1>4. ASSUME NEW a \in Answers(c), RepairAnswer(c, a) PROVE TypeOK'
  <2>1. a \in LastAnswers /\ a.form \in {"strict", "relaxed"} \cup RequestFailures \cup Unfit
    BY AnswersType
  <2>2. \A class \in Classes : RepairFailure(c, class) \in Results
    BY RepairFailureFacts
  <2>3. /\ pc' \in [Calls -> Labels] /\ result' \in [Calls -> Results]
        /\ loop' \in Calls \cup {"free"}
    <3>1. CASE a.form \in {"strict", "relaxed"}
      BY <1>4, <2>1, <3>1, AcceptType DEF RepairAnswer
    <3>2. CASE a.form \notin {"strict", "relaxed"}
      <4>1. RepairFailure(c, IF a.form \in RequestFailures THEN a.form ELSE "schema_invalid")
              \in Results
        BY <2>2 DEF Classes
      <4> QED
        BY <1>4, <3>2, <4>1, ReturnType DEF RepairAnswer, TypeOK
    <3> QED
      BY <3>1, <3>2
  <2>4. requests' \in [Calls -> 0..2] /\ last' \in [Calls -> LastAnswers]
    BY <1>4, <2>1 DEF RepairAnswer, Received, Running, Underway, Repairing, TypeOK
  <2> QED
    BY <1>4, <2>3, <2>4 DEF RepairAnswer, TypeOK, files, settings, faults
<1>5. CASE RepairNotSent(c)
  <2>1. \A why \in {"schema_invalid", "input_too_large"} : RepairFailure(c, why) \in Results
    BY RepairFailureFacts DEF Classes
  <2>2. pc' \in [Calls -> Labels] /\ result' \in [Calls -> Results]
    BY <1>5, <2>1, ReturnType DEF RepairNotSent
  <2> QED
    BY <1>5, <2>2 DEF RepairNotSent, TypeOK, files, settings, faults
<1>6. \A written \in BOOLEAN : Outcome(c, written) \in Results
  BY AcceptedType DEF Outcome, TypeOK, LastAnswers
<1>7. ASSUME NEW written \in BOOLEAN, SaveReturns(c, written)
      PROVE  /\ pc' \in [Calls -> Labels] /\ result' \in [Calls -> Results]
             /\ loop' \in Calls \cup {"free"}
  BY <1>6, <1>7, ReturnType DEF SaveReturns
<1>8. CASE Prepare(c)
  <2>1. /\ pc' \in [Calls -> Labels] /\ result' \in [Calls -> Results]
        /\ loop' \in Calls \cup {"free"} /\ dirs' \subseteq {"root", "entries"}
    BY <1>7, <1>8 DEF Prepare, SaveFails, Goto, TypeOK, Labels
  <2> QED
    BY <1>8, <2>1 DEF Prepare, TypeOK, settings, faults
<1>9. CASE OpenTemp(c)
  <2>1. /\ pc' \in [Calls -> Labels] /\ result' \in [Calls -> Results]
        /\ loop' \in Calls \cup {"free"} /\ temps' \subseteq Calls
    BY <1>7, <1>9 DEF OpenTemp, SaveFails, Goto, TypeOK, Labels
  <2> QED
    BY <1>9, <2>1 DEF OpenTemp, TypeOK, settings, faults
<1>10. CASE Replace(c)
  <2>1. /\ pc' \in [Calls -> Labels] /\ result' \in [Calls -> Results]
        /\ loop' \in Calls \cup {"free"} /\ temps' \subseteq Calls
    BY <1>7, <1>10 DEF Replace, SaveFails, TypeOK
  <2>2. entries' \in [Identities -> [out : Texts, sound : BOOLEAN]]
    <3>1. [out |-> last[c].out, sound |-> TRUE] \in [out : Texts, sound : BOOLEAN]
      BY DEF TypeOK, LastAnswers
    <3> QED
      BY <1>10, <3>1 DEF Replace, TypeOK
  <2> QED
    BY <1>10, <2>1, <2>2 DEF Replace, TypeOK, settings, faults
<1> QED
  BY <1>1, <1>2, <1>3, <1>4, <1>5, <1>8, <1>9, <1>10 DEF CallStep

\* So does everything else.
LEMMA OtherStepType ==
    ASSUME TypeOK,
           ClearStep \/ Kill \/ Restart \/ (\E id \in Identities : Corrupt(id)) \/ UNCHANGED vars
    PROVE  TypeOK'
<1>1. NotClearing \in [at : {"idle", "unlink", "rmdir_root", "mkdir_root"},
                      files : SUBSET Identities, temps : SUBSET Calls]
  BY DEF NotClearing
<1>2. NoEntry \in [out : Texts, sound : BOOLEAN]
  BY DEF NoEntry, Texts
<1>3. CASE ClearBegins
  <2>1. Present \in SUBSET Identities
    BY DEF Present
  <2>2. clear' \in [at : {"idle", "unlink", "rmdir_root", "mkdir_root"},
                   files : SUBSET Identities, temps : SUBSET Calls]
    BY <1>3, <2>1 DEF ClearBegins, NotClearing, TypeOK
  <2> QED
    BY <1>3, <2>2 DEF ClearBegins, TypeOK, call, files, settings, faults
<1>4. CASE Unlink
  BY <1>1, <1>2, <1>4 DEF Unlink, ClearRests, TypeOK, call, settings, faults
<1>5. CASE RemoveEntries \/ RemoveRoot \/ MakeRoot
  BY <1>1, <1>5 DEF RemoveEntries, RemoveRoot, MakeRoot, ClearRests, TypeOK, call, settings, faults
<1>6. CASE Kill
  <2>1. pc' \in [Calls -> Labels]
    BY <1>6 DEF Kill, TypeOK, Labels
  <2>2. kills' \in 0..MaxKills
    BY <1>6, AIProtocolAssumption DEF Kill, TypeOK
  <2> QED
    BY <1>1, <1>6, <2>1, <2>2 DEF Kill, ClearRests, TypeOK, files, settings
<1>7. CASE Restart
  BY <1>7 DEF Restart, TypeOK, call, settings
<1>8. ASSUME NEW id \in Identities, Corrupt(id) PROVE TypeOK'
  <2>1. [out |-> [complete |-> TRUE, good |-> TRUE, of |-> Nobody], sound |-> FALSE]
          \in [out : Texts, sound : BOOLEAN]
    BY DEF Texts
  <2>2. entries' \in [Identities -> [out : Texts, sound : BOOLEAN]]
    BY <1>8, <2>1 DEF Corrupt, TypeOK
  <2> QED
    BY <1>8, <2>2, AIProtocolAssumption DEF Corrupt, TypeOK, call, settings
<1>9. CASE UNCHANGED vars
  BY <1>9 DEF vars, TypeOK, call, files, settings, faults
<1> QED
  BY <1>3, <1>4, <1>5, <1>6, <1>7, <1>8, <1>9 DEF ClearStep

-----------------------------------------------------------------------------
(* What a call knows, and what it returns                                   *)

\* The fields of what preflight() and the other tracks accept.
LEMMA AcceptedFields ==
    ASSUME NEW c, NEW o
    PROVE  /\ Accepted(c, o).status \in {"completed", "failed"}
           /\ Accepted(c, o).status = "completed" => Accepted(c, o).out = o
           /\ (identity[c].track = "preflight" => Cacheable(o)) => Accepted(c, o).status = "completed"
           /\ Accepted(c, o).circuit_breaking => identity[c].track = "preflight"
           /\ Accepted(c, o).status = "completed" => ~Accepted(c, o).circuit_breaking
BY DEF Accepted, Failure, Cacheable

\* A call that does not move, and whose answers do not change, keeps its part.
LEMMA StillKept ==
    ASSUME NEW d \in Calls, Underway(d), Honest(d),
           \/ pc'[d] = pc[d]
           \/ pc'[d] = "killed",
           UNCHANGED <<identity, result[d], requests[d], last[d]>>
    PROVE  Underway(d)' /\ Honest(d)'
BY DEF Underway, Honest, Returned, Sending, Repairing, InSave, Cacheable

\* A return by a call that has sent nothing.
LEMMA EarlyReturnKept ==
    ASSUME TypeOK, NEW c \in Calls, NEW r, Return(c, r),
           UNCHANGED <<identity, requests>>,
           requests[c] = 0,
           r.status = "completed" => r.out.of = identity[c] /\ Cacheable(r.out),
           r.circuit_breaking => \/ identity[c].track = "preflight"
                                 \/ r.classification = "prompt_registry_invalid"
    PROVE  Underway(c)' /\ Honest(c)'
<1>1. pc'[c] = "done" /\ result'[c] = r /\ requests'[c] = 0
  BY DEF Return, Goto, TypeOK
<1> QED
  BY <1>1 DEF Underway, Honest, Returned, Sending, Repairing, InSave, Cacheable

\* A return by a call that was answered.
LEMMA AnsweredReturnKept ==
    ASSUME TypeOK, NEW c \in Calls, NEW r, Return(c, r), UNCHANGED identity,
           requests'[c] \in 1..2,
           r.status = "completed" => r.out = last'[c].out,
           (/\ last'[c].form = "strict"
            /\ identity[c].track = "preflight" => Cacheable(last'[c].out))
              => r.status = "completed",
           last'[c].form \in Fatal => r.circuit_breaking,
           r.circuit_breaking => \/ last'[c].form \in Fatal
                                 \/ identity[c].track = "preflight"
    PROVE  Underway(c)' /\ Honest(c)'
<1>1. pc'[c] = "done" /\ result'[c] = r
  BY DEF Return, Goto, TypeOK
<1>2. Underway(c)'
  BY <1>1 DEF Underway, Sending, Repairing, InSave
<1>3. Honest(c)'
  BY <1>1 DEF Honest
<1> QED
  BY <1>2, <1>3

\* An answer that fits, accepted at once or taken into save.
LEMMA AcceptKept ==
    ASSUME TypeOK, NEW c \in Calls, NEW a, NEW cached, Accept(c, a, cached),
           UNCHANGED identity,
           requests'[c] \in 1..2, last'[c] = a, a.form \in {"strict", "relaxed"}
    PROVE  Underway(c)' /\ Honest(c)'
<1>1. CASE Saves(c, a.out, cached)
  <2>1. pc'[c] = "prepare" /\ Cacheable(a.out)
    BY <1>1 DEF Accept, Goto, Saves, TypeOK
  <2> QED
    BY <2>1 DEF Underway, Honest, Returned, Sending, Repairing, InSave, Cacheable
<1>2. CASE ~Saves(c, a.out, cached)
  <2>1. Return(c, Accepted(c, a.out))
    BY <1>2 DEF Accept
  <2>2. last'[c].form \notin Fatal
    BY DEF Fatal
  <2> QED
    BY <2>1, <2>2, AcceptedFields, AnsweredReturnKept
<1> QED
  BY <1>1, <1>2

\* The return after save, written or not.
LEMMA SaveKept ==
    ASSUME TypeOK, NEW c \in Calls, Underway(c), pc[c] \in InSave,
           NEW written, SaveReturns(c, written), UNCHANGED <<identity, requests, last>>
    PROVE  Underway(c)' /\ Honest(c)'
<1>1. Return(c, Accepted(c, last[c].out))
  BY DEF SaveReturns, Outcome
<1>2. requests'[c] \in 1..2 /\ last'[c] = last[c] /\ last[c].form \notin Fatal
  BY DEF Underway, Fatal
<1> QED
  BY <1>1, <1>2, AcceptedFields, AnsweredReturnKept

\* The step of a call keeps its own part.
LEMMA CallStepOwn ==
    ASSUME IInv, NEW c \in Calls, CallStep(c)
    PROVE  Underway(c)' /\ Honest(c)'
<1> USE DEF IInv
<1>1. CASE EndEarly(c)
  <2>1. requests[c] = 0
    BY <1>1 DEF EndEarly, Running, Underway
  <2>2. PICK r \in {[NoResult EXCEPT !.status = "skipped"], Failure("schema_invalid", FALSE),
                    Failure("prompt_registry_invalid", TRUE)} : Return(c, r)
    BY <1>1 DEF EndEarly
  <2>3. /\ r.status # "completed"
        /\ r.circuit_breaking => r.classification = "prompt_registry_invalid"
    BY <2>2, FailureTrue, FailureFalse DEF NoResult
  <2> QED
    BY <1>1, <2>1, <2>2, <2>3, EarlyReturnKept DEF EndEarly
<1>2. CASE LookUp(c)
  <2>1. requests[c] = 0 /\ UNCHANGED <<identity, requests, last>>
    BY <1>2 DEF LookUp, Running, Underway
  <2>2. CASE \E label \in Sending : Goto(c, label) /\ UNCHANGED result
    <3>1. pc'[c] \in Sending
      BY <2>2 DEF Goto, TypeOK
    <3> QED
      BY <2>1, <3>1 DEF Underway, Honest, Returned, Sending, Repairing, InSave
  <2>3. CASE Return(c, Failure("input_too_large", FALSE))
    BY <2>1, <2>3, FailureTrue, FailureFalse, EarlyReturnKept
  <2>4. CASE /\ Readable(identity[c]) /\ Cacheable(entries[identity[c]].out)
             /\ Return(c, Accepted(c, entries[identity[c]].out))
    <3>1. entries[identity[c]].out.of = identity[c]
      BY <2>4 DEF Readable
    <3> QED
      BY <2>1, <2>4, <3>1, AcceptedFields, EarlyReturnKept
  <2> QED
    BY <1>2, <2>2, <2>3, <2>4 DEF LookUp, Sending
<1>3. ASSUME NEW a \in Answers(c), FirstAnswer(c, a) PROVE Underway(c)' /\ Honest(c)'
  <2>1. a.form \in {"strict", "relaxed"} \cup RequestFailures \cup Unfit
    BY AnswersType
  <2>2. requests'[c] = 1 /\ last'[c] = a /\ UNCHANGED identity
    BY <1>3 DEF FirstAnswer, Received, Running, Underway, Sending, TypeOK
  <2>3. CASE a.form \in RequestFailures
    <3>1. a.form \notin {"strict", "relaxed", "duplicate_keys", "starved", "not_json", "misfit"}
      BY <2>3 DEF RequestFailures, Fatal
    <3>2. Return(c, RequestFailure(a.form))
      BY <1>3, <2>3, <3>1 DEF FirstAnswer
    <3> QED
      BY <2>2, <2>3, <3>1, <3>2, RequestFailureFacts, AnsweredReturnKept
  <2>4. CASE a.form \in {"duplicate_keys", "starved"}
    <3>1. PICK class \in Classes : Return(c, Failure(class, FALSE))
      BY <1>3, <2>4 DEF FirstAnswer, RequestFailures, Fatal, Classes
    <3>2. a.form # "strict" /\ a.form \notin Fatal
      BY <2>4 DEF Fatal
    <3> DEFINE r == Failure(class, FALSE)
    <3>3. r.status = "failed" /\ ~r.circuit_breaking
      BY FailureFalse
    <3>4. Return(c, r)
      BY <3>1
    <3> HIDE DEF r
    <3> QED
      BY <2>2, <3>2, <3>3, <3>4, AnsweredReturnKept
  <2>5. CASE a.form \in {"strict", "relaxed", "not_json", "misfit"}
    <3> DEFINE strictly == identity[c].track = "preflight" /\ strict_preflight
               fits == a.form = "strict" \/ (a.form = "relaxed" /\ ~strictly)
    <3>1. a.form \notin RequestFailures \cup {"duplicate_keys", "starved"} \cup Fatal
      BY <2>5 DEF RequestFailures, Fatal
    <3>2. CASE fits
      <4>1. Accept(c, a, pc[c] = "sending")
        BY <1>3, <3>1, <3>2 DEF FirstAnswer
      <4> QED
        BY <2>2, <3>2, <4>1, AcceptKept
    <3>3. CASE ~fits /\ strictly
      <4>1. PICK class \in Classes : Return(c, Failure(class, TRUE))
        BY <1>3, <3>1, <3>3 DEF FirstAnswer, Classes
      <4> DEFINE r == Failure(class, TRUE)
      <4>2. r.status = "failed" /\ r.circuit_breaking
        BY FailureTrue
      <4>3. Return(c, r)
        BY <4>1
      <4> HIDE DEF r
      <4> QED
        BY <2>2, <3>1, <3>3, <4>2, <4>3, AnsweredReturnKept
    <3>4. CASE ~fits /\ ~strictly
      <4>1. pc'[c] \in Repairing
        BY <1>3, <3>1, <3>4 DEF FirstAnswer, Goto, TypeOK, Repairing
      <4> QED
        BY <2>2, <2>5, <3>4, <4>1 DEF Underway, Honest, Returned, Sending, Repairing, InSave
    <3> QED
      BY <3>2, <3>3, <3>4
  <2> QED
    BY <2>1, <2>3, <2>4, <2>5 DEF Unfit
<1>4. ASSUME NEW a \in Answers(c), RepairAnswer(c, a) PROVE Underway(c)' /\ Honest(c)'
  <2>1. requests'[c] = 2 /\ last'[c] = a /\ UNCHANGED identity
    BY <1>4 DEF RepairAnswer, Received, Running, Underway, Repairing, TypeOK
  <2>2. CASE a.form \in {"strict", "relaxed"}
    <3>1. Accept(c, a, pc[c] = "repairing")
      BY <1>4, <2>2 DEF RepairAnswer
    <3> QED
      BY <2>1, <2>2, <3>1, AcceptKept
  <2>3. CASE a.form \notin {"strict", "relaxed"}
    <3> DEFINE class == IF a.form \in RequestFailures THEN a.form ELSE "schema_invalid"
    <3>1. Return(c, RepairFailure(c, class))
      BY <1>4, <2>3 DEF RepairAnswer
    <3>2. class \in Classes /\ (class \in Fatal <=> a.form \in Fatal) /\ a.form # "strict"
      BY <2>3 DEF Classes, RequestFailures, Fatal
    <3> HIDE DEF class
    <3> QED
      BY <2>1, <3>1, <3>2, RepairFailureFacts, AnsweredReturnKept
  <2> QED
    BY <2>2, <2>3
<1>5. CASE RepairNotSent(c)
  <2>1. /\ requests'[c] = 1 /\ last'[c] = last[c] /\ UNCHANGED identity
        /\ last[c].form \in {"relaxed", "misfit", "not_json"}
    BY <1>5 DEF RepairNotSent, Running, Underway, Repairing
  <2>2. PICK why \in {"schema_invalid", "input_too_large"} : Return(c, RepairFailure(c, why))
    BY <1>5 DEF RepairNotSent
  <2>3. /\ why \in Classes /\ why \notin Fatal
        /\ last[c].form \notin Fatal /\ last[c].form # "strict"
    BY <2>1, <2>2 DEF Classes, Fatal
  <2> QED
    BY <2>1, <2>2, <2>3, RepairFailureFacts, AnsweredReturnKept
<1>6. CASE Prepare(c)
  <2>1. pc[c] \in InSave /\ UNCHANGED <<identity, requests, last>>
    BY <1>6 DEF Prepare, Saving, InSave
  <2>2. CASE SaveFails(c)
    BY <2>1, <2>2, SaveKept DEF SaveFails
  <2>3. CASE Goto(c, "open") /\ UNCHANGED result
    BY <2>1, <2>3 DEF Goto, TypeOK, Underway, Honest, Returned, Sending, Repairing, InSave, Cacheable
  <2> QED
    BY <1>6, <2>2, <2>3 DEF Prepare
<1>7. CASE OpenTemp(c)
  <2>1. pc[c] \in InSave /\ UNCHANGED <<identity, requests, last>>
    BY <1>7 DEF OpenTemp, Saving, InSave
  <2>2. CASE SaveFails(c)
    BY <2>1, <2>2, SaveKept DEF SaveFails
  <2>3. CASE Goto(c, "replace") /\ UNCHANGED result
    BY <2>1, <2>3 DEF Goto, TypeOK, Underway, Honest, Returned, Sending, Repairing, InSave, Cacheable
  <2> QED
    BY <1>7, <2>2, <2>3 DEF OpenTemp
<1>8. CASE Replace(c)
  <2>1. pc[c] \in InSave /\ UNCHANGED <<identity, requests, last>>
    BY <1>8 DEF Replace, Saving, InSave
  <2>2. \E written \in BOOLEAN : SaveReturns(c, written)
    BY <1>8 DEF Replace, SaveFails
  <2> QED
    BY <2>1, <2>2, SaveKept
<1> QED
  BY <1>1, <1>2, <1>3, <1>4, <1>5, <1>6, <1>7, <1>8 DEF CallStep

\* It leaves what every other call has got as it was.
LEMMA CallStepOthers ==
    ASSUME IInv, NEW c \in Calls, CallStep(c), NEW d \in Calls, d # c
    PROVE  Underway(d)' /\ Honest(d)'
<1> DEFINE Same == UNCHANGED <<identity, pc[d], result[d], requests[d], last[d]>>
<1> USE DEF IInv, TypeOK
<1>1. ASSUME NEW r, Return(c, r) PROVE UNCHANGED <<pc[d], result[d]>>
  BY <1>1 DEF Return, Goto
<1>2. ASSUME NEW label, Goto(c, label) PROVE UNCHANGED pc[d]
  BY <1>2 DEF Goto
<1>3. ASSUME NEW written, SaveReturns(c, written) PROVE UNCHANGED <<pc[d], result[d]>>
  BY <1>1, <1>3 DEF SaveReturns
<1>4. ASSUME NEW a, NEW cached, Accept(c, a, cached) PROVE UNCHANGED <<pc[d], result[d]>>
  BY <1>1, <1>2, <1>4 DEF Accept
<1>5. ASSUME EndEarly(c) \/ LookUp(c) \/ RepairNotSent(c) PROVE Same
  <2>1. CASE EndEarly(c)
    <3>1. \E r : Return(c, r) /\ UNCHANGED <<identity, requests, last>>
      BY <2>1, Zenon DEF EndEarly
    <3> QED
      BY <1>1, <3>1
  <2>2. CASE LookUp(c)
    <3>1. UNCHANGED <<identity, requests, last>>
      BY <2>2 DEF LookUp
    <3>2. (\E r : Return(c, r)) \/ ((\E label : Goto(c, label)) /\ UNCHANGED result)
      BY <2>2, Zenon DEF LookUp
    <3> QED
      BY <1>1, <1>2, <3>1, <3>2
  <2>3. CASE RepairNotSent(c)
    <3>1. (\E r : Return(c, r)) /\ UNCHANGED <<identity, requests, last>>
      BY <2>3, Zenon DEF RepairNotSent
    <3> QED
      BY <1>1, <3>1
  <2> QED
    BY <1>5, <2>1, <2>2, <2>3
<1>6. ASSUME Prepare(c) \/ OpenTemp(c) \/ Replace(c) PROVE Same
  <2>1. UNCHANGED <<identity, requests, last>>
    BY <1>6 DEF Prepare, OpenTemp, Replace
  <2>2. \/ \E written : SaveReturns(c, written)
        \/ (\E label : Goto(c, label)) /\ UNCHANGED result
    BY <1>6, Zenon DEF Prepare, OpenTemp, Replace, SaveFails
  <2> QED
    BY <1>2, <1>3, <2>1, <2>2
<1>7. ASSUME NEW a \in Answers(c), FirstAnswer(c, a) PROVE Same
  <2>1. UNCHANGED <<identity, requests[d], last[d]>>
    BY <1>7 DEF FirstAnswer, Received
  <2>2. UNCHANGED <<pc[d], result[d]>>
    BY <1>1, <1>2, <1>4, <1>7 DEF FirstAnswer
  <2> QED
    BY <2>1, <2>2
<1>8. ASSUME NEW a \in Answers(c), RepairAnswer(c, a) PROVE Same
  <2>1. UNCHANGED <<identity, requests[d], last[d]>>
    BY <1>8 DEF RepairAnswer, Received
  <2>2. UNCHANGED <<pc[d], result[d]>>
    BY <1>1, <1>4, <1>8 DEF RepairAnswer
  <2> QED
    BY <2>1, <2>2
<1>9. Same
  BY <1>5, <1>6, <1>7, <1>8 DEF CallStep
<1> QED
  BY <1>9, StillKept

\* Steps of the clearing thread and of the process move no call, except that a
\* kill ends those on their way.
LEMMA OtherStepKept ==
    ASSUME IInv, NEW d \in Calls,
           ClearStep \/ Kill \/ Restart \/ (\E id \in Identities : Corrupt(id)) \/ UNCHANGED vars
    PROVE  Underway(d)' /\ Honest(d)'
<1>1. /\ UNCHANGED <<identity, result[d], requests[d], last[d]>>
      /\ pc'[d] = pc[d] \/ pc'[d] = "killed"
  <2>1. CASE ClearStep
    BY <2>1 DEF ClearStep, ClearBegins, Unlink, RemoveEntries, RemoveRoot, MakeRoot, call
  <2>2. CASE Kill
    BY <2>2 DEF Kill
  <2>3. CASE Restart \/ (\E id \in Identities : Corrupt(id))
    BY <2>3 DEF Restart, Corrupt, call
  <2>4. CASE UNCHANGED vars
    BY <2>4 DEF vars, call
  <2> QED
    BY <2>1, <2>2, <2>3, <2>4
<1> QED
  BY <1>1, StillKept DEF IInv
-----------------------------------------------------------------------------
LEMMA IInvInit == Init => IInv
BY TypeInit DEF Init, IInv, Underway, Honest, Returned, Sending, Repairing, InSave

LEMMA IInvStep == IInv /\ [Next]_vars => IInv'
<1> SUFFICES ASSUME IInv, [Next]_vars PROVE IInv'
  OBVIOUS
<1>1. CASE \E c \in Calls : CallStep(c)
  BY <1>1, CallStepType, CallStepOwn, CallStepOthers DEF IInv
<1>2. CASE ClearStep \/ Kill \/ Restart \/ (\E id \in Identities : Corrupt(id)) \/ UNCHANGED vars
  BY <1>2, OtherStepType, OtherStepKept DEF IInv
<1> QED
  BY <1>1, <1>2 DEF Next

THEOREM Invariance == Spec => []IInv
BY IInvInit, IInvStep, PTL DEF Spec

\* The type invariant of the calls, the cache and the clearing thread; a call
\* sends at most two requests (_invoke_prompt and _repair_output).
THEOREM TypeCorrect == Spec => []TypeOK
<1>1. IInv => TypeOK
  BY DEF IInv
<1> QED
  BY <1>1, Invariance, PTL

\* For any number of calls sharing the cache: what is served without a request
\* was accepted for the same question (_invoke_prompt, AICacheStore.load).
THEOREM HitsAreAccepted == Spec => []HitIsAccepted
<1>1. IInv => HitIsAccepted
  BY DEF IInv, Honest, HitIsAccepted
<1> QED
  BY <1>1, Invariance, PTL

\* What becomes of the cache changes no answer (_save_accepted_output).
THEOREM OutcomesAreAnswers == Spec => []OutcomeIsTheAnswer
<1>1. IInv => OutcomeIsTheAnswer
  BY DEF IInv, TypeOK, Honest, OutcomeIsTheAnswer
<1> QED
  BY <1>1, Invariance, PTL

\* Which results break the scan's circuit, and which do not (_repair_output,
\* preflight).
THEOREM FatalBreaks == Spec => []BreaksOnFatal
<1>1. IInv => BreaksOnFatal
  BY DEF IInv, TypeOK, Honest, BreaksOnFatal
<1> QED
  BY <1>1, Invariance, PTL
===============================================================================
