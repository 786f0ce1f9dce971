--------------------------- MODULE ExplorerProofs ---------------------------
(***************************************************************************)
(* Proofs about Explorer, for any number of entries, rounds, proposals and  *)
(* requests: the soft cap, the safety of what was explored, the ledgers.    *)
(* Each rests on how many entries are in flight; the lemma Moved says what  *)
(* the step of one entry does to such a number.                             *)
(***************************************************************************)
EXTENDS Explorer, FiniteSetTheorems, TLAPS

Labels == {"queued", "asking", "waiting", "waiting_again", "ended"}
Outcomes == {"pending", "running", "succeeded", "failed", "skipped"}
Busy == {"asking", "waiting", "waiting_again"}
Waiting == {"waiting", "waiting_again"}
UnderWay == {e \in Entries : pc[e] \in Waiting}

\* The most one entry can find.
Peak == MaxRounds * MaxProposals

\* What the explorer has counted or will, when the calls under way return.
Counted == ai_requests_used + Cardinality(UnderWay)
             + dive.requests_used + (IF dive.round > 0 THEN 1 ELSE 0)

\* The pool and the worker of an entry agree on whether it is in flight; each
\* round adds MaxProposals at most to what is found.
WorkersInStep ==
    \A e \in Entries :
        /\ outcome[e] = "running" <=> pc[e] \in Busy
        /\ outcome[e] \in {"pending", "skipped"} => pc[e] = "queued"
        /\ pc[e] = "queued" => found[e] = 0
        /\ pc[e] \in Busy => /\ round[e] > 0
                             /\ found[e] <= (round[e] - 1) * MaxProposals

\* The pool is closed when the stage goes on; dives begin after that.
StageInOrder ==
    /\ stage \notin {"exploring", "killed"} => closed
    /\ stage = "exploring" => /\ ~closed
                              /\ dive.round = 0 /\ ~dive.short_circuit
    /\ closed => Active = {}
    /\ dive.round > 0 => /\ ~dive.short_circuit /\ dive.left > 0
                         /\ stage \in {"diving", "killed"}

\* Each entry in flight has room for all it can find.
RoomForPeaks ==
    /\ Cardinality(Active) <= EntryConcurrency
    /\ candidate_total + Cardinality(Active) * Peak
         <= MaxCandidates - 1 + EntryConcurrency * Peak

\* Until the observations are written the lines are there; they are not
\* removed before.
LinesAreThere ==
    /\ \A e \in Entries :
          outcome[e] = "succeeded" /\ e \notin Capped \cup unwritten =>
              \/ e \in partial
              \/ observations = "whole" /\ stage \notin {"exploring", "writing_observations"}
    /\ stage \in {"writing_candidates", "unlinking", "validating", "diving", "completed"}
         => observations = "whole"

\* A refused call is counted and not charged; it opens the circuit, so there is
\* one for each entry that was in flight and one for the dives.
RefusalsAreFew ==
    /\ requests_used <= MaxRequestsPerRun
    /\ requests_used <= Counted
    /\ requests_used < MaxRequestsPerRun => Counted = requests_used
    /\ stage = "exploring" /\ ~stopped => Counted = requests_used
    /\ Counted - requests_used + Cardinality(Active)
         <= EntryConcurrency + (IF dive.short_circuit THEN 1 ELSE 0)

IInv ==
    /\ TypeOK
    /\ WorkersInStep
    /\ StageInOrder
    /\ RoomForPeaks
    /\ LinesAreThere
    /\ RefusalsAreFew
-----------------------------------------------------------------------------
(* Counting                                                                 *)

\* When two sets of entries differ in one at most, so do their sizes.
LEMMA Moved ==
    ASSUME NEW S \in SUBSET Entries, NEW T \in SUBSET Entries, NEW e \in Entries,
           \A d \in Entries \ {e} : d \in S <=> d \in T
    PROVE  /\ Cardinality(S) \in Nat /\ Cardinality(T) \in Nat
           /\ Cardinality(T) = Cardinality(S) + (IF e \in T THEN 1 ELSE 0)
                                              - (IF e \in S THEN 1 ELSE 0)
<1>1. IsFiniteSet(S) /\ IsFiniteSet(T)
  BY ExplorerAssumption, FS_Subset DEF ExplorerAssumption
<1>2. Cardinality(S) \in Nat /\ Cardinality(T) \in Nat
  BY <1>1, FS_CardinalityType
<1>3. CASE e \in T /\ e \notin S
  <2>1. T = S \cup {e}
    BY <1>3
  <2> QED
    BY <2>1, <1>1, <1>2, <1>3, FS_AddElement
<1>4. CASE e \notin T /\ e \in S
  <2>1. S = T \cup {e}
    BY <1>4
  <2> QED
    BY <2>1, <1>1, <1>2, <1>4, FS_AddElement
<1>5. CASE e \in T <=> e \in S
  <2>1. S = T
    BY <1>5
  <2> QED
    BY <2>1, <1>2, <1>5
<1> QED
  BY <1>3, <1>4, <1>5

\* One entry moves in the pool.
LEMMA ActiveMoved ==
    ASSUME TypeOK, NEW e \in Entries, NEW o \in Outcomes,
           outcome' = [outcome EXCEPT ![e] = o]
    PROVE  /\ Cardinality(Active) \in Nat /\ Cardinality(Active') \in Nat
           /\ o = "running" /\ outcome[e] # "running" =>
                Cardinality(Active') = Cardinality(Active) + 1
           /\ o # "running" /\ outcome[e] = "running" =>
                Cardinality(Active') = Cardinality(Active) - 1
           /\ o # "running" /\ outcome[e] # "running" =>
                Cardinality(Active') = Cardinality(Active)
<1>1. Active \in SUBSET Entries /\ Active' \in SUBSET Entries
  BY DEF Active
<1>2. \A d \in Entries \ {e} : d \in Active <=> d \in Active'
  BY DEF Active, TypeOK
<1>3. (e \in Active <=> outcome[e] = "running") /\ (e \in Active' <=> o = "running")
  BY DEF Active, TypeOK
<1> QED
  BY <1>1, <1>2, <1>3, Moved

\* A worker moves, and with it perhaps a call under way.
LEMMA UnderWayMoved ==
    ASSUME TypeOK, NEW e \in Entries, NEW label \in Labels,
           pc' = [pc EXCEPT ![e] = label]
    PROVE  /\ Cardinality(UnderWay) \in Nat /\ Cardinality(UnderWay') \in Nat
           /\ label \in Waiting /\ pc[e] \notin Waiting =>
                Cardinality(UnderWay') = Cardinality(UnderWay) + 1
           /\ label \notin Waiting /\ pc[e] \in Waiting =>
                Cardinality(UnderWay') = Cardinality(UnderWay) - 1
           /\ label \notin Waiting /\ pc[e] \notin Waiting =>
                Cardinality(UnderWay') = Cardinality(UnderWay)
           /\ label \in Waiting /\ pc[e] \in Waiting =>
                Cardinality(UnderWay') = Cardinality(UnderWay)
<1>1. UnderWay \in SUBSET Entries /\ UnderWay' \in SUBSET Entries
  BY DEF UnderWay
<1>2. \A d \in Entries \ {e} : d \in UnderWay <=> d \in UnderWay'
  BY DEF UnderWay, TypeOK
<1>3. (e \in UnderWay <=> pc[e] \in Waiting) /\ (e \in UnderWay' <=> label \in Waiting)
  BY DEF UnderWay, TypeOK
<1> QED
  BY <1>1, <1>2, <1>3, Moved

\* The labels and what they are.
LEMMA LabelFacts ==
    /\ {"queued", "asking", "waiting", "waiting_again", "ended"} = Labels
    /\ {"waiting", "waiting_again"} = Waiting
    /\ "queued" \notin Waiting /\ "asking" \notin Waiting /\ "ended" \notin Waiting
    /\ "waiting" \in Waiting /\ "waiting_again" \in Waiting
    /\ "queued" \in Labels /\ "asking" \in Labels /\ "ended" \in Labels
    /\ "waiting" \in Labels /\ "waiting_again" \in Labels
  BY DEF Labels, Waiting

\* The entries in flight, and the calls under way, can be counted.
LEMMA CountsAreNat ==
    /\ Cardinality(Active) \in Nat
    /\ Cardinality(UnderWay) \in Nat
<1>1. IsFiniteSet(Active) /\ IsFiniteSet(UnderWay)
  BY ExplorerAssumption, FS_Subset DEF ExplorerAssumption, Active, UnderWay
<1> QED
  BY <1>1, FS_CardinalityType

\* A round adds at most MaxProposals, and there are MaxRounds of them.
LEMMA OneMoreRound ==
    ASSUME NEW r \in 1..MaxRounds, NEW f \in Nat, f <= (r - 1) * MaxProposals,
           NEW n \in 0..MaxProposals
    PROVE  /\ f + n <= r * MaxProposals
           /\ r * MaxProposals <= Peak
           /\ f <= Peak
           /\ Peak \in Nat
<1>1. MaxRounds \in Nat /\ MaxProposals \in Nat
  BY ExplorerAssumption DEF ExplorerAssumption
<1>2. (r - 1) * MaxProposals + MaxProposals = r * MaxProposals
  BY <1>1
<1>3. (MaxRounds - r) * MaxProposals \in Nat
  BY <1>1
<1>4. (MaxRounds - r) * MaxProposals + r * MaxProposals = MaxRounds * MaxProposals
  BY <1>1
<1>5. r * MaxProposals \in Nat /\ (r - 1) * MaxProposals \in Nat
  BY <1>1
<1> QED
  BY <1>1, <1>2, <1>3, <1>4, <1>5 DEF Peak
-----------------------------------------------------------------------------
(* The inductive invariant                                                  *)

\* The stage begins with no entry in flight and nothing counted.
LEMMA InitIInv == Init => IInv
<1> SUFFICES ASSUME Init PROVE IInv
  OBVIOUS
<1> USE ExplorerAssumption DEF ExplorerAssumption, Init, Pool!Init
<1>1. Active = {} /\ UnderWay = {}
  BY DEF Active, UnderWay, Waiting
<1>2. Cardinality(Active) = 0 /\ Cardinality(UnderWay) = 0
  BY <1>1, FS_EmptySet
<1>3. Peak \in Nat /\ EntryConcurrency * Peak \in Nat
  BY DEF Peak
<1>4. TypeOK
  <2>1. 0 \in 0..(MaxRounds * MaxProposals) /\ 0 \in 0..MaxRounds /\ 0 \in 0..MaxDiveRounds
    BY <1>3 DEF Peak
  <2>2. /\ found \in [Entries -> 0..(MaxRounds * MaxProposals)]
        /\ round \in [Entries -> 0..MaxRounds]
    BY <2>1
  <2>3. dive \in [left : Nat, round : 0..MaxDiveRounds, short_circuit : BOOLEAN,
                 requests_used : Nat]
    BY <2>1
  <2> QED
    BY <2>2, <2>3 DEF TypeOK
<1>5. WorkersInStep /\ StageInOrder
  BY <1>1 DEF WorkersInStep, StageInOrder, Busy
<1>6. RoomForPeaks
  BY <1>2, <1>3 DEF RoomForPeaks
<1>7. LinesAreThere
  BY DEF LinesAreThere
<1>8. RefusalsAreFew
  BY <1>2 DEF RefusalsAreFew, Counted
<1> QED
  BY <1>4, <1>5, <1>6, <1>7, <1>8 DEF IInv

\* The steps that are neither an entry's nor a dive's.
FileStep ==
    WriteObservations \/ WriteCandidates \/ Unlink \/ Validate \/ Record \/ Kill

\* Type correctness: what an entry finds stays below the peak because every
\* round is one of MaxRounds.
LEMMA EntryTypes ==
    ASSUME IInv, NEW e \in Entries, EntryStep(e)
    PROVE  TypeOK'
<1> USE ExplorerAssumption DEF ExplorerAssumption, IInv
<1>1. CASE Begin(e)
  BY <1>1 DEF Begin, Pool!Begin, TypeOK, files, budget, diving
<1>2. CASE SkipCapped(e)
  BY <1>2 DEF SkipCapped, TypeOK, files, budget, diving
<1>3. ASSUME NEW why \in {"short_circuit", "explored"}, NEW n \in 0..Peak,
             Terminate(e, why, n), requests_used' \in Nat, ai_requests_used' \in Nat,
             UNCHANGED <<observations, candidates, stage, diving>>
      PROVE  TypeOK'
  BY <1>3 DEF Terminate, AppendPartial, Pool!Finish, TypeOK, diving, Peak
<1>4. ASSUME Raise(e), requests_used' \in Nat, ai_requests_used' \in Nat,
             UNCHANGED <<observations, candidates, stage, diving>>
      PROVE  TypeOK'
  <2>1. 0 \in 0..(MaxRounds * MaxProposals)
    OBVIOUS
  <2> QED
    BY <1>4, <2>1 DEF Raise, Pool!Finish, TypeOK, diving
<1>5. ASSUME NEW to \in Labels, NEW returned \in {0, 1}, Send(e, to, returned),
             UNCHANGED <<observations, candidates, stage, diving>>
      PROVE  TypeOK'
  <2>1. CASE Affordable /\ pc' = [pc EXCEPT ![e] = to]
             /\ requests_used' = requests_used + 1
             /\ ai_requests_used' = ai_requests_used + returned
             /\ UNCHANGED <<pool, round, found, terminated, candidate_total, partial, unwritten>>
    BY <1>5, <2>1 DEF TypeOK, pool, diving, Labels
  <2>2. CASE Refused(returned) /\ Terminate(e, "short_circuit", found[e])
    <3>1. requests_used' \in Nat /\ ai_requests_used' \in Nat /\ found[e] \in 0..Peak
      BY <2>2 DEF Refused, TypeOK, Peak
    <3> QED
      BY <1>5, <2>2, <3>1, <1>3
  <2> QED
    BY <1>5, <2>1, <2>2 DEF Send
<1>6. CASE Ask(e)
  BY <1>4, <1>5, <1>6 DEF Ask, Labels, budget, TypeOK
<1>7. CASE AskAgain(e)
  BY <1>5, <1>7 DEF AskAgain, Labels
<1>8. CASE Answer(e)
  <2>1. /\ round[e] \in 1..MaxRounds /\ found[e] \in Nat
        /\ found[e] <= (round[e] - 1) * MaxProposals
    BY <1>8 DEF Answer, WorkersInStep, Busy, TypeOK
  <2>2. \A n \in 0..MaxProposals : found[e] + n \in 0..Peak /\ found[e] \in 0..Peak
    BY <2>1, OneMoreRound DEF Peak
  <2>3. /\ requests_used' \in Nat /\ ai_requests_used' \in Nat
        /\ UNCHANGED <<observations, candidates, stage, diving>>
    BY <1>8 DEF Answer, TypeOK
  <2>4. ASSUME NEW n \in 0..MaxProposals, round[e] < MaxRounds,
               found' = [found EXCEPT ![e] = @ + n],
               round' = [round EXCEPT ![e] = @ + 1],
               pc' = [pc EXCEPT ![e] = "asking"],
               UNCHANGED <<pool, terminated, candidate_total, partial, unwritten>>
        PROVE  TypeOK'
    <3>1. found[e] + n \in 0..(MaxRounds * MaxProposals)
      BY <2>2 DEF Peak
    <3>2. found' \in [Entries -> 0..(MaxRounds * MaxProposals)]
      BY <3>1, <2>4 DEF TypeOK
    <3>3. round' \in [Entries -> 0..MaxRounds]
      BY <2>4, <2>1 DEF TypeOK
    <3> QED
      BY <2>3, <2>4, <3>2, <3>3 DEF TypeOK, pool, diving
  <2> QED
    BY <1>8, <1>3, <1>4, <2>2, <2>3, <2>4 DEF Answer
<1> QED
  BY <1>1, <1>2, <1>6, <1>7, <1>8 DEF EntryStep

\* What a dive changes, and that it is under way only before a short circuit.
DiveIsWell ==
    /\ requests_used \in Nat
    /\ dive \in [left : Nat, round : 0..MaxDiveRounds, short_circuit : BOOLEAN,
                 requests_used : Nat]
    /\ deep_dive_counts \in [DiveResults \cup {"partial_total"} -> Nat]
    /\ dive.round > 0 => ~dive.short_circuit /\ dive.left > 0

\* A dive ends in one of four ways, or goes on; either way its fields keep
\* their types.
LEMMA DiveTypes ==
    ASSUME IInv, DiveNext \/ DiveAnswer
    PROVE  TypeOK' /\ StageInOrder'
<1> USE ExplorerAssumption DEF ExplorerAssumption, IInv
<1>0. /\ dive \in [left : Nat, round : 0..MaxDiveRounds, short_circuit : BOOLEAN,
                   requests_used : Nat]
      /\ deep_dive_counts \in [DiveResults \cup {"partial_total"} -> Nat]
      /\ requests_used \in Nat
      /\ stage = "diving" /\ dive.left > 0
      /\ DiveNext => dive.round = 0
      /\ dive.round > 0 => ~dive.short_circuit
  BY DEF TypeOK, DiveNext, DiveAnswer, StageInOrder
<1>1. UNCHANGED <<pool, work, ai_requests_used, files, stage>>
  BY DEF DiveNext, DiveAnswer
<1>2. SUFFICES DiveIsWell'
  <2>1. TypeOK'
    BY <1>1, <1>2 DEF DiveIsWell, TypeOK, pool, work, files
  <2>2. StageInOrder'
    BY <1>0, <1>1, <1>2 DEF DiveIsWell, StageInOrder, Active, pool, work, files
  <2> QED
    BY <2>1, <2>2
<1>3. ASSUME NEW result \in DiveResults, NEW breaking \in BOOLEAN, NEW returned \in Nat,
             DiveEnds(result, breaking, returned), UNCHANGED requests_used
      PROVE  DiveIsWell'
  <2>1. deep_dive_counts' \in [DiveResults \cup {"partial_total"} -> Nat]
    BY <1>0, <1>3 DEF DiveEnds, DiveResults
  <2>2. /\ dive.left - 1 \in Nat /\ 0 \in 0..MaxDiveRounds
        /\ dive.requests_used + returned \in Nat
    BY <1>0, <1>3
  <2>3. (dive.short_circuit \/ breaking) \in BOOLEAN
    OBVIOUS
  <2>4. dive' = [dive EXCEPT !.left = @ - 1, !.round = 0,
                             !.short_circuit = @ \/ breaking,
                             !.requests_used = @ + returned]
    BY <1>3 DEF DiveEnds
  <2>5. /\ dive' \in [left : Nat, round : 0..MaxDiveRounds, short_circuit : BOOLEAN,
                      requests_used : Nat]
        /\ dive'.round = 0
    BY <1>0, <2>2, <2>3, <2>4
  <2> QED
    BY <1>0, <1>3, <2>1, <2>5 DEF DiveIsWell
<1>4. ASSUME NEW returned \in {0, 1}, DiveCall(returned), dive.round < MaxDiveRounds,
             ~dive.short_circuit
      PROVE  DiveIsWell'
  <2>1. CASE /\ requests_used' = requests_used + 1
             /\ dive' = [dive EXCEPT !.round = @ + 1, !.requests_used = @ + returned]
             /\ UNCHANGED deep_dive_counts
    <3>1. /\ dive.round + 1 \in 0..MaxDiveRounds
          /\ dive.requests_used + returned \in Nat
      BY <1>0, <1>4
    <3>2. /\ dive' \in [left : Nat, round : 0..MaxDiveRounds, short_circuit : BOOLEAN,
                        requests_used : Nat]
          /\ dive'.short_circuit = dive.short_circuit /\ dive'.left = dive.left
      BY <1>0, <2>1, <3>1
    <3> QED
      BY <1>0, <1>4, <2>1, <3>2 DEF DiveIsWell
  <2>2. CASE DiveEnds("skipped", TRUE, returned + 1) /\ UNCHANGED requests_used
    <3>1. returned + 1 \in Nat /\ "skipped" \in DiveResults
      BY <1>4 DEF DiveResults
    <3> QED
      BY <1>3, <2>2, <3>1
  <2> QED
    BY <1>4, <2>1, <2>2 DEF DiveCall
<1>5. 0 \in Nat /\ 1 \in Nat /\ DiveResults = {"completed", "incomplete", "failed", "skipped"}
  BY DEF DiveResults
<1>6. CASE DiveNext
  <2>1. dive.round < MaxDiveRounds
    BY <1>0, <1>6
  <2>2. \/ DiveEnds("skipped", FALSE, 0) /\ UNCHANGED requests_used
        \/ DiveEnds("failed", FALSE, 0) /\ UNCHANGED requests_used
        \/ ~dive.short_circuit /\ DiveCall(0)
    BY <1>6 DEF DiveNext
  <2> QED
    BY <1>3, <1>4, <1>5, <2>1, <2>2
<1>7. CASE DiveAnswer
  <2>1. \/ \E result \in DiveResults, breaking \in BOOLEAN :
              DiveEnds(result, breaking, 1) /\ UNCHANGED requests_used
        \/ dive.round < MaxDiveRounds /\ DiveCall(1)
    BY <1>7, <1>5 DEF DiveAnswer
  <2>2. ~dive.short_circuit
    BY <1>0, <1>7 DEF DiveAnswer
  <2> QED
    BY <1>3, <1>4, <1>5, <2>1, <2>2
<1> QED
  BY <1>6, <1>7

\* The other steps of the stage.
LEMMA FileTypes ==
    ASSUME IInv, Aggregate \/ FileStep
    PROVE  TypeOK' /\ StageInOrder'
<1> USE ExplorerAssumption DEF ExplorerAssumption, IInv
<1>1. CASE Aggregate
  BY <1>1 DEF Aggregate, Pool!Close, TypeOK, StageInOrder, Active, work, budget, files, diving
<1>2. CASE WriteObservations \/ WriteCandidates \/ Unlink \/ Record \/ Kill
  BY <1>2 DEF WriteObservations, WriteCandidates, Write, Unlink, Record, Kill, Over,
     TypeOK, StageInOrder, Active, pool, work, budget, files, diving
<1>3. CASE Validate
  <2>1. ASSUME NEW n \in 0..Min({candidate_total, MaxPartials})
        PROVE  n \in Nat
    OBVIOUS
  <2> QED
    BY <1>3, <2>1 DEF Validate, TypeOK, StageInOrder, Active, pool, work, budget, files
<1> QED
  BY <1>1, <1>2, <1>3 DEF FileStep
-----------------------------------------------------------------------------
(* Entries and the pool                                                     *)

\* Whatever an entry does, it was exploring, and only it moves.
LEMMA EntryAlone ==
    ASSUME NEW e \in Entries, EntryStep(e)
    PROVE  /\ stage = "exploring" /\ stage' = stage
           /\ UNCHANGED <<closed, observations, candidates, diving>>
<1>1. CASE Begin(e) \/ SkipCapped(e)
  BY <1>1 DEF Begin, SkipCapped, Pool!Begin, files
<1>2. CASE Ask(e) \/ AskAgain(e)
  BY <1>2 DEF Ask, AskAgain, Send, Terminate, Raise, Pool!Finish, pool
<1>3. CASE Answer(e)
  BY <1>3 DEF Answer, Terminate, Raise, Pool!Finish, pool
<1> QED
  BY <1>1, <1>2, <1>3 DEF EntryStep

\* Worker and pool stay in step, whatever the entry does.
LEMMA EntryWorkers ==
    ASSUME IInv, NEW e \in Entries, EntryStep(e)
    PROVE  WorkersInStep' /\ StageInOrder'
<1> USE DEF IInv
<1>1. StageInOrder'
  BY EntryAlone DEF StageInOrder, diving
<1>0. /\ outcome \in [Entries -> Outcomes] /\ pc \in [Entries -> Labels]
      /\ round \in [Entries -> 0..MaxRounds]
      /\ found \in [Entries -> 0..(MaxRounds * MaxProposals)]
      /\ MaxRounds \in Nat \ {0} /\ MaxProposals \in Nat
  BY ExplorerAssumption DEF ExplorerAssumption, TypeOK, Outcomes, Labels
<1>2. CASE Begin(e)
  <2>1. 0 <= (1 - 1) * MaxProposals
    BY <1>0
  <2> QED
    BY <1>0, <1>1, <1>2, <2>1 DEF Begin, Pool!Begin, WorkersInStep, Busy
<1>3. CASE SkipCapped(e)
  BY <1>0, <1>1, <1>3 DEF SkipCapped, WorkersInStep, Busy
<1>4. ASSUME NEW why, NEW n, Terminate(e, why, n)
      PROVE  WorkersInStep'
  BY <1>0, <1>4 DEF Terminate, Pool!Finish, WorkersInStep, Busy, Labels
<1>5. ASSUME Raise(e)
      PROVE  WorkersInStep'
  BY <1>0, <1>5 DEF Raise, Pool!Finish, WorkersInStep, Busy, Labels
<1>6. ASSUME NEW to \in Busy, NEW returned, pc[e] \in Busy, Send(e, to, returned)
      PROVE  WorkersInStep'
  <2>1. CASE /\ pc' = [pc EXCEPT ![e] = to]
             /\ UNCHANGED <<pool, round, found, terminated, candidate_total, partial, unwritten>>
    BY <1>0, <1>6, <2>1 DEF WorkersInStep, Busy, pool
  <2> QED
    BY <1>4, <1>6, <2>1 DEF Send
<1>7. CASE Ask(e) \/ AskAgain(e)
  BY <1>1, <1>5, <1>6, <1>7 DEF Ask, AskAgain, Busy
<1>8. CASE Answer(e)
  <2>1. ASSUME NEW n \in 0..MaxProposals, round[e] < MaxRounds,
               found' = [found EXCEPT ![e] = @ + n],
               round' = [round EXCEPT ![e] = @ + 1],
               pc' = [pc EXCEPT ![e] = "asking"],
               UNCHANGED <<pool, terminated, candidate_total, partial, unwritten>>
        PROVE  WorkersInStep'
    <3>1. /\ round[e] \in 1..MaxRounds /\ found[e] \in Nat
          /\ found[e] <= (round[e] - 1) * MaxProposals
      BY <1>0, <1>8 DEF Answer, WorkersInStep, Busy
    <3>2. found[e] + n <= ((round[e] + 1) - 1) * MaxProposals
      BY <1>0, <3>1, OneMoreRound
    <3> QED
      BY <1>0, <1>8, <2>1, <3>1, <3>2 DEF Answer, WorkersInStep, Busy, pool
  <2> QED
    BY <1>1, <1>4, <1>5, <1>8, <2>1 DEF Answer
<1> QED
  BY <1>1, <1>2, <1>3, <1>7, <1>8 DEF EntryStep

\* The workers are left alone by the rest of the stage.
LEMMA OtherWorkers ==
    ASSUME IInv, Aggregate \/ FileStep \/ DiveNext \/ DiveAnswer
    PROVE  WorkersInStep'
<1>1. outcome \in [Entries -> Outcomes] /\ WorkersInStep
  BY DEF IInv, TypeOK, Outcomes
<1>2. CASE Aggregate
  BY <1>1, <1>2 DEF Aggregate, Pool!Close, WorkersInStep, work
<1>3. CASE FileStep \/ DiveNext \/ DiveAnswer
  BY <1>1, <1>3 DEF FileStep, WriteObservations, WriteCandidates, Unlink, Validate,
     Record, Kill, DiveNext, DiveAnswer, WorkersInStep, work, pool
<1> QED
  BY <1>2, <1>3
-----------------------------------------------------------------------------
(* The soft cap                                                             *)

\* Room is taken when an entry begins, below the cap, and given back when it
\* ends.
LEMMA EntryRoom ==
    ASSUME IInv, NEW e \in Entries, EntryStep(e)
    PROVE  RoomForPeaks'
<1> USE ExplorerAssumption DEF ExplorerAssumption, IInv
<1>0. /\ candidate_total \in Nat /\ Peak \in Nat /\ Cardinality(Active) \in Nat
      /\ EntryConcurrency \in Nat /\ MaxCandidates \in Nat
      /\ EntryConcurrency * Peak \in Nat
      /\ Cardinality(Active) <= EntryConcurrency
      /\ candidate_total + Cardinality(Active) * Peak
           <= MaxCandidates - 1 + EntryConcurrency * Peak
  BY CountsAreNat DEF RoomForPeaks, TypeOK, Peak
<1>1. CASE Begin(e)
  <2>1. /\ Cardinality(Active') = Cardinality(Active) + 1
        /\ Cardinality(Active) < EntryConcurrency
        /\ candidate_total' = candidate_total /\ candidate_total < MaxCandidates
    <3>1. outcome' = [outcome EXCEPT ![e] = "running"] /\ outcome[e] = "pending"
      BY <1>1 DEF Begin, Pool!Begin
    <3>2. Cardinality(Active') = Cardinality(Active) + 1
      BY <1>0, <3>1, ActiveMoved DEF Outcomes
    <3> QED
      BY <1>0, <1>1, <3>2 DEF Begin, CapReached
  <2>2. (EntryConcurrency - Cardinality(Active')) * Peak \in Nat
    BY <1>0, <2>1
  <2>3. (EntryConcurrency - Cardinality(Active')) * Peak + Cardinality(Active') * Peak
          = EntryConcurrency * Peak
    BY <1>0, <2>1
  <2>4. Cardinality(Active') * Peak \in Nat
    BY <1>0, <2>1
  <2> QED
    BY <1>0, <2>1, <2>2, <2>3, <2>4 DEF RoomForPeaks
<1>2. CASE UNCHANGED <<outcome, candidate_total>>
  BY <1>0, <1>2 DEF RoomForPeaks, Active
<1>3. CASE SkipCapped(e)
  <2>1. Cardinality(Active') = Cardinality(Active) /\ candidate_total' = candidate_total
    <3>1. outcome' = [outcome EXCEPT ![e] = "succeeded"] /\ outcome[e] = "pending"
      BY <1>3 DEF SkipCapped
    <3>2. Cardinality(Active') = Cardinality(Active)
      BY <1>0, <3>1, ActiveMoved DEF Outcomes
    <3> QED
      BY <1>3, <3>2 DEF SkipCapped
  <2> QED
    BY <1>0, <2>1 DEF RoomForPeaks
<1>4. ASSUME NEW n \in 0..Peak, outcome[e] = "running",
             NEW o \in {"succeeded", "failed"}, outcome' = [outcome EXCEPT ![e] = o],
             candidate_total' = candidate_total + n
      PROVE  RoomForPeaks'
  <2>1. Cardinality(Active') = Cardinality(Active) - 1 /\ Cardinality(Active') \in Nat
    BY <1>0, <1>4, ActiveMoved DEF Outcomes
  <2>2. Cardinality(Active') * Peak + Peak = Cardinality(Active) * Peak
    BY <1>0, <2>1
  <2>3. Cardinality(Active') * Peak \in Nat
    BY <1>0, <2>1
  <2>4. Cardinality(Active) * Peak \in Nat
    BY <1>0
  <2> QED
    BY <1>0, <1>4, <2>1, <2>2, <2>3, <2>4 DEF RoomForPeaks
<1>5. \A why : \A n \in 0..Peak : Terminate(e, why, n) => RoomForPeaks'
  BY <1>4 DEF Terminate, Pool!Finish
<1>6. Raise(e) => RoomForPeaks'
  <2>1. 0 \in 0..Peak /\ candidate_total = candidate_total + 0
    BY <1>0
  <2> QED
    BY <1>4, <2>1 DEF Raise, Pool!Finish
<1>7. found[e] \in 0..Peak
  BY DEF TypeOK, Peak
<1>8. CASE Ask(e) \/ AskAgain(e)
  BY <1>2, <1>5, <1>6, <1>7, <1>8 DEF Ask, AskAgain, Send, pool
<1>9. CASE Answer(e)
  <2>1. /\ round[e] \in 1..MaxRounds /\ found[e] \in Nat
        /\ found[e] <= (round[e] - 1) * MaxProposals
    BY <1>9 DEF Answer, WorkersInStep, Busy, TypeOK
  <2>2. \A n \in 0..MaxProposals : found[e] + n \in 0..Peak
    BY <2>1, OneMoreRound
  <2> QED
    BY <1>2, <1>5, <1>6, <1>7, <1>9, <2>2 DEF Answer, pool
<1> QED
  BY <1>1, <1>3, <1>8, <1>9 DEF EntryStep

\* No other step finds candidates.
LEMMA OtherRoom ==
    ASSUME IInv, Aggregate \/ FileStep \/ DiveNext \/ DiveAnswer
    PROVE  RoomForPeaks'
<1>1. candidate_total' = candidate_total /\ Active' = Active
  <2>1. CASE Aggregate
    BY <2>1 DEF Aggregate, Pool!Close, Active, work, IInv, TypeOK
  <2>2. CASE FileStep \/ DiveNext \/ DiveAnswer
    BY <2>2 DEF FileStep, WriteObservations, WriteCandidates, Unlink, Validate,
       Record, Kill, DiveNext, DiveAnswer, Active, work, pool
  <2> QED
    BY <2>1, <2>2
<1> QED
  BY <1>1 DEF IInv, RoomForPeaks
-----------------------------------------------------------------------------
(* The lines of the partial file                                            *)

\* An entry succeeds in the step that appends its line, or fails to.
LEMMA EntryLines ==
    ASSUME IInv, NEW e \in Entries, EntryStep(e)
    PROVE  LinesAreThere'
<1> USE DEF IInv
<1>0. /\ outcome \in [Entries -> Outcomes]
      /\ terminated \in [Entries -> {"none", "skipped_max_cap", "short_circuit", "explored"}]
  BY DEF TypeOK, Outcomes
<1>1. stage = "exploring" /\ stage' = stage /\ observations' = observations
  BY EntryAlone
<1>2. SUFFICES \A d \in Entries :
                  outcome'[d] = "succeeded" /\ terminated'[d] # "skipped_max_cap"
                    /\ d \notin unwritten' => d \in partial'
  BY <1>1 DEF LinesAreThere, Capped
<1>3. \A d \in Entries :
          outcome[d] = "succeeded" /\ terminated[d] # "skipped_max_cap"
            /\ d \notin unwritten => d \in partial
  BY <1>1 DEF LinesAreThere, Capped
<1>4. CASE Begin(e) \/ SkipCapped(e)
  BY <1>0, <1>3, <1>4 DEF Begin, Pool!Begin, SkipCapped, files
<1>5. ASSUME NEW why, NEW n, Terminate(e, why, n)
      PROVE  \A d \in Entries :
                  outcome'[d] = "succeeded" /\ terminated'[d] # "skipped_max_cap"
                    /\ d \notin unwritten' => d \in partial'
  BY <1>0, <1>3, <1>5 DEF Terminate, Pool!Finish, AppendPartial
<1>6. ASSUME Raise(e)
      PROVE  \A d \in Entries :
                  outcome'[d] = "succeeded" /\ terminated'[d] # "skipped_max_cap"
                    /\ d \notin unwritten' => d \in partial'
  BY <1>0, <1>3, <1>6 DEF Raise, Pool!Finish
<1>7. CASE UNCHANGED <<outcome, terminated, partial, unwritten>>
  BY <1>3, <1>7
<1>8. CASE Ask(e) \/ AskAgain(e) \/ Answer(e)
  <2>1. \/ \E why, n : Terminate(e, why, n)
        \/ Raise(e)
        \/ UNCHANGED <<outcome, terminated, partial, unwritten>>
    BY <1>8 DEF Ask, AskAgain, Answer, Send, pool
  <2> QED
    BY <1>5, <1>6, <1>7, <2>1
<1> QED
  BY <1>4, <1>8 DEF EntryStep

\* The lines go when the observations are there.
LEMMA OtherLines ==
    ASSUME IInv, Aggregate \/ FileStep \/ DiveNext \/ DiveAnswer
    PROVE  LinesAreThere'
<1> USE DEF IInv, LinesAreThere, Capped
<1>1. outcome \in [Entries -> Outcomes]
  BY DEF TypeOK, Outcomes
<1>2. CASE Aggregate
  BY <1>1, <1>2 DEF Aggregate, Pool!Close, work, files
<1>3. CASE WriteObservations
  BY <1>3 DEF WriteObservations, Write, pool, work
<1>4. CASE WriteCandidates \/ Validate \/ Record
  BY <1>4 DEF WriteCandidates, Validate, Record, pool, work, files
<1>5. CASE Unlink
  BY <1>5 DEF Unlink, pool, work
<1>6. CASE Kill
  BY <1>6 DEF Kill, pool, work
<1>7. CASE DiveNext \/ DiveAnswer
  BY <1>7 DEF DiveNext, DiveAnswer, pool, work, files
<1> QED
  BY <1>2, <1>3, <1>4, <1>5, <1>6, <1>7 DEF FileStep
-----------------------------------------------------------------------------
(* The ledgers                                                              *)

\* All that is assumed of the numbers.
LEMMA LedgerTypes ==
    ASSUME IInv
    PROVE  /\ requests_used \in Nat /\ ai_requests_used \in Nat
           /\ dive.requests_used \in Nat /\ dive.round \in Nat
           /\ dive.short_circuit \in BOOLEAN
           /\ Cardinality(Active) \in Nat /\ Cardinality(UnderWay) \in Nat
           /\ Counted \in Nat
           /\ EntryConcurrency \in Nat /\ MaxRequestsPerRun \in Nat
           /\ MaxDiveRounds \in Nat
<1> USE ExplorerAssumption, CountsAreNat DEF ExplorerAssumption, IInv, TypeOK
<1>1. dive.requests_used \in Nat /\ dive.round \in Nat /\ dive.short_circuit \in BOOLEAN
  OBVIOUS
<1>2. requests_used \in Nat /\ ai_requests_used \in Nat
  OBVIOUS
<1>3. EntryConcurrency \in Nat /\ MaxRequestsPerRun \in Nat /\ MaxDiveRounds \in Nat
  OBVIOUS
<1> QED
  BY <1>1, <1>2, <1>3 DEF Counted

\* What the step of an entry does to the numbers: nothing; it takes a place; a
\* call is sent; it gives its place back; or it does so because it is refused.
EntryBooks ==
    \/ /\ Counted' = Counted /\ requests_used' = requests_used
       /\ Cardinality(Active') \in Nat
       /\ \/ Cardinality(Active') <= Cardinality(Active)
          \/ /\ ~stopped
             /\ Cardinality(Active') <= EntryConcurrency
       /\ stopped => stopped'
    \/ /\ requests_used < MaxRequestsPerRun
       /\ Counted' = Counted + 1 /\ requests_used' = requests_used + 1
       /\ Cardinality(Active') = Cardinality(Active)
       /\ stopped' = stopped
    \/ /\ requests_used >= MaxRequestsPerRun
       /\ Counted' = Counted + 1 /\ requests_used' = requests_used
       /\ Cardinality(Active') = Cardinality(Active) - 1
       /\ stopped'

\* Each of these keeps the refusals few.
LEMMA BooksBalance ==
    ASSUME IInv, NEW e \in Entries, EntryStep(e), EntryBooks
    PROVE  RefusalsAreFew'
<1>1. dive' = dive /\ stage' = stage /\ stage = "exploring" /\ ~dive.short_circuit
  BY EntryAlone DEF diving, IInv, StageInOrder
<1>2. /\ requests_used <= MaxRequestsPerRun
      /\ requests_used <= Counted
      /\ requests_used < MaxRequestsPerRun => Counted = requests_used
      /\ ~stopped => Counted = requests_used
      /\ Counted - requests_used + Cardinality(Active) <= EntryConcurrency
  BY <1>1, LedgerTypes DEF IInv, RefusalsAreFew
<1>3. /\ requests_used' <= MaxRequestsPerRun
      /\ requests_used' <= Counted'
      /\ requests_used' < MaxRequestsPerRun => Counted' = requests_used'
      /\ ~stopped' => Counted' = requests_used'
      /\ Counted' - requests_used' + Cardinality(Active') <= EntryConcurrency
  BY <1>2, LedgerTypes DEF EntryBooks
<1>4. Counted' - requests_used' + Cardinality(Active')
        <= EntryConcurrency + (IF dive'.short_circuit THEN 1 ELSE 0)
  BY <1>1, <1>3, LedgerTypes
<1> QED
  BY <1>1, <1>3, <1>4 DEF RefusalsAreFew

\* The worker of an entry in flight ends: it leaves the pool and, if a call of
\* its had returned, the calls under way.
LEMMA Ends ==
    ASSUME IInv, NEW e \in Entries, pc[e] \in Busy,
           Raise(e) \/ \E why, n : Terminate(e, why, n)
    PROVE  /\ Cardinality(Active') = Cardinality(Active) - 1
           /\ Cardinality(Active') \in Nat
           /\ Cardinality(UnderWay') = Cardinality(UnderWay)
                - (IF pc[e] = "asking" THEN 0 ELSE 1)
           /\ Cardinality(UnderWay') \in Nat
           /\ stopped => stopped'
<1>1. /\ TypeOK /\ outcome[e] = "running"
      /\ pc' = [pc EXCEPT ![e] = "ended"]
      /\ \E o \in {"succeeded", "failed"} : outcome' = [outcome EXCEPT ![e] = o]
      /\ stopped => stopped'
  BY DEF IInv, WorkersInStep, Raise, Terminate, Pool!Finish
<1>2. /\ Cardinality(Active') = Cardinality(Active) - 1
      /\ Cardinality(Active') \in Nat
  BY <1>1, ActiveMoved DEF Outcomes
<1>3. CASE pc[e] = "asking"
  <2>1. Cardinality(UnderWay') = Cardinality(UnderWay) /\ Cardinality(UnderWay) \in Nat
    BY <1>1, <1>3, UnderWayMoved, LabelFacts
  <2> QED
    BY <1>1, <1>2, <1>3, <2>1
<1>4. CASE pc[e] \in {"waiting", "waiting_again"}
  <2>1. /\ Cardinality(UnderWay') = Cardinality(UnderWay) - 1
        /\ Cardinality(UnderWay') \in Nat
    BY <1>1, <1>4, UnderWayMoved, LabelFacts
  <2> QED
    BY <1>1, <1>2, <1>4, <2>1
<1> QED
  BY <1>3, <1>4 DEF Busy

\* A call is sent or refused: the books of both agree on it.
LEMMA SendBooks ==
    ASSUME IInv, NEW e \in Entries, EntryStep(e), NEW to \in {"waiting", "waiting_again"},
           NEW returned \in {0, 1}, pc[e] \in {"asking", "waiting"},
           returned = (IF pc[e] = "asking" THEN 0 ELSE 1),
           Send(e, to, returned)
    PROVE  EntryBooks
<1>0. dive' = dive
  BY EntryAlone DEF diving
<1>1. CASE /\ Affordable
           /\ requests_used' = requests_used + 1
           /\ ai_requests_used' = ai_requests_used + returned
           /\ pc' = [pc EXCEPT ![e] = to]
           /\ UNCHANGED <<pool, round, found, terminated, candidate_total, partial, unwritten>>
  <2>1. Active' = Active /\ stopped' = stopped
    BY <1>1 DEF Active, pool
  <2>2. /\ Cardinality(UnderWay') = Cardinality(UnderWay) + 1 - returned
        /\ Cardinality(UnderWay') \in Nat
    <3>1. CASE pc[e] = "asking"
      <4>1. Cardinality(UnderWay') = Cardinality(UnderWay) + 1 /\ Cardinality(UnderWay') \in Nat
        BY <1>1, <3>1, UnderWayMoved, LabelFacts DEF IInv
      <4> QED
        BY <4>1, <3>1, LedgerTypes
    <3>2. CASE pc[e] = "waiting"
      <4>1. Cardinality(UnderWay') = Cardinality(UnderWay) /\ Cardinality(UnderWay') \in Nat
        BY <1>1, <3>2, UnderWayMoved, LabelFacts DEF IInv
      <4> QED
        BY <4>1, <3>2, LedgerTypes
    <3> QED
      BY <3>1, <3>2
  <2>3. Counted' = Counted + 1
    BY <1>0, <1>1, <2>2, LedgerTypes DEF Counted
  <2> QED
    BY <1>1, <2>1, <2>3 DEF EntryBooks, Affordable
<1>2. CASE /\ ~Affordable
           /\ Refused(returned)
           /\ Terminate(e, "short_circuit", found[e])
  <2>1. /\ Cardinality(Active') = Cardinality(Active) - 1
        /\ Cardinality(UnderWay') = Cardinality(UnderWay) - returned
        /\ Cardinality(UnderWay') \in Nat
    BY <1>2, Ends DEF Busy
  <2>2. stopped'
    BY <1>2 DEF Terminate, Pool!Finish
  <2>3. Counted' = Counted + 1
    BY <1>0, <1>2, <2>1, LedgerTypes DEF Counted, Refused
  <2> QED
    <3>1. requests_used >= MaxRequestsPerRun /\ requests_used' = requests_used
      BY <1>2, LedgerTypes DEF Affordable, Refused
    <3> QED
      BY <3>1, <2>1, <2>2, <2>3 DEF EntryBooks
<1> QED
  BY <1>1, <1>2 DEF Send

\* Every step of an entry is one of EntryBooks.
LEMMA EntryRefusals ==
    ASSUME IInv, NEW e \in Entries, EntryStep(e)
    PROVE  RefusalsAreFew'
<1> SUFFICES EntryBooks
  BY BooksBalance
<1>0. dive' = dive /\ TypeOK /\ WorkersInStep /\ Cardinality(Active) <= EntryConcurrency
  BY EntryAlone DEF diving, IInv, RoomForPeaks
<1>1. CASE Begin(e)
  <2>1. outcome' = [outcome EXCEPT ![e] = "running"] /\ outcome[e] = "pending"
    BY <1>1 DEF Begin, Pool!Begin
  <2>2. Cardinality(Active') = Cardinality(Active) + 1 /\ Cardinality(Active') \in Nat
    BY <1>0, <2>1, ActiveMoved DEF Outcomes
  <2>3. pc' = [pc EXCEPT ![e] = "asking"] /\ pc[e] = "queued"
    BY <1>0, <1>1, <2>1 DEF Begin, WorkersInStep
  <2>4. Cardinality(UnderWay') = Cardinality(UnderWay)
    BY <1>0, <2>3, UnderWayMoved, LabelFacts
  <2>5. /\ ~stopped /\ stopped' = stopped /\ Cardinality(Active') <= EntryConcurrency
        /\ requests_used' = requests_used /\ ai_requests_used' = ai_requests_used
    BY <1>1, <2>2, LedgerTypes DEF Begin, Pool!Begin, budget
  <2>6. Counted' = Counted
    BY <1>0, <2>4, <2>5 DEF Counted
  <2> QED
    BY <2>2, <2>5, <2>6 DEF EntryBooks
<1>2. CASE SkipCapped(e)
  <2>1. outcome' = [outcome EXCEPT ![e] = "succeeded"] /\ outcome[e] = "pending"
    BY <1>2 DEF SkipCapped
  <2>2. Cardinality(Active') = Cardinality(Active) /\ Cardinality(Active') \in Nat
    BY <1>0, <2>1, ActiveMoved DEF Outcomes
  <2>3. UNCHANGED <<pc, stopped, requests_used, ai_requests_used>>
    BY <1>2 DEF SkipCapped, budget
  <2>4. Counted' = Counted
    BY <1>0, <2>3 DEF Counted, UnderWay
  <2> QED
    BY <2>2, <2>3, <2>4 DEF EntryBooks
<1>3. CASE Ask(e)
  <2>1. CASE Send(e, "waiting", 0)
    BY <1>3, <2>1, SendBooks DEF Ask
  <2>2. CASE Raise(e) /\ UNCHANGED budget
    <3>1. /\ Cardinality(Active') = Cardinality(Active) - 1
          /\ Cardinality(Active') \in Nat
          /\ Cardinality(UnderWay') = Cardinality(UnderWay)
          /\ stopped => stopped'
      BY <1>3, <2>2, Ends, LedgerTypes DEF Ask, Busy
    <3>2. Counted' = Counted /\ requests_used' = requests_used
      BY <1>0, <2>2, <3>1 DEF Counted, budget
    <3> QED
      BY <3>1, <3>2, LedgerTypes DEF EntryBooks
  <2> QED
    BY <1>3, <2>1, <2>2 DEF Ask
<1>4. CASE AskAgain(e)
  BY <1>4, SendBooks DEF AskAgain
<1>5. CASE Answer(e)
  <2>0. /\ pc[e] \in {"waiting", "waiting_again"} /\ pc[e] \in Busy /\ pc[e] # "asking"
        /\ ai_requests_used' = ai_requests_used + 1 /\ requests_used' = requests_used
    BY <1>5 DEF Answer, Busy
  <2>1. CASE Raise(e) \/ \E why, n : Terminate(e, why, n)
    <3>1. /\ Cardinality(Active') = Cardinality(Active) - 1
          /\ Cardinality(Active') \in Nat
          /\ Cardinality(UnderWay') = Cardinality(UnderWay) - 1
          /\ Cardinality(UnderWay') \in Nat
          /\ stopped => stopped'
      BY <2>0, <2>1, Ends
    <3>2. Counted' = Counted
      BY <1>0, <2>0, <3>1, LedgerTypes DEF Counted
    <3> QED
      BY <2>0, <3>1, <3>2, LedgerTypes DEF EntryBooks
  <2>2. CASE pc' = [pc EXCEPT ![e] = "asking"] /\ UNCHANGED pool
    <3>1. /\ Cardinality(UnderWay') = Cardinality(UnderWay) - 1
          /\ Cardinality(UnderWay') \in Nat
      BY <1>0, <2>0, <2>2, UnderWayMoved, LabelFacts
    <3>2. Counted' = Counted
      BY <1>0, <2>0, <3>1, LedgerTypes DEF Counted
    <3>3. Active' = Active /\ stopped' = stopped
      BY <2>2 DEF Active, pool
    <3> QED
      BY <2>0, <3>2, <3>3, LedgerTypes DEF EntryBooks
  <2> QED
    BY <1>5, <2>1, <2>2 DEF Answer
<1> QED
  BY <1>1, <1>2, <1>3, <1>4, <1>5 DEF EntryStep

\* The files are written after the calls have been counted.
LEMMA FileRefusals ==
    ASSUME IInv, Aggregate \/ FileStep
    PROVE  RefusalsAreFew'
<1>1. /\ requests_used' = requests_used /\ ai_requests_used' = ai_requests_used
      /\ pc' = pc /\ stage' # "exploring"
  BY DEF Aggregate, FileStep, WriteObservations, WriteCandidates, Unlink, Validate,
     Record, Kill, work, budget
<1>2. Active' = Active
  <2>1. CASE Aggregate
    BY <2>1 DEF Aggregate, Pool!Close, Active, IInv, TypeOK
  <2>2. CASE FileStep
    BY <2>2 DEF FileStep, WriteObservations, WriteCandidates, Unlink, Validate,
       Record, Kill, Active, pool
  <2> QED
    BY <2>1, <2>2
<1>3. /\ dive'.requests_used = dive.requests_used /\ dive'.round = dive.round
      /\ dive'.short_circuit = dive.short_circuit
  <2>1. dive \in [left : Nat, round : 0..MaxDiveRounds, short_circuit : BOOLEAN,
                  requests_used : Nat]
    BY DEF IInv, TypeOK
  <2>2. dive' = dive \/ \E n : dive' = [dive EXCEPT !.left = n]
    BY DEF Aggregate, FileStep, WriteObservations, WriteCandidates, Unlink, Validate,
       Record, Kill, diving
  <2> QED
    BY <2>1, <2>2
<1>4. UnderWay' = UnderWay
  BY <1>1 DEF UnderWay
<1>5. Counted' = Counted
  BY <1>1, <1>3, <1>4 DEF Counted
<1> QED
  BY <1>1, <1>2, <1>3, <1>5 DEF IInv, RefusalsAreFew

\* What the step of a dive does to the numbers: nothing; a call is sent; or it
\* is refused, and no dive follows.
DiveBooks ==
    \/ /\ Counted' = Counted /\ requests_used' = requests_used
       /\ dive.short_circuit => dive'.short_circuit
    \/ /\ requests_used < MaxRequestsPerRun
       /\ Counted' = Counted + 1 /\ requests_used' = requests_used + 1
       /\ dive'.short_circuit = dive.short_circuit
    \/ /\ requests_used >= MaxRequestsPerRun
       /\ Counted' = Counted + 1 /\ requests_used' = requests_used
       /\ ~dive.short_circuit /\ dive'.short_circuit

\* The books of the dives balance.
LEMMA DiveBooksBalance ==
    ASSUME IInv, stage = "diving", stage' = stage, Active' = Active, DiveBooks,
           dive'.short_circuit \in BOOLEAN
    PROVE  RefusalsAreFew'
<1>1. /\ requests_used <= MaxRequestsPerRun
      /\ requests_used <= Counted
      /\ requests_used < MaxRequestsPerRun => Counted = requests_used
      /\ Counted - requests_used + Cardinality(Active)
           <= EntryConcurrency + (IF dive.short_circuit THEN 1 ELSE 0)
  BY DEF IInv, RefusalsAreFew
<1>2. /\ requests_used' <= MaxRequestsPerRun
      /\ requests_used' <= Counted'
      /\ requests_used' < MaxRequestsPerRun => Counted' = requests_used'
      /\ Counted' - requests_used' + Cardinality(Active)
           <= EntryConcurrency + (IF dive'.short_circuit THEN 1 ELSE 0)
  BY <1>1, LedgerTypes DEF DiveBooks
<1> QED
  BY <1>2 DEF RefusalsAreFew

\* A dive that ends counts what has returned; a call that is sent is under way.
LEMMA DiveRefusals ==
    ASSUME IInv, DiveNext \/ DiveAnswer
    PROVE  RefusalsAreFew'
<1>0. /\ dive \in [left : Nat, round : 0..MaxDiveRounds, short_circuit : BOOLEAN,
                   requests_used : Nat]
      /\ stage = "diving" /\ stage' = stage /\ ai_requests_used' = ai_requests_used
      /\ DiveNext => dive.round = 0
      /\ DiveAnswer => dive.round > 0
      /\ dive.round > 0 => ~dive.short_circuit
  BY DEF IInv, TypeOK, DiveNext, DiveAnswer, StageInOrder
<1>1. Active' = Active /\ UnderWay' = UnderWay
  BY DEF DiveNext, DiveAnswer, Active, UnderWay, pool, work
<1>2. dive'.short_circuit \in BOOLEAN
  BY DiveTypes DEF TypeOK
<1>3. SUFFICES DiveBooks
  BY <1>0, <1>1, <1>2, DiveBooksBalance
<1>4. ASSUME NEW result, NEW breaking \in BOOLEAN, NEW returned \in Nat,
             DiveEnds(result, breaking, returned)
      PROVE  /\ dive'.round = 0
             /\ dive'.requests_used = dive.requests_used + returned
             /\ dive.short_circuit \/ breaking => dive'.short_circuit
  <2>1. dive' = [dive EXCEPT !.left = @ - 1, !.round = 0,
                             !.short_circuit = @ \/ breaking,
                             !.requests_used = @ + returned]
    BY <1>4 DEF DiveEnds
  <2>2. /\ dive'.round = 0
        /\ dive'.requests_used = dive.requests_used + returned
        /\ dive'.short_circuit = (dive.short_circuit \/ breaking)
    BY <1>0, <2>1
  <2> QED
    BY <2>2, <1>0
<1>5. ASSUME NEW result, NEW breaking \in BOOLEAN,
             DiveEnds(result, breaking, IF dive.round > 0 THEN 1 ELSE 0),
             UNCHANGED requests_used
      PROVE  DiveBooks
  <2>1. (IF dive.round > 0 THEN 1 ELSE 0) \in Nat
    OBVIOUS
  <2>2. /\ dive'.round = 0
        /\ dive'.requests_used = dive.requests_used + (IF dive.round > 0 THEN 1 ELSE 0)
        /\ dive.short_circuit => dive'.short_circuit
    BY <1>4, <1>5, <2>1
  <2>3. Counted' = Counted
    BY <1>0, <1>1, <2>2, LedgerTypes DEF Counted
  <2> QED
    BY <1>5, <2>2, <2>3 DEF DiveBooks
<1>6. ASSUME NEW returned \in {0, 1}, returned = (IF dive.round > 0 THEN 1 ELSE 0),
             DiveCall(returned), ~dive.short_circuit
      PROVE  DiveBooks
  <2>1. CASE /\ Affordable
             /\ requests_used' = requests_used + 1
             /\ dive' = [dive EXCEPT !.round = @ + 1, !.requests_used = @ + returned]
    <3>1. /\ dive'.round = dive.round + 1
          /\ dive'.requests_used = dive.requests_used + returned
          /\ dive'.short_circuit = dive.short_circuit
      BY <1>0, <2>1
    <3>2. Counted' = Counted + 1
      BY <1>0, <1>1, <1>6, <3>1, LedgerTypes DEF Counted
    <3> QED
      BY <2>1, <3>1, <3>2 DEF DiveBooks, Affordable
  <2>2. CASE ~Affordable /\ DiveEnds("skipped", TRUE, returned + 1) /\ UNCHANGED requests_used
    <3>1. /\ dive'.round = 0
          /\ dive'.requests_used = dive.requests_used + (returned + 1)
          /\ dive'.short_circuit
      <4>1. returned + 1 \in Nat /\ TRUE \in BOOLEAN
        BY <1>6
      <4>2. DiveEnds("skipped", TRUE, returned + 1)
        BY <2>2
      <4> QED
        BY <1>4, <4>1, <4>2
    <3>2. Counted' = Counted + 1
      BY <1>0, <1>1, <1>6, <3>1, LedgerTypes DEF Counted
    <3>3. requests_used >= MaxRequestsPerRun
      BY <2>2, LedgerTypes DEF Affordable
    <3> QED
      BY <1>6, <2>2, <3>1, <3>2, <3>3 DEF DiveBooks
  <2> QED
    BY <1>6, <2>1, <2>2 DEF DiveCall
<1>7. CASE DiveNext
  <2>1. (IF dive.round > 0 THEN 1 ELSE 0) = 0
    BY <1>0, <1>7
  <2>2. \/ DiveEnds("skipped", FALSE, 0) /\ UNCHANGED requests_used
        \/ DiveEnds("failed", FALSE, 0) /\ UNCHANGED requests_used
        \/ ~dive.short_circuit /\ DiveCall(0)
    BY <1>7 DEF DiveNext
  <2> QED
    BY <1>5, <1>6, <2>1, <2>2
<1>8. CASE DiveAnswer
  <2>1. (IF dive.round > 0 THEN 1 ELSE 0) = 1 /\ ~dive.short_circuit
    BY <1>0, <1>8
  <2>2. \/ \E result \in DiveResults, breaking \in BOOLEAN :
              DiveEnds(result, breaking, 1) /\ UNCHANGED requests_used
        \/ DiveCall(1)
    BY <1>8 DEF DiveAnswer, DiveResults
  <2> QED
    BY <1>5, <1>6, <2>1, <2>2
<1> QED
  BY <1>7, <1>8
-----------------------------------------------------------------------------
(* The theorems                                                             *)

\* Every step keeps the invariant.
LEMMA StepIInv == IInv /\ [Next]_vars => IInv'
<1> SUFFICES ASSUME IInv, [Next]_vars PROVE IInv'
  OBVIOUS
<1>1. ASSUME NEW e \in Entries, EntryStep(e) PROVE IInv'
  BY <1>1, EntryTypes, EntryWorkers, EntryRoom, EntryLines, EntryRefusals DEF IInv
<1>2. CASE Aggregate \/ FileStep
  BY <1>2, FileTypes, OtherWorkers, OtherRoom, OtherLines, FileRefusals DEF IInv
<1>3. CASE DiveNext \/ DiveAnswer
  BY <1>3, DiveTypes, OtherWorkers, OtherRoom, OtherLines, DiveRefusals DEF IInv
<1>4. CASE UNCHANGED vars
  <2> USE <1>4 DEF vars, pool, work, budget, files, diving, IInv
  <2>1. TypeOK'
    BY DEF TypeOK
  <2>2. Active' = Active /\ UnderWay' = UnderWay /\ Capped' = Capped
    BY DEF Active, UnderWay, Capped
  <2>3. WorkersInStep' /\ LinesAreThere'
    BY <2>2 DEF WorkersInStep, LinesAreThere
  <2>4. StageInOrder' /\ RoomForPeaks'
    BY <2>2 DEF StageInOrder, RoomForPeaks
  <2>5. RefusalsAreFew'
    BY <2>2 DEF RefusalsAreFew, Counted
  <2> QED
    BY <2>1, <2>3, <2>4, <2>5
<1> QED
  BY <1>1, <1>2, <1>3, <1>4 DEF Next, StageStep, FileStep

\* The invariant of the explorer stage.
LEMMA Invariance == Spec => []IInv
  BY InitIInv, StepIInv, PTL DEF Spec

\* The variables keep their types; what an entry finds, in particular, is
\* bounded by the rounds and proposals explore_entry allows it.
THEOREM TypeCorrect == Spec => []TypeOK
<1>1. IInv => TypeOK
  BY DEF IInv
<1> QED
  BY <1>1, Invariance, PTL

\* However the workers of explore_all are interleaved, the candidates of a run
\* exceed max_candidates_per_run by no more than the entries explored at once
\* can find.
THEOREM SoftCapHolds == Spec => []SoftCap
<1>1. IInv => SoftCap
  <2> SUFFICES ASSUME IInv PROVE SoftCap
    OBVIOUS
  <2>1. /\ candidate_total \in Nat /\ Cardinality(Active) \in Nat
        /\ EntryConcurrency \in Nat /\ MaxCandidates \in Nat
        /\ MaxRounds \in Nat /\ MaxProposals \in Nat
    BY ExplorerAssumption, CountsAreNat DEF ExplorerAssumption, IInv, TypeOK
  <2>2. EntryConcurrency * MaxRounds * MaxProposals = EntryConcurrency * Peak
    BY <2>1 DEF Peak
  <2>3. /\ Cardinality(Active) * Peak \in Nat
        /\ EntryConcurrency * Peak \in Nat
    BY <2>1 DEF Peak
  <2>4. candidate_total + Cardinality(Active) * Peak
          <= MaxCandidates - 1 + EntryConcurrency * Peak
    BY DEF IInv, RoomForPeaks
  <2>5. candidate_total <= MaxCandidates - 1 + EntryConcurrency * Peak
    BY <2>1, <2>3, <2>4
  <2> QED
    BY <2>2, <2>5 DEF SoftCap
<1> QED
  BY <1>1, Invariance, PTL

\* Wherever the process is killed or fails, the record of an entry that was
\* explored and could be appended is in one of the two files.
THEOREM NothingIsLost == Spec => []NothingLost
<1>1. IInv => NothingLost
  BY DEF IInv, LinesAreThere, NothingLost
<1> QED
  BY <1>1, Invariance, PTL

\* The counts of the explorer and of the dives agree with the budget of the run,
\* but for the calls that were refused, of which there are few.
THEOREM LedgersCorrect == Spec => []LedgersAgree
<1>1. IInv => LedgersAgree
  <2> SUFFICES ASSUME IInv PROVE LedgersAgree
    OBVIOUS
  <2>1. /\ requests_used <= MaxRequestsPerRun
        /\ requests_used <= Counted
        /\ requests_used < MaxRequestsPerRun => Counted = requests_used
        /\ Counted <= requests_used + EntryConcurrency + 1
    BY LedgerTypes DEF IInv, RefusalsAreFew
  <2>2. {e \in Entries : pc[e] \in {"waiting", "waiting_again"}} = UnderWay
    BY DEF UnderWay, Waiting
  <2>3. Counted = ai_requests_used
                    + Cardinality({e \in Entries : pc[e] \in {"waiting", "waiting_again"}})
                    + dive.requests_used + (IF dive.round > 0 THEN 1 ELSE 0)
    BY <2>2 DEF Counted
  <2> QED
    BY <2>1, <2>3 DEF LedgersAgree
<1> QED
  BY <1>1, Invariance, PTL
=============================================================================
