-------------------------- MODULE AITransportProofs --------------------------
(***************************************************************************)
(* Proofs about AITransport, for any number of calls, scans, permits and     *)
(* attempts.  The counting lemma Moved says what one call's move does to the *)
(* number of calls at some labels; everything about the permits rests on it. *)
(***************************************************************************)
EXTENDS AITransport, FiniteSetTheorems, TLAPS

\* The labels at which a call holds a lease of the provider, and those at which
\* it also holds a permit of the process.
Leased == At({"global", "sending"})
Sending == At({"sending"})

\* A call that may still send has an attempt left, and one that is sending has
\* used one.
AttemptsBounded ==
    \A c \in Calls :
        /\ pc[c] \notin {"sending", "done"} => attempts[c] < MaxAttempts
        /\ pc[c] = "sending" => attempts[c] > 0

\* If the process admits as much as the provider, nobody waits for it with a
\* lease in hand.
NobodyWaitsForProcess ==
    max_concurrent >= ProviderMaxInFlight => At({"global"}) = {}

IInv ==
    /\ TypeOK
    /\ PermitsConserved
    /\ AttemptsBounded
    /\ NobodyWaitsForProcess
    /\ ResultIsHonest

Labels == {"attempt", "cooling", "provider", "global", "sending", "backoff", "done"}
-----------------------------------------------------------------------------
(* Counting                                                                 *)

\* The calls at some labels are finitely many.
LEMMA AtIsFinite ==
    ASSUME NEW labels
    PROVE  IsFiniteSet(At(labels)) /\ Cardinality(At(labels)) \in Nat
<1>1. At(labels) \in SUBSET Calls
  BY DEF At
<1> QED
  BY <1>1, AITransportAssumption, FS_Subset, FS_CardinalityType

\* When one call moves, the number of calls at some labels changes by one if
\* the call enters or leaves them.
LEMMA Moved ==
    ASSUME TypeOK, NEW c \in Calls, NEW label, Goto(c, label), NEW labels
    PROVE  /\ Cardinality(At(labels)') \in Nat
           /\ Cardinality(At(labels)') =
                IF label \in labels
                  THEN IF pc[c] \in labels THEN Cardinality(At(labels))
                                           ELSE Cardinality(At(labels)) + 1
                  ELSE IF pc[c] \in labels THEN Cardinality(At(labels)) - 1
                                           ELSE Cardinality(At(labels))
<1>1. pc' = [pc EXCEPT ![c] = label] /\ pc \in [Calls -> Labels]
  BY DEF Goto, TypeOK, Labels
<1>2. c \in At(labels) <=> pc[c] \in labels
  BY DEF At
<1>3. CASE label \in labels
  <2>1. At(labels)' = At(labels) \cup {c}
    BY <1>1, <1>3 DEF At
  <2> QED
    BY <2>1, <1>2, <1>3, AtIsFinite, FS_AddElement
<1>4. CASE label \notin labels
  <2>1. At(labels)' = At(labels) \ {c}
    BY <1>1, <1>4 DEF At
  <2>2. IsFiniteSet(At(labels)')
    BY <2>1, AtIsFinite, FS_RemoveElement
  <2> QED
    BY <2>1, <2>2, <1>2, <1>4, AtIsFinite, FS_RemoveElement, FS_CardinalityType
<1> QED
  BY <1>3, <1>4

\* What a move does to the two counts the permits are balanced against.
LEMMA MovedPermits ==
    ASSUME TypeOK, NEW c \in Calls, NEW label \in Labels, Goto(c, label)
    PROVE  /\ Cardinality(Leased) \in Nat /\ Cardinality(Leased') \in Nat
           /\ Cardinality(Sending) \in Nat /\ Cardinality(Sending') \in Nat
           /\ Cardinality(Leased') = Cardinality(Leased)
                + (IF label \in {"global", "sending"} THEN 1 ELSE 0)
                - (IF pc[c] \in {"global", "sending"} THEN 1 ELSE 0)
           /\ Cardinality(Sending') = Cardinality(Sending)
                + (IF label = "sending" THEN 1 ELSE 0)
                - (IF pc[c] = "sending" THEN 1 ELSE 0)
<1>1. Cardinality(Leased) \in Nat /\ Cardinality(Sending) \in Nat
  BY AtIsFinite DEF Leased, Sending
<1> HIDE DEF Labels
<1> QED
  BY <1>1, Moved DEF Leased, Sending
-----------------------------------------------------------------------------
(* The permits                                                              *)

\* The balances, and that no semaphore goes below zero.
Balanced ==
    /\ PermitsConserved
    /\ provider_permits \in Nat
    /\ global_permits \in Nat

\* Each step of a call takes and gives back exactly what its move stands for.
LEMMA PermitsPreserved ==
    ASSUME IInv, NEW c \in Calls, Advance(c)
    PROVE  Balanced'
<1> USE DEF IInv
<1>0. /\ in_flight = Cardinality(Leased)
      /\ provider_permits + in_flight = ProviderMaxInFlight
      /\ global_permits + Cardinality(Sending) = max_concurrent
      /\ provider_permits \in Nat /\ global_permits \in Nat /\ in_flight \in Nat
      /\ max_concurrent \in Nat /\ ProviderMaxInFlight \in Nat
  BY AITransportAssumption DEF PermitsConserved, Leased, Sending, TypeOK
<1>1. SUFFICES
        /\ in_flight' = Cardinality(Leased')
        /\ provider_permits' + in_flight' = ProviderMaxInFlight
        /\ global_permits' + Cardinality(Sending') = max_concurrent'
        /\ provider_permits' \in Nat /\ global_permits' \in Nat
  BY DEF Balanced, PermitsConserved, Leased, Sending
<1>2. CASE Attempt(c)
  BY <1>0, <1>2, MovedPermits DEF Attempt, Return, gates, shared, Labels, Goto
<1>3. CASE CooledDown(c) \/ CooldownRace(c) \/ LeaseRefused(c) \/ Backoff(c)
  BY <1>0, <1>3, MovedPermits
  DEF CooledDown, CooldownRace, LeaseRefused, Backoff, Return, gates, shared, Labels
<1>4. CASE LeaseAndSend(c)
  BY <1>0, <1>4, MovedPermits
  DEF LeaseAndSend, LeaseGranted, Sent, Refused, Return, gates, shared, Labels
<1>5. CASE LeaseAndWait(c)
  BY <1>0, <1>5, MovedPermits DEF LeaseAndWait, LeaseGranted, shared, Labels
<1>6. CASE GlobalGranted(c)
  BY <1>0, <1>6, MovedPermits
  DEF GlobalGranted, Sent, Refused, Return, ReleaseLease, shared, Labels
<1>7. CASE NetworkFailure(c)
  BY <1>0, <1>7, MovedPermits
  DEF NetworkFailure, ReleaseBoth, ReleaseLease, Return, shared, Labels
<1>8. ASSUME NEW r \in Responses, Answer(c, r)
      PROVE  /\ in_flight' = Cardinality(Leased')
             /\ provider_permits' + in_flight' = ProviderMaxInFlight
             /\ global_permits' + Cardinality(Sending') = max_concurrent'
             /\ provider_permits' \in Nat /\ global_permits' \in Nat
  BY <1>0, <1>8, MovedPermits DEF Answer, ReleaseBoth, ReleaseLease, Return, Labels
<1> QED
  BY <1>2, <1>3, <1>4, <1>5, <1>6, <1>7, <1>8 DEF Advance
-----------------------------------------------------------------------------
(* The other parts of the invariant, step by step of a call                 *)

\* Balanced permits stay within their semaphores.
LEMMA BalancedInRange ==
    ASSUME Balanced', max_concurrent' \in MaxConcurrentChoices
    PROVE  /\ provider_permits' \in 0..ProviderMaxInFlight
           /\ in_flight' \in 0..ProviderMaxInFlight
           /\ global_permits' \in 0..max_concurrent'
<1>1. Cardinality(Leased') \in Nat /\ Cardinality(Sending') \in Nat
  <2>1. Leased' \in SUBSET Calls /\ Sending' \in SUBSET Calls
    BY DEF Leased, Sending, At
  <2> QED
    BY <2>1, AITransportAssumption, FS_Subset, FS_CardinalityType
<1> QED
  BY <1>1, AITransportAssumption DEF Balanced, PermitsConserved, Leased, Sending

LEMMA TypePreserved ==
    ASSUME IInv, NEW c \in Calls, Advance(c)
    PROVE  TypeOK'
<1> USE DEF IInv
<1>1. max_concurrent' = max_concurrent /\ closed' = closed /\ circuit_open' = circuit_open
  BY DEF Advance, Attempt, CooledDown, CooldownRace, LeaseRefused, LeaseAndSend,
     LeaseAndWait, GlobalGranted, NetworkFailure, Answer, Backoff, shared
<1>2. /\ provider_permits' \in 0..ProviderMaxInFlight
      /\ in_flight' \in 0..ProviderMaxInFlight
      /\ global_permits' \in 0..max_concurrent'
  BY <1>1, PermitsPreserved, BalancedInRange DEF TypeOK
<1>3. /\ cooldown' \in 0..MaxCooldown
      /\ fatal_failure' \in FatalFailures \cup {"none"}
  <2>1. ASSUME NEW r \in Responses, Answer(c, r)
        PROVE  cooldown' \in 0..MaxCooldown /\ fatal_failure' \in FatalFailures \cup {"none"}
    BY <2>1, AITransportAssumption DEF Answer, Responses, Longer, Capped, TypeOK
  <2> QED
    BY <2>1 DEF Advance, Attempt, CooledDown, CooldownRace, LeaseRefused, LeaseAndSend,
       LeaseAndWait, GlobalGranted, NetworkFailure, Backoff, shared, TypeOK
<1>4. attempts' \in [Calls -> 0..MaxAttempts]
  <2>1. \A n \in 0..MaxAttempts : n < MaxAttempts => n + 1 \in 0..MaxAttempts
    BY AITransportAssumption
  <2>2. CASE LeaseAndSend(c) \/ GlobalGranted(c)
    <3>1. attempts[c] < MaxAttempts
      BY <2>2 DEF LeaseAndSend, LeaseGranted, GlobalGranted, AttemptsBounded
    <3> QED
      BY <2>1, <2>2, <3>1 DEF LeaseAndSend, GlobalGranted, Sent, Refused, TypeOK
  <2> QED
    BY <2>2 DEF Advance, Attempt, CooledDown, CooldownRace, LeaseRefused,
       LeaseAndWait, NetworkFailure, Answer, Backoff, TypeOK
<1>5. pc' \in [Calls -> Labels]
  BY DEF Advance, Attempt, CooledDown, CooldownRace, LeaseRefused, LeaseAndSend,
     LeaseAndWait, GlobalGranted, NetworkFailure, Answer, Backoff, Goto, Return, Sent,
     Refused, TypeOK, Labels
<1>6. result' \in [Calls -> FatalFailures \cup
                     {"none", "response", "network", "circuit_open", "closed"}]
  BY DEF Advance, Attempt, CooledDown, CooldownRace, LeaseRefused, LeaseAndSend,
     LeaseAndWait, GlobalGranted, NetworkFailure, Answer, Backoff, Return, Sent,
     Refused, Refusal, TypeOK
<1> QED
  BY <1>1, <1>2, <1>3, <1>4, <1>5, <1>6 DEF TypeOK, Labels

LEMMA AttemptsPreserved ==
    ASSUME IInv, NEW c \in Calls, Advance(c)
    PROVE  AttemptsBounded'
<1> USE DEF IInv
<1>1. CASE LeaseAndSend(c) \/ GlobalGranted(c)
  <2>1. attempts[c] \in Nat
    BY DEF TypeOK
  <2> QED
    BY <1>1, <2>1 DEF LeaseAndSend, LeaseGranted, GlobalGranted, Sent, Refused, Return,
       Goto, AttemptsBounded, TypeOK
<1>2. CASE Attempt(c) \/ CooledDown(c) \/ CooldownRace(c) \/ LeaseRefused(c)
  BY <1>2 DEF Attempt, CooledDown, CooldownRace, LeaseRefused, Return, Goto,
     AttemptsBounded, TypeOK
<1>3. CASE LeaseAndWait(c) \/ Backoff(c)
  BY <1>3 DEF LeaseAndWait, LeaseGranted, Backoff, Goto, AttemptsBounded, TypeOK
<1>4. CASE NetworkFailure(c)
  BY <1>4 DEF NetworkFailure, Return, Goto, AttemptsLeft, AttemptsBounded, TypeOK
<1>5. ASSUME NEW r \in Responses, Answer(c, r) PROVE AttemptsBounded'
  BY <1>5 DEF Answer, Return, Goto, AttemptsLeft, AttemptsBounded, TypeOK
<1> QED
  BY <1>1, <1>2, <1>3, <1>4, <1>5 DEF Advance

LEMMA NobodyWaitsPreserved ==
    ASSUME IInv, NEW c \in Calls, Advance(c)
    PROVE  NobodyWaitsForProcess'
<1> USE DEF IInv
<1>1. max_concurrent' = max_concurrent
  BY DEF Advance, Attempt, CooledDown, CooldownRace, LeaseRefused, LeaseAndSend,
     LeaseAndWait, GlobalGranted, NetworkFailure, Answer, Backoff, shared
<1>2. CASE LeaseAndWait(c)
  <2>1. At({"global"}) = {} => Leased = Sending
    BY DEF At, Leased, Sending
  <2>2. ~(max_concurrent >= ProviderMaxInFlight)
    BY <1>2, <2>1, AITransportAssumption
    DEF LeaseAndWait, LeaseGranted, NobodyWaitsForProcess, PermitsConserved, Leased,
        Sending, TypeOK
  <2> QED
    BY <1>1, <2>2 DEF NobodyWaitsForProcess
<1>3. CASE ~LeaseAndWait(c)
  <2>1. At({"global"})' \subseteq At({"global"})
    BY <1>3 DEF Advance, Attempt, CooledDown, CooldownRace, LeaseRefused, LeaseAndSend,
       GlobalGranted, NetworkFailure, Answer, Backoff, Goto, Return, Sent, Refused, At, TypeOK
  <2> QED
    BY <1>1, <2>1 DEF NobodyWaitsForProcess
<1> QED
  BY <1>2, <1>3

\* ResultIsHonest, for one call.
HonestAbout(c) ==
    /\ result[c] = "none" <=> pc[c] # "done"
    /\ result[c] = "network" => attempts[c] = MaxAttempts
    /\ result[c] = "response" => attempts[c] > 0
    /\ result[c] = "circuit_open" => CircuitOpen(c)
    /\ result[c] = "closed" => closed
    /\ result[c] \in FatalFailures => result[c] = fatal_failure

\* A latched failure stays, whoever answers.
LEMMA FatalStays ==
    ASSUME NEW c \in Calls, Advance(c), fatal_failure # "none"
    PROVE  fatal_failure' = fatal_failure
BY DEF Advance, Attempt, CooledDown, CooldownRace, LeaseRefused, LeaseAndSend, LeaseAndWait,
   GlobalGranted, NetworkFailure, Answer, Backoff, shared

LEMMA HonestPreserved ==
    ASSUME IInv, NEW c \in Calls, Advance(c)
    PROVE  ResultIsHonest'
<1> USE DEF IInv
<1>1. circuit_open' = circuit_open /\ closed' = closed
  BY DEF Advance, Attempt, CooledDown, CooldownRace, LeaseRefused, LeaseAndSend,
     LeaseAndWait, GlobalGranted, NetworkFailure, Answer, Backoff, shared
<1>2. \A d \in Calls \ {c} :
        pc'[d] = pc[d] /\ result'[d] = result[d] /\ attempts'[d] = attempts[d]
  BY DEF Advance, Attempt, CooledDown, CooldownRace, LeaseRefused, LeaseAndSend,
     LeaseAndWait, GlobalGranted, NetworkFailure, Answer, Backoff, Goto, Return, Sent,
     Refused, TypeOK
<1>3. "none" \notin FatalFailures
  BY DEF FatalFailures
<1>4. ASSUME NEW d \in Calls \ {c}
      PROVE  HonestAbout(d)'
  BY <1>1, <1>2, <1>3, FatalStays DEF ResultIsHonest, HonestAbout, CircuitOpen
<1>5. HonestAbout(c)'
  <2>1. result[c] = "none" /\ attempts[c] \in 0..MaxAttempts
    BY DEF ResultIsHonest, Advance, Attempt, CooledDown, CooldownRace, LeaseRefused,
       LeaseAndSend, LeaseGranted, LeaseAndWait, GlobalGranted, NetworkFailure, Answer,
       Backoff, TypeOK
  <2>2. CASE Attempt(c)
    BY <1>1, <2>1, <2>2 DEF HonestAbout, Attempt, Return, Goto, CircuitOpen, FatalFailures, TypeOK, shared
  <2>3. CASE CooledDown(c) \/ CooldownRace(c) \/ LeaseAndWait(c) \/ Backoff(c)
    BY <1>1, <2>1, <2>3, <1>3
    DEF HonestAbout, CooledDown, CooldownRace, LeaseAndWait, Backoff, Goto, TypeOK
  <2>4. CASE LeaseRefused(c)
    BY <1>1, <2>1, <2>4 DEF HonestAbout, LeaseRefused, Return, Goto, CircuitOpen, FatalFailures, TypeOK
  <2>5. CASE LeaseAndSend(c) \/ GlobalGranted(c)
    BY <1>1, <2>1, <2>5
    DEF HonestAbout, LeaseAndSend, GlobalGranted, Sent, Refused, Refusal, MaySend, Return, Goto,
        CircuitOpen, FatalFailures, TypeOK, shared
  <2>6. CASE NetworkFailure(c)
    BY <1>1, <2>1, <2>6, AITransportAssumption
    DEF HonestAbout, NetworkFailure, Return, Goto, AttemptsLeft, FatalFailures, TypeOK
  <2>7. ASSUME NEW r \in Responses, Answer(c, r)
        PROVE  HonestAbout(c)'
    BY <1>1, <2>1, <2>7 DEF HonestAbout, Answer, Return, Goto, AttemptsBounded, FatalFailures, TypeOK
  <2> QED
    BY <2>2, <2>3, <2>4, <2>5, <2>6, <2>7 DEF Advance
<1> QED
  BY <1>4, <1>5 DEF ResultIsHonest, HonestAbout
-----------------------------------------------------------------------------
(* The steps of the environment, and the invariance                         *)

LEMMA InitEstablishes == Init => IInv
<1> SUFFICES ASSUME Init PROVE IInv
  OBVIOUS
<1>1. TypeOK
  <2>1. /\ provider_permits \in 0..ProviderMaxInFlight
        /\ in_flight \in 0..ProviderMaxInFlight
        /\ global_permits \in 0..max_concurrent
        /\ max_concurrent \in MaxConcurrentChoices
        /\ cooldown \in 0..MaxCooldown
    BY AITransportAssumption DEF Init
  <2>2. attempts \in [Calls -> 0..MaxAttempts]
    BY AITransportAssumption DEF Init
  <2> QED
    BY <2>1, <2>2 DEF Init, TypeOK
<1>2. Leased = {} /\ Sending = {} /\ At({"global"}) = {}
  BY DEF Init, At, Leased, Sending
<1>3. PermitsConserved /\ NobodyWaitsForProcess
  BY <1>2, FS_EmptySet, AITransportAssumption
  DEF Init, PermitsConserved, NobodyWaitsForProcess, Leased, Sending
<1>4. AttemptsBounded
  BY AITransportAssumption DEF Init, AttemptsBounded
<1>5. ResultIsHonest
  BY DEF Init, ResultIsHonest, FatalFailures
<1> QED
  BY <1>1, <1>3, <1>4, <1>5 DEF IInv

\* Shutting down, another candidate opening its circuit, the passing of time
\* and stuttering touch no call and no permit.
LEMMA EnvironmentPreserves ==
    ASSUME IInv,
           (\E t \in Tasks : OpenCircuit(t)) \/ AClose \/ Tick \/ UNCHANGED vars
    PROVE  IInv'
<1> USE DEF IInv
<1>1. UNCHANGED <<pc, attempts, result, gates, fatal_failure, max_concurrent>>
  BY DEF OpenCircuit, AClose, Tick, vars, shared
<1>2. /\ circuit_open' \in [Tasks -> BOOLEAN] /\ closed' \in BOOLEAN
      /\ \A t \in Tasks : circuit_open[t] => circuit_open'[t]
      /\ closed => closed'
  BY DEF OpenCircuit, AClose, Tick, vars, shared, TypeOK
<1>3. cooldown' \in 0..MaxCooldown
  BY AITransportAssumption DEF OpenCircuit, AClose, Tick, vars, shared, TypeOK
<1>4. TypeOK'
  BY <1>1, <1>2, <1>3 DEF TypeOK, gates
<1>5. PermitsConserved' /\ NobodyWaitsForProcess' /\ AttemptsBounded'
  BY <1>1 DEF PermitsConserved, NobodyWaitsForProcess, AttemptsBounded, At, gates
<1>6. ResultIsHonest'
  BY <1>1, <1>2, AITransportAssumption DEF ResultIsHonest, CircuitOpen
<1> QED
  BY <1>4, <1>5, <1>6

LEMMA IInvIsInductive == IInv /\ [Next]_vars => IInv'
<1> SUFFICES ASSUME IInv, [Next]_vars PROVE IInv'
  OBVIOUS
<1>1. ASSUME NEW c \in Calls, Advance(c) PROVE IInv'
  BY <1>1, PermitsPreserved, TypePreserved, AttemptsPreserved, NobodyWaitsPreserved,
     HonestPreserved DEF IInv, Balanced
<1> QED
  BY <1>1, EnvironmentPreserves DEF Next

\* The inductive invariant holds in every reachable state.
THEOREM Invariance == Spec => []IInv
BY InitEstablishes, IInvIsInductive, PTL DEF Spec

\* Type correctness of the transport: in particular no semaphore exceeds its
\* initial value or goes below zero, and no call sends more than MaxAttempts.
THEOREM TypeCorrect == Spec => []TypeOK
<1>1. IInv => TypeOK
  BY DEF IInv
<1> QED
  BY <1>1, Invariance, PTL

\* No path through lease() and the global semaphore leaks or duplicates a
\* permit, whatever the number of calls and the two limits.
THEOREM PermitsCorrect == Spec => []PermitsConserved
<1>1. IInv => PermitsConserved
  BY DEF IInv
<1> QED
  BY <1>1, Invariance, PTL

\* What post_chat_completions returns is true of what happened to the call.
THEOREM HonestCorrect == Spec => []ResultIsHonest
<1>1. IInv => ResultIsHonest
  BY DEF IInv
<1> QED
  BY <1>1, Invariance, PTL
-----------------------------------------------------------------------------
(* The action properties                                                    *)

\* A step that counts a request is the sending step of a call, or the counting
\* of an attempt that a closed transport refuses.
LEMMA CountedOnlyWhenAllowed ==
    ASSUME IInv, NEW d \in Calls, Advance(d), NEW c \in Calls, attempts'[c] # attempts[c]
    PROVE  /\ fatal_failure = "none" /\ ~CircuitOpen(c)
           /\ cooldown = 0 \/ pc[c] = "global"
<1>1. LeaseAndSend(d) \/ GlobalGranted(d)
  BY DEF Advance, Attempt, CooledDown, CooldownRace, LeaseRefused, LeaseAndWait,
     NetworkFailure, Answer, Backoff
<1>2. Sent(d) \/ Refused(d)
  BY <1>1 DEF LeaseAndSend, GlobalGranted
<1>3. c = d
  BY <1>2 DEF Sent, Refused, IInv, TypeOK
<1>4. fatal_failure = "none" /\ ~CircuitOpen(c)
  <2>1. CASE MaySend(d)
    BY <2>1, <1>3 DEF MaySend
  <2>2. CASE ~MaySend(d)
    <3>1. Refused(d)
      BY <1>1, <2>2 DEF LeaseAndSend, GlobalGranted
    <3>2. Refusal(d) = "closed"
      BY <3>1, <1>3 DEF Refused, IInv, TypeOK
    <3> QED
      BY <3>2, <1>3 DEF Refusal, FatalFailures, IInv, TypeOK
  <2> QED
    BY <2>1, <2>2
<1> QED
  BY <1>1, <1>3, <1>4 DEF LeaseAndSend, LeaseGranted, GlobalGranted

\* Once a failure is latched or the circuit of its scan is open, no call sends
\* another request, wherever it was waiting; and the first failure stays.
THEOREM FatalStops == Spec => NoRequestAfterFatal
<1>1. IInv /\ [Next]_vars =>
        [/\ fatal_failure # "none" => fatal_failure' = fatal_failure
         /\ \A c \in Calls :
              fatal_failure # "none" \/ CircuitOpen(c) => attempts'[c] = attempts[c]]_vars
  <2> SUFFICES ASSUME IInv, Next
               PROVE  /\ fatal_failure # "none" => fatal_failure' = fatal_failure
                      /\ \A c \in Calls : fatal_failure # "none" \/ CircuitOpen(c)
                                            => attempts'[c] = attempts[c]
    OBVIOUS
  <2>1. ASSUME NEW d \in Calls, Advance(d)
        PROVE  /\ fatal_failure # "none" => fatal_failure' = fatal_failure
               /\ \A c \in Calls : fatal_failure # "none" \/ CircuitOpen(c)
                                     => attempts'[c] = attempts[c]
    BY <2>1, CountedOnlyWhenAllowed, FatalStays
  <2>2. CASE (\E t \in Tasks : OpenCircuit(t)) \/ AClose \/ Tick
    BY <2>2 DEF OpenCircuit, AClose, Tick
  <2> QED
    BY <2>1, <2>2 DEF Next
<1> QED
  BY <1>1, Invariance, PTL DEF Spec, NoRequestAfterFatal

\* If the process admits at least what the provider does, no request leaves
\* during a cooldown, also when the cooldown is published while calls wait.
THEOREM CooldownRespected == Spec => SentOnlyWhenCool
<1>1. IInv /\ [Next]_vars =>
        [max_concurrent >= ProviderMaxInFlight =>
           \A c \in Calls : attempts'[c] # attempts[c] => cooldown = 0]_vars
  <2> SUFFICES ASSUME IInv, Next, max_concurrent >= ProviderMaxInFlight,
                      NEW c \in Calls, attempts'[c] # attempts[c]
               PROVE  cooldown = 0
    OBVIOUS
  <2>1. pc[c] # "global"
    BY DEF IInv, NobodyWaitsForProcess, At
  <2>2. ASSUME NEW d \in Calls, Advance(d) PROVE cooldown = 0
    BY <2>1, <2>2, CountedOnlyWhenAllowed
  <2>3. CASE (\E t \in Tasks : OpenCircuit(t)) \/ AClose \/ Tick
    BY <2>3 DEF OpenCircuit, AClose, Tick
  <2> QED
    BY <2>2, <2>3 DEF Next
<1> QED
  BY <1>1, Invariance, PTL DEF Spec, SentOnlyWhenCool
=============================================================================
