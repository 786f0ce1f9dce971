----------------------------- MODULE AITransport -----------------------------
(***************************************************************************)
(* AITransport.post_chat_completions (analysis/ai_transport.py) over the    *)
(* ProviderController it leases from (analysis/ai_scheduler.py).  One       *)
(* transport is shared by every scan of the process (AIRuntime); each scan  *)
(* is a task with a circuit of its own.  A call tries up to MaxAttempts     *)
(* times; each try waits for the shared cooldown, takes a permit of the     *)
(* provider, then one of the process, and holds both while it sends.        *)
(*                                                                          *)
(* asyncio.Semaphore.acquire returns at once when a permit is free, so what *)
(* happens from the provider's permit to the sending is one step unless the *)
(* process has no permit left.  Times are abstracted to what remains of the *)
(* cooldown; back-off delays to a wait of any length.                       *)
(***************************************************************************)
EXTENDS Naturals, FiniteSets

CONSTANTS
    Calls,                  \* invocations of post_chat_completions
    Tasks,                  \* scans that share the transport
    TaskOf,                 \* TaskOf[c]: the scan that makes call c
    ProviderMaxInFlight,    \* settings.provider_max_in_flight
    MaxConcurrentChoices,   \* values settings.max_concurrent may have
    MaxAttempts,            \* retry_max_attempts, or 1 + retry_count
    MaxCooldown,            \* settings.provider_max_cooldown_seconds
    MaxRetryAfter           \* bound on the Retry-After a provider asks for

ASSUME AITransportAssumption ==
    /\ IsFiniteSet(Calls)
    /\ TaskOf \in [Calls -> Tasks]
    /\ ProviderMaxInFlight \in Nat \ {0}
    /\ MaxConcurrentChoices \subseteq Nat \ {0}
    /\ MaxAttempts \in Nat \ {0}
    /\ MaxCooldown \in Nat
    /\ MaxRetryAfter \in Nat

FatalFailures == {"auth_failed", "model_not_found"}

\* What the service can answer.  Retry-After is honoured on a 429, which is
\* retryable; 0 stands for no header.  401 and 403 are not retryable, while a
\* body that names an unknown model is fatal under any status.
Responses ==
    {r \in [fatal : FatalFailures \cup {"none"}, retryable : BOOLEAN,
            retry_after : 0..MaxRetryAfter] :
        /\ r.retry_after > 0 => r.retryable
        /\ r.fatal = "auth_failed" => ~r.retryable}

VARIABLES
    pc,                 \* where each call is
    attempts,           \* requests it has sent: also its loop index, since a
                        \* pass that goes on to the next has sent exactly one
    result,             \* what it returned
    provider_permits,   \* ProviderController._semaphore
    in_flight,          \* ProviderController._in_flight
    global_permits,     \* AIRuntime.global_semaphore
    cooldown,           \* ProviderController.cooldown_remaining
    fatal_failure,      \* AITransport._fatal_failure
    circuit_open,       \* the TaskCircuit of each scan
    closed,             \* AITransport._closed
    max_concurrent      \* the setting the process was started with

gates == <<provider_permits, in_flight, global_permits>>
shared == <<cooldown, fatal_failure, circuit_open, closed, max_concurrent>>
vars == <<pc, attempts, result, gates, shared>>

Init ==
    /\ pc = [c \in Calls |-> "attempt"]
    /\ attempts = [c \in Calls |-> 0]
    /\ result = [c \in Calls |-> "none"]
    /\ provider_permits = ProviderMaxInFlight
    /\ in_flight = 0
    /\ max_concurrent \in MaxConcurrentChoices
    /\ global_permits = max_concurrent
    /\ cooldown = 0
    /\ fatal_failure = "none"
    /\ circuit_open = [t \in Tasks |-> FALSE]
    /\ closed = FALSE

CircuitOpen(c) == circuit_open[TaskOf[c]]

Goto(c, label) == pc' = [pc EXCEPT ![c] = label]

Return(c, value) ==
    /\ Goto(c, "done")
    /\ result' = [result EXCEPT ![c] = value]

\* The head of the loop: a latched failure, then an open circuit, end the call
\* without a request.
Attempt(c) ==
    /\ pc[c] = "attempt"
    /\ \/ /\ fatal_failure # "none"
          /\ Return(c, fatal_failure)
       \/ /\ fatal_failure = "none" /\ CircuitOpen(c)
          /\ Return(c, "circuit_open")
       \/ /\ fatal_failure = "none" /\ ~CircuitOpen(c)
          /\ Goto(c, "cooling")
          /\ UNCHANGED result
    /\ UNCHANGED <<attempts, gates, shared>>

\* _wait_for_cooldown returns.
CooledDown(c) ==
    /\ pc[c] = "cooling"
    /\ cooldown = 0
    /\ Goto(c, "provider")
    /\ UNCHANGED <<attempts, result, gates, shared>>

\* Seeded bug: the permit is kept while the call waits again.
CooldownRace_KeepsPermit(c) ==
    /\ pc[c] = "provider"
    /\ provider_permits > 0
    /\ cooldown > 0
    /\ Goto(c, "cooling")
    /\ provider_permits' = provider_permits - 1
    /\ UNCHANGED <<attempts, result, in_flight, global_permits, shared>>

\* The provider's permit came, but so did a new cooldown: give it back.
CooldownRace(c) ==
    /\ pc[c] = "provider"
    /\ provider_permits > 0
    /\ cooldown > 0
    /\ Goto(c, "cooling")
    /\ UNCHANGED <<attempts, result, gates, shared>>

\* CircuitOpenError: the permit is given back before it is raised.
LeaseRefused(c) ==
    /\ pc[c] = "provider"
    /\ provider_permits > 0
    /\ cooldown = 0
    /\ CircuitOpen(c)
    /\ Return(c, "circuit_open")
    /\ UNCHANGED <<attempts, gates, shared>>

\* Seeded bug: the cooldown is not tested again once the permit came.
LeaseGranted_NoRecheck(c) ==
    /\ pc[c] = "provider"
    /\ provider_permits > 0
    /\ ~CircuitOpen(c)

LeaseGranted(c) ==
    /\ pc[c] = "provider"
    /\ provider_permits > 0
    /\ cooldown = 0
    /\ ~CircuitOpen(c)

\* Seeded bug: the circuit and the latch are not tested after the waits.
MaySend_NoRecheck(c) == ~closed

MaySend(c) == fatal_failure = "none" /\ ~CircuitOpen(c) /\ ~closed

\* Why a call that holds both permits returns without sending.  A closed
\* transport raises only after the attempt was counted.
Refusal(c) ==
    IF fatal_failure # "none" THEN fatal_failure
    ELSE IF CircuitOpen(c) THEN "circuit_open" ELSE "closed"

Refused(c) ==
    /\ Return(c, Refusal(c))
    /\ attempts' = [attempts EXCEPT ![c] = @ + IF Refusal(c) = "closed" THEN 1 ELSE 0]

Sent(c) ==
    /\ Goto(c, "sending")
    /\ attempts' = [attempts EXCEPT ![c] = @ + 1]
    /\ global_permits' = global_permits - 1
    /\ UNCHANGED result

\* Both permits at once; without the right to send they are given back in the
\* same step.
LeaseAndSend(c) ==
    /\ LeaseGranted(c)
    /\ global_permits > 0
    /\ \/ /\ MaySend(c)
          /\ Sent(c)
          /\ provider_permits' = provider_permits - 1
          /\ in_flight' = in_flight + 1
       \/ /\ ~MaySend(c)
          /\ Refused(c)
          /\ UNCHANGED gates
    /\ UNCHANGED shared

\* The process has no permit left: wait for one, holding the provider's.
LeaseAndWait(c) ==
    /\ LeaseGranted(c)
    /\ global_permits = 0
    /\ Goto(c, "global")
    /\ provider_permits' = provider_permits - 1
    /\ in_flight' = in_flight + 1
    /\ UNCHANGED <<attempts, result, global_permits, shared>>

ReleaseLease ==
    /\ provider_permits' = provider_permits + 1
    /\ in_flight' = in_flight - 1

\* The circuit and the latch are tested again after that wait.
GlobalGranted(c) ==
    /\ pc[c] = "global"
    /\ global_permits > 0
    /\ \/ /\ MaySend(c)
          /\ Sent(c)
          /\ UNCHANGED <<provider_permits, in_flight>>
       \/ /\ ~MaySend(c)
          /\ Refused(c)
          /\ ReleaseLease
          /\ UNCHANGED global_permits
    /\ UNCHANGED shared

ReleaseBoth ==
    /\ ReleaseLease
    /\ global_permits' = global_permits + 1

AttemptsLeft(c) == attempts[c] < MaxAttempts

\* httpx.HTTPError or the wall-clock timeout of wait_for.
NetworkFailure(c) ==
    /\ pc[c] = "sending"
    /\ ReleaseBoth
    /\ IF AttemptsLeft(c)
         THEN Goto(c, "backoff") /\ UNCHANGED result
         ELSE Return(c, "network")
    /\ UNCHANGED <<attempts, shared>>

Longer(a, b) == IF a >= b THEN a ELSE b
Capped(seconds) == IF seconds <= MaxCooldown THEN seconds ELSE MaxCooldown

\* Seeded bug: a later answer overwrites the latched failure.
Answer_LastFatal(c, r) ==
    /\ pc[c] = "sending"
    /\ ReleaseBoth
    /\ fatal_failure' = IF r.fatal = "none" THEN fatal_failure ELSE r.fatal
    /\ cooldown' = Longer(cooldown, Capped(r.retry_after))
    /\ IF r.retryable /\ AttemptsLeft(c)
         THEN Goto(c, "backoff") /\ UNCHANGED result
         ELSE Return(c, "response")
    /\ UNCHANGED <<attempts, circuit_open, closed, max_concurrent>>

\* An answer: latch the first fatal failure, publish the cooldown, then retry
\* or return.
Answer(c, r) ==
    /\ pc[c] = "sending"
    /\ ReleaseBoth
    /\ fatal_failure' = IF fatal_failure = "none" THEN r.fatal ELSE fatal_failure
    /\ cooldown' = Longer(cooldown, Capped(r.retry_after))
    /\ IF r.retryable /\ AttemptsLeft(c)
         THEN Goto(c, "backoff") /\ UNCHANGED result
         ELSE Return(c, "response")
    /\ UNCHANGED <<attempts, circuit_open, closed, max_concurrent>>

\* retry_backoff returns.
Backoff(c) ==
    /\ pc[c] = "backoff"
    /\ Goto(c, "attempt")
    /\ UNCHANGED <<attempts, result, gates, shared>>

\* Another candidate of the scan opens its circuit.
OpenCircuit(t) ==
    /\ ~circuit_open[t]
    /\ circuit_open' = [circuit_open EXCEPT ![t] = TRUE]
    /\ UNCHANGED <<pc, attempts, result, gates, cooldown, fatal_failure, closed,
                   max_concurrent>>

\* The application shuts down.
AClose ==
    /\ ~closed
    /\ closed' = TRUE
    /\ UNCHANGED <<pc, attempts, result, gates, cooldown, fatal_failure, circuit_open,
                   max_concurrent>>

\* A second passes.
Tick ==
    /\ cooldown > 0
    /\ cooldown' = cooldown - 1
    /\ UNCHANGED <<pc, attempts, result, gates, fatal_failure, circuit_open, closed,
                   max_concurrent>>

Advance(c) ==
    \/ Attempt(c) \/ CooledDown(c) \/ CooldownRace(c) \/ LeaseRefused(c)
    \/ LeaseAndSend(c) \/ LeaseAndWait(c) \/ GlobalGranted(c) \/ NetworkFailure(c)
    \/ (\E r \in Responses : Answer(c, r))
    \/ Backoff(c)

Next ==
    \/ \E c \in Calls : Advance(c)
    \/ \E t \in Tasks : OpenCircuit(t)
    \/ AClose
    \/ Tick

\* Ready coroutines run, a request ends at the latest at its wall-clock
\* timeout, and time passes.  A call that has not
\* begun is one that has not yet been scheduled at its first step.
Fairness ==
    /\ \A c \in Calls : WF_vars(Advance(c))
    /\ WF_vars(Tick)

Spec == Init /\ [][Next]_vars /\ Fairness
-----------------------------------------------------------------------------
At(labels) == {c \in Calls : pc[c] \in labels}

TypeOK ==
    /\ pc \in [Calls -> {"attempt", "cooling", "provider", "global",
                         "sending", "backoff", "done"}]
    /\ attempts \in [Calls -> 0..MaxAttempts]
    /\ result \in [Calls -> FatalFailures \cup
                     {"none", "response", "network", "circuit_open", "closed"}]
    /\ provider_permits \in 0..ProviderMaxInFlight
    /\ in_flight \in 0..ProviderMaxInFlight
    /\ max_concurrent \in MaxConcurrentChoices
    /\ global_permits \in 0..max_concurrent
    /\ cooldown \in 0..MaxCooldown
    /\ fatal_failure \in FatalFailures \cup {"none"}
    /\ circuit_open \in [Tasks -> BOOLEAN]
    /\ closed \in BOOLEAN

\* No path through the two nested semaphores leaks or duplicates a permit:
\* timeouts, refusals and early returns all give back exactly what they hold.
\* So neither limit is ever exceeded, and in_flight is the number of leases.
PermitsConserved ==
    /\ in_flight = Cardinality(At({"global", "sending"}))
    /\ provider_permits + in_flight = ProviderMaxInFlight
    /\ global_permits + Cardinality(At({"sending"})) = max_concurrent

\* When the process allows at least what the provider does, as the comment of
\* config/default.yaml asks, no lease waits for the process and so no request
\* leaves during a cooldown, also for a call that was waiting when the cooldown
\* was published (docstring of _acquire).
SentOnlyWhenCool ==
    [][max_concurrent >= ProviderMaxInFlight =>
         \A c \in Calls : attempts'[c] # attempts[c] => cooldown = 0]_vars

\* Once a failure is latched, or the circuit of its scan is open, no call sends
\* again, wherever it was waiting (docstring of post_chat_completions), and the
\* first failure stays.
NoRequestAfterFatal ==
    [][/\ fatal_failure # "none" => fatal_failure' = fatal_failure
       /\ \A c \in Calls :
            fatal_failure # "none" \/ CircuitOpen(c) => attempts'[c] = attempts[c]]_vars

\* What a call returns says what happened to it: a network failure only after
\* every attempt was spent, a refusal only for a reason that still holds, an
\* answer only if something was sent.
ResultIsHonest ==
    \A c \in Calls :
        /\ result[c] = "none" <=> pc[c] # "done"
        /\ result[c] = "network" => attempts[c] = MaxAttempts
        /\ result[c] = "response" => attempts[c] > 0
        /\ result[c] = "circuit_open" => CircuitOpen(c)
        /\ result[c] = "closed" => closed
        /\ result[c] \in FatalFailures => result[c] = fatal_failure

\* Every call returns, through cooldowns, full gates and retries: a permit that
\* is held is always given back, and no order of the two semaphores blocks.
CallsReturn == <>(\A c \in Calls : pc[c] = "done")
=============================================================================
