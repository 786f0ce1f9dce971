----------------------------- MODULE AIProtocol -----------------------------
(***************************************************************************)
(* One AI call above the transport: OpenAICompatibleClient._invoke_prompt   *)
(* (analysis/ai.py) renders the prompt, looks in the shared cache, sends at *)
(* most one request and one repair, and saves what it accepts; AICacheStore *)
(* (analysis/ai_cache.py) keeps the entries; RunStorage.clear_shared_ai_    *)
(* cache removes them from another thread.  Any number of calls, of several *)
(* scans, share the cache.  The process may be killed and started again.    *)
(*                                                                          *)
(* The calls are coroutines of one loop: a lookup is one step, and while a  *)
(* call is inside save (`loop`) no other call moves, though the clearing    *)
(* thread does.  An answer is the form its text has and, when it fits the   *)
(* schema, an output: complete (analysis_complete), good (ok of a           *)
(* preflight; evidence_refs present and inside the slice for a review) and  *)
(* the identity of the request it was given to.                             *)
(***************************************************************************)
EXTENDS Naturals, FiniteSets

CONSTANTS
    Calls,
    Identities,         \* what a cache descriptor tells apart: records with a
                        \* track and the input, slice and settings (subject)
    MaxKills,           \* bound: kills of the process
    MaxCorruptions      \* bound: entries damaged behind the program's back

Tracks == {"preflight", "review", "other"}

ASSUME AIProtocolAssumption ==
    /\ \A id \in Identities : id.track \in Tracks
    /\ MaxKills \in Nat
    /\ MaxCorruptions \in Nat

Fatal == {"auth_failed", "model_not_found"}
RequestFailures == Fatal \cup
    {"circuit_open", "transient_failure", "rate_limited", "request_incompatible"}

Outputs == [complete : BOOLEAN, good : BOOLEAN, of : Identities]
Nobody == [track |-> "none", subject |-> "none"]
NoOutput == [complete |-> FALSE, good |-> FALSE, of |-> Nobody]
\* No output of the other tracks has a slice to be checked against.
OutputsOf(id) == {o \in Outputs : o.of = id /\ (id.track = "other" => ~o.good)}

\* The text of a successful answer.
Unfit == {"not_json", "misfit", "duplicate_keys", "starved"}
NoEntry == [out |-> NoOutput, sound |-> FALSE]

VARIABLES
    pc,             \* where each call is
    identity,       \* what it asks
    requests,       \* requests it has sent
    last,           \* how the last one was answered: [form, out]
    result,         \* [status, classification, circuit_breaking, out]
    loop,           \* the call inside save, or "free"
    entries,        \* entries/<key>.json
    temps,          \* temporary files of entries/, by the call that made them
    dirs,           \* which of "root" and "entries" exist
    clear,          \* [at, files, temps]: the clearing thread
    cache_on, strict_preflight,     \* settings
    alive, kills, corruptions

call == <<pc, identity, requests, last, result>>
files == <<entries, temps, dirs>>
faults == <<alive, kills, corruptions>>
settings == <<cache_on, strict_preflight>>
vars == <<call, loop, files, clear, settings, faults>>

NoResult == [status |-> "none", classification |-> "none",
             circuit_breaking |-> FALSE, out |-> NoOutput]
NoAnswer == [form |-> "none", out |-> NoOutput]
NotClearing == [at |-> "idle", files |-> {}, temps |-> {}]

Init ==
    /\ pc = [c \in Calls |-> "start"]
    /\ identity \in [Calls -> Identities]
    /\ requests = [c \in Calls |-> 0]
    /\ last = [c \in Calls |-> NoAnswer]
    /\ result = [c \in Calls |-> NoResult]
    /\ loop = "free"
    /\ entries = [id \in Identities |-> NoEntry]
    /\ temps = {}
    /\ dirs = {"root"}
    /\ clear = NotClearing
    /\ cache_on \in BOOLEAN
    /\ strict_preflight \in BOOLEAN
    /\ alive = TRUE
    /\ kills = 0
    /\ corruptions = 0

Running(c, label) == alive /\ loop = "free" /\ pc[c] = label
Goto(c, label) == pc' = [pc EXCEPT ![c] = label]

Return(c, r) ==
    /\ Goto(c, "done")
    /\ result' = [result EXCEPT ![c] = r]

Failure(classification, breaking) ==
    [status |-> "failed", classification |-> classification,
     circuit_breaking |-> breaking, out |-> NoOutput]

\* A request the transport gave no answer to.
RequestFailure(form) == IF form \in Fatal THEN Failure(form, TRUE) ELSE Failure(form, FALSE)

\* preflight() accepts a completed call only when the output says so.
Accepted(c, o) ==
    IF identity[c].track = "preflight" /\ ~(o.complete /\ o.good)
    THEN Failure("response_invalid", TRUE)
    ELSE [status |-> "completed", classification |-> "none",
          circuit_breaking |-> FALSE, out |-> o]

Cacheable(o) == o.complete /\ o.good

\* AICacheStore.load: a hit must have the key's descriptor, the digests of what
\* it holds and a complete output with evidence; any fault is a miss.
\* Seeded bug: the stored digest is not compared.
Readable_NoDigest(id) ==
    /\ "entries" \in dirs
    /\ entries[id] # NoEntry
    /\ entries[id].out.complete

Readable(id) ==
    /\ "entries" \in dirs
    /\ entries[id].sound
    /\ entries[id].out.of = id
    /\ entries[id].out.complete

\* What ends a call before its cache lookup: no consent or configuration, an
\* input the strict model refuses, a prompt that cannot be rendered.
EndEarly(c) ==
    /\ Running(c, "start")
    /\ \/ Return(c, [NoResult EXCEPT !.status = "skipped"])
       \/ Return(c, Failure("schema_invalid", FALSE))
       \/ Return(c, Failure("prompt_registry_invalid", TRUE))
    /\ UNCHANGED <<identity, requests, last, loop, files, clear, settings, faults>>

\* The rest of _invoke_prompt up to its first await.  A lookup may also fail,
\* which only takes the cache away from this call ("sending_uncached").
LookUp(c) ==
    LET id == identity[c]
        hit == cache_on /\ Readable(id) /\ Cacheable(entries[id].out)
    IN  /\ Running(c, "start")
        /\ \/ /\ hit
              /\ Return(c, Accepted(c, entries[id].out))
           \/ /\ ~hit
              /\ Return(c, Failure("input_too_large", FALSE))
           \/ /\ ~hit
              /\ Goto(c, IF cache_on THEN "sending" ELSE "sending_uncached")
              /\ UNCHANGED result
           \/ /\ Goto(c, "sending_uncached")
              /\ UNCHANGED result
        /\ UNCHANGED <<identity, requests, last, loop, files, clear, settings, faults>>

Answers(c) ==
    {[form |-> f, out |-> NoOutput] : f \in RequestFailures \cup Unfit}
        \cup {[form |-> f, out |-> o] : f \in {"strict", "relaxed"}, o \in OutputsOf(identity[c])}

Received(c, a) ==
    /\ requests' = [requests EXCEPT ![c] = @ + 1]
    /\ last' = [last EXCEPT ![c] = a]

\* _save_accepted_output: what is not cacheable is not saved, nor is anything
\* by a call without a cache.
\* Seeded bug: a complete output is saved whatever its evidence.
Saves(c, o, cached) == cached /\ Cacheable(o)

Accept(c, a, cached) ==
    IF Saves(c, a.out, cached)
    THEN Goto(c, "prepare") /\ loop' = c /\ UNCHANGED result
    ELSE Return(c, Accepted(c, a.out)) /\ UNCHANGED loop

\* The first answer.  A strict preflight neither takes JSON out of its wrapping
\* nor asks for a repair; duplicate keys and an output cut at the token limit
\* are final on every track.
FirstAnswer(c, a) ==
    LET strictly == identity[c].track = "preflight" /\ strict_preflight
        fits == a.form = "strict" \/ (a.form = "relaxed" /\ ~strictly)
        cached == pc[c] = "sending"
    IN  /\ Running(c, "sending") \/ Running(c, "sending_uncached")
        /\ a \in Answers(c)
        /\ Received(c, a)
        /\ \/ /\ a.form \in RequestFailures
              /\ Return(c, RequestFailure(a.form))
              /\ UNCHANGED loop
           \/ /\ a.form = "duplicate_keys"
              /\ Return(c, Failure("response_invalid", FALSE))
              /\ UNCHANGED loop
           \/ /\ a.form = "starved"
              /\ Return(c, Failure("output_budget_starved", FALSE))
              /\ UNCHANGED loop
           \/ fits /\ Accept(c, a, cached)
           \/ /\ a.form \in {"relaxed", "not_json", "misfit"} /\ ~fits
              /\ IF strictly
                 THEN Return(c, Failure(IF a.form = "misfit" THEN "schema_invalid"
                                        ELSE "response_invalid", TRUE))
                 ELSE /\ Goto(c, IF cached THEN "repairing" ELSE "repairing_uncached")
                      /\ UNCHANGED result
              /\ UNCHANGED loop
        /\ UNCHANGED <<identity, files, clear, settings, faults>>

\* What a repair that failed returns: a preflight always breaks the circuit.
\* Seeded bug: only a preflight does.
RepairFailure_PreflightOnly(c, classification) ==
    IF identity[c].track = "preflight" THEN Failure(classification, TRUE)
    ELSE Failure(classification, FALSE)
RepairFailure(c, classification) ==
    IF classification \in Fatal \/ identity[c].track = "preflight"
    THEN Failure(classification, TRUE)
    ELSE Failure(classification, FALSE)

\* _repair_output up to its await: the repair prompt may not render or may be
\* too large, and then no second request is sent.
RepairNotSent(c) ==
    /\ Running(c, "repairing") \/ Running(c, "repairing_uncached")
    /\ \E why \in {"schema_invalid", "input_too_large"} : Return(c, RepairFailure(c, why))
    /\ UNCHANGED <<identity, requests, last, loop, files, clear, settings, faults>>

RepairAnswer(c, a) ==
    /\ Running(c, "repairing") \/ Running(c, "repairing_uncached")
    /\ a \in Answers(c)
    /\ Received(c, a)
    /\ IF a.form \in {"strict", "relaxed"}
       THEN Accept(c, a, pc[c] = "repairing")
       ELSE /\ Return(c, RepairFailure(c, IF a.form \in RequestFailures THEN a.form
                                          ELSE "schema_invalid"))
            /\ UNCHANGED loop
    /\ UNCHANGED <<identity, files, clear, settings, faults>>

Saving(c, label) == alive /\ loop = c /\ pc[c] = label

\* What the call returns when save does, written or not.
\* Seeded bug: a save that failed fails the call.
Outcome_OfSave(c, written) ==
    IF written THEN Accepted(c, last[c].out) ELSE Failure("transient_failure", FALSE)
Outcome(c, written) == Accepted(c, last[c].out)

SaveReturns(c, written) == Return(c, Outcome(c, written)) /\ loop' = "free"
SaveFails(c) == SaveReturns(c, FALSE)

\* _prepare_directories.
Prepare(c) ==
    /\ Saving(c, "prepare")
    /\ \/ /\ dirs' = {"root", "entries"}
          /\ Goto(c, "open")
          /\ UNCHANGED <<result, loop>>
       \/ SaveFails(c) /\ dirs' \in {dirs, dirs \cup {"root"}}
    /\ UNCHANGED <<identity, requests, last, entries, temps, clear, settings, faults>>

\* mkstemp in entries/, which a clear may have removed.
OpenTemp(c) ==
    /\ Saving(c, "open")
    /\ \/ /\ "entries" \in dirs
          /\ temps' = temps \cup {c}
          /\ Goto(c, "replace")
          /\ UNCHANGED <<result, loop>>
       \/ SaveFails(c) /\ UNCHANGED temps
    /\ UNCHANGED <<identity, requests, last, entries, dirs, clear, settings, faults>>

\* The write, the fsync and os.replace; finally unlinks a temporary file that
\* was not renamed.
Replace(c) ==
    /\ Saving(c, "replace")
    /\ temps' = temps \ {c}
    /\ \/ /\ c \in temps
          /\ entries' = [entries EXCEPT ![identity[c]] = [out |-> last[c].out, sound |-> TRUE]]
          /\ SaveReturns(c, TRUE)
       \/ SaveFails(c) /\ UNCHANGED entries
    /\ UNCHANGED <<identity, requests, last, dirs, clear, settings, faults>>

Present == {id \in Identities : entries[id] # NoEntry}
ClearRests == clear' = NotClearing

\* safe_remove_tree lists the root, then entries/.
ClearBegins ==
    /\ alive
    /\ clear.at = "idle"
    /\ "root" \in dirs
    /\ clear' = IF "entries" \in dirs
                THEN [at |-> "unlink", files |-> Present, temps |-> temps]
                ELSE [NotClearing EXCEPT !.at = "rmdir_root"]
    /\ UNCHANGED <<call, loop, files, settings, faults>>

\* One listed name: the unlink of a file that is gone raises.
Unlink ==
    /\ alive
    /\ clear.at = "unlink"
    /\ \/ \E id \in clear.files :
            /\ entries' = [entries EXCEPT ![id] = NoEntry]
            /\ clear' = [clear EXCEPT !.files = @ \ {id}]
            /\ UNCHANGED temps
       \/ \E c \in clear.temps :
            /\ temps' = temps \ {c}
            /\ IF c \in temps THEN clear' = [clear EXCEPT !.temps = @ \ {c}]
               ELSE ClearRests
            /\ UNCHANGED entries
    /\ UNCHANGED <<call, loop, dirs, settings, faults>>

\* os.rmdir refuses a directory that is not empty.
RemoveEntries ==
    /\ alive
    /\ clear.at = "unlink" /\ clear.files = {} /\ clear.temps = {}
    /\ IF Present = {} /\ temps = {}
       THEN dirs' = dirs \ {"entries"} /\ clear' = [clear EXCEPT !.at = "rmdir_root"]
       ELSE UNCHANGED dirs /\ ClearRests
    /\ UNCHANGED <<call, loop, entries, temps, settings, faults>>

RemoveRoot ==
    /\ alive
    /\ clear.at = "rmdir_root"
    /\ IF "entries" \notin dirs
       THEN dirs' = {} /\ clear' = [clear EXCEPT !.at = "mkdir_root"]
       ELSE UNCHANGED dirs /\ ClearRests
    /\ UNCHANGED <<call, loop, entries, temps, settings, faults>>

\* The root is made again; mkdir raises when a save made it first.
MakeRoot ==
    /\ alive
    /\ clear.at = "mkdir_root"
    /\ dirs' = dirs \cup {"root"}
    /\ ClearRests
    /\ UNCHANGED <<call, loop, entries, temps, settings, faults>>

Kill ==
    /\ alive /\ kills < MaxKills
    /\ alive' = FALSE
    /\ kills' = kills + 1
    /\ pc' = [c \in Calls |-> IF pc[c] \in {"start", "done"} THEN pc[c] ELSE "killed"]
    /\ loop' = "free"
    /\ ClearRests
    /\ UNCHANGED <<identity, requests, last, result, files, settings, corruptions>>

\* RunStorage.__init__ makes the root again.
Restart ==
    /\ ~alive
    /\ alive' = TRUE
    /\ dirs' = dirs \cup {"root"}
    /\ UNCHANGED <<call, loop, entries, temps, clear, settings, kills, corruptions>>

\* An entry comes to hold something else than was written: its digest is wrong.
Corrupt(id) ==
    /\ corruptions < MaxCorruptions
    /\ entries[id] # NoEntry
    /\ entries' = [entries EXCEPT ![id] =
                    [out |-> [complete |-> TRUE, good |-> TRUE, of |-> Nobody], sound |-> FALSE]]
    /\ corruptions' = corruptions + 1
    /\ UNCHANGED <<call, loop, temps, dirs, clear, settings, alive, kills>>

CallStep(c) ==
    \/ EndEarly(c)
    \/ LookUp(c)
    \/ \E a \in Answers(c) : FirstAnswer(c, a) \/ RepairAnswer(c, a)
    \/ RepairNotSent(c)
    \/ Prepare(c)
    \/ OpenTemp(c)
    \/ Replace(c)

ClearStep == ClearBegins \/ Unlink \/ RemoveEntries \/ RemoveRoot \/ MakeRoot

Next ==
    \/ \E c \in Calls : CallStep(c)
    \/ ClearStep
    \/ Kill
    \/ Restart
    \/ \E id \in Identities : Corrupt(id)

Spec == Init /\ [][Next]_vars

-----------------------------------------------------------------------------
Labels == {"start", "sending", "sending_uncached", "repairing", "repairing_uncached",
           "prepare", "open", "replace", "done", "killed"}
Texts == Outputs \cup {NoOutput, [complete |-> TRUE, good |-> TRUE, of |-> Nobody]}
Classes == {"none", "schema_invalid", "response_invalid", "prompt_registry_invalid",
            "input_too_large", "output_budget_starved"} \cup RequestFailures
Results == [status : {"none", "skipped", "completed", "failed"}, classification : Classes,
            circuit_breaking : BOOLEAN, out : Texts]
LastAnswers == [form : {"none", "strict", "relaxed"} \cup RequestFailures \cup Unfit, out : Texts]

TypeOK ==
    /\ pc \in [Calls -> Labels]
    /\ identity \in [Calls -> Identities]
    /\ requests \in [Calls -> 0..2]
    /\ last \in [Calls -> LastAnswers]
    /\ result \in [Calls -> Results]
    /\ loop \in Calls \cup {"free"}
    /\ entries \in [Identities -> [out : Texts, sound : BOOLEAN]]
    /\ temps \subseteq Calls
    /\ dirs \subseteq {"root", "entries"}
    /\ clear \in [at : {"idle", "unlink", "rmdir_root", "mkdir_root"},
                 files : SUBSET Identities, temps : SUBSET Calls]
    /\ cache_on \in BOOLEAN /\ strict_preflight \in BOOLEAN /\ alive \in BOOLEAN
    /\ kills \in 0..MaxKills /\ corruptions \in 0..MaxCorruptions

Returned(c) == pc[c] = "done" /\ result[c].status \in {"completed", "failed"}

\* A call that completes without a request returns an output the model gave to
\* the same question, complete and with its evidence checked, whatever other
\* scans, a clear, a kill or a damaged file did to the cache meanwhile.
HitIsAccepted ==
    \A c \in Calls :
        Returned(c) /\ result[c].status = "completed" /\ requests[c] = 0
            => result[c].out.of = identity[c] /\ Cacheable(result[c].out)

\* What becomes of the cache never changes what a call that was answered
\* returns: it is the output of its last answer, if that one fits the schema,
\* and no more than one repair was asked for.
OutcomeIsTheAnswer ==
    \A c \in Calls : Returned(c) /\ requests[c] > 0 =>
        /\ requests[c] <= 2
        /\ result[c].status = "completed" => result[c].out = last[c].out
        /\ last[c].form = "strict" /\ (identity[c].track = "preflight" => Cacheable(last[c].out))
                => result[c].status = "completed"

\* A call breaks its scan's circuit when, in either request, the service refused
\* the credentials or the model; otherwise only a preflight does, or a broken
\* prompt registry, which is no answer of the service.
BreaksOnFatal ==
    \A c \in Calls : Returned(c) =>
        /\ requests[c] > 0 /\ last[c].form \in Fatal => result[c].circuit_breaking
        /\ result[c].circuit_breaking =>
              \/ last[c].form \in Fatal
              \/ identity[c].track = "preflight"
              \/ requests[c] = 0 /\ result[c].classification = "prompt_registry_invalid"

=============================================================================
