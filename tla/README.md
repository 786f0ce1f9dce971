# Formal models of AI-APK-Tracer's backend

AI-APK-Tracer takes an APK, decompiles it, matches rules, asks a language model
about the candidates and publishes findings. This directory holds TLA+ models of
the parts of its backend (`src/backend/app`) and of its rules (`src/rules/shared`) where
the order of events matters or many conditions meet,
the TLC configurations that check them on small instances, and TLAPS proofs of
the results that should hold for any instance. `PROJECT.json` maps every
definition to the lines it models and lists components, runs, seeded bugs,
hazards and theorems.

## 1. Inventory

| Component | State it keeps | Operations | Hard behaviour |
|---|---|---|---|
| Job scheduler (`analysis/ai_scheduler.py`) | queue, workers, task circuit, counters | `run`, `consume`, `TaskCircuit.open` | interleaving at `await worker(job)`, early stop, hand-kept counters |
| AI transport (`ai_transport.py`, `ProviderController`, `AIRuntime`) | two semaphores, cooldown, latched fatal failure, closed flag | `post_chat_completions`, `lease`, `note_rate_limit`, `aclose` | nested permits with six exits, state tested before an await and used after it, retries |
| AI protocol (`ai.py`, `ai_cache.py`) | cache entries and their temporary files | `_invoke_prompt`, `_repair_output`, `load`, `save`, `clear_shared_ai_cache` | a cache shared by calls, threads and process lives; an answer that does not parse |
| Run life cycle (`orchestrator.py`, `runs/storage.py`, `runs/cleanup.py`, `shared/repository.py`) | row in SQLite, directory, `manifest.json`, `manifest.json.tmp` | `scan`/`_run`, `_stage`, `_record_stage`, `cleanup` in three modes | two records written one after the other, an event loop and server threads on the same files, partial failure, kill |
| Batches (`assets/batch.py`) | rows `batches`, `assets`, `runs`; `_ai_used`; a semaphore per call | `create_batch`, `run_batch`, `_process_asset`, `_finalize_batch` | double trigger, check-then-act budget, partial failure of one asset |
| Candidate analysis (`orchestrator.py`: `_run_ai_stage` and below, `verify_agent.py`) | request budget of the run, per-candidate rounds, statuses, checkpoint | `analyze_job`, `_analyze_with_expansion`, `_budgeted_ai_call`, `_verify_candidate` | a budget shared by concurrent candidates, fallbacks, circuit |
| Explorer track (`explorer.py`, `orchestrator.py`: `_run_explorer_stage`) | shared count of candidates, ledgers of calls, three files | `explore_all`, `_explore_entry`, `deep_dive_partials` | a soft cap tested by concurrent workers, crash between files, ledgers kept in two places |
| Manifest parsing and authorization (`analysis/manifest.py`, `rules/shared/authorization.py`, `receiver_registration.py`) | none | `_components`, `parse_protection_level`, `build_authorization_matrix`, `evaluate_authorization` | attributes of application, component, alias, path and grant that override each other |
| Rule detectors (`rules/shared/detector.py`, `index_reader.py`) | none | `execute` and one function per family of rules | facts of an index that resolves only part of the code: what is not resolved must leave a gap |
| Data flow (`rules/shared/dataflow.py`) | facts of locals and object slots, gaps, step and chain budgets | the interpreter of the flow IR | aliasing, weak updates, stale validators, control scopes, budgets |
| Rule runner (`analysis/rule_runner.py`) | a process per rule, result files | `run_all`, `_run_one`, `_normalize_component_diagnostics` | limits and deadlines that race, processes that hang or die, partial results |
| Funnel (`candidate_funnel.py`), decision and aggregation (`findings/*`) | what is written on candidates | `process`, `propagate`, `finalize_run_coverage`, `verify_candidate`, `decide`, `aggregate_candidates` | who is asked, that nobody gets another's answer, which of several verdicts wins |
| Context builder and budget (`context_builder.py`, `context_budget.py`, `index_store.py`) | the slice of a candidate; call relations loaded once for all | `build`, `extend`, `trim` | five limits that meet, a cache filled in any order, answers given to the model |
| Finding storage and review (`shared/repository.py`, `api/routes.py`) | rows, review history, finding, evidence and report files | `replace_findings`, `review_finding`, `finding_report`, `clear_findings` | reviewers at once and retried, rows in batches, files after transactions |
| Asset registry, progress, indexing, decompiling, reporting, evaluation, front end | files, rows | sequential | section 6 |

How they interact: an HTTP route ingests the APK, makes the row and queues
`ScanOrchestrator.scan` in the event loop (`RunLifecycle`); a batch does the same
for each asset (`Batch`). The stages of a scan follow each other: the rules
(`RuleRun`, with `RuleDetectors`, `Authorization` and `DataFlow` inside a rule's
process), the explorer (`Explorer`), the funnel (`FindingPipeline`), the AI stage
(`CandidateAnalysis`, each candidate with its slice from `ContextSlice`), and the
decision and aggregation (`FindingPipeline` again), whose rows and files `FindingStore`
keeps. Explorer and AI stage run their work through the scheduler (`AIScheduler`),
pay from one budget of the run, and ask through the protocol (`AIProtocol`) and the
one transport of the process (`AITransport`). Review, report and cleanup requests run
in server threads against the rows and files of the run (`FindingStore`,
`RunLifecycle`).

What makes each correct is what its run checks (section 3). The hazards this code is
exposed to are listed at their lines in `PROJECT.json` ("hazards"), each with the
properties that would catch it or the reason none does.

## 2. Modules

| Module | Models | Notes |
|---|---|---|
| `JobPool` | what a caller of `run_indexed_jobs` is promised | abstract specification |
| `AIScheduler` | `BoundedJobScheduler.run`, `TaskCircuit` | implements `JobPool` under a refinement mapping |
| `AITransport` | `post_chat_completions` over `ProviderController` and the process semaphore | one process, several scans |
| `AIProtocol` | `_invoke_prompt`, the cache, its clearing | calls of several scans, threads, kills |
| `RunLifecycle` | the scan's stage machine, its writes, cleanups, kill | one run |
| `Batch` | `BatchOrchestrator` | several batches; a scan is abstracted to its outcome |
| `CandidateAnalysis` | the AI stage: `analyze_job`, `_verify_candidate`, `_analyze_with_expansion` | composes `JobPool` |
| `Explorer` | the explorer stage, its files, the deep dives | composes `JobPool` |
| `ContextSlice` | `ContextBuilder`, `ContextBudgeter`, call relations | slices of several candidates over one builder |
| `FindingPipeline` | funnel, sharing of results, coverage, decision, aggregation | the AI is the environment |
| `FindingStore` | rows, history and files of the findings | reviewers, reporters, scans, a cleanup, kill |
| `DataFlow` | `DataFlowAnalyzer` | beside a real execution of the same program |
| `Authorization` | what the manifest says and what the program makes of it, and Android | operators |
| `RuleDetectors` | the families of rules over the facts of the index | operators, EXTENDS `Authorization` |
| `RuleRun` | `RuleRunner`, the rules' processes | EXTENDS `RuleDetectors` |
| `Lists` | list comprehensions, a set in an order | the library's `SelectSeq` and sorting are recursive and opaque to the provers |
| `*Proofs` | theorems: `PoolProofs` (`AIScheduler`, `RuleRun` and `DataFlow`), `AITransportProofs`, `AIProtocolProofs`, `AnalysisProofs` (`CandidateAnalysis` and `ContextSlice`), `ExplorerProofs`, `RunProofs` (`RunLifecycle` and `Batch`), `FindingProofs` (`FindingPipeline` and `FindingStore`) | TLAPS |
| `DataTheorems` | lemmas about sums over finite sets and about filtered, sorted and extended lists | TLAPS |
| `MC_*` | constants for TLC | |

Operators with a name of the form `X_Something`, preceded by the comment "Seeded
bug", are wrong versions of the definition `X` after them. Nothing uses them;
`PROJECT.json` ("mutants") says which property fails when `X` is replaced by one.

Two modules that one proof module extends share no name; `RunLifecycle`,
`FindingPipeline`, `RuleRun` and `ContextSlice` therefore begin the usual ones with `Run`,
`Pipeline`, `Rules` and `Slice` (`RunSpec`, `PipelineNext`).

### AIScheduler
State: `queue`, `pc`/`job` per worker, `results`, `circuit`, the five counters of
`run` and whether it returned. Everything between two awaits is one action:
`Consume` (loop head, `get_nowait`, counters), `WorkerReturns`/`WorkerRaises` (the
two ways out of `await worker(job)`, with the `finally`), `Leave`, `Collect`. The
callback may open the circuit at any time (`WorkerOpensCircuit`), as
`analyze_job` does. Fairness: weak, per worker and for `Collect`; the event loop
runs every ready coroutine, and a callback ends because each request has a
wall-clock limit and a bounded number of attempts.

### AITransport
A call moves through `attempt`, `cooling`, `provider`, `global`, `sending`,
`backoff`, `done`. `asyncio.Semaphore.acquire` does not suspend when a permit is
free, so from the provider's permit to the sending is one action (`LeaseAndSend`)
unless the process has none left (`LeaseAndWait`, `GlobalGranted`). Time is what
remains of the cooldown, and `Tick`. The environment opens circuits, closes the
transport and chooses answers. Fairness: weak for each call and for time; a
waiter gets the permit because those who hold one always give it back.

### RunLifecycle
A scan is (`no`, `phase`, `io`): the stage of `Pipeline`, what it does there, and where it is in
a read-modify-write of the manifest, which takes three steps (read, write
`manifest.json.tmp`, replace). A cleanup is a process per request with its own
copy of the manifest; it removes a set of directories (`todo`) in the order of the
code's list. Both write through the same temporary file and nothing
excludes them. The work of a stage makes and needs directories and may fail.
`Kill` ends everything at any step; the code resumes nothing. Fairness: weak, for
the scan and for a cleanup once begun; none for the request itself nor for faults.
`overlapped` is a history variable: promises are stated for an actor that ran
alone, since the code makes none for the others.

### Batch
One object serves all calls of `run_batch`, with one semaphore per call and one
counter for all. An asset's coroutine is `waiting`, `ingesting`, `scanning`,
`ended`. The outcome of a scan, the requests it sent and whether its manifest
still tells them are chosen by the environment; a user may delete runs.
Fairness: weak for the progress of the process as a whole.

### CandidateAnalysis
The candidates are the jobs of `JobPool`, instantiated: `Begin` is the pool's
`Begin` with the head of `analyze_job`, `End` and `Raise` its `Finish`, `Collect`
its `Close` with the counting in `_run_ai_stage`. A coroutine suspends only while the
model is called, so each call is two steps, the sending (`VerifyCall`, `Analyse`,
`Finalize`) and the answer with all that is done about it (`VerifyAnswer`,
`AnalysisAnswer`, `FinalAnswer`). The environment chooses the answers, what an
expansion finds, the size of the slice, the clock and which exceptions are raised;
the settings are chosen at the start. A verification that has used up its rounds or reads
with claims undecided ends its candidate as completed, without an analysis and with the
fallback on as well as off; one that found nothing to verify or failed falls back.
Fairness: weak, for the preflight, for candidates as a whole, for `Collect`; `CallsReturn`
and `ImplementsPool` are what it rests on.

### Explorer
The entries with a method are the jobs of `JobPool`. `Begin`/`SkipCapped` are the
head of the worker, with the test of the cap; `Ask`, `AskAgain` and `Answer` the
round loop of `_explore_entry`; `Terminate` the worker's end with the append to
`observations-partial.jsonl`. A call is charged to the run when it is sent and to
the explorer when it has returned. `Aggregate`, `WriteObservations`,
`WriteCandidates`, `Unlink`, `Validate`, `Record` are the steps of the stage between
which it can fail or be killed; a file being written may be found torn. `DiveNext`
and `DiveAnswer` are the loop of the deep dives. Reasons to end an entry that make
no difference to the stage are one.
Fairness: weak, for the stage as a whole.

### AIProtocol
A call goes from `start` through the look-up, at most one request and one repair, and,
when its answer may be kept, the three steps of a save (`prepare`, `open`, `replace`) to
`done`. The look-up and the save do not suspend, so no other coroutine moves while a call
is in a save (`loop`); the clearing of the cache is another thread and does. An answer is
its form and, when it fits the schema, an output: whether it is complete, whether its
evidence holds, and whose it is. The transport's own failures are answers here; what
brings them about is `AITransport`.

### ContextSlice
`Build` makes a slice around the anchors of a candidate, `Send` trims and sends it,
`Extend` answers the requests of the model one by one, `Conclude` ends. The index is a
constant (methods with lines, classes, calls, guards); text is line numbers, and bytes and
tokens count lines. The call relations (`graph`) are loaded on demand and shared by all
slices.

### FindingPipeline
One action per stage (`Funnel`, the AI's answers, `Propagate`, `Decide`,
`Aggregate`). A candidate is the record of the facts that the stages tell apart; the MC
module starts from candidates that depart from usual ones in up to two facts, alone and in
pairs, and answers in the ways an analysis ends. Which candidates form a group follows
`build_candidate_identity`: the keys of the chain (`KeysOf`) with what its surface counts
(`Hashed`), which for a Binder leaves out the flow, the sinks and what was proved, and for
a receiver the chain's scope, so candidates that differ form a group as they do in the
code. Before a result is shared the identity is computed again over the fields added since
(`AddedFields`): with a code index (`sourced`) building a slice and applying an answer both
add such fields, so no two candidates are compatible any more, and without one only a skip
can be shared. `AskedNotLent` says what follows. The receivers of the model are a little
more general than those the rules make, which put the path of the registration into the
component's name and into the sources both.

### FindingStore
A step is one transaction or one operation on a file. A review is its transaction
(`Review`) and then three files, each a step; a report is read, written, unmarked; a scan
writes files, then rows in batches, then removes what it did not find; a clear removes two
directories and then the rows. `Kill` ends all of them. `crossed` is a history variable:
the files promise to follow the rows only for requests that came one by one.

### DataFlow
The program is chosen as it is interpreted: each action is one instruction, which the
analyzer interprets and a real run executes (`run`). The run decides at a branch; the
analyzer goes into it. `blurred` names the known differences between linear IR and run
(section 5): a conditional block (`branch`), a write into an object of the attacker's
(`open_write`), a copy the analyzer takes for the same object or does not follow (`copy`),
a check used after its variable was defined again (`stale_check`), a second write under an
unknown key (`wildcard`) and `replaceExtras` of an object with itself (`emptied`). Two more
only widen (`Widening`): the run destroys a value the analyzer still remembers (`lost`), or
reads a key the analyzer answers from what was written under an unknown one (`other_key`).
`NothingMissed` holds in spite of these two, `NothingInvented` of runs without any. The
configuration does not explore behind a blur other than those, since a blur lasts.

### Authorization, RuleDetectors, RuleRun
`Parsed` is what the program makes of a component's attributes; `Evaluate` is its
verdict, and `Admits`, `OpenAt` and their kin are what Android's own check would say, so
that a verdict can be held against it. `CandidatesOf` is what a rule makes of a subject
given the facts of the index. `RuleRun` runs the rules of an application in processes that
may hang, die, fail or run into a limit, and collects. Android and the index are external.
Fairness: weak, for the parent process only; a rule's process promises nothing.

## 3. Runs

| Run | Instance | Shows |
|---|---|---|
| `scheduler` | 4 jobs, 3 workers | an open circuit starts nothing and disturbs nothing; `run` implements `JobPool`, its return included |
| `transport` | 3 calls of 2 scans, 2 attempts, provider limit 2, process limit 1 or 2, cooldown up to 1, Retry-After up to 2 | results are true, nothing is sent after a fatal failure or during a cooldown, every call returns |
| `protocol` | 2 calls of 3 tracks, a clear, 1 damaged entry, 1 kill | a hit is an accepted answer to the same question, the cache changes no outcome, the circuit breaks for the right failures |
| `lifecycle` | 3 stages, 3 directories, 1 cleanup of any mode, 1 fault or kill | the end of a scan is recorded, the manifest is never ahead of the row, a cleanup keeps its word, both end |
| `batch` | 2 batches sharing an asset, 3 calls, budget 1, width 1 or 2, 1 deletion | claim, dangling state, soft cap, termination |
| `analysis` | 3 candidates (1 of level L2), 2 at a time, run budget 3, 2 or 4 requests per candidate, 2 expansions, 2 verify rounds, both values of both settings | budget and accounts, statuses true (a verification that runs out included), the stage ends |
| `explorer` | 3 entries, 2 at a time, 2 rounds, 1 proposal per round, cap 1, run budget 5, 2 dives of 2 rounds | soft cap, crash safety of the files, ledgers, the stage ends |
| `context` | an index of 2 files, 6 methods, 4 classes; 2 slices of 4 kinds of candidates, 12 requests, 2 extensions | what proves a candidate is sent or listed, answers are true, edges are the calls |
| `findings` | 2 candidates (plain, of a Binder, of a receiver) in all departures from usual ones, with a code index and without, every kind of answer | nothing is dismissed or graded without proof, nobody is forgotten, nobody gets another's result |
| `store` | 2 findings, 2 reviewers with 6 requests, 1 report, 2 scans in batches of 1, a clear, 1 kill | history, rows and files agree |
| `dataflow` | 3 locals, 1 key besides the unknown one, 4 instructions, call depth 1, 2 chains | no missed sink, no invented chain |
| `rules` | 5255 applications of one subject, and one of 4 subjects and 3 rules; 2 workers | what is exposed leaves a trace, what is reported is reachable, the answer is whole, the stage ends |

Why the bounds are enough. Scheduler: with three workers one can break the circuit
while another is in flight and a third between jobs; with four jobs a worker takes
a second one and something is left to skip. Transport: two calls of one scan and one of
another fill the provider's limit and leave one waiting; two attempts give a first, a last
and a retry; a Retry-After above the cap meets the cap. Protocol: two calls are the same
question or two; a third adds no new pair. For these three and for life cycle, batch,
analysis, explorer, context, findings, store, data flow and rules the theorems cover every
size. Life cycle: the stages
are one that may be skipped and makes a directory late (`decompiling`), one that
tolerates a lost manifest (`ai_analysis`) and one that publishes findings
(`aggregation`); further stages repeat the same code. One fault reaches each
failing path once; two faults of a scan end it no differently, since the second
can only hit the record of the failure, which the run reaches when the cleanup
removes the directory. Batch: two assets exceed a width of one, and a shared asset
meets itself in the other batch. Candidate analysis: two candidates in flight and one that
waits, a budget they cannot all afford and, with 4 requests and 2 expansions (the
defaults), the case in which a finalization could be refused. Explorer: two entries in
flight exceed the cap by all they find while a third is left out by it; five requests run
out before the first round ends, in the repeated call, in a dive, or not at all. Context:
each of the five limits is reached by some slice, and two slices are enough for one to
find relations that the other has loaded. Findings: every rule that weighs two candidates
weighs a pair; two departures meet every pair of conditions on one candidate. Store: two
reviews race or retry, two batches leave a scan half done, and a second scan finds less
than the first. Data flow: four instructions are enough to alias, write, check and
redefine before a sink, and to run out of each budget; objects are made freely, an object
is not put into another and conditional blocks are not nested. Rules: each family's attributes are
combined exhaustively, families separately, since a rule looks at one subject at a time.

`CHECK_DEADLOCK FALSE` is set where the system really stops: when `run` returned,
all calls returned, the run and its cleanups ended, the batches are finalized, the
stage is recorded or the process gone, requests are answered, the slices are concluded,
the findings are made, the method is at its end. `RuleRun` stutters at its end instead.

Named bounds: `MaxFaults` (what goes wrong of itself in a run's life),
`MaxDeletions` (runs a user deletes), `MaxRetryAfter` (what a provider asks for),
`MaxPartials` (candidates dived into), `MaxKills` and `MaxCorruptions` (deaths of the
process, damaged entries), `MaxRequests` (requests in one answer of the model);
`MaxRequestsPerRun`, `MaxSteps`, `MaxCallDepth`, `MaxChains` and the limits of
`ContextSlice` are settings of the program, small. No counter of the code is capped.

## 4. Proofs

`PoolProofs` about `AIScheduler`, for any number of jobs and any concurrency, from
`AISchedulerAssumption` only. The invariants are not inductive alone: that a
skipped job is skipped because of the circuit needs to know why workers left
(`LeftOnlyWhenDone`), that nothing overtakes needs the queue to be a tail of the
submission order (`QueueIsTail`), that the reason's job has a result at the end
needs it to be in hand before (`ReasonHasBegun`), and that `active` stays a
natural number needs it to be the number of working workers (`StatsAddUp`).
`IInv` is their conjunction. Each action preserves it in a lemma of its own;
counting uses the library's theorems on finite sets. From `IInv`:
`TypeCorrect`, `OnePlace`, `StatsCorrect`, `SkippedCorrect`, the action property
`OpenCircuit`, and `RefinesPool`: every step is a step of `JobPool` or a stutter.

`PoolProofs` about `RuleRun`, for any scenarios, rules and number of workers, from
`RuleRunAssumption`; for these three what a rule makes of a subject (`CandidatesOf`) may be
anything.
That the answer is whole needs to know of every process how far it is: `SubjectsCovered`
says that the subjects a process has behind it are found or noted, that those before it are
the rest of its list, and what its result says once it has ended. That the answer is in the
rules' order is a fact about filtered lists (`PickedInOrder`), and that the pool is bounded
is one about the set of occupied workers. `RulesInv` is the conjunction. Theorems:
`RulesInvariance`, `AnswersAreWhole`, `ProcessesBounded`.

What the rules' verdicts are worth is proved for any manifest, catalogue and index, from
`ParsedAssumption`: a component has the attributes `parse_manifest` gives it
(`EffectiveExported`, `ParsedPermission`), an alias is an activity without a class of its
name, what Android reads of a `<provider>` alone stands on providers alone, the entries
the reader finds have known names and places, and a registration names an action. Apart
from the first, these exclude values that the parser and the reader never produce.
The argument has three layers. First the verdict of the matrix and the check Android would
make are compared permission by permission (`VerdictOfRows`), then for components
(`VerdictOfExported`), the entry points of a provider (`EntryVerdict`,
`OpenProviderIsReachable`, `ReachableProviderIsOpen`) and registrations
(`VerdictOnRegistration`). Then for each family of rules: a candidate's subject is within
reach (`ReportedWithin`), and what is exposed and no `BlindSpot` leaves a candidate, a gap
or a note (`ExposedLeavesTrace`). Last, a step invariant carries both to the answer:
`GroundInv` says that all a process, its result and the answer hold was made by
`CandidatesOf` of a subject of the rule's own; together with `RulesInv`, that no subject is
forgotten, it gives both properties. TLC checked `GroundInv` on the run's instance first.
Theorems: `RulesAreGrounded`, `ExposureIsReported`, `ReportsAreReachable`.

Two attempts failed for a reason. A registration through a call the parser does not know,
or with flags that differ on paths, is reported although it may not be exported; that is
intended and the candidate says so, so `ReportedIsReachable` now asks for the gap
`RECEIVER_FLAG_UNKNOWN` there (the model's name for this code, `RECEIVER_FLAG_CONFLICT` and
`RECEIVER_FLAG_EXPORT_STATE_UNKNOWN`), and the run's instance has such calls. And two guards of
`FlagStatus` overlapped, so that its value was not determined; they now exclude each other
in the order of the code.

`PoolProofs` about `DataFlow`, for any locals and keys, any number of steps and chains and
any depth of calls, from `DataFlowAssumption` only. Neither property is inductive: a sink
looks only at the facts of its argument, so these must be known to be right of the value the
run has. `SoundFlow` says so of every local of every frame and of every slot of every object:
a fact that does not warn (`Warns`: a tainted state and a tainted lineage) has a checked
value (`Sound`), a fact and its value are of the same object, a check that still counts is
one of the value the name has (`ChecksCount`), and a key without a slot is answered by the
unknown slot, which is there exactly when the object's keys are unknown (`ObjectSound`).
`ExactFlow` is the other half: a fact that is sure of the attacker (an untrusted lineage)
has a value of his (`Exact`, `ObjectExact`), and a control fact outlives its block only on a
path with a gap. `FlowInv` asks for the first while nothing but `Widening` has blurred the
run and for the second while nothing has. Merging keeps both (`MergedFacts`), so do the
state of an object from its slots (`AggregateIsRight`), the result of a call
(`ResultIsRight`), a read (`ReadIsRight`) and a write under an unknown key (`WildRowIs`);
then one lemma for each instruction. TLC checked `FlowInv` on the run's instance first.
Theorems: `FlowInvariance`, `NothingIsMissed`, `NothingIsInvented`.

`AITransportProofs`, for any number of calls, scans, permits and attempts. The
lemma `Moved` says how one call's move changes the number of calls at some labels;
`PermitsPreserved` balances each action against it. `IInv` adds that a call that
may send has an attempt left (`AttemptsBounded`) and that nobody waits for the
process with a lease when the process is as wide as the provider
(`NobodyWaitsForProcess`); the latter is what makes `SentOnlyWhenCool` hold.
Theorems: `TypeCorrect`, `PermitsCorrect`, `HonestCorrect`, `FatalStops`,
`CooldownRespected`.

`AIProtocolProofs`, for any number of calls, identities, kills and damaged entries. What
a call returns depends on its own answers and on the entry it finds; the invariant says
of each call what it knows at each place before it returns (`Underway`) and that what it
has returned follows from that (`Honest`). Entries need no invariant: the digests a hit is
checked against make a damaged or foreign entry a miss. Theorems: `TypeCorrect`,
`HitsAreAccepted`, `OutcomesAreAnswers`, `FatalBreaks`.

`RunProofs` about `RunLifecycle`, for any part of the pipeline in its order, any modelled
directories, any number of cleanups and faults, from `RunLifecycleAssumption` only. What
is in a file may come from another actor's memory, so a property of the manifest is
inductive only as a property of the manifest, the temporary file, the scan's copy and
every cleanup's copy at once: `AheadInv` says of each of them that it is behind the row
(`Behind`), and what the row has been told by the phase of the scan (`Told`).
`EndInv` adds the story of a scan that nobody disturbed: at every phase and every step of
a write, what is in the row and in the files (`Story`). `SoloInv` says of a cleanup that
ran alone what it has removed and noted so far, in every file and copy (`SoFarCleaned`),
and that whoever comes later cannot bring it back, because nothing is written where the
directory of the run is gone (`NothingWithoutRoot`) and no scan is under way. TLC checked
the three on the run's instance before they were proved. Theorems: `RunTypeCorrect`,
`ManifestFollows`, `EndsAreRecorded`, `CleanupsHold`.

`RunProofs` about `Batch`, for any batches, assets, callers and limits, from
`BatchAssumption` only. Everything hangs on the claim: `OneWorker` (one caller works on a
batch) is inductive only with the row that the claim is taken from (`RowOfWorker`); then a
caller that does not work has started nothing and one that returned has left nothing on
its way (`Coroutines`), a run is over when its coroutine is (`RunFollows`), and every
permit missing from a semaphore is held (`Permits`). Each action of an asset is one of
three kinds of step (`AssetStepMoves`), and the conjuncts are shown for the kinds. The
soft cap is about what a batch records, which is a sum over its runs: what is recorded has
been counted into `_ai_used` (`RecordedIsCounted`), and every scan in flight was admitted
with room for what all of them can send (`RoomInFlight`). Theorems: `TypeCorrect`,
`OneClaim`, `NothingLeft`, `ConcurrencyBounded`, `CapIsSoft`.

`AnalysisProofs` about `CandidateAnalysis`, for any candidates and limits. Candidates share
budget and pool, but what is written into one depends on its own way, so `IInv` says of a candidate
that waits, is on its way or has ended what has been written so far (`Waiting`,
`OnItsWay`, `Settled`). The budget is a sum over the candidates: `Ledgers` says that what
the run has used is what the candidates' own accounts add up to, and a step changes
one term of the sum (`SumChanges`). What a status says of the requests made needs a second
invariant on top of that one: `Accounted` relates, for each state of a candidate, the requests,
the rounds and the outcome of its verification, and the way it ended (`EndAsked`).
Theorems: `TypeCorrect`, `AskedInvariance`, `StatusCorrect`, `BudgetNeverExceeded`,
`AccountsBalance`.

`AnalysisProofs` about `ContextSlice`, for any index, candidates, limits and requests, from
`ContextSliceAssumption` only. The slices share the loaded relations, so `GraphRight` says
of these that they are right whatever loaded them, and complete for the methods marked as
loaded; that every edge a slice shows is a call of the index follows. What an answer said
stays true because a slice only grows: what is in it or listed as omitted stays so
(`Grows`), and `AnsweredTruly` is shown for the one answer a step adds. What proves a
candidate is placed by `Build` (`BuiltOnAnchors`) and survives extension; that it is also
sent is a matter of what trimming takes away and may not (`KeptShows`). The loops of the
code, which admit entries, answer requests and fill a context one by one, are recursive
functions; an invariant of a loop holds at all its steps by a smallest counterexample
(`Admissions`, `AnswersGiven`, `Fillings`), and the order a sort makes is a ranking
(`RankedList`). `SliceInv` is the conjunction. An anchor whose line is not one of its
file's names the file only, and `ProofIsSent` promises its line nothing. Theorems:
`SliceInvariance`, `EdgesFollow`, `AnswersAreTrue`, `ProofReachesTheModel`.

`DataTheorems`: a sum is a fold over a finite set in the order of a CHOOSE. Since no lemma
with an operator as parameter can be used, its recursion is a value (`Totals`), and that it
exists, is unique, and lets any term be taken out first follows from a smallest
counterexample. A filtered list keeps the order and the members that pass; a finite set
with an order has a list in that order (`Ranking`); concatenations and extensions of lists
are lists of the union.

`ExplorerProofs`, for any entries, concurrency, rounds, proposals, caps and request
budgets, from `ExplorerAssumption` only. The soft cap is not inductive: that an entry
begins below the cap says nothing of those in flight, so `RoomForPeaks` reserves room
for all that each of them can find, which in turn needs a worker to have found no more
than its rounds so far allow (`WorkersInStep`). That nothing is lost needs the lines to
be there until the observations are whole, and these to be whole in every later stage
(`LinesAreThere`). The ledgers differ by refused calls; a refusal opens the circuit and
ends its entry, so refusals and entries in flight together never exceed the concurrency
(`RefusalsAreFew`), and the dives, which begin when nothing is in flight any more
(`StageInOrder`), add one. Each conjunct has a lemma for the steps of an entry and one for
the rest. Theorems: `TypeCorrect`, `SoftCapHolds`, `NothingIsLost`, `LedgersCorrect`.

`FindingProofs` about `FindingPipeline`, for any candidates with any facts in `Facts` and any
answers. A finding's status depends on what every stage before wrote, so `PipelineInv`
says stage by stage what may have been written: what the funnel decided stays
(`Funnelled`), an answer comes from the candidate's own request or is, in a run without
code, the skip of an equal candidate (`Answered`), and the decision is that of the facts
and the answer (`JudgedRight`). `WhoNeedsIsAsked` states `AskedNotLent`: it rests on the
identity as the code recomputes it, not on groups being of equal facts. That
every group has a representative is shown for any set of candidates, from the bounds of
the score. Theorems: `PipelineTypeCorrect`, `FindingsAreEarned`,
`GradesAreProven`, `PartialRunsDismissNothing`, `WhoNeedsIsAsked`.

`FindingProofs` about `FindingStore`, for any findings, reviewers, reporters, scans of any
length, batch size and kills. `HistoryIsAChain` is inductive with the types. For the rows,
`ScanInv` follows a scan through its batches: what it has written is visible
(`Slice(1, at - 1)`), and what both scans found never was not. For the files, the requests that
came one by one are followed through their three files each (`Following`), and what a clear
has removed stays away (`Cleared`). Theorems: `TypeCorrect`, `ReviewsAreAChain`,
`ScansReplaceWhole`, `FilesAreInStep`.

Some theorems state more than the runs check: the type invariants, `EachJobInOnePlace`,
`StatsAddUp`, `SkippedOnlyByCircuit` and `PermitsConserved` hold for every size and
need no small instance any more.

Only model-checked: liveness (`ImplementsPool`'s promise to return, `CallsReturn`,
`Terminates`, `BatchesFinish`, `StageEnds`, `RulesFinish`), since ENABLED and fairness
are out of the prover's reach. Every safety invariant and action property that a run checks
is stated by a theorem.

## 5. What the models showed about the code

Where the documentation and the code disagree. These were met while modelling and are not
runs of their own; the modules have the behaviour that refutes each sentence. Paths are
under `src/backend/app` unless they begin with `rules` or `docs`.

- `runs/cleanup.py:19`: clearing sensitive content leaves `explorer/`, `verify/`,
  `api-surface/` and `attack_surface/` in place (docs/AI漏洞精准挖掘产品规格文档.md:831
  says only the manifest's summary and the history remain).
- `runs/cleanup.py:64`: a `delete_run` that fails after it removed `manifest.json` leaves
  the row, and no later cleanup can reach it (docstring, lines 3 to 7; the same document,
  line 834).
- `analysis/orchestrator.py:94`: a failed scan leaves the manifest's status at `running`
  (docstring, line 55).
- `assets/batch.py:284`: `_ai_used` is never reset and is shared by all batches (comment,
  line 69).
- `analysis/verify_agent.py:353`: a verification that has used up its rounds or reads with
  claims undecided counts as completed and does not fall back
  (docs/02-架构设计.md:100, `config.py:240`). `StatusIsTruthful` states what the code does:
  a candidate that succeeded without a request of its own was verified, decided or not.
- `runs/progress.py:140`: while the deep dives run, the number of explored entries shown
  counts the short-circuited ones and is above the final value (line 111).
- `analysis/candidate_funnel.py:1220`: the identity checked before a result is shared
  covers fields that were written since the groups were made (`deterministic_facts` by
  `context_builder.py:132` to 140, and those of the AI stage). With a code index no member
  of a group ever gets its representative's result, not even a failure
  (`candidate_funnel.py` lines 377, 417 and 1098, `orchestrator.py:414`,
  docs/02-架构设计.md:68, `test_pipeline_v2_funnel.py:138`). `AskedNotLent` states what the
  code does.
- `rules/shared/index_reader.py:747`: the downgrade of dispatch gaps works on a copy; a
  transaction's own gaps stay critical (comment, lines 757 to 759).
- `analysis/manifest.py:252`: an export that is unknown or conditional is compressed to
  "not true" (docs/AI漏洞精准挖掘产品规格文档.md:379).
- `rules/shared/authorization.py:411`: a URI grant turns an unprotected row into a
  conditional one, though the weakest area is meant to win.

Limits of precision that the properties except by name or that no document denies:

- Data flow (`blurred`): a value overwritten, checked or returned inside a conditional
  block; extras written into an object whose contents are the attacker's; a stale pending
  validator; a copy of an object; a second write under an unknown key, which replaces what
  the first one left (`rules/shared/dataflow.py:991`), and a wildcard that passes over a
  slot whose state is tainted while its lineages are validated (line 1023);
  `replaceExtras` of an object with itself, which is emptied before it is read (line 1000).
  In each a sink may be reached with nothing reported. In the other direction, a key that
  is read after a write under an unknown key, or a value that such a write has destroyed,
  may be reported though the run has lost it.
- Rules (`BlindSpot`): conditional exports; receivers of protected actions that explicit
  intents reach; a path permission that is not declared; `call` graded by the write
  permission; entries inherited from beyond the index; a Binder service whose `onBind` is
  inherited or whose type is unknown, or with a caller check named in an unsure case;
  actions that other code adds to a filter. Not in the model: `_path_matches` is never
  reached, without a target SDK no cleartext or backup candidate is made, a nested class is
  looked up by the manifest's name (it leaves a trace only because it is also said to be
  missing), and gaps of the hierarchy are dropped when a component has no file.
- Findings: a candidate whose sink is not found again is refuted deterministically; members
  that were dismissed for different reasons make a "mixed" finding; a run-level gap lets a
  candidate pass when its own gaps are only of evidence; L1 candidates that skip the AI stay
  `pending_ai`; a mismatch of slice and sink is noted after the severity is given.
- Storage: a review during a report request leaves a report with the old status unmarked
  (`api/routes.py:305`); a report asked for during or after a clear makes the directory
  again; the files of two reviews may be written in the other order than their
  transactions. `FilesFollow` is about requests one by one for this reason.
- Context: a context that was trimmed is answered "already present"; a request the budget
  refused is a duplicate when it is repeated; an anchor without a path is dropped; a long
  entry point without anchors cannot be trimmed and is not sent.

## 6. Not modelled, and why

Decompiling, indexing, the call tree and the surfaces, report text, evaluation metrics:
sequential transformations of one input, taken by the models as facts. `AssetRegistry`:
its `delete` has no caller, and its row and directory are written by one request; the
updates that matter are in `Batch`. Progress is a read-only view that its docstring calls
an approximation. The front end is a client; prompts, configuration and logging are data.

Inside the modelled components: wall-clock durations are abstracted, except the two
moments of a rule's process. Cancellation of coroutines at shutdown is left out. In
`RunLifecycle` SQLite does not fail, a file is written by one write, and a directory is
there with everything in it or not at all; one cleanup runs beside a scan, not two. In
`CandidateAnalysis` the sharing of results is left to `FindingPipeline`, and no checkpoint
is restored. In `Explorer` the code read between rounds, the three grades of validation
and the normalisation of candidates are left out. In `AIProtocol` the schemas of the tasks
and the recovery of partial outputs (`ai_recovery.py`) are one class of answer each. In
`FindingPipeline` confidence is not a number. In `DataFlow` constants, receiver bindings
and the recognition of sources and sinks are given. In `RuleDetectors` the texts, the
ranking and the patterns of lines are left out, and the path without an index, which
production does not take; the gap `LOCAL_BROADCAST_ISOLATED` (`detector.py:939`) too, and
codes of the receivers' gaps that are judged alike are one. Whether guard verification
blocks a candidate (`guard_verifier.py`) is a free fact of `FindingPipeline`; its severity
levels are one, and no status set by hand enters a decision. `candidate_funnel.py` 150 to
322 and `decide_candidate` in `findings/decision.py` have no caller.

## 7. Plan

1. Done: scheduler, transport, protocol, batches, run life cycle, candidate analysis,
   explorer, findings, storage, context, data flow, the rules' runner and their judgements,
   all with proofs.
2. `AIProtocol`: the recovery of partial outputs; `CandidateAnalysis`: the checkpoint and
   the sharing of results, composed with `FindingPipeline`'s identity; the verification of
   guards.
3. `Explorer`: the validation and normalisation of candidates as operators.
