----------------------------- MODULE RunLifecycle -----------------------------
(***************************************************************************)
(* The life of one run: the scan that ScanOrchestrator drives through its   *)
(* stages, and the cleanups a user asks for, at any time, over HTTP.        *)
(*                                                                          *)
(* The scan runs in the event loop, a cleanup in a thread of the server's   *)
(* pool, and nothing excludes one from the other.  They share the run's row *)
(* in SQLite, its directory, its manifest.json and the one temporary file   *)
(* that every write of the manifest goes through.  A step is one statement  *)
(* of the database or one operation on a file.                              *)
(*                                                                          *)
(* Abstractions: SQLite does not fail; a directory is there or not, with    *)
(* all that is in it; a manifest is written by one write; the work of a     *)
(* stage makes its directories and fails, or not, in one step.              *)
(***************************************************************************)
EXTENDS Naturals, Sequences, SequencesExt, FiniteSets, FiniteSetsExt

CONSTANTS
    Pipeline,       \* the stages that the run goes through: PIPELINE or part of it
    Dirs,           \* the directories of the run that are modelled
    SourceChoices,  \* values source_analysis.enabled may have
    Cleaners,       \* cleanup requests
    MaxFaults       \* bound on what goes wrong of itself: a failed work, write
                    \* or removal, or the death of the server

\* ScanOrchestrator._run, in order.
PIPELINE == <<"basic_check", "decompiling", "rule_prescan", "api_surface",
              "attack_surface", "explorer", "candidate_funnel", "code_slicing",
              "ai_analysis", "evidence_integrity_validation", "aggregation">>

PRUNE_DIRS == <<"input", "decompile", "index", "rule-work", "rule-results",
                "slices", "ai-cache", "ai-trace", "logs", "tmp">>
SENSITIVE_DIRS == PRUNE_DIRS \o <<"findings", "reports">>
RUN_DIRS == ToSet(SENSITIVE_DIRS)

Place(e, s) == CHOOSE i \in DOMAIN s : s[i] = e

\* Directories a stage makes, parents included, and those it expects.
Makes(stage) == Dirs \cap
    CASE stage = "decompiling" -> {"decompile"}
      [] stage = "rule_prescan" -> {"rule-work", "rule-results"}
      [] stage = "api_surface" -> {"api-surface"}
      [] stage = "attack_surface" -> {"attack_surface"}
      [] stage = "explorer" -> {"explorer"}
      [] stage = "code_slicing" -> {"slices"}
      [] stage = "ai_analysis" -> {"ai-cache", "ai-trace", "verify"}
      [] OTHER -> {}
Expects(stage) == Dirs \cap
    CASE stage = "decompiling" -> {"input"}
      [] stage = "aggregation" -> {"findings", "reports"}
      [] OTHER -> {}

\* Stages that register artifacts in the manifest; the optional ones may have
\* nothing to register.
Registers == {"decompiling", "api_surface", "attack_surface", "explorer"}
MayRegister == {"rule_prescan", "ai_analysis"}

Stages == ToSet(Pipeline)
LastStage == Len(Pipeline)

ASSUME RunLifecycleAssumption ==
    /\ Pipeline \in Seq(ToSet(PIPELINE)) \ {<< >>}
    /\ \A m, n \in DOMAIN Pipeline :
          m < n => Place(Pipeline[m], PIPELINE) < Place(Pipeline[n], PIPELINE)
    /\ SourceChoices \subseteq BOOLEAN
    /\ MaxFaults \in Nat

VARIABLES
    db,         \* the row of the run, or NoRow
    root,       \* the directory of the run exists
    dirs,       \* the directories in it
    manifest,   \* manifest.json, or NoFile
    tmp,        \* manifest.json.tmp, or NoFile
    source_enabled,
    no,         \* the stage the scan is in
    phase,      \* what it does there
    io,         \* where it is in a read-modify-write of the manifest
    copy,       \* its copy of the manifest
    cpc, mode, ccopy, todo, errors,     \* the cleanups
    overlapped, \* history: the actors that ran while another one did
    faults      \* how much went wrong of itself

files == <<root, dirs, manifest, tmp>>
scan == <<source_enabled, no, phase, io, copy>>
cleanups == <<cpc, mode, ccopy, todo, errors>>
history == <<overlapped, faults>>
run_vars == <<db, files, scan, cleanups, history>>

NoRow == [status |-> "absent", stage |-> "absent", findings |-> FALSE]
NoFile == [status |-> "absent", stage |-> "absent", stages |-> << >>,
           artifacts |-> {}, history |-> [k \in Cleaners |-> "none"],
           cleared |-> FALSE]

Modes == {"prune_intermediates", "clear_sensitive_content", "delete_run"}

StageName == Pipeline[no]
Ended == phase \in {"ended", "killed"}

\* source_analysis.enabled = false: decompiling is only recorded, as skipped.
Announces(stage) == stage # "decompiling" \/ source_enabled

\* Seeded bug: the database is not told.
FirstPhase_ManifestOnly(stage) == IF Announces(stage) THEN "announce" ELSE "record"

FirstPhase(stage) == IF Announces(stage) THEN "mark" ELSE "record"

\* RunStorage.ingest and the route create_run are done; the scan is queued.
RunInit ==
    /\ db = [status |-> "queued", stage |-> "queued", findings |-> FALSE]
    /\ root = TRUE
    /\ dirs = RUN_DIRS \cap Dirs
    /\ manifest = [NoFile EXCEPT !.status = "queued", !.stage = "queued"]
    /\ tmp = NoFile
    /\ source_enabled \in SourceChoices
    /\ no = 1
    /\ phase = FirstPhase(StageName)
    /\ io = "read"
    /\ copy = NoFile
    /\ cpc = [k \in Cleaners |-> "idle"]
    /\ mode = [k \in Cleaners |-> "none"]
    /\ ccopy = [k \in Cleaners |-> NoFile]
    /\ todo = [k \in Cleaners |-> {}]
    /\ errors = [k \in Cleaners |-> FALSE]
    /\ overlapped = {}
    /\ faults = 0
-----------------------------------------------------------------------------
\* The scan.

GotoPhase(label) == phase' = label /\ io' = "read" /\ copy' = NoFile
Fault == faults < MaxFaults /\ faults' = faults + 1
SamePlace == UNCHANGED <<source_enabled, no>>

\* Seeded bug: a failure to record the failure is handled like any other.
Raise_Retries == GotoPhase("mark_failed")

\* An exception: scan() catches what _run raises; what the record of the
\* failure raises is only logged.
Raise == GotoPhase(IF phase = "record_failed" THEN "ended" ELSE "mark_failed")

\* After the last statement of a stage.
NextStage ==
    IF no = LastStage
      THEN GotoPhase("finish") /\ SamePlace
      ELSE GotoPhase(FirstPhase(Pipeline[no + 1])) /\ no' = no + 1 /\ UNCHANGED source_enabled

\* SQLiteRepository.update_run: no row, no update.
UpdateRun(status, stage) ==
    db' = IF db = NoRow THEN NoRow
          ELSE [db EXCEPT !.status = status, !.stage = stage]

\* _stage: the database first.
MarkStage ==
    /\ phase = "mark"
    /\ UpdateRun("running", StageName)
    /\ IF db = NoRow THEN Raise ELSE GotoPhase("announce")
    /\ SamePlace
    /\ UNCHANGED <<files, cleanups, history>>

\* The read-modify-writes of the manifest.
EditPhases == {"announce", "prepare", "register", "record", "announce_finish",
               "record_failed"}

Edited(m) ==
    CASE phase = "announce" -> [m EXCEPT !.status = "running", !.stage = StageName]
      [] phase = "prepare" -> [m EXCEPT !.artifacts = @ \cup {"rule_total_count"}]
      [] phase = "register" -> [m EXCEPT !.artifacts = @ \cup {StageName}]
      [] phase = "record" -> [m EXCEPT !.stages = Append(@, StageName)]
      [] phase = "announce_finish" ->
           [m EXCEPT !.status = "completed", !.stage = "completed"]
      [] phase = "record_failed" -> [m EXCEPT !.stages = Append(@, "failed")]

\* read_manifest; the artifacts of the AI stage are given up when it raises.
ReadManifest ==
    /\ phase \in EditPhases
    /\ io = "read"
    /\ \/ /\ manifest # NoFile
          /\ copy' = Edited(manifest)
          /\ io' = "write"
          /\ UNCHANGED phase
       \/ /\ manifest = NoFile
          /\ IF phase = "register" /\ StageName = "ai_analysis"
               THEN GotoPhase("record") ELSE Raise
    /\ SamePlace
    /\ UNCHANGED <<db, files, cleanups, history>>

\* write_manifest: the temporary file, which needs the directory and may fail.
WriteManifest ==
    /\ phase \in EditPhases
    /\ io = "write"
    /\ \/ /\ root
          /\ tmp' = copy
          /\ io' = "replace"
          /\ UNCHANGED <<phase, copy, faults>>
       \/ /\ IF root THEN Fault ELSE UNCHANGED faults
          /\ Raise
          /\ UNCHANGED tmp
    /\ SamePlace
    /\ UNCHANGED <<db, root, dirs, manifest, cleanups, overlapped>>

\* Seeded bug: a stage that registers artifacts is not recorded.
AfterEdit_NoRecord ==
    CASE phase \in {"announce", "prepare"} -> "work"
      [] phase \in {"register", "record"} -> "after"
      [] OTHER -> "ended"

AfterEdit ==
    CASE phase = "announce" -> IF StageName = "rule_prescan" THEN "prepare" ELSE "work"
      [] phase = "prepare" -> "work"
      [] phase = "register" -> "record"
      [] phase = "record" -> "after"
      [] OTHER -> "ended"

\* os.replace: whatever is in the temporary file now becomes the manifest.
ReplaceManifest ==
    /\ phase \in EditPhases
    /\ io = "replace"
    /\ IF tmp # NoFile
         THEN /\ manifest' = tmp
              /\ tmp' = NoFile
              /\ GotoPhase(AfterEdit)
         ELSE Raise /\ UNCHANGED <<manifest, tmp>>
    /\ SamePlace
    /\ UNCHANGED <<db, root, dirs, cleanups, history>>

\* mkdir(parents=True): the directory of the run comes back, too.
MakeDirs(made) ==
    /\ dirs' = dirs \cup made
    /\ root' = (root \/ made # {})

\* What the work needs is gone.  The findings need the row of the run.
Hindered ==
    \/ ~(Expects(StageName) \subseteq dirs)
    \/ StageName = "aggregation" /\ db = NoRow

Work ==
    /\ phase = "work"
    /\ MakeDirs(Makes(StageName))
    /\ \/ /\ ~Hindered
          /\ db' = IF StageName = "aggregation" THEN [db EXCEPT !.findings = TRUE] ELSE db
          /\ \/ StageName \in Registers \cup MayRegister /\ GotoPhase("register")
             \/ StageName \notin Registers /\ GotoPhase("record")
          /\ UNCHANGED faults
       \/ /\ IF Hindered THEN UNCHANGED faults ELSE Fault
          /\ Raise
          /\ UNCHANGED db
    /\ SamePlace
    /\ UNCHANGED <<manifest, tmp, cleanups, overlapped>>

\* The code after the record of a stage.  The manifest decompiled with the
\* sources is read where it is, and "index" only written into; one decoded
\* without them makes it.
MakesAfter(stage) ==
    Dirs \cap IF stage = "decompiling" /\ ~source_enabled THEN {"index"} ELSE {}
ExpectsAfter(stage) ==
    Dirs \cap IF stage = "decompiling" /\ source_enabled THEN {"decompile", "index"} ELSE {}

After ==
    /\ phase = "after"
    /\ MakeDirs(MakesAfter(StageName))
    /\ LET there == ExpectsAfter(StageName) \subseteq dirs
       IN  \/ there /\ NextStage /\ UNCHANGED faults
           \/ /\ IF there THEN Fault ELSE UNCHANGED faults
              /\ Raise /\ SamePlace
    /\ UNCHANGED <<db, manifest, tmp, cleanups, overlapped>>

\* The end of _run.
Finish ==
    /\ phase = "finish"
    /\ UpdateRun("completed", "completed")
    /\ IF db = NoRow THEN Raise ELSE GotoPhase("announce_finish")
    /\ SamePlace
    /\ UNCHANGED <<files, cleanups, history>>

\* The handler of scan(): an update of a missing row raises out of it.
MarkFailed ==
    /\ phase = "mark_failed"
    /\ UpdateRun("failed", "failed")
    /\ GotoPhase(IF db = NoRow THEN "ended" ELSE "record_failed")
    /\ SamePlace
    /\ UNCHANGED <<files, cleanups, history>>

ScanStep ==
    \/ MarkStage \/ ReadManifest \/ WriteManifest \/ ReplaceManifest
    \/ Work \/ After \/ Finish \/ MarkFailed
-----------------------------------------------------------------------------
\* CleanupService.cleanup and the route cleanup_run.

CleanupDone == {"idle", "done", "failed", "killed"}
Active == {k \in Cleaners : cpc[k] \notin CleanupDone}

CGoto(k, label) == cpc' = [cpc EXCEPT ![k] = label]

\* What the request had in memory is not used any more.
CStop(k, label) ==
    /\ CGoto(k, label)
    /\ ccopy' = [ccopy EXCEPT ![k] = NoFile]
    /\ todo' = [todo EXCEPT ![k] = {}]

\* The row, the directory and the manifest must be there.
BeginCleanup(k) ==
    /\ cpc[k] = "idle"
    /\ \E m \in Modes : mode' = [mode EXCEPT ![k] = m]
    /\ IF db = NoRow \/ ~root \/ manifest = NoFile
         THEN CGoto(k, "failed") /\ UNCHANGED <<ccopy, overlapped>>
         ELSE /\ CGoto(k, "note")
              /\ ccopy' = [ccopy EXCEPT ![k] =
                             [manifest EXCEPT !.history[k] = "cleanup_in_progress"]]
              /\ LET others == Active \cup (IF Ended THEN {} ELSE {"scan"})
                 IN overlapped' = IF others = {} THEN overlapped
                                  ELSE overlapped \cup others \cup {k}
    /\ UNCHANGED <<db, files, scan, todo, errors, faults>>

\* write_manifest, to announce the cleanup.
WriteNote(k) ==
    /\ cpc[k] = "note"
    /\ \/ /\ root
          /\ tmp' = ccopy[k]
          /\ CGoto(k, "note_replace")
          /\ UNCHANGED <<ccopy, todo, faults>>
       \/ /\ IF root THEN Fault ELSE UNCHANGED faults
          /\ CStop(k, "failed")
          /\ UNCHANGED tmp
    /\ UNCHANGED <<db, root, dirs, manifest, scan, mode, errors, overlapped>>

Entries == dirs \cup (IF manifest # NoFile THEN {"manifest.json"} ELSE {})
                \cup (IF tmp # NoFile THEN {"manifest.json.tmp"} ELSE {})

Targets(k) ==
    Dirs \cap ToSet(IF mode[k] = "prune_intermediates" THEN PRUNE_DIRS ELSE SENSITIVE_DIRS)

ReplaceNote(k) ==
    /\ cpc[k] = "note_replace"
    /\ IF tmp = NoFile
         THEN CStop(k, "failed") /\ UNCHANGED <<manifest, tmp>>
         ELSE /\ manifest' = tmp
              /\ tmp' = NoFile
              /\ IF mode[k] = "delete_run"
                   THEN CStop(k, "list")
                   ELSE /\ CGoto(k, "targets")
                        /\ todo' = [todo EXCEPT ![k] = Targets(k)]
                        /\ UNCHANGED ccopy
    /\ UNCHANGED <<db, root, dirs, scan, mode, errors, history>>

\* The directories are removed in the order of the list.
Comes(k, d) ==
    \A e \in todo[k] : Place(d, SENSITIVE_DIRS) <= Place(e, SENSITIVE_DIRS)

\* Seeded bug: the failure is not noted.
RemoveTarget_SwallowsError(k) ==
    /\ cpc[k] = "targets"
    /\ \E d \in todo[k] :
          /\ Comes(k, d)
          /\ todo' = [todo EXCEPT ![k] = @ \ {d}]
          /\ \/ dirs' = dirs \ {d} /\ UNCHANGED faults
             \/ d \in dirs /\ Fault /\ UNCHANGED dirs
    /\ UNCHANGED <<db, root, manifest, tmp, scan, cpc, mode, ccopy, errors, overlapped>>

\* One directory of the list; a failure is noted and the loop goes on.
RemoveTarget(k) ==
    /\ cpc[k] = "targets"
    /\ \E d \in todo[k] :
          /\ Comes(k, d)
          /\ todo' = [todo EXCEPT ![k] = @ \ {d}]
          /\ \/ dirs' = dirs \ {d} /\ UNCHANGED <<errors, faults>>
             \/ /\ d \in dirs
                /\ Fault
                /\ errors' = [errors EXCEPT ![k] = TRUE]
                /\ UNCHANGED dirs
    /\ UNCHANGED <<db, root, manifest, tmp, scan, cpc, mode, ccopy, overlapped>>

Outcome(k) == IF errors[k] THEN "partial" ELSE "completed"

\* The manifest to write back is the one read at the start, sanitised when the
\* content is cleared.
Result(k) ==
    IF mode[k] = "clear_sensitive_content"
      THEN [ccopy[k] EXCEPT !.history[k] = Outcome(k), !.stages = << >>,
                            !.artifacts = {}, !.cleared = TRUE]
      ELSE [ccopy[k] EXCEPT !.history[k] = Outcome(k)]

WriteResult(k) ==
    /\ cpc[k] = "targets"
    /\ todo[k] = {}
    /\ \/ /\ root
          /\ tmp' = Result(k)
          /\ CGoto(k, "result_replace")
          /\ UNCHANGED <<ccopy, todo, faults>>
       \/ /\ IF root THEN Fault ELSE UNCHANGED faults
          /\ CStop(k, "failed")
          /\ UNCHANGED tmp
    /\ UNCHANGED <<db, root, dirs, manifest, scan, mode, errors, overlapped>>

ReplaceResult(k) ==
    /\ cpc[k] = "result_replace"
    /\ IF tmp = NoFile
         THEN CStop(k, "failed") /\ UNCHANGED <<manifest, tmp>>
         ELSE /\ manifest' = tmp
              /\ tmp' = NoFile
              /\ CStop(k, IF mode[k] = "clear_sensitive_content" THEN "findings" ELSE "done")
    /\ UNCHANGED <<db, root, dirs, scan, mode, errors, history>>

\* repository.clear_findings, by the route.
ClearFindings(k) ==
    /\ cpc[k] = "findings"
    /\ db' = [db EXCEPT !.findings = FALSE]
    /\ CGoto(k, "done")
    /\ UNCHANGED <<files, scan, mode, ccopy, todo, errors, history>>

\* safe_remove_tree of the whole run: list the entries once, ...
ListTree(k) ==
    /\ cpc[k] = "list"
    /\ CGoto(k, IF root THEN "tree" ELSE "row")
    /\ todo' = [todo EXCEPT ![k] = Entries]
    /\ UNCHANGED <<db, files, scan, mode, ccopy, errors, history>>

\* ... remove them, in the order the file system gave, unless one is gone or
\* cannot be removed, ...
RemoveEntry(k) ==
    /\ cpc[k] = "tree"
    /\ \E e \in todo[k] :
         \/ /\ e \in Entries
            /\ todo' = [todo EXCEPT ![k] = @ \ {e}]
            /\ dirs' = dirs \ {e}
            /\ manifest' = IF e = "manifest.json" THEN NoFile ELSE manifest
            /\ tmp' = IF e = "manifest.json.tmp" THEN NoFile ELSE tmp
            /\ UNCHANGED <<cpc, ccopy, faults>>
         \/ /\ IF e \in Entries THEN Fault ELSE UNCHANGED faults
            /\ CStop(k, "failed")
            /\ UNCHANGED <<dirs, manifest, tmp>>
    /\ UNCHANGED <<db, root, scan, mode, errors, overlapped>>

\* ... then the directory itself, which fails when something was added.
RemoveRoot(k) ==
    /\ cpc[k] = "tree"
    /\ todo[k] = {}
    /\ IF Entries = {} /\ root
         THEN root' = FALSE /\ CStop(k, "row")
         ELSE CStop(k, "failed") /\ UNCHANGED root
    /\ UNCHANGED <<db, dirs, manifest, tmp, scan, mode, errors, history>>

DeleteRow(k) ==
    /\ cpc[k] = "row"
    /\ db' = NoRow
    /\ CGoto(k, "done")
    /\ UNCHANGED <<files, scan, mode, ccopy, todo, errors, history>>

CleanupStep(k) ==
    \/ WriteNote(k) \/ ReplaceNote(k) \/ RemoveTarget(k) \/ WriteResult(k)
    \/ ReplaceResult(k) \/ ClearFindings(k) \/ ListTree(k) \/ RemoveEntry(k)
    \/ RemoveRoot(k) \/ DeleteRow(k)
-----------------------------------------------------------------------------
\* The server dies with everything that was running; nothing resumes it.
Kill ==
    /\ ~Ended \/ Active # {}
    /\ Fault
    /\ GotoPhase(IF Ended THEN phase ELSE "killed")
    /\ cpc' = [k \in Cleaners |-> IF k \in Active THEN "killed" ELSE cpc[k]]
    /\ ccopy' = [k \in Cleaners |-> NoFile]
    /\ todo' = [k \in Cleaners |-> {}]
    /\ SamePlace
    /\ UNCHANGED <<db, files, mode, errors, overlapped>>

RunNext ==
    \/ ScanStep
    \/ \E k \in Cleaners : BeginCleanup(k) \/ CleanupStep(k)
    \/ Kill

\* The event loop runs the background task of the scan, and a cleanup its
\* thread; a user need not ask for one.
RunFairness ==
    /\ WF_run_vars(ScanStep)
    /\ \A k \in Cleaners : WF_run_vars(CleanupStep(k))

RunSpec == RunInit /\ [][RunNext]_run_vars /\ RunFairness
-----------------------------------------------------------------------------
Alone(actor) == actor \notin overlapped

RecordedUpTo(n) == SubSeq(Pipeline, 1, n)
AnnouncedUpTo(n) ==
    LET announced == {i \in 1..n : Announces(Pipeline[i])}
    IN IF announced = {} THEN "queued" ELSE Pipeline[Max(announced)]

\* The rank of a stage in the life of a run.
Rank(stage) ==
    CASE stage \in Stages -> Place(stage, Pipeline)
      [] stage \in {"completed", "failed"} -> LastStage + 1
      [] OTHER -> 0

\* The database is told of a stage before the manifest is, so the manifest is
\* never ahead of it (comment in _run), whatever cleanups write back over it.
ManifestNeverAhead ==
    db # NoRow =>
      /\ Rank(manifest.stage) <= Rank(db.stage)
      /\ \A i \in DOMAIN manifest.stages :
            \/ Rank(manifest.stages[i]) <= Rank(db.stage)
            \/ manifest.stages[i] = "decompiling" /\ ~source_enabled

\* The two records of a scan, written one after the other, end up telling one
\* story: a scan the database calls completed left a manifest that says the same,
\* with every stage in order and all artifacts, and its findings in the database.
CompletedIsWhole ==
    db.status = "completed"
    => /\ manifest.status = "completed" /\ manifest.stage = "completed"
       /\ manifest.stages = Pipeline
       /\ Stages \cap Registers \subseteq
            manifest.artifacts \cup (IF source_enabled THEN {} ELSE {"decompiling"})
       /\ db.findings = ("aggregation" \in Stages)

\* A failed scan can be located in its manifest: the stages recorded are those
\* before the failed one, with it or without it, and the stage announced last is
\* the failed one or the one before.
FailureIsLocatable ==
    db.status = "failed"
    => /\ \E n \in {no - 1, no} :
            manifest.stages \in {RecordedUpTo(n), Append(RecordedUpTo(n), "failed")}
       /\ manifest.stage \in {AnnouncedUpTo(no - 1), AnnouncedUpTo(no)}

\* Both hold of a scan that no cleanup ran into.
EndIsRecorded ==
    phase = "ended" /\ Alone("scan") /\ (\A k \in Cleaners : cpc[k] = "idle")
    => CompletedIsWhole /\ FailureIsLocatable

\* A cleanup that nothing else ran into, and that says completed, has done what
\* its mode says, and what it removed stays away.
CleanupHolds ==
    \A k \in Cleaners :
      cpc[k] = "done" /\ Alone(k) /\ ~errors[k] =>
        /\ mode[k] = "delete_run" => db = NoRow /\ ~root
        /\ mode[k] # "delete_run" => dirs \cap Targets(k) = {}
        /\ mode[k] # "delete_run" /\ manifest # NoFile =>
              manifest.history[k] = "completed"
        /\ mode[k] = "clear_sensitive_content" =>
              /\ ~db.findings
              /\ manifest # NoFile => manifest.cleared /\ manifest.stages = << >>

\* A scan ends and a cleanup ends, whatever the other removes under its feet,
\* as long as the server lives.
Terminates ==
    /\ <>Ended
    /\ \A k \in Cleaners : k \in Active ~> cpc[k] \in CleanupDone
=============================================================================
