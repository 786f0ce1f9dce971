------------------------------- MODULE RunProofs -------------------------------
(***************************************************************************)
(* Proofs about runs: RunLifecycle, the life of one run and its cleanups,   *)
(* and Batch, the runs of a batch.  The two modules share no state.         *)
(***************************************************************************)
EXTENDS RunLifecycle, Batch, DataTheorems, SequenceTheorems

-----------------------------------------------------------------------------
(***************************************************************************)
(* RunLifecycle, for any part of the pipeline, any directories and any      *)
(* number of cleanups.  A manifest, the temporary file and every copy in    *)
(* memory may become the manifest one day: what holds of the manifest holds *)
(* of all of them.                                                          *)
(***************************************************************************)

StageNames == {"basic_check", "decompiling", "rule_prescan", "api_surface",
               "attack_surface", "explorer", "candidate_funnel", "code_slicing",
               "ai_analysis", "evidence_integrity_validation", "aggregation"}

LEMMA PipelineStages == ToSet(PIPELINE) = StageNames
BY DEF PIPELINE, ToSet, StageNames

LEMMA StagesAreNames ==
    /\ Pipeline \in Seq(Stages) /\ LastStage \in Nat \ {0}
    /\ DOMAIN Pipeline = 1..LastStage
    /\ Stages \subseteq StageNames
    /\ Stages = {Pipeline[i] : i \in 1..LastStage}
<1>1. Pipeline \in Seq(StageNames) /\ Pipeline # << >>
  BY RunLifecycleAssumption, PipelineStages DEF RunLifecycleAssumption
<1>2. LastStage \in Nat /\ DOMAIN Pipeline = 1..LastStage
  BY <1>1 DEF LastStage
<1>3. Stages = {Pipeline[i] : i \in 1..LastStage}
  BY <1>2 DEF Stages, ToSet
<1>4. Stages \subseteq StageNames
  BY <1>1, <1>2, <1>3
<1>5. LastStage # 0
  BY <1>1 DEF LastStage
<1>6. Pipeline = [i \in 1..LastStage |-> Pipeline[i]]
  BY <1>1, <1>2
<1>7. \A i \in 1..LastStage : Pipeline[i] \in Stages
  BY <1>3
<1>8. Pipeline \in Seq(Stages)
  BY <1>1, <1>2, <1>7, SMT DEF LastStage
<1> QED
  BY <1>2, <1>3, <1>4, <1>5, <1>8

LEMMA PlaceInPIPELINE ==
    ASSUME NEW e \in StageNames
    PROVE  Place(e, PIPELINE) \in Nat
<1>1. PICK i \in DOMAIN PIPELINE : PIPELINE[i] = e
  BY PipelineStages DEF ToSet
<1>2. DOMAIN PIPELINE \subseteq Nat
  BY DEF PIPELINE
<1>3. Place(e, PIPELINE) \in DOMAIN PIPELINE
  BY <1>1 DEF Place
<1> QED
  BY <1>2, <1>3

\* No stage comes twice.
LEMMA PlaceOfStage ==
    ASSUME NEW n \in 1..LastStage
    PROVE  Place(Pipeline[n], Pipeline) = n
<1> DEFINE i == Place(Pipeline[n], Pipeline)
<1>1. i \in 1..LastStage /\ Pipeline[i] = Pipeline[n]
  BY StagesAreNames DEF Place
<1>2. Pipeline[n] \in StageNames
  BY StagesAreNames
<1>3. Place(Pipeline[n], PIPELINE) \in Nat
  BY <1>2, PlaceInPIPELINE
<1>4. \A a, b \in 1..LastStage :
        a < b => Place(Pipeline[a], PIPELINE) < Place(Pipeline[b], PIPELINE)
  BY RunLifecycleAssumption, StagesAreNames DEF RunLifecycleAssumption
<1> HIDE DEF i
<1>5. ~(i < n)
  <2> SUFFICES ASSUME i < n PROVE FALSE
    OBVIOUS
  <2>1. Place(Pipeline[i], PIPELINE) < Place(Pipeline[n], PIPELINE)
    BY <1>1, <1>4
  <2> QED
    BY <2>1, <1>1, <1>3
<1>6. ~(n < i)
  <2> SUFFICES ASSUME n < i PROVE FALSE
    OBVIOUS
  <2>1. Place(Pipeline[n], PIPELINE) < Place(Pipeline[i], PIPELINE)
    BY <1>1, <1>4
  <2> QED
    BY <2>1, <1>1, <1>3
<1>7. i = n
  BY <1>1, <1>5, <1>6, StagesAreNames
<1> QED
  BY <1>7 DEF i

LEMMA Ranks ==
    /\ \A n \in 1..LastStage : Rank(Pipeline[n]) = n
    /\ Rank("completed") = LastStage + 1 /\ Rank("failed") = LastStage + 1
    /\ Rank("queued") = 0 /\ Rank("absent") = 0
<1>1. \A s \in Stages : s # "completed" /\ s # "failed"
  BY StagesAreNames DEF StageNames
<1>2. \A n \in 1..LastStage : Rank(Pipeline[n]) = n
  <2> TAKE n \in 1..LastStage
  <2>1. Pipeline[n] \in Stages
    BY StagesAreNames
  <2>2. Rank(Pipeline[n]) = Place(Pipeline[n], Pipeline)
    BY <2>1, <1>1 DEF Rank
  <2> QED
    BY <2>2, PlaceOfStage
<1>3. "completed" \notin Stages /\ "failed" \notin Stages
  BY <1>1
<1>4. "queued" \notin Stages /\ "absent" \notin Stages
  BY StagesAreNames DEF StageNames
<1>5. Rank("completed") = LastStage + 1 /\ Rank("failed") = LastStage + 1
  BY <1>3 DEF Rank
<1>6. Rank("queued") = 0 /\ Rank("absent") = 0
  BY <1>4 DEF Rank
<1> QED
  BY <1>2, <1>5, <1>6

RankBound(s) == Rank(s) \in 0..LastStage + 1

LEMMA RankBounds ==
    /\ \A s \in Stages : Rank(s) \in 1..LastStage
    /\ \A s \in Stages \cup {"queued", "completed", "failed", "absent"} : RankBound(s)
<1>1. \A s \in Stages : Rank(s) \in 1..LastStage
  <2> TAKE s \in Stages
  <2>1. PICK n \in 1..LastStage : s = Pipeline[n]
    BY StagesAreNames
  <2> QED
    BY <2>1, Ranks
<1> QED
  BY <1>1, Ranks, StagesAreNames DEF RankBound
-----------------------------------------------------------------------------
(***************************************************************************)
(* Types.                                                                  *)
(***************************************************************************)

ManifestStages == Stages \cup {"failed"}
RunRows == [status : {"queued", "running", "completed", "failed"},
            stage : Stages \cup {"queued", "completed", "failed"}, findings : BOOLEAN]
Manifests == [status : {"queued", "running", "completed"},
              stage : Stages \cup {"queued", "completed"}, stages : Seq(ManifestStages),
              artifacts : SUBSET (Stages \cup {"rule_total_count"}),
              history : [Cleaners -> {"none", "cleanup_in_progress", "partial", "completed"}],
              cleared : BOOLEAN]

InStage == {"mark", "announce", "prepare", "work", "register", "record", "after"}
Closing == {"finish", "announce_finish", "mark_failed", "record_failed"}
Holding == {"note", "note_replace", "targets", "result_replace"}
CleanupLabels == CleanupDone \cup Holding \cup {"findings", "list", "tree", "row"}

\* What is in the files, what the scan and a cleanup have in memory.
FileTypes ==
    /\ db \in {NoRow} \cup RunRows
    /\ root \in BOOLEAN
    /\ dirs \in SUBSET Dirs
    /\ manifest \in {NoFile} \cup Manifests
    /\ tmp \in {NoFile} \cup Manifests
ScanTypes ==
    /\ source_enabled \in BOOLEAN
    /\ no \in 1..LastStage
    /\ phase \in InStage \cup Closing \cup {"ended", "killed"}
    /\ io \in {"read", "write", "replace"}
    /\ io # "read" => phase \in EditPhases
    /\ copy = NoFile \/ copy \in Manifests
    /\ copy = NoFile <=> io = "read"
CleanupTypes ==
    /\ cpc \in [Cleaners -> CleanupLabels]
    /\ mode \in [Cleaners -> Modes \cup {"none"}]
    /\ ccopy \in [Cleaners -> {NoFile} \cup Manifests]
    /\ \A k \in Cleaners : ccopy[k] = NoFile <=> cpc[k] \notin Holding
    /\ todo \in [Cleaners -> SUBSET (Dirs \cup {"manifest.json", "manifest.json.tmp"})]
    /\ errors \in [Cleaners -> BOOLEAN]
HistoryTypes == overlapped \in SUBSET (Cleaners \cup {"scan"}) /\ faults \in Nat

RunTypes == FileTypes /\ ScanTypes /\ CleanupTypes /\ HistoryTypes

LEMMA FileOrNot ==
    /\ NoFile \notin Manifests /\ NoRow \notin RunRows
    /\ NoFile.stage = "absent" /\ NoFile.stages = << >> /\ NoRow.findings = FALSE
BY DEF NoFile, Manifests, NoRow, RunRows

LEMMA EditedTypes ==
    ASSUME ScanTypes, phase \in EditPhases, NEW m \in Manifests
    PROVE  Edited(m) \in Manifests
<1>1. StageName \in Stages
  BY StagesAreNames DEF ScanTypes, StageName
<1>2. m = [status |-> m.status, stage |-> m.stage, stages |-> m.stages,
           artifacts |-> m.artifacts, history |-> m.history, cleared |-> m.cleared]
  BY DEF Manifests
<1>3. m.stages \in Seq(ManifestStages)
  BY DEF Manifests
<1>4. Append(m.stages, StageName) \in Seq(ManifestStages)
  BY <1>1, <1>3 DEF ManifestStages
<1>5. Append(m.stages, "failed") \in Seq(ManifestStages)
  BY <1>3 DEF ManifestStages
<1>6. CASE phase = "announce"
  BY <1>1, <1>6 DEF Edited, Manifests
<1>7. CASE phase = "prepare"
  BY <1>1, <1>7 DEF Edited, Manifests
<1>8. CASE phase = "register"
  BY <1>1, <1>8 DEF Edited, Manifests
<1>9. CASE phase = "record"
  BY <1>4, <1>9 DEF Edited, Manifests
<1>10. CASE phase = "announce_finish"
  BY <1>10 DEF Edited, Manifests
<1>11. CASE phase = "record_failed"
  BY <1>5, <1>11 DEF Edited, Manifests
<1> QED
  BY <1>6, <1>7, <1>8, <1>9, <1>10, <1>11 DEF EditPhases

Phases == InStage \cup Closing \cup {"ended", "killed"}

LEMMA GotoTypes ==
    ASSUME ScanTypes, NEW label \in Phases, GotoPhase(label), UNCHANGED source_enabled,
           no' \in 1..LastStage
    PROVE  ScanTypes'
BY DEF ScanTypes, GotoPhase, Phases

LEMMA RaiseTypes ==
    ASSUME ScanTypes, Raise, SamePlace
    PROVE  ScanTypes'
<1>1. PICK label \in {"ended", "mark_failed"} : GotoPhase(label)
  BY DEF Raise
<1>2. label \in Phases /\ UNCHANGED source_enabled /\ no' \in 1..LastStage
  BY DEF Phases, SamePlace, ScanTypes, Closing
<1> QED
  BY <1>1, <1>2, GotoTypes

LEMMA MarkTypes ==
    ASSUME RunTypes, MarkStage \/ Finish \/ MarkFailed
    PROVE  RunTypes'
<1>1. PICK said \in {"running", "completed", "failed"},
           name \in Stages \cup {"completed", "failed"} : UpdateRun(said, name)
  BY StagesAreNames DEF RunTypes, ScanTypes, StageName, MarkStage, Finish, MarkFailed
<1>2. db' \in {NoRow} \cup RunRows
  BY <1>1, StagesAreNames DEF RunTypes, FileTypes, UpdateRun, RunRows
<1>3. UNCHANGED <<files, cleanups, history>> /\ SamePlace
  BY DEF MarkStage, Finish, MarkFailed
<1>4. FileTypes'
  BY <1>2, <1>3 DEF FileTypes, files, RunTypes
<1>5. CleanupTypes' /\ HistoryTypes'
  BY <1>3 DEF CleanupTypes, HistoryTypes, cleanups, history, RunTypes
<1>6. \/ \E label \in {"announce", "announce_finish", "record_failed", "ended"} : GotoPhase(label)
      \/ Raise
  BY DEF MarkStage, Finish, MarkFailed
<1>7. ScanTypes'
  <2>1. ASSUME NEW label \in {"announce", "announce_finish", "record_failed", "ended"},
               GotoPhase(label)
        PROVE  ScanTypes'
    <3>1. label \in Phases /\ UNCHANGED source_enabled /\ no' \in 1..LastStage
      BY <1>3 DEF Phases, SamePlace, RunTypes, ScanTypes, InStage, Closing
    <3> QED
      BY <2>1, <3>1, GotoTypes DEF RunTypes
  <2> QED
    BY <1>3, <1>6, <2>1, RaiseTypes DEF RunTypes
<1> QED
  BY <1>4, <1>5, <1>7 DEF RunTypes

LEMMA ReadTypes ==
    ASSUME RunTypes, ReadManifest
    PROVE  RunTypes'
<1>1. UNCHANGED <<db, files, cleanups, history>> /\ SamePlace
  BY DEF ReadManifest
<1>2. FileTypes' /\ CleanupTypes' /\ HistoryTypes'
  BY <1>1 DEF FileTypes, CleanupTypes, HistoryTypes, files, cleanups, history, RunTypes
<1>3. CASE manifest # NoFile /\ copy' = Edited(manifest) /\ io' = "write" /\ UNCHANGED phase
  <2>1. phase \in EditPhases /\ manifest \in Manifests
    BY <1>3 DEF ReadManifest, RunTypes, FileTypes
  <2>2. Edited(manifest) \in Manifests
    BY <2>1, EditedTypes DEF RunTypes
  <2>3. ScanTypes'
    BY <1>1, <1>3, <2>1, <2>2, FileOrNot DEF ScanTypes, SamePlace, RunTypes
  <2> QED
    BY <1>2, <2>3 DEF RunTypes
<1>4. CASE GotoPhase("record")
  <2>1. "record" \in Phases /\ UNCHANGED source_enabled /\ no' \in 1..LastStage
    BY <1>1 DEF Phases, SamePlace, RunTypes, ScanTypes, InStage
  <2> QED
    BY <1>2, <1>4, <2>1, GotoTypes DEF RunTypes
<1>5. CASE Raise
  BY <1>1, <1>2, <1>5, RaiseTypes DEF RunTypes
<1> QED
  BY <1>3, <1>4, <1>5 DEF ReadManifest

LEMMA WriteTypes ==
    ASSUME RunTypes, WriteManifest
    PROVE  RunTypes'
<1>1. UNCHANGED <<db, root, dirs, manifest, cleanups, overlapped>> /\ SamePlace
  BY DEF WriteManifest
<1>2. tmp' = copy \/ UNCHANGED tmp
  BY DEF WriteManifest
<1>3. FileTypes'
  BY <1>1, <1>2 DEF FileTypes, RunTypes, ScanTypes
<1>4. CleanupTypes' /\ HistoryTypes'
  BY <1>1 DEF CleanupTypes, HistoryTypes, cleanups, RunTypes, WriteManifest, Fault
<1>5. CASE io' = "replace" /\ UNCHANGED <<phase, copy>>
  BY <1>1, <1>3, <1>4, <1>5 DEF ScanTypes, RunTypes, SamePlace, WriteManifest
<1>6. CASE Raise
  BY <1>1, <1>3, <1>4, <1>6, RaiseTypes DEF RunTypes
<1> QED
  BY <1>5, <1>6 DEF WriteManifest

LEMMA ReplaceTypes ==
    ASSUME RunTypes, ReplaceManifest
    PROVE  RunTypes'
<1>1. UNCHANGED <<db, root, dirs, cleanups, history>> /\ SamePlace
  BY DEF ReplaceManifest
<1>2. FileTypes'
  BY <1>1 DEF FileTypes, RunTypes, ReplaceManifest
<1>3. CleanupTypes' /\ HistoryTypes'
  BY <1>1 DEF CleanupTypes, HistoryTypes, cleanups, history, RunTypes
<1>4. CASE GotoPhase(AfterEdit)
  <2>1. AfterEdit \in Phases
    BY DEF AfterEdit, Phases, InStage
  <2>2. UNCHANGED source_enabled /\ no' \in 1..LastStage
    BY <1>1 DEF SamePlace, RunTypes, ScanTypes
  <2> QED
    BY <1>2, <1>3, <1>4, <2>1, <2>2, GotoTypes DEF RunTypes
<1>5. CASE Raise
  BY <1>1, <1>2, <1>3, <1>5, RaiseTypes DEF RunTypes
<1> QED
  BY <1>4, <1>5 DEF ReplaceManifest

LEMMA FirstPhases == \A s : FirstPhase(s) \in {"mark", "record"}
BY DEF FirstPhase

LEMMA WorkTypes ==
    ASSUME RunTypes, Work \/ After
    PROVE  RunTypes'
<1>1. UNCHANGED <<manifest, tmp, cleanups, overlapped>>
  BY DEF Work, After
<1>2. PICK made \in SUBSET Dirs : MakeDirs(made)
  <2>1. Makes(StageName) \in SUBSET Dirs /\ MakesAfter(StageName) \in SUBSET Dirs
    BY DEF Makes, MakesAfter
  <2> QED
    BY <2>1 DEF Work, After
<1>3. db' \in {NoRow} \cup RunRows
  BY DEF Work, After, Hindered, RunTypes, FileTypes, RunRows
<1>4. FileTypes'
  BY <1>1, <1>2, <1>3 DEF FileTypes, MakeDirs, RunTypes
<1>5. CleanupTypes' /\ HistoryTypes'
  BY <1>1 DEF CleanupTypes, HistoryTypes, cleanups, RunTypes, Work, After, Fault
<1>6. CASE SamePlace /\ Raise
  BY <1>4, <1>5, <1>6, RaiseTypes DEF RunTypes
<1>7. CASE SamePlace /\ (GotoPhase("register") \/ GotoPhase("record"))
  <2>1. {"register", "record"} \subseteq Phases /\ UNCHANGED source_enabled /\ no' \in 1..LastStage
    BY <1>7 DEF Phases, SamePlace, RunTypes, ScanTypes, InStage
  <2>2. ScanTypes'
    BY <1>7, <2>1, GotoTypes DEF RunTypes
  <2> QED
    BY <1>4, <1>5, <2>2 DEF RunTypes
<1>8. CASE NextStage
  <2>1. no \in 1..LastStage /\ LastStage \in Nat
    BY StagesAreNames DEF RunTypes, ScanTypes
  <2>2. CASE no = LastStage
    <3>1. "finish" \in Phases /\ UNCHANGED source_enabled /\ no' \in 1..LastStage
      BY <1>8, <2>1, <2>2 DEF NextStage, Phases, SamePlace, Closing
    <3> QED
      BY <1>4, <1>5, <1>8, <2>2, <3>1, GotoTypes DEF NextStage, RunTypes
  <2>3. CASE no # LastStage
    <3>1. FirstPhase(Pipeline[no + 1]) \in Phases
      BY FirstPhases DEF Phases, InStage
    <3>2. UNCHANGED source_enabled /\ no' \in 1..LastStage
      BY <1>8, <2>1, <2>3 DEF NextStage
    <3> QED
      BY <1>4, <1>5, <1>8, <2>3, <3>1, <3>2, GotoTypes DEF NextStage, RunTypes
  <2> QED
    BY <2>2, <2>3
<1> QED
  BY <1>6, <1>7, <1>8 DEF Work, After

LEMMA RunInitTypes == RunInit => RunTypes
<1> SUFFICES ASSUME RunInit PROVE RunTypes
  OBVIOUS
<1>1. FileTypes
  <2>1. manifest = [status |-> "queued", stage |-> "queued", stages |-> << >>,
                    artifacts |-> {}, history |-> [k \in Cleaners |-> "none"],
                    cleared |-> FALSE]
    BY DEF RunInit, NoFile
  <2>2. << >> \in Seq(ManifestStages)
    OBVIOUS
  <2>3. manifest \in Manifests
    BY <2>1, <2>2 DEF Manifests
  <2> QED
    BY <2>3 DEF FileTypes, RunInit, RunRows
<1>2. FirstPhase(StageName) \in Phases
  BY FirstPhases DEF Phases, InStage
<1>3. ScanTypes
  BY <1>2, RunLifecycleAssumption, StagesAreNames
  DEF ScanTypes, RunInit, RunLifecycleAssumption, Phases
<1>4. CleanupTypes /\ HistoryTypes
  BY DEF CleanupTypes, HistoryTypes, RunInit, CleanupLabels, CleanupDone, Holding
<1> QED
  BY <1>1, <1>3, <1>4 DEF RunTypes

LEMMA NoRowStays == [NoRow EXCEPT !.findings = FALSE] = NoRow
<1> DEFINE Empty == [status : {"absent"}, stage : {"absent"}, findings : {FALSE}]
<1>1. NoRow \in Empty
  BY DEF NoRow
<1>2. \A r \in Empty : [r EXCEPT !.findings = FALSE] = r
  <2> TAKE r \in Empty
  <2>1. r.findings = FALSE
    OBVIOUS
  <2> QED
    BY <2>1
<1> QED
  BY <1>1, <1>2

\* A cleanup that stops.
LEMMA StopTypes ==
    ASSUME CleanupTypes, NEW k \in Cleaners, NEW label \in CleanupLabels \ Holding, CStop(k, label),
           UNCHANGED <<mode, errors>>
    PROVE  CleanupTypes'
BY DEF CleanupTypes, CStop, CGoto

\* A cleanup that goes on, with what it has in memory.
LEMMA GoesOnTypes ==
    ASSUME CleanupTypes, NEW k \in Cleaners, NEW label \in CleanupLabels, CGoto(k, label),
           cpc[k] \in Holding <=> label \in Holding,
           NEW left \in SUBSET (Dirs \cup {"manifest.json", "manifest.json.tmp"}),
           todo' = [todo EXCEPT ![k] = left],
           UNCHANGED <<ccopy, mode, errors>>
    PROVE  CleanupTypes'
BY DEF CleanupTypes, CGoto

LEMMA SameTodo ==
    ASSUME CleanupTypes, NEW k \in Cleaners
    PROVE  /\ todo[k] \in SUBSET (Dirs \cup {"manifest.json", "manifest.json.tmp"})
           /\ todo = [todo EXCEPT ![k] = todo[k]]
           /\ cpc = [cpc EXCEPT ![k] = cpc[k]]
BY DEF CleanupTypes

LEMMA NotedTypes ==
    ASSUME NEW k \in Cleaners, NEW m \in Manifests,
           NEW note \in {"cleanup_in_progress", "partial", "completed"}
    PROVE  /\ [m EXCEPT !.history[k] = note] \in Manifests
           /\ [m EXCEPT !.history[k] = note, !.stages = << >>, !.artifacts = {},
                        !.cleared = TRUE] \in Manifests
           /\ m.history[k] \in {"none", "cleanup_in_progress", "partial", "completed"}
           /\ [m EXCEPT !.history[k] = note].history = [m.history EXCEPT ![k] = note]
           /\ [m EXCEPT !.history[k] = note, !.stages = << >>, !.artifacts = {},
                        !.cleared = TRUE].history = [m.history EXCEPT ![k] = note]
<1>1. m.history \in [Cleaners -> {"none", "cleanup_in_progress", "partial", "completed"}]
  BY DEF Manifests
<1>2. [m.history EXCEPT ![k] = note]
        \in [Cleaners -> {"none", "cleanup_in_progress", "partial", "completed"}]
  BY <1>1
<1>3. << >> \in Seq(ManifestStages)
  OBVIOUS
<1>4. PICK h : h = [m.history EXCEPT ![k] = note]
  OBVIOUS
<1>5. [m EXCEPT !.history[k] = note] = [m EXCEPT !.history = h]
  BY <1>4
<1>6. [m EXCEPT !.history[k] = note, !.stages = << >>, !.artifacts = {}, !.cleared = TRUE]
        = [m EXCEPT !.history = h, !.stages = << >>, !.artifacts = {}, !.cleared = TRUE]
  BY <1>4
<1>7. [m EXCEPT !.history = h] \in Manifests
  BY <1>2, <1>4 DEF Manifests
<1>8. [m EXCEPT !.history = h, !.stages = << >>, !.artifacts = {}, !.cleared = TRUE]
        \in Manifests
  BY <1>2, <1>3, <1>4 DEF Manifests
<1>9. [m EXCEPT !.history = h].history = h
  BY DEF Manifests
<1>10. [m EXCEPT !.history = h, !.stages = << >>, !.artifacts = {}, !.cleared = TRUE].history = h
  BY DEF Manifests
<1> QED
  BY <1>1, <1>4, <1>5, <1>6, <1>7, <1>8, <1>9, <1>10

LEMMA BeginTypes ==
    ASSUME RunTypes, NEW k \in Cleaners, BeginCleanup(k)
    PROVE  RunTypes'
<1>1. FileTypes' /\ ScanTypes'
  BY DEF BeginCleanup, RunTypes, FileTypes, ScanTypes, files, scan, StageName, EditPhases
<1>2. PICK m \in Modes : mode' = [mode EXCEPT ![k] = m]
  BY DEF BeginCleanup
<1>3. UNCHANGED <<todo, errors>> /\ cpc[k] = "idle" /\ UNCHANGED faults
  BY DEF BeginCleanup
<1>4. CASE CGoto(k, "failed") /\ UNCHANGED <<ccopy, overlapped>>
  BY <1>1, <1>2, <1>3, <1>4
  DEF RunTypes, CleanupTypes, HistoryTypes, CGoto, CleanupLabels, CleanupDone, Holding
<1>5. CASE ~(db = NoRow \/ ~root \/ manifest = NoFile)
  <2>1. manifest \in Manifests
    BY <1>5 DEF RunTypes, FileTypes
  <2>2. PICK n : n = [manifest EXCEPT !.history[k] = "cleanup_in_progress"]
    OBVIOUS
  <2>3. n \in Manifests
    BY <2>1, <2>2, NotedTypes
  <2>4. CGoto(k, "note") /\ ccopy' = [ccopy EXCEPT ![k] = n]
    BY <1>5, <2>2 DEF BeginCleanup
  <2>5. CleanupTypes'
    BY <1>2, <1>3, <2>3, <2>4, FileOrNot 
    DEF RunTypes, CleanupTypes, CGoto, CleanupLabels, Holding, CleanupDone
  <2>6. HistoryTypes'
    BY <1>3, <1>5 DEF BeginCleanup, RunTypes, HistoryTypes, Active
  <2> QED
    BY <1>1, <2>5, <2>6 DEF RunTypes
<1> QED
  BY <1>4, <1>5 DEF BeginCleanup

\* Where the steps of a cleanup lead.
Stops(k) == \E label \in {"failed", "list", "row", "done", "findings"} : CStop(k, label)
Continues(k) ==
    \E label \in {"note_replace", "targets", "result_replace"} :
        /\ CGoto(k, label)
        /\ cpc[k] \in Holding
        /\ UNCHANGED ccopy
        /\ \E left \in SUBSET (Dirs \cup {"manifest.json", "manifest.json.tmp"}) :
              todo' = [todo EXCEPT ![k] = left]
Finishes(k) ==
    \E label \in {"done", "tree", "row"} :
        /\ CGoto(k, label)
        /\ cpc[k] \notin Holding
        /\ UNCHANGED ccopy
        /\ \E left \in SUBSET (Dirs \cup {"manifest.json", "manifest.json.tmp"}) :
              todo' = [todo EXCEPT ![k] = left]

LEMMA MovesTypes ==
    ASSUME CleanupTypes, NEW k \in Cleaners, Stops(k) \/ Continues(k) \/ Finishes(k),
           UNCHANGED <<mode, errors>>
    PROVE  CleanupTypes'
<1>1. CASE Stops(k)
  <2>1. PICK label \in {"failed", "list", "row", "done", "findings"} : CStop(k, label)
    BY <1>1 DEF Stops
  <2>2. label \in CleanupLabels \ Holding
    BY DEF CleanupLabels, Holding, CleanupDone
  <2> QED
    BY <2>1, <2>2, StopTypes
<1>2. CASE Continues(k)
  BY <1>2, GoesOnTypes DEF Continues, CleanupLabels, Holding
<1>3. CASE Finishes(k)
  BY <1>3, GoesOnTypes DEF Finishes, CleanupLabels, Holding, CleanupDone
<1> QED
  BY <1>1, <1>2, <1>3

LEMMA ResultTypes ==
    ASSUME RunTypes, NEW k \in Cleaners, cpc[k] \in Holding
    PROVE  Result(k) \in Manifests
<1>1. ccopy[k] \in Manifests
  BY DEF RunTypes, CleanupTypes
<1>2. Outcome(k) \in {"partial", "completed"}
  BY DEF Outcome
<1> QED
  BY <1>1, <1>2, NotedTypes DEF Result

\* A step of a cleanup leaves the scan alone.
LEMMA CleanupFrame ==
    ASSUME NEW k \in Cleaners, CleanupStep(k)
    PROVE  UNCHANGED <<scan, mode, overlapped>> /\ (faults' = faults \/ faults' = faults + 1)
BY DEF CleanupStep, WriteNote, ReplaceNote, RemoveTarget, WriteResult, ReplaceResult,
       ClearFindings, ListTree, RemoveEntry, RemoveRoot, DeleteRow, history, Fault

LEMMA CleanupMoves ==
    ASSUME RunTypes, NEW k \in Cleaners, CleanupStep(k), ~RemoveTarget(k)
    PROVE  UNCHANGED errors /\ (Stops(k) \/ Continues(k) \/ Finishes(k))
<1>1. CleanupTypes
  BY DEF RunTypes
<1>2. CASE WriteNote(k)
  BY <1>1, <1>2, SameTodo DEF WriteNote, Stops, Continues, Holding
<1>3. CASE ReplaceNote(k)
  <2>1. Targets(k) \in SUBSET Dirs
    BY DEF Targets
  <2> QED
    BY <1>3, <2>1 DEF ReplaceNote, Stops, Continues, Holding
<1>4. CASE WriteResult(k)
  BY <1>1, <1>4, SameTodo DEF WriteResult, Stops, Continues, Holding
<1>5. CASE ReplaceResult(k)
  BY <1>5 DEF ReplaceResult, Stops
<1>6. CASE ClearFindings(k)
  BY <1>1, <1>6, SameTodo DEF ClearFindings, Finishes, Holding
<1>7. CASE ListTree(k)
  <2>1. Entries \in SUBSET (Dirs \cup {"manifest.json", "manifest.json.tmp"})
    BY DEF Entries, RunTypes, FileTypes
  <2> QED
    BY <1>7, <2>1 DEF ListTree, Finishes, Holding
<1>8. CASE RemoveEntry(k)
  <2>1. CASE CStop(k, "failed")
    BY <1>8, <2>1 DEF RemoveEntry, Stops
  <2>2. CASE \E e \in todo[k] : todo' = [todo EXCEPT ![k] = @ \ {e}] /\ UNCHANGED <<cpc, ccopy>>
    <3>1. PICK e \in todo[k] : todo' = [todo EXCEPT ![k] = @ \ {e}] /\ UNCHANGED <<cpc, ccopy>>
      BY <2>2
    <3>2. CGoto(k, "tree") /\ cpc[k] = "tree"
      BY <1>1, <1>8, <3>1, SameTodo DEF RemoveEntry, CGoto
    <3>3. todo' = [todo EXCEPT ![k] = todo[k] \ {e}]
      BY <3>1
    <3>4. todo[k] \ {e} \in SUBSET (Dirs \cup {"manifest.json", "manifest.json.tmp"})
      BY <1>1, SameTodo
    <3> QED
      BY <1>8, <3>1, <3>2, <3>3, <3>4 DEF RemoveEntry, Finishes, Holding
  <2> QED
    BY <1>8, <2>1, <2>2 DEF RemoveEntry
<1>9. CASE RemoveRoot(k)
  BY <1>9 DEF RemoveRoot, Stops
<1>10. CASE DeleteRow(k)
  BY <1>1, <1>10, SameTodo DEF DeleteRow, Finishes, Holding
<1> QED
  BY <1>2, <1>3, <1>4, <1>5, <1>6, <1>7, <1>8, <1>9, <1>10 DEF CleanupStep

LEMMA CleanupFiles ==
    ASSUME RunTypes, NEW k \in Cleaners, CleanupStep(k)
    PROVE  FileTypes'
<1> USE DEF RunTypes
<1>1. CASE WriteNote(k)
  BY <1>1 DEF WriteNote, FileTypes, CleanupTypes
<1>2. CASE ReplaceNote(k)
  BY <1>2 DEF ReplaceNote, FileTypes
<1>3. CASE RemoveTarget(k)
  BY <1>3 DEF RemoveTarget, FileTypes
<1>4. CASE WriteResult(k)
  <2>1. Result(k) \in Manifests
    BY <1>4, ResultTypes DEF WriteResult, Holding
  <2> QED
    BY <1>4, <2>1 DEF WriteResult, FileTypes
<1>5. CASE ReplaceResult(k)
  BY <1>5 DEF ReplaceResult, FileTypes
<1>6. CASE ClearFindings(k)
  <2>1. UNCHANGED files /\ db' = [db EXCEPT !.findings = FALSE]
    BY <1>6 DEF ClearFindings
  <2>2. CASE db = NoRow
    <3> QED
      BY <2>1, <2>2, NoRowStays DEF FileTypes, files
  <2>3. CASE db \in RunRows
    BY <2>1, <2>3 DEF FileTypes, files, RunRows
  <2> QED
    BY <2>2, <2>3 DEF FileTypes
<1>7. CASE ListTree(k)
  BY <1>7 DEF ListTree, FileTypes, files
<1>8. CASE RemoveEntry(k)
  BY <1>8 DEF RemoveEntry, FileTypes
<1>9. CASE RemoveRoot(k)
  BY <1>9 DEF RemoveRoot, FileTypes
<1>10. CASE DeleteRow(k)
  BY <1>10 DEF DeleteRow, FileTypes, files
<1> QED
  BY <1>1, <1>2, <1>3, <1>4, <1>5, <1>6, <1>7, <1>8, <1>9, <1>10 DEF CleanupStep

LEMMA CleanupStepTypes ==
    ASSUME RunTypes, NEW k \in Cleaners, CleanupStep(k)
    PROVE  RunTypes'
<1>1. FileTypes'
  BY CleanupFiles
<1>2. ScanTypes' /\ HistoryTypes'
  BY CleanupFrame DEF RunTypes, ScanTypes, HistoryTypes, scan, EditPhases
<1>3. CleanupTypes'
  <2>1. CASE RemoveTarget(k)
    BY <2>1 DEF RemoveTarget, RunTypes, CleanupTypes
  <2>2. CASE ~RemoveTarget(k)
    BY <2>2, CleanupFrame, CleanupMoves, MovesTypes DEF RunTypes
  <2> QED
    BY <2>1, <2>2
<1> QED
  BY <1>1, <1>2, <1>3 DEF RunTypes

LEMMA KillTypes ==
    ASSUME RunTypes, Kill
    PROVE  RunTypes'
<1>1. FileTypes' /\ HistoryTypes'
  BY DEF Kill, RunTypes, FileTypes, HistoryTypes, files, Fault
<1>2. PICK label \in Phases : GotoPhase(label)
  BY DEF Kill, RunTypes, ScanTypes, Phases
<1>3. UNCHANGED source_enabled /\ no' \in 1..LastStage
  BY DEF Kill, SamePlace, RunTypes, ScanTypes
<1>4. ScanTypes'
  BY <1>2, <1>3, GotoTypes DEF RunTypes
<1>5. CleanupTypes'
  BY DEF Kill, RunTypes, CleanupTypes, CleanupLabels, CleanupDone, Active, Holding
<1> QED
  BY <1>1, <1>4, <1>5 DEF RunTypes

LEMMA RunTypesStep == RunTypes /\ [RunNext]_run_vars => RunTypes'
<1> SUFFICES ASSUME RunTypes, [RunNext]_run_vars PROVE RunTypes'
  OBVIOUS
<1>1. CASE ScanStep
  BY <1>1, MarkTypes, ReadTypes, WriteTypes, ReplaceTypes, WorkTypes DEF ScanStep
<1>2. CASE \E k \in Cleaners : BeginCleanup(k) \/ CleanupStep(k)
  BY <1>2, BeginTypes, CleanupStepTypes
<1>3. CASE Kill
  BY <1>3, KillTypes
<1>4. CASE UNCHANGED run_vars
  <2>1. FileTypes' /\ HistoryTypes'
    BY <1>4 DEF run_vars, files, history, RunTypes, FileTypes, HistoryTypes
  <2>2. ScanTypes'
    BY <1>4 DEF run_vars, scan, RunTypes, ScanTypes, EditPhases
  <2>3. CleanupTypes'
    BY <1>4 DEF run_vars, cleanups, RunTypes, CleanupTypes
  <2> QED
    BY <2>1, <2>2, <2>3 DEF RunTypes
<1> QED
  BY <1>1, <1>2, <1>3, <1>4 DEF RunNext
-----------------------------------------------------------------------------
(***************************************************************************)
(* The manifest is never ahead of the database.                            *)
(***************************************************************************)

\* A manifest with no stage that comes after the one the database was told of.
BehindStage(m, told, enabled) ==
    /\ Rank(m.stage) <= Rank(told)
    /\ \A i \in DOMAIN m.stages :
          \/ Rank(m.stages[i]) <= Rank(told)
          \/ m.stages[i] = "decompiling" /\ ~enabled
Behind(m) == BehindStage(m, db.stage, source_enabled)

\* What the scan is about to write, the database was told before.
Told ==
    /\ phase \in {"mark", "announce", "prepare", "work", "register"} => Announces(StageName)
    /\ phase = "mark" => Rank(db.stage) < no
    /\ phase \in InStage => Rank(db.stage) <= no
    /\ phase \in InStage \ {"mark"} /\ Announces(StageName) => db.stage = StageName
    /\ phase = "announce_finish" => db.stage = "completed"
    /\ phase = "record_failed" => db.stage = "failed"

AllBehind ==
    db # NoRow => /\ Behind(manifest) /\ Behind(tmp) /\ Behind(copy)
                  /\ \A k \in Cleaners : Behind(ccopy[k])
                  /\ Told

AheadInv == RunTypes /\ AllBehind

\* Where what is in a file, or in memory, comes from.
FileSources ==
    /\ manifest' \in {NoFile, manifest, tmp}
    /\ \/ tmp' \in {NoFile, tmp, copy}
       \/ \E k \in Cleaners : tmp' = ccopy[k] \/ (cpc[k] = "targets" /\ tmp' = Result(k))
    /\ \/ copy' \in {NoFile, copy}
       \/ manifest # NoFile /\ phase \in EditPhases /\ copy' = Edited(manifest)
    /\ \A k \in Cleaners :
          \/ ccopy'[k] \in {NoFile, ccopy[k]}
          \/ /\ manifest # NoFile
             /\ ccopy'[k] = [manifest EXCEPT !.history[k] = "cleanup_in_progress"]

LEMMA ScanSources ==
    ASSUME RunTypes, ScanStep
    PROVE  FileSources
<1> USE DEF FileSources, Raise, GotoPhase
<1>1. CASE MarkStage
  BY <1>1 DEF MarkStage, files, cleanups
<1>2. CASE ReadManifest
  BY <1>2 DEF ReadManifest, files, cleanups
<1>3. CASE WriteManifest
  BY <1>3 DEF WriteManifest, cleanups
<1>4. CASE ReplaceManifest
  BY <1>4 DEF ReplaceManifest, cleanups
<1>5. CASE Work
  BY <1>5 DEF Work, cleanups
<1>6. CASE After
  BY <1>6 DEF After, NextStage, cleanups
<1>7. CASE Finish
  BY <1>7 DEF Finish, files, cleanups
<1>8. CASE MarkFailed
  BY <1>8 DEF MarkFailed, files, cleanups
<1> QED
  BY <1>1, <1>2, <1>3, <1>4, <1>5, <1>6, <1>7, <1>8 DEF ScanStep

LEMMA StepSources ==
    ASSUME RunTypes, RunNext
    PROVE  FileSources
<1>1. CASE \E k \in Cleaners : BeginCleanup(k)
  BY <1>1 DEF FileSources, BeginCleanup, files, scan, RunTypes, CleanupTypes
<1>2. ASSUME NEW k \in Cleaners, CleanupStep(k)
      PROVE  FileSources
  <2>1. copy' = copy
    BY <1>2, CleanupFrame DEF scan
  <2>2. \A j \in Cleaners : ccopy'[j] \in {NoFile, ccopy[j]}
    <3>1. CASE RemoveTarget(k)
      BY <3>1 DEF RemoveTarget
    <3>2. CASE Stops(k)
      BY <3>2 DEF Stops, CStop, RunTypes, CleanupTypes
    <3>3. CASE Continues(k) \/ Finishes(k)
      BY <3>3 DEF Continues, Finishes
    <3> QED
      BY <1>2, <3>1, <3>2, <3>3, CleanupMoves
  <2>3. /\ manifest' \in {NoFile, manifest, tmp}
        /\ \/ tmp' \in {NoFile, tmp}
           \/ tmp' = ccopy[k] \/ (cpc[k] = "targets" /\ tmp' = Result(k))
    <3>1. CASE WriteNote(k)
      BY <3>1 DEF WriteNote
    <3>2. CASE ReplaceNote(k) \/ ReplaceResult(k)
      BY <3>2 DEF ReplaceNote, ReplaceResult
    <3>3. CASE WriteResult(k)
      BY <3>3 DEF WriteResult
    <3>4. CASE RemoveEntry(k)
      BY <3>4 DEF RemoveEntry
    <3>5. CASE RemoveTarget(k) \/ ClearFindings(k) \/ ListTree(k) \/ RemoveRoot(k) \/ DeleteRow(k)
      BY <3>5 DEF RemoveTarget, ClearFindings, ListTree, RemoveRoot, DeleteRow, files
    <3> QED
      BY <1>2, <3>1, <3>2, <3>3, <3>4, <3>5 DEF CleanupStep
  <2> QED
    BY <2>1, <2>2, <2>3 DEF FileSources
<1>3. CASE Kill
  BY <1>3 DEF FileSources, Kill, GotoPhase, files
<1> QED
  BY <1>1, <1>2, <1>3, ScanSources DEF RunNext

\* The stage in the row only goes forward, as does the row: once gone it is gone.
TellsMore ==
    /\ source_enabled' = source_enabled
    /\ db' # NoRow => db # NoRow /\ Rank(db.stage) <= Rank(db'.stage)

LEMMA RowStage ==
    ASSUME RunTypes, db # NoRow
    PROVE  Rank(db.stage) \in 0..LastStage + 1
BY RankBounds DEF RunTypes, FileTypes, RunRows, RankBound

LEMMA SameStage ==
    ASSUME RunTypes, source_enabled' = source_enabled,
           db' = db \/ db' = NoRow \/ (db # NoRow /\ db'.stage = db.stage)
    PROVE  TellsMore
BY RowStage, StagesAreNames DEF TellsMore

LEMMA FindingsKeepStage ==
    ASSUME RunTypes, db # NoRow, NEW b \in BOOLEAN
    PROVE  [db EXCEPT !.findings = b].stage = db.stage
BY DEF RunTypes, FileTypes, RunRows

LEMMA UpdatesRow ==
    ASSUME RunTypes, db # NoRow, NEW said, NEW name, UpdateRun(said, name)
    PROVE  db'.stage = name /\ db'.status = said
BY DEF RunTypes, FileTypes, RunRows, UpdateRun

LEMMA NoUpdate ==
    ASSUME db = NoRow, MarkStage \/ Finish \/ MarkFailed
    PROVE  db' = NoRow
BY DEF MarkStage, Finish, MarkFailed, UpdateRun

LEMMA ScanTellsMore ==
    ASSUME RunTypes, db # NoRow => Told, ScanStep
    PROVE  TellsMore
<1>1. source_enabled' = source_enabled
  BY DEF ScanStep, MarkStage, ReadManifest, WriteManifest, ReplaceManifest, Work, After,
         Finish, MarkFailed, SamePlace, NextStage
<1>2. no \in 1..LastStage /\ LastStage \in Nat
  BY StagesAreNames DEF RunTypes, ScanTypes
<1>3. CASE db = NoRow /\ (MarkStage \/ Finish \/ MarkFailed)
  BY <1>1, <1>3, NoUpdate, SameStage
<1>4. CASE db # NoRow /\ MarkStage
  <2>1. db'.stage = StageName
    BY <1>4, UpdatesRow DEF MarkStage
  <2>2. Rank(db.stage) < no /\ Rank(StageName) = no
    BY <1>2, <1>4, Ranks DEF Told, MarkStage, StageName
  <2> QED
    BY <1>1, <1>2, <1>4, <2>1, <2>2, RowStage DEF TellsMore
<1>5. CASE db # NoRow /\ (Finish \/ MarkFailed)
  <2>1. Rank(db'.stage) = LastStage + 1
    BY <1>5, UpdatesRow, Ranks DEF Finish, MarkFailed
  <2> QED
    BY <1>1, <1>2, <1>5, <2>1, RowStage DEF TellsMore
<1>6. CASE ReadManifest \/ WriteManifest \/ ReplaceManifest \/ After
  BY <1>1, <1>6, SameStage DEF ReadManifest, WriteManifest, ReplaceManifest, After
<1>7. CASE Work
  <2>1. db' = db \/ (StageName = "aggregation" /\ ~Hindered /\ db' = [db EXCEPT !.findings = TRUE])
    BY <1>7 DEF Work
  <2>2. StageName = "aggregation" /\ ~Hindered => db # NoRow
    BY DEF Hindered
  <2> QED
    BY <1>1, <2>1, <2>2, SameStage, FindingsKeepStage
<1> QED
  BY <1>3, <1>4, <1>5, <1>6, <1>7 DEF ScanStep

LEMMA CleanupTellsMore ==
    ASSUME RunTypes, NEW k \in Cleaners, BeginCleanup(k) \/ CleanupStep(k)
    PROVE  TellsMore /\ (db # NoRow /\ db' # NoRow => db'.stage = db.stage)
<1>1. UNCHANGED scan
  BY CleanupFrame DEF BeginCleanup
<1>2. \/ db' = db \/ db' = NoRow \/ db' = [db EXCEPT !.findings = FALSE]
  BY DEF BeginCleanup, CleanupStep, WriteNote, ReplaceNote, RemoveTarget, WriteResult,
         ReplaceResult, ClearFindings, ListTree, RemoveEntry, RemoveRoot, DeleteRow
<1>3. db = NoRow => db' = NoRow
  BY <1>2, NoRowStays
<1>4. db # NoRow /\ db' # NoRow => db'.stage = db.stage
  BY <1>2, FindingsKeepStage
<1>5. source_enabled' = source_enabled
  BY <1>1 DEF scan
<1>6. db' = db \/ db' = NoRow \/ (db # NoRow /\ db'.stage = db.stage)
  BY <1>2, <1>3, <1>4
<1>7. TellsMore
  BY <1>5, <1>6, SameStage
<1> QED
  BY <1>4, <1>7

LEMMA StepTellsMore ==
    ASSUME RunTypes, db # NoRow => Told, RunNext
    PROVE  TellsMore
<1>1. CASE Kill
  BY <1>1, SameStage DEF Kill, SamePlace
<1> QED
  BY <1>1, ScanTellsMore, CleanupTellsMore DEF RunNext

LEMMA ToldStays ==
    ASSUME Told, db' # NoRow => db'.stage = db.stage, db' # NoRow, UNCHANGED scan
    PROVE  Told'
BY DEF Told, scan, StageName, Announces

\* The scan goes on in the same stage, or raises.
LEMMA ToldWithinStage ==
    ASSUME Told, db'.stage = db.stage, SamePlace,
           \/ phase' = phase
           \/ phase' \in {"mark_failed", "ended", "killed"}
           \/ phase' = "after" /\ phase = "record"
           \/ phase \in {"announce", "prepare", "work"} /\ phase' \in {"prepare", "work"}
           \/ phase \in {"work", "register"} /\ phase' \in {"register", "record"}
    PROVE  Told'
<1>1. StageName' = StageName /\ Announces(StageName)' = Announces(StageName) /\ no' = no
  BY DEF SamePlace, StageName, Announces
<1> QED
  BY <1>1 DEF Told, InStage

LEMMA RaisesTo == Raise => phase' \in {"mark_failed", "ended"}
BY DEF Raise, GotoPhase

LEMMA ToldNext ==
    ASSUME RunTypes, Told, phase = "after", db' = db, NextStage
    PROVE  Told'
<1>1. no \in 1..LastStage /\ LastStage \in Nat
  BY StagesAreNames DEF RunTypes, ScanTypes
<1>2. CASE no = LastStage
  BY <1>2 DEF NextStage, GotoPhase, Told, InStage
<1>3. CASE no # LastStage
  <2>1. no' = no + 1 /\ UNCHANGED source_enabled /\ phase' = FirstPhase(Pipeline[no + 1])
    BY <1>3 DEF NextStage, GotoPhase
  <2>2. StageName' = Pipeline[no + 1] /\ Announces(StageName)' = Announces(Pipeline[no + 1])
    BY <2>1 DEF StageName, Announces
  <2>3. \/ Announces(StageName)' /\ phase' = "mark"
        \/ ~Announces(StageName)' /\ phase' = "record"
    BY <2>1, <2>2 DEF FirstPhase
  <2>4. Rank(db.stage) <= no
    BY DEF Told, InStage
  <2>5. Rank(db'.stage) <= no' /\ Rank(db'.stage) < no'
    <3>1. db' = NoRow => Rank(db'.stage) = 0
      BY Ranks DEF NoRow
    <3>2. db' # NoRow => Rank(db'.stage) \in 0..LastStage + 1
      BY RowStage
    <3> QED
      BY <1>1, <2>1, <2>4, <3>1, <3>2
  <2> QED
    BY <2>3, <2>5 DEF Told, InStage
<1> QED
  BY <1>2, <1>3

LEMMA ScanTold ==
    ASSUME RunTypes, db # NoRow => Told, ScanStep, db' # NoRow
    PROVE  Told'
<1>1. db # NoRow /\ Told
  BY ScanTellsMore DEF TellsMore
<1>2. no \in 1..LastStage /\ LastStage \in Nat
  BY StagesAreNames DEF RunTypes, ScanTypes
<1>3. CASE MarkStage
  <2>1. db'.stage = StageName /\ phase' = "announce" /\ SamePlace /\ phase = "mark"
    BY <1>1, <1>3, UpdatesRow DEF MarkStage, GotoPhase
  <2>2. Announces(StageName) /\ Rank(StageName) = no
    BY <1>1, <1>2, <2>1, Ranks DEF Told, StageName
  <2>3. StageName' = StageName /\ no' = no /\ Announces(StageName)'
    BY <2>1, <2>2 DEF SamePlace, StageName, Announces
  <2> QED
    BY <1>2, <2>1, <2>2, <2>3 DEF Told
<1>4. CASE Finish
  <2>1. db'.stage = "completed" /\ phase' = "announce_finish"
    BY <1>1, <1>4, UpdatesRow DEF Finish, GotoPhase
  <2> QED
    BY <2>1 DEF Told, InStage
<1>5. CASE MarkFailed
  <2>1. db'.stage = "failed" /\ phase' = "record_failed"
    BY <1>1, <1>5, UpdatesRow DEF MarkFailed, GotoPhase
  <2> QED
    BY <2>1 DEF Told, InStage
<1>6. CASE ReadManifest
  BY <1>1, <1>6, ToldWithinStage, RaisesTo DEF ReadManifest, GotoPhase
<1>7. CASE WriteManifest
  BY <1>1, <1>7, ToldWithinStage, RaisesTo DEF WriteManifest
<1>8. CASE ReplaceManifest
  <2>1. SamePlace /\ db' = db
    BY <1>8 DEF ReplaceManifest
  <2>2. CASE Raise
    BY <1>1, <2>1, <2>2, ToldWithinStage, RaisesTo
  <2>3. CASE phase' = AfterEdit
    BY <1>1, <1>8, <2>1, <2>3, ToldWithinStage DEF ReplaceManifest, AfterEdit, EditPhases
  <2> QED
    BY <1>8, <2>2, <2>3 DEF ReplaceManifest, GotoPhase
<1>9. CASE Work
  <2>1. db'.stage = db.stage
    <3>1. db' = db \/ db' = [db EXCEPT !.findings = TRUE]
      BY <1>9 DEF Work
    <3> QED
      BY <1>1, <3>1, FindingsKeepStage
  <2>2. phase = "work" /\ SamePlace
    BY <1>9 DEF Work
  <2>3. phase' \in {"register", "record", "mark_failed", "ended"}
    BY <1>9, RaisesTo DEF Work, GotoPhase
  <2> QED
    BY <1>1, <2>1, <2>2, <2>3, ToldWithinStage
<1>10. CASE After
  BY <1>1, <1>10, ToldNext, ToldWithinStage, RaisesTo DEF After
<1> QED
  BY <1>3, <1>4, <1>5, <1>6, <1>7, <1>8, <1>9, <1>10 DEF ScanStep

LEMMA StepTold ==
    ASSUME RunTypes, db # NoRow => Told, RunNext, db' # NoRow
    PROVE  Told'
<1>1. db # NoRow
  BY StepTellsMore DEF TellsMore
<1>2. CASE \E k \in Cleaners : BeginCleanup(k) \/ CleanupStep(k)
  <2>1. PICK k \in Cleaners : BeginCleanup(k) \/ CleanupStep(k)
    BY <1>2
  <2>2. UNCHANGED scan
    BY <2>1, CleanupFrame DEF BeginCleanup
  <2> QED
    BY <1>1, <2>1, <2>2, CleanupTellsMore, ToldStays
<1>3. CASE Kill
  BY <1>1, <1>3, ToldWithinStage DEF Kill, GotoPhase
<1> QED
  BY <1>2, <1>3, ScanTold DEF RunNext

LEMMA BehindMore ==
    ASSUME NEW m \in {NoFile} \cup Manifests, NEW old, NEW new, NEW enabled,
           Rank(old) \in Nat, Rank(new) \in Nat, Rank(old) <= Rank(new),
           BehindStage(m, old, enabled)
    PROVE  BehindStage(m, new, enabled)
<1>1. Rank(m.stage) \in Nat
  BY RankBounds, FileOrNot, StagesAreNames DEF Manifests, RankBound
<1>2. \A i \in DOMAIN m.stages : Rank(m.stages[i]) \in Nat
  <2>1. m = NoFile => DOMAIN m.stages = {}
    BY FileOrNot
  <2>2. m \in Manifests => \A i \in DOMAIN m.stages : m.stages[i] \in ManifestStages
    BY DEF Manifests
  <2> QED
    BY <2>1, <2>2, RankBounds, StagesAreNames DEF ManifestStages, RankBound
<1> QED
  BY <1>1, <1>2 DEF BehindStage

LEMMA NoFileBehind ==
    ASSUME NEW told, Rank(told) \in Nat, NEW enabled
    PROVE  BehindStage(NoFile, told, enabled)
BY FileOrNot, Ranks DEF BehindStage

LEMMA EditedBehind ==
    ASSUME RunTypes, db # NoRow, Told, phase \in EditPhases,
           NEW m \in Manifests, BehindStage(m, db.stage, source_enabled)
    PROVE  BehindStage(Edited(m), db.stage, source_enabled)
<1>1. /\ m.stage \in Stages \cup {"queued", "completed"} /\ m.stages \in Seq(ManifestStages)
      /\ no \in 1..LastStage /\ LastStage \in Nat
  BY StagesAreNames DEF Manifests, RunTypes, ScanTypes
<1>2. Rank(db.stage) \in Nat
  BY RowStage, StagesAreNames
<1>3. ASSUME NEW s \in ManifestStages,
             Rank(s) <= Rank(db.stage) \/ (s = "decompiling" /\ ~source_enabled),
             Edited(m).stage = m.stage, Edited(m).stages = Append(m.stages, s)
      PROVE  BehindStage(Edited(m), db.stage, source_enabled)
  BY <1>1, <1>3 DEF BehindStage
<1>4. StageName \in ManifestStages /\ Rank(StageName) = no
  BY <1>1, StagesAreNames, Ranks DEF StageName, ManifestStages
<1>5. CASE phase = "announce"
  <2>1. Edited(m).stage = db.stage /\ Edited(m).stages = m.stages
    BY <1>5 DEF Edited, Told, Manifests, InStage
  <2> QED
    BY <1>2, <2>1 DEF BehindStage
<1>6. CASE phase \in {"prepare", "register"}
  <2>1. Edited(m).stage = m.stage /\ Edited(m).stages = m.stages
    BY <1>6 DEF Edited, Manifests
  <2> QED
    BY <2>1 DEF BehindStage
<1>7. CASE phase = "record"
  <2>1. Edited(m).stage = m.stage /\ Edited(m).stages = Append(m.stages, StageName)
    BY <1>7 DEF Edited, Manifests
  <2>2. Rank(StageName) <= Rank(db.stage) \/ (StageName = "decompiling" /\ ~source_enabled)
    BY <1>2, <1>7 DEF Told, Announces, InStage
  <2> QED
    BY <1>3, <1>4, <2>1, <2>2
<1>8. CASE phase = "announce_finish"
  <2>1. Edited(m).stage = db.stage /\ Edited(m).stages = m.stages
    BY <1>8 DEF Edited, Told, Manifests
  <2> QED
    BY <1>2, <2>1 DEF BehindStage
<1>9. CASE phase = "record_failed"
  <2>1. Edited(m).stage = m.stage /\ Edited(m).stages = Append(m.stages, "failed")
    BY <1>9 DEF Edited, Manifests
  <2>2. "failed" \in ManifestStages /\ Rank("failed") <= Rank(db.stage)
    BY <1>2, <1>9 DEF Told, ManifestStages
  <2> QED
    BY <1>3, <2>1, <2>2
<1> QED
  BY <1>5, <1>6, <1>7, <1>8, <1>9 DEF EditPhases

\* What a cleanup makes of a manifest.
LEMMA NotedBehind ==
    ASSUME NEW m \in Manifests, NEW k \in Cleaners, NEW note, NEW told, NEW enabled,
           BehindStage(m, told, enabled)
    PROVE  /\ BehindStage([m EXCEPT !.history[k] = note], told, enabled)
           /\ BehindStage([m EXCEPT !.history[k] = note, !.stages = << >>,
                                    !.artifacts = {}, !.cleared = TRUE], told, enabled)
<1>1. PICK h : h = [m.history EXCEPT ![k] = note]
  OBVIOUS
<1>2. [m EXCEPT !.history = h].stage = m.stage /\ [m EXCEPT !.history = h].stages = m.stages
  BY DEF Manifests
<1>3. PICK n : n = [m EXCEPT !.history = h, !.stages = << >>, !.artifacts = {}, !.cleared = TRUE]
  OBVIOUS
<1>4. n.stage = m.stage /\ n.stages = << >>
  BY <1>3 DEF Manifests
<1>5. BehindStage([m EXCEPT !.history = h], told, enabled)
  BY <1>2 DEF BehindStage
<1>6. BehindStage(n, told, enabled)
  BY <1>4 DEF BehindStage
<1> QED
  BY <1>1, <1>3, <1>5, <1>6

LEMMA ResultBehind ==
    ASSUME RunTypes, NEW k \in Cleaners, cpc[k] = "targets", NEW told, NEW enabled,
           BehindStage(ccopy[k], told, enabled)
    PROVE  BehindStage(Result(k), told, enabled)
<1>1. ccopy[k] \in Manifests
  BY DEF RunTypes, CleanupTypes, Holding
<1> QED
  BY <1>1, NotedBehind DEF Result

LEMMA AheadStep == AheadInv /\ [RunNext]_run_vars => AheadInv'
<1> SUFFICES ASSUME AheadInv, [RunNext]_run_vars PROVE AheadInv'
  OBVIOUS
<1>1. RunTypes /\ RunTypes' /\ AllBehind
  BY RunTypesStep DEF AheadInv
<1>2. CASE UNCHANGED run_vars
  <2>1. UNCHANGED <<db, manifest, tmp, copy, ccopy, source_enabled>> /\ UNCHANGED scan
    BY <1>2 DEF run_vars, files, scan, cleanups
  <2>2. db # NoRow => Told'
    BY <1>1, <2>1, ToldStays DEF AllBehind
  <2> QED
    BY <1>1, <2>1, <2>2 DEF AheadInv, AllBehind, Behind
<1>3. CASE RunNext
  <2> SUFFICES ASSUME db' # NoRow
               PROVE  /\ Behind(manifest)' /\ Behind(tmp)' /\ Behind(copy)'
                      /\ \A k \in Cleaners : Behind(ccopy[k])'
                      /\ Told'
    BY <1>1 DEF AheadInv, AllBehind
  <2>1. db # NoRow => Told
    BY <1>1 DEF AllBehind
  <2>2. db # NoRow /\ source_enabled' = source_enabled /\ Rank(db.stage) <= Rank(db'.stage)
    BY <1>1, <1>3, <2>1, StepTellsMore DEF TellsMore
  <2>3. Told'
    BY <1>1, <1>3, <2>1, StepTold
  <2>4. PICK told : told = db'.stage
    OBVIOUS
  <2>5. Rank(db.stage) \in Nat /\ Rank(told) \in Nat /\ Rank(db.stage) <= Rank(told)
    <3>1. db \in RunRows /\ db' \in RunRows
      BY <1>1, <2>2 DEF RunTypes, FileTypes
    <3> QED
      BY <2>2, <2>4, <3>1, RankBounds, StagesAreNames DEF RunRows, RankBound
  <2>6. ASSUME NEW m \in {NoFile} \cup Manifests, BehindStage(m, db.stage, source_enabled)
        PROVE  BehindStage(m, told, source_enabled)
    BY <2>5, <2>6, BehindMore
  <2>7. FileSources
    BY <1>1, <1>3, StepSources
  <2>8. /\ BehindStage(manifest, told, source_enabled) /\ BehindStage(tmp, told, source_enabled)
        /\ BehindStage(copy, told, source_enabled) /\ BehindStage(NoFile, told, source_enabled)
        /\ \A k \in Cleaners : BehindStage(ccopy[k], told, source_enabled)
    BY <1>1, <2>2, <2>5, <2>6, NoFileBehind
    DEF AllBehind, Behind, RunTypes, FileTypes, ScanTypes, CleanupTypes
  <2>9. BehindStage(manifest', told, source_enabled)
    BY <2>7, <2>8 DEF FileSources
  <2>10. BehindStage(tmp', told, source_enabled)
    BY <1>1, <2>7, <2>8, ResultBehind DEF FileSources
  <2>11. BehindStage(copy', told, source_enabled)
    <3>1. CASE manifest # NoFile /\ phase \in EditPhases /\ copy' = Edited(manifest)
      <4>1. manifest \in Manifests
        BY <1>1, <3>1 DEF RunTypes, FileTypes
      <4>2. BehindStage(Edited(manifest), db.stage, source_enabled)
        BY <1>1, <2>1, <2>2, <3>1, <4>1, EditedBehind DEF AllBehind, Behind
      <4>3. Edited(manifest) \in Manifests
        BY <1>1, <3>1, <4>1, EditedTypes DEF RunTypes
      <4> QED
        BY <2>6, <3>1, <4>2, <4>3
    <3> QED
      BY <2>7, <2>8, <3>1 DEF FileSources
  <2>12. \A k \in Cleaners : BehindStage(ccopy'[k], told, source_enabled)
    <3> TAKE k \in Cleaners
    <3>1. CASE manifest # NoFile /\ ccopy'[k] = [manifest EXCEPT !.history[k] = "cleanup_in_progress"]
      <4>1. manifest \in Manifests
        BY <1>1, <3>1 DEF RunTypes, FileTypes
      <4>2. BehindStage([manifest EXCEPT !.history[k] = "cleanup_in_progress"],
                        told, source_enabled)
        BY <2>8, <4>1, NotedBehind
      <4> QED
        BY <3>1, <4>2
    <3> QED
      BY <2>7, <2>8, <3>1 DEF FileSources
  <2> QED
    BY <2>2, <2>3, <2>4, <2>9, <2>10, <2>11, <2>12 DEF Behind
<1> QED
  BY <1>2, <1>3

LEMMA AheadInit == RunInit => AheadInv
<1> SUFFICES ASSUME RunInit PROVE AheadInv
  OBVIOUS
<1>1. RunTypes
  BY RunInitTypes
<1>2. Rank(db.stage) = 0 /\ db.stage = "queued"
  BY Ranks DEF RunInit
<1>3. /\ manifest.stage = "queued" /\ manifest.stages = << >>
      /\ tmp = NoFile /\ copy = NoFile /\ \A k \in Cleaners : ccopy[k] = NoFile
  BY DEF RunInit, NoFile
<1>4. Behind(manifest) /\ Behind(NoFile)
  BY <1>2, <1>3, FileOrNot, Ranks DEF Behind, BehindStage
<1>5. Told
  BY <1>2, StagesAreNames, Ranks DEF RunInit, Told, FirstPhase, InStage
<1> QED
  BY <1>1, <1>3, <1>4, <1>5 DEF AheadInv, AllBehind

THEOREM AheadInvariance == RunSpec => []AheadInv
BY AheadInit, AheadStep, PTL DEF RunSpec

\* What the files, the scan and the cleanups hold is always of the right kind.
THEOREM RunTypeCorrect == RunSpec => []RunTypes
<1>1. AheadInv => RunTypes
  BY DEF AheadInv
<1> QED
  BY <1>1, AheadInvariance, PTL

\* The manifest is never ahead of the database, for any number of cleanups in
\* any order with the scan, whichever write fails and whenever the server dies.
THEOREM ManifestFollows == RunSpec => []ManifestNeverAhead
<1>1. AheadInv => ManifestNeverAhead
  BY DEF AheadInv, AllBehind, Behind, BehindStage, ManifestNeverAhead
<1> QED
  BY <1>1, AheadInvariance, PTL
-----------------------------------------------------------------------------
(***************************************************************************)
(* A scan that no cleanup ran into is recorded whole.                      *)
(***************************************************************************)

\* What the manifest and the row say of the first stages: recorded up to n[1],
\* announced up to n[2], artifacts up to n[3], findings published up to n[4].
Shown(n, enabled) ==
    LET announced == {i \in 1..n : Pipeline[i] # "decompiling" \/ enabled}
    IN IF announced = {} THEN "queued" ELSE Pipeline[Max(announced)]
Registered(n, artifacts, enabled) ==
    \A i \in 1..n : /\ Pipeline[i] \in Registers
                    /\ Pipeline[i] # "decompiling" \/ enabled
                    => Pipeline[i] \in artifacts
Published(n) == \E i \in 1..n : Pipeline[i] = "aggregation"
Says(m, findings, enabled, n) ==
    /\ m.stages = RecordedUpTo(n[1])
    /\ m.stage = Shown(n[2], enabled)
    /\ Registered(n[3], m.artifacts, enabled)
    /\ findings <=> Published(n[4])

\* How far the scan has come in a phase of stage n.
SoFar(label, n) ==
    CASE label \in {"mark", "announce"} -> <<n - 1, n - 1, n - 1, n - 1>>
      [] label \in {"prepare", "work"} -> <<n - 1, n, n - 1, n - 1>>
      [] label = "register" -> <<n - 1, n, n - 1, n>>
      [] label = "record" -> <<n - 1, n, n, n>>
      [] label \in {"after", "finish", "announce_finish"} -> <<n, n, n, n>>
OnItsWay == InStage \cup {"finish", "announce_finish"}

\* What a failure in stage n leaves.
Left(m, enabled, n) ==
    /\ m.stages \in {RecordedUpTo(n - 1), RecordedUpTo(n)}
    /\ m.stage \in {Shown(n - 1, enabled), Shown(n, enabled)}

EndedWell ==
    /\ db.status = "completed"
    /\ manifest.status = "completed" /\ manifest.stage = "completed"
    /\ manifest.stages = RecordedUpTo(LastStage)
    /\ Registered(LastStage, manifest.artifacts, source_enabled)
    /\ db.findings <=> Published(LastStage)

EndedBadly ==
    /\ db.status = "failed"
    /\ manifest.stages \in {RecordedUpTo(no - 1), RecordedUpTo(no),
                            Append(RecordedUpTo(no - 1), "failed"),
                            Append(RecordedUpTo(no), "failed")}
    /\ manifest.stage \in {Shown(no - 1, source_enabled), Shown(no, source_enabled)}

Story ==
    /\ phase \in OnItsWay => Says(manifest, db.findings, source_enabled, SoFar(phase, no))
    /\ phase \in {"finish", "announce_finish"} => no = LastStage
    /\ phase \in {"mark_failed", "record_failed"} => Left(manifest, source_enabled, no)
    /\ phase = "announce_finish" => db.status = "completed"
    /\ phase = "record_failed" => db.status = "failed"
    /\ phase = "ended" => EndedWell \/ EndedBadly

\* No cleanup was asked for.
Undisturbed == phase # "killed" /\ \A k \in Cleaners : cpc[k] = "idle"

InFiles ==
    /\ root /\ db # NoRow /\ manifest # NoFile
    /\ tmp = IF io = "replace" THEN copy ELSE NoFile
    /\ io # "read" => copy = Edited(manifest)

EndInv == AheadInv /\ (Undisturbed => InFiles /\ Story)

LEMMA RecordedNext ==
    ASSUME NEW n \in 1..LastStage
    PROVE  RecordedUpTo(n) = Append(RecordedUpTo(n - 1), Pipeline[n])
<1>1. Pipeline \in Seq(Stages) /\ LastStage = Len(Pipeline) /\ LastStage \in Nat
  BY StagesAreNames DEF LastStage
<1>2. 1 \in 1..Len(Pipeline) /\ n \in 1..Len(Pipeline)
  BY <1>1
<1>3. SubSeq(Pipeline, 1, n) = SubSeq(Pipeline, 1, n - 1) \o << Pipeline[n] >>
  BY <1>1, <1>2, SubSeqRecursiveSecond
<1>4. SubSeq(Pipeline, 1, n - 1) \in Seq(Stages)
  BY <1>1, <1>2, SubSeqProperties
<1>5. \A s \in Seq(Stages) : s \o << Pipeline[n] >> = Append(s, Pipeline[n])
  BY <1>1, <1>2
<1> QED
  BY <1>3, <1>4, <1>5 DEF RecordedUpTo

LEMMA RecordedEnds == RecordedUpTo(0) = << >> /\ RecordedUpTo(LastStage) = Pipeline
BY StagesAreNames, SubSeqEmpty, SubSeqFull DEF RecordedUpTo, LastStage

LEMMA ShownNext ==
    ASSUME NEW n \in 1..LastStage, NEW enabled
    PROVE  Shown(n, enabled) = IF Pipeline[n] # "decompiling" \/ enabled
                               THEN Pipeline[n] ELSE Shown(n - 1, enabled)
<1> DEFINE S(m) == {i \in 1..m : Pipeline[i] # "decompiling" \/ enabled}
<1>1. n \in Nat \ {0} /\ 1..n = (1..n - 1) \cup {n} /\ n \notin 1..n - 1
  BY StagesAreNames
<1>2. CASE Pipeline[n] # "decompiling" \/ enabled
  <2>1. n \in S(n) /\ \A i \in S(n) : i \in Nat /\ i <= n
    BY <1>1, <1>2
  <2> HIDE DEF S
  <2>2. Max(S(n)) \in S(n) /\ \A i \in S(n) : Max(S(n)) >= i
    <3>1. \E x \in S(n) : \A y \in S(n) : x >= y
      BY <2>1, <1>1
    <3> QED
      BY <3>1 DEF Max
  <2>3. Max(S(n)) = n
    BY <1>1, <2>1, <2>2
  <2>4. S(n) # {}
    BY <2>1
  <2> QED
    BY <1>2, <2>3, <2>4 DEF Shown, S
<1>3. CASE ~(Pipeline[n] # "decompiling" \/ enabled)
  <2>1. S(n) = S(n - 1)
    BY <1>1, <1>3
  <2>2. \A m : Shown(m, enabled) = IF S(m) = {} THEN "queued" ELSE Pipeline[Max(S(m))]
    BY DEF Shown
  <2> HIDE DEF S
  <2> QED
    BY <1>3, <2>1, <2>2
<1> QED
  BY <1>2, <1>3

LEMMA ShownNone == \A enabled : Shown(0, enabled) = "queued"
BY DEF Shown

LEMMA RegisteredNext ==
    ASSUME NEW n \in 1..LastStage, NEW artifacts, NEW enabled, Registered(n - 1, artifacts, enabled),
           Pipeline[n] \in Registers /\ (Pipeline[n] # "decompiling" \/ enabled)
             => Pipeline[n] \in artifacts
    PROVE  Registered(n, artifacts, enabled)
<1>1. 1..n = (1..n - 1) \cup {n}
  BY StagesAreNames
<1> QED
  BY <1>1 DEF Registered

LEMMA RegisteredMore ==
    ASSUME NEW n, NEW few, NEW many, few \subseteq many, NEW enabled, Registered(n, few, enabled)
    PROVE  Registered(n, many, enabled)
BY DEF Registered

LEMMA PublishedNext ==
    ASSUME NEW n \in 1..LastStage
    PROVE  Published(n) <=> Published(n - 1) \/ Pipeline[n] = "aggregation"
<1>1. 1..n = (1..n - 1) \cup {n}
  BY StagesAreNames
<1> QED
  BY <1>1 DEF Published

\* The formulas of the runs, in these words.
LEMMA AnnouncedIsShown == \A n : AnnouncedUpTo(n) = Shown(n, source_enabled)
BY DEF AnnouncedUpTo, Shown, Announces

\* A failure in a stage.
LEMMA SaysLeft ==
    ASSUME NEW m, NEW findings, NEW enabled, NEW n \in Nat, NEW label \in OnItsWay,
           Says(m, findings, enabled, SoFar(label, n))
    PROVE  Left(m, enabled, n)
BY DEF OnItsWay, InStage, SoFar, Says, Left

LEMMA RaiseEnd ==
    ASSUME RunTypes, InFiles, Story, Raise, SamePlace, phase \notin {"ended", "killed", "mark_failed"},
           io # "replace", UNCHANGED <<db, manifest, tmp>>, root'
    PROVE  InFiles' /\ Story'
<1>1. InFiles'
  BY DEF InFiles, Raise, GotoPhase
<1>2. no' = no /\ source_enabled' = source_enabled
  BY DEF SamePlace
<1>3. CASE phase = "record_failed"
  <2>1. phase' = "ended" /\ db.status = "failed" /\ Left(manifest, source_enabled, no)
    BY <1>3 DEF Raise, GotoPhase, Story
  <2>2. EndedBadly'
    BY <1>2, <2>1 DEF EndedBadly, Left
  <2> QED
    BY <1>1, <2>1, <2>2 DEF Story, OnItsWay, InStage
<1>4. CASE phase # "record_failed"
  <2>1. phase' = "mark_failed" /\ phase \in OnItsWay
    BY <1>4 DEF Raise, GotoPhase, RunTypes, ScanTypes, OnItsWay, InStage, Closing
  <2>2. Left(manifest, source_enabled, no)
    <3>1. no \in Nat
      BY StagesAreNames DEF RunTypes, ScanTypes
    <3> QED
      BY <2>1, <3>1, SaysLeft DEF Story
  <2>3. Left(manifest', source_enabled', no')
    BY <1>2, <2>2
  <2> QED
    BY <1>1, <2>1, <2>3 DEF Story, OnItsWay, InStage
<1> QED
  BY <1>3, <1>4

\* The scan goes on to a phase of its way.
LEMMA GoesOnEnd ==
    ASSUME NEW label \in OnItsWay, GotoPhase(label), root', db' # NoRow, manifest' # NoFile,
           tmp' = NoFile,
           Says(manifest', db'.findings, source_enabled', SoFar(label, no')),
           label \in {"finish", "announce_finish"} => no' = LastStage,
           label = "announce_finish" => db'.status = "completed"
    PROVE  InFiles' /\ Story'
<1>1. phase' = label /\ io' = "read" /\ copy' = NoFile
  BY DEF GotoPhase
<1>2. InFiles'
  BY <1>1 DEF InFiles
<1>3. label \notin {"mark_failed", "record_failed", "ended"}
  BY DEF OnItsWay, InStage
<1> QED
  BY <1>1, <1>2, <1>3 DEF Story

LEMMA ReadingFiles ==
    ASSUME InFiles, io = "read"
    PROVE  tmp = NoFile
BY DEF InFiles

LEMMA IoOfPhase ==
    ASSUME RunTypes, phase \notin EditPhases
    PROVE  io = "read"
BY DEF RunTypes, ScanTypes

LEMMA MarkEnd ==
    ASSUME RunTypes, RunTypes', InFiles, Story, MarkStage \/ Finish
    PROVE  InFiles' /\ Story'
<1>1. PICK label \in {"announce", "announce_finish"} :
         /\ GotoPhase(label) /\ db # NoRow /\ SamePlace
         /\ UNCHANGED files /\ db'.status # "absent"
         /\ db' = [db EXCEPT !.status = db'.status, !.stage = db'.stage]
         /\ \/ label = "announce" /\ phase = "mark"
            \/ label = "announce_finish" /\ phase = "finish" /\ db'.status = "completed"
  <2>1. db # NoRow
    BY DEF InFiles
  <2>2. CASE MarkStage
    <3>1. db'.stage = StageName /\ db'.status = "running"
      BY <2>1, <2>2, UpdatesRow DEF MarkStage
    <3> QED
      BY <2>1, <2>2, <3>1 DEF MarkStage, UpdateRun
  <2>3. CASE Finish
    <3>1. db'.stage = "completed" /\ db'.status = "completed"
      BY <2>1, <2>3, UpdatesRow DEF Finish
    <3> QED
      BY <2>1, <2>3, <3>1 DEF Finish, UpdateRun
  <2> QED
    BY <2>2, <2>3
<1>2. db \in RunRows
  BY <1>1 DEF RunTypes, FileTypes
<1>3. db'.findings = db.findings
  BY <1>1, <1>2 DEF RunRows
<1>4. db' # NoRow
  BY <1>1 DEF NoRow
<1>5. /\ no' = no /\ source_enabled' = source_enabled /\ manifest' = manifest
      /\ root' = root /\ tmp' = tmp /\ tmp = NoFile /\ root /\ manifest # NoFile
  BY <1>1, IoOfPhase, ReadingFiles DEF SamePlace, files, InFiles, EditPhases
<1>6. SoFar(label, no) = SoFar(phase, no) /\ phase \in OnItsWay /\ label \in OnItsWay
  BY <1>1 DEF SoFar, OnItsWay, InStage
<1>7. Says(manifest', db'.findings, source_enabled', SoFar(label, no'))
  BY <1>3, <1>5, <1>6 DEF Story
<1>8. label = "announce_finish" => no' = LastStage
  BY <1>1, <1>5 DEF Story
<1> QED
  BY <1>1, <1>4, <1>5, <1>6, <1>7, <1>8, GoesOnEnd

LEMMA MarkFailedEnd ==
    ASSUME RunTypes, InFiles, Story, MarkFailed
    PROVE  InFiles' /\ Story'
<1>1. db # NoRow /\ root /\ manifest # NoFile
  BY DEF InFiles
<1>2. db'.status = "failed"
  BY <1>1, UpdatesRow DEF MarkFailed
<1>3. db' # NoRow
  BY <1>2 DEF NoRow
<1>4. phase' = "record_failed" /\ io' = "read" /\ copy' = NoFile /\ UNCHANGED files /\ SamePlace
  BY <1>1 DEF MarkFailed, GotoPhase
<1>5. tmp = NoFile /\ phase = "mark_failed"
  BY IoOfPhase, ReadingFiles DEF MarkFailed, EditPhases
<1>6. InFiles'
  BY <1>1, <1>3, <1>4, <1>5 DEF InFiles, files
<1>7. Left(manifest, source_enabled, no)
  BY <1>5 DEF Story
<1>8. Left(manifest', source_enabled', no')
  BY <1>4, <1>7 DEF files, SamePlace
<1> QED
  BY <1>2, <1>4, <1>6, <1>8 DEF Story, OnItsWay, InStage

\* The manifest that a phase writes.
LEMMA SameStory ==
    ASSUME Story, UNCHANGED <<db, manifest, phase>>, SamePlace
    PROVE  Story'
<1>1. /\ no' = no /\ source_enabled' = source_enabled
  BY DEF SamePlace
<1>2. SoFar(phase', no') = SoFar(phase, no)
  BY <1>1
<1>3. /\ Says(manifest', db'.findings, source_enabled', SoFar(phase', no'))
           <=> Says(manifest, db.findings, source_enabled, SoFar(phase, no))
      /\ Left(manifest', source_enabled', no') <=> Left(manifest, source_enabled, no)
  BY <1>1
<1>4. EndedWell' <=> EndedWell
  BY <1>1 DEF EndedWell
<1>5. EndedBadly' <=> EndedBadly
  BY <1>1 DEF EndedBadly
<1>6. phase' = phase /\ db' = db
  OBVIOUS
<1> QED
  BY <1>1, <1>3, <1>4, <1>5, <1>6 DEF Story

LEMMA ReadEnd ==
    ASSUME RunTypes, InFiles, Story, ReadManifest
    PROVE  InFiles' /\ Story'
<1>1. manifest # NoFile /\ UNCHANGED <<db, files>> /\ SamePlace /\ io = "read"
  BY DEF ReadManifest, InFiles
<1>2. copy' = Edited(manifest) /\ io' = "write" /\ UNCHANGED phase
  BY <1>1 DEF ReadManifest
<1>3. no' = no /\ manifest' = manifest
  BY <1>1 DEF SamePlace, files
<1>4. PICK m : m = manifest
  OBVIOUS
<1>5. Edited(m)' = Edited(m)
  BY <1>2, <1>3 DEF Edited, StageName
<1>6. copy' = Edited(manifest)'
  BY <1>2, <1>3, <1>4, <1>5 DEF Edited, StageName
<1>7. tmp' = NoFile
  BY <1>1, ReadingFiles DEF files
<1>8. InFiles'
  BY <1>1, <1>2, <1>3, <1>6, <1>7 DEF InFiles, files
<1>9. UNCHANGED <<db, manifest, phase>>
  BY <1>1, <1>2, <1>3
<1> QED
  BY <1>1, <1>8, <1>9, SameStory

LEMMA WriteEnd ==
    ASSUME RunTypes, InFiles, Story, WriteManifest
    PROVE  InFiles' /\ Story'
<1>1. UNCHANGED <<db, root, manifest>> /\ SamePlace /\ io = "write" /\ phase \in EditPhases
  BY DEF WriteManifest
<1>2. CASE tmp' = copy /\ io' = "replace" /\ UNCHANGED <<phase, copy>>
  <2>1. copy' = Edited(manifest)'
    BY <1>1, <1>2 DEF InFiles, SamePlace, Edited, StageName
  <2>2. InFiles'
    BY <1>1, <1>2, <2>1 DEF InFiles
  <2> QED
    BY <1>1, <1>2, <2>2, SameStory
<1>3. CASE Raise /\ UNCHANGED tmp
  <2>1. root'
    BY <1>1 DEF InFiles
  <2>2. phase \notin {"ended", "killed", "mark_failed"} /\ io # "replace"
    BY <1>1 DEF EditPhases
  <2> QED
    BY <1>1, <1>3, <2>1, <2>2, RaiseEnd
<1> QED
  BY <1>2, <1>3 DEF WriteManifest

\* The next tuple, and why.
LEMMA SaysAfterEdit ==
    ASSUME RunTypes, Told, phase \in EditPhases \ {"announce_finish", "record_failed"},
           NEW m \in Manifests, NEW findings, Says(m, findings, source_enabled, SoFar(phase, no))
    PROVE  Says(Edited(m), findings, source_enabled, SoFar(AfterEdit, no))
<1>1. no \in 1..LastStage /\ StageName = Pipeline[no]
  BY DEF RunTypes, ScanTypes, StageName
<1>2. CASE phase = "announce"
  <2>1. SoFar(phase, no) = <<no - 1, no - 1, no - 1, no - 1>>
    BY <1>2 DEF SoFar
  <2>2. SoFar(AfterEdit, no) = <<no - 1, no, no - 1, no - 1>>
    BY <1>2 DEF SoFar, AfterEdit
  <2>3. /\ Edited(m).stages = m.stages /\ Edited(m).stage = StageName
        /\ Edited(m).artifacts = m.artifacts
    BY <1>2 DEF Edited, Manifests
  <2>4. Announces(StageName)
    BY <1>2 DEF Told
  <2>5. Shown(no, source_enabled) = StageName
    BY <1>1, <2>4, ShownNext DEF Announces
  <2> QED
    BY <2>1, <2>2, <2>3, <2>5 DEF Says
<1>3. CASE phase = "prepare"
  <2>1. SoFar(phase, no) = <<no - 1, no, no - 1, no - 1>>
    BY <1>3 DEF SoFar
  <2>2. SoFar(AfterEdit, no) = <<no - 1, no, no - 1, no - 1>>
    BY <1>3 DEF SoFar, AfterEdit
  <2>3. /\ Edited(m).stages = m.stages /\ Edited(m).stage = m.stage
        /\ Edited(m).artifacts = m.artifacts \cup {"rule_total_count"}
    BY <1>3 DEF Edited, Manifests
  <2>4. m.artifacts \subseteq Edited(m).artifacts
    BY <2>3
  <2>5. Registered(no - 1, Edited(m).artifacts, source_enabled)
    BY <2>1, <2>4, RegisteredMore DEF Says
  <2> QED
    BY <2>1, <2>2, <2>3, <2>5 DEF Says
<1>4. CASE phase = "register"
  <2>1. SoFar(phase, no) = <<no - 1, no, no - 1, no>>
    BY <1>4 DEF SoFar
  <2>2. SoFar(AfterEdit, no) = <<no - 1, no, no, no>>
    BY <1>4 DEF SoFar, AfterEdit
  <2>3. /\ Edited(m).stages = m.stages /\ Edited(m).stage = m.stage
        /\ Edited(m).artifacts = m.artifacts \cup {Pipeline[no]}
    BY <1>1, <1>4 DEF Edited, Manifests
  <2>4. m.artifacts \subseteq Edited(m).artifacts /\ Pipeline[no] \in Edited(m).artifacts
    BY <2>3
  <2>5. Registered(no - 1, Edited(m).artifacts, source_enabled)
    BY <2>1, <2>4, RegisteredMore DEF Says
  <2>6. Registered(no, Edited(m).artifacts, source_enabled)
    BY <1>1, <2>4, <2>5, RegisteredNext
  <2> QED
    BY <2>1, <2>2, <2>3, <2>6 DEF Says
<1>5. CASE phase = "record"
  <2>1. SoFar(phase, no) = <<no - 1, no, no, no>>
    BY <1>5 DEF SoFar
  <2>2. SoFar(AfterEdit, no) = <<no, no, no, no>>
    BY <1>5 DEF SoFar, AfterEdit
  <2>3. /\ Edited(m).stages = Append(m.stages, Pipeline[no]) /\ Edited(m).stage = m.stage
        /\ Edited(m).artifacts = m.artifacts
    BY <1>1, <1>5 DEF Edited, Manifests
  <2>4. RecordedUpTo(no) = Append(RecordedUpTo(no - 1), Pipeline[no])
    BY <1>1, RecordedNext
  <2> QED
    BY <2>1, <2>2, <2>3, <2>4 DEF Says
<1> QED
  BY <1>2, <1>3, <1>4, <1>5 DEF EditPhases

LEMMA ReplaceEnd ==
    ASSUME RunTypes, InFiles, Story, Told, ReplaceManifest
    PROVE  InFiles' /\ Story'
<1>1. /\ UNCHANGED <<db, root>> /\ SamePlace /\ io = "replace" /\ phase \in EditPhases
      /\ root /\ db # NoRow
  BY DEF ReplaceManifest, InFiles
<1>2. tmp = copy /\ copy = Edited(manifest) /\ copy \in Manifests /\ manifest \in Manifests
  BY <1>1 DEF InFiles, RunTypes, ScanTypes, FileTypes
<1>3. tmp # NoFile
  BY <1>2, FileOrNot
<1>4. manifest' = Edited(manifest) /\ tmp' = NoFile /\ GotoPhase(AfterEdit)
  BY <1>2, <1>3 DEF ReplaceManifest
<1>5. manifest' # NoFile /\ manifest' \in Manifests
  BY <1>2, <1>3, <1>4
<1>6. no' = no /\ source_enabled' = source_enabled /\ no \in 1..LastStage /\ no \in Nat
  BY <1>1, StagesAreNames DEF SamePlace, RunTypes, ScanTypes
<1>7. CASE phase \notin {"announce_finish", "record_failed"}
  <2>1. Says(manifest, db.findings, source_enabled, SoFar(phase, no))
    BY <1>1, <1>7 DEF Story, EditPhases, OnItsWay, InStage
  <2>2. Says(Edited(manifest), db.findings, source_enabled, SoFar(AfterEdit, no))
    BY <1>1, <1>2, <1>7, <2>1, SaysAfterEdit
  <2>3. PICK label : label = AfterEdit
    OBVIOUS
  <2>4. label \in {"prepare", "work", "record", "after"}
    BY <1>1, <1>7, <2>3 DEF AfterEdit, EditPhases
  <2>5. Says(manifest', db'.findings, source_enabled', SoFar(label, no'))
    BY <1>1, <1>4, <1>6, <2>2, <2>3
  <2>6. label \in OnItsWay
    BY <2>4 DEF OnItsWay, InStage
  <2>7. GotoPhase(label) /\ root' /\ db' # NoRow
    BY <1>1, <1>4, <2>3
  <2> QED
    BY <1>4, <1>5, <2>4, <2>5, <2>6, <2>7, GoesOnEnd
<1>8. CASE phase \in {"announce_finish", "record_failed"}
  <2>1. phase' = "ended" /\ io' = "read" /\ copy' = NoFile
    BY <1>4, <1>8 DEF AfterEdit, GotoPhase
  <2>2. InFiles'
    BY <1>1, <1>4, <1>5, <2>1 DEF InFiles
  <2>3. CASE phase = "announce_finish"
    <3>1. /\ manifest'.stages = manifest.stages /\ manifest'.artifacts = manifest.artifacts
          /\ manifest'.status = "completed" /\ manifest'.stage = "completed"
      BY <1>2, <1>4, <2>3 DEF Edited, Manifests
    <3>2. Says(manifest, db.findings, source_enabled, <<no, no, no, no>>)
      BY <2>3 DEF Story, OnItsWay, SoFar
    <3>3. no = LastStage /\ db.status = "completed"
      BY <2>3 DEF Story
    <3>4. EndedWell'
      BY <1>1, <1>6, <3>1, <3>2, <3>3 DEF EndedWell, Says
    <3> QED
      BY <2>1, <2>2, <3>4 DEF Story, OnItsWay, InStage
  <2>4. CASE phase = "record_failed"
    <3>1. manifest'.stages = Append(manifest.stages, "failed") /\ manifest'.stage = manifest.stage
      BY <1>2, <1>4, <2>4 DEF Edited, Manifests
    <3>2. Left(manifest, source_enabled, no) /\ db.status = "failed"
      BY <2>4 DEF Story
    <3>3. EndedBadly'
      BY <1>1, <1>6, <3>1, <3>2 DEF EndedBadly, Left
    <3> QED
      BY <2>1, <2>2, <3>3 DEF Story, OnItsWay, InStage
  <2> QED
    BY <1>8, <2>3, <2>4
<1> QED
  BY <1>7, <1>8

LEMMA WorkEnd ==
    ASSUME RunTypes, InFiles, Story, Work
    PROVE  InFiles' /\ Story'
<1>1. /\ UNCHANGED <<manifest, tmp>> /\ SamePlace /\ phase = "work" /\ root' /\ root
      /\ db # NoRow /\ manifest # NoFile
  BY DEF Work, MakeDirs, InFiles
<1>2. tmp = NoFile /\ io = "read"
  BY <1>1, IoOfPhase, ReadingFiles DEF EditPhases
<1>3. /\ no' = no /\ source_enabled' = source_enabled /\ no \in 1..LastStage
      /\ StageName = Pipeline[no]
  BY <1>1 DEF SamePlace, RunTypes, ScanTypes, StageName
<1>4. CASE Raise /\ UNCHANGED db
  BY <1>1, <1>2, <1>4, RaiseEnd
<1>5. CASE /\ db' = IF StageName = "aggregation" THEN [db EXCEPT !.findings = TRUE] ELSE db
           /\ \/ StageName \in Registers \cup MayRegister /\ GotoPhase("register")
              \/ StageName \notin Registers /\ GotoPhase("record")
  <2>1. db \in RunRows
    BY <1>1 DEF RunTypes, FileTypes
  <2>2. /\ StageName = "aggregation" => db'.findings = TRUE /\ db'.status = db.status
        /\ StageName # "aggregation" => db' = db
    BY <1>5, <2>1 DEF RunRows
  <2>3. db.status # "absent"
    BY <2>1 DEF RunRows
  <2>4. db' # NoRow
    BY <1>1, <2>2, <2>3 DEF NoRow
  <2>5. Says(manifest, db.findings, source_enabled, <<no - 1, no, no - 1, no - 1>>)
    BY <1>1 DEF Story, OnItsWay, InStage, SoFar
  <2>6. db'.findings <=> Published(no)
    <3>1. CASE StageName = "aggregation"
      BY <1>3, <2>2, <3>1, PublishedNext
    <3>2. CASE StageName # "aggregation"
      BY <1>3, <2>2, <2>5, <3>2, PublishedNext DEF Says
    <3> QED
      BY <3>1, <3>2
  <2>7. Says(manifest, db'.findings, source_enabled, <<no - 1, no, no - 1, no>>)
    BY <2>5, <2>6 DEF Says
  <2>8. CASE GotoPhase("register")
    <3>1. Says(manifest', db'.findings, source_enabled', SoFar("register", no'))
      BY <1>1, <1>3, <2>7 DEF SoFar
    <3>2. "register" \in OnItsWay
      BY DEF OnItsWay, InStage
    <3> QED
      BY <1>1, <1>2, <2>4, <2>8, <3>1, <3>2, GoesOnEnd
  <2>9. CASE StageName \notin Registers /\ GotoPhase("record")
    <3>1. Registered(no, manifest.artifacts, source_enabled)
      BY <1>3, <2>5, <2>9, RegisteredNext DEF Says
    <3>2. Says(manifest, db'.findings, source_enabled, <<no - 1, no, no, no>>)
      BY <2>7, <3>1 DEF Says
    <3>3. Says(manifest', db'.findings, source_enabled', SoFar("record", no'))
      BY <1>1, <1>3, <3>2 DEF SoFar
    <3>4. "record" \in OnItsWay
      BY DEF OnItsWay, InStage
    <3> QED
      BY <1>1, <1>2, <2>4, <2>9, <3>3, <3>4, GoesOnEnd
  <2> QED
    BY <1>5, <2>8, <2>9
<1> QED
  BY <1>4, <1>5 DEF Work

\* Where a stage begins.
LEMMA SaysFirst ==
    ASSUME NEW n \in 1..LastStage, NEW m, NEW findings, NEW enabled,
           Says(m, findings, enabled, <<n - 1, n - 1, n - 1, n - 1>>)
    PROVE  /\ Says(m, findings, enabled, SoFar("mark", n))
           /\ Pipeline[n] = "decompiling" /\ ~enabled =>
                Says(m, findings, enabled, SoFar("record", n))
<1>1. Says(m, findings, enabled, SoFar("mark", n))
  BY DEF SoFar
<1>2. ASSUME Pipeline[n] = "decompiling", ~enabled
      PROVE  Says(m, findings, enabled, SoFar("record", n))
  <2>1. Shown(n, enabled) = Shown(n - 1, enabled)
    BY <1>2, ShownNext
  <2>2. Registered(n, m.artifacts, enabled)
    BY <1>2, RegisteredNext DEF Says
  <2>3. Published(n) <=> Published(n - 1)
    BY <1>2, PublishedNext
  <2>4. Says(m, findings, enabled, <<n - 1, n, n, n>>)
    BY <2>1, <2>2, <2>3 DEF Says
  <2> QED
    BY <2>4 DEF SoFar
<1> QED
  BY <1>1, <1>2

LEMMA AfterEnd ==
    ASSUME RunTypes, InFiles, Story, After
    PROVE  InFiles' /\ Story'
<1>1. /\ UNCHANGED <<db, manifest, tmp>> /\ phase = "after" /\ root'
      /\ db # NoRow /\ manifest # NoFile
  BY DEF After, MakeDirs, InFiles
<1>2. tmp = NoFile /\ io = "read"
  BY <1>1, IoOfPhase, ReadingFiles DEF EditPhases
<1>3. no \in 1..LastStage /\ LastStage \in Nat
  BY StagesAreNames DEF RunTypes, ScanTypes
<1>4. Says(manifest, db.findings, source_enabled, <<no, no, no, no>>)
  BY <1>1 DEF Story, OnItsWay, InStage, SoFar
<1>5. CASE Raise /\ SamePlace
  BY <1>1, <1>2, <1>5, RaiseEnd
<1>6. CASE NextStage /\ no = LastStage
  <2>1. GotoPhase("finish") /\ no' = no /\ source_enabled' = source_enabled
    BY <1>6 DEF NextStage, SamePlace
  <2>2. Says(manifest', db'.findings, source_enabled', SoFar("finish", no'))
    BY <1>1, <1>4, <2>1 DEF SoFar
  <2>3. "finish" \in OnItsWay
    BY DEF OnItsWay
  <2> QED
    BY <1>1, <1>2, <1>6, <2>1, <2>2, <2>3, GoesOnEnd
<1>7. CASE NextStage /\ no # LastStage
  <2>1. PICK n : n = no + 1
    OBVIOUS
  <2>2. /\ no' = n /\ source_enabled' = source_enabled /\ GotoPhase(FirstPhase(Pipeline[n]))
        /\ n \in 1..LastStage /\ n - 1 = no
    BY <1>3, <1>7, <2>1 DEF NextStage
  <2>3. /\ Says(manifest, db.findings, source_enabled, SoFar("mark", n))
        /\ Pipeline[n] = "decompiling" /\ ~source_enabled =>
             Says(manifest, db.findings, source_enabled, SoFar("record", n))
    BY <1>4, <2>2, SaysFirst
  <2>4. CASE Announces(Pipeline[n])
    <3>1. GotoPhase("mark") /\ "mark" \in OnItsWay
      BY <2>2, <2>4 DEF FirstPhase, OnItsWay, InStage
    <3>2. Says(manifest', db'.findings, source_enabled', SoFar("mark", no'))
      BY <1>1, <2>2, <2>3
    <3> QED
      BY <1>1, <1>2, <3>1, <3>2, GoesOnEnd
  <2>5. CASE ~Announces(Pipeline[n])
    <3>1. GotoPhase("record") /\ "record" \in OnItsWay
      BY <2>2, <2>5 DEF FirstPhase, OnItsWay, InStage
    <3>2. Says(manifest', db'.findings, source_enabled', SoFar("record", no'))
      BY <1>1, <2>2, <2>3, <2>5 DEF Announces
    <3> QED
      BY <1>1, <1>2, <3>1, <3>2, GoesOnEnd
  <2> QED
    BY <2>4, <2>5
<1> QED
  BY <1>5, <1>6, <1>7 DEF After

LEMMA EndInit == RunInit => EndInv
<1> SUFFICES ASSUME RunInit PROVE EndInv
  OBVIOUS
<1>1. AheadInv /\ RunTypes
  BY AheadInit, RunInitTypes
<1>2. /\ root /\ tmp = NoFile /\ io = "read" /\ copy = NoFile /\ no = 1
      /\ db.findings = FALSE /\ db.status = "queued"
      /\ manifest.status = "queued" /\ manifest.stage = "queued"
      /\ manifest.stages = << >> /\ manifest.artifacts = {}
  BY DEF RunInit, NoFile
<1>3. db # NoRow
  BY <1>2 DEF NoRow
<1>4. manifest # NoFile
  BY <1>2 DEF NoFile
<1>5. InFiles
  BY <1>2, <1>3, <1>4 DEF InFiles
<1>6. 1 \in 1..LastStage
  BY StagesAreNames
<1>7. Says(manifest, db.findings, source_enabled, <<1 - 1, 1 - 1, 1 - 1, 1 - 1>>)
  <2>1. ~Published(0) /\ Registered(0, manifest.artifacts, source_enabled)
    BY DEF Published, Registered
  <2> QED
    BY <1>2, <2>1, RecordedEnds, ShownNone DEF Says
<1>8. Says(manifest, db.findings, source_enabled, SoFar(phase, no))
  <2>1. /\ Says(manifest, db.findings, source_enabled, SoFar("mark", 1))
        /\ Pipeline[1] = "decompiling" /\ ~source_enabled =>
             Says(manifest, db.findings, source_enabled, SoFar("record", 1))
    BY <1>6, <1>7, SaysFirst
  <2> QED
    BY <1>2, <2>1 DEF RunInit, FirstPhase, Announces, StageName
<1>9. phase \in {"mark", "record"}
  BY FirstPhases DEF RunInit
<1>10. Story
  BY <1>8, <1>9 DEF Story
<1> QED
  BY <1>1, <1>5, <1>10 DEF EndInv

\* A cleanup that was asked for stays so.
LEMMA IdleStays ==
    ASSUME RunTypes, RunNext, Undisturbed'
    PROVE  Undisturbed /\ ScanStep
<1>1. \A k \in Cleaners : ~BeginCleanup(k)
  <2> SUFFICES ASSUME NEW k \in Cleaners, BeginCleanup(k) PROVE FALSE
    OBVIOUS
  <2>1. cpc'[k] \in {"failed", "note"}
    BY DEF BeginCleanup, CGoto, RunTypes, CleanupTypes
  <2> QED
    BY <2>1 DEF Undisturbed
<1>2. \A k \in Cleaners : ~CleanupStep(k)
  <2> SUFFICES ASSUME NEW k \in Cleaners, CleanupStep(k) PROVE FALSE
    OBVIOUS
  <2>1. cpc'[k] # "idle"
    <3>1. CASE RemoveTarget(k)
      BY <3>1 DEF RemoveTarget
    <3>2. CASE Stops(k)
      BY <3>2 DEF Stops, CStop, CGoto, RunTypes, CleanupTypes
    <3>3. CASE Continues(k) \/ Finishes(k)
      BY <3>3 DEF Continues, Finishes, CGoto, RunTypes, CleanupTypes
    <3> QED
      BY <3>1, <3>2, <3>3, CleanupMoves
  <2> QED
    BY <2>1 DEF Undisturbed
<1>3. ~Kill
  <2> SUFFICES ASSUME Kill PROVE FALSE
    OBVIOUS
  <2>1. ~Ended => phase' = "killed"
    BY DEF Kill, GotoPhase
  <2>2. \A k \in Active : cpc'[k] = "killed"
    BY DEF Kill, Active
  <2> QED
    BY <2>1, <2>2 DEF Undisturbed, Kill, Active
<1>4. ScanStep
  BY <1>1, <1>2, <1>3 DEF RunNext
<1>5. cpc' = cpc
  BY <1>4 DEF ScanStep, MarkStage, ReadManifest, WriteManifest, ReplaceManifest, Work, After,
              Finish, MarkFailed, cleanups
<1>6. phase # "killed"
  BY <1>4 DEF ScanStep, MarkStage, ReadManifest, WriteManifest, ReplaceManifest, Work, After,
              Finish, MarkFailed, EditPhases
<1> QED
  BY <1>4, <1>5, <1>6 DEF Undisturbed

LEMMA EndStep == EndInv /\ [RunNext]_run_vars => EndInv'
<1> SUFFICES ASSUME EndInv, [RunNext]_run_vars PROVE EndInv'
  OBVIOUS
<1>1. AheadInv /\ AheadInv' /\ RunTypes /\ RunTypes'
  BY AheadStep DEF EndInv, AheadInv
<1> SUFFICES ASSUME Undisturbed' PROVE InFiles' /\ Story'
  BY <1>1 DEF EndInv
<1>2. CASE UNCHANGED run_vars
  <2>1. UNCHANGED <<db, root, manifest, tmp, io, copy, phase, no, source_enabled, cpc>>
    BY <1>2 DEF run_vars, files, scan, cleanups
  <2>2. Undisturbed
    BY <2>1 DEF Undisturbed
  <2>3. InFiles /\ Story
    BY <2>2 DEF EndInv
  <2>4. Story'
    BY <2>1, <2>3, SameStory DEF SamePlace
  <2>5. Edited(manifest)' = Edited(manifest)
    BY <2>1 DEF Edited, StageName
  <2>6. InFiles'
    BY <2>1, <2>3, <2>5 DEF InFiles
  <2> QED
    BY <2>4, <2>6
<1>3. CASE RunNext
  <2>1. Undisturbed /\ ScanStep
    BY <1>1, <1>3, IdleStays
  <2>2. InFiles /\ Story
    BY <2>1 DEF EndInv
  <2>3. Told
    BY <1>1, <2>2 DEF AheadInv, AllBehind, InFiles
  <2> QED
    BY <1>1, <2>1, <2>2, <2>3, MarkEnd, MarkFailedEnd, ReadEnd, WriteEnd, ReplaceEnd, WorkEnd,
       AfterEnd DEF ScanStep
<1> QED
  BY <1>2, <1>3

\* A scan that no cleanup ran into, and that the server lived to see the end of,
\* is recorded whole when it completed and can be located when it failed, for
\* any pipeline, with source analysis or without, whichever writes fail.
THEOREM EndsAreRecorded == RunSpec => []EndIsRecorded
<1>1. RunSpec => []EndInv
  BY EndInit, EndStep, PTL DEF RunSpec
<1>2. EndInv => EndIsRecorded
  <2> SUFFICES ASSUME EndInv, phase = "ended", \A k \in Cleaners : cpc[k] = "idle"
               PROVE  CompletedIsWhole /\ FailureIsLocatable
    BY DEF EndIsRecorded
  <2>1. EndedWell \/ EndedBadly
    BY DEF EndInv, Undisturbed, Story
  <2>2. CASE EndedWell
    <3>1. manifest.stages = Pipeline
      BY <2>2, RecordedEnds DEF EndedWell
    <3>2. \A s \in Stages \cap Registers :
            s \in manifest.artifacts \cup (IF source_enabled THEN {} ELSE {"decompiling"})
      <4> TAKE s \in Stages \cap Registers
      <4>1. PICK i \in 1..LastStage : s = Pipeline[i]
        BY StagesAreNames
      <4> QED
        BY <2>2, <4>1 DEF EndedWell, Registered
    <3>3. db.findings \in BOOLEAN
      BY <2>2, StagesAreNames DEF EndedWell, EndInv, AheadInv, RunTypes, FileTypes, RunRows, NoRow
    <3>4. db.findings <=> "aggregation" \in Stages
      BY <2>2, StagesAreNames DEF EndedWell, Published
    <3>5. CompletedIsWhole
      BY <2>2, <3>1, <3>2, <3>3, <3>4 DEF CompletedIsWhole, EndedWell
    <3> QED
      BY <2>2, <3>5 DEF FailureIsLocatable, EndedWell
  <2>3. CASE EndedBadly
    BY <2>3, AnnouncedIsShown DEF EndedBadly, FailureIsLocatable, CompletedIsWhole
  <2> QED
    BY <2>1, <2>2, <2>3
<1> QED
  BY <1>1, <1>2, PTL
-----------------------------------------------------------------------------
(***************************************************************************)
(* What a completed cleanup removed stays away.                            *)
(***************************************************************************)

\* What a finished cleanup promises of everything that may become the manifest.
CleanedBy(k, how, m) ==
    m # NoFile => /\ m.history[k] = "completed"
                  /\ how = "clear_sensitive_content" => m.cleared /\ m.stages = << >>
AllCleaned(k) ==
    /\ CleanedBy(k, mode[k], manifest) /\ CleanedBy(k, mode[k], tmp)
    /\ \A j \in Cleaners : CleanedBy(k, mode[k], ccopy[j])

Sweeping == {"targets", "result_replace", "findings"}

\* How far a cleanup has come that nothing else ran into.
SoFarCleaned(k) ==
    /\ cpc[k] \in {"idle", "note", "note_replace"} => ~errors[k]
    /\ cpc[k] \in {"targets", "result_replace"} => mode[k] # "delete_run"
    /\ cpc[k] = "findings" => mode[k] = "clear_sensitive_content"
    /\ cpc[k] \in {"list", "tree", "row"} => mode[k] = "delete_run"
    /\ cpc[k] \in Sweeping \cup {"done"} /\ mode[k] # "delete_run" /\ ~errors[k] =>
         dirs \cap (Targets(k) \ todo[k]) = {}
    /\ cpc[k] \notin {"targets", "tree"} => todo[k] = {}
    /\ cpc[k] = "result_replace" => tmp = Result(k)
    /\ cpc[k] \in {"findings", "done"} /\ mode[k] # "delete_run" /\ ~errors[k] => AllCleaned(k)
    /\ cpc[k] = "row" => ~root
    /\ cpc[k] = "done" /\ mode[k] = "clear_sensitive_content" => ~db.findings
    /\ cpc[k] = "done" /\ mode[k] = "delete_run" => ~root /\ db = NoRow

\* A directory that is gone has nothing in it.
NothingWithoutRoot == ~root => dirs = {} /\ manifest = NoFile /\ tmp = NoFile

\* While it is under way nothing else is, and the scan is over for good.
Solo ==
    \A k \in Cleaners : k \notin overlapped =>
        /\ cpc[k] \notin CleanupDone => Active = {k}
        /\ cpc[k] \notin CleanupDone \/ cpc[k] = "done" => Ended
        /\ SoFarCleaned(k)

SoloInv == RunTypes /\ NothingWithoutRoot /\ Solo

LEMMA NotedCleaned ==
    ASSUME NEW m \in Manifests, NEW k \in Cleaners, NEW j \in Cleaners, j # k, NEW how,
           NEW note \in {"cleanup_in_progress", "partial", "completed"}, CleanedBy(k, how, m)
    PROVE  /\ CleanedBy(k, how, [m EXCEPT !.history[j] = note])
           /\ CleanedBy(k, how, [m EXCEPT !.history[j] = note, !.stages = << >>,
                                          !.artifacts = {}, !.cleared = TRUE])
<1>1. m # NoFile /\ m.history[k] = "completed"
  BY FileOrNot DEF CleanedBy
<1>2. PICK h : h = [m.history EXCEPT ![j] = note]
  OBVIOUS
<1>3. h[k] = "completed"
  BY <1>1, <1>2 DEF Manifests
<1>4. PICK n : n = [m EXCEPT !.history = h]
  OBVIOUS
<1>5. n.history = h /\ n.stages = m.stages
  BY <1>4 DEF Manifests
<1>6. n.cleared = m.cleared
  BY <1>4 DEF Manifests
<1>7. CleanedBy(k, how, n)
  <2>1. how = "clear_sensitive_content" => m.cleared /\ m.stages = << >>
    BY <1>1 DEF CleanedBy
  <2>2. how = "clear_sensitive_content" => n.cleared
    BY <1>6, <2>1
  <2> QED
    BY <1>3, <1>5, <2>1, <2>2 DEF CleanedBy
<1>8. PICK c : c = [m EXCEPT !.history = h, !.stages = << >>, !.artifacts = {}, !.cleared = TRUE]
  OBVIOUS
<1>9. c.history = h /\ c.stages = << >>
  BY <1>8 DEF Manifests
<1>10. c.cleared = TRUE
  BY <1>8 DEF Manifests
<1>11. CleanedBy(k, how, c)
  BY <1>3, <1>9, <1>10 DEF CleanedBy
<1> QED
  BY <1>2, <1>4, <1>7, <1>8, <1>11

LEMMA NothingIsClean == \A k, how : CleanedBy(k, how, NoFile)
BY DEF CleanedBy

\* What the scan has in hand when it is over: nothing.
LEMMA EndedIdle ==
    ASSUME RunTypes, Ended
    PROVE  ~ScanStep /\ copy = NoFile
<1>1. phase \notin EditPhases
  BY DEF Ended, EditPhases
<1>2. copy = NoFile
  BY <1>1 DEF RunTypes, ScanTypes
<1> QED
  BY <1>1, <1>2 DEF Ended, ScanStep, MarkStage, ReadManifest, WriteManifest, ReplaceManifest,
                    Work, After, Finish, MarkFailed

\* Without the scan, things only go away.
LEMMA OnlyRemoves ==
    ASSUME RunTypes, RunNext, ~ScanStep
    PROVE  /\ dirs' \subseteq dirs /\ (root' => root)
           /\ db' \in {db, NoRow, [db EXCEPT !.findings = FALSE]}
           /\ Ended => Ended'
<1>1. CASE Kill
  BY <1>1 DEF Kill, files, GotoPhase, Ended
<1>2. CASE \E k \in Cleaners : BeginCleanup(k)
  BY <1>2 DEF BeginCleanup, files, scan, Ended
<1>3. ASSUME NEW k \in Cleaners, CleanupStep(k)
      PROVE  /\ dirs' \subseteq dirs /\ (root' => root)
             /\ db' \in {db, NoRow, [db EXCEPT !.findings = FALSE]}
             /\ Ended => Ended'
  <2>1. phase' = phase
    BY <1>3, CleanupFrame DEF scan
  <2>2. dirs' \subseteq dirs /\ (root' => root)
    BY <1>3 DEF CleanupStep, WriteNote, ReplaceNote, RemoveTarget, WriteResult, ReplaceResult,
                ClearFindings, ListTree, RemoveEntry, RemoveRoot, DeleteRow, files
  <2>3. db' \in {db, NoRow, [db EXCEPT !.findings = FALSE]}
    BY <1>3 DEF CleanupStep, WriteNote, ReplaceNote, RemoveTarget, WriteResult, ReplaceResult,
                ClearFindings, ListTree, RemoveEntry, RemoveRoot, DeleteRow
  <2> QED
    BY <2>1, <2>2, <2>3 DEF Ended
<1> QED
  BY <1>1, <1>2, <1>3 DEF RunNext

\* A cleanup that is not under way, in a step that is not its own.
Resting(k) ==
    /\ cpc[k] \in CleanupDone /\ cpc'[k] = cpc[k] /\ mode'[k] = mode[k]
    /\ errors'[k] = errors[k] /\ todo'[k] = {}

LEMMA NoFindings ==
    ASSUME RunTypes, ~db.findings, db' \in {db, NoRow, [db EXCEPT !.findings = FALSE]}
    PROVE  ~db'.findings
<1>1. CASE db' = db
  BY <1>1
<1>2. CASE db' = NoRow
  BY <1>2, FileOrNot
<1>3. CASE db' = [db EXCEPT !.findings = FALSE] /\ db # NoRow
  BY <1>3 DEF RunTypes, FileTypes, RunRows
<1>4. CASE db' = [db EXCEPT !.findings = FALSE] /\ db = NoRow
  BY <1>4, NoRowStays, FileOrNot
<1> QED
  BY <1>1, <1>2, <1>3, <1>4

LEMMA RestingStays ==
    ASSUME RunTypes, NEW k \in Cleaners, SoFarCleaned(k), Resting(k), RunNext,
           cpc[k] = "done" => Ended
    PROVE  SoFarCleaned(k)'
<1>1. CASE cpc[k] # "done"
  BY <1>1 DEF SoFarCleaned, Resting, CleanupDone, Sweeping
<1>2. CASE cpc[k] = "done"
  <2>1. ~ScanStep /\ copy = NoFile
    BY <1>2, EndedIdle
  <2>2. /\ dirs' \subseteq dirs /\ (root' => root)
        /\ db' \in {db, NoRow, [db EXCEPT !.findings = FALSE]}
    BY <2>1, OnlyRemoves
  <2>3. Targets(k)' = Targets(k)
    BY DEF Targets, Resting
  <2>4. todo[k] = {}
    BY <1>2 DEF SoFarCleaned
  <2>5. ASSUME mode[k] # "delete_run", ~errors[k]
        PROVE  dirs' \cap (Targets(k)' \ todo'[k]) = {}
    BY <1>2, <2>2, <2>3, <2>4, <2>5 DEF SoFarCleaned, Resting
  <2>6. ASSUME mode[k] = "clear_sensitive_content"
        PROVE  ~db'.findings
    BY <1>2, <2>2, <2>6, NoFindings DEF SoFarCleaned
  <2>7. ASSUME mode[k] = "delete_run"
        PROVE  ~root' /\ db' = NoRow
    BY <1>2, <2>2, <2>7, NoRowStays DEF SoFarCleaned
  <2>8. ASSUME mode[k] # "delete_run", ~errors[k]
        PROVE  AllCleaned(k)'
    <3>1. PICK how : how = mode[k]
      OBVIOUS
    <3>2. /\ CleanedBy(k, how, manifest) /\ CleanedBy(k, how, tmp)
          /\ \A j \in Cleaners : CleanedBy(k, how, ccopy[j])
      BY <1>2, <2>8, <3>1 DEF SoFarCleaned, AllCleaned
    <3>3. FileSources
      BY StepSources
    <3>4. CleanedBy(k, how, manifest')
      BY <3>2, <3>3, NothingIsClean DEF FileSources
    <3>5. CleanedBy(k, how, tmp')
      <4>1. ASSUME NEW j \in Cleaners, cpc[j] = "targets"
            PROVE  CleanedBy(k, how, Result(j))
        <5>1. ccopy[j] \in Manifests /\ j # k
          BY <1>2, <4>1 DEF RunTypes, CleanupTypes, Holding
        <5>2. Outcome(j) \in {"partial", "completed"}
          BY DEF Outcome
        <5> QED
          BY <3>2, <5>1, <5>2, NotedCleaned DEF Result
      <4> QED
        BY <2>1, <3>2, <3>3, <4>1, NothingIsClean DEF FileSources
    <3>6. \A j \in Cleaners : CleanedBy(k, how, ccopy'[j])
      <4> TAKE j \in Cleaners
      <4>1. CASE ccopy'[j] \in {NoFile, ccopy[j]}
        BY <3>2, <4>1, NothingIsClean
      <4>2. CASE /\ manifest # NoFile /\ ~(ccopy'[j] \in {NoFile, ccopy[j]})
                 /\ ccopy'[j] = [manifest EXCEPT !.history[j] = "cleanup_in_progress"]
        <5>1. manifest \in Manifests
          BY <4>2 DEF RunTypes, FileTypes
        <5>2. j # k
          <6> SUFFICES ASSUME j = k PROVE FALSE
            OBVIOUS
          <6>1. cpc'[k] = "done"
            BY <1>2 DEF Resting
          <6>2. ccopy'[k] = NoFile
            BY <6>1, RunTypesStep DEF RunTypes, CleanupTypes, Holding
          <6> QED
            BY <4>2, <6>2
        <5>3. CleanedBy(k, how, [manifest EXCEPT !.history[j] = "cleanup_in_progress"])
          BY <3>2, <5>1, <5>2, NotedCleaned
        <5> QED
          BY <4>2, <5>3
      <4> QED
        BY <3>3, <4>1, <4>2 DEF FileSources
    <3>7. mode'[k] = how
      BY <3>1 DEF Resting
    <3> QED
      BY <3>4, <3>5, <3>6, <3>7 DEF AllCleaned
  <2> QED
    BY <1>2, <2>5, <2>6, <2>7, <2>8 DEF SoFarCleaned, Resting, Sweeping
<1> QED
  BY <1>1, <1>2

\* The steps of a cleanup that nothing else runs into.
LEMMA OwnRemoval ==
    ASSUME RunTypes, NEW k \in Cleaners, SoFarCleaned(k), RemoveTarget(k)
    PROVE  SoFarCleaned(k)'
<1>1. /\ cpc[k] = "targets" /\ cpc' = cpc /\ mode' = mode
      /\ Targets(k)' = Targets(k)
  BY DEF RemoveTarget, Targets
<1>2. PICK d \in todo[k] :
        /\ todo' = [todo EXCEPT ![k] = @ \ {d}]
        /\ \/ dirs' = dirs \ {d} /\ UNCHANGED errors
           \/ errors' = [errors EXCEPT ![k] = TRUE] /\ UNCHANGED dirs
  BY DEF RemoveTarget
<1>3. todo'[k] = todo[k] \ {d}
  BY <1>2 DEF RunTypes, CleanupTypes
<1>4. mode[k] # "delete_run"
  BY <1>1 DEF SoFarCleaned
<1>5. CASE dirs' = dirs \ {d} /\ UNCHANGED errors
  <2>1. ~errors[k] => dirs \cap (Targets(k) \ todo[k]) = {}
    BY <1>1, <1>4 DEF SoFarCleaned, Sweeping
  <2>2. ~errors'[k] => dirs' \cap (Targets(k)' \ todo'[k]) = {}
    BY <1>1, <1>3, <1>5, <2>1
  <2> QED
    BY <1>1, <1>4, <2>2 DEF SoFarCleaned, Sweeping
<1>6. CASE errors' = [errors EXCEPT ![k] = TRUE]
  <2>1. errors'[k]
    BY <1>6 DEF RunTypes, CleanupTypes
  <2> QED
    BY <1>1, <1>4, <2>1 DEF SoFarCleaned, Sweeping
<1> QED
  BY <1>2, <1>5, <1>6

\* What the steps but the removals lead to, for the cleanup itself.
Leads(k, label, left) ==
    /\ cpc'[k] = label /\ todo'[k] = left
    /\ mode' = mode /\ errors' = errors /\ Targets(k)' = Targets(k)

LEMMA StopLeads ==
    ASSUME CleanupTypes, NEW k \in Cleaners, NEW label, CStop(k, label), UNCHANGED <<mode, errors>>
    PROVE  Leads(k, label, {}) /\ ccopy'[k] = NoFile
BY DEF CleanupTypes, CStop, CGoto, Leads, Targets

LEMMA GoesOnLeads ==
    ASSUME CleanupTypes, NEW k \in Cleaners, NEW label, CGoto(k, label),
           NEW left, todo' = [todo EXCEPT ![k] = left], UNCHANGED <<mode, errors>>
    PROVE  Leads(k, label, left)
BY DEF CleanupTypes, CGoto, Leads, Targets

LEMMA SameLeads ==
    ASSUME CleanupTypes, NEW k \in Cleaners, NEW label, CGoto(k, label),
           UNCHANGED <<todo, mode, errors>>
    PROVE  Leads(k, label, todo[k])
BY DEF CleanupTypes, CGoto, Leads, Targets

LEMMA OwnNote ==
    ASSUME RunTypes, NEW k \in Cleaners, SoFarCleaned(k), WriteNote(k) \/ ReplaceNote(k)
    PROVE  SoFarCleaned(k)'
<1>1. CleanupTypes /\ ~errors[k] /\ todo[k] = {}
  BY DEF RunTypes, SoFarCleaned, WriteNote, ReplaceNote
<1>2. UNCHANGED <<mode, errors>>
  BY DEF WriteNote, ReplaceNote
<1>3. \/ Leads(k, "failed", {})
      \/ Leads(k, "note_replace", {})
      \/ Leads(k, "list", {}) /\ mode[k] = "delete_run"
      \/ Leads(k, "targets", Targets(k)) /\ mode[k] # "delete_run"
  <2>1. CASE WriteNote(k)
    BY <1>1, <1>2, <2>1, StopLeads, SameLeads DEF WriteNote
  <2>2. CASE ReplaceNote(k)
    BY <1>1, <1>2, <2>2, StopLeads, GoesOnLeads DEF ReplaceNote
  <2> QED
    BY <2>1, <2>2
<1>4. CASE Leads(k, "failed", {}) \/ Leads(k, "note_replace", {})
  BY <1>1, <1>4 DEF SoFarCleaned, Leads, Sweeping
<1>5. CASE Leads(k, "list", {}) /\ mode[k] = "delete_run"
  BY <1>1, <1>5 DEF SoFarCleaned, Leads, Sweeping
<1>6. CASE Leads(k, "targets", Targets(k)) /\ mode[k] # "delete_run"
  <2>1. dirs' \cap (Targets(k)' \ todo'[k]) = {}
    BY <1>6 DEF Leads
  <2> QED
    BY <1>1, <1>6, <2>1 DEF SoFarCleaned, Leads, Sweeping
<1> QED
  BY <1>3, <1>4, <1>5, <1>6

LEMMA OwnResult ==
    ASSUME RunTypes, NEW k \in Cleaners, SoFarCleaned(k), WriteResult(k)
    PROVE  SoFarCleaned(k)'
<1>1. /\ CleanupTypes /\ cpc[k] = "targets" /\ todo[k] = {}
      /\ UNCHANGED <<dirs, mode, errors>>
  BY DEF RunTypes, WriteResult
<1>2. mode[k] # "delete_run" /\ (~errors[k] => dirs \cap (Targets(k) \ todo[k]) = {})
  BY <1>1 DEF SoFarCleaned, Sweeping
<1>3. CASE CStop(k, "failed")
  <2>1. Leads(k, "failed", {})
    BY <1>1, <1>3, StopLeads
  <2> QED
    BY <2>1 DEF SoFarCleaned, Leads, Sweeping
<1>4. CASE tmp' = Result(k) /\ CGoto(k, "result_replace") /\ UNCHANGED <<ccopy, todo>>
  <2>1. Leads(k, "result_replace", {})
    BY <1>1, <1>4, SameLeads
  <2>2. Result(k)' = Result(k)
    BY <1>1, <1>4 DEF Result, Outcome
  <2>3. ~errors'[k] => dirs' \cap (Targets(k)' \ todo'[k]) = {}
    BY <1>1, <1>2, <2>1 DEF Leads
  <2>4. mode'[k] # "delete_run"
    BY <1>1, <1>2
  <2> QED
    BY <1>4, <2>1, <2>2, <2>3, <2>4 DEF SoFarCleaned, Leads, Sweeping
<1> QED
  BY <1>3, <1>4 DEF WriteResult

LEMMA ResultCleaned ==
    ASSUME RunTypes, NEW k \in Cleaners, cpc[k] = "result_replace", ~errors[k]
    PROVE  CleanedBy(k, mode[k], Result(k))
<1>1. PICK m : m = ccopy[k]
  OBVIOUS
<1>2. m \in Manifests
  BY <1>1 DEF RunTypes, CleanupTypes, Holding
<1>3. Outcome(k) = "completed"
  BY DEF Outcome
<1>4. PICK h : h = [m.history EXCEPT ![k] = "completed"]
  OBVIOUS
<1>5. h[k] = "completed"
  BY <1>2, <1>4 DEF Manifests
<1>6. CASE mode[k] = "clear_sensitive_content"
  <2>1. PICK c : c = [m EXCEPT !.history = h, !.stages = << >>, !.artifacts = {}, !.cleared = TRUE]
    OBVIOUS
  <2>2. c.history = h /\ c.stages = << >>
    BY <1>2, <2>1 DEF Manifests
  <2>3. c.cleared = TRUE
    BY <1>2, <2>1 DEF Manifests
  <2>4. Result(k) = c
    BY <1>1, <1>3, <1>4, <1>6, <2>1 DEF Result
  <2> QED
    BY <1>5, <2>2, <2>3, <2>4 DEF CleanedBy
<1>7. CASE mode[k] # "clear_sensitive_content"
  <2>1. PICK n : n = [m EXCEPT !.history = h]
    OBVIOUS
  <2>2. n.history = h
    BY <1>2, <2>1 DEF Manifests
  <2>3. Result(k) = n
    BY <1>1, <1>3, <1>4, <1>7, <2>1 DEF Result
  <2> QED
    BY <1>5, <1>7, <2>2, <2>3 DEF CleanedBy
<1> QED
  BY <1>6, <1>7

LEMMA OthersHoldNothing ==
    ASSUME CleanupTypes, NEW k \in Cleaners, Active = {k}, NEW j \in Cleaners, j # k
    PROVE  ccopy[j] = NoFile
BY DEF CleanupTypes, Active, CleanupDone, Holding

LEMMA OwnReplace ==
    ASSUME RunTypes, NEW k \in Cleaners, SoFarCleaned(k), Active = {k}, ReplaceResult(k)
    PROVE  SoFarCleaned(k)'
<1>1. /\ CleanupTypes /\ cpc[k] = "result_replace" /\ todo[k] = {} /\ tmp = Result(k)
      /\ mode[k] # "delete_run" /\ UNCHANGED <<dirs, mode, errors>>
      /\ (~errors[k] => dirs \cap (Targets(k) \ todo[k]) = {})
  BY DEF RunTypes, ReplaceResult, SoFarCleaned, Sweeping
<1>2. tmp # NoFile
  BY <1>1, ResultTypes, FileOrNot DEF Holding
<1>3. PICK label : /\ label = IF mode[k] = "clear_sensitive_content" THEN "findings" ELSE "done"
                   /\ CStop(k, label)
  BY <1>2 DEF ReplaceResult
<1>4. manifest' = tmp /\ tmp' = NoFile
  BY <1>2 DEF ReplaceResult
<1>5. Leads(k, label, {}) /\ ccopy'[k] = NoFile
  BY <1>1, <1>3, StopLeads
<1>6. \A j \in Cleaners : ccopy'[j] = NoFile
  BY <1>1, <1>3, <1>5, OthersHoldNothing DEF CStop, CleanupTypes
<1>7. ASSUME ~errors[k]
      PROVE  AllCleaned(k)'
  <2>1. CleanedBy(k, mode'[k], manifest')
    BY <1>1, <1>4, <1>7, ResultCleaned
  <2> QED
    BY <1>4, <1>6, <2>1, NothingIsClean DEF AllCleaned
<1>8. ~errors'[k] => dirs' \cap (Targets(k)' \ todo'[k]) = {}
  BY <1>1, <1>5 DEF Leads
<1> QED
  BY <1>1, <1>3, <1>5, <1>7, <1>8 DEF SoFarCleaned, Leads, Sweeping

LEMMA OwnClear ==
    ASSUME RunTypes, NEW k \in Cleaners, SoFarCleaned(k), ClearFindings(k)
    PROVE  SoFarCleaned(k)'
<1>1. /\ CleanupTypes /\ cpc[k] = "findings" /\ todo[k] = {}
      /\ mode[k] = "clear_sensitive_content"
      /\ UNCHANGED <<files, mode, ccopy, todo, errors>> /\ CGoto(k, "done")
      /\ db' = [db EXCEPT !.findings = FALSE]
  BY DEF RunTypes, ClearFindings, SoFarCleaned
<1>2. Leads(k, "done", {})
  BY <1>1, SameLeads
<1>3. /\ ~errors[k] => AllCleaned(k)
      /\ ~errors[k] => dirs \cap (Targets(k) \ todo[k]) = {}
  BY <1>1 DEF SoFarCleaned, Sweeping
<1>4. ~errors[k] => AllCleaned(k)'
  BY <1>1, <1>3 DEF AllCleaned, files
<1>5. ~db'.findings
  <2>1. CASE db = NoRow
    BY <1>1, <2>1, NoRowStays, FileOrNot
  <2>2. CASE db # NoRow
    BY <1>1, <2>2 DEF RunTypes, FileTypes, RunRows
  <2> QED
    BY <2>1, <2>2
<1>6. ~errors'[k] => dirs' \cap (Targets(k)' \ todo'[k]) = {}
  BY <1>1, <1>2, <1>3 DEF Leads, files
<1> QED
  BY <1>1, <1>2, <1>4, <1>5, <1>6 DEF SoFarCleaned, Leads, Sweeping

LEMMA OwnDeletion ==
    ASSUME RunTypes, NothingWithoutRoot, NEW k \in Cleaners, SoFarCleaned(k),
           ListTree(k) \/ RemoveEntry(k) \/ RemoveRoot(k) \/ DeleteRow(k)
    PROVE  SoFarCleaned(k)'
<1>1. CleanupTypes /\ mode[k] = "delete_run" /\ UNCHANGED <<mode, errors>>
  BY DEF RunTypes, SoFarCleaned, ListTree, RemoveEntry, RemoveRoot, DeleteRow
<1>2. CASE ListTree(k)
  <2>1. CASE root
    <3>1. Leads(k, "tree", Entries)
      BY <1>1, <1>2, <2>1, GoesOnLeads DEF ListTree
    <3> QED
      BY <1>1, <3>1 DEF SoFarCleaned, Leads, Sweeping
  <2>2. CASE ~root
    <3>1. Leads(k, "row", Entries)
      BY <1>1, <1>2, <2>2, GoesOnLeads DEF ListTree
    <3>2. Entries = {} /\ root' = root
      BY <1>2, <2>2 DEF NothingWithoutRoot, Entries, ListTree, files
    <3> QED
      BY <1>1, <2>2, <3>1, <3>2 DEF SoFarCleaned, Leads, Sweeping
  <2> QED
    BY <2>1, <2>2
<1>3. CASE RemoveEntry(k)
  <2>1. CASE CStop(k, "failed")
    <3>1. Leads(k, "failed", {})
      BY <1>1, <2>1, StopLeads
    <3> QED
      BY <1>1, <3>1 DEF SoFarCleaned, Leads, Sweeping
  <2>2. CASE UNCHANGED cpc
    BY <1>1, <1>3, <2>2 DEF SoFarCleaned, Sweeping, RemoveEntry
  <2> QED
    BY <1>3, <2>1, <2>2 DEF RemoveEntry
<1>4. CASE RemoveRoot(k)
  <2>1. \/ Leads(k, "failed", {})
        \/ Leads(k, "row", {}) /\ ~root'
    BY <1>1, <1>4, StopLeads DEF RemoveRoot
  <2> QED
    BY <1>1, <2>1 DEF SoFarCleaned, Leads, Sweeping
<1>5. CASE DeleteRow(k)
  <2>1. Leads(k, "done", todo[k])
    BY <1>1, <1>5, SameLeads DEF DeleteRow
  <2>2. ~root /\ todo[k] = {} /\ root' = root /\ db' = NoRow
    BY <1>5 DEF SoFarCleaned, DeleteRow, files
  <2> QED
    BY <1>1, <2>1, <2>2 DEF SoFarCleaned, Leads, Sweeping
<1> QED
  BY <1>2, <1>3, <1>4, <1>5

LEMMA OwnStep ==
    ASSUME RunTypes, NothingWithoutRoot, NEW k \in Cleaners, SoFarCleaned(k), Active = {k}, CleanupStep(k)
    PROVE  SoFarCleaned(k)'
BY OwnRemoval, OwnNote, OwnResult, OwnReplace, OwnClear, OwnDeletion DEF CleanupStep

LEMMA RootStep ==
    ASSUME RunTypes, NothingWithoutRoot, RunNext
    PROVE  NothingWithoutRoot'
<1> SUFFICES ASSUME ~root' PROVE dirs' = {} /\ manifest' = NoFile /\ tmp' = NoFile
  BY DEF NothingWithoutRoot
<1>1. CASE Kill
  BY <1>1 DEF Kill, files, NothingWithoutRoot
<1>2. CASE \E k \in Cleaners : BeginCleanup(k)
  BY <1>2 DEF BeginCleanup, files, NothingWithoutRoot
<1>3. CASE \E k \in Cleaners : RemoveRoot(k)
  BY <1>3 DEF RemoveRoot, Entries, NothingWithoutRoot
<1>4. ASSUME NEW k \in Cleaners, CleanupStep(k), ~RemoveRoot(k)
      PROVE  dirs' = {} /\ manifest' = NoFile /\ tmp' = NoFile
  <2>1. root' = root
    BY <1>4 DEF CleanupStep, WriteNote, ReplaceNote, RemoveTarget, WriteResult, ReplaceResult,
                ClearFindings, ListTree, RemoveEntry, DeleteRow, files
  <2>2. dirs = {} /\ manifest = NoFile /\ tmp = NoFile /\ ~root
    BY <2>1 DEF NothingWithoutRoot
  <2>3. dirs' \subseteq dirs
    BY <1>4 DEF CleanupStep, WriteNote, ReplaceNote, RemoveTarget, WriteResult, ReplaceResult,
                ClearFindings, ListTree, RemoveEntry, DeleteRow, files
  <2>4. manifest' \in {NoFile, manifest, tmp}
    BY <1>4 DEF CleanupStep, WriteNote, ReplaceNote, RemoveTarget, WriteResult, ReplaceResult,
                ClearFindings, ListTree, RemoveEntry, DeleteRow, files
  <2>5. tmp' \in {NoFile, tmp}
    BY <1>4, <2>2 DEF CleanupStep, WriteNote, ReplaceNote, RemoveTarget, WriteResult, ReplaceResult,
                ClearFindings, ListTree, RemoveEntry, DeleteRow, files
  <2> QED
    BY <2>2, <2>3, <2>4, <2>5
<1>5. CASE ScanStep
  <2>1. CASE Work \/ After
    <3>1. PICK made : MakeDirs(made)
      BY <2>1 DEF Work, After
    <3>2. made = {} /\ ~root
      BY <3>1 DEF MakeDirs
    <3> QED
      BY <2>1, <3>1, <3>2 DEF Work, After, MakeDirs, NothingWithoutRoot
  <2>2. CASE WriteManifest
    BY <2>2 DEF WriteManifest, NothingWithoutRoot
  <2>3. CASE ReplaceManifest
    BY <2>3 DEF ReplaceManifest, NothingWithoutRoot
  <2>4. CASE MarkStage \/ ReadManifest \/ Finish \/ MarkFailed
    BY <2>4 DEF MarkStage, ReadManifest, Finish, MarkFailed, files, NothingWithoutRoot
  <2> QED
    BY <1>5, <2>1, <2>2, <2>3, <2>4 DEF ScanStep
<1> QED
  BY <1>1, <1>2, <1>3, <1>4, <1>5 DEF RunNext

\* A step of another cleanup touches only what is its own.
LEMMA StepOfAnother ==
    ASSUME RunTypes, NEW j \in Cleaners, CleanupStep(j), NEW k \in Cleaners, k # j
    PROVE  /\ cpc'[k] = cpc[k] /\ errors'[k] = errors[k] /\ todo'[k] = todo[k]
           /\ mode' = mode
<1>1. mode' = mode
  BY CleanupFrame
<1>2. CASE RemoveTarget(j)
  BY <1>1, <1>2 DEF RemoveTarget, RunTypes, CleanupTypes
<1>3. CASE ~RemoveTarget(j)
  <2>1. UNCHANGED errors /\ (Stops(j) \/ Continues(j) \/ Finishes(j))
    BY <1>3, CleanupMoves
  <2>2. CASE Stops(j)
    BY <1>1, <2>1, <2>2 DEF Stops, CStop, CGoto, RunTypes, CleanupTypes
  <2>3. CASE Continues(j)
    BY <1>1, <2>1, <2>3 DEF Continues, CGoto, RunTypes, CleanupTypes
  <2>4. CASE Finishes(j)
    BY <1>1, <2>1, <2>4 DEF Finishes, CGoto, RunTypes, CleanupTypes
  <2> QED
    BY <2>1, <2>2, <2>3, <2>4
<1> QED
  BY <1>2, <1>3

SoloIs(k) ==
    /\ cpc[k] \notin CleanupDone => Active = {k}
    /\ cpc[k] \notin CleanupDone \/ cpc[k] = "done" => Ended
    /\ SoFarCleaned(k)

LEMMA SoloStep == SoloInv /\ [RunNext]_run_vars => SoloInv'
<1> SUFFICES ASSUME SoloInv, [RunNext]_run_vars PROVE SoloInv'
  OBVIOUS
<1>1. RunTypes /\ RunTypes' /\ NothingWithoutRoot
  BY RunTypesStep DEF SoloInv
<1>2. CASE UNCHANGED run_vars
  <2>1. UNCHANGED <<db, root, dirs, manifest, tmp, phase, cpc, mode, ccopy, todo, errors, overlapped>>
    BY <1>2 DEF run_vars, files, scan, cleanups, history
  <2>2. NothingWithoutRoot'
    BY <1>1, <2>1 DEF NothingWithoutRoot
  <2>3. Active' = Active /\ (Ended' <=> Ended)
    BY <2>1 DEF Active, Ended
  <2>4. ASSUME NEW k \in Cleaners, SoFarCleaned(k)
        PROVE  SoFarCleaned(k)'
    <3>1. Targets(k)' = Targets(k) /\ Result(k)' = Result(k) /\ (AllCleaned(k)' <=> AllCleaned(k))
      BY <2>1 DEF Targets, Result, Outcome, AllCleaned
    <3> QED
      BY <2>1, <2>4, <3>1 DEF SoFarCleaned
  <2>5. Solo'
    BY <2>1, <2>3, <2>4 DEF SoloInv, Solo
  <2> QED
    BY <1>1, <2>2, <2>5 DEF SoloInv
<1>3. CASE RunNext
  <2>1. NothingWithoutRoot'
    BY <1>1, <1>3, RootStep
  <2> SUFFICES ASSUME NEW k \in Cleaners, k \notin overlapped' PROVE SoloIs(k)'
    BY <1>1, <2>1 DEF SoloInv, Solo, SoloIs
  <2>2. overlapped \subseteq overlapped'
    <3>1. \A j \in Cleaners : CleanupStep(j) => overlapped' = overlapped
      BY CleanupFrame
    <3> QED
      BY <1>3, <3>1 DEF RunNext, ScanStep, MarkStage, ReadManifest, WriteManifest, ReplaceManifest,
                        Work, After, Finish, MarkFailed, history, BeginCleanup, Kill
  <2>3. SoloIs(k)
    BY <2>2 DEF SoloInv, Solo, SoloIs
  <2>4. CASE ScanStep
    <3>1. ~Ended
      BY <1>1, <2>4, EndedIdle
    <3>2. UNCHANGED cleanups
      BY <2>4 DEF ScanStep, MarkStage, ReadManifest, WriteManifest, ReplaceManifest,
                  Work, After, Finish, MarkFailed
    <3>3. cpc[k] \in CleanupDone /\ cpc[k] # "done" /\ UNCHANGED <<cpc, mode, todo, errors>>
      BY <2>3, <3>1, <3>2 DEF SoloIs, cleanups
    <3>4. todo[k] = {}
      BY <2>3, <3>3 DEF SoloIs, SoFarCleaned, CleanupDone
    <3>5. SoFarCleaned(k)'
      BY <1>1, <1>3, <2>3, <3>3, <3>4, RestingStays DEF Resting, SoloIs
    <3> QED
      BY <3>3, <3>5 DEF SoloIs
  <2>5. CASE Kill
    <3>1. /\ cpc'[k] = IF k \in Active THEN "killed" ELSE cpc[k]
          /\ todo'[k] = {} /\ UNCHANGED <<mode, errors>>
      BY <2>5 DEF Kill
    <3>2. CASE k \in Active
      BY <3>1, <3>2 DEF SoloIs, SoFarCleaned, CleanupDone, Sweeping
    <3>3. CASE k \notin Active
      <4>1. cpc[k] \in CleanupDone
        BY <3>3 DEF Active
      <4>2. SoFarCleaned(k)'
        BY <1>1, <1>3, <2>3, <3>1, <3>3, <4>1, RestingStays DEF Resting, SoloIs
      <4>3. Ended => Ended'
        BY <2>5 DEF Kill, GotoPhase, Ended
      <4> QED
        BY <2>3, <3>1, <3>3, <4>1, <4>2, <4>3 DEF SoloIs
    <3> QED
      BY <3>2, <3>3
  <2>6. ASSUME NEW j \in Cleaners, BeginCleanup(j)
        PROVE  SoloIs(k)'
    <3>1. /\ cpc[j] = "idle" /\ UNCHANGED <<dirs, tmp, todo, errors>> /\ UNCHANGED scan
          /\ \/ cpc' = [cpc EXCEPT ![j] = "failed"]
             \/ /\ cpc' = [cpc EXCEPT ![j] = "note"]
                /\ j \in overlapped' \/ (Active = {} /\ Ended)
                /\ Active \subseteq overlapped'
      BY <2>6 DEF BeginCleanup, CGoto, files
    <3>2. Ended' <=> Ended
      BY <3>1 DEF scan, Ended
    <3>3. CASE j = k
      <4>1. cpc'[k] \in {"failed", "note"}
        BY <1>1, <3>1, <3>3 DEF RunTypes, CleanupTypes
      <4>2. ~errors'[k] /\ todo'[k] = {}
        BY <2>3, <3>1, <3>3 DEF SoloIs, SoFarCleaned
      <4>3. SoFarCleaned(k)'
        BY <4>1, <4>2 DEF SoFarCleaned, Sweeping
      <4>4. CASE cpc'[k] = "note"
        <5>1. cpc' = [cpc EXCEPT ![k] = "note"]
          BY <1>1, <3>1, <3>3, <4>4 DEF RunTypes, CleanupTypes
        <5>2. Active = {} /\ Ended
          BY <1>1, <3>1, <3>3, <4>4 DEF RunTypes, CleanupTypes
        <5>3. Active' = {k}
          BY <1>1, <5>1, <5>2 DEF Active, RunTypes, CleanupTypes, CleanupDone
        <5> QED
          BY <3>2, <4>3, <5>2, <5>3 DEF SoloIs
      <4> QED
        BY <4>1, <4>3, <4>4 DEF SoloIs, CleanupDone
    <3>4. CASE j # k
      <4>1. cpc'[k] = cpc[k] /\ mode'[k] = mode[k] /\ errors'[k] = errors[k] /\ todo'[k] = todo[k]
        BY <1>1, <2>6, <3>1, <3>4 DEF BeginCleanup, RunTypes, CleanupTypes
      <4>2. CASE cpc[k] \in CleanupDone
        <5>1. todo[k] = {}
          BY <2>3, <4>2 DEF SoloIs, SoFarCleaned, CleanupDone
        <5>2. SoFarCleaned(k)'
          BY <1>1, <1>3, <2>3, <4>1, <4>2, <5>1, RestingStays DEF Resting, SoloIs
        <5> QED
          BY <2>3, <3>2, <4>1, <4>2, <5>2 DEF SoloIs
      <4>3. CASE cpc[k] \notin CleanupDone
        <5>1. cpc' = [cpc EXCEPT ![j] = "failed"] /\ cpc'[j] = "failed"
          BY <1>1, <3>1, <4>3 DEF Active, RunTypes, CleanupTypes
        <5>2. Active' = Active
          BY <1>1, <3>1, <5>1 DEF Active, RunTypes, CleanupTypes, CleanupDone
        <5>3. UNCHANGED <<db, root, dirs, manifest, tmp, ccopy, errors, todo>>
          BY <2>6, <3>1, <5>1 DEF BeginCleanup, files, CGoto, RunTypes, CleanupTypes
        <5>4. Targets(k)' = Targets(k) /\ Result(k)' = Result(k) /\ (AllCleaned(k)' <=> AllCleaned(k))
          BY <4>1, <5>3 DEF Targets, Result, Outcome, AllCleaned
        <5>5. SoFarCleaned(k)'
          BY <2>3, <4>1, <5>3, <5>4 DEF SoloIs, SoFarCleaned
        <5> QED
          BY <2>3, <3>2, <4>1, <5>2, <5>5 DEF SoloIs
      <4> QED
        BY <4>2, <4>3
    <3> QED
      BY <3>3, <3>4
  <2>7. ASSUME NEW j \in Cleaners, CleanupStep(j)
        PROVE  SoloIs(k)'
    <3>1. j \in Active
      BY <2>7 DEF CleanupStep, WriteNote, ReplaceNote, RemoveTarget, WriteResult, ReplaceResult,
                  ClearFindings, ListTree, RemoveEntry, RemoveRoot, DeleteRow, Active, CleanupDone
    <3>2. Ended' <=> Ended
      BY <2>7, CleanupFrame DEF scan, Ended
    <3>3. CASE j = k
      <4>1. Active = {k} /\ Ended /\ SoFarCleaned(k)
        BY <2>3, <3>1, <3>3 DEF SoloIs, Active
      <4>2. SoFarCleaned(k)'
        BY <1>1, <2>7, <3>3, <4>1, OwnStep
      <4>3. \A i \in Cleaners : i # k => cpc'[i] = cpc[i]
        BY <1>1, <2>7, <3>3, StepOfAnother
      <4>4. Active' \subseteq {k}
        BY <4>1, <4>3 DEF Active
      <4> QED
        BY <3>2, <4>1, <4>2, <4>4 DEF SoloIs, Active
    <3>4. CASE j # k
      <4>1. /\ cpc'[k] = cpc[k] /\ errors'[k] = errors[k] /\ todo'[k] = todo[k]
            /\ mode' = mode
        BY <1>1, <2>7, <3>4, StepOfAnother
      <4>2. cpc[k] \in CleanupDone
        BY <2>3, <3>1, <3>4 DEF SoloIs
      <4>3. todo[k] = {}
        BY <2>3, <4>2 DEF SoloIs, SoFarCleaned, CleanupDone
      <4>4. SoFarCleaned(k)'
        BY <1>1, <1>3, <2>3, <4>1, <4>2, <4>3, RestingStays DEF Resting, SoloIs
      <4> QED
        BY <2>3, <3>2, <4>1, <4>2, <4>4 DEF SoloIs
    <3> QED
      BY <3>3, <3>4
  <2> QED
    BY <1>3, <2>4, <2>5, <2>6, <2>7 DEF RunNext
<1> QED
  BY <1>2, <1>3

LEMMA SoloInit == RunInit => SoloInv
<1> SUFFICES ASSUME RunInit PROVE SoloInv
  OBVIOUS
<1>1. NothingWithoutRoot
  BY DEF RunInit, NothingWithoutRoot
<1>2. Solo
  BY DEF RunInit, Solo, SoFarCleaned, CleanupDone, Sweeping
<1> QED
  BY <1>1, <1>2, RunInitTypes DEF SoloInv

\* A cleanup that nothing else ran into, and that says completed, did what its
\* mode says, and what it removed stays away, whatever cleanups follow: for any
\* number of cleanups, any directories and any faults.
THEOREM CleanupsHold == RunSpec => []CleanupHolds
<1>1. RunSpec => []SoloInv
  BY SoloInit, SoloStep, PTL DEF RunSpec
<1>2. SoloInv => CleanupHolds
  <2> SUFFICES ASSUME SoloInv, NEW k \in Cleaners, cpc[k] = "done", Alone(k), ~errors[k]
               PROVE  /\ mode[k] = "delete_run" => db = NoRow /\ ~root
                      /\ mode[k] # "delete_run" => dirs \cap Targets(k) = {}
                      /\ mode[k] # "delete_run" /\ manifest # NoFile =>
                            manifest.history[k] = "completed"
                      /\ mode[k] = "clear_sensitive_content" =>
                            /\ ~db.findings
                            /\ manifest # NoFile => manifest.cleared /\ manifest.stages = << >>
    BY DEF CleanupHolds
  <2>1. SoFarCleaned(k)
    BY DEF SoloInv, Solo, Alone
  <2>2. todo[k] = {}
    BY <2>1 DEF SoFarCleaned
  <2>3. mode[k] # "delete_run" => dirs \cap Targets(k) = {}
    BY <2>1, <2>2 DEF SoFarCleaned, Sweeping
  <2>4. mode[k] # "delete_run" => CleanedBy(k, mode[k], manifest)
    BY <2>1 DEF SoFarCleaned, AllCleaned
  <2>5. mode[k] = "clear_sensitive_content" => ~db.findings
    BY <2>1 DEF SoFarCleaned
  <2>6. mode[k] = "delete_run" => db = NoRow /\ ~root
    BY <2>1 DEF SoFarCleaned
  <2> QED
    BY <2>3, <2>4, <2>5, <2>6 DEF CleanedBy
<1> QED
  BY <1>1, <1>2, PTL
-----------------------------------------------------------------------------
(***************************************************************************)
(* Batch, for any assets, batches, calls of run_batch and concurrency.  The *)
(* claim is what everything hangs on: a batch has one caller that works on  *)
(* it, a caller that does not has started nothing, and one that has         *)
(* returned has left nothing on its way.                                    *)
(***************************************************************************)

Labels == {"none", "waiting", "ingesting", "scanning", "ended"}
RunRecords == [status : {"none", "running", "completed", "failed", "deleted"},
               skip_reason : {"none", "batch_budget", "batch_wall_clock"},
               spent : 0..MaxRequestsPerRun, counted : BOOLEAN]
Final == {"completed", "failed", "deleted"}

Works(r) == runner[r] \in {"running", "returned"}
Holders(r) == {a \in Assets : pc[r][a] \in {"ingesting", "scanning"}}

\* TypeOK without the upper end of the semaphores, which needs the count below.
Types ==
    /\ status \in [Batches -> {"pending", "running"} \cup Terminal]
    /\ max_ai_calls \in [Batches -> MaxAiCallsChoices]
    /\ max_concurrent_runs \in MaxConcurrentRunsChoices
    /\ runner \in [Runners -> {"called", "conflict", "running", "returned"}]
    /\ semaphore \in [Runners -> Nat]
    /\ pc \in [Runners -> [Assets -> Labels]]
    /\ run \in [Runners -> [Assets -> RunRecords]]
    /\ asset_status \in [Assets -> {"ready", "scanning", "error"}]
    /\ ai_used \in Nat

\* One caller works on a batch.
OneWorker ==
    \A r1, r2 \in Runners :
        BatchOf[r1] = BatchOf[r2] /\ Works(r1) /\ Works(r2) => r1 = r2

\* The claim is in the row, and the row is final only when its worker is back.
RowOfWorker ==
    \A r \in Runners :
        /\ Works(r) => status[BatchOf[r]] # "pending"
        /\ runner[r] = "running" => status[BatchOf[r]] = "running"

\* Where the coroutines of a caller may be.
Coroutines ==
    \A r \in Runners, a \in Assets :
        /\ ~Works(r) \/ a \notin AssetsIn(r) => pc[r][a] = "none"
        /\ runner[r] = "returned" => pc[r][a] \in {"none", "ended"}

\* A run exists from the end of its copy, and is over when its coroutine is.
RunFollows ==
    \A r \in Runners, a \in Assets :
        /\ pc[r][a] \in {"none", "waiting", "ingesting"} => run[r][a].status = "none"
        /\ pc[r][a] = "ended" => run[r][a].status # "running"

ScanningIsScanned ==
    \A a \in Assets : asset_status[a] = "scanning" => \E r \in Runners : pc[r][a] = "scanning"

\* Every permit that is not in the semaphore is held by a coroutine.
Permits ==
    \A r \in Runners : semaphore[r] + Cardinality(Holders(r)) = max_concurrent_runs

\* Only a run that has ended has sent requests.
SpentAtTheEnd ==
    \A r \in Runners, a \in Assets :
        pc[r][a] # "ended" => run[r][a].spent = 0 /\ run[r][a].counted

\* What a batch recorded was counted against its cap, and the cap leaves room
\* for the scans that may send requests and have not ended.
InFlight(r) == {a \in Holders(r) : run[r][a].skip_reason = "none"}
RecordedIsCounted == \A b \in Batches : Recorded(b) <= ai_used
RoomInFlight ==
    \A r \in Runners :
        max_ai_calls[BatchOf[r]] > 0 =>
            Recorded(BatchOf[r]) + Cardinality(InFlight(r)) * MaxRequestsPerRun
                <= max_ai_calls[BatchOf[r]] - 1 + max_concurrent_runs * MaxRequestsPerRun

CapParts == RecordedIsCounted /\ RoomInFlight /\ SoftCap

IInv == /\ Types
        /\ OneWorker
        /\ RowOfWorker
        /\ Coroutines
        /\ RunFollows
        /\ ScanningIsScanned
        /\ Permits
        /\ SpentAtTheEnd
        /\ CapParts
-----------------------------------------------------------------------------
\* A set in which any two elements are equal has at most one.
LEMMA AtMostOne ==
    ASSUME NEW S, \A x, y \in S : x = y
    PROVE  IsFiniteSet(S) /\ Cardinality(S) <= 1
<1>1. CASE S = {}
  BY <1>1, FS_EmptySet
<1>2. CASE S # {}
  <2>0. PICK x \in S : TRUE
    BY <1>2
  <2>1. S = {x}
    OBVIOUS
  <2>2. IsFiniteSet(S) /\ Cardinality(S) = 1
    BY <2>1, FS_Singleton, Zenon
  <2> QED
    BY <2>2
<1> QED
  BY <1>1, <1>2

LEMMA HoldersFinite ==
    ASSUME NEW r
    PROVE  IsFiniteSet(Holders(r)) /\ Cardinality(Holders(r)) \in Nat
<1>1. Holders(r) \in SUBSET Assets /\ IsFiniteSet(Assets)
  BY BatchAssumption DEF Holders
<1> QED
  BY <1>1, FS_Subset, FS_CardinalityType

\* The soft cap.  Recorded is a sum over all pairs of a caller and an asset, of
\* which a step of a coroutine changes one.

Pairs == Runners \X Assets
Spending(b) ==
    [p \in Pairs |-> IF BatchOf[p[1]] = b /\ run[p[1]][p[2]].counted
                     THEN run[p[1]][p[2]].spent ELSE 0]

LEMMA PairsFinite == IsFiniteSet(Pairs)
BY FS_Product, BatchAssumption DEF Pairs

LEMMA SpendingType ==
    ASSUME Types, NEW b
    PROVE  Spending(b) \in [Pairs -> Nat]
<1>1. ASSUME NEW p \in Pairs PROVE run[p[1]][p[2]].spent \in Nat
  BY BatchAssumption DEF Types, RunRecords, Pairs
<1> QED
  BY <1>1 DEF Spending

LEMMA RecordedIsSum ==
    ASSUME Types, NEW b
    PROVE  Recorded(b) = SumFunctionOnSet(Spending(b), Pairs) /\ Recorded(b) \in Nat
<1> DEFINE T == {p \in RunsOf(b) : run[p[1]][p[2]].counted}
           Rec(t) == t = [S \in SUBSET T |->
                            IF S = {} THEN 0
                            ELSE run[Some(S)[1]][Some(S)[2]].spent + t[S \ {Some(S)}]]
<1>1. T \in SUBSET Pairs /\ IsFiniteSet(T)
  BY PairsFinite, FS_Subset DEF RunsOf, Pairs
<1>2. \A p \in T : Spending(b)[p] = run[p[1]][p[2]].spent
  BY <1>1 DEF Spending, RunsOf
<1>3. ASSUME NEW t PROVE Rec(t) <=> Totals(t, Spending(b), SUBSET T)
  <2>1. ASSUME NEW S \in SUBSET T, S # {}
        PROVE  Spending(b)[Some(S)] = run[Some(S)[1]][Some(S)[2]].spent
    <3>1. Some(S) \in T
      BY <2>1 DEF Some
    <3> HIDE DEF T
    <3> QED
      BY <1>2, <3>1
  <2> HIDE DEF T
  <2>2. [S \in SUBSET T |-> IF S = {} THEN 0
                            ELSE run[Some(S)[1]][Some(S)[2]].spent + t[S \ {Some(S)}]]
        = [S \in SUBSET T |-> IF S = {} THEN 0
                              ELSE Spending(b)[Some(S)] + t[S \ {Some(S)}]]
    BY <2>1
  <2> QED
    BY <2>2 DEF Totals
<1>4. Recorded(b) = (CHOOSE t : Rec(t))[T]
  BY Zenon DEF Recorded, MapThenSumSet, MapThenFoldSet, Some
<1>7. \A p \in Pairs \ T : Spending(b)[p] = 0
  BY DEF T, Spending, RunsOf, Pairs
<1> HIDE DEF Rec, T
<1>5. Totals((CHOOSE t : Rec(t)), Spending(b), SUBSET T)
  <2>1. \E t : Totals(t, Spending(b), SUBSET T)
    BY <1>1, TotalExists
  <2>2. \E t : Rec(t)
    BY <1>3, <2>1
  <2> QED
    BY <1>3, <2>2, Zenon
<1>6. Recorded(b) = SumFunctionOnSet(Spending(b), T)
  <2>1. PICK t : t = (CHOOSE u : Rec(u))
    OBVIOUS
  <2>2. PICK f : f = Spending(b)
    OBVIOUS
  <2>3. Totals(t, f, SUBSET T)
    BY <1>5, <2>1, <2>2
  <2>4. SumFunctionOnSet(f, T) = t[T]
    <3>1. \A S \in SUBSET T : SumFunctionOnSet(f, S) = t[S]
      BY <1>1, <2>3, SumIsTotal
    <3>2. T \in SUBSET T
      OBVIOUS
    <3> QED
      BY <3>1, <3>2
  <2> QED
    BY <1>4, <2>1, <2>2, <2>4
<1>8. SumFunctionOnSet(Spending(b), Pairs) = SumFunctionOnSet(Spending(b), T)
  BY <1>1, <1>7, SpendingType, PairsFinite, SumOfPart
<1> QED
  BY <1>6, <1>8, SpendingType, PairsFinite, SumTakes

SpendingsAreTyped == \A b : Spending(b) \in [Pairs -> Nat]

LEMMA SpendingInAnyState == Types => SpendingsAreTyped
BY SpendingType DEF SpendingsAreTyped

RecordedIsASum ==
    \A b : Recorded(b) = SumFunctionOnSet(Spending(b), Pairs) /\ Recorded(b) \in Nat

LEMMA SumInAnyState == Types => RecordedIsASum
BY RecordedIsSum DEF RecordedIsASum

\* The same runs, the same sum.
LEMMA RecordedStays ==
    ASSUME Types, Types', NEW b,
           \A r \in Runners, a \in Assets :
               /\ run'[r][a].spent = run[r][a].spent
               /\ run'[r][a].counted = run[r][a].counted
    PROVE  Recorded(b)' = Recorded(b)
<1>1. Spending(b)' = Spending(b)
  BY DEF Spending, Pairs
<1>2. Recorded(b)' = SumFunctionOnSet(Spending(b)', Pairs)
  <2>1. Types' => RecordedIsASum'
    BY SumInAnyState, PTL
  <2>2. Pairs' = Pairs
    BY DEF Pairs
  <2> QED
    BY <2>1, <2>2 DEF RecordedIsASum
<1> QED
  BY <1>1, <1>2, RecordedIsSum

\* A step of one coroutine that had not ended changes one term.
LEMMA RecordedGrows ==
    ASSUME Types, Types', NEW r \in Runners, NEW a \in Assets, NEW nr \in RunRecords,
           run' = [run EXCEPT ![r][a] = nr], run[r][a].spent = 0, NEW b
    PROVE  Recorded(b)' = Recorded(b) + IF BatchOf[r] = b /\ nr.counted THEN nr.spent ELSE 0
<1>1. PICK f : f = Spending(b)'
  OBVIOUS
<1>2. PICK g : g = Spending(b)
  OBVIOUS
<1>3. PICK x : x = <<r, a>>
  OBVIOUS
<1>4. x \in Pairs /\ IsFiniteSet(Pairs)
  BY <1>3, PairsFinite DEF Pairs
<1>5. g \in [Pairs -> Nat]
  BY <1>2, SpendingType
<1>6. f \in [Pairs -> Nat]
  <2>1. Types' => SpendingsAreTyped'
    BY SpendingInAnyState, PTL
  <2>2. Pairs' = Pairs
    BY DEF Pairs
  <2> QED
    BY <1>1, <2>1, <2>2 DEF SpendingsAreTyped
<1>7. \A y \in Pairs : y # x => f[y] = g[y]
  BY <1>1, <1>2, <1>3 DEF Spending, Pairs, Types
<1>8. /\ f[x] = IF BatchOf[r] = b /\ nr.counted THEN nr.spent ELSE 0
      /\ g[x] = 0
  BY <1>1, <1>2, <1>3 DEF Spending, Pairs, Types
<1>9. SumFunctionOnSet(f, Pairs) + g[x] = SumFunctionOnSet(g, Pairs) + f[x]
  BY <1>4, <1>5, <1>6, <1>7, SumChanges
<1>10. SumFunctionOnSet(g, Pairs) = Recorded(b) /\ Recorded(b) \in Nat
  BY <1>2, RecordedIsSum
<1>11. SumFunctionOnSet(f, Pairs) = Recorded(b)' /\ Recorded(b)' \in Nat
  <2>1. Types' => RecordedIsASum'
    BY SumInAnyState, PTL
  <2>2. Pairs' = Pairs
    BY DEF Pairs
  <2> QED
    BY <1>1, <2>1, <2>2 DEF RecordedIsASum
<1> QED
  BY <1>8, <1>9, <1>10, <1>11

\* Nothing recorded while nothing has ended.
LEMMA NothingRecorded ==
    ASSUME Types, NEW b, \A r \in Runners, a \in Assets : run[r][a].spent = 0
    PROVE  Recorded(b) = 0
<1>1. PICK f : f = Spending(b)
  OBVIOUS
<1>2. f \in [Pairs -> Nat] /\ \A x \in Pairs : f[x] = 0
  BY <1>1, SpendingType DEF Spending, Pairs
<1>3. SumFunctionOnSet(f, Pairs) = SumFunctionOnSet(f, {})
  BY <1>2, PairsFinite, SumOfPart
<1>4. SumFunctionOnSet(f, {}) = 0
  BY <1>2, PairsFinite, SumTakes
<1> QED
  BY <1>1, <1>3, <1>4, RecordedIsSum

LEMMA InFlightFinite ==
    ASSUME NEW r
    PROVE  IsFiniteSet(InFlight(r)) /\ Cardinality(InFlight(r)) \in Nat
           /\ Cardinality(InFlight(r)) <= Cardinality(Holders(r))
<1>1. InFlight(r) \in SUBSET Holders(r)
  BY DEF InFlight
<1> QED
  BY <1>1, HoldersFinite, FS_Subset, FS_CardinalityType

FewInFlight ==
    \A r \in Runners :
        /\ Cardinality(InFlight(r)) \in Nat /\ Cardinality(Holders(r)) \in Nat
        /\ Cardinality(InFlight(r)) <= Cardinality(Holders(r))

LEMMA FewInFlightAlways == FewInFlight
BY InFlightFinite, HoldersFinite DEF FewInFlight

\* Products grow with their factor.
LEMMA Scaled ==
    ASSUME NEW m \in Nat, NEW n \in Nat, NEW k \in Nat, m <= n
    PROVE  m * k \in Nat /\ n * k \in Nat /\ m * k <= n * k
<1>1. PICK d \in Nat : n = m + d
  <2>1. n - m \in Nat /\ n = m + (n - m)
    OBVIOUS
  <2> QED
    BY <2>1
<1>2. m * k \in Nat /\ d * k \in Nat
  OBVIOUS
<1>3. n * k = m * k + d * k
  BY <1>1
<1> QED
  BY <1>2, <1>3

\* What keeps the records and the permits keeps the cap.
LEMMA CapKept ==
    ASSUME Types, Types', CapParts,
           UNCHANGED <<max_ai_calls, max_concurrent_runs, ai_used>>,
           \A r \in Runners, a \in Assets :
               /\ run'[r][a].spent = run[r][a].spent
               /\ run'[r][a].counted = run[r][a].counted
               /\ run'[r][a].skip_reason = run[r][a].skip_reason,
           \A r \in Runners : Holders(r)' = Holders(r)
    PROVE  CapParts'
<1>1. \A b : Recorded(b)' = Recorded(b)
  BY RecordedStays
<1>2. \A r \in Runners : InFlight(r)' = InFlight(r)
  BY DEF InFlight, Holders
<1> QED
  BY <1>1, <1>2 DEF CapParts, RecordedIsCounted, RoomInFlight, SoftCap

\* What a step of a coroutine is: a permit taken, a copy made, or an end.
Moves(r, a, new, nr) ==
    /\ pc' = [pc EXCEPT ![r][a] = new]
    /\ run' = [run EXCEPT ![r][a] = nr]
    /\ nr \in RunRecords
    /\ UNCHANGED <<rows, runner>>

CapLeft(b) == max_ai_calls[b] > 0 => ai_used < max_ai_calls[b]
Nothing(record) == record.spent = 0 /\ record.counted

TakesPermit(r, a) ==
    /\ pc[r][a] = "waiting" /\ semaphore[r] > 0
    /\ \E nr : /\ Moves(r, a, "ingesting", nr)
               /\ nr.status = run[r][a].status /\ Nothing(nr)
               /\ nr.skip_reason = "none" => CapLeft(BatchOf[r])
    /\ semaphore' = [semaphore EXCEPT ![r] = @ - 1]
    /\ UNCHANGED <<asset_status, ai_used>>

StartsScan(r, a) ==
    /\ pc[r][a] = "ingesting"
    /\ \E nr : /\ Moves(r, a, "scanning", nr)
               /\ nr.skip_reason = run[r][a].skip_reason /\ Nothing(nr)
    /\ asset_status' = [asset_status EXCEPT ![a] = "scanning"]
    /\ UNCHANGED <<semaphore, ai_used>>

Ends(r, a) ==
    /\ pc[r][a] \in {"ingesting", "scanning"}
    /\ \E nr : /\ Moves(r, a, "ended", nr) /\ nr.status # "running"
               /\ nr.spent > 0 => run[r][a].skip_reason = "none"
               /\ ai_used' = ai_used + IF nr.counted THEN nr.spent ELSE 0
    /\ semaphore' = [semaphore EXCEPT ![r] = @ + 1]
    /\ \E s \in {"ready", "error"} : asset_status' = [asset_status EXCEPT ![a] = s]

LEMMA AssetStepMoves ==
    ASSUME IInv, NEW r \in Runners, NEW a \in Assets, AssetStep(r, a)
    PROVE  /\ TakesPermit(r, a) \/ StartsScan(r, a) \/ Ends(r, a)
           /\ ai_used' \in Nat
<1>0. run[r][a] \in RunRecords /\ ai_used \in Nat
  BY DEF IInv, Types
<1>00. pc[r][a] # "ended" => Nothing(run[r][a])
  BY DEF IInv, SpentAtTheEnd, Nothing
<1>1. CASE Acquire(r, a)
  <2>1. PICK reason \in DegradeReasons(BatchOf[r]) :
            run' = [run EXCEPT ![r][a].skip_reason = reason]
    BY <1>1 DEF Acquire
  <2> DEFINE nr == [run[r][a] EXCEPT !.skip_reason = reason]
  <2>2. nr \in RunRecords /\ nr.status = run[r][a].status
    BY <1>0, <2>1 DEF RunRecords, DegradeReasons
  <2>3. run' = [run EXCEPT ![r][a] = nr]
    BY <2>1
  <2>4. Moves(r, a, "ingesting", nr)
    BY <1>1, <2>2, <2>3 DEF Moves, Acquire, Goto
  <2>5. nr.skip_reason = "none" => CapLeft(BatchOf[r])
    <3>1. nr.skip_reason = reason
      BY <1>0 DEF RunRecords
    <3>2. max_ai_calls[BatchOf[r]] \in Nat
      BY BatchAssumption DEF IInv, Types
    <3> QED
      BY <1>0, <2>1, <3>1, <3>2 DEF CapLeft, DegradeReasons
  <2>6. Nothing(nr)
    <3>1. pc[r][a] # "ended"
      BY <1>1 DEF Acquire
    <3>2. nr.spent = run[r][a].spent /\ nr.counted = run[r][a].counted
      BY <1>0 DEF RunRecords
    <3> QED
      BY <1>00, <3>1, <3>2 DEF Nothing
  <2> HIDE DEF nr
  <2> QED
    BY <1>0, <1>1, <2>2, <2>4, <2>5, <2>6 DEF Acquire, TakesPermit
<1>2. CASE IngestFails(r, a)
  <2>1. NoRun \in RunRecords /\ NoRun.status # "running" /\ NoRun.spent = 0
    BY BatchAssumption DEF NoRun, RunRecords
  <2>2. Moves(r, a, "ended", NoRun)
    BY <1>2, <2>1 DEF Moves, IngestFails, EndAsset, Goto
  <2>3. ai_used' = ai_used + IF NoRun.counted THEN NoRun.spent ELSE 0
    BY <1>0, <1>2, <2>1 DEF IngestFails
  <2> QED
    BY <1>0, <1>2, <2>1, <2>2, <2>3 DEF IngestFails, EndAsset, Release, Ends
<1>3. CASE Ingested(r, a)
  <2> DEFINE nr == [run[r][a] EXCEPT !.status = "running"]
  <2>1. nr \in RunRecords
    BY <1>0 DEF RunRecords
  <2>2. run' = [run EXCEPT ![r][a] = nr]
    BY <1>3 DEF Ingested
  <2>3. Moves(r, a, "scanning", nr)
    BY <1>3, <2>1, <2>2 DEF Moves, Ingested, Goto
  <2>4. /\ nr.skip_reason = run[r][a].skip_reason
        /\ nr.spent = run[r][a].spent /\ nr.counted = run[r][a].counted
    BY <1>0 DEF RunRecords
  <2>5. Nothing(nr)
    BY <1>00, <1>3, <2>4 DEF Nothing, Ingested
  <2> HIDE DEF nr
  <2> QED
    BY <1>0, <1>3, <2>3, <2>4, <2>5 DEF Ingested, StartsScan
<1>4. ASSUME NEW final \in {"completed", "failed"}, NEW spent \in 0..MaxRequestsPerRun,
             NEW counted \in BOOLEAN, ScanEnds(r, a, final, spent, counted)
      PROVE  Ends(r, a) /\ ai_used' \in Nat
  <2> DEFINE nr == [run[r][a] EXCEPT !.status = final, !.spent = spent, !.counted = counted]
  <2>1. nr \in RunRecords /\ nr.status # "running"
    BY <1>0 DEF RunRecords
  <2>2. run' = [run EXCEPT ![r][a] = nr]
    BY <1>4 DEF ScanEnds
  <2>3. Moves(r, a, "ended", nr)
    BY <1>4, <2>1, <2>2 DEF Moves, ScanEnds, EndAsset, Goto
  <2>4. nr.spent = spent /\ nr.counted = counted
    BY <1>0 DEF RunRecords
  <2>5. spent > 0 => run[r][a].skip_reason = "none"
    BY <1>4 DEF ScanEnds, Spendable
  <2>6. ai_used' = ai_used + IF counted THEN spent ELSE 0
    <3>1. CASE run[r][a].skip_reason = "none"
      BY <1>4, <3>1 DEF ScanEnds, CountUsage
    <3>2. CASE run[r][a].skip_reason # "none"
      <4>1. spent = 0
        BY <2>5, <3>2, BatchAssumption
      <4>2. ai_used' = ai_used + 0
        BY <1>4, <3>2 DEF ScanEnds, CountUsage
      <4> QED
        BY <4>1, <4>2
    <3> QED
      BY <3>1, <3>2
  <2>7. ai_used' \in Nat
    <3>1. (IF counted THEN spent ELSE 0) \in Nat
      BY BatchAssumption
    <3> QED
      BY <1>0, <2>6, <3>1
  <2> HIDE DEF nr
  <2>8. ai_used' = ai_used + IF nr.counted THEN nr.spent ELSE 0
    BY <2>4, <2>6
  <2> QED
    BY <1>4, <2>1, <2>3, <2>4, <2>5, <2>7, <2>8 DEF ScanEnds, EndAsset, Release, Ends
<1>5. CASE ScanRaises(r, a)
  <2>1. Moves(r, a, "ended", run[r][a])
    BY <1>0, <1>5 DEF Moves, ScanRaises, EndAsset, Goto, IInv, Types
  <2>2. run[r][a].spent = 0
    BY <1>00, <1>5 DEF Nothing, ScanRaises
  <2>3. ai_used' = ai_used + IF run[r][a].counted THEN run[r][a].spent ELSE 0
    BY <1>0, <1>5, <2>2 DEF ScanRaises
  <2> QED
    BY <1>0, <1>5, <2>1, <2>2, <2>3 DEF ScanRaises, EndAsset, Release, Ends
<1> QED
  BY <1>1, <1>2, <1>3, <1>4, <1>5 DEF AssetStep, TakesPermit, StartsScan

\* The types survive a step of a coroutine.
LEMMA AssetStepTypes ==
    ASSUME IInv, NEW r \in Runners, NEW a \in Assets, AssetStep(r, a)
    PROVE  Types'
<1>1. ai_used' \in Nat /\ (TakesPermit(r, a) \/ StartsScan(r, a) \/ Ends(r, a))
  BY AssetStepMoves
<1>2. PICK new, nr : new \in Labels /\ Moves(r, a, new, nr)
  BY <1>1 DEF TakesPermit, StartsScan, Ends, Labels
<1>3. pc' \in [Runners -> [Assets -> Labels]] /\ run' \in [Runners -> [Assets -> RunRecords]]
  BY <1>2 DEF Moves, IInv, Types
<1>4. semaphore' \in [Runners -> Nat]
  <2>1. semaphore[r] \in Nat
    BY DEF IInv, Types
  <2>2. CASE TakesPermit(r, a)
    BY <2>1, <2>2 DEF TakesPermit, IInv, Types
  <2>3. CASE StartsScan(r, a)
    BY <2>3 DEF StartsScan, IInv, Types
  <2>4. CASE Ends(r, a)
    BY <2>1, <2>4 DEF Ends, IInv, Types
  <2> QED
    BY <1>1, <2>2, <2>3, <2>4
<1>5. asset_status' \in [Assets -> {"ready", "scanning", "error"}]
  BY <1>1 DEF TakesPermit, StartsScan, Ends, IInv, Types
<1> QED
  BY <1>1, <1>2, <1>3, <1>4, <1>5 DEF Moves, IInv, Types, rows

\* A step of one coroutine moves no other, and only where its caller works.
LEMMA AssetStepPlaces ==
    ASSUME IInv, NEW r \in Runners, NEW a \in Assets, AssetStep(r, a)
    PROVE  OneWorker' /\ RowOfWorker' /\ Coroutines' /\ RunFollows'
<1> USE DEF IInv
<1>1. TakesPermit(r, a) \/ StartsScan(r, a) \/ Ends(r, a)
  BY AssetStepMoves
<1>2. PICK new, nr :
        /\ new \in Labels
        /\ Moves(r, a, new, nr)
        /\ pc[r][a] \in {"waiting", "ingesting", "scanning"}
        /\ \/ new = "ingesting" /\ nr.status = run[r][a].status /\ pc[r][a] = "waiting"
           \/ new = "scanning"
           \/ new = "ended" /\ nr.status # "running"
  BY <1>1 DEF TakesPermit, StartsScan, Ends, Labels
<1>3. UNCHANGED <<status, runner>>
  BY <1>2 DEF Moves, rows
<1>4. OneWorker' /\ RowOfWorker'
  BY <1>3 DEF OneWorker, RowOfWorker, Works
<1>5. ASSUME NEW r1 \in Runners, NEW a1 \in Assets, r1 # r \/ a1 # a
      PROVE  pc'[r1][a1] = pc[r1][a1] /\ run'[r1][a1] = run[r1][a1]
  BY <1>2, <1>5 DEF Moves, Types
<1>6. pc'[r][a] = new /\ run'[r][a] = nr
  BY <1>2 DEF Moves, Types
<1>7. runner[r] = "running" /\ a \in AssetsIn(r)
  BY <1>2 DEF Coroutines, Works
<1>8. Coroutines'
  BY <1>3, <1>5, <1>6, <1>7 DEF Coroutines, Works, AssetsIn
<1>9. RunFollows'
  BY <1>2, <1>5, <1>6 DEF RunFollows
<1> QED
  BY <1>4, <1>8, <1>9

\* What says it is being scanned is.
LEMMA AssetStepScanning ==
    ASSUME IInv, NEW r \in Runners, NEW a \in Assets, AssetStep(r, a)
    PROVE  ScanningIsScanned'
<1> USE DEF IInv
<1>1. CASE TakesPermit(r, a)
  BY <1>1 DEF TakesPermit, Moves, Types, ScanningIsScanned
<1>2. CASE StartsScan(r, a)
  BY <1>2 DEF StartsScan, Moves, Types, ScanningIsScanned
<1>3. CASE Ends(r, a)
  <2>1. asset_status'[a] # "scanning"
    BY <1>3 DEF Ends, Types
  <2>2. ASSUME NEW b \in Assets, b # a
        PROVE  /\ asset_status'[b] = asset_status[b]
               /\ \A q \in Runners : pc'[q][b] = pc[q][b]
    BY <1>3, <2>2 DEF Ends, Moves, Types
  <2> QED
    BY <2>1, <2>2 DEF ScanningIsScanned
<1> QED
  BY <1>1, <1>2, <1>3, AssetStepMoves

\* The permits balance.
LEMMA AssetStepPermits ==
    ASSUME IInv, NEW r \in Runners, NEW a \in Assets, AssetStep(r, a)
    PROVE  Permits'
<1> USE DEF IInv
<1> SUFFICES ASSUME NEW q \in Runners
             PROVE  semaphore'[q] + Cardinality(Holders(q)') = max_concurrent_runs'
  BY DEF Permits
<1>1. max_concurrent_runs' = max_concurrent_runs
  BY AssetStepMoves DEF TakesPermit, StartsScan, Ends, Moves, rows
<1>2. max_concurrent_runs \in Nat /\ Cardinality(Holders(q)) \in Nat
  BY HoldersFinite, BatchAssumption DEF Types
<1>3. CASE q # r
  <2>1. Holders(q)' = Holders(q) /\ semaphore'[q] = semaphore[q]
    BY <1>3, AssetStepMoves DEF TakesPermit, StartsScan, Ends, Moves, Types, Holders
  <2> QED
    BY <1>1, <2>1 DEF Permits
<1>4. CASE q = r /\ TakesPermit(r, a)
  <2>1. Holders(r)' = Holders(r) \cup {a} /\ a \notin Holders(r)
    BY <1>4 DEF TakesPermit, Moves, Types, Holders
  <2>2. Cardinality(Holders(r)') = Cardinality(Holders(r)) + 1
    BY <2>1, FS_AddElement, HoldersFinite
  <2>3. semaphore'[r] = semaphore[r] - 1
    BY <1>4 DEF TakesPermit, Types
  <2> QED
    BY <1>1, <1>2, <1>4, <2>2, <2>3 DEF Permits, Types
<1>5. CASE q = r /\ StartsScan(r, a)
  <2>1. Holders(r)' = Holders(r) /\ semaphore'[r] = semaphore[r]
    BY <1>5 DEF StartsScan, Moves, Types, Holders
  <2> QED
    BY <1>1, <1>5, <2>1 DEF Permits
<1>6. CASE q = r /\ Ends(r, a)
  <2>1. Holders(r)' = Holders(r) \ {a} /\ a \in Holders(r)
    BY <1>6 DEF Ends, Moves, Types, Holders
  <2>2. Cardinality(Holders(r)') = Cardinality(Holders(r)) - 1
    BY <2>1, FS_RemoveElement, HoldersFinite
  <2>3. semaphore'[r] = semaphore[r] + 1
    BY <1>6 DEF Ends, Types
  <2> QED
    BY <1>1, <1>2, <1>6, <2>2, <2>3 DEF Permits, Types
<1> QED
  BY <1>3, <1>4, <1>5, <1>6, AssetStepMoves

\* What a step sends was reserved, and what it reserves is left of the cap.
LEMMA AssetStepCap ==
    ASSUME IInv, NEW r \in Runners, NEW a \in Assets, AssetStep(r, a)
    PROVE  SpentAtTheEnd' /\ CapParts'
<1> DEFINE Room(q) == max_ai_calls[BatchOf[q]] - 1 + max_concurrent_runs * MaxRequestsPerRun
           Sent(nr) == IF nr.counted THEN nr.spent ELSE 0
<1>1. PICK new, nr :
        /\ new \in Labels /\ nr \in RunRecords
        /\ Moves(r, a, new, nr)
        /\ pc[r][a] # "ended"
        /\ new # "ended" => Nothing(nr)
        /\ ai_used' = ai_used + Sent(nr)
        /\ \/ /\ new = "ingesting" /\ pc[r][a] = "waiting"
              /\ nr.skip_reason = "none" => CapLeft(BatchOf[r])
           \/ /\ new = "scanning" /\ pc[r][a] = "ingesting"
              /\ nr.skip_reason = run[r][a].skip_reason
           \/ /\ new = "ended" /\ pc[r][a] \in {"ingesting", "scanning"}
              /\ nr.spent > 0 => run[r][a].skip_reason = "none"
  <2>1. ai_used \in Nat
    BY DEF IInv, Types
  <2> QED
    <3>1. CASE TakesPermit(r, a)
      <4>1. PICK nr : /\ Moves(r, a, "ingesting", nr) /\ Nothing(nr)
                      /\ nr.skip_reason = "none" => CapLeft(BatchOf[r])
        BY <3>1 DEF TakesPermit
      <4>2. ai_used' = ai_used + Sent(nr)
        BY <2>1, <3>1, <4>1 DEF TakesPermit, Nothing
      <4> HIDE DEF Sent
      <4> QED
        BY <3>1, <4>1, <4>2 DEF TakesPermit, Moves, Labels
    <3>2. CASE StartsScan(r, a)
      <4>1. PICK nr : /\ Moves(r, a, "scanning", nr) /\ Nothing(nr)
                      /\ nr.skip_reason = run[r][a].skip_reason
        BY <3>2 DEF StartsScan
      <4>2. ai_used' = ai_used + Sent(nr)
        BY <2>1, <3>2, <4>1 DEF StartsScan, Nothing
      <4> HIDE DEF Sent
      <4> QED
        BY <3>2, <4>1, <4>2 DEF StartsScan, Moves, Labels
    <3>3. CASE Ends(r, a)
      BY <2>1, <3>3 DEF Ends, Moves, Labels
    <3> QED
      BY <3>1, <3>2, <3>3, AssetStepMoves
<1>2. /\ pc' = [pc EXCEPT ![r][a] = new] /\ run' = [run EXCEPT ![r][a] = nr]
      /\ UNCHANGED <<max_ai_calls, max_concurrent_runs, runner>>
  BY <1>1 DEF Moves, rows
<1>3. Types /\ Types' /\ Permits'
  BY AssetStepTypes, AssetStepPermits DEF IInv
<1>4. ASSUME NEW q \in Runners, NEW c \in Assets, q # r \/ c # a
      PROVE  pc'[q][c] = pc[q][c] /\ run'[q][c] = run[q][c]
  BY <1>2, <1>3, <1>4 DEF Types
<1>5. pc'[r][a] = new /\ run'[r][a] = nr
  BY <1>2, <1>3 DEF Types
<1>6. SpentAtTheEnd'
  BY <1>1, <1>4, <1>5 DEF IInv, SpentAtTheEnd, Nothing
<1>7. Sent(nr) \in 0..MaxRequestsPerRun /\ ai_used \in Nat
  BY <1>1, <1>3, BatchAssumption DEF RunRecords, Types
<1>8. ASSUME NEW b
      PROVE  /\ Recorded(b) \in Nat
             /\ Recorded(b)' = Recorded(b) + IF BatchOf[r] = b THEN Sent(nr) ELSE 0
  <2>1. run[r][a].spent = 0
    BY <1>1 DEF IInv, SpentAtTheEnd
  <2> QED
    BY <1>1, <1>2, <1>3, <2>1, RecordedGrows, RecordedIsSum
<1> HIDE DEF Sent
<1>9. RecordedIsCounted'
  BY <1>1, <1>7, <1>8 DEF IInv, CapParts, RecordedIsCounted
<1>10. ASSUME NEW q \in Runners, q # r PROVE InFlight(q)' = InFlight(q)
  BY <1>4, <1>10 DEF InFlight, Holders
<1>11. max_concurrent_runs \in Nat /\ MaxRequestsPerRun \in Nat
       /\ \A q \in Runners : max_ai_calls[BatchOf[q]] \in Nat
  BY <1>3, BatchAssumption DEF Types
<1>12. max_ai_calls[BatchOf[r]] > 0 =>
         Recorded(BatchOf[r])' + Cardinality(InFlight(r)') * MaxRequestsPerRun <= Room(r)
  <2> SUFFICES ASSUME max_ai_calls[BatchOf[r]] > 0
               PROVE  Recorded(BatchOf[r])' + Cardinality(InFlight(r)') * MaxRequestsPerRun
                        <= Room(r)
    OBVIOUS
  <2>1. PICK n \in Nat : n = Cardinality(InFlight(r))
    BY InFlightFinite
  <2>2. Recorded(BatchOf[r]) + n * MaxRequestsPerRun <= Room(r)
    BY <2>1 DEF IInv, CapParts, RoomInFlight
  <2>3. CASE new = "ingesting" /\ nr.skip_reason = "none"
    <3>1. Sent(nr) = 0
      BY <1>1, <2>3 DEF Nothing, Sent
    <3>2. Recorded(BatchOf[r])' <= max_ai_calls[BatchOf[r]] - 1
      <4>1. ai_used < max_ai_calls[BatchOf[r]]
        BY <1>1, <2>3 DEF CapLeft
      <4>2. BatchOf[r] \in Batches
        BY BatchAssumption
      <4>3. Recorded(BatchOf[r])' <= ai_used
        BY <1>1, <1>7, <1>9, <3>1, <4>2 DEF RecordedIsCounted
      <4>4. Recorded(BatchOf[r])' \in Nat
        BY <1>8, <3>1
      <4> QED
        BY <1>7, <1>11, <4>1, <4>3, <4>4
    <3>3. PICK m \in Nat : m = Cardinality(InFlight(r)') /\ m <= max_concurrent_runs
      <4>3. FewInFlight'
        BY FewInFlightAlways, PTL
      <4>4. semaphore'[r] + Cardinality(Holders(r)') = max_concurrent_runs /\ semaphore'[r] \in Nat
        BY <1>2, <1>3 DEF Permits, Types
      <4> QED
        BY <1>11, <4>3, <4>4 DEF FewInFlight
    <3>4. /\ m * MaxRequestsPerRun <= max_concurrent_runs * MaxRequestsPerRun
          /\ m * MaxRequestsPerRun \in Nat
          /\ max_concurrent_runs * MaxRequestsPerRun \in Nat
      BY <1>11, <3>3, Scaled
    <3>5. Recorded(BatchOf[r])' \in Nat
      BY <1>8, <3>1
    <3> QED
      BY <1>11, <3>2, <3>3, <3>4, <3>5
  <2>4. CASE Sent(nr) = 0 /\ ~(new = "ingesting" /\ nr.skip_reason = "none")
    <3>1. InFlight(r)' \in SUBSET InFlight(r)
      BY <1>1, <1>4, <1>5, <2>4 DEF InFlight, Holders
    <3>2. PICK m \in Nat : m = Cardinality(InFlight(r)') /\ m <= n
      <4>1. PICK S : S = InFlight(r)'
        OBVIOUS
      <4>2. PICK T : T = InFlight(r)
        OBVIOUS
      <4>3. IsFiniteSet(T) /\ S \in SUBSET T
        BY <3>1, <4>1, <4>2, InFlightFinite
      <4> QED
        BY <2>1, <4>1, <4>2, <4>3, FS_Subset, FS_CardinalityType
    <3>3. /\ m * MaxRequestsPerRun <= n * MaxRequestsPerRun
          /\ m * MaxRequestsPerRun \in Nat /\ n * MaxRequestsPerRun \in Nat
      BY <1>11, <3>2, Scaled
    <3>4. Recorded(BatchOf[r])' = Recorded(BatchOf[r]) /\ Recorded(BatchOf[r]) \in Nat
      BY <1>8, <2>4
    <3>5. Room(r) \in Int
      BY <1>11
    <3> HIDE DEF Room
    <3> QED
      BY <2>2, <3>2, <3>3, <3>4, <3>5
  <2>5. CASE Sent(nr) # 0
    <3>1. new = "ended" /\ a \in InFlight(r)
      <4>1. nr.spent > 0 /\ new = "ended"
        BY <1>1, <1>7, <2>5, BatchAssumption DEF Nothing, Sent, RunRecords
      <4> QED
        BY <1>1, <4>1 DEF InFlight, Holders
    <3>2. InFlight(r)' = InFlight(r) \ {a}
      BY <1>4, <1>5, <3>1 DEF InFlight, Holders
    <3>3. PICK m \in Nat : m = Cardinality(InFlight(r)') /\ n = m + 1
      <4>1. PICK S : S = InFlight(r)'
        OBVIOUS
      <4>2. PICK T : T = InFlight(r)
        OBVIOUS
      <4>3. IsFiniteSet(T) /\ a \in T /\ S = T \ {a} /\ n = Cardinality(T)
        BY <2>1, <3>1, <3>2, <4>1, <4>2, InFlightFinite
      <4>4. Cardinality(S) = n - 1 /\ Cardinality(S) \in Nat
        BY <4>3, FS_RemoveElement, FS_CardinalityType
      <4> QED
        BY <2>1, <4>1, <4>4
    <3>4. n * MaxRequestsPerRun = m * MaxRequestsPerRun + MaxRequestsPerRun
          /\ m * MaxRequestsPerRun \in Nat
      BY <1>11, <3>3
    <3>5. Recorded(BatchOf[r])' = Recorded(BatchOf[r]) + Sent(nr) /\ Recorded(BatchOf[r]) \in Nat
      BY <1>8
    <3>6. Room(r) \in Int
      BY <1>11
    <3> HIDE DEF Room
    <3> QED
      BY <1>7, <1>11, <2>1, <2>2, <3>3, <3>4, <3>5, <3>6
  <2> QED
    BY <2>3, <2>4, <2>5, <1>1 DEF Nothing, Sent
<1>13. ASSUME NEW q \in Runners, q # r, BatchOf[q] = BatchOf[r]
       PROVE  InFlight(q) = {} /\ Cardinality(InFlight(q)) = 0
  <2>1. Works(r)
    BY <1>1 DEF IInv, Coroutines
  <2>2. ~Works(q)
    BY <1>13, <2>1 DEF IInv, OneWorker
  <2>3. InFlight(q) = {}
    BY <2>2 DEF IInv, Coroutines, InFlight, Holders
  <2> QED
    BY <2>3, FS_EmptySet, Zenon
<1>14. max_ai_calls[BatchOf[r]] > 0 => Recorded(BatchOf[r])' <= Room(r)
  <2>1. PICK m \in Nat : m = Cardinality(InFlight(r)')
    <3>1. FewInFlight'
      BY FewInFlightAlways, PTL
    <3> QED
      BY <3>1 DEF FewInFlight
  <2>2. m * MaxRequestsPerRun \in Nat
    BY <1>11, <2>1
  <2>3. Recorded(BatchOf[r])' \in Nat /\ Room(r) \in Int
    BY <1>7, <1>8, <1>11
  <2> HIDE DEF Room
  <2> QED
    BY <1>12, <2>1, <2>2, <2>3
<1>15. RoomInFlight'
  <2> SUFFICES ASSUME NEW q \in Runners, max_ai_calls[BatchOf[q]] > 0
               PROVE  Recorded(BatchOf[q])' + Cardinality(InFlight(q)') * MaxRequestsPerRun
                        <= Room(q)
    BY <1>2 DEF RoomInFlight
  <2>1. CASE q = r
    BY <1>12, <2>1
  <2>2. CASE q # r /\ BatchOf[q] = BatchOf[r]
    <3>1. Cardinality(InFlight(q)') = 0
      BY <1>10, <1>13, <2>2
    <3>2. Recorded(BatchOf[q])' \in Nat
      BY <1>7, <1>8
    <3> QED
      BY <1>11, <1>14, <2>2, <3>1, <3>2
  <2>3. CASE BatchOf[q] # BatchOf[r]
    <3>1. InFlight(q)' = InFlight(q)
      BY <1>10, <2>3
    <3>2. Recorded(BatchOf[q])' = Recorded(BatchOf[q])
      BY <1>8, <2>3
    <3> QED
      BY <3>1, <3>2 DEF IInv, CapParts, RoomInFlight
  <2> QED
    BY <2>1, <2>2, <2>3
<1>16. SoftCap'
  <2> SUFFICES ASSUME NEW b \in Batches, max_ai_calls[b] > 0
               PROVE  Recorded(b)' <= max_ai_calls[b] - 1 + max_concurrent_runs * MaxRequestsPerRun
    BY <1>2 DEF SoftCap
  <2>1. CASE b = BatchOf[r]
    BY <1>14, <2>1
  <2>2. CASE b # BatchOf[r]
    <3>1. Recorded(b)' = Recorded(b)
      BY <1>8, <2>2
    <3> QED
      BY <3>1 DEF IInv, CapParts, SoftCap
  <2> QED
    BY <2>1, <2>2
<1> QED
  BY <1>6, <1>9, <1>15, <1>16 DEF CapParts

\* The claim, won or lost.
LEMMA ClaimKeeps ==
    ASSUME IInv, NEW r \in Runners, Claim(r)
    PROVE  IInv'
<1> USE DEF IInv
<1>1. CASE ~Claimable(r)
  <2>1. /\ runner' = [runner EXCEPT ![r] = "conflict"]
        /\ UNCHANGED <<status, pc, max_ai_calls, max_concurrent_runs, semaphore, run,
                       asset_status, ai_used>>
    BY <1>1 DEF Claim
  <2>2. \A q \in Runners : Holders(q)' = Holders(q)
    BY <2>1 DEF Holders
  <2>3. \A q \in Runners : Works(q)' <=> Works(q)
    BY <2>1 DEF Works, Types, Claim
  <2>4. Types' /\ Permits' /\ ScanningIsScanned' /\ RunFollows'
    BY <2>1, <2>2 DEF Types, Permits, ScanningIsScanned, RunFollows
  <2>5. \A q \in Runners : runner'[q] # runner[q] => runner'[q] = "conflict"
    BY <2>1 DEF Types
  <2>6. SpentAtTheEnd' /\ CapParts'
    BY <2>1, <2>2, <2>4, CapKept DEF SpentAtTheEnd
  <2> QED
    BY <2>1, <2>3, <2>4, <2>5, <2>6 DEF OneWorker, RowOfWorker, Coroutines, AssetsIn
<1>2. CASE Claimable(r)
  <2> DEFINE b == BatchOf[r]
  <2>1. /\ runner[r] = "called" /\ status[b] = "pending" /\ b \in Batches
        /\ status' = [status EXCEPT ![b] = "running"]
        /\ runner' = [runner EXCEPT ![r] = "running"]
        /\ pc' = [pc EXCEPT ![r] = [a \in Assets |->
                     IF a \in AssetsIn(r) THEN "waiting" ELSE "none"]]
        /\ UNCHANGED <<max_ai_calls, max_concurrent_runs, semaphore, run, asset_status, ai_used>>
    BY <1>2, BatchAssumption DEF Claim, Claimable
  <2>2. \A q \in Runners : BatchOf[q] = b => ~Works(q)
    BY <2>1 DEF RowOfWorker
  <2>3. \A a \in Assets : pc[r][a] = "none" /\ run[r][a].status = "none"
    BY <2>1 DEF Coroutines, RunFollows, Works
  <2>4. Types'
    <3>1. pc' \in [Runners -> [Assets -> Labels]]
      BY <2>1 DEF Types, Labels
    <3> QED
      BY <2>1, <3>1 DEF Types
  <2>5. \A q \in Runners : q # r => runner'[q] = runner[q] /\ pc'[q] = pc[q]
    BY <2>1 DEF Types
  <2>6. /\ runner'[r] = "running"
        /\ \A a \in Assets : pc'[r][a] = IF a \in AssetsIn(r) THEN "waiting" ELSE "none"
    BY <2>1 DEF Types
  <2>7. OneWorker'
    BY <2>2, <2>5, BatchAssumption DEF OneWorker, Works
  <2>8. RowOfWorker'
    BY <2>1, <2>2, <2>5, <2>6, BatchAssumption DEF RowOfWorker, Works, Types
  <2>9. Coroutines'
    BY <2>5, <2>6 DEF Coroutines, Works, AssetsIn
  <2>10. RunFollows'
    BY <2>1, <2>3, <2>5, <2>6 DEF RunFollows
  <2>11. ScanningIsScanned'
    BY <2>1, <2>3, <2>5 DEF ScanningIsScanned
  <2>13. \A q \in Runners : Holders(q)' = Holders(q)
    <3>1. Holders(r)' = Holders(r)
      BY <2>3, <2>6 DEF Holders
    <3> QED
      BY <2>5, <3>1 DEF Holders
  <2>12. Permits'
    BY <2>1, <2>13 DEF Permits
  <2>14. SpentAtTheEnd'
    <3>1. \A a \in Assets : run[r][a].spent = 0 /\ run[r][a].counted
      BY <2>3 DEF SpentAtTheEnd
    <3> QED
      BY <2>1, <2>5, <3>1 DEF SpentAtTheEnd
  <2>15. CapParts'
    BY <2>1, <2>4, <2>13, CapKept
  <2> QED
    BY <2>4, <2>7, <2>8, <2>9, <2>10, <2>11, <2>12, <2>14, <2>15
<1> QED
  BY <1>1, <1>2

\* The worker comes back when its coroutines have ended.
LEMMA FinalizeKeeps ==
    ASSUME IInv, NEW r \in Runners, Finalize(r)
    PROVE  IInv'
<1> USE DEF IInv
<1> DEFINE b == BatchOf[r]
<1>1. /\ runner[r] = "running" /\ b \in Batches
      /\ \A a \in AssetsIn(r) : pc[r][a] = "ended"
      /\ status' = [status EXCEPT ![b] = Verdict(b)]
      /\ runner' = [runner EXCEPT ![r] = "returned"]
      /\ UNCHANGED <<max_ai_calls, max_concurrent_runs, semaphore, pc, run, asset_status, ai_used>>
  BY BatchAssumption DEF Finalize
<1>2. Verdict(b) \in Terminal
  BY DEF Verdict, Terminal
<1>3. \A q \in Runners : Works(q)' <=> Works(q)
  BY <1>1 DEF Works, Types
<1>4. \A q \in Runners : BatchOf[q] = b /\ Works(q) => q = r
  BY <1>1 DEF OneWorker, Works
<1>5. \A q \in Runners : q # r => runner'[q] = runner[q]
  BY <1>1 DEF Types
<1>6. \A a \in Assets : pc[r][a] \in {"none", "ended"}
  BY <1>1 DEF Coroutines
<1>7. Types'
  BY <1>1, <1>2 DEF Types
<1>8. OneWorker'
  BY <1>3 DEF OneWorker
<1>9. RowOfWorker'
  <2> SUFFICES ASSUME NEW q \in Runners
               PROVE  /\ Works(q)' => status'[BatchOf[q]] # "pending"
                      /\ runner'[q] = "running" => status'[BatchOf[q]] = "running"
    BY DEF RowOfWorker
  <2>1. CASE q = r
    BY <1>1, <1>2, <2>1 DEF Types, Terminal
  <2>2. CASE q # r /\ BatchOf[q] = b
    BY <1>3, <1>4, <2>2 DEF Works
  <2>3. CASE BatchOf[q] # b
    BY <1>1, <1>3, <1>5, <2>3 DEF RowOfWorker, Types
  <2> QED
    BY <2>1, <2>2, <2>3
<1>10. Coroutines'
  BY <1>1, <1>3, <1>5, <1>6 DEF Coroutines, AssetsIn
<1>11. RunFollows' /\ ScanningIsScanned'
  BY <1>1 DEF RunFollows, ScanningIsScanned
<1>12. \A q \in Runners : Holders(q)' = Holders(q)
  BY <1>1 DEF Holders
<1>13. Permits' /\ SpentAtTheEnd'
  BY <1>1, <1>12 DEF Permits, SpentAtTheEnd
<1>14. CapParts'
  BY <1>1, <1>7, <1>12, CapKept
<1> QED
  BY <1>7, <1>8, <1>9, <1>10, <1>11, <1>13, <1>14

\* The user deletes a run.
LEMMA DeletionKeeps ==
    ASSUME IInv, NEW r \in Runners, NEW a \in Assets, UserDeletesRun(r, a)
    PROVE  IInv'
<1> USE DEF IInv
<1> DEFINE nr == [run[r][a] EXCEPT !.status = "deleted"]
<1>1. /\ run[r][a].status # "none"
      /\ run' = [run EXCEPT ![r][a] = nr]
      /\ UNCHANGED <<rows, runner, semaphore, pc, asset_status, ai_used>>
  BY DEF UserDeletesRun
<1>2. nr \in RunRecords /\ nr.status = "deleted"
  <2>1. run[r][a] \in RunRecords
    BY DEF Types
  <2> QED
    BY <2>1 DEF RunRecords
<1>9. /\ nr.spent = run[r][a].spent /\ nr.counted = run[r][a].counted
      /\ nr.skip_reason = run[r][a].skip_reason
  <2>1. run[r][a] \in RunRecords
    BY DEF Types
  <2> QED
    BY <2>1 DEF RunRecords
<1> HIDE DEF nr
<1>3. Types'
  BY <1>1, <1>2 DEF Types, rows
<1>4. RunFollows'
  BY <1>1, <1>2 DEF RunFollows, Types
<1>5. OneWorker' /\ RowOfWorker' /\ Coroutines' /\ ScanningIsScanned'
  BY <1>1 DEF OneWorker, RowOfWorker, Coroutines, ScanningIsScanned, Works, AssetsIn, rows
<1>6. \A q \in Runners : Holders(q)' = Holders(q)
  BY <1>1 DEF Holders
<1>7. Permits'
  BY <1>1, <1>6 DEF Permits, rows
<1>8. ASSUME NEW q \in Runners, NEW c \in Assets
      PROVE  /\ run'[q][c].spent = run[q][c].spent
             /\ run'[q][c].counted = run[q][c].counted
             /\ run'[q][c].skip_reason = run[q][c].skip_reason
  BY <1>1, <1>9 DEF Types
<1>10. SpentAtTheEnd'
  BY <1>1, <1>8 DEF SpentAtTheEnd
<1>11. CapParts'
  BY <1>1, <1>3, <1>6, <1>8, CapKept DEF rows
<1> QED
  BY <1>3, <1>4, <1>5, <1>7, <1>10, <1>11
-----------------------------------------------------------------------------
LEMMA IInvInit == Init => IInv
<1> SUFFICES ASSUME Init PROVE IInv
  OBVIOUS
<1>1. NoRun \in RunRecords /\ NoRun.status = "none"
  BY BatchAssumption DEF NoRun, RunRecords
<1>2. PICK cap \in MaxAiCallsChoices : max_ai_calls = [b \in Batches |-> cap]
  BY DEF Init
<1>3. Types
  BY <1>1, <1>2, BatchAssumption DEF Init, Types, Labels
<1>4. OneWorker /\ RowOfWorker /\ Coroutines /\ ScanningIsScanned
  BY DEF Init, OneWorker, RowOfWorker, Coroutines, ScanningIsScanned, Works
<1>5. RunFollows
  BY <1>1 DEF Init, RunFollows
<1>6. Permits
  <2>1. \A r \in Runners : Holders(r) = {}
    BY DEF Init, Holders
  <2>2. max_concurrent_runs \in Nat /\ \A r \in Runners : semaphore[r] = max_concurrent_runs
    BY BatchAssumption DEF Init
  <2>3. \A r \in Runners : Cardinality(Holders(r)) = 0
    BY <2>1, FS_EmptySet, Zenon
  <2> QED
    BY <2>2, <2>3 DEF Permits
<1>7. \A r \in Runners, a \in Assets : run[r][a].spent = 0 /\ run[r][a].counted
  BY DEF Init, NoRun
<1>8. SpentAtTheEnd
  BY <1>7 DEF SpentAtTheEnd
<1>9. \A b : Recorded(b) = 0
  BY <1>3, <1>7, NothingRecorded
<1>10. max_concurrent_runs \in Nat /\ max_concurrent_runs * MaxRequestsPerRun \in Nat
  <2>1. max_concurrent_runs \in Nat /\ MaxRequestsPerRun \in Nat
    BY BatchAssumption DEF Init
  <2> QED
    BY <2>1
<1>11. RecordedIsCounted /\ SoftCap
  <2>1. ai_used = 0 /\ \A b \in Batches : max_ai_calls[b] \in Nat
    BY <1>2, BatchAssumption DEF Init
  <2>2. RecordedIsCounted
    BY <1>9, <2>1 DEF RecordedIsCounted
  <2>3. SoftCap
    BY <1>9, <1>10, <2>1 DEF SoftCap
  <2> QED
    BY <2>2, <2>3
<1>12. RoomInFlight
  <2>1. \A r \in Runners : InFlight(r) = {}
    BY DEF Init, InFlight, Holders
  <2>2. \A r \in Runners : Cardinality(InFlight(r)) = 0
    BY <2>1, FS_EmptySet, Zenon
  <2>3. 0 * MaxRequestsPerRun = 0
    BY BatchAssumption
  <2> QED
    BY <1>2, <1>9, <1>10, <2>2, <2>3, BatchAssumption DEF RoomInFlight
<1> QED
  BY <1>3, <1>4, <1>5, <1>6, <1>8, <1>11, <1>12 DEF IInv, CapParts

LEMMA IInvStep == IInv /\ [Next]_vars => IInv'
<1> SUFFICES ASSUME IInv, [Next]_vars PROVE IInv'
  OBVIOUS
<1>1. ASSUME NEW r \in Runners, Claim(r) \/ Finalize(r) PROVE IInv'
  BY <1>1, ClaimKeeps, FinalizeKeeps
<1>2. ASSUME NEW r \in Runners, NEW a \in Assets, AssetStep(r, a) PROVE IInv'
  BY <1>2, AssetStepTypes, AssetStepPlaces, AssetStepScanning, AssetStepPermits,
     AssetStepCap DEF IInv
<1>3. ASSUME NEW r \in Runners, NEW a \in Assets, UserDeletesRun(r, a) PROVE IInv'
  BY <1>3, DeletionKeeps
<1>4. CASE UNCHANGED vars
  <2>1. \A q \in Runners : Holders(q)' = Holders(q)
    BY <1>4 DEF Holders, vars
  <2>2. Permits'
    BY <1>4, <2>1 DEF IInv, Permits, vars, rows
  <2>3. Types' /\ OneWorker' /\ RowOfWorker'
    BY <1>4 DEF IInv, Types, OneWorker, RowOfWorker, Works, vars, rows
  <2>4. Coroutines' /\ RunFollows' /\ ScanningIsScanned'
    BY <1>4 DEF IInv, Coroutines, RunFollows, ScanningIsScanned, Works, AssetsIn, vars, rows
  <2>5. SpentAtTheEnd' /\ CapParts'
    BY <1>4, <2>1, <2>3, CapKept DEF IInv, SpentAtTheEnd, vars, rows
  <2> QED
    BY <2>2, <2>3, <2>4, <2>5 DEF IInv
<1> QED
  BY <1>1, <1>2, <1>3, <1>4 DEF Next, Progress

THEOREM Invariance == Spec => []IInv
BY IInvInit, IInvStep, PTL DEF Spec

\* The types; and no semaphore leaves 0..max_concurrent_runs, on any path of
\* _process_asset.
THEOREM TypeCorrect == Spec => []TypeOK
<1>1. IInv => TypeOK
  <2> SUFFICES ASSUME IInv PROVE TypeOK
    OBVIOUS
  <2>1. \A r \in Runners : semaphore[r] \in 0..max_concurrent_runs
    BY HoldersFinite, BatchAssumption DEF IInv, Types, Permits
  <2>2. semaphore \in [Runners -> 0..max_concurrent_runs]
    BY <2>1 DEF IInv, Types
  <2> QED
    BY <2>2 DEF IInv, Types, TypeOK, Labels, RunRecords
<1> QED
  BY <1>1, Invariance, PTL

\* No batch scans more than max_concurrent_runs assets at once (the semaphore of
\* run_batch).
THEOREM ConcurrencyBounded ==
    Spec => [](\A r \in Runners : Cardinality(Holders(r)) <= max_concurrent_runs)
<1>1. IInv => \A r \in Runners : Cardinality(Holders(r)) <= max_concurrent_runs
  BY HoldersFinite, BatchAssumption DEF IInv, Types, Permits
<1> QED
  BY <1>1, Invariance, PTL

\* A batch is claimed by one call of run_batch, and none of its assets is
\* scanned twice (_claim_batch).
THEOREM OneClaim == Spec => []ClaimedOnce
<1>1. IInv => ClaimedOnce
  <2>1. ASSUME IInv, NEW b \in Batches
        PROVE  Cardinality({r \in Runners : BatchOf[r] = b
                                           /\ runner[r] \in {"running", "returned"}}) <= 1
    <3> DEFINE W == {r \in Runners : BatchOf[r] = b /\ runner[r] \in {"running", "returned"}}
    <3>1. \A x, y \in W : x = y
      BY <2>1 DEF IInv, OneWorker, Works
    <3> QED
      BY <3>1, AtMostOne
  <2>2. ASSUME IInv, NEW b \in Batches, NEW a \in Assets
        PROVE  Cardinality({p \in HasRun(b, {"running", "completed", "failed"}) : p[2] = a}) <= 1
    <3> DEFINE H == {p \in HasRun(b, {"running", "completed", "failed"}) : p[2] = a}
    <3>1. ASSUME NEW x \in H, NEW y \in H PROVE x = y
      <4>1. /\ x \in Runners \X Assets /\ y \in Runners \X Assets
            /\ x[2] = a /\ y[2] = a /\ BatchOf[x[1]] = b /\ BatchOf[y[1]] = b
            /\ run[x[1]][a].status # "none" /\ run[y[1]][a].status # "none"
        BY DEF HasRun, RunsOf
      <4>2. Works(x[1]) /\ Works(y[1])
        BY <2>2, <4>1 DEF IInv, Coroutines, RunFollows
      <4>3. x[1] = y[1]
        BY <2>2, <4>1, <4>2 DEF IInv, OneWorker
      <4> QED
        BY <4>1, <4>3
    <3> QED
      BY <3>1, AtMostOne
  <2> QED
    BY <2>1, <2>2 DEF ClaimedOnce
<1> QED
  BY <1>1, Invariance, PTL

\* A batch that has ended has no run on its way, and what says it is being
\* scanned is (_process_asset, _finalize_batch).
THEOREM NothingLeft == Spec => []NothingDangles
<1>1. IInv => NothingDangles
  <2> SUFFICES ASSUME IInv PROVE NothingDangles
    OBVIOUS
  <2>1. ASSUME NEW b \in Batches, status[b] \in Terminal, NEW p \in HasRun(b, {"running"})
        PROVE  FALSE
    <3>1. /\ p[1] \in Runners /\ p[2] \in Assets /\ BatchOf[p[1]] = b
          /\ run[p[1]][p[2]].status = "running"
      BY DEF HasRun, RunsOf
    <3>2. pc[p[1]][p[2]] = "scanning"
      <4>1. pc[p[1]][p[2]] \in Labels
        BY <3>1 DEF IInv, Types
      <4> QED
        BY <3>1, <4>1 DEF IInv, RunFollows, Labels
    <3>3. runner[p[1]] = "running"
      BY <3>1, <3>2 DEF IInv, Coroutines, Works
    <3> QED
      BY <2>1, <3>1, <3>3 DEF IInv, RowOfWorker, Terminal
  <2> QED
    BY <2>1 DEF IInv, ScanningIsScanned, NothingDangles
<1> QED
  BY <1>1, Invariance, PTL

\* A batch records at most what was left of its cap when its last scans began,
\* and all that its concurrent scans could send then (the decision under the
\* semaphore in _process_asset).
THEOREM CapIsSoft == Spec => []SoftCap
<1>1. IInv => SoftCap
  BY DEF IInv, CapParts
<1> QED
  BY <1>1, Invariance, PTL
=============================================================================
