----------------------------- MODULE FindingStore -----------------------------
(***************************************************************************)
(* The findings of one run after they are found: the rows and the review    *)
(* history in SQLite, the files the API keeps in step with them, and what   *)
(* acts on both: the end of a scan, reviewers, report requests and a        *)
(* cleanup.                                                                 *)
(*                                                                          *)
(* The handlers of the API run in threads and a step is one transaction or  *)
(* one operation on a file, so anything may happen between two steps of a   *)
(* request.  The program scans a run once; replace_findings promises more,  *)
(* and its tests call it again for a run, so Scans may be more than one.    *)
(*                                                                          *)
(* Abstractions: a file is written by one step and SQLite does not fail; of *)
(* a finding only its review status is kept, and of a file only the status  *)
(* it shows; directories are those of the findings and of the reports.      *)
(***************************************************************************)
EXTENDS Naturals, Sequences, SequencesExt

CONSTANTS
    Findings,       \* the finding ids of the run
    Reviewers,      \* review requests, a retry being a request of its own
    Reporters,      \* requests of a report
    Requests,       \* what they may ask for; expected is "any" and id "none" if left out
    RequestIds,     \* the request_id values clients use
    Scans,          \* sequence of what each scan finds, in order
    BatchSize,      \* _BATCH
    MaxKills        \* bound on the deaths of the server

ReviewStatus == {"pending_ai", "pending_manual", "ai_false_positive",
                 "manual_false_positive", "confirmed"}

ASSUME FindingStoreAssumption ==
    /\ Requests \subseteq [finding : Findings, status : ReviewStatus,
                          expected : ReviewStatus \cup {"any"},
                          id : RequestIds \cup {"none"}]
    /\ Scans \in Seq(Seq(Findings))
    /\ BatchSize \in Nat \ {0}
    /\ MaxKills \in Nat

VARIABLES
    row,        \* the row of each finding
    history,    \* its review history
    finding_file, evidence, report,     \* the status each file shows, or NoFile
    marked,     \* findings whose report is marked stale
    dirs,       \* directories that exist
    rpc, body, rcopy,   \* reviewers: step, request, the row the answer shows
    gpc, gcopy,         \* reporters: step, finding and status it is about
    spc, scan_no, at,   \* scan: step, number and next finding
    shown,      \* history: what the scan before showed
    cleaner,    \* cleanup: step
    crossed,    \* history: requests for a finding, or a cleanup, overlapped
    kills

files == <<finding_file, evidence, report, marked, dirs>>
db == <<row, history>>
reviewers == <<rpc, body, rcopy>>
reporters == <<gpc, gcopy>>
scan == <<spc, scan_no, at, shown>>
vars == <<db, files, reviewers, reporters, scan, cleaner, crossed, kills>>

NoRow == [status |-> "absent", deleted |-> FALSE]
NoFile == "absent"
NoBody == [finding |-> "none", status |-> "none", expected |-> "any", id |-> "none"]

Done == {"idle", "done", "failed", "killed"}
Busy == \/ \E r \in Reviewers : rpc[r] \notin Done
        \/ \E g \in Reporters : gpc[g] \notin Done
        \/ spc \notin {"idle", "done", "failed"} \/ cleaner \notin Done
\* A request that begins while anything else is under way.
Crosses == crossed' = (crossed \/ Busy)

Init ==
    /\ row = [f \in Findings |-> NoRow]
    /\ history = [f \in Findings |-> << >>]
    /\ finding_file = [f \in Findings |-> NoFile]
    /\ evidence = finding_file
    /\ report = finding_file
    /\ marked = {}
    /\ dirs = {"findings", "reports"}
    /\ rpc = [r \in Reviewers |-> "idle"]
    /\ body = [r \in Reviewers |-> NoBody]
    /\ rcopy = [r \in Reviewers |-> "none"]
    /\ gpc = [g \in Reporters |-> "idle"]
    /\ gcopy = [g \in Reporters |-> <<"none", "none">>]
    /\ spc = "idle" /\ scan_no = 0 /\ at = 1 /\ shown = {}
    /\ cleaner = "idle"
    /\ crossed = FALSE
    /\ kills = 0

Visible == {f \in Findings : row[f] # NoRow /\ ~row[f].deleted}
-----------------------------------------------------------------------------
\* review_finding and the route of the same name.

Entries == UNION {ToSet(history[f]) : f \in Findings}
Recorded(b) == {e \in Entries : e.body.id = b.id /\ b.id # "none"}
Rejected(b) ==
    IF Recorded(b) # {} THEN \A e \in Recorded(b) : e.body # b
    ELSE b.expected \notin {"any", row[b.finding].status}

\* The immediate transaction: a request that is recorded changes nothing.
ReviewRow(b) ==
    IF Recorded(b) # {} THEN UNCHANGED db
    ELSE /\ history' = [history EXCEPT ![b.finding] =
                          Append(@, [old |-> row[b.finding].status, body |-> b])]
         /\ row' = [row EXCEPT ![b.finding].status = b.status]

Review(r, b) ==
    /\ rpc[r] = "idle"
    /\ Crosses
    /\ IF b.finding \notin Visible \/ Rejected(b)
         THEN /\ rpc' = [rpc EXCEPT ![r] = "failed"]
              /\ UNCHANGED <<db, body, rcopy>>
         ELSE /\ ReviewRow(b)
              /\ body' = [body EXCEPT ![r] = b]
              /\ rpc' = [rpc EXCEPT ![r] = "finding"]
              /\ rcopy' = [rcopy EXCEPT ![r] = row'[b.finding].status]
    /\ UNCHANGED <<files, reporters, scan, cleaner, kills>>

\* What a request that is over had in memory is not used any more.
Forget(r) == body' = [body EXCEPT ![r] = NoBody] /\ rcopy' = [rcopy EXCEPT ![r] = "none"]

\* Finding, evidence and the mark on the report, one after the other; only the
\* first must be possible.
ReviewFinding(r) ==
    /\ rpc[r] = "finding"
    /\ IF "findings" \in dirs
         THEN /\ finding_file' = [finding_file EXCEPT ![body[r].finding] = rcopy[r]]
              /\ rpc' = [rpc EXCEPT ![r] = "evidence"]
              /\ UNCHANGED <<body, rcopy>>
         ELSE /\ rpc' = [rpc EXCEPT ![r] = "failed"]
              /\ Forget(r)
              /\ UNCHANGED finding_file
    /\ UNCHANGED <<db, evidence, report, marked, dirs, reporters, scan, cleaner, crossed,
                   kills>>

ReviewEvidence(r) ==
    /\ rpc[r] = "evidence"
    /\ evidence' = [evidence EXCEPT ![body[r].finding] =
                      IF @ = NoFile THEN NoFile ELSE rcopy[r]]
    /\ rpc' = [rpc EXCEPT ![r] = "report"]
    /\ UNCHANGED <<db, finding_file, report, marked, dirs, body, rcopy, reporters, scan,
                   cleaner, crossed, kills>>

\* Seeded bug: only a report that says otherwise is marked.
MarkReport_ByVerdict(f, status) ==
    marked' = IF report[f] # NoFile /\ status = "confirmed" THEN marked \cup {f} ELSE marked

MarkReport(f, status) ==
    marked' = IF report[f] # NoFile THEN marked \cup {f} ELSE marked

ReviewReport(r) ==
    /\ rpc[r] = "report"
    /\ MarkReport(body[r].finding, rcopy[r])
    /\ rpc' = [rpc EXCEPT ![r] = "done"]
    /\ Forget(r)
    /\ UNCHANGED <<db, finding_file, evidence, report, dirs, reporters, scan, cleaner,
                   crossed, kills>>
-----------------------------------------------------------------------------
\* finding_report: the row, the report, and the mark that goes.

ReportReads(g, f) ==
    /\ gpc[g] = "idle"
    /\ Crosses
    /\ IF f \in Visible
         THEN /\ gcopy' = [gcopy EXCEPT ![g] = <<f, row[f].status>>]
              /\ gpc' = [gpc EXCEPT ![g] = "write"]
         ELSE gpc' = [gpc EXCEPT ![g] = "failed"] /\ UNCHANGED gcopy
    /\ UNCHANGED <<db, files, reviewers, scan, cleaner, kills>>

\* mkdir(parents=True) brings the directory back.
ReportWrites(g) ==
    /\ gpc[g] = "write"
    /\ dirs' = dirs \cup {"reports"}
    /\ report' = [report EXCEPT ![gcopy[g][1]] = gcopy[g][2]]
    /\ gpc' = [gpc EXCEPT ![g] = "unmark"]
    /\ UNCHANGED <<db, finding_file, evidence, marked, reviewers, gcopy, scan, cleaner,
                   crossed, kills>>

ReportUnmarks(g) ==
    /\ gpc[g] = "unmark"
    /\ marked' = marked \ {gcopy[g][1]}
    /\ gpc' = [gpc EXCEPT ![g] = "done"]
    /\ gcopy' = [gcopy EXCEPT ![g] = <<"none", "none">>]
    /\ UNCHANGED <<db, finding_file, evidence, report, dirs, reviewers, scan, cleaner,
                   crossed, kills>>
-----------------------------------------------------------------------------
\* The aggregation stage: the files of every finding, then replace_findings.

Found == ToSet(Scans[scan_no])

\* A scan after the first finds the run as it is.
ScanBegins ==
    /\ spc \in {"idle", "done"}
    /\ scan_no < Len(Scans)
    /\ scan_no' = scan_no + 1
    /\ spc' = "files"
    /\ at' = 1
    /\ shown' = Visible
    /\ Crosses
    /\ UNCHANGED <<db, files, reviewers, reporters, cleaner, kills>>

ScanFiles ==
    /\ spc = "files"
    /\ IF dirs # {"findings", "reports"}
         THEN spc' = "failed" /\ UNCHANGED <<finding_file, evidence>>
         ELSE /\ spc' = "rows"
              /\ finding_file' = [f \in Findings |->
                   IF f \in Found THEN "pending_manual" ELSE finding_file[f]]
              /\ evidence' = [f \in Findings |->
                   IF f \in Found THEN "pending_manual" ELSE evidence[f]]
    /\ UNCHANGED <<db, report, marked, dirs, reviewers, reporters, scan_no, at, shown,
                   cleaner, crossed, kills>>

\* Seeded bug: the upsert replaces the whole row.
Upserted_Whole(f) == [status |-> "pending_manual", deleted |-> FALSE]

\* The upsert: what a machine can recompute, and not the review.
Upserted(f) ==
    IF row[f] = NoRow THEN [status |-> "pending_manual", deleted |-> FALSE]
    ELSE [row[f] EXCEPT !.deleted = FALSE]

Slice(first, last) ==
    {Scans[scan_no][i] : i \in {j \in DOMAIN Scans[scan_no] : first <= j /\ j <= last}}
Batch == Slice(at, at + BatchSize - 1)

\* One transaction per batch.
ScanRows ==
    /\ spc = "rows"
    /\ IF at > Len(Scans[scan_no])
         THEN spc' = "delete" /\ UNCHANGED <<row, at>>
         ELSE /\ row' = [f \in Findings |-> IF f \in Batch THEN Upserted(f) ELSE row[f]]
              /\ at' = at + BatchSize
              /\ UNCHANGED spc
    /\ UNCHANGED <<history, files, reviewers, reporters, scan_no, shown, cleaner,
                   crossed, kills>>

\* Seeded bug: the ids of the last batch only.
Missing_LastBatch == Findings \ Slice(at - BatchSize, at - 1)

Missing == Findings \ Found

\* What this scan did not find is removed, softly, at the end.
ScanDeletes ==
    /\ spc = "delete"
    /\ row' = [f \in Findings |->
         IF f \in Missing /\ row[f] # NoRow THEN [row[f] EXCEPT !.deleted = TRUE] ELSE row[f]]
    /\ spc' = "done"
    /\ at' = 1
    /\ shown' = {}
    /\ UNCHANGED <<history, files, reviewers, reporters, scan_no, cleaner, crossed, kills>>
-----------------------------------------------------------------------------
\* cleanup_run, clear_sensitive_content: directories, then rows (and, by the
\* cascade, the history).

ClearBegins ==
    /\ cleaner = "idle"
    /\ cleaner' = "findings"
    /\ Crosses
    /\ UNCHANGED <<db, files, reviewers, reporters, scan, kills>>

ClearFindingsDir ==
    /\ cleaner = "findings"
    /\ cleaner' = "reports"
    /\ dirs' = dirs \ {"findings"}
    /\ finding_file' = [f \in Findings |-> NoFile]
    /\ UNCHANGED <<db, evidence, report, marked, reviewers, reporters, scan, crossed, kills>>

ClearReportsDir ==
    /\ cleaner = "reports"
    /\ cleaner' = "rows"
    /\ dirs' = dirs \ {"reports"}
    /\ evidence' = [f \in Findings |-> NoFile]
    /\ report' = [f \in Findings |-> NoFile]
    /\ marked' = {}
    /\ UNCHANGED <<db, finding_file, reviewers, reporters, scan, crossed, kills>>

ClearRows ==
    /\ cleaner = "rows"
    /\ cleaner' = "done"
    /\ row' = [f \in Findings |-> NoRow]
    /\ history' = [f \in Findings |-> << >>]
    /\ UNCHANGED <<files, reviewers, reporters, scan, crossed, kills>>

\* The server is killed, and with it every request and the scan.
Kill ==
    /\ Busy
    /\ kills < MaxKills
    /\ kills' = kills + 1
    /\ rpc' = [r \in Reviewers |-> IF rpc[r] \in Done THEN rpc[r] ELSE "killed"]
    /\ gpc' = [g \in Reporters |-> IF gpc[g] \in Done THEN gpc[g] ELSE "killed"]
    /\ spc' = IF spc \in {"idle", "done"} THEN spc ELSE "failed"
    /\ cleaner' = IF cleaner \in Done THEN cleaner ELSE "killed"
    /\ body' = [r \in Reviewers |-> NoBody]
    /\ rcopy' = [r \in Reviewers |-> "none"]
    /\ gcopy' = [g \in Reporters |-> <<"none", "none">>]
    /\ UNCHANGED <<db, files, scan_no, at, shown, crossed>>

RequestStep ==
    \/ \E r \in Reviewers : ReviewFinding(r) \/ ReviewEvidence(r) \/ ReviewReport(r)
    \/ \E g \in Reporters : ReportWrites(g) \/ ReportUnmarks(g)
ScanStep == ScanFiles \/ ScanRows \/ ScanDeletes
ClearStep == ClearFindingsDir \/ ClearReportsDir \/ ClearRows

Next ==
    \/ \E r \in Reviewers, b \in Requests : Review(r, b)
    \/ \E g \in Reporters, f \in Findings : ReportReads(g, f)
    \/ ScanBegins \/ ClearBegins \/ RequestStep \/ ScanStep \/ ClearStep \/ Kill

Spec == Init /\ [][Next]_vars
-----------------------------------------------------------------------------
\* A request that was recorded is never applied again: not by a retry, not by
\* one that comes at the same time, not after somebody else reviewed the
\* finding in between.
AppliedOnce ==
    \A f, g \in Findings : \A i \in DOMAIN history[f], j \in DOMAIN history[g] :
        LET id == history[f][i].body.id
        IN  id = history[g][j].body.id /\ id # "none" => f = g /\ i = j

StatusBefore(f, i) ==
    IF i = 1 THEN "pending_manual" ELSE history[f][i - 1].body.status

\* The history of a finding is a chain that ends in its status: no review is
\* lost or applied to a status its reviewer had not expected, however reviews,
\* scans and a clear interleave (docstrings of review_finding, replace_findings).
HistoryIsAChain ==
    /\ AppliedOnce
    /\ \A f \in Findings :
        /\ \A i \in DOMAIN history[f] :
             /\ history[f][i].old = StatusBefore(f, i)
             /\ history[f][i].body.expected \in {"any", history[f][i].old}
        /\ row[f] # NoRow => row[f].status = StatusBefore(f, Len(history[f]) + 1)
        /\ row[f] = NoRow => history[f] = << >>

\* A finding that two scans in a row made is visible all the time, and what the
\* last whole scan made is what is visible, though rows are replaced batch by
\* batch and the server may die between two of them.
ReplacedWhole ==
    cleaner = "idle" /\ scan_no > 0 =>
        /\ shown \cap Found \subseteq Visible
        /\ spc \in {"idle", "files"} => Visible = shown
        /\ spc = "done" => Visible = Found

Quiet == ~Busy /\ kills = 0

\* The files of a finding follow its row: what they show is its status, and a
\* report that shows another is marked stale, when requests come one by one; and
\* a clear that was alone and not killed leaves neither rows nor files.
FilesFollow ==
    /\ Quiet /\ ~crossed /\ scan_no = 1 =>
        \A f \in Visible :
            /\ finding_file[f] = row[f].status
            /\ evidence[f] = row[f].status
            /\ report[f] \in {NoFile, row[f].status} \/ f \in marked
    /\ cleaner = "done" /\ ~crossed =>
        \A f \in Findings :
            /\ row[f] = NoRow /\ history[f] = << >>
            /\ {finding_file[f], evidence[f], report[f]} = {NoFile}
===============================================================================
