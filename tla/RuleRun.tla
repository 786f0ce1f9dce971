-------------------------------- MODULE RuleRun --------------------------------
(***************************************************************************)
(* The rule stage of a run: RuleRunner.run_all runs every rule in a process  *)
(* of its own, W at a time, keeps each result as it comes in and puts them   *)
(* together in the order of the rules.  A rule's process goes through its    *)
(* subjects; the parent ends it at a limit.  Only the Binder rule has a      *)
(* deadline of its own and outlives the failure of a subject.                *)
(*                                                                          *)
(* Abstractions: time is the two moments that matter, the Binder rule's      *)
(* deadline (1) and the parent's wall-clock limit (Wall); a result file is   *)
(* its result; the limits on output, memory, CPU and files are one failure.  *)
(***************************************************************************)
EXTENDS RuleDetectors, Lists

CONSTANTS
    Scenarios,  \* sets of records: manifest, rules (sorted by id), subjects
    MaxWorkers, \* max_concurrency
    Wall        \* wall_timeout_seconds: before (1) or after (2) the deadline

ASSUME RuleRunAssumption ==
    /\ MaxWorkers \in Nat \ {0} /\ Wall \in 1..2
    /\ \A family \in Scenarios : \A x \in family :
          x.rules \in Seq(ToSet(x.rules)) /\ x.subjects \in Seq(ToSet(x.subjects))

\* A component is what parse_manifest makes of its element (raw); its other
\* attributes are the element's.  An alias is an activity, and no class has its
\* name; what Android reads of a <provider> alone stands on providers alone; a
\* class without entries has no chains; the entries of a provider have known names
\* and are the class's own or those of a base.
ComponentIsParsed(m, s) ==
    /\ s.effective = EffectiveExported(m, s.raw) /\ s.declares = s.raw.permission
    /\ s.permission = ParsedPermission(m, s.raw)
    /\ \A f \in {"kind", "exported", "filtered", "aliasOf", "read", "write", "paths"} :
          s[f] = s.raw[f]
    /\ s.aliasOf # None => s.kind = "activity" /\ ~s.indexed
    /\ s.kind # "provider" => s.paths = {} /\ s.grant = "false" /\ s.patterns = {}
    /\ s.indexed /\ s.entry \notin {"own", "base", "beyond"} => s.chains = {} /\ s.routes = {}
    /\ \A p \in s.paths : p.path # "elsewhere"
    /\ \A e \in s.entries :
          e.name \in Mutations \cup {"query"} /\ e.at \in {"own", "base", "beyond"}
    /\ s.binder.type \in {"resolved", "ambiguous", "unresolved"}
    /\ \A tx \in s.binder.transactions : \A h \in tx.chains : h.flow # "critical_gap"

\* Where no action is read of a filter, one is noted that is not known.
SubjectIsParsed(m, s) ==
    /\ s.kind \in {"activity", "service", "receiver", "provider"} => ComponentIsParsed(m, s)
    /\ s.kind = "registration" =>
          s.actions # {} /\ s.actions \subseteq {"plain", "protected", "opaque"}

ASSUME ParsedAssumption ==
    \A family \in Scenarios : \A x \in family :
        /\ None \notin DOMAIN x.manifest.declared \cup DOMAIN Catalog \cup PlatformNames
        /\ \A s \in ToSet(x.subjects) : SubjectIsParsed(x.manifest, s)

BinderRule == "SERVICE_BINDER_CALLER_CHECK_MISSING"

VARIABLES
    input,      \* what the run is given
    stage,      \* run_all: "running", "done" or "raised"
    proc,       \* rule -> its process
    result,     \* rule -> what the parent has of it
    answer      \* what run_all returns: candidates, failures, last_coverage_gaps

rule_vars == <<input, stage, proc, result, answer>>

Rules == DOMAIN proc
Idle == [state |-> "queued", left |-> << >>, found |-> {}, notes |-> {}, clock |-> 0]
NoResult == [status |-> "none", found |-> {}, notes |-> {}]
Failed == [NoResult EXCEPT !.status = "failed"]

\* A note on a component: its diagnostic.
Note(c, status, gaps) == [subject |-> c.name, status |-> status, gaps |-> gaps]
-----------------------------------------------------------------------------
\* The subjects of a rule.
Subjects(rule) ==
    LET kind(s) == s.kind = Kind(rule)
        open(s) == /\ s.effective = "true"
                   /\ Evaluate(input.manifest, s, "component_entry", "any").status # "strongly_protected"
        all == Filtered(input.subjects, kind)
    IN  IF rule = BinderRule THEN Filtered(all, open) ELSE all

RulesInit ==
    /\ \E family \in Scenarios : input \in family
    /\ stage = "running"
    /\ proc = [r \in {input.rules[i] : i \in DOMAIN input.rules} |-> Idle]
    /\ result = [r \in DOMAIN proc |-> NoResult]
    /\ answer = [candidates |-> << >>, failures |-> << >>, gaps |-> {}]

\* _run_one: a worker takes the next rule.
Start(r) ==
    /\ stage = "running" /\ proc[r].state = "queued"
    /\ Cardinality({q \in Rules : proc[q].state \in {"loading", "running", "ended"}}) < MaxWorkers
    /\ \A i, j \in DOMAIN input.rules :
          input.rules[j] = r /\ i < j => proc[input.rules[i]].state # "queued"
    /\ proc' = [proc EXCEPT ![r] =
          [@ EXCEPT !.state = IF r = BinderRule THEN "loading" ELSE "running",
                    !.left = Subjects(r)]]
    /\ UNCHANGED <<input, stage, result, answer>>

\* The Binder rule loads all services at once; past its deadline the query is
\* interrupted and every service is noted.
Load(r) ==
    /\ proc[r].state = "loading"
    /\ \/ proc' = [proc EXCEPT ![r].state = "running"]
       \/ /\ proc[r].clock >= 1 /\ proc[r].left # << >>
          /\ proc' = [proc EXCEPT ![r] =
                [@ EXCEPT !.state = "running", !.left = << >>,
                          !.notes = {Note(c, "timeout", {"BINDER_BATCH_TIMEOUT"}) :
                                        c \in ToSet(proc[r].left)}]]
    /\ UNCHANGED <<input, stage, result, answer>>

Analyse(r) ==
    LET p == proc[r]
        c == Head(p.left)
        late == r = BinderRule /\ p.clock >= 1
        note == IF late THEN Note(c, "timeout", {"BINDER_RULE_DEADLINE_EXCEEDED"})
                ELSE Note(c, "completed", BinderGaps(c))
        found == IF late THEN {} ELSE CandidatesOf(r, input.manifest, c)
    IN  /\ p.state = "running" /\ p.left # << >>
        /\ proc' = [proc EXCEPT ![r] =
              [p EXCEPT !.left = Tail(p.left), !.found = p.found \cup found,
                        !.notes = IF r = BinderRule THEN p.notes \cup {note} ELSE p.notes]]
        /\ UNCHANGED <<input, stage, result, answer>>

\* The analysis of a component raises: the Binder rule notes it and goes on, any
\* other rule ends with an exit code.
ComponentFails(r) ==
    LET p == proc[r]
        c == Head(p.left)
        note == Note(c, "error", BinderGaps(c) \cup {"BINDER_COMPONENT_ANALYSIS_FAILED"})
    IN  /\ p.state = "running" /\ p.left # << >>
        /\ IF r = BinderRule
           THEN /\ p.clock = 0
                /\ proc' = [proc EXCEPT ![r] =
                      [p EXCEPT !.left = Tail(p.left), !.notes = p.notes \cup {note}]]
                /\ UNCHANGED result
           ELSE /\ proc' = [proc EXCEPT ![r].state = "ended"]
                /\ result' = [result EXCEPT ![r] = Failed]
        /\ UNCHANGED <<input, stage, answer>>

Exit(r) ==
    /\ proc[r].state = "running" /\ proc[r].left = << >>
    /\ proc' = [proc EXCEPT ![r].state = "ended"]
    /\ result' = [result EXCEPT ![r] =
          [status |-> "completed", found |-> proc[r].found, notes |-> proc[r].notes]]
    /\ UNCHANGED <<input, stage, answer>>

Tick(r) ==
    /\ proc[r].state \in {"loading", "running"} /\ proc[r].clock < Wall
    /\ proc' = [proc EXCEPT ![r].clock = @ + 1]
    /\ UNCHANGED <<input, stage, result, answer>>

\* The parent kills the process group at the wall-clock limit, and at any time
\* for its output or its files; a process may also end by itself with an error,
\* or with an output that does not hold to the protocol.
End(r) ==
    /\ proc[r].state \in {"loading", "running"}
    /\ proc' = [proc EXCEPT ![r].state = "ended"]
    /\ result' = [result EXCEPT ![r] = Failed]
    /\ UNCHANGED <<input, stage, answer>>

Kill_Running(r) == proc[r].clock = Wall /\ proc[r].state = "running" /\ End(r)
Kill(r) == proc[r].clock = Wall /\ End(r)
Breaks(r) == proc[r].clock < Wall /\ End(r)

\* The parent takes the result and writes it to rule-results.
TakeResult(r) ==
    /\ stage = "running" /\ proc[r].state = "ended"
    /\ proc' = [proc EXCEPT ![r].state = "collected"]
    /\ UNCHANGED <<input, stage, result, answer>>

\* A worker of the pool dies, or a result cannot be written: run_all raises.
WorkerDies(r) ==
    /\ stage = "running" /\ proc[r].state \in {"loading", "running", "ended"}
    /\ stage' = "raised"
    /\ UNCHANGED <<input, proc, result, answer>>

\* A diagnostic counts when its component was not analysed or has critical gaps.
Partial_CriticalOnly(r) ==
    {[rule |-> r, subject |-> n.subject, status |-> n.status, gaps |-> Critical(n.gaps)] :
        n \in {n \in result[r].notes : Critical(n.gaps) # {}}}
Partial(r) ==
    {[rule |-> r, subject |-> n.subject, status |-> n.status, gaps |-> Critical(n.gaps)] :
        n \in {n \in result[r].notes : n.status # "completed" \/ Critical(n.gaps) # {}}}

Aggregate ==
    LET completed == Filtered(input.rules, LAMBDA r : result[r].status = "completed")
    IN  /\ stage = "running" /\ \A r \in Rules : proc[r].state = "collected"
        /\ stage' = "done"
        /\ answer' = [candidates |-> [i \in DOMAIN completed |->
                                        <<completed[i], result[completed[i]].found>>],
                      failures   |-> Filtered(input.rules, LAMBDA r : result[r].status = "failed"),
                      gaps       |-> UNION {Partial(completed[i]) : i \in DOMAIN completed}]
        /\ UNCHANGED <<input, proc, result>>

RuleStep(r) == \/ Start(r) \/ Load(r) \/ Analyse(r) \/ ComponentFails(r) \/ Exit(r)
               \/ Tick(r) \/ Kill(r) \/ Breaks(r) \/ TakeResult(r) \/ WorkerDies(r)
RulesNext ==
    \/ \E r \in Rules : RuleStep(r)
    \/ Aggregate
    \/ stage # "running" /\ UNCHANGED rule_vars

\* Time passes and the parent polls, collects and starts the next rule; what a
\* rule's process does is left open, it may hang for ever.
Parent == Aggregate \/ \E r \in Rules : Start(r) \/ Tick(r) \/ Kill(r) \/ TakeResult(r)
RulesFairness == WF_rule_vars(Parent)

RulesSpec == RulesInit /\ [][RulesNext]_rule_vars /\ RulesFairness
-----------------------------------------------------------------------------
\* What the answer holds of a rule.
Reported(r) == UNION {entry[2] : entry \in {e \in ToSet(answer.candidates) : e[1] = r}}

\* What is left of subject s under rule r: a candidate, the failure of the rule,
\* a gap that names it, or finalize_run_coverage's gap for an exported component
\* whose class the index does not have (by the name of the manifest, so that an
\* alias always has one).
MissingClass(s) ==
    /\ s.kind \in {"activity", "service", "receiver", "provider"} /\ s.effective = "true"
    /\ ~s.indexed \/ s.nested
Traced(r, s) ==
    \/ \E f \in Reported(r) : f.subject = s.name
    \/ \E i \in DOMAIN answer.failures : answer.failures[i] = r
    \/ \E g \in answer.gaps : g.rule = r /\ g.subject = s.name
    \/ MissingClass(s)
-----------------------------------------------------------------------------
\* What is there to find, by what Android lets an app that holds the permissions
\* of some levels do, whether or not the analysis sees it.

Unguarded(chains) == {h \in chains : h.guard # "present_effective"}

Enters(s, operation, mode, levels) ==
    ExportedByAndroid(input.manifest, s.raw) /\ Admits(input.manifest, s.raw, operation, mode, levels)

\* A Binder transaction no layer of which checks the caller.
OpenTransactions(s) == {tx \in s.binder.transactions :
                          /\ tx.common # "present_effective" /\ tx.case # "present_effective"
                          /\ Unguarded(tx.chains) # {}}

\* By the arguments of the overload, those the parser could not fit included.
RegistrationOpen(reg, levels) ==
    LET place == OverloadOf(reg.family, reg.args)
    IN  /\ reg.family \in {"platform_context", "context_compat"} /\ place # << >> /\ ~reg.sticky
        /\ place[2] # 0 => "NOT_EXPORTED" \notin reg.flags
        /\ reg.actions \cap {"plain", "opaque"} # {} \/ reg.elsewhere
        /\ place[1] # 0 => reg.permission = "opaque" \/ Has(input.manifest, levels, reg.permission)

\* The parser does not know which overload is called, or its flags exclude one another.
UnknownCall(reg) == Overload(reg) = << >> \/ {"EXPORTED", "NOT_EXPORTED"} \subseteq reg.flags

Exposed(r, s) ==
    CASE r \in ExposureRules -> Enters(s, "component_entry", "any", Nothing)
      [] r = "PROVIDER_READ_WRITE_PERMISSION_MISSING" -> Enters(s, "provider_access", "any", Obtainable)
      [] r \in FlowRules -> Enters(s, "component_entry", "any", Obtainable) /\ Unguarded(s.chains) # {}
      [] r = "ACTIVITY_EXTERNAL_ROUTE_INJECTION" ->
                /\ Enters(s, "component_entry", "any", Obtainable)
                /\ \E x \in s.routes : x.id \in Reached(s) /\ x.launch /\ (x.target \/ x.bulk)
      [] r = BinderRule -> Enters(s, "component_entry", "any", Obtainable) /\ OpenTransactions(s) # {}
      [] r \in ProviderRules ->
                \E e \in s.entries : \E h \in Unguarded(ProviderChains(r, e)) :
                    Enters(s, Operation(e), Mode(e, h), Obtainable)
      [] r = "DYNAMIC_RECEIVER_EXPORTED_NO_PERMISSION" -> RegistrationOpen(s, Obtainable)
      [] OTHER -> FALSE

\* Where the code is known to miss what is there.
BlindSpot(r, s) ==
    CASE r = "DYNAMIC_RECEIVER_EXPORTED_NO_PERMISSION" ->
            \* actions added by other code than the registration's
            ProtectedOnly(s) /\ s.elsewhere
      [] OTHER ->
            \* an export that depends on the platform counts as none
            \/ s.effective # "true"
            \* broadcasts only the system sends; an intent may still name the receiver
            \/ r = "RECEIVER_EXPORTED_NO_PERMISSION" /\ ProtectedActionsOnly(s)
            \* an undeclared permission of a path is given the level of another
            \/ \E p \in s.paths : \E d \in {"read", "write"} :
                  OwnPermission(p, d) \notin DOMAIN input.manifest.declared \cup {None}
            \* call() is taken to need the write permission
            \/ \E e \in s.entries : e.name = "call"
            \* the entry is inherited from a class the index does not reach
            \/ s.entry = "beyond" \/ \E e \in s.entries : e.at = "beyond"
            \/ r = BinderRule /\
                  \* onBind is inherited, or what it returns has no known type
                  \/ ~s.binder.onBind \/ s.binder.type = "unresolved"
                  \* a caller check is named in the case of an unsure dispatch
                  \/ \E tx \in OpenTransactions(s) : tx.text /\ Bound(tx) /\ DispatchGaps(tx) # {}
-----------------------------------------------------------------------------
(* Whatever an ordinary app can reach without meeting an effective check       *)
(* leaves a trace in the answer, except where BlindSpot says.                 *)
ExposedIsReported ==
    stage = "done" =>
        \A r \in Rules : \A s \in ToSet(Filtered(input.subjects, LAMBDA x : x.kind = Kind(r))) :
            Exposed(r, s) /\ ~BlindSpot(r, s) => Traced(r, s)

\* No candidate for a subject that is closed to every ordinary app: a component
\* that is not exported, or one whose permissions none but the system can hold;
\* of a call the parser does not know, the candidate says so, with the code of
\* what it did not understand of the flags (RegistrationVerdict).
WithinReach(r, s, f) ==
    CASE r \in ExposureRules -> Enters(s, "component_entry", "any", Nothing)
      [] r \in FlowRules \cup {BinderRule, "ACTIVITY_EXTERNAL_ROUTE_INJECTION"} ->
            Enters(s, "component_entry", "any", MayObtain)
      [] r = "PROVIDER_READ_WRITE_PERMISSION_MISSING" ->
            Enters(s, "provider_access", "any", MayObtain) \/ UriGrant(s, s.paths)
      [] r \in ProviderRules ->
            Enters(s, f.chain[1], "any", MayObtain) \/ UriGrant(s, s.paths)
      [] r = "DYNAMIC_RECEIVER_EXPORTED_NO_PERMISSION" ->
            \/ RegistrationOpen(s, MayObtain)
            \/ UnknownCall(s) /\ "RECEIVER_FLAG_UNKNOWN" \in f.gaps
      [] OTHER -> TRUE

ReportedIsReachable ==
    stage = "done" =>
        \A r \in Rules : \A f \in Reported(r) :
            \E s \in ToSet(input.subjects) :
                s.kind = Kind(r) /\ s.name = f.subject /\ WithinReach(r, s, f)

\* The answer is the same in whatever order the rules end, and whole: a rule's
\* candidates are those of all its subjects, but for those a gap names.
AnswerIsWhole ==
    stage = "done" =>
        /\ \A list \in {answer.failures, [i \in DOMAIN answer.candidates |-> answer.candidates[i][1]]} :
              \A i, j \in DOMAIN list : i < j =>
                  \E k, l \in DOMAIN input.rules :
                      k < l /\ input.rules[k] = list[i] /\ input.rules[l] = list[j]
        /\ \A r \in Rules :
              \/ \E i \in DOMAIN answer.failures : answer.failures[i] = r
              \/ \A s \in ToSet(Subjects(r)) :
                    \/ CandidatesOf(r, input.manifest, s) \subseteq Reported(r)
                    \/ \E g \in answer.gaps : g.rule = r /\ g.subject = s.name

\* A rule that hangs does not keep the run: the stage ends.
RulesFinish == <>(stage # "running")
===============================================================================
