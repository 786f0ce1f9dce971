----------------------------- MODULE RuleDetectors -----------------------------
(***************************************************************************)
(* What a rule makes of one subject: a component of the manifest, a receiver *)
(* registered by code, a file, or the application itself.  A subject carries *)
(* the facts of its code: where its entry methods are declared and what the  *)
(* index resolves of the way there, the chains the data-flow analysis gives, *)
(* its Binder transactions, the entries of a provider.                       *)
(*                                                                          *)
(* Abstractions: a gap is its code; a chain keeps its guard's verdict, what  *)
(* its sink is, and the gaps it carries.                                     *)
(***************************************************************************)
EXTENDS Authorization

\* Gaps that block nothing; every other code is critical.
NonCritical == {"SERVICE_CLASS_NOT_INDEXED", "BINDER_RETURN_TYPE_UNRESOLVED",
                "BINDER_COMPONENT_ANALYSIS_FAILED", "SERVICE_SENSITIVE_BINDER_UPGRADE"}
Critical(gaps) == gaps \ NonCritical

Candidate(rule, subject, chain, level, verified, gaps) ==
    [rule |-> rule, subject |-> subject.name, chain |-> chain, level |-> level,
     verified |-> verified, gaps |-> gaps]

FlowRules == {"ACTIVITY_INTENT_TO_SENSITIVE_SINK", "SERVICE_IPC_INPUT_TO_SINK",
              "RECEIVER_INPUT_TO_SINK"}
ProviderRules == {"PROVIDER_CALLER_CHECK_MISSING", "PROVIDER_URI_TO_FILE",
                  "PROVIDER_SQL_STRUCTURE_INJECTION", "PROVIDER_UNAUTHORIZED_QUERY",
                  "PROVIDER_UNAUTHORIZED_MUTATION"}
ExposureRules == {"ACTIVITY_EXPORTED_NO_PERMISSION", "SERVICE_EXPORTED_NO_PERMISSION",
                  "RECEIVER_EXPORTED_NO_PERMISSION"}
ManifestRules == {"DEBUGGABLE_IN_PRODUCTION", "ALLOW_BACKUP_ENABLED", "CLEARTEXT_TRAFFIC_ALLOWED"}

Kind(rule) ==
    CASE rule \in {"ACTIVITY_EXPORTED_NO_PERMISSION", "ACTIVITY_INTENT_TO_SENSITIVE_SINK",
                   "ACTIVITY_EXTERNAL_ROUTE_INJECTION", "ACTIVITY_SENSITIVE_NAME_HINT"} -> "activity"
      [] rule \in {"SERVICE_EXPORTED_NO_PERMISSION", "SERVICE_BINDER_CALLER_CHECK_MISSING",
                   "SERVICE_IPC_INPUT_TO_SINK"} -> "service"
      [] rule \in {"RECEIVER_EXPORTED_NO_PERMISSION", "RECEIVER_INPUT_TO_SINK"} -> "receiver"
      [] rule \in ProviderRules \cup {"PROVIDER_READ_WRITE_PERMISSION_MISSING",
                                      "PROVIDER_LOOSE_URI_MATCH"} -> "provider"
      [] rule = "DYNAMIC_RECEIVER_EXPORTED_NO_PERMISSION" -> "registration"
      [] rule \in ManifestRules -> "application"
      [] OTHER -> "file"
-----------------------------------------------------------------------------
\* The scope of a component: its entry methods, declared by the class itself or
\* by a base class the index resolves.  A class that declares its own entries is
\* looked up again, under the name the manifest gives a nested class.

HierarchyGap(c) ==
    CASE c.broken = "ambiguous"  -> {"COMPONENT_PARENT_AMBIGUOUS"}
      [] c.broken = "unresolved" -> {"COMPONENT_PARENT_UNRESOLVED"}
      [] c.broken = "cycle"      -> {"COMPONENT_HIERARCHY_CYCLE"}
      [] OTHER -> {}

Scope(c) ==
    LET own == c.indexed /\ c.entry = "own"
        found == IF own THEN ~c.nested ELSE c.indexed /\ c.entry = "base"
    IN  [files |-> found,
         gaps  |-> (IF own THEN {} ELSE HierarchyGap(c))
                   \cup (IF found THEN {} ELSE {"COMPONENT_ENTRY_NOT_INDEXED"}),
         calls |-> IF found THEN c.calls ELSE {}]

\* Of the calls no target was found for, those on the chain count.
ChainGaps(scope, chain) ==
    scope.gaps \cup {call.code : call \in {k \in scope.calls : k.owner \in chain.methods}}

Inferred(c) == [id |-> "legacy_pattern", methods |-> {}, flow |-> "inferred_source_to_sink",
                effect |-> FALSE, guard |-> c.fallback.guard, gated |-> FALSE,
                gaps |-> {"LEGACY_FLOW_FALLBACK"}]

\* The chains of an entry, or else a source and a sink in one method.
FlowCandidates(rule, m, c) ==
    LET scope == Scope(c)
        verdict == Evaluate(m, c, "component_entry", "any")
        chains == IF c.chains # {} THEN c.chains ELSE IF c.fallback.found THEN {Inferred(c)} ELSE {}
        gaps(chain) == chain.gaps \cup verdict.gaps \cup ChainGaps(scope, chain)
                       \cup (IF chain.gated THEN {"INPUT_PROTOCOL_UNCONTROLLED"} ELSE {})
        verified(chain) == chain.effect /\ c.converged /\ Critical(gaps(chain)) = {}
    IN  IF c.effective # "true" \/ ~scope.files \/ Closed(verdict) THEN {}
        ELSE {Candidate(rule, c, chain.id, "L2", verified(chain), gaps(chain)) :
                  chain \in {h \in chains : h.guard # "present_effective"}}
-----------------------------------------------------------------------------
\* Route injection: a method that launches a component, reached over resolved
\* calls from one that reads external input.

Roots(c) == {x.id : x \in {y \in c.routes : y.reads /\ y.own}}

Reached(c) ==
    LET ids == {x.id : x \in c.routes}
        closed(S) == \A x \in c.routes : x.id \in S => x.calls \cap ids \subseteq S
    IN  {i \in ids : \A S \in SUBSET ids : Roots(c) \subseteq S /\ closed(S) => i \in S}

Launches(c) == {x \in c.routes : x.id \in Reached(c) /\ x.launch /\ (x.target \/ x.bulk)}
\* Left out is LOCAL_BROADCAST_ISOLATED, of a launch from an onReceive behind a
\* broadcast inside the process: the candidate is reported all the same, and the
\* funnel counts it against the candidate (FindingPipeline's basis).
LaunchGaps(x) == {"ROUTE_TARGET_RESOLUTION_UNVERIFIED"}
                 \cup (IF x.explicit = "unregistered" THEN {"UNREGISTERED_LAUNCH_TARGET"} ELSE {})
                 \cup (IF x.bulk THEN {"BULK_EXTRAS_FORWARDING"} ELSE {})

RouteCandidates(rule, m, c) ==
    IF c.effective # "true" \/ ~Scope(c).files \/ Closed(Evaluate(m, c, "component_entry", "any"))
    THEN {}
    ELSE {Candidate(rule, c, x.id, IF x.explicit = "unregistered" THEN "L1" ELSE "L2",
                    FALSE, LaunchGaps(x)) : x \in Launches(c)}
-----------------------------------------------------------------------------
\* Services: every transaction of the Binder that onBind returns.

\* The call a case dispatches to: the one that has the transaction's name, or the
\* only one there is.
Dispatched(tx) == tx.calls = 1 \/ (tx.token /\ tx.named = 1)
DispatchGaps(tx) ==
    (IF Dispatched(tx) THEN {}
     ELSE {IF tx.calls > 1 THEN "BINDER_DISPATCH_TARGET_AMBIGUOUS" ELSE "BINDER_DISPATCH_TARGET_UNRESOLVED"})
    \cup (IF tx.token \/ Dispatched(tx) THEN {} ELSE {"BINDER_DISPATCH_TARGET_UNRESOLVED"})
Dispatch == {"BINDER_DISPATCH_TARGET_AMBIGUOUS", "BINDER_DISPATCH_TARGET_UNRESOLVED"}

\* It is bound to the methods that fit in the most derived class that has any, or
\* else in any class, if they are one.
Fitting(tx) == LET own == SelectSeq(tx.fits, LAMBDA n : n > 0)
               IN  CASE ~(tx.token \/ Dispatched(tx)) -> 0
                     [] own # << >> /\ (tx.token \/ Dispatched(tx)) -> own[1]
                     [] OTHER -> tx.anywhere
Bound(tx) == Fitting(tx) = 1
BindingGap(tx) == CASE ~(tx.token \/ Dispatched(tx)) \/ Bound(tx) -> {}
                    [] OTHER -> {IF Fitting(tx) > 1 THEN "BINDER_IMPLEMENTATION_AMBIGUOUS"
                                 ELSE "BINDER_IMPLEMENTATION_UNRESOLVED"}

TypeGap(b) == CASE b.type = "ambiguous"  -> {"BINDER_RETURN_TYPE_AMBIGUOUS"}
                [] b.type = "unresolved" -> {"BINDER_RETURN_TYPE_UNRESOLVED"}
                [] OTHER -> {}
Transactions(b) == IF b.type = "resolved" THEN b.transactions ELSE {}

\* The gaps of the component: a bound implementation makes an ambiguous dispatch
\* harmless here, not in the transaction itself.
BinderGaps(c) ==
    TypeGap(c.binder)
    \cup (IF c.indexed THEN {} ELSE {"SERVICE_CLASS_NOT_INDEXED"})
    \cup UNION {BindingGap(tx) \cup (IF Bound(tx) THEN DispatchGaps(tx) \ Dispatch ELSE DispatchGaps(tx)) :
                    tx \in Transactions(c.binder)}

TransactionGaps(c, tx) == DispatchGaps(tx) \cup BindingGap(tx) \cup Critical(TypeGap(c.binder))

\* The effects of the implementation, what it returns, or a mark for a
\* transaction of which neither is known.
TransactionChains(c, tx) ==
    LET chains == IF Bound(tx) THEN tx.chains ELSE {}
        gaps == TransactionGaps(c, tx)
        mark == [id |-> <<"gap", tx.code>>, effect |-> FALSE, guard |-> "unknown", gaps |-> gaps,
                 flow |-> IF Bound(tx) /\ Critical(gaps) = {} THEN "binder_dispatch"
                          ELSE "critical_gap"]
    IN  IF chains = {} /\ gaps # {} THEN {mark} ELSE chains

\* One effective layer is enough; a word of a caller check in the case is enough
\* where the transaction has gaps.
Dismissed(c, tx, chain) ==
    \/ "present_effective" \in {tx.common, tx.case}
    \/ chain.flow # "critical_gap" /\ chain.guard = "present_effective"
    \/ /\ tx.text
       /\ chain.flow = "critical_gap" \/ (Bound(tx) /\ TransactionGaps(c, tx) # {})

\* No transaction is known: what is reported all the same.
Unbound(b) ==
    CASE Transactions(b) # {} \/ b.text -> {}
      [] Transactions(b) = {} /\ ~b.text /\ Critical(TypeGap(b)) # {} -> {Critical(TypeGap(b))}
      [] OTHER -> IF b.sensitive THEN {{"SERVICE_SENSITIVE_BINDER_UPGRADE"}} ELSE {}

BinderCandidates(rule, m, c) ==
    LET b == c.binder
        verdict == Evaluate(m, c, "component_entry", "any")
        gaps(tx, chain) == TransactionGaps(c, tx) \cup chain.gaps \cup verdict.gaps
        of(tx) == {Candidate(rule, c, chain.id, "L2",
                             chain.effect /\ Critical(gaps(tx, chain)) = {}, gaps(tx, chain)) :
                       chain \in {h \in TransactionChains(c, tx) : ~Dismissed(c, tx, h)}}
    IN  IF ~c.indexed \/ ~b.onBind THEN {}
        ELSE (IF Closed(verdict) THEN {} ELSE UNION {of(tx) : tx \in Transactions(b)})
             \cup {Candidate(rule, c, "onBind", "L2", FALSE, g) : g \in Unbound(b)}
-----------------------------------------------------------------------------
\* Providers: every entry, with the operation it serves.

Mutations == {"insert", "update", "delete", "openFile", "call", "applyBatch"}

ValueChains(entry) == {h \in entry.chains : h.flow # "effect"}

QueryChains(entry) ==
    LET returned == {h \in ValueChains(entry) :
                        h.flow = "return_disclosure" /\ h.sensitive # "non_sensitive"}
        known == {h \in returned : h.sensitive = "sensitive"}
        unproven == {[h EXCEPT !.effect = FALSE,
                               !.gaps = @ \cup {"PROVIDER_QUERY_SENSITIVITY_UNPROVEN"}] :
                        h \in returned \ known}
        columns == [id |-> "columns", flow |-> "columns", source |-> "entry", sink |-> "cursor",
                    effect |-> TRUE, guard |-> entry.columns.guard, gaps |-> {}, mode |-> "any",
                    sensitive |-> "sensitive"]
    IN  IF entry.name # "query" THEN {}
        ELSE known \cup unproven
             \cup (IF returned = {} /\ entry.columns.found THEN {columns} ELSE {})

ProviderChains(rule, entry) ==
    CASE rule = "PROVIDER_CALLER_CHECK_MISSING" ->
            {h \in entry.chains : h.flow \in {"effect", "return_disclosure"}}
      [] rule = "PROVIDER_URI_TO_FILE" ->
            {h \in ValueChains(entry) : h.source = "provider_uri" /\ h.effect /\ h.sink = "file"}
      [] rule = "PROVIDER_SQL_STRUCTURE_INJECTION" ->
            {h \in ValueChains(entry) : h.source = "provider_sql" /\ h.sink = "sql"}
      [] rule = "PROVIDER_UNAUTHORIZED_QUERY" -> QueryChains(entry)
      [] OTHER -> {h \in ValueChains(entry) :
                      /\ entry.name \in Mutations /\ h.effect
                      /\ h.flow \in {"source_to_sink", "control_to_sink"}
                      /\ h.sink \in {"file", "state", "database"}}

Operation_Unnamed(entry) == "provider_access"
Operation(entry) == IF entry.name \in Mutations \cup {"query"} THEN entry.name ELSE "provider_access"
Mode(entry, chain) == IF entry.name = "openFile" THEN chain.mode ELSE "any"

\* The entries of the class and of the bases the index reaches.
EntryScopes(c) == {e \in c.entries : c.indexed /\ e.at \in {"own", "base"}}

ProviderCandidates(rule, m, c) ==
    LET verdict(e, h) == Evaluate(m, c, Operation(e), Mode(e, h))
        gaps(e, h) == h.gaps \cup verdict(e, h).gaps
                      \cup (IF c.proven THEN {} ELSE {"PROVIDER_INHERITANCE_UNPROVEN"})
                      \cup (IF h.flow = "columns" THEN {} ELSE e.calls)
        verified(e, h) == /\ h.effect /\ Critical(gaps(e, h)) = {}
                          /\ rule = "PROVIDER_URI_TO_FILE" => c.boundary = "unsafe_prefix"
        of(e) == {Candidate(rule, c, <<e.name, h.id>>, "L2", verified(e, h), gaps(e, h)) :
                      h \in {h \in ProviderChains(rule, e) :
                                ~Closed(verdict(e, h)) /\ h.guard # "present_effective"}}
    IN  IF c.effective # "true" THEN {} ELSE UNION {of(e) : e \in EntryScopes(c)}
-----------------------------------------------------------------------------
\* Rules that look at the manifest alone.

ProtectedActionsOnly(c) == c.actions # {} /\ c.actions \subseteq {"protected"}

ComponentCandidates(rule, m, c) ==
    LET operation == IF c.kind = "provider" THEN "provider_access" ELSE "component_entry"
        verdict == Evaluate(m, c, operation, "any")
        exposed == /\ c.effective = "true" /\ verdict.status = "unprotected"
                   /\ c.kind = "receiver" => ~ProtectedActionsOnly(c)
        weak == c.effective = "true" /\ verdict.status # "strongly_protected"
    IN  IF CASE rule \in ExposureRules -> exposed
             [] rule = "PROVIDER_READ_WRITE_PERMISSION_MISSING" -> weak
             [] OTHER -> c.hint
        THEN {Candidate(rule, c, "manifest", "L1", FALSE, verdict.gaps)} ELSE {}

ManifestCandidates(rule, m, a) ==
    LET low == Candidate(rule, a, "low", "L1", FALSE, {})
        full == Candidate(rule, a, "full", "L1", FALSE, {})
        graded(mitigated) == IF mitigated THEN {low} ELSE {full}
    IN  CASE rule = "DEBUGGABLE_IN_PRODUCTION" -> IF a.debuggable THEN {full} ELSE {}
          [] rule = "ALLOW_BACKUP_ENABLED" ->
                IF m.targetSdk < 23 \/ a.backup = "false" THEN {}
                ELSE graded(a.backup # "true" \/ a.exempt)
          [] OTHER ->
                CASE a.cleartext = "true" /\ m.targetSdk >= 28 -> graded(a.security)
                  [] m.targetSdk \in 1..27 /\ (a.cleartext # "false" \/ a.security) -> {low}
                  [] OTHER -> {}
-----------------------------------------------------------------------------
\* Receivers registered by code, and patterns of a file.

TargetGap(reg) == CASE reg.target = "simple_name" -> {"RECEIVER_CLASS_QUALIFICATION_UNRESOLVED"}
                    [] reg.target = "ambiguous"   -> {"RECEIVER_TARGET_AMBIGUOUS"}
                    [] reg.target = "unresolved"  -> {"RECEIVER_TARGET_UNRESOLVED"}
                    [] OTHER -> {}

\* The effects count when the verdict on the registration is sure, and an action
\* another app may send is known.
RegistrationCandidates(rule, m, reg) ==
    LET verdict == RegistrationVerdict(m, reg)
        gaps == verdict.gaps \cup TargetGap(reg) \cup reg.gaps
        effects == IF reg.target \in {"exact", "simple_name"} THEN reg.effects ELSE {}
        complete == /\ verdict.reachable = "yes" /\ "plain" \in reg.actions
                    /\ effects # {} /\ gaps = {}
    IN  CASE ~verdict.reported -> {}
          [] verdict.reported /\ complete ->
                {Candidate(rule, reg, e, "L2", TRUE, {}) : e \in effects}
          [] OTHER -> {Candidate(rule, reg, "registration", "L1", FALSE, gaps)}

\* A local broadcast leaves the process to no one.
FileCandidates(rule, f) ==
    CASE rule = "IMPLICIT_BROADCAST_SENSITIVE_DATA" ->
            {Candidate(rule, f, line, "L2", ~f.local,
                       IF f.local THEN {"EXFILTRATION_CHANNEL_ABSENT"} ELSE {}) : line \in f.lines}
      [] rule = "ORDERED_BROADCAST_UNRESTRICTED" ->
            IF f.lines # {} /\ ~f.restricted THEN {Candidate(rule, f, "file", "L1", FALSE, {})} ELSE {}
      [] OTHER -> {Candidate(rule, f, line, "L2", FALSE, {}) : line \in f.lines}
-----------------------------------------------------------------------------
\* One rule on one subject.
CandidatesOf(rule, m, s) ==
    CASE rule \in FlowRules -> FlowCandidates(rule, m, s)
      [] rule = "ACTIVITY_EXTERNAL_ROUTE_INJECTION" -> RouteCandidates(rule, m, s)
      [] rule = "SERVICE_BINDER_CALLER_CHECK_MISSING" -> BinderCandidates(rule, m, s)
      [] rule \in ProviderRules -> ProviderCandidates(rule, m, s)
      [] rule \in ManifestRules -> ManifestCandidates(rule, m, s)
      [] rule = "DYNAMIC_RECEIVER_EXPORTED_NO_PERMISSION" -> RegistrationCandidates(rule, m, s)
      [] Kind(rule) = "file" -> FileCandidates(rule, s)
      [] OTHER -> ComponentCandidates(rule, m, s)
===============================================================================
