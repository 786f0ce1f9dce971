------------------------------- MODULE MC_RuleRun -------------------------------
(***************************************************************************)
(* Small applications: for each family of rules, the attributes of one       *)
(* subject and the facts of its code in their combinations; and one          *)
(* application with several subjects whose rules run at once.                *)
(***************************************************************************)
EXTENDS RuleRun

Named(level) == [number |-> -1, bases |-> <<level>>, odd |-> FALSE]
MCCatalog == ("CAMERA" :> Named("dangerous")) @@ ("BIND" :> Named("signature"))
MCPlatformNames == {"CAMERA", "BIND", "UNLISTED"}

Declared == ("sig" :> [number |-> 18, bases |-> << >>, odd |-> FALSE])
            @@ ("norm" :> Named("normal"))
            @@ ("odd" :> [number |-> -1, bases |-> <<"signature">>, odd |-> TRUE])

Chain(id) == [id |-> id, methods |-> {"entry"}, flow |-> "source_to_sink", source |-> "other",
              sink |-> "state", effect |-> TRUE, guard |-> "absent", gaps |-> {}, gated |-> FALSE,
              mode |-> "any", sensitive |-> "unknown"]
NoBinder == [onBind |-> FALSE, type |-> "resolved", transactions |-> {}, text |-> FALSE,
             sensitive |-> FALSE]
Component(kind, name) ==
    [kind |-> kind, name |-> name, aliasOf |-> None, exported |-> "true", filtered |-> FALSE,
     permission |-> None, read |-> None, write |-> None, paths |-> {}, grant |-> "false",
     patterns |-> {}, authority |-> "own", nested |-> FALSE, indexed |-> TRUE, entry |-> "own",
     broken |-> "no", calls |-> {}, chains |-> {}, fallback |-> [found |-> FALSE, guard |-> "absent"],
     converged |-> TRUE, routes |-> {}, binder |-> NoBinder, entries |-> {}, proven |-> TRUE,
     boundary |-> "unsafe_prefix", actions |-> {}, hint |-> FALSE]

Subject(m, r) == Parsed(m, r) @@ [raw |-> r]

Manifest(app, sdk, activities) ==
    [appPermission |-> app, declared |-> Declared, activities |-> activities, targetSdk |-> sdk]
Plain == Manifest(None, 30, {})
One(m, rule, r) == [manifest |-> m, rules |-> <<rule>>, subjects |-> <<Subject(m, r)>>]

-----------------------------------------------------------------------------
Exposures ==
    UNION {{One(m, rule, [Component(Kind(rule), "C") EXCEPT
                !.exported = e, !.filtered = f, !.permission = p, !.actions = a]) :
            m \in {Manifest(app, sdk, {}) : app \in {None, "sig", "norm"}, sdk \in {0, 30, 33}},
            e \in {"true", "false", "unknown", "absent"}, f \in BOOLEAN,
            p \in {None, "sig", "norm", "CAMERA"},
            a \in IF Kind(rule) = "receiver" THEN {{}, {"protected"}, {"protected", "plain"}} ELSE {{}}} :
        rule \in {"ACTIVITY_EXPORTED_NO_PERMISSION", "RECEIVER_EXPORTED_NO_PERMISSION"}}

Aliases ==
    {LET target == [Component("activity", "T") EXCEPT !.permission = tp, !.exported = "false"]
         alias == [Component("activity", "A") EXCEPT !.aliasOf = "T", !.permission = p,
                                                    !.indexed = FALSE, !.entry = "none"]
         m == Manifest(app, 30, {target})
     IN  One(m, "ACTIVITY_EXPORTED_NO_PERMISSION", alias) :
        app \in {None, "sig"}, p \in {None, "sig", "norm"}, tp \in {None, "sig", "norm"}}

Entries(name) ==
    {[name |-> name, at |-> at, chains |-> {chain}, calls |-> calls,
      columns |-> [found |-> FALSE, guard |-> "absent"]] :
        at \in {"own"}, calls \in {{}}, chain \in {[Chain("w") EXCEPT !.mode = "rw", !.sink = "file"]}}

GuardedPaths == {{}} \cup {{[path |-> "p", permission |-> a, read |-> b, write |-> None]} :
                            a \in {None, "norm", "ghost"}, b \in {None, "sig"}}
ProviderPolicies ==
    {[Component("provider", "P") EXCEPT !.exported = e, !.permission = p, !.read = r, !.write = w,
                                       !.paths = q, !.grant = g] :
        e \in {"true", "absent"}, p \in {None, "sig", "norm"}, r \in {None, "sig", "norm"},
        w \in {None, "sig"}, q \in GuardedPaths, g \in {"false", "true"}}
ReadWrite == {One(Plain, "PROVIDER_READ_WRITE_PERMISSION_MISSING", r) : r \in ProviderPolicies}
             \cup {One(Plain, "PROVIDER_UNAUTHORIZED_MUTATION", [r EXCEPT !.entries = Entries(n)]) :
                      r \in {q \in ProviderPolicies : q.exported = "true" /\ q.grant = "false"},
                      n \in {"update", "openFile", "call"}}

\* The chains of an entry, and where the entry is declared.
ProviderChainSet ==
    {[Chain("h") EXCEPT !.flow = f, !.source = s, !.sink = k, !.effect = e, !.guard = g, !.sensitive = v] :
        f \in {"effect", "return_disclosure", "source_to_sink"}, s \in {"provider_uri", "provider_sql"},
        k \in {"file", "sql"}, e \in BOOLEAN, g \in {"absent", "present_effective"},
        v \in {"sensitive", "unknown"}}
Serving(rule, n, at, x, o, h) ==
    One(Plain, rule, [Component("provider", "P") EXCEPT
        !.proven = (at = "own"), !.indexed = x, !.authority = o,
        !.entries = {[name |-> n, at |-> at, chains |-> {h}, calls |-> {},
                      columns |-> [found |-> TRUE, guard |-> "absent"]]}])
ProviderCode ==
    {Serving(rule, n, "own", TRUE, "own", h) :
        rule \in ProviderRules, n \in {"query", "delete"}, h \in ProviderChainSet}
    \cup {Serving(rule, n, at, x, o, Chain("h")) :
        rule \in ProviderRules, n \in {"query", "delete"}, at \in {"own", "base", "beyond"},
        x \in BOOLEAN, o \in {"own", "shared", "placeholder"}}

\* How the index knows the class, and what its chains are.
Unresolved(method) == {[code |-> "CALL_TARGET_UNRESOLVED", owner |-> method]}
Flows ==
    {One(Plain, "ACTIVITY_INTENT_TO_SENSITIVE_SINK", [Component("activity", "C") EXCEPT
        !.nested = n, !.indexed = x, !.entry = e, !.broken = b, !.calls = k, !.chains = {Chain("h")}]) :
        n \in BOOLEAN, x \in BOOLEAN, e \in {"own", "base", "beyond"}, b \in {"no", "ambiguous", "deep"},
        k \in {{}, Unresolved("entry"), Unresolved("other")}}
    \cup {One(Plain, "SERVICE_IPC_INPUT_TO_SINK", [Component("service", "C") EXCEPT
        !.permission = p, !.converged = v, !.chains = {[Chain("h") EXCEPT !.guard = g, !.gated = t]}]) :
        p \in {None, "sig", "norm", "odd", "CAMERA", "UNLISTED", "ghost"}, v \in BOOLEAN,
        g \in {"absent", "unknown", "present_effective"}, t \in BOOLEAN}
    \cup {One(Plain, "RECEIVER_INPUT_TO_SINK",
        [Component("receiver", "C") EXCEPT !.fallback = [found |-> TRUE, guard |-> g]]) :
        g \in {"absent", "present_effective"}}

Method(id) == [id |-> id, reads |-> FALSE, own |-> TRUE, calls |-> {}, launch |-> FALSE,
               target |-> FALSE, bulk |-> FALSE, explicit |-> "none"]
Routes ==
    {One(Plain, "ACTIVITY_EXTERNAL_ROUTE_INJECTION", [Component("activity", "C") EXCEPT
        !.permission = p,
        !.routes = {[Method("onCreate") EXCEPT !.reads = r, !.calls = {"step"}],
                    [Method("step") EXCEPT !.own = FALSE, !.reads = TRUE, !.calls = k],
                    [Method("go") EXCEPT !.own = FALSE, !.launch = TRUE, !.target = t, !.bulk = b,
                                         !.explicit = u]}]) :
        p \in {None, "sig"}, r \in BOOLEAN, k \in {{}, {"go"}, {"go", "onCreate"}}, t \in BOOLEAN,
        b \in BOOLEAN, u \in {"none", "registered", "unregistered"}}

Transaction(code) == [code |-> code, token |-> TRUE, named |-> 1, calls |-> 1, fits |-> <<1>>,
                      anywhere |-> 1, chains |-> {Chain("effect")}, common |-> "absent",
                      case |-> "absent", text |-> FALSE]
Serves(c, binder, tx) ==
    One(Plain, BinderRule, [c EXCEPT !.binder = [binder EXCEPT !.transactions = {tx}]])
EffectChains == {{}, {Chain("effect")}, {[Chain("effect") EXCEPT !.guard = "present_effective"]}}
Binders ==
    {Serves([Component("service", "S") EXCEPT !.permission = where[1], !.indexed = where[2]],
            [NoBinder EXCEPT !.onBind = where[3], !.type = y, !.text = t, !.sensitive = TRUE],
            [Transaction(1) EXCEPT !.named = k, !.calls = 2, !.text = t, !.case = c, !.chains = h]) :
        where \in {<<None, TRUE, TRUE>>, <<"sig", TRUE, TRUE>>, <<None, FALSE, TRUE>>, <<"norm", TRUE, FALSE>>},
        y \in {"resolved", "ambiguous", "unresolved"}, t \in BOOLEAN, k \in 1..2,
        c \in {"absent", "present_effective"}, h \in EffectChains}
    \cup {Serves(Component("service", "S"), [NoBinder EXCEPT !.onBind = TRUE],
                [Transaction(1) EXCEPT !.token = o, !.named = k[1], !.calls = k[2], !.fits = i[1],
                                       !.anywhere = i[2], !.text = t, !.case = c, !.chains = h]) :
        o \in BOOLEAN, k \in {<<0, 0>>, <<0, 1>>, <<1, 1>>, <<0, 2>>, <<1, 2>>},
        i \in {<<<<1>>, 1>>, <<<<0, 2>>, 2>>, <<<<1, 2>>, 3>>, <<<<0>>, 0>>, <<<<0>>, 1>>},
        t \in BOOLEAN, c \in {"absent", "present_effective"}, h \in EffectChains}

Registration ==
    [kind |-> "registration", name |-> "dynamic", family |-> "platform_context", args |-> 3,
     fits |-> TRUE, flags |-> {"EXPORTED"}, permission |-> None, actions |-> {"plain"},
     sticky |-> FALSE, target |-> "exact", effects |-> {"effect"}, gaps |-> {}, elsewhere |-> FALSE]
Registered(r) == [manifest |-> Plain, rules |-> <<"DYNAMIC_RECEIVER_EXPORTED_NO_PERMISSION">>,
                  subjects |-> <<r>>]
Registrations ==
    {Registered([Registration EXCEPT !.family = call[1], !.args = call[2], !.flags = g, !.permission = p,
                                     !.actions = a, !.elsewhere = e]) :
        call \in {<<"platform_context", 2>>, <<"platform_context", 3>>, <<"platform_context", 4>>,
                   <<"platform_context", 5>>, <<"context_compat", 4>>, <<"context_compat", 6>>,
                   <<"local_broadcast", 2>>},
        g \in {{"EXPORTED"}, {"NOT_EXPORTED"}, {"opaque"}, {}}, p \in {None, "sig", "norm", "opaque"},
        a \in {{"plain"}, {"protected"}, {"opaque"}}, e \in BOOLEAN}
    \cup {Registered([Registration EXCEPT !.fits = y, !.sticky = k, !.target = t, !.actions = a]) :
        y \in BOOLEAN, k \in BOOLEAN, t \in {"exact", "simple_name", "ambiguous"},
        a \in {{"plain"}, {"protected", "plain"}}}
    \cup {Registered([Registration EXCEPT !.family = call[1], !.args = call[2], !.fits = call[3],
                                          !.flags = g, !.permission = p]) :
        call \in {<<"platform_context", 5, FALSE>>, <<"platform_context", 6, TRUE>>,
                   <<"platform_context", 5, TRUE>>, <<"unknown", 3, TRUE>>,
                   <<"application_method", 3, TRUE>>, <<"local_broadcast", 2, FALSE>>},
        g \in {{"NOT_EXPORTED"}, {"EXPORTED", "NOT_EXPORTED"}}, p \in {None, "sig"}}

Application == [kind |-> "application", name |-> "application", debuggable |-> FALSE,
                backup |-> "unset", exempt |-> FALSE, cleartext |-> "unset", security |-> FALSE]
File == [kind |-> "file", name |-> "f", lines |-> {1, 2}, local |-> FALSE, restricted |-> FALSE]
Facts ==
    {[manifest |-> Manifest(None, sdk, {}), rules |-> <<rule>>,
      subjects |-> <<[Application EXCEPT !.debuggable = d, !.backup = b, !.exempt = x,
                                         !.cleartext = b, !.security = x]>>] :
        rule \in ManifestRules, sdk \in {0, 21, 30}, d \in BOOLEAN,
        b \in {"unset", "true", "false"}, x \in BOOLEAN}
    \cup {[manifest |-> Plain, rules |-> <<rule>>,
           subjects |-> <<[File EXCEPT !.local = l, !.restricted = q]>>] :
        rule \in {"IMPLICIT_BROADCAST_SENSITIVE_DATA", "ORDERED_BROADCAST_UNRESTRICTED",
                  "WEBVIEW_JS_BRIDGE_EXPOSED"}, l \in BOOLEAN, q \in BOOLEAN}

\* Two services, a provider and a receiver registered by code, three rules at once.
Together ==
    LET service(n) == [Component("service", n) EXCEPT
            !.binder = [NoBinder EXCEPT !.onBind = TRUE, !.transactions = {Transaction(1)}]]
        provider == [Component("provider", "P") EXCEPT !.entries = Entries("delete")]
    IN  {[manifest |-> Plain,
          rules    |-> <<"DYNAMIC_RECEIVER_EXPORTED_NO_PERMISSION", "PROVIDER_UNAUTHORIZED_MUTATION",
                         BinderRule>>,
          subjects |-> <<Subject(Plain, service("S")), Subject(Plain, service("T")),
                         Subject(Plain, provider), Registration>>]}

MCScenarios == {Exposures, Aliases, ReadWrite, ProviderCode, Flows, Routes, Binders,
                Registrations, Facts, Together}
================================================================================
