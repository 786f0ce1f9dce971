------------------------------ MODULE ContextSlice ------------------------------
(***************************************************************************)
(* The code a candidate is judged by: ContextBuilder makes a slice of the   *)
(* index around the anchors of the candidate, extends it with what the AI   *)
(* asks for, and ContextBudgeter trims it before every request.  All the    *)
(* candidates of a scan share one builder, and with it the call relations   *)
(* it loads as it needs them; their extensions are taken in any order.      *)
(*                                                                          *)
(* Abstractions: text is line numbers; bytes and tokens are counted in      *)
(* lines, a summary being one line and an omission one; all spellings of a  *)
(* method other than its id are its name; of the reason of a context only   *)
(* the priority it gives is kept; contexts of one priority go by admission, *)
(* not by the text of their ids.  Every file of the index is loaded when    *)
(* the builder is made.                                                     *)
(***************************************************************************)
EXTENDS Integers, SequencesExt, Lists

CONSTANTS
    Method,         \* id -> [path, first, last, class, name]
    Classes,        \* set of [name, simple, path, first, last]
    Simple,         \* the last part of a class name
    LastLine,       \* path -> its number of lines
    Calls,          \* resolved call sites, as pairs of methods
    AmbiguousIn,    \* methods with a call site that was not resolved
    Guards, Words,  \* path -> lines GUARD_PATTERN, _GUARD_WORD match
    Lifecycle,      \* method names of LIFECYCLE_METHODS
    SliceCandidates,\* what the slices are made for
    Slices,         \* 1..n, in the order they are built
    Requests,       \* what the AI may ask for
    MaxRequests,    \* bound on the requests of one answer
    MaxContexts, MaxAdditions, MaxBytes, MaxTokens, MaxLines, MaxMethods,
    MaxExtensions,
    HalfWindow      \* lines of a window on each side of an anchor

Methods == DOMAIN Method
Files == DOMAIN LastLine
NoPath == "none"

ASSUME ContextSliceAssumption ==
    /\ Methods \subseteq Nat \ {0} /\ IsFiniteSet(Methods) /\ IsFiniteSet(Classes)
    /\ Calls \subseteq Methods \X Methods
    /\ AmbiguousIn \subseteq Methods
    /\ \A m \in Methods : /\ Method[m].first \in Nat /\ Method[m].last \in Nat
                          /\ Method[m].path \in Files
    /\ \A path \in Files : LastLine[path] \in Nat
    /\ \A k \in SliceCandidates :
          \A list \in {k.locations, k.sources, k.sinks, k.propagation_paths} :
              list \in Seq(ToSet(list)) /\ \A a \in ToSet(list) : a.line \in Nat
    /\ {MaxContexts, MaxAdditions, MaxBytes, MaxLines} \subseteq Nat \ {0}
    /\ MaxMethods \in Nat /\ HalfWindow \in Nat

VARIABLES
    cand,       \* the candidate of each slice
    doc,        \* its slice
    graph,      \* the call relations the builder has loaded
    phase,      \* unbuilt, ready, asked, final, over
    extensions, \* extensions made
    sent,       \* the last slice sent
    answers     \* answers to the last requests

slice_vars == <<cand, doc, graph, phase, extensions, sent, answers>>
-----------------------------------------------------------------------------
\* Contexts.

Context(kind, m, name, path, first, last, weight) ==
    [kind |-> kind, method |-> m, name |-> name, path |-> path,
     first |-> first, last |-> last, weight |-> weight]
Id(c) == [c EXCEPT !.weight = 0]
Ids(d) == {Id(d.contexts[i]) : i \in DOMAIN d.contexts}
MethodsIn(d) == {c.method : c \in {x \in Ids(d) : x.kind = "method"}}
Lines(c) == c.first..c.last
Size(c) == IF c.kind \in {"method", "window"} THEN Cardinality(Lines(c)) ELSE 1
SizeOf(cs) == FoldLeft(LAMBDA n, c : n + Size(c), 0, cs)

MethodContext(m, w) ==
    Context("method", m, Method[m].name, Method[m].path, Method[m].first, Method[m].last, w)
Window(path, line, w) ==
    Context("window", 0, "", path, Max({1, line - HalfWindow}),
            Min({LastLine[path], line + HalfWindow}), w)
ClassSummary(c, w) == Context("class_summary", 0, c.name, c.path, c.first, c.last, w)
FileSymbols(path, w) == Context("file_symbols", 0, "", path, 1, LastLine[path], w)
ManifestContext == Context("manifest", 0, "", "AndroidManifest.xml", 0, 0, 0)

Rejected(d, additions, c) ==
    \/ Len(d.contexts) >= MaxContexts
    \/ additions >= MaxAdditions
    \/ SizeOf(d.contexts) + Size(c) > MaxBytes

\* What is not admitted is recorded, each time.
Omit(d, c) == [d EXCEPT !.omitted = Append(@, Id(c))]
Admit(a, c) ==
    IF Id(c) \in Ids(a.doc) THEN a
    ELSE IF Rejected(a.doc, a.additions, c) THEN [a EXCEPT !.doc = Omit(@, c)]
    ELSE [doc |-> [a.doc EXCEPT !.contexts = Append(@, c)], additions |-> a.additions + 1]
AdmitAll(d, cs) ==
    LET after[n \in 0..Len(cs)] ==
            IF n = 0 THEN [doc |-> d, additions |-> 0] ELSE Admit(after[n - 1], cs[n])
    IN after[Len(cs)].doc

InOrder(ms) ==
    Sorted(ms, LAMBDA m, n : \/ Method[m].first < Method[n].first
                             \/ Method[m].first = Method[n].first /\ m < n)
ById(ms) == Sorted(ms, <)
MethodContexts(ms, w) == [i \in DOMAIN ms |-> MethodContext(ms[i], w)]
-----------------------------------------------------------------------------
\* Call relations, loaded for a method when it is first needed.

SitesOf(callers, callees) == {c \in Calls : c[1] # c[2] /\ (c[2] \in callers \/ c[1] \in callees)}

Ensured(g, ms, relation) ==
    LET callers == IF relation \in {"callers", "both"} THEN ms \ g.callers ELSE {}
        callees == IF relation \in {"callees", "both"} THEN ms \ g.callees ELSE {}
    IN [calls |-> g.calls \cup SitesOf(callers, callees),
        callers |-> g.callers \cup callers,
        callees |-> g.callees \cup callees,
        gaps |-> g.gaps \cup ms]

Related(g, m, relation) ==
    IF relation = "callers" THEN {c[1] : c \in {x \in g.calls : x[2] = m}}
                            ELSE {c[2] : c \in {x \in g.calls : x[1] = m}}

\* Seeded bug: what is known of a method is taken for all there is.
Loaded_IfUnknown(g, d) ==
    Ensured(g, {m \in MethodsIn(d) : ~\E c \in g.calls : m \in {c[1], c[2]}}, "both")

Loaded(g, d) == Ensured(g, MethodsIn(d), "both")

\* Edges, guards and ambiguous symbols are made anew from the contexts.
Refreshed(g, d) ==
    [d EXCEPT !.edges = {c \in g.calls : {c[1], c[2]} \subseteq MethodsIn(d)},
              !.guards = {c \in Ids(d) : /\ c.kind \in {"method", "window"}
                                         /\ Guards[c.path] \cap Lines(c) # {}},
              !.symbols = MethodsIn(d) \cap g.gaps \cap AmbiguousIn]
-----------------------------------------------------------------------------
\* build_initial.

Anchors(k) == k.locations \o k.sources \o k.sinks

\* The methods with the smallest span around a line.
MethodsAt(path, line) ==
    LET around == {m \in Methods : /\ Method[m].path = path
                                   /\ line \in Method[m].first..Method[m].last}
        Span(m) == Method[m].last - Method[m].first
    IN {m \in around : \A n \in around : Span(m) <= Span(n)}

AnchorContext(a) ==
    LET ms == MethodsAt(a.path, a.line)
    IN IF Cardinality(ms) = 1 THEN MethodContext(CHOOSE m \in ms : TRUE, a.weight)
       ELSE Window(a.path, Max({1, a.line}), a.weight)

ClassesOf(name) ==
    LET exact == {c \in Classes : c.name = name}
    IN IF exact # {} THEN exact ELSE {c \in Classes : c.simple = Simple[name]}
MethodsOf(c) == {m \in Methods : Method[m].path = c.path /\ Method[m].class = c.simple}

Empty == [contexts |-> << >>, omitted |-> << >>, edges |-> {}, guards |-> {},
          symbols |-> {}, history |-> {}, unresolved |-> {}, asked |-> {}]

\* The manifest, the anchors, then the entry points of the component, each
\* against the same limit of additions.
Initial(k) ==
    LET indexed == Filtered(Anchors(k), LAMBDA a : a.path \in Files)
        lost == {a \in ToSet(Anchors(k)) : a.path \notin Files \cup {NoPath, "AndroidManifest.xml"}}
        class == ClassesOf(k.component)
        entries == IF Cardinality(class) # 1 THEN {}
                   ELSE {m \in MethodsOf(CHOOSE c \in class : TRUE) : Method[m].name \in Lifecycle}
        contexts == << ManifestContext >> \o [i \in DOMAIN indexed |-> AnchorContext(indexed[i])]
                    \o MethodContexts(InOrder(entries), 1)
    IN [AdmitAll(Empty, contexts) EXCEPT !.unresolved = {[path |-> a.path, line |-> a.line] : a \in lost}]
-----------------------------------------------------------------------------
\* extend.

Key(r) == [r EXCEPT !.weight = 0]
Kind(r) == IF r.type = "method" /\ r.relation \in {"callers", "callees"} THEN r.relation ELSE r.type
OfMethods == {"method", "callers", "callees"}
OfClasses == {"class", "component"}

Matches(r) ==
    LET at == IF r.path = NoPath \/ r.line = 0 THEN {} ELSE MethodsAt(r.path, r.line)
    IN IF r.method \in Methods THEN {r.method}
       ELSE IF at # {} THEN at
       ELSE {m \in Methods : Method[m].name = r.name /\ r.path \in {NoPath, Method[m].path}}

\* The status of a request that designates nothing, or too much.
Unmet(r) ==
    LET n == IF Kind(r) \in OfMethods THEN Cardinality(Matches(r))
             ELSE IF Kind(r) \in OfClasses THEN Cardinality(ClassesOf(r.name))
             ELSE Cardinality({r.path} \cap Files)
    IN IF n > 1 THEN "ambiguous"
       ELSE IF n = 0 /\ r.path \notin Files \cup {NoPath} THEN "not_indexed"
       ELSE IF n = 0 THEN "not_found" ELSE "met"

\* What a met request adds: contexts to admit, then contexts over the limit of
\* a class.
Wanted(g, r) ==
    LET m == CHOOSE m \in Matches(r) : TRUE
        c == CHOOSE c \in ClassesOf(r.name) : TRUE
    IN CASE Kind(r) = "method" -> << MethodContext(m, r.weight) >>
         [] Kind(r) \in {"callers", "callees"} ->
              MethodContexts(ById(Related(g, m, Kind(r))), r.weight)
         [] Kind(r) \in OfClasses ->
              IF MethodsOf(c) = {} THEN << ClassSummary(c, r.weight) >>
              ELSE MethodContexts(InOrder(MethodsOf(c)), r.weight)
         [] Kind(r) = "file_symbols" -> << FileSymbols(r.path, r.weight) >>

\* Beyond the limit of a class only what is in the slice already is passed.
AddWanted(d, r, cs) ==
    LET e == AdmitAll(d, SubSeq(cs, 1, Min({Len(cs), MaxMethods})))
        over == Filtered(SubSeq(cs, MaxMethods + 1, Len(cs)), LAMBDA c : Id(c) \notin Ids(e))
    IN IF Kind(r) \notin OfClasses THEN AdmitAll(d, cs)
       ELSE [e EXCEPT !.omitted = @ \o [i \in DOMAIN over |-> Id(over[i])]]

\* Seeded bug: part of what was asked for is enough.
Status_Any(r, cs, added, omitted) ==
    IF Kind(r) \in {"callers", "callees"} /\ cs = << >> THEN "empty_relation"
    ELSE IF added > 0 THEN "fulfilled"
    ELSE IF omitted > 0 THEN "budget_limited"
    ELSE "already_present"

Status(r, cs, added, omitted) ==
    IF Kind(r) \in {"callers", "callees"} /\ cs = << >> THEN "empty_relation"
    ELSE IF added > 0 /\ omitted > 0 THEN "fulfilled_limited"
    ELSE IF added > 0 THEN "fulfilled"
    ELSE IF omitted > 0 THEN "budget_limited"
    ELSE "already_present"

Open == {"ambiguous", "not_indexed", "not_found", "budget_limited", "fulfilled_limited",
         "unsupported"}

\* A record of slice, relations and answers so far, with one answer more.
Answer(x, r, status) ==
    [x EXCEPT !.doc.asked = IF status \in Open THEN @ \cup {Key(r)} ELSE @,
              !.answers = Append(@, [request |-> r, status |-> status])]

\* The answer to a met request is what became of the contexts it adds.
Grown(x, r, cs) ==
    LET answer(d) == Answer([x EXCEPT !.doc = d], r,
                            Status(r, cs, Len(d.contexts) - Len(x.doc.contexts),
                                   Len(d.omitted) - Len(x.doc.omitted)))
    IN answer(AddWanted(x.doc, r, cs))

Met(x, r) ==
    LET grown(y) == Grown(y, r, Wanted(y.graph, r))
    IN IF Kind(r) \in {"callers", "callees"}
         THEN grown([x EXCEPT !.graph = Ensured(@, Matches(r), Kind(r))])
         ELSE grown(x)

\* A component the slice has the manifest entry of adds nothing.
Considered(x, r) ==
    CASE r.type \notin OfMethods \cup OfClasses \cup {"file_symbols"} -> Answer(x, r, "unsupported")
      [] r.type = "component" /\ r.name = x.component -> Answer(x, r, "already_present")
      [] OTHER -> IF Unmet(r) = "met" THEN Met(x, r) ELSE Answer(x, r, Unmet(r))

Answered(x, r) ==
    IF Key(r) \in x.doc.history THEN Answer(x, r, "duplicate_request")
    ELSE Considered([x EXCEPT !.doc.history = @ \cup {Key(r)}], r)
-----------------------------------------------------------------------------
\* trim.

AnchorLines(k, path) ==
    {a.line : a \in {x \in ToSet(Anchors(k) \o k.propagation_paths) : x.path = path}} \ {0}

Priority(d, k, c) ==
    IF c.kind = "manifest" THEN 0
    ELSE IF Id(c) \in d.guards \/ AnchorLines(k, c.path) \cap Lines(c) # {} THEN 1
    ELSE IF c.kind = "method" /\ c.name \in k.entry_points THEN 1
    ELSE c.weight
Core(d, k, c) == Priority(d, k, c) <= 1

Important(d, k, c) ==
    (AnchorLines(k, c.path) \cup (IF Id(c) \in d.guards THEN Words[c.path] ELSE {})) \cap Lines(c)

\* Seeded bug: the first lines are kept.
Kept_Head(c, lo, hi) == [c EXCEPT !.last = c.first + MaxLines - 1]

\* As many lines as may be, around the important ones, moved to stay inside.
Kept(c, lo, hi) ==
    LET available == MaxLines - (hi - lo + 1)
        start == Max({c.first, lo - available \div 2})
        end == Min({c.last, start + MaxLines - 1})
    IN [c EXCEPT !.first = IF end = c.last THEN Max({c.first, end - MaxLines + 1}) ELSE start,
                 !.last = end]

Large(c) == Size(c) > MaxLines
Unsafe(d, k, c) ==
    LET lines == Important(d, k, c)
    IN /\ Large(c)
       /\ IF lines = {} THEN Core(d, k, c) ELSE Max(lines) - Min(lines) + 1 > MaxLines
Trimmed(d, k, c) ==
    LET lines == Important(d, k, c)
    IN IF Large(c) /\ lines # {} /\ ~Unsafe(d, k, c) THEN Kept(c, Min(lines), Max(lines)) ELSE c

\* Tokens of a request: the contexts and what was omitted.
Tokens(d, cs) == SizeOf(cs) + Len(d.omitted)

NotSent == [ok |-> FALSE, contexts |-> << >>]

\* What is to be sent: all that is mandatory, or nothing, then by priority what
\* fits.
Fits(d, cs) == Len(cs) <= MaxContexts /\ Tokens(d, cs) <= MaxTokens
Fill(d, core, rest) ==
    LET after[n \in 0..Len(rest)] ==
            IF n = 0 THEN core
            ELSE IF Fits(d, Append(after[n - 1], rest[n])) THEN Append(after[n - 1], rest[n])
            ELSE after[n - 1]
    IN after[Len(rest)]

Trim(d, k) ==
    LET prepared == [i \in DOMAIN d.contexts |-> Trimmed(d, k, d.contexts[i])]
        IsCore(c) == \E i \in DOMAIN prepared : prepared[i] = c /\ Core(d, k, d.contexts[i])
        core == Filtered(prepared, IsCore)
        Of(p) == Filtered(prepared, LAMBDA c : ~IsCore(c) /\ p = IF Large(c) THEN 3 ELSE c.weight)
        fails == \/ \E i \in DOMAIN d.contexts : Unsafe(d, k, d.contexts[i])
                 \/ ~Fits(d, core)
    IN IF fails THEN NotSent ELSE [ok |-> TRUE, contexts |-> Fill(d, core, Of(2) \o Of(3))]
-----------------------------------------------------------------------------
SliceInit ==
    /\ cand \in [Slices -> SliceCandidates]
    /\ doc = [s \in Slices |-> Empty]
    /\ graph = [calls |-> {}, callers |-> {}, callees |-> {}, gaps |-> {}]
    /\ phase = [s \in Slices |-> "unbuilt"]
    /\ extensions = [s \in Slices |-> 0]
    /\ sent = [s \in Slices |-> NotSent]
    /\ answers = [s \in Slices |-> << >>]

\* One after the other, before the first is analysed.
Build(s) ==
    /\ phase[s] = "unbuilt"
    /\ \A t \in Slices : t < s => phase[t] # "unbuilt"
    /\ LET d == Initial(cand[s])
       IN /\ graph' = Loaded(graph, d)
          /\ doc' = [doc EXCEPT ![s] = Refreshed(graph', d)]
    /\ phase' = [phase EXCEPT ![s] = "ready"]
    /\ UNCHANGED <<cand, extensions, sent, answers>>

\* _budgeted_ai_call: a slice that cannot be trimmed is not sent.
Send(s) ==
    /\ \A t \in Slices : phase[t] # "unbuilt"
    /\ phase[s] \in {"ready", "final"}
    /\ sent' = [sent EXCEPT ![s] = Trim(doc[s], cand[s])]
    /\ phase' = [phase EXCEPT ![s] =
                   IF phase[s] = "ready" /\ sent'[s].ok THEN "asked" ELSE "over"]
    /\ UNCHANGED <<cand, doc, graph, extensions, answers>>

Stalled == {"already_present", "duplicate_request", "empty_relation"}

\* What has been answered becomes the slice.
Becomes(s, x) ==
    /\ graph' = Loaded(x.graph, x.doc)
    /\ doc' = [doc EXCEPT ![s] = Refreshed(graph', x.doc)]
    /\ answers' = [answers EXCEPT ![s] = x.answers]
    /\ phase' = [phase EXCEPT ![s] =
         IF Len(x.doc.contexts) > Len(doc[s].contexts)
         THEN IF extensions'[s] >= MaxExtensions THEN "final" ELSE "ready"
         ELSE IF \A i \in DOMAIN x.answers : x.answers[i].status \in Stalled THEN "final"
         ELSE "over"]

\* The AI asks for more, and the slice grows until nothing comes of it.
AnswerAll(x, rs) ==
    LET after[n \in 0..Len(rs)] == IF n = 0 THEN x ELSE Answered(after[n - 1], rs[n])
    IN after[Len(rs)]

Extend(s, rs) ==
    /\ phase[s] = "asked"
    /\ extensions[s] < MaxExtensions
    /\ extensions' = [extensions EXCEPT ![s] = @ + 1]
    /\ Becomes(s, AnswerAll([doc |-> doc[s], graph |-> graph, answers |-> << >>,
                             component |-> cand[s].component], rs))
    /\ UNCHANGED <<cand, sent>>

\* The analysis is complete, fails or asks for nothing.
Conclude(s) ==
    /\ phase[s] = "asked"
    /\ phase' = [phase EXCEPT ![s] = "over"]
    /\ UNCHANGED <<cand, doc, graph, extensions, sent, answers>>

SliceNext ==
    \E s \in Slices :
        \/ Build(s) \/ Send(s) \/ Conclude(s)
        \/ \E rs \in UNION {[1..n -> Requests] : n \in 1..MaxRequests} : Extend(s, rs)

SliceSpec == SliceInit /\ [][SliceNext]_slice_vars
-----------------------------------------------------------------------------
\* Nothing that proves a candidate is lost on the way to the model: in a slice
\* that is sent every anchor is shown, or its context is among the omitted, or
\* its file among the unresolved, whatever limit was met and however the
\* contexts were cut; the lines of every anchor and guard of the slice are
\* shown; and the limits are kept.
ProofIsSent ==
    \A s \in Slices :
        LET shown(path) == UNION {Lines(c) : c \in {x \in ToSet(sent[s].contexts) : x.path = path}}
            omitted(path) == UNION {Lines(c) : c \in {x \in ToSet(doc[s].omitted) : x.path = path}}
        IN sent[s].ok =>
            /\ \A a \in ToSet(Anchors(cand[s])) :
                 /\ a.path \in Files /\ a.line \in 1..LastLine[a.path] =>
                      a.line \in shown(a.path) \cup omitted(a.path)
                 /\ a.path \in Files \cup {NoPath, "AndroidManifest.xml"}
                      \/ [path |-> a.path, line |-> a.line] \in doc[s].unresolved
            /\ phase[s] = "asked" =>
                 /\ \A c \in Ids(doc[s]) : c.path \in Files /\ c.kind \in {"method", "window"} =>
                      /\ AnchorLines(cand[s], c.path) \cap Lines(c) \subseteq shown(c.path)
                      /\ c \in doc[s].guards => Words[c.path] \cap Lines(c) \subseteq shown(c.path)
                 /\ Len(sent[s].contexts) <= MaxContexts
                 /\ Tokens(doc[s], sent[s].contexts) <= MaxTokens

\* What a request designates in the index.
Designated(r) ==
    CASE Kind(r) = "method" -> Matches(r)
      [] Kind(r) = "callers" -> {m \in Methods : \E n \in Matches(r) : m # n /\ <<m, n>> \in Calls}
      [] Kind(r) = "callees" -> {m \in Methods : \E n \in Matches(r) : m # n /\ <<n, m>> \in Calls}
      [] Kind(r) = "class" -> UNION {MethodsOf(c) : c \in {x \in Classes : x.name = r.name}}
      [] OTHER -> {}

\* The answers tell the model the truth about the slice (docstring of extend):
\* fulfilled and already present mean that all it asked for is there, limited
\* that the rest is listed, an empty relation that the index has none, whatever
\* other slices had loaded before.
AnswersAreTruthful ==
    \A s \in Slices : \A i \in DOMAIN answers[s] :
        LET r == answers[s][i].request
            status == answers[s][i].status
            missing == Designated(r) \ MethodsIn(doc[s])
        IN /\ status \in {"fulfilled", "already_present"} => missing = {}
           /\ status \in {"fulfilled_limited", "budget_limited"} =>
                /\ missing \subseteq {c.method : c \in ToSet(doc[s].omitted)}
                /\ Key(r) \in doc[s].asked
           /\ status = "empty_relation" => Designated(r) = {}
           /\ status \in {"not_found", "not_indexed", "ambiguous"} => Key(r) \in doc[s].asked

\* The edges of a slice are the resolved calls between its methods, and its
\* symbol gaps the unresolved ones, though relations are loaded one method at a
\* time, in both directions, for all slices together.
EdgesAreTheCalls ==
    \A s \in Slices : phase[s] # "unbuilt" =>
        /\ doc[s].edges = {c \in Calls : c[1] # c[2] /\ {c[1], c[2]} \subseteq MethodsIn(doc[s])}
        /\ doc[s].symbols = MethodsIn(doc[s]) \cap AmbiguousIn
===============================================================================
