---------------------------- MODULE MC_ContextSlice ----------------------------
\* Two files.  In A, of 14 lines: a long entry point with a guard (1), a method
\* inside it (2), a method in a row with it (3), lines of no method; in B two
\* classes, one with three methods (4 to 6) and a namesake of another's.
EXTENDS ContextSlice, TLC

M(path, first, last, class, name) ==
    [path |-> path, first |-> first, last |-> last, class |-> class, name |-> name]
MC_Method == << M("A", 1, 8, "Main", "onCreate"), M("A", 3, 4, "Main", "run"),
                M("A", 9, 10, "Main", "open"), M("B", 1, 1, "Helper", "open"),
                M("B", 2, 3, "Helper", "load"), M("B", 4, 4, "Helper", "save") >>
C(name, simple, path, first, last) ==
    [name |-> name, simple |-> simple, path |-> path, first |-> first, last |-> last]
MC_Classes == {C("app.Main", "Main", "A", 1, 12), C("app.Helper", "Helper", "B", 1, 4),
               C("app.Other", "Other", "B", 5, 6), C("lib.Other", "Other", "B", 7, 8)}
MC_Simple == ("app.Main" :> "Main") @@ ("app.Helper" :> "Helper") @@ ("app.Other" :> "Other")
             @@ ("gone.Gone" :> "Gone") @@ ("x.Other" :> "Other")
MC_LastLine == [A |-> 14, B |-> 8]
MC_Calls == {<<1, 3>>, <<3, 4>>, <<5, 4>>, <<3, 5>>, <<5, 5>>, <<6, 1>>}
MC_Guards == [A |-> {2, 5}, B |-> {}]
MC_Words == [A |-> {5}, B |-> {}]

A(path, line, weight) == [path |-> path, line |-> line, weight |-> weight]
K(component, locations, sources, sinks, paths, entries) ==
    [component |-> component, locations |-> locations, sources |-> sources, sinks |-> sinks,
     propagation_paths |-> paths, entry_points |-> entries]
MC_Candidates == {
    K("app.Main", <<A("A", 9, 3)>>, <<A("A", 3, 1)>>, <<A("A", 12, 1)>>, << >>, {"onCreate"}),
    K("app.Main", <<A("A", 6, 3)>>, <<A("A", 1, 1)>>, << >>, << >>, {}),
    K("app.Other", <<A("none", 0, 3)>>, <<A("A", 7, 1)>>, <<A("B", 3, 1)>>, <<A("A", 10, 3)>>, {}),
    K("x.Other", <<A("Z", 4, 3)>>, << >>, <<A("B", 0, 1)>>, << >>, {"load"})}

R(type, relation, method, name, path, line, weight) ==
    [type |-> type, relation |-> relation, method |-> method, name |-> name,
     path |-> path, line |-> line, weight |-> weight]
MC_Requests == {
    R("method", "none", 0, "open", "B", 0, 3),
    R("method", "none", 0, "open", "none", 0, 3),
    R("method", "callers", 4, "open", "none", 0, 3),
    R("callees", "none", 0, "none", "A", 9, 2),
    R("class", "none", 0, "app.Helper", "none", 0, 3),
    R("class", "none", 0, "x.Other", "Z", 0, 3),
    R("component", "none", 0, "app.Main", "none", 0, 3),
    R("file_symbols", "none", 0, "none", "B", 0, 1),
    R("callers", "none", 2, "none", "none", 0, 3),
    R("callees", "none", 0, "none", "none", 0, 3),
    R("method", "none", 0, "open", "Z", 1, 3),
    R("other", "none", 0, "none", "none", 0, 3)}
===============================================================================
