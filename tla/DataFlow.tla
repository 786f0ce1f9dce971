------------------------------ MODULE DataFlow ------------------------------
(***************************************************************************)
(* DataFlowAnalyzer (src/rules/shared/dataflow.py): it interprets the flow  *)
(* IR of an exported component line by line, carrying for every local the   *)
(* trust of its value and the sources it came from, and reports the chains  *)
(* that reach a sink.                                                       *)
(*                                                                          *)
(* The model interprets an arbitrary method, whose next instruction is      *)
(* chosen at each step, in two ways at once: as the analyzer does, and as   *)
(* the program runs on one of its paths (`run`).  Paths of evidence are     *)
(* left out of the facts; a version is the step that defined a value.       *)
(***************************************************************************)
EXTENDS Naturals, Sequences, FiniteSets

CONSTANTS
    Locals,         \* names of a method; Param is the first
    Param,          \* the Intent an attacker sends
    Keys,           \* literal keys of extras
    MaxSteps,       \* max_ir_steps
    MaxCallDepth,   \* max_call_depth
    MaxChains       \* max_chains

UNKNOWN_KEY == "<UNKNOWN_KEY>"
Slots == Keys \cup {UNKNOWN_KEY}

ASSUME DataFlowAssumption ==
    /\ Param \in Locals /\ IsFiniteSet(Locals)
    /\ Keys # {} /\ IsFiniteSet(Keys) /\ UNKNOWN_KEY \notin Keys
    /\ MaxSteps \in Nat \ {0} /\ MaxCallDepth \in Nat \ {0} /\ MaxChains \in Nat \ {0}

TRUST_ORDER ==
    [trusted |-> 0, validated |-> 1, maybe_untrusted |-> 2, untrusted |-> 3]
Tainted(state) == state \in {"maybe_untrusted", "untrusted"}
NoObject == 0
Objects == 1..MaxSteps + 1  \* the Intent of the entry, and those made by the code
Absent == [state |-> "none", ver |-> 0, obj |-> NoObject, lin |-> {}]
Fact(state, lin, obj) == [state |-> state, ver |-> 0, obj |-> obj, lin |-> lin]
TrustedFact == Fact("trusted", {}, NoObject)
Lineage(state, sources) == [source : sources, state : {state}]

VARIABLES
    frames,         \* the methods being executed, innermost last
    slots,          \* FlowState.objects
    unknown,        \* FlowState.unknown_objects
    gaps,           \* critical gaps of the whole result
    found,          \* _chain_count
    steps,          \* _ir_steps
    stopped,        \* _enumeration_stopped
    run,            \* the program's own run: its stack, heap and checks
    blurred,        \* what the run has done that the linear IR does not follow
    missed,         \* a sink took an unchecked value of the attacker's, unseen
    phantom         \* a chain without a gap had no value of the attacker's

flow_vars == <<frames, slots, unknown, gaps, found, steps, stopped, run, blurred, missed, phantom>>

\* A value of the run: a number of its own when it is the attacker's, NotHis
\* when it is not, and the object it refers to.
NotHis == 0
TheIntent == MaxSteps + 1
Unset == MaxSteps + 2
Vetted == MaxSteps + 3    \* made from checked values of his
Clean == [id |-> NotHis, obj |-> NoObject]
Live == [frame |-> 0, line |-> 0, value |-> Clean]

NewFrame(fact, control, path_gaps, target) ==
    [locals |-> [n \in Locals |-> IF n = Param THEN [fact EXCEPT !.ver = steps] ELSE TrustedFact],
     pending |-> [n \in Locals |-> [name |-> "none", ver |-> 0]],
     line |-> 0, control |-> control, scope |-> [end |-> 0, previous |-> Absent],
     path_gaps |-> path_gaps, block |-> 0, target |-> target, returned |-> Absent]

RunFrame(value) ==
    [locals |-> [n \in Locals |-> IF n = Param THEN value ELSE Clean],
     checks |-> [n \in Locals |-> NotHis]]

\* _initial_state: the Intent is the attacker's and may hold anything.
FlowInit ==
    /\ steps = 0
    /\ frames = <<NewFrame(Fact("untrusted", Lineage("untrusted", {"intent"}), 1), Absent, FALSE, Param)>>
    /\ slots = [o \in Objects |-> [k \in Slots |-> Absent]]
    /\ unknown = {1}
    /\ gaps = {}
    /\ found = 0
    /\ stopped = FALSE
    /\ run = [frames |-> <<RunFrame([id |-> TheIntent, obj |-> 1])>>, away |-> Live,
              heap |-> [o \in Objects |-> [k \in Keys |-> Unset]],
              open |-> {1}, checked |-> {NotHis, Unset, Vetted}]
    /\ blurred = {}
    /\ missed = FALSE
    /\ phantom = FALSE

-----------------------------------------------------------------------------
(* The analyzer's values.                                                   *)

Top == frames[Len(frames)]
Held(o) == IF o = NoObject THEN {} ELSE {slots[o][k] : k \in Slots} \ {Absent}

WorstState(facts) ==
    CHOOSE s \in {f.state : f \in facts} :
        \A f \in facts : TRUST_ORDER[f.state] <= TRUST_ORDER[s]

\* _merge_facts; a single fact is itself unless it becomes an object's.
\* Seeded bug: the state is that of the best of the facts.
Merged_Best(facts, o) ==
    Fact(CHOOSE s \in {f.state : f \in facts} :
            \A f \in facts : TRUST_ORDER[s] <= TRUST_ORDER[f.state],
         {}, o)

Merged(facts, o) ==
    IF Cardinality(facts) = 1 /\ o = NoObject THEN CHOOSE f \in facts : TRUE
    ELSE Fact(WorstState(facts), UNION {f.lin : f \in facts}, o)

\* _object_aggregate: the worst of the slots, or of what is unknown when there
\* are none.
ObjectAggregate(o) ==
    IF Held(o) # {} THEN Merged(Held(o), o)
    ELSE IF o \in unknown THEN Fact("maybe_untrusted", {}, o)
    ELSE Absent

\* _eval_expr of a name: an object's state is derived from its slots.
Eval(n) ==
    LET f == Top.locals[n]
        a == IF f.obj = NoObject THEN Absent ELSE ObjectAggregate(f.obj)
    IN  IF a = Absent THEN f ELSE [a EXCEPT !.lin = IF @ # {} THEN @ ELSE f.lin]

\* _worst_fact.
Worst(facts) ==
    Merged({IF Held(f.obj) # {} THEN ObjectAggregate(f.obj) ELSE f : f \in facts}, NoObject)

\* _untrusted_reaching_facts: the tainted lineages behind a value.
Reaching(f) ==
    LET candidates == IF Held(f.obj) = {} THEN {f}
                      ELSE Held(f.obj) \cup IF f.obj \in unknown THEN {f} ELSE {}
        lineages(g) == IF g.lin # {} THEN g.lin ELSE Lineage(g.state, {"unknown"})
    IN  {l \in UNION {lineages(g) : g \in candidates} : Tainted(l.state)}

\* _read_object_slot.
ReadSlot(f, k) ==
    IF f.obj # NoObject /\ slots[f.obj][k] # Absent THEN slots[f.obj][k]
    ELSE IF f.obj # NoObject /\ slots[f.obj][UNKNOWN_KEY] # Absent THEN slots[f.obj][UNKNOWN_KEY]
    ELSE IF f.obj # NoObject /\ f.obj \notin unknown THEN TrustedFact
    ELSE IF Tainted(f.state) /\ f.lin # {} THEN Fact(f.state, f.lin, NoObject)
    ELSE f

\* _wildcard_overwrite: any key of o may have been written.
Wildcard(sl, o) ==
    LET wild == IF sl[o][UNKNOWN_KEY] # Absent THEN sl[o][UNKNOWN_KEY]
                ELSE Fact("maybe_untrusted", Lineage("maybe_untrusted", {"call"}), NoObject)
        sources(old) == {l.source : l \in IF wild.lin # {} THEN wild.lin ELSE old.lin}
        over(old) == IF old.state \in {"trusted", "validated"}
                     THEN Fact("maybe_untrusted", Lineage("maybe_untrusted", sources(old)), NoObject)
                     ELSE old
    IN  [sl EXCEPT ![o] = [k \in Slots |-> IF k = UNKNOWN_KEY THEN wild ELSE over(sl[o][k])]]

-----------------------------------------------------------------------------
(* The run's values.                                                        *)

RunTop == run.frames[Len(run.frames)]
Value(n) == RunTop.locals[n]
Unchecked(id) == id \notin run.checked

\* His Intent is one value of his, and so is any extra in an object of his
\* until the object as a whole has been checked.
Open(v) == v.obj \in run.open /\ (v.id = NotHis \/ Unchecked(v.id))
HeapOf(v) == IF v.obj = NoObject THEN {} ELSE {run.heap[v.obj][k] : k \in Keys}
Dangerous(v) == Unchecked(v.id) \/ Open(v) \/ \E id \in HeapOf(v) : Unchecked(id)
Attackers(v) == v.id # NotHis \/ v.obj \in run.open \/ HeapOf(v) \ {NotHis, Unset} # {}

Derived(values) ==
    [id |-> IF \E v \in values : Dangerous(v) THEN steps + 1
            ELSE IF \E v \in values : Attackers(v) THEN Vetted ELSE NotHis,
     obj |-> NoObject]

\* Extras the program did not put are the attacker's in an object of his.
Extra(v, k) ==
    IF v.obj = NoObject THEN Derived({v})
    ELSE IF run.heap[v.obj][k] # Unset THEN [id |-> run.heap[v.obj][k], obj |-> NoObject]
    ELSE [id |-> IF Open(v) THEN steps + 1 ELSE v.id, obj |-> NoObject]

-----------------------------------------------------------------------------
(* One instruction of the innermost method.                                 *)

Here == Top.line + 1

\* Past the end of a block its control fact gives way to the one before, and
\* the run that had gone round it is back.
LeaveBlock(frame) ==
    IF frame.scope.end # 0 /\ Here > frame.scope.end THEN frame.scope.previous ELSE frame.control

Frame ==
    [Top EXCEPT !.line = Here,
                !.control = LeaveBlock(Top),
                !.scope = IF Here > @.end THEN [end |-> 0, previous |-> Absent] ELSE @,
                !.block = IF Here > @ THEN 0 ELSE @]
Back(r) ==
    IF r.away # Live /\ r.away.frame = Len(frames) /\ Here > r.away.line
    THEN [r EXCEPT !.away = Live] ELSE r
Running == Back(run).away = Live

Step ==
    /\ ~stopped /\ frames # <<>>
    /\ steps < MaxSteps
    /\ steps' = steps + 1

SetTop(frame) == frames' = [frames EXCEPT ![Len(frames)] = frame]

\* _assign_fact: a strong update.
\* Seeded bug: what the name held before stays in its fact.
Defined_Weak(frame, n, f) ==
    [frame EXCEPT !.locals[n] = [Merged({frame.locals[n], f}, NoObject) EXCEPT !.ver = steps + 1]]
Defined(frame, n, f) == [frame EXCEPT !.locals[n] = [f EXCEPT !.ver = steps + 1]]

RunDefines(n, v) ==
    run' = IF ~Running THEN Back(run)
           ELSE [Back(run) EXCEPT !.frames[Len(run.frames)].locals[n] = v,
                                  !.frames[Len(run.frames)].checks[n] = NotHis]

\* A validator's result that is assigned over is still its result to the
\* analyzer.
Blur(cause, holds) == IF holds THEN {cause} ELSE {}
Blurs(causes) == blurred' = blurred \cup causes
Stale(t) == Blur("stale_check", Top.pending[t].name # "none")
Define(n, f, v) ==
    /\ SetTop(Defined(Frame, n, f))
    /\ RunDefines(n, v)
    /\ UNCHANGED <<slots, unknown, gaps, found, stopped, missed, phantom>>

AssignLiteral(t) ==
    /\ Step
    /\ Define(t, TrustedFact, Clean)
    /\ Blurs(Stale(t))

AssignName(t, n) ==
    /\ Step
    /\ Define(t, Eval(n), Value(n))
    /\ Blurs(Stale(t))

\* new Intent() or new Bundle(), empty or a copy of another object, whose extras
\* the analyzer does not copy.
NewObject(t, from) ==
    LET made == steps + 2
        extras(k) == IF from = {} THEN Unset ELSE Extra(Value(CHOOSE n \in from : TRUE), k).id
    IN  /\ Step
        /\ SetTop(Defined(Frame, t, Fact("trusted", {}, made)))
        /\ run' = IF ~Running THEN Back(run)
                  ELSE [Back(run) EXCEPT !.frames[Len(run.frames)].locals[t] = [id |-> NotHis, obj |-> made],
                                         !.frames[Len(run.frames)].checks[t] = NotHis,
                                         !.heap[made] = [k \in Keys |-> extras(k)]]
        /\ Blurs(Blur("copy", from # {}) \cup Stale(t))
        /\ UNCHANGED <<slots, unknown, gaps, found, stopped, missed, phantom>>

\* A call whose body is not interpreted: its result is the worst of what it is
\* given, and shares its object; in the program it may be a copy (getExtras,
\* clone).
Uninterpreted(t, args) ==
    LET result == Worst({Eval(n) : n \in args})
        made == Derived({Value(n) : n \in args})
    IN  /\ SetTop(Defined(Frame, t, result))
        /\ \E v \in {made} \cup {w \in {Value(n) : n \in args} : w.obj # NoObject /\ w.obj = result.obj} :
            /\ RunDefines(t, v)
            /\ Blurs(Stale(t) \cup Blur("copy", v.obj # result.obj))
        /\ UNCHANGED <<slots, unknown, found, stopped, missed, phantom>>

CallExternal(t, args, resolved) ==
    /\ Step
    /\ gaps' = IF ~resolved /\ \E n \in args : Tainted(Eval(n).state)
               THEN gaps \cup {"CALL_TARGET_UNRESOLVED"} ELSE gaps
    /\ Uninterpreted(t, args)

GetExtra(t, o, k) ==
    LET obj == Eval(o).obj
        extra == Extra(Value(o), k)
    IN  /\ Step
        /\ Define(t, ReadSlot(Eval(o), k), extra)
        /\ Blurs(Stale(t) \cup
                 Blur("other_key", /\ obj # NoObject /\ extra.id = NotHis
                                   /\ slots[obj][k] = Absent /\ slots[obj][UNKNOWN_KEY] # Absent))

RunWrites(o, key, id) ==
    run' = IF Running /\ Value(o).obj # NoObject
           THEN [Back(run) EXCEPT !.heap[Value(o).obj][key] = id] ELSE Back(run)
WritesOpen(o) == Running /\ Value(o).obj \in run.open

\* A write under an unknown key replaces what an earlier one left, and passes over
\* a slot that is tainted by its state though none of its lineages is.
Forgets(sl, o) ==
    \/ sl[o][UNKNOWN_KEY] # Absent
    \/ \E k \in Keys : Tainted(sl[o][k].state) /\ \A l \in sl[o][k].lin : ~Tainted(l.state)

\* What the analyzer remembers of an object, beside the slots of its keys.
Remembered(o) ==
    \/ slots[o][UNKNOWN_KEY] # Absent
    \/ \E i \in DOMAIN frames : \E n \in Locals :
            frames[i].locals[n].obj = o /\ frames[i].locals[n].lin # {}

\* putExtra and its kin; bound: no object is put into another.
PutExtra(o, k, n) ==
    LET obj == Eval(o).obj
        put == [slots EXCEPT ![obj][k] = Eval(n)]
        lost(key) == /\ Value(o).obj # NoObject /\ Value(n).id = NotHis
                     /\ run.heap[Value(o).obj][key] \notin {NotHis, Unset}
                     /\ k = UNKNOWN_KEY \/ Remembered(obj)
    IN  /\ Step
        /\ obj # NoObject /\ Eval(n).obj = NoObject /\ Value(n).obj = NoObject
        /\ slots' = IF k = UNKNOWN_KEY THEN Wildcard(put, obj) ELSE put
        /\ unknown' = IF k = UNKNOWN_KEY THEN unknown \cup {obj} ELSE unknown
        /\ \E key \in IF k = UNKNOWN_KEY THEN Keys ELSE {k} :
            /\ RunWrites(o, key, Value(n).id)
            /\ Blurs(Blur("open_write", WritesOpen(o)) \cup
                     Blur("wildcard", k = UNKNOWN_KEY /\ Forgets(slots, obj)) \cup
                     Blur("lost", Running /\ lost(key)))
        /\ SetTop(Frame)
        /\ UNCHANGED <<gaps, found, stopped, missed, phantom>>

\* putExtras, and replaceExtras, which empties the object first, even when it is
\* the one it takes from.
MergeExtras(o, s, replace) ==
    LET to == Eval(o).obj
        src == Eval(s)
        base == IF replace THEN [slots EXCEPT ![to] = [k \in Slots |-> Absent]] ELSE slots
        left == IF replace THEN unknown \ {to} ELSE unknown
        taken == IF src.obj = NoObject THEN base
                 ELSE [base EXCEPT ![to] = [k \in Slots |->
                          IF k # UNKNOWN_KEY /\ base[src.obj][k] # Absent THEN base[src.obj][k] ELSE @[k]]]
        put == IF src.obj = NoObject THEN [taken EXCEPT ![to][UNKNOWN_KEY] = src] ELSE taken
        wild == IF src.obj = NoObject THEN Tainted(src.state)
                ELSE src.obj \in left \/ base[src.obj][UNKNOWN_KEY] # Absent
        a == Value(o).obj
        b == Value(s)
        his == IF b.obj = NoObject THEN Dangerous(b) ELSE b.obj \in run.open
        kept(k) == IF replace THEN Unset ELSE run.heap[a][k]
        copied(k) == IF b.obj # NoObject /\ run.heap[b.obj][k] # Unset THEN run.heap[b.obj][k]
                     ELSE IF his THEN Unset
                     ELSE IF b.obj = NoObject /\ Attackers(b) /\ kept(k) \in {NotHis, Unset} THEN Vetted
                     ELSE kept(k)
        lost(k) == /\ a # NoObject /\ run.heap[a][k] \notin {NotHis, Unset}
                   /\ copied(k) = NotHis \/ (copied(k) = Unset /\ ~his)
                   /\ \/ Remembered(to)
                      \/ ~replace /\ src.obj # NoObject /\ slots[src.obj][k] = Absent
    IN  /\ Step
        /\ to # NoObject
        /\ slots' = IF wild THEN Wildcard(put, to) ELSE taken
        /\ unknown' = IF wild THEN left \cup {to} ELSE left
        /\ run' = IF ~Running \/ a = NoObject THEN Back(run)
                  ELSE [Back(run) EXCEPT !.heap[a] = [k \in Keys |-> copied(k)],
                                         !.open = IF his THEN @ \cup {a}
                                                  ELSE IF replace THEN @ \ {a} ELSE @]
        /\ Blurs(Blur("open_write", WritesOpen(o)) \cup
                 Blur("emptied", replace /\ src.obj = to) \cup
                 Blur("wildcard", wild /\ Forgets(taken, to)) \cup
                 Blur("lost", Running /\ \E k \in Keys : lost(k)))
        /\ SetTop(Frame)
        /\ UNCHANGED <<gaps, found, stopped, missed, phantom>>

\* _validate_current: only the value that was checked becomes validated.
ValidateCurrent(frame, name, ver) ==
    IF frame.locals[name].ver = ver /\ Tainted(frame.locals[name].state)
    THEN [frame EXCEPT !.locals[name].state = "validated",
                       !.locals[name].lin = {[l EXCEPT !.state = "validated"] : l \in @}]
    ELSE frame

\* b = isValidUrl(x).
Validate(b, x) ==
    /\ Step
    /\ SetTop(Defined([Frame EXCEPT !.pending[b] = [name |-> x, ver |-> Eval(x).ver]], b, TrustedFact))
    /\ run' = IF ~Running THEN Back(run)
              ELSE [Back(run) EXCEPT !.frames[Len(run.frames)].locals[b] = Clean,
                                     !.frames[Len(run.frames)].checks[b] = Value(x).id]
    /\ UNCHANGED <<slots, unknown, gaps, found, stopped, blurred, missed, phantom>>

RunGoesOn(id) == run' = IF Running THEN [Back(run) EXCEPT !.checked = @ \cup {id}] ELSE Back(run)

\* if (!isValidUrl(x)) return;  the run that goes on has checked x.
ReturnUnlessValid(x) ==
    /\ Step
    /\ SetTop(ValidateCurrent(Frame, x, Eval(x).ver))
    /\ RunGoesOn(Value(x).id)
    /\ UNCHANGED <<slots, unknown, gaps, found, stopped, blurred, missed, phantom>>

\* if (!b) return;  with b the result of a validator.
ReturnUnless(b) ==
    /\ Step
    /\ Top.pending[b].name # "none"
    /\ SetTop(ValidateCurrent(Frame, Top.pending[b].name, Top.pending[b].ver))
    /\ RunGoesOn(RunTop.checks[b])
    /\ UNCHANGED <<slots, unknown, gaps, found, stopped, blurred, missed, phantom>>

\* A condition on n guards the next len lines; the end may not be known, and
\* the run may go round them.  Bound: blocks are not nested.
Branch(n, len, known) ==
    LET controls == Tainted(Eval(n).state)
    IN  /\ Step
        /\ Frame.block = 0
        /\ SetTop([Frame EXCEPT
                !.block = Here + len,
                !.path_gaps = TRUE,
                !.control = IF controls THEN Eval(n) ELSE @,
                !.scope = IF controls /\ known
                          THEN [end |-> Here + len, previous |-> Frame.control] ELSE @])
        /\ gaps' = IF Top.pending[n].name # "none" THEN gaps \cup {"BRANCH_FLOW_APPROXIMATION"} ELSE gaps
        /\ \/ run' = Back(run) /\ UNCHANGED blurred
           \/ /\ Running
              /\ run' = [run EXCEPT !.away = [frame |-> Len(frames), line |-> Here + len, value |-> Clean]]
              /\ Blurs({"branch"})
        /\ UNCHANGED <<slots, unknown, found, stopped, missed, phantom>>

\* A call that has an effect outside: one chain for each lineage that reaches
\* it, or else one for the condition that controls it.
Sink(n) ==
    LET reaching == Reaching(Eval(n))
        room == MaxChains - found
        exceeded == Cardinality(reaching) > room
        control == Frame.control # Absent /\ Tainted(Frame.control.state)
        certain == \/ \E l \in reaching : l.state = "untrusted"
                   \/ reaching = {} /\ control
    IN  /\ Step
        /\ found' = found + IF exceeded THEN room ELSE Cardinality(reaching)
        /\ stopped' = exceeded
        /\ gaps' = IF exceeded THEN gaps \cup {"DATAFLOW_CHAIN_BUDGET_EXCEEDED"} ELSE gaps
        /\ missed' = (missed \/ (Running /\ Dangerous(Value(n)) /\ reaching = {} /\ ~control))
        /\ phantom' = (phantom \/ (Running /\ ~Attackers(Value(n)) /\ ~Frame.path_gaps /\ certain))
        /\ SetTop(Frame)
        /\ run' = Back(run)
        /\ UNCHANGED <<slots, unknown, blurred>>

\* A call of a method of the closure, with the control fact and the gaps of
\* the place it is called from.
Call(t, n) ==
    /\ Step
    /\ IF Len(frames) > MaxCallDepth
       THEN /\ gaps' = gaps \cup {"DATAFLOW_CALL_DEPTH_EXCEEDED"}
            /\ stopped' = TRUE
            /\ UNCHANGED <<frames, run>>
       ELSE /\ frames' = [frames EXCEPT ![Len(frames)] = Frame]
                         \o <<NewFrame(Eval(n), Frame.control, Frame.path_gaps, t)>>
            /\ run' = [Back(run) EXCEPT !.frames = @ \o <<RunFrame(Value(n))>>]
            /\ UNCHANGED <<gaps, stopped>>
    /\ UNCHANGED <<slots, unknown, found, blurred, missed, phantom>>

\* A method that is being executed is not entered again.
CallRecursive(t, n) ==
    /\ Step
    /\ gaps' = gaps \cup {"RECURSIVE_FLOW_APPROXIMATION"}
    /\ Uninterpreted(t, {n})

\* The innermost method ends; what it returned, if anything, is the caller's.
EndMethod(fact, v) ==
    LET caller == frames[Len(frames) - 1]
        t == Top.target
        went == run.away.frame = Len(frames)
        below == [run EXCEPT !.frames = SubSeq(@, 1, Len(@) - 1),
                             !.away = IF went THEN Live ELSE @]
    IN  IF Len(frames) = 1
        THEN frames' = <<>> /\ UNCHANGED <<run, blurred>>
        ELSE IF fact = Absent
        THEN frames' = SubSeq(frames, 1, Len(frames) - 1) /\ run' = below /\ UNCHANGED blurred
        ELSE /\ frames' = [SubSeq(frames, 1, Len(frames) - 1) EXCEPT
                              ![Len(frames) - 1] = Defined(@, t, fact)]
             /\ run' = IF ~Running /\ ~went THEN below
                       ELSE [below EXCEPT !.frames[Len(frames) - 1].locals[t] = v,
                                          !.frames[Len(frames) - 1].checks[t] = NotHis]
             /\ Blurs(Blur("stale_check", caller.pending[t].name # "none"))

\* A return inside a block may not be taken: the analyzer goes on.
Return(n) ==
    /\ Step
    /\ IF Frame.block = 0
       THEN EndMethod(Eval(n), IF Running THEN Value(n) ELSE run.away.value)
       ELSE /\ SetTop([Frame EXCEPT !.returned = Eval(n), !.path_gaps = TRUE])
            /\ IF Running
               THEN /\ run' = [run EXCEPT !.away =
                            [frame |-> Len(frames), line |-> MaxSteps + 1, value |-> Value(n)]]
                    /\ Blurs({"branch"})
               ELSE run' = Back(run) /\ UNCHANGED blurred
    /\ UNCHANGED <<slots, unknown, gaps, found, stopped, missed, phantom>>

\* A method without a result ends without a return.
FallOff ==
    /\ ~stopped /\ frames # <<>>
    /\ Top.returned = Absent
    /\ EndMethod(Absent, Clean)
    /\ UNCHANGED <<slots, unknown, gaps, found, steps, stopped, missed, phantom>>

OutOfSteps ==
    /\ ~stopped /\ frames # <<>>
    /\ steps = MaxSteps
    /\ stopped' = TRUE
    /\ gaps' = gaps \cup {"DATAFLOW_IR_STEP_BUDGET_EXCEEDED"}
    /\ UNCHANGED <<frames, slots, unknown, found, steps, run, blurred, missed, phantom>>

FlowNext ==
    \/ \E t \in Locals :
        \/ AssignLiteral(t)
        \/ \E from \in {{}} \cup {{n} : n \in Locals} : NewObject(t, from)
        \/ \E n \in Locals : AssignName(t, n) \/ Validate(t, n) \/ Call(t, n) \/ CallRecursive(t, n)
        \/ \E n \in Locals, k \in Keys : GetExtra(t, n, k)
        \/ \E args \in (SUBSET Locals) \ {{}}, resolved \in BOOLEAN : CallExternal(t, args, resolved)
    \/ \E n \in Locals :
        \/ ReturnUnlessValid(n) \/ ReturnUnless(n) \/ Sink(n) \/ Return(n)
        \/ \E len \in 1..2, known \in BOOLEAN : Branch(n, len, known)
        \/ \E o \in Locals, k \in Slots : PutExtra(o, k, n)
        \/ \E o \in Locals, replace \in BOOLEAN : MergeExtras(o, n, replace)
    \/ FallOff
    \/ OutOfSteps

FlowSpec == FlowInit /\ [][FlowNext]_flow_vars

-----------------------------------------------------------------------------

\* What makes the analyzer report more, and never less.
Widening == {"lost", "other_key"}

\* On a run that takes every block, writes no extras into an object of the
\* attacker's, writes at most once under unknown keys and uses each check for the
\* value it was made of, no value of the attacker's reaches a sink unchecked
\* without a chain for it: what a redefinition, a copy, a slot, a wildcard, a
\* helper or a stale check does to the facts never hides it.  An enumeration that
\* stops says so.
NothingMissed ==
    /\ blurred \subseteq Widening => ~missed
    /\ stopped => gaps # {}

\* A chain that is said to be untrusted, with no gap on its way, is one the run
\* really has, unless a write under an unknown key has destroyed it: its value is
\* the attacker's, and a control fact ends with its block.
NothingInvented == blurred = {} => ~phantom
=============================================================================
