---------------------- MODULE MC_FindingPipeline ----------------------
EXTENDS FindingPipeline

MCKeysOf == [k \in Chains |-> "keys"]

Field == [surface |-> {"plain", "binder", "receiver"},
          level |-> {"L1", "L2"}, source |-> {"rule", "validated", "partial"},
          chain |-> {"k1", "k2"}, auth |-> {"unprotected", "unknown", "protected"},
          guard |-> {"absent", "unknown", "present_effective"},
          impact |-> {"confirmed", "potential"}, basis |-> {"none", "other", "sdk"},
          confirms |-> BOOLEAN, gap |-> {"none", "limit", "conflict"},
          cover |-> {"full", "limit", "hole"}, sink |-> {"found", "lost"},
          proven |-> BOOLEAN, flow |-> BOOLEAN, blocked |-> BOOLEAN, signal |-> BOOLEAN,
          risk |-> {1, 2}, value |-> BOOLEAN, clean |-> BOOLEAN,
          open |-> BOOLEAN, aux |-> BOOLEAN]
Vary(r, F) == UNION {{[r EXCEPT ![f] = v] : v \in F[f]} : f \in DOMAIN F}

Plain == [surface |-> "plain", level |-> "L2", source |-> "rule", chain |-> "k1", auth |-> "unprotected",
          guard |-> "absent", impact |-> "confirmed", basis |-> "none", confirms |-> FALSE,
          gap |-> "none", cover |-> "full", sink |-> "found", proven |-> FALSE,
          flow |-> FALSE, blocked |-> FALSE, signal |-> FALSE, risk |-> 1,
          value |-> FALSE, clean |-> FALSE, open |-> TRUE, aux |-> FALSE]
Closed == [Plain EXCEPT !.proven = TRUE, !.flow = TRUE]
Exposed == [Plain EXCEPT !.level = "L1", !.impact = "potential", !.guard = "unknown",
                         !.value = TRUE, !.risk = 2]
Binder == [Plain EXCEPT !.surface = "binder", !.impact = "potential", !.value = TRUE]
Effect == [Closed EXCEPT !.surface = "binder", !.value = TRUE]
Receiver == [Exposed EXCEPT !.surface = "receiver", !.guard = "absent", !.clean = TRUE]

(* What the rules make.                                                    *)
Possible(f) ==
    /\ f.proven => f.flow
    /\ f.level = "L1" => ~f.proven /\ ~f.flow /\ (f.clean => f.surface = "receiver")
    /\ f.surface # "plain" => f.source = "rule" /\ f.value
    /\ f.surface = "binder" => f.level = "L2"
    /\ f.surface = "receiver" => f.level = "L1"

(* One candidate departs from a usual one in two facts and the other is    *)
(* the same but for its score; or each departs in one, from usual ones of  *)
(* the same kind, or one of them is usual itself.                          *)
Usual == {Plain, Closed, Exposed, Binder, Effect, Receiver}
One == {f \in UNION {Vary(r, Field) : r \in Usual} : Possible(f)}
Two == {f \in UNION {Vary(r, Field) : r \in One} : Possible(f)}
Twin(c, f, r) == [d \in Cand |-> IF d = c THEN f ELSE [f EXCEPT !.risk = r]]
Pairs ==
    {s \in [Cand -> One] :
        \/ \A c, d \in Cand : s[c].surface = s[d].surface /\ s[c].level = s[d].level
        \/ \E c \in Cand : s[c] \in Usual}
MCStarts ==
    {Twin(CHOOSE c \in Cand : TRUE, p[1], p[2]) : p \in Two \X {1, 2}} \cup Pairs

AnswerField == [verdict |-> {"supports", "unresolved"}, flaw |-> {"yes", "none"},
                refs |-> {"incomplete", "invalid"}, gap |-> {"limit", "conflict"}, claim |-> {FALSE}]
Refutes == [status |-> "ai_completed", verdict |-> "refutes", flaw |-> "no", entry |-> FALSE,
            strong |-> FALSE, refs |-> "valid", gap |-> "none", claim |-> TRUE,
            promote |-> FALSE, answered |-> TRUE]
Supports == [Refutes EXCEPT !.verdict = "supports", !.flaw = "yes", !.entry = TRUE,
             !.strong = TRUE, !.claim = FALSE, !.promote = TRUE]
MCAnswers ==
    Vary(Refutes, AnswerField) \cup Vary(Supports, [entry |-> BOOLEAN, strong |-> {FALSE}])
      \cup {Refutes, [Refutes EXCEPT !.status = "ai_failed"], [Supports EXCEPT !.status = "ai_incomplete", !.promote = FALSE],
            [NoAnswer EXCEPT !.status = "ai_incomplete"],
            [NoAnswer EXCEPT !.status = "ai_failed"], [NoAnswer EXCEPT !.status = "ai_skipped"]}
=======================================================================
