---------------------------- MODULE MC_FindingStore ----------------------------
\* A first scan finds both findings and a second one of them, in batches of one.
EXTENDS FindingStore, TLC

MC_Findings == {"f1", "f2"}
MC_Scans == << <<"f1", "f2">>, <<"f2">> >>
Asks(finding, status, expected, id) ==
    [finding |-> finding, status |-> status, expected |-> expected, id |-> id]

\* Both findings; a verdict, and one taken back; with an expectation and without; the same id
\* for one request and its retry, and for requests that differ from it.
MC_Requests == {
    Asks("f1", "confirmed", "any", "q1"),
    Asks("f1", "manual_false_positive", "pending_manual", "none"),
    Asks("f2", "confirmed", "pending_manual", "q1"),
    Asks("f2", "manual_false_positive", "any", "q1"),
    Asks("f2", "manual_false_positive", "pending_manual", "none"),
    Asks("f2", "pending_manual", "any", "none")}

MC_Symmetry == Permutations(Reviewers)
===============================================================================
