----------------------------- MODULE MC_DataFlow -----------------------------
(* The Intent and two more locals, which are interchangeable, and one key     *)
(* besides the unknown one.                                                   *)
EXTENDS DataFlow, TLC

CONSTANTS intent, x, y, k

MCLocals == {intent, x, y}
MCKeys == {k}
Symmetry == Permutations({x, y})

\* Both properties are about runs that are not blurred, but for what widens, and a
\* blur lasts.
NotBlurred == blurred \subseteq Widening
==============================================================================
