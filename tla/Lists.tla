---------------------------------- MODULE Lists ----------------------------------
(***************************************************************************)
(* List comprehensions: [x for x in s if ...].  The standard module's       *)
(* SelectSeq does the same; it is a recursive definition that the provers   *)
(* cannot unfold.                                                           *)
(***************************************************************************)
EXTENDS Naturals, FiniteSets

\* The i-th smallest of a finite set of numbers.
Nth(ks, i) == CHOOSE k \in ks : Cardinality({j \in ks : j < k}) = i - 1

Picked(s, ks) == [i \in 1..Cardinality(ks) |-> s[Nth(ks, i)]]

\* A set in an order.
Sorted(S, Before(_, _)) ==
    [i \in 1..Cardinality(S) |-> CHOOSE x \in S : Cardinality({y \in S : Before(y, x)}) = i - 1]

Filtered(s, Test(_)) == Picked(s, {i \in DOMAIN s : Test(s[i])})
===============================================================================
