------------------------------ MODULE DataTheorems ------------------------------
(***************************************************************************)
(* Facts about the data of the models.                                      *)
(*                                                                          *)
(* Lists: what Filtered keeps, and that it keeps the order; that a set in   *)
(* an order lists the set; what is in a list that is added to.              *)
(*                                                                          *)
(* Sums: SumFunctionOnSet, by which the models add up requests, is defined  *)
(* by recursion over the subsets of a finite set; the facts are proved from *)
(* a smallest counterexample, and say of a sum over a finite set that any   *)
(* element may be taken out first, that it changes by what one of its terms *)
(* changes by, and that terms that are 0 do not count.                      *)
(***************************************************************************)
EXTENDS Lists, Integers, SequencesExt, SequenceTheorems, FiniteSetTheorems, WellFoundedInduction, TLAPS

LEMMA LeastNumber ==
    ASSUME NEW T, T \subseteq Nat, T # {}
    PROVE  \E x \in T : \A y \in T : x <= y
<1>1. IsWellFoundedOn(OpToRel(<, Nat), Nat)
  BY NatLessThanWellFounded, Zenon
<1>2. PICK x \in T : \A y \in T : ~(<<y, x>> \in OpToRel(<, Nat))
  BY <1>1, WFMin, Zenon
<1>3. ASSUME NEW m \in Nat, NEW n \in Nat, m < n
      PROVE  <<m, n>> \in OpToRel(<, Nat)
  BY <1>3, Zenon DEF OpToRel
<1>4. ASSUME NEW y \in T PROVE ~(y < x)
  BY <1>2, <1>3, Zenon
<1>5. \A y \in T : x <= y
  BY <1>4
<1> QED
  BY <1>5

LEMMA SmallestSet ==
    ASSUME NEW D, IsFiniteSet(D), NEW B, B \subseteq SUBSET D, B # {}
    PROVE  \E S \in B : \A x \in S : S \ {x} \notin B
<1> DEFINE sizes == {Cardinality(S) : S \in B}
<1>1. \A S \in SUBSET D : IsFiniteSet(S) /\ Cardinality(S) \in Nat
  BY FS_Subset, FS_CardinalityType
<1>2. PICK n \in sizes : \A m \in sizes : n <= m
  <2>1. sizes \subseteq Nat /\ sizes # {}
    BY <1>1
  <2> QED
    BY <2>1, LeastNumber
<1>3. PICK S \in B : n = Cardinality(S)
  BY <1>2
<1>4. ASSUME NEW x \in S PROVE S \ {x} \notin B
  <2>1. Cardinality(S \ {x}) = Cardinality(S) - 1
    BY <1>1, <1>3, FS_RemoveElement
  <2>2. S \ {x} \in B => Cardinality(S) <= Cardinality(S \ {x})
    BY <1>2, <1>3
  <2> QED
    BY <1>1, <1>3, <2>1, <2>2
<1> QED
  BY <1>3, <1>4

-----------------------------------------------------------------------------
\* Lists.

LEMMA GreatestNumber ==
    ASSUME NEW n \in Nat, NEW T, T \subseteq 0..n, T # {}
    PROVE  \E x \in T : \A y \in T : y <= x
<1> DEFINE D == {n - x : x \in T}
<1>0. \A x \in T : x \in Nat /\ n - x \in Nat
  OBVIOUS
<1>1. D \subseteq Nat /\ D # {}
  BY <1>0
<1>2. PICK d \in D : \A e \in D : d <= e
  <2> HIDE DEF D
  <2> QED
    BY <1>1, LeastNumber
<1>3. PICK x \in T : d = n - x
  BY <1>2
<1>4. ASSUME NEW y \in T PROVE y <= x
  <2>1. d <= n - y
    BY <1>2
  <2> QED
    BY <1>0, <1>3, <2>1
<1> QED
  BY <1>4

\* The numbers below a member of a set, by which Nth counts.
Below(ks, k) == {j \in ks : j < k}

LEMMA PickedFinite ==
    ASSUME NEW n \in Nat, NEW ks \in SUBSET (0..n)
    PROVE  /\ IsFiniteSet(ks) /\ Cardinality(ks) \in Nat
           /\ \A k \in ks : IsFiniteSet(Below(ks, k)) /\ Cardinality(Below(ks, k)) \in Nat
<1>0. 0 \in Int /\ n \in Int
  OBVIOUS
<1>1. IsFiniteSet(ks)
  BY <1>0, FS_Interval, FS_Subset
<1>2. \A k \in ks : IsFiniteSet(Below(ks, k))
  BY <1>1, FS_Subset DEF Below
<1> QED
  BY <1>1, <1>2, FS_CardinalityType

LEMMA BelowGrows ==
    ASSUME NEW n \in Nat, NEW ks \in SUBSET (0..n), NEW k \in ks, NEW l \in ks, k < l
    PROVE  Cardinality(Below(ks, k)) < Cardinality(Below(ks, l))
<1>0. k \in Nat /\ l \in Nat /\ \A j \in ks : j \in Nat
  OBVIOUS
<1>1. Below(ks, k) \subseteq Below(ks, l)
  <2>1. \A j \in ks : j < k => j < l
    BY <1>0
  <2> QED
    BY <2>1 DEF Below
<1>2. k \in Below(ks, l) /\ k \notin Below(ks, k)
  <2>1. k < l /\ ~(k < k)
    BY <1>0
  <2> QED
    BY <2>1 DEF Below
<1>3. IsFiniteSet(Below(ks, l))
  BY PickedFinite
<1>4. /\ Cardinality(Below(ks, k)) <= Cardinality(Below(ks, l))
      /\ Cardinality(Below(ks, k)) = Cardinality(Below(ks, l)) => Below(ks, k) = Below(ks, l)
  BY <1>1, <1>3, FS_Subset
<1>5. Cardinality(Below(ks, k)) \in Nat /\ Cardinality(Below(ks, l)) \in Nat
  BY PickedFinite
<1> QED
  BY <1>2, <1>4, <1>5

LEMMA EveryRankIsTaken ==
    ASSUME NEW n \in Nat, NEW ks \in SUBSET (0..n), NEW i \in 1..Cardinality(ks)
    PROVE  \E k \in ks : Cardinality(Below(ks, k)) = i - 1
<1> DEFINE Bad == {T \in SUBSET (0..n) :
                     \E j \in 1..Cardinality(T) : \A k \in T : Cardinality(Below(T, k)) # j - 1}
<1>1. ASSUME Bad # {} PROVE FALSE
  <2>1. PICK T \in Bad : \A x \in T : T \ {x} \notin Bad
    <3>1. IsFiniteSet(0..n)
      BY FS_Interval
    <3>2. Bad \subseteq SUBSET (0..n)
      OBVIOUS
    <3> HIDE DEF Bad
    <3> QED
      BY <1>1, <3>1, <3>2, SmallestSet
  <2>2. PICK j \in 1..Cardinality(T) : \A k \in T : Cardinality(Below(T, k)) # j - 1
    BY <2>1
  <2>3. IsFiniteSet(T) /\ Cardinality(T) \in Nat
    BY <2>1, PickedFinite
  <2>4. T # {}
    BY <2>2, <2>3, FS_EmptySet
  <2>5. PICK m \in T : \A y \in T : y <= m
    BY <2>1, <2>4, GreatestNumber
  <2>6. Cardinality(T \ {m}) = Cardinality(T) - 1
    BY <2>3, FS_RemoveElement
  <2>0. \A y \in T : y \in Nat
    BY <2>1
  <2>7. Below(T, m) = T \ {m}
    <3>1. \A y \in T : y < m <=> y # m
      BY <2>0, <2>5
    <3> QED
      BY <3>1 DEF Below
  <2>8. j \in 1..Cardinality(T \ {m})
    <3>1. Cardinality(T \ {m}) # j - 1
      BY <2>2, <2>5, <2>7
    <3> QED
      BY <2>2, <2>3, <2>6, <3>1
  <2>9. PICK k \in T \ {m} : Cardinality(Below(T \ {m}, k)) = j - 1
    BY <2>1, <2>5, <2>8
  <2>10. Below(T, k) = Below(T \ {m}, k)
    <3>1. ~(m < k)
      BY <2>0, <2>5, <2>9
    <3> QED
      BY <3>1 DEF Below
  <2> QED
    BY <2>2, <2>9, <2>10
<1> QED
  BY <1>1

\* Nth goes through a set of numbers in ascending order.
LEMMA NthAscends ==
    ASSUME NEW n \in Nat, NEW ks \in SUBSET (0..n)
    PROVE  /\ Cardinality(ks) \in Nat
           /\ \A i \in 1..Cardinality(ks) : Nth(ks, i) \in ks
           /\ \A i, j \in 1..Cardinality(ks) : i < j => Nth(ks, i) < Nth(ks, j)
           /\ \A k \in ks : \E i \in 1..Cardinality(ks) : Nth(ks, i) = k
<1>1. Cardinality(ks) \in Nat
  BY PickedFinite
<1>2. ASSUME NEW i \in 1..Cardinality(ks)
      PROVE  Nth(ks, i) \in ks /\ Cardinality(Below(ks, Nth(ks, i))) = i - 1
  <2>1. \E k \in ks : Cardinality(Below(ks, k)) = i - 1
    BY EveryRankIsTaken
  <2>2. Nth(ks, i) = CHOOSE k \in ks : Cardinality(Below(ks, k)) = i - 1
    BY DEF Nth, Below
  <2> QED
    BY <2>1, <2>2
<1>3. ASSUME NEW i \in 1..Cardinality(ks), NEW j \in 1..Cardinality(ks), i < j
      PROVE  Nth(ks, i) < Nth(ks, j)
  <2>1. Nth(ks, i) \in 0..n /\ Nth(ks, j) \in 0..n
    BY <1>2
  <2>3. ~(Nth(ks, j) < Nth(ks, i))
    <3>1. Nth(ks, j) < Nth(ks, i) =>
            Cardinality(Below(ks, Nth(ks, j))) < Cardinality(Below(ks, Nth(ks, i)))
      BY <1>2, BelowGrows
    <3> QED
      BY <1>1, <1>2, <1>3, <3>1
  <2>4. Nth(ks, i) # Nth(ks, j)
    BY <1>1, <1>2, <1>3
  <2> QED
    BY <2>1, <2>3, <2>4
<1>4. ASSUME NEW k \in ks PROVE \E i \in 1..Cardinality(ks) : Nth(ks, i) = k
  <2>1. Cardinality(Below(ks, k)) \in Nat /\ IsFiniteSet(ks)
    BY PickedFinite
  <2>2. Below(ks, k) \subseteq ks /\ k \notin Below(ks, k)
    <3>1. ~(k < k)
      OBVIOUS
    <3> QED
      BY <3>1 DEF Below
  <2>3. Cardinality(Below(ks, k)) < Cardinality(ks)
    BY <1>1, <2>1, <2>2, FS_Subset
  <2>4. PICK i \in 1..Cardinality(ks) : i - 1 = Cardinality(Below(ks, k))
    <3>1. Cardinality(Below(ks, k)) + 1 \in 1..Cardinality(ks)
      BY <1>1, <2>1, <2>3
    <3> QED
      BY <2>1, <3>1
  <2>5. Nth(ks, i) \in ks /\ Cardinality(Below(ks, Nth(ks, i))) = Cardinality(Below(ks, k))
    BY <1>2, <2>4
  <2>6. ~(k < Nth(ks, i)) /\ ~(Nth(ks, i) < k)
    <3>1. k < Nth(ks, i) => Cardinality(Below(ks, k)) < Cardinality(Below(ks, Nth(ks, i)))
      BY <2>5, BelowGrows
    <3>2. Nth(ks, i) < k => Cardinality(Below(ks, Nth(ks, i))) < Cardinality(Below(ks, k))
      BY <2>5, BelowGrows
    <3> QED
      BY <2>1, <2>5, <3>1, <3>2
  <2>7. k \in Nat /\ Nth(ks, i) \in Nat
    <3>1. \A x \in ks : x \in Nat
      OBVIOUS
    <3> QED
      BY <2>5, <3>1
  <2> QED
    BY <2>6, <2>7
<1> QED
  BY <1>1, <1>2, <1>3, <1>4

\* What is picked from a list is a list: of the members at the indices, in
\* their order.
LEMMA PickedInOrder ==
    ASSUME NEW S, NEW s \in Seq(S), NEW ks \in SUBSET DOMAIN s
    PROVE  /\ Picked(s, ks) \in Seq(S)
           /\ DOMAIN Picked(s, ks) = 1..Len(Picked(s, ks))
           /\ \A k \in ks : \E i \in DOMAIN Picked(s, ks) : Picked(s, ks)[i] = s[k]
           /\ \A i \in DOMAIN Picked(s, ks) : \E k \in ks : Picked(s, ks)[i] = s[k]
           /\ \A i, j \in DOMAIN Picked(s, ks) : i < j =>
                \E k, l \in ks : k < l /\ s[k] = Picked(s, ks)[i] /\ s[l] = Picked(s, ks)[j]
<1>1. DOMAIN s = 1..Len(s) /\ Len(s) \in Nat /\ ks \in SUBSET (0..Len(s))
  OBVIOUS
<1>2. PICK N \in Nat : N = Cardinality(ks)
  BY <1>1, NthAscends
<1>3. /\ \A i \in 1..N : Nth(ks, i) \in ks
      /\ \A i, j \in 1..N : i < j => Nth(ks, i) < Nth(ks, j)
      /\ \A k \in ks : \E i \in 1..N : Nth(ks, i) = k
  BY <1>1, <1>2, NthAscends
<1>4. Picked(s, ks) = [i \in 1..N |-> s[Nth(ks, i)]]
  BY <1>2 DEF Picked
<1>5. \A i \in 1..N : s[Nth(ks, i)] \in S
  BY <1>1, <1>3
<1>6. Picked(s, ks) \in Seq(S)
  BY <1>4, <1>5
<1>7. DOMAIN Picked(s, ks) = 1..N /\ Len(Picked(s, ks)) = N
  BY <1>4, <1>6
<1>8. \A i \in 1..N : Picked(s, ks)[i] = s[Nth(ks, i)]
  BY <1>4
<1>9. \A k \in ks : \E i \in 1..N : Picked(s, ks)[i] = s[k]
  BY <1>3, <1>8
<1>10. \A i \in 1..N : \E k \in ks : Picked(s, ks)[i] = s[k]
  BY <1>3, <1>8
<1>11. ASSUME NEW i \in 1..N, NEW j \in 1..N, i < j
       PROVE  \E k, l \in ks : k < l /\ s[k] = Picked(s, ks)[i] /\ s[l] = Picked(s, ks)[j]
  BY <1>3, <1>8, <1>11
<1>12. DOMAIN Picked(s, ks) = 1..Len(Picked(s, ks))
  BY <1>7
<1>13. \A k \in ks : \E i \in DOMAIN Picked(s, ks) : Picked(s, ks)[i] = s[k]
  BY <1>7, <1>9
<1>14. \A i \in DOMAIN Picked(s, ks) : \E k \in ks : Picked(s, ks)[i] = s[k]
  BY <1>7, <1>10
<1>15. \A i, j \in DOMAIN Picked(s, ks) : i < j =>
         \E k, l \in ks : k < l /\ s[k] = Picked(s, ks)[i] /\ s[l] = Picked(s, ks)[j]
  <2> SUFFICES ASSUME NEW i \in 1..N, NEW j \in 1..N, i < j
               PROVE  \E k, l \in ks : k < l /\ s[k] = Picked(s, ks)[i] /\ s[l] = Picked(s, ks)[j]
    BY <1>7
  <2> QED
    BY <1>11
<1> QED
  BY <1>6, <1>12, <1>13, <1>14, <1>15
\* A list of anything.
IsList(s) == s \in Seq(ToSet(s))

LEMMA ListOf ==
    ASSUME NEW S, NEW s \in Seq(S)
    PROVE  IsList(s) /\ DOMAIN s = 1..Len(s) /\ Len(s) \in Nat
<1>1. DOMAIN s = 1..Len(s) /\ Len(s) \in Nat
  OBVIOUS
<1>2. \A i \in 1..Len(s) : s[i] \in ToSet(s)
  BY <1>1 DEF ToSet
<1>3. s = [i \in 1..Len(s) |-> s[i]]
  OBVIOUS
<1> QED
  BY <1>1, <1>2, <1>3 DEF IsList

LEMMA ListAppend ==
    ASSUME NEW s, IsList(s), NEW e
    PROVE  /\ IsList(Append(s, e)) /\ Len(Append(s, e)) = Len(s) + 1
           /\ Len(s) \in Nat
           /\ ToSet(s) \subseteq ToSet(Append(s, e)) /\ e \in ToSet(Append(s, e))
           /\ \A x \in ToSet(Append(s, e)) : x = e \/ x \in ToSet(s)
<1> DEFINE S == ToSet(s) \cup {e}
           t == Append(s, e)
<1>1. s \in Seq(S) /\ Len(s) \in Nat /\ DOMAIN s = 1..Len(s)
  BY DEF IsList
<1>2. t \in Seq(S) /\ Len(t) = Len(s) + 1 /\ t[Len(s) + 1] = e /\ \A i \in 1..Len(s) : t[i] = s[i]
  <2> HIDE DEF S
  <2>1. e \in S
    BY DEF S
  <2> QED
    BY <1>1, <2>1
<1> HIDE DEF S, t
<1>3. DOMAIN t = 1..(Len(s) + 1) /\ IsList(t)
  BY <1>1, <1>2, ListOf
<1>4. \A i \in 1..(Len(s) + 1) : i = Len(s) + 1 \/ i \in 1..Len(s)
  BY <1>1
<1> QED
  BY <1>1, <1>2, <1>3, <1>4 DEF ToSet, t

LEMMA ListConcat ==
    ASSUME NEW s, IsList(s), NEW t, IsList(t)
    PROVE  /\ IsList(s \o t) /\ Len(s \o t) = Len(s) + Len(t)
           /\ Len(s) \in Nat /\ Len(t) \in Nat
           /\ ToSet(s \o t) = ToSet(s) \cup ToSet(t)
<1> DEFINE S == ToSet(s) \cup ToSet(t)
<1>1. /\ s \in Seq(S) /\ Len(s) \in Nat /\ DOMAIN s = 1..Len(s)
      /\ t \in Seq(S) /\ Len(t) \in Nat /\ DOMAIN t = 1..Len(t)
  BY DEF IsList
<1> HIDE DEF S
<1>2. /\ s \o t \in Seq(S) /\ Len(s \o t) = Len(s) + Len(t)
      /\ \A i \in 1..Len(s) + Len(t) : (s \o t)[i] = IF i <= Len(s) THEN s[i] ELSE t[i - Len(s)]
  BY <1>1, ConcatProperties
<1>3. IsList(s \o t) /\ DOMAIN (s \o t) = 1..Len(s) + Len(t)
  BY <1>2, ListOf
<1>4. \A i \in 1..Len(s) : i \in 1..Len(s) + Len(t) /\ i <= Len(s)
  BY <1>1
<1>5. \A i \in 1..Len(t) :
        /\ Len(s) + i \in 1..Len(s) + Len(t) /\ ~(Len(s) + i <= Len(s)) /\ Len(s) + i - Len(s) = i
  BY <1>1
<1>6. \A i \in 1..Len(s) + Len(t) : i <= Len(s) => i \in 1..Len(s)
  BY <1>1
<1>7. \A i \in 1..Len(s) + Len(t) : ~(i <= Len(s)) => i - Len(s) \in 1..Len(t)
  BY <1>1
<1>8. ToSet(s) \subseteq ToSet(s \o t)
  BY <1>1, <1>2, <1>3, <1>4 DEF ToSet
<1>9. ToSet(t) \subseteq ToSet(s \o t)
  <2> SUFFICES ASSUME NEW i \in 1..Len(t) PROVE t[i] \in ToSet(s \o t)
    BY <1>1 DEF ToSet
  <2>1. (s \o t)[Len(s) + i] = t[i]
    BY <1>2, <1>5
  <2> QED
    BY <1>3, <1>5, <2>1 DEF ToSet
<1>10. ToSet(s \o t) \subseteq ToSet(s) \cup ToSet(t)
  BY <1>1, <1>2, <1>3, <1>6, <1>7 DEF ToSet
<1> QED
  BY <1>1, <1>2, <1>3, <1>8, <1>9, <1>10

LEMMA MinOfTwo ==
    ASSUME NEW a \in Int, NEW b \in Int
    PROVE  Min({a, b}) \in {a, b} /\ Min({a, b}) <= a /\ Min({a, b}) <= b
<1>1. \E x \in {a, b} : \A y \in {a, b} : x =< y
  BY a <= b \/ b <= a
<1>2. Min({a, b}) \in {a, b} /\ \A y \in {a, b} : Min({a, b}) =< y
  BY <1>1, Zenon DEF Min
<1> QED
  BY <1>2

LEMMA MaxOfTwo ==
    ASSUME NEW a \in Int, NEW b \in Int
    PROVE  Max({a, b}) \in {a, b} /\ Max({a, b}) >= a /\ Max({a, b}) >= b
<1>1. \E x \in {a, b} : \A y \in {a, b} : x >= y
  BY a <= b \/ b <= a
<1>2. Max({a, b}) \in {a, b} /\ \A y \in {a, b} : Max({a, b}) >= y
  BY <1>1, Zenon DEF Max
<1> QED
  BY <1>2

\* B says of every member of a set which come before it in an order.
Orders(S, B) ==
    /\ B \in [S -> SUBSET S]
    /\ \A x \in S : x \notin B[x]
    /\ \A x, y \in S : x # y => x \in B[y] \/ y \in B[x]
    /\ \A x, y \in S : y \in B[x] => B[y] \subseteq B[x]

CountsUp(S, B) ==
    /\ Cardinality(S) \in Nat
    /\ \A x \in S : Cardinality(B[x]) + 1 \in 1..Cardinality(S)
    /\ \A x, y \in S : Cardinality(B[x]) = Cardinality(B[y]) => x = y
    /\ \A i \in 1..Cardinality(S) : \E x \in S : Cardinality(B[x]) = i - 1

\* s goes by those ranks.
GoesBy(s, S, B) ==
    /\ s = [i \in 1..Cardinality(S) |-> s[i]]
    /\ \A i \in 1..Cardinality(S) :
          (\E x \in S : Cardinality(B[x]) = i - 1) => s[i] \in S /\ Cardinality(B[s[i]]) = i - 1

LEMMA Ranking ==
    ASSUME NEW S, IsFiniteSet(S), NEW B, Orders(S, B)
    PROVE  CountsUp(S, B)
<1> DEFINE N == Cardinality(S)
<1> USE DEF Orders
<1>0. \A T \in SUBSET S : IsFiniteSet(T) /\ Cardinality(T) \in Nat
  BY FS_Subset, FS_CardinalityType
<1>1. N \in Nat
  BY <1>0
<1>2. ASSUME NEW x \in S PROVE Cardinality(B[x]) + 1 \in 1..N
  <2>1. Cardinality(B[x]) < N
    <3>1. Cardinality(B[x]) <= N /\ (Cardinality(B[x]) = N => B[x] = S)
      BY FS_Subset
    <3> QED
      BY <1>0, <1>1, <3>1
  <2> QED
    BY <1>0, <1>1, <2>1
<1>3. ASSUME NEW x \in S, NEW y \in S, y \in B[x]
      PROVE  Cardinality(B[y]) # Cardinality(B[x])
  <2>1. B[y] \subseteq B[x] /\ y \notin B[y] /\ IsFiniteSet(B[x])
    BY <1>0, <1>3
  <2> QED
    BY <1>3, <2>1, FS_Subset
<1>4. \A x, y \in S : Cardinality(B[x]) = Cardinality(B[y]) => x = y
  BY <1>3
<1> DEFINE f == [x \in S |-> Cardinality(B[x]) + 1]
<1>5. f \in Injection(S, 1..N)
  <2>1. f \in [S -> 1..N]
    BY <1>2
  <2>2. \A x, y \in S : f[x] = f[y] => x = y
    BY <1>0, <1>4
  <2> HIDE DEF f
  <2> QED
    BY <2>1, <2>2, Zenon DEF Injection, IsInjective
<1>6. IsFiniteSet(1..N) /\ Cardinality(1..N) = N
  <2>1. 1 \in Int /\ N \in Int /\ (1 > N => N = 0)
    BY <1>1
  <2>2. IsFiniteSet(1..N) /\ Cardinality(1..N) = IF 1 > N THEN 0 ELSE N - 1 + 1
    BY <2>1, FS_Interval
  <2> QED
    BY <1>1, <2>1, <2>2
<1>7. f \in Surjection(S, 1..N)
  <2> HIDE DEF f
  <2> QED
    BY <1>5, <1>6, FS_Injection
<1>8. ASSUME NEW i \in 1..N PROVE \E x \in S : Cardinality(B[x]) = i - 1
  <2>1. PICK x \in S : f[x] = i
    <3> HIDE DEF f
    <3> QED
      BY <1>7 DEF Surjection
  <2>2. i \in Nat /\ Cardinality(B[x]) + 1 = i /\ Cardinality(B[x]) \in Nat
    BY <1>0, <2>1
  <2> QED
    BY <2>2
<1> QED
  BY <1>1, <1>2, <1>4, <1>8 DEF CountsUp

\* A list of the members of a set.
Enumerates(s, S) ==
    /\ DOMAIN s = 1..Len(s) /\ Len(s) \in Nat
    /\ \A i \in 1..Len(s) : s[i] \in S
    /\ \A x \in S : \E i \in 1..Len(s) : s[i] = x

\* A list in the order of the ranks B lists a set.
LEMMA RankedList ==
    ASSUME NEW S, IsFiniteSet(S), NEW B, Orders(S, B),
           NEW s, GoesBy(s, S, B)
    PROVE  Enumerates(s, S)
<1>0. CountsUp(S, B)
  BY Ranking, Zenon
<1>1. /\ Cardinality(S) \in Nat
      /\ \A x \in S : Cardinality(B[x]) + 1 \in 1..Cardinality(S)
      /\ \A x, y \in S : Cardinality(B[x]) = Cardinality(B[y]) => x = y
      /\ \A i \in 1..Cardinality(S) : \E x \in S : Cardinality(B[x]) = i - 1
  BY <1>0 DEF CountsUp
<1>2. \A x \in S : Cardinality(B[x]) \in Nat
  BY FS_Subset, FS_CardinalityType DEF Orders
<1>3. \A i \in 1..Cardinality(S) : s[i] \in S /\ Cardinality(B[s[i]]) = i - 1
  BY <1>1, Zenon DEF GoesBy
<1>4. ASSUME NEW x \in S PROVE \E i \in 1..Cardinality(S) : s[i] = x
  <2>1. PICK i : i = Cardinality(B[x]) + 1
    OBVIOUS
  <2>2. i \in 1..Cardinality(S) /\ i - 1 = Cardinality(B[x])
    BY <1>1, <1>2, <2>1
  <2> QED
    BY <1>1, <1>3, <2>2
<1>5. PICK n \in Nat : n = Cardinality(S)
  BY <1>1
<1>6. s = [i \in 1..n |-> s[i]]
  BY <1>5, Zenon DEF GoesBy
<1>7. DOMAIN s = 1..n
  BY <1>6
<1>8. s \in Seq(S)
  BY <1>3, <1>5, <1>6
<1>9. Len(s) = n
  BY <1>7, <1>8
<1> QED
  BY <1>3, <1>4, <1>5, <1>7, <1>9 DEF Enumerates
-----------------------------------------------------------------------------
\* Sums.

\* total holds the sum of f over every set in known, by the recursion that
\* SumFunctionOnSet and MapThenSumSet are defined by.
Some(S) == CHOOSE x \in S : TRUE
Totals(total, f, known) ==
    total = [S \in known |-> IF S = {} THEN 0 ELSE f[Some(S)] + total[S \ {Some(S)}]]

LEMMA TotalExists ==
    ASSUME NEW f, NEW D, IsFiniteSet(D)
    PROVE  \E total : Totals(total, f, SUBSET D)
<1> DEFINE Small(n) == {S \in SUBSET D : Cardinality(S) <= n}
           Bad == {n \in Nat : ~ \E total : Totals(total, f, Small(n))}
<1>1. \A S \in SUBSET D : IsFiniteSet(S) /\ Cardinality(S) \in Nat
  BY FS_Subset, FS_CardinalityType
<1>2. ASSUME Bad # {} PROVE FALSE
  <2>1. PICK n \in Bad : \A m \in Bad : n <= m
    BY <1>2, LeastNumber
  <2>2. CASE n = 0
    <3>1. \A S \in Small(0) : S = {}
      BY <1>1, FS_EmptySet
    <3> DEFINE total == [S \in Small(0) |-> 0]
    <3>2. total = [S \in Small(0) |->
                     IF S = {} THEN 0 ELSE f[Some(S)] + total[S \ {Some(S)}]]
      <4> HIDE DEF Small
      <4> QED
        BY <3>1
    <3>3. Totals(total, f, Small(0))
      BY <3>2 DEF Totals
    <3> QED
      BY <2>1, <2>2, <3>3
  <2>3. CASE n # 0
    <3>1. n - 1 \in Nat /\ n - 1 \notin Bad
      <4>1. n \in Nat
        OBVIOUS
      <4> HIDE DEF Bad
      <4> QED
        BY <2>1, <2>3, <4>1
    <3>2. PICK old : Totals(old, f, Small(n - 1))
      BY <3>1
    <3> DEFINE Value(S) == IF S = {} THEN 0 ELSE f[Some(S)] + old[S \ {Some(S)}]
               total == [S \in Small(n) |-> Value(S)]
    <3>3. ASSUME NEW S \in Small(n), S # {}
          PROVE  /\ S \ {Some(S)} \in Small(n) /\ S \ {Some(S)} \in Small(n - 1)
      <4>1. Some(S) \in S
        BY <3>3 DEF Some
      <4>2. Cardinality(S \ {Some(S)}) = Cardinality(S) - 1
        BY <1>1, <4>1, FS_RemoveElement
      <4> QED
        BY <1>1, <2>1, <4>2
    <3>4. ASSUME NEW S \in Small(n - 1) PROVE old[S] = Value(S)
      BY <3>2, <3>4 DEF Totals
    <3>5. ASSUME NEW S \in Small(n), S # {}
          PROVE  total[S \ {Some(S)}] = old[S \ {Some(S)}]
      BY <3>3, <3>4, <3>5
    <3>6. total = [S \in Small(n) |->
                     IF S = {} THEN 0 ELSE f[Some(S)] + total[S \ {Some(S)}]]
      <4> HIDE DEF Small
      <4> QED
        BY <3>5
    <3>7. Totals(total, f, Small(n))
      BY <3>6 DEF Totals
    <3> QED
      BY <2>1, <3>7
  <2> QED
    BY <2>2, <2>3
<1>3. Cardinality(D) \in Nat /\ Cardinality(D) \notin Bad
  BY <1>1, <1>2
<1>4. Small(Cardinality(D)) = SUBSET D
  BY <1>1, FS_Subset
<1> QED
  BY <1>3, <1>4

LEMMA TotalIsUnique ==
    ASSUME NEW f, NEW D, IsFiniteSet(D), NEW S \in SUBSET D,
           NEW t1, Totals(t1, f, SUBSET D), NEW t2, Totals(t2, f, SUBSET S)
    PROVE  t1[S] = t2[S]
<1> DEFINE Bad == {T \in SUBSET S : t1[T] # t2[T]}
<1>0. IsFiniteSet(S)
  BY FS_Subset
<1>1. ASSUME Bad # {} PROVE FALSE
  <2>1. PICK T \in Bad : \A x \in T : T \ {x} \notin Bad
    BY <1>0, <1>1, SmallestSet
  <2>2. t1[T] = (IF T = {} THEN 0 ELSE f[Some(T)] + t1[T \ {Some(T)}])
    BY <2>1 DEF Totals
  <2>3. t2[T] = (IF T = {} THEN 0 ELSE f[Some(T)] + t2[T \ {Some(T)}])
    BY <2>1 DEF Totals
  <2>4. T # {}
    BY <2>1, <2>2, <2>3
  <2>5. Some(T) \in T
    BY <2>4 DEF Some
  <2>6. t1[T \ {Some(T)}] = t2[T \ {Some(T)}]
    BY <2>1, <2>5
  <2> QED
    BY <2>1, <2>2, <2>3, <2>6
<1> QED
  BY <1>1

\* What SumFunctionOnSet computes, whichever way the totals are written.
LEMMA SumIsTotal ==
    ASSUME NEW f, NEW D, IsFiniteSet(D), NEW total, Totals(total, f, SUBSET D)
    PROVE  \A S \in SUBSET D : SumFunctionOnSet(f, S) = total[S]
<1>2. ASSUME NEW S \in SUBSET D PROVE SumFunctionOnSet(f, S) = total[S]
  <2>1. SumFunctionOnSet(f, S) = (CHOOSE t : Totals(t, f, SUBSET S))[S]
    BY Zenon DEF SumFunctionOnSet, FoldFunctionOnSet, MapThenFoldSet, Totals, Some
  <2>2. IsFiniteSet(S)
    BY FS_Subset
  <2>3. Totals((CHOOSE t : Totals(t, f, SUBSET S)), f, SUBSET S)
    <3>1. \E t : Totals(t, f, SUBSET S)
      BY <2>2, TotalExists
    <3> QED
      BY <3>1, Zenon
  <2> QED
    BY <2>1, <2>3, TotalIsUnique
<1> QED
  BY <1>2

LEMMA SumTotals ==
    ASSUME NEW f, NEW D, IsFiniteSet(D)
    PROVE  \E total :
             /\ Totals(total, f, SUBSET D)
             /\ \A S \in SUBSET D : SumFunctionOnSet(f, S) = total[S]
<1>1. PICK total : Totals(total, f, SUBSET D)
  BY TotalExists
<1>2. \A S \in SUBSET D : SumFunctionOnSet(f, S) = total[S]
  BY <1>1, SumIsTotal
<1> QED
  BY <1>1, <1>2

\* Any element can be taken out of a sum first.
LEMMA SumTakes ==
    ASSUME NEW D, IsFiniteSet(D), NEW f \in [D -> Nat]
    PROVE  /\ SumFunctionOnSet(f, {}) = 0
           /\ \A S \in SUBSET D :
                /\ SumFunctionOnSet(f, S) \in Nat
                /\ \A x \in S : SumFunctionOnSet(f, S) = f[x] + SumFunctionOnSet(f, S \ {x})
<1>1. PICK total : /\ Totals(total, f, SUBSET D)
                   /\ \A S \in SUBSET D : SumFunctionOnSet(f, S) = total[S]
  BY SumTotals
<1>2. ASSUME NEW S \in SUBSET D
      PROVE  /\ S = {} => total[S] = 0
             /\ S # {} => /\ total[S] = f[Some(S)] + total[S \ {Some(S)}]
                          /\ Some(S) \in S
  BY <1>1 DEF Totals, Some
<1>3. ASSUME {S \in SUBSET D : total[S] \notin Nat} # {} PROVE FALSE
  <2> DEFINE Bad == {S \in SUBSET D : total[S] \notin Nat}
  <2>1. PICK S \in Bad : \A x \in S : S \ {x} \notin Bad
    <3> Bad \subseteq SUBSET D /\ Bad # {}
      BY <1>3
    <3> HIDE DEF Bad
    <3> QED
      BY SmallestSet
  <2>2. S # {}
    BY <1>2, <2>1
  <2>3. Some(S) \in S /\ total[S] = f[Some(S)] + total[S \ {Some(S)}]
    BY <1>2, <2>1, <2>2
  <2>4. total[S \ {Some(S)}] \in Nat /\ f[Some(S)] \in Nat
    BY <2>1, <2>3
  <2> QED
    BY <2>1, <2>3, <2>4
<1>4. \A S \in SUBSET D : total[S] \in Nat
  BY <1>3
<1> DEFINE Bad == {S \in SUBSET D : \E x \in S : total[S] # f[x] + total[S \ {x}]}
<1>5. ASSUME Bad # {} PROVE FALSE
  <2>1. PICK S \in Bad : \A x \in S : S \ {x} \notin Bad
    <3> Bad \subseteq SUBSET D
      OBVIOUS
    <3> HIDE DEF Bad
    <3> QED
      BY <1>5, SmallestSet
  <2>2. PICK y \in S : total[S] # f[y] + total[S \ {y}]
    BY <2>1
  <2>3. PICK x : x = Some(S)
    OBVIOUS
  <2>4. x \in S /\ x # y /\ total[S] = f[x] + total[S \ {x}]
    BY <1>2, <2>1, <2>2, <2>3
  <2>5. total[S \ {x}] = f[y] + total[(S \ {x}) \ {y}]
    BY <2>1, <2>4
  <2>6. total[S \ {y}] = f[x] + total[(S \ {y}) \ {x}]
    BY <2>1, <2>4
  <2>7. (S \ {y}) \ {x} = (S \ {x}) \ {y}
    OBVIOUS
  <2>8. f[x] \in Nat /\ f[y] \in Nat /\ total[(S \ {x}) \ {y}] \in Nat
    BY <1>4, <2>1, <2>4
  <2>9. PICK k \in Nat : k = total[(S \ {x}) \ {y}]
    BY <2>8
  <2>10. total[S] = f[x] + (f[y] + k) /\ total[S \ {y}] = f[x] + k
    BY <2>4, <2>5, <2>6, <2>7, <2>9
  <2> HIDE DEF Bad
  <2> QED
    BY <2>2, <2>8, <2>9, <2>10
<1>6. \A S \in SUBSET D : \A x \in S : total[S] = f[x] + total[S \ {x}]
  BY <1>5
<1>7. {} \in SUBSET D /\ \A S \in SUBSET D : \A x \in S : S \ {x} \in SUBSET D
  OBVIOUS
<1> QED
  BY <1>1, <1>2, <1>4, <1>6, <1>7

\* A sum changes by what one of its terms changes by.
LEMMA SumChanges ==
    ASSUME NEW D, IsFiniteSet(D), NEW f \in [D -> Nat], NEW g \in [D -> Nat],
           NEW x \in D, \A y \in D : y # x => f[y] = g[y]
    PROVE  SumFunctionOnSet(f, D) + g[x] = SumFunctionOnSet(g, D) + f[x]
<1>1. ASSUME {S \in SUBSET (D \ {x}) : SumFunctionOnSet(f, S) # SumFunctionOnSet(g, S)} # {}
      PROVE  FALSE
  <2> DEFINE Bad == {S \in SUBSET (D \ {x}) : SumFunctionOnSet(f, S) # SumFunctionOnSet(g, S)}
  <2>1. PICK S \in Bad : \A y \in S : S \ {y} \notin Bad
    <3> Bad \subseteq SUBSET D /\ Bad # {}
      BY <1>1
    <3> HIDE DEF Bad
    <3> QED
      BY SmallestSet
  <2>2. S # {}
    BY <2>1, SumTakes
  <2>3. PICK y \in S : TRUE
    BY <2>2
  <2>4. SumFunctionOnSet(f, S \ {y}) = SumFunctionOnSet(g, S \ {y})
    BY <2>1
  <2>5. /\ SumFunctionOnSet(f, S) = f[y] + SumFunctionOnSet(f, S \ {y})
        /\ SumFunctionOnSet(g, S) = g[y] + SumFunctionOnSet(g, S \ {y})
    BY <2>1, SumTakes
  <2> QED
    BY <2>1, <2>3, <2>4, <2>5
<1>2. SumFunctionOnSet(f, D \ {x}) = SumFunctionOnSet(g, D \ {x})
  BY <1>1
<1>3. /\ SumFunctionOnSet(f, D) = f[x] + SumFunctionOnSet(f, D \ {x})
      /\ SumFunctionOnSet(g, D) = g[x] + SumFunctionOnSet(g, D \ {x})
      /\ SumFunctionOnSet(f, D \ {x}) \in Nat
  BY SumTakes
<1> QED
  BY <1>2, <1>3

\* Terms that are 0 do not count.
LEMMA SumOfPart ==
    ASSUME NEW D, IsFiniteSet(D), NEW f \in [D -> Nat], NEW P \in SUBSET D,
           \A x \in D \ P : f[x] = 0
    PROVE  SumFunctionOnSet(f, D) = SumFunctionOnSet(f, P)
<1> DEFINE Bad == {S \in SUBSET D :
                     P \subseteq S /\ SumFunctionOnSet(f, S) # SumFunctionOnSet(f, P)}
<1>1. ASSUME Bad # {} PROVE FALSE
  <2>1. PICK S \in Bad : \A x \in S : S \ {x} \notin Bad
    <3> Bad \subseteq SUBSET D
      OBVIOUS
    <3> HIDE DEF Bad
    <3> QED
      BY <1>1, SmallestSet
  <2>2. PICK x \in S : x \notin P
    BY <2>1
  <2>3. SumFunctionOnSet(f, S \ {x}) = SumFunctionOnSet(f, P)
    BY <2>1, <2>2
  <2>4. /\ SumFunctionOnSet(f, S) = f[x] + SumFunctionOnSet(f, S \ {x})
        /\ f[x] = 0 /\ SumFunctionOnSet(f, P) \in Nat
    BY <2>1, <2>2, SumTakes
  <2> QED
    BY <2>1, <2>3, <2>4
<1> QED
  BY <1>1
=============================================================================
