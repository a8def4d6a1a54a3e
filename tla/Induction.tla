------------------------------ MODULE Induction ------------------------------
(***************************************************************************)
(* Induction over the natural numbers and what a loop computes, with sets    *)
(* and functions where the library has operators as parameters: a predicate  *)
(* is the set of the numbers it holds of, the body of a loop a function on   *)
(* the set of its states.                                                     *)
(***************************************************************************)
EXTENDS Integers, FiniteSetsExt, FiniteSetTheorems, WellFoundedInduction, TLAPS

\* A set of naturals with an element has a least one: the interval up to it is the least.
LEMMA LeastNatural ==
    ASSUME NEW T, T \subseteq Nat, T # {}
    PROVE  \E x \in T : \A y \in T : x <= y
<1> DEFINE U == {0 .. n : n \in T}
<1>1. U \subseteq FiniteSubsetsOf(Nat) /\ U # {}
  <2>1. ASSUME NEW n \in T PROVE 0 .. n \in FiniteSubsetsOf(Nat)
    <3>1. IsFiniteSet(0 .. n)
      BY FS_Interval
    <3>. QED  BY <3>1 DEF FiniteSubsetsOf
  <2>. QED  BY <2>1
<1> HIDE DEF U
<1>2. PICK u \in U : \A v \in U : <<v, u>> \notin StrictSubsetOrdering(Nat)
  <2>1. IsWellFoundedOn(StrictSubsetOrdering(Nat), FiniteSubsetsOf(Nat))
    BY FS_StrictSubsetOrderingWellFounded
  <2>. QED  BY <1>1, <2>1, WFMin
<1> USE DEF U
<1>3. PICK x \in T : u = 0 .. x
  OBVIOUS
<1>4. ASSUME NEW y \in T, y < x PROVE FALSE
  <2>1. x \in 0 .. x /\ x \notin 0 .. y /\ 0 .. y \subseteq 0 .. x
    BY <1>4
  <2>2. 0 .. x \in SUBSET Nat /\ 0 .. y \in SUBSET Nat
    BY <1>1 DEF FiniteSubsetsOf
  <2>3. <<0 .. y, 0 .. x>> \in StrictSubsetOrdering(Nat)
    BY <2>1, <2>2 DEF StrictSubsetOrdering
  <2>. QED  BY <1>2, <1>3, <2>3
<1>. QED  BY <1>4

LEMMA MinOfNaturals ==
    ASSUME NEW S, S \subseteq Nat, S # {}
    PROVE  Min(S) \in S
<1>1. \E x \in S : \A y \in S : x <= y
  BY LeastNatural
<1>. QED  BY <1>1 DEF Min

LEMMA MinOfTwo ==
    ASSUME NEW a \in Nat, NEW b \in Nat
    PROVE  Min({a, b}) = IF a <= b THEN a ELSE b
BY DEF Min

LEMMA MaxOfNaturals ==
    ASSUME NEW k \in Nat, NEW S, S \subseteq 0 .. k, S # {}
    PROVE  Max(S) \in S
<1> DEFINE T == {k - x : x \in S}
<1>1. PICK m \in T : \A y \in T : m <= y
  <2>1. \A x \in S : k - x \in Nat
    OBVIOUS
  <2>2. T \subseteq Nat /\ T # {}
    BY <2>1
  <2> HIDE DEF T
  <2>. QED  BY <2>2, LeastNatural
<1>2. PICK x \in S : m = k - x
  OBVIOUS
<1>3. \A y \in S : k - x <= k - y
  BY <1>1, <1>2
<1>4. \A y \in S : x >= y
  BY <1>3
<1>. QED  BY <1>4 DEF Max

\* Induction up to n.
LEMMA UpTo ==
    ASSUME NEW n \in Nat, NEW T, 0 \in T, \A i \in 1 .. n : i - 1 \in T => i \in T
    PROVE  0 .. n \subseteq T
<1> DEFINE Missing == {i \in 0 .. n : i \notin T}
<1> SUFFICES ASSUME Missing # {} PROVE FALSE
  OBVIOUS
<1>1. PICK i \in Missing : \A j \in Missing : i <= j
  <2>1. Missing \subseteq Nat
    OBVIOUS
  <2> HIDE DEF Missing
  <2>. QED  BY <2>1, LeastNatural
<1>2. i \in 1 .. n /\ i - 1 \in 0 .. n /\ i - 1 \notin Missing
  BY <1>1
<1>. QED  BY <1>2

\* What a loop of n turns may go through: the i-th turn is F[i], a function on the states S.
Runs(S, a, n, F) == {g \in [0 .. n -> S] : g[0] = a /\ \A i \in 1 .. n : g[i] = F[i][g[i - 1]]}

LEMMA LoopRuns ==
    ASSUME NEW S, NEW a \in S, NEW n \in Nat, NEW F \in [1 .. n -> [S -> S]]
    PROVE  Runs(S, a, n, F) # {}
<1> DEFINE Reaches(k) == \E g \in [0 .. k -> S] : g[0] = a /\ \A i \in 1 .. k : g[i] = F[i][g[i - 1]]
           T == {k \in 0 .. n : Reaches(k)}
<1>1. 0 \in T
  <2> DEFINE g == [i \in 0 .. 0 |-> a]
  <2>1. g \in [0 .. 0 -> S] /\ g[0] = a /\ \A i \in 1 .. 0 : g[i] = F[i][g[i - 1]]
    OBVIOUS
  <2>2. Reaches(0)
    BY <2>1
  <2> HIDE DEF Reaches
  <2>. QED  BY <2>2
<1>2. ASSUME NEW k \in 1 .. n, k - 1 \in T PROVE k \in T
  <2>1. PICK g \in [0 .. k - 1 -> S] : g[0] = a /\ \A i \in 1 .. k - 1 : g[i] = F[i][g[i - 1]]
    BY <1>2
  <2> DEFINE h == [i \in 0 .. k |-> IF i = k THEN F[k][g[k - 1]] ELSE g[i]]
  <2>2. F[k] \in [S -> S] /\ g[k - 1] \in S
    OBVIOUS
  <2>3. h \in [0 .. k -> S] /\ h[0] = a
    BY <2>1, <2>2
  <2>4. ASSUME NEW i \in 1 .. k PROVE h[i] = F[i][h[i - 1]]
    BY <2>1
  <2>5. Reaches(k)
    BY <2>3, <2>4
  <2> HIDE DEF Reaches
  <2>. QED  BY <2>5
<1>3. n \in T
  <2> HIDE DEF T
  <2>1. 0 .. n \subseteq T
    BY <1>1, <1>2, UpTo
  <2>. QED  BY <2>1
<1>. QED  BY <1>3 DEF Runs

=============================================================================
