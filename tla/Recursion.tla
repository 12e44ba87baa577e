----------------------------- MODULE Recursion -----------------------------
(***************************************************************************)
(* Induction on the natural numbers, and functions defined by recursion,   *)
(* in a form that speaks of sets and functions only.                       *)
(***************************************************************************)
EXTENDS Naturals, WellFoundedInduction, TLAPS

\* Every non-empty set of natural numbers has a least element.
LEMMA LeastNumber ==
    ASSUME NEW T, T \subseteq Nat, T # {}
    PROVE  \E n \in T : \A m \in T : n =< m
<1> DEFINE R == OpToRel(<, Nat)
<1>1. IsWellFoundedOn(R, Nat)
  BY NatLessThanWellFounded
<1>2. \A x, y \in Nat : x < y => <<x, y>> \in R
  BY DEF OpToRel
<1> HIDE DEF R
<1>3. PICK x \in T : \A y \in T : ~(<<y, x>> \in R)
  BY <1>1, WFMin
<1>4. \A y \in T : x =< y
  <2>1. \A y \in T : ~(y < x)
    BY <1>2, <1>3
  <2> QED  BY <2>1
<1> QED  BY <1>4

\* A set that has 0, and n + 1 with every n, has all natural numbers.
LEMMA Induction ==
    ASSUME NEW T, 0 \in T, \A n \in Nat : n \in T => n + 1 \in T
    PROVE  \A n \in Nat : n \in T
<1> SUFFICES ASSUME NEW k \in Nat, k \notin T
             PROVE  FALSE
  OBVIOUS
<1> DEFINE U == {n \in Nat : n \notin T}
<1>1. U \subseteq Nat /\ U # {}
  OBVIOUS
<1> HIDE DEF U
<1>2. PICK n \in U : \A m \in U : n =< m
  BY <1>1, LeastNumber
<1>3. n # 0 /\ n \in Nat /\ n \notin T
  BY DEF U
<1>4. n - 1 \in Nat /\ n - 1 \notin U
  BY <1>2, <1>3
<1> QED  BY <1>3, <1>4 DEF U

\* On 0 .. n, f is what recursion with the values V, the start a and the step
\* F defines.
Recursive(f, n, V, a, F) ==
    /\ f \in [0 .. n -> V]
    /\ f[0] = a
    /\ \A i \in 1 .. n : f[i] = F[i][f[i - 1]]

\* There is such a function.
LEMMA RecursionExists ==
    ASSUME NEW V, NEW a \in V, NEW F \in [Nat -> [V -> V]]
    PROVE  \A n \in Nat : \E f : Recursive(f, n, V, a, F)
<1> DEFINE Defines(f, n) == Recursive(f, n, V, a, F)
           T == {n \in Nat : \E f : Defines(f, n)}
<1> USE DEF Recursive
<1>1. 0 \in T
  <2>1. Defines([i \in 0 .. 0 |-> a], 0)
    OBVIOUS
  <2> QED  BY <2>1
<1>2. ASSUME NEW n \in Nat, n \in T
      PROVE  n + 1 \in T
  <2>1. PICK f : Defines(f, n)
    BY <1>2
  <2> DEFINE g == [i \in 0 .. n + 1 |-> IF i =< n THEN f[i] ELSE F[n + 1][f[n]]]
  <2>2. F[n + 1][f[n]] \in V
    <3>1. f[n] \in V /\ F[n + 1] \in [V -> V]
      BY <2>1
    <3> QED  BY <3>1
  <2>3. g \in [0 .. n + 1 -> V] /\ g[0] = a
    BY <2>1, <2>2
  <2>4. ASSUME NEW i \in 1 .. n + 1
        PROVE  g[i] = F[i][g[i - 1]]
    <3>1. i - 1 \in 0 .. n /\ g[i - 1] = f[i - 1]
      OBVIOUS
    <3>2. CASE i =< n
      BY <3>1, <3>2, <2>1
    <3>3. CASE i = n + 1
      BY <3>1, <3>3
    <3> QED  BY <3>2, <3>3
  <2>5. Defines(g, n + 1)
    BY <2>3, <2>4
  <2> HIDE DEF g, Recursive
  <2> QED  BY <2>5
<1> HIDE DEF T, Recursive
<1>3. \A n \in Nat : n \in T
  BY <1>1, <1>2, Induction
<1> QED  BY <1>3 DEF T

\* As long as its values are of V, f obeys the recursion.
Obeys(f, n, V, a, F) ==
    /\ f[0] = a
    /\ \A i \in 1 .. n : f[i - 1] \in V => f[i] = F[i][f[i - 1]]

\* Then they always are.
LEMMA RecursionType ==
    ASSUME NEW V, NEW a \in V, NEW F \in [Nat -> [V -> V]], NEW n \in Nat,
           NEW f, Obeys(f, n, V, a, F)
    PROVE  \A i \in 0 .. n : f[i] \in V
<1> DEFINE T == {i \in Nat : i =< n => f[i] \in V}
<1> USE DEF Obeys
<1>1. 0 \in T
  OBVIOUS
<1>2. ASSUME NEW i \in Nat, i \in T
      PROVE  i + 1 \in T
  <2> SUFFICES ASSUME i + 1 =< n
               PROVE  f[i + 1] \in V
    OBVIOUS
  <2>1. f[i] \in V /\ i + 1 \in 1 .. n /\ (i + 1) - 1 = i
    BY <1>2
  <2>2. f[i + 1] = F[i + 1][f[i]] /\ F[i + 1] \in [V -> V]
    BY <2>1
  <2> QED  BY <2>1, <2>2
<1> HIDE DEF T
<1>3. \A i \in Nat : i \in T
  BY <1>1, <1>2, Induction
<1> QED  BY <1>3 DEF T
=============================================================================
