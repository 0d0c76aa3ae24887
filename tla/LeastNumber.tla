---------------------------- MODULE LeastNumber ----------------------------
(***************************************************************************)
(* Every set of natural numbers has a least one, and what follows from it: *)
(* induction over an interval, for a set instead of a formula, and that a  *)
(* function which is defined by recursion over an interval exists. The     *)
(* other modules with proofs use them where a loop of the code stops at    *)
(* the first place that meets a condition, and for their recursive         *)
(* functions.                                                              *)
(***************************************************************************)
EXTENDS Integers, WellFoundedInduction, TLAPS

Less == OpToRel(<, Nat)

LEMMA LessIsLess == \A x, y \in Nat : <<x, y>> \in Less <=> x < y
BY DEF Less, OpToRel

LEMMA LessIsWellFounded == IsWellFoundedOn(Less, Nat)
BY NatLessThanWellFounded DEF Less

\* The least-number principle, for a set instead of an operator.
THEOREM LeastOfSet ==
  ASSUME NEW T \in SUBSET Nat, T # {}
  PROVE  \E x \in T : \A y \in T : x <= y
<1>1. PICK x \in T : \A y \in T : <<y, x>> \notin Less
  BY LessIsWellFounded, WFMin
<1>2. ASSUME NEW y \in T PROVE x <= y
  <2>1. x \in Nat /\ y \in Nat
    OBVIOUS
  <2>2. ~ (y < x)
    BY <1>1, <2>1, LessIsLess
  <2> QED BY <2>1, <2>2
<1> QED BY <1>2

-----------------------------------------------------------------------------

\* A set that has each number of an interval whose predecessors it has, has
\* the interval.
THEOREM IntervalInduction ==
  ASSUME NEW a \in Nat, NEW b \in Nat, NEW T,
         \A i \in a..b : (\A j \in a..(i - 1) : j \in T) => i \in T
  PROVE  \A i \in a..b : i \in T
<1> DEFINE bad == {i \in a..b : i \notin T}
<1> SUFFICES ASSUME bad # {} PROVE FALSE
  OBVIOUS
<1>1. bad \in SUBSET Nat
  OBVIOUS
<1>2. PICK x \in bad : \A y \in bad : x <= y
  BY <1>1, LeastOfSet
<1>3. ASSUME NEW j \in a..(x - 1) PROVE j \in T
  <2>1. j \in a..b /\ ~(x <= j)
    OBVIOUS
  <2> QED BY <1>2, <2>1
<1> QED BY <1>3

\* What is wanted of a function on a..b: its value at a, and at any other i
\* the step F[i] from the value at an earlier place, p[i].
Recurs(f, a, b, start, p, F) ==
  f = [i \in a..b |-> IF i = a THEN start ELSE F[i][f[p[i]]]]

THEOREM RecursionExists ==
  ASSUME NEW a \in Nat, NEW b \in Nat, a <= b, NEW S, NEW start \in S,
         NEW p, \A i \in (a + 1)..b : p[i] \in a..(i - 1),
         NEW F, \A i \in (a + 1)..b : \A s \in S : F[i][s] \in S
  PROVE  \E f \in [a..b -> S] : Recurs(f, a, b, start, p, F)
<1> DEFINE T == {n \in a..b : \E f \in [a..n -> S] :
                                Recurs(f, a, n, start, p, F)}
<1>1. ASSUME NEW n \in a..b, \A j \in a..(n - 1) : j \in T
      PROVE  n \in T
  <2>1. CASE n = a
    <3> DEFINE f == [i \in a..n |-> start]
    <3>1. f \in [a..n -> S] /\ \A i \in a..n : i = a
      BY <2>1
    <3>2. f = [i \in a..n |-> IF i = a THEN start ELSE F[i][f[p[i]]]]
      BY <3>1
    <3> QED BY <3>1, <3>2 DEF Recurs
  <2>2. CASE n # a
    <3>1. n - 1 \in a..b /\ n - 1 \in a..(n - 1) /\ n \in (a + 1)..b
      BY <2>2
    <3>2. PICK g \in [a..(n - 1) -> S] : Recurs(g, a, n - 1, start, p, F)
      BY <1>1, <3>1
    <3>3. \A i \in a..(n - 1) :
            g[i] = IF i = a THEN start ELSE F[i][g[p[i]]]
      BY <3>2 DEF Recurs
    <3> DEFINE f == [i \in a..n |-> IF i = n THEN F[n][g[p[n]]] ELSE g[i]]
    <3>4. F[n][g[p[n]]] \in S
      BY <3>1, <3>2
    <3>5. f \in [a..n -> S]
      BY <3>4
    <3>6. ASSUME NEW i \in a..n
          PROVE  f[i] = IF i = a THEN start ELSE F[i][f[p[i]]]
      <4>1. CASE i = n
        <5>1. p[n] \in a..(n - 1)
          BY <3>1
        <5>2. f[p[n]] = g[p[n]]
          BY <5>1
        <5> QED BY <2>2, <4>1, <5>2
      <4>2. CASE i # n /\ i = a
        BY <3>3, <4>2
      <4>3. CASE i # n /\ i # a
        <5>1. i \in a..(n - 1) /\ i \in (a + 1)..b
          BY <4>3
        <5>2. p[i] \in a..(n - 1) /\ p[i] # n
          BY <5>1
        <5>3. f[p[i]] = g[p[i]] /\ f[i] = g[i]
          BY <4>3, <5>2
        <5> QED BY <3>3, <4>3, <5>1, <5>3
      <4> QED BY <4>1, <4>2, <4>3
    <3> HIDE DEF f
    <3>7. Recurs(f, a, n, start, p, F)
      <4>1. f = [i \in a..n |-> f[i]]
        BY <3>5
      <4>2. [i \in a..n |-> f[i]] =
              [i \in a..n |-> IF i = a THEN start ELSE F[i][f[p[i]]]]
        BY <3>6
      <4> QED BY <4>1, <4>2 DEF Recurs
    <3> QED BY <3>5, <3>7
  <2> QED BY <2>1, <2>2
<1>2. b \in a..b
  OBVIOUS
<1> HIDE DEF T
<1>3. \A i \in a..b : i \in T
  BY <1>1, IntervalInduction
<1> QED BY <1>2, <1>3 DEF T
=============================================================================
