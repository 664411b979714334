------------------------------- MODULE Induction -------------------------------
(***************************************************************************)
(* Induction over the natural numbers, stated with sets instead of         *)
(* predicates: what is shown for a number and passes on to the next is a   *)
(* set of numbers (Climb), and it all rests on least elements.  Recursion  *)
(* gives the functions that are defined by recursion over an interval.     *)
(***************************************************************************)
EXTENDS Integers, WellFoundedInduction, TLAPS

\* A set of natural numbers has a least element.
LEMMA LeastElement ==
  ASSUME NEW T \in SUBSET Nat, T # {}
  PROVE  \E x \in T : \A y \in T : x <= y
<1>1. PICK R : R = OpToRel(<, Nat)
  OBVIOUS
<1>2. IsWellFoundedOn(R, Nat)
  BY <1>1, NatLessThanWellFounded, Zenon
<1>3. \A x, y \in Nat : x < y => <<x, y>> \in R
  <2> SUFFICES ASSUME NEW x \in Nat, NEW y \in Nat, x < y PROVE <<x, y>> \in R
    OBVIOUS
  <2>1. <<x, y>> \in {ss \in Nat \X Nat : ss[1] < ss[2]}
    OBVIOUS
  <2>2. QED
    BY <1>1, <2>1, Zenon DEF OpToRel
<1>4. PICK x \in T : \A y \in T : ~ (<<y, x>> \in R)
  BY <1>2, WFMin, Zenon
<1>5. \A y \in T : ~(y < x)
  BY <1>3, <1>4
<1>6. QED
  BY <1>4, <1>5

\* What holds at a, and passes on from each number to the next, holds up to b.
LEMMA Climb ==
  ASSUME NEW a \in Nat, NEW b \in Nat, NEW S, a \in S,
         \A i \in a + 1..b : i - 1 \in S => i \in S
  PROVE  \A i \in a..b : i \in S
<1> SUFFICES ASSUME NEW i \in a..b, i \notin S PROVE FALSE
  OBVIOUS
<1>1. PICK T : T = {k \in a..b : k \notin S}
  OBVIOUS
<1>2. T \in SUBSET Nat /\ T # {}
  BY <1>1
<1>3. PICK x \in T : \A y \in T : x <= y
  BY <1>2, LeastElement
<1>4. x \in a + 1..b /\ x - 1 \in a..b
  BY <1>1, <1>3
<1>5. x - 1 \in S
  BY <1>1, <1>3, <1>4
<1>6. QED
  BY <1>1, <1>3, <1>4, <1>5

\* A set of numbers with a bound has a greatest element.
LEMMA GreatestElement ==
  ASSUME NEW b \in Nat, NEW T \in SUBSET (0..b), T # {}
  PROVE  \E x \in T : \A y \in T : y <= x
<1>1. PICK D : D = {b - x : x \in T}
  OBVIOUS
<1>2. D \in SUBSET Nat /\ D # {}
  <2>1. \A x \in T : x \in Nat /\ x <= b /\ b - x \in Nat
    OBVIOUS
  <2>2. QED
    BY <1>1, <2>1
<1>3. PICK d \in D : \A e \in D : d <= e
  BY <1>2, LeastElement
<1>4. PICK x \in T : d = b - x
  BY <1>1, <1>3
<1>5. \A y \in T : b - x <= b - y
  BY <1>1, <1>3, <1>4
<1>6. QED
  BY <1>4, <1>5

\* From a to b, h begins with first, and goes on with what F makes of it.
Computes(h, first, F, a, b) == h[a] = first /\ \A i \in a + 1..b : h[i] = F[i][h[i - 1]]

\* There is such a function.
LEMMA Recursion ==
  ASSUME NEW V, NEW first \in V, NEW F \in [Nat -> [V -> V]], NEW a \in Nat, NEW b \in Nat, a <= b
  PROVE  \E h \in [a..b -> V] : Computes(h, first, F, a, b)
<1>1. PICK S : S = {n \in a..b : \E h \in [a..n -> V] :
                      h[a] = first /\ \A i \in a + 1..n : h[i] = F[i][h[i - 1]]}
  OBVIOUS
<1>2. a \in S
  <2>1. PICK h : h = [i \in a..a |-> first]
    OBVIOUS
  <2>2. h \in [a..a -> V] /\ h[a] = first /\ a + 1..a = {}
    BY <2>1
  <2>3. QED
    BY <1>1, <2>2
<1>3. ASSUME NEW n \in a + 1..b, n - 1 \in S PROVE n \in S
  <2>1. PICK h \in [a..n - 1 -> V] :
          h[a] = first /\ \A i \in a + 1..n - 1 : h[i] = F[i][h[i - 1]]
    BY <1>1, <1>3
  <2>2. PICK g : g = [i \in a..n |-> IF i = n THEN F[n][h[n - 1]] ELSE h[i]]
    OBVIOUS
  <2>3. h[n - 1] \in V /\ n \in Nat
    BY <2>1
  <2>4. F[n][h[n - 1]] \in V
    BY <2>3
  <2>5. g \in [a..n -> V]
    BY <2>1, <2>2, <2>4
  <2>6. g[a] = first
    BY <2>1, <2>2
  <2>7. ASSUME NEW i \in a + 1..n PROVE g[i] = F[i][g[i - 1]]
    <3>1. g[i - 1] = h[i - 1]
      BY <2>2
    <3>2. CASE i = n
      <4>1. g[i] = F[n][h[n - 1]]
        BY <2>2, <3>2
      <4>2. QED
        BY <3>1, <3>2, <4>1
    <3>3. CASE i # n
      <4>1. i \in a + 1..n - 1 /\ g[i] = h[i]
        BY <2>2, <3>3
      <4>2. h[i] = F[i][h[i - 1]]
        BY <2>1, <4>1
      <4>3. QED
        BY <3>1, <4>1, <4>2
    <3>4. QED
      BY <3>2, <3>3
  <2>8. \E f \in [a..n -> V] : f[a] = first /\ \A i \in a + 1..n : f[i] = F[i][f[i - 1]]
    BY <2>5, <2>6, <2>7, Zenon
  <2>9. n \in a..b
    OBVIOUS
  <2>10. QED
    BY <1>1, <2>8, <2>9, Zenon
<1>4. b \in S
  <2>1. \A i \in a..b : i \in S
    BY <1>2, <1>3, Climb
  <2>2. b \in a..b
    OBVIOUS
  <2>3. QED
    BY <2>1, <2>2
<1>5. QED
  BY <1>1, <1>4, Zenon DEF Computes
================================================================================
