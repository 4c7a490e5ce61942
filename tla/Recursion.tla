------------------------------- MODULE Recursion -------------------------------
(***************************************************************************)
(* Induction over the natural numbers and recursive functions on them, in  *)
(* a form that speaks of sets and functions and so needs no operator as a  *)
(* parameter: a property is the set of the numbers that have it, the step  *)
(* of a recursion is a function.                                           *)
(***************************************************************************)
EXTENDS Integers, WellFoundedInduction, TLAPS

\* A set of natural numbers has a least element.
LEMMA LeastNumber ==
  ASSUME NEW T \in SUBSET Nat, T # {}
  PROVE  \E n \in T : \A m \in T : n <= m
<1> DEFINE R == OpToRel(<, Nat)
<1>1. IsWellFoundedOn(R, Nat) BY NatLessThanWellFounded
<1>2. \A x, y \in Nat : x < y => <<x, y>> \in R BY DEF OpToRel
<1> HIDE DEF R
<1>3. PICK x \in T : \A y \in T : <<y, x>> \notin R BY <1>1, WFMin
<1>4. ASSUME NEW y \in T PROVE x <= y
  <2>1. x \in Nat /\ y \in Nat OBVIOUS
  <2>2. ~(y < x) BY <1>2, <1>3, <2>1
  <2> QED BY <2>1, <2>2
<1> QED BY <1>4

\* A set that holds 0, and with every number the next, holds them all.
LEMMA Induction ==
  ASSUME NEW T \in SUBSET Nat, 0 \in T, \A n \in T : n + 1 \in T
  PROVE  T = Nat
<1> SUFFICES ASSUME T # Nat PROVE FALSE OBVIOUS
<1>1. Nat \ T \in SUBSET Nat /\ Nat \ T # {} OBVIOUS
<1>2. PICK n \in Nat \ T : \A m \in Nat \ T : n <= m BY <1>1, LeastNumber
<1>3. n # 0 /\ n - 1 \in Nat OBVIOUS
<1>4. n - 1 \in T BY <1>2, <1>3
<1>5. n - 1 + 1 = n OBVIOUS
<1> QED BY <1>4, <1>5
-----------------------------------------------------------------------------
(* A first value and a step define a function on the natural numbers.      *)

\* g is what the recursion gives for the numbers up to n.
UpTo(n, g, S, first, step) ==
  /\ g \in [0 .. n -> S]
  /\ g[0] = first
  /\ \A i \in 0 .. n - 1 : g[i + 1] = step[<<i, g[i]>>]

\* Two such functions agree where both are defined.
LEMMA UpToUnique ==
  ASSUME NEW S, NEW first, NEW step,
         NEW n \in Nat, NEW m \in Nat, NEW g, NEW h,
         UpTo(n, g, S, first, step), UpTo(m, h, S, first, step)
  PROVE  \A i \in Nat : i <= n /\ i <= m => g[i] = h[i]
<1> DEFINE T == {i \in Nat : i <= n /\ i <= m => g[i] = h[i]}
<1>1. 0 \in T BY DEF UpTo
<1>2. ASSUME NEW i \in T PROVE i + 1 \in T
  <2> SUFFICES ASSUME i + 1 <= n, i + 1 <= m PROVE g[i + 1] = h[i + 1] OBVIOUS
  <2>1. i \in Nat /\ i \in 0 .. n - 1 /\ i \in 0 .. m - 1 OBVIOUS
  <2>2. g[i] = h[i] BY <2>1
  <2>3. g[i + 1] = step[<<i, g[i]>>] /\ h[i + 1] = step[<<i, h[i]>>]
    BY <2>1 DEF UpTo
  <2> QED BY <2>2, <2>3
<1>3. T \in SUBSET Nat OBVIOUS
<1> HIDE DEF T
<1>4. T = Nat BY <1>1, <1>2, <1>3, Induction
<1> QED BY <1>4 DEF T

LEMMA UpToExists ==
  ASSUME NEW S, NEW first \in S, NEW step, NEW N \in Nat,
         \A i \in Nat, v \in S : step[<<i, v>>] \in S
  PROVE  \E g : UpTo(N, g, S, first, step)
<1> DEFINE T == {n \in Nat : \E g : UpTo(n, g, S, first, step)}
<1>1. 0 \in T
  <2> DEFINE g == [i \in 0 .. 0 |-> first]
  <2>1. UpTo(0, g, S, first, step) BY DEF UpTo
  <2> QED BY <2>1
<1>2. ASSUME NEW n \in T PROVE n + 1 \in T
  <2>1. n \in Nat OBVIOUS
  <2>2. PICK g : UpTo(n, g, S, first, step) OBVIOUS
  <2> DEFINE h == [i \in 0 .. n + 1 |-> IF i = n + 1 THEN step[<<n, g[n]>>] ELSE g[i]]
  <2>3. g[n] \in S BY <2>1, <2>2 DEF UpTo
  <2>4. h \in [0 .. n + 1 -> S]
    <3>1. step[<<n, g[n]>>] \in S BY <2>1, <2>3
    <3>2. ASSUME NEW i \in 0 .. n + 1, i # n + 1 PROVE g[i] \in S
      <4>1. i \in 0 .. n BY <2>1, <3>2
      <4> QED BY <2>2, <4>1 DEF UpTo
    <3> QED BY <3>1, <3>2
  <2>5. h[0] = first BY <2>1, <2>2 DEF UpTo
  <2>6. ASSUME NEW i \in 0 .. (n + 1) - 1 PROVE h[i + 1] = step[<<i, h[i]>>]
    <3>1. i \in 0 .. n /\ i \in 0 .. n + 1 /\ i + 1 \in 0 .. n + 1 /\ i # n + 1 BY <2>1
    <3>2. h[i] = g[i] BY <3>1
    <3>3. CASE i = n BY <3>1, <3>2, <3>3
    <3>4. CASE i # n
      <4>1. i \in 0 .. n - 1 /\ i + 1 # n + 1 BY <2>1, <3>1, <3>4
      <4>2. h[i + 1] = g[i + 1] BY <3>1, <4>1
      <4> QED BY <2>2, <3>2, <4>1, <4>2 DEF UpTo
    <3> QED BY <3>3, <3>4
  <2> HIDE DEF h
  <2>7. UpTo(n + 1, h, S, first, step) BY <2>4, <2>5, <2>6 DEF UpTo
  <2> QED BY <2>1, <2>7
<1>3. T \in SUBSET Nat OBVIOUS
<1> HIDE DEF T
<1>4. T = Nat BY <1>1, <1>2, <1>3, Induction
<1> QED BY <1>4 DEF T

\* f is what the recursion gives for every number.
Follows(f, S, first, step) ==
  /\ f \in [Nat -> S]
  /\ f[0] = first
  /\ \A i \in Nat : f[i + 1] = step[<<i, f[i]>>]

\* The recursion theorem: a first value and a step that stays in S define a
\* function into S.
LEMMA RecursiveFunction ==
  ASSUME NEW S, NEW first \in S, NEW step,
         \A i \in Nat, v \in S : step[<<i, v>>] \in S
  PROVE  \E f : Follows(f, S, first, step)
<1> DEFINE Part(n) == CHOOSE g : UpTo(n, g, S, first, step)
           f == [n \in Nat |-> Part(n)[n]]
<1>1. ASSUME NEW n \in Nat PROVE UpTo(n, Part(n), S, first, step)
  <2>1. \E g : UpTo(n, g, S, first, step) BY UpToExists
  <2> QED BY <2>1
<1> HIDE DEF Part
<1>2. f \in [Nat -> S]
  <2>1. ASSUME NEW n \in Nat PROVE Part(n)[n] \in S BY <1>1 DEF UpTo
  <2> QED BY <2>1
<1>3. f[0] = first BY <1>1 DEF UpTo
<1>4. ASSUME NEW i \in Nat PROVE f[i + 1] = step[<<i, f[i]>>]
  <2>1. i + 1 \in Nat /\ i \in 0 .. (i + 1) - 1 OBVIOUS
  <2>2. UpTo(i, Part(i), S, first, step) /\ UpTo(i + 1, Part(i + 1), S, first, step)
    BY <1>1, <2>1
  <2>3. Part(i)[i] = Part(i + 1)[i] BY <2>1, <2>2, UpToUnique
  <2>4. Part(i + 1)[i + 1] = step[<<i, Part(i + 1)[i]>>] BY <2>1, <2>2 DEF UpTo
  <2> QED BY <2>1, <2>3, <2>4
<1> HIDE DEF f
<1> QED BY <1>2, <1>3, <1>4 DEF Follows
=============================================================================
