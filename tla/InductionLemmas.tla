--------------------------- MODULE InductionLemmas ---------------------------
(***************************************************************************)
(* Induction over the natural numbers, stated of sets instead of           *)
(* predicates: the theorems of the library take an operator as a           *)
(* parameter, these can be cited by every prover.  They rest on the        *)
(* library's theorem that finite sets are well-founded under inclusion.    *)
(***************************************************************************)
EXTENDS Integers, FiniteSetTheorems, TLAPS

\* Every nonempty set of natural numbers has a least element.
LEMMA LeastElement ==
  ASSUME NEW T \in SUBSET Nat, T # {}
  PROVE  \E x \in T : \A y \in T : x <= y
<1> DEFINE R == StrictSubsetOrdering(Nat)
           U == {1..x : x \in T}
<1>1. IsWellFoundedOn(R, FiniteSubsetsOf(Nat))
  BY FS_StrictSubsetOrderingWellFounded
<1>2. U \subseteq FiniteSubsetsOf(Nat) /\ U # {}
  <2>1. ASSUME NEW x \in T PROVE 1..x \in FiniteSubsetsOf(Nat)
    <3>1. x \in Nat /\ x \in Int /\ 1 \in Int
      OBVIOUS
    <3>2. IsFiniteSet(1..x)
      BY <3>1, FS_Interval
    <3>3. 1..x \subseteq Nat
      BY <3>1
    <3> QED
      BY <3>2, <3>3 DEF FiniteSubsetsOf
  <2> QED
    BY <2>1
<1>3. \E s \in U : \A t \in U : <<t, s>> \notin R
  <2> HIDE DEF R, U
  <2> QED
    BY <1>1, <1>2, WFMin
<1>4. PICK x \in T : \A y \in T : <<1..y, 1..x>> \notin R
  BY <1>3
<1>5. ASSUME NEW y \in T, y < x PROVE <<1..y, 1..x>> \in R
  <2>1. x \in Nat /\ y \in Nat
    OBVIOUS
  <2>2. 1..y \subseteq 1..x
    BY <1>5, <2>1
  <2>3. x \in 1..x /\ x \notin 1..y
    BY <1>5, <2>1
  <2> QED
    BY <2>1, <2>2, <2>3 DEF StrictSubsetOrdering
<1>6. \A y \in T : ~(y < x)
  BY <1>4, <1>5
<1> HIDE DEF R, U
<1> QED
  BY <1>6

\* A set that holds 0, and with each number the next, holds every natural number.
LEMMA SetInduction ==
  ASSUME NEW T, 0 \in T, \A n \in Nat : n \in T => n + 1 \in T
  PROVE  Nat \subseteq T
<1> SUFFICES ASSUME Nat \ T # {} PROVE FALSE
  OBVIOUS
<1>1. PICK x \in Nat \ T : \A y \in Nat \ T : x <= y
  <2> DEFINE U == Nat \ T
  <2>1. U \in SUBSET Nat /\ U # {}
    OBVIOUS
  <2> HIDE DEF U
  <2>2. \E x \in U : \A y \in U : x <= y
    BY <2>1, LeastElement
  <2> QED
    BY <2>2 DEF U
<1>2. x # 0
  OBVIOUS
<1>3. x - 1 \in Nat /\ ~(x <= x - 1) /\ (x - 1) + 1 = x
  BY <1>2
<1>4. x - 1 \in T
  BY <1>1, <1>3
<1> QED
  BY <1>3, <1>4

\* There is a function that starts with b and goes on as F says: what defines a
\* recursive function over the first n numbers.
LEMMA RecursionSolved ==
  ASSUME NEW S, NEW b \in S, NEW n \in Nat, NEW F \in [1..n -> [S -> S]]
  PROVE  \E g \in [0..n -> S] : g[0] = b /\ \A i \in 1..n : g[i] = F[i][g[i - 1]]
<1> DEFINE solves(g, m) == /\ g \in [0..m -> S] /\ g[0] = b
                           /\ \A i \in 1..m : g[i] = F[i][g[i - 1]]
           T == {m \in Nat : m <= n => \E g : solves(g, m)}
<1>1. 0 \in T
  <2> DEFINE g == [i \in 0..0 |-> b]
  <2>1. solves(g, 0)
    OBVIOUS
  <2> HIDE DEF solves, g
  <2> QED
    BY <2>1
<1>2. ASSUME NEW m \in Nat, m \in T, m + 1 <= n PROVE \E h : solves(h, m + 1)
  <2>1. m <= n
    BY <1>2
  <2>2. PICK g : solves(g, m)
    <3> HIDE DEF solves
    <3> QED
      BY <1>2, <2>1
  <2> DEFINE h == [i \in 0..(m + 1) |-> IF i = m + 1 THEN F[m + 1][g[m]] ELSE g[i]]
  <2>3. m + 1 \in 1..n /\ g[m] \in S
    BY <1>2, <2>2
  <2>4. h \in [0..(m + 1) -> S]
    <3>1. F[m + 1][g[m]] \in S
      BY <2>3
    <3>2. \A i \in 0..(m + 1) : i # m + 1 => i \in 0..m
      OBVIOUS
    <3> QED
      BY <2>2, <3>1, <3>2
  <2>5. h[0] = b
    BY <2>2
  <2>6. ASSUME NEW i \in 1..(m + 1) PROVE h[i] = F[i][h[i - 1]]
    <3>1. i - 1 \in 0..(m + 1) /\ i - 1 # m + 1 /\ h[i - 1] = g[i - 1]
      OBVIOUS
    <3>2. CASE i = m + 1
      BY <3>1, <3>2
    <3>3. CASE i # m + 1
      <4>1. i \in 1..m /\ h[i] = g[i]
        BY <3>3
      <4> HIDE DEF h
      <4> QED
        BY <2>2, <3>1, <4>1
    <3> QED
      BY <3>2, <3>3
  <2> HIDE DEF h
  <2>7. solves(h, m + 1)
    BY <2>4, <2>5, <2>6
  <2> HIDE DEF solves
  <2> QED
    BY <2>7
<1> HIDE DEF solves
<1>3. n \in T
  <2>1. \A m \in Nat : m \in T => m + 1 \in T
    <3> SUFFICES ASSUME NEW m \in Nat, m \in T, m + 1 <= n PROVE \E h : solves(h, m + 1)
      OBVIOUS
    <3> QED
      BY <1>2
  <2> HIDE DEF T
  <2>2. Nat \subseteq T
    BY <1>1, <2>1, SetInduction
  <2> QED
    BY <2>2
<1>4. \E g : solves(g, n)
  BY <1>3
<1> QED
  BY <1>4 DEF solves
=============================================================================
