--------------------------- MODULE InductionLemmas ---------------------------
(***************************************************************************)
(* Induction in the form the proofs use it: a set of naturals has a least  *)
(* member, and a function that does not decrease from one number to the    *)
(* next does not decrease at all.  The library's induction theorems take   *)
(* an operator as a parameter; these take sets and functions, so that they *)
(* can be cited.                                                           *)
(***************************************************************************)
EXTENDS Integers, FiniteSetTheorems, TLAPS

\* Every set of naturals that has a member has a least one: the intervals from 0
\* to its members are finite sets, which strict inclusion orders well.
LEMMA LeastNat ==
  ASSUME NEW T, T \subseteq Nat, T # {}
  PROVE  \E x \in T : \A y \in T : x <= y
<1> DEFINE R == StrictSubsetOrdering(Nat)
           F == FiniteSubsetsOf(Nat)
           I == {0 .. n : n \in T}
<1>1. IsWellFoundedOn(R, F)
  BY FS_StrictSubsetOrderingWellFounded
<1>2. I \subseteq F
  <2>1. \A n \in Nat : IsFiniteSet(0 .. n)
    BY FS_Interval
  <2>2. \A n \in Nat : 0 .. n \in F
    BY <2>1 DEF FiniteSubsetsOf
  <2> QED BY <2>2
<1>3. I # {}
  OBVIOUS
<1>4. \A a, b \in T : a < b => <<0 .. a, 0 .. b>> \in R
  <2> SUFFICES ASSUME NEW a \in T, NEW b \in T, a < b
               PROVE  <<0 .. a, 0 .. b>> \in R
    OBVIOUS
  <2>1. 0 .. a \subseteq 0 .. b /\ b \in 0 .. b /\ b \notin 0 .. a
    OBVIOUS
  <2>2. 0 .. a \subseteq Nat /\ 0 .. b \subseteq Nat
    OBVIOUS
  <2> QED BY <2>1, <2>2 DEF StrictSubsetOrdering
<1> HIDE DEF R, F, I
<1>5. PICK i \in I : \A j \in I : ~ (<<j, i>> \in R)
  BY <1>1, <1>2, <1>3, WFMin
<1>6. PICK x \in T : i = 0 .. x
  BY <1>5 DEF I
<1>7. \A y \in T : 0 .. y \in I
  BY DEF I
<1>8. \A y \in T : ~ (y < x)
  BY <1>4, <1>5, <1>6, <1>7, Zenon
<1>9. \A y \in T : x <= y
  BY <1>8
<1> QED BY <1>9

\* A set of naturals that has a member and a bound has a greatest member.
LEMMA GreatestNat ==
  ASSUME NEW T, T \subseteq Nat, T # {}, NEW n \in Nat, \A x \in T : x <= n
  PROVE  \E x \in T : \A y \in T : y <= x
<1> DEFINE B == {m \in Nat : \A x \in T : x <= m}
<1>1. PICK m \in B : \A b \in B : m <= b
  <2>1. n \in B
    OBVIOUS
  <2> HIDE DEF B
  <2>2. B \subseteq Nat
    BY DEF B
  <2> QED BY <2>1, <2>2, LeastNat
<1>2. m \in T
  <2>1. SUFFICES ASSUME m \notin T PROVE FALSE
    OBVIOUS
  <2>2. \A x \in T : x <= m - 1
    BY <2>1
  <2>3. m - 1 \in Nat
    <3>1. PICK x \in T : TRUE
      OBVIOUS
    <3>2. x \in Nat /\ m \in Nat /\ x <= m - 1
      BY <2>2
    <3> QED BY <3>2
  <2> QED BY <1>1, <2>2, <2>3
<1> QED BY <1>2

\* A finite set of naturals has a bound.
LEMMA FiniteNatBounded ==
  ASSUME NEW T, T \subseteq Nat, IsFiniteSet(T)
  PROVE  \E n \in Nat : \A x \in T : x <= n
<1> DEFINE Bounded == {U \in SUBSET T : \E n \in Nat : \A x \in U : x <= n}
           M == (SUBSET T) \ Bounded
           R == StrictSubsetOrdering(T)
<1>1. IsWellFoundedOn(R, SUBSET T)
  BY FS_StrictSubsetOrderingWellFounded, FS_FiniteSubsetsOfFinite
<1>2. SUFFICES ASSUME M # {} PROVE FALSE
  <2>1. T \in SUBSET T
    OBVIOUS
  <2>2. CASE T \in Bounded
    BY <2>2
  <2>3. CASE T \notin Bounded
    <3>1. T \in M
      BY <2>1, <2>3
    <3> QED BY <1>2, <3>1
  <2> QED BY <2>2, <2>3
<1>3. PICK U \in M : \A V \in M : ~ (<<V, U>> \in R)
  <2>1. M \subseteq SUBSET T
    OBVIOUS
  <2> HIDE DEF M, R
  <2> QED BY <1>1, <1>2, <2>1, WFMin
<1>4. U \subseteq T /\ U \notin Bounded
  OBVIOUS
<1>5. PICK a \in U : TRUE
  <2>1. CASE U = {}
    <3>1. U \in Bounded
      BY <1>4, <2>1
    <3> QED BY <1>4, <3>1
  <2> QED BY <2>1
<1>6. <<U \ {a}, U>> \in R
  <2>1. U \ {a} \in SUBSET T /\ U \in SUBSET T /\ U \ {a} # U /\ U \ {a} \subseteq U
    BY <1>4, <1>5
  <2> QED BY <2>1 DEF StrictSubsetOrdering
<1>7. U \ {a} \in Bounded
  BY <1>3, <1>4, <1>6
<1>8. PICK n \in Nat : \A x \in U \ {a} : x <= n
  BY <1>7
<1>9. a \in Nat
  BY <1>4, <1>5
<1>10. \A x \in U : x <= n + a
  BY <1>4, <1>8, <1>9
<1>11. n + a \in Nat
  BY <1>9
<1> QED BY <1>4, <1>10, <1>11

\* A set that has 0 and with every number below n the next one has all of 0 .. n.
LEMMA UpTo ==
  ASSUME NEW n \in Nat, NEW T, 0 \in T, \A i \in 1 .. n : i - 1 \in T => i \in T
  PROVE  \A i \in 0 .. n : i \in T
<1> SUFFICES ASSUME NEW k \in 0 .. n, k \notin T PROVE FALSE
  OBVIOUS
<1> DEFINE M == {i \in 0 .. n : i \notin T}
<1>1. M \subseteq Nat /\ k \in M
  OBVIOUS
<1> HIDE DEF M
<1>2. PICK x \in M : \A y \in M : x <= y
  BY <1>1, LeastNat
<1>3. x \in 0 .. n /\ x \notin T /\ x # 0
  BY <1>2 DEF M
<1>4. x - 1 \notin M
  BY <1>2, <1>3
<1>5. x - 1 \in T
  BY <1>3, <1>4 DEF M
<1> QED BY <1>3, <1>5

\* A function on 0 .. n that does not decrease from a number to the next one is
\* at n at least what it is at 0, and nowhere less.
LEMMA Monotone ==
  ASSUME NEW n \in Nat, NEW d \in [0 .. n -> Int], \A i \in 1 .. n : d[i - 1] <= d[i]
  PROVE  \A i \in 0 .. n : d[0] <= d[i]
<1> DEFINE T == {i \in 0 .. n : d[0] <= d[i]}
<1>1. 0 \in T
  OBVIOUS
<1>2. \A i \in 1 .. n : i - 1 \in T => i \in T
  <2> SUFFICES ASSUME NEW i \in 1 .. n, d[0] <= d[i - 1] PROVE d[0] <= d[i]
    OBVIOUS
  <2>1. d[0] \in Int /\ d[i - 1] \in Int /\ d[i] \in Int
    OBVIOUS
  <2> QED BY <2>1
<1> HIDE DEF T
<1>3. \A i \in 0 .. n : i \in T
  BY <1>1, <1>2, UpTo
<1> QED BY <1>3 DEF T

\* A function on 0 .. n that does not change from a number to the next one is
\* constant.
LEMMA Constant ==
  ASSUME NEW n \in Nat, NEW d \in [0 .. n -> Int], \A i \in 1 .. n : d[i - 1] = d[i]
  PROVE  \A i \in 0 .. n : d[i] = d[0]
<1> DEFINE T == {i \in 0 .. n : d[i] = d[0]}
<1>1. 0 \in T
  OBVIOUS
<1>2. \A i \in 1 .. n : i - 1 \in T => i \in T
  OBVIOUS
<1> HIDE DEF T
<1>3. \A i \in 0 .. n : i \in T
  BY <1>1, <1>2, UpTo
<1> QED BY <1>3 DEF T
=============================================================================
