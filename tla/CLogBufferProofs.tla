-------------------------- MODULE CLogBufferProofs --------------------------
(***************************************************************************)
(* Proofs about CLogBuffer: the order of the log, the bounds of the size   *)
(* count, and that a commit that returned without a sync has left its      *)
(* record to a thread that still flushes, for any number of threads and    *)
(* records.                                                                *)
(***************************************************************************)
EXTENDS CLogBuffer, InductionLemmas, SequenceTheorems

----------------------------------------------------------------------------
(* Sums.                                                                   *)

\* f lists the sums of the beginnings of the sequence s.
PartialSums(f, s) == /\ f \in [0 .. Len(s) -> Nat] /\ f[0] = 0
                     /\ \A i \in 1 .. Len(s) : f[i] = f[i - 1] + s[i]

\* Every sequence of naturals has partial sums.
LEMMA PartialSumsExist ==
  ASSUME NEW s \in Seq(Nat)
  PROVE  \E f : PartialSums(f, s)
<1> DEFINE Upto(n) == {g \in [0 .. n -> Nat] :
                         g[0] = 0 /\ \A i \in 1 .. n : g[i] = g[i - 1] + s[i]}
           T == {n \in 0 .. Len(s) : Upto(n) # {}}
<1>0. Len(s) \in Nat /\ \A i \in 1 .. Len(s) : s[i] \in Nat
  BY LenProperties
<1>1. 0 \in T
  <2>1. [i \in 0 .. 0 |-> 0] \in Upto(0)
    OBVIOUS
  <2> QED BY <1>0, <2>1
<1>2. \A n \in 1 .. Len(s) : n - 1 \in T => n \in T
  <2>0. SUFFICES ASSUME NEW n \in 1 .. Len(s), n - 1 \in T PROVE Upto(n) # {}
    <3> HIDE DEF Upto
    <3> QED BY <1>0
  <2> PICK g : g \in Upto(n - 1)
    <3> HIDE DEF Upto
    <3> QED BY <2>0
  <2> DEFINE h == [i \in 0 .. n |-> IF i = n THEN g[n - 1] + s[n] ELSE g[i]]
  <2>1. g \in [0 .. n - 1 -> Nat] /\ n \in Nat /\ n - 1 \in 0 .. n - 1 /\ s[n] \in Nat
    BY <1>0
  <2>2. h \in [0 .. n -> Nat]
    BY <2>1
  <2>3. h[0] = 0
    BY <2>1
  <2>4. ASSUME NEW i \in 1 .. n PROVE h[i] = h[i - 1] + s[i]
    <3>1. CASE i = n
      BY <2>1, <3>1
    <3>2. CASE i # n
      <4>1. i \in 1 .. n - 1 /\ i - 1 \in 0 .. n - 1 /\ i \in 0 .. n /\ i - 1 # n
        BY <2>1, <3>2
      <4>2. h[i] = g[i] /\ h[i - 1] = g[i - 1]
        BY <4>1, <3>2
      <4> QED BY <4>1, <4>2
    <3> QED BY <3>1, <3>2
  <2> HIDE DEF h
  <2>5. h \in Upto(n)
    BY <2>2, <2>3, <2>4
  <2> QED BY <2>5
<1> HIDE DEF T
<1>3. \A n \in 0 .. Len(s) : n \in T
  BY <1>0, <1>1, <1>2, UpTo
<1>4. PICK f : f \in Upto(Len(s))
  <2> HIDE DEF Upto
  <2> QED BY <1>0, <1>3 DEF T
<1> QED BY <1>4 DEF PartialSums

\* The sum of a sequence of naturals is the last of its partial sums.
LEMMA SumOfPartial ==
  ASSUME NEW s \in Seq(Nat)
  PROVE  \E f : PartialSums(f, s) /\ SumOf(s) = f[Len(s)]
<1> DEFINE Is(f) == f = [i \in 0 .. Len(s) |-> IF i = 0 THEN 0 ELSE f[i - 1] + s[i]]
           c == CHOOSE f : Is(f)
<1>0. Len(s) \in Nat /\ \A i \in 1 .. Len(s) : s[i] \in Nat
  BY LenProperties
<1>1. PICK g : PartialSums(g, s)
  BY PartialSumsExist
<1>2. Is(g)
  <2> DEFINE h == [i \in 0 .. Len(s) |-> IF i = 0 THEN 0 ELSE g[i - 1] + s[i]]
  <2>1. \A i \in 0 .. Len(s) : g[i] = h[i]
    BY <1>0, <1>1 DEF PartialSums
  <2>2. g \in [0 .. Len(s) -> Nat]
    BY <1>1 DEF PartialSums
  <2> QED BY <2>1, <2>2
<1>3. Is(c)
  <2> HIDE DEF Is
  <2> QED BY <1>2
<1>4. SumOf(s) = c[Len(s)]
  BY DEF SumOf
<1> HIDE DEF c
<1>5. c[0] = 0 /\ \A i \in 1 .. Len(s) : c[i] = c[i - 1] + s[i]
  BY <1>0, <1>3, SMTT(30)
<1>6. DOMAIN c = 0 .. Len(s)
  BY <1>3
<1>7. \A i \in 0 .. Len(s) : c[i] \in Nat
  <2> DEFINE T == {i \in 0 .. Len(s) : c[i] \in Nat}
  <2>1. 0 \in T /\ \A i \in 1 .. Len(s) : i - 1 \in T => i \in T
    BY <1>0, <1>5, SMTT(30)
  <2> HIDE DEF T
  <2>2. \A i \in 0 .. Len(s) : i \in T
    BY <1>0, <2>1, UpTo
  <2> QED BY <2>2 DEF T
<1>8. c \in [0 .. Len(s) -> Nat]
  <2>1. c = [i \in 0 .. Len(s) |-> c[i]]
    BY <1>3, <1>6
  <2> QED BY <1>7, <2>1
<1> QED BY <1>4, <1>5, <1>8 DEF PartialSums

\* A sum is a natural number; the sum of no numbers is 0.
LEMMA SumNat ==
  /\ \A s \in Seq(Nat) : SumOf(s) \in Nat
  /\ SumOf(<<>>) = 0
<1>1. ASSUME NEW s \in Seq(Nat) PROVE SumOf(s) \in Nat
  <2>1. PICK f : PartialSums(f, s) /\ SumOf(s) = f[Len(s)]
    BY SumOfPartial
  <2>2. Len(s) \in 0 .. Len(s)
    BY LenProperties
  <2> QED BY <2>1, <2>2 DEF PartialSums
<1>2. SumOf(<<>>) = 0
  <2>1. PICK f : PartialSums(f, <<>>) /\ SumOf(<<>>) = f[Len(<<>>)]
    <3>1. <<>> \in Seq(Nat)
      OBVIOUS
    <3> QED BY <3>1, SumOfPartial
  <2> QED BY <2>1 DEF PartialSums
<1> QED BY <1>1, <1>2

\* A number put at the end is added to the sum.
LEMMA SumAppend ==
  ASSUME NEW s \in Seq(Nat), NEW x \in Nat
  PROVE  SumOf(Append(s, x)) = SumOf(s) + x
<1> DEFINE t == Append(s, x)
           n == Len(s)
<1>1. t \in Seq(Nat) /\ Len(t) = n + 1 /\ n \in Nat /\ t[n + 1] = x
      /\ \A i \in 1 .. n : t[i] = s[i]
  BY AppendProperties, LenProperties
<1>2. PICK f : PartialSums(f, s) /\ SumOf(s) = f[n]
  BY SumOfPartial
<1>3. PICK g : PartialSums(g, t) /\ SumOf(t) = g[n + 1]
  BY <1>1, SumOfPartial
<1> HIDE DEF t, n
<1>4. f \in [0 .. n -> Nat] /\ g \in [0 .. n + 1 -> Nat] /\ f[0] = 0 /\ g[0] = 0
  BY <1>1, <1>2, <1>3 DEF PartialSums, n
<1>5. \A i \in 1 .. n : f[i] = f[i - 1] + s[i] /\ g[i] = g[i - 1] + s[i]
  <2>1. \A i \in 1 .. n : i \in 1 .. Len(t)
    BY <1>1
  <2> QED BY <1>1, <1>2, <1>3, <2>1 DEF PartialSums, n
<1> DEFINE d == [i \in 0 .. n |-> g[i] - f[i]]
<1>d. d = [i \in 0 .. n |-> d[i]] /\ \A i \in 0 .. n : d[i] = g[i] - f[i]
  OBVIOUS
<1> HIDE DEF d
<1>6. d \in [0 .. n -> Int] /\ \A i \in 1 .. n : d[i - 1] = d[i]
  <2>1. \A i \in 0 .. n : g[i] \in Int /\ f[i] \in Int
    BY <1>1, <1>4
  <2>2. ASSUME NEW i \in 1 .. n PROVE d[i - 1] = d[i]
    <3>1. i - 1 \in 0 .. n /\ i \in 0 .. n
      BY <1>1
    <3>2. s[i] \in Int
      BY LenProperties, <1>1 DEF n
    <3>3. d[i] = g[i] - f[i] /\ d[i - 1] = g[i - 1] - f[i - 1]
      BY <1>d, <3>1
    <3> QED BY <1>5, <2>1, <3>1, <3>2, <3>3
  <2>3. \A i \in 0 .. n : d[i] \in Int
    BY <1>d, <2>1
  <2> QED BY <1>d, <2>2, <2>3
<1>7. d[n] = d[0]
  <2>1. \A i \in 0 .. n : d[i] = d[0]
    BY <1>1, <1>6, Constant
  <2> QED BY <1>1, <2>1
<1>8. g[n] = f[n]
  <2>1. 0 \in 0 .. n /\ n \in 0 .. n
    BY <1>1
  <2>2. d[n] = g[n] - f[n] /\ d[0] = g[0] - f[0]
    BY <1>d, <2>1
  <2>3. g[n] \in Int /\ f[n] \in Int
    BY <1>1, <1>4
  <2>4. g[0] - f[0] = 0
    BY <1>4
  <2>5. g[n] - f[n] = 0
    BY <1>7, <2>2, <2>4
  <2> QED BY <2>3, <2>5
<1>9. g[n + 1] = g[n] + x
  BY <1>1, <1>3 DEF PartialSums
<1> QED BY <1>2, <1>3, <1>8, <1>9 DEF t

\* The sum is the first number and the sum of the others.
LEMMA SumTail ==
  ASSUME NEW s \in Seq(Nat), s # <<>>
  PROVE  SumOf(s) = Head(s) + SumOf(Tail(s))
<1> DEFINE t == Tail(s)
           n == Len(t)
<1>1. t \in Seq(Nat) /\ Len(s) = n + 1 /\ n \in Nat /\ Head(s) = s[1]
      /\ \A i \in 1 .. n : t[i] = s[i + 1] /\ t[i] \in Nat
  BY HeadTailProperties, LenProperties, ElementOfSeq
<1>2. PICK f : PartialSums(f, s) /\ SumOf(s) = f[n + 1]
  BY <1>1, SumOfPartial
<1>3. PICK g : PartialSums(g, t) /\ SumOf(t) = g[n]
  BY <1>1, SumOfPartial
<1> HIDE DEF t, n
<1>4. f \in [0 .. n + 1 -> Nat] /\ g \in [0 .. n -> Nat] /\ f[0] = 0 /\ g[0] = 0
  BY <1>1, <1>2, <1>3 DEF PartialSums, n
<1>5. \A i \in 1 .. n : f[i + 1] = f[i] + t[i] /\ g[i] = g[i - 1] + t[i]
  <2>1. \A i \in 1 .. n : i + 1 \in 1 .. Len(s) /\ (i + 1) - 1 = i
    BY <1>1
  <2> QED BY <1>1, <1>2, <1>3, <2>1, ZenonT(30) DEF PartialSums, n
<1> DEFINE d == [i \in 0 .. n |-> f[i + 1] - g[i]]
<1>d. d = [i \in 0 .. n |-> d[i]] /\ \A i \in 0 .. n : d[i] = f[i + 1] - g[i]
  OBVIOUS
<1> HIDE DEF d
<1>6. d \in [0 .. n -> Int] /\ \A i \in 1 .. n : d[i - 1] = d[i]
  <2>1. \A i \in 0 .. n : g[i] \in Int /\ f[i + 1] \in Int
    BY <1>1, <1>4
  <2>2. ASSUME NEW i \in 1 .. n PROVE d[i - 1] = d[i]
    <3>1. i - 1 \in 0 .. n /\ i \in 0 .. n /\ (i - 1) + 1 = i
      BY <1>1
    <3>2. t[i] \in Int
      BY <1>1
    <3>3. d[i] = f[i + 1] - g[i] /\ d[i - 1] = f[i] - g[i - 1]
      BY <1>d, <3>1
    <3> QED BY <1>5, <2>1, <3>1, <3>2, <3>3, SMTT(30)
  <2>3. \A i \in 0 .. n : d[i] \in Int
    BY <1>d, <2>1
  <2> QED BY <1>d, <2>2, <2>3
<1>7. d[n] = d[0]
  <2>1. \A i \in 0 .. n : d[i] = d[0]
    BY <1>1, <1>6, Constant
  <2> QED BY <1>1, <2>1
<1>8. f[n + 1] - g[n] = f[1] - g[0]
  <2>1. 0 \in 0 .. n /\ n \in 0 .. n /\ 0 + 1 = 1
    BY <1>1
  <2>2. d[n] = f[n + 1] - g[n] /\ d[0] = f[0 + 1] - g[0]
    BY <1>d, <2>1
  <2> QED BY <1>7, <2>1, <2>2
<1>9. f[1] = s[1] /\ s[1] \in Nat
  <2>1. 1 \in 1 .. Len(s)
    BY <1>1
  <2>2. s[1] \in Nat
    BY <2>1, ElementOfSeq
  <2> QED BY <1>2, <1>4, <2>1, <2>2 DEF PartialSums
<1>10. f[n + 1] \in Int /\ g[n] \in Int
  BY <1>1, <1>4
<1> QED BY <1>1, <1>2, <1>3, <1>4, <1>8, <1>9, <1>10 DEF t

\* A number that is replaced changes the sum by the difference.
LEMMA SumReplace ==
  ASSUME NEW s \in Seq(Nat), NEW k \in 1 .. Len(s), NEW x \in Nat
  PROVE  SumOf([s EXCEPT ![k] = x]) = SumOf(s) - s[k] + x
<1> DEFINE t == [s EXCEPT ![k] = x]
           n == Len(s)
<1>1. t \in Seq(Nat) /\ Len(t) = n /\ n \in Nat /\ s[k] \in Nat
      /\ \A i \in 1 .. n : t[i] = (IF i = k THEN x ELSE s[i]) /\ s[i] \in Nat
  BY ExceptSeq, LenProperties
<1>2. PICK f : PartialSums(f, s) /\ SumOf(s) = f[n]
  BY SumOfPartial
<1>3. PICK g : PartialSums(g, t) /\ SumOf(t) = g[n]
  BY <1>1, SumOfPartial
<1>k. k \in 1 .. n
  OBVIOUS
<1> HIDE DEF t, n
<1>4. f \in [0 .. n -> Nat] /\ g \in [0 .. n -> Nat] /\ f[0] = 0 /\ g[0] = 0
      /\ \A i \in 1 .. n : f[i] = f[i - 1] + s[i] /\ g[i] = g[i - 1] + t[i]
  BY <1>1, <1>2, <1>3 DEF PartialSums, n
<1> DEFINE d == [i \in 0 .. n |-> IF i < k THEN g[i] - f[i] ELSE g[i] - f[i] + s[k] - x]
<1>d. /\ d = [i \in 0 .. n |-> d[i]]
      /\ \A i \in 0 .. n : i < k => d[i] = g[i] - f[i]
      /\ \A i \in 0 .. n : ~ (i < k) => d[i] = g[i] - f[i] + s[k] - x
  OBVIOUS
<1> HIDE DEF d
<1>5. d \in [0 .. n -> Int] /\ \A i \in 1 .. n : d[i - 1] = d[i]
  <2>1. \A i \in 0 .. n : g[i] \in Int /\ f[i] \in Int
    BY <1>4
  <2>2. ASSUME NEW i \in 1 .. n PROVE d[i - 1] = d[i]
    <3>1. i - 1 \in 0 .. n /\ i \in 0 .. n /\ k \in Int /\ n \in Int /\ s[k] \in Int
      BY <1>1, <1>k
    <3>2. s[i] \in Int /\ t[i] = (IF i = k THEN x ELSE s[i])
      BY <1>1
    <3>3. f[i] = f[i - 1] + s[i] /\ g[i] = g[i - 1] + t[i]
      BY <1>4
    <3>t. f[i] \in Int /\ g[i] \in Int /\ f[i - 1] \in Int /\ g[i - 1] \in Int
      BY <2>1, <3>1
    <3>4. CASE i < k
      <4>1. i - 1 < k
        BY <3>1, <3>4
      <4>2. d[i] = g[i] - f[i] /\ d[i - 1] = g[i - 1] - f[i - 1]
        BY <1>d, <3>1, <3>4, <4>1
      <4> QED BY <3>1, <3>2, <3>3, <3>t, <3>4, <4>2, SMTT(30)
    <3>5. CASE i = k
      <4>1. i - 1 < k /\ ~ (i < k)
        BY <3>1, <3>5
      <4>2. d[i] = g[i] - f[i] + s[k] - x /\ d[i - 1] = g[i - 1] - f[i - 1]
        BY <1>d, <3>1, <4>1
      <4>3. g[i] = g[i - 1] + x /\ f[i] = f[i - 1] + s[k]
        BY <3>2, <3>3, <3>5
      <4>4. g[i] - f[i] + s[k] - x = g[i - 1] - f[i - 1]
        <5> DEFINE g0 == g[i - 1]  f0 == f[i - 1]  g1 == g[i]  f1 == f[i]  y == s[k]
        <5>3. g0 \in Int /\ f0 \in Int /\ y \in Int /\ g1 = g0 + x /\ f1 = f0 + y
          BY <3>1, <3>t, <4>3
        <5> HIDE DEF g0, f0, g1, f1, y
        <5>4. g1 - f1 + y - x = g0 - f0
          BY <5>3
        <5> QED BY <5>4 DEF g0, f0, g1, f1, y
      <4> QED BY <4>2, <4>4
    <3>6. CASE i > k
      <4>1. ~ (i - 1 < k) /\ ~ (i < k)
        BY <3>1, <3>6
      <4>2. d[i] = g[i] - f[i] + s[k] - x /\ d[i - 1] = g[i - 1] - f[i - 1] + s[k] - x
        BY <1>d, <3>1, <4>1
      <4>3. t[i] = s[i]
        BY <3>1, <3>2, <3>6
      <4>4. g[i] - f[i] + s[k] - x = g[i - 1] - f[i - 1] + s[k] - x
        <5> DEFINE g0 == g[i - 1]  f0 == f[i - 1]  g1 == g[i]  f1 == f[i]  y == s[i]  z == s[k]
        <5>3. g0 \in Int /\ f0 \in Int /\ y \in Int /\ z \in Int /\ g1 = g0 + y /\ f1 = f0 + y
          BY <3>1, <3>2, <3>3, <3>t, <4>3
        <5> HIDE DEF g0, f0, g1, f1, y, z
        <5>4. g1 - f1 + z - x = g0 - f0 + z - x
          BY <5>3
        <5> QED BY <5>4 DEF g0, f0, g1, f1, y, z
      <4> QED BY <4>2, <4>4
    <3> QED BY <3>1, <3>4, <3>5, <3>6
  <2>3. ASSUME NEW i \in 0 .. n PROVE d[i] \in Int
    <3>1. g[i] \in Int /\ f[i] \in Int /\ s[k] \in Int /\ x \in Int
      BY <1>1, <2>1
    <3>2. d[i] = g[i] - f[i] \/ d[i] = g[i] - f[i] + s[k] - x
      BY <1>d
    <3> QED BY <3>1, <3>2
  <2> QED BY <1>d, <2>2, <2>3
<1>6. d[n] = d[0]
  <2>1. \A i \in 0 .. n : d[i] = d[0]
    BY <1>1, <1>5, Constant
  <2> QED BY <1>1, <2>1
<1>7. g[n] - f[n] + s[k] - x = 0
  <2>1. ~ (n < k) /\ 0 < k /\ 0 \in 0 .. n /\ n \in 0 .. n
    BY <1>1, <1>k
  <2>2. d[n] = g[n] - f[n] + s[k] - x /\ d[0] = g[0] - f[0]
    BY <1>d, <2>1
  <2>3. g[0] - f[0] = 0
    BY <1>4
  <2> QED BY <1>6, <2>2, <2>3
<1>8. f[n] \in Int /\ g[n] \in Int /\ s[k] \in Int
  BY <1>1, <1>4
<1>9. g[n] = f[n] - s[k] + x
  BY <1>7, <1>8, SMTT(30)
<1> QED BY <1>2, <1>3, <1>9 DEF t

\* Numbers that are at most b add up to at most b for each.
LEMMA SumBound ==
  ASSUME NEW s \in Seq(Nat), NEW b \in Nat, \A i \in 1 .. Len(s) : s[i] <= b
  PROVE  SumOf(s) <= Len(s) * b
<1> DEFINE n == Len(s)
<1>1. n \in Nat /\ \A i \in 1 .. n : s[i] \in Nat /\ s[i] <= b
  BY LenProperties
<1>2. PICK f : PartialSums(f, s) /\ SumOf(s) = f[n]
  BY SumOfPartial
<1>3. f \in [0 .. n -> Nat] /\ f[0] = 0 /\ \A i \in 1 .. n : f[i] = f[i - 1] + s[i]
  BY <1>2 DEF PartialSums
<1> HIDE DEF n
<1> DEFINE d == [i \in 0 .. n |-> i * b - f[i]]
<1>d. d = [i \in 0 .. n |-> d[i]] /\ \A i \in 0 .. n : d[i] = i * b - f[i]
  OBVIOUS
<1> HIDE DEF d
<1>4. d \in [0 .. n -> Int] /\ \A i \in 1 .. n : d[i - 1] <= d[i]
  <2>1. \A i \in 0 .. n : f[i] \in Int /\ i * b \in Int
    BY <1>3
  <2>2. ASSUME NEW i \in 1 .. n PROVE d[i - 1] <= d[i]
    <3>1. i - 1 \in 0 .. n /\ i \in 0 .. n
      BY <1>1
    <3>2. i * b = (i - 1) * b + b
      OBVIOUS
    <3>3. s[i] \in Nat /\ s[i] <= b /\ f[i] = f[i - 1] + s[i]
      BY <1>1, <1>3
    <3>4. d[i - 1] = (i - 1) * b - f[i - 1] /\ d[i] = i * b - f[i]
      BY <1>d, <3>1
    <3> QED BY <2>1, <3>1, <3>2, <3>3, <3>4
  <2>3. \A i \in 0 .. n : d[i] \in Int
    BY <1>d, <2>1, SMTT(30)
  <2> QED BY <1>d, <2>2, <2>3
<1>5. d[0] <= d[n]
  <2>1. \A i \in 0 .. n : d[0] <= d[i]
    BY <1>1, <1>4, Monotone
  <2> QED BY <1>1, <2>1
<1>6. 0 * b - f[0] <= n * b - f[n]
  <2>1. 0 \in 0 .. n /\ n \in 0 .. n
    BY <1>1
  <2>2. d[0] = 0 * b - f[0] /\ d[n] = n * b - f[n]
    BY <1>d, <2>1
  <2> QED BY <1>5, <2>2
<1>7. n * b \in Int /\ f[n] \in Int
  BY <1>1, <1>3
<1> QED BY <1>2, <1>3, <1>6, <1>7 DEF n

----------------------------------------------------------------------------
(* Records and threads.                                                    *)

\* The longest length is one, and bounds them all.
LEMMA LongestBounds ==
  /\ Longest \in Nat
  /\ \A r \in Record : r.len \in Nat /\ r.len <= Longest
<1> DEFINE L == DataLens \cup {CommitLen}
<1>1. L \subseteq Nat /\ IsFiniteSet(L) /\ L # {}
  BY LenAssumption, FS_AddElement
<1>2. \E n \in Nat : \A m \in L : m <= n
  BY <1>1, FiniteNatBounded
<1> HIDE DEF L
<1>3. \E n \in L : \A m \in L : m <= n
  BY <1>1, <1>2, GreatestNat
<1>4. Longest \in L /\ \A m \in L : m <= Longest
  BY <1>3 DEF L, Longest
<1>5. \A r \in Record : r.len \in L
  BY DEF Record, L
<1> QED BY <1>1, <1>4, <1>5

\* The lengths of records are naturals, and follow the records.
LEMMA LensOfRecords ==
  /\ Lens(<<>>) = <<>>
  /\ \A q \in Seq(Record) : Lens(q) \in Seq(Nat)
  /\ \A q \in Seq(Record), r \in Record : Lens(Append(q, r)) = Append(Lens(q), r.len)
  /\ \A q \in Seq(Record) : q # <<>> => /\ Lens(Tail(q)) = Tail(Lens(q)) /\ Lens(q) # <<>>
                                        /\ Head(Lens(q)) = Head(q).len
<1>1. ASSUME NEW q \in Seq(Record)
      PROVE  /\ Lens(q) \in Seq(Nat) /\ Len(Lens(q)) = Len(q) /\ Len(q) \in Nat
             /\ \A i \in 1 .. Len(q) : Lens(q)[i] = q[i].len
  <2>1. Len(q) \in Nat /\ \A i \in 1 .. Len(q) : q[i] \in Record
    BY LenProperties
  <2>2. Lens(q) \in [1 .. Len(q) -> Nat]
    BY <2>1, LongestBounds DEF Lens
  <2>3. Lens(q) \in Seq(Nat)
    BY <2>1, <2>2, SeqDef
  <2>4. Len(Lens(q)) = Len(q)
    BY <2>1, <2>2, <2>3, LenProperties
  <2> QED BY <2>1, <2>3, <2>4 DEF Lens
<1>2. ASSUME NEW q \in Seq(Record), NEW r \in Record
      PROVE  Lens(Append(q, r)) = Append(Lens(q), r.len)
  <2> DEFINE a == Lens(Append(q, r))
             b == Append(Lens(q), r.len)
  <2>1. /\ Append(q, r) \in Seq(Record) /\ Len(Append(q, r)) = Len(q) + 1
        /\ \A i \in 1 .. Len(q) : Append(q, r)[i] = q[i]
        /\ Append(q, r)[Len(q) + 1] = r
    BY AppendProperties
  <2>2. /\ a \in Seq(Nat) /\ Len(a) = Len(q) + 1
        /\ \A i \in 1 .. Len(q) + 1 : a[i] = Append(q, r)[i].len
    BY <1>1, <2>1
  <2>3. r.len \in Nat
    BY LongestBounds
  <2>4. /\ b \in Seq(Nat) /\ Len(b) = Len(q) + 1
        /\ \A i \in 1 .. Len(q) : b[i] = Lens(q)[i]
        /\ b[Len(q) + 1] = r.len
    BY <1>1, <2>3, AppendProperties
  <2>5. ASSUME NEW i \in 1 .. Len(q) + 1 PROVE a[i] = b[i]
    <3>1. CASE i = Len(q) + 1
      BY <2>1, <2>2, <2>4, <3>1
    <3>2. CASE i # Len(q) + 1
      <4>1. i \in 1 .. Len(q)
        BY <1>1, <3>2
      <4> QED BY <1>1, <2>1, <2>2, <2>4, <4>1
    <3> QED BY <3>1, <3>2
  <2> HIDE DEF a, b
  <2>6. a = b
    BY <2>2, <2>4, <2>5, SeqEqual
  <2> QED BY <2>6 DEF a, b
<1>3. ASSUME NEW q \in Seq(Record), q # <<>>
      PROVE  /\ Lens(Tail(q)) = Tail(Lens(q)) /\ Lens(q) # <<>> /\ Head(Lens(q)) = Head(q).len
  <2> DEFINE a == Lens(Tail(q))
             b == Tail(Lens(q))
  <2>1. /\ Tail(q) \in Seq(Record) /\ Len(Tail(q)) = Len(q) - 1 /\ Len(q) \in Nat \ {0}
        /\ \A i \in 1 .. Len(q) - 1 : Tail(q)[i] = q[i + 1]
    <3>1. Len(q) \in Nat \ {0}
      BY <1>3, EmptySeq
    <3>2. Tail(q) \in Seq(Record) /\ Len(Tail(q)) = Len(q) - 1
      BY <1>3, HeadTailProperties
    <3>3. \A i \in 1 .. Len(Tail(q)) : Tail(q)[i] = q[i + 1]
      BY <1>3, HeadTailProperties
    <3> QED BY <3>1, <3>2, <3>3
  <2>2. /\ a \in Seq(Nat) /\ Len(a) = Len(q) - 1
        /\ \A i \in 1 .. Len(q) - 1 : a[i] = q[i + 1].len
    BY <1>1, <2>1, ZenonT(30)
  <2>3. Lens(q) # <<>> /\ Lens(q) \in Seq(Nat) /\ Len(Lens(q)) = Len(q)
    BY <1>1, <2>1
  <2>4. /\ b \in Seq(Nat) /\ Len(b) = Len(q) - 1
        /\ \A i \in 1 .. Len(q) - 1 : b[i] = Lens(q)[i + 1]
    BY <2>3, HeadTailProperties
  <2>5. \A i \in 1 .. Len(q) - 1 : a[i] = b[i]
    BY <1>1, <2>1, <2>2, <2>4
  <2>6. Head(Lens(q)) = Head(q).len
    <3>1. Head(Lens(q)) = Lens(q)[1] /\ Head(q) = q[1] /\ 1 \in 1 .. Len(q)
      BY <2>1, <2>3
    <3> QED BY <1>1, <3>1
  <2> HIDE DEF a, b
  <2>7. a = b
    BY <2>2, <2>4, <2>5, SeqEqual
  <2> QED BY <2>3, <2>6, <2>7 DEF a, b
<1>4. Lens(<<>>) = <<>>
  BY DEF Lens
<1> QED BY <1>1, <1>2, <1>3, <1>4

\* What the threads of a kind have in hand, added up over all threads.
ThreadCount == Cardinality(Threads)

Enum == CHOOSE e \in Bijection(1 .. ThreadCount, Threads) : TRUE

Weights(w) == [i \in 1 .. ThreadCount |-> w[Enum[i]]]

ThreadSum(w) == SumOf(Weights(w))

\* The enumeration of the threads names each of them at one place.
LEMMA EnumThreads ==
  /\ ThreadCount \in Nat \ {0} /\ Enum \in [1 .. ThreadCount -> Threads]
  /\ \A t \in Threads : \E i \in 1 .. ThreadCount :
       Enum[i] = t /\ \A j \in 1 .. ThreadCount : Enum[j] = t => j = i
<1>1. ThreadCount \in Nat /\ ExistsBijection(1 .. ThreadCount, Threads)
  BY ThreadAssumption, FS_CardinalityType DEF ThreadCount
<1>2. Enum \in Bijection(1 .. ThreadCount, Threads)
  BY <1>1 DEF Enum, ExistsBijection
<1>3. ThreadCount # 0
  BY ThreadAssumption, FS_EmptySet DEF ThreadCount
<1>4. /\ Enum \in [1 .. ThreadCount -> Threads]
      /\ \A i, j \in 1 .. ThreadCount : Enum[i] = Enum[j] => i = j
      /\ \A t \in Threads : \E i \in 1 .. ThreadCount : Enum[i] = t
  BY <1>2 DEF Bijection, Injection, Surjection, IsInjective
<1> QED BY <1>1, <1>3, <1>4

\* What the threads have, listed in the order of the enumeration.
LEMMA WeightsSeq ==
  ASSUME NEW w \in [Threads -> Nat]
  PROVE  /\ Weights(w) \in Seq(Nat) /\ Len(Weights(w)) = ThreadCount
         /\ \A i \in 1 .. ThreadCount : Weights(w)[i] = w[Enum[i]]
<1>1. Weights(w) \in [1 .. ThreadCount -> Nat]
  BY EnumThreads DEF Weights
<1>2. Weights(w) \in Seq(Nat)
  BY <1>1, EnumThreads, SeqDef
<1>3. Len(Weights(w)) = ThreadCount
  BY <1>1, <1>2, EnumThreads, LenProperties
<1> QED BY <1>2, <1>3 DEF Weights

\* A change of what one thread has changes the sum by the difference.
LEMMA ThreadSumChange ==
  ASSUME NEW w \in [Threads -> Nat], NEW t \in Threads, NEW x \in Nat
  PROVE  /\ ThreadSum(w) \in Nat /\ ThreadSum([w EXCEPT ![t] = x]) \in Nat
         /\ ThreadSum([w EXCEPT ![t] = x]) = ThreadSum(w) - w[t] + x
<1> DEFINE v == [w EXCEPT ![t] = x]
<1>1. PICK k \in 1 .. ThreadCount : Enum[k] = t /\ \A j \in 1 .. ThreadCount : Enum[j] = t => j = k
  BY EnumThreads
<1>2. v \in [Threads -> Nat]
  OBVIOUS
<1>3. /\ Weights(w) \in Seq(Nat) /\ Len(Weights(w)) = ThreadCount
      /\ \A i \in 1 .. ThreadCount : Weights(w)[i] = w[Enum[i]]
  BY WeightsSeq
<1>4. /\ Weights(v) \in Seq(Nat) /\ Len(Weights(v)) = ThreadCount
      /\ \A i \in 1 .. ThreadCount : Weights(v)[i] = v[Enum[i]]
  BY <1>2, WeightsSeq
<1> DEFINE u == [Weights(w) EXCEPT ![k] = x]
<1>5. /\ u \in Seq(Nat) /\ Len(u) = ThreadCount
      /\ \A i \in 1 .. ThreadCount : u[i] = IF i = k THEN x ELSE Weights(w)[i]
  BY <1>3, ExceptSeq
<1>6. ASSUME NEW i \in 1 .. ThreadCount PROVE Weights(v)[i] = u[i]
  <2>1. Enum[i] \in Threads
    BY EnumThreads
  <2>2. v[Enum[i]] = IF Enum[i] = t THEN x ELSE w[Enum[i]]
    BY <2>1
  <2> QED BY <1>1, <1>3, <1>4, <1>5, <2>2
<1>7. Weights(v) = u
  <2> HIDE DEF u, v
  <2> QED BY <1>4, <1>5, <1>6, SeqEqual
<1>8. SumOf(u) = SumOf(Weights(w)) - Weights(w)[k] + x
  BY <1>3, SumReplace
<1>9. Weights(w)[k] = w[t]
  BY <1>1, <1>3
<1>10. SumOf(Weights(w)) \in Nat /\ SumOf(Weights(v)) \in Nat
  BY <1>3, <1>4, SumNat
<1> QED BY <1>7, <1>8, <1>9, <1>10 DEF ThreadSum

\* Threads that have at most b each have at most b times their number together, and
\* less by b when one of them has nothing.
LEMMA ThreadSumBound ==
  ASSUME NEW w \in [Threads -> Nat], NEW b \in Nat, \A u \in Threads : w[u] <= b,
         NEW t \in Threads, w[t] = 0
  PROVE  ThreadSum(w) <= (ThreadCount - 1) * b
<1> DEFINE v == [w EXCEPT ![t] = b]
<1>1. v \in [Threads -> Nat] /\ \A u \in Threads : v[u] <= b
  OBVIOUS
<1>2. ThreadSum(v) = ThreadSum(w) + b /\ ThreadSum(w) \in Nat /\ ThreadSum(v) \in Nat
  <2>1. ThreadSum(v) = ThreadSum(w) - w[t] + b /\ ThreadSum(w) \in Nat /\ ThreadSum(v) \in Nat
    BY ThreadSumChange
  <2> HIDE DEF v
  <2> QED BY <2>1
<1> HIDE DEF v
<1>3. Weights(v) \in Seq(Nat) /\ Len(Weights(v)) = ThreadCount
      /\ \A i \in 1 .. ThreadCount : Weights(v)[i] <= b
  BY <1>1, WeightsSeq, EnumThreads
<1>4. ThreadSum(v) <= ThreadCount * b
  BY <1>3, SumBound DEF ThreadSum
<1>5. ThreadCount * b = (ThreadCount - 1) * b + b /\ (ThreadCount - 1) * b \in Int
  BY EnumThreads
<1> QED BY <1>2, <1>4, <1>5

\* Threads that have nothing add up to nothing.
LEMMA ThreadSumZero == ThreadSum([t \in Threads |-> 0]) = 0
<1> DEFINE w == [t \in Threads |-> 0]
<1>1. w \in [Threads -> Nat] /\ \A u \in Threads : w[u] <= 0
  OBVIOUS
<1> HIDE DEF w
<1>2. Weights(w) \in Seq(Nat) /\ Len(Weights(w)) = ThreadCount
      /\ \A i \in 1 .. ThreadCount : Weights(w)[i] <= 0
  BY <1>1, WeightsSeq, EnumThreads
<1>3. ThreadSum(w) <= ThreadCount * 0 /\ ThreadSum(w) \in Nat
  BY <1>2, SumBound, SumNat DEF ThreadSum
<1>4. ThreadCount * 0 = 0
  BY EnumThreads
<1> QED BY <1>3, <1>4 DEF w

----------------------------------------------------------------------------
(* The inductive invariant.                                                *)

\* A thread has a record in hand while it appends, and from taking it out of the
\* buffer until it has counted it off.
HandInv == \A t \in Threads : pc[t] \in {"append", "write", "count"} => hand[t] \in Record

\* The lock is held over several steps only by the thread that writes.
LockInv == \A t \in Threads : lock = t <=> pc[t] = "write"

Pending == [t \in Threads |-> IF pc[t] = "append" THEN hand[t].len ELSE 0]

Taken == [t \in Threads |-> IF pc[t] \in {"write", "count"} THEN hand[t].len ELSE 0]

\* The size count is that of the records in the buffer and of those taken out and not
\* counted off; with those that passed the check it exceeds the capacity by less
\* than one record of every other thread.
SizeInv ==
  /\ total_size = SumOf(Lens(log_records)) + ThreadSum(Taken)
  /\ total_size + ThreadSum(Pending) < CLOG_BUFFER_SIZE + (ThreadCount - 1) * Longest

\* What is in the file and not synced has a thread that flushes.
SyncInv ==
  /\ synced <= Len(file)
  /\ synced < Len(file) => \E u \in Threads : Flushing(u)

\* A commit whose thread has found nothing left to write is in the file, or in the
\* hand of the thread that writes.
OwnInv ==
  \A t \in Threads :
    /\ own[t] <= Len(appended)
    /\ pc[t] \in {"sync", "returned"} =>
         own[t] <= Len(file) + (IF lock = None THEN 0 ELSE 1)

IndInv == TypeOK /\ LogOrder /\ HandInv /\ LockInv /\ SizeInv /\ SyncInv /\ OwnInv

\* What the threads are about to add to the size, or have taken out of the buffer, are
\* lengths of records, so their sums are naturals.
LEMMA HandsTyped ==
  ASSUME TypeOK, HandInv
  PROVE  /\ Pending \in [Threads -> Nat] /\ Taken \in [Threads -> Nat]
         /\ \A u \in Threads : Pending[u] <= Longest
         /\ ThreadSum(Pending) \in Nat /\ ThreadSum(Taken) \in Nat
         /\ SumOf(Lens(log_records)) \in Nat
<1>1. \A u \in Threads : pc[u] \in {"append", "write", "count"} =>
                           hand[u].len \in Nat /\ hand[u].len <= Longest
  BY LongestBounds DEF HandInv
<1>2. Pending \in [Threads -> Nat] /\ \A u \in Threads : Pending[u] <= Longest
  BY <1>1, LongestBounds DEF Pending
<1>3. Taken \in [Threads -> Nat]
  BY <1>1 DEF Taken
<1>4. PICK t \in Threads : TRUE
  BY ThreadAssumption
<1>5. ThreadSum(Pending) \in Nat /\ ThreadSum(Taken) \in Nat
  BY <1>2, <1>3, ThreadSumChange
<1>6. SumOf(Lens(log_records)) \in Nat
  BY LensOfRecords, SumNat DEF TypeOK
<1> QED BY <1>2, <1>3, <1>5, <1>6

\* CLogBuffer starts with no records and no thread in a call.
LEMMA InitInd == Init => IndInv
<1> SUFFICES ASSUME Init PROVE IndInv
  OBVIOUS
<1> USE DEF Init
<1>1. TypeOK
  BY DEF TypeOK, Pcs
<1>2. LogOrder
  BY DEF LogOrder, InFlight
<1>3. HandInv /\ LockInv
  BY ThreadAssumption DEF HandInv, LockInv
<1>4. SizeInv
  <2>1. Pending = [t \in Threads |-> 0] /\ Taken = [t \in Threads |-> 0]
    BY DEF Pending, Taken
  <2>2. SumOf(Lens(log_records)) = 0
    BY LensOfRecords, SumNat
  <2>3. (ThreadCount - 1) * Longest >= 0 /\ (ThreadCount - 1) * Longest \in Int
    BY EnumThreads, LongestBounds
  <2> QED BY <2>1, <2>2, <2>3, ThreadSumZero, LenAssumption DEF SizeInv
<1>5. SyncInv
  BY DEF SyncInv
<1>6. OwnInv
  BY DEF OwnInv
<1> QED BY <1>1, <1>2, <1>3, <1>4, <1>5, <1>6 DEF IndInv

\* Steps in which no record moves.
LEMMA QuietStep ==
  ASSUME IndInv, NEW t \in Threads,
         UNCHANGED <<total_size, log_records, lock, file, synced, lost, faults, hand,
                     appended>>,
         NEW to \in Pcs, pc' = [pc EXCEPT ![t] = to],
         pc[t] \notin {"append", "write", "count"}, to \notin {"append", "write", "count"},
         own' \in [Threads -> Nat], \A u \in Threads : own'[u] = own[u] \/ own'[u] = 0,
         Flushing(t) => to \in {"test", "sync"} \/ (to = "lock" /\ log_records # <<>>),
         to \in {"sync", "returned"} =>
           own'[t] <= Len(file) + (IF lock = None THEN 0 ELSE 1)
  PROVE  IndInv'
<1> USE DEF IndInv
<1>1. TypeOK'
  BY DEF TypeOK
<1>2. LogOrder'
  BY DEF LogOrder, InFlight
<1>3. HandInv'
  BY DEF HandInv, TypeOK
<1>4. LockInv'
  BY DEF LockInv, TypeOK
<1>5. SizeInv'
  <2>1. Pending' = Pending /\ Taken' = Taken
    BY DEF Pending, Taken, TypeOK
  <2> QED BY <2>1 DEF SizeInv
<1>6. SyncInv'
  <2>1. \A u \in Threads : Flushing(u) => Flushing(u)'
    BY DEF Flushing, TypeOK
  <2> QED BY <2>1 DEF SyncInv
<1>7. OwnInv'
  <2>1. Len(appended) \in Nat /\ Len(file) \in Nat
    BY LenProperties DEF TypeOK
  <2>2. ASSUME NEW u \in Threads
        PROVE  /\ own'[u] <= Len(appended')
               /\ pc'[u] \in {"sync", "returned"} =>
                    own'[u] <= Len(file') + (IF lock' = None THEN 0 ELSE 1)
    <3>1. own[u] \in Nat /\ (own'[u] = own[u] \/ own'[u] = 0) /\ own[u] <= Len(appended)
      BY DEF OwnInv, TypeOK
    <3>2. own'[u] <= Len(appended')
      BY <2>1, <3>1
    <3> DEFINE upto == Len(file) + (IF lock = None THEN 0 ELSE 1)
    <3>3. upto \in Nat /\ upto' = upto
      BY <2>1
    <3>4. pc'[u] = (IF u = t THEN to ELSE pc[u])
      BY DEF TypeOK
    <3>5. pc[u] \in {"sync", "returned"} => own[u] <= upto
      BY DEF OwnInv
    <3>6. u = t /\ to \in {"sync", "returned"} => own'[u] <= upto
      OBVIOUS
    <3> HIDE DEF upto
    <3>7. pc'[u] \in {"sync", "returned"} => own'[u] <= upto'
      BY <3>1, <3>3, <3>4, <3>5, <3>6
    <3> QED BY <3>2, <3>7 DEF upto
  <2> QED BY <2>2 DEF OwnInv
<1> QED BY <1>1, <1>2, <1>3, <1>4, <1>5, <1>6, <1>7

\* append_log_record's test of the size, without the lock: the length of the record is
\* added to total_size_ later, under it.
LEMMA CheckSizeInd ==
  ASSUME IndInv, NEW t \in Threads, NEW record \in Record, CheckSize(t, record)
  PROVE  IndInv'
<1> USE DEF IndInv, CheckSize
<1>1. TypeOK'
  BY DEF TypeOK, Pcs
<1>2. lock # t
  BY DEF LockInv
<1>3. LogOrder'
  BY <1>2 DEF LogOrder, InFlight, TypeOK
<1>4. HandInv'
  BY DEF HandInv, TypeOK
<1>5. LockInv'
  BY DEF LockInv, TypeOK
<1>6. SizeInv'
  <2>1. Taken' = Taken
    BY DEF Taken, TypeOK
  <2>2. Pending' = [Pending EXCEPT ![t] = record.len] /\ Pending[t] = 0
    BY DEF Pending, TypeOK
  <2>3. record.len \in Nat /\ Longest \in Nat
    BY LongestBounds
  <2>4. ThreadSum(Pending') = ThreadSum(Pending) + record.len
    <3>1. Pending \in [Threads -> Nat] /\ ThreadSum(Pending) \in Nat
      BY HandsTyped
    <3>2. ThreadSum([Pending EXCEPT ![t] = record.len]) = ThreadSum(Pending) - Pending[t] + record.len
      BY <2>3, <3>1, ThreadSumChange
    <3> QED BY <2>2, <2>3, <3>1, <3>2
  <2>5. ThreadSum(Pending) <= (ThreadCount - 1) * Longest
    BY <2>2, <2>3, HandsTyped, ThreadSumBound
  <2>6. total_size + record.len < CLOG_BUFFER_SIZE
    BY <2>3, LenAssumption DEF Full, TypeOK
  <2>7. (ThreadCount - 1) * Longest \in Int
    BY <2>3, EnumThreads
  <2>8. total_size' + ThreadSum(Pending') < CLOG_BUFFER_SIZE + (ThreadCount - 1) * Longest
    <3>1. ThreadSum(Pending) \in Int /\ total_size \in Int /\ CLOG_BUFFER_SIZE \in Int
      BY HandsTyped, LenAssumption DEF TypeOK
    <3>2. total_size' = total_size
      OBVIOUS
    <3> DEFINE a == ThreadSum(Pending)  b == (ThreadCount - 1) * Longest  c == record.len
    <3>3. a \in Int /\ b \in Int /\ c \in Int /\ a <= b /\ total_size + c < CLOG_BUFFER_SIZE
      BY <2>3, <2>5, <2>6, <2>7, <3>1
    <3> HIDE DEF a, b, c
    <3>4. total_size + (a + c) < CLOG_BUFFER_SIZE + b
      BY <3>1, <3>3
    <3> QED BY <2>4, <3>2, <3>4 DEF a, b, c
  <2> QED BY <2>1, <2>8 DEF SizeInv
<1>7. SyncInv'
  <2>1. \A u \in Threads : Flushing(u) => Flushing(u)'
    BY DEF Flushing, TypeOK
  <2> QED BY <2>1 DEF SyncInv
<1>8. OwnInv'
  BY DEF OwnInv, TypeOK
<1> QED BY <1>1, <1>3, <1>4, <1>5, <1>6, <1>7, <1>8

\* append_log_record puts the record into the buffer and its length into total_size_.
LEMMA AppendInd ==
  ASSUME IndInv, NEW t \in Threads, AppendLogRecord(t)
  PROVE  IndInv'
<1> USE DEF IndInv, AppendLogRecord
<1> DEFINE r == hand[t]
<1>0. r \in Record /\ r.len \in Nat /\ pc[t] = "append" /\ lock = None /\ hand' = [hand EXCEPT ![t] = None]
  BY LongestBounds DEF HandInv
<1>1. /\ log_records' = Append(log_records, r) /\ appended' = Append(appended, r)
      /\ total_size' = total_size + r.len
      /\ UNCHANGED <<lock, file, synced, lost, faults>>
  OBVIOUS
<1>2. PICK to \in {"test", "idle"} : pc' = [pc EXCEPT ![t] = to]
  OBVIOUS
<1>3. own' = own \/ own' = [own EXCEPT ![t] = Len(appended')]
  OBVIOUS
<1>l. /\ Len(appended') = Len(appended) + 1 /\ Len(appended) \in Nat /\ Len(file) \in Nat
      /\ log_records' # <<>>
  BY <1>0, <1>1, AppendProperties, LenProperties DEF TypeOK
<1> HIDE DEF AppendLogRecord
<1>4. TypeOK'
  <2>1. log_records' \in Seq(Record) /\ appended' \in Seq(Record)
    BY <1>0, <1>1, AppendProperties DEF TypeOK
  <2>2. total_size' \in Nat
    BY <1>0, <1>1 DEF TypeOK
  <2>3. own' \in [Threads -> Nat]
    BY <1>3, <1>l DEF TypeOK
  <2>4. pc' \in [Threads -> Pcs]
    BY <1>2 DEF TypeOK, Pcs
  <2> QED BY <1>0, <1>1, <2>1, <2>2, <2>3, <2>4 DEF TypeOK
<1>5. LogOrder'
  <2>1. InFlight = <<>> /\ InFlight' = <<>>
    BY <1>0, <1>1 DEF InFlight
  <2>2. appended = file \o log_records
    BY <2>1, ConcatEmptySeq DEF LogOrder, TypeOK
  <2>3. Append(file \o log_records, r) = file \o Append(log_records, r)
    <3>1. file \in Seq(Record) /\ log_records \in Seq(Record) /\ <<r>> \in Seq(Record)
      BY <1>0 DEF TypeOK
    <3>2. Append(log_records, r) = log_records \o <<r>>
      BY <1>0, <3>1, AppendIsConcat
    <3>3. Append(file \o log_records, r) = (file \o log_records) \o <<r>>
      BY <1>0, <3>1, AppendIsConcat, ConcatProperties
    <3> QED BY <3>1, <3>2, <3>3, ConcatAssociative
  <2>4. file \o <<>> = file
    BY ConcatEmptySeq DEF TypeOK
  <2> QED BY <1>1, <2>1, <2>2, <2>3, <2>4 DEF LogOrder
<1>6. HandInv'
  BY <1>0, <1>2 DEF HandInv, TypeOK
<1>7. LockInv'
  BY <1>0, <1>1, <1>2 DEF LockInv, TypeOK
<1>8. SizeInv'
  <2>1. Taken' = Taken
    BY <1>0, <1>2 DEF Taken, TypeOK
  <2>2. Pending' = [Pending EXCEPT ![t] = 0] /\ Pending[t] = r.len
    BY <1>0, <1>2 DEF Pending, TypeOK
  <2>3. /\ Pending \in [Threads -> Nat] /\ ThreadSum(Pending) \in Nat /\ ThreadSum(Taken) \in Nat
        /\ SumOf(Lens(log_records)) \in Nat
    BY HandsTyped
  <2>4. ThreadSum(Pending') = ThreadSum(Pending) - r.len + 0
    <3>1. ThreadSum([Pending EXCEPT ![t] = 0]) = ThreadSum(Pending) - Pending[t] + 0
      BY <2>3, ThreadSumChange
    <3> QED BY <2>2, <3>1
  <2>5. SumOf(Lens(log_records')) = SumOf(Lens(log_records)) + r.len
    BY <1>0, <1>1, LensOfRecords, SumAppend DEF TypeOK
  <2>6. total_size' = SumOf(Lens(log_records')) + ThreadSum(Taken')
    BY <1>0, <1>1, <2>1, <2>3, <2>5, SMTT(30) DEF SizeInv
  <2>7. total_size' + ThreadSum(Pending') = total_size + ThreadSum(Pending)
    BY <1>0, <1>1, <2>3, <2>4, SMTT(30) DEF TypeOK
  <2> QED BY <2>6, <2>7 DEF SizeInv
<1>9. SyncInv'
  <2>1. \A u \in Threads : Flushing(u) => Flushing(u)'
    BY <1>0, <1>2, <1>l DEF Flushing, TypeOK
  <2> QED BY <1>1, <2>1 DEF SyncInv
<1>10. OwnInv'
  <2>1. ASSUME NEW u \in Threads
        PROVE  /\ own'[u] <= Len(appended')
               /\ pc'[u] \in {"sync", "returned"} =>
                    own'[u] <= Len(file') + (IF lock' = None THEN 0 ELSE 1)
    BY <1>0, <1>1, <1>2, <1>3, <1>l DEF OwnInv, TypeOK
  <2> QED BY <2>1 DEF OwnInv
<1> QED BY <1>4, <1>5, <1>6, <1>7, <1>8, <1>9, <1>10

\* flush_buffer takes the oldest record out of the buffer and keeps the lock.
LEMMA PopFrontInd ==
  ASSUME IndInv, NEW t \in Threads, PopFront(t)
  PROVE  IndInv'
<1> USE DEF IndInv, PopFront
<1> DEFINE r == Head(log_records)
<1>0. /\ pc[t] = "lock" /\ lock = None /\ log_records # <<>> /\ lock' = t /\ lock' # None
      /\ hand' = [hand EXCEPT ![t] = r] /\ log_records' = Tail(log_records)
      /\ pc' = [pc EXCEPT ![t] = "write"]
      /\ UNCHANGED <<total_size, file, synced, lost, faults, own, appended>>
  BY ThreadAssumption
<1>1. r \in Record /\ r.len \in Nat /\ log_records' \in Seq(Record)
      /\ log_records = <<r>> \o Tail(log_records)
  <2>1. r \in Record /\ Tail(log_records) \in Seq(Record)
    BY <1>0, HeadTailProperties DEF TypeOK
  <2>2. log_records = <<r>> \o Tail(log_records)
    BY <1>0, <2>1 DEF TypeOK
  <2> QED BY <1>0, <2>1, <2>2, LongestBounds
<1> HIDE DEF PopFront, r
<1>2. TypeOK'
  BY <1>0, <1>1 DEF TypeOK, Pcs
<1>3. LogOrder'
  <2>1. InFlight = <<>> /\ InFlight' = <<r>>
    BY <1>0 DEF InFlight, TypeOK
  <2>2. appended = file \o log_records
    BY <2>1, ConcatEmptySeq DEF LogOrder, TypeOK
  <2>3. file \in Seq(Record) /\ <<r>> \in Seq(Record) /\ log_records' \in Seq(Record)
    BY <1>1 DEF TypeOK
  <2>4. file \o (<<r>> \o log_records') = (file \o <<r>>) \o log_records'
    BY <2>3, ConcatAssociative
  <2> QED BY <1>0, <1>1, <2>1, <2>2, <2>4 DEF LogOrder
<1>4. HandInv'
  BY <1>0, <1>1 DEF HandInv, TypeOK
<1>5. LockInv'
  BY <1>0, ThreadAssumption DEF LockInv, TypeOK
<1>6. SizeInv'
  <2>1. Pending' = Pending
    BY <1>0 DEF Pending, TypeOK
  <2>2. Taken' = [Taken EXCEPT ![t] = r.len] /\ Taken[t] = 0
    BY <1>0 DEF Taken, TypeOK
  <2>3. Taken \in [Threads -> Nat] /\ ThreadSum(Taken) \in Nat /\ SumOf(Lens(log_records)) \in Nat
    BY HandsTyped
  <2>4. ThreadSum(Taken') = ThreadSum(Taken) - 0 + r.len
    BY <1>1, <2>2, <2>3, ThreadSumChange
  <2>5. SumOf(Lens(log_records)) = r.len + SumOf(Lens(log_records')) /\ SumOf(Lens(log_records')) \in Nat
    <3>1. /\ Lens(log_records) \in Seq(Nat) /\ Lens(log_records) # <<>>
          /\ Lens(log_records') = Tail(Lens(log_records)) /\ Head(Lens(log_records)) = r.len
          /\ Lens(log_records') \in Seq(Nat)
      BY <1>0, <1>1, LensOfRecords DEF TypeOK, r
    <3> QED BY <3>1, SumTail, SumNat
  <2>6. total_size' = SumOf(Lens(log_records')) + ThreadSum(Taken')
    BY <1>0, <1>1, <2>3, <2>4, <2>5 DEF SizeInv
  <2> QED BY <1>0, <2>1, <2>6 DEF SizeInv
<1>7. SyncInv'
  <2>1. Flushing(t)'
    BY <1>0 DEF Flushing, TypeOK
  <2> QED BY <1>0, <2>1 DEF SyncInv
<1>8. OwnInv'
  <2>1. Len(file) \in Nat
    BY LenProperties DEF TypeOK
  <2>2. ASSUME NEW u \in Threads
        PROVE  /\ own'[u] <= Len(appended')
               /\ pc'[u] \in {"sync", "returned"} =>
                    own'[u] <= Len(file') + (IF lock' = None THEN 0 ELSE 1)
    BY <1>0, <2>1 DEF OwnInv, TypeOK
  <2> QED BY <2>2 DEF OwnInv
<1> QED BY <1>2, <1>3, <1>4, <1>5, <1>6, <1>7, <1>8

\* write_log_record appends the record in hand to the file and gives the lock back.
LEMMA WriteInd ==
  ASSUME IndInv, NEW t \in Threads, WriteLogRecord(t)
  PROVE  IndInv'
<1> USE DEF IndInv, WriteLogRecord
<1> DEFINE r == hand[t]
<1>0. /\ pc[t] = "write" /\ lock = t /\ lock # None /\ file' = Append(file, r) /\ lock' = None
      /\ pc' = [pc EXCEPT ![t] = "count"] /\ r \in Record
      /\ UNCHANGED <<total_size, log_records, synced, hand, own, appended>>
      /\ \/ lost' = lost /\ faults' = faults
         \/ lost' = lost \cup {Len(file')} /\ faults' = faults + 1
  BY ThreadAssumption DEF LockInv, HandInv, WriteOutcome
<1>1. file' \in Seq(Record) /\ Len(file') = Len(file) + 1 /\ Len(file) \in Nat
      /\ file' = file \o <<r>> /\ Len(appended) \in Nat
  BY <1>0, AppendProperties, AppendIsConcat, LenProperties DEF TypeOK
<1> HIDE DEF WriteLogRecord
<1>2. TypeOK'
  <2>1. lost \in SUBSET Nat /\ faults \in Nat /\ Len(file') \in Nat
    BY <1>1 DEF TypeOK
  <2>2. lost' \in SUBSET Nat /\ faults' \in Nat
    <3>1. CASE lost' = lost /\ faults' = faults
      BY <2>1, <3>1
    <3>2. CASE lost' = lost \cup {Len(file')} /\ faults' = faults + 1
      <4>1. faults' \in Nat
        BY <2>1, <3>2
      <4>2. {Len(file')} \subseteq Nat
        BY <2>1
      <4>3. lost' \in SUBSET Nat
        BY <2>1, <3>2, <4>2, Zenon
      <4> QED BY <4>1, <4>3
    <3> QED BY <1>0, <3>1, <3>2
  <2>3. pc' \in [Threads -> Pcs]
    BY <1>0 DEF TypeOK, Pcs
  <2> QED BY <1>0, <1>1, <2>2, <2>3 DEF TypeOK
<1>3. LogOrder'
  <2>1. InFlight = <<r>> /\ InFlight' = <<>>
    BY <1>0 DEF InFlight
  <2>2. file' \o <<>> = file'
    BY <1>1, ConcatEmptySeq
  <2> QED BY <1>0, <1>1, <2>1, <2>2 DEF LogOrder
<1>4. HandInv'
  BY <1>0 DEF HandInv, TypeOK
<1>5. LockInv'
  BY <1>0, ThreadAssumption DEF LockInv, TypeOK
<1>6. SizeInv'
  <2>1. Pending' = Pending /\ Taken' = Taken
    BY <1>0 DEF Pending, Taken, TypeOK
  <2> QED BY <1>0, <2>1 DEF SizeInv
<1>7. SyncInv'
  <2>1. Flushing(t)'
    BY <1>0 DEF Flushing, TypeOK
  <2>2. synced' <= Len(file')
    BY <1>0, <1>1 DEF SyncInv, TypeOK
  <2> QED BY <2>1, <2>2 DEF SyncInv
<1>8. OwnInv'
  <2>1. ASSUME NEW u \in Threads
        PROVE  /\ own'[u] <= Len(appended')
               /\ pc'[u] \in {"sync", "returned"} =>
                    own'[u] <= Len(file') + (IF lock' = None THEN 0 ELSE 1)
    BY <1>0, <1>1 DEF OwnInv, TypeOK
  <2> QED BY <2>1 DEF OwnInv
<1> QED BY <1>2, <1>3, <1>4, <1>5, <1>6, <1>7, <1>8

\* flush_buffer takes the length of the written record off total_size_.
LEMMA CountDownInd ==
  ASSUME IndInv, NEW t \in Threads, CountDown(t)
  PROVE  IndInv'
<1> USE DEF IndInv, CountDown
<1> DEFINE r == hand[t]
<1>0. /\ pc[t] = "count" /\ lock # t /\ total_size' = total_size - r.len
      /\ pc' = [pc EXCEPT ![t] = "test"] /\ hand' = [hand EXCEPT ![t] = None]
      /\ r \in Record /\ r.len \in Nat
      /\ UNCHANGED <<log_records, lock, file, synced, lost, faults, own, appended>>
  BY LongestBounds DEF LockInv, HandInv
<1> HIDE DEF CountDown
<1>1. /\ Taken' = [Taken EXCEPT ![t] = 0] /\ Taken[t] = r.len
      /\ Pending' = Pending
  BY <1>0 DEF Taken, Pending, TypeOK
<1>2. /\ Taken \in [Threads -> Nat] /\ ThreadSum(Taken) \in Nat /\ SumOf(Lens(log_records)) \in Nat
      /\ ThreadSum(Pending) \in Nat
  BY HandsTyped
<1>3. ThreadSum(Taken') = ThreadSum(Taken) - r.len + 0 /\ ThreadSum(Taken') \in Nat
  <2>1. /\ ThreadSum([Taken EXCEPT ![t] = 0]) = ThreadSum(Taken) - Taken[t] + 0
        /\ ThreadSum([Taken EXCEPT ![t] = 0]) \in Nat
    BY <1>2, ThreadSumChange
  <2> QED BY <1>1, <2>1
<1>4. total_size' = SumOf(Lens(log_records')) + ThreadSum(Taken')
  BY <1>0, <1>2, <1>3 DEF SizeInv
<1>5. total_size' \in Nat
  BY <1>0, <1>2, <1>3, <1>4
<1>6. TypeOK'
  BY <1>0, <1>5 DEF TypeOK, Pcs
<1>7. LogOrder'
  BY <1>0 DEF LogOrder, InFlight, TypeOK
<1>8. HandInv'
  BY <1>0 DEF HandInv, TypeOK
<1>9. LockInv'
  BY <1>0 DEF LockInv, TypeOK
<1>10. SizeInv'
  <2>1. (ThreadCount - 1) * Longest \in Int /\ CLOG_BUFFER_SIZE \in Int
    BY EnumThreads, LongestBounds, LenAssumption
  <2> DEFINE most == (ThreadCount - 1) * Longest
             pending == ThreadSum(Pending)
             n == r.len
  <2>2. /\ most \in Int /\ pending \in Int /\ n \in Nat /\ total_size \in Int
        /\ total_size' = total_size - n /\ ThreadSum(Pending') = pending
        /\ total_size + pending < CLOG_BUFFER_SIZE + most
    BY <1>0, <1>1, <1>2, <2>1 DEF SizeInv, TypeOK
  <2> HIDE DEF most, pending, n
  <2>3. total_size' + ThreadSum(Pending') < CLOG_BUFFER_SIZE + most
    BY <2>1, <2>2
  <2> USE DEF most
  <2> QED BY <1>4, <2>3 DEF SizeInv
<1>11. SyncInv'
  <2>1. \A u \in Threads : Flushing(u) => Flushing(u)'
    BY <1>0 DEF Flushing, TypeOK
  <2> QED BY <1>0, <2>1 DEF SyncInv
<1>12. OwnInv'
  <2>1. ASSUME NEW u \in Threads
        PROVE  /\ own'[u] <= Len(appended')
               /\ pc'[u] \in {"sync", "returned"} =>
                    own'[u] <= Len(file') + (IF lock' = None THEN 0 ELSE 1)
    BY <1>0 DEF OwnInv, TypeOK
  <2> QED BY <2>1 DEF OwnInv
<1> QED BY <1>6, <1>7, <1>8, <1>9, <1>10, <1>11, <1>12

\* An fsync covers the file up to where it was written, whether it fails or not.
LEMMA SyncInd ==
  ASSUME IndInv, NEW t \in Threads, Sync(t) \/ SyncFails(t)
  PROVE  IndInv'
<1> USE DEF IndInv
<1>0. /\ Len(file) \in Nat /\ pc[t] = "sync" /\ synced' = Len(file)
      /\ pc' = [pc EXCEPT ![t] = "returned"] \/ pc' = [pc EXCEPT ![t] = "failed"]
      /\ UNCHANGED <<total_size, log_records, lock, file, hand, own, appended>>
      /\ lost' \in SUBSET Nat /\ faults' \in Nat
  <2>1. Len(file) \in Nat /\ synced + 1 \in Nat /\ lost \in SUBSET Nat /\ faults \in Nat
    BY LenProperties DEF TypeOK
  <2>2. CASE Sync(t)
    BY <2>1, <2>2 DEF Sync
  <2>3. CASE SyncFails(t)
    <3>1. lost' = lost \cup (synced + 1 .. Len(file))
      BY <2>3 DEF SyncFails
    <3>2. synced + 1 .. Len(file) \subseteq Nat
      BY <2>1
    <3>3. lost' \in SUBSET Nat
      BY <2>1, <3>1, <3>2
    <3> QED BY <2>1, <2>3, <3>3 DEF SyncFails
  <2> QED BY <2>2, <2>3
<1>1. TypeOK'
  BY <1>0 DEF TypeOK, Pcs
<1>2. LogOrder'
  BY <1>0 DEF LogOrder, InFlight
<1>3. HandInv'
  BY <1>0 DEF HandInv, TypeOK
<1>4. LockInv'
  BY <1>0 DEF LockInv, TypeOK
<1>5. SizeInv'
  <2>1. Pending' = Pending /\ Taken' = Taken
    BY <1>0 DEF Pending, Taken, TypeOK
  <2> QED BY <1>0, <2>1 DEF SizeInv
<1>6. SyncInv'
  BY <1>0 DEF SyncInv
<1>7. OwnInv'
  BY <1>0 DEF OwnInv, TypeOK
<1> QED BY <1>1, <1>2, <1>3, <1>4, <1>5, <1>6, <1>7

\* The order of the log while nothing is in hand and nothing is buffered: all of it
\* is in the file, but for what the writer has in hand.
LEMMA NothingBuffered ==
  ASSUME IndInv, log_records = <<>>
  PROVE  Len(appended) = Len(file) + (IF lock = None THEN 0 ELSE 1)
<1>1. file \in Seq(Record) /\ Len(file) \in Nat
  BY LenProperties DEF IndInv, TypeOK
<1>2. CASE lock = None
  <2>1. file \o <<>> = file
    BY <1>1, ConcatEmptySeq
  <2> QED BY <1>1, <1>2, <2>1 DEF IndInv, LogOrder, InFlight
<1>3. CASE lock # None
  <2>1. lock \in Threads /\ hand[lock] \in Record
    BY <1>3 DEF IndInv, TypeOK, LockInv, HandInv
  <2>2. <<hand[lock]>> \in Seq(Record) /\ Len(<<hand[lock]>>) = 1
    BY <2>1
  <2>3. file \o <<hand[lock]>> \in Seq(Record) /\ Len(file \o <<hand[lock]>>) = Len(file) + 1
    BY <1>1, <2>2, ConcatProperties
  <2>4. (file \o <<hand[lock]>>) \o <<>> = file \o <<hand[lock]>>
    BY <2>3, ConcatEmptySeq
  <2> QED BY <1>3, <2>3, <2>4 DEF IndInv, LogOrder, InFlight
<1> QED BY <1>2, <1>3

\* Every step of every thread keeps the invariant.
LEMMA NextInd == IndInv /\ [Next]_vars => IndInv'
<1> SUFFICES ASSUME IndInv, [Next]_vars PROVE IndInv'
  OBVIOUS
<1>1. ASSUME NEW t \in Threads, NEW record \in Record, CheckSize(t, record) PROVE IndInv'
  BY <1>1, CheckSizeInd
<1>2. ASSUME NEW t \in Threads, NEW record \in Record, RefuseFull(t, record) PROVE IndInv'
  <2>1. "failed" \in Pcs /\ own' \in [Threads -> Nat] /\ ~ Flushing(t)
    BY <1>2 DEF Pcs, RefuseFull, IndInv, TypeOK, Flushing
  <2> QED BY <1>2, <2>1, QuietStep DEF RefuseFull
<1>3. ASSUME NEW t \in Threads, AppendLogRecord(t) PROVE IndInv'
  BY <1>3, AppendInd
<1>4. ASSUME NEW t \in Threads, TestEmpty(t) PROVE IndInv'
  <2>1. CASE log_records = <<>>
    <3>1. "sync" \in Pcs /\ own' \in [Threads -> Nat]
      BY <1>4 DEF Pcs, TestEmpty, IndInv, TypeOK
    <3>2. own'[t] <= Len(file) + (IF lock = None THEN 0 ELSE 1)
      BY <1>4, <2>1, NothingBuffered DEF TestEmpty, IndInv, OwnInv
    <3> QED BY <1>4, <2>1, <3>1, <3>2, QuietStep DEF TestEmpty
  <2>2. CASE log_records # <<>>
    <3>1. "lock" \in Pcs /\ own' \in [Threads -> Nat]
      BY <1>4 DEF Pcs, TestEmpty, IndInv, TypeOK
    <3> QED BY <1>4, <2>2, <3>1, QuietStep DEF TestEmpty
  <2> QED BY <2>1, <2>2
<1>5. ASSUME NEW t \in Threads, FoundEmpty(t) PROVE IndInv'
  <2>1. "returned" \in Pcs /\ own' \in [Threads -> Nat] /\ ~ Flushing(t)
    BY <1>5 DEF Pcs, FoundEmpty, IndInv, TypeOK, Flushing
  <2>2. own'[t] <= Len(file) + (IF lock = None THEN 0 ELSE 1)
    BY <1>5, NothingBuffered DEF FoundEmpty, IndInv, OwnInv
  <2> QED BY <1>5, <2>1, <2>2, QuietStep DEF FoundEmpty
<1>6. ASSUME NEW t \in Threads, PopFront(t) PROVE IndInv'
  BY <1>6, PopFrontInd
<1>7. ASSUME NEW t \in Threads, WriteLogRecord(t) PROVE IndInv'
  BY <1>7, WriteInd
<1>8. ASSUME NEW t \in Threads, CountDown(t) PROVE IndInv'
  BY <1>8, CountDownInd
<1>9. ASSUME NEW t \in Threads, Sync(t) \/ SyncFails(t) PROVE IndInv'
  BY <1>9, SyncInd
<1>10. ASSUME NEW t \in Threads, NextStatement(t) PROVE IndInv'
  <2>1. "idle" \in Pcs /\ own' \in [Threads -> Nat] /\ ~ Flushing(t)
    BY <1>10 DEF Pcs, NextStatement, IndInv, TypeOK, Flushing
  <2>2. \A u \in Threads : own'[u] = own[u] \/ own'[u] = 0
    BY <1>10 DEF NextStatement, IndInv, TypeOK
  <2> QED BY <1>10, <2>1, <2>2, QuietStep DEF NextStatement
<1>11. CASE UNCHANGED vars
  BY <1>11 DEF vars, IndInv, TypeOK, LogOrder, InFlight, HandInv, LockInv, SizeInv, Pending,
               Taken, SyncInv, OwnInv, Flushing
<1> QED BY <1>1, <1>2, <1>3, <1>4, <1>5, <1>6, <1>7, <1>8, <1>9, <1>10, <1>11
        DEF Next, Proceed, Call

\* What holds in every state follows from the invariant.
LEMMA IndImplies == IndInv => BufferInv /\ DurableOrInHand
<1> SUFFICES ASSUME IndInv PROVE BufferInv /\ DurableOrInHand
  OBVIOUS
<1>1. SizeBounds
  <2>1. ThreadSum(Pending) \in Nat /\ ThreadSum(Taken) \in Nat /\ SumOf(Lens(log_records)) \in Nat
    BY HandsTyped DEF IndInv
  <2>2. (ThreadCount - 1) * Longest \in Int /\ CLOG_BUFFER_SIZE \in Int
    BY EnumThreads, LongestBounds, LenAssumption
  <2>3. SumOf(Lens(log_records)) <= total_size
    BY <2>1 DEF IndInv, SizeInv
  <2>4. total_size < CLOG_BUFFER_SIZE + (ThreadCount - 1) * Longest
    BY <2>1, <2>2 DEF IndInv, SizeInv, TypeOK
  <2> QED BY <2>3, <2>4 DEF SizeBounds, ThreadCount
<1>2. ASSUME NEW t \in Threads, pc[t] = "returned", own[t] > 0
      PROVE  \/ OnDisk(own[t]) \/ own[t] \in lost
             \/ \E u \in Threads \ {t} : Flushing(u)
  <2>1. ~ Flushing(t)
    BY <1>2 DEF Flushing
  <2>d. CASE own[t] <= synced
    BY <2>d DEF OnDisk
  <2>2. CASE synced < Len(file)
    BY <2>1, <2>2 DEF IndInv, SyncInv
  <2>3. CASE ~ (synced < Len(file)) /\ ~ (own[t] <= synced)
    <3>1. Len(file) \in Nat /\ synced \in Nat /\ own[t] \in Nat
      BY LenProperties DEF IndInv, TypeOK
    <3>2. lock # None
      BY <1>2, <2>3, <3>1 DEF IndInv, SyncInv, OwnInv
    <3>3. lock \in Threads /\ pc[lock] = "write"
      BY <3>2 DEF IndInv, TypeOK, LockInv
    <3> QED BY <2>1, <3>3 DEF Flushing
  <2> QED BY <2>d, <2>2, <2>3
<1> QED BY <1>1, <1>2 DEF IndInv, BufferInv, DurableOrInHand

----------------------------------------------------------------------------
(* Theorems.                                                               *)

\* CLogBuffer and CLogFile: however many threads append and flush, the file followed
\* by the record in the flusher's hand and by the buffer is the log in the order of
\* append; the size count covers the buffer, and exceeds its capacity by less than
\* one record for every other thread.
THEOREM BufferCorrect == Spec => []BufferInv
<1>1. Spec => []IndInv
  BY InitInd, NextInd, PTL DEF Spec
<1> QED BY <1>1, IndImplies, PTL

\* CLogManager::commit_trx: when a commit has been reported, its record is on disk, or
\* a write or an fsync of it failed, or another thread is still inside flush_buffer.
THEOREM DurableCorrect == Spec => []DurableOrInHand
<1>1. Spec => []IndInv
  BY InitInd, NextInd, PTL DEF Spec
<1> QED BY <1>1, IndImplies, PTL
=============================================================================
