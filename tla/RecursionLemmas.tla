--------------------------- MODULE RecursionLemmas ---------------------------
(***************************************************************************)
(* Induction over the natural numbers and functions defined by recursion   *)
(* on them, in a form without operator parameters: what holds of 0 and     *)
(* passes from each number to the next is a set, and a recursion is given  *)
(* by a function of the step and the value before it.                      *)
(***************************************************************************)
EXTENDS Integers, WellFoundedInduction, TLAPS

\* The library's theorem that a well-founded relation has minimal elements, for
\* the numbers.
LEMMA LeastNumber ==
  ASSUME NEW S \in SUBSET Nat, S # {}
  PROVE  \E n \in S : \A m \in S : n <= m
<1>. DEFINE R == {ss \in Nat \X Nat : ss[1] < ss[2]}
<1>1. IsWellFoundedOn(R, Nat)
  BY NatLessThanWellFounded DEF OpToRel
<1>2. \E n \in S : \A m \in S : <<m, n>> \notin R
  <2>. HIDE DEF R
  <2>. QED
    BY <1>1, WFMin
<1>3. ASSUME NEW m \in Nat, NEW n \in Nat, <<m, n>> \notin R
      PROVE  n <= m
  <2>1. <<m, n>> \in Nat \X Nat /\ <<m, n>>[1] = m /\ <<m, n>>[2] = n
    OBVIOUS
  <2>. QED
    BY <1>3, <2>1
<1>. HIDE DEF R
<1>. QED
  BY <1>2, <1>3

LEMMA Induction ==
  ASSUME NEW S, 0 \in S, \A n \in Nat : n \in S => n + 1 \in S
  PROVE  Nat \subseteq S
<1>. DEFINE Bad == {n \in Nat : n \notin S}
<1>. SUFFICES ASSUME Bad # {} PROVE FALSE
  OBVIOUS
<1>1. PICK n \in Bad : \A m \in Bad : n <= m
  BY LeastNumber
<1>2. n # 0 /\ n - 1 \in Nat /\ n - 1 \notin Bad
  BY <1>1
<1>. QED
  BY <1>1, <1>2

\* The first values of the recursion with start a and step g.
Starts(T, a, g, n) ==
  {f \in [0 .. n -> T] : f[0] = a /\ \A i \in 0 .. n - 1 : f[i + 1] = g[<<i, f[i]>>]}

LEMMA StartsExist ==
  ASSUME NEW T, NEW a \in T, NEW g \in [Nat \X T -> T]
  PROVE  \A n \in Nat : Starts(T, a, g, n) # {}
<1>. DEFINE Good == {n \in Nat : Starts(T, a, g, n) # {}}
<1>1. 0 \in Good
  <2>1. [i \in 0 .. 0 |-> a] \in Starts(T, a, g, 0)
    BY DEF Starts
  <2>. QED
    BY <2>1
<1>2. ASSUME NEW n \in Nat, n \in Good
      PROVE  n + 1 \in Good
  <2>1. PICK f \in [0 .. n -> T] : f[0] = a /\ \A i \in 0 .. n - 1 : f[i + 1] = g[<<i, f[i]>>]
    BY <1>2 DEF Starts
  <2>. DEFINE h == [i \in 0 .. n + 1 |-> IF i <= n THEN f[i] ELSE g[<<n, f[n]>>]]
  <2>2. g[<<n, f[n]>>] \in T
    BY <2>1
  <2>3. h \in [0 .. n + 1 -> T]
    BY <2>1, <2>2
  <2>4. h[0] = a
    BY <2>1
  <2>5. ASSUME NEW i \in 0 .. n PROVE h[i + 1] = g[<<i, h[i]>>]
    <3>1. CASE i < n
      BY <2>1, <3>1
    <3>2. CASE i = n
      BY <3>2
    <3>. QED
      BY <3>1, <3>2
  <2>6. h \in Starts(T, a, g, n + 1)
    <3>. HIDE DEF h
    <3>1. (n + 1) - 1 = n
      OBVIOUS
    <3>. QED
      BY <2>3, <2>4, <2>5, <3>1 DEF Starts
  <2>. QED
    BY <2>6
<1>3. Nat \subseteq Good
  <2>. HIDE DEF Good
  <2>. QED
    BY <1>1, <1>2, Induction
<1>. QED
  BY <1>3

LEMMA StartsAgree ==
  ASSUME NEW T, NEW a \in T, NEW g \in [Nat \X T -> T],
         NEW n \in Nat, NEW m \in Nat, NEW f \in Starts(T, a, g, n), NEW h \in Starts(T, a, g, m)
  PROVE  \A i \in Nat : i <= n /\ i <= m => f[i] = h[i]
<1>. DEFINE Good == {i \in Nat : i <= n /\ i <= m => f[i] = h[i]}
<1>1. 0 \in Good
  BY DEF Starts
<1>2. ASSUME NEW i \in Nat, i \in Good
      PROVE  i + 1 \in Good
  <2>. SUFFICES ASSUME i + 1 <= n, i + 1 <= m PROVE f[i + 1] = h[i + 1]
    OBVIOUS
  <2>1. i \in 0 .. n - 1 /\ i \in 0 .. m - 1 /\ f[i] = h[i]
    BY <1>2
  <2>2. f[i + 1] = g[<<i, f[i]>>] /\ h[i + 1] = g[<<i, h[i]>>]
    BY <2>1 DEF Starts
  <2>. QED
    BY <2>1, <2>2
<1>3. Nat \subseteq Good
  <2>. HIDE DEF Good
  <2>. QED
    BY <1>1, <1>2, Induction
<1>. QED
  BY <1>3

\* The functions that follow the recursion; kept as definitions, which the provers
\* need to apply the lemma.
StepsOn(T) == [Nat \X T -> T]

Recursion(T, a, g) ==
  {f \in [Nat -> T] : f[0] = a /\ \A i \in Nat : f[i + 1] = g[<<i, f[i]>>]}

LEMMA RecursionExists ==
  ASSUME NEW T, NEW a \in T, NEW g \in StepsOn(T)
  PROVE  Recursion(T, a, g) # {}
<1>. DEFINE start == [n \in Nat |-> CHOOSE f \in Starts(T, a, g, n) : TRUE]
            F == [n \in Nat |-> start[n][n]]
<1>0. g \in [Nat \X T -> T]
  BY DEF StepsOn
<1>1. \A n \in Nat : start[n] \in Starts(T, a, g, n)
  BY <1>0, StartsExist
<1>. HIDE DEF start
<1>2. F \in [Nat -> T]
  BY <1>1 DEF Starts
<1>3. F[0] = a
  BY <1>1 DEF Starts
<1>4. ASSUME NEW i \in Nat PROVE F[i + 1] = g[<<i, F[i]>>]
  <2>1. start[i + 1][i + 1] = g[<<i, start[i + 1][i]>>]
    <3>1. i \in 0 .. (i + 1) - 1 /\ i + 1 \in Nat
      OBVIOUS
    <3>. QED
      BY <1>1, <3>1 DEF Starts
  <2>2. start[i + 1][i] = start[i][i]
    <3>1. i + 1 \in Nat /\ i <= i + 1 /\ i <= i
      OBVIOUS
    <3>. QED
      BY <1>0, <1>1, <3>1, StartsAgree
  <2>. QED
    BY <2>1, <2>2
<1>5. F \in Recursion(T, a, g)
  <2>. HIDE DEF F
  <2>. QED
    BY <1>2, <1>3, <1>4 DEF Recursion
<1>. QED
  BY <1>5

\* The same up to a bound, as a recursive function over 0 .. n is written.
RecursionUpTo(T, a, g, n) ==
  {f \in [0 .. n -> T] : \A i \in 0 .. n : f[i] = IF i = 0 THEN a ELSE g[<<i - 1, f[i - 1]>>]}

LEMMA RecursionUpToExists ==
  ASSUME NEW T, NEW a \in T, NEW g \in StepsOn(T), NEW n \in Nat
  PROVE  RecursionUpTo(T, a, g, n) # {}
<1>1. PICK F \in [Nat -> T] : F[0] = a /\ \A i \in Nat : F[i + 1] = g[<<i, F[i]>>]
  <2>1. PICK F \in Recursion(T, a, g) : TRUE
    BY RecursionExists
  <2>. QED
    BY <2>1 DEF Recursion
<1>. DEFINE f == [i \in 0 .. n |-> F[i]]
<1>2. f \in [0 .. n -> T]
  BY <1>1
<1>3. ASSUME NEW i \in 0 .. n
      PROVE  f[i] = IF i = 0 THEN a ELSE g[<<i - 1, f[i - 1]>>]
  <2>1. CASE i = 0
    BY <1>1, <2>1
  <2>2. CASE i # 0
    <3>1. i - 1 \in Nat /\ i - 1 \in 0 .. n /\ (i - 1) + 1 = i
      BY <2>2
    <3>2. F[(i - 1) + 1] = g[<<i - 1, F[i - 1]>>]
      BY <1>1, <3>1
    <3>. QED
      BY <2>2, <3>1, <3>2
  <2>. QED
    BY <2>1, <2>2
<1>4. f \in RecursionUpTo(T, a, g, n)
  <2>. HIDE DEF f
  <2>. QED
    BY <1>2, <1>3 DEF RecursionUpTo
<1>. QED
  BY <1>4

\* The last of some places of a sequence.
LEMMA LastPlace ==
  ASSUME NEW n \in Nat, NEW S \in SUBSET (1 .. n), S # {}
  PROVE  \E i \in S : \A j \in S : j <= i
<1>. DEFINE D == {n - i : i \in S}
<1>1. D \in SUBSET Nat /\ D # {}
  <2>1. \A i \in S : n - i \in Nat
    OBVIOUS
  <2>. QED
    BY <2>1
<1>2. PICK d \in D : \A e \in D : d <= e
  <2>. HIDE DEF D
  <2>. QED
    BY <1>1, LeastNumber
<1>3. PICK i \in S : d = n - i
  BY <1>2
<1>4. ASSUME NEW j \in S PROVE j <= i
  <2>1. d <= n - j
    BY <1>2
  <2>. QED
    BY <1>3, <2>1
<1>. QED
  BY <1>4
=============================================================================
