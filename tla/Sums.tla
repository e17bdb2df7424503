-------------------------------- MODULE Sums --------------------------------
(***************************************************************************)
(* The sum of a function with a finite domain, for models that count ether, *)
(* and the facts about it that their proofs need.                           *)
(*                                                                         *)
(* The library's induction theorems take an operator as a parameter; here   *)
(* are the same principles for sets, from the fact that < is well founded   *)
(* on Nat.                                                                  *)
(***************************************************************************)
EXTENDS Integers, Sequences, FiniteSets, Functions,
        WellFoundedInduction, FiniteSetTheorems, SequenceTheorems, TLAPS

SumOf(f) == FoldFunction(+, 0, f)

-----------------------------------------------------------------------------
(* Induction.                                                              *)

LEMMA LeastNatural ==
  ASSUME NEW T \in SUBSET Nat, T # {} PROVE \E x \in T : \A y \in T : x <= y
<1> DEFINE R == {ss \in Nat \X Nat : ss[1] < ss[2]}
<1>1. IsWellFoundedOn(R, Nat)
  BY NatLessThanWellFounded DEF OpToRel
<1>2. ASSUME NEW x \in Nat, NEW y \in Nat PROVE <<y, x>> \in R <=> y < x
  <2>1. <<y, x>> \in Nat \X Nat /\ <<y, x>>[1] = y /\ <<y, x>>[2] = x
    OBVIOUS
  <2> QED
    BY <2>1, Zenon
<1> HIDE DEF R
<1>3. PICK x \in T : \A y \in T : ~(<<y, x>> \in R)
  BY <1>1, WFMin
<1>4. \A y \in T : x \in Nat /\ y \in Nat /\ ~(y < x)
  BY <1>2, <1>3, Zenon
<1> QED
  BY <1>4

LEMMA NatSetInduction ==
  ASSUME NEW N, 0 \in N, \A n \in Nat : n \in N => n + 1 \in N
  PROVE  Nat \subseteq N
<1> SUFFICES ASSUME Nat \ N # {} PROVE FALSE
  OBVIOUS
<1>1. PICK n \in Nat \ N : \A m \in Nat \ N : n <= m
  BY LeastNatural
<1>2. n # 0 /\ n - 1 \in Nat
  BY <1>1
<1>3. n - 1 \in N
  BY <1>1, <1>2
<1>4. (n - 1) + 1 \in N
  BY <1>2, <1>3
<1> QED
  BY <1>1, <1>2, <1>4

AnyOf(s) == CHOOSE x \in s : TRUE
Others(s) == s \ {AnyOf(s)}

LEMMA OthersAre ==
  ASSUME NEW S, IsFiniteSet(S), NEW s \in SUBSET S, s # {}
  PROVE  /\ AnyOf(s) \in s /\ Others(s) \in SUBSET S /\ AnyOf(s) \notin Others(s)
         /\ s = Others(s) \cup {AnyOf(s)}
         /\ Cardinality(s) \in Nat /\ Cardinality(Others(s)) \in Nat
         /\ Cardinality(s) = Cardinality(Others(s)) + 1
<1>1. IsFiniteSet(s) /\ AnyOf(s) \in s
  BY FS_Subset DEF AnyOf
<1>2. Cardinality(s) \in Nat /\ Cardinality(Others(s)) = Cardinality(s) - 1
  BY <1>1, FS_RemoveElement, FS_CardinalityType DEF Others
<1>3. IsFiniteSet(Others(s))
  BY <1>1, FS_Subset DEF Others
<1>4. Cardinality(Others(s)) \in Nat
  BY <1>3, FS_CardinalityType
<1> QED
  BY <1>1, <1>2, <1>4 DEF Others

\* What holds of the empty set, and of a set when it holds of all but one of its
\* elements, holds of every finite set.
LEMMA SubsetInduction ==
  ASSUME NEW S, IsFiniteSet(S), NEW Q, {} \in Q,
         \A s \in SUBSET S : s # {} /\ Others(s) \in Q => s \in Q
  PROVE  SUBSET S \subseteq Q
<1> DEFINE N == {n \in Nat : \A s \in SUBSET S : Cardinality(s) = n => s \in Q}
<1>1. \A s \in SUBSET S : IsFiniteSet(s) /\ Cardinality(s) \in Nat
  BY FS_Subset, FS_CardinalityType
<1>2. 0 \in N
  BY <1>1, FS_EmptySet
<1>3. ASSUME NEW n \in Nat, n \in N PROVE n + 1 \in N
  <2> SUFFICES ASSUME NEW s \in SUBSET S, Cardinality(s) = n + 1 PROVE s \in Q
    OBVIOUS
  <2>1. s # {}
    BY FS_EmptySet
  <2>2. Others(s) \in SUBSET S /\ Cardinality(Others(s)) = n
    BY <2>1, OthersAre
  <2> QED
    BY <1>3, <2>1, <2>2
<1>4. Nat \subseteq N
  <2> HIDE DEF N
  <2> QED
    BY <1>2, <1>3, NatSetInduction
<1> QED
  BY <1>1, <1>4

\* The partial sums of f that SumOf adds up.
Adds(f, g, s) == g[s] = IF s = {} THEN 0 ELSE f[AnyOf(s)] + g[Others(s)]
IsSums(f, g) ==
  g = [s \in SUBSET DOMAIN f |-> IF s = {} THEN 0 ELSE f[AnyOf(s)] + g[Others(s)]]
Sums(f) == CHOOSE g : IsSums(f, g)

LEMMA SumOfIs == \A f : SumOf(f) = Sums(f)[DOMAIN f]
BY DEF SumOf, FoldFunction, FoldFunctionOnSet, MapThenFoldSet, Sums, IsSums, AnyOf, Others

\* Subsets of S of at most n elements.
UpTo(S, n) == {s \in SUBSET S : Cardinality(s) <= n}

LEMMA SumsExist ==
  ASSUME NEW S, IsFiniteSet(S), NEW f \in [S -> Int]
  PROVE  IsSums(f, Sums(f))
<1> DEFINE N == {n \in Nat : \E g : \A s \in UpTo(S, n) : Adds(f, g, s)}
<1>0. IsFiniteSet(S)
  OBVIOUS
<1>1. \A s \in SUBSET S : IsFiniteSet(s) /\ Cardinality(s) \in Nat
  BY <1>0, FS_Subset, FS_CardinalityType
<1>2. 0 \in N
  <2> DEFINE g == [s \in SUBSET S |-> 0]
  <2>1. \A s \in UpTo(S, 0) : s = {} /\ s \in SUBSET S
    BY <1>1, FS_EmptySet DEF UpTo
  <2>2. \A s \in UpTo(S, 0) : Adds(f, g, s)
    BY <2>1 DEF Adds
  <2> QED
    BY <2>2
<1>3. ASSUME NEW n \in Nat, n \in N PROVE n + 1 \in N
  <2>1. PICK g : \A s \in UpTo(S, n) : Adds(f, g, s)
    BY <1>3
  <2> DEFINE h == [s \in SUBSET S |-> IF s = {} THEN 0 ELSE f[AnyOf(s)] + g[Others(s)]]
  <2>2. \A s \in SUBSET S : h[s] = IF s = {} THEN 0 ELSE f[AnyOf(s)] + g[Others(s)]
    OBVIOUS
  <2> HIDE DEF h
  <2>3. \A s \in UpTo(S, n) : h[s] = g[s]
    BY <2>1, <2>2 DEF Adds, UpTo
  <2>4. ASSUME NEW s \in UpTo(S, n + 1) PROVE Adds(f, h, s)
    <3>1. s \in SUBSET S
      BY DEF UpTo
    <3>2. CASE s = {}
      BY <2>2, <3>1, <3>2 DEF Adds
    <3>3. CASE s # {}
      <4>1. Others(s) \in UpTo(S, n)
        BY <1>0, <3>1, <3>3, OthersAre DEF UpTo
      <4> QED
        BY <2>2, <2>3, <3>1, <3>3, <4>1 DEF Adds
    <3> QED
      BY <3>2, <3>3
  <2> QED
    BY <2>4
<1>4. Nat \subseteq N
  <2> HIDE DEF N
  <2> QED
    BY <1>2, <1>3, NatSetInduction
<1>5. PICK g : \A s \in SUBSET S : Adds(f, g, s)
  <2>1. Cardinality(S) \in Nat
    BY <1>1
  <2>2. PICK g : \A s \in UpTo(S, Cardinality(S)) : Adds(f, g, s)
    BY <1>4, <2>1
  <2>3. \A s \in SUBSET S : s \in UpTo(S, Cardinality(S))
    BY <1>0, FS_Subset DEF UpTo
  <2> QED
    BY <2>2, <2>3
<1> DEFINE h == [s \in SUBSET S |-> g[s]]
<1>6. IsSums(f, h)
  <2>1. \A s \in SUBSET S : h[s] = g[s]
    OBVIOUS
  <2>2. \A s \in SUBSET S : Others(s) \in SUBSET S
    BY DEF Others
  <2>3. \A s \in SUBSET S : h[s] = IF s = {} THEN 0 ELSE f[AnyOf(s)] + h[Others(s)]
    BY <1>5, <2>1, <2>2 DEF Adds
  <2>4. h = [s \in SUBSET S |-> h[s]]
    OBVIOUS
  <2> HIDE DEF h
  <2> QED
    BY <2>3, <2>4 DEF IsSums
<1> HIDE DEF h
<1> QED
  BY <1>6 DEF Sums

LEMMA SumsAre ==
  ASSUME NEW S, IsFiniteSet(S), NEW f \in [S -> Int]
  PROVE  /\ Sums(f)[{}] = 0
         /\ \A s \in SUBSET S : s # {} => Sums(f)[s] = f[AnyOf(s)] + Sums(f)[Others(s)]
         /\ \A s \in SUBSET S : Sums(f)[s] \in Int
<1> DEFINE g == Sums(f)
<1>1. g = [s \in SUBSET S |-> IF s = {} THEN 0 ELSE f[AnyOf(s)] + g[Others(s)]]
  BY SumsExist DEF IsSums
<1> HIDE DEF g
<1>2. \A s \in SUBSET S : g[s] = IF s = {} THEN 0 ELSE f[AnyOf(s)] + g[Others(s)]
  BY <1>1
<1> DEFINE Q == {s \in SUBSET S : g[s] \in Int}
<1>3. {} \in Q
  BY <1>2
<1>4. ASSUME NEW s \in SUBSET S, s # {}, Others(s) \in Q PROVE s \in Q
  <2>1. AnyOf(s) \in S
    BY <1>4 DEF AnyOf
  <2> QED
    BY <1>2, <1>4, <2>1
<1>5. SUBSET S \subseteq Q
  <2> HIDE DEF Q
  <2> QED
    BY <1>3, <1>4, SubsetInduction
<1> QED
  BY <1>2, <1>5 DEF g

\* The sum of nothing but zeros.
LEMMA SumZero == ASSUME NEW S, IsFiniteSet(S) PROVE SumOf([a \in S |-> 0]) = 0
<1> DEFINE f == [a \in S |-> 0]
           Q == {s \in SUBSET S : Sums(f)[s] = 0}
<1>1. f \in [S -> Int] /\ DOMAIN f = S /\ \A a \in S : f[a] = 0
  OBVIOUS
<1> HIDE DEF f
<1>2. {} \in Q
  BY <1>1, SumsAre
<1>3. ASSUME NEW s \in SUBSET S, s # {}, Others(s) \in Q PROVE s \in Q
  <2>1. AnyOf(s) \in S
    BY <1>3 DEF AnyOf
  <2> QED
    BY <1>1, <1>3, <2>1, SumsAre
<1>4. SUBSET S \subseteq Q
  <2> HIDE DEF Q
  <2> QED
    BY <1>2, <1>3, SubsetInduction
<1> QED
  BY <1>1, <1>4, SumOfIs DEF f

\* A sum is linear, and no larger when each of its terms is.
LEMMA SumMinus ==
  ASSUME NEW S, IsFiniteSet(S), NEW f \in [S -> Int], NEW g \in [S -> Int]
  PROVE  SumOf([a \in S |-> f[a] - g[a]]) = SumOf(f) - SumOf(g)
<1> DEFINE h == [a \in S |-> f[a] - g[a]]
           Q == {s \in SUBSET S : Sums(h)[s] = Sums(f)[s] - Sums(g)[s]}
<1>1. h \in [S -> Int] /\ DOMAIN h = S /\ \A a \in S : h[a] = f[a] - g[a]
  OBVIOUS
<1> HIDE DEF h
<1>2. {} \in Q
  BY <1>1, SumsAre
<1>3. ASSUME NEW s \in SUBSET S, s # {}, Others(s) \in Q PROVE s \in Q
  <2>1. AnyOf(s) \in S
    BY <1>3 DEF AnyOf
  <2>2. /\ Sums(h)[s] = h[AnyOf(s)] + Sums(h)[Others(s)]
        /\ Sums(f)[s] = f[AnyOf(s)] + Sums(f)[Others(s)]
        /\ Sums(g)[s] = g[AnyOf(s)] + Sums(g)[Others(s)]
    BY <1>1, <1>3, SumsAre
  <2>3. /\ Sums(f)[Others(s)] \in Int /\ Sums(g)[Others(s)] \in Int
        /\ f[AnyOf(s)] \in Int /\ g[AnyOf(s)] \in Int
    BY <1>3, <2>1, SumsAre
  <2>4. Sums(h)[Others(s)] = Sums(f)[Others(s)] - Sums(g)[Others(s)]
    BY <1>3
  <2> QED
    BY <1>1, <2>1, <2>2, <2>3, <2>4
<1>4. SUBSET S \subseteq Q
  <2> HIDE DEF Q
  <2> QED
    BY <1>2, <1>3, SubsetInduction
<1> QED
  BY <1>1, <1>4, SumOfIs DEF h

LEMMA SumMonotone ==
  ASSUME NEW S, IsFiniteSet(S), NEW f \in [S -> Int], NEW g \in [S -> Int],
         \A a \in S : f[a] <= g[a]
  PROVE  SumOf(f) <= SumOf(g)
<1> DEFINE Q == {s \in SUBSET S : Sums(f)[s] <= Sums(g)[s]}
<1>1. {} \in Q
  BY SumsAre
<1>2. ASSUME NEW s \in SUBSET S, s # {}, Others(s) \in Q PROVE s \in Q
  <2>1. AnyOf(s) \in S
    BY <1>2 DEF AnyOf
  <2>2. /\ Sums(f)[s] = f[AnyOf(s)] + Sums(f)[Others(s)]
        /\ Sums(g)[s] = g[AnyOf(s)] + Sums(g)[Others(s)]
    BY <1>2, SumsAre
  <2>3. /\ Sums(f)[Others(s)] \in Int /\ Sums(g)[Others(s)] \in Int
        /\ f[AnyOf(s)] \in Int /\ g[AnyOf(s)] \in Int
    BY <1>2, <2>1, SumsAre
  <2> QED
    BY <1>2, <2>1, <2>2, <2>3
<1>3. SUBSET S \subseteq Q
  <2> HIDE DEF Q
  <2> QED
    BY <1>1, <1>2, SubsetInduction
<1> QED
  BY <1>3, SumOfIs

\* One account's amount changes.
LEMMA SumChange ==
  ASSUME NEW S, IsFiniteSet(S), NEW f \in [S -> Int], NEW b \in S, NEW v \in Int
  PROVE  SumOf([f EXCEPT ![b] = v]) = SumOf(f) - f[b] + v
<1> DEFINE h == [f EXCEPT ![b] = v]
           d(s) == IF b \in s THEN v - f[b] ELSE 0
           Q == {s \in SUBSET S : Sums(h)[s] = Sums(f)[s] + d(s)}
<1>1. /\ h \in [S -> Int] /\ DOMAIN h = S
      /\ \A a \in S : h[a] = IF a = b THEN v ELSE f[a]
  OBVIOUS
<1> HIDE DEF h
<1>2. {} \in Q
  BY <1>1, SumsAre
<1>3. ASSUME NEW s \in SUBSET S, s # {}, Others(s) \in Q PROVE s \in Q
  <2>1. AnyOf(s) \in S /\ (b \in s <=> b \in Others(s) \/ b = AnyOf(s))
        /\ AnyOf(s) \notin Others(s)
    BY <1>3 DEF AnyOf, Others
  <2>2. /\ Sums(h)[s] = h[AnyOf(s)] + Sums(h)[Others(s)]
        /\ Sums(f)[s] = f[AnyOf(s)] + Sums(f)[Others(s)]
    BY <1>1, <1>3, SumsAre
  <2>3. Sums(f)[Others(s)] \in Int /\ f[AnyOf(s)] \in Int /\ f[b] \in Int
    BY <1>3, <2>1, SumsAre
  <2>4. Sums(h)[Others(s)] = Sums(f)[Others(s)] + d(Others(s))
    BY <1>3
  <2>5. Sums(h)[s] = Sums(f)[s] + d(s)
    <3>1. CASE b = AnyOf(s)
      BY <1>1, <2>1, <2>2, <2>3, <2>4, <3>1
    <3>2. CASE b # AnyOf(s)
      BY <1>1, <2>1, <2>2, <2>3, <2>4, <3>2
    <3> QED
      BY <3>1, <3>2
  <2> QED
    BY <2>5
<1>4. SUBSET S \subseteq Q
  <2> HIDE DEF Q
  <2> QED
    BY <1>2, <1>3, SubsetInduction
<1>5. Sums(h)[S] = Sums(f)[S] + (v - f[b])
  BY <1>4
<1>6. SumOf(h) = Sums(h)[S] /\ SumOf(f) = Sums(f)[S]
  BY <1>1, SumOfIs
<1>7. Sums(f)[S] \in Int /\ f[b] \in Int
  BY SumsAre
<1>8. SumOf(h) = SumOf(f) - f[b] + v
  BY <1>5, <1>6, <1>7
<1> QED
  BY <1>8 DEF h

LEMMA SumChanged ==
  ASSUME NEW S, IsFiniteSet(S), NEW f \in [S -> Int], NEW g \in [S -> Int], NEW b \in S,
         \A a \in S : a # b => g[a] = f[a]
  PROVE  SumOf(g) = SumOf(f) - f[b] + g[b]
<1>1. g = [f EXCEPT ![b] = g[b]] /\ g[b] \in Int
  OBVIOUS
<1>2. SumOf([f EXCEPT ![b] = g[b]]) = SumOf(f) - f[b] + g[b]
  <2> DEFINE v == g[b]
  <2>1. v \in Int
    BY <1>1
  <2> HIDE DEF v
  <2>2. SumOf([f EXCEPT ![b] = v]) = SumOf(f) - f[b] + v
    BY <2>1, SumChange
  <2> QED
    BY <2>2 DEF v
<1> QED
  BY <1>1, <1>2

LEMMA SumIsInt == ASSUME NEW S, IsFiniteSet(S), NEW f \in [S -> Int] PROVE SumOf(f) \in Int
BY SumOfIs, SumsAre

\* One term falls by d, and none rises.
LEMMA SumLess ==
  ASSUME NEW S, IsFiniteSet(S), NEW f \in [S -> Int], NEW g \in [S -> Int],
         NEW b \in S, NEW d \in Int, g[b] <= f[b] - d, \A a \in S : a # b => g[a] <= f[a]
  PROVE  SumOf(g) <= SumOf(f) - d
<1> DEFINE v == f[b] - d
           h == [f EXCEPT ![b] = v]
<1>1. v \in Int /\ f[b] \in Int /\ SumOf(f) \in Int /\ SumOf(g) \in Int
  BY SumIsInt
<1>2. h \in [S -> Int] /\ h[b] = v /\ \A a \in S : a # b => h[a] = f[a]
  BY <1>1
<1>3. \A a \in S : g[a] <= h[a]
  BY <1>2
<1>4. SumOf(f) - f[b] + v = SumOf(f) - d
  BY <1>1
<1> HIDE DEF v
<1>5. SumOf(h) = SumOf(f) - f[b] + v
  BY <1>1, SumChange
<1> HIDE DEF h
<1>6. SumOf(g) <= SumOf(h)
  BY <1>2, <1>3, SumMonotone
<1> QED
  BY <1>4, <1>5, <1>6

\* One term falls by what another rises by.
LEMMA SumMoved ==
  ASSUME NEW S, IsFiniteSet(S), NEW f \in [S -> Int], NEW g \in [S -> Int],
         NEW b \in S, NEW c \in S, b # c, NEW d \in Int, g[b] <= f[b] - d, g[c] <= f[c] + d,
         \A a \in S : a # b /\ a # c => g[a] <= f[a]
  PROVE  SumOf(g) <= SumOf(f)
<1> DEFINE v == f[c] + d
           h == [f EXCEPT ![c] = v]
<1>1. v \in Int /\ f[c] \in Int /\ SumOf(f) \in Int /\ SumOf(g) \in Int
  BY SumIsInt
<1>2. h \in [S -> Int] /\ h[c] = v /\ \A a \in S : a # c => h[a] = f[a]
  BY <1>1
<1>3. SumOf(f) - f[c] + v = SumOf(f) + d
  BY <1>1
<1>4. g[b] <= h[b] - d /\ \A a \in S : a # b => g[a] <= h[a]
  BY <1>2
<1> HIDE DEF v
<1>5. SumOf(h) = SumOf(f) - f[c] + v
  BY <1>1, SumChange
<1> HIDE DEF h
<1>6. SumOf(g) <= SumOf(h) - d
  BY <1>2, <1>4, SumLess
<1>7. SumOf(h) = SumOf(f) + d
  BY <1>3, <1>5
<1> QED
  BY <1>1, <1>6, <1>7


\* d for each of the elements of T.
LEMMA SumOfSame ==
  ASSUME NEW S, IsFiniteSet(S), NEW T \in SUBSET S, NEW d \in Nat
  PROVE  SumOf([a \in S |-> IF a \in T THEN d ELSE 0]) = Cardinality(T) * d
<1> DEFINE f == [a \in S |-> IF a \in T THEN d ELSE 0]
           Q == {s \in SUBSET S : Sums(f)[s] = Cardinality(s \cap T) * d}
<1>1. /\ f \in [S -> Int] /\ DOMAIN f = S
      /\ \A a \in S : f[a] = IF a \in T THEN d ELSE 0
  OBVIOUS
<1> HIDE DEF f
<1>2. {} \in Q
  <2>1. Sums(f)[{}] = 0
    BY <1>1, SumsAre
  <2>2. {} \cap T = {} /\ Cardinality({}) = 0 /\ 0 * d = 0
    BY FS_EmptySet
  <2> QED
    BY <2>1, <2>2
<1>3. ASSUME NEW s \in SUBSET S, s # {}, Others(s) \in Q PROVE s \in Q
  <2>1. AnyOf(s) \in s /\ AnyOf(s) \in S /\ Others(s) \in SUBSET S
    BY <1>3 DEF AnyOf, Others
  <2>2. Sums(f)[s] = f[AnyOf(s)] + Cardinality(Others(s) \cap T) * d
    BY <1>1, <1>3, SumsAre
  <2>3. IsFiniteSet(s \cap T) /\ IsFiniteSet(Others(s) \cap T)
    BY <2>1, FS_Subset
  <2>4. Cardinality(s \cap T) \in Nat /\ Cardinality(Others(s) \cap T) \in Nat
    BY <2>3, FS_CardinalityType
  <2>5. CASE AnyOf(s) \in T
    <3>1. Others(s) \cap T = (s \cap T) \ {AnyOf(s)} /\ AnyOf(s) \in s \cap T
      BY <2>1, <2>5 DEF Others
    <3>2. Cardinality(Others(s) \cap T) = Cardinality(s \cap T) - 1
      <4>1. Cardinality((s \cap T) \ {AnyOf(s)}) = Cardinality(s \cap T) - 1
        BY <2>3, <3>1, FS_RemoveElement
      <4> QED
        BY <3>1, <4>1
    <3>3. \A k \in Nat : d + (k - 1) * d = k * d
      OBVIOUS
    <3> QED
      BY <1>1, <2>1, <2>2, <2>4, <2>5, <3>2, <3>3
  <2>6. CASE AnyOf(s) \notin T
    <3>1. Others(s) \cap T = s \cap T
      BY <2>1, <2>6 DEF Others
    <3>2. \A k \in Nat : 0 + k * d = k * d
      OBVIOUS
    <3> QED
      BY <1>1, <2>1, <2>2, <2>4, <2>6, <3>1, <3>2
  <2> QED
    BY <2>5, <2>6
<1>4. SUBSET S \subseteq Q
  <2> HIDE DEF Q
  <2> QED
    BY <1>2, <1>3, SubsetInduction
<1>5. S \cap T = T
  OBVIOUS
<1> QED
  BY <1>1, <1>4, <1>5, SumOfIs DEF f

\* A finite set of numbers has a greatest one.
LEMMA GreatestIs ==
  ASSUME NEW S \in SUBSET Nat, IsFiniteSet(S), S # {}
  PROVE  \E m \in S : \A k \in S : k <= m
<1> DEFINE Q == {s \in SUBSET S : s # {} => \E m \in s : \A k \in s : k <= m}
<1>1. {} \in Q
  OBVIOUS
<1>2. ASSUME NEW s \in SUBSET S, s # {}, Others(s) \in Q PROVE s \in Q
  <2>1. AnyOf(s) \in s /\ s = Others(s) \cup {AnyOf(s)} /\ s \subseteq Nat
    BY <1>2 DEF AnyOf, Others
  <2>2. CASE Others(s) = {}
    <3>1. \A k \in s : k <= AnyOf(s)
      BY <2>1, <2>2
    <3> QED
      BY <2>1, <3>1
  <2>3. CASE Others(s) # {}
    <3>1. PICK m \in Others(s) : \A k \in Others(s) : k <= m
      BY <1>2, <2>3
    <3>4. /\ m \in Nat /\ m \in s /\ AnyOf(s) \in Nat
          /\ \A k \in s : k \in Nat /\ (k = AnyOf(s) \/ k <= m)
      BY <2>1, <3>1
    <3>2. CASE m <= AnyOf(s)
      <4>1. \A k \in s : k <= AnyOf(s)
        BY <3>4, <3>2
      <4> QED
        BY <2>1, <4>1
    <3>3. CASE ~(m <= AnyOf(s))
      <4>1. m \in s /\ \A k \in s : k <= m
        BY <3>4, <3>3
      <4> QED
        BY <4>1
    <3> QED
      BY <3>2, <3>3
  <2> QED
    BY <2>2, <2>3
<1>3. SUBSET S \subseteq Q
  <2> HIDE DEF Q
  <2> QED
    BY <1>1, <1>2, SubsetInduction
<1>4. S \in Q
  BY <1>3
<1> QED
  BY <1>4

-----------------------------------------------------------------------------
(* Sums over parts of a domain, and over sequences.                        *)

\* The terms of f in s, the others nothing.
Masked(f, s) == [a \in DOMAIN f |-> IF a \in s THEN f[a] ELSE 0]

LEMMA SumPart ==
  ASSUME NEW T, IsFiniteSet(T), NEW f \in [T -> Int], NEW S \in SUBSET T
  PROVE  SumOf([a \in S |-> f[a]]) = SumOf(Masked(f, S))
<1> DEFINE g == [a \in S |-> f[a]]
<1>1. IsFiniteSet(S) /\ g \in [S -> Int] /\ DOMAIN g = S /\ \A a \in S : g[a] = f[a]
  BY FS_Subset
<1> HIDE DEF g
<1>2. Sums(g)[S] = Sums(f)[S]
  <2> DEFINE Q == {s \in SUBSET S : Sums(g)[s] = Sums(f)[s]}
  <2>1. {} \in Q
    BY <1>1, SumsAre
  <2>2. ASSUME NEW s \in SUBSET S, s # {}, Others(s) \in Q PROVE s \in Q
    <3>1. AnyOf(s) \in S /\ s \in SUBSET T
      BY <2>2 DEF AnyOf
    <3>2. Sums(g)[s] = g[AnyOf(s)] + Sums(g)[Others(s)]
      BY <1>1, <2>2, SumsAre
    <3>3. Sums(f)[s] = f[AnyOf(s)] + Sums(f)[Others(s)]
      BY <2>2, <3>1, SumsAre
    <3> QED
      BY <1>1, <2>2, <3>1, <3>2, <3>3
  <2>3. SUBSET S \subseteq Q
    <3> HIDE DEF Q
    <3> QED
      BY <1>1, <2>1, <2>2, SubsetInduction
  <2> QED
    BY <2>3
<1>3. Sums(f)[S] = SumOf(Masked(f, S))
  <2> DEFINE Q == {s \in SUBSET S : Sums(f)[s] = SumOf(Masked(f, s))}
  <2>1. {} \in Q
    <3>1. Masked(f, {}) = [a \in T |-> 0]
      BY DEF Masked
    <3> QED
      BY <3>1, SumZero, SumsAre
  <2>2. ASSUME NEW s \in SUBSET S, s # {}, Others(s) \in Q PROVE s \in Q
    <3> DEFINE b == AnyOf(s)
               m == Masked(f, Others(s))
    <3>1. b \in s /\ b \in T /\ s \in SUBSET T /\ b \notin Others(s) /\ s = Others(s) \cup {b}
      BY <2>2 DEF AnyOf, Others
    <3>2. m \in [T -> Int] /\ m[b] = 0 /\ f[b] \in Int
      BY <3>1 DEF Masked
    <3>3. Masked(f, s) = [m EXCEPT ![b] = f[b]]
      BY <3>1 DEF Masked
    <3> HIDE DEF m, b
    <3>4. SumOf(Masked(f, s)) = SumOf(m) - m[b] + f[b]
      <4>1. SumOf([m EXCEPT ![b] = f[b]]) = SumOf(m) - m[b] + f[b]
        BY <3>1, <3>2, SumChange
      <4> QED
        BY <3>3, <4>1
    <3>5. SumOf(m) \in Int
      BY <3>2, SumIsInt
    <3>6. Sums(f)[s] = f[b] + Sums(f)[Others(s)]
      BY <2>2, <3>1, SumsAre DEF b
    <3>7. Sums(f)[Others(s)] = SumOf(m)
      BY <2>2 DEF m
    <3>8. Sums(f)[s] = SumOf(Masked(f, s))
      BY <3>2, <3>4, <3>5, <3>6, <3>7
    <3> QED
      BY <3>8
  <2>3. SUBSET S \subseteq Q
    <3> HIDE DEF Q
    <3> QED
      BY <1>1, <2>1, <2>2, SubsetInduction
  <2> QED
    BY <2>3
<1> QED
  BY <1>1, <1>2, <1>3, SumOfIs DEF g

\* One more term.
LEMMA SumAdd ==
  ASSUME NEW S, IsFiniteSet(S), NEW b, b \notin S, NEW f \in [S \cup {b} -> Int]
  PROVE  SumOf(f) = SumOf([a \in S |-> f[a]]) + f[b]
<1> DEFINE T == S \cup {b}
<1>1. IsFiniteSet(T) /\ S \in SUBSET T /\ b \in T
  BY FS_AddElement
<1>2. Masked(f, S) = [f EXCEPT ![b] = 0]
  BY DEF Masked
<1> HIDE DEF T
<1>3. f \in [T -> Int]
  BY DEF T
<1>4. SumOf([f EXCEPT ![b] = 0]) = SumOf(f) - f[b]
  <2> DEFINE v == 0
  <2>1. v \in Int /\ f[b] \in Int /\ SumOf(f) \in Int
    BY <1>1, <1>3, SumIsInt
  <2>2. SumOf(f) - f[b] + v = SumOf(f) - f[b]
    BY <2>1
  <2> HIDE DEF v
  <2>3. SumOf([f EXCEPT ![b] = v]) = SumOf(f) - f[b] + v
    BY <1>1, <1>3, <2>1, SumChange
  <2>4. SumOf([f EXCEPT ![b] = v]) = SumOf(f) - f[b]
    BY <2>2, <2>3
  <2> QED
    BY <2>4 DEF v
<1>5. SumOf([a \in S |-> f[a]]) = SumOf(Masked(f, S))
  BY <1>1, <1>3, SumPart
<1>6. f[b] \in Int /\ SumOf(f) \in Int
  BY <1>1, <1>3, SumIsInt
<1> QED
  BY <1>2, <1>4, <1>5, <1>6

LEMMA SumAdded ==
  ASSUME NEW S, IsFiniteSet(S), NEW b, b \notin S,
         NEW f \in [S \cup {b} -> Int], NEW g \in [S -> Int], \A a \in S : f[a] = g[a]
  PROVE  SumOf(f) = SumOf(g) + f[b]
<1>1. [a \in S |-> f[a]] = g
  OBVIOUS
<1>2. SumOf(f) = SumOf([a \in S |-> f[a]]) + f[b]
  BY SumAdd
<1> QED
  BY <1>1, <1>2

LEMMA SumAppend ==
  ASSUME NEW s \in Seq(Int), NEW x \in Int
  PROVE  SumOf(Append(s, x)) = SumOf(s) + x
<1> DEFINE n == Len(s)
           f == Append(s, x)
<1>1. n \in Nat /\ DOMAIN s = 1..n /\ n + 1 \notin 1..n /\ s \in [1..n -> Int]
  BY LenProperties
<1>2. DOMAIN f = (1..n) \cup {n + 1} /\ f[n + 1] = x /\ \A i \in 1..n : f[i] = s[i]
  BY <1>1, AppendProperties
<1>3. IsFiniteSet(1..n)
  BY <1>1, FS_Interval
<1>4. f \in [(1..n) \cup {n + 1} -> Int]
  <2>1. f \in Seq(Int) /\ Len(f) = n + 1
    BY AppendProperties
  <2> QED
    BY <1>2, <2>1, LenProperties
<1>5. [i \in 1..n |-> f[i]] = s
  BY <1>1, <1>2
<1> HIDE DEF f, n
<1>6. SumOf(f) = SumOf(s) + f[n + 1]
  BY <1>1, <1>3, <1>4, <1>5, SumAdd
<1> QED
  BY <1>2, <1>6 DEF f

LEMMA SumEmpty == SumOf(<<>>) = 0
<1>1. <<>> = [a \in {} |-> 0]
  OBVIOUS
<1> QED
  BY <1>1, SumZero, FS_EmptySet

LEMMA SumSeqIsInt == ASSUME NEW s \in Seq(Int) PROVE SumOf(s) \in Int
<1>1. Len(s) \in Nat /\ s \in [1..Len(s) -> Int]
  BY LenProperties
<1> QED
  BY <1>1, FS_Interval, SumIsInt

LEMMA SumHead ==
  ASSUME NEW s \in Seq(Int), s # <<>>
  PROVE  SumOf(s) = Head(s) + SumOf(Tail(s))
<1> DEFINE First(q) == SumOf(q) = Head(q) + SumOf(Tail(q))
           N == {n \in Nat : \A q \in Seq(Int) : Len(q) = n /\ q # <<>> => First(q)}
<1>1. 0 \in N
  BY EmptySeq
<1>2. ASSUME NEW n \in Nat, n \in N PROVE n + 1 \in N
  <2> SUFFICES ASSUME NEW q \in Seq(Int), Len(q) = n + 1, q # <<>> PROVE First(q)
    OBVIOUS
  <2>1. PICK p \in Seq(Int), x \in Int : q = Append(p, x)
    BY SequenceEmptyOrAppend
  <2>2. SumOf(q) = SumOf(p) + x
    BY <2>1, SumAppend
  <2>3. Len(p) = n
    <3>1. Len(p) \in Nat /\ Len(Append(p, x)) = Len(p) + 1
      BY LenProperties, AppendProperties
    <3> QED
      BY <2>1, <3>1
  <2>4. CASE p = <<>>
    <3>1. Head(q) = x /\ Tail(q) = <<>>
      BY <2>1, <2>4, HeadTailAppend
    <3>2. SumOf(q) = 0 + x /\ SumOf(Tail(q)) = 0
      BY <2>2, <2>4, <3>1, SumEmpty
    <3>3. 0 + x = x + 0 /\ x \in Int
      BY <2>1
    <3> QED
      BY <3>1, <3>2, <3>3
  <2>5. CASE p # <<>>
    <3>1. Head(q) = Head(p) /\ Tail(q) = Append(Tail(p), x)
      BY <2>1, <2>5, HeadTailAppend
    <3>2. Tail(p) \in Seq(Int) /\ Head(p) \in Int
      BY <2>5, HeadTailProperties
    <3>3. SumOf(p) = Head(p) + SumOf(Tail(p))
      BY <1>2, <2>3, <2>5
    <3>4. SumOf(Append(Tail(p), x)) = SumOf(Tail(p)) + x /\ SumOf(Tail(p)) \in Int
      BY <3>2, SumAppend, SumSeqIsInt
    <3>5. SumOf(q) = (Head(p) + SumOf(Tail(p))) + x
      BY <2>2, <3>3
    <3>6. SumOf(Tail(q)) = SumOf(Tail(p)) + x
      BY <3>1, <3>4
    <3>7. (Head(p) + SumOf(Tail(p))) + x = Head(p) + (SumOf(Tail(p)) + x)
      <4>1. x \in Int
        BY <2>1
      <4> QED
        BY <3>2, <3>4, <4>1
    <3> QED
      BY <3>1, <3>5, <3>6, <3>7
  <2> QED
    BY <2>4, <2>5
<1>3. Nat \subseteq N
  <2> HIDE DEF N
  <2> QED
    BY <1>1, <1>2, NatSetInduction
<1> QED
  BY <1>3, LenProperties

=============================================================================
