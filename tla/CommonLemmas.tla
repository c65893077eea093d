---------------------------- MODULE CommonLemmas -----------------------------
(***************************************************************************)
(* Facts that the proofs share: on products and indexes, on sums over      *)
(* finite sets (SumFunction), on sequences and their filters, and the      *)
(* induction principles behind them.                                       *)
(***************************************************************************)
EXTENDS Integers, Sequences, FiniteSets, Functions, Filters,
        FiniteSetTheorems, SequenceTheorems, WellFoundedInduction, TLAPS

\* Products with a common factor are ordered as the other factors.
LEMMA MulMono ==
  ASSUME NEW a \in Nat, NEW b \in Nat, NEW c \in Nat, a <= b
  PROVE  c * a <= c * b
  OBVIOUS

\* Quotient and remainder, for a divisor that is not a number.
LEMMA DivMod ==
  ASSUME NEW x \in Nat, NEW k \in Nat, k > 0
  PROVE  /\ x \div k \in Nat /\ x % k \in Nat
         /\ x % k < k
         /\ x = (x \div k) * k + (x % k)
         /\ x \div k <= x
  OBVIOUS

\* A remainder of a small number is the number.
LEMMA SmallMod ==
  ASSUME NEW x \in Nat, NEW k \in Nat, x < k
  PROVE  x % k = x
  OBVIOUS

\* A row and a column of a table give an index of its flattened array.
LEMMA IndexInRange ==
  ASSUME NEW d \in Nat \ {0}, NEW f \in Nat \ {0},
         NEW i \in 0..(d - 1), NEW p \in 0..(f - 1)
  PROVE  i * f + p \in 0..(d * f - 1)
<1>1. i * f \in Nat /\ d * f \in Nat
  OBVIOUS
<1>2. (i + 1) * f <= d * f
  <2>1. f * (i + 1) <= f * d
    BY MulMono, i + 1 \in Nat, i + 1 <= d
  <2> QED
    BY <2>1
<1>3. (i + 1) * f = i * f + f
  OBVIOUS
<1> QED
  BY <1>1, <1>2, <1>3

\* What a poll takes from a ring, and what it leaves, are sequences of packets.
LEMMA SubSeqType ==
  ASSUME NEW S, NEW s \in Seq(S), NEW m \in Nat, NEW n \in Nat,
         m >= 1, n <= Len(s)
  PROVE  SubSeq(s, m, n) \in Seq(S)
  OBVIOUS

\* What SubSeq selects, by its length.
LEMMA SubSeqLen ==
  ASSUME NEW S, NEW s \in Seq(S), NEW m \in Nat, NEW n \in Nat,
         m >= 1, n <= Len(s), m <= n + 1
  PROVE  Len(SubSeq(s, m, n)) = n + 1 - m
  OBVIOUS

\* The rows of a table do not overlap in the flattened array: queues that main
\* gives to different workers are different.
LEMMA RowsDisjoint ==
  ASSUME NEW f \in Nat, NEW v \in Nat, NEW w \in Nat, v < w,
         NEW i \in 0..(f - 1), NEW j \in 0..(f - 1)
  PROVE  v * f + i < w * f + j
<1>1. v * f \in Nat /\ w * f \in Nat
  OBVIOUS
<1>2. (v + 1) * f <= w * f
  <2>1. f * (v + 1) <= f * w
    BY MulMono, v + 1 \in Nat, v + 1 <= w
  <2> QED
    BY <2>1
<1>3. (v + 1) * f = v * f + f
  OBVIOUS
<1> QED
  BY <1>1, <1>2, <1>3

-----------------------------------------------------------------------------
(* Induction.  The library's induction theorems take an operator, which no   *)
(* prover here can instantiate; these take the set of the values for which   *)
(* the fact holds, and rest on the least element of a set of naturals.       *)

\* A set of naturals that is not empty has a least element.
LEMMA LeastNat ==
  ASSUME NEW T, T \subseteq Nat, T # {}
  PROVE  \E m \in T : \A n \in T : m <= n
<1> DEFINE R == OpToRel(<, Nat)
<1>1. IsWellFoundedOn(R, Nat)
  BY NatLessThanWellFounded
<1>2. \A y, x \in Nat : y < x => <<y, x>> \in R
  BY DEF OpToRel
<1> HIDE DEF R
<1>3. PICK m \in T : \A n \in T : ~ (<<n, m>> \in R)
  BY <1>1, WFMin
<1>4. \A n \in T : ~(n < m)
  BY <1>2, <1>3
<1> QED
  BY <1>4

\* A set that holds 0 and with every number the next one holds all naturals.
LEMMA NatInd ==
  ASSUME NEW S, 0 \in S, \A n \in Nat : n \in S => n + 1 \in S
  PROVE  Nat \subseteq S
<1> SUFFICES ASSUME ~(Nat \subseteq S) PROVE FALSE
  OBVIOUS
<1> DEFINE T == {n \in Nat : n \notin S}
<1>1. T \subseteq Nat /\ T # {}
  OBVIOUS
<1>2. PICK m \in T : \A n \in T : m <= n
  <2> HIDE DEF T
  <2> QED BY <1>1, LeastNat
<1>3. m # 0 /\ m - 1 \in Nat /\ m - 1 \notin T
  BY <1>2
<1> QED
  BY <1>3

\* The element of a set that a sum takes next.
Some(s) == CHOOSE x \in s : TRUE

\* The element chosen is an element.
LEMMA SomeIn == \A s : s # {} => Some(s) \in s
  BY DEF Some

\* g sums f over the subsets of D in W.
Sums(g, f, W) ==
  g = [s \in W |-> IF s = {} THEN 0 ELSE f[Some(s)] + g[s \ {Some(s)}]]

\* The sums of f over all subsets of D.
PartialSums(f, D) == CHOOSE g : Sums(g, f, SUBSET D)

\* SumFunction of the community modules computes the sums of all subsets.
LEMMA SumIsPartial ==
  ASSUME NEW f
  PROVE  SumFunction(f) = PartialSums(f, DOMAIN f)[DOMAIN f]
  BY DEF SumFunction, SumFunctionOnSet, FoldFunctionOnSet, MapThenFoldSet, PartialSums, Sums, Some

\* A subset without the element chosen is smaller by one.
LEMMA SmallerSubset ==
  ASSUME NEW D, IsFiniteSet(D), NEW s \in SUBSET D, s # {}
  PROVE  /\ s \ {Some(s)} \in SUBSET D
         /\ Cardinality(s \ {Some(s)}) = Cardinality(s) - 1
         /\ Cardinality(s) \in Nat /\ Cardinality(s) > 0 
<1>1. IsFiniteSet(s) /\ Some(s) \in s
  BY FS_Subset, SomeIn
<1> QED
  BY <1>1, FS_RemoveElement, FS_CardinalityType, FS_EmptySet

\* What holds of the empty set, and of a set if it holds without the element
\* that is taken next, holds of every subset of a finite set.
LEMMA SubsetInd ==
  ASSUME NEW D, IsFiniteSet(D), NEW Z, {} \in Z,
         \A s \in SUBSET D : s # {} /\ s \ {Some(s)} \in Z => s \in Z
  PROVE  SUBSET D \subseteq Z
<1> DEFINE P(n) == \A s \in SUBSET D : Cardinality(s) <= n => s \in Z
           G == {n \in Nat : P(n)}
<1>1. P(0)
  <2> SUFFICES ASSUME NEW s \in SUBSET D, Cardinality(s) <= 0
               PROVE  s \in Z
    OBVIOUS
  <2>1. Cardinality(s) \in Nat /\ (Cardinality(s) = 0 => s = {})
    BY FS_Subset, FS_CardinalityType, FS_EmptySet
  <2>2. Cardinality(s) = 0
    BY <2>1
  <2> QED
    BY <2>1, <2>2
<1>2. ASSUME NEW n \in Nat, P(n) PROVE P(n + 1)
  <2> SUFFICES ASSUME NEW s \in SUBSET D, Cardinality(s) <= n + 1, s # {}
               PROVE  s \in Z
    OBVIOUS
  <2>1. /\ s \ {Some(s)} \in SUBSET D
        /\ Cardinality(s \ {Some(s)}) = Cardinality(s) - 1
        /\ Cardinality(s) \in Nat
    BY SmallerSubset
  <2>2. Cardinality(s \ {Some(s)}) <= n
    BY <2>1
  <2> QED
    BY <1>2, <2>1, <2>2
<1>3. \A n \in Nat : P(n)
  <2> HIDE DEF P
  <2>1. 0 \in G /\ \A n \in Nat : n \in G => n + 1 \in G
    BY <1>1, <1>2
  <2>2. Nat \subseteq G
    <3> HIDE DEF G
    <3> QED
      BY <2>1, NatInd
  <2> QED
    BY <2>2
<1> QED
  BY <1>3, FS_Subset, FS_CardinalityType

\* The recursion of SumFunction defines a sum for every subset of a finite set.
LEMMA PartialSumsExist ==
  ASSUME NEW D, IsFiniteSet(D), NEW f \in [D -> Int]
  PROVE  /\ PartialSums(f, D) \in [SUBSET D -> Int]
         /\ PartialSums(f, D)[{}] = 0
         /\ \A s \in SUBSET D : s # {} =>
              PartialSums(f, D)[s] = f[Some(s)] + PartialSums(f, D)[s \ {Some(s)}]
<1> DEFINE W(n) == {s \in SUBSET D : Cardinality(s) <= n}
           P(n) == \E g \in [W(n) -> Int] : Sums(g, f, W(n))
           G == {n \in Nat : P(n)}
<1>1. \A s \in SUBSET D : Cardinality(s) \in Nat /\ (Cardinality(s) = 0 <=> s = {})
  BY FS_Subset, FS_CardinalityType, FS_EmptySet
<1>2. P(0)
  <2> DEFINE g == [s \in W(0) |-> 0]
  <2>1. \A s \in W(0) : s = {}
    BY <1>1
  <2>2. g \in [W(0) -> Int] /\ Sums(g, f, W(0))
    BY <2>1 DEF Sums
  <2> QED
    BY <2>2
<1>3. ASSUME NEW n \in Nat, P(n)
      PROVE  P(n + 1)
  <2>1. PICK g \in [W(n) -> Int] : Sums(g, f, W(n))
    BY <1>3
  <2> DEFINE h == [s \in W(n + 1) |-> IF s = {} THEN 0 ELSE f[Some(s)] + g[s \ {Some(s)}]]
  <2>2. \A s \in W(n + 1) : s # {} => s \ {Some(s)} \in W(n) /\ Some(s) \in D
    BY SmallerSubset, SomeIn
  <2>3. \A s \in W(n) : s \in W(n+1)
    BY <1>1
  <2>4. \A s \in W(n) : h[s] = g[s]
    BY <2>1, <2>3 DEF Sums
  <2>5. h \in [W(n + 1) -> Int]
    BY <2>2
  <2>6. Sums(h, f, W(n + 1))
    BY <2>2, <2>4 DEF Sums
  <2> HIDE DEF h, W
  <2> QED
    BY <2>5, <2>6
<1>4. P(Cardinality(D))
  <2> HIDE DEF P
  <2>1. 0 \in G /\ \A n \in Nat : n \in G => n + 1 \in G
    BY <1>2, <1>3
  <2>2. Nat \subseteq G
    <3> HIDE DEF G
    <3> QED BY <2>1, NatInd
  <2> QED BY <2>2, FS_CardinalityType
<1>5. W(Cardinality(D)) = SUBSET D
  BY FS_Subset, FS_CardinalityType
<1>6. \E g \in [SUBSET D -> Int] : Sums(g, f, SUBSET D)
  BY <1>4, <1>5
<1> DEFINE F == PartialSums(f, D)
<1>7. Sums(F, f, SUBSET D)
  BY <1>6 DEF PartialSums
<1> HIDE DEF F
<1>8. /\ F = [s \in SUBSET D |-> F[s]] /\ F[{}] = 0
      /\ \A s \in SUBSET D : s # {} => F[s] = f[Some(s)] + F[s \ {Some(s)}]
  BY <1>7 DEF Sums
<1> DEFINE Z == {s \in SUBSET D : F[s] \in Int}
<1>9. {} \in Z
  BY <1>8
<1>10. ASSUME NEW s \in SUBSET D, s # {}, s \ {Some(s)} \in Z PROVE s \in Z
  <2>1. f[Some(s)] \in Int /\ F[s] = f[Some(s)] + F[s \ {Some(s)}]
    BY <1>8, <1>10, SomeIn
  <2> QED
    BY <1>10, <2>1
<1>11. SUBSET D \subseteq Z
  <2> HIDE DEF Z
  <2> QED
    BY <1>9, <1>10, SubsetInd
<1>12. F \in [SUBSET D -> Int]
  BY <1>8, <1>11
<1> QED
  BY <1>8, <1>12 DEF F

\* A sum of integers is an integer.
LEMMA SumOfInts ==
  ASSUME NEW D, IsFiniteSet(D), NEW f \in [D -> Int]
  PROVE  SumFunction(f) \in Int
<1>1. PartialSums(f, D) \in [SUBSET D -> Int] /\ D \in SUBSET D
  BY PartialSumsExist
<1>2. PartialSums(f, D)[D] \in Int
  BY <1>1
<1> QED
  BY <1>2, SumIsPartial

\* A sum of natural numbers is one, and a sum of zeros is zero.
LEMMA SumOfNats ==
  ASSUME NEW D, IsFiniteSet(D), NEW f \in [D -> Nat]
  PROVE  /\ SumFunction(f) \in Nat
         /\ (\A x \in D : f[x] = 0) => SumFunction(f) = 0
<1> DEFINE F == PartialSums(f, D)
           Z == {s \in SUBSET D : F[s] \in Nat /\ ((\A x \in D : f[x] = 0) => F[s] = 0)}
<1>1. /\ F[{}] = 0
      /\ \A s \in SUBSET D : s # {} => F[s] = f[Some(s)] + F[s \ {Some(s)}]
  <2>1. f \in [D -> Int]
    OBVIOUS
  <2> QED
    BY <2>1, PartialSumsExist
<1> HIDE DEF F
<1>2. {} \in Z
  BY <1>1
<1>3. ASSUME NEW s \in SUBSET D, s # {}, s \ {Some(s)} \in Z PROVE s \in Z
  <2>1. f[Some(s)] \in Nat /\ F[s] = f[Some(s)] + F[s \ {Some(s)}] /\ Some(s) \in D
    BY <1>1, <1>3, SomeIn
  <2> QED
    BY <1>3, <2>1
<1>4. D \in Z
  <2> HIDE DEF Z
  <2> QED
    BY <1>2, <1>3, SubsetInd
<1> QED
  BY <1>4, SumIsPartial DEF F

\* A sum changes by what its one changed summand changes.
LEMMA SumUpdate ==
  ASSUME NEW D, IsFiniteSet(D), NEW f \in [D -> Int], NEW e \in [D -> Int],
         NEW v \in D, \A x \in D \ {v} : e[x] = f[x]
  PROVE  SumFunction(e) = SumFunction(f) + (e[v] - f[v])
<1> DEFINE F == PartialSums(f, D)
           E == PartialSums(e, D)
           d(s) == IF v \in s THEN e[v] - f[v] ELSE 0
           Z == {s \in SUBSET D : E[s] = F[s] + d(s)}
<1>1. /\ F \in [SUBSET D -> Int] /\ E \in [SUBSET D -> Int]
      /\ F[{}] = 0 /\ E[{}] = 0
      /\ \A s \in SUBSET D : s # {} => /\ F[s] = f[Some(s)] + F[s \ {Some(s)}]
                                       /\ E[s] = e[Some(s)] + E[s \ {Some(s)}]
  BY PartialSumsExist
<1> HIDE DEF F, E
<1>2. {} \in Z
  BY <1>1
<1>3. ASSUME NEW s \in SUBSET D, s # {}, s \ {Some(s)} \in Z PROVE s \in Z
  <2> DEFINE r == s \ {Some(s)}
  <2>1. r \in SUBSET D /\ Some(s) \in s
    BY <1>3, SomeIn
  <2>2. E[r] = F[r] + d(r)
    BY <1>3
  <2>3. E[r] \in Int /\ F[r] \in Int /\ e[Some(s)] \in Int /\ f[Some(s)] \in Int
    BY <2>1, <1>1
  <2>4. E[s] = e[Some(s)] + E[r] /\ F[s] = f[Some(s)] + F[r]
    BY <1>1, <1>3
  <2>5. e[Some(s)] + d(r) = f[Some(s)] + d(s)
    <3>1. CASE Some(s) = v
      BY <2>1, <2>3, <3>1
    <3>2. CASE Some(s) # v
      <4>1. d(r) = d(s) /\ e[Some(s)] = f[Some(s)]
        BY <2>1, <3>2
      <4> QED
        BY <4>1
    <3> QED
      BY <3>1, <3>2
  <2>6. d(r) \in Int /\ d(s) \in Int
    OBVIOUS
  <2>7. E[s] = F[s] + d(s)
    <3> HIDE DEF d, r
    <3> QED
      BY <2>2, <2>3, <2>4, <2>5, <2>6
  <2> QED
    BY <2>7
<1>4. D \in Z
  <2> HIDE DEF Z
  <2> QED
    BY <1>2, <1>3, SubsetInd
<1>5. SumFunction(e) = E[D] /\ SumFunction(f) = F[D]
  BY SumIsPartial DEF E, F
<1> QED
  BY <1>4, <1>5

\* A sum is not larger than one whose summands are all at least as large.
LEMMA SumMono ==
  ASSUME NEW D, IsFiniteSet(D), NEW f \in [D -> Int], NEW e \in [D -> Int],
         \A x \in D : f[x] <= e[x]
  PROVE  SumFunction(f) <= SumFunction(e)
<1> DEFINE F == PartialSums(f, D)
           E == PartialSums(e, D)
           Z == {s \in SUBSET D : F[s] <= E[s]}
<1>1. /\ F \in [SUBSET D -> Int] /\ E \in [SUBSET D -> Int]
      /\ F[{}] = 0 /\ E[{}] = 0
      /\ \A s \in SUBSET D : s # {} => /\ F[s] = f[Some(s)] + F[s \ {Some(s)}]
                                       /\ E[s] = e[Some(s)] + E[s \ {Some(s)}]
  BY PartialSumsExist
<1> HIDE DEF F, E
<1>2. {} \in Z
  BY <1>1
<1>3. ASSUME NEW s \in SUBSET D, s # {}, s \ {Some(s)} \in Z PROVE s \in Z
  <2> DEFINE r == s \ {Some(s)}
  <2>1. r \in SUBSET D /\ Some(s) \in D
    BY <1>3, SomeIn
  <2>2. E[r] \in Int /\ F[r] \in Int /\ e[Some(s)] \in Int /\ f[Some(s)] \in Int
    BY <2>1, <1>1
  <2>3. F[r] <= E[r] /\ f[Some(s)] <= e[Some(s)]
    BY <1>3, <2>1
  <2>4. E[s] = e[Some(s)] + E[r] /\ F[s] = f[Some(s)] + F[r]
    BY <1>1, <1>3
  <2>5. F[s] <= E[s]
    <3> HIDE DEF r
    <3> QED
      BY <2>2, <2>3, <2>4
  <2> QED
    BY <2>5
<1>4. D \in Z
  <2> HIDE DEF Z
  <2> QED
    BY <1>2, <1>3, SubsetInd
<1>5. SumFunction(e) = E[D] /\ SumFunction(f) = F[D]
  BY SumIsPartial DEF E, F
<1> QED
  BY <1>4, <1>5

\* The sums over subsets do not depend on the element that is taken next.
LEMMA AnyTaken ==
  ASSUME NEW D, IsFiniteSet(D), NEW f \in [D -> Int]
  PROVE  \A s \in SUBSET D : \A v \in s :
           PartialSums(f, D)[s] = f[v] + PartialSums(f, D)[s \ {v}]
<1> DEFINE F == PartialSums(f, D)
           R(s) == \A v \in s : F[s] = f[v] + F[s \ {v}]
           P(n) == \A s \in SUBSET D : Cardinality(s) = n => R(s)
           G == {n \in Nat : P(n)}
<1>1. /\ F \in [SUBSET D -> Int]
      /\ \A s \in SUBSET D : s # {} => F[s] = f[Some(s)] + F[s \ {Some(s)}]
  BY PartialSumsExist
<1> HIDE DEF F
<1>2. P(0)
  BY FS_Subset, FS_EmptySet
<1>3. ASSUME NEW n \in Nat, P(n) PROVE P(n + 1)
  <2> SUFFICES ASSUME NEW s \in SUBSET D, Cardinality(s) = n + 1, NEW v \in s
               PROVE  F[s] = f[v] + F[s \ {v}]
    OBVIOUS
  <2> DEFINE x == Some(s)
  <2>1. x \in s /\ IsFiniteSet(s)
    BY SomeIn, FS_Subset
  <2>2. CASE v = x
    BY <1>1, <2>2
  <2>3. CASE v # x
    <3>1. Cardinality(s \ {x}) = n /\ Cardinality(s \ {v}) = n
      <4> HIDE DEF x
      <4>1. Cardinality(s \ {x}) = (n + 1) - 1 /\ Cardinality(s \ {v}) = (n + 1) - 1
        BY <2>1, FS_RemoveElement
      <4> QED
        BY <4>1
    <3>2. R(s \ {x}) /\ R(s \ {v})
      BY <1>3, <3>1
    <3> DEFINE r == s \ {x, v}
    <3>3. (s \ {x}) \ {v} = r /\ (s \ {v}) \ {x} = r /\ v \in s \ {x} /\ x \in s \ {v}
      BY <2>1, <2>3
    <3>4. F[s \ {x}] = f[v] + F[r] /\ F[s \ {v}] = f[x] + F[r]
      BY <3>2, <3>3
    <3>5. F[s] = f[x] + F[s \ {x}]
      BY <1>1, <2>1
    <3>6. f[x] \in Int /\ f[v] \in Int /\ F[r] \in Int
      BY <1>1, <2>1
    <3> HIDE DEF r, x
    <3> QED
      BY <3>4, <3>5, <3>6
  <2> QED
    BY <2>2, <2>3
<1>4. Nat \subseteq G
  <2> HIDE DEF P
  <2>1. 0 \in G /\ \A n \in Nat : n \in G => n + 1 \in G
    BY <1>2, <1>3
  <2> HIDE DEF G
  <2> QED
    BY <2>1, NatInd
<1> QED
  BY <1>4, FS_Subset, FS_CardinalityType DEF F

\* The sum of a table with one more entry at its end.
LEMMA SumLast ==
  ASSUME NEW n \in Nat, NEW f \in [1..(n + 1) -> Int], NEW e \in [1..n -> Int],
         \A x \in 1..n : e[x] = f[x]
  PROVE  SumFunction(f) = SumFunction(e) + f[n + 1]
<1> DEFINE D == 1..(n + 1)
           C == 1..n
           F == PartialSums(f, D)
           E == PartialSums(e, C)
           Z == {s \in SUBSET C : E[s] = F[s]}
<1>0. D \ {n + 1} = C
  OBVIOUS
<1>1. IsFiniteSet(C) /\ IsFiniteSet(D) /\ C \in SUBSET D /\ n + 1 \in D
  <2>1. IsFiniteSet(C)
    BY FS_Interval
  <2>2. IsFiniteSet(D)
    BY FS_Interval
  <2> QED
    BY <2>1, <2>2
<1>2. f \in [D -> Int] /\ e \in [C -> Int] /\ \A x \in C : e[x] = f[x]
  OBVIOUS
<1>3. SumFunction(f) = F[D] /\ SumFunction(e) = E[C]
  BY SumIsPartial
<1> HIDE DEF C, D
<1>4. /\ F \in [SUBSET D -> Int] /\ F[{}] = 0
      /\ \A s \in SUBSET D : s # {} => F[s] = f[Some(s)] + F[s \ {Some(s)}]
  BY <1>1, <1>2, PartialSumsExist
<1>5. F[D] = f[n + 1] + F[C]
  <2>1. D \in SUBSET D /\ n + 1 \in D
    BY <1>1
  <2>2. F[D] = f[n + 1] + F[D \ {n + 1}]
    <3>1. \A s \in SUBSET D : \A v \in s : F[s] = f[v] + F[s \ {v}]
      BY <1>1, <1>2, AnyTaken
    <3> HIDE DEF F
    <3> QED
      BY <2>1, <3>1
  <2> QED
    BY <1>0, <2>2
<1>6. /\ E[{}] = 0
      /\ \A s \in SUBSET C : s # {} => E[s] = e[Some(s)] + E[s \ {Some(s)}]
  BY <1>1, <1>2, PartialSumsExist
<1> HIDE DEF F, E
<1>7. {} \in Z
  BY <1>4, <1>6
<1>8. ASSUME NEW s \in SUBSET C, s # {}, s \ {Some(s)} \in Z PROVE s \in Z
  <2>1. e[Some(s)] = f[Some(s)] /\ s \in SUBSET D
    BY <1>1, <1>2, <1>8, SomeIn
  <2>2. E[s] = e[Some(s)] + E[s \ {Some(s)}] /\ F[s] = f[Some(s)] + F[s \ {Some(s)}]
    BY <1>4, <1>6, <1>8, <2>1
  <2> QED
    BY <1>8, <2>1, <2>2
<1>9. C \in Z
  <2> HIDE DEF Z
  <2> QED
    BY <1>1, <1>7, <1>8, SubsetInd
<1>10. f[n + 1] \in Int /\ F[C] \in Int
  BY <1>1, <1>2, <1>4
<1> QED
  BY <1>3, <1>5, <1>9, <1>10

-----------------------------------------------------------------------------
(* Sequences, and the members of a set in them.                             *)

\* What holds of the empty sequence and, with a sequence, of every one that
\* has an element more, holds of all sequences.
LEMMA SeqInd ==
  ASSUME NEW S, NEW Z, <<>> \in Z,
         \A s \in Seq(S) : s \in Z => \A e \in S : Append(s, e) \in Z
  PROVE  Seq(S) \subseteq Z
<1> DEFINE P(n) == \A s \in Seq(S) : Len(s) = n => s \in Z
           G == {n \in Nat : P(n)}
<1>1. P(0)
  BY EmptySeq
<1>2. ASSUME NEW n \in Nat, P(n) PROVE P(n + 1)
  <2> SUFFICES ASSUME NEW s \in Seq(S), Len(s) = n + 1
               PROVE  s \in Z
    OBVIOUS
  <2>1. s # <<>>
    BY EmptySeq
  <2>2. PICK t \in Seq(S), e \in S : s = Append(t, e)
    BY <2>1, SequenceEmptyOrAppend
  <2>3. Len(s) = Len(t) + 1 /\ Len(t) \in Nat
    BY <2>2, AppendProperties, LenProperties
  <2>4. t \in Z
    BY <1>2, <2>3
  <2> QED
    BY <2>2, <2>4
<1>3. Nat \subseteq G
  <2> HIDE DEF P
  <2>1. 0 \in G /\ \A n \in Nat : n \in G => n + 1 \in G
    BY <1>1, <1>2
  <2> HIDE DEF G
  <2> QED
    BY <2>1, NatInd
<1> QED
  BY <1>3, LenProperties

\* k collects the members of T in s.
Collects(k, s, T) ==
  k = [i \in 0..Len(s) |->
         IF i = 0 THEN <<>>
         ELSE IF s[i] \in T THEN Append(k[i - 1], s[i]) ELSE k[i - 1]]

\* What Filter has collected of s after i elements, for every i.
Collected(s, T) == CHOOSE k : Collects(k, s, T)

\* The filter is what has been collected in the end.
LEMMA FilterIsCollected ==
  ASSUME NEW s, NEW T
  PROVE  Filter(s, T) = Collected(s, T)[Len(s)]
  BY DEF Filter, Collected, Collects

\* The recursion of Filter, up to element n.
CollectStep(k, s, T, n) ==
  /\ k[0] = <<>>
  /\ \A i \in 1..n : k[i] = IF s[i] \in T THEN Append(k[i - 1], s[i]) ELSE k[i - 1]

\* The recursion of Filter defines a sequence for every prefix.
LEMMA CollectedExists ==
  ASSUME NEW S, NEW s \in Seq(S), NEW T
  PROVE  /\ Collected(s, T) \in [0..Len(s) -> Seq(S)]
         /\ CollectStep(Collected(s, T), s, T, Len(s))
<1> DEFINE Q(n) == \E k \in [0..n -> Seq(S)] : CollectStep(k, s, T, n)
           P(n) == n <= Len(s) => Q(n)
           G == {n \in Nat : P(n)}
<1>0. Len(s) \in Nat /\ \A i \in 1..Len(s) : s[i] \in S
  BY LenProperties, ElementOfSeq
<1>1. P(0)
  <2> DEFINE k == [i \in 0..0 |-> <<>>]
  <2>1. k \in [0..0 -> Seq(S)] /\ CollectStep(k, s, T, 0)
    BY EmptySeq DEF CollectStep
  <2> HIDE DEF k
  <2> QED
    BY <2>1
<1>2. ASSUME NEW n \in Nat, P(n) PROVE P(n + 1)
  <2> SUFFICES ASSUME n + 1 <= Len(s) PROVE Q(n + 1)
    OBVIOUS
  <2>1. PICK k \in [0..n -> Seq(S)] : CollectStep(k, s, T, n)
    BY <1>0, <1>2
  <2> DEFINE m == n + 1
             x == IF s[m] \in T THEN Append(k[n], s[m]) ELSE k[n]
             h == [i \in 0..m |-> IF i = m THEN x ELSE k[i]]
  <2>2. s[m] \in S /\ k[n] \in Seq(S)
    BY <1>0, <2>1
  <2>3. x \in Seq(S)
    BY <2>2, AppendProperties
  <2>4. h \in [0..m -> Seq(S)]
    <3> HIDE DEF x
    <3> QED
      BY <2>1, <2>3
  <2>5. h[0] = <<>>
    BY <2>1 DEF CollectStep
  <2>6. ASSUME NEW i \in 1..m
        PROVE  h[i] = IF s[i] \in T THEN Append(h[i - 1], s[i]) ELSE h[i - 1]
    <3>1. CASE i = m
      <4>1. h[i] = x /\ h[i - 1] = k[n]
        BY <3>1
      <4> QED
        BY <3>1, <4>1
    <3>2. CASE i # m
      <4>1. h[i] = k[i] /\ h[i - 1] = k[i - 1] /\ i \in 1..n
        BY <3>2
      <4> QED
        BY <2>1, <4>1 DEF CollectStep
    <3> QED
      BY <3>1, <3>2
  <2>7. CollectStep(h, s, T, n + 1)
    BY <2>5, <2>6 DEF CollectStep
  <2> HIDE DEF h
  <2> QED
    BY <2>4, <2>7
<1>3. Q(Len(s))
  <2> HIDE DEF Q
  <2>1. Nat \subseteq G
    <3> HIDE DEF P
    <3>1. 0 \in G /\ \A n \in Nat : n \in G => n + 1 \in G
      BY <1>1, <1>2
    <3> HIDE DEF G
    <3> QED
      BY <3>1, NatInd
  <2> QED
    BY <1>0, <2>1
<1>4. PICK k \in [0..Len(s) -> Seq(S)] : CollectStep(k, s, T, Len(s))
  BY <1>3
<1>5. Collects(k, s, T)
  <2> DEFINE b(i) == IF i = 0 THEN <<>>
                     ELSE IF s[i] \in T THEN Append(k[i - 1], s[i]) ELSE k[i - 1]
  <2>1. ASSUME NEW i \in 0..Len(s) PROVE k[i] = b(i)
    <3>1. CASE i = 0
      BY <1>4, <3>1 DEF CollectStep
    <3>2. CASE i # 0
      <4>1. i \in 1..Len(s)
        BY <1>0, <3>2
      <4> QED
        BY <1>4, <3>2, <4>1 DEF CollectStep
    <3> QED
      BY <3>1, <3>2
  <2>2. k = [i \in 0..Len(s) |-> b(i)]
    <3> HIDE DEF b
    <3> QED
      BY <1>4, <2>1
  <2> QED
    BY <2>2 DEF Collects
<1> DEFINE c == Collected(s, T)
<1>6. Collects(c, s, T)
  BY <1>5 DEF Collected
<1> HIDE DEF c
<1>7. /\ c = [i \in 0..Len(s) |-> c[i]]
      /\ CollectStep(c, s, T, Len(s))
  <2> DEFINE b(i) == IF i = 0 THEN <<>>
                     ELSE IF s[i] \in T THEN Append(c[i - 1], s[i]) ELSE c[i - 1]
  <2>1. c = [i \in 0..Len(s) |-> b(i)]
    BY <1>6 DEF Collects
  <2>2. c = [i \in 0..Len(s) |-> c[i]] /\ \A i \in 0..Len(s) : c[i] = b(i)
    <3> HIDE DEF b
    <3> QED
      BY <2>1
  <2>3. c[0] = <<>>
    <3>1. 0 \in 0..Len(s) /\ b(0) = <<>>
      BY <1>0
    <3> HIDE DEF b
    <3> QED
      BY <2>2, <3>1
  <2>4. ASSUME NEW i \in 1..Len(s)
        PROVE  c[i] = IF s[i] \in T THEN Append(c[i - 1], s[i]) ELSE c[i - 1]
    <3>1. i \in 0..Len(s) /\ i # 0
      BY <1>0
    <3> QED
      BY <2>2, <3>1
  <2> QED
    BY <2>2, <2>3, <2>4 DEF CollectStep
<1> DEFINE R(n) == n <= Len(s) => c[n] \in Seq(S)
           H == {n \in Nat : R(n)}
<1>8. R(0)
  BY <1>7, EmptySeq DEF CollectStep
<1>9. ASSUME NEW n \in Nat, R(n) PROVE R(n + 1)
  <2> SUFFICES ASSUME n + 1 <= Len(s) PROVE c[n + 1] \in Seq(S)
    OBVIOUS
  <2>1. c[n] \in Seq(S) /\ s[n + 1] \in S
    BY <1>0, <1>9
  <2>2. c[n + 1] = IF s[n + 1] \in T THEN Append(c[n], s[n + 1]) ELSE c[n]
    <3>1. n + 1 \in 1..Len(s) /\ (n + 1) - 1 = n
      BY <1>0
    <3> QED
      BY <1>7, <3>1 DEF CollectStep
  <2> QED
    BY <2>1, <2>2, AppendProperties
<1>10. Nat \subseteq H
  <2> HIDE DEF R
  <2>1. 0 \in H /\ \A n \in Nat : n \in H => n + 1 \in H
    BY <1>8, <1>9
  <2> HIDE DEF H
  <2> QED
    BY <2>1, NatInd
<1>11. c \in [0..Len(s) -> Seq(S)]
  BY <1>0, <1>7, <1>10
<1> QED
  BY <1>7, <1>11 DEF c

\* A filtered sequence is a sequence over the same set.
LEMMA FilterType ==
  ASSUME NEW S, NEW s \in Seq(S), NEW T
  PROVE  Filter(s, T) \in Seq(S)
<1>1. Collected(s, T)[Len(s)] \in Seq(S)
  BY CollectedExists, LenProperties
<1> QED
  BY <1>1, FilterIsCollected

\* Nothing is left of nothing.
LEMMA FilterEmpty ==
  ASSUME NEW T PROVE Filter(<<>>, T) = <<>>
<1>1. <<>> \in Seq({}) /\ Len(<<>>) = 0
  BY EmptySeq
<1>2. CollectStep(Collected(<<>>, T), <<>>, T, Len(<<>>))
  BY <1>1, CollectedExists, Zenon
<1>3. Collected(<<>>, T)[0] = <<>>
  BY <1>2 DEF CollectStep
<1> QED
  BY <1>1, <1>3, FilterIsCollected

\* The last element apart.
LEMMA FilterAppend ==
  ASSUME NEW S, NEW s \in Seq(S), NEW e \in S, NEW T
  PROVE  Filter(Append(s, e), T) =
           IF e \in T THEN Append(Filter(s, T), e) ELSE Filter(s, T)
<1> DEFINE t == Append(s, e)
           k == Collected(s, T)
           h == Collected(t, T)
<1>1. /\ t \in Seq(S) /\ Len(t) = Len(s) + 1 /\ t[Len(s) + 1] = e /\ Len(s) \in Nat
      /\ \A i \in 1..Len(s) : t[i] = s[i]
  BY AppendProperties, LenProperties
<1> HIDE DEF t
<1>2. /\ k[0] = <<>>
      /\ \A i \in 1..Len(s) : k[i] = IF s[i] \in T THEN Append(k[i - 1], s[i]) ELSE k[i - 1]
  BY CollectedExists DEF CollectStep
<1>3. /\ h[0] = <<>>
      /\ \A i \in 1..(Len(s) + 1) : h[i] = IF t[i] \in T THEN Append(h[i - 1], t[i]) ELSE h[i - 1]
  BY <1>1, CollectedExists DEF CollectStep
<1>4. Filter(t, T) = h[Len(s) + 1] /\ Filter(s, T) = k[Len(s)]
  BY <1>1, FilterIsCollected
<1> HIDE DEF k, h
<1> DEFINE P(n) == n <= Len(s) => h[n] = k[n]
           G == {n \in Nat : P(n)}
<1>5. P(0)
  BY <1>2, <1>3
<1>6. ASSUME NEW n \in Nat, P(n) PROVE P(n + 1)
  <2> SUFFICES ASSUME n + 1 <= Len(s) PROVE h[n + 1] = k[n + 1]
    OBVIOUS
  <2>1. n + 1 \in 1..Len(s) /\ n + 1 \in 1..(Len(s) + 1) /\ (n + 1) - 1 = n
    BY <1>1
  <2>2. h[n] = k[n] /\ t[n + 1] = s[n + 1]
    BY <1>1, <1>6, <2>1
  <2> QED
    BY <1>2, <1>3, <2>1, <2>2
<1>7. h[Len(s)] = k[Len(s)]
  <2>1. Nat \subseteq G
    <3> HIDE DEF P
    <3>1. 0 \in G /\ \A n \in Nat : n \in G => n + 1 \in G
      BY <1>5, <1>6
    <3> HIDE DEF G
    <3> QED
      BY <3>1, NatInd
  <2> QED
    BY <1>1, <2>1
<1>8. h[Len(s) + 1] = IF e \in T THEN Append(h[Len(s)], e) ELSE h[Len(s)]
  <2>1. Len(s) + 1 \in 1..(Len(s) + 1) /\ (Len(s) + 1) - 1 = Len(s)
    BY <1>1
  <2> QED
    BY <1>1, <1>3, <2>1
<1> QED
  BY <1>4, <1>7, <1>8 DEF t

\* A sequence with an element more, after another one.
LEMMA ConcatAppend ==
  ASSUME NEW S, NEW s \in Seq(S), NEW t \in Seq(S), NEW e \in S
  PROVE  s \o Append(t, e) = Append(s \o t, e)
<1>1. <<e>> \in Seq(S) /\ s \o t \in Seq(S)
  BY ConcatProperties
<1>2. Append(t, e) = t \o <<e>> /\ Append(s \o t, e) = (s \o t) \o <<e>>
  BY <1>1, AppendIsConcat
<1> QED
  BY <1>1, <1>2, ConcatAssociative

\* Two sequences are filtered one by one.
LEMMA FilterConcat ==
  ASSUME NEW S, NEW s \in Seq(S), NEW t \in Seq(S), NEW T
  PROVE  Filter(s \o t, T) = Filter(s, T) \o Filter(t, T)
<1> DEFINE Z == {u \in Seq(S) : Filter(s \o u, T) = Filter(s, T) \o Filter(u, T)}
<1>1. <<>> \in Z
  <2>1. <<>> \in Seq(S) /\ s \o <<>> = s
    BY EmptySeq, ConcatEmptySeq
  <2>2. Filter(s, T) \o <<>> = Filter(s, T)
    BY FilterType, ConcatEmptySeq
  <2> QED
    BY <2>1, <2>2, FilterEmpty
<1>2. ASSUME NEW u \in Seq(S), u \in Z, NEW e \in S PROVE Append(u, e) \in Z
  <2>1. s \o Append(u, e) = Append(s \o u, e) /\ s \o u \in Seq(S) /\ Append(u, e) \in Seq(S)
    BY ConcatAppend, ConcatProperties, AppendProperties
  <2>2. Filter(s, T) \in Seq(S) /\ Filter(u, T) \in Seq(S)
    BY FilterType
  <2>3. Filter(s \o u, T) = Filter(s, T) \o Filter(u, T)
    BY <1>2
  <2>4. CASE e \in T
    <3>1. Filter(Append(s \o u, e), T) = Append(Filter(s, T) \o Filter(u, T), e)
      <4> DEFINE w == s \o u
      <4>1. w \in Seq(S)
        BY <2>1
      <4> HIDE DEF w
      <4>2. Filter(Append(w, e), T) = Append(Filter(w, T), e)
        BY <2>4, <4>1, FilterAppend
      <4> QED
        BY <2>3, <4>2 DEF w
    <3>2. Filter(Append(u, e), T) = Append(Filter(u, T), e)
      BY <2>4, FilterAppend
    <3>3. Filter(s, T) \o Append(Filter(u, T), e) = Append(Filter(s, T) \o Filter(u, T), e)
      BY <2>2, ConcatAppend
    <3> QED
      BY <2>1, <3>1, <3>2, <3>3
  <2>5. CASE e \notin T
    <3>1. Filter(Append(s \o u, e), T) = Filter(s, T) \o Filter(u, T)
      BY <2>1, <2>3, <2>5, FilterAppend, ZenonT(60)
    <3>2. Filter(Append(u, e), T) = Filter(u, T)
      BY <2>5, FilterAppend
    <3> QED
      BY <2>1, <3>1, <3>2
  <2> QED
    BY <2>4, <2>5
<1>3. Seq(S) \subseteq Z
  <2> HIDE DEF Z
  <2> QED
    BY <1>1, <1>2, SeqInd
<1> QED
  BY <1>3

\* A filter that every element passes, or none.
LEMMA FilterAll ==
  ASSUME NEW S, NEW s \in Seq(S), NEW T
  PROVE  /\ S \subseteq T => Filter(s, T) = s
         /\ S \cap T = {} => Filter(s, T) = <<>>
<1> DEFINE Z == {u \in Seq(S) : /\ S \subseteq T => Filter(u, T) = u
                                /\ S \cap T = {} => Filter(u, T) = <<>>}
<1>1. <<>> \in Z
  BY EmptySeq, FilterEmpty
<1>2. ASSUME NEW u \in Seq(S), u \in Z, NEW e \in S PROVE Append(u, e) \in Z
  <2>1. Append(u, e) \in Seq(S)
    BY AppendProperties
  <2>2. Filter(Append(u, e), T) = IF e \in T THEN Append(Filter(u, T), e) ELSE Filter(u, T)
    BY FilterAppend
  <2> QED
    BY <1>2, <2>1, <2>2
<1>3. Seq(S) \subseteq Z
  <2> HIDE DEF Z
  <2> QED
    BY <1>1, <1>2, SeqInd
<1> QED
  BY <1>3

\* The first element apart.
LEMMA FilterHead ==
  ASSUME NEW S, NEW s \in Seq(S), s # <<>>, NEW T
  PROVE  Filter(s, T) = IF Head(s) \in T THEN <<Head(s)>> \o Filter(Tail(s), T)
                                         ELSE Filter(Tail(s), T)
<1>1. Head(s) \in S /\ Tail(s) \in Seq(S) /\ <<Head(s)>> \in Seq(S)
  BY HeadTailProperties
<1>2. s = <<Head(s)>> \o Tail(s)
  OBVIOUS
<1> DEFINE z == <<>>
           h == Head(s)
           a == <<h>>
           b == Tail(s)
<1>3. Filter(a, T) = IF h \in T THEN a ELSE z
  <2>1. Append(z, h) = a /\ Filter(z, T) = z /\ z \in Seq(S) /\ h \in S
    BY <1>1, EmptySeq, FilterEmpty
  <2> HIDE DEF z, h, a
  <2>2. Filter(Append(z, h), T) = IF h \in T THEN Append(Filter(z, T), h) ELSE Filter(z, T)
    BY <2>1, FilterAppend
  <2> QED
    BY <2>1, <2>2
<1>4. Filter(s, T) = Filter(a, T) \o Filter(b, T)
  <2> HIDE DEF a, b
  <2>1. Filter(a \o b, T) = Filter(a, T) \o Filter(b, T)
    <3>1. a \in Seq(S) /\ b \in Seq(S)
      BY <1>1 DEF a, b
    <3> QED
      BY <3>1, FilterConcat
  <2>2. s = a \o b
    BY <1>2 DEF a, b
  <2> QED
    BY <2>1, <2>2
<1>5. <<>> \o Filter(Tail(s), T) = Filter(Tail(s), T)
  BY <1>1, FilterType, ConcatEmptySeq
<1> QED
  BY <1>3, <1>4, <1>5

\* A sequence cut in two.
LEMMA Cut ==
  ASSUME NEW S, NEW s \in Seq(S), NEW n \in 0..Len(s)
  PROVE  /\ SubSeq(s, 1, n) \in Seq(S) /\ SubSeq(s, n + 1, Len(s)) \in Seq(S)
         /\ Len(SubSeq(s, 1, n)) = n /\ Len(SubSeq(s, n + 1, Len(s))) = Len(s) - n
         /\ s = SubSeq(s, 1, n) \o SubSeq(s, n + 1, Len(s))
<1>1. Len(s) \in Nat
  BY LenProperties
<1>2. SubSeq(s, 1, n) \in Seq(S) /\ Len(SubSeq(s, 1, n)) = n
  BY <1>1, SubSeqProperties
<1>3. SubSeq(s, n + 1, Len(s)) \in Seq(S) /\ Len(SubSeq(s, n + 1, Len(s))) = Len(s) - n
  BY <1>1
<1>4. SubSeq(s, 1, n) \o SubSeq(s, n + 1, Len(s)) = SubSeq(s, 1, Len(s))
  <2>1. 1 \in 1..(Len(s) + 1) /\ n \in (1 - 1)..Len(s) /\ Len(s) \in n..Len(s)
    BY <1>1
  <2> QED
    BY <2>1, ConcatAdjacentSubSeq
<1> QED
  BY <1>2, <1>3, <1>4, SubSeqFull

\* Two parts of a sequence are filtered one by one.
LEMMA FilterCut ==
  ASSUME NEW S, NEW s \in Seq(S), NEW n \in 0..Len(s), NEW T
  PROVE  Filter(s, T) = Filter(SubSeq(s, 1, n), T) \o Filter(SubSeq(s, n + 1, Len(s)), T)
<1> DEFINE a == SubSeq(s, 1, n)
           b == SubSeq(s, n + 1, Len(s))
<1>1. a \in Seq(S) /\ b \in Seq(S) /\ s = a \o b
  BY Cut
<1> HIDE DEF a, b
<1>2. Filter(a \o b, T) = Filter(a, T) \o Filter(b, T)
  BY <1>1, FilterConcat
<1> QED
  BY <1>1, <1>2 DEF a, b

\* The number of members of T follows the sequence as Filter does.
LEMMA NumberOfFacts ==
  ASSUME NEW S, NEW s \in Seq(S), NEW T
  PROVE  /\ NumberOf(s, T) \in Nat
         /\ NumberOf(<<>>, T) = 0
         /\ \A e \in S : NumberOf(Append(s, e), T) = NumberOf(s, T) + (IF e \in T THEN 1 ELSE 0)
         /\ \A t \in Seq(S) : NumberOf(s \o t, T) = NumberOf(s, T) + NumberOf(t, T)
         /\ s # <<>> => NumberOf(Tail(s), T) = NumberOf(s, T) - (IF Head(s) \in T THEN 1 ELSE 0)
         /\ \A n \in 0..Len(s) : NumberOf(s, T) = NumberOf(SubSeq(s, 1, n), T)
                                                 + NumberOf(SubSeq(s, n + 1, Len(s)), T)
<1>1. Filter(s, T) \in Seq(S)
  BY FilterType
<1>2. NumberOf(s, T) \in Nat /\ NumberOf(<<>>, T) = 0
  BY <1>1, LenProperties, FilterEmpty, EmptySeq DEF NumberOf
<1>3. ASSUME NEW e \in S
      PROVE  NumberOf(Append(s, e), T) = NumberOf(s, T) + (IF e \in T THEN 1 ELSE 0)
  BY <1>1, <1>2, FilterAppend, AppendProperties DEF NumberOf
<1>4. ASSUME NEW t \in Seq(S)
      PROVE  NumberOf(s \o t, T) = NumberOf(s, T) + NumberOf(t, T)
  BY <1>1, FilterType, FilterConcat, ConcatProperties DEF NumberOf
<1>5. ASSUME s # <<>>
      PROVE  NumberOf(Tail(s), T) = NumberOf(s, T) - (IF Head(s) \in T THEN 1 ELSE 0)
  <2> DEFINE h == Head(s)
             r == Filter(Tail(s), T)
  <2>1. Filter(s, T) = IF h \in T THEN <<h>> \o r ELSE r
    BY <1>5, FilterHead
  <2>2. h \in S /\ <<h>> \in Seq(S) /\ r \in Seq(S) /\ Len(<<h>>) = 1
    <3>1. Tail(s) \in Seq(S) /\ Head(s) \in S
      BY <1>5, HeadTailProperties
    <3>2. r \in Seq(S)
      BY <3>1, FilterType
    <3>3. <<h>> \in Seq(S) /\ Len(<<h>>) = 1
      BY <3>1
    <3> QED
      BY <3>1, <3>2, <3>3
  <2>3. Len(<<h>> \o r) = 1 + Len(r) /\ Len(r) \in Nat
    BY <2>2, ConcatProperties, LenProperties
  <2>4. NumberOf(s, T) = IF h \in T THEN 1 + Len(r) ELSE Len(r)
    BY <2>1, <2>3 DEF NumberOf
  <2>5. NumberOf(Tail(s), T) = Len(r)
    BY DEF NumberOf
  <2> HIDE DEF h, r
  <2>6. Len(r) = NumberOf(s, T) - (IF h \in T THEN 1 ELSE 0)
    BY <2>3, <2>4
  <2> QED
    BY <2>5, <2>6 DEF h
<1>6. ASSUME NEW n \in 0..Len(s)
      PROVE  NumberOf(s, T) = NumberOf(SubSeq(s, 1, n), T)
                                                 + NumberOf(SubSeq(s, n + 1, Len(s)), T)
  <2> DEFINE a == SubSeq(s, 1, n)
             b == SubSeq(s, n + 1, Len(s))
  <2>1. a \in Seq(S) /\ b \in Seq(S)
    BY Cut
  <2>2. Filter(s, T) = Filter(a, T) \o Filter(b, T)
    BY FilterCut
  <2> HIDE DEF a, b
  <2> QED
    BY <2>1, <2>2, FilterType, ConcatProperties DEF NumberOf, a, b
<1> QED
  BY <1>2, <1>3, <1>4, <1>5, <1>6

\* A sequence of members of T, and a sequence of other elements.
LEMMA NumberOfAll ==
  ASSUME NEW S, NEW s \in Seq(S), NEW T
  PROVE  /\ S \subseteq T => NumberOf(s, T) = Len(s)
         /\ S \cap T = {} => NumberOf(s, T) = 0
  BY FilterAll, EmptySeq DEF NumberOf

\* No member of T is counted when there is none.
LEMMA NumberOfNone ==
  ASSUME NEW S, NEW s \in Seq(S), NEW T
  PROVE  NumberOf(s, T) = 0 <=> \A i \in 1..Len(s) : s[i] \notin T
<1> DEFINE none(u) == \A i \in 1..Len(u) : u[i] \notin T
           Z == {u \in Seq(S) : NumberOf(u, T) = 0 <=> none(u)}
<1>1. <<>> \in Z
  <2>1. none(<<>>) /\ NumberOf(<<>>, T) = 0 /\ <<>> \in Seq(S)
    BY EmptySeq, NumberOfFacts
  <2> QED
    BY <2>1
<1>2. ASSUME NEW u \in Seq(S), u \in Z, NEW e \in S PROVE Append(u, e) \in Z
  <2> DEFINE w == Append(u, e)
  <2>1. /\ w \in Seq(S) /\ Len(w) = Len(u) + 1 /\ w[Len(u) + 1] = e /\ Len(u) \in Nat
        /\ \A i \in 1..Len(u) : w[i] = u[i]
    BY AppendProperties, LenProperties
  <2>2. NumberOf(w, T) = NumberOf(u, T) + (IF e \in T THEN 1 ELSE 0) /\ NumberOf(u, T) \in Nat
    BY NumberOfFacts
  <2> HIDE DEF w
  <2>3. none(w) <=> none(u) /\ e \notin T
    BY <2>1
  <2>4. NumberOf(w, T) = 0 <=> NumberOf(u, T) = 0 /\ e \notin T
    BY <2>2
  <2>5. NumberOf(w, T) = 0 <=> none(w)
    BY <1>2, <2>3, <2>4
  <2> QED
    BY <2>1, <2>5 DEF w
<1>3. Seq(S) \subseteq Z
  <2> HIDE DEF Z
  <2> QED
    BY <1>1, <1>2, SeqInd
<1> QED
  BY <1>3
=============================================================================
