--------------------------- MODULE KeyList_proofs ---------------------------
(***************************************************************************)
(* What erasing keys from a list does to its elements, to the absence of   *)
(* duplicates and to the order of what is left.                            *)
(*                                                                         *)
(* Without is defined by ranks.  Rank(I, _) is injective on a finite set I *)
(* of naturals and maps it into 1 .. Cardinality(I), hence onto it; AtRank *)
(* is its inverse and is increasing.                                       *)
(***************************************************************************)
EXTENDS KeyList, FiniteSetTheorems, TLAPS

\* Every set of natural numbers with a member has a least one.  The proofs by
\* induction look at the least counterexample.
LEMMA LeastNumber ==
    ASSUME NEW T \in SUBSET Nat, T # {}
    PROVE  \E m \in T : \A n \in T : m <= n
<1> DEFINE Initials == {0 .. n : n \in T}
           Smaller  == StrictSubsetOrdering(Nat)
<1>1. IsWellFoundedOn(Smaller, FiniteSubsetsOf(Nat))
  BY FS_StrictSubsetOrderingWellFounded
<1>2. Initials # {} /\ Initials \subseteq FiniteSubsetsOf(Nat)
  <2>1. ASSUME NEW n \in T PROVE 0 .. n \in FiniteSubsetsOf(Nat)
    BY FS_Interval DEF FiniteSubsetsOf
  <2> QED
    BY <2>1
<1> HIDE DEF Initials
<1>3. PICK X \in Initials : \A Y \in Initials : ~ (<<Y, X>> \in Smaller)
  BY <1>1, <1>2, WFMin
<1>4. PICK m \in T : X = 0 .. m
  BY DEF Initials
<1>5. ASSUME NEW n \in T, n < m PROVE FALSE
  <2>1. 0 .. n \in Initials
    BY DEF Initials
  <2>2. 0 .. n \subseteq 0 .. m /\ m \notin 0 .. n /\ m \in 0 .. m
    BY <1>5
  <2>3. 0 .. n \in SUBSET Nat /\ 0 .. m \in SUBSET Nat
    OBVIOUS
  <2> QED
    BY <1>3, <1>4, <2>1, <2>2, <2>3 DEF StrictSubsetOrdering
<1> QED
  BY <1>5

\* The rank of a member of I lies in 1 .. Cardinality(I) and grows with it.
LEMMA RankFacts ==
    ASSUME NEW I \in SUBSET Int, IsFiniteSet(I)
    PROVE  /\ Cardinality(I) \in Nat
           /\ \A i \in I : Rank(I, i) \in 1 .. Cardinality(I)
           /\ \A i, j \in I : i < j => Rank(I, i) < Rank(I, j)
<1>1. IsFiniteSet(I) /\ Cardinality(I) \in Nat
  BY FS_CardinalityType
<1> DEFINE Below(i) == {m \in I : m <= i}
<1>2. ASSUME NEW i \in I
      PROVE  /\ IsFiniteSet(Below(i))
             /\ Cardinality(Below(i)) \in 1 .. Cardinality(I)
  <2>1. Below(i) \in SUBSET I /\ i \in Below(i)
    OBVIOUS
  <2>2. /\ IsFiniteSet(Below(i))
        /\ Cardinality(Below(i)) <= Cardinality(I)
        /\ Cardinality(Below(i)) \in Nat
    BY <1>1, <2>1, FS_Subset, FS_CardinalityType
  <2>3. Cardinality(Below(i)) # 0
    BY <2>1, <2>2, FS_EmptySet
  <2> QED
    BY <1>1, <2>2, <2>3
<1>3. ASSUME NEW i \in I, NEW j \in I, i < j
      PROVE  Cardinality(Below(i)) < Cardinality(Below(j))
  <2>1. Below(i) \in SUBSET Below(j) /\ j \in Below(j) /\ j \notin Below(i)
    <3>1. i \in Int /\ j \in Int
      OBVIOUS
    <3>2. ASSUME NEW m \in Below(i) PROVE m \in Below(j)
      <4>1. m \in I /\ m \in Int /\ m <= i
        OBVIOUS
      <4> QED
        BY <1>3, <3>1, <4>1
    <3>3. j \in Below(j) /\ j \notin Below(i)
      BY <1>3, <3>1
    <3> QED
      BY <3>2, <3>3
  <2>2. /\ Cardinality(Below(i)) <= Cardinality(Below(j))
        /\ Cardinality(Below(j)) # Cardinality(Below(i))
    BY <1>2, <2>1, FS_Subset
  <2> QED
    BY <1>2, <2>2
<1> QED
  BY <1>1, <1>2, <1>3 DEF Rank

\* AtRank is the inverse of Rank and increasing.
LEMMA AtRankFacts ==
    ASSUME NEW I \in SUBSET Int, IsFiniteSet(I)
    PROVE  /\ \A j \in 1 .. Cardinality(I) :
                  AtRank(I, j) \in I /\ Rank(I, AtRank(I, j)) = j
           /\ \A i \in I : AtRank(I, Rank(I, i)) = i
           /\ \A j, k \in 1 .. Cardinality(I) :
                  j < k => AtRank(I, j) < AtRank(I, k)
<1> DEFINE N == Cardinality(I)
           r == [i \in I |-> Rank(I, i)]
<1>1. /\ IsFiniteSet(I)
      /\ N \in Nat
      /\ \A i \in I : Rank(I, i) \in 1 .. N
      /\ \A i, j \in I : i < j => Rank(I, i) < Rank(I, j)
  BY RankFacts
<1>2. r \in Injection(I, 1 .. N)
  <2>1. ASSUME NEW i \in I, NEW j \in I, Rank(I, i) = Rank(I, j)
        PROVE  i = j
    BY <1>1, <2>1
  <2> QED
    BY <1>1, <2>1 DEF Injection, IsInjective
<1>3. IsFiniteSet(1 .. N) /\ Cardinality(1 .. N) = N
  BY <1>1, FS_Interval
<1>4. r \in Surjection(I, 1 .. N)
  BY <1>2, <1>3, FS_Injection
<1>5. ASSUME NEW j \in 1 .. N
      PROVE  AtRank(I, j) \in I /\ Rank(I, AtRank(I, j)) = j
  <2>1. \E i \in I : Rank(I, i) = j
    BY <1>4 DEF Surjection
  <2> QED
    BY <2>1 DEF AtRank
<1>6. ASSUME NEW i \in I
      PROVE  AtRank(I, Rank(I, i)) = i
  <2>1. /\ AtRank(I, Rank(I, i)) \in I
        /\ Rank(I, AtRank(I, Rank(I, i))) = Rank(I, i)
    BY <1>1, <1>5
  <2> QED
    BY <1>2, <2>1 DEF Injection, IsInjective
<1>7. ASSUME NEW j \in 1 .. N, NEW k \in 1 .. N, j < k
      PROVE  AtRank(I, j) < AtRank(I, k)
  <2>1. /\ AtRank(I, j) \in I /\ Rank(I, AtRank(I, j)) = j
        /\ AtRank(I, k) \in I /\ Rank(I, AtRank(I, k)) = k
    BY <1>5
  <2>2. AtRank(I, k) < AtRank(I, j) => k < j
    BY <1>1, <2>1
  <2>3. AtRank(I, k) = AtRank(I, j) => k = j
    BY <2>1
  <2>4. AtRank(I, j) \in Int /\ AtRank(I, k) \in Int /\ j \in Int /\ k \in Int
    <3>1. \A i \in I : i \in Int
      OBVIOUS
    <3>2. AtRank(I, j) \in I /\ AtRank(I, k) \in I
      BY <2>1
    <3>3. j \in Int /\ k \in Int
      <4>1. N \in Int
        BY <1>1
      <4> QED
        BY <4>1
    <3> QED
      BY <3>1, <3>2, <3>3
  <2> QED
    BY <1>7, <2>2, <2>3, <2>4
<1> QED
  BY <1>5, <1>6, <1>7

\* Erasing keys: the type of the result, its elements, no new duplicates.
LEMMA WithoutFacts ==
    ASSUME NEW T, NEW s \in Seq(T), NEW S
    PROVE  /\ Without(s, S) \in Seq(T)
           /\ Elements(Without(s, S)) = Elements(s) \ S
           /\ NoDuplicates(s) => NoDuplicates(Without(s, S))
<1> DEFINE I == Kept(s, S)
           N == Cardinality(I)
           w == Without(s, S)
<1>1. I \in SUBSET (1 .. Len(s)) /\ Len(s) \in Nat /\ DOMAIN s = 1 .. Len(s)
  BY DEF Kept
<1>2. I \in SUBSET Int /\ IsFiniteSet(I)
  <2>1. IsFiniteSet(1 .. Len(s))
    BY <1>1, FS_Interval
  <2> QED
    BY <1>1, <2>1, FS_Subset
<1>3. N \in Nat
  BY <1>2, RankFacts
<1>4. /\ \A j \in 1 .. N : AtRank(I, j) \in I /\ Rank(I, AtRank(I, j)) = j
      /\ \A i \in I : AtRank(I, Rank(I, i)) = i /\ Rank(I, i) \in 1 .. N
  BY <1>2, AtRankFacts, RankFacts
<1> HIDE DEF I, N
<1>5. w = [j \in 1 .. N |-> s[AtRank(I, j)]]
  BY DEF Without, I, N
<1>6. \A i \in I : i \in DOMAIN s /\ s[i] \in T /\ s[i] \notin S
  BY <1>1 DEF I, Kept
<1>7. w \in Seq(T)
  BY <1>3, <1>4, <1>5, <1>6
<1>8. Elements(w) = Elements(s) \ S
  <2>1. ASSUME NEW x \in Elements(w)
        PROVE  x \in Elements(s) \ S
    BY <1>4, <1>5, <1>6 DEF Elements
  <2>2. ASSUME NEW x \in Elements(s) \ S
        PROVE  x \in Elements(w)
    <3>1. PICK i \in DOMAIN s : s[i] = x
      BY DEF Elements
    <3>2. i \in I
      BY <3>1 DEF I, Kept
    <3> QED
      BY <1>4, <1>5, <3>1, <3>2 DEF Elements
  <2> QED
    BY <2>1, <2>2
<1>9. ASSUME NoDuplicates(s)
      PROVE  NoDuplicates(w)
  <2> SUFFICES ASSUME NEW j \in 1 .. N, NEW k \in 1 .. N, w[j] = w[k]
               PROVE  j = k
    BY <1>5 DEF NoDuplicates
  <2>1. AtRank(I, j) = AtRank(I, k)
    BY <1>4, <1>5, <1>6, <1>9 DEF NoDuplicates
  <2> QED
    BY <1>4, <2>1
<1> QED
  BY <1>7, <1>8, <1>9 DEF w
=============================================================================
