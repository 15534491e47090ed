--------------------------- MODULE Recency_proofs ---------------------------
(***************************************************************************)
(* Proofs that the policies know which keys clients have not used for      *)
(* longest, for any number of keys, shards and threads and any capacity:   *)
(*                                                                         *)
(*   - a Cache with the LRU policy implements RecencyCache;                *)
(*   - the LFU policy keeps each of its buckets in the order of last use.  *)
(*                                                                         *)
(* Both follow from one invariant, that what the policy's own lists say of *)
(* two keys agrees with the order in which clients used them (Agrees).  It *)
(* is shown for each method of a policy, then for each operation on a      *)
(* shard, then for each action.                                            *)
(***************************************************************************)
EXTENDS CacheLRU, Cache_proofs

----------------------------------------------------------------------------
(* The order of the keys of a list.                                        *)

\* a comes somewhere behind b in the list: it is older.
Older(o, a, b) == \E i, j \in DOMAIN o : i < j /\ o[i] = b /\ o[j] = a

\* What is behind what are the keys of the list.
LEMMA OlderElements ==
    ASSUME NEW o, NEW a, NEW b, Older(o, a, b)
    PROVE  a \in Elements(o) /\ b \in Elements(o)
BY DEF Older, Elements

\* In a list without duplicates, of two keys one is behind the other, and not
\* the other way round.
LEMMA OlderTotal ==
    ASSUME NEW o \in Seq(Keys), NoDuplicates(o),
           NEW a \in Elements(o), NEW b \in Elements(o), a # b
    PROVE  Older(o, a, b) <=> ~ Older(o, b, a)
<1>1. DOMAIN o = 1 .. Len(o) /\ Len(o) \in Nat
  OBVIOUS
<1>2. PICK i \in 1 .. Len(o), j \in 1 .. Len(o) : o[i] = b /\ o[j] = a
  BY <1>1 DEF Elements
<1>3. \A m \in 1 .. Len(o) : (o[m] = b => m = i) /\ (o[m] = a => m = j)
  BY <1>1, <1>2 DEF NoDuplicates
<1>4. Older(o, a, b) <=> i < j
  BY <1>1, <1>2, <1>3 DEF Older
<1>5. Older(o, b, a) <=> j < i
  BY <1>1, <1>2, <1>3 DEF Older
<1>6. i # j
  BY <1>2
<1> QED
  BY <1>4, <1>5, <1>6

\* Erasing keys leaves the order of the others.
LEMMA OlderWithout ==
    ASSUME NEW o \in Seq(Keys), NEW S, NEW a, NEW b
    PROVE  Older(Without(o, S), a, b)
             <=> Older(o, a, b) /\ a \notin S /\ b \notin S
<1> DEFINE I == Kept(o, S)
           N == Cardinality(I)
           w == Without(o, S)
<1>1. I \in SUBSET (1 .. Len(o)) /\ Len(o) \in Nat /\ DOMAIN o = 1 .. Len(o)
  BY DEF Kept
<1>2. I \in SUBSET Int /\ IsFiniteSet(I)
  <2>1. IsFiniteSet(1 .. Len(o))
    BY <1>1, FS_Interval
  <2> QED
    BY <1>1, <2>1, FS_Subset
<1>3. N \in Nat
  BY <1>2, RankFacts
<1>4. /\ \A j \in 1 .. N : AtRank(I, j) \in I
      /\ \A j, k \in 1 .. N : j < k => AtRank(I, j) < AtRank(I, k)
  BY <1>2, AtRankFacts
<1>5. /\ \A i \in I : AtRank(I, Rank(I, i)) = i /\ Rank(I, i) \in 1 .. N
      /\ \A i, j \in I : i < j => Rank(I, i) < Rank(I, j)
  BY <1>2, AtRankFacts, RankFacts
<1>6. \A i \in DOMAIN o : i \in I <=> o[i] \notin S
  BY DEF Kept
<1> HIDE DEF I, N
<1>7. w = [j \in 1 .. N |-> o[AtRank(I, j)]]
  BY DEF Without, I, N
<1>8. ASSUME Older(w, a, b)
      PROVE  Older(o, a, b) /\ a \notin S /\ b \notin S
  <2>1. PICK j \in 1 .. N, k \in 1 .. N : j < k /\ w[j] = b /\ w[k] = a
    BY <1>7, <1>8 DEF Older
  <2>2. /\ AtRank(I, j) \in I /\ AtRank(I, k) \in I
        /\ AtRank(I, j) < AtRank(I, k)
        /\ o[AtRank(I, j)] = b /\ o[AtRank(I, k)] = a
    BY <1>4, <1>7, <2>1
  <2> QED
    BY <1>1, <1>6, <2>2 DEF Older
<1>9. ASSUME Older(o, a, b), a \notin S, b \notin S
      PROVE  Older(w, a, b)
  <2>1. PICK i \in DOMAIN o, m \in DOMAIN o : i < m /\ o[i] = b /\ o[m] = a
    BY <1>9 DEF Older
  <2>2. i \in I /\ m \in I
    BY <1>6, <1>9, <2>1
  <2>3. /\ Rank(I, i) \in 1 .. N /\ Rank(I, m) \in 1 .. N
        /\ Rank(I, i) < Rank(I, m)
        /\ w[Rank(I, i)] = b /\ w[Rank(I, m)] = a
    BY <1>5, <1>7, <2>1, <2>2
  <2> QED
    BY <1>7, <2>3 DEF Older
<1> QED
  BY <1>8, <1>9 DEF w

\* A key pushed in front is behind nobody, and all others are behind it.
LEMMA OlderPushFront ==
    ASSUME NEW o \in Seq(Keys), NEW k \in Keys, NEW a, NEW b
    PROVE  Older(<<k>> \o o, a, b)
             <=> Older(o, a, b) \/ (b = k /\ a \in Elements(o))
<1> DEFINE t == <<k>> \o o
<1>1. /\ Len(o) \in Nat /\ DOMAIN o = 1 .. Len(o)
      /\ DOMAIN t = 1 .. Len(o) + 1
      /\ t[1] = k
      /\ \A i \in 2 .. Len(o) + 1 : i - 1 \in 1 .. Len(o) /\ t[i] = o[i - 1]
      /\ \A i \in 1 .. Len(o) : i + 1 \in 2 .. Len(o) + 1 /\ t[i + 1] = o[i]
  OBVIOUS
<1> HIDE DEF t
<1>2. ASSUME Older(t, a, b)
      PROVE  Older(o, a, b) \/ (b = k /\ a \in Elements(o))
  <2>1. PICK i \in 1 .. Len(o) + 1, j \in 1 .. Len(o) + 1 :
                i < j /\ t[i] = b /\ t[j] = a
    BY <1>1, <1>2 DEF Older
  <2>2. j - 1 \in 1 .. Len(o) /\ o[j - 1] = a
    BY <1>1, <2>1
  <2>3. CASE i = 1
    BY <1>1, <2>1, <2>2, <2>3 DEF Elements
  <2>4. CASE i # 1
    <3>1. i - 1 \in 1 .. Len(o) /\ o[i - 1] = b /\ i - 1 < j - 1
      BY <1>1, <2>1, <2>4
    <3> QED
      BY <1>1, <2>2, <3>1 DEF Older
  <2> QED
    BY <2>3, <2>4
<1>3. ASSUME Older(o, a, b)
      PROVE  Older(t, a, b)
  <2>1. PICK i \in 1 .. Len(o), j \in 1 .. Len(o) :
                i < j /\ o[i] = b /\ o[j] = a
    BY <1>1, <1>3 DEF Older
  <2>2. /\ i + 1 \in DOMAIN t /\ j + 1 \in DOMAIN t
        /\ i + 1 < j + 1
        /\ t[i + 1] = b /\ t[j + 1] = a
    BY <1>1, <2>1
  <2> QED
    BY <2>2 DEF Older
<1>4. ASSUME b = k, a \in Elements(o)
      PROVE  Older(t, a, b)
  <2>1. PICK j \in 1 .. Len(o) : o[j] = a
    BY <1>1, <1>4 DEF Elements
  <2>2. /\ 1 \in DOMAIN t /\ j + 1 \in DOMAIN t
        /\ 1 < j + 1
        /\ t[1] = b /\ t[j + 1] = a
    BY <1>1, <1>4, <2>1
  <2> QED
    BY <2>2 DEF Older
<1> QED
  BY <1>2, <1>3, <1>4 DEF t

\* A key pushed to the back is behind all others.
LEMMA OlderPushBack ==
    ASSUME NEW o \in Seq(Keys), NEW k \in Keys, NEW a, NEW b
    PROVE  Older(Append(o, k), a, b)
             <=> Older(o, a, b) \/ (a = k /\ b \in Elements(o))
<1> DEFINE t == Append(o, k)
<1>1. /\ Len(o) \in Nat /\ DOMAIN o = 1 .. Len(o)
      /\ DOMAIN t = 1 .. Len(o) + 1
      /\ t[Len(o) + 1] = k
      /\ \A i \in 1 .. Len(o) : t[i] = o[i]
  OBVIOUS
<1> HIDE DEF t
<1>2. ASSUME Older(t, a, b)
      PROVE  Older(o, a, b) \/ (a = k /\ b \in Elements(o))
  <2>1. PICK i \in 1 .. Len(o) + 1, j \in 1 .. Len(o) + 1 :
                i < j /\ t[i] = b /\ t[j] = a
    BY <1>1, <1>2 DEF Older
  <2>2. i \in 1 .. Len(o) /\ o[i] = b
    BY <1>1, <2>1
  <2>3. CASE j = Len(o) + 1
    BY <1>1, <2>1, <2>2, <2>3 DEF Elements
  <2>4. CASE j # Len(o) + 1
    <3>1. j \in 1 .. Len(o) /\ o[j] = a
      BY <1>1, <2>1, <2>4
    <3> QED
      BY <1>1, <2>1, <2>2, <3>1 DEF Older
  <2> QED
    BY <2>3, <2>4
<1>3. ASSUME Older(o, a, b)
      PROVE  Older(t, a, b)
  <2>1. PICK i \in 1 .. Len(o), j \in 1 .. Len(o) :
                i < j /\ o[i] = b /\ o[j] = a
    BY <1>1, <1>3 DEF Older
  <2>2. i \in DOMAIN t /\ j \in DOMAIN t /\ t[i] = b /\ t[j] = a
    BY <1>1, <2>1
  <2> QED
    BY <2>1, <2>2 DEF Older
<1>4. ASSUME a = k, b \in Elements(o)
      PROVE  Older(t, a, b)
  <2>1. PICK i \in 1 .. Len(o) : o[i] = b
    BY <1>1, <1>4 DEF Elements
  <2>2. /\ i \in DOMAIN t /\ Len(o) + 1 \in DOMAIN t
        /\ i < Len(o) + 1
        /\ t[i] = b /\ t[Len(o) + 1] = a
    BY <1>1, <1>4, <2>1
  <2> QED
    BY <2>2 DEF Older
<1> QED
  BY <1>2, <1>3, <1>4 DEF t

\* The back of a list is behind all others; popping it leaves their order.
LEMMA OlderPopBack ==
    ASSUME NEW o \in Seq(Keys), o # <<>>, NoDuplicates(o), NEW a, NEW b
    PROVE  /\ a = Last(o) /\ b \in Elements(o) \ {a} => Older(o, a, b)
           /\ Older(Front(o), a, b)
                <=> Older(o, a, b) /\ a # Last(o) /\ b # Last(o)
<1> DEFINE t == Front(o)
           n == Len(o)
<1>1. /\ n \in Nat /\ n \in 1 .. n /\ DOMAIN o = 1 .. n
      /\ Last(o) = o[n]
      /\ n - 1 \in Nat
      /\ DOMAIN t = 1 .. n - 1
      /\ \A i \in 1 .. n - 1 : t[i] = o[i]
  BY DEF Last, Front
<1> HIDE DEF t, n
<1>2. \A i \in 1 .. n : o[i] = o[n] => i = n
  BY <1>1 DEF NoDuplicates
<1>3. ASSUME a = Last(o), b \in Elements(o), b # a
      PROVE  Older(o, a, b)
  <2>1. PICK i \in 1 .. n : o[i] = b
    BY <1>1, <1>3 DEF Elements
  <2>2. i < n
    BY <1>1, <1>3, <2>1
  <2> QED
    BY <1>1, <1>3, <2>1, <2>2 DEF Older
<1>4. ASSUME Older(t, a, b)
      PROVE  Older(o, a, b) /\ a # Last(o) /\ b # Last(o)
  <2>1. PICK i \in 1 .. n - 1, j \in 1 .. n - 1 :
                i < j /\ t[i] = b /\ t[j] = a
    BY <1>1, <1>4 DEF Older
  <2>2. /\ i \in 1 .. n /\ j \in 1 .. n /\ i # n /\ j # n
        /\ o[i] = b /\ o[j] = a
    BY <1>1, <2>1
  <2> QED
    BY <1>1, <1>2, <2>1, <2>2 DEF Older
<1>5. ASSUME Older(o, a, b), a # Last(o), b # Last(o)
      PROVE  Older(t, a, b)
  <2>1. PICK i \in 1 .. n, j \in 1 .. n : i < j /\ o[i] = b /\ o[j] = a
    BY <1>1, <1>5 DEF Older
  <2>2. i \in 1 .. n - 1 /\ j \in 1 .. n - 1
    BY <1>1, <1>5, <2>1
  <2> QED
    BY <1>1, <2>1, <2>2 DEF Older
<1> QED
  BY <1>3, <1>4, <1>5 DEF t

\* Popping the front of a list puts nothing behind anything.
LEMMA OlderPopFront ==
    ASSUME NEW o \in Seq(Keys), o # <<>>, NEW a, NEW b, Older(Tail(o), a, b)
    PROVE  Older(o, a, b)
<1> DEFINE t == Tail(o)
<1>1. /\ Len(o) \in Nat /\ DOMAIN o = 1 .. Len(o)
      /\ DOMAIN t = 1 .. Len(o) - 1
      /\ \A i \in 1 .. Len(o) - 1 : t[i] = o[i + 1]
  OBVIOUS
<1> HIDE DEF t
<1>2. Older(t, a, b)
  BY DEF t
<1>3. PICK i \in 1 .. Len(o) - 1, j \in 1 .. Len(o) - 1 :
              i < j /\ t[i] = b /\ t[j] = a
  BY <1>1, <1>2 DEF Older
<1>4. /\ i + 1 \in DOMAIN o /\ j + 1 \in DOMAIN o
      /\ i + 1 < j + 1
      /\ o[i + 1] = b /\ o[j + 1] = a
  BY <1>1, <1>3
<1> QED
  BY <1>4 DEF Older

----------------------------------------------------------------------------
(* The order of last use, as RNext keeps it.                               *)

\* Of two keys of S, w says what o says; it says nothing of other keys.
KeepsOrder(w, o, S) ==
    \A a, b \in Keys : Older(w, a, b) <=> Older(o, a, b) /\ a \in S /\ b \in S

\* So it does, and k is the latest.
PutsFirst(w, o, k, S) ==
    \A a, b \in Keys :
        Older(w, a, b) <=> \/ Older(o, a, b) /\ a \in S /\ b \in S
                           \/ b = k /\ a \in S

\* The keys of S stay in their order.
LEMMA StayFacts ==
    ASSUME NEW o \in Seq(Keys), NoDuplicates(o), NEW S \in SUBSET Keys,
           NEW w, w = Without(o, Keys \ S)
    PROVE  /\ w \in Seq(Keys) /\ NoDuplicates(w)
           /\ Elements(w) = Elements(o) \cap S
           /\ KeepsOrder(w, o, S)
<1>1. w \in Seq(Keys) /\ NoDuplicates(w) /\ Elements(w) = Elements(o) \ (Keys \ S)
  BY WithoutFacts
<1>2. Elements(o) \subseteq Keys
  BY DEF Elements
<1>3. ASSUME NEW a \in Keys, NEW b \in Keys
      PROVE  Older(w, a, b) <=> Older(o, a, b) /\ a \in S /\ b \in S
  BY OlderWithout
<1> QED
  BY <1>1, <1>2, <1>3 DEF KeepsOrder

\* The keys of S stay in their order but for k, which comes in front.
LEMMA UseFacts ==
    ASSUME NEW o \in Seq(Keys), NoDuplicates(o), NEW S \in SUBSET Keys,
           NEW k \in S, S \ {k} \subseteq Elements(o),
           NEW w, w = <<k>> \o Without(Without(o, Keys \ S), {k})
    PROVE  /\ w \in Seq(Keys) /\ NoDuplicates(w)
           /\ Elements(w) = S
           /\ PutsFirst(w, o, k, S \ {k})
<1> DEFINE stay == Without(o, Keys \ S)
           rest == Without(stay, {k})
<1>1. /\ stay \in Seq(Keys) /\ NoDuplicates(stay)
      /\ Elements(stay) = Elements(o) \cap S
      /\ \A a, b \in Keys :
            Older(stay, a, b) <=> Older(o, a, b) /\ a \in S /\ b \in S
  BY StayFacts DEF KeepsOrder
<1> HIDE DEF stay
<1>2. /\ rest \in Seq(Keys) /\ NoDuplicates(rest)
      /\ Elements(rest) = Elements(stay) \ {k}
  BY <1>1, WithoutFacts
<1>3. \A a, b : Older(rest, a, b) <=> Older(stay, a, b) /\ a # k /\ b # k
  BY <1>1, OlderWithout
<1>4. w = <<k>> \o rest
  BY DEF stay
<1> HIDE DEF rest
<1>5. Elements(rest) = S \ {k}
  BY <1>1, <1>2
<1>6. k \in Keys
  OBVIOUS
<1>7. w \in Seq(Keys) /\ NoDuplicates(w) /\ Elements(w) = S
  <2>1. /\ <<k>> \o rest \in Seq(Keys)
        /\ NoDuplicates(<<k>> \o rest)
        /\ Elements(<<k>> \o rest) = Elements(rest) \cup {k}
    BY <1>2, <1>5, <1>6, PushFrontFacts
  <2> QED
    BY <1>4, <1>5, <2>1
<1>8. \A a, b : Older(w, a, b) <=> Older(rest, a, b) \/ (b = k /\ a \in Elements(rest))
  <2>1. \A a, b : Older(<<k>> \o rest, a, b)
                    <=> Older(rest, a, b) \/ (b = k /\ a \in Elements(rest))
    BY <1>2, <1>6, OlderPushFront
  <2> QED
    BY <1>4, <2>1
<1>9. ASSUME NEW a \in Keys, NEW b \in Keys
      PROVE  Older(w, a, b)
               <=> \/ Older(o, a, b) /\ a \in S \ {k} /\ b \in S \ {k}
                   \/ b = k /\ a \in S \ {k}
  BY <1>1, <1>3, <1>5, <1>8
<1> QED
  BY <1>7, <1>9 DEF PutsFirst

----------------------------------------------------------------------------
(* The methods of the policies.                                            *)

\* What the policy says of two keys agrees with the order o of their last
\* use: the whole list for LRU, unless the empty string is a key, which may be
\* stored and not in the list; each bucket, its front the oldest, for LFU.
Agrees(o, p) ==
    /\ Policy = "LRU" /\ EmptyKey \notin Keys =>
          \A a, b \in Keys : Older(p, a, b) <=> Older(o, a, b)
    /\ Policy = "LFU" =>
          \A f \in 1 .. MaxFreq, a, b \in Keys :
              Older(p.buckets[f], b, a) => Older(o, a, b)

\* onAccess makes the key the latest, for LRU of all keys and for LFU of the
\* keys of its new bucket.
LEMMA AgreesOnAccess ==
    ASSUME NEW p \in PolicyStates, PolicyConsistent(p),
           NEW S \in SUBSET Keys, Tracks(p, S),
           NEW k \in S, CanCount(p, k),
           NEW o \in Seq(Keys), Elements(o) = S, Agrees(o, p),
           NEW w, PutsFirst(w, o, k, S \ {k})
    PROVE  Agrees(w, OnAccess(p, k))
<1> USE DEF PutsFirst
<1>1. ASSUME Policy = "LRU", EmptyKey \notin Keys
      PROVE  \A a, b \in Keys : Older(OnAccess(p, k), a, b) <=> Older(w, a, b)
  <2>1. p \in Seq(Keys) /\ Elements(p) = S
    BY <1>1, TracksAll DEF PolicyStates, LRUStates, Tracked, LRUTracked
  <2> DEFINE rest == Without(p, {k})
  <2>2. OnAccess(p, k) = <<k>> \o rest
    BY <1>1, <2>1 DEF OnAccess, LRUOnAccess, LRUTracked
  <2>3. rest \in Seq(Keys) /\ Elements(rest) = S \ {k}
    BY <2>1, WithoutFacts
  <2>4. \A a, b : Older(rest, a, b) <=> Older(p, a, b) /\ a # k /\ b # k
    BY <2>1, OlderWithout
  <2> HIDE DEF rest
  <2>5. \A a, b : Older(OnAccess(p, k), a, b)
                    <=> Older(rest, a, b) \/ (b = k /\ a \in S \ {k})
    BY <2>2, <2>3, OlderPushFront
  <2>6. \A a, b \in Keys : Older(p, a, b) <=> Older(o, a, b)
    BY <1>1 DEF Agrees
  <2>7. \A a, b : Older(p, a, b) => a \in S /\ b \in S
    BY <2>1, OlderElements
  <2> QED
    BY <2>4, <2>5, <2>6, <2>7
<1>2. ASSUME Policy = "LFU", k \in LFUTracked(p),
             NEW f \in 1 .. MaxFreq, NEW a \in Keys, NEW b \in Keys,
             Older(OnAccess(p, k).buckets[f], b, a)
      PROVE  Older(w, a, b)
  <2> DEFINE old  == p.freq[k]
             rest == Without(p.buckets[old], {k})
             more == Append(p.buckets[old + 1], k)
  <2>1. /\ p.freq \in [Keys -> 0 .. MaxFreq]
        /\ p.buckets \in [1 .. MaxFreq -> Seq(Keys)]
        /\ MaxFreq \in Nat
        /\ LFUTracked(p) \subseteq S
        /\ k \in LFUTracked(p)
        /\ OnAccess(p, k) = LFUOnAccess(p, k)
        /\ LFUCanCount(p, k)
    BY <1>2, PolicyAssumption
       DEF PolicyStates, LFUStates, Tracks, Tracked, OnAccess, CanCount
  <2>2. old \in 1 .. MaxFreq /\ old + 1 \in 1 .. MaxFreq /\ old # old + 1
    BY <2>1 DEF LFUTracked, LFUCanCount
  <2>3. OnAccess(p, k).buckets = [p.buckets EXCEPT ![old] = rest, ![old + 1] = more]
    BY <2>1 DEF LFUOnAccess
  <2>4. \A g \in 1 .. MaxFreq : Elements(p.buckets[g]) = {j \in Keys : p.freq[j] = g}
    BY <1>2 DEF PolicyConsistent, LFUConsistent
  <2>5. \A g \in 1 .. MaxFreq : \A x, y \in Keys :
            Older(p.buckets[g], y, x) =>
               /\ Older(o, x, y)
               /\ p.freq[x] = g /\ p.freq[y] = g
               /\ x \in S /\ y \in S
    <3>1. ASSUME NEW g \in 1 .. MaxFreq, NEW x \in Keys, NEW y \in Keys,
                 Older(p.buckets[g], y, x)
          PROVE  /\ Older(o, x, y)
                 /\ p.freq[x] = g /\ p.freq[y] = g
                 /\ x \in S /\ y \in S
      <4>1. Older(o, x, y)
        BY <1>2, <3>1 DEF Agrees
      <4>2. x \in Elements(p.buckets[g]) /\ y \in Elements(p.buckets[g])
        BY <3>1, OlderElements
      <4>3. p.freq[x] = g /\ p.freq[y] = g
        BY <2>4, <4>2
      <4>4. x \in Elements(o) /\ y \in Elements(o)
        BY <4>1, OlderElements
      <4> QED
        BY <4>1, <4>3, <4>4
    <3> QED
      BY <3>1
  <2> HIDE DEF old
  <2>6. CASE f = old
    <3>1. Older(rest, b, a)
      BY <1>2, <2>1, <2>2, <2>3, <2>6
    <3>2. p.buckets[old] \in Seq(Keys)
      BY <2>1, <2>2
    <3>3. /\ Older(p.buckets[old], b, a)
          /\ b \notin {k} /\ a \notin {k}
      <4>1. Older(Without(p.buckets[old], {k}), b, a)
        BY <3>1
      <4> HIDE DEF rest, more
      <4> QED
        BY ONLY <3>2, <4>1, OlderWithout
    <3>4. Older(o, a, b) /\ a \in S /\ b \in S
      BY <2>2, <2>5, <3>3
    <3> QED
      BY <3>3, <3>4
  <2>7. CASE f = old + 1
    <3>1. Older(more, b, a)
      BY <1>2, <2>1, <2>2, <2>3, <2>7
    <3>2. p.buckets[old + 1] \in Seq(Keys) /\ k \in Keys
      BY <2>1, <2>2
    <3>3. \/ Older(p.buckets[old + 1], b, a)
          \/ b = k /\ a \in Elements(p.buckets[old + 1])
      BY <3>1, <3>2, OlderPushBack
    <3>4. p.freq[k] # old + 1
      BY <2>2 DEF old
    <3>5. CASE Older(p.buckets[old + 1], b, a)
      <4>1. Older(o, a, b) /\ a \in S /\ b \in S /\ a # k /\ b # k
        BY <2>2, <2>5, <3>4, <3>5
      <4> QED
        BY <4>1
    <3>6. CASE b = k /\ a \in Elements(p.buckets[old + 1])
      <4>1. p.freq[a] = old + 1
        BY <2>2, <2>4, <3>6
      <4>2. a # k /\ a \in S
        BY <2>1, <2>2, <3>4, <4>1 DEF LFUTracked
      <4> QED
        BY <3>6, <4>2
    <3> QED
      BY <3>3, <3>5, <3>6
  <2>8. CASE f # old /\ f # old + 1
    <3>1. Older(p.buckets[f], b, a)
      BY <1>2, <2>1, <2>2, <2>3, <2>8
    <3>2. Older(o, a, b) /\ a \in S /\ b \in S /\ p.freq[a] = f /\ p.freq[b] = f
      BY <2>5, <3>1
    <3>3. a # k /\ b # k
      BY <2>8, <3>2 DEF old
    <3> QED
      BY <3>2, <3>3
  <2> QED
    BY <2>6, <2>7, <2>8
<1>3. ASSUME Policy = "LFU", k \notin LFUTracked(p),
             NEW f \in 1 .. MaxFreq, NEW a \in Keys, NEW b \in Keys,
             Older(OnAccess(p, k).buckets[f], b, a)
      PROVE  Older(w, a, b)
  <2>1. Older(p.buckets[f], b, a)
    BY <1>3 DEF OnAccess, LFUOnAccess
  <2>2. Elements(p.buckets[f]) \subseteq LFUTracked(p)
    BY <1>3 DEF PolicyConsistent, LFUConsistent, LFUTracked
  <2>3. Older(o, a, b)
    BY <1>3, <2>1 DEF Agrees
  <2>4. a # k /\ b # k
    BY <1>3, <2>1, <2>2, OlderElements
  <2>5. a \in S /\ b \in S
    BY <2>3, OlderElements
  <2> QED
    BY <2>3, <2>4, <2>5
<1> QED
  BY <1>1, <1>2, <1>3 DEF Agrees

\* onAdd makes a new key the latest.
LEMMA AgreesOnAdd ==
    ASSUME NEW p \in PolicyStates, PolicyConsistent(p),
           NEW S \in SUBSET Keys, Tracks(p, S),
           NEW k \in Keys \ S,
           NEW o \in Seq(Keys), Elements(o) = S, Agrees(o, p),
           NEW w, PutsFirst(w, o, k, S)
    PROVE  Agrees(w, OnAdd(p, k))
<1> USE DEF PutsFirst
<1>1. ASSUME Policy = "LRU", EmptyKey \notin Keys
      PROVE  \A a, b \in Keys : Older(OnAdd(p, k), a, b) <=> Older(w, a, b)
  <2>1. p \in Seq(Keys) /\ Elements(p) = S /\ OnAdd(p, k) = <<k>> \o p
    BY <1>1, TracksAll DEF PolicyStates, LRUStates, Tracked, LRUTracked, OnAdd, LRUOnAdd
  <2>2. \A a, b : Older(<<k>> \o p, a, b) <=> Older(p, a, b) \/ (b = k /\ a \in S)
    BY <2>1, OlderPushFront
  <2>3. \A a, b \in Keys : Older(p, a, b) <=> Older(o, a, b)
    BY <1>1 DEF Agrees
  <2>4. \A a, b : Older(p, a, b) => a \in S /\ b \in S
    BY <2>1, OlderElements
  <2> QED
    BY <2>1, <2>2, <2>3, <2>4
<1>2. ASSUME Policy = "LFU", NEW f \in 1 .. MaxFreq, NEW a \in Keys, NEW b \in Keys,
             Older(OnAdd(p, k).buckets[f], b, a)
      PROVE  Older(w, a, b)
  <2>1. /\ p.buckets \in [1 .. MaxFreq -> Seq(Keys)]
        /\ MaxFreq \in Nat /\ 1 \in 1 .. MaxFreq
        /\ LFUTracked(p) \subseteq S
        /\ OnAdd(p, k) = LFUOnAdd(p, k)
        /\ LFUOnAdd(p, k).buckets
             = [p.buckets EXCEPT ![1] = Append(p.buckets[1], k)]
    <3>1. /\ p \in LFUStates
          /\ LFUTracked(p) \subseteq S
          /\ OnAdd(p, k) = LFUOnAdd(p, k)
      BY <1>2 DEF PolicyStates, Tracks, Tracked, OnAdd
    <3>2. LFUOnAdd(p, k).buckets
            = [p.buckets EXCEPT ![1] = Append(p.buckets[1], k)]
      BY DEF LFUOnAdd
    <3> QED
      BY <3>1, <3>2, PolicyAssumption DEF LFUStates
  <2>2. \A x, y \in Keys : Older(p.buckets[f], y, x) => Older(o, x, y) /\ x \in S /\ y \in S
    BY <1>2, OlderElements DEF Agrees
  <2>3. CASE f = 1
    <3>1. Older(Append(p.buckets[1], k), b, a) /\ p.buckets[1] \in Seq(Keys)
      BY <1>2, <2>1, <2>3
    <3>2. Older(p.buckets[1], b, a) \/ (b = k /\ a \in Elements(p.buckets[1]))
      BY <3>1, OlderPushBack
    <3>3. Elements(p.buckets[1]) = {j \in Keys : p.freq[j] = 1}
      BY <1>2, <2>1 DEF PolicyConsistent, LFUConsistent
    <3>4. a \in Elements(p.buckets[1]) => a \in S
      BY <2>1, <3>3 DEF LFUTracked
    <3> QED
      BY <2>2, <2>3, <3>2, <3>4
  <2>4. CASE f # 1
    <3>1. Older(p.buckets[f], b, a)
      BY <1>2, <2>1, <2>4
    <3> QED
      BY <2>2, <3>1
  <2> QED
    BY <2>3, <2>4
<1> QED
  BY <1>1, <1>2 DEF Agrees

\* onRemove leaves the order of the other keys.
LEMMA AgreesOnRemove ==
    ASSUME NEW p \in PolicyStates, NEW G, NEW o, Agrees(o, p),
           NEW w, KeepsOrder(w, o, Keys \ G)
    PROVE  Agrees(w, OnRemove(p, G))
<1> USE DEF KeepsOrder
<1>1. ASSUME Policy = "LRU", EmptyKey \notin Keys
      PROVE  \A a, b \in Keys : Older(OnRemove(p, G), a, b) <=> Older(w, a, b)
  <2>1. p \in Seq(Keys) /\ OnRemove(p, G) = Without(p, G)
    BY <1>1 DEF PolicyStates, LRUStates, OnRemove, LRUOnRemove
  <2>2. \A a, b : Older(Without(p, G), a, b) <=> Older(p, a, b) /\ a \notin G /\ b \notin G
    BY <2>1, OlderWithout
  <2> QED
    BY <1>1, <2>1, <2>2 DEF Agrees
<1>2. ASSUME Policy = "LFU", NEW f \in 1 .. MaxFreq, NEW a \in Keys, NEW b \in Keys,
             Older(OnRemove(p, G).buckets[f], b, a)
      PROVE  Older(w, a, b)
  <2>1. /\ p.buckets[f] \in Seq(Keys)
        /\ OnRemove(p, G).buckets[f] = Without(p.buckets[f], G)
    BY <1>2 DEF PolicyStates, LFUStates, OnRemove, LFUOnRemove
  <2>2. Older(p.buckets[f], b, a) /\ a \notin G /\ b \notin G
    BY <1>2, <2>1, OlderWithout
  <2> QED
    BY <1>2, <2>2 DEF Agrees
<1> QED
  BY <1>1, <1>2 DEF Agrees

\* evict leaves the order of the keys but the victim, which the shard keeps
\* if it is the empty string; the victim of LRU is the oldest key.
LEMMA AgreesEvict ==
    ASSUME NEW p \in PolicyStates, PolicyConsistent(p),
           NEW S \in SUBSET Keys, Tracks(p, S),
           NEW o \in Seq(Keys), Elements(o) = S, Agrees(o, p),
           NEW w, KeepsOrder(w, o, S \ ({Evict(p).key} \ {EmptyKey}))
    PROVE  /\ Agrees(w, Evict(p).pol)
           /\ Policy = "LRU" /\ EmptyKey \notin Keys =>
                 \A b \in S \ {Evict(p).key} : Older(o, Evict(p).key, b)
<1> USE DEF KeepsOrder
<1> DEFINE v == Evict(p).key
<1>1. ASSUME Policy = "LRU", EmptyKey \notin Keys
      PROVE  /\ \A a, b \in Keys : Older(Evict(p).pol, a, b) <=> Older(w, a, b)
             /\ \A b \in S \ {v} : Older(o, v, b)
  <2>1. p \in Seq(Keys) /\ Elements(p) = S /\ NoDuplicates(p)
    BY <1>1, TracksAll
       DEF PolicyStates, LRUStates, Tracked, LRUTracked, PolicyConsistent, LRUConsistent
  <2>2. /\ \A a, b \in Keys : Older(p, a, b) <=> Older(o, a, b)
        /\ \A a, b : Older(p, a, b) => a \in S /\ b \in S
    BY <1>1, <2>1, OlderElements DEF Agrees
  <2>3. CASE p = <<>>
    <3>1. S = {} /\ Evict(p).pol = p
      BY <1>1, <2>1, <2>3 DEF Elements, Evict, LRUEvict
    <3> QED
      BY <2>2, <3>1
  <2>4. CASE p # <<>>
    <3>1. v = Last(p) /\ Evict(p).pol = Front(p)
      BY <1>1, <2>4 DEF Evict, LRUEvict
    <3>2. v \in S
      BY <2>1, <2>4, <3>1, PopBackFacts
    <3>3. /\ \A b \in S \ {v} : Older(p, v, b)
          /\ \A a, b : Older(Front(p), a, b) <=> Older(p, a, b) /\ a # v /\ b # v
      BY <2>1, <2>4, <3>1, OlderPopBack
    <3>4. KeepsOrder(w, o, S \ {v})
      BY <1>1, <3>2
    <3> QED
      BY <2>2, <3>1, <3>2, <3>3, <3>4
  <2> QED
    BY <2>3, <2>4
<1>2. ASSUME Policy = "LFU", NEW f \in 1 .. MaxFreq, NEW a \in Keys, NEW b \in Keys,
             Older(Evict(p).pol.buckets[f], b, a)
      PROVE  Older(w, a, b)
  <2>1. p \in LFUStates /\ p.buckets \in [1 .. MaxFreq -> Seq(Keys)] /\ p.min \in 0 .. MaxFreq
    BY <1>2 DEF PolicyStates, LFUStates
  <2>2. MaxFreq \in Nat /\ Evict(p) = LFUEvict(p)
    BY <1>2, PolicyAssumption DEF Evict
  <2>3. \A g \in 1 .. MaxFreq : \A x, y \in Keys :
           Older(p.buckets[g], y, x) => Older(o, x, y) /\ x \in S /\ y \in S
    BY <1>2, OlderElements DEF Agrees
  <2>4. CASE p.min = 0 \/ p.buckets[p.min] = <<>>
    <3>1. v = EmptyKey /\ Older(p.buckets[f], b, a)
      BY <1>2, <2>2, <2>4 DEF LFUEvict
    <3> QED
      BY <2>3, <3>1
  <2>5. CASE ~ (p.min = 0 \/ p.buckets[p.min] = <<>>)
    <3> DEFINE bucket == p.buckets[p.min]
    <3>1. p.min \in 1 .. MaxFreq /\ bucket \in Seq(Keys) /\ bucket # <<>>
      BY <2>1, <2>2, <2>5
    <3>2. v = Head(bucket) /\ Evict(p).pol.buckets = [p.buckets EXCEPT ![p.min] = Tail(bucket)]
      BY <2>2, <2>5 DEF LFUEvict
    <3>3. /\ \A g \in 1 .. MaxFreq :
                Elements(p.buckets[g]) = {j \in Keys : p.freq[j] = g}
          /\ NoDuplicates(bucket)
      BY <1>2, <3>1 DEF PolicyConsistent, LFUConsistent
    <3>4. v \in Elements(bucket) /\ Elements(Tail(bucket)) = Elements(bucket) \ {v}
      BY <3>1, <3>2, <3>3, PopFrontFacts
    <3>5. CASE f = p.min
      <4>1. Older(Tail(bucket), b, a)
        BY <1>2, <2>1, <3>1, <3>2, <3>5
      <4>2. Older(bucket, b, a) /\ a # v /\ b # v
        BY <3>1, <3>4, <4>1, OlderPopFront, OlderElements
      <4> QED
        BY <2>3, <3>1, <4>2
    <3>6. CASE f # p.min
      <4>1. Older(p.buckets[f], b, a)
        BY <1>2, <2>1, <3>1, <3>2, <3>6
      <4>2. a \in Elements(p.buckets[f]) /\ b \in Elements(p.buckets[f])
        BY <4>1, OlderElements
      <4>3. a # v /\ b # v
        BY <3>1, <3>3, <3>4, <3>6, <4>2
      <4> QED
        BY <2>3, <4>1, <4>3
    <3> QED
      BY <3>5, <3>6
  <2> QED
    BY <2>4, <2>5
<1> QED
  BY <1>1, <1>2 DEF Agrees

----------------------------------------------------------------------------
(* The operations on a shard.                                              *)

\* The order o holds the keys of the shard, once each, and agrees with what
\* its policy says of them.
InStep(o, sh) ==
    /\ o \in Seq(Keys)
    /\ NoDuplicates(o)
    /\ Elements(o) = Stored(sh)
    /\ Agrees(o, sh.pol)

\* The order after a step that uses no key, and after one that uses k: what
\* Unused and Used of CacheRecency say of one shard.
StayOrder(o, after) == Without(o, Keys \ Stored(after))
UseOrder(o, k, after) ==
    IF k \in Stored(after) THEN <<k>> \o Without(StayOrder(o, after), {k})
                           ELSE StayOrder(o, after)

\* A step that takes keys away and leaves the policy to agree keeps in step.
LEMMA StayInStep ==
    ASSUME NEW sh, NEW after, NEW o, InStep(o, sh),
           Stored(after) \subseteq Stored(sh),
           NEW w, w = StayOrder(o, after), Agrees(w, after.pol)
    PROVE  InStep(w, after)
<1>1. Stored(after) \in SUBSET Keys
  BY DEF Stored
<1>2. o \in Seq(Keys) /\ NoDuplicates(o) /\ Elements(o) = Stored(sh)
  BY DEF InStep
<1>3. w \in Seq(Keys) /\ NoDuplicates(w) /\ Elements(w) = Elements(o) \cap Stored(after)
  <2> DEFINE S == Stored(after)
  <2>1. S \in SUBSET Keys /\ w = Without(o, Keys \ S)
    BY <1>1 DEF StayOrder
  <2> HIDE DEF S
  <2>2. w \in Seq(Keys) /\ NoDuplicates(w) /\ Elements(w) = Elements(o) \cap S
    BY <1>2, <2>1, StayFacts
  <2> QED
    BY <2>2 DEF S
<1> QED
  BY <1>2, <1>3 DEF InStep

\* What the order after such a step says.
LEMMA StayOlder ==
    ASSUME NEW sh, NEW after, NEW o, InStep(o, sh)
    PROVE  KeepsOrder(StayOrder(o, after), o, Stored(after))
<1>1. Stored(after) \in SUBSET Keys
  BY DEF Stored
<1> QED
  BY <1>1, StayFacts DEF StayOrder, InStep

\* What the order after the use of k says, and that it holds the right keys.
LEMMA UseOlder ==
    ASSUME NEW sh, NEW after, NEW o, InStep(o, sh), NEW k \in Stored(after),
           Stored(after) \ {k} \subseteq Stored(sh),
           NEW w, w = UseOrder(o, k, after)
    PROVE  /\ w \in Seq(Keys) /\ NoDuplicates(w) /\ Elements(w) = Stored(after)
           /\ PutsFirst(w, o, k, Stored(after) \ {k})
<1> DEFINE S == Stored(after)
<1>1. S \in SUBSET Keys /\ k \in S
  BY DEF Stored
<1>2. o \in Seq(Keys) /\ NoDuplicates(o) /\ S \ {k} \subseteq Elements(o)
  BY DEF InStep
<1>3. w = <<k>> \o Without(Without(o, Keys \ S), {k})
  BY DEF UseOrder, StayOrder
<1> HIDE DEF S
<1>4. /\ w \in Seq(Keys) /\ NoDuplicates(w) /\ Elements(w) = S
      /\ PutsFirst(w, o, k, S \ {k})
  BY <1>1, <1>2, <1>3, UseFacts
<1> QED
  BY <1>4 DEF S

\* An order that agrees with a policy is judged by its pairs only.
LEMMA AgreesPairs ==
    ASSUME NEW o, NEW w, NEW p, Agrees(o, p),
           \A a, b \in Keys : Older(w, a, b) <=> Older(o, a, b)
    PROVE  Agrees(w, p)
BY DEF Agrees

\* A shard that is left alone stays in step.
LEMMA SameInStep ==
    ASSUME NEW sh, NEW o, InStep(o, sh)
    PROVE  InStep(StayOrder(o, sh), sh)
<1> DEFINE w == StayOrder(o, sh)
<1>1. \A a, b \in Keys : Older(w, a, b) <=> Older(o, a, b)
  <2>1. \A a, b : Older(o, a, b) => a \in Stored(sh) /\ b \in Stored(sh)
    BY OlderElements DEF InStep
  <2> QED
    BY <2>1, StayOlder DEF KeepsOrder
<1>2. Agrees(o, sh.pol)
  BY DEF InStep
<1> HIDE DEF w
<1>3. Agrees(w, sh.pol)
  BY <1>1, <1>2, AgreesPairs
<1> QED
  BY <1>3, StayInStep DEF w

\* del, and the removal of expired keys.
LEMMA RemovalInStep ==
    ASSUME NEW sh \in ShardStates, NEW G, NEW o, InStep(o, sh),
           NEW after,
           after = [store |-> Erase(sh.store, G), pol |-> OnRemove(sh.pol, G)]
    PROVE  InStep(StayOrder(o, after), after)
<1> DEFINE w == StayOrder(o, after)
<1>1. sh.pol \in PolicyStates /\ after.pol = OnRemove(sh.pol, G)
  BY DEF ShardStates
<1>2. Stored(after) = Stored(sh) \ G
  BY <1>1, EraseFacts, OnRemoveFacts
<1>3. KeepsOrder(w, o, Keys \ G)
  <2>1. \A a, b : Older(o, a, b) => a \in Stored(sh) /\ b \in Stored(sh)
    BY OlderElements DEF InStep
  <2>2. KeepsOrder(w, o, Stored(after))
    BY StayOlder
  <2> QED
    BY <1>2, <2>1, <2>2 DEF KeepsOrder
<1>4. Agrees(o, sh.pol)
  BY DEF InStep
<1> HIDE DEF w
<1>5. Agrees(w, OnRemove(sh.pol, G))
  BY <1>1, <1>3, <1>4, AgreesOnRemove
<1> QED
  BY <1>1, <1>2, <1>5, StayInStep DEF w

\* clear leaves a new shard, with nothing to disagree about.
LEMMA NewInStep ==
    ASSUME NEW sh, NEW o, InStep(o, sh)
    PROVE  InStep(StayOrder(o, NewShard), NewShard)
<1>1. Stored(NewShard) = {}
  BY DEF Stored, NewShard, EmptyStore
<1>2. \A a, b \in Keys : ~ Older(StayOrder(o, NewShard), a, b)
  BY <1>1, StayOlder DEF KeepsOrder
<1>3. \A a, b : ~ Older(<<>>, a, b)
  BY DEF Older
<1>4. Agrees(StayOrder(o, NewShard), NewShard.pol)
  BY <1>2, <1>3 DEF Agrees, NewShard, NewPolicy, LRUNew, LFUNew
<1> QED
  BY <1>1, <1>4, StayInStep

\* A key of the shard that is used becomes the latest.
LEMMA AccessInStep ==
    ASSUME NEW sh \in ShardStates, Sound(sh), NEW k \in Stored(sh),
           CanCount(sh.pol, k), NEW o, InStep(o, sh),
           NEW after, Stored(after) = Stored(sh), after.pol = OnAccess(sh.pol, k)
    PROVE  InStep(UseOrder(o, k, after), after)
<1> DEFINE w == UseOrder(o, k, after)
           S == Stored(sh)
<1>1. /\ sh.pol \in PolicyStates /\ S \in SUBSET Keys
      /\ Tracks(sh.pol, S) /\ PolicyConsistent(sh.pol)
      /\ k \in S
  BY DEF ShardStates, Stored, Sound
<1>2. o \in Seq(Keys) /\ Elements(o) = S /\ Agrees(o, sh.pol)
  BY DEF InStep
<1>3. /\ w \in Seq(Keys) /\ NoDuplicates(w) /\ Elements(w) = S
      /\ PutsFirst(w, o, k, S \ {k})
  BY UseOlder
<1> HIDE DEF w, S
<1>4. Agrees(w, OnAccess(sh.pol, k))
  BY <1>1, <1>2, <1>3, AgreesOnAccess
<1> QED
  BY <1>3, <1>4 DEF InStep, w, S

\* get and getValueWithTtl.
LEMMA GetInStep ==
    ASSUME NEW sh \in ShardStates, Sound(sh), NEW k \in Keys,
           CanCount(sh.pol, k), NEW o, InStep(o, sh), NEW t,
           NEW after, after = Get(sh, k, t).shard
    PROVE  InStep(UseOrder(o, k, after), after)
<1>1. CASE sh.store[k] = NoEntry
  <2>1. after = sh /\ k \notin Stored(after)
    BY <1>1 DEF Get, Stored
  <2> QED
    BY <2>1, SameInStep DEF UseOrder
<1>2. CASE sh.store[k] # NoEntry /\ IsExpired(sh.store[k], t)
  <2>1. after = Delete(sh, k)
    BY <1>2 DEF Get
  <2>2. k \notin Stored(after)
    BY <2>1 DEF Delete, Erase, Stored
  <2> QED
    BY <2>1, <2>2, RemovalInStep DEF UseOrder, Delete
<1>3. CASE sh.store[k] # NoEntry /\ ~ IsExpired(sh.store[k], t)
  <2>1. after = [sh EXCEPT !.pol = OnAccess(@, k)]
    BY <1>3 DEF Get
  <2>2. Stored(after) = Stored(sh) /\ after.pol = OnAccess(sh.pol, k)
    BY <2>1 DEF ShardStates, Stored
  <2>3. k \in Stored(sh)
    BY <1>3 DEF Stored
  <2> QED
    BY <2>2, <2>3, AccessInStep
<1> QED
  BY <1>1, <1>2, <1>3

\* The shard after the capacity check: nothing happened, or the policy named
\* a victim, which left it unless it is the empty string.
LEMMA AdmitCases ==
    ASSUME NEW sh \in ShardStates, NEW k \in Keys
    PROVE  \/ /\ Policy = "NONE" \/ k \in Stored(sh) \/ ~ Full(sh)
              /\ Admit(sh, k) = sh
           \/ /\ Policy # "NONE" /\ k \notin Stored(sh) /\ Full(sh)
              /\ Admit(sh, k).pol = Evict(sh.pol).pol
              /\ Stored(Admit(sh, k))
                   = Stored(sh) \ ({Evict(sh.pol).key} \ {EmptyKey})
<1> DEFINE evicted == Evict(sh.pol)
           erased == {evicted.key} \cap (Stored(sh) \ {EmptyKey})
           room == [store |-> Erase(sh.store, erased), pol |-> evicted.pol]
<1>1. \/ /\ Policy = "NONE" \/ k \in Stored(sh) \/ ~ Full(sh)
         /\ Admit(sh, k) = sh
      \/ /\ Policy # "NONE" /\ k \notin Stored(sh) /\ Full(sh)
         /\ Admit(sh, k) = room
  BY DEF Admit, MakeRoom
<1>2. evicted.pol \in PolicyStates
  BY EvictType DEF ShardStates
<1>3. Stored(room) = Stored(sh) \ erased /\ room.pol = evicted.pol
  BY <1>2, EraseFacts
<1> QED
  BY <1>1, <1>3

\* The capacity check stays in step.
LEMMA AdmitInStep ==
    ASSUME NEW sh \in ShardStates, Sound(sh), NEW k \in Keys,
           NEW o, InStep(o, sh),
           NEW room, room = Admit(sh, k)
    PROVE  InStep(StayOrder(o, room), room)
<1> DEFINE w == StayOrder(o, room)
           V == {Evict(sh.pol).key} \ {EmptyKey}
           S == Stored(sh)
<1>1. CASE room = sh
  BY <1>1, SameInStep
<1>2. CASE room.pol = Evict(sh.pol).pol /\ Stored(room) = S \ V
  <2>1. /\ sh.pol \in PolicyStates /\ S \in SUBSET Keys
        /\ Tracks(sh.pol, S) /\ PolicyConsistent(sh.pol)
    BY DEF ShardStates, Stored, Sound
  <2>2. o \in Seq(Keys) /\ Elements(o) = S /\ Agrees(o, sh.pol)
    BY DEF InStep
  <2>3. KeepsOrder(w, o, S \ V)
    BY <1>2, StayOlder
  <2>4. Stored(room) \subseteq Stored(sh)
    BY <1>2
  <2> HIDE DEF w, S
  <2>5. Agrees(w, Evict(sh.pol).pol)
    BY <2>1, <2>2, <2>3, AgreesEvict
  <2> QED
    BY <1>2, <2>4, <2>5, StayInStep DEF w
<1> QED
  BY <1>1, <1>2, AdmitCases

\* set and setWithTtl.
LEMMA PutInStep ==
    ASSUME NEW sh \in ShardStates, Sound(sh), NEW k \in Keys, NEW e \in Entry,
           CanCount(sh.pol, k), NEW o, InStep(o, sh),
           NEW after, after = Put(sh, k, e).shard
    PROVE  InStep(UseOrder(o, k, after), after)
<1> DEFINE room == Admit(sh, k)
           pol == IF k \in Stored(sh) THEN OnAccess(room.pol, k)
                                      ELSE OnAdd(room.pol, k)
           put == [store |-> [room.store EXCEPT ![k] = e], pol |-> pol]
<1>1. /\ room \in ShardStates
      /\ Stored(room) \subseteq Stored(sh)
      /\ k \in Stored(sh) => room = sh
      /\ Sound(room)
  BY AdmitFacts
<1>2. InStep(StayOrder(o, room), room)
  BY AdmitInStep
<1>3. \/ k \notin Stored(sh) /\ after = room
      \/ after = put
  BY DEF Put
<1>4. put.pol = pol /\ Stored(put) = Stored(room) \cup {k}
  BY <1>1, EntryAssumption DEF ShardStates, Stored
<1> HIDE DEF room, put
<1>5. CASE k \notin Stored(sh) /\ after = room
  BY <1>1, <1>2, <1>5 DEF UseOrder
<1>6. CASE after = put /\ k \in Stored(sh)
  <2>1. Stored(after) = Stored(sh) /\ after.pol = OnAccess(sh.pol, k)
    BY <1>1, <1>4, <1>6
  <2> QED
    BY <1>6, <2>1, AccessInStep
<1>7. CASE after = put /\ k \notin Stored(sh)
  <2> DEFINE S == Stored(room)
             o1 == StayOrder(o, room)
             w == UseOrder(o, k, after)
  <2>1. /\ room.pol \in PolicyStates /\ S \in SUBSET Keys
        /\ Tracks(room.pol, S) /\ PolicyConsistent(room.pol)
        /\ k \in Keys \ S
    BY <1>1, <1>7 DEF ShardStates, Stored, Sound
  <2>2. o1 \in Seq(Keys) /\ Elements(o1) = S /\ Agrees(o1, room.pol)
    BY <1>2 DEF InStep
  <2>3. /\ after.pol = OnAdd(room.pol, k)
        /\ Stored(after) = S \cup {k} /\ Stored(after) \ {k} = S
        /\ k \in Stored(after) /\ S \subseteq Stored(sh)
    BY <1>1, <1>4, <1>7, <2>1
  <2>4. KeepsOrder(o1, o, S)
    BY StayOlder
  <2> HIDE DEF S
  <2>5. /\ w \in Seq(Keys) /\ NoDuplicates(w) /\ Elements(w) = Stored(after)
        /\ PutsFirst(w, o, k, S)
    <3>1. /\ w \in Seq(Keys) /\ NoDuplicates(w) /\ Elements(w) = Stored(after)
          /\ PutsFirst(w, o, k, Stored(after) \ {k})
      <4>1. Stored(after) \ {k} \subseteq Stored(sh) /\ k \in Stored(after)
        BY <2>3
      <4>2. w = UseOrder(o, k, after)
        OBVIOUS
      <4> HIDE DEF w, pol
      <4>3. InStep(o, sh)
        OBVIOUS
      <4>4. \A x : x = UseOrder(o, k, after) =>
                /\ x \in Seq(Keys) /\ NoDuplicates(x) /\ Elements(x) = Stored(after)
                /\ PutsFirst(x, o, k, Stored(after) \ {k})
        BY <4>1, <4>3, UseOlder
      <4> QED
        BY <4>2, <4>4
    <3> QED
      BY <2>3, <3>1
  <2> HIDE DEF w, o1
  <2>6. PutsFirst(w, o1, k, S)
    BY <2>4, <2>5 DEF KeepsOrder, PutsFirst
  <2>7. Agrees(w, OnAdd(room.pol, k))
    BY <2>1, <2>2, <2>6, AgreesOnAdd
  <2> QED
    BY <2>3, <2>5, <2>7 DEF InStep, w
<1> QED
  BY <1>3, <1>5, <1>6, <1>7

----------------------------------------------------------------------------
(* The invariant.                                                          *)

\* In each shard, the order of last use holds the stored keys and agrees with
\* the policy.
RecencyInv ==
    /\ recency \in [Shards -> Seq(Keys)]
    /\ \A s \in Shards : InStep(recency[s], shards[s])

\* What a visit of a scan does to the shard it visits.
LEMMA VisitInStep ==
    ASSUME NEW sh \in ShardStates, NEW op, NEW o, InStep(o, sh),
           NEW after, after = Visit(op, sh)
    PROVE  InStep(StayOrder(o, after), after)
<1>1. CASE op = "clear"
  BY <1>1, NewInStep DEF Visit
<1>2. CASE op = "cleanupExpired"
  BY <1>2, RemovalInStep DEF Visit, Cleanup
<1>3. CASE op # "clear" /\ op # "cleanupExpired"
  BY <1>3, SameInStep DEF Visit
<1> QED
  BY <1>1, <1>2, <1>3

\* What RNext does to one shard and its order.
LEMMA RecencySteps ==
    ASSUME TypeOK, SoundInv, RecencyInv,
           [RNext]_rvars, NEW s \in Shards
    PROVE  InStep(recency'[s], shards'[s])
<1> DEFINE o == recency[s]
           sh == shards[s]
           after == shards'[s]
<1>1. sh \in ShardStates /\ Sound(sh) /\ InStep(o, sh)
  BY DEF TypeOK, SoundInv, RecencyInv
<1>2. ASSUME NEW k \in Keys, Uses(k), Used(k)
      PROVE  InStep(recency'[s], after)
  <2>1. recency'[s] = IF s = ShardOf[k] THEN UseOrder(o, k, after)
                                        ELSE StayOrder(o, after)
    BY <1>2 DEF Used, Staying, StayOrder, UseOrder
  <2>2. \/ after = sh /\ s # ShardOf[k]
        \/ /\ s = ShardOf[k] /\ CanCount(sh.pol, k)
           /\ \/ \E e \in Entry : after = Put(sh, k, e).shard
              \/ after = Get(sh, k, now).shard
    <3>1. \A v \in Values : Immortal(v) \in Entry
      BY DEF Immortal, Entry
    <3>2. \A v \in Values, ttl \in Ttls : Mortal(v, ttl, now) \in Entry
      BY EntryTypes DEF TypeOK
    <3>3. ASSUME NEW e \in Entry, PutEntry(k, e)
          PROVE  \/ after = sh /\ s # ShardOf[k]
                 \/ /\ s = ShardOf[k] /\ CanCount(sh.pol, k)
                    /\ after = Put(sh, k, e).shard
      BY <3>3 DEF PutEntry, TypeOK
    <3>4. ASSUME GetKey(k)
          PROVE  \/ after = sh /\ s # ShardOf[k]
                 \/ /\ s = ShardOf[k] /\ CanCount(sh.pol, k)
                    /\ after = Get(sh, k, now).shard
      BY <3>4 DEF GetKey, TypeOK
    <3>5. GetKey(k) \/ \E e \in Entry : PutEntry(k, e)
      BY <1>2, <3>1, <3>2 DEF Uses, Set, SetWithTtl
    <3> QED
      BY <3>3, <3>4, <3>5
  <2> HIDE DEF o, sh, after
  <2>3. CASE after = sh /\ s # ShardOf[k]
    BY <1>1, <2>1, <2>3, SameInStep
  <2>4. CASE s = ShardOf[k] /\ CanCount(sh.pol, k)
             /\ \E e \in Entry : after = Put(sh, k, e).shard
    BY <1>1, <2>1, <2>4, PutInStep
  <2>5. CASE s = ShardOf[k] /\ CanCount(sh.pol, k) /\ after = Get(sh, k, now).shard
    BY <1>1, <2>1, <2>5, GetInStep
  <2> QED
    BY <2>2, <2>3, <2>4, <2>5
<1>3. ASSUME Unused,
             \/ after = sh
             \/ \E k \in Keys : after = Delete(sh, k)
             \/ \E op : after = Visit(op, sh)
      PROVE  InStep(recency'[s], after)
  <2>1. recency'[s] = StayOrder(o, after)
    BY <1>3 DEF Unused, Staying, StayOrder
  <2> HIDE DEF o, sh, after
  <2>2. CASE after = sh
    BY <1>1, <2>1, <2>2, SameInStep
  <2>3. CASE \E k \in Keys : after = Delete(sh, k)
    BY <1>1, <2>1, <2>3, RemovalInStep DEF Delete
  <2>4. CASE \E op : after = Visit(op, sh)
    BY <1>1, <2>1, <2>4, VisitInStep
  <2> QED
    BY <1>3, <2>2, <2>3, <2>4
<1>4. ASSUME NEW k \in Keys, Del(k)
      PROVE  after = sh \/ after = Delete(sh, k)
  BY <1>4 DEF Del, TypeOK
<1>5. ASSUME NEW t \in Threads, ScanShard(t)
      PROVE  after = sh \/ \E op : after = Visit(op, sh)
  BY <1>5 DEF ScanShard, TypeOK
<1>6. ASSUME \/ \E t \in Threads, op \in ScanOps : StartScan(t, op)
             \/ \E t \in Threads : Return(t)
             \/ Tick
      PROVE  after = sh
  BY <1>6 DEF StartScan, Return, Tick
<1>7. ASSUME UNCHANGED rvars
      PROVE  after = sh /\ recency'[s] = o
  BY <1>7 DEF rvars, vars
<1>8. CASE UNCHANGED rvars
  BY <1>1, <1>7, <1>8
<1>9. CASE \E k \in Keys : Uses(k) /\ Used(k)
  BY <1>2, <1>9
<1>10. CASE /\ \/ \E k \in Keys : Del(k)
               \/ \E t \in Threads, op \in ScanOps : StartScan(t, op)
               \/ \E t \in Threads : ScanShard(t)
               \/ \E t \in Threads : Return(t)
               \/ Tick
            /\ Unused
  <2>1. \/ after = sh
        \/ \E k \in Keys : after = Delete(sh, k)
        \/ \E op : after = Visit(op, sh)
    <3> HIDE DEF sh, after
    <3> QED
      BY <1>10, <1>4, <1>5, <1>6
  <2> QED
    BY <1>10, <1>3, <2>1
<1> QED
  BY <1>8, <1>9, <1>10 DEF RNext

\* A step of the cache with its order of last use is a step of the cache.
LEMMA RecencyNext == RNext => Next
BY DEF RNext, Next, Uses

\* The cache with its order of last use is the cache.
LEMMA RecencyIsCache == RSpec => Spec
<1>1. RInit => Init
  BY DEF RInit
<1>2. [RNext]_rvars => [Next]_vars
  BY RecencyNext DEF rvars
<1> QED
  BY <1>1, <1>2, PTL DEF RSpec, Spec

\* The policies agree with what clients did, whatever the policy.
THEOREM RecencyTheorem == RSpec => [](BoundedInv /\ SoundInv /\ RecencyInv)
<1>1. RInit => RecencyInv
  <2> SUFFICES ASSUME RInit PROVE RecencyInv
    OBVIOUS
  <2>1. ASSUME NEW s \in Shards
        PROVE  InStep(recency[s], shards[s])
    <3>1. recency[s] = <<>> /\ shards[s] = NewShard
      BY DEF RInit, Init
    <3>2. \A a, b : ~ Older(<<>>, a, b)
      BY DEF Older
    <3>3. Agrees(<<>>, NewShard.pol)
      BY <3>2 DEF Agrees, NewShard, NewPolicy, LRUNew, LFUNew
    <3>4. <<>> \in Seq(Keys) /\ NoDuplicates(<<>>) /\ Elements(<<>>) = {}
      BY DEF NoDuplicates, Elements
    <3>5. Stored(NewShard) = {}
      BY DEF Stored, NewShard, EmptyStore
    <3> QED
      BY <3>1, <3>3, <3>4, <3>5 DEF InStep
  <2>2. recency \in [Shards -> Seq(Keys)]
    BY DEF RInit
  <2> QED
    BY <2>1, <2>2 DEF RecencyInv
<1>2. BoundedInv /\ SoundInv /\ RecencyInv /\ [RNext]_rvars => RecencyInv'
  <2> SUFFICES ASSUME BoundedInv, SoundInv, RecencyInv, [RNext]_rvars
               PROVE  RecencyInv'
    OBVIOUS
  <2>1. \A s \in Shards : InStep(recency'[s], shards'[s])
    BY RecencySteps DEF BoundedInv
  <2>2. recency' \in [Shards -> Seq(Keys)]
    <3>1. recency' = [s \in Shards |-> recency'[s]]
      BY DEF RecencyInv, RNext, Used, Unused, rvars
    <3>2. \A s \in Shards : recency'[s] \in Seq(Keys)
      BY <2>1 DEF InStep
    <3> QED
      BY <3>1, <3>2
  <2> QED
    BY <2>1, <2>2 DEF RecencyInv, InStep, Stored
<1>3. PolicyTracksStore /\ PoliciesConsistent => SoundInv
  BY DEF SoundInv, Sound, PolicyTracksStore, PoliciesConsistent
<1> QED
  BY <1>1, <1>2, <1>3, RecencyIsCache, BoundedTheorem, PolicyTheorem, PTL DEF RSpec

----------------------------------------------------------------------------
(* Ties.                                                                   *)

\* The LFU policy keeps the keys of the same count in the order of their last
\* use, the oldest in front.
THEOREM TiesTheorem == RSpec => []TiesBrokenByRecency
<1>1. BoundedInv /\ RecencyInv => TiesBrokenByRecency
  <2> SUFFICES ASSUME BoundedInv, RecencyInv, Policy = "LFU",
                      NEW s \in Shards, NEW f \in 1 .. MaxFreq,
                      NEW i \in DOMAIN shards[s].pol.buckets[f],
                      NEW j \in DOMAIN shards[s].pol.buckets[f], i < j
               PROVE  LET bucket   == shards[s].pol.buckets[f]
                          place(k) == CHOOSE m \in DOMAIN recency[s] : recency[s][m] = k
                      IN  place(bucket[i]) > place(bucket[j])
    BY DEF TiesBrokenByRecency
  <2> DEFINE bucket   == shards[s].pol.buckets[f]
             o        == recency[s]
             place(k) == CHOOSE m \in DOMAIN o : o[m] = k
  <2>1. bucket \in Seq(Keys)
    <3>1. shards[s].pol \in PolicyStates
      BY DEF BoundedInv, TypeOK, ShardStates
    <3>2. shards[s].pol \in LFUStates
      BY <3>1 DEF PolicyStates
    <3> QED
      BY <3>2 DEF LFUStates
  <2>2. /\ o \in Seq(Keys) /\ NoDuplicates(o)
        /\ \A a, b \in Keys : Older(bucket, b, a) => Older(o, a, b)
    BY DEF RecencyInv, InStep, Agrees
  <2>3. bucket[i] \in Keys /\ bucket[j] \in Keys /\ Older(bucket, bucket[j], bucket[i])
    BY <2>1 DEF Older
  <2>4. Older(o, bucket[i], bucket[j])
    BY <2>2, <2>3
  <2>5. PICK m \in DOMAIN o, n \in DOMAIN o : m < n /\ o[m] = bucket[j] /\ o[n] = bucket[i]
    BY <2>4 DEF Older
  <2>6. place(bucket[j]) = m /\ place(bucket[i]) = n
    BY <2>2, <2>5 DEF NoDuplicates
  <2>7. m \in Int /\ n \in Int
    BY <2>2, <2>5
  <2> QED
    BY <2>5, <2>6, <2>7
<1> QED
  BY <1>1, RecencyTheorem, PTL

----------------------------------------------------------------------------
(* Refinement.                                                             *)

\* What OlderIn holds.
LEMMA OlderInFacts ==
    ASSUME NEW o
    PROVE  /\ OlderIn(o) \in SUBSET (Keys \X Keys)
           /\ \A a, b \in Keys : <<a, b>> \in OlderIn(o) <=> Older(o, a, b)
<1>1. OlderIn(o) \in SUBSET (Keys \X Keys)
  BY DEF OlderIn
<1>2. ASSUME NEW a \in Keys, NEW b \in Keys
      PROVE  <<a, b>> \in OlderIn(o) <=> Older(o, a, b)
  <2>1. <<a, b>> \in OlderIn(o)
          <=> \E i, j \in DOMAIN o : i < j /\ <<a, b>> = <<o[j], o[i]>>
    BY DEF OlderIn
  <2> QED
    BY <2>1 DEF Older
<1> QED
  BY <1>1, <1>2

\* The order that is kept, as pairs.
LEMMA KeptPairs ==
    ASSUME NEW o, NEW w, NEW S \in SUBSET Keys, KeepsOrder(w, o, S)
    PROVE  OlderIn(w) = Recency!Among(OlderIn(o), S)
<1> DEFINE among == Recency!Among(OlderIn(o), S)
<1>1. among = OlderIn(o) \cap (S \X S)
  BY DEF Recency!Among
<1>2. \A a, b \in Keys : <<a, b>> \in OlderIn(w) <=> <<a, b>> \in among
  BY <1>1, OlderInFacts DEF KeepsOrder
<1>3. OlderIn(w) \in SUBSET (Keys \X Keys) /\ among \in SUBSET (Keys \X Keys)
  BY <1>1, OlderInFacts
<1> QED
  BY <1>2, <1>3

\* The order in which k comes first, as pairs.
LEMMA FirstPairs ==
    ASSUME NEW o, NEW w, NEW S \in SUBSET Keys, NEW k \in Keys,
           PutsFirst(w, o, k, S \ {k})
    PROVE  OlderIn(w) = Recency!Latest(OlderIn(o), S, k)
<1> DEFINE T == S \ {k}
           latest == Recency!Latest(OlderIn(o), S, k)
<1>1. latest = (OlderIn(o) \cap (T \X T)) \cup (T \X {k})
  BY DEF Recency!Latest, Recency!Among
<1>2. ASSUME NEW a \in Keys, NEW b \in Keys
      PROVE  <<a, b>> \in OlderIn(w) <=> <<a, b>> \in latest
  <2>1. <<a, b>> \in OlderIn(w)
          <=> \/ Older(o, a, b) /\ a \in T /\ b \in T
              \/ b = k /\ a \in T
    BY OlderInFacts DEF PutsFirst
  <2>2. <<a, b>> \in OlderIn(o) <=> Older(o, a, b)
    BY OlderInFacts
  <2>3. <<a, b>> \in latest
          <=> \/ <<a, b>> \in OlderIn(o) /\ a \in T /\ b \in T
              \/ b = k /\ a \in T
    BY <1>1
  <2> QED
    BY <2>1, <2>2, <2>3
<1>3. OlderIn(w) \in SUBSET (Keys \X Keys) /\ latest \in SUBSET (Keys \X Keys)
  BY <1>1, OlderInFacts
<1> QED
  BY <1>2, <1>3

\* A full shard within its capacity has a key, and room without it.
LEMMA FullFacts ==
    ASSUME NEW sh, Bounded(sh), Full(sh)
    PROVE  /\ Stored(sh) # {}
           /\ \A v \in Stored(sh) :
                 Cardinality(Stored(sh) \ {v}) < ShardCapacity
<1>1. /\ IsFiniteSet(Stored(sh)) /\ Cardinality(Stored(sh)) \in Nat
      /\ Cardinality(Stored(sh)) = ShardCapacity
      /\ ShardCapacity > 0
  BY ShardCapacityType, FS_CardinalityType DEF Bounded, Full
<1>2. Stored(sh) # {}
  BY <1>1, FS_EmptySet
<1>3. ASSUME NEW v \in Stored(sh)
      PROVE  Cardinality(Stored(sh) \ {v}) < ShardCapacity
  <2>1. Cardinality(Stored(sh) \ {v}) = Cardinality(Stored(sh)) - 1
    BY <1>1, FS_RemoveElement
  <2> QED
    BY <1>1, <2>1
<1> QED
  BY <1>2, <1>3

\* set and setWithTtl with the LRU policy: the key is used, inserted where
\* there is room, or put in the place of the oldest.
LEMMA PutRefines ==
    ASSUME NEW sh \in ShardStates, Sound(sh), Bounded(sh), Policy = "LRU",
           NEW k \in Keys, NEW e \in Entry, EmptyKey \notin Keys,
           NEW o, InStep(o, sh),
           NEW after, after = Put(sh, k, e).shard,
           NEW w, w = UseOrder(o, k, after)
    PROVE  \/ /\ k \in Stored(sh)
              /\ Stored(after) = Stored(sh)
              /\ OlderIn(w) = Recency!Latest(OlderIn(o), Stored(sh), k)
           \/ /\ k \notin Stored(sh) /\ ~ Full(sh)
              /\ Stored(after) = Stored(sh) \cup {k}
              /\ OlderIn(w) = Recency!Latest(OlderIn(o), Stored(sh), k)
           \/ /\ k \notin Stored(sh) /\ Full(sh)
              /\ \E v \in Stored(sh) :
                    /\ \A b \in Stored(sh) \ {v} : <<v, b>> \in OlderIn(o)
                    /\ Stored(after) = (Stored(sh) \ {v}) \cup {k}
                    /\ OlderIn(w)
                         = Recency!Latest(OlderIn(o), Stored(sh) \ {v}, k)
<1> DEFINE room == Admit(sh, k)
           S == Stored(sh)
           T == Stored(room)
<1>1. room \in ShardStates /\ T \subseteq S /\ (k \in S => room = sh)
  BY AdmitFacts
<1>2. S \in SUBSET Keys /\ T \in SUBSET Keys
  BY DEF Stored
<1>3. k \in S \/ ~ Full(room) => Stored(after) = T \cup {k}
  <2> DEFINE pol == IF k \in S THEN OnAccess(room.pol, k)
                               ELSE OnAdd(room.pol, k)
             put == [store |-> [room.store EXCEPT ![k] = e], pol |-> pol]
  <2>1. k \in S \/ ~ Full(room) => after = put
    BY DEF Put
  <2>2. Stored(put) = T \cup {k}
    BY <1>1, EntryAssumption DEF ShardStates, Stored
  <2> QED
    BY <2>1, <2>2
<1>4. ASSUME NEW U \in SUBSET S, Stored(after) = U \cup {k}
      PROVE  OlderIn(w) = Recency!Latest(OlderIn(o), U, k)
  <2>1. k \in Stored(after) /\ Stored(after) \ {k} = U \ {k}
    BY <1>4
  <2>2. Stored(after) \ {k} \subseteq Stored(sh)
    BY <1>4
  <2>3. \A x : x = UseOrder(o, k, after) => PutsFirst(x, o, k, Stored(after) \ {k})
    <3> HIDE DEF S
    <3> QED
      BY <2>1, <2>2, UseOlder
  <2>4. PutsFirst(w, o, k, U \ {k}) /\ U \in SUBSET Keys
    BY <1>2, <2>1, <2>3
  <2> QED
    BY <2>4, FirstPairs
<1>5. CASE k \in S
  <2>1. Stored(after) = S \cup {k} /\ Stored(after) = S
    BY <1>1, <1>3, <1>5
  <2> QED
    BY <1>4, <1>5, <2>1
<1>6. CASE k \notin S /\ ~ Full(sh)
  <2>1. room = sh
    BY <1>6 DEF Admit
  <2>2. Stored(after) = S \cup {k}
    BY <1>3, <1>6, <2>1
  <2> QED
    BY <1>4, <1>6, <2>2
<1>7. CASE k \notin S /\ Full(sh)
  <2> DEFINE v == Evict(sh.pol).key
  <2>1. S # {} /\ \A x \in S : Cardinality(S \ {x}) < ShardCapacity
    BY <1>7, FullFacts
  <2>2. /\ sh.pol \in PolicyStates /\ Tracks(sh.pol, S) /\ PolicyConsistent(sh.pol)
        /\ o \in Seq(Keys) /\ Elements(o) = S /\ Agrees(o, sh.pol)
    BY DEF ShardStates, Sound, InStep
  <2>3. v \in S
    BY <1>2, <2>1, <2>2, EvictFacts
  <2>4. T = S \ {v}
    <3>1. T = S \ ({v} \ {EmptyKey})
      BY <1>7, AdmitCases
    <3> QED
      BY <1>2, <3>1
  <2>5. ~ Full(room)
    BY <2>1, <2>3, <2>4, ShardCapacityType, FS_CardinalityType, FS_Subset
       DEF Full, Bounded
  <2>6. Stored(after) = (S \ {v}) \cup {k}
    BY <1>3, <2>4, <2>5
  <2>7. OlderIn(w) = Recency!Latest(OlderIn(o), S \ {v}, k)
    BY <1>4, <2>6
  <2>8. \A b \in S \ {v} : <<v, b>> \in OlderIn(o)
    <3>1. KeepsOrder(StayOrder(o, room), o, S \ ({v} \ {EmptyKey}))
      BY <1>7, StayOlder, AdmitCases
    <3>2. \A b \in S \ {v} : Older(o, v, b)
      BY <1>2, <2>2, <3>1, AgreesEvict
    <3> QED
      BY <1>2, <2>3, <3>2, OlderInFacts
  <2> QED
    BY <1>7, <2>3, <2>6, <2>7, <2>8
<1> QED
  BY <1>5, <1>6, <1>7

\* A step that uses no key drops keys, or none.
LEMMA StayRefines ==
    ASSUME NEW sh, NEW after, NEW o, InStep(o, sh),
           NEW w, w = StayOrder(o, after)
    PROVE  OlderIn(w) = Recency!Among(OlderIn(o), Stored(after))
<1>1. Stored(after) \in SUBSET Keys
  BY DEF Stored
<1>2. KeepsOrder(w, o, Stored(after))
  BY StayOlder
<1> QED
  BY <1>1, <1>2, KeptPairs

\* get: the key is used, or dropped, or was not there.
LEMMA GetRefines ==
    ASSUME NEW sh \in ShardStates, NEW k \in Keys,
           NEW o, InStep(o, sh), NEW t,
           NEW after, after = Get(sh, k, t).shard,
           NEW w, w = UseOrder(o, k, after)
    PROVE  \/ /\ k \in Stored(sh)
              /\ Stored(after) = Stored(sh)
              /\ OlderIn(w) = Recency!Latest(OlderIn(o), Stored(sh), k)
           \/ /\ Stored(after) \subseteq Stored(sh)
              /\ OlderIn(w) = Recency!Among(OlderIn(o), Stored(after))
<1>1. CASE k \in Stored(after)
  <2>1. Stored(after) = Stored(sh)
    BY <1>1 DEF Get, Delete, Erase, Stored, ShardStates
  <2>2. PutsFirst(w, o, k, Stored(after) \ {k}) /\ Stored(after) \in SUBSET Keys
    <3>1. Stored(after) \in SUBSET Keys
      BY DEF Stored
    <3>2. \A x : x = UseOrder(o, k, after) => PutsFirst(x, o, k, Stored(after) \ {k})
      BY <1>1, <2>1, UseOlder
    <3> QED
      BY <3>1, <3>2
  <2>3. OlderIn(w) = Recency!Latest(OlderIn(o), Stored(after), k)
    BY <2>2, FirstPairs
  <2> QED
    BY <1>1, <2>1, <2>3
<1>2. CASE k \notin Stored(after)
  <2>1. Stored(after) \subseteq Stored(sh)
    BY DEF Get, Delete, Erase, Stored, ShardStates
  <2> QED
    BY <1>2, <2>1, StayRefines DEF UseOrder
<1> QED
  BY <1>1, <1>2

\* The abstract cache's state, shard by shard.
LEMMA HoldFacts ==
    ASSUME NEW s \in Shards, NEW S, NEW R,
           Stored(shards'[s]) = S, OlderIn(recency'[s]) = R,
           \A i \in Shards \ {s} : /\ Stored(shards'[i]) = Stored(shards[i])
                                   /\ OlderIn(recency'[i]) = OlderIn(recency[i])
    PROVE  Recency!Hold(s, S, R)
<1>1. [i \in Shards |-> Stored(shards[i])]'
        = [[i \in Shards |-> Stored(shards[i])] EXCEPT ![s] = S]
  BY DEF Stored
<1>2. [i \in Shards |-> OlderIn(recency[i])]'
        = [[i \in Shards |-> OlderIn(recency[i])] EXCEPT ![s] = R]
  <2>1. [i \in Shards |-> OlderIn(recency[i])]'
          = [i \in Shards |-> OlderIn(recency'[i])]
    BY Zenon DEF OlderIn
  <2> QED
    BY <2>1
<1> QED
  BY <1>1, <1>2 DEF Recency!Hold

\* A step that leaves every other shard alone, and in one of them drops keys.
LEMMA DropFacts ==
    ASSUME NEW s \in Shards,
           Stored(shards'[s]) \subseteq Stored(shards[s]),
           OlderIn(recency'[s])
             = Recency!Among(OlderIn(recency[s]), Stored(shards'[s])),
           \A i \in Shards \ {s} : /\ Stored(shards'[i]) = Stored(shards[i])
                                   /\ OlderIn(recency'[i]) = OlderIn(recency[i])
    PROVE  Recency!Drop(s)
<1>1. Recency!Hold(s, Stored(shards'[s]),
                   Recency!Among(OlderIn(recency[s]), Stored(shards'[s])))
  BY HoldFacts
<1>2. [i \in Shards |-> Stored(shards[i])]'[s] = Stored(shards'[s])
  BY DEF Stored
<1> QED
  BY <1>1, <1>2 DEF Recency!Drop

\* A shard that is left alone keeps its keys and their order.
LEMMA SameRefines ==
    ASSUME NEW sh, NEW o, InStep(o, sh), NEW w, w = StayOrder(o, sh)
    PROVE  OlderIn(w) = OlderIn(o)
<1>1. \A a, b \in Keys : Older(w, a, b) <=> Older(o, a, b)
  <2>1. \A a, b : Older(o, a, b) => a \in Stored(sh) /\ b \in Stored(sh)
    BY OlderElements DEF InStep
  <2> QED
    BY <2>1, StayOlder DEF KeepsOrder
<1>2. \A a, b \in Keys : <<a, b>> \in OlderIn(w) <=> <<a, b>> \in OlderIn(o)
  BY <1>1, OlderInFacts
<1> QED
  BY <1>2, OlderInFacts

\* A step in which keys only leave one shard, and none is used, is a drop.
LEMMA UnusedRefines ==
    ASSUME TypeOK, RecencyInv, Unused, NEW s \in Shards,
           \A i \in Shards \ {s} : shards'[i] = shards[i],
           Stored(shards'[s]) \subseteq Stored(shards[s])
    PROVE  Recency!Drop(s)
<1>1. \A i \in Shards : /\ recency'[i] = StayOrder(recency[i], shards'[i])
                        /\ InStep(recency[i], shards[i])
  BY DEF Unused, Staying, StayOrder, RecencyInv
<1>2. ASSUME NEW i \in Shards \ {s}
      PROVE  /\ Stored(shards'[i]) = Stored(shards[i])
             /\ OlderIn(recency'[i]) = OlderIn(recency[i])
  BY <1>1, SameRefines
<1>3. OlderIn(recency'[s])
        = Recency!Among(OlderIn(recency[s]), Stored(shards'[s]))
  BY <1>1, StayRefines
<1> QED
  BY <1>2, <1>3, DropFacts

\* set, setWithTtl, get and getValueWithTtl.
LEMMA UsesRefine ==
    ASSUME BoundedInv, SoundInv, RecencyInv, Policy = "LRU",
           EmptyKey \notin Keys, NEW k \in Keys, Uses(k), Used(k)
    PROVE  Recency!Next
<1> DEFINE s == ShardOf[k]
           o == recency[s]
           sh == shards[s]
           after == shards'[s]
           w == recency'[s]
<1>1. s \in Shards
  BY ShardOfType
<1>2. sh \in ShardStates /\ Sound(sh) /\ Bounded(sh) /\ InStep(o, sh)
  BY <1>1 DEF BoundedInv, TypeOK, SoundInv, RecencyInv
<1>3. w = UseOrder(o, k, after)
  BY <1>1 DEF Used, Staying, StayOrder, UseOrder
<1>4. /\ \A i \in Shards \ {s} : shards'[i] = shards[i]
      /\ \/ \E e \in Entry : after = Put(sh, k, e).shard
         \/ after = Get(sh, k, now).shard
  <2>1. TypeOK
    BY DEF BoundedInv
  <2>2. \A v \in Values : Immortal(v) \in Entry
    BY DEF Immortal, Entry
  <2>3. \A v \in Values, ttl \in Ttls : Mortal(v, ttl, now) \in Entry
    BY <2>1, EntryTypes DEF TypeOK
  <2>4. GetKey(k) \/ \E e \in Entry : PutEntry(k, e)
    BY <2>2, <2>3 DEF Uses, Set, SetWithTtl
  <2>5. ASSUME NEW e \in Entry, PutEntry(k, e)
        PROVE  /\ \A i \in Shards \ {s} : shards'[i] = shards[i]
               /\ after = Put(sh, k, e).shard
    BY <1>1, <2>1, <2>5 DEF PutEntry, TypeOK
  <2>6. ASSUME GetKey(k)
        PROVE  /\ \A i \in Shards \ {s} : shards'[i] = shards[i]
               /\ after = Get(sh, k, now).shard
    BY <1>1, <2>1, <2>6 DEF GetKey, TypeOK
  <2> QED
    BY <2>4, <2>5, <2>6
<1>5. \A i \in Shards \ {s} : /\ Stored(shards'[i]) = Stored(shards[i])
                              /\ OlderIn(recency'[i]) = OlderIn(recency[i])
  <2>1. ASSUME NEW i \in Shards \ {s}
        PROVE  OlderIn(recency'[i]) = OlderIn(recency[i])
    <3>1. recency'[i] = StayOrder(recency[i], shards[i])
      BY <1>4 DEF Used, Staying, StayOrder
    <3>2. InStep(recency[i], shards[i])
      BY DEF RecencyInv
    <3> QED
      BY <3>1, <3>2, SameRefines
  <2> QED
    BY <1>4, <2>1
<1>6. \A S, R : Stored(after) = S /\ OlderIn(w) = R => Recency!Hold(s, S, R)
  BY <1>1, <1>5, HoldFacts
<1>7. \/ /\ k \in Stored(sh)
         /\ Stored(after) = Stored(sh)
         /\ OlderIn(w) = Recency!Latest(OlderIn(o), Stored(sh), k)
      \/ /\ k \notin Stored(sh) /\ ~ Full(sh)
         /\ Stored(after) = Stored(sh) \cup {k}
         /\ OlderIn(w) = Recency!Latest(OlderIn(o), Stored(sh), k)
      \/ /\ k \notin Stored(sh) /\ Full(sh)
         /\ \E v \in Stored(sh) :
               /\ \A b \in Stored(sh) \ {v} : <<v, b>> \in OlderIn(o)
               /\ Stored(after) = (Stored(sh) \ {v}) \cup {k}
               /\ OlderIn(w) = Recency!Latest(OlderIn(o), Stored(sh) \ {v}, k)
      \/ /\ Stored(after) \subseteq Stored(sh)
         /\ OlderIn(w) = Recency!Among(OlderIn(o), Stored(after))
  <2> HIDE DEF s, o, sh, after, w
  <2>1. CASE \E e \in Entry : after = Put(sh, k, e).shard
    BY <1>2, <1>3, <2>1, PutRefines
  <2>2. CASE after = Get(sh, k, now).shard
    BY <1>2, <1>3, <2>2, GetRefines
  <2> QED
    BY <1>4, <2>1, <2>2
<1>8. Full(sh) <=> ~ Recency!HasRoom(s)
  <2>1. Recency!HasRoom(s)
          <=> (ShardCapacity > 0 => Cardinality(Stored(sh)) < ShardCapacity)
    <3>1. [i \in Shards |-> Stored(shards[i])][s] = Stored(sh)
      BY <1>1
    <3>2. Recency!HasRoom(s)
            <=> (ShardCapacity > 0
                   => Recency!Cardinality([i \in Shards |-> Stored(shards[i])][s])
                        < ShardCapacity)
      BY DEF Recency!HasRoom
    <3>3. \A S : Recency!Cardinality(S) = Cardinality(S)
      BY DEF Recency!Cardinality, Cardinality
    <3> HIDE DEF sh
    <3> QED
      BY <3>1, <3>2, <3>3
  <2>2. Cardinality(Stored(sh)) \in Nat
    BY <1>2, FS_CardinalityType DEF Bounded
  <2> HIDE DEF s, sh
  <2> QED
    BY <2>1, <2>2, ShardCapacityType DEF Full
<1>9. CASE /\ k \in Stored(sh)
           /\ Stored(after) = Stored(sh)
           /\ OlderIn(w) = Recency!Latest(OlderIn(o), Stored(sh), k)
  <2>1. Recency!Use(k)
    BY <1>1, <1>6, <1>9 DEF Recency!Use
  <2> QED
    BY <2>1 DEF Recency!Next
<1>10. CASE /\ k \notin Stored(sh) /\ ~ Full(sh)
            /\ Stored(after) = Stored(sh) \cup {k}
            /\ OlderIn(w) = Recency!Latest(OlderIn(o), Stored(sh), k)
  <2>1. Recency!Insert(k)
    BY <1>1, <1>6, <1>8, <1>10 DEF Recency!Insert
  <2> QED
    BY <2>1 DEF Recency!Next
<1>11. CASE /\ k \notin Stored(sh) /\ Full(sh)
            /\ \E v \in Stored(sh) :
                  /\ \A b \in Stored(sh) \ {v} : <<v, b>> \in OlderIn(o)
                  /\ Stored(after) = (Stored(sh) \ {v}) \cup {k}
                  /\ OlderIn(w) = Recency!Latest(OlderIn(o), Stored(sh) \ {v}, k)
  <2>1. PICK v \in Stored(sh) :
               /\ \A b \in Stored(sh) \ {v} : <<v, b>> \in OlderIn(o)
               /\ Stored(after) = (Stored(sh) \ {v}) \cup {k}
               /\ OlderIn(w) = Recency!Latest(OlderIn(o), Stored(sh) \ {v}, k)
    BY <1>11
  <2>2. Recency!IsOldest(s, v)
    BY <1>1, <2>1 DEF Recency!IsOldest
  <2>3. Recency!Hold(s, (Stored(sh) \ {v}) \cup {k},
                     Recency!Latest(OlderIn(o), Stored(sh) \ {v}, k))
    BY <1>6, <2>1
  <2>4. Recency!Replace(k)
    BY <1>1, <1>8, <1>11, <2>1, <2>2, <2>3 DEF Recency!Replace
  <2> QED
    BY <2>4 DEF Recency!Next
<1>12. CASE /\ Stored(after) \subseteq Stored(sh)
            /\ OlderIn(w) = Recency!Among(OlderIn(o), Stored(after))
  <2>1. Recency!Drop(s)
    BY <1>1, <1>5, <1>12, DropFacts
  <2> QED
    BY <1>1, <2>1 DEF Recency!Next
<1> QED
  BY <1>7, <1>9, <1>10, <1>11, <1>12

\* A Cache with the LRU policy is the abstract cache: whatever is set, read,
\* deleted, expired, cleaned up and cleared, a full shard gives up exactly the
\* key that clients have not used for longest, and only for a new key.
THEOREM ImplementsTheorem ==
    ASSUME EmptyKey \notin Keys, Policy = "LRU"
    PROVE  RSpec => ImplementsRecency
<1>1. RInit => Recency!Init
  <2> SUFFICES ASSUME RInit PROVE Recency!Init
    OBVIOUS
  <2>1. \A s \in Shards : recency[s] = <<>> /\ shards[s] = NewShard
    BY DEF RInit, Init
  <2>2. OlderIn(<<>>) = {} /\ Stored(NewShard) = {}
    BY DEF OlderIn, Stored, NewShard, EmptyStore
  <2> QED
    BY <2>1, <2>2 DEF Recency!Init
<1>2. BoundedInv /\ SoundInv /\ RecencyInv /\ [RNext]_rvars
        => [Recency!Next]_Recency!vars
  <2> SUFFICES ASSUME BoundedInv, SoundInv, RecencyInv, [RNext]_rvars
               PROVE  [Recency!Next]_Recency!vars
    OBVIOUS
  <2>1. TypeOK
    BY DEF BoundedInv
  <2>2. \A i \in Shards : shards[i] \in ShardStates
    BY <2>1 DEF TypeOK
  <2>3. ASSUME UNCHANGED rvars
        PROVE  UNCHANGED Recency!vars
    BY <2>3 DEF rvars, vars, Recency!vars
  <2>4. ASSUME Unused, NEW s \in Shards,
               \A i \in Shards \ {s} : shards'[i] = shards[i],
               Stored(shards'[s]) \subseteq Stored(shards[s])
        PROVE  Recency!Next
    <3>1. Recency!Drop(s)
      BY <2>1, <2>4, UnusedRefines
    <3> QED
      BY <3>1 DEF Recency!Next
  <2>5. ASSUME Unused, NEW k \in Keys, Del(k)
        PROVE  Recency!Next
    <3>1. /\ ShardOf[k] \in Shards
          /\ \A i \in Shards \ {ShardOf[k]} : shards'[i] = shards[i]
          /\ shards'[ShardOf[k]] = Delete(shards[ShardOf[k]], k)
      BY <2>1, <2>5, ShardOfType DEF Del, TypeOK
    <3>2. Stored(Delete(shards[ShardOf[k]], k)) \subseteq Stored(shards[ShardOf[k]])
      BY DEF Delete, Erase, Stored
    <3> QED
      BY <2>4, <2>5, <3>1, <3>2
  <2>6. ASSUME Unused, NEW t \in Threads, ScanShard(t)
        PROVE  Recency!Next
    <3> DEFINE s == scan[t].next
    <3>1. s \in Shards
      BY <2>1, <2>6, ShardAssumption DEF ScanShard, TypeOK, Scan, Shards
    <3>2. /\ \A i \in Shards \ {s} : shards'[i] = shards[i]
          /\ shards'[s] = Visit(scan[t].op, shards[s])
      BY <2>1, <2>6, <3>1 DEF ScanShard, TypeOK
    <3>3. Stored(Visit(scan[t].op, shards[s])) \subseteq Stored(shards[s])
      <4>1. \A sh : Stored(Cleanup(sh, now)) \subseteq Stored(sh) /\ Stored(NewShard) = {}
        BY DEF Cleanup, Erase, Stored, NewShard, EmptyStore
      <4> QED
        BY <4>1 DEF Visit
    <3> QED
      BY <2>4, <2>6, <3>1, <3>2, <3>3
  <2>7. ASSUME Unused,
               \/ \E t \in Threads, op \in ScanOps : StartScan(t, op)
               \/ \E t \in Threads : Return(t)
               \/ Tick
        PROVE  Recency!Next
    <3>1. shards' = shards
      BY <2>7 DEF StartScan, Return, Tick
    <3>2. 1 \in Shards
      BY ShardAssumption DEF Shards
    <3> QED
      BY <2>4, <2>7, <3>1, <3>2
  <2> QED
    BY <2>3, <2>5, <2>6, <2>7, UsesRefine DEF RNext
<1> QED
  BY <1>1, <1>2, RecencyTheorem, PTL DEF RSpec, ImplementsRecency, Recency!Spec
=============================================================================
