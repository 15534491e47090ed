---------------------------- MODULE Shard_proofs ----------------------------
(***************************************************************************)
(* What the operations of an eviction policy do to the keys it tracks and  *)
(* to its own consistency: first for the LRU list, then for the LFU        *)
(* counters and buckets, then for the policy the cache was built with.     *)
(* And, built on these, what the operations of a cache do to one shard.    *)
(***************************************************************************)
EXTENDS Shard, KeyList_proofs

----------------------------------------------------------------------------
(* Lists.                                                                  *)

\* Only the empty list has no elements.
LEMMA EmptyList ==
    ASSUME NEW s \in Seq(Keys)
    PROVE  Elements(s) = {} <=> s = <<>>
<1>1. CASE s = <<>>
  BY <1>1 DEF Elements
<1>2. CASE s # <<>>
  <2>1. 1 \in DOMAIN s
    BY <1>2
  <2> QED
    BY <1>2, <2>1 DEF Elements
<1> QED
  BY <1>1, <1>2

\* push_front of a key that the list does not hold.
LEMMA PushFrontFacts ==
    ASSUME NEW s \in Seq(Keys), NEW k \in Keys
    PROVE  /\ <<k>> \o s \in Seq(Keys)
           /\ Elements(<<k>> \o s) = Elements(s) \cup {k}
           /\ NoDuplicates(s) /\ k \notin Elements(s)
                => NoDuplicates(<<k>> \o s)
<1> DEFINE t == <<k>> \o s
<1>1. /\ t \in Seq(Keys)
      /\ Len(t) = Len(s) + 1
      /\ t[1] = k
      /\ \A i \in 2 .. Len(t) : i - 1 \in 1 .. Len(s) /\ t[i] = s[i - 1]
      /\ \A i \in 1 .. Len(s) : i + 1 \in 2 .. Len(t) /\ t[i + 1] = s[i]
  OBVIOUS
<1>2. DOMAIN t = 1 .. Len(t) /\ DOMAIN s = 1 .. Len(s) /\ Len(s) \in Nat
  BY <1>1
<1> HIDE DEF t
<1>3. Elements(t) = Elements(s) \cup {k}
  <2>1. ASSUME NEW x \in Elements(t) PROVE x \in Elements(s) \cup {k}
    <3>1. PICK i \in 1 .. Len(t) : t[i] = x
      BY <1>2 DEF Elements
    <3>2. i = 1 \/ i \in 2 .. Len(t)
      BY <1>1, <1>2
    <3> QED
      BY <1>1, <1>2, <3>1, <3>2 DEF Elements
  <2>2. ASSUME NEW x \in Elements(s) PROVE x \in Elements(t)
    <3>1. PICK i \in 1 .. Len(s) : s[i] = x
      BY <1>2 DEF Elements
    <3>2. i + 1 \in 1 .. Len(t) /\ t[i + 1] = x
      BY <1>1, <1>2, <3>1
    <3> QED
      BY <1>2, <3>2 DEF Elements
  <2>3. k \in Elements(t)
    BY <1>1, <1>2 DEF Elements
  <2> QED
    BY <2>1, <2>2, <2>3
<1>4. ASSUME NoDuplicates(s), k \notin Elements(s)
      PROVE  NoDuplicates(t)
  <2> SUFFICES ASSUME NEW i \in 1 .. Len(t), NEW j \in 1 .. Len(t), t[i] = t[j]
               PROVE  i = j
    BY <1>2 DEF NoDuplicates
  <2>1. \A m \in 2 .. Len(t) : t[m] # k
    BY <1>1, <1>2, <1>4 DEF Elements
  <2>2. CASE i = 1 \/ j = 1
    BY <1>1, <1>2, <2>1, <2>2
  <2>3. CASE i # 1 /\ j # 1
    <3>1. i \in 2 .. Len(t) /\ j \in 2 .. Len(t)
      BY <1>1, <1>2, <2>3
    <3>2. i - 1 \in DOMAIN s /\ j - 1 \in DOMAIN s /\ s[i - 1] = s[j - 1]
      BY <1>1, <1>2, <3>1
    <3>3. i - 1 = j - 1
      BY <1>4, <3>2 DEF NoDuplicates
    <3> QED
      BY <3>1, <3>3
  <2> QED
    BY <2>2, <2>3
<1> QED
  BY <1>1, <1>3, <1>4 DEF t

\* push_back, likewise.
LEMMA PushBackFacts ==
    ASSUME NEW s \in Seq(Keys), NEW k \in Keys
    PROVE  /\ Append(s, k) \in Seq(Keys)
           /\ Elements(Append(s, k)) = Elements(s) \cup {k}
           /\ NoDuplicates(s) /\ k \notin Elements(s)
                => NoDuplicates(Append(s, k))
<1> DEFINE t == Append(s, k)
<1>1. /\ t \in Seq(Keys)
      /\ Len(s) \in Nat
      /\ Len(t) = Len(s) + 1
      /\ t[Len(s) + 1] = k
      /\ \A i \in 1 .. Len(s) : t[i] = s[i]
      /\ DOMAIN t = 1 .. Len(t) /\ DOMAIN s = 1 .. Len(s)
  OBVIOUS
<1> HIDE DEF t
<1>2. \A i \in DOMAIN t : i = Len(s) + 1 \/ i \in DOMAIN s
  BY <1>1
<1>3. DOMAIN s \subseteq DOMAIN t /\ Len(s) + 1 \in DOMAIN t
  BY <1>1
<1>4. Elements(t) = Elements(s) \cup {k}
  BY <1>1, <1>2, <1>3 DEF Elements
<1>5. ASSUME NoDuplicates(s), k \notin Elements(s)
      PROVE  NoDuplicates(t)
  BY <1>1, <1>2, <1>5 DEF NoDuplicates, Elements
<1> QED
  BY <1>1, <1>4, <1>5 DEF t

\* pop_back of a list without duplicates.
LEMMA PopBackFacts ==
    ASSUME NEW s \in Seq(Keys), s # <<>>
    PROVE  /\ Last(s) \in Elements(s) /\ Last(s) \in Keys
           /\ Front(s) \in Seq(Keys)
           /\ NoDuplicates(s) => /\ Elements(Front(s)) = Elements(s) \ {Last(s)}
                                 /\ NoDuplicates(Front(s))
<1> DEFINE n == Len(s)
           t == Front(s)
<1>1. n \in Nat /\ n # 0 /\ DOMAIN s = 1 .. n
  OBVIOUS
<1>2. t \in Seq(Keys) /\ Len(t) = n - 1 /\ DOMAIN t = 1 .. n - 1
  BY <1>1 DEF Front
<1>3. \A i \in 1 .. n - 1 : t[i] = s[i]
  BY <1>1 DEF Front
<1>4. Last(s) = s[n] /\ n \in DOMAIN s
  BY <1>1 DEF Last
<1> HIDE DEF n, t
<1>5. \A i \in DOMAIN s : i = n \/ i \in DOMAIN t
  BY <1>1, <1>2
<1>6. DOMAIN t \subseteq DOMAIN s /\ n \notin DOMAIN t
  BY <1>1, <1>2
<1>7. ASSUME NoDuplicates(s)
      PROVE  Elements(t) = Elements(s) \ {Last(s)} /\ NoDuplicates(t)
  BY <1>2, <1>3, <1>4, <1>5, <1>6, <1>7 DEF NoDuplicates, Elements
<1>8. Last(s) \in Elements(s) /\ Last(s) \in Keys
  BY <1>1, <1>4 DEF Elements
<1> QED
  BY <1>2, <1>7, <1>8 DEF t

\* pop_front of a list without duplicates.
LEMMA PopFrontFacts ==
    ASSUME NEW s \in Seq(Keys), s # <<>>
    PROVE  /\ Head(s) \in Elements(s) /\ Head(s) \in Keys
           /\ Tail(s) \in Seq(Keys)
           /\ NoDuplicates(s) => /\ Elements(Tail(s)) = Elements(s) \ {Head(s)}
                                 /\ NoDuplicates(Tail(s))
<1> DEFINE n == Len(s)
           t == Tail(s)
<1>1. n \in Nat /\ n # 0 /\ DOMAIN s = 1 .. n /\ Head(s) = s[1]
  OBVIOUS
<1>2. t \in Seq(Keys) /\ DOMAIN t = 1 .. n - 1
  OBVIOUS
<1>3. \A i \in 1 .. n - 1 : t[i] = s[i + 1]
  OBVIOUS
<1> HIDE DEF n, t
<1>4. \A i \in DOMAIN s : i = 1 \/ (i - 1 \in DOMAIN t /\ t[i - 1] = s[i])
  BY <1>1, <1>2, <1>3
<1>5. \A i \in DOMAIN t : i + 1 \in DOMAIN s /\ i + 1 # 1 /\ t[i] = s[i + 1]
  BY <1>1, <1>2, <1>3
<1>6. 1 \in DOMAIN s
  BY <1>1
<1>7. ASSUME NoDuplicates(s)
      PROVE  Elements(t) = Elements(s) \ {Head(s)} /\ NoDuplicates(t)
  <2>1. Elements(t) = Elements(s) \ {Head(s)}
    BY <1>1, <1>4, <1>5, <1>6, <1>7 DEF NoDuplicates, Elements
  <2>2. \A i, j \in DOMAIN t : i + 1 = j + 1 => i = j
    BY <1>2
  <2>3. NoDuplicates(t)
    BY <1>5, <1>7, <2>2 DEF NoDuplicates
  <2> QED
    BY <2>1, <2>3
<1> QED
  BY <1>1, <1>2, <1>6, <1>7 DEF t, Elements

----------------------------------------------------------------------------
(* The LRU list.                                                           *)

\* What onAccess, onAdd and onRemove do to the LRU list: its type, the keys
\* it tracks, and no key twice.
LEMMA LRUFacts ==
    ASSUME NEW p \in LRUStates
    PROVE  /\ \A k \in Keys :
                 /\ LRUOnAccess(p, k) \in LRUStates
                 /\ LRUTracked(LRUOnAccess(p, k)) = LRUTracked(p)
                 /\ LRUConsistent(p) => LRUConsistent(LRUOnAccess(p, k))
           /\ \A k \in Keys :
                 /\ LRUOnAdd(p, k) \in LRUStates
                 /\ LRUTracked(LRUOnAdd(p, k)) = LRUTracked(p) \cup {k}
                 /\ LRUConsistent(p) /\ k \notin LRUTracked(p)
                      => LRUConsistent(LRUOnAdd(p, k))
           /\ \A S :
                 /\ LRUOnRemove(p, S) \in LRUStates
                 /\ LRUTracked(LRUOnRemove(p, S)) = LRUTracked(p) \ S
                 /\ LRUConsistent(p) => LRUConsistent(LRUOnRemove(p, S))
<1> USE DEF LRUStates, LRUTracked, LRUConsistent
<1>1. ASSUME NEW S
      PROVE  /\ Without(p, S) \in Seq(Keys)
             /\ Elements(Without(p, S)) = Elements(p) \ S
             /\ NoDuplicates(p) => NoDuplicates(Without(p, S))
  BY WithoutFacts
<1>2. ASSUME NEW k \in Keys
      PROVE  /\ LRUOnAccess(p, k) \in Seq(Keys)
             /\ Elements(LRUOnAccess(p, k)) = Elements(p)
             /\ NoDuplicates(p) => NoDuplicates(LRUOnAccess(p, k))
  <2>1. CASE k \notin Elements(p)
    BY <2>1 DEF LRUOnAccess
  <2>2. CASE k \in Elements(p)
    <3> DEFINE rest == Without(p, {k})
    <3>1. /\ rest \in Seq(Keys)
          /\ Elements(rest) = Elements(p) \ {k}
          /\ NoDuplicates(p) => NoDuplicates(rest)
      BY <1>1
    <3>2. LRUOnAccess(p, k) = <<k>> \o rest
      BY <2>2 DEF LRUOnAccess
    <3> HIDE DEF rest
    <3>3. /\ <<k>> \o rest \in Seq(Keys)
          /\ Elements(<<k>> \o rest) = (Elements(p) \ {k}) \cup {k}
          /\ NoDuplicates(p) => NoDuplicates(<<k>> \o rest)
      BY <3>1, PushFrontFacts
    <3>4. (Elements(p) \ {k}) \cup {k} = Elements(p)
      BY <2>2
    <3> QED
      BY <3>2, <3>3, <3>4
  <2> QED
    BY <2>1, <2>2
<1>3. ASSUME NEW k \in Keys
      PROVE  /\ LRUOnAdd(p, k) \in Seq(Keys)
             /\ Elements(LRUOnAdd(p, k)) = Elements(p) \cup {k}
             /\ NoDuplicates(p) /\ k \notin Elements(p)
                  => NoDuplicates(LRUOnAdd(p, k))
  BY PushFrontFacts DEF LRUOnAdd
<1> QED
  BY <1>1, <1>2, <1>3 DEF LRUOnRemove

\* A list that is not empty gives up one of its keys, for good.
LEMMA LRUEvictFacts ==
    ASSUME NEW p \in LRUStates
    PROVE  /\ LRUEvict(p).pol \in LRUStates
           /\ LRUTracked(p) = {} => LRUEvict(p) = [key |-> EmptyKey, pol |-> p]
           /\ LRUTracked(p) # {} => LRUEvict(p).key \in LRUTracked(p)
           /\ LRUTracked(p) # {} /\ LRUConsistent(p)
                => /\ LRUTracked(LRUEvict(p).pol)
                        = LRUTracked(p) \ {LRUEvict(p).key}
                   /\ LRUConsistent(LRUEvict(p).pol)
<1> USE DEF LRUStates, LRUTracked, LRUConsistent
<1>1. Elements(p) = {} <=> p = <<>>
  BY EmptyList
<1>2. CASE p = <<>>
  BY <1>1, <1>2 DEF LRUEvict
<1>3. CASE p # <<>>
  <2>1. LRUEvict(p).key = Last(p) /\ LRUEvict(p).pol = Front(p)
    BY <1>3 DEF LRUEvict
  <2> QED
    BY <1>1, <1>3, <2>1, PopBackFacts
<1> QED
  BY <1>2, <1>3

----------------------------------------------------------------------------
(* The LFU counters and buckets.                                           *)

\* An access moves the key from the bucket of its count to the next.
LEMMA LFUOnAccessFacts ==
    ASSUME NEW p \in LFUStates, NEW k \in Keys, LFUCanCount(p, k)
    PROVE  /\ LFUOnAccess(p, k) \in LFUStates
           /\ LFUTracked(LFUOnAccess(p, k)) = LFUTracked(p)
           /\ LFUConsistent(p) => LFUConsistent(LFUOnAccess(p, k))
<1>1. CASE k \notin LFUTracked(p)
  BY <1>1 DEF LFUOnAccess
<1>2. CASE k \in LFUTracked(p)
  <2> DEFINE old  == p.freq[k]
             rest == Without(p.buckets[old], {k})
             more == Append(p.buckets[old + 1], k)
             q    == LFUOnAccess(p, k)
  <2>1. /\ p.freq \in [Keys -> 0 .. MaxFreq]
        /\ p.buckets \in [1 .. MaxFreq -> Seq(Keys)]
        /\ p.min \in 0 .. MaxFreq
        /\ MaxFreq \in Nat
    BY PolicyAssumption DEF LFUStates
  <2>2. old \in 1 .. MaxFreq /\ old + 1 \in 1 .. MaxFreq /\ old # old + 1
    BY <1>2, <2>1 DEF LFUTracked, LFUCanCount
  <2>3. /\ rest \in Seq(Keys)
        /\ Elements(rest) = Elements(p.buckets[old]) \ {k}
        /\ NoDuplicates(p.buckets[old]) => NoDuplicates(rest)
    BY <2>1, <2>2, WithoutFacts
  <2>4. /\ more \in Seq(Keys)
        /\ Elements(more) = Elements(p.buckets[old + 1]) \cup {k}
        /\ NoDuplicates(p.buckets[old + 1]) /\ k \notin Elements(p.buckets[old + 1])
             => NoDuplicates(more)
    BY <2>1, <2>2, PushBackFacts
  <2>5. /\ q = [freq |-> q.freq, buckets |-> q.buckets, min |-> q.min]
        /\ q.freq = [p.freq EXCEPT ![k] = old + 1]
        /\ q.buckets = [p.buckets EXCEPT ![old] = rest, ![old + 1] = more]
        /\ q.min \in {old + 1, p.min}
    BY <1>2, <2>1, <2>2 DEF LFUOnAccess
  <2> HIDE DEF q, rest, more, old
  <2>6. q.freq \in [Keys -> 0 .. MaxFreq]
    BY <2>1, <2>2, <2>5
  <2>7. q.buckets \in [1 .. MaxFreq -> Seq(Keys)]
    BY <2>1, <2>2, <2>3, <2>4, <2>5
  <2>8. q.min \in 0 .. MaxFreq
    BY <2>1, <2>2, <2>5
  <2>9. q \in LFUStates
    BY <2>5, <2>6, <2>7, <2>8 DEF LFUStates
  <2>10. LFUTracked(q) = LFUTracked(p)
    BY <1>2, <2>1, <2>2, <2>5 DEF LFUTracked, old
  <2>11. ASSUME LFUConsistent(p)
         PROVE  LFUConsistent(q)
    <3> SUFFICES ASSUME NEW f \in 1 .. MaxFreq
                 PROVE  /\ NoDuplicates(q.buckets[f])
                        /\ Elements(q.buckets[f]) = {x \in Keys : q.freq[x] = f}
      BY DEF LFUConsistent
    <3>1. \A g \in 1 .. MaxFreq :
             /\ NoDuplicates(p.buckets[g])
             /\ Elements(p.buckets[g]) = {x \in Keys : p.freq[x] = g}
      BY <2>11 DEF LFUConsistent
    <3>2. \A x \in Keys : q.freq[x] = IF x = k THEN old + 1 ELSE p.freq[x]
      BY <2>1, <2>5
    <3>3. p.freq[k] = old
      BY DEF old
    <3>4. CASE f = old
      <4>1. q.buckets[f] = rest
        BY <2>1, <2>2, <2>5, <3>4
      <4>2. {x \in Keys : q.freq[x] = f} = {x \in Keys : p.freq[x] = f} \ {k}
        BY <2>2, <3>2, <3>4
      <4> QED
        BY <2>2, <2>3, <3>1, <3>4, <4>1, <4>2
    <3>5. CASE f = old + 1
      <4>1. q.buckets[f] = more
        BY <2>1, <2>2, <2>5, <3>5
      <4>2. {x \in Keys : q.freq[x] = f} = {x \in Keys : p.freq[x] = f} \cup {k}
        BY <3>2, <3>5
      <4>3. k \notin Elements(p.buckets[old + 1])
        BY <2>2, <3>1, <3>3
      <4> QED
        BY <2>2, <2>4, <3>1, <3>5, <4>1, <4>2, <4>3
    <3>6. CASE f # old /\ f # old + 1
      <4>1. q.buckets[f] = p.buckets[f]
        BY <2>1, <2>2, <2>5, <3>6
      <4>2. {x \in Keys : q.freq[x] = f} = {x \in Keys : p.freq[x] = f}
        BY <3>2, <3>3, <3>6
      <4> QED
        BY <3>1, <4>1, <4>2
    <3> QED
      BY <3>4, <3>5, <3>6
  <2> QED
    BY <2>9, <2>10, <2>11 DEF q
<1> QED
  BY <1>1, <1>2

\* A key that is not tracked enters the bucket of count 1.
LEMMA LFUOnAddFacts ==
    ASSUME NEW p \in LFUStates, NEW k \in Keys
    PROVE  /\ LFUOnAdd(p, k) \in LFUStates
           /\ LFUTracked(LFUOnAdd(p, k)) = LFUTracked(p) \cup {k}
           /\ LFUConsistent(p) /\ k \notin LFUTracked(p)
                => LFUConsistent(LFUOnAdd(p, k))
<1> DEFINE more == Append(p.buckets[1], k)
           q    == LFUOnAdd(p, k)
<1>1. /\ p.freq \in [Keys -> 0 .. MaxFreq]
      /\ p.buckets \in [1 .. MaxFreq -> Seq(Keys)]
      /\ p.min \in 0 .. MaxFreq
      /\ MaxFreq \in Nat /\ 1 \in 1 .. MaxFreq
  BY PolicyAssumption DEF LFUStates
<1>2. /\ more \in Seq(Keys)
      /\ Elements(more) = Elements(p.buckets[1]) \cup {k}
      /\ NoDuplicates(p.buckets[1]) /\ k \notin Elements(p.buckets[1])
           => NoDuplicates(more)
  BY <1>1, PushBackFacts
<1>3. /\ q = [freq |-> q.freq, buckets |-> q.buckets, min |-> q.min]
      /\ q.freq = [p.freq EXCEPT ![k] = 1]
      /\ q.buckets = [p.buckets EXCEPT ![1] = more]
      /\ q.min \in {1, p.min}
  BY <1>1 DEF LFUOnAdd
<1> HIDE DEF q, more
<1>4. q \in LFUStates
  <2>1. q.freq \in [Keys -> 0 .. MaxFreq]
    BY <1>1, <1>3
  <2>2. q.buckets \in [1 .. MaxFreq -> Seq(Keys)]
    BY <1>1, <1>2, <1>3
  <2>3. q.min \in 0 .. MaxFreq
    BY <1>1, <1>3
  <2> QED
    BY <1>3, <2>1, <2>2, <2>3 DEF LFUStates
<1>5. LFUTracked(q) = LFUTracked(p) \cup {k}
  BY <1>1, <1>3 DEF LFUTracked
<1>6. ASSUME LFUConsistent(p), k \notin LFUTracked(p)
      PROVE  LFUConsistent(q)
  <2> SUFFICES ASSUME NEW f \in 1 .. MaxFreq
               PROVE  /\ NoDuplicates(q.buckets[f])
                      /\ Elements(q.buckets[f]) = {x \in Keys : q.freq[x] = f}
    BY DEF LFUConsistent
  <2>1. \A g \in 1 .. MaxFreq :
           /\ NoDuplicates(p.buckets[g])
           /\ Elements(p.buckets[g]) = {x \in Keys : p.freq[x] = g}
    BY <1>6 DEF LFUConsistent
  <2>2. \A x \in Keys : q.freq[x] = IF x = k THEN 1 ELSE p.freq[x]
    BY <1>1, <1>3
  <2>3. p.freq[k] = 0
    BY <1>1, <1>6 DEF LFUTracked
  <2>4. CASE f = 1
    <3>1. q.buckets[f] = more
      BY <1>1, <1>3, <2>4
    <3>2. {x \in Keys : q.freq[x] = f} = {x \in Keys : p.freq[x] = f} \cup {k}
      BY <2>2, <2>4
    <3>3. k \notin Elements(p.buckets[1])
      BY <1>1, <2>1, <2>3
    <3> QED
      BY <1>1, <1>2, <2>1, <2>4, <3>1, <3>2, <3>3
  <2>5. CASE f # 1
    <3>1. q.buckets[f] = p.buckets[f]
      BY <1>1, <1>3, <2>5
    <3>2. {x \in Keys : q.freq[x] = f} = {x \in Keys : p.freq[x] = f}
      BY <2>2, <2>3, <2>5
    <3> QED
      BY <2>1, <3>1, <3>2
  <2> QED
    BY <2>4, <2>5
<1> QED
  BY <1>4, <1>5, <1>6 DEF q

\* Removing keys takes them out of the counters and of every bucket.
LEMMA LFUOnRemoveFacts ==
    ASSUME NEW p \in LFUStates, NEW S
    PROVE  /\ LFUOnRemove(p, S) \in LFUStates
           /\ LFUTracked(LFUOnRemove(p, S)) = LFUTracked(p) \ S
           /\ LFUConsistent(p) => LFUConsistent(LFUOnRemove(p, S))
<1> DEFINE q == LFUOnRemove(p, S)
<1>1. /\ p.freq \in [Keys -> 0 .. MaxFreq]
      /\ p.buckets \in [1 .. MaxFreq -> Seq(Keys)]
      /\ p.min \in 0 .. MaxFreq
      /\ MaxFreq \in Nat
  BY PolicyAssumption DEF LFUStates
<1>2. /\ q.freq = [k \in Keys |-> IF k \in S THEN 0 ELSE p.freq[k]]
      /\ q.buckets = [f \in 1 .. MaxFreq |-> Without(p.buckets[f], S)]
      /\ q.min = p.min
      /\ q = [freq |-> q.freq, buckets |-> q.buckets, min |-> q.min]
  BY DEF LFUOnRemove
<1> HIDE DEF q
<1>3. \A f \in 1 .. MaxFreq :
         /\ q.buckets[f] \in Seq(Keys)
         /\ Elements(q.buckets[f]) = Elements(p.buckets[f]) \ S
         /\ NoDuplicates(p.buckets[f]) => NoDuplicates(q.buckets[f])
  BY <1>1, <1>2, WithoutFacts
<1>4. q \in LFUStates
  <2>1. q.freq \in [Keys -> 0 .. MaxFreq]
    BY <1>1, <1>2
  <2>2. q.buckets \in [1 .. MaxFreq -> Seq(Keys)]
    BY <1>2, <1>3
  <2> QED
    BY <1>1, <1>2, <2>1, <2>2 DEF LFUStates
<1>5. LFUTracked(q) = LFUTracked(p) \ S
  BY <1>1, <1>2 DEF LFUTracked
<1>6. ASSUME LFUConsistent(p)
      PROVE  LFUConsistent(q)
  <2> SUFFICES ASSUME NEW f \in 1 .. MaxFreq
               PROVE  /\ NoDuplicates(q.buckets[f])
                      /\ Elements(q.buckets[f]) = {x \in Keys : q.freq[x] = f}
    BY DEF LFUConsistent
  <2>1. /\ NoDuplicates(p.buckets[f])
        /\ Elements(p.buckets[f]) = {x \in Keys : p.freq[x] = f}
    BY <1>6 DEF LFUConsistent
  <2>2. {x \in Keys : q.freq[x] = f} = {x \in Keys : p.freq[x] = f} \ S
    BY <1>2
  <2> QED
    BY <1>3, <2>1, <2>2
<1> QED
  BY <1>4, <1>5, <1>6 DEF q

\* An eviction names no key, or gives up a key for good.
LEMMA LFUEvictFacts ==
    ASSUME NEW p \in LFUStates
    PROVE  /\ LFUEvict(p).pol \in LFUStates
           /\ \/ LFUEvict(p) = [key |-> EmptyKey, pol |-> p]
              \/ /\ LFUEvict(p).key \in Keys
                 /\ LFUTracked(LFUEvict(p).pol)
                       = LFUTracked(p) \ {LFUEvict(p).key}
                 /\ LFUConsistent(p) => LFUConsistent(LFUEvict(p).pol)
<1>1. CASE p.min = 0 \/ p.buckets[p.min] = <<>>
  BY <1>1 DEF LFUEvict
<1>2. CASE ~(p.min = 0 \/ p.buckets[p.min] = <<>>)
  <2> DEFINE m == p.min
             v == Head(p.buckets[m])
             rest == Tail(p.buckets[m])
             q == LFUEvict(p).pol
  <2>1. /\ p.freq \in [Keys -> 0 .. MaxFreq]
        /\ p.buckets \in [1 .. MaxFreq -> Seq(Keys)]
        /\ MaxFreq \in Nat
        /\ m \in 1 .. MaxFreq
        /\ p.buckets[m] \in Seq(Keys) /\ p.buckets[m] # <<>>
    BY <1>2, PolicyAssumption DEF LFUStates
  <2>2. /\ v \in Elements(p.buckets[m]) /\ v \in Keys
        /\ rest \in Seq(Keys)
        /\ NoDuplicates(p.buckets[m])
             => /\ Elements(rest) = Elements(p.buckets[m]) \ {v}
                /\ NoDuplicates(rest)
    BY <2>1, PopFrontFacts
  <2>3. /\ LFUEvict(p).key = v
        /\ q = [freq |-> q.freq, buckets |-> q.buckets, min |-> q.min]
        /\ q.min = p.min
        /\ q.freq = [p.freq EXCEPT ![v] = 0]
        /\ q.buckets = [p.buckets EXCEPT ![m] = rest]
    BY <1>2 DEF LFUEvict
  <2> HIDE DEF q, v, rest, m
  <2>4. q \in LFUStates
    <3>1. q.freq \in [Keys -> 0 .. MaxFreq]
      <4>1. 0 \in 0 .. MaxFreq
        BY <2>1
      <4> QED
        BY <2>1, <2>3, <4>1
    <3>2. q.buckets \in [1 .. MaxFreq -> Seq(Keys)]
      BY <2>1, <2>2, <2>3
    <3>3. p.min \in 0 .. MaxFreq
      BY DEF LFUStates
    <3> QED
      BY <2>3, <3>1, <3>2, <3>3 DEF LFUStates
  <2>5. LFUTracked(q) = LFUTracked(p) \ {v}
    BY <2>1, <2>2, <2>3 DEF LFUTracked
  <2>6. ASSUME LFUConsistent(p)
        PROVE  LFUConsistent(q)
    <3> SUFFICES ASSUME NEW f \in 1 .. MaxFreq
                 PROVE  /\ NoDuplicates(q.buckets[f])
                        /\ Elements(q.buckets[f]) = {x \in Keys : q.freq[x] = f}
      BY DEF LFUConsistent
    <3>1. \A g \in 1 .. MaxFreq :
             /\ NoDuplicates(p.buckets[g])
             /\ Elements(p.buckets[g]) = {x \in Keys : p.freq[x] = g}
      BY <2>6 DEF LFUConsistent
    <3>2. \A x \in Keys : q.freq[x] = IF x = v THEN 0 ELSE p.freq[x]
      BY <2>1, <2>2, <2>3
    <3>3. p.freq[v] = m
      BY <2>1, <2>2, <3>1
    <3>4. CASE f = m
      <4>1. q.buckets[f] = rest
        BY <2>1, <2>3, <3>4
      <4>2. {x \in Keys : q.freq[x] = f} = {x \in Keys : p.freq[x] = f} \ {v}
        BY <2>1, <3>2, <3>4
      <4> QED
        BY <2>1, <2>2, <3>1, <3>4, <4>1, <4>2
    <3>5. CASE f # m
      <4>1. q.buckets[f] = p.buckets[f]
        BY <2>1, <2>3, <3>5
      <4>2. {x \in Keys : q.freq[x] = f} = {x \in Keys : p.freq[x] = f}
        BY <3>2, <3>3, <3>5
      <4> QED
        BY <3>1, <4>1, <4>2
    <3> QED
      BY <3>4, <3>5
  <2> QED
    BY <2>2, <2>3, <2>4, <2>5, <2>6 DEF q
<1> QED
  BY <1>1, <1>2

----------------------------------------------------------------------------
(* The interface the shards call.                                          *)

\* A new policy is consistent and tracks nothing.
LEMMA NewPolicyFacts ==
    /\ NewPolicy \in PolicyStates
    /\ Tracks(NewPolicy, {})
    /\ PolicyConsistent(NewPolicy)
<1> USE DEF NewPolicy, PolicyStates, Tracks, Tracked, PolicyConsistent
<1>1. CASE Policy = "LRU"
  <2>1. <<>> \in Seq(Keys) /\ Elements(<<>>) = {}
    BY DEF Elements
  <2>2. NoDuplicates(<<>>)
    BY DEF NoDuplicates
  <2> QED
    BY <1>1, <2>1, <2>2 DEF LRUNew, LRUStates, LRUTracked, LRUConsistent
<1>2. CASE Policy = "LFU"
  <2>1. MaxFreq \in Nat
    BY PolicyAssumption
  <2>2. LFUNew \in LFUStates
    <3>1. LFUNew.freq \in [Keys -> 0 .. MaxFreq]
      BY <2>1 DEF LFUNew
    <3>2. LFUNew.buckets \in [1 .. MaxFreq -> Seq(Keys)]
      BY <2>1 DEF LFUNew
    <3> QED
      BY <2>1, <3>1, <3>2 DEF LFUNew, LFUStates
  <2>3. LFUTracked(LFUNew) = {}
    BY DEF LFUNew, LFUTracked
  <2>4. LFUConsistent(LFUNew)
    BY <2>1 DEF LFUNew, LFUConsistent, NoDuplicates, Elements
  <2> QED
    BY <1>2, <2>2, <2>3, <2>4
<1>3. CASE Policy = "NONE"
  BY <1>3
<1> QED
  BY <1>1, <1>2, <1>3, PolicyAssumption

\* onAccess of a key: the policy stays consistent and tracks the same keys.
LEMMA OnAccessFacts ==
    ASSUME NEW p \in PolicyStates, NEW k \in Keys, CanCount(p, k), NEW K
    PROVE  /\ OnAccess(p, k) \in PolicyStates
           /\ Tracks(p, K) => Tracks(OnAccess(p, k), K)
           /\ PolicyConsistent(p) => PolicyConsistent(OnAccess(p, k))
<1> USE DEF OnAccess, PolicyStates, Tracks, Tracked, PolicyConsistent, CanCount
<1>1. CASE Policy = "LRU"
  BY <1>1, LRUFacts
<1>2. CASE Policy = "LFU"
  BY <1>2, LFUOnAccessFacts
<1>3. CASE Policy = "NONE"
  BY <1>3
<1> QED
  BY <1>1, <1>2, <1>3, PolicyAssumption

\* onAdd of a key that is not tracked: it is tracked besides the others.
LEMMA OnAddFacts ==
    ASSUME NEW p \in PolicyStates, NEW k \in Keys, NEW K
    PROVE  /\ OnAdd(p, k) \in PolicyStates
           /\ Tracks(p, K) => Tracks(OnAdd(p, k), K \cup {k})
           /\ PolicyConsistent(p) /\ Tracks(p, K) /\ k \notin K
                => PolicyConsistent(OnAdd(p, k))
<1> USE DEF OnAdd, PolicyStates, Tracks, Tracked, PolicyConsistent
<1>1. CASE Policy = "LRU"
  BY <1>1, LRUFacts
<1>2. CASE Policy = "LFU"
  BY <1>2, LFUOnAddFacts
<1>3. CASE Policy = "NONE"
  BY <1>3
<1> QED
  BY <1>1, <1>2, <1>3, PolicyAssumption

\* onRemove: the removed keys are no longer tracked, and all others are.
LEMMA OnRemoveFacts ==
    ASSUME NEW p \in PolicyStates, NEW S, NEW K
    PROVE  /\ OnRemove(p, S) \in PolicyStates
           /\ Tracks(p, K) => Tracks(OnRemove(p, S), K \ S)
           /\ PolicyConsistent(p) => PolicyConsistent(OnRemove(p, S))
<1> USE DEF OnRemove, PolicyStates, Tracks, Tracked, PolicyConsistent
<1>1. CASE Policy = "LRU"
  BY <1>1, LRUFacts
<1>2. CASE Policy = "LFU"
  BY <1>2, LFUOnRemoveFacts
<1>3. CASE Policy = "NONE"
  BY <1>3
<1> QED
  BY <1>1, <1>2, <1>3, PolicyAssumption

\* An eviction untracks exactly the key it names; if it names none it leaves
\* the policy alone, which the LRU policy does only when it tracks nothing.
\* In both cases the shard may keep the empty string.
LEMMA EvictFacts ==
    ASSUME NEW p \in PolicyStates, NEW K, K \subseteq Keys,
           Tracks(p, K), PolicyConsistent(p)
    PROVE  /\ Evict(p).pol \in PolicyStates
           /\ Tracks(Evict(p).pol, K \ ({Evict(p).key} \ {EmptyKey}))
           /\ PolicyConsistent(Evict(p).pol)
           /\ Policy = "LRU" /\ EmptyKey \notin Keys /\ K # {} => Evict(p).key \in K
<1> USE DEF Evict, PolicyStates, Tracks, Tracked, PolicyConsistent
<1>1. CASE Policy = "LRU"
  <2>1. CASE K = {}
    BY <1>1, <2>1, LRUEvictFacts
  <2>2. CASE K # {}
    BY <1>1, <2>2, LRUEvictFacts
  <2> QED
    BY <2>1, <2>2
<1>2. CASE Policy = "LFU"
  <2>1. CASE LFUEvict(p) = [key |-> EmptyKey, pol |-> p]
    BY <1>2, <2>1
  <2>2. CASE LFUEvict(p) # [key |-> EmptyKey, pol |-> p]
    BY <1>2, <2>2, LFUEvictFacts
  <2> QED
    BY <2>1, <2>2
<1>3. CASE Policy = "NONE"
  BY <1>3
<1> QED
  BY <1>1, <1>2, <1>3, PolicyAssumption

\* Unless the empty string is a key, a policy tracks exactly what is stored.
LEMMA TracksAll ==
    ASSUME EmptyKey \notin Keys, Policy # "NONE",
           NEW p, NEW K \in SUBSET Keys, Tracks(p, K)
    PROVE  Tracked(p) = K
BY DEF Tracks

\* The state of the policy stays well typed even for a list of keys that
\* holds the empty string.
LEMMA EvictType ==
    ASSUME NEW p \in PolicyStates
    PROVE  Evict(p).pol \in PolicyStates
<1> USE DEF Evict, PolicyStates
<1>1. CASE Policy = "LRU"
  BY <1>1, LRUEvictFacts
<1>2. CASE Policy = "LFU"
  BY <1>2, LFUEvictFacts
<1>3. CASE Policy = "NONE"
  BY <1>3
<1> QED
  BY <1>1, <1>2, <1>3, PolicyAssumption

----------------------------------------------------------------------------
(* One shard.                                                              *)

\* The shard holds finitely many keys, within its capacity.
Bounded(sh) ==
    /\ IsFiniteSet(Stored(sh))
    /\ ShardCapacity > 0 => Cardinality(Stored(sh)) <= ShardCapacity

\* The policy tracks the keys of the store and is consistent.
Sound(sh) == Tracks(sh.pol, Stored(sh)) /\ PolicyConsistent(sh.pol)

\* The share of the capacity that a shard gets is a number.
LEMMA ShardCapacityType == ShardCapacity \in Nat
BY ShardAssumption DEF ShardCapacity

\* Erasing keys from a store leaves a store, without just those keys.
LEMMA EraseFacts ==
    ASSUME NEW sh \in ShardStates, NEW S, NEW q \in PolicyStates
    PROVE  LET gone == [store |-> Erase(sh.store, S), pol |-> q]
           IN  gone \in ShardStates /\ Stored(gone) = Stored(sh) \ S
BY DEF ShardStates, Erase, Stored

\* Fewer keys are still within the capacity.
LEMMA BoundedSubset ==
    ASSUME NEW sh, NEW less, Bounded(sh), Stored(less) \subseteq Stored(sh)
    PROVE  Bounded(less)
<1>1. /\ IsFiniteSet(Stored(less))
      /\ Cardinality(Stored(less)) <= Cardinality(Stored(sh))
  BY FS_Subset DEF Bounded
<1>2. Cardinality(Stored(less)) \in Nat /\ Cardinality(Stored(sh)) \in Nat
  BY <1>1, FS_CardinalityType DEF Bounded
<1> QED
  BY <1>1, <1>2, ShardCapacityType DEF Bounded

\* A new shard, which is also what clear() leaves, has what shards have.
LEMMA NewShardFacts ==
    /\ NewShard \in ShardStates
    /\ Bounded(NewShard)
    /\ Sound(NewShard)
<1>1. NewShard \in ShardStates
  BY NewPolicyFacts DEF NewShard, EmptyStore, ShardStates
<1>2. Stored(NewShard) = {}
  BY DEF NewShard, EmptyStore, Stored
<1> QED
  BY <1>1, <1>2, NewPolicyFacts, FS_EmptySet, ShardCapacityType
     DEF Bounded, Sound, NewShard

\* del, and the removal of expired keys.
LEMMA RemovalFacts ==
    ASSUME NEW sh \in ShardStates, NEW S
    PROVE  LET gone == [store |-> Erase(sh.store, S), pol |-> OnRemove(sh.pol, S)]
           IN  /\ gone \in ShardStates
               /\ Bounded(sh) => Bounded(gone)
               /\ Sound(sh) => Sound(gone)
<1> DEFINE gone == [store |-> Erase(sh.store, S), pol |-> OnRemove(sh.pol, S)]
<1>1. sh.pol \in PolicyStates
  BY DEF ShardStates
<1>2. OnRemove(sh.pol, S) \in PolicyStates
  BY <1>1, OnRemoveFacts
<1>3. gone \in ShardStates /\ Stored(gone) = Stored(sh) \ S
  BY <1>2, EraseFacts
<1>4. gone.pol = OnRemove(sh.pol, S)
  OBVIOUS
<1> HIDE DEF gone
<1>5. Bounded(sh) => Bounded(gone)
  BY <1>3, BoundedSubset
<1>6. Sound(sh) => Sound(gone)
  BY <1>1, <1>3, <1>4, OnRemoveFacts DEF Sound
<1> QED
  BY <1>3, <1>5, <1>6 DEF gone

\* An access changes nothing but the policy.
LEMMA AccessFacts ==
    ASSUME NEW sh \in ShardStates, NEW k \in Keys, CanCount(sh.pol, k)
    PROVE  LET used == [sh EXCEPT !.pol = OnAccess(@, k)]
           IN  /\ used \in ShardStates
               /\ Bounded(sh) => Bounded(used)
               /\ Sound(sh) => Sound(used)
<1> DEFINE used == [sh EXCEPT !.pol = OnAccess(@, k)]
<1>1. sh.pol \in PolicyStates /\ sh.store \in [Keys -> Entry \cup {NoEntry}]
  BY DEF ShardStates
<1>2. OnAccess(sh.pol, k) \in PolicyStates
  BY <1>1, OnAccessFacts
<1>3. /\ used \in ShardStates
      /\ used.store = sh.store
      /\ used.pol = OnAccess(sh.pol, k)
  BY <1>2 DEF ShardStates
<1> HIDE DEF used
<1>4. Stored(used) = Stored(sh)
  BY <1>3 DEF Stored
<1>5. Sound(sh) => Sound(used)
  BY <1>1, <1>3, <1>4, OnAccessFacts DEF Sound
<1> QED
  BY <1>3, <1>4, <1>5 DEF used, Bounded

\* get: a live key is accessed, an expired one removed, a missing one nothing.
LEMMA GetFacts ==
    ASSUME NEW sh \in ShardStates, NEW k \in Keys, CanCount(sh.pol, k), NEW t
    PROVE  /\ Get(sh, k, t).shard \in ShardStates
           /\ Bounded(sh) => Bounded(Get(sh, k, t).shard)
           /\ Sound(sh) => Sound(Get(sh, k, t).shard)
<1>1. CASE sh.store[k] = NoEntry
  BY <1>1 DEF Get
<1>2. CASE sh.store[k] # NoEntry /\ IsExpired(sh.store[k], t)
  BY <1>2, RemovalFacts DEF Get, Delete
<1>3. CASE sh.store[k] # NoEntry /\ ~IsExpired(sh.store[k], t)
  BY <1>3, AccessFacts DEF Get
<1> QED
  BY <1>1, <1>2, <1>3

\* The eviction loop only takes keys away, and keeps the policy in step with
\* the store.
LEMMA AdmitFacts ==
    ASSUME NEW sh \in ShardStates, NEW k \in Keys
    PROVE  /\ Admit(sh, k) \in ShardStates
           /\ Stored(Admit(sh, k)) \subseteq Stored(sh)
           /\ k \in Stored(sh) => Admit(sh, k) = sh
           /\ Sound(sh) => Sound(Admit(sh, k))
<1> DEFINE evicted == Evict(sh.pol)
           erased == {evicted.key} \cap (Stored(sh) \ {EmptyKey})
           room == [store |-> Erase(sh.store, erased), pol |-> evicted.pol]
<1>1. sh.pol \in PolicyStates
  BY DEF ShardStates
<1>2. evicted.pol \in PolicyStates
  BY <1>1, EvictType
<1>3. room \in ShardStates /\ Stored(room) = Stored(sh) \ erased
  BY <1>2, EraseFacts
<1>4. ASSUME Sound(sh)
      PROVE  Sound(room)
  <2>1. Stored(sh) \subseteq Keys
    BY DEF Stored
  <2>2. Stored(room) = Stored(sh) \ ({evicted.key} \ {EmptyKey})
    BY <1>3
  <2> QED
    BY <1>1, <1>4, <2>1, <2>2, EvictFacts DEF Sound
<1>5. Admit(sh, k) = sh \/ (k \notin Stored(sh) /\ Admit(sh, k) = room)
  BY DEF Admit, MakeRoom
<1> QED
  BY <1>3, <1>4, <1>5

\* set and setWithTtl.
LEMMA PutFacts ==
    ASSUME NEW sh \in ShardStates, NEW k \in Keys, NEW e \in Entry,
           CanCount(sh.pol, k)
    PROVE  /\ Put(sh, k, e).shard \in ShardStates
           /\ Bounded(sh) => Bounded(Put(sh, k, e).shard)
           /\ Sound(sh) => Sound(Put(sh, k, e).shard)
<1> DEFINE room == Admit(sh, k)
           pol == IF k \in Stored(sh) THEN OnAccess(room.pol, k)
                                      ELSE OnAdd(room.pol, k)
           put == [store |-> [room.store EXCEPT ![k] = e], pol |-> pol]
<1>1. /\ room \in ShardStates
      /\ Stored(room) \subseteq Stored(sh)
      /\ k \in Stored(sh) => room = sh
      /\ Sound(sh) => Sound(room)
  BY AdmitFacts
<1>2. room.pol \in PolicyStates /\ room.store \in [Keys -> Entry \cup {NoEntry}]
  BY <1>1 DEF ShardStates
<1>3. \/ k \notin Stored(sh) /\ Full(room) /\ Put(sh, k, e).shard = room
      \/ (k \in Stored(sh) \/ ~Full(room)) /\ Put(sh, k, e).shard = put
  BY DEF Put
<1> HIDE DEF room
<1>4. put \in ShardStates
  BY <1>1, <1>2, OnAccessFacts, OnAddFacts DEF ShardStates
<1>5. Stored(put) = Stored(room) \cup {k}
  BY <1>2, EntryAssumption DEF Stored
<1>6. put.pol = pol
  OBVIOUS
<1> HIDE DEF put
<1>7. ASSUME Bounded(sh), k \in Stored(sh) \/ ~Full(room)
      PROVE  Bounded(put)
  <2>1. Bounded(room)
    BY <1>1, <1>7, BoundedSubset
  <2>2. CASE k \in Stored(sh)
    <3>1. Stored(put) = Stored(sh)
      BY <1>1, <1>5, <2>2
    <3> QED
      BY <1>7, <3>1 DEF Bounded
  <2>3. CASE k \notin Stored(sh)
    <3>1. /\ IsFiniteSet(Stored(put))
          /\ Cardinality(Stored(put)) <= Cardinality(Stored(room)) + 1
          /\ Cardinality(Stored(room)) \in Nat
          /\ Cardinality(Stored(put)) \in Nat
      <4>1. IsFiniteSet(Stored(room)) /\ Cardinality(Stored(room)) \in Nat
        BY <2>1, FS_CardinalityType DEF Bounded
      <4>2. /\ IsFiniteSet(Stored(room) \cup {k})
            /\ Cardinality(Stored(room) \cup {k})
                 = IF k \in Stored(room) THEN Cardinality(Stored(room))
                                         ELSE Cardinality(Stored(room)) + 1
        BY <4>1, FS_AddElement
      <4> QED
        BY <1>5, <4>1, <4>2
    <3>2. ShardCapacity > 0 => Cardinality(Stored(room)) < ShardCapacity
      BY <1>7, <2>3, <3>1, ShardCapacityType DEF Full
    <3> QED
      BY <3>1, <3>2, ShardCapacityType DEF Bounded
  <2> QED
    BY <2>2, <2>3
<1>8. ASSUME Sound(sh)
      PROVE  Sound(put)
  <2>1. Tracks(room.pol, Stored(room)) /\ PolicyConsistent(room.pol)
    BY <1>1, <1>8 DEF Sound
  <2>2. CASE k \in Stored(sh)
    <3>1. Stored(put) = Stored(room) /\ put.pol = OnAccess(room.pol, k)
      BY <1>1, <1>5, <1>6, <2>2
    <3>2. CanCount(room.pol, k)
      BY <1>1, <2>2
    <3> QED
      BY <1>2, <2>1, <3>1, <3>2, OnAccessFacts DEF Sound
  <2>3. CASE k \notin Stored(sh)
    <3>1. put.pol = OnAdd(room.pol, k) /\ k \notin Stored(room)
      BY <1>1, <1>6, <2>3
    <3> QED
      BY <1>2, <1>5, <2>1, <3>1, OnAddFacts DEF Sound
  <2> QED
    BY <2>2, <2>3
<1>9. Bounded(sh) => Bounded(room)
  BY <1>1, BoundedSubset
<1> QED
  BY <1>1, <1>3, <1>4, <1>7, <1>8, <1>9

----------------------------------------------------------------------------
(* What the operations do to the entries of a shard.                       *)

\* get leaves every entry alone, but for that of its own key if it expired.
LEMMA GetStore ==
    ASSUME NEW sh \in ShardStates, NEW k \in Keys, NEW t, NEW j \in Keys
    PROVE  Get(sh, k, t).shard.store[j]
             = IF j = k /\ sh.store[k] # NoEntry /\ IsExpired(sh.store[k], t)
               THEN NoEntry ELSE sh.store[j]
BY DEF Get, Delete, Erase, ShardStates

\* The capacity check erases entries or leaves them alone; without a limit it
\* does nothing.
LEMMA AdmitStore ==
    ASSUME NEW sh \in ShardStates, NEW k \in Keys, NEW j \in Keys
    PROVE  /\ Admit(sh, k).store[j] \in {sh.store[j], NoEntry}
           /\ ShardCapacity = 0 => Admit(sh, k) = sh /\ ~Full(sh)
<1>1. ShardCapacity = 0 => ~Full(sh)
  BY DEF Full
<1> QED
  BY <1>1 DEF Admit, MakeRoom, Erase, ShardStates

\* set and setWithTtl put the entry, unless they fail, for which the key must
\* be new; other entries are erased or left alone, and left alone for sure
\* without a limit.
LEMMA PutStore ==
    ASSUME NEW sh \in ShardStates, NEW k \in Keys, NEW e \in Entry
    PROVE  /\ Put(sh, k, e).shard.store[k]
                = IF Put(sh, k, e).ok THEN e ELSE NoEntry
           /\ ~Put(sh, k, e).ok => sh.store[k] = NoEntry
           /\ \A j \in Keys \ {k} :
                 Put(sh, k, e).shard.store[j] \in {sh.store[j], NoEntry}
           /\ ShardCapacity = 0 =>
                 /\ Put(sh, k, e).ok
                 /\ \A j \in Keys \ {k} :
                       Put(sh, k, e).shard.store[j] = sh.store[j]
<1> DEFINE room == Admit(sh, k)
           pol  == IF k \in Stored(sh) THEN OnAccess(room.pol, k)
                                       ELSE OnAdd(room.pol, k)
           put  == [store |-> [room.store EXCEPT ![k] = e], pol |-> pol]
<1>1. /\ room \in ShardStates
      /\ \A j \in Keys : room.store[j] \in {sh.store[j], NoEntry}
      /\ ShardCapacity = 0 => room = sh /\ ~Full(sh)
  BY AdmitFacts, AdmitStore
<1>2. \/ /\ k \notin Stored(sh) /\ Full(room)
         /\ Put(sh, k, e) = [ok |-> FALSE, shard |-> room]
      \/ /\ ~(k \notin Stored(sh) /\ Full(room))
         /\ Put(sh, k, e) = [ok |-> TRUE, shard |-> put]
  BY DEF Put
<1>3. k \notin Stored(sh) => sh.store[k] = NoEntry /\ room.store[k] = NoEntry
  BY <1>1 DEF Stored
<1> HIDE DEF room
<1>4. /\ put.store[k] = e
      /\ \A j \in Keys \ {k} : put.store[j] = room.store[j]
  BY <1>1 DEF ShardStates
<1> HIDE DEF put
<1>5. CASE Put(sh, k, e) = [ok |-> FALSE, shard |-> room]
           /\ k \notin Stored(sh) /\ Full(room)
  BY <1>1, <1>3, <1>5
<1>6. CASE Put(sh, k, e) = [ok |-> TRUE, shard |-> put]
  BY <1>1, <1>4, <1>6
<1> QED
  BY <1>2, <1>5, <1>6

\* No operation on one key counts an access to another.
LEMMA CountFacts ==
    ASSUME NEW p \in PolicyStates, NEW k \in Keys, NEW j \in Keys, CanCount(p, j)
    PROVE  /\ j # k => CanCount(OnAccess(p, k), j) /\ CanCount(OnAdd(p, k), j)
           /\ CanCount(Evict(p).pol, j)
           /\ \A S : CanCount(OnRemove(p, S), j)
<1> SUFFICES ASSUME Policy = "LFU"
             PROVE  /\ j # k => /\ LFUCanCount(LFUOnAccess(p, k), j)
                                /\ LFUCanCount(LFUOnAdd(p, k), j)
                    /\ LFUCanCount(LFUEvict(p).pol, j)
                    /\ \A S : LFUCanCount(LFUOnRemove(p, S), j)
  BY DEF CanCount, OnAccess, OnAdd, Evict, OnRemove
<1>1. /\ p.freq \in [Keys -> 0 .. MaxFreq] /\ p.freq[j] < MaxFreq
      /\ MaxFreq \in Nat /\ 0 < MaxFreq
  BY PolicyAssumption DEF PolicyStates, LFUStates, CanCount, LFUCanCount
<1>2. j # k => /\ LFUOnAccess(p, k).freq[j] = p.freq[j]
               /\ LFUOnAdd(p, k).freq[j] = p.freq[j]
  BY <1>1 DEF LFUOnAccess, LFUOnAdd
<1>3. LFUEvict(p).pol.freq[j] \in {p.freq[j], 0}
  BY <1>1 DEF LFUEvict
<1>4. \A S : LFUOnRemove(p, S).freq[j] \in {p.freq[j], 0}
  BY <1>1 DEF LFUOnRemove
<1> QED
  BY <1>1, <1>2, <1>3, <1>4 DEF LFUCanCount

\* So set counts no access to another key.
LEMMA PutCounts ==
    ASSUME NEW sh \in ShardStates, NEW k \in Keys, NEW e \in Entry,
           NEW j \in Keys \ {k}, CanCount(sh.pol, j)
    PROVE  CanCount(Put(sh, k, e).shard.pol, j)
<1> DEFINE room == Admit(sh, k)
<1>1. sh.pol \in PolicyStates
  BY DEF ShardStates
<1>2. room.pol \in PolicyStates
  BY AdmitFacts DEF ShardStates
<1>3. CanCount(room.pol, j)
  <2>1. room.pol \in {sh.pol, Evict(sh.pol).pol}
    BY DEF Admit, MakeRoom
  <2> QED
    BY <1>1, <2>1, CountFacts
<1>4. Put(sh, k, e).shard.pol \in {room.pol, OnAccess(room.pol, k), OnAdd(room.pol, k)}
  BY DEF Put
<1> QED
  BY <1>2, <1>3, <1>4, CountFacts
=============================================================================
