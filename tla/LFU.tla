-------------------------------- MODULE LFU --------------------------------
(***************************************************************************)
(* class LFUEvictionPolicy (eviction.h, eviction.cpp).                     *)
(*                                                                         *)
(*   freq     keyFrequency; 0 stands for a key the map does not hold       *)
(*   buckets  frequencyBuckets; the empty list stands for an absent bucket *)
(*            (the code never tells the two apart: an empty bucket is      *)
(*            erased, or, when evict() creates it by indexing, found empty *)
(*            again)                                                       *)
(*   min      minFrequency                                                 *)
(*                                                                         *)
(* MaxFreq bounds the counters, which are of type int in the code: a key   *)
(* that has reached it takes no further access (CanCount).                 *)
(***************************************************************************)
EXTENDS KeyList

CONSTANT MaxFreq   \* bound on the counters

LFUStates == [freq    : [Keys -> 0 .. MaxFreq],
              buckets : [1 .. MaxFreq -> Seq(Keys)],
              min     : 0 .. MaxFreq]

LFUNew == [freq    |-> [k \in Keys |-> 0],
           buckets |-> [f \in 1 .. MaxFreq |-> <<>>],
           min     |-> 0]

LFUTracked(p) == {k \in Keys : p.freq[k] > 0}

\* The bound on the counters: k can be accessed once more.
LFUCanCount(p, k) == p.freq[k] < MaxFreq

\* Wrong forms of onAccess, for the mutation checks.
LFUOnAccessToFront(p, k) ==
    IF k \notin LFUTracked(p) THEN p
    ELSE [p EXCEPT !.freq[k] = @ + 1,
                   !.buckets[p.freq[k]] = Without(@, {k}),
                   !.buckets[p.freq[k] + 1] = <<k>> \o @]
LFUOnAccessLeavesOldBucket(p, k) ==
    IF k \notin LFUTracked(p) THEN p
    ELSE [p EXCEPT !.freq[k] = @ + 1,
                   !.buckets[p.freq[k] + 1] = Append(@, k)]

\* An access counts one more and moves the key to the back of the next
\* bucket.  minFrequency follows only if this emptied the bucket it names.
LFUOnAccess(p, k) ==
    LET old == p.freq[k]
        rest == Without(p.buckets[old], {k})
    IN  IF k \notin LFUTracked(p) THEN p
        ELSE [freq    |-> [p.freq EXCEPT ![k] = old + 1],
              buckets |-> [p.buckets EXCEPT ![old] = rest,
                                            ![old + 1] = Append(@, k)],
              min     |-> IF rest = <<>> /\ old = p.min THEN old + 1
                                                       ELSE p.min]

\* A new key counts 1.  minFrequency is set only if it never was.
LFUOnAdd(p, k) ==
    [freq    |-> [p.freq EXCEPT ![k] = 1],
     buckets |-> [p.buckets EXCEPT ![1] = Append(@, k)],
     min     |-> IF p.min = 0 THEN 1 ELSE p.min]

\* onRemove for each key of S in turn; minFrequency is left alone.
LFUOnRemove(p, S) ==
    [freq    |-> [k \in Keys |-> IF k \in S THEN 0 ELSE p.freq[k]],
     buckets |-> [f \in 1 .. MaxFreq |-> Without(p.buckets[f], S)],
     min     |-> p.min]

\* evict() takes the front of the bucket minFrequency names, if any.
LFUEvict(p) ==
    IF p.min = 0 \/ p.buckets[p.min] = <<>>
    THEN [key |-> EmptyKey, pol |-> p]
    ELSE LET victim == Head(p.buckets[p.min])
         IN  [key |-> victim,
              pol |-> [freq    |-> [p.freq EXCEPT ![victim] = 0],
                       buckets |-> [p.buckets EXCEPT ![p.min] = Tail(@)],
                       min     |-> p.min]]

\* Every counted key is once in the bucket of its count, and nowhere else.
LFUConsistent(p) ==
    \A f \in 1 .. MaxFreq :
        /\ NoDuplicates(p.buckets[f])
        /\ Elements(p.buckets[f]) = {k \in Keys : p.freq[k] = f}
=============================================================================
