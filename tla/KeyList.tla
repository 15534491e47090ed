------------------------------ MODULE KeyList ------------------------------
(***************************************************************************)
(* The lists of keys that the eviction policies keep (std::list<string>).  *)
(* A list is a sequence, front first.  push_front, push_back, front, back  *)
(* and the pops are the operators of Sequences and SequencesExt; erasing   *)
(* from the middle is defined here.                                        *)
(*                                                                         *)
(* Erasing is defined by rank and not with SelectSeq: the m-th element     *)
(* that stays is the one at the index of rank m among the indices that     *)
(* stay.  The definition has no recursion, so that facts about it can be   *)
(* proved (KeyList_proofs); MCCacheLRU compares it with SelectSeq.         *)
(***************************************************************************)
EXTENDS Integers, Sequences, FiniteSets

CONSTANTS Keys,      \* the keys clients use
          EmptyKey   \* the empty string, which evict() returns for "nothing"

\* The elements of a list.
Elements(s) == {s[i] : i \in DOMAIN s}

\* No key is twice in the list.
NoDuplicates(s) == \A i, j \in DOMAIN s : s[i] = s[j] => i = j

\* t begins with s.
Prefix(s, t) == Len(s) <= Len(t) /\ \A i \in DOMAIN s : s[i] = t[i]

\* The indices of s that stay when the keys of S are erased.
Kept(s, S) == {i \in DOMAIN s : s[i] \notin S}

\* How many members of I are at most i.
Rank(I, i) == Cardinality({m \in I : m <= i})

\* The member of I of rank j.
AtRank(I, j) == CHOOSE i \in I : Rank(I, i) = j

\* list::remove and list::erase: s without the keys of S, in the same order.
Without(s, S) ==
    LET I == Kept(s, S)
    IN  [j \in 1 .. Cardinality(I) |-> s[AtRank(I, j)]]
=============================================================================
