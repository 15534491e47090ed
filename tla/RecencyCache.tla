---------------------------- MODULE RecencyCache ----------------------------
(***************************************************************************)
(* What an LRU cache promises, without saying how: in each shard a bounded *)
(* set of keys, and which of two keys was used before the other.  A key is *)
(* put into a full shard in place of the one that was used before all the  *)
(* others; keys leave otherwise only when they are dropped (deleted,       *)
(* expired, cleared).                                                      *)
(***************************************************************************)
EXTENDS Integers, FiniteSets

CONSTANTS Keys, Shards, ShardOf,
          Capacity   \* of a shard; 0 is unlimited

VARIABLES contents,  \* the keys in each shard
          older      \* pairs <<j, k>>: j was last used before k

vars == <<contents, older>>

Init ==
    /\ contents = [s \in Shards |-> {}]
    /\ older = [s \in Shards |-> {}]

\* The order among the keys of S, restricted from R.
Among(R, S) == R \cap (S \X S)

\* k becomes the latest used of the keys in S and k.
Latest(R, S, k) == Among(R, S \ {k}) \cup ((S \ {k}) \X {k})

IsOldest(s, v) ==
    /\ v \in contents[s]
    /\ \A k \in contents[s] \ {v} : <<v, k>> \in older[s]

Hold(s, S, R) ==
    /\ contents' = [contents EXCEPT ![s] = S]
    /\ older' = [older EXCEPT ![s] = R]

Use(k) ==
    LET s == ShardOf[k]
    IN  /\ k \in contents[s]
        /\ Hold(s, contents[s], Latest(older[s], contents[s], k))

HasRoom(s) == Capacity > 0 => Cardinality(contents[s]) < Capacity

Insert(k) ==
    LET s == ShardOf[k]
    IN  /\ k \notin contents[s]
        /\ HasRoom(s)
        /\ Hold(s, contents[s] \cup {k}, Latest(older[s], contents[s], k))

Replace(k) ==
    LET s == ShardOf[k]
    IN  /\ k \notin contents[s]
        /\ ~HasRoom(s)
        /\ \E v \in contents[s] :
              LET stay == contents[s] \ {v}
              IN  /\ IsOldest(s, v)
                  /\ Hold(s, stay \cup {k}, Latest(older[s], stay, k))

\* Any of the keys leave; the others keep their order.
Drop(s) ==
    /\ contents'[s] \subseteq contents[s]
    /\ Hold(s, contents'[s], Among(older[s], contents'[s]))

Next ==
    \/ \E k \in Keys : Use(k) \/ Insert(k) \/ Replace(k)
    \/ \E s \in Shards : Drop(s)

Spec == Init /\ [][Next]_vars
=============================================================================
