---------------------------- MODULE CacheScans -----------------------------
(***************************************************************************)
(* Cache with history variables, to say what a scan that holds one lock at *)
(* a time still promises.                                                  *)
(*                                                                         *)
(*   steady   for each scanning thread, the pairs of a key and its entry   *)
(*            that were in the cache all the time since its scan started   *)
(*   seen     those that were in the cache at some time since then         *)
(*   began    the clock when the scan started                              *)
(***************************************************************************)
EXTENDS Cache

VARIABLES steady, seen, began

history == <<steady, seen, began>>
hvars == <<vars, history>>

Contents == {<<k, shards[ShardOf[k]].store[k]>> :
                k \in {x \in Keys : x \in Stored(shards[ShardOf[x]])}}

HTypeOK ==
    /\ TypeOK
    /\ steady \in [Threads -> SUBSET (Keys \X Entry)]
    /\ seen \in [Threads -> SUBSET (Keys \X Entry)]
    /\ began \in [Threads -> 0 .. MaxTime]

HInit ==
    /\ Init
    /\ steady = [t \in Threads |-> {}]
    /\ seen = [t \in Threads |-> {}]
    /\ began = [t \in Threads |-> 0]

\* What a history of thread t becomes: for a thread that no longer scans, for
\* one whose scan starts in this step, which leaves the contents alone, and
\* for one whose scan goes on.
Becomes(t, none, started, goesOn) ==
    IF scan'[t] = Idle THEN none
    ELSE IF scan[t] = Idle THEN started ELSE goesOn

Observe ==
    /\ steady' = [t \in Threads |->
                     Becomes(t, {}, Contents, steady[t] \cap Contents')]
    /\ seen' = [t \in Threads |->
                   Becomes(t, {}, Contents, seen[t] \cup Contents')]
    /\ began' = [t \in Threads |-> Becomes(t, 0, now, began[t])]

HNext == Next /\ Observe

HSpec == HInit /\ [][HNext]_hvars

----------------------------------------------------------------------------
KeysOf(pairs) == {p[1] : p \in pairs}

\* When clear() returns, whatever is in the cache was written after clear()
\* was called: nothing was there all along (cache.cpp:228-237).
ClearLeavesOnlyNewEntries ==
    \A t \in Threads :
        Returned(t) /\ scan[t].op = "clear" => steady[t] = {}

\* When cleanupExpired() returns, no entry that had expired before the call
\* has stayed in the cache since (cache.cpp:279-301).
CleanupLeavesNothingStale ==
    \A t \in Threads :
        Returned(t) /\ scan[t].op = "cleanupExpired"
            => \A p \in steady[t] : ~IsExpired(p[2], began[t])

\* getAllData() returns every entry that was in the cache for the whole call,
\* and only entries that were in it at some time during the call; the data
\* removeNode redistributes is such a copy (cache.cpp:325-336).
SnapshotIsFaithful ==
    \A t \in Threads :
        Returned(t) /\ scan[t].op = "getAllData" =>
            LET copy == {<<k, scan[t].data[k]>> :
                           k \in {x \in Keys : scan[t].data[x] # NoEntry}}
            IN  steady[t] \subseteq copy /\ copy \subseteq seen[t]

\* size() counts every key that was there all the time and is not expired
\* when it returns, and none that never was there; no better bound holds,
\* since it adds up shards read at different times (cache.cpp:219-226).
\* Expired keys may be counted or not: the code counts those that nobody has
\* removed yet, and its comment says "excluding expired ones" (cache.h:117).
SizeIsBounded ==
    \A t \in Threads :
        Returned(t) /\ scan[t].op = "size" =>
            LET live == {p \in steady[t] : ~IsExpired(p[2], now)}
            IN  /\ Cardinality(KeysOf(live)) <= scan[t].count
                /\ scan[t].count <= Cardinality(KeysOf(seen[t]))
=============================================================================
