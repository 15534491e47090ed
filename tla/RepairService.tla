--------------------------- MODULE RepairService ----------------------------
(***************************************************************************)
(* class AntiEntropyService (anti_entropy.h, anti_entropy.cpp) as a        *)
(* thread: started by the constructor of the DistributedCache that owns    *)
(* it, stopped by the destructor.  What a pass does to the keys is the     *)
(* subject of AntiEntropy; here it is a sequence of acquisitions of the    *)
(* cluster's lock.                                                         *)
(*                                                                         *)
(* Clusters are the DistributedCache objects that exist at a time.  Each   *)
(* has a lock, a service and a repair thread, its worker:                  *)
(*                                                                         *)
(*   object         none; alive; or dead, once ~DistributedCache has       *)
(*                  destroyed the lock, the ring, the caches and           *)
(*                  failedNodes, and until the service is gone as well     *)
(*   running, stopRequested   the flags of the service                     *)
(*   worker         where its thread is                                    *)
(*   keysLeft       how many keys the pass has still to check              *)
(*   client         what the client's thread does with the cluster's lock  *)
(*   touched        history: a worker has used destroyed members, which is *)
(*                  undefined behaviour                                    *)
(*   asleep         history: the clusters whose worker slept when their    *)
(*                  destruction began, and was not woken by the end of the *)
(*                  repair interval before it was told to stop             *)
(***************************************************************************)
EXTENDS Integers

CONSTANTS Clusters,   \* the objects
          MaxKeys     \* a bound on the keys a pass finds

ASSUME ServiceAssumption == MaxKeys \in Nat

VARIABLES object, running, stopRequested, worker, keysLeft, client,
          touched, asleep

serviceVars == <<object, running, stopRequested, worker, keysLeft, client,
                 touched, asleep>>

\* In the order of repairLoop.  At nodesHeld and countedHeld the worker is in
\* getAllHealthyNodes, which holds the lock shared and is about to lock it
\* shared once more, in getAllNodes.
Passing  == {"nodes", "nodesHeld", "collect", "keys", "counted", "countedHeld",
             "repair"}
Sleeping == {"predicate", "block", "waiting"}
Places   == {"none", "check", "ended"} \cup Passing \cup Sleeping

ServiceTypeOK ==
    /\ object \in [Clusters -> {"none", "alive", "dead"}]
    /\ running \in [Clusters -> BOOLEAN]
    /\ stopRequested \in [Clusters -> BOOLEAN]
    /\ worker \in [Clusters -> Places]
    /\ keysLeft \in [Clusters -> 0 .. MaxKeys]
    /\ client \in [Clusters -> {"none", "wantsShared", "shared",
                                "wantsExclusive", "exclusive"}]
    /\ touched \in BOOLEAN
    /\ asleep \in SUBSET Clusters

ServiceInit ==
    /\ object = [c \in Clusters |-> "none"]
    /\ running = [c \in Clusters |-> FALSE]
    /\ stopRequested = [c \in Clusters |-> FALSE]
    /\ worker = [c \in Clusters |-> "none"]
    /\ keysLeft = [c \in Clusters |-> 0]
    /\ client = [c \in Clusters |-> "none"]
    /\ touched = FALSE
    /\ asleep = {}

----------------------------------------------------------------------------
(* The cluster's lock, a std::shared_mutex.  The worker holds it from one  *)
(* action to another only in getAllHealthyNodes; its other critical        *)
(* sections are single actions.                                            *)

\* A wrong form, for the mutation checks: readers queue up behind a writer
\* that waits, as the C++ standard allows.
WorkerMaySharePolitely(c) == client[c] \notin {"wantsExclusive", "exclusive"}

\* The shared_mutex of libstdc++ is a pthread_rwlock_t of the default kind,
\* which lets a reader in although a writer waits.
WorkerMayShare(c) == client[c] # "exclusive"

WorkerMayExclude(c) == client[c] \notin {"shared", "exclusive"}

ClientMayShare(c) == TRUE

ClientMayExclude(c) == worker[c] \notin {"nodesHeld", "countedHeld"}

----------------------------------------------------------------------------
(* repairLoop.                                                             *)

Move(c, place) ==
    /\ worker' = [worker EXCEPT ![c] = place]
    /\ UNCHANGED <<object, running, stopRequested, client>>

\* A step of a pass that uses the cluster's members, destroyed or not.
Use(c, from, place) ==
    /\ worker[c] = from
    /\ Move(c, place)
    /\ touched' = (touched \/ object[c] = "dead")
    /\ UNCHANGED asleep

\* A wrong form of the loop, for the mutation checks: do ... while.
CheckAfterPass(c) ==
    /\ worker[c] = "check"
    /\ Move(c, "nodes")
    /\ UNCHANGED <<keysLeft, touched, asleep>>

\* while (!stopRequested)
Check(c) ==
    /\ worker[c] = "check"
    /\ Move(c, IF stopRequested[c] THEN "ended" ELSE "nodes")
    /\ UNCHANGED <<keysLeft, touched, asleep>>

\* getAllHealthyNodes locks, and getAllNodes, called by it, locks again.
LockNodes(c) ==
    /\ WorkerMayShare(c)
    /\ \/ Use(c, "nodes", "nodesHeld")
       \/ Use(c, "counted", "countedHeld")
    /\ UNCHANGED keysLeft

ReadNodes(c) ==
    /\ WorkerMayShare(c)
    /\ \/ Use(c, "nodesHeld", "collect")
       \/ Use(c, "countedHeld", "keys")
       \/ Use(c, "countedHeld", "repair")
    /\ UNCHANGED keysLeft

\* getFailedNodes, and getKeysOnNode of each node.
CollectKeys(c) ==
    /\ WorkerMayShare(c)
    /\ Use(c, "collect", "keys")
    /\ \E n \in 0 .. MaxKeys : keysLeft' = [keysLeft EXCEPT ![c] = n]

\* A wrong form, for the mutation checks: the loop over the keys goes on
\* behind the last one.
CountCopiesAnyway(c) ==
    /\ WorkerMayShare(c)
    /\ Use(c, "keys", "counted")
    /\ keysLeft' = [keysLeft EXCEPT ![c] = @ - 1]

\* getActualReplicationCount of the next key.
CountCopies(c) ==
    /\ keysLeft[c] > 0
    /\ WorkerMayShare(c)
    /\ Use(c, "keys", "counted")
    /\ keysLeft' = [keysLeft EXCEPT ![c] = @ - 1]

RepairOne(c) ==
    /\ WorkerMayExclude(c)
    /\ Use(c, "repair", "keys")
    /\ UNCHANGED keysLeft

\* The end of performRepair; stopMutex is locked.
EndPass(c) ==
    /\ worker[c] = "keys" /\ keysLeft[c] = 0
    /\ Move(c, "predicate")
    /\ UNCHANGED <<keysLeft, touched, asleep>>

\* wait_for asks its predicate before it blocks and after each wake-up.
AskPredicate(c) ==
    /\ worker[c] = "predicate"
    /\ Move(c, IF stopRequested[c] THEN "check" ELSE "block")
    /\ UNCHANGED <<keysLeft, touched, asleep>>

\* Only now can a notification reach the worker.
Block(c) ==
    /\ worker[c] = "block"
    /\ Move(c, "waiting")
    /\ UNCHANGED <<keysLeft, touched, asleep>>

WakeSpuriously(c) ==
    /\ worker[c] = "waiting"
    /\ Move(c, "predicate")
    /\ UNCHANGED <<keysLeft, touched, asleep>>

\* A wrong form of wait_for, for the mutation checks: wait.
NeverTimesOut(c) == FALSE /\ UNCHANGED serviceVars

\* The repair interval is over: wait_for returns, and the loop goes on.
TimeOut(c) ==
    /\ worker[c] = "waiting"
    /\ Move(c, "check")
    /\ asleep' = IF stopRequested[c] THEN asleep ELSE asleep \ {c}
    /\ UNCHANGED <<keysLeft, touched>>

\* What the worker does by itself when it can.
GoAhead(c) ==
    \/ Check(c) \/ LockNodes(c) \/ ReadNodes(c) \/ CollectKeys(c)
    \/ CountCopies(c) \/ RepairOne(c) \/ EndPass(c)
    \/ AskPredicate(c) \/ Block(c)

Work(c) == GoAhead(c) \/ WakeSpuriously(c) \/ TimeOut(c)

----------------------------------------------------------------------------
(* What the thread that owns the cluster does.                             *)

\* The constructor, with start().
Construct(c) ==
    /\ object[c] = "none"
    /\ object' = [object EXCEPT ![c] = "alive"]
    /\ running' = [running EXCEPT ![c] = TRUE]
    /\ stopRequested' = [stopRequested EXCEPT ![c] = FALSE]
    /\ worker' = [worker EXCEPT ![c] = "check"]
    /\ UNCHANGED <<keysLeft, client, touched, asleep>>

\* The destructor destroys the members in the reverse order of their
\* declaration, and antiEntropyService is declared first.
DestroyMembers(c) ==
    /\ object[c] = "alive"
    /\ object' = [object EXCEPT ![c] = "dead"]
    /\ asleep' = IF worker[c] \in Sleeping THEN asleep \cup {c} ELSE asleep
    /\ UNCHANGED <<running, stopRequested, worker, keysLeft, client, touched>>

\* Then ~AntiEntropyService calls stop(), which only one caller gets past.
ClearRunning(c) ==
    /\ running[c]
    /\ running' = [running EXCEPT ![c] = FALSE]
    /\ UNCHANGED <<object, stopRequested, worker, keysLeft, client, touched, asleep>>

RequestStop(c) ==
    /\ stopRequested' = [stopRequested EXCEPT ![c] = TRUE]
    /\ UNCHANGED <<object, running, worker, keysLeft, client, touched, asleep>>

\* notify_one, without stopMutex: it is lost unless the worker waits already.
Notify(c) ==
    /\ worker' = [worker EXCEPT ![c] = IF @ = "waiting" THEN "predicate" ELSE @]
    /\ UNCHANGED <<object, running, stopRequested, keysLeft, client, touched, asleep>>

\* join, and the end of the service.
Join(c) ==
    /\ worker[c] = "ended"
    /\ worker' = [worker EXCEPT ![c] = "none"]
    /\ object' = [object EXCEPT ![c] = "none"]
    /\ keysLeft' = [keysLeft EXCEPT ![c] = 0]
    /\ asleep' = asleep \ {c}
    /\ UNCHANGED <<running, stopRequested, client, touched>>
=============================================================================
