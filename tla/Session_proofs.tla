--------------------------- MODULE Session_proofs ---------------------------
(***************************************************************************)
(* Proofs about Session, for any number of clusters and of keys: what      *)
(* lives when, and who may still use a cluster that is being destroyed.    *)
(***************************************************************************)
EXTENDS Session, TLAPS

\* Between commands and within them the only cluster is the current one.  In
\* the destructor there is the doomed one as well, first whole and then
\* without its members; it is never the current one.
Lives(c) ==
    CASE main \in Destroying /\ c = doomed -> IF main = "members" THEN "alive" ELSE "dead"
      [] c = current -> "alive"
      [] OTHER -> "none"

\* Who owns what, in the course of main.
Owners ==
    /\ main \in Destroying => doomed \in Clusters \ {current}
    /\ current # NoCluster => isDistributed
    /\ isDistributed
         => current # NoCluster \/ main \in Destroying \cup {"ended", "crashed"}
    /\ main = "ended" => current = NoCluster

Objects == main # "crashed" => \A c \in Clusters : object[c] = Lives(c)

Threads == \A c \in Clusters : worker[c] = "none" <=> object[c] = "none"

\* Where a worker may be that slept when its cluster was destroyed: it may
\* check the flag only once that is set.
Sleepers ==
    \A c \in asleep :
        /\ object[c] = "dead"
        /\ worker[c] \in Sleeping \cup {"check", "ended"}
        /\ worker[c] = "check" => stopRequested[c]

\* A command that runs was let through by the parser, and has a handler.
Dispatched ==
    main = "run" => /\ command \in Commands
                    /\ command.op \in DOMAIN Reads
                    /\ command.args \in Arity[command.op]

\* The inductive invariant.
Inv == STypeOK /\ Owners /\ Objects /\ Threads /\ Sleepers /\ Dispatched

----------------------------------------------------------------------------
(* Types.                                                                  *)

\* A step of a worker moves it from one place of its loop to another, and
\* leaves everything that is not the worker's alone.
LEMMA WorkMoves ==
    ASSUME STypeOK, NEW c \in Clusters, Work(c)
    PROVE  /\ worker[c] \notin {"none", "ended"}
           /\ \E place \in Places \ {"none"} : worker' = [worker EXCEPT ![c] = place]
           /\ keysLeft' \in [Clusters -> 0 .. MaxKeys]
           /\ touched' \in BOOLEAN
           /\ asleep' \in {asleep, asleep \ {c}}
           /\ UNCHANGED <<object, running, stopRequested, client>>
<1> USE DEF STypeOK, ServiceTypeOK, Places, Passing, Sleeping, Move, Use
<1>1. CASE Check(c)
  BY <1>1 DEF Check
<1>2. CASE LockNodes(c)
  BY <1>2 DEF LockNodes
<1>3. CASE ReadNodes(c)
  BY <1>3 DEF ReadNodes
<1>4. CASE CollectKeys(c)
  BY <1>4 DEF CollectKeys
<1>5. CASE CountCopies(c)
  <2>1. keysLeft[c] \in 1 .. MaxKeys
    BY <1>5, ServiceAssumption DEF CountCopies
  <2>2. keysLeft[c] - 1 \in 0 .. MaxKeys
    BY <2>1, ServiceAssumption
  <2>3. keysLeft' = [keysLeft EXCEPT ![c] = keysLeft[c] - 1]
    BY <1>5 DEF CountCopies
  <2>4. keysLeft' \in [Clusters -> 0 .. MaxKeys]
    BY <2>2, <2>3
  <2> QED
    BY <1>5, <2>4 DEF CountCopies
<1>6. CASE RepairOne(c)
  BY <1>6 DEF RepairOne
<1>7. CASE EndPass(c)
  BY <1>7 DEF EndPass
<1>8. CASE AskPredicate(c)
  BY <1>8 DEF AskPredicate
<1>9. CASE Block(c)
  BY <1>9 DEF Block
<1>10. CASE WakeSpuriously(c)
  BY <1>10 DEF WakeSpuriously
<1>11. CASE TimeOut(c)
  BY <1>11 DEF TimeOut
<1> QED
  BY <1>1, <1>2, <1>3, <1>4, <1>5, <1>6, <1>7, <1>8, <1>9, <1>10, <1>11
  DEF Work, GoAhead

\* Every step keeps the types.
LEMMA TypeStep == Inv /\ [SNext]_svars => STypeOK'
<1> SUFFICES ASSUME Inv, [SNext]_svars PROVE STypeOK'
  OBVIOUS
<1>0. STypeOK /\ (main \in Destroying => doomed \in Clusters)
  BY DEF Inv, Owners
<1> USE <1>0 DEF STypeOK, mainVars
<1>1. ASSUME NEW op \in DOMAIN Arity, NEW n \in 0 .. 3, ReadCommand(op, n)
      PROVE  STypeOK'
  <2>1. command' \in Commands
    BY <1>1 DEF ReadCommand, Commands
  <2> QED
    BY <1>1, <2>1 DEF ReadCommand, ServiceTypeOK, serviceVars
<1>2. ASSUME NEW c \in Clusters, SwitchToCluster(c)
      PROVE  STypeOK'
  BY <1>2 DEF SwitchToCluster, Construct, ServiceTypeOK, Places, Destroying
<1>3. CASE Exit
  BY <1>3 DEF Exit, ServiceTypeOK, serviceVars, Destroying
<1>4. CASE RunLocally
  BY <1>4 DEF RunLocally, Answer, ServiceTypeOK, serviceVars
<1>5. CASE RunOnCluster
  BY <1>5 DEF RunOnCluster, SetClient, ServiceTypeOK
<1>6. CASE Release
  BY <1>6 DEF Release, SetClient, Answer, ServiceTypeOK
<1>7. CASE EndMembers
  BY <1>7 DEF EndMembers, GoOn, DestroyMembers, ServiceTypeOK, Destroying
<1>8. CASE EndRunning
  BY <1>8 DEF EndRunning, GoOn, ClearRunning, ServiceTypeOK, Destroying
<1>9. CASE EndFlag
  BY <1>9 DEF EndFlag, GoOn, RequestStop, ServiceTypeOK, Destroying
<1>10. CASE EndNotify
  BY <1>10 DEF EndNotify, GoOn, Notify, ServiceTypeOK, Places, Sleeping, Destroying
<1>11. CASE EndJoin
  <2>1. 0 \in 0 .. MaxKeys
    BY ServiceAssumption
  <2> QED
    BY <1>11, <2>1 DEF EndJoin, GoOn, Join, ServiceTypeOK, Places, Destroying
<1>12. CASE Acquire
  BY <1>12 DEF Acquire, SetClient, ServiceTypeOK
<1>13. ASSUME NEW c \in Clusters, Worker(c)
       PROVE  STypeOK'
  BY <1>13, WorkMoves DEF Worker, ServiceTypeOK
<1>14. CASE Crash
  BY <1>14 DEF Crash, ServiceTypeOK
<1>15. CASE UNCHANGED svars
  BY <1>15 DEF svars, serviceVars, ServiceTypeOK
<1> QED
  BY <1>1, <1>2, <1>3, <1>4, <1>5, <1>6, <1>7, <1>8, <1>9, <1>10, <1>11,
     <1>12, <1>13, <1>14, <1>15
  DEF SNext, Proceed

----------------------------------------------------------------------------
(* The steps.                                                              *)

\* A step of a worker, beside which main does nothing.
LEMMA WorkerStep ==
    ASSUME Inv, main # "crashed", NEW c \in Clusters, Worker(c)
    PROVE  Inv'
<1>1. UNCHANGED <<mainVars, object, stopRequested>> /\ Work(c) /\ STypeOK
  BY WorkMoves DEF Worker, Inv
<1>2. STypeOK'
  BY TypeStep DEF SNext
<1>3. Owners' /\ Objects' /\ Dispatched'
  BY <1>1 DEF Inv, mainVars, Owners, Objects, Lives, Dispatched, Reads
<1>4. Threads'
  BY <1>1, WorkMoves DEF Inv, Threads, STypeOK, ServiceTypeOK
<1>5. Sleepers'
  <2>1. ASSUME NEW d \in asleep', d # c
        PROVE  d \in asleep /\ worker'[d] = worker[d]
    BY <1>1, <2>1, WorkMoves DEF STypeOK, ServiceTypeOK
  <2>2. ASSUME c \in asleep'
        PROVE  /\ worker'[c] \in Sleeping \cup {"check", "ended"}
               /\ worker'[c] = "check" => stopRequested[c]
    <3>1. c \in asleep
      BY <1>1, <2>2, WorkMoves
    <3> QED
      BY <1>1, <2>2, <3>1
      DEF Inv, Sleepers, STypeOK, ServiceTypeOK, Sleeping, Work, GoAhead, Move,
          Use, Check, LockNodes, ReadNodes, CollectKeys, CountCopies, RepairOne,
          EndPass, AskPredicate, Block, WakeSpuriously, TimeOut
  <2>3. asleep' \subseteq asleep
    BY <1>1, WorkMoves
  <2> QED
    BY <1>1, <2>1, <2>2, <2>3 DEF Inv, Sleepers
<1> QED
  BY <1>2, <1>3, <1>4, <1>5 DEF Inv

\* A step of main outside the destructor.
LEMMA PromptStep ==
    ASSUME Inv, main # "crashed",
           \/ \E op \in DOMAIN Arity, n \in 0 .. 3 : ReadCommand(op, n)
           \/ \E c \in Clusters : SwitchToCluster(c)
           \/ Exit \/ RunLocally \/ RunOnCluster \/ Acquire \/ Release
    PROVE  Inv'
<1>1. STypeOK'
  BY TypeStep DEF SNext, Proceed
<1> SUFFICES Owners' /\ Objects' /\ Threads' /\ Sleepers' /\ Dispatched'
  BY <1>1 DEF Inv
<1> USE DEF Inv, Owners, Objects, Lives, Threads, Sleepers, Dispatched, Destroying
<1>2. ASSUME NEW op \in DOMAIN Arity, NEW n \in 0 .. 3, ReadCommand(op, n)
      PROVE  Owners' /\ Objects' /\ Threads' /\ Sleepers' /\ Dispatched'
  <2>1. Owners' /\ Objects' /\ Threads' /\ Sleepers'
    BY <1>2 DEF ReadCommand, serviceVars
  <2>2. Dispatched'
    BY <1>2 DEF ReadCommand, Commands, Reads
  <2> QED
    BY <2>1, <2>2
<1>3. ASSUME NEW c \in Clusters, SwitchToCluster(c)
      PROVE  Owners' /\ Objects' /\ Threads' /\ Sleepers' /\ Dispatched'
  <2>1. /\ object' = [object EXCEPT ![c] = "alive"]
        /\ worker' = [worker EXCEPT ![c] = "check"]
        /\ stopRequested' = [stopRequested EXCEPT ![c] = FALSE]
        /\ object[c] = "none" /\ c # current
        /\ UNCHANGED asleep
    BY <1>3, NoClusterAssumption DEF SwitchToCluster, Construct, STypeOK
  <2>2. Owners'
    BY <1>3, <2>1, NoClusterAssumption DEF SwitchToCluster, STypeOK
  <2>3. Objects'
    BY <1>3, <2>1, NoClusterAssumption DEF SwitchToCluster, STypeOK, ServiceTypeOK
  <2>4. Threads'
    BY <2>1 DEF STypeOK, ServiceTypeOK
  <2>5. Sleepers'
    BY <2>1 DEF STypeOK, ServiceTypeOK
  <2>6. Dispatched'
    BY <1>3 DEF SwitchToCluster
  <2> QED
    BY <2>2, <2>3, <2>4, <2>5, <2>6
<1>4. CASE Exit
  BY <1>4, NoClusterAssumption DEF Exit, serviceVars, STypeOK
<1>5. CASE RunLocally
  BY <1>5 DEF RunLocally, Answer, serviceVars
<1>6. CASE RunOnCluster
  BY <1>6 DEF RunOnCluster, SetClient
<1>7. CASE Acquire
  BY <1>7 DEF Acquire, SetClient, mainVars
<1>8. CASE Release
  BY <1>8 DEF Release, SetClient, Answer
<1> QED
  BY <1>2, <1>3, <1>4, <1>5, <1>6, <1>7, <1>8

\* A step of main in the destructor, or the crash that it may lead to.
LEMMA DestructorStep ==
    ASSUME Inv, main # "crashed",
           EndMembers \/ EndRunning \/ EndFlag \/ EndNotify \/ EndJoin \/ Crash
    PROVE  Inv'
<1>1. STypeOK'
  BY TypeStep DEF SNext, Proceed
<1> SUFFICES Owners' /\ Objects' /\ Threads' /\ Sleepers' /\ Dispatched'
  BY <1>1 DEF Inv
<1> USE DEF Inv, STypeOK, ServiceTypeOK, Owners, Objects, Lives, Threads,
            Sleepers, Dispatched, Destroying, GoOn
<1>2. CASE EndMembers
  <2>1. doomed \in Clusters \ {current} /\ main = "members" /\ main' = "running"
    BY <1>2 DEF EndMembers
  <2>2. /\ object' = [object EXCEPT ![doomed] = "dead"]
        /\ asleep' = IF worker[doomed] \in Sleeping THEN asleep \cup {doomed} ELSE asleep
        /\ object[doomed] = "alive"
        /\ UNCHANGED <<worker, stopRequested, isDistributed, current, command, doomed>>
    BY <1>2 DEF EndMembers, DestroyMembers
  <2>3. Owners' /\ Objects' /\ Threads' /\ Dispatched'
    BY <2>1, <2>2
  <2>4. Sleepers'
    BY <2>1, <2>2 DEF Sleeping
  <2> QED
    BY <2>3, <2>4
<1>3. CASE EndRunning
  BY <1>3 DEF EndRunning, ClearRunning
<1>4. CASE EndFlag
  BY <1>4 DEF EndFlag, RequestStop
<1>5. CASE EndNotify
  <2>1. doomed \in Clusters /\ main = "notify" /\ main' = "join"
    BY <1>5 DEF EndNotify
  <2>2. /\ worker' = [worker EXCEPT ![doomed] = IF @ = "waiting" THEN "predicate" ELSE @]
        /\ UNCHANGED <<object, stopRequested, asleep, isDistributed, current, command, doomed>>
    BY <1>5 DEF EndNotify, Notify
  <2> QED
    BY <2>1, <2>2 DEF Sleeping
<1>6. CASE EndJoin
  <2>1. /\ doomed \in Clusters \ {current} /\ main = "join"
        /\ main' = IF current = NoCluster THEN "ended" ELSE "prompt"
        /\ UNCHANGED <<isDistributed, current, command>>
    BY <1>6 DEF EndJoin
  <2>2. /\ worker' = [worker EXCEPT ![doomed] = "none"]
        /\ object' = [object EXCEPT ![doomed] = "none"]
        /\ asleep' = asleep \ {doomed}
        /\ UNCHANGED stopRequested
    BY <1>6 DEF EndJoin, Join
  <2>3. Owners' /\ Threads' /\ Sleepers' /\ Dispatched'
    BY <2>1, <2>2
  <2>4. Objects'
    BY <2>1, <2>2, NoClusterAssumption
  <2> QED
    BY <2>3, <2>4
<1>7. CASE Crash
  BY <1>7 DEF Crash
<1> QED
  BY <1>2, <1>3, <1>4, <1>5, <1>6, <1>7

----------------------------------------------------------------------------
(* Theorems.                                                               *)

\* Every state of the program has the inductive invariant.
THEOREM InvTheorem == SSpec => []Inv
<1>1. SInit => Inv
  <2> SUFFICES ASSUME SInit PROVE Inv
    OBVIOUS
  <2>1. 0 \in 0 .. MaxKeys
    BY ServiceAssumption
  <2>2. STypeOK
    BY <2>1 DEF SInit, ServiceInit, STypeOK, ServiceTypeOK, Places
  <2>3. Owners /\ Objects /\ Threads /\ Sleepers /\ Dispatched
    BY NoClusterAssumption
    DEF SInit, ServiceInit, Owners, Objects, Lives, Threads, Sleepers,
        Dispatched, Destroying
  <2> QED
    BY <2>2, <2>3 DEF Inv
<1>2. Inv /\ [SNext]_svars => Inv'
  <2>1. CASE SNext
    BY <2>1, WorkerStep, PromptStep, DestructorStep DEF SNext, Proceed
  <2>2. CASE UNCHANGED svars
    <3>1. ASSUME Inv PROVE STypeOK'
      BY <2>2, <3>1, TypeStep
    <3> QED
      BY <2>2, <3>1
      DEF svars, serviceVars, mainVars, Inv, Owners, Objects, Lives, Threads,
          Sleepers, Dispatched, Reads
  <2> QED
    BY <2>1, <2>2
<1> QED
  BY <1>1, <1>2, PTL DEF SSpec

\* Main, the service and its threads stay within their types, however many
\* clusters a session makes.
THEOREM SessionTypeTheorem == SSpec => []STypeOK
<1>1. Inv => STypeOK
  BY DEF Inv
<1> QED
  BY <1>1, InvTheorem, PTL

\* No repair thread outlives its cluster, and no cluster is left behind by
\* the one that takes its place.
THEOREM NoStrayWorkersTheorem == SSpec => []NoStrayWorkers
<1>1. Inv => NoStrayWorkers
  <2> SUFFICES ASSUME Inv PROVE NoStrayWorkers
    OBVIOUS
  <2>1. main \in {"prompt", "run", "lock"} =>
           /\ isDistributed <=> current # NoCluster
           /\ \A c \in Clusters : object[c] = IF c = current THEN "alive" ELSE "none"
    BY DEF Inv, Owners, Objects, Lives, Destroying
  <2>2. main = "ended" => \A c \in Clusters : worker[c] = "none"
    BY NoClusterAssumption DEF Inv, Owners, Objects, Lives, Destroying, Threads
  <2> QED
    BY <2>1, <2>2 DEF NoStrayWorkers, Inv, Threads
<1> QED
  BY <1>1, InvTheorem, PTL

\* A worker that sleeps through the beginning of the destruction stays away
\* from the members that are gone.
THEOREM SleepersTheorem == SSpec => []SleepersStayAway
<1>1. Inv => SleepersStayAway
  BY DEF Inv, Sleepers, SleepersStayAway, Sleeping, Passing
<1> QED
  BY <1>1, InvTheorem, PTL

\* The parser lets no command through that is too short for its handler.
LEMMA TablesAgree ==
    /\ \A op \in DOMAIN LocalReads : \A n \in Arity[op] : n >= LocalReads[op]
    /\ \A op \in DOMAIN ClusterReads : \A n \in Arity[op] : n >= ClusterReads[op]
BY DEF LocalReads, ClusterReads, Arity

\* No handler reads an argument that its command does not have.
THEOREM HandlersTheorem == SSpec => []HandlersHaveTheirArguments
<1>1. Inv => HandlersHaveTheirArguments
  BY TablesAgree DEF Inv, Dispatched, HandlersHaveTheirArguments, Reads
<1> QED
  BY <1>1, InvTheorem, PTL
=============================================================================
