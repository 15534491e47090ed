------------------------------ MODULE Session -------------------------------
(***************************************************************************)
(* The program (main.cpp): a session at the prompt, with a cluster whose   *)
(* repair service runs beside it.  CommandParser::parse lets a line        *)
(* through or not, and main dispatches it to the local cache or to the     *)
(* cluster.  CLUSTER makes a new cluster, and destroys the one before.     *)
(*                                                                         *)
(* What the commands do to keys is the subject of Cache and of             *)
(* DistributedCache; here they take and release the cluster's lock.  A     *)
(* line that main answers with an error, a number that does not parse      *)
(* included, changes nothing, and is no step.                              *)
(*                                                                         *)
(*   main           where the main thread is                               *)
(*   isDistributed  isDistributed                                          *)
(*   current        distributedCache                                       *)
(*   command        the command being executed: its operation and the      *)
(*                  number of its arguments                                *)
(*   doomed         the cluster being destroyed                            *)
(***************************************************************************)
EXTENDS RepairService

CONSTANTS NoCluster,   \* nullptr
          NoCommand

ASSUME NoClusterAssumption == NoCluster \notin Clusters

VARIABLES main, isDistributed, current, command, doomed

mainVars == <<main, isDistributed, current, command, doomed>>
svars == <<serviceVars, mainVars>>

----------------------------------------------------------------------------
(* Commands.                                                               *)

\* A wrong form of validate, for the mutation checks.
ArityLax ==
    [CONFIG |-> {2}, SET |-> 1 .. 3, GET |-> {1}, DEL |-> {1}, EXISTS |-> {1},
     CLEAR |-> {0}, SIZE |-> {0}, CLEANUP |-> {0}, HELP |-> {0}, STATUS |-> {0},
     EXIT |-> {0}, ADDNODE |-> {1}, REMOVENODE |-> {1}, FINDNODE |-> {1},
     REPLICAS |-> 1 .. 2, NODES |-> {0}, CLUSTERINFO |-> {0}, CLUSTER |-> {0},
     FAILNODE |-> {1}, FAILEDNODES |-> {0}]

\* validate: the numbers of arguments that each operation may have.
Arity ==
    [CONFIG |-> {2}, SET |-> 2 .. 3, GET |-> {1}, DEL |-> {1}, EXISTS |-> {1},
     CLEAR |-> {0}, SIZE |-> {0}, CLEANUP |-> {0}, HELP |-> {0}, STATUS |-> {0},
     EXIT |-> {0}, ADDNODE |-> {1}, REMOVENODE |-> {1}, FINDNODE |-> {1},
     REPLICAS |-> 1 .. 2, NODES |-> {0}, CLUSTERINFO |-> {0}, CLUSTER |-> {0},
     FAILNODE |-> {1}, FAILEDNODES |-> {0}]

\* The operations that main has a handler for, in each mode, with the number
\* of arguments that the handler reads without asking whether they are there.
LocalReads ==
    [SET |-> 2, GET |-> 1, DEL |-> 1, EXISTS |-> 1, SIZE |-> 0, CLEANUP |-> 0,
     CLEAR |-> 0, STATUS |-> 0, CONFIG |-> 0, HELP |-> 0]

ClusterReads ==
    [SET |-> 2, GET |-> 1, DEL |-> 1, EXISTS |-> 1, SIZE |-> 0, ADDNODE |-> 1,
     REMOVENODE |-> 1, FAILNODE |-> 1, FAILEDNODES |-> 0, FINDNODE |-> 1,
     REPLICAS |-> 1, NODES |-> 0, CLUSTERINFO |-> 0, CLEAR |-> 0, HELP |-> 0]

Reads == IF isDistributed THEN ClusterReads ELSE LocalReads

\* How an operation locks the cluster.
Exclusive == {"SET", "DEL", "ADDNODE", "REMOVENODE", "FAILNODE", "CLEAR"}
Shared    == {"GET", "EXISTS", "SIZE", "FAILEDNODES", "FINDNODE", "REPLICAS",
              "NODES", "CLUSTERINFO"}

Commands == {[op |-> o, args |-> n] : o \in DOMAIN Arity, n \in 0 .. 3}

----------------------------------------------------------------------------
Destroying == {"members", "running", "flag", "notify", "join"}

STypeOK ==
    /\ ServiceTypeOK
    /\ main \in {"prompt", "run", "lock", "ended", "crashed"} \cup Destroying
    /\ isDistributed \in BOOLEAN
    /\ current \in Clusters \cup {NoCluster}
    /\ command \in Commands \cup {NoCommand}
    /\ doomed \in Clusters \cup {NoCluster}

SInit ==
    /\ ServiceInit
    /\ main = "prompt"
    /\ isDistributed = FALSE
    /\ current = NoCluster
    /\ command = NoCommand
    /\ doomed = NoCluster

\* A line that parses, for which main has a handler.
ReadCommand(op, n) ==
    /\ main = "prompt"
    /\ n \in Arity[op] /\ op \in DOMAIN Reads
    /\ main' = "run"
    /\ command' = [op |-> op, args |-> n]
    /\ UNCHANGED <<serviceVars, isDistributed, current, doomed>>

\* A wrong form of CLUSTER, for the mutation checks: the pointer is lost.
SwitchAndForget(c) ==
    /\ main = "prompt"
    /\ Construct(c)
    /\ isDistributed' = TRUE
    /\ current' = c
    /\ UNCHANGED <<main, command, doomed>>

\* CLUSTER: the new cluster is there before the old one goes.
SwitchToCluster(c) ==
    /\ main = "prompt"
    /\ Construct(c)
    /\ isDistributed' = TRUE
    /\ current' = c
    /\ doomed' = current
    /\ main' = IF current = NoCluster THEN "prompt" ELSE "members"
    /\ UNCHANGED command

\* EXIT leaves the loop, and main destroys what it has.
Exit ==
    /\ main = "prompt"
    /\ main' = IF current = NoCluster THEN "ended" ELSE "members"
    /\ current' = NoCluster
    /\ doomed' = current
    /\ UNCHANGED <<serviceVars, isDistributed, command>>

----------------------------------------------------------------------------
(* Handlers.                                                               *)

Answer ==
    /\ main' = "prompt"
    /\ command' = NoCommand
    /\ UNCHANGED <<isDistributed, current, doomed>>

\* A command of the local cache, or one that asks nothing of the cluster.
RunLocally ==
    /\ main = "run"
    /\ ~isDistributed \/ command.op \notin Exclusive \cup Shared
    /\ Answer
    /\ UNCHANGED serviceVars

SetClient(state) ==
    /\ client' = [client EXCEPT ![current] = state]
    /\ UNCHANGED <<object, running, stopRequested, worker, keysLeft, touched,
                   asleep>>

\* A command of the cluster asks for its lock.  NODES does so anew for every
\* node that it shows; here it does so once.
RunOnCluster ==
    /\ main = "run" /\ isDistributed
    /\ \/ command.op \in Exclusive /\ SetClient("wantsExclusive")
       \/ command.op \in Shared /\ SetClient("wantsShared")
    /\ main' = "lock"
    /\ UNCHANGED <<isDistributed, current, command, doomed>>

Acquire ==
    /\ main = "lock"
    /\ \/ /\ client[current] = "wantsExclusive" /\ ClientMayExclude(current)
          /\ SetClient("exclusive")
       \/ /\ client[current] = "wantsShared" /\ ClientMayShare(current)
          /\ SetClient("shared")
    /\ UNCHANGED mainVars

Release ==
    /\ main = "lock"
    /\ client[current] \in {"shared", "exclusive"}
    /\ SetClient("none")
    /\ Answer

----------------------------------------------------------------------------
(* The end of a cluster.                                                   *)

GoOn(from, to) ==
    /\ main = from /\ main' = to
    /\ UNCHANGED <<isDistributed, current, command, doomed>>

EndMembers == GoOn("members", "running") /\ DestroyMembers(doomed)
EndRunning == GoOn("running", "flag") /\ ClearRunning(doomed)
EndFlag    == GoOn("flag", "notify") /\ RequestStop(doomed)
EndNotify  == GoOn("notify", "join") /\ Notify(doomed)

\* After EXIT there is no cluster left, and the program ends.
EndJoin ==
    /\ main = "join"
    /\ Join(doomed)
    /\ doomed' = NoCluster
    /\ main' = IF current = NoCluster THEN "ended" ELSE "prompt"
    /\ UNCHANGED <<isDistributed, current, command>>

----------------------------------------------------------------------------
\* Using a destroyed member may just as well be the end.
Crash ==
    /\ \E c \in Clusters : object[c] = "dead" /\ worker[c] \in Passing
    /\ main' = "crashed"
    /\ touched' = TRUE
    /\ UNCHANGED <<object, running, stopRequested, worker, keysLeft, client,
                   asleep, isDistributed, current, command, doomed>>

\* What the main thread does without waiting for anybody.
Proceed ==
    \/ RunLocally \/ RunOnCluster \/ Release
    \/ EndMembers \/ EndRunning \/ EndFlag \/ EndNotify \/ EndJoin

Worker(c) == Work(c) /\ UNCHANGED mainVars

SNext ==
    /\ main # "crashed"
    /\ \/ \E op \in DOMAIN Arity, n \in 0 .. 3 : ReadCommand(op, n)
       \/ \E c \in Clusters : SwitchToCluster(c)
       \/ Exit
       \/ Proceed
       \/ Acquire
       \/ \E c \in Clusters : Worker(c)
       \/ Crash

\* Both threads run as long as they can.  A thread that waits for the lock
\* gets it if it is free again and again: the lock goes to a waiting writer
\* when the last reader leaves, and back to the readers after that.  The end
\* of the repair interval does not move when the worker wakes up spuriously,
\* which it may never do.  Nobody needs to type anything.
SSpec ==
    /\ SInit /\ [][SNext]_svars
    /\ WF_svars(main # "crashed" /\ Proceed)
    /\ SF_svars(main # "crashed" /\ Acquire)
    /\ \A c \in Clusters :
          /\ SF_svars(main # "crashed" /\ GoAhead(c) /\ UNCHANGED mainVars)
          /\ SF_svars(main # "crashed" /\ TimeOut(c) /\ UNCHANGED mainVars)

----------------------------------------------------------------------------
(* Properties.                                                             *)

\* A repair thread lives exactly as long as its cluster, from the constructor
\* to the end of the destructor; at the prompt there is one for the current
\* cluster and no other, and none when the program has ended
\* (main.cpp:59-85, anti_entropy.cpp:10-38).
NoStrayWorkers ==
    /\ \A c \in Clusters : worker[c] = "none" <=> object[c] = "none"
    /\ main \in {"prompt", "run", "lock"} =>
          /\ isDistributed <=> current # NoCluster
          /\ \A c \in Clusters : object[c] = IF c = current THEN "alive" ELSE "none"
    /\ main = "ended" => \A c \in Clusters : worker[c] = "none"

\* No handler reads an argument that the line does not have: the table of the
\* parser and the handlers of both modes agree (command_parser.cpp:43-120,
\* main.cpp:87-340).
HandlersHaveTheirArguments ==
    main = "run" => command.args >= Reads[command.op]

\* A worker that sleeps when the destruction of its cluster begins does not
\* use the cluster again, unless the repair interval ends between the
\* destruction of the members and the request to stop: a wake-up, spurious or
\* not, leads back to sleep or out of the loop.  A worker in a pass goes on
\* with members that are gone (distributed_cache.h:187, anti_entropy.cpp:25-61).
SleepersStayAway == \A c \in asleep : worker[c] \notin Passing

\* Every command comes to an end and gives the prompt back, and EXIT ends the
\* program, while the worker passes over the cluster: whichever of the two
\* holds the lock lets go of it, and joining the worker takes one repair
\* interval at most, even if its notification was lost
\* (anti_entropy.cpp:25-60, distributed_cache.cpp:364-366).
CommandsReturn ==
    main \notin {"prompt", "ended", "crashed"}
        ~> main \in {"prompt", "ended"} \/ touched

\* The service never stops passing over a cluster that lives, whatever the
\* client does to it ("Starts automatically", distributed_cache.cpp:17).
ServiceKeepsPassing ==
    \A c \in Clusters :
        object[c] = "alive" ~> worker[c] = "nodes" \/ object[c] # "alive" \/ touched
=============================================================================
