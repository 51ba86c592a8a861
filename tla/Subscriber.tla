------------------------------ MODULE Subscriber ------------------------------
(***************************************************************************)
(* Subscriber::run of the replicated IceStorm demo                         *)
(* (src/cpp/demo/IceStorm/replicated/Subscriber.cpp), run by several       *)
(* subscriber processes at once against the IceStorm replicas of one       *)
(* IceGrid replica group.                                                   *)
(*                                                                         *)
(* Each replica is an IceStorm service with its own topics: that is why    *)
(* run() retrieves or creates the topic on every manager replica, then     *)
(* subscribes to the topic at every replica.  A remote call is one atomic  *)
(* step; a call to a replica that is down throws an Ice local exception,   *)
(* which leaves run() and makes Ice::Application::main return failure.     *)
(*                                                                         *)
(* Before shutdownOnInterrupt (line 110) the Application's default policy  *)
(* destroys the communicator on an interrupt, so every later remote call   *)
(* of that process throws; after it, an interrupt only shuts the           *)
(* communicator down, which ends waitForShutdown and leaves outgoing calls *)
(* working.                                                                *)
(***************************************************************************)
EXTENDS Naturals, Sequences, FiniteSets, SequencesExt

CONSTANTS
    Sub,         \* the subscriber processes
    Managers,    \* findAllReplicas: the replicas, in the order returned
    MaxCrashes   \* bound on the replicas that go down during a behaviour

\* At least one TopicManager is registered, and each replica appears once.
ASSUME Managers # <<>> /\ IsInjective(Managers)

Replica == ToSet(Managers)

VARIABLES
    exists,      \* exists[r]: replica r's IceStorm has topic topicName
    subs,        \* subs[r]: the processes subscribed to the topic at r
    up,          \* the replicas that answer calls
    pc,          \* pc[s]: where process s is in run()
    idx,         \* idx[s]: the position of iterator p in the current loop
    interrupted, \* interrupted[s]: "no", or what the interrupt of process s
                 \*   did to its communicator: "destroyed" or "shutdown"
    status       \* status[s]: "running", or the exit status of run()

vars == <<exists, subs, up, pc, idx, interrupted, status>>

\* A publisher or an earlier run may already have created the topic.
Init ==
    /\ exists \in [Replica -> BOOLEAN]
    /\ subs = [r \in Replica |-> {}]
    /\ up = Replica
    /\ pc = [s \in Sub |-> "manager"]
    /\ idx = [s \in Sub |-> 1]
    /\ interrupted = [s \in Sub |-> "no"]
    /\ status = [s \in Sub |-> "running"]

-----------------------------------------------------------------------------
(* Pieces of the steps.                                                    *)

\* Mutant: any interrupt makes the process's calls throw.
CallFailsAnyInterrupt(s, r) == r \notin up \/ interrupted[s] # "no"

\* A call of s to r throws: r is down, or the communicator of s has been
\* destroyed by an interrupt.  A communicator that is only shut down still
\* sends requests.
CallFails(s, r) == r \notin up \/ interrupted[s] = "destroyed"

\* run() returns, or an exception leaves it: the process exits.
Exit(s, st) ==
    /\ pc' = [pc EXCEPT ![s] = "done"]
    /\ status' = [status EXCEPT ![s] = st]

\* Mutant: the manager loop forgets ++p.
NextManagerStuck(s) == idx' = idx

\* ++p in the manager loop.
NextManager(s) == idx' = [idx EXCEPT ![s] = @ + 1]

\* Mutant: the manager loop stops before the last manager.
ManagersDoneEarly(s) == idx[s] >= Len(Managers)

\* p == managers.end()
ManagersDone(s) == idx[s] > Len(Managers)

-----------------------------------------------------------------------------
(* The steps of process s.                                                 *)

\* checkedCast(*p), then manager->retrieve(topicName) (lines 82-88).
Retrieve(s) ==
    /\ pc[s] = "manager"
    /\ ~ManagersDone(s)
    /\ LET r == Managers[idx[s]] IN
       \/ /\ CallFails(s, r)
          /\ Exit(s, "failure")
          /\ UNCHANGED idx
       \/ /\ ~CallFails(s, r) /\ exists[r]
          /\ NextManager(s)
          /\ UNCHANGED <<pc, status>>
       \/ /\ ~CallFails(s, r) /\ ~exists[r]
          /\ pc' = [pc EXCEPT ![s] = "create"]
          /\ UNCHANGED <<idx, status>>
    /\ UNCHANGED <<exists, subs, up, interrupted>>

\* After NoSuchTopic: manager->create(topicName) (lines 88-99).  The topic
\* created meanwhile by another process gives TopicExists, and run()
\* returns EXIT_FAILURE.
Create(s) ==
    /\ pc[s] = "create"
    /\ LET r == Managers[idx[s]] IN
       \/ /\ CallFails(s, r)
          /\ Exit(s, "failure")
          /\ UNCHANGED <<exists, idx>>
       \/ /\ ~CallFails(s, r) /\ exists[r]
          /\ Exit(s, "failure")
          /\ UNCHANGED <<exists, idx>>
       \/ /\ ~CallFails(s, r) /\ ~exists[r]
          /\ exists' = [exists EXCEPT ![r] = TRUE]
          /\ NextManager(s)
          /\ pc' = [pc EXCEPT ![s] = "manager"]
          /\ UNCHANGED status
    /\ UNCHANGED <<subs, up, interrupted>>

\* The manager loop ends; query->findAllReplicas(topic) (line 102).
FindTopics(s) ==
    /\ pc[s] = "manager"
    /\ ManagersDone(s)
    /\ IF interrupted[s] = "destroyed"
       THEN Exit(s, "failure") /\ UNCHANGED idx
       ELSE /\ pc' = [pc EXCEPT ![s] = "subscribe"]
            /\ idx' = [idx EXCEPT ![s] = 1]
            /\ UNCHANGED status
    /\ UNCHANGED <<exists, subs, up, interrupted>>

\* topic->subscribe(qos, clock) at the next replica (lines 103-107).
Subscribe(s) ==
    /\ pc[s] = "subscribe"
    /\ idx[s] <= Len(Managers)
    /\ LET r == Managers[idx[s]] IN
       IF CallFails(s, r)
       THEN Exit(s, "failure") /\ UNCHANGED <<subs, idx>>
       ELSE /\ subs' = [subs EXCEPT ![r] = @ \cup {s}]
            /\ idx' = [idx EXCEPT ![s] = @ + 1]
            /\ UNCHANGED <<pc, status>>
    /\ UNCHANGED <<exists, up, interrupted>>

\* adapter->activate(); shutdownOnInterrupt() (lines 109-110).
Activate(s) ==
    /\ pc[s] = "subscribe"
    /\ idx[s] > Len(Managers)
    /\ IF interrupted[s] = "destroyed"
       THEN Exit(s, "failure")
       ELSE pc' = [pc EXCEPT ![s] = "wait"] /\ UNCHANGED status
    /\ UNCHANGED <<exists, subs, up, idx, interrupted>>

\* waitForShutdown() returns after the interrupt (line 111); the
\* unsubscribe loop starts at topics.begin() (line 116).
WakeUp(s) ==
    /\ pc[s] = "wait"
    /\ interrupted[s] = "shutdown"
    /\ pc' = [pc EXCEPT ![s] = "unsubscribe"]
    /\ idx' = [idx EXCEPT ![s] = 1]
    /\ UNCHANGED <<exists, subs, up, interrupted, status>>

\* topic->unsubscribe(clock) at the next replica (lines 116-120).
Unsubscribe(s) ==
    /\ pc[s] = "unsubscribe"
    /\ idx[s] <= Len(Managers)
    /\ LET r == Managers[idx[s]] IN
       IF CallFails(s, r)
       THEN Exit(s, "failure") /\ UNCHANGED <<subs, idx>>
       ELSE /\ subs' = [subs EXCEPT ![r] = @ \ {s}]
            /\ idx' = [idx EXCEPT ![s] = @ + 1]
            /\ UNCHANGED <<pc, status>>
    /\ UNCHANGED <<exists, up, interrupted>>

\* return EXIT_SUCCESS (line 122).
Finish(s) ==
    /\ pc[s] = "unsubscribe"
    /\ idx[s] > Len(Managers)
    /\ Exit(s, "success")
    /\ UNCHANGED <<exists, subs, up, idx, interrupted>>

\* The user interrupts process s (Ctrl-C).  Until shutdownOnInterrupt
\* (line 110) Ice::Application destroys the communicator; after it, the
\* handler only shuts the communicator down.
Interrupt(s) ==
    /\ pc[s] # "done"
    /\ interrupted[s] = "no"
    /\ interrupted' = [interrupted EXCEPT ![s] =
                          IF pc[s] \in {"wait", "unsubscribe"} THEN "shutdown"
                          ELSE "destroyed"]
    /\ UNCHANGED <<exists, subs, up, pc, idx, status>>

\* Replica r stops answering.
Crash(r) ==
    /\ r \in up
    /\ Cardinality(Replica \ up) < MaxCrashes
    /\ up' = up \ {r}
    /\ UNCHANGED <<exists, subs, pc, idx, interrupted, status>>

\* The steps run() takes by itself.
Step(s) ==
    \/ Retrieve(s) \/ Create(s) \/ FindTopics(s) \/ Subscribe(s)
    \/ Activate(s) \/ WakeUp(s) \/ Unsubscribe(s) \/ Finish(s)

Next ==
    \/ \E s \in Sub : Step(s) \/ Interrupt(s)
    \/ \E r \in Replica : Crash(r)

\* run() is one thread that is never starved: each of its steps that stays
\* enabled is taken.  Interrupts and crashes come from outside and may never
\* happen.
Fairness == \A s \in Sub : WF_vars(Step(s))

Spec == Init /\ [][Next]_vars /\ Fairness

-----------------------------------------------------------------------------
(* A replica holds a subscription only to a topic it has: the manager loop *)
(* has retrieved or created the topic at every replica before the          *)
(* subscribe loop walks the same replicas, whatever the other processes    *)
(* and the crashes did in between.                                         *)
SubscribedTopicExists == \A r \in Replica : subs[r] # {} => exists[r]

(* A process leaves a subscription behind at a replica only when it has   *)
(* failed through a fault: a replica down, or an interrupt that came       *)
(* before shutdownOnInterrupt and destroyed the communicator part-way      *)
(* through the subscribe loop (line 106).  A run() that returns            *)
(* EXIT_SUCCESS has unsubscribed everywhere, and an interrupt after line   *)
(* 110 leads through the whole unsubscribe loop.                           *)
LeakOnlyOnFault ==
    \A s \in Sub, r \in Replica :
        pc[s] = "done" /\ s \in subs[r] =>
            /\ status[s] = "failure"
            /\ interrupted[s] = "destroyed" \/ up # Replica

(* Every run() gets through its setup to waitForShutdown or exits, and an  *)
(* interrupted process eventually exits, at whatever point the interrupt   *)
(* came.                                                                   *)
RunEnds ==
    \A s \in Sub :
        /\ <>(pc[s] \in {"wait", "done"})
        /\ (interrupted[s] # "no" ~> pc[s] = "done")

=============================================================================
