------------------- MODULE ComputeResourceConsolidation --------------------
(***************************************************************************)
(* A worker role that hosts several worker tasks in one instance.  Run     *)
(* starts them and waits until any of them ends, which is not expected:    *)
(* then it cancels and awaits the others, so that the role is recycled.    *)
(* OnStop, in a thread of the fabric, cancels and awaits them as well.     *)
(***************************************************************************)
EXTENDS Naturals, FiniteSets

CONSTANTS Tasks, MaxFaults     \* the workers; bound: those that throw

ASSUME TasksAssumption == Tasks # {} /\ IsFiniteSet(Tasks)
ASSUME BoundsAssumption == MaxFaults \in Nat

VARIABLES
  task,        \* where each worker task is
  tasks,       \* the list of those that Run has started
  cts,         \* cancellation is requested
  run, onStop, \* where the two threads are
  stopArray    \* what OnStop awaits: a copy of the list

vars == <<task, tasks, cts, run, onStop, stopArray>>

Ended(t)   == task[t] \in {"completed", "canceled", "faulted"}
Works(t)   == task[t] \in {"first", "working"}
Faulted    == {t \in Tasks : task[t] = "faulted"}
Started(t) == task[t] \notin {"off", "first"}

Init ==
  /\ task = [t \in Tasks |-> "off"]
  /\ tasks = {}
  /\ cts = FALSE
  /\ run = "starting"
  /\ onStop = "off"
  /\ stopArray = {}

SetTask(t, s) == task' = [task EXCEPT ![t] = s]

----------------------------------------------------------------------------
(* The loop of a worker task.                                              *)

Throws(t) == Cardinality(Faulted) < MaxFaults /\ SetTask(t, "faulted")

RoundOver(t) ==
  /\ Works(t)
  /\ SetTask(t, "delay") \/ Throws(t)
  /\ UNCHANGED <<tasks, cts, run, onStop, stopArray>>

\* The delay ends, or throws when the token is cancelled.
Delay(t) ==
  /\ task[t] = "delay"
  /\ \/ SetTask(t, "test") /\ ~cts
     \/ SetTask(t, "canceled") /\ cts
  /\ UNCHANGED <<tasks, cts, run, onStop, stopArray>>

LoopTest(t) ==
  /\ task[t] = "test"
  /\ SetTask(t, IF cts THEN "completed" ELSE "working")
  /\ UNCHANGED <<tasks, cts, run, onStop, stopArray>>

----------------------------------------------------------------------------
(* Run.                                                                    *)

\* The task runs in this thread up to its first await.
StartTask(t) ==
  /\ run = "starting"
  /\ task[t] = "off"
  /\ \A u \in Tasks \ tasks : task[u] = "off"
  /\ SetTask(t, IF cts THEN "completed" ELSE "first")
  /\ UNCHANGED <<tasks, cts, run, onStop, stopArray>>

\* Mutant: Run waits for the first task before it starts the others.
HastyAddTask(t) ==
  /\ run = "starting"
  /\ Started(t) /\ t \notin tasks
  /\ tasks' = tasks \cup {t}
  /\ run' = "waiting"
  /\ UNCHANGED <<task, cts, onStop, stopArray>>

AddTask(t) ==
  /\ run = "starting"
  /\ Started(t) /\ t \notin tasks
  /\ tasks' = tasks \cup {t}
  /\ run' = IF tasks' = Tasks THEN "waiting" ELSE run
  /\ UNCHANGED <<task, cts, onStop, stopArray>>

\* Mutant: the others are not cancelled.
UncancelledWaitAny ==
  /\ run = "waiting"
  /\ \E t \in Tasks : Ended(t)
  /\ run' = IF cts THEN "returned" ELSE "stopping"
  /\ UNCHANGED <<task, tasks, cts, onStop, stopArray>>

\* WaitAny returns, without an exception even if the task has faulted.  Unless
\* OnStop is about to do it, the other tasks are cancelled and awaited.
WaitAny ==
  /\ run = "waiting"
  /\ \E t \in Tasks : Ended(t)
  /\ run' = IF cts THEN "returned" ELSE "stopping"
  /\ cts' = TRUE
  /\ UNCHANGED <<task, tasks, onStop, stopArray>>

\* Mutant: wait for any task instead of all.
EagerWaitAll(array, outcome) ==
  \/ /\ (array = {} \/ \E t \in array : Ended(t))
     /\ outcome = IF array \cap Faulted = {} THEN "returned" ELSE "threw"
  \/ /\ \E t \in array : ~Ended(t)
     /\ outcome = "timedOut"

\* Mutant: every exception is taken for a cancellation.
SilentWaitAll(array, outcome) ==
  \/ /\ \A t \in array : Ended(t)
     /\ outcome = "returned"
  \/ /\ \E t \in array : ~Ended(t)
     /\ outcome = "timedOut"

\* Mutant: no timeout.
PatientWaitAll(array, outcome) ==
  /\ \A t \in array : Ended(t)
  /\ outcome = IF array \cap Faulted = {} THEN "returned" ELSE "threw"

\* WaitAll throws, when all tasks have ended, for those that did not complete;
\* cancellations are handled.  It does not throw when it times out.
WaitAll(array, outcome) ==
  \/ /\ \A t \in array : Ended(t)
     /\ outcome = IF array \cap Faulted = {} THEN "returned" ELSE "threw"
  \/ /\ \E t \in array : ~Ended(t)
     /\ outcome = "timedOut"

RunStops ==
  /\ run = "stopping"
  /\ \E outcome \in {"returned", "threw", "timedOut"} :
       WaitAll(tasks, outcome) /\ run' = outcome
  /\ UNCHANGED <<task, tasks, cts, onStop, stopArray>>

----------------------------------------------------------------------------
(* OnStop, called at any time after OnStart.                               *)

OnStop ==
  /\ onStop = "off"
  /\ onStop' = "canceled"
  /\ cts' = TRUE
  /\ UNCHANGED <<task, tasks, run, stopArray>>

\* The list is not made for two threads: while Run is adding a task to it, the
\* copy may contain a null, for which WaitAll throws.
CopyTasks ==
  /\ onStop = "canceled"
  /\ stopArray' = tasks
  /\ \/ onStop' = "stopping"
     \/ onStop' = "threw" /\ \E t \in Tasks \ tasks : Started(t)
  /\ UNCHANGED <<task, tasks, cts, run>>

OnStopStops ==
  /\ onStop = "stopping"
  /\ \E outcome \in {"returned", "threw", "timedOut"} :
       WaitAll(stopArray, outcome) /\ onStop' = outcome
  /\ UNCHANGED <<task, tasks, cts, run, stopArray>>

----------------------------------------------------------------------------
Worker(t) == RoundOver(t) \/ Delay(t) \/ LoopTest(t)

Run ==
  \/ \E t \in Tasks : StartTask(t) \/ AddTask(t)
  \/ WaitAny
  \/ RunStops

Stopper == CopyTasks \/ OnStopStops

Next ==
  \/ \E t \in Tasks : Worker(t)
  \/ Run
  \/ OnStop
  \/ Stopper

Spec == Init /\ [][Next]_vars

\* The threads run, and delays end; but a task may stay in its work for ever,
\* and nobody need call OnStop.
Fairness ==
  /\ \A t \in Tasks : WF_vars(Delay(t) \/ LoopTest(t))
  /\ WF_vars(Run)
  /\ WF_vars(Stopper)

FairSpec == Spec /\ Fairness

----------------------------------------------------------------------------
\* How a call of WaitAll ends, and the thread with it.
Outcomes == {"returned", "threw", "timedOut"}

\* The ranges of the variables, and Run is past its loop exactly when the list
\* holds all tasks.
TypeOK ==
  /\ task \in [Tasks -> {"off", "first", "working", "delay", "test",
                         "completed", "canceled", "faulted"}]
  /\ tasks \subseteq Tasks
  /\ cts \in BOOLEAN
  /\ run \in {"starting", "waiting", "stopping"} \cup Outcomes
  /\ onStop \in {"off", "canceled", "stopping"} \cup Outcomes
  /\ stopArray \subseteq Tasks
  /\ run = "starting" <=> tasks # Tasks

\* Whoever has awaited all tasks, without running into the timeout, leaves
\* none of them at work: when Run itself stopped the others because one ended,
\* or OnStop was called once Run had started them all.
AwaitedTasksEnded ==
  \/ run \in {"returned", "threw"} /\ onStop = "off"
  \/ onStop \in {"returned", "threw"} /\ stopArray = Tasks
  => \A t \in Tasks : Ended(t)

\* The failure of a worker is not lost: when both threads are through, and the
\* waits covered all tasks and did not time out, one of them has thrown.
FaultsSurface ==
  /\ run = "returned"
  /\ onStop = "off" \/ (onStop = "returned" /\ stopArray = Tasks)
  => Faulted = {}

\* When a worker ends, though another one hangs, Run returns and the role is
\* recycled.
RunEnds ==
  run = "waiting" /\ (\E t \in Tasks : Ended(t)) ~> run \in Outcomes

\* OnStop ends, by the end of the tasks it awaits, by the exception of one or by
\* its timeout, whatever the workers do.  How long it takes is not said: there is
\* no time here, and so no limit of the fabric to compare the timeout with.
OnStopEnds == onStop = "canceled" ~> onStop \in Outcomes

\* Once either thread is through, even by a timeout, no worker begins another
\* round: what still works is in a round that began before.
NoNewRounds ==
  [][(run \in Outcomes \/ onStop \in Outcomes) =>
       \A t \in Tasks : Works(t)' => Works(t)]_vars

\* The inductive invariant: the list is complete once Run is past its loop,
\* the token is cancelled before anybody stops, and a wait that has not timed
\* out has seen every task of its array end, and whether it faulted.
StopInv ==
  /\ onStop # "off" => cts
  /\ run \in {"stopping"} \cup Outcomes => cts
  /\ cts /\ onStop = "off" => run \in {"stopping"} \cup Outcomes
  /\ onStop \in {"off", "canceled"} => stopArray = {}
  /\ onStop = "returned" /\ stopArray = Tasks => Faulted = {}

IInv == TypeOK /\ StopInv /\ AwaitedTasksEnded /\ FaultsSurface

\* What the comment in Stop says: it waits for all the tasks to complete before
\* it returns.
StopWaitsForAll ==
  onStop = "returned" => \A t \in Tasks : ~Works(t)
=============================================================================
