----------------- MODULE ComputeResourceConsolidationProofs -----------------
(* Theorems about ComputeResourceConsolidation. *)
EXTENDS ComputeResourceConsolidation, TLAPS

LEMMA InitIInv == Init => IInv
BY TasksAssumption
DEF Init, IInv, TypeOK, StopInv, AwaitedTasksEnded, FaultsSurface, Outcomes, Faulted

LEMMA WorkerIInv ==
  ASSUME IInv, NEW t \in Tasks, Worker(t)
  PROVE  IInv'
<1> USE DEF IInv, TypeOK, StopInv, Outcomes, SetTask
<1>1. TypeOK'
  BY DEF Worker, RoundOver, Throws, Delay, LoopTest
<1>2. \A u \in Tasks : Ended(u) => task'[u] = task[u]
  BY DEF Worker, RoundOver, Throws, Delay, LoopTest, Ended, Works
<1>3. UNCHANGED <<run, onStop, stopArray>>
  BY DEF Worker, RoundOver, Throws, Delay, LoopTest
<1>4. StopInv' /\ AwaitedTasksEnded'
  BY <1>2, <1>3, TasksAssumption DEF Worker, RoundOver, Throws, Delay, LoopTest,
                                     AwaitedTasksEnded, Ended, Faulted
<1>5. FaultsSurface'
  BY <1>2, <1>3 DEF AwaitedTasksEnded, FaultsSurface, Ended, Faulted
<1> QED BY <1>1, <1>4, <1>5

LEMMA RunIInv ==
  ASSUME IInv, Run
  PROVE  IInv'
<1> USE DEF IInv, TypeOK, StopInv, AwaitedTasksEnded, FaultsSurface, Outcomes
<1>1. CASE \E t \in Tasks : StartTask(t)
  BY <1>1 DEF StartTask, SetTask, Ended, Faulted
<1>2. CASE \E t \in Tasks : AddTask(t)
  BY <1>2 DEF AddTask, Ended, Faulted
<1>3. CASE WaitAny
  BY <1>3 DEF WaitAny, Ended, Faulted
<1>4. CASE RunStops
  BY <1>4 DEF RunStops, WaitAll, Ended, Faulted
<1> QED BY <1>1, <1>2, <1>3, <1>4 DEF Run

LEMMA OnStopIInv ==
  ASSUME IInv, OnStop \/ Stopper
  PROVE  IInv'
<1> USE DEF IInv, TypeOK, StopInv, AwaitedTasksEnded, FaultsSurface, Outcomes
<1>1. CASE OnStop
  BY <1>1, TasksAssumption DEF OnStop, Ended, Faulted
<1>2. CASE CopyTasks
  BY <1>2 DEF CopyTasks, Ended, Faulted
<1>3. CASE OnStopStops
  BY <1>3 DEF OnStopStops, WaitAll, Ended, Faulted
<1> QED BY <1>1, <1>2, <1>3 DEF Stopper

LEMMA NextIInv == IInv /\ [Next]_vars => IInv'
<1>1. ASSUME IInv, UNCHANGED vars PROVE IInv'
  BY <1>1 DEF IInv, TypeOK, StopInv, AwaitedTasksEnded, FaultsSurface, Outcomes,
              Ended, Faulted, vars
<1> QED BY <1>1, WorkerIInv, RunIInv, OnStopIInv DEF Next

\* IInv holds in every reachable state.
THEOREM Inductive == Spec => []IInv
BY InitIInv, NextIInv, PTL DEF Spec

\* Every variable stays in its range, and Run waits once all workers are in its
\* list and not before.
THEOREM TypeCorrect == Spec => []TypeOK
<1>1. IInv => TypeOK
  BY DEF IInv
<1> QED BY <1>1, Inductive, PTL

\* A wait that covered all tasks and did not time out leaves none at work, for
\* any number of workers and whatever throws.
THEOREM AwaitedTasksHaveEnded == Spec => []AwaitedTasksEnded
<1>1. IInv => AwaitedTasksEnded
  BY DEF IInv
<1> QED BY <1>1, Inductive, PTL

\* A worker's failure makes Run or OnStop throw, unless a wait timed out or
\* OnStop's copy of the list was incomplete.
THEOREM NoFailureIsLost == Spec => []FaultsSurface
<1>1. IInv => FaultsSurface
  BY DEF IInv
<1> QED BY <1>1, Inductive, PTL

\* After Run or OnStop is over no worker begins another round.
THEOREM NoRoundAfterStop == Spec => NoNewRounds
<1>1. IInv /\ [Next]_vars =>
        [(run \in Outcomes \/ onStop \in Outcomes) =>
           \A t \in Tasks : Works(t)' => Works(t)]_vars
  <2> SUFFICES ASSUME IInv, Next, run \in Outcomes \/ onStop \in Outcomes,
                      NEW t \in Tasks, ~Works(t)
               PROVE  ~Works(t)'
    OBVIOUS
  <2>1. cts
    BY DEF IInv, StopInv, Outcomes
  <2> QED BY <2>1 DEF Next, IInv, TypeOK, Worker, Run, Stopper, RoundOver, Throws,
                      Delay, LoopTest, StartTask, AddTask, WaitAny, RunStops,
                      OnStop, CopyTasks, OnStopStops, SetTask, Works, Outcomes
<1> QED BY <1>1, Inductive, PTL DEF Spec, NoNewRounds
=============================================================================
