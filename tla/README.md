# Verification of the cloud design pattern samples

The repository is a Farsi guide to cloud design patterns. Its programs are the C# samples under
`src/example/`: small Azure cloud services, one per pattern, whose roles run concurrently, share a storage or
messaging service, fail, are restarted and are stopped. This directory holds TLA+ models of those programs,
TLC configurations, and proofs that TLAPS checks.

Paths below are relative to `src/example/` unless they begin with `src/`.

## 1. Inventory

| Component | State | Operations | Interacts through | Hard |
|---|---|---|---|---|
| **Leader election** (`Leader Election/DistributedMutex/*`, `LeaderElection.Worker/WorkerRole.cs`) | the blob and its lease; in each instance the mutex loop, the leader task, the renewal task, two cancellation tokens | acquire, create the blob, run the task, renew, release, `OnStop` | lease calls to the blob service; linked tokens and `WhenAny`/`WhenAll` inside an instance | lost and late calls, lease expiry against renewal, crash of the leader, order in which the two tasks end |
| **External configuration: manager** (`External Configuration Store/.../ExternalConfigurationManager.cs`, `SettingsStore/BlobSettingsStore.cs`) | cached settings and version, the monitor task, a token, two semaphores, the `changed` subject | constructor, `CheckForConfigurationChangesAsync`, `StartMonitor`, `StopMonitor`, `Dispose`, `GetAppSetting` | reads of the blob; callers in any thread | version and settings read by two calls; start and stop from several threads; failing reads |
| **External configuration: worker role** (`WorkerRole.cs`, `ExternalConfiguration.cs`) | the process with its lazy manager, `completeEvent` | `OnStart`, `Run`, `OnStop` | the manager; the container shared by instances | an `OnStop` that throws half way; a constructor whose exception is kept |
| **Compute resource consolidation** (`.../ComputeResourceConsolidation.Worker/WorkerRole.cs`) | list of tasks, a token, two threads | `Run`, `OnStop`, `Stop`, the workers | the list and the token | `OnStop` while `Run` still starts tasks; workers that fail or hang |
| **Pipes and filters** (`Pipes and Filters/*`) | queues with copies, delivery counts and locks; in each role a pump and a handler | `Start`, the handler, `Close`; the sender's `Run`, `OnStop` | Service Bus queues in peek-lock mode | send and complete are two calls; lost locks; crashes; a stopped role deletes its queue |
| **Competing consumers** (`Competing Consumers/*`) | one queue, one sender, several receivers with ten handlers each | batch send, `ProcessMessage`, `Start`, `Stop` | one queue in peek-lock mode | a message settled twice; settling that throws; the queue deleted under others |
| **Priority queue** (`Priority Queue/*`) | a topic, a subscription per priority, workers with ten handlers each | batch send, `Setup`, receive, `StopReceiver` | the topic | messages sent before a subscription exists; the topic deleted under others |
| **Runtime reconfiguration** (`Runtime Reconfiguration/*`) | the setting, `SomeRuntimeComponent.CurrentValue` | `Changing`, `Changed`, `Application_Start` | events of the role environment | a change between the first read and the subscription |
| **Static content hosting** (`Static Content Hosting/*`) | blobs of the container | deployment at start | the container | instances that deploy at once; old versions kept |
| **Health endpoint monitoring** | none | a request | - | nothing interleaves |
| **Valet key** | none | a request for a signature | - | the validity window is the service's business |
| **Fragments in `src/docs/`** | circuit breaker, cache-aside, retry, ... | - | - | fragments of C# in prose, not programs |
| **Scaffolding, texts, vendored scripts** | - | - | - | generated or third-party |

What makes each of the modelled ones correct:

- *Leader election*: a leader that has not been told to stop holds a running lease, so there is at most one; an
  instance never campaigns with its former leader task at work; `Run` completes in time when it is stopped; a
  leader is always elected again.
- *Configuration manager and its role*: a refresh that is skipped is right to be skipped; one monitor loop runs at
  most; none works on after `StopMonitor`; the cache converges to the last upload; a start that fails is made good by
  the next; a stop ends, and its clean-up is not taken for a failure.
- *Consolidation*: who has awaited all tasks leaves none at work; a failure of a worker is not lost; both
  threads end eventually, whatever hangs; no worker begins a round after that.
- *Pipes and filters*: a filter forgets a message only when it is further on; so a message is lost by nothing but the
  deletion of a queue; without a failure none is received twice and only poison is dead-lettered; every message gets to
  the end or to a dead-letter queue.
- *Competing consumers and priority queue*: at-least-once delivery: a message is completed only after it was processed;
  what became of it is final; each message is settled; a message is delivered again only for a reason; the queue or
  topic comes back after it was deleted.

## 2. Modules

| Module | Role |
|---|---|
| `LeaderElection` | abstract specification: leaders, and instances whose leader task has not ended |
| `BlobDistributedMutex` | blob service (external), lease manager, mutex loop, worker role, time; composes them for all instances; defines the refinement mapping `Abstract` and the inductive invariant |
| `BlobDistributedMutexProofs` | type correctness, safety and refinement, proved |
| `ExternalConfigurationManager` | store (external), manager, settings store, calling threads |
| `ExternalConfigurationManagerProofs` | type correctness and safety, proved |
| `ExternalConfigurationRole` | composes the manager with the worker role, its process and the fabric |
| `ExternalConfigurationRoleProofs` | the manager's guarantees within the role, and the role's own, proved |
| `ComputeResourceConsolidation` | `Run`, `OnStop`, worker tasks |
| `ComputeResourceConsolidationProofs` | type correctness and safety, proved |
| `StoreAndForward` | abstract specification: stages that store messages and forward them |
| `PipesAndFilters` | Service Bus queues (external), sender, filters, hosts; defines the refinement of `StoreAndForward` and the inductive invariants |
| `PipesAndFiltersProofs` | type correctness, safety and refinement, proved |
| `MessageDelivery` | abstract specification: at-least-once delivery of messages |
| `PeekLock` | Service Bus messages in peek-lock mode and the client's message pumps (external), shared by the next two |
| `CompetingConsumers` | one queue, sender, receivers; defines the refinement of `MessageDelivery` and the inductive invariant |
| `PriorityQueue` | topic, subscriptions, sender, workers; the same |
| `PeekLockProofs` | lemmas: what the steps of the broker and of a pump preserve |
| `CompetingConsumersProofs`, `PriorityQueueProofs` | type correctness, safety and refinement, proved |
| `MC*` | instances for TLC; the `.cfg` files give the constants their values |

Definitions whose comment begins with "Mutant" are variants of the definition after them, as a bug could have
made them. They are used by no action; they exist to test that the properties notice the bug.

### BlobDistributedMutex

`pc` is the position of `RunTaskWhenMutexAcquired` and `RunTaskWhenBlobLeaseAcquired`, `leaderTask` and
`renewTask` the two tasks the loop awaits, `leaseCts` the linked token source, `token` the role's own. A lease
call is in three steps: the instance is in the state of the call (`Calling`), the service serves it and fills
`reply` (`Service`), and the continuation acts on the reply (`Local`). In between the answer may be lost, the
call may be given up by cancellation, and a given-up call may stay in `stray` and be served later. Storage
exceptions, 404/409/412 answers and everything else that `BlobLeaseManager` tells apart are replies of their own.
`Crash` and `Restart` replace a process. `OnStop` cancels and waits for `StopTimeout`.

*Time* is discrete. `Tick` is disabled while some instance has a step that takes no time and is due (`Overdue`).
What takes time is a storage call (up to `MaxLatency`, with retries and the scheduling of its continuation) and a
round of the leader task between two looks at its token (up to `MaxWork`). Cancellation takes effect at once in
the loop and the renewal task, which wait at cancellable calls and delays; the leader task sees it only when it
comes to its `await`, which is what `mutex_overlap` is about.

### ExternalConfigurationManager

A check is five steps (`EnterCheck`, `GetVersion`, `FindAll`, `Refresh`, `LeaveCheck` as part of the last one or of
`CheckFails`), with uploads and deletions between any two. `Ctor` is the check of the constructor, and a monitor
loop is one element of `Monitors`. Starters peek at `monitoringTask` without the semaphore, then take it
(`StartMonitor`, `StartLoop`); stoppers cancel, wait for the loop (`Joined`), and return or throw, depending on
how the loop ended. The settings carry, as a history, the version they were read at (`at`).

### ExternalConfigurationRole

It extends the manager: `Run` and `OnStop` are the manager's calls in the two threads of the role (`RunThread`,
`StopThread`), and `Others` are further threads of the process, since the manager is public. `OnStart` uploads the
blobs and constructs the manager, whose constructor is the check `Ctor`; either may fail (`OnStartFails`, `OnStartEnds`), and
then `OnStart` throws, and the process ends, which is what makes the `Lazy` instance forget the exception. `CleansUp` is the
part of `OnStop` after `StopMonitor`: nothing of the process reads the store between the deletion and the event, so they are
one step. When the deletion throws (`CleanupFails`), `OnStop` does, and the event is not set. A call that fails though the
store served it is a failure together with an `Upload` or `Delete`. `ProcessEnds` is what the fabric does
when `OnStop` has returned or an exception left `OnStop` or `Run`. `EndProcess` forgets everything but the store.

### ComputeResourceConsolidation

A worker task is in its first synchronous part (`first`), in later rounds, in its delay, at its loop test, or has
ended in one of three ways. `AddTask` puts it in the list when its call returns. `WaitAny`, `WaitAll` and the copy
of the list by `OnStop` are steps of their own. There is no time: a wait that has a timeout may end at any moment, and with
fairness does end. `RunEnds` and `OnStopEnds` therefore say that the threads end, not that they do so within a limit of the
fabric; `OnStop` waits up to five minutes, and the comment at `WorkerRole.cs:187` gives five minutes in Azure and 30 seconds
in the emulator, which the model does not decide.

### PipesAndFilters

A copy of a message is named by the message and `via`, the numbers of the deliveries it came by; it is in queue
`Len(via) + 1`. The broker counts deliveries, locks, unlocks and dead-letters copies; the client's pump renews
locks, completes after a handler that returns and abandons after one that throws. The handler's steps are the
pause event and the count test (`Begins`, `DeadLetters`), the filter's work (`Filtered`, `FilterThrows`), the send
(`SendsOutput`, `SendFails`) and completion (`Completes`). `Close` is `Pauses`, `Closes`, `Stops`. A copy still in
work when its role is closed or has crashed loses its lock later (`LockExpires`). A creation of a queue that
fails is a fault that only leaves the queue out, as `ServiceBusUtilities` only traces it. Two things are left out: an
outage that makes `OnStart` throw, which changes nothing but delays the start, and a crash of the sender, which
has no state beside its queue. `received` holds the deliveries the final receiver has processed, named like the copies
that any other filter makes of them (`Output`), so that a message received twice shows.

It implements `StoreAndForward` under the mapping `Relay`, which keeps of every queue only the messages in it, dead-lettered
ones included (`At`). `StoreAndForward` may forward a message and hand it to the receiver any number of times, also after
its queue was deleted while a filter had it in work; but a stage forgets a message only when that is in a later stage,
received, or purged.

### PeekLock, CompetingConsumers and PriorityQueue

In these two samples there is one place for a message to be in, so the broker is simpler than the pipeline's: a message
has a `fate` and a `count` of deliveries. A handler is one element of `handlers`, named by the message and the number
of the delivery, so that a message whose lock was lost may be in several handlers at once, of which one holds the lock
(`Holds`). Settling calls succeed (`Served`) or throw (`Throws`): without the lock, with a closed client, or when they
fail, served or not. `Leaves` ends a process and its handlers; their locks expire later.

`CompetingConsumers` gives the handler the steps of `ProcessMessage`: `Begins` (the pause event and the test),
`DeadLetterAsync`, `Works`, `CompleteAsync`, `Abandon`. After a successful `DeadLetterAsync` it goes on to `Works`, as the
code does. `Pauses`, `Closes` and `Stops` are `QueueManager.Stop`; `Stops` deletes the queue with every message in it,
dead-lettered ones too. `CreateQueue` is `QueueManager.Start`, whose conflict with a deletion is only traced. Invalid
messages come from other clients, since the sample's sender gives every message an id.

`PriorityQueue` adds subscriptions: `Accepted` says what a send does without one. `Setup` is two steps, the topic
(`SetupTopic`) and the subscription (`SetupSubscription`), between which another worker may delete the topic; then the
exception ends `OnStart`, and the fabric starts the worker again. The pump completes messages itself (`Completes`).

Both implement `MessageDelivery` under the refinement mapping `Outline`, which makes a queued and a locked message
both *waiting*. `MessageDelivery` allows a message to be processed at any time after it was sent, also twice and after it
was settled, but completes it only if it was processed, and never changes a settled one except by deleting the queue.

## 3. Runs

| Run | Question | Result |
|---|---|---|
| `mutex_safety` | `TypeOK`, `LeaderHoldsLease`, `OneLeader`, `StopInTime`, `Mutex` (refinement) | hold |
| `mutex_liveness` | `LeaderElected` | holds |
| `mutex_overlap` | `OneInstanceWorks`, what `Readme.htm:205` says of the leader's tasks | violated |
| `config_manager` | `TypeOK`, `UpToDate`, `OneMonitor`, `StoppedForGood`, `CacheConverges` of the manager, within the role; `RoleTypeOK`, `CleanupUnnoticed`, `RoleRecovers`, `OnStopEnds` of the role | hold |
| `config_role_stop` | `OnStopCleansUp`, what the comments in `OnStop` say it does | violated |
| `config_notify` | `ChangesNotified`, what `Readme.htm:168` says of the manager | violated |
| `compute_tasks` | `TypeOK`, `AwaitedTasksEnded`, `FaultsSurface`, `RunEnds`, `OnStopEnds`, `NoNewRounds` | hold |
| `compute_stop_race` | `StopWaitsForAll`, the comment in `Stop` | violated |
| `pipeline` | `TypeOK`, `NoMessageLost`, `OnceWithoutFaults`, `HealthyPasses`, `HopByHop` (refinement), `Delivered` | hold |
| `competing_consumers` | `TypeOK`, `DeliveriesExplained`, `InvalidKept`, `AtLeastOnce` (refinement), `Settled`, `QueueReturns` | hold |
| `priority_queue` | `TypeOK`, `AtLeastOnce` (refinement), `NothingLostInService`, `Settled`, `TopicReturns` | hold |
| `priority_queue_stop` | `SubscriptionsReturn`, what `Readme.htm:216-217` says of the workers | violated |

The five violations are disagreements between the code and what it is said to do:

- *mutex_overlap*. A cancelled leader releases its lease at once, its leader task notices the cancellation only at
  its next `await`; a new leader works next to that last round. Only one of them is uncancelled (`OneLeader`).
- *config_notify*. The cache is replaced before the difference to it is computed, so the difference is empty and
  nothing is ever passed to the subscribers.
- *compute_stop_race*. `OnStop` can copy the list before `Run` has added a task that is in its first round; it
  returns without waiting for that task.
- *config_role_stop*. `StopMonitor` throws for a loop that it cancelled in its delay, where the loop nearly always is; the
  exception leaves `OnStop` before it deletes the blobs and sets `completeEvent`.
- *priority_queue_stop*. A worker that is stopped deletes the topic. When it is started again it creates the topic and its
  own subscription; the workers of the other priority go on without theirs, and what is sent to them vanishes.

What the properties that hold say about the places that look wrong is worth as much. An invalid message is processed
and completed after it was dead-lettered, but stays dead-lettered (`InvalidKept`), since a settled message has no
lock. `Abandon` in a catch block throws without a lock, but the message is settled all the same (`Settled`). A creation of
the queue whose conflict is swallowed leaves roles without a queue, but not for ever (`QueueReturns`): the sender fails,
and its restart creates it. The same holds for the topic (`TopicReturns`), since a worker's `OnStart` throws without it.

### Bounds

| Bound | Why it is enough |
|---|---|
| two instances of the mutex | properties are about pairs; a third adds only one more rival for the lease. The proofs have no such bound |
| `LeaseDuration` 5, `RenewInterval` 3, ... in place of 60, 45, 65, 10, 300 | same order, and `TimelyRenewal` holds with no unit to spare, so that an answer can come as late as it may. In `mutex_liveness` the latency equals the renewal interval, so that renewals also follow without delay |
| `MaxFailures` (2, 1) | crash, lost answer, retried and failed call and a failing leader task each, and pairs of them |
| `MaxStray` 1 (0 in `mutex_liveness`) | one given-up call that comes late, which is what can hit a lease it is not meant for |
| `LeaseIds`, a pool of 4 (3 without `stray`) | ids the service made up; one is fresh as long as no instance, call or blob knows it, so the pool only has to outnumber those |
| `MaxVersion` 3, one key, two values | the first settings and two more uploads: one between the two reads of a check and one after it |
| two monitors, two starters, one stopper | two callers in `StartMonitor` at once, and a restart after a stop |
| three workers, two faults | one ends, one throws, one hangs |
| two messages, one of them poison; three filters | a first, a middle and a last filter; two messages so that queues hold several copies |
| delivery limits 1, 2, 3 in place of 3, 4, 10 | the same order: the sender's queue dead-letters before the filter's own test, the filters' queues after it |
| `MaxFaults` 1, `MaxStops` 1 (pipeline) | one crash, lost lock or failed call together with one stop and restart; with more the state space is too large for a run of minutes. The proofs have no such bound |
| role: `MaxVersion` 3, `MaxFailures` 1, two starters, two stoppers | a process, another one after it, and an upload or a failing call of the store in either; a thread next to each of the role's own |
| competing consumers: a valid and an invalid message, two receivers, `MaxDeliveryCount` 3, `MaxFaults` 2, `MaxStops` 2 | the code's delivery limit; faults and stops enough to use it up, to stop both receivers, and to have a creation fail after a deletion |
| one call at a time of each pump (`MaxConcurrentCalls` 1 in place of 10), `BatchSize` 1 in place of 10 | with two receivers two handlers run at once, also for the same message. The proofs have no such bound |
| priority queue: two messages and two workers of one priority, one of each of the other, `MaxDeliveryCount` 2, `MaxFaults` 1, `MaxStops` 1 | rivals for a subscription, and one that has nothing to do with it; one failure or stop in addition to a restart |

Symmetry (`mutex_safety`, `mutex_overlap`) permutes instances and lease ids, which nothing distinguishes; it is not
used where a liveness property is checked. Deadlock is checked in the mutex, whose clock always goes on. In the other
systems everything can legitimately come to rest (`CHECK_DEADLOCK FALSE`): all loops have ended, or all
messages were processed and no uploads, faults or stops are left.

### Fairness

- *Mutex*: the service answers or the client's retries and time-outs end the call; ready continuations run (thread pool);
  time goes on; the host restarts an instance whose process ended, and ends one whose `OnStop` is through. Stops,
  crashes and failures are not fair.
- *Configuration manager and role*: tasks that check run, delays end, calls of the store are answered or fail; `Wait` returns when the
  loop has ended; the fabric starts the role and ends its process. Nobody has to call, to stop the role, or to upload.
- *Consolidation*: threads run and delays end; a task may stay in its work for ever.
- *Pipes and filters*: the broker delivers what can be delivered and gives up locks that nobody renews; handlers go
  on; the fabric restarts a role and lets a stop finish. A lock that is renewed need not get lost, and nobody has to
  send.
- *Competing consumers*: the same, and the sender's loop sends again and again as long as its queue is missing, which
  is what its `while` does. Nobody has to stop a role, and nothing has to fail.
- *Priority queue*: deliveries, expiry of locks nobody renews, handlers, and the starts and stops of workers; the sender
  need not run at all.

## 4. Proofs

All theorems are for any number of instances, threads, tasks, messages or filters and any values of the bounds.

- `BlobDistributedMutexProofs`: `TypeCorrect`, `LeaderAlwaysHoldsLease`, `AtMostOneLeader`, `StopsInTime`,
  `ImplementsMutex`. The second, third and last assume `TimelyRenewal`: the longer of `RenewInterval` and
  `MaxLatency + MaxWork`, plus `MaxLatency`, is less than `LeaseDuration` (for the code: a renewal takes less than
  15 s, and twice its time plus a round of the leader's work less than 60 s). `LeaderHoldsLease` is not inductive: it does not say how much of the lease is left.
  `LeaseInv` bounds how long ago the lease was granted or renewed, in each state of a leader, by the time since the
  call was sent; `IdInv` says that no late release carries the id of a lease that has an owner; `ControlInv` relates the
  tasks to the loop. At most one leader follows because the blob has one lease and ids differ. `ImplementsMutex` maps
  each step to `Elect`, `Cancel`, `Finish` or a stutter of `LeaderElection`. `StopsInTime` assumes `TimelyStop` instead: a
  round of the leader's work, its sleep and a lease call each take less than `StopTimeout` (for the code: 300 s). They need
  not fit into it one after the other: `StopInv` shows that from the cancelled token on each of them has at most the rest
  of the one it is in, since the linked token is cancelled too, a delay of the renewal is over at once, and the release is
  sent in the very instant the token is cancelled, next to the last round and not after it.
- `ExternalConfigurationManagerProofs`: `TypeCorrect`, `SkippingIsRight`, `AtMostOneMonitor`, `StopIsFinal`. The argument
  of the first safety property is that the version is read first: the settings that go with a version on record were
  read later (`VersionsInv`). `MonitorInv` says the running loop is the one `monitoringTask` refers to; `StopInv` that
  cancellation is for good.
- `ExternalConfigurationRoleProofs`: the manager's invariant holds in every state of the role too (`ManagerInRole`), so that
  `RoleSkippingIsRight`, `RoleAtMostOneMonitor` and `RoleStopIsFinal` carry over to a role that is started again and
  again; `RoleIsReady`; and `DeletionIsUnnoticed`. The last one is an action property: when `completeEvent` is set, the
  loop has ended and the token is cancelled, so no check is left to report a missing blob, and none starts
  (`RoleInv`, which adds to the manager's `IInv` that what is there was constructed). Starting the role is not a stutter
  of the manager's specification, which is why the invariant is proved for `RoleNext` and not inherited.
- `ComputeResourceConsolidationProofs`: `TypeCorrect`, `AwaitedTasksHaveEnded`, `NoFailureIsLost`, `NoRoundAfterStop`, from an invariant that
  relates the token, the list and the copy.
- `PipesAndFiltersProofs`, all from `MessagesAssumption` and `NumbersAssumption` alone:
  - `NothingIsLost`. `NoMessageLost` is not inductive, since completing removes a copy; `PassedOn` says that what is about
    to be completed lies further down the pipe or was received. A copy that is completed may itself be what an earlier
    filter passed on; then it was passed on again, still further down. `Shapes` places every delivery in the filter's own
    queue.
  - `TypeCorrect`. Its hard conjunct is that no two copies have the same name. A new copy is named after the delivery it
    comes by, so it must be shown that no copy has come by that delivery yet, and none by one that is still to be made:
    `Traced`, of every copy, dead or alive, every delivery in work and every one received. A delivery's number is above all
    earlier ones, since the count of a copy never falls, and a handler sends once, which is where its step is needed: what
    came by the delivery that a handler is busy with is there only when it is completing. `NameIInv` is the inductive
    invariant (`NamesInductive`); `LimitInv` in it bounds the counts by the queues' limits.
  - `ReceivedOnce` and `HealthyGetsThrough`. As long as nothing fails and no role is stopped (`CalmInv`), a filter that is
    up has its input and its output queue, so that no send fails; a locked copy of a healthy message is in its filter's
    hands, so that no lock is lost; hence each healthy message is delivered once in each queue, its names are all ones
    (`Straight`), and two deliveries received of one message have the same name. Poison is thrown, unlocked and delivered
    again next to it, and is all that is dead-lettered.
  - `StoresAndForwards` maps each step to `Send`, `Forward`, `Receive`, `Forget`, `Delete` or a stutter of
    `StoreAndForward`. It needs `HeldInv` (`HeldInductive`): what a filter is busy with is in its queue, or that was
    deleted; and `PassedOn` for what it forgets. When another copy of the message is in the queue, completing one is a
    stutter.
- `CompetingConsumersProofs`: `TypeCorrect`, `InvalidIsKept`, `RedeliveryIsExplained`, `KeepsThePromise`. `TypeOK` is inductive
  as it stands. `InvalidKept` needs `InvalidDead`: who works on an invalid message has seen it dead-lettered, and a
  message that is dead has no lock to be completed with. `DeliveriesExplained` needs `FailuresCount`: the deliveries
  that failed are at most the faults and stops so far, less the stops of receivers that are still pausing, whose
  handlers have not lost their locks yet (`Margin`); a message that is due for another delivery has one failure to
  spare, because at most one delivery at a time holds its lock, and the closing of a receiver takes that of at most one
  away from each message. The cardinalities rest on `ReceiversAssumption` (finitely many receivers). `KeepsThePromise` maps each step to one of `MessageDelivery` or a stutter; `WorkedOn` (who is about to
  complete a message has processed it) is the invariant it needs.
- `PriorityQueueProofs`: `TypeCorrect`, `StartsLoseNothing`, `KeepsThePromise`. `InService` says that before the first failure or
  stop a worker that is up has its subscription. The steps of the broker are handled by the lemmas of `PeekLockProofs`,
  which both modules use.

The TLC runs evaluate every `ASSUME`; the inductive invariants were checked with TLC before they were proved.

*Model-checked only*: the liveness properties `LeaderElected`, `CacheConverges`, `RoleRecovers`, `OnStopEnds` (of the role and
of the consolidation worker), `RunEnds`, `Delivered`, `Settled`, `QueueReturns`, `TopicReturns`, since fairness and
`ENABLED` are out of the prover's reach. Every invariant, action property and refinement that a passing run checks is
proved.

## 5. Plan

What is left to prove are facts the liveness properties rest on, which can be stated as safety properties: that no other
step takes away what a fair one waits for (a locked copy whose lock nobody renews stays so until it expires; a queue that
a filter needs stays until somebody stops), and that each retry uses up one of finitely many deliveries.

What could be added to the models: several instances of the configuration role that share and delete the container as
processes of their own (now they are operators that upload and delete), and the pipeline's broker stated as an instance of
`PeekLock`, which now has one queue.

## 6. Not modelled

- *Runtime reconfiguration*. Two event handlers of the web role and of the application: `Changing` decides on a restart by the
  name of a setting, `Changed` copies the new value. The window between the first read in `Application_Start` and the
  subscription is real (it is in the list of hazards), but a model of it has a handful of states and its one property
  would restate the window.
- *Static content hosting*. Instances deploy their files at start, each with `Exists` and `UploadFromFile`, and react to nothing
  that another one does.
- *Health endpoint monitoring, valet key*. Stateless requests: a mapping from exceptions to a status code, and a signature
  whose validity the storage service enforces.
- *Fragments in `src/docs/`*. Pieces of C# in prose, without the definitions they call.
- *Vendored scripts*. Nearly all lines of the repository outside the C# samples are third-party JavaScript (jQuery, jQuery UI,
  Knockout, Modernizr, validation plug-ins, in a minified, a readable and an editor-support version each) under `Scripts/` of
  the two web samples. The samples call none of the logic in them that could be a model of this repository; they are
  covered by their own projects.
- *Scaffolding, texts, images, styles*. Generated or not programs.
