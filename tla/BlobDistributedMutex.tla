------------------------ MODULE BlobDistributedMutex ------------------------
(***************************************************************************)
(* Leader election by a blob lease: every role instance runs the loop of   *)
(* BlobDistributedMutex over one blob of the storage service.  The module  *)
(* composes three parts:                                                   *)
(*   - the blob and its lease at the service (external, the first three    *)
(*     variables), which serves calls that may fail after they took effect *)
(*     and may be served after the caller gave them up (stray);            *)
(*   - BlobLeaseManager and BlobDistributedMutex in each instance: the     *)
(*     acquire loop (pc), the leader task and the renewal task, which run  *)
(*     concurrently and share the linked token leaseCts;                   *)
(*   - the worker role: OnStop cancels the outer token and waits for Run;  *)
(*     an instance may crash and be started again.                         *)
(*                                                                         *)
(* Time is discrete and the same for all.  Tick advances every clock by    *)
(* one and is disabled while a step is overdue, so a local step takes no   *)
(* time of its own: what a step takes in reality is part of MaxLatency (a  *)
(* storage call, retries and the scheduling of its continuation included)  *)
(* or of MaxWork (one round of the leader task between two looks at its    *)
(* token).                                                                 *)
(***************************************************************************)
EXTENDS Naturals, FiniteSets

CONSTANTS
  Instances,                \* the role instances
  LeaseIds, NoId,           \* a pool for the lease ids the service makes up
  LeaseDuration,            \* 60 s, BlobLeaseManager
  RenewInterval,            \* 45 s
  AcquireAttemptInterval,   \* 65 s
  TaskInterval,             \* 10 s, MyLeaderCoordinatorTask
  StopTimeout,              \* 5 min, WorkerRole.OnStop
  MaxLatency, MaxWork,      \* see above
  MaxFailures,              \* bound: failures of all kinds in a behaviour
  MaxStray                  \* bound: given-up calls that are not lost

ASSUME NoIdAssumption == NoId \notin LeaseIds

ASSUME TimesAssumption ==
  /\ LeaseDuration \in Nat \ {0}
  /\ RenewInterval \in Nat \ {0}
  /\ AcquireAttemptInterval \in Nat \ {0}
  /\ TaskInterval \in Nat \ {0}
  /\ StopTimeout \in Nat \ {0}
  /\ MaxLatency \in Nat
  /\ MaxWork \in Nat
  /\ MaxFailures \in Nat
  /\ MaxStray \in Nat

VARIABLES
  blobExists, blobLease, leaseLeft,  \* the blob, the id on it, its time left
  stray,        \* calls nobody waits for that the service may yet serve
  pc,           \* where each instance's mutex loop is
  token,        \* its outer token is cancelled (WorkerRole.cts)
  leaseCts,     \* its linked token is cancelled
  leaderTask, renewTask,
  reply,        \* the service's answer to its call, "none" before there is one
  leaseId,      \* the id in that answer, then in the variable leaseId
  elapsed,      \* how long its call has been out (renewOffset while renewing)
  timer,        \* what is left of its Task.Delay
  taskClock,    \* how long its leader task has been working, or sleeping
  stopClock,    \* what is left of OnStop's wait
  failures

server == <<blobExists, blobLease, leaseLeft>>
tasks  == <<leaderTask, renewTask, taskClock>>
tokens == <<token, leaseCts, stopClock>>
vars   == <<server, stray, pc, tokens, tasks, reply, leaseId, elapsed, timer,
            failures>>

IdOrNone == LeaseIds \cup {NoId}
Errors   == {"webError", "otherError"}
Ops      == {"acquiring", "checking", "creating", "renewing", "releasing"}

\* The call an instance waits for: it has at most one out at any time.
Trying(i)  == pc[i] \in {"acquiring", "checking", "creating"}
Calling(i) == Trying(i) \/ renewTask[i] \in {"renewing", "releasing"}
Leads(i)   == pc[i] \in {"starting", "leading", "joining"}

Requests(i) == [op : Ops \cap {pc[i], renewTask[i]}, id : {leaseId[i]}]

\* What may still reach the service when i no longer waits for its call.
Abandoned(i) ==
  IF reply[i] = "none" /\ Cardinality(stray) < MaxStray THEN Requests(i) ELSE {}

FreshIds ==
  LeaseIds \ ({blobLease} \cup {leaseId[i] : i \in Instances}
                          \cup {r.id : r \in stray})

Init ==
  /\ blobExists \in BOOLEAN
  /\ blobLease = NoId
  /\ leaseLeft = 0
  /\ stray = {}
  /\ pc = [i \in Instances |-> "loop"]
  /\ token = [i \in Instances |-> FALSE]
  /\ leaseCts = [i \in Instances |-> FALSE]
  /\ leaderTask = [i \in Instances |-> "none"]
  /\ renewTask = [i \in Instances |-> "none"]
  /\ reply = [i \in Instances |-> "none"]
  /\ leaseId = [i \in Instances |-> NoId]
  /\ elapsed = [i \in Instances |-> 0]
  /\ timer = [i \in Instances |-> 0]
  /\ taskClock = [i \in Instances |-> 0]
  /\ stopClock = [i \in Instances |-> 0]
  /\ failures = 0

----------------------------------------------------------------------------
(* The storage service (external). A grant and a renewal start the lease   *)
(* anew; a renewal and a release need the id that is on the blob, which    *)
(* stays there after expiry until somebody else acquires the lease.        *)

\* Serve i's call: AcquireLease is refused while a lease is running.
ServeAcquire(i) ==
  /\ pc[i] = "acquiring" /\ reply[i] = "none"
  /\ \/ /\ ~blobExists
        /\ reply' = [reply EXCEPT ![i] = "notFound"]
        /\ UNCHANGED <<server, leaseId>>
     \/ /\ blobExists /\ leaseLeft > 0
        /\ reply' = [reply EXCEPT ![i] = "conflict"]
        /\ UNCHANGED <<server, leaseId>>
     \/ /\ blobExists /\ leaseLeft = 0
        /\ \E id \in FreshIds :
             /\ blobLease' = id
             /\ leaseId' = [leaseId EXCEPT ![i] = id]
        /\ leaseLeft' = LeaseDuration
        /\ reply' = [reply EXCEPT ![i] = "granted"]
        /\ UNCHANGED blobExists
  /\ UNCHANGED <<stray, pc, tokens, tasks, elapsed, timer, failures>>

ServeExists(i) ==
  /\ pc[i] = "checking" /\ reply[i] = "none"
  /\ reply' = [reply EXCEPT ![i] = IF blobExists THEN "exists" ELSE "absent"]
  /\ UNCHANGED <<server, stray, pc, tokens, tasks, leaseId, elapsed, timer,
                 failures>>

\* Creating overwrites a blob that is not leased, and its old lease id.
ServeCreate(i) ==
  /\ pc[i] = "creating" /\ reply[i] = "none"
  /\ \/ /\ leaseLeft > 0
        /\ reply' = [reply EXCEPT ![i] = "preconditionFailed"]
        /\ UNCHANGED server
     \/ /\ leaseLeft = 0
        /\ blobExists' = TRUE
        /\ blobLease' = NoId
        /\ reply' = [reply EXCEPT ![i] = "created"]
        /\ UNCHANGED leaseLeft
  /\ UNCHANGED <<stray, pc, tokens, tasks, leaseId, elapsed, timer, failures>>

ServeRenew(i) ==
  /\ renewTask[i] = "renewing" /\ reply[i] = "none"
  /\ \/ /\ blobLease = leaseId[i]
        /\ leaseLeft' = LeaseDuration
        /\ reply' = [reply EXCEPT ![i] = "renewed"]
     \/ /\ blobLease # leaseId[i]
        /\ reply' = [reply EXCEPT ![i] = "rejected"]
        /\ UNCHANGED leaseLeft
  /\ UNCHANGED <<blobExists, blobLease, stray, pc, tokens, tasks, leaseId,
                 elapsed, timer, failures>>

ServeRelease(i) ==
  /\ renewTask[i] = "releasing" /\ reply[i] = "none"
  /\ \/ /\ blobLease = leaseId[i]
        /\ blobLease' = NoId
        /\ leaseLeft' = 0
        /\ reply' = [reply EXCEPT ![i] = "released"]
     \/ /\ blobLease # leaseId[i]
        /\ reply' = [reply EXCEPT ![i] = "rejected"]
        /\ UNCHANGED <<blobLease, leaseLeft>>
  /\ UNCHANGED <<blobExists, stray, pc, tokens, tasks, leaseId, elapsed,
                 timer, failures>>

\* A call that was given up reaches the service late; nobody sees the answer.
ServeStray(r) ==
  /\ r \in stray
  /\ \/ /\ r.op = "acquiring" /\ blobExists /\ leaseLeft = 0
        /\ \E id \in FreshIds : blobLease' = id
        /\ leaseLeft' = LeaseDuration
        /\ UNCHANGED blobExists
     \/ /\ r.op = "creating" /\ leaseLeft = 0
        /\ blobExists' = TRUE
        /\ blobLease' = NoId
        /\ UNCHANGED leaseLeft
     \/ /\ r.op = "renewing" /\ blobLease = r.id
        /\ leaseLeft' = LeaseDuration
        /\ UNCHANGED <<blobExists, blobLease>>
     \/ /\ r.op = "releasing" /\ blobLease = r.id
        /\ blobLease' = NoId
        /\ leaseLeft' = 0
        /\ UNCHANGED blobExists
  /\ stray' = stray \ {r}
  /\ UNCHANGED <<pc, tokens, tasks, reply, leaseId, elapsed, timer, failures>>

\* It is lost, or changes nothing any more.
DropStray(r) ==
  /\ r \in stray
  /\ stray' = stray \ {r}
  /\ UNCHANGED <<server, pc, tokens, tasks, reply, leaseId, elapsed, timer,
                 failures>>

\* The answer to i's call is lost.  The client's LinearRetry sends the call
\* again (CallRetried) or, its attempts used up, throws (CallFails).
LoseReply(i, r) ==
  /\ failures < MaxFailures
  /\ failures' = failures + 1
  /\ reply' = [reply EXCEPT ![i] = r]
  /\ leaseId' = IF Trying(i) THEN [leaseId EXCEPT ![i] = NoId] ELSE leaseId
  /\ UNCHANGED <<server, stray, pc, tokens, tasks, elapsed, timer>>

CallRetried(i) ==
  /\ Calling(i) /\ reply[i] \notin Errors \cup {"none"}
  /\ LoseReply(i, "none")

CallFails(i) ==
  /\ Calling(i) /\ reply[i] \notin Errors
  /\ \E e \in Errors : LoseReply(i, e)

----------------------------------------------------------------------------
(* The acquire loop: RunTaskWhenBlobLeaseAcquired, TryAcquireLeaseOrWait,  *)
(* AcquireLeaseAsync and CreateBlobAsync.                                  *)

\* i's call is over: it leaves pc at p.
Continue(i, p) ==
  /\ pc' = [pc EXCEPT ![i] = p]
  /\ reply' = [reply EXCEPT ![i] = "none"]
  /\ elapsed' = [elapsed EXCEPT ![i] = 0]

LoopTest(i) ==
  /\ pc[i] = "loop"
  /\ Continue(i, IF token[i] THEN "done" ELSE "acquiring")
  /\ UNCHANGED <<server, stray, tokens, tasks, leaseId, timer, failures>>

\* The lease is acquired.  The leader task runs up to its first await before
\* KeepRenewingLease is called; both return at once if the token is cancelled,
\* and then nobody releases the lease.
Acquired(i) ==
  /\ pc[i] = "acquiring" /\ reply[i] = "granted"
  /\ Continue(i, IF token[i] THEN "leading" ELSE "starting")
  /\ leaseCts' = [leaseCts EXCEPT ![i] = token[i]]
  /\ leaderTask' =
       [leaderTask EXCEPT ![i] = IF token[i] THEN "ended" ELSE "working"]
  /\ renewTask' = [renewTask EXCEPT ![i] = IF token[i] THEN "ended" ELSE "none"]
  /\ UNCHANGED <<server, stray, token, stopClock, taskClock, leaseId, timer,
                 failures>>

\* Mutant: the loop gives up when the lease is taken.
OneShotNotAcquired(i) ==
  /\ pc[i] = "acquiring" /\ reply[i] \in {"conflict"} \cup Errors
  /\ Continue(i, IF reply[i] = "conflict" THEN "done" ELSE "waiting")
  /\ timer' = [timer EXCEPT ![i] = AcquireAttemptInterval]
  /\ UNCHANGED <<server, stray, tokens, tasks, leaseId, failures>>

\* Conflict and every other failure: wait for the next attempt.
NotAcquired(i) ==
  /\ pc[i] = "acquiring" /\ reply[i] \in {"conflict"} \cup Errors
  /\ Continue(i, "waiting")
  /\ timer' = [timer EXCEPT ![i] = AcquireAttemptInterval]
  /\ UNCHANGED <<server, stray, tokens, tasks, leaseId, failures>>

\* The blob is missing: create it, then try again.  What CreateBlobAsync does
\* not handle ends the loop and Run.
CreateBlob(i) ==
  /\ \/ /\ pc[i] = "acquiring" /\ reply[i] = "notFound"
        /\ Continue(i, "checking")
     \/ /\ pc[i] = "checking" /\ reply[i] = "absent"
        /\ Continue(i, "creating")
     \/ /\ pc[i] = "checking" /\ reply[i] = "exists"
        /\ Continue(i, "acquiring")
     \/ /\ pc[i] = "creating"
        /\ reply[i] \in {"created", "preconditionFailed", "otherError"}
        /\ Continue(i, "acquiring")
     \/ /\ \/ pc[i] = "checking" /\ reply[i] \in Errors
           \/ pc[i] = "creating" /\ reply[i] = "webError"
        /\ Continue(i, "faulted")
  /\ UNCHANGED <<server, stray, tokens, tasks, leaseId, timer, failures>>

WaitOver(i) ==
  /\ pc[i] = "waiting" /\ timer[i] = 0
  /\ Continue(i, "loop")
  /\ UNCHANGED <<server, stray, tokens, tasks, leaseId, timer, failures>>

\* OperationCanceledException out of the call or the delay: TryAcquireLease-
\* OrWait returns null.  A lease granted meanwhile has no holder.
TryCancelled(i) ==
  /\ token[i]
  /\ Trying(i) \/ pc[i] = "waiting"
  /\ Continue(i, "loop")
  /\ stray' = stray \cup Abandoned(i)
  /\ leaseId' = [leaseId EXCEPT ![i] = NoId]
  /\ timer' = [timer EXCEPT ![i] = 0]
  /\ UNCHANGED <<server, tokens, tasks, failures>>

----------------------------------------------------------------------------
(* The leader task (MyLeaderCoordinatorTask) and KeepRenewingLease.        *)

SetTask(i, t) ==
  /\ leaderTask' = [leaderTask EXCEPT ![i] = t]
  /\ taskClock' = [taskClock EXCEPT ![i] = 0]

\* The while test of KeepRenewingLease: send the next renewal.
SendRenewal(i) ==
  /\ renewTask' =
       [renewTask EXCEPT ![i] = IF leaseCts[i] THEN "ended" ELSE "renewing"]
  /\ reply' = [reply EXCEPT ![i] = "none"]
  /\ elapsed' = [elapsed EXCEPT ![i] = 0]

\* A round of work ends in Task.Delay, which throws if the token is cancelled.
EndOfRound(i) == SetTask(i, IF leaseCts[i] THEN "ended" ELSE "sleeping")

\* The leader task's code may throw as well.
TaskThrows(i) ==
  /\ failures < MaxFailures
  /\ failures' = failures + 1
  /\ SetTask(i, "ended")

\* The leader task's first round ends, in its first await or by throwing:
\* the renewal task starts.
FirstRoundOver(i) ==
  /\ pc[i] = "starting"
  /\ \/ EndOfRound(i) /\ UNCHANGED failures
     \/ TaskThrows(i)
  /\ SendRenewal(i)
  /\ pc' = [pc EXCEPT ![i] = "leading"]
  /\ UNCHANGED <<server, stray, tokens, leaseId, timer>>

RoundOver(i) ==
  /\ pc[i] \in {"leading", "joining"} /\ leaderTask[i] = "working"
  /\ \/ EndOfRound(i) /\ UNCHANGED failures
     \/ TaskThrows(i)
  /\ UNCHANGED <<server, stray, pc, tokens, renewTask, reply, leaseId, elapsed,
                 timer>>

\* The interval is over, or the delay is cancelled.
WakeUp(i) ==
  /\ leaderTask[i] = "sleeping"
  /\ taskClock[i] = TaskInterval \/ leaseCts[i]
  /\ SetTask(i, IF leaseCts[i] THEN "ended" ELSE "working")
  /\ UNCHANGED <<server, stray, pc, tokens, renewTask, reply, leaseId, elapsed,
                 timer, failures>>

\* Mutant: the delay counts from the answer to the renewal.
LateRenewed(i) ==
  /\ renewTask[i] = "renewing" /\ reply[i] = "renewed" /\ ~leaseCts[i]
  /\ renewTask' = [renewTask EXCEPT ![i] = "delaying"]
  /\ timer' = [timer EXCEPT ![i] = RenewInterval]
  /\ reply' = [reply EXCEPT ![i] = "none"]
  /\ elapsed' = [elapsed EXCEPT ![i] = 0]
  /\ UNCHANGED <<server, stray, pc, tokens, leaderTask, taskClock, leaseId,
                 failures>>

\* The delay until the next renewal counts from when the last one was sent.
\* Task.Delay throws at once if the token was cancelled during the renewal.
Renewed(i) ==
  /\ renewTask[i] = "renewing" /\ reply[i] = "renewed"
  /\ \/ /\ elapsed[i] >= RenewInterval
        /\ SendRenewal(i)
        /\ UNCHANGED timer
     \/ /\ elapsed[i] < RenewInterval /\ ~leaseCts[i]
        /\ renewTask' = [renewTask EXCEPT ![i] = "delaying"]
        /\ timer' = [timer EXCEPT ![i] = RenewInterval - elapsed[i]]
        /\ reply' = [reply EXCEPT ![i] = "none"]
        /\ elapsed' = [elapsed EXCEPT ![i] = 0]
     \/ /\ elapsed[i] < RenewInterval /\ leaseCts[i]
        /\ renewTask' = [renewTask EXCEPT ![i] = "releasing"]
        /\ reply' = [reply EXCEPT ![i] = "none"]
        /\ elapsed' = [elapsed EXCEPT ![i] = 0]
        /\ UNCHANGED timer
  /\ UNCHANGED <<server, stray, pc, tokens, leaderTask, taskClock, leaseId,
                 failures>>

\* Mutant: a renewal that failed is tried again after the interval.
HopefulRenewTaskEnds(i) ==
  /\ renewTask[i] = "renewing" /\ reply[i] \in {"rejected"} \cup Errors
  /\ renewTask' = [renewTask EXCEPT ![i] = "delaying"]
  /\ timer' = [timer EXCEPT ![i] = RenewInterval]
  /\ reply' = [reply EXCEPT ![i] = "none"]
  /\ elapsed' = [elapsed EXCEPT ![i] = 0]
  /\ UNCHANGED <<server, stray, pc, tokens, leaderTask, taskClock, leaseId,
                 failures>>

\* RenewLeaseAsync returned false; or ReleaseLease returned, whatever it did.
RenewTaskEnds(i) ==
  /\ \/ renewTask[i] = "renewing" /\ reply[i] \in {"rejected"} \cup Errors
     \/ renewTask[i] = "releasing" /\ reply[i] # "none"
  /\ renewTask' = [renewTask EXCEPT ![i] = "ended"]
  /\ reply' = [reply EXCEPT ![i] = "none"]
  /\ elapsed' = [elapsed EXCEPT ![i] = 0]
  /\ UNCHANGED <<server, stray, pc, tokens, leaderTask, taskClock, leaseId,
                 timer, failures>>

RenewDelayOver(i) ==
  /\ renewTask[i] = "delaying" /\ timer[i] = 0
  /\ SendRenewal(i)
  /\ UNCHANGED <<server, stray, pc, tokens, leaderTask, taskClock, leaseId,
                 timer, failures>>

\* OperationCanceledException out of the renewal or the delay: ReleaseLease.
RenewCancelled(i) ==
  /\ leaseCts[i]
  /\ renewTask[i] \in {"renewing", "delaying"}
  /\ stray' = stray \cup Abandoned(i)
  /\ renewTask' = [renewTask EXCEPT ![i] = "releasing"]
  /\ reply' = [reply EXCEPT ![i] = "none"]
  /\ elapsed' = [elapsed EXCEPT ![i] = 0]
  /\ timer' = [timer EXCEPT ![i] = 0]
  /\ UNCHANGED <<server, pc, tokens, leaderTask, taskClock, leaseId, failures>>

----------------------------------------------------------------------------
(* CancelAllWhenAnyCompletes.                                              *)

\* Any of the two tasks has ended: cancel the other.
WhenAny(i) ==
  /\ pc[i] = "leading"
  /\ leaderTask[i] = "ended" \/ renewTask[i] = "ended"
  /\ leaseCts' = [leaseCts EXCEPT ![i] = TRUE]
  /\ pc' = [pc EXCEPT ![i] = "joining"]
  /\ UNCHANGED <<server, stray, token, stopClock, tasks, reply, leaseId,
                 elapsed, timer, failures>>

\* Mutant: the loop goes on when the renewal task has ended.
UnawaitedWhenAll(i) ==
  /\ pc[i] = "joining"
  /\ renewTask[i] = "ended"
  /\ pc' = [pc EXCEPT ![i] = "loop"]
  /\ leaseCts' = [leaseCts EXCEPT ![i] = FALSE]
  /\ renewTask' = [renewTask EXCEPT ![i] = "none"]
  /\ leaseId' = [leaseId EXCEPT ![i] = NoId]
  /\ UNCHANGED <<server, stray, token, stopClock, leaderTask, taskClock, reply,
                 elapsed, timer, failures>>

\* Both have: whatever they threw is handled, and the loop goes on.
WhenAll(i) ==
  /\ pc[i] = "joining"
  /\ leaderTask[i] = "ended" /\ renewTask[i] = "ended"
  /\ pc' = [pc EXCEPT ![i] = "loop"]
  /\ leaseCts' = [leaseCts EXCEPT ![i] = FALSE]
  /\ leaderTask' = [leaderTask EXCEPT ![i] = "none"]
  /\ renewTask' = [renewTask EXCEPT ![i] = "none"]
  /\ leaseId' = [leaseId EXCEPT ![i] = NoId]
  /\ UNCHANGED <<server, stray, token, stopClock, taskClock, reply, elapsed,
                 timer, failures>>

----------------------------------------------------------------------------
(* The role: OnStop, and the host that ends and restarts its process.      *)

\* Mutant: the token of the leader task is not linked to the outer one.
UnlinkedOnStop(i) ==
  /\ pc[i] \notin {"faulted", "down", "stopped"} /\ ~token[i]
  /\ token' = [token EXCEPT ![i] = TRUE]
  /\ stopClock' = [stopClock EXCEPT ![i] = StopTimeout]
  /\ UNCHANGED <<server, stray, pc, leaseCts, tasks, reply, leaseId, elapsed,
                 timer, failures>>

OnStop(i) ==
  /\ pc[i] \notin {"faulted", "down", "stopped"} /\ ~token[i]
  /\ token' = [token EXCEPT ![i] = TRUE]
  /\ leaseCts' = [leaseCts EXCEPT ![i] = Leads(i)]
  /\ stopClock' = [stopClock EXCEPT ![i] = StopTimeout]
  /\ UNCHANGED <<server, stray, pc, tasks, reply, leaseId, elapsed, timer,
                 failures>>

\* The process of i is gone, with both of its tasks.  The host restarts the
\* instance unless it was stopping it.
ProcessEnds(i) ==
  /\ Continue(i, IF token[i] THEN "stopped" ELSE "down")
  /\ stray' = stray \cup Abandoned(i)
  /\ token' = [token EXCEPT ![i] = FALSE]
  /\ leaseCts' = [leaseCts EXCEPT ![i] = FALSE]
  /\ stopClock' = [stopClock EXCEPT ![i] = 0]
  /\ SetTask(i, "none")
  /\ renewTask' = [renewTask EXCEPT ![i] = "none"]
  /\ leaseId' = [leaseId EXCEPT ![i] = NoId]
  /\ timer' = [timer EXCEPT ![i] = 0]
  /\ UNCHANGED server

\* OnStop returns when Run has set runCompletedEvent, or has had enough.
OnStopReturns(i) ==
  /\ token[i]
  /\ pc[i] = "done" \/ stopClock[i] = 0
  /\ ProcessEnds(i)
  /\ UNCHANGED failures

Crash(i) ==
  /\ pc[i] \notin {"faulted", "down", "stopped"}
  /\ failures < MaxFailures
  /\ failures' = failures + 1
  /\ ProcessEnds(i)

\* Run's Wait() throws what RunTaskWhenMutexAcquired threw.
RunThrows(i) ==
  /\ pc[i] = "faulted"
  /\ ProcessEnds(i)
  /\ UNCHANGED failures

\* OnStart and Run of a new process.
Restart(i) ==
  /\ pc[i] = "down"
  /\ pc' = [pc EXCEPT ![i] = "loop"]
  /\ UNCHANGED <<server, stray, tokens, tasks, reply, leaseId, elapsed, timer,
                 failures>>

----------------------------------------------------------------------------
(* Time.                                                                   *)

\* A step of i that takes no time is due: a continuation that is ready to
\* run, a delay that is over or cancelled, the end of a round or a call.
Overdue(i) ==
  \/ pc[i] = "loop"
  \/ pc[i] = "leading" /\ "ended" \in {leaderTask[i], renewTask[i]}
  \/ pc[i] = "joining" /\ leaderTask[i] = "ended" /\ renewTask[i] = "ended"
  \/ Calling(i) /\ elapsed[i] = MaxLatency
  \/ (pc[i] = "waiting" \/ renewTask[i] = "delaying") /\ timer[i] = 0
  \/ (pc[i] = "waiting" \/ Trying(i)) /\ token[i]
  \/ renewTask[i] \in {"renewing", "delaying"} /\ leaseCts[i]
  \/ leaderTask[i] = "working" /\ taskClock[i] = MaxWork
  \/ leaderTask[i] = "sleeping" /\ taskClock[i] = TaskInterval

Down(n) == IF n > 0 THEN n - 1 ELSE 0

Tick ==
  /\ \A i \in Instances : ~Overdue(i)
  /\ leaseLeft' = Down(leaseLeft)
  /\ elapsed' =
       [i \in Instances |-> IF Calling(i) THEN elapsed[i] + 1 ELSE elapsed[i]]
  /\ timer' = [i \in Instances |-> Down(timer[i])]
  /\ taskClock' =
       [i \in Instances |-> IF leaderTask[i] \in {"working", "sleeping"}
                            THEN taskClock[i] + 1 ELSE taskClock[i]]
  /\ stopClock' = [i \in Instances |-> Down(stopClock[i])]
  /\ UNCHANGED <<blobExists, blobLease, stray, pc, token, leaseCts, leaderTask,
                 renewTask, reply, leaseId, failures>>

Service(i) ==
  \/ ServeAcquire(i)
  \/ ServeExists(i)
  \/ ServeCreate(i)
  \/ ServeRenew(i)
  \/ ServeRelease(i)

Local(i) ==
  \/ LoopTest(i)
  \/ Acquired(i)
  \/ NotAcquired(i)
  \/ CreateBlob(i)
  \/ WaitOver(i)
  \/ TryCancelled(i)
  \/ FirstRoundOver(i)
  \/ RoundOver(i)
  \/ WakeUp(i)
  \/ Renewed(i)
  \/ RenewTaskEnds(i)
  \/ RenewDelayOver(i)
  \/ RenewCancelled(i)
  \/ WhenAny(i)
  \/ WhenAll(i)

Host(i) ==
  \/ OnStopReturns(i)
  \/ RunThrows(i)
  \/ Restart(i)

Next ==
  \/ \E i \in Instances :
       \/ Service(i)
       \/ Local(i)
       \/ Host(i)
       \/ CallRetried(i)
       \/ CallFails(i)
       \/ OnStop(i)
       \/ Crash(i)
  \/ \E r \in stray :
       \/ ServeStray(r)
       \/ DropStray(r)
  \/ Tick

Spec == Init /\ [][Next]_vars

\* The service answers and loses what it has to, every instance runs, the
\* host restarts what crashed, and time goes on.  Nothing obliges the host to
\* stop or crash an instance, or a call to fail.
Fairness ==
  /\ \A i \in Instances :
       /\ WF_vars(Service(i))
       /\ WF_vars(Local(i))
       /\ WF_vars(Host(i))
  /\ WF_vars(\E r \in stray : DropStray(r))
  /\ WF_vars(Tick)

FairSpec == Spec /\ Fairness

----------------------------------------------------------------------------
(* What the mutex promises.                                                *)

\* i's leader task runs and has not been told to stop.
Leading(i) == leaderTask[i] \in {"working", "sleeping"} /\ ~leaseCts[i]

\* The ranges of the variables, with what relates them within an instance:
\* there is a leader task and a renewal task exactly while the loop awaits
\* them, and an instance waits for at most one call.
TypeOK ==
  /\ blobExists \in BOOLEAN
  /\ blobLease \in IdOrNone
  /\ leaseLeft \in 0..LeaseDuration
  /\ stray \subseteq [op : Ops, id : IdOrNone]
  /\ pc \in [Instances -> {"loop", "acquiring", "checking", "creating",
                           "waiting", "starting", "leading", "joining", "done",
                           "faulted", "down", "stopped"}]
  /\ token \in [Instances -> BOOLEAN]
  /\ leaseCts \in [Instances -> BOOLEAN]
  /\ leaderTask \in [Instances -> {"none", "working", "sleeping", "ended"}]
  /\ renewTask \in [Instances -> {"none", "renewing", "delaying", "releasing",
                                  "ended"}]
  /\ reply \in [Instances -> Errors \cup
                {"none", "granted", "conflict", "notFound", "exists", "absent",
                 "created", "preconditionFailed", "renewed", "rejected",
                 "released"}]
  /\ leaseId \in [Instances -> IdOrNone]
  /\ elapsed \in [Instances -> 0..MaxLatency]
  /\ timer \in [Instances -> Nat]
  /\ taskClock \in [Instances -> Nat]
  /\ stopClock \in [Instances -> 0..StopTimeout]
  /\ failures \in 0..MaxFailures
  /\ \A i \in Instances :
       /\ leaderTask[i] # "none" <=> Leads(i)
       /\ renewTask[i] # "none" <=> pc[i] \in {"leading", "joining"}

\* While an instance's leader task runs uncancelled, the lease on the blob is
\* the one it acquired, and it is running: KeepRenewingLease renews it in
\* time, or WhenAny cancels the task before another instance can acquire it.
LeaderHoldsLease ==
  \A i \in Instances :
    Leading(i) => leaseLeft > 0 /\ leaseId[i] # NoId /\ blobLease = leaseId[i]

\* No two instances run uncancelled leader tasks (the test
\* OnlyOneMutexStartsTask, under failures and in every interleaving).
OneLeader ==
  \A i, j \in Instances : Leading(i) /\ Leading(j) => i = j

\* OnStop sees Run complete before its five minutes are over, whatever the
\* loop was doing when the token was cancelled, unless Run has thrown.
StopInTime ==
  \A i \in Instances :
    token[i] /\ stopClock[i] = 0 => pc[i] \in {"done", "faulted"}

\* What Readme.htm says: the leader's tasks are performed by one instance
\* only.  A cancelled leader task performs its round to the end as well.
OneInstanceWorks ==
  \A i, j \in Instances :
    leaderTask[i] = "working" /\ leaderTask[j] = "working" => i = j

\* The loop over the lease implements the mutex of LeaderElection; in
\* particular CancelAllWhenAnyCompletes awaits the leader task, so an instance
\* never campaigns with its former leader task still at work.
Abstract == INSTANCE LeaderElection WITH
  leaders <- {i \in Instances : Leading(i)},
  working <- {i \in Instances : leaderTask[i] \in {"working", "sleeping"}}

Mutex == Abstract!Spec

\* The mutex is always acquired again, as in the test LeaderAborting-
\* CreatesNewLeader, unless the host stops every instance.
LeaderElected ==
  []<>(\E i \in Instances : Leading(i))
    \/ <>(\A i \in Instances : pc[i] = "stopped")

----------------------------------------------------------------------------
(* Why a leader always holds the lease.  The lease was granted, or renewed *)
(* for the last time, no earlier than the call that is known to have been  *)
(* served was sent; LeaseInv bounds how long ago that is in every state of *)
(* an uncancelled leader, so that the lease outlives the next answer.      *)

\* The longest time from sending the call that granted or renewed the lease
\* to sending the next renewal.
Slack ==
  IF RenewInterval > MaxLatency + MaxWork
  THEN RenewInterval ELSE MaxLatency + MaxWork

\* What the intervals in the code have to satisfy: 45 s + MaxLatency < 60 s,
\* and 2 * MaxLatency + MaxWork < 60 s.
TimelyRenewal == Slack + MaxLatency < LeaseDuration

\* i's lease was granted or renewed at most n ago.
HeldFor(i, n) ==
  /\ leaseId[i] # NoId
  /\ blobLease = leaseId[i]
  /\ leaseLeft + n >= LeaseDuration

ControlInv(i) ==
  /\ pc[i] = "starting" => leaderTask[i] = "working"
  /\ pc[i] = "joining" => leaseCts[i]
  /\ leaderTask[i] = "working" => taskClock[i] <= MaxWork
  /\ leaderTask[i] \in {"none", "ended"} => taskClock[i] = 0
  /\ renewTask[i] = "releasing" => leaseCts[i]

LeaseInv(i) ==
  /\ pc[i] = "acquiring" /\ reply[i] = "granted" => HeldFor(i, elapsed[i])
  /\ ~leaseCts[i] =>
       /\ pc[i] = "starting" => HeldFor(i, MaxLatency + taskClock[i])
       /\ renewTask[i] = "renewing" =>
            HeldFor(i, (IF reply[i] = "renewed" THEN 0 ELSE Slack) + elapsed[i])
       /\ renewTask[i] = "delaying" =>
            timer[i] <= RenewInterval /\ HeldFor(i, RenewInterval - timer[i])
       /\ renewTask[i] = "ended" => HeldFor(i, Slack + MaxLatency)

\* A lease id has one owner, and no release that is still under way is for a
\* lease that has an owner.
IdInv ==
  /\ \A i, j \in Instances : i # j /\ leaseId[i] = leaseId[j] => leaseId[i] = NoId
  /\ \A r \in stray : \A i \in Instances :
       r.op = "releasing" /\ r.id = leaseId[i] => leaseId[i] = NoId

IInv == TypeOK /\ IdInv /\ \A i \in Instances : ControlInv(i) /\ LeaseInv(i)

----------------------------------------------------------------------------
(* Why a role stops in time.  What is in the way of the loop when the token *)
(* is cancelled is one round or one sleep of the leader task and, side by   *)
(* side with it, one release of the lease; the rest takes no time.          *)

\* What the five minutes have to exceed, each by itself.
TimelyStop ==
  MaxWork < StopTimeout /\ TaskInterval < StopTimeout /\ MaxLatency < StopTimeout

\* From the cancelled token on: whatever the loop still waits for ends before
\* stopClock does.  A cancelled renewal, or its delay, is overdue at once.
StopInv(i) ==
  /\ leaderTask[i] = "sleeping" => taskClock[i] <= TaskInterval
  /\ token[i] =>
       /\ pc[i] \notin {"down", "stopped"}
       /\ pc[i] \notin {"done", "faulted"} => stopClock[i] > 0
       /\ Leads(i) => leaseCts[i]
       /\ leaderTask[i] = "working" => stopClock[i] + taskClock[i] > MaxWork
       /\ leaderTask[i] = "sleeping" => stopClock[i] + taskClock[i] > TaskInterval
       /\ renewTask[i] \in {"renewing", "delaying"} => stopClock[i] = StopTimeout
       /\ renewTask[i] = "releasing" => stopClock[i] + elapsed[i] > MaxLatency

StopIInv == TypeOK /\ \A i \in Instances : ControlInv(i) /\ StopInv(i)
=============================================================================
