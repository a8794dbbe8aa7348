--------------------- MODULE ExternalConfigurationRole ---------------------
(***************************************************************************)
(* The worker role around the configuration manager.  OnStart uploads the  *)
(* configuration blobs and, by subscribing to the manager, constructs it;  *)
(* Run, in a thread of its own, starts the monitor and waits for           *)
(* completeEvent; OnStop, in the fabric's thread, stops the monitor,       *)
(* deletes the blobs and sets the event.  A role that fails, or has been   *)
(* stopped, is started again, in a new process with a new manager.  Other  *)
(* threads of the process may call the manager too, which is public.       *)
(***************************************************************************)
EXTENDS ExternalConfigurationManager

CONSTANTS RunThread, StopThread   \* the role's own, see above

ASSUME ThreadsAssumption == RunThread \in Starters /\ StopThread \in Stoppers

VARIABLES
  process,        \* down, starting (in OnStart) or up
  completeEvent

manager  == <<phase, cache, changed, cts, monitoringTask, timerSemaphore,
              syncCacheSemaphore, check, local, call>>
roleVars == <<process, completeEvent>>

\* The first OnStart has uploaded the blobs.
RoleInit ==
  /\ Init
  /\ process = "starting"
  /\ completeEvent = FALSE

\* With its process the manager is gone, and the next one is not constructed yet.
EndProcess ==
  /\ process' = "down"
  /\ completeEvent' = FALSE
  /\ phase' = "constructing" /\ changed' = "null"
  /\ settingsCache' = NoSettings /\ currentVersion' = 0 /\ notified' = {}
  /\ cts' = FALSE /\ monitoringTask' = Nobody
  /\ timerSemaphore' = Nobody /\ syncCacheSemaphore' = Nobody
  /\ check' = [t \in Checkers |-> IF t = Ctor THEN "enter" ELSE "off"]
  /\ latestVersion' = [t \in Checkers |-> 0]
  /\ latestSettings' = [t \in Checkers |-> NoSettings]
  /\ call' = [c \in Callers |-> "idle"]
  /\ UNCHANGED <<blob, failures>>

\* A call of the store fails.
StoreFails == failures < MaxFailures /\ failures' = failures + 1

\* A new process uploads the blobs, with the settings it was shipped with, and
\* then uses the manager for the first time, which constructs it.
OnStart ==
  /\ process = "down"
  /\ process' = "starting"
  /\ version < MaxVersion
  /\ version' = version + 1 /\ blobExists' = TRUE
  /\ stored' \in [Keys -> Values]
  /\ UNCHANGED <<manager, failures, completeEvent>>

\* The upload fails and OnStart throws; if the store has served it all the same,
\* that was Upload.  The manager was not used yet.
OnStartFails ==
  /\ process = "down" /\ StoreFails
  /\ UNCHANGED <<blob, manager, roleVars>>

\* Mutant: the exception of the constructor is caught.
CalmOnStartEnds ==
  /\ process = "starting"
  /\ phase \in {"ready", "failed"}
  /\ process' = "up"
  /\ UNCHANGED <<vars, completeEvent>>

\* The constructor has returned or thrown, and so does OnStart.
OnStartEnds ==
  /\ process = "starting"
  /\ \/ /\ phase = "ready"
        /\ process' = "up"
        /\ UNCHANGED <<vars, completeEvent>>
     \/ phase = "failed" /\ EndProcess

Run ==
  /\ process = "up"
  /\ StartMonitor(RunThread) \/ StartLoop(RunThread)
  /\ UNCHANGED roleVars

\* OnStop up to the end of StopMonitor.
OnStop ==
  /\ process = "up"
  /\ StopMonitor(StopThread) \/ Joined(StopThread)
  /\ UNCHANGED roleVars

\* Mutant: OnStop cleans up while the monitor is still stopping.
EagerCleansUp ==
  /\ process = "up"
  /\ call[StopThread] \in {"joining", "returned"} /\ ~completeEvent
  /\ blobExists' = FALSE
  /\ completeEvent' = TRUE
  /\ UNCHANGED <<version, stored, manager, failures, process>>

\* The rest of OnStop, unless StopMonitor threw: DeleteConfigurationBlob, and
\* the event that Run waits for.
CleansUp ==
  /\ process = "up"
  /\ call[StopThread] = "returned" /\ ~completeEvent
  /\ blobExists' = FALSE
  /\ completeEvent' = TRUE
  /\ UNCHANGED <<version, stored, manager, failures, process>>

\* The deletion fails, and its exception leaves OnStop; if the store has served it
\* all the same, that was Delete.
CleanupFails ==
  /\ process = "up"
  /\ call[StopThread] = "returned" /\ ~completeEvent
  /\ StoreFails
  /\ Call(StopThread, "threw")
  /\ UNCHANGED <<blob, phase, cache, changed, cts, monitoringTask, timerSemaphore,
                 syncCacheSemaphore, check, local, roleVars>>

\* OnStop or Run has thrown, or OnStop has returned.
ProcessEnds ==
  /\ process = "up"
  /\ completeEvent \/ \E c \in {RunThread, StopThread} : call[c] = "threw"
  /\ EndProcess

\* The other threads of the process.
Others(c) ==
  /\ process # "down" /\ c \notin {RunThread, StopThread}
  /\ Calls(c) \/ Dispose(c) \/ NextCall(c)
  /\ UNCHANGED roleVars

Checks(t) == process # "down" /\ Checker(t) /\ UNCHANGED roleVars

\* The operators of the store.
Store == (Upload \/ Delete) /\ UNCHANGED roleVars

RoleNext ==
  \/ OnStart
  \/ OnStartFails
  \/ OnStartEnds
  \/ Run
  \/ OnStop
  \/ CleansUp
  \/ CleanupFails
  \/ ProcessEnds
  \/ Store
  \/ \E t \in Checkers : Checks(t)
  \/ \E c \in Callers : Others(c)

RoleSpec == RoleInit /\ [][RoleNext]_<<vars, roleVars>>

\* A task that checks runs, delays end, calls of the store are answered or fail,
\* a Wait returns when the loop has ended, and the fabric starts the role and
\* ends its process.  Nobody need start or stop a monitor, or stop the role; of
\* all checkers one at a time does anything, and one thread joins.
Fairness ==
  /\ WF_<<vars, roleVars>>(\E t \in Checkers : Checks(t))
  /\ WF_<<vars, roleVars>>(
       process # "down" /\ (\E c \in Stoppers : Joined(c)) /\ UNCHANGED roleVars)
  /\ WF_<<vars, roleVars>>(OnStart \/ OnStartEnds \/ CleansUp \/ ProcessEnds)

RoleFairSpec == RoleSpec /\ Fairness

----------------------------------------------------------------------------
\* The ranges of the variables; a process that is up has its manager, and no
\* thread is in a call of it in a process that is not there.
RoleTypeOK ==
  /\ process \in {"down", "starting", "up"}
  /\ completeEvent \in BOOLEAN
  /\ process = "up" => phase = "ready"
  /\ process = "down" =>
       phase = "constructing" /\ \A c \in Callers : call[c] = "idle"
  /\ completeEvent => process = "up" /\ call[StopThread] = "returned"

\* The deletion of the blobs by OnStop is not taken for a failure of the store:
\* no check is left that could tell the subscribers so.
CleanupUnnoticed ==
  [][(changed = "open" /\ changed' = "failed") => ~completeEvent]_<<vars, roleVars>>

----------------------------------------------------------------------------
(* The inductive invariant.                                                *)

\* A manager that is there was constructed, and its subject with it.
Constructed == phase = "ready" => changed # "null" /\ check[Ctor] = "completed"

RoleInv == IInv /\ RoleTypeOK /\ Constructed

----------------------------------------------------------------------------
\* A failed upload, and a failed read in the constructor, whose exception the Lazy
\* instance keeps, cost one start of the role and no more, unless MaxVersion ends
\* the uploads.
RoleRecovers ==
  []<>((process = "up" /\ phase = "ready") \/ version = MaxVersion)

\* An OnStop that has begun ends, and the process with it, whatever other
\* threads start and stop the monitor at the same time.
OnStopEnds == call[StopThread] = "joining" ~> process = "down"

\* What the comments of OnStop say it does after StopMonitor, "Delete config
\* blobs, cleanup" and "Exit Run loop": where it has cancelled a monitor that was
\* waiting for its next round, and Run waits for the event, the process does not
\* end without that.
OnStopCleansUp ==
  [][process = "up" /\ process' = "down" /\ call[RunThread] = "returned"
       /\ (\E t \in Monitors : check[t] = "canceled")
     => completeEvent]_<<vars, roleVars>>
=============================================================================
