-------------------- MODULE ExternalConfigurationManager --------------------
(***************************************************************************)
(* The manager of the external configuration store: it keeps a copy of the *)
(* settings in a blob (settingsCache, currentVersion), and a background    *)
(* loop (ConfigChangeMonitor) polls the blob's ETag and refreshes the copy.*)
(* The application's threads start and stop the monitor while operators    *)
(* upload and delete the blob and reads of it fail.                        *)
(*                                                                         *)
(* A checker is a task that runs CheckForConfigurationChangesAsync: the    *)
(* constructor (Ctor) and every monitor loop that is ever started.         *)
(***************************************************************************)
EXTENDS Naturals

CONSTANTS
  Keys, Values,           \* of the settings
  Monitors, Ctor,         \* the tasks that check, see above
  Starters, Stoppers,     \* threads that call StartMonitor, StopMonitor
  Nobody,                 \* neither a task nor a thread
  MaxVersion,             \* bound: uploads of the blob
  MaxFailures             \* bound: calls of the store that fail

Checkers == Monitors \cup {Ctor}
Callers  == Starters \cup Stoppers

ASSUME NamesAssumption ==
  /\ Ctor \notin Monitors
  /\ Nobody \notin Checkers \cup Callers
  /\ Starters \cap Stoppers = {}

ASSUME ValuesAssumption == Values # {}

ASSUME BoundsAssumption == MaxVersion \in Nat \ {0} /\ MaxFailures \in Nat

VARIABLES
  blobExists, version, stored,   \* the blob: its ETag and its settings
  phase,           \* of the manager: it is ready when its constructor returns
  settingsCache,   \* the copy, and the version it was read at (a ghost)
  currentVersion,
  changed,         \* the Subject: null, open, or ended by OnError
  notified,        \* what was passed to its OnNext
  cts, monitoringTask,
  timerSemaphore, syncCacheSemaphore,   \* who holds them
  check,           \* where each checker is
  latestVersion, latestSettings,        \* its local variables
  call,            \* where each thread's call of the manager is
  failures

blob  == <<blobExists, version, stored>>
cache == <<settingsCache, currentVersion, notified>>
local == <<latestVersion, latestSettings>>
vars  == <<blob, phase, cache, changed, cts, monitoringTask, timerSemaphore,
           syncCacheSemaphore, check, local, call, failures>>

\* null, which is never read.
NoSettings == [at |-> 0, values |-> [k \in Keys |-> CHOOSE v \in Values : TRUE]]
Settings == [at : 0..MaxVersion, values : [Keys -> Values]]
Pairs(settings) == {<<k, settings.values[k]>> : k \in Keys}

Ended(t) == check[t] \in {"completed", "canceled"}

Init ==
  /\ blobExists = TRUE
  /\ version = 1
  /\ stored \in [Keys -> Values]
  /\ phase = "constructing"
  /\ settingsCache = NoSettings
  /\ currentVersion = 0
  /\ changed = "null"
  /\ notified = {}
  /\ cts = FALSE
  /\ monitoringTask = Nobody
  /\ timerSemaphore = Nobody
  /\ syncCacheSemaphore = Nobody
  /\ check = [t \in Checkers |-> IF t = Ctor THEN "enter" ELSE "off"]
  /\ latestVersion = [t \in Checkers |-> 0]
  /\ latestSettings = [t \in Checkers |-> NoSettings]
  /\ call = [c \in Callers |-> "idle"]
  /\ failures = 0

----------------------------------------------------------------------------
(* The operators of the store (external), and other instances' OnStop.     *)

Upload ==
  /\ version < MaxVersion
  /\ version' = version + 1
  /\ blobExists' = TRUE
  /\ stored' \in [Keys -> Values]
  /\ UNCHANGED <<phase, cache, changed, cts, monitoringTask, timerSemaphore,
                 syncCacheSemaphore, check, local, call, failures>>

Delete ==
  /\ blobExists
  /\ blobExists' = FALSE
  /\ UNCHANGED <<version, stored, phase, cache, changed, cts, monitoringTask,
                 timerSemaphore, syncCacheSemaphore, check, local, call,
                 failures>>

----------------------------------------------------------------------------
(* CheckForConfigurationChangesAsync.                                      *)

EnterCheck(t) ==
  /\ check[t] = "enter"
  /\ syncCacheSemaphore = Nobody
  /\ syncCacheSemaphore' = t
  /\ check' = [check EXCEPT ![t] = "version"]
  /\ UNCHANGED <<blob, phase, cache, changed, cts, monitoringTask,
                 timerSemaphore, local, call, failures>>

\* The check returns: the loop goes on to its delay, and the constructor
\* creates the subject and returns.
LeaveCheck(t) ==
  /\ latestVersion' = [latestVersion EXCEPT ![t] = 0]
  /\ latestSettings' = [latestSettings EXCEPT ![t] = NoSettings]
  /\ syncCacheSemaphore' = Nobody
  /\ check' = [check EXCEPT ![t] = IF t = Ctor THEN "completed" ELSE "delay"]

\* Mutant: nothing is released when the versions are the same.
StuckGetVersion(t) ==
  /\ check[t] = "version" /\ blobExists
  /\ latestVersion' = [latestVersion EXCEPT ![t] = version]
  /\ check' = [check EXCEPT ![t] =
                 IF currentVersion = version THEN "delay" ELSE "find"]
  /\ UNCHANGED <<blob, phase, cache, changed, cts, monitoringTask,
                 timerSemaphore, syncCacheSemaphore, latestSettings, call,
                 failures>>

\* Mutant: the version is recorded before the settings are read.
EagerGetVersion(t) ==
  /\ check[t] = "version" /\ blobExists
  /\ currentVersion' = version
  /\ \/ /\ currentVersion = version
        /\ LeaveCheck(t)
     \/ /\ currentVersion # version
        /\ latestVersion' = [latestVersion EXCEPT ![t] = version]
        /\ check' = [check EXCEPT ![t] = "find"]
        /\ UNCHANGED <<syncCacheSemaphore, latestSettings>>
  /\ UNCHANGED <<blob, phase, settingsCache, notified, changed, cts,
                 monitoringTask, timerSemaphore, call, failures>>

GetVersion(t) ==
  /\ check[t] = "version" /\ blobExists
  /\ \/ /\ currentVersion = version
        /\ LeaveCheck(t)
     \/ /\ currentVersion # version
        /\ latestVersion' = [latestVersion EXCEPT ![t] = version]
        /\ check' = [check EXCEPT ![t] = "find"]
        /\ UNCHANGED <<syncCacheSemaphore, latestSettings>>
  /\ UNCHANGED <<blob, phase, cache, changed, cts, monitoringTask,
                 timerSemaphore, call, failures>>

FindAll(t) ==
  /\ check[t] = "find" /\ blobExists
  /\ latestSettings' =
       [latestSettings EXCEPT ![t] = [at |-> version, values |-> stored]]
  /\ check' = [check EXCEPT ![t] = "found"]
  /\ UNCHANGED <<blob, phase, cache, changed, cts, monitoringTask,
                 timerSemaphore, syncCacheSemaphore, latestVersion, call,
                 failures>>

\* Mutant: the version recorded is the blob's when the refresh is done.
LateRefresh(t) ==
  /\ check[t] = "found"
  /\ settingsCache' = latestSettings[t]
  /\ currentVersion' = version
  /\ LeaveCheck(t)
  /\ phase' = IF t = Ctor THEN "ready" ELSE phase
  /\ changed' = IF t = Ctor THEN "open" ELSE changed
  /\ UNCHANGED <<blob, notified, cts, monitoringTask, timerSemaphore, call,
                 failures>>

\* Replace the copy, notify what differs from settingsCache, which is the new
\* copy by now, and record the version that was read before the settings.
Refresh(t) ==
  /\ check[t] = "found"
  /\ settingsCache' = latestSettings[t]
  /\ notified' = notified \cup (Pairs(latestSettings[t]) \ Pairs(settingsCache'))
  /\ currentVersion' = latestVersion[t]
  /\ LeaveCheck(t)
  /\ phase' = IF t = Ctor THEN "ready" ELSE phase
  /\ changed' = IF t = Ctor THEN "open" ELSE changed
  /\ UNCHANGED <<blob, cts, monitoringTask, timerSemaphore, call, failures>>

\* A read throws: OnError ends the subject.  In the constructor there is no
\* subject yet, so the handler itself throws, and the Lazy instance of
\* ExternalConfiguration keeps that exception for good.
CheckFails(t) ==
  /\ check[t] \in {"version", "find"}
  /\ \/ ~blobExists /\ UNCHANGED failures
     \/ blobExists /\ failures < MaxFailures /\ failures' = failures + 1
  /\ LeaveCheck(t)
  /\ changed' = IF changed = "null" THEN "null" ELSE "failed"
  /\ phase' = IF changed = "null" THEN "failed" ELSE phase
  /\ UNCHANGED <<blob, cache, cts, monitoringTask, timerSemaphore, call>>

----------------------------------------------------------------------------
(* ConfigChangeMonitor.                                                    *)

LoopStep(t, from, to) ==
  /\ check[t] = from
  /\ check' = [check EXCEPT ![t] = to]
  /\ UNCHANGED <<blob, phase, cache, changed, cts, monitoringTask,
                 timerSemaphore, syncCacheSemaphore, local, call, failures>>

LoopTest(t) == LoopStep(t, "test", IF cts THEN "completed" ELSE "enter")

DelayOver(t) == ~cts /\ LoopStep(t, "delay", "test")

\* Task.Delay throws when the token is, or has been, cancelled.
DelayCanceled(t) == cts /\ LoopStep(t, "delay", "canceled")

----------------------------------------------------------------------------
(* StartMonitor, StopMonitor and Dispose, in the thread c.                 *)

Call(c, s) == call' = [call EXCEPT ![c] = s]

IsMonitoring == monitoringTask # Nobody /\ ~Ended(monitoringTask)

\* IsMonitoring without the semaphore reads monitoringTask twice: it may have
\* become null in between, and then it throws.
StartMonitor(c) ==
  /\ c \in Starters /\ phase = "ready"
  /\ \/ /\ call[c] = "idle"
        /\ Call(c, IF monitoringTask = Nobody THEN "starting" ELSE "peeked")
     \/ /\ call[c] = "peeked"
        /\ Call(c, IF monitoringTask = Nobody THEN "threw"
                   ELSE IF IsMonitoring THEN "returned" ELSE "starting")
  /\ UNCHANGED <<blob, phase, cache, changed, cts, monitoringTask,
                 timerSemaphore, syncCacheSemaphore, check, local, failures>>

\* The loops when t is started; one that has ended is forgotten.
Started(t) ==
  [u \in Checkers |-> IF u = t THEN "test"
                      ELSE IF u \in Monitors /\ Ended(u) THEN "off" ELSE check[u]]

\* Mutant: no second check.
UncheckedStartLoop(c) ==
  /\ call[c] = "starting"
  /\ timerSemaphore = Nobody
  /\ Call(c, "returned")
  /\ \E t \in Monitors :
       /\ check[t] = "off" \/ Ended(t)
       /\ monitoringTask' = t
       /\ check' = Started(t)
  /\ UNCHANGED <<blob, phase, cache, changed, cts, timerSemaphore,
                 syncCacheSemaphore, local, failures>>

\* With the semaphore: check again, and start a new loop.
StartLoop(c) ==
  /\ call[c] = "starting"
  /\ timerSemaphore = Nobody
  /\ Call(c, "returned")
  /\ \/ /\ IsMonitoring
        /\ UNCHANGED <<monitoringTask, check>>
     \/ /\ ~IsMonitoring
        /\ \E t \in Monitors :
             /\ check[t] = "off" \/ Ended(t)
             /\ monitoringTask' = t
             /\ check' = Started(t)
  /\ UNCHANGED <<blob, phase, cache, changed, cts, timerSemaphore,
                 syncCacheSemaphore, local, failures>>

\* Mutant: the loop is cancelled, and forgotten without waiting for it.
HastyStopMonitor(c) ==
  /\ c \in Stoppers /\ phase = "ready"
  /\ call[c] = "idle"
  /\ timerSemaphore = Nobody
  /\ cts' = TRUE
  /\ monitoringTask' = Nobody
  /\ Call(c, "returned")
  /\ UNCHANGED <<blob, phase, cache, changed, timerSemaphore,
                 syncCacheSemaphore, check, local, failures>>

\* Mutant: the token is not cancelled.
PatientStopMonitor(c) ==
  /\ c \in Stoppers /\ phase = "ready"
  /\ call[c] = "idle"
  /\ timerSemaphore = Nobody
  /\ monitoringTask # Nobody
  /\ Call(c, "joining")
  /\ timerSemaphore' = c
  /\ UNCHANGED <<blob, phase, cache, changed, cts, monitoringTask,
                 syncCacheSemaphore, check, local, failures>>

\* Cancel the loop and wait for it, which throws if there never was one.
StopMonitor(c) ==
  /\ c \in Stoppers /\ phase = "ready"
  /\ call[c] = "idle"
  /\ timerSemaphore = Nobody
  /\ cts' = TRUE
  /\ \/ /\ monitoringTask = Nobody
        /\ Call(c, "threw")
        /\ UNCHANGED timerSemaphore
     \/ /\ monitoringTask # Nobody
        /\ Call(c, "joining")
        /\ timerSemaphore' = c
  /\ UNCHANGED <<blob, phase, cache, changed, monitoringTask,
                 syncCacheSemaphore, check, local, failures>>

\* Wait() throws for a loop that was cancelled in its delay.
Joined(c) ==
  /\ call[c] = "joining"
  /\ Ended(monitoringTask)
  /\ \/ /\ check[monitoringTask] = "completed"
        /\ monitoringTask' = Nobody
        /\ Call(c, "returned")
     \/ /\ check[monitoringTask] = "canceled"
        /\ Call(c, "threw")
        /\ UNCHANGED monitoringTask
  /\ timerSemaphore' = Nobody
  /\ UNCHANGED <<blob, phase, cache, changed, cts, syncCacheSemaphore, check,
                 local, failures>>

Dispose(c) ==
  /\ c \in Stoppers /\ phase = "ready"
  /\ call[c] = "idle"
  /\ cts' = TRUE
  /\ UNCHANGED <<blob, phase, cache, changed, monitoringTask, timerSemaphore,
                 syncCacheSemaphore, check, local, call, failures>>

\* The thread goes on to its next call.
NextCall(c) ==
  /\ call[c] \in {"returned", "threw"}
  /\ Call(c, "idle")
  /\ UNCHANGED <<blob, phase, cache, changed, cts, monitoringTask,
                 timerSemaphore, syncCacheSemaphore, check, local, failures>>

----------------------------------------------------------------------------
Checker(t) ==
  \/ EnterCheck(t)
  \/ GetVersion(t)
  \/ FindAll(t)
  \/ Refresh(t)
  \/ CheckFails(t)
  \/ LoopTest(t)
  \/ DelayOver(t)
  \/ DelayCanceled(t)

Calls(c) ==
  \/ StartMonitor(c)
  \/ StartLoop(c)
  \/ StopMonitor(c)
  \/ Joined(c)

Next ==
  \/ Upload
  \/ Delete
  \/ \E t \in Checkers : Checker(t)
  \/ \E c \in Callers : Calls(c) \/ Dispose(c) \/ NextCall(c)

Spec == Init /\ [][Next]_vars

----------------------------------------------------------------------------
\* The ranges of the variables; and a semaphore is held exactly while its
\* holder is between Wait and Release, on every way out.
TypeOK ==
  /\ blobExists \in BOOLEAN
  /\ version \in 1..MaxVersion
  /\ stored \in [Keys -> Values]
  /\ phase \in {"constructing", "ready", "failed"}
  /\ settingsCache \in Settings
  /\ currentVersion \in 0..MaxVersion
  /\ changed \in {"null", "open", "failed"}
  /\ notified \subseteq Keys \X Values
  /\ cts \in BOOLEAN
  /\ monitoringTask \in Monitors \cup {Nobody}
  /\ timerSemaphore \in Stoppers \cup {Nobody}
  /\ syncCacheSemaphore \in Checkers \cup {Nobody}
  /\ check \in [Checkers -> {"off", "enter", "version", "find", "found", "delay",
                             "test", "completed", "canceled"}]
  /\ latestVersion \in [Checkers -> 0..MaxVersion]
  /\ latestSettings \in [Checkers -> Settings]
  /\ call \in [Callers -> {"idle", "peeked", "starting", "joining", "returned",
                           "threw"}]
  /\ failures \in 0..MaxFailures
  /\ \A t \in Checkers :
       syncCacheSemaphore = t <=> check[t] \in {"version", "find", "found"}
  /\ \A c \in Callers : timerSemaphore = c <=> call[c] = "joining"

\* A check that finds the version unchanged is right to skip the refresh: then
\* the cache holds the settings of the blob, although the version and the
\* settings are read by two calls with uploads in between.
UpToDate == currentVersion = version => settingsCache.values = stored

Running(t) == check[t] # "off" /\ ~Ended(t)

\* However the threads' calls interleave, one loop runs at most.
OneMonitor ==
  \A s, t \in Monitors : Running(s) /\ Running(t) => s = t

\* After StopMonitor is over, by returning or by an exception, no loop reads
\* the store or changes the cache any more, even if it is started again.
StoppedForGood ==
  \A c \in Stoppers : call[c] \in {"returned", "threw"} =>
    \A t \in Monitors : check[t] \notin {"version", "find", "found"}

----------------------------------------------------------------------------
(* The inductive invariant.                                                *)

\* Settings that carry the blob's current version are the blob's.
Current(settings) ==
  /\ settings.at <= version
  /\ settings.at = version => settings.values = stored

\* The version on record, or about to be recorded, is never newer than the
\* settings it goes with: it is read first.
VersionsInv ==
  /\ Current(settingsCache)
  /\ currentVersion <= settingsCache.at
  /\ \A t \in Checkers :
       /\ Current(latestSettings[t])
       /\ latestVersion[t] <= version
       /\ check[t] = "found" => latestVersion[t] <= latestSettings[t].at

\* The running loop is the one that monitoringTask refers to.
MonitorInv == \A t \in Monitors : Running(t) => t = monitoringTask

\* A thread that stops the monitor has cancelled it, which is for good, and
\* waits for a loop until none is left but those that start up to end at once.
StopInv ==
  \A c \in Stoppers :
    /\ call[c] \notin {"peeked", "starting"}
    /\ call[c] \in {"joining", "returned", "threw"} => cts
    /\ call[c] = "joining" => monitoringTask # Nobody
    /\ call[c] \in {"returned", "threw"} =>
         \A t \in Monitors :
           check[t] \in {"off", "completed", "canceled", "test"}

IInv == TypeOK /\ VersionsInv /\ MonitorInv /\ StopInv

----------------------------------------------------------------------------
\* While the monitor is left running and the blob is there, the cache comes to
\* hold the settings of the last upload, whatever reads failed before.
CacheConverges ==
  <>[](blobExists /\ \E t \in Monitors : Running(t))
    => <>[](settingsCache.values = stored)

\* What Readme.htm says: when the manager detects a change in the store, it
\* notifies the application; a refresh passes every setting that it changes to
\* the subscribers of Changed, unless OnError has ended them.
ChangesNotified ==
  [][settingsCache.at > 0 /\ changed = "open" =>
       Pairs(settingsCache') \ Pairs(settingsCache) \subseteq notified']_vars
=============================================================================
