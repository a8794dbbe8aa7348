------------------- MODULE ExternalConfigurationRoleProofs -------------------
(***************************************************************************)
(* Theorems about ExternalConfigurationRole: what is proved of the manager *)
(* in ExternalConfigurationManagerProofs holds in a role that is restarted *)
(* again and again too; and the role's own invariants.                     *)
(***************************************************************************)
EXTENDS ExternalConfigurationRole, ExternalConfigurationManagerProofs, TLAPS

\* The steps of the manager and the store, as the role takes them.
Inner ==
  \/ Store
  \/ \E t \in Checkers : Checks(t)
  \/ Run \/ OnStop
  \/ \E c \in Callers : Others(c)

LEMMA InnerIsNext == Inner => Next
BY ThreadsAssumption
DEF Inner, Store, Checks, Run, OnStop, Others, Next, Calls, Callers

LEMMA NewManager ==
  ASSUME IInv, EndProcess
  PROVE  IInv'
<1>1. NoSettings \in Settings /\ NoSettings.at = 0 /\ version \in Nat /\ version > 0
  BY NoSettingsType, BoundsAssumption DEF IInv, TypeOK
<1>2. TypeOK'
  <2> USE NamesAssumption, BoundsAssumption DEF EndProcess, Checkers, Callers
  <2>1. check' \in [Checkers -> {"off", "enter", "version", "find", "found", "delay",
                                 "test", "completed", "canceled"}]
        /\ \A t \in Checkers : check'[t] \notin {"version", "find", "found"}
    OBVIOUS
  <2>2. call' \in [Callers -> {"idle", "peeked", "starting", "joining", "returned",
                               "threw"}]
        /\ \A c \in Callers : call'[c] # "joining"
    OBVIOUS
  <2>3. /\ latestVersion' \in [Checkers -> 0..MaxVersion]
        /\ latestSettings' \in [Checkers -> Settings]
        /\ settingsCache' \in Settings /\ currentVersion' \in 0..MaxVersion
        /\ notified' \subseteq Keys \X Values
    BY <1>1
  <2>4. /\ blobExists' \in BOOLEAN /\ version' \in 1..MaxVersion
        /\ stored' \in [Keys -> Values] /\ failures' \in 0..MaxFailures
    BY DEF IInv, TypeOK, blob
  <2>5. /\ phase' \in {"constructing", "ready", "failed"}
        /\ changed' \in {"null", "open", "failed"} /\ cts' \in BOOLEAN
        /\ monitoringTask' \in Monitors \cup {Nobody}
        /\ timerSemaphore' \in Stoppers \cup {Nobody}
        /\ syncCacheSemaphore' \in Checkers \cup {Nobody}
    OBVIOUS
  <2>6. /\ \A t \in Checkers :
             syncCacheSemaphore' = t <=> check'[t] \in {"version", "find", "found"}
        /\ \A c \in Callers : timerSemaphore' = c <=> call'[c] = "joining"
    BY <2>1, <2>2
  <2> QED BY <2>1, <2>2, <2>3, <2>4, <2>5, <2>6, Zenon DEF TypeOK
<1>3. VersionsInv'
  BY <1>1 DEF EndProcess, VersionsInv, Current, blob
<1>4. MonitorInv' /\ StopInv'
  BY NamesAssumption DEF EndProcess, MonitorInv, StopInv, Running, Checkers, Callers
<1> QED BY <1>2, <1>3, <1>4 DEF IInv

\* OnStart's upload is like any other.
LEMMA UploadedAgain ==
  ASSUME IInv, OnStart
  PROVE  IInv'
<1>1. Upload
  BY DEF OnStart, Upload, manager, cache, local
<1> QED BY <1>1, NextIInv DEF Next

\* The deletion is like any other.
LEMMA DeletedOrNot ==
  ASSUME IInv, CleansUp
  PROVE  IInv'
<1>1. CASE blobExists
  <2>1. Delete
    BY <1>1 DEF CleansUp, Delete, manager, cache, local
  <2> QED BY <2>1, NextIInv DEF Next
<1>2. CASE ~blobExists
  <2>1. UNCHANGED vars
    BY <1>2 DEF IInv, TypeOK, CleansUp, vars, blob, manager, cache, local
  <2> QED BY <2>1, NextIInv
<1> QED BY <1>1, <1>2

\* What fails changes no more than the count of failures and the call of OnStop.
LEMMA FailedOrNot ==
  ASSUME IInv, OnStartFails \/ CleanupFails
  PROVE  IInv'
<1> USE NamesAssumption, ThreadsAssumption, BoundsAssumption DEF IInv
<1>1. CASE OnStartFails
  <2>1. failures' \in 0..MaxFailures /\ UNCHANGED <<blob, manager>>
    BY <1>1 DEF TypeOK, OnStartFails, StoreFails
  <2>2. TypeOK'
    BY <2>1 DEF TypeOK, blob, manager, cache, local
  <2>3. VersionsInv' /\ MonitorInv' /\ StopInv'
    BY <2>1 DEF VersionsInv, MonitorInv, StopInv, Current, Running, Ended, blob, manager,
                cache, local
  <2> QED BY <2>2, <2>3
<1>2. CASE CleanupFails
  <2>1. /\ failures' \in 0..MaxFailures
        /\ call' = [call EXCEPT ![StopThread] = "threw"] /\ call[StopThread] = "returned"
        /\ UNCHANGED <<blob, phase, cache, changed, cts, monitoringTask, timerSemaphore,
                       syncCacheSemaphore, check, local>>
    BY <1>2 DEF TypeOK, CleanupFails, StoreFails, Call
  <2>2. call \in [Callers -> {"idle", "peeked", "starting", "joining", "returned", "threw"}]
        /\ StopThread \in Callers /\ StopThread \notin Starters
    BY DEF TypeOK, Callers
  <2>3. TypeOK'
    BY <2>1, <2>2 DEF TypeOK, blob, cache, local
  <2>4. VersionsInv'
    BY <2>1 DEF VersionsInv, Current, blob, cache, local
  <2>5. MonitorInv'
    BY <2>1, <2>2 DEF MonitorInv, Running, Ended
  <2>6. StopInv'
    BY <2>1, <2>2 DEF StopInv
  <2> QED BY <2>3, <2>4, <2>5, <2>6
<1> QED BY <1>1, <1>2

LEMMA NextManager ==
  ASSUME IInv, [RoleNext]_<<vars, roleVars>>
  PROVE  IInv'
<1>1. CASE UNCHANGED <<vars, roleVars>>
  BY <1>1, NextIInv
<1>2. CASE Inner
  BY <1>2, InnerIsNext, NextIInv
<1>3. CASE OnStart
  BY <1>3, UploadedAgain
<1>4. CASE CleansUp
  BY <1>4, DeletedOrNot
<1>5. CASE OnStartEnds
  BY <1>5, NewManager, NextIInv DEF OnStartEnds
<1>6. CASE ProcessEnds
  BY <1>6, NewManager DEF ProcessEnds
<1>7. CASE OnStartFails \/ CleanupFails
  BY <1>7, FailedOrNot
<1> QED BY <1>1, <1>2, <1>3, <1>4, <1>5, <1>6, <1>7 DEF RoleNext, Inner

----------------------------------------------------------------------------
(* The manager's properties, in the role.                                  *)

LEMMA InitManager == RoleInit => IInv
BY InitIInv DEF RoleInit

\* IInv holds in every state of the role.
THEOREM ManagerInRole == RoleSpec => []IInv
BY InitManager, NextManager, PTL DEF RoleSpec

\* The ranges and the semaphores.
THEOREM RoleTypeCorrect == RoleSpec => []TypeOK
<1>1. IInv => TypeOK
  BY DEF IInv
<1> QED BY <1>1, ManagerInRole, PTL

\* A check that skips the refresh is right, in every process of the role.
THEOREM RoleSkippingIsRight == RoleSpec => []UpToDate
<1>1. IInv => UpToDate
  <2> SUFFICES ASSUME IInv, currentVersion = version
               PROVE  settingsCache.values = stored
    BY DEF UpToDate
  <2>1. settingsCache.at \in Nat /\ version \in Nat
    BY BoundsAssumption DEF IInv, TypeOK, Settings
  <2> QED BY <2>1 DEF IInv, VersionsInv, Current
<1> QED BY <1>1, ManagerInRole, PTL

\* A process of the role has one monitor at most.
THEOREM RoleAtMostOneMonitor == RoleSpec => []OneMonitor
<1>1. IInv => OneMonitor
  BY DEF IInv, MonitorInv, OneMonitor
<1> QED BY <1>1, ManagerInRole, PTL

\* Once OnStop, or anybody, has stopped the monitor, none reads the store.
THEOREM RoleStopIsFinal == RoleSpec => []StoppedForGood
<1>1. IInv => StoppedForGood
  BY DEF IInv, StopInv, StoppedForGood
<1> QED BY <1>1, ManagerInRole, PTL

----------------------------------------------------------------------------
(* The role's own invariants.                                              *)

\* What the manager's steps do to a role that has it.
LEMMA InnerKeeps ==
  ASSUME IInv, RoleTypeOK, Constructed, Inner
  PROVE  RoleTypeOK' /\ Constructed'
<1>1. process' = process /\ completeEvent' = completeEvent
  BY DEF Inner, Store, Checks, Run, OnStop, Others, roleVars
<1> USE NamesAssumption, ThreadsAssumption
    DEF RoleTypeOK, Constructed, Checkers, Callers, IInv, TypeOK, blob, cache, local
<1>2. CASE Store
  BY <1>1, <1>2 DEF Store, Upload, Delete
<1>3. ASSUME NEW t \in Checkers, Checks(t) PROVE RoleTypeOK' /\ Constructed'
  <2>1. process # "down" /\ Checker(t)
    BY <1>3 DEF Checks
  <2>2. CASE EnterCheck(t)
    BY <1>1, <2>1, <2>2 DEF EnterCheck
  <2>3. CASE GetVersion(t)
    BY <1>1, <2>1, <2>3 DEF GetVersion, LeaveCheck
  <2>4. CASE FindAll(t)
    BY <1>1, <2>1, <2>4 DEF FindAll
  <2>5. CASE Refresh(t)
    BY <1>1, <2>1, <2>5 DEF Refresh, LeaveCheck
  <2>6. CASE CheckFails(t)
    BY <1>1, <2>1, <2>6 DEF CheckFails, LeaveCheck
  <2>7. CASE LoopTest(t) \/ DelayOver(t) \/ DelayCanceled(t)
    BY <1>1, <2>1, <2>7 DEF LoopTest, DelayOver, DelayCanceled, LoopStep
  <2> QED BY <2>1, <2>2, <2>3, <2>4, <2>5, <2>6, <2>7 DEF Checker
<1>4. ASSUME NEW c \in Callers, Calls(c) \/ Dispose(c) \/ NextCall(c),
             process # "down",
             call[StopThread] = "returned" => c # StopThread
      PROVE  RoleTypeOK' /\ Constructed'
  <2>1. CASE StartMonitor(c)
    BY <1>1, <1>4, <2>1 DEF StartMonitor, Call
  <2>2. CASE StartLoop(c)
    BY <1>1, <1>4, <2>2 DEF StartLoop, Started, Call
  <2>3. CASE StopMonitor(c)
    BY <1>1, <1>4, <2>3 DEF StopMonitor, Call
  <2>4. CASE Joined(c)
    BY <1>1, <1>4, <2>4 DEF Joined, Call
  <2>5. CASE Dispose(c)
    BY <1>1, <1>4, <2>5 DEF Dispose, Call
  <2>6. CASE NextCall(c)
    BY <1>1, <1>4, <2>6 DEF NextCall, Call
  <2> QED BY <1>4, <2>1, <2>2, <2>3, <2>4, <2>5, <2>6 DEF Calls
<1>5. CASE Run
  BY <1>4, <1>5 DEF Run, Calls
<1>6. CASE OnStop
  <2>1. call[StopThread] # "returned"
    BY <1>6 DEF OnStop, StopMonitor, Joined
  <2> QED BY <1>4, <1>6, <2>1 DEF OnStop, Calls
<1>7. ASSUME NEW c \in Callers, Others(c) PROVE RoleTypeOK' /\ Constructed'
  BY <1>4, <1>7 DEF Others
<1> QED BY <1>2, <1>3, <1>5, <1>6, <1>7 DEF Inner

LEMMA NextRole ==
  ASSUME IInv, RoleTypeOK, Constructed, [RoleNext]_<<vars, roleVars>>
  PROVE  RoleTypeOK' /\ Constructed'
<1> USE ThreadsAssumption DEF RoleTypeOK, Constructed
<1>1. CASE UNCHANGED <<vars, roleVars>>
  BY <1>1 DEF vars, roleVars
<1>2. CASE Inner
  BY <1>2, InnerKeeps
<1>3. CASE OnStart
  BY <1>3 DEF OnStart, manager
<1>4. CASE CleansUp
  BY <1>4 DEF CleansUp, manager
<1>5. ASSUME EndProcess PROVE RoleTypeOK' /\ Constructed'
  BY <1>5 DEF EndProcess
<1>6. CASE OnStartEnds
  BY <1>5, <1>6 DEF OnStartEnds, vars
<1>7. CASE ProcessEnds
  BY <1>5, <1>7 DEF ProcessEnds
<1>8. CASE OnStartFails
  BY <1>8 DEF OnStartFails, manager, roleVars
<1>9. CASE CleanupFails
  BY <1>9 DEF CleanupFails, Call, roleVars
<1> QED BY <1>1, <1>2, <1>3, <1>4, <1>6, <1>7, <1>8, <1>9 DEF RoleNext, Inner

LEMMA InitRole == RoleInit => RoleInv
BY InitIInv DEF RoleInit, Init, RoleInv, RoleTypeOK, Constructed

\* RoleInv holds in every reachable state.
THEOREM RoleInductive == RoleSpec => []RoleInv
<1>1. RoleInv /\ [RoleNext]_<<vars, roleVars>> => RoleInv'
  BY NextManager, NextRole DEF RoleInv
<1> QED BY <1>1, InitRole, PTL DEF RoleSpec

\* A role is up only with its manager constructed, and sets its event only at the
\* end of its OnStop.
THEOREM RoleIsReady == RoleSpec => []RoleTypeOK
<1>1. RoleInv => RoleTypeOK
  BY DEF RoleInv
<1> QED BY <1>1, RoleInductive, PTL

Unnoticed == (changed = "open" /\ changed' = "failed") => ~completeEvent

\* No check is left, when OnStop deletes the blobs, that would fail for it.
THEOREM DeletionIsUnnoticed == RoleSpec => CleanupUnnoticed
<1>1. RoleInv /\ [RoleNext]_<<vars, roleVars>> => [Unnoticed]_<<vars, roleVars>>
  <2> SUFFICES ASSUME RoleInv, RoleNext, changed = "open", changed' = "failed",
                      completeEvent
               PROVE  FALSE
    BY DEF Unnoticed
  <2>1. process = "up" /\ call[StopThread] = "returned" /\ check[Ctor] = "completed"
    BY DEF RoleInv, RoleTypeOK, Constructed
  <2>2. \A t \in Checkers : check[t] \notin {"version", "find"}
    BY <2>1, ThreadsAssumption DEF RoleInv, IInv, StopInv, Checkers
  <2>3. ~Inner
    <3>1. ASSUME NEW t \in Checkers, Checks(t) PROVE FALSE
      BY <2>2, <3>1
      DEF Checks, Checker, EnterCheck, GetVersion, FindAll, Refresh, CheckFails, LoopTest,
          DelayOver, DelayCanceled, LoopStep
    <3>2. ~Store /\ ~Run /\ ~OnStop /\ \A c \in Callers : ~Others(c)
      BY DEF Store, Run, OnStop, Others, Upload, Delete, StartMonitor, StartLoop,
             StopMonitor, Joined, Dispose, NextCall, Calls
    <3> QED BY <3>1, <3>2 DEF Inner
  <2>4. ~OnStart /\ ~OnStartFails /\ ~CleansUp /\ ~CleanupFails /\ ~ProcessEnds /\ ~OnStartEnds
    BY DEF OnStart, OnStartFails, CleansUp, CleanupFails, ProcessEnds, OnStartEnds, EndProcess,
           manager, vars
  <2> QED BY <2>3, <2>4 DEF RoleNext, Inner
<1> QED BY <1>1, RoleInductive, PTL DEF RoleSpec, CleanupUnnoticed, Unnoticed
=============================================================================
