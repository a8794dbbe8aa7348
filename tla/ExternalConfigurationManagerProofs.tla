----------------- MODULE ExternalConfigurationManagerProofs -----------------
(* Theorems about ExternalConfigurationManager. *)
EXTENDS ExternalConfigurationManager, TLAPS

LEMMA NoSettingsType == NoSettings \in Settings /\ NoSettings.at = 0
BY ValuesAssumption, BoundsAssumption DEF NoSettings, Settings

----------------------------------------------------------------------------
(* TypeOK.                                                                 *)

LEMMA InitTypeOK == Init => TypeOK
<1> SUFFICES ASSUME Init PROVE TypeOK
  OBVIOUS
<1> USE NamesAssumption, BoundsAssumption, NoSettingsType
    DEF Init, Checkers, Callers
<1>1. check \in [Checkers -> {"off", "enter", "version", "find", "found", "delay",
                             "test", "completed", "canceled"}]
  OBVIOUS
<1>2. call \in [Callers -> {"idle", "peeked", "starting", "joining", "returned",
                           "threw"}]
  OBVIOUS
<1>3. /\ latestVersion \in [Checkers -> 0..MaxVersion]
      /\ latestSettings \in [Checkers -> Settings]
  OBVIOUS
<1>4. /\ \A t \in Checkers : check[t] \notin {"version", "find", "found"}
      /\ \A c \in Callers : call[c] # "joining"
  OBVIOUS
<1>5. /\ blobExists \in BOOLEAN /\ version \in 1..MaxVersion
      /\ stored \in [Keys -> Values] /\ settingsCache \in Settings
      /\ notified \subseteq Keys \X Values
  OBVIOUS
<1>6. currentVersion \in 0..MaxVersion /\ failures \in 0..MaxFailures
  OBVIOUS
<1>7. \A t \in Checkers :
        syncCacheSemaphore = t <=> check[t] \in {"version", "find", "found"}
  BY <1>4
<1>8. \A c \in Callers : timerSemaphore = c <=> call[c] = "joining"
  BY <1>4
<1> QED BY <1>1, <1>2, <1>3, <1>5, <1>6, <1>7, <1>8, Zenon DEF TypeOK

LEMMA StoreTypeOK ==
  ASSUME TypeOK, Upload \/ Delete
  PROVE  TypeOK'
<1> USE BoundsAssumption DEF TypeOK, cache, local
<1>1. CASE Upload
  BY <1>1 DEF Upload
<1>2. CASE Delete
  BY <1>2 DEF Delete
<1> QED BY <1>1, <1>2

LEMMA CheckerTypeOK ==
  ASSUME TypeOK, NEW t \in Checkers, Checker(t)
  PROVE  TypeOK'
<1> USE NamesAssumption, BoundsAssumption, NoSettingsType
    DEF TypeOK, Checkers, blob, cache, local
<1>1. CASE EnterCheck(t)
  BY <1>1 DEF EnterCheck
<1>2. CASE GetVersion(t)
  BY <1>2 DEF GetVersion, LeaveCheck
<1>3. CASE FindAll(t)
  BY <1>3 DEF FindAll, Settings
<1>4. CASE Refresh(t)
  <2>1. notified' \subseteq Keys \X Values
    BY <1>4 DEF Refresh, Pairs, Settings
  <2> QED BY <1>4, <2>1 DEF Refresh, LeaveCheck
<1>5. CASE CheckFails(t)
  BY <1>5 DEF CheckFails, LeaveCheck
<1>6. CASE LoopTest(t) \/ DelayOver(t) \/ DelayCanceled(t)
  BY <1>6 DEF LoopTest, DelayOver, DelayCanceled, LoopStep
<1> QED BY <1>1, <1>2, <1>3, <1>4, <1>5, <1>6 DEF Checker

LEMMA CallerTypeOK ==
  ASSUME TypeOK, NEW c \in Callers, Calls(c) \/ Dispose(c) \/ NextCall(c)
  PROVE  TypeOK'
<1> USE NamesAssumption DEF TypeOK, Checkers, Callers, blob, cache, local, Call
<1>1. CASE StartMonitor(c)
  BY <1>1 DEF StartMonitor
<1>2. CASE StartLoop(c)
  BY <1>2 DEF StartLoop, Started, Ended
<1>3. CASE StopMonitor(c)
  BY <1>3 DEF StopMonitor
<1>4. CASE Joined(c)
  BY <1>4 DEF Joined
<1>5. CASE Dispose(c) \/ NextCall(c)
  BY <1>5 DEF Dispose, NextCall
<1> QED BY <1>1, <1>2, <1>3, <1>4, <1>5 DEF Calls

LEMMA NextTypeOK == TypeOK /\ [Next]_vars => TypeOK'
<1>1. ASSUME TypeOK, UNCHANGED vars PROVE TypeOK'
  BY <1>1 DEF TypeOK, vars, blob, cache, local
<1> QED
  BY <1>1, StoreTypeOK, CheckerTypeOK, CallerTypeOK DEF Next

\* Every variable stays in its range; and each semaphore is held exactly while
\* its holder is between Wait and Release, whatever throws in between.
THEOREM TypeCorrect == Spec => []TypeOK
BY InitTypeOK, NextTypeOK, PTL DEF Spec

----------------------------------------------------------------------------
(* The versions of the blob, the cache and the checkers.                   *)

LEMMA StoreVersions ==
  ASSUME TypeOK, VersionsInv, Upload \/ Delete
  PROVE  VersionsInv'
BY DEF TypeOK, VersionsInv, Current, Settings, Upload, Delete, cache, local

LEMMA CheckerVersions ==
  ASSUME TypeOK, VersionsInv, NEW t \in Checkers, Checker(t)
  PROVE  VersionsInv'
<1> USE NoSettingsType DEF TypeOK, VersionsInv, Current, blob, cache, local
<1>1. CASE EnterCheck(t)
  BY <1>1 DEF EnterCheck
<1>2. CASE GetVersion(t)
  BY <1>2 DEF GetVersion, LeaveCheck
<1>3. CASE FindAll(t)
  BY <1>3 DEF FindAll
<1>4. CASE Refresh(t)
  BY <1>4 DEF Refresh, LeaveCheck
<1>5. CASE CheckFails(t)
  BY <1>5 DEF CheckFails, LeaveCheck
<1>6. CASE LoopTest(t) \/ DelayOver(t) \/ DelayCanceled(t)
  BY <1>6 DEF LoopTest, DelayOver, DelayCanceled, LoopStep
<1> QED BY <1>1, <1>2, <1>3, <1>4, <1>5, <1>6 DEF Checker

LEMMA CallerVersions ==
  ASSUME TypeOK, VersionsInv, NEW c \in Callers,
         Calls(c) \/ Dispose(c) \/ NextCall(c)
  PROVE  VersionsInv'
<1> USE DEF TypeOK, VersionsInv, Current, blob, cache, local
<1>1. CASE StartLoop(c)
  BY <1>1 DEF StartLoop, Started
<1>2. CASE StartMonitor(c) \/ StopMonitor(c) \/ Joined(c) \/ Dispose(c) \/ NextCall(c)
  BY <1>2 DEF StartMonitor, StopMonitor, Joined, Dispose, NextCall
<1> QED BY <1>1, <1>2 DEF Calls

----------------------------------------------------------------------------
(* The loops and the threads that start and stop them.                     *)

LEMMA CheckerLoops ==
  ASSUME TypeOK, MonitorInv, StopInv, NEW t \in Checkers, Checker(t)
  PROVE  MonitorInv' /\ StopInv'
<1> USE NamesAssumption
    DEF TypeOK, MonitorInv, StopInv, Running, Ended, Checkers, blob, cache, local
<1>1. CASE EnterCheck(t)
  BY <1>1 DEF EnterCheck
<1>2. CASE GetVersion(t)
  BY <1>2 DEF GetVersion, LeaveCheck
<1>3. CASE FindAll(t)
  BY <1>3 DEF FindAll
<1>4. CASE Refresh(t)
  BY <1>4 DEF Refresh, LeaveCheck
<1>5. CASE CheckFails(t)
  BY <1>5 DEF CheckFails, LeaveCheck
<1>6. CASE LoopTest(t) \/ DelayOver(t) \/ DelayCanceled(t)
  BY <1>6 DEF LoopTest, DelayOver, DelayCanceled, LoopStep
<1> QED BY <1>1, <1>2, <1>3, <1>4, <1>5, <1>6 DEF Checker

LEMMA CallerLoops ==
  ASSUME TypeOK, MonitorInv, StopInv, NEW c \in Callers,
         Calls(c) \/ Dispose(c) \/ NextCall(c)
  PROVE  MonitorInv' /\ StopInv'
<1> USE NamesAssumption
    DEF TypeOK, MonitorInv, StopInv, Running, Ended, Checkers, Callers, Call
<1>1. CASE StartMonitor(c)
  BY <1>1 DEF StartMonitor
<1>2. CASE StartLoop(c)
  BY <1>2 DEF StartLoop, Started, IsMonitoring
<1>3. CASE StopMonitor(c)
  BY <1>3 DEF StopMonitor
<1>4. CASE Joined(c)
  BY <1>4 DEF Joined
<1>5. CASE Dispose(c) \/ NextCall(c)
  BY <1>5 DEF Dispose, NextCall
<1> QED BY <1>1, <1>2, <1>3, <1>4, <1>5 DEF Calls

LEMMA StoreLoops ==
  ASSUME MonitorInv, StopInv, Upload \/ Delete
  PROVE  MonitorInv' /\ StopInv'
BY DEF MonitorInv, StopInv, Running, Ended, Upload, Delete

----------------------------------------------------------------------------
(* The inductive invariant and what follows from it.                       *)

LEMMA InitIInv == Init => IInv
BY InitTypeOK, NamesAssumption, NoSettingsType
DEF Init, IInv, TypeOK, VersionsInv, Current, MonitorInv, StopInv, Running, Ended,
    Checkers, Callers

LEMMA NextIInv == IInv /\ [Next]_vars => IInv'
<1> SUFFICES ASSUME IInv, [Next]_vars PROVE IInv'
  OBVIOUS
<1>1. TypeOK'
  BY NextTypeOK DEF IInv
<1>2. CASE UNCHANGED vars
  BY <1>1, <1>2 DEF IInv, VersionsInv, Current, MonitorInv, StopInv, Running,
                    Ended, vars, blob, cache, local
<1>3. CASE Upload \/ Delete
  BY <1>1, <1>3, StoreVersions, StoreLoops DEF IInv
<1>4. CASE \E t \in Checkers : Checker(t)
  BY <1>1, <1>4, CheckerVersions, CheckerLoops DEF IInv
<1>5. CASE \E c \in Callers : Calls(c) \/ Dispose(c) \/ NextCall(c)
  BY <1>1, <1>5, CallerVersions, CallerLoops DEF IInv
<1> QED BY <1>2, <1>3, <1>4, <1>5 DEF Next

\* IInv holds in every reachable state.
THEOREM Inductive == Spec => []IInv
BY InitIInv, NextIInv, PTL DEF Spec

\* A check that skips the refresh is right: a version on record that is the
\* blob's goes with the blob's settings, because it was read before them.
THEOREM SkippingIsRight == Spec => []UpToDate
<1>1. IInv => UpToDate
  <2> SUFFICES ASSUME IInv, currentVersion = version
               PROVE  settingsCache.values = stored
    BY DEF UpToDate
  <2>1. settingsCache.at \in Nat /\ version \in Nat
    BY BoundsAssumption DEF IInv, TypeOK, Settings
  <2>2. settingsCache.at = version
    BY <2>1 DEF IInv, VersionsInv, Current
  <2> QED BY <2>2 DEF IInv, VersionsInv, Current
<1> QED BY <1>1, Inductive, PTL

\* StartMonitor's second test, under timerSemaphore, keeps the loops to one.
THEOREM AtMostOneMonitor == Spec => []OneMonitor
<1>1. IInv => OneMonitor
  BY DEF IInv, MonitorInv, OneMonitor
<1> QED BY <1>1, Inductive, PTL

\* Once StopMonitor is over, no loop reads the store or changes the cache.
THEOREM StopIsFinal == Spec => []StoppedForGood
<1>1. IInv => StoppedForGood
  BY DEF IInv, StopInv, StoppedForGood
<1> QED BY <1>1, Inductive, PTL
=============================================================================
