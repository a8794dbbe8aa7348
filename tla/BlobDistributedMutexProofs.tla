--------------------- MODULE BlobDistributedMutexProofs ---------------------
(* Theorems about BlobDistributedMutex. *)
EXTENDS BlobDistributedMutex, TLAPS

LEMMA AbandonedType ==
  ASSUME TypeOK, NEW i \in Instances, NEW r \in Abandoned(i)
  PROVE  /\ r \in [op : Ops, id : IdOrNone]
         /\ r.id = leaseId[i]
         /\ r.op = "releasing" => renewTask[i] = "releasing"
BY DEF TypeOK, Abandoned, Requests, Ops

LEMMA InitTypeOK == Init => TypeOK
BY NoIdAssumption, TimesAssumption DEF Init, TypeOK, IdOrNone, Errors, Leads

LEMMA ServiceTypeOK ==
  ASSUME TypeOK, NEW i \in Instances, Service(i)
  PROVE  TypeOK'
<1> USE NoIdAssumption, TimesAssumption DEF TypeOK, IdOrNone, Leads, server, tokens, tasks
<1>1. CASE ServeAcquire(i)
  BY <1>1 DEF ServeAcquire, FreshIds
<1>2. CASE ServeExists(i)
  BY <1>2 DEF ServeExists
<1>3. CASE ServeCreate(i)
  BY <1>3 DEF ServeCreate
<1>4. CASE ServeRenew(i)
  BY <1>4 DEF ServeRenew
<1>5. CASE ServeRelease(i)
  BY <1>5 DEF ServeRelease
<1> QED BY <1>1, <1>2, <1>3, <1>4, <1>5 DEF Service

LEMMA StrayTypeOK ==
  ASSUME TypeOK, NEW r \in stray, ServeStray(r) \/ DropStray(r)
  PROVE  TypeOK'
<1> USE NoIdAssumption, TimesAssumption
    DEF TypeOK, IdOrNone, Leads, server, tokens, tasks
<1>1. CASE ServeStray(r)
  <2>1. r.id \in IdOrNone /\ FreshIds \subseteq IdOrNone
    BY <1>1 DEF ServeStray, FreshIds
  <2>2. blobLease' \in IdOrNone
    BY <1>1, <2>1 DEF ServeStray
  <2>3. leaseLeft' \in 0..LeaseDuration
    BY <1>1 DEF ServeStray
  <2>4. blobExists' \in BOOLEAN
    BY <1>1, Zenon DEF ServeStray
  <2>5. stray' \subseteq [op : Ops, id : IdOrNone]
    BY <1>1 DEF ServeStray
  <2> QED BY <1>1, <2>2, <2>3, <2>4, <2>5 DEF ServeStray
<1>2. CASE DropStray(r)
  BY <1>2 DEF DropStray
<1> QED BY <1>1, <1>2

LEMMA LocalTypeOK ==
  ASSUME TypeOK, NEW i \in Instances, Local(i)
  PROVE  TypeOK'
<1> USE NoIdAssumption, TimesAssumption
    DEF TypeOK, IdOrNone, Leads, server, tokens, tasks, Continue
<1>1. CASE LoopTest(i)
  BY <1>1 DEF LoopTest
<1>2. CASE Acquired(i)
  BY <1>2 DEF Acquired
<1>3. CASE NotAcquired(i)
  BY <1>3 DEF NotAcquired
<1>4. CASE CreateBlob(i)
  BY <1>4 DEF CreateBlob
<1>5. CASE WaitOver(i)
  BY <1>5 DEF WaitOver
<1>6. CASE TryCancelled(i)
  <2>1. stray' \subseteq [op : Ops, id : IdOrNone]
    BY <1>6, AbandonedType DEF TryCancelled
  <2> QED BY <1>6, <2>1 DEF TryCancelled, Trying
<1>7. CASE FirstRoundOver(i)
  BY <1>7 DEF FirstRoundOver, EndOfRound, TaskThrows, SetTask, SendRenewal
<1>8. CASE RoundOver(i)
  BY <1>8 DEF RoundOver, EndOfRound, TaskThrows, SetTask
<1>9. CASE WakeUp(i)
  BY <1>9 DEF WakeUp, SetTask
<1>10. CASE Renewed(i)
  BY <1>10 DEF Renewed, SendRenewal
<1>11. CASE RenewTaskEnds(i)
  BY <1>11 DEF RenewTaskEnds
<1>12. CASE RenewDelayOver(i)
  BY <1>12 DEF RenewDelayOver, SendRenewal
<1>13. CASE RenewCancelled(i)
  <2>1. stray' \subseteq [op : Ops, id : IdOrNone]
    BY <1>13, AbandonedType DEF RenewCancelled
  <2> QED BY <1>13, <2>1 DEF RenewCancelled
<1>14. CASE WhenAny(i)
  BY <1>14 DEF WhenAny
<1>15. CASE WhenAll(i)
  BY <1>15 DEF WhenAll
<1> QED BY <1>1, <1>2, <1>3, <1>4, <1>5, <1>6, <1>7, <1>8, <1>9, <1>10, <1>11,
           <1>12, <1>13, <1>14, <1>15 DEF Local

LEMMA FailureTypeOK ==
  ASSUME TypeOK, NEW i \in Instances, CallRetried(i) \/ CallFails(i)
  PROVE  TypeOK'
BY NoIdAssumption, TimesAssumption
DEF TypeOK, IdOrNone, Leads, server, tokens, tasks, CallRetried, CallFails,
    LoseReply

LEMMA EndTypeOK ==
  ASSUME TypeOK, NEW i \in Instances, ProcessEnds(i),
         failures' \in 0..MaxFailures
  PROVE  TypeOK'
<1>1. stray' \subseteq [op : Ops, id : IdOrNone]
  BY AbandonedType DEF ProcessEnds, TypeOK
<1> QED
  BY <1>1, NoIdAssumption, TimesAssumption
  DEF ProcessEnds, Continue, SetTask, TypeOK, IdOrNone, Leads, server

LEMMA HostTypeOK ==
  ASSUME TypeOK, NEW i \in Instances, Host(i) \/ OnStop(i) \/ Crash(i)
  PROVE  TypeOK'
<1>1. CASE OnStopReturns(i)
  BY <1>1, EndTypeOK DEF OnStopReturns, TypeOK
<1>2. CASE RunThrows(i)
  BY <1>2, EndTypeOK DEF RunThrows, TypeOK
<1>3. CASE Crash(i)
  BY <1>3, EndTypeOK, TimesAssumption DEF Crash, TypeOK
<1>4. CASE Restart(i)
  BY <1>4, TimesAssumption
  DEF Restart, TypeOK, Leads, server, tokens, tasks
<1>5. CASE OnStop(i)
  BY <1>5, TimesAssumption DEF OnStop, TypeOK, Leads, server, tasks
<1> QED BY <1>1, <1>2, <1>3, <1>4, <1>5 DEF Host

LEMMA TickTypeOK ==
  ASSUME TypeOK, Tick
  PROVE  TypeOK'
<1>1. \A n \in Nat : Down(n) \in Nat /\ Down(n) <= n
  BY DEF Down
<1>2. leaseLeft' \in 0..LeaseDuration
  BY <1>1, TimesAssumption DEF Tick, TypeOK
<1>3. elapsed' \in [Instances -> 0..MaxLatency]
  <2> SUFFICES ASSUME NEW i \in Instances, Calling(i)
               PROVE  elapsed[i] + 1 \in 0..MaxLatency
    BY DEF Tick, TypeOK
  <2>1. elapsed[i] # MaxLatency
    BY DEF Tick, Overdue
  <2> QED BY <2>1, TimesAssumption DEF TypeOK
<1>4. /\ timer' \in [Instances -> Nat]
      /\ taskClock' \in [Instances -> Nat]
  BY <1>1 DEF Tick, TypeOK
<1>5. stopClock' \in [Instances -> 0..StopTimeout]
  BY <1>1, TimesAssumption DEF Tick, TypeOK
<1> QED BY <1>2, <1>3, <1>4, <1>5 DEF Tick, TypeOK, Leads

LEMMA TypeOKStep == TypeOK /\ [Next]_vars => TypeOK'
<1> SUFFICES ASSUME TypeOK, [Next]_vars PROVE TypeOK'
  OBVIOUS
<1>1. CASE Next
  BY <1>1, ServiceTypeOK, StrayTypeOK, LocalTypeOK, FailureTypeOK, HostTypeOK,
     TickTypeOK
  DEF Next
<1>2. CASE UNCHANGED vars
  BY <1>2 DEF vars, server, tokens, tasks, TypeOK, Leads
<1> QED BY <1>1, <1>2

\* Type correctness: every variable stays in its range, and an instance has a
\* leader task and a renewal task exactly while its loop awaits them.
THEOREM TypeCorrect == Spec => []TypeOK
BY InitTypeOK, TypeOKStep, PTL DEF Spec

----------------------------------------------------------------------------
(* ControlInv and IdInv, which hold whatever the intervals are. *)

LEMMA ControlStep ==
  ASSUME TypeOK, TypeOK', [Next]_vars,
         \A i \in Instances : ControlInv(i)
  PROVE  \A i \in Instances : ControlInv(i)'
<1> SUFFICES ASSUME NEW k \in Instances PROVE ControlInv(k)'
  OBVIOUS
<1> USE DEF ControlInv, server, tokens, tasks
<1>1. ASSUME NEW i \in Instances, Service(i) PROVE ControlInv(k)'
  BY <1>1 DEF Service, ServeAcquire, ServeExists, ServeCreate, ServeRenew,
              ServeRelease
<1>2. ASSUME NEW r \in stray, ServeStray(r) \/ DropStray(r)
      PROVE  ControlInv(k)'
  BY <1>2 DEF ServeStray, DropStray
<1>3. ASSUME NEW i \in Instances, Local(i) PROVE ControlInv(k)'
  <2> USE DEF TypeOK, Leads, Continue
  <2>1. CASE LoopTest(i) \/ NotAcquired(i) \/ CreateBlob(i) \/ WaitOver(i)
             \/ TryCancelled(i)
    BY <2>1 DEF LoopTest, NotAcquired, CreateBlob, WaitOver, TryCancelled
  <2>2. CASE Acquired(i)
    BY <2>2, TimesAssumption DEF Acquired
  <2>3. CASE FirstRoundOver(i)
    BY <2>3, TimesAssumption
    DEF FirstRoundOver, EndOfRound, TaskThrows, SetTask, SendRenewal
  <2>4. CASE RoundOver(i) \/ WakeUp(i)
    BY <2>4, TimesAssumption
    DEF RoundOver, WakeUp, EndOfRound, TaskThrows, SetTask
  <2>5. CASE Renewed(i) \/ RenewTaskEnds(i) \/ RenewDelayOver(i)
             \/ RenewCancelled(i)
    BY <2>5
    DEF Renewed, RenewTaskEnds, RenewDelayOver, RenewCancelled, SendRenewal
  <2>6. CASE WhenAny(i) \/ WhenAll(i)
    BY <2>6 DEF WhenAny, WhenAll
  <2> QED BY <1>3, <2>1, <2>2, <2>3, <2>4, <2>5, <2>6 DEF Local
<1>4. ASSUME NEW i \in Instances, CallRetried(i) \/ CallFails(i)
      PROVE  ControlInv(k)'
  BY <1>4 DEF CallRetried, CallFails, LoseReply
<1>5. ASSUME NEW i \in Instances, Host(i) \/ Crash(i) \/ OnStop(i)
      PROVE  ControlInv(k)'
  <2>1. CASE OnStopReturns(i) \/ RunThrows(i) \/ Crash(i)
    BY <2>1 DEF OnStopReturns, RunThrows, Crash, ProcessEnds, Continue,
                SetTask, TypeOK
  <2>2. CASE Restart(i)
    BY <2>2 DEF Restart, TypeOK
  <2>3. CASE OnStop(i)
    BY <2>3 DEF OnStop, TypeOK, Leads
  <2> QED BY <1>5, <2>1, <2>2, <2>3 DEF Host
<1>6. ASSUME Tick PROVE ControlInv(k)'
  BY <1>6, TimesAssumption DEF Tick, Overdue, TypeOK
<1>7. ASSUME UNCHANGED vars PROVE ControlInv(k)'
  BY <1>7 DEF vars
<1> QED BY <1>1, <1>2, <1>3, <1>4, <1>5, <1>6, <1>7 DEF Next

\* A new id is nobody's.
LEMMA FreshIdsUnused ==
  ASSUME NEW id \in FreshIds
  PROVE  /\ \A i \in Instances : id # leaseId[i]
         /\ \A r \in stray : id # r.id
         /\ id # blobLease
BY DEF FreshIds

\* Forgetting ids, and leaving calls behind that release none that is owned,
\* preserves IdInv.
LEMMA ForgetIds ==
  ASSUME IdInv,
         \A i \in Instances : leaseId'[i] \in {leaseId[i], NoId},
         \A r \in stray' : r.op = "releasing" =>
            r \in stray \/ \A i \in Instances : r.id = leaseId'[i] => r.id = NoId
  PROVE  IdInv'
BY DEF IdInv

LEMMA IdStep ==
  ASSUME TypeOK, [Next]_vars, IdInv
  PROVE  IdInv'
<1> USE DEF server, tokens, tasks
<1>1. ASSUME NEW i \in Instances, ServeAcquire(i) PROVE IdInv'
  <2>1. CASE leaseId' = leaseId
    BY <1>1, <2>1 DEF ServeAcquire, IdInv
  <2>2. CASE \E id \in FreshIds : leaseId' = [leaseId EXCEPT ![i] = id]
    BY <1>1, <2>2, FreshIdsUnused DEF ServeAcquire, IdInv, TypeOK
  <2> QED BY <1>1, <2>1, <2>2 DEF ServeAcquire
<1>2. ASSUME NEW i \in Instances, Service(i), ~ServeAcquire(i) PROVE IdInv'
  BY <1>2, ForgetIds
  DEF Service, ServeExists, ServeCreate, ServeRenew, ServeRelease
<1>3. ASSUME NEW r \in stray, ServeStray(r) \/ DropStray(r) PROVE IdInv'
  BY <1>3, ForgetIds DEF ServeStray, DropStray
<1>4. ASSUME NEW i \in Instances, TryCancelled(i) PROVE IdInv'
  <2>1. renewTask[i] = "none"
    BY <1>4 DEF TryCancelled, Trying, TypeOK
  <2>2. \A r \in stray' : r.op = "releasing" => r \in stray
    BY <1>4, <2>1, AbandonedType DEF TryCancelled
  <2> QED BY <1>4, <2>2, ForgetIds DEF TryCancelled, TypeOK
<1>5. ASSUME NEW i \in Instances, RenewCancelled(i) PROVE IdInv'
  <2>1. \A r \in stray' : r.op = "releasing" => r \in stray
    BY <1>5, AbandonedType DEF RenewCancelled
  <2> QED BY <1>5, <2>1, ForgetIds DEF RenewCancelled
<1>6. ASSUME NEW i \in Instances, WhenAll(i) PROVE IdInv'
  BY <1>6, ForgetIds DEF WhenAll, TypeOK
<1>7. ASSUME NEW i \in Instances, Local(i),
             ~TryCancelled(i), ~RenewCancelled(i), ~WhenAll(i)
      PROVE  IdInv'
  <2>1. UNCHANGED <<stray, leaseId>>
    BY <1>7 DEF Local, LoopTest, Acquired, NotAcquired, CreateBlob, WaitOver,
      FirstRoundOver, RoundOver, WakeUp, Renewed, RenewTaskEnds,
      RenewDelayOver, WhenAny
  <2> QED BY <2>1, ForgetIds
<1>8. ASSUME NEW i \in Instances, CallRetried(i) \/ CallFails(i) PROVE IdInv'
  BY <1>8, ForgetIds DEF CallRetried, CallFails, LoseReply, TypeOK
<1>9. ASSUME NEW i \in Instances, ProcessEnds(i) PROVE IdInv'
  <2>1. \A j \in Instances : leaseId'[j] = IF j = i THEN NoId ELSE leaseId[j]
    BY <1>9 DEF ProcessEnds, TypeOK
  <2>2. \A r \in Abandoned(i), j \in Instances :
          r.id = leaseId'[j] => r.id = NoId
    BY <2>1, AbandonedType DEF IdInv
  <2>3. stray' = stray \cup Abandoned(i)
    BY <1>9 DEF ProcessEnds
  <2> QED BY <2>1, <2>2, <2>3, ForgetIds
<1>10. ASSUME NEW i \in Instances, Host(i) \/ Crash(i) \/ OnStop(i) PROVE IdInv'
  <2>1. ProcessEnds(i) \/ UNCHANGED <<stray, leaseId>>
    BY <1>10 DEF Host, OnStopReturns, RunThrows, Crash, Restart, OnStop
  <2> QED BY <2>1, <1>9, ForgetIds
<1>11. ASSUME Tick \/ UNCHANGED vars PROVE IdInv'
  BY <1>11, ForgetIds DEF Tick, vars
<1> QED BY <1>1, <1>2, <1>3, <1>4, <1>5, <1>6, <1>7, <1>8, <1>10, <1>11 DEF Next

----------------------------------------------------------------------------
(* LeaseInv.  A step disturbs the claim of an instance on the lease only   *)
(* if it is Tick, a step of the instance itself, or takes the lease away;  *)
(* the last is impossible while the claim is on.                           *)

\* i has a claim on the lease: LeaseInv bounds its age.
Claims(i) ==
  \/ pc[i] = "acquiring" /\ reply[i] = "granted"
  \/ ~leaseCts[i] /\ pc[i] = "starting"
  \/ ~leaseCts[i] /\ renewTask[i] \in {"renewing", "delaying", "ended"}

LEMMA SlackProps ==
  ASSUME TimelyRenewal
  PROVE  /\ Slack \in Nat
         /\ RenewInterval <= Slack
         /\ MaxLatency + MaxWork <= Slack
         /\ Slack + MaxLatency < LeaseDuration
BY TimesAssumption DEF TimelyRenewal, Slack

LEMMA ClaimHolds ==
  ASSUME TimelyRenewal, IInv, NEW i \in Instances, Claims(i)
  PROVE  leaseLeft > 0 /\ leaseId[i] # NoId /\ blobLease = leaseId[i]
<1> USE SlackProps, TimesAssumption DEF IInv, TypeOK, LeaseInv, HeldFor
<1>1. elapsed[i] <= MaxLatency /\ elapsed[i] \in Nat /\ leaseLeft \in Nat
      /\ timer[i] \in Nat /\ taskClock[i] \in Nat
  OBVIOUS
<1>2. CASE pc[i] = "acquiring" /\ reply[i] = "granted"
  BY <1>1, <1>2
<1>3. CASE ~leaseCts[i] /\ pc[i] = "starting"
  <2>1. taskClock[i] <= MaxWork
    BY <1>3 DEF ControlInv
  <2> QED BY <1>1, <1>3, <2>1
<1>4. CASE ~leaseCts[i] /\ renewTask[i] = "renewing"
  BY <1>1, <1>4
<1>5. CASE ~leaseCts[i] /\ renewTask[i] = "delaying"
  BY <1>1, <1>5
<1>6. CASE ~leaseCts[i] /\ renewTask[i] = "ended"
  BY <1>1, <1>6
<1> QED BY <1>2, <1>3, <1>4, <1>5, <1>6 DEF Claims

\* What the variables of i, the service's aside, say does not change.
Idle(i) ==
  /\ pc'[i] = pc[i] /\ leaseCts'[i] = leaseCts[i]
  /\ renewTask'[i] = renewTask[i] /\ reply'[i] = reply[i]
  /\ leaseId'[i] = leaseId[i] /\ elapsed'[i] = elapsed[i]
  /\ timer'[i] = timer[i] /\ taskClock'[i] = taskClock[i]

\* The lease on the blob is as it was, or started anew.
Kept == blobLease' = blobLease /\ leaseLeft' >= leaseLeft

LEMMA IdleKept ==
  ASSUME IInv, TypeOK', NEW i \in Instances, Idle(i), Claims(i) => Kept
  PROVE  LeaseInv(i)'
<1>1. leaseLeft \in Nat /\ leaseLeft' \in Nat /\ elapsed[i] \in Nat
      /\ timer[i] \in Nat /\ taskClock[i] \in Nat
  BY TimesAssumption DEF IInv, TypeOK
<1>2. Slack \in Nat
  BY TimesAssumption DEF Slack
<1> QED
  BY <1>1, <1>2, TimesAssumption
  DEF IInv, LeaseInv, HeldFor, Idle, Claims, Kept

\* Nothing the service does for another instance, or for a call that was given
\* up, takes the lease from an instance with a claim on it.
LEMMA ServiceKeeps ==
  ASSUME TimelyRenewal, IInv, NEW k \in Instances, Claims(k),
         \/ \E i \in Instances \ {k} : Service(i)
         \/ \E r \in stray : ServeStray(r) \/ DropStray(r)
  PROVE  Kept
<1> USE TimesAssumption DEF server
<1>1. leaseLeft > 0 /\ leaseId[k] # NoId /\ blobLease = leaseId[k]
  BY ClaimHolds
<1>2. leaseLeft \in 0..LeaseDuration
  BY DEF IInv, TypeOK
<1>3. ASSUME NEW i \in Instances \ {k}, Service(i) PROVE Kept
  <2>1. leaseId[i] # blobLease
    BY <1>1 DEF IInv, IdInv
  <2> QED
    BY <1>1, <1>2, <1>3, <2>1
    DEF Service, ServeAcquire, ServeExists, ServeCreate, ServeRenew,
        ServeRelease, Kept
<1>4. ASSUME NEW r \in stray, ServeStray(r) \/ DropStray(r) PROVE Kept
  <2>1. r.op = "releasing" => r.id # blobLease
    BY <1>1 DEF IInv, IdInv
  <2> QED BY <1>1, <1>2, <1>4, <2>1 DEF ServeStray, DropStray, Kept
<1> QED BY <1>3, <1>4

LEMMA OthersIdle ==
  ASSUME IInv, NEW k \in Instances, NEW i \in Instances \ {k},
         \/ Service(i) \/ Local(i) \/ Host(i) \/ CallRetried(i)
         \/ CallFails(i) \/ OnStop(i) \/ Crash(i)
  PROVE  Idle(k) /\ (Service(i) \/ UNCHANGED server)
<1> USE DEF IInv, TypeOK, Idle, server, tokens, tasks
<1>1. CASE Service(i)
  BY <1>1
  DEF Service, ServeAcquire, ServeExists, ServeCreate, ServeRenew, ServeRelease
<1>2. CASE Local(i)
  <2>1. CASE \/ LoopTest(i) \/ Acquired(i) \/ NotAcquired(i) \/ CreateBlob(i)
             \/ WaitOver(i) \/ TryCancelled(i)
    BY <2>1 DEF LoopTest, Acquired, NotAcquired, CreateBlob, WaitOver,
                TryCancelled, Continue
  <2>2. CASE FirstRoundOver(i) \/ RoundOver(i) \/ WakeUp(i)
    BY <2>2 DEF FirstRoundOver, RoundOver, WakeUp, EndOfRound, TaskThrows,
                SetTask, SendRenewal
  <2>3. CASE \/ Renewed(i) \/ RenewTaskEnds(i) \/ RenewDelayOver(i)
             \/ RenewCancelled(i)
    BY <2>3 DEF Renewed, RenewTaskEnds, RenewDelayOver, RenewCancelled,
                SendRenewal
  <2>4. CASE WhenAny(i) \/ WhenAll(i)
    BY <2>4 DEF WhenAny, WhenAll
  <2> QED BY <1>2, <2>1, <2>2, <2>3, <2>4 DEF Local
<1>3. CASE Host(i) \/ Crash(i) \/ OnStop(i)
  BY <1>3 DEF Host, OnStopReturns, RunThrows, Crash, Restart, OnStop,
              ProcessEnds, Continue, SetTask
<1>4. CASE CallRetried(i) \/ CallFails(i)
  BY <1>4 DEF CallRetried, CallFails, LoseReply
<1> QED BY <1>1, <1>2, <1>3, <1>4

LEMMA OwnServiceStep ==
  ASSUME TimelyRenewal, IInv, TypeOK', NEW k \in Instances,
         Service(k) \/ CallRetried(k) \/ CallFails(k)
  PROVE  LeaseInv(k)'
<1> USE TimesAssumption, SlackProps
    DEF IInv, TypeOK, LeaseInv, HeldFor, server, tokens, tasks
<1>1. CASE ServeAcquire(k)
  <2>1. FreshIds \subseteq LeaseIds
    BY DEF FreshIds
  <2> QED BY <1>1, <2>1, NoIdAssumption DEF ServeAcquire, Leads
<1>2. CASE ServeExists(k)
  BY <1>2 DEF ServeExists, Leads
<1>3. CASE ServeCreate(k)
  BY <1>3 DEF ServeCreate, Leads
<1>4. CASE ServeRenew(k)
  BY <1>4 DEF ServeRenew
<1>5. CASE ServeRelease(k)
  BY <1>5 DEF ServeRelease, ControlInv
<1>6. CASE CallRetried(k) \/ CallFails(k)
  BY <1>6 DEF CallRetried, CallFails, LoseReply, Trying, Errors
<1> QED BY <1>1, <1>2, <1>3, <1>4, <1>5, <1>6 DEF Service

LEMMA OwnLocalStep ==
  ASSUME TimelyRenewal, IInv, TypeOK', NEW k \in Instances, Local(k)
  PROVE  LeaseInv(k)'
<1> USE TimesAssumption, SlackProps
    DEF IInv, TypeOK, LeaseInv, HeldFor, Leads, server, tokens, tasks
<1>1. CASE \/ LoopTest(k) \/ NotAcquired(k) \/ CreateBlob(k) \/ WaitOver(k)
           \/ TryCancelled(k)
  BY <1>1 DEF LoopTest, NotAcquired, CreateBlob, WaitOver, TryCancelled,
              Trying, Continue
<1>2. CASE Acquired(k)
  <2>1. taskClock[k] = 0 /\ elapsed[k] <= MaxLatency
    BY <1>2 DEF Acquired, ControlInv
  <2> QED BY <1>2, <2>1 DEF Acquired, Continue
<1>3. CASE FirstRoundOver(k)
  <2>1. taskClock[k] <= MaxWork
    BY <1>3 DEF FirstRoundOver, ControlInv
  <2> QED
    BY <1>3, <2>1
    DEF FirstRoundOver, EndOfRound, TaskThrows, SetTask, SendRenewal
<1>4. CASE RoundOver(k) \/ WakeUp(k)
  BY <1>4 DEF RoundOver, WakeUp, EndOfRound, TaskThrows, SetTask, ControlInv
<1>5. CASE Renewed(k)
  BY <1>5 DEF Renewed, SendRenewal
<1>6. CASE RenewTaskEnds(k)
  BY <1>6 DEF RenewTaskEnds, ControlInv, Errors
<1>7. CASE RenewDelayOver(k)
  BY <1>7 DEF RenewDelayOver, SendRenewal
<1>8. CASE RenewCancelled(k)
  BY <1>8 DEF RenewCancelled
<1>9. CASE WhenAny(k) \/ WhenAll(k)
  BY <1>9 DEF WhenAny, WhenAll
<1> QED BY <1>1, <1>2, <1>3, <1>4, <1>5, <1>6, <1>7, <1>8, <1>9 DEF Local

LEMMA OwnHostStep ==
  ASSUME TimelyRenewal, IInv, TypeOK', NEW k \in Instances,
         Host(k) \/ OnStop(k) \/ Crash(k)
  PROVE  LeaseInv(k)'
<1> USE DEF IInv, TypeOK, LeaseInv, HeldFor, Leads, server, tokens, tasks
<1>1. CASE OnStopReturns(k) \/ RunThrows(k) \/ Crash(k)
  BY <1>1 DEF OnStopReturns, RunThrows, Crash, ProcessEnds, Continue, SetTask
<1>2. CASE Restart(k)
  BY <1>2 DEF Restart
<1>3. CASE OnStop(k)
  BY <1>3 DEF OnStop
<1> QED BY <1>1, <1>2, <1>3 DEF Host

\* No renewal, delay or round lasts longer than its bound: the next step of a
\* leader is overdue before its lease is.
LEMMA TickStep ==
  ASSUME TimelyRenewal, IInv, TypeOK', NEW k \in Instances, Tick
  PROVE  LeaseInv(k)'
<1> USE TimesAssumption, SlackProps DEF IInv, TypeOK, LeaseInv, HeldFor
<1>1. ~Overdue(k)
  BY DEF Tick
<1>2. leaseLeft' >= leaseLeft - 1 /\ leaseLeft \in Nat /\ leaseLeft' \in Nat
  BY DEF Tick, Down
<1>3. /\ elapsed[k] \in Nat /\ timer[k] \in Nat /\ taskClock[k] \in Nat
      /\ elapsed'[k] = IF Calling(k) THEN elapsed[k] + 1 ELSE elapsed[k]
      /\ timer'[k] = IF timer[k] > 0 THEN timer[k] - 1 ELSE 0
      /\ taskClock'[k] = IF leaderTask[k] \in {"working", "sleeping"}
                         THEN taskClock[k] + 1 ELSE taskClock[k]
  BY DEF Tick, Down
<1>4. /\ UNCHANGED blobLease
      /\ pc'[k] = pc[k] /\ leaseCts'[k] = leaseCts[k]
      /\ renewTask'[k] = renewTask[k] /\ reply'[k] = reply[k]
      /\ leaseId'[k] = leaseId[k]
  BY DEF Tick
<1>5. ASSUME pc[k] = "acquiring", reply[k] = "granted"
      PROVE  HeldFor(k, elapsed[k])'
  <2>1. Calling(k)
    BY <1>5 DEF Calling, Trying
  <2> QED BY <1>2, <1>3, <1>4, <1>5, <2>1
<1>6. ASSUME ~leaseCts[k], pc[k] = "starting"
      PROVE  HeldFor(k, MaxLatency + taskClock[k])'
  BY <1>2, <1>3, <1>4, <1>6 DEF ControlInv
<1>7. ASSUME ~leaseCts[k], renewTask[k] = "renewing"
      PROVE  HeldFor(k, (IF reply[k] = "renewed" THEN 0 ELSE Slack)
                          + elapsed[k])'
  BY <1>2, <1>3, <1>4, <1>7 DEF Calling
<1>8. ASSUME ~leaseCts[k], renewTask[k] = "delaying"
      PROVE  (timer[k] <= RenewInterval
                /\ HeldFor(k, RenewInterval - timer[k]))'
  <2>1. timer[k] > 0 /\ timer'[k] = timer[k] - 1
    BY <1>1, <1>3, <1>8 DEF Overdue
  <2> QED BY <1>2, <1>4, <1>8, <2>1
<1>9. ASSUME ~leaseCts[k], renewTask[k] = "ended" PROVE FALSE
  <2>1. pc[k] = "leading"
    BY <1>9 DEF ControlInv
  <2> QED BY <1>1, <1>9, <2>1 DEF Overdue
<1> QED BY <1>4, <1>5, <1>6, <1>7, <1>8, <1>9

LEMMA LeaseStep ==
  ASSUME TimelyRenewal, IInv, TypeOK', [Next]_vars
  PROVE  \A k \in Instances : LeaseInv(k)'
<1> SUFFICES ASSUME NEW k \in Instances PROVE LeaseInv(k)'
  OBVIOUS
<1>1. ASSUME NEW i \in Instances,
             \/ Service(i) \/ Local(i) \/ Host(i) \/ CallRetried(i)
             \/ CallFails(i) \/ OnStop(i) \/ Crash(i)
      PROVE  LeaseInv(k)'
  <2>1. CASE i = k
    BY <1>1, <2>1, OwnServiceStep, OwnLocalStep, OwnHostStep
  <2>2. CASE i # k
    <3>1. Idle(k) /\ (Service(i) \/ UNCHANGED server)
      BY <1>1, <2>2, OthersIdle
    <3>2. Claims(k) => Kept
      <4>1. UNCHANGED server => Kept
        BY TimesAssumption DEF server, Kept, IInv, TypeOK
      <4> QED BY <2>2, <3>1, <4>1, ServiceKeeps
    <3> QED BY <3>1, <3>2, IdleKept
  <2> QED BY <2>1, <2>2
<1>2. ASSUME NEW r \in stray, ServeStray(r) \/ DropStray(r)
      PROVE  LeaseInv(k)'
  <2>1. Idle(k)
    BY <1>2 DEF ServeStray, DropStray, Idle, tokens, tasks
  <2> QED BY <1>2, <2>1, ServiceKeeps, IdleKept
<1>3. CASE Tick
  BY <1>3, TickStep
<1>4. CASE UNCHANGED vars
  <2>1. Idle(k) /\ Kept
    BY <1>4, TimesAssumption
    DEF vars, server, tokens, tasks, Idle, Kept, IInv, TypeOK
  <2> QED BY <2>1, IdleKept
<1> QED BY <1>1, <1>2, <1>3, <1>4 DEF Next

\* The strengthened invariant is inductive when renewals are timely.
THEOREM Inductive == ASSUME TimelyRenewal PROVE Spec => []IInv
<1>1. Init => IInv
  <2> SUFFICES ASSUME Init PROVE IInv
    OBVIOUS
  <2>1. TypeOK
    BY InitTypeOK
  <2> QED
    BY <2>1, TimesAssumption DEF Init, IInv, IdInv, ControlInv, LeaseInv
<1>2. IInv /\ [Next]_vars => IInv'
  <2> SUFFICES ASSUME IInv, [Next]_vars PROVE IInv'
    OBVIOUS
  <2>1. TypeOK'
    BY TypeOKStep DEF IInv
  <2> QED BY <2>1, ControlStep, IdStep, LeaseStep DEF IInv
<1> QED BY <1>1, <1>2, PTL DEF Spec

\* While its task is uncancelled, a leader holds a running lease, whatever
\* fails, crashes or is served late, for every number of instances and all
\* intervals with TimelyRenewal.
THEOREM LeaderAlwaysHoldsLease ==
  ASSUME TimelyRenewal PROVE Spec => []LeaderHoldsLease
<1>1. IInv => LeaderHoldsLease
  <2> SUFFICES ASSUME IInv, NEW i \in Instances, Leading(i)
               PROVE  leaseLeft > 0 /\ leaseId[i] # NoId /\ blobLease = leaseId[i]
    BY DEF LeaderHoldsLease
  <2>1. Claims(i)
    BY DEF IInv, TypeOK, ControlInv, Leading, Leads, Claims
  <2> QED BY <2>1, ClaimHolds
<1> QED BY <1>1, Inductive, PTL

\* At most one instance runs an uncancelled leader task.
THEOREM AtMostOneLeader == ASSUME TimelyRenewal PROVE Spec => []OneLeader
<1>1. IInv /\ LeaderHoldsLease => OneLeader
  BY DEF IInv, IdInv, LeaderHoldsLease, OneLeader
<1> QED BY <1>1, Inductive, LeaderAlwaysHoldsLease, PTL

----------------------------------------------------------------------------
(* A role stops in time, whatever the intervals of the lease are. *)

LEMMA StopStep ==
  ASSUME TimelyStop, TypeOK, TypeOK', [Next]_vars,
         \A i \in Instances : ControlInv(i) /\ StopInv(i)
  PROVE  \A i \in Instances : StopInv(i)'
<1> SUFFICES ASSUME NEW k \in Instances PROVE StopInv(k)'
  OBVIOUS
<1> USE DEF StopInv, Leads, server, tokens, tasks
<1>1. ASSUME NEW i \in Instances, Service(i) \/ CallRetried(i) \/ CallFails(i)
      PROVE  StopInv(k)'
  BY <1>1 DEF Service, ServeAcquire, ServeExists, ServeCreate, ServeRenew,
              ServeRelease, CallRetried, CallFails, LoseReply
<1>2. ASSUME NEW r \in stray, ServeStray(r) \/ DropStray(r)
      PROVE  StopInv(k)'
  BY <1>2 DEF ServeStray, DropStray
<1>3. ASSUME NEW i \in Instances, Local(i) PROVE StopInv(k)'
  <2> USE DEF TypeOK, Continue
  <2>1. CASE LoopTest(i) \/ NotAcquired(i) \/ CreateBlob(i) \/ WaitOver(i)
             \/ TryCancelled(i)
    BY <2>1
    DEF LoopTest, NotAcquired, CreateBlob, WaitOver, TryCancelled, Trying
  <2>2. CASE Acquired(i)
    BY <2>2 DEF Acquired
  <2>3. CASE FirstRoundOver(i)
    BY <2>3, TimesAssumption
    DEF FirstRoundOver, EndOfRound, TaskThrows, SetTask, SendRenewal
  <2>4. CASE RoundOver(i) \/ WakeUp(i)
    BY <2>4, TimesAssumption
    DEF RoundOver, WakeUp, EndOfRound, TaskThrows, SetTask
  <2>5. CASE Renewed(i) \/ RenewTaskEnds(i) \/ RenewDelayOver(i)
             \/ RenewCancelled(i)
    BY <2>5, TimesAssumption DEF TimelyStop, Renewed, RenewTaskEnds,
       RenewDelayOver, RenewCancelled, SendRenewal
  <2>6. CASE WhenAny(i) \/ WhenAll(i)
    BY <2>6 DEF WhenAny, WhenAll
  <2> QED BY <1>3, <2>1, <2>2, <2>3, <2>4, <2>5, <2>6 DEF Local
<1>4. ASSUME NEW i \in Instances, Host(i) \/ Crash(i) PROVE StopInv(k)'
  <2>1. CASE OnStopReturns(i) \/ RunThrows(i) \/ Crash(i)
    BY <2>1 DEF OnStopReturns, RunThrows, Crash, ProcessEnds, Continue,
                SetTask, TypeOK
  <2>2. CASE Restart(i)
    BY <2>2 DEF Restart, TypeOK
  <2> QED BY <1>4, <2>1, <2>2 DEF Host
\* The clock starts at StopTimeout, which is more than anything takes.
<1>5. ASSUME NEW i \in Instances, OnStop(i) PROVE StopInv(k)'
  <2>1. /\ elapsed[k] \in Nat /\ taskClock[k] \in Nat
        /\ UNCHANGED <<pc, leaderTask, renewTask, taskClock, elapsed>>
    BY <1>5, TimesAssumption DEF OnStop, TypeOK
  <2>2. CASE k # i
    BY <1>5, <2>1, <2>2 DEF OnStop, TypeOK
  <2>3. CASE k = i
    <3>1. /\ pc[k] \notin {"down", "stopped"}
          /\ leaseCts'[k] = Leads(k)
          /\ stopClock'[k] = StopTimeout
      BY <1>5, <2>3 DEF OnStop, TypeOK
    <3>2. StopTimeout > 0
      BY TimesAssumption
    <3>3. StopTimeout + taskClock[k] > MaxWork
      BY <2>1, TimesAssumption DEF TimelyStop
    <3>4. StopTimeout + taskClock[k] > TaskInterval
      BY <2>1, TimesAssumption DEF TimelyStop
    <3>5. StopTimeout + elapsed[k] > MaxLatency
      BY <2>1, TimesAssumption DEF TimelyStop
    <3>6. Leads(k) => leaseCts'[k]
      BY <3>1, Zenon
    <3> QED BY <2>1, <3>1, <3>2, <3>3, <3>4, <3>5, <3>6
  <2> QED BY <2>2, <2>3
\* What is waited for advances as the clock goes down.
<1>6. ASSUME Tick PROVE StopInv(k)'
  <2>1. ~Overdue(k)
    BY <1>6 DEF Tick
  <2>2. /\ elapsed[k] \in 0..MaxLatency /\ elapsed[k] \in Nat
        /\ taskClock[k] \in Nat /\ stopClock[k] \in Nat
        /\ elapsed'[k] = IF Calling(k) THEN elapsed[k] + 1 ELSE elapsed[k]
        /\ stopClock'[k] = IF stopClock[k] > 0 THEN stopClock[k] - 1 ELSE 0
        /\ taskClock'[k] = IF leaderTask[k] \in {"working", "sleeping"}
                           THEN taskClock[k] + 1 ELSE taskClock[k]
    BY <1>6, TimesAssumption DEF Tick, TypeOK, Down
  <2>3. /\ pc'[k] = pc[k] /\ leaseCts'[k] = leaseCts[k] /\ token'[k] = token[k]
        /\ renewTask'[k] = renewTask[k] /\ leaderTask'[k] = leaderTask[k]
    BY <1>6 DEF Tick
  <2>4. leaderTask[k] = "sleeping" => taskClock'[k] <= TaskInterval
    BY <2>1, <2>2, TimesAssumption DEF Overdue
  <2>5. ASSUME token[k]
        PROVE  renewTask[k] \notin {"renewing", "delaying"}
    BY <2>1, <2>5 DEF Overdue, TypeOK
  <2>6. ASSUME token[k], pc[k] \notin {"done", "faulted"}
        PROVE  stopClock[k] > 1
    <3>1. CASE leaderTask[k] = "working"
      BY <2>1, <2>2, <2>6, <3>1, TimesAssumption DEF Overdue, ControlInv
    <3>2. CASE leaderTask[k] = "sleeping"
      BY <2>1, <2>2, <2>6, <3>2, TimesAssumption DEF Overdue
    <3>3. CASE renewTask[k] = "releasing"
      BY <2>1, <2>2, <2>6, <3>3, TimesAssumption DEF Overdue, Calling
    <3>4. CASE leaderTask[k] \in {"none", "ended"} /\ renewTask[k] # "releasing"
      BY <2>1, <2>5, <2>6, <3>4 DEF Overdue, Trying, TypeOK, ControlInv
    <3> QED BY <3>1, <3>2, <3>3, <3>4 DEF TypeOK
  <2>7. renewTask[k] = "releasing" => Calling(k)
    BY DEF Calling
  <2>8. ASSUME token[k], leaderTask[k] \in {"working", "sleeping"}
                           \/ renewTask[k] = "releasing"
        PROVE  stopClock[k] > 1
    BY <2>6, <2>8 DEF TypeOK
  <2> QED BY <2>2, <2>3, <2>4, <2>5, <2>6, <2>7, <2>8, TimesAssumption
<1>7. ASSUME UNCHANGED vars PROVE StopInv(k)'
  BY <1>7 DEF vars
<1> QED BY <1>1, <1>2, <1>3, <1>4, <1>5, <1>6, <1>7 DEF Next

\* The strengthened invariant of a stop is inductive.
THEOREM StopInductive == ASSUME TimelyStop PROVE Spec => []StopIInv
<1>1. Init => StopIInv
  BY InitTypeOK, TimesAssumption
  DEF Init, StopIInv, ControlInv, StopInv, Leads
<1>2. StopIInv /\ [Next]_vars => StopIInv'
  <2> SUFFICES ASSUME StopIInv, [Next]_vars PROVE StopIInv'
    OBVIOUS
  <2>1. TypeOK'
    BY TypeOKStep DEF StopIInv
  <2> QED BY <2>1, ControlStep, StopStep DEF StopIInv
<1> QED BY <1>1, <1>2, PTL DEF Spec

\* OnStop sees Run complete before its wait is over, unless Run throws, when
\* a round, a sleep and a call each take less than the wait: they need not
\* fit into it one after the other, and nothing is asked of the lease.
THEOREM StopsInTime == ASSUME TimelyStop PROVE Spec => []StopInTime
<1>1. StopIInv => StopInTime
  BY DEF StopIInv, StopInv, StopInTime
<1> QED BY <1>1, StopInductive, PTL

----------------------------------------------------------------------------
(* Refinement of LeaderElection. *)

Busy(i) == leaderTask[i] \in {"working", "sleeping"}

\* A step of i that leaves the tasks and tokens of the others alone maps to a
\* step of LeaderElection, or to none, by what it does to i's.
LEMMA MapStep ==
  ASSUME OneLeader, NEW i \in Instances,
         \A j \in Instances \ {i} : (Busy(j)' <=> Busy(j)) /\ (Leading(j)' <=> Leading(j)),
         \/ (Busy(i)' <=> Busy(i)) /\ (Leading(i)' <=> Leading(i))
         \/ (Busy(i)' <=> Busy(i)) /\ Leading(i) /\ ~Leading(i)'
         \/ Busy(i) /\ ~Busy(i)'
         \/ ~Busy(i) /\ Leading(i)' /\ \A j \in Instances : ~Leading(j)
  PROVE  [Abstract!Next]_Abstract!vars
<1> DEFINE L == {j \in Instances : Leading(j)}
           W == {j \in Instances : Busy(j)}
<1>1. Leading(i) => Busy(i)
  BY DEF Leading, Busy
<1>2. (Leading(i) => Busy(i))'
  BY DEF Leading, Busy
<1>3. CASE (Busy(i)' <=> Busy(i)) /\ (Leading(i)' <=> Leading(i))
  <2>1. L' = L /\ W' = W
    BY <1>3
  <2> QED BY <2>1 DEF Abstract!vars, Busy
<1>4. CASE (Busy(i)' <=> Busy(i)) /\ Leading(i) /\ ~Leading(i)'
  <2>1. i \in L /\ L' = {} /\ W' = W
    BY <1>4 DEF OneLeader
  <2>2. Abstract!Cancel(i)
    BY <2>1 DEF Abstract!Cancel, Busy
  <2> QED BY <2>2 DEF Abstract!Next
<1>5. CASE Busy(i) /\ ~Busy(i)'
  <2>1. i \in W /\ L' = L \ {i} /\ W' = W \ {i}
    BY <1>2, <1>5
  <2>2. Abstract!Finish(i)
    BY <2>1 DEF Abstract!Finish, Busy
  <2> QED BY <2>2 DEF Abstract!Next
<1>6. CASE ~Busy(i) /\ Leading(i)' /\ \A j \in Instances : ~Leading(j)
  <2>1. L = {} /\ i \notin W /\ L' = {i} /\ W' = W \cup {i}
    BY <1>2, <1>6
  <2>2. Abstract!Elect(i)
    BY <2>1 DEF Abstract!Elect, Busy
  <2> QED BY <2>2 DEF Abstract!Next
<1> QED BY <1>3, <1>4, <1>5, <1>6

\* Steps that change neither the tasks nor their tokens.
LEMMA SameTasks ==
  ASSUME UNCHANGED <<leaderTask, leaseCts>>
  PROVE  UNCHANGED Abstract!vars
BY DEF Abstract!vars, Leading

LEMMA StepSimulation ==
  ASSUME TimelyRenewal, IInv, OneLeader, [Next]_vars
  PROVE  [Abstract!Next]_Abstract!vars
<1> USE DEF IInv, TypeOK, tokens, tasks
<1>1. ASSUME NEW i \in Instances, Acquired(i)
      PROVE  [Abstract!Next]_Abstract!vars
  <2>1. Claims(i) /\ ~Busy(i)
    BY <1>1 DEF Acquired, Claims, Busy, Leads
  <2>2. \A j \in Instances : Leading(j) => Claims(j) /\ j # i
    BY <1>1 DEF Acquired, Leading, Leads, Claims, ControlInv
  <2>3. \A j \in Instances : ~Leading(j)
    BY <2>1, <2>2, ClaimHolds DEF IdInv
  <2>4. \A j \in Instances \ {i} :
          (Busy(j)' <=> Busy(j)) /\ (Leading(j)' <=> Leading(j))
    BY <1>1 DEF Acquired, Busy, Leading
  <2>5. CASE token[i]
    <3>1. ~Busy(i)' /\ ~Leading(i)'
      BY <1>1, <2>5 DEF Acquired, Busy, Leading
    <3> QED BY <2>1, <2>3, <2>4, <3>1, MapStep
  <2>6. CASE ~token[i]
    <3>1. Leading(i)'
      BY <1>1, <2>6 DEF Acquired, Busy, Leading
    <3> QED BY <2>1, <2>3, <2>4, <3>1, MapStep
  <2> QED BY <2>5, <2>6
<1>2. ASSUME NEW i \in Instances,
             FirstRoundOver(i) \/ RoundOver(i) \/ WakeUp(i)
      PROVE  [Abstract!Next]_Abstract!vars
  <2>1. Busy(i)
    BY <1>2 DEF FirstRoundOver, RoundOver, WakeUp, Busy, ControlInv
  <2>2. leaderTask'[i] \in {"sleeping", "working", "ended"} /\ leaseCts' = leaseCts
    BY <1>2 DEF FirstRoundOver, RoundOver, WakeUp, EndOfRound, TaskThrows,
                SetTask
  <2>3. \A j \in Instances \ {i} : leaderTask'[j] = leaderTask[j]
    BY <1>2 DEF FirstRoundOver, RoundOver, WakeUp, EndOfRound, TaskThrows,
                SetTask
  <2>4. \A j \in Instances \ {i} :
          (Busy(j)' <=> Busy(j)) /\ (Leading(j)' <=> Leading(j))
    BY <2>2, <2>3 DEF Busy, Leading
  <2>5. CASE leaderTask'[i] = "ended"
    <3>1. ~Busy(i)'
      BY <2>5 DEF Busy
    <3> QED BY <2>1, <2>4, <3>1, MapStep
  <2>6. CASE leaderTask'[i] # "ended"
    <3>1. Busy(i)'
      BY <2>2, <2>6 DEF Busy
    <3>2. Leading(i)' <=> Leading(i)
      BY <2>1, <2>2, <3>1 DEF Busy, Leading
    <3> QED BY <2>1, <2>4, <3>1, <3>2, MapStep
  <2> QED BY <2>5, <2>6
<1>3. ASSUME NEW i \in Instances, WhenAny(i) \/ WhenAll(i) \/ OnStop(i)
      PROVE  [Abstract!Next]_Abstract!vars
  <2>1. \A j \in Instances \ {i} :
          (Busy(j)' <=> Busy(j)) /\ (Leading(j)' <=> Leading(j))
    BY <1>3 DEF WhenAny, WhenAll, OnStop, Busy, Leading
  <2>2. (Busy(i)' <=> Busy(i))
    BY <1>3 DEF WhenAny, WhenAll, OnStop, Busy
  <2>3. Leading(i)' => Leading(i)
    BY <1>3 DEF WhenAny, WhenAll, OnStop, Leading, Leads
  <2> QED BY <2>1, <2>2, <2>3, MapStep DEF Leading
<1>4. ASSUME NEW i \in Instances, ProcessEnds(i)
      PROVE  [Abstract!Next]_Abstract!vars
  <2>1. \A j \in Instances \ {i} :
          (Busy(j)' <=> Busy(j)) /\ (Leading(j)' <=> Leading(j))
    BY <1>4 DEF ProcessEnds, SetTask, Busy, Leading
  <2>2. ~Busy(i)' /\ ~Leading(i)' /\ (Leading(i) => Busy(i))
    BY <1>4 DEF ProcessEnds, SetTask, Busy, Leading
  <2> QED BY <2>1, <2>2, MapStep DEF Leading, Busy
<1>5. ASSUME NEW i \in Instances, Local(i), ~Acquired(i), ~FirstRoundOver(i),
             ~RoundOver(i), ~WakeUp(i), ~WhenAny(i), ~WhenAll(i)
      PROVE  UNCHANGED <<leaderTask, leaseCts>>
  BY <1>5 DEF Local, LoopTest, NotAcquired, CreateBlob, WaitOver, TryCancelled,
              Renewed, RenewTaskEnds, RenewDelayOver, RenewCancelled
<1>6. ASSUME NEW i \in Instances, Service(i) \/ CallRetried(i) \/ CallFails(i)
      PROVE  UNCHANGED <<leaderTask, leaseCts>>
  BY <1>6 DEF Service, ServeAcquire, ServeExists, ServeCreate, ServeRenew,
              ServeRelease, CallRetried, CallFails, LoseReply
<1>7. ASSUME NEW i \in Instances, Host(i) \/ Crash(i)
      PROVE  ProcessEnds(i) \/ UNCHANGED <<leaderTask, leaseCts>>
  BY <1>7 DEF Host, OnStopReturns, RunThrows, Crash, Restart
<1>8. ASSUME NEW r \in stray, ServeStray(r) \/ DropStray(r)
      PROVE  UNCHANGED <<leaderTask, leaseCts>>
  BY <1>8 DEF ServeStray, DropStray
<1>9. ASSUME Tick \/ UNCHANGED vars
      PROVE  UNCHANGED <<leaderTask, leaseCts>>
  BY <1>9 DEF Tick, vars
<1>10. ASSUME NEW i \in Instances, Local(i)
       PROVE  [Abstract!Next]_Abstract!vars
  BY <1>1, <1>2, <1>3, <1>5, <1>10, SameTasks
<1> QED
  BY <1>3, <1>4, <1>6, <1>7, <1>8, <1>9, <1>10, SameTasks DEF Next

\* The lease loop implements the mutex: every step of the instances and the
\* service is a step of LeaderElection or changes nothing it speaks of.
THEOREM ImplementsMutex == ASSUME TimelyRenewal PROVE Spec => Mutex
<1>1. Init => Abstract!Init
  BY DEF Init, Abstract!Init, Leading
<1>2. IInv /\ OneLeader /\ [Next]_vars => [Abstract!Next]_Abstract!vars
  BY StepSimulation
<1> QED
  BY <1>1, <1>2, Inductive, AtMostOneLeader, PTL
  DEF Spec, Mutex, Abstract!Spec
=============================================================================
