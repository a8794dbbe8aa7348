------------------------- MODULE PriorityQueueProofs -------------------------
(***************************************************************************)
(* Theorems about PriorityQueue, for any messages and workers and any      *)
(* number of faults and stops: its ranges, that it implements              *)
(* MessageDelivery, and that the starts of the roles lose no message that  *)
(* a worker was there for.                                                 *)
(***************************************************************************)
EXTENDS PriorityQueue, PeekLockProofs, TLAPS

InQueue == {"queued", "locked", "dead"}

\* TypeOK without the broker's part.
TopicOK ==
  /\ topicExists \in BOOLEAN
  /\ subscriptions \subseteq Priorities
  /\ ~topicExists => subscriptions = {}

PlacesOK ==
  /\ \A m \in Messages : fate[m] \in InQueue => Priority(m) \in subscriptions
  /\ \A h \in handlers :
       Priority(h.msg) = Subscription(h.to) /\ role[h.to] # "starting"

OwnOK ==
  /\ sender \in Priorities \cup {"down", "waiting"}
  /\ processed \subseteq Messages \ Unsent

LEMMA TypeParts ==
  /\ TypeOK <=> /\ FatesOK /\ HandlersOK(Roles, Steps) /\ BoundsOK
                /\ TopicOK /\ PlacesOK /\ OwnOK
  /\ TypeOK' <=> /\ FatesOK' /\ HandlersOK(Roles, Steps)' /\ BoundsOK'
                 /\ TopicOK' /\ PlacesOK' /\ OwnOK'
BY DEF TypeOK, BrokerTypeOK, TopicOK, PlacesOK, OwnOK, InQueue

LEMMA InitTypeOK == Init => TypeOK
<1> SUFFICES ASSUME Init PROVE TypeOK
  OBVIOUS
<1>1. BrokerTypeOK(Roles, Steps)
  BY BrokerInitOK DEF Init, Roles
<1>2. TopicOK /\ PlacesOK /\ OwnOK
  BY DEF Init, BrokerInit, TopicOK, PlacesOK, OwnOK, InQueue
<1> QED BY <1>1, <1>2, TypeParts DEF BrokerTypeOK

\* What a role or the sender does to the topic when it makes sure of it.
LEMMA SetupKeeps ==
  ASSUME BoundsOK, TopicOK, SetupTopic, UNCHANGED <<stops, subscriptions>>
  PROVE  BoundsOK' /\ TopicOK'
<1>1. BoundsOK'
  BY LimitsAssumption DEF BoundsOK, SetupTopic, Fault
<1>2. topicExists' \in BOOLEAN /\ (topicExists => topicExists')
  BY Zenon DEF SetupTopic, TopicOK
<1> QED BY <1>1, <1>2 DEF TopicOK

\* Messages and handlers stay in their subscriptions.
LEMMA PlacesKeep ==
  ASSUME PlacesOK, subscriptions \subseteq subscriptions',
         \A m \in Messages : fate'[m] \in InQueue =>
           fate[m] \in InQueue \/ Priority(m) \in subscriptions,
         \A h \in handlers' :
           \/ \E g \in handlers :
                /\ h.msg = g.msg /\ h.to = g.to
                /\ role'[h.to] # "starting" \/ role'[h.to] = role[h.to]
           \/ Priority(h.msg) = Subscription(h.to) /\ role'[h.to] # "starting"
  PROVE  PlacesOK'
BY DEF PlacesOK

LEMMA OwnKeeps ==
  ASSUME OwnOK, sender' \in Priorities \cup {"down", "waiting"},
         processed' = processed, \A m \in Messages \ Unsent : fate'[m] # "unsent"
  PROVE  OwnOK'
BY DEF OwnOK, Unsent

----------------------------------------------------------------------------
(* TypeOK: the sender.                                                     *)

SenderSteps ==
  \/ SenderStarts \/ WaitOver \/ SenderStops
  \/ \E p \in Priorities : SendBatch(p) \/ SendFails(p)

\* A batch gets into its subscription, or vanishes.
LEMMA BatchKeeps ==
  ASSUME FatesOK, PlacesOK, NEW p \in Priorities, NEW batch \in Batches(p),
         Become(batch, Accepted(p)), UNCHANGED <<count, subscriptions, handlers, role>>
  PROVE  /\ FatesOK' /\ PlacesOK'
         /\ \A m \in Messages \ Unsent : fate'[m] = fate[m]
<1>1. /\ Accepted(p) \in Fates \ {"unsent", "locked"}
      /\ batch \subseteq Unsent /\ \A m \in batch : Priority(m) = p
  BY DEF Accepted, Fates, Batches
<1>2. \A m \in batch \cap Messages : count[m] < MaxDeliveryCount
  BY <1>1, LimitsAssumption DEF FatesOK, Unsent
<1>3. FatesOK'
  BY <1>1, <1>2, BecomeKeeps
<1>4. \A m \in Messages : fate'[m] = IF m \in batch THEN Accepted(p) ELSE fate[m]
  BY DEF Become
<1>5. PlacesOK'
  BY <1>1, <1>4, PlacesKeep DEF Accepted, InQueue
<1> QED BY <1>1, <1>3, <1>4, <1>5

LEMMA SenderTypeOK ==
  ASSUME TypeOK, SenderSteps
  PROVE  TypeOK'
<1>0. /\ FatesOK /\ HandlersOK(Roles, Steps) /\ BoundsOK
      /\ TopicOK /\ PlacesOK /\ OwnOK
  BY TypeParts
<1>1. UNCHANGED <<count, role, handlers, subscriptions, processed>>
  BY DEF SenderSteps, SenderStarts, WaitOver, SenderStops, SendBatch, SendFails, broker,
         topic
<1>2. HandlersOK(Roles, Steps)'
  BY <1>0, <1>1 DEF HandlersOK
<1>3. ASSUME fate' = fate, sender' \in Priorities \cup {"down", "waiting"}
      PROVE  FatesOK' /\ PlacesOK' /\ OwnOK'
  BY <1>0, <1>1, <1>3 DEF FatesOK, PlacesOK, OwnOK, Unsent
<1>4. CASE SenderStarts
  BY <1>0, <1>1, <1>2, <1>3, <1>4, SetupKeeps, TypeParts
  DEF SenderStarts, broker, Priorities
<1>5. CASE WaitOver
  BY <1>0, <1>1, <1>2, <1>3, <1>5, TypeParts
  DEF WaitOver, broker, bounds, topic, BoundsOK, TopicOK, Priorities
<1>6. CASE SenderStops
  <2>1. BoundsOK'
    BY <1>0, <1>6, LimitsAssumption DEF SenderStops, Stop, BoundsOK
  <2> QED BY <1>0, <1>1, <1>2, <1>3, <1>6, <2>1, TypeParts
          DEF SenderStops, broker, topic, TopicOK
<1>7. ASSUME NEW p \in Priorities, SendBatch(p) PROVE TypeOK'
  <2>1. FatesOK' /\ PlacesOK' /\ \A m \in Messages \ Unsent : fate'[m] = fate[m]
    BY <1>0, <1>1, <1>7, BatchKeeps DEF SendBatch
  <2>2. OwnOK'
    BY <1>0, <1>1, <1>7, <2>1, OwnKeeps DEF SendBatch, Unsent, Priorities
  <2>3. BoundsOK' /\ TopicOK'
    BY <1>0, <1>7 DEF SendBatch, bounds, topic, BoundsOK, TopicOK
  <2> QED BY <1>2, <2>1, <2>2, <2>3, TypeParts
<1>8. ASSUME NEW p \in Priorities, SendFails(p) PROVE TypeOK'
  <2>1. FatesOK' /\ PlacesOK' /\ \A m \in Messages \ Unsent : fate'[m] = fate[m]
    <3>1. CASE UNCHANGED fate
      BY <1>0, <1>1, <3>1 DEF FatesOK, PlacesOK
    <3>2. CASE \E batch \in Batches(p) : Become(batch, Accepted(p))
      BY <1>0, <1>1, <3>2, BatchKeeps
    <3> QED BY <1>8, <3>1, <3>2 DEF SendFails
  <2>2. OwnOK'
    BY <1>0, <1>1, <1>8, <2>1, OwnKeeps DEF SendFails, Unsent
  <2>3. BoundsOK'
    BY <1>0, <1>8, LimitsAssumption DEF SendFails, Fault, BoundsOK
  <2>4. TopicOK'
    BY <1>0, <1>8 DEF SendFails, topic, TopicOK
  <2> QED BY <1>2, <2>1, <2>2, <2>3, <2>4, TypeParts
<1> QED BY <1>4, <1>5, <1>6, <1>7, <1>8 DEF SenderSteps

----------------------------------------------------------------------------
(* TypeOK: the workers.                                                    *)

LEMMA HandlesTypeOK ==
  ASSUME TypeOK, NEW h \in handlers, Handles(h)
  PROVE  TypeOK'
<1>1. /\ FatesOK /\ HandlersOK(Roles, Steps) /\ BoundsOK
      /\ TopicOK /\ PlacesOK /\ OwnOK
      /\ h.msg \in Messages \ Unsent
  BY TypeParts DEF FatesOK, HandlersOK, Deliveries, Unsent
<1>2. {"working", "completing"} \subseteq Steps
  BY DEF Steps
<1>3. "completed" \in Fates \ {"unsent", "locked"}
  BY DEF Fates
<1>4. CASE Begins(h) \/ Works(h)
  <2>1. PICK step \in Steps : Step(h, step)
    BY <1>2, <1>4 DEF Begins, Works
  <2>2. UNCHANGED <<fate, count, role, faults, stops, topicExists, subscriptions, sender>>
    BY <1>4 DEF Begins, Works, broker, bounds, topic
  <2>3. HandlersOK(Roles, Steps)'
    BY <1>1, <2>1, <2>2, StepKeeps
  <2>4. \A g \in handlers' : \E f \in handlers : g.msg = f.msg /\ g.to = f.to
    BY <1>1, <2>1, <2>2, StepShape
  <2>5. PlacesOK'
    BY <1>1, <2>2, <2>4, PlacesKeep
  <2>6. FatesOK' /\ BoundsOK' /\ TopicOK'
    BY <1>1, <2>2 DEF FatesOK, BoundsOK, TopicOK
  <2>7. OwnOK'
    BY <1>1, <1>4, <2>2 DEF Begins, Works, OwnOK, Unsent
  <2> QED BY <2>3, <2>5, <2>6, <2>7, TypeParts
<1>5. CASE Completes(h)
  <2>1. /\ FatesOK' /\ BoundsOK'
        /\ UNCHANGED fate \/ (fate[h.msg] = "locked" /\ Become({h.msg}, "completed"))
    BY <1>1, <1>3, <1>5, CallKeeps DEF Completes
  <2>2. HandlersOK(Roles, Steps)'
    BY <1>1, <1>5, EndsKeeps DEF Completes
  <2>3. PlacesOK'
    BY <1>1, <1>5, <2>1, PlacesKeep DEF Completes, Ends, Become, InQueue, topic
  <2>4. TopicOK'
    BY <1>1, <1>5 DEF Completes, topic, TopicOK
  <2>5. OwnOK'
    BY <1>1, <1>5, <2>1, OwnKeeps DEF Completes, OwnOK, Become, Unsent
  <2> QED BY <2>1, <2>2, <2>3, <2>4, <2>5, TypeParts
<1> QED BY <1>4, <1>5 DEF Handles

LEMMA DeliveryTypeOK ==
  ASSUME TypeOK, NEW m \in Messages,
         LockLost(m) \/ \E r \in Receivers : Deliver(r, m)
  PROVE  TypeOK'
<1>1. /\ FatesOK /\ HandlersOK(Roles, Steps) /\ BoundsOK
      /\ TopicOK /\ PlacesOK /\ OwnOK
  BY TypeParts
<1>2. UNCHANGED <<topicExists, subscriptions, sender, processed>>
  BY DEF LockLost, Deliver, topic
<1>3. TopicOK'
  BY <1>1, <1>2 DEF TopicOK
<1>4. CASE LockLost(m)
  <2>1. FatesOK' /\ HandlersOK(Roles, Steps)' /\ BoundsOK'
    BY <1>1, <1>4, LockExpiresKeeps DEF LockLost, BrokerTypeOK
  <2>2. /\ handlers' = handlers /\ role' = role
        /\ \A n \in Messages :
             fate'[n] = fate[n]
             \/ (fate[n] = "locked" /\ fate'[n] \in {"queued", "dead"})
    BY <1>4, UnlockedIs DEF LockLost, LockExpires, Become
  <2>3. PlacesOK'
    BY <1>1, <1>2, <2>2, PlacesKeep DEF InQueue
  <2>4. OwnOK'
    BY <1>1, <1>2, <2>2, OwnKeeps DEF OwnOK, Unsent
  <2> QED BY <1>3, <2>1, <2>3, <2>4, TypeParts
<1>5. CASE \E r \in Receivers : Deliver(r, m)
  <2> PICK r \in Receivers : Deliver(r, m)
    BY <1>5
  <2>1. FatesOK' /\ HandlersOK(Roles, Steps)'
    BY <1>1, ReceiveKeeps DEF Deliver, Steps
  <2>2. /\ \A n \in Messages :
             fate'[n] = fate[n] \/ (fate[n] = "queued" /\ fate'[n] = "locked")
        /\ \A h \in handlers' : h \in handlers \/ (h.to = r /\ h.msg = m)
        /\ role' = role /\ role[r] # "starting" /\ Priority(m) = Subscription(r)
    BY DEF Deliver, Receive, Become
  <2>3. PlacesOK'
    BY <1>1, <1>2, <2>2, PlacesKeep DEF InQueue
  <2>4. OwnOK'
    BY <1>1, <1>2, <2>2, OwnKeeps DEF OwnOK, Unsent
  <2> QED BY <1>1, <1>3, <2>1, <2>3, <2>4, TypeParts DEF Deliver, bounds, BoundsOK
<1> QED BY <1>4, <1>5

LEMMA RoleTypeOK ==
  ASSUME TypeOK, NEW r \in Receivers, Hosted(r) \/ Pauses(r) \/ Crashes(r)
  PROVE  TypeOK'
<1>1. /\ FatesOK /\ HandlersOK(Roles, Steps) /\ BoundsOK
      /\ TopicOK /\ PlacesOK /\ OwnOK
  BY TypeParts
<1>2. /\ {"starting", "up", "pausing", "closed"} \subseteq Roles \ {"down"}
      /\ "down" \in Roles
  BY DEF Roles
<1>3. UNCHANGED <<count, sender, processed>>
  BY DEF Hosted, Starts, SetupSubscription, Closes, Stops, Pauses, Crashes, broker
<1>4. ASSUME UNCHANGED fate PROVE FatesOK' /\ OwnOK'
  BY <1>1, <1>3, <1>4 DEF FatesOK, OwnOK, Unsent
<1>5. CASE Starts(r)
  <2>1. HandlersOK(Roles, Steps)'
    BY <1>1, <1>2, <1>3, <1>5, RoleKeeps DEF Starts
  <2>2. BoundsOK' /\ TopicOK'
    BY <1>1, <1>5, SetupKeeps DEF Starts
  <2>3. \A h \in handlers : h.to # r /\ h.to \in Receivers
    BY <1>1, <1>5 DEF Starts, HandlersOK, Deliveries
  <2>4. PlacesOK'
    BY <1>1, <1>5, <2>3 DEF Starts, broker, PlacesOK, HandlersOK
  <2> QED BY <1>4, <1>5, <2>1, <2>2, <2>4, TypeParts DEF Starts, broker
<1>6. CASE SetupSubscription(r)
  <2>1. UNCHANGED <<fate, handlers, topicExists, stops>>
    BY <1>6 DEF SetupSubscription, broker
  <2>2. BoundsOK'
    BY <1>1, <1>6, <2>1, LimitsAssumption DEF SetupSubscription, Fault, BoundsOK
  <2>3. TopicOK' /\ subscriptions \subseteq subscriptions'
    <3>1. Subscription(r) \in Priorities
      BY DEF Subscription, Priorities
    <3>2. /\ subscriptions' = subscriptions \/
               (topicExists /\ subscriptions' = subscriptions \cup {Subscription(r)})
      BY <1>6 DEF SetupSubscription
    <3> QED BY <1>1, <2>1, <3>1, <3>2 DEF TopicOK
  <2>4. \A h \in handlers : h.to # r /\ h.to \in Receivers
    BY <1>1, <1>6 DEF SetupSubscription, PlacesOK, HandlersOK, Deliveries
  <2>5. role' \in [Receivers -> Roles] /\ \A q \in Receivers \ {r} : role'[q] = role[q]
    BY <1>1, <1>2, <1>6 DEF SetupSubscription, HandlersOK
  <2>6. HandlersOK(Roles, Steps)'
    BY <1>1, <1>3, <2>1, <2>4, <2>5 DEF HandlersOK
  <2>7. PlacesOK'
    BY <1>1, <2>1, <2>3, <2>4, <2>5 DEF PlacesOK
  <2> QED BY <1>4, <2>1, <2>2, <2>3, <2>6, <2>7, TypeParts
<1>7. CASE Pauses(r) \/ Closes(r)
  <2>1. UNCHANGED <<fate, handlers, topicExists, subscriptions>>
    BY <1>7 DEF Pauses, Closes, broker, topic
  <2>2. HandlersOK(Roles, Steps)'
    BY <1>1, <1>2, <1>3, <1>7, RoleKeeps DEF Pauses, Closes
  <2>3. BoundsOK'
    BY <1>1, <1>7, LimitsAssumption DEF Pauses, Closes, Stop, BoundsOK, bounds
  <2>4. PlacesOK' /\ TopicOK'
    BY <1>1, <1>7, <2>1
    DEF Pauses, Closes, PlacesOK, TopicOK, HandlersOK, Deliveries
  <2> QED BY <1>4, <2>1, <2>2, <2>3, <2>4, TypeParts
<1>8. CASE Stops(r)
  <2>1. HandlersOK(Roles, Steps)'
    BY <1>1, <1>2, <1>8, LeavesKeeps DEF Stops
  <2>2. "lost" \in Fates \ {"unsent", "locked", "queued"}
    BY DEF Fates
  <2>3. FatesOK'
    BY <1>1, <1>8, <2>2, BecomeKeeps DEF Stops, Purge
  <2>4. \A m \in Messages :
          /\ fate'[m] \notin InQueue
          /\ fate'[m] = "unsent" <=> fate[m] = "unsent"
    BY <1>1, <1>8 DEF Stops, Purge, Become, InQueue
  <2>5. OwnOK'
    BY <1>1, <1>3, <2>4 DEF OwnOK, Unsent
  <2>6. PlacesOK' /\ TopicOK'
    BY <1>1, <1>8, <2>4
    DEF Stops, Leaves, PlacesOK, TopicOK, HandlersOK, Deliveries
  <2> QED BY <1>1, <1>8, <2>1, <2>3, <2>5, <2>6, TypeParts DEF Stops, bounds, BoundsOK
<1>9. CASE Crashes(r)
  <2>1. HandlersOK(Roles, Steps)'
    BY <1>1, <1>2, <1>3, <1>9, LeavesKeeps DEF Crashes
  <2>2. PlacesOK' /\ TopicOK'
    BY <1>1, <1>9
    DEF Crashes, Leaves, PlacesOK, TopicOK, HandlersOK, Deliveries, broker, topic
  <2>3. BoundsOK'
    BY <1>1, <1>9, LimitsAssumption DEF Crashes, Fault, BoundsOK
  <2> QED BY <1>4, <1>9, <2>1, <2>2, <2>3, TypeParts DEF Crashes, broker
<1> QED BY <1>5, <1>6, <1>7, <1>8, <1>9 DEF Hosted

LEMMA NextTypeOK == TypeOK /\ [Next]_vars => TypeOK'
<1>1. ASSUME TypeOK, UNCHANGED vars PROVE TypeOK'
  BY <1>1, TypeParts
  DEF vars, broker, bounds, topic, FatesOK, HandlersOK, BoundsOK, TopicOK, PlacesOK,
      OwnOK, Unsent
<1>2. ASSUME TypeOK, Next PROVE TypeOK'
  BY <1>2, SenderTypeOK, HandlesTypeOK, DeliveryTypeOK, RoleTypeOK DEF Next, SenderSteps
<1> QED BY <1>1, <1>2

\* The variables stay in their ranges: messages lie in subscriptions that exist,
\* and only a worker of a message's priority that has started handles it.
THEOREM TypeCorrect == Spec => []TypeOK
BY InitTypeOK, NextTypeOK, PTL DEF Spec

----------------------------------------------------------------------------
(* The rest of the inductive invariant.                                    *)

LEMMA NextWorked ==
  ASSUME TypeOK, WorkedOn, [Next]_vars
  PROVE  WorkedOn'
<1>1. HandlersOK(Roles, Steps) /\ {"working", "completing"} \subseteq Steps
  BY TypeParts DEF Steps
<1>2. CASE UNCHANGED vars
  BY <1>2 DEF vars, WorkedOn
<1>3. ASSUME processed' = processed,
             \A h \in handlers' : h \in handlers \/ h.step = "received"
      PROVE  WorkedOn'
  BY <1>3 DEF WorkedOn
<1>4. CASE SenderSteps
  BY <1>3, <1>4
  DEF SenderSteps, SenderStarts, WaitOver, SenderStops, SendBatch, SendFails
<1>5. CASE \E m \in Messages : LockLost(m)
  BY <1>3, <1>5 DEF LockLost, LockExpires
<1>6. CASE \E r \in Receivers, m \in Messages : Deliver(r, m)
  BY <1>3, <1>6 DEF Deliver, Receive
<1>7. ASSUME NEW h \in handlers, Handles(h) PROVE WorkedOn'
  <2>1. ASSUME NEW step \in Steps, Step(h, step), UNCHANGED <<role, count>>
        PROVE  \A g \in handlers' : g \in handlers \/ (g.msg = h.msg /\ g.step = step)
    BY <1>1, <2>1, StepShape
  <2>2. CASE Begins(h)
    <3>1. \A g \in handlers' : g \in handlers \/ g.step = "working"
      BY <1>1, <2>1, <2>2 DEF Begins, broker
    <3> QED BY <2>2, <3>1 DEF Begins, WorkedOn
  <2>3. CASE Works(h)
    <3>1. \A g \in handlers' : g \in handlers \/ g.msg = h.msg
      BY <1>1, <2>1, <2>3 DEF Works, broker
    <3> QED BY <2>3, <3>1 DEF Works, WorkedOn
  <2>4. CASE Completes(h)
    BY <1>3, <2>4 DEF Completes, Ends
  <2> QED BY <1>7, <2>2, <2>3, <2>4 DEF Handles
<1>8. CASE \E r \in Receivers : Hosted(r) \/ Pauses(r) \/ Crashes(r)
  BY <1>3, <1>8
  DEF Hosted, Starts, SetupSubscription, Closes, Stops, Pauses, Crashes, Leaves
<1> QED BY <1>2, <1>4, <1>5, <1>6, <1>7, <1>8 DEF Next, SenderSteps

\* While nothing has failed or been stopped, no worker and no subscription goes.
LEMMA NextInService ==
  ASSUME TypeOK, InService, [Next]_vars
  PROVE  InService'
<1>1. /\ HandlersOK(Roles, Steps) /\ BoundsOK /\ faults \in Nat /\ stops \in Nat
  BY TypeParts, LimitsAssumption DEF BoundsOK
<1>2. ASSUME faults' = 0 => faults = 0, stops' = 0 => stops = 0,
             UNCHANGED <<role, subscriptions>>
      PROVE  InService'
  BY <1>2 DEF InService
<1>3. ASSUME faults' = faults + 1 \/ stops' = stops + 1
      PROVE  InService'
  BY <1>1, <1>3 DEF InService
<1>4. CASE UNCHANGED vars
  BY <1>2, <1>4 DEF vars, bounds, topic
<1>5. CASE SenderSteps
  <2>1. CASE SenderStarts \/ WaitOver \/ SenderStops
    BY <1>2, <1>3, <2>1
    DEF SenderStarts, SetupTopic, WaitOver, SenderStops, Stop, Fault, bounds, topic
  <2>2. CASE \E p \in Priorities : SendBatch(p) \/ SendFails(p)
    BY <1>2, <1>3, <2>2 DEF SendBatch, SendFails, Fault, bounds, topic
  <2> QED BY <1>5, <2>1, <2>2 DEF SenderSteps
<1>6. CASE \E m \in Messages : LockLost(m)
  BY <1>2, <1>3, <1>6 DEF LockLost, LockExpires, Fault, topic
<1>7. CASE \E r \in Receivers, m \in Messages : Deliver(r, m)
  BY <1>2, <1>7 DEF Deliver, bounds, topic
<1>8. CASE \E h \in handlers : Handles(h)
  BY <1>2, <1>3, <1>8
  DEF Handles, Begins, Works, Completes, Served, Throws, Fault, bounds, topic
<1>9. ASSUME NEW r \in Receivers, Hosted(r) \/ Pauses(r) \/ Crashes(r)
      PROVE  InService'
  <2>1. role \in [Receivers -> Roles]
    BY <1>1 DEF HandlersOK
  <2>2. CASE Starts(r)
    <3>1. CASE Fault
      BY <1>3, <3>1 DEF Fault
    <3>2. CASE faults' = faults
      BY <2>1, <2>2, <3>2 DEF Starts, InService
    <3> QED BY <2>2, <3>1, <3>2 DEF Starts, SetupTopic
  <2>3. CASE SetupSubscription(r)
    <3>1. CASE Fault
      BY <1>3, <3>1 DEF Fault
    <3>2. CASE faults' = faults /\ ~Fault
      BY <2>1, <2>3, <3>2 DEF SetupSubscription, InService
    <3> QED BY <2>3, <3>1, <3>2 DEF SetupSubscription
  <2>4. CASE Closes(r) \/ Stops(r)
    BY <2>4 DEF Closes, Stops, InService, bounds
  <2>5. CASE Pauses(r) \/ Crashes(r)
    BY <1>3, <2>5 DEF Pauses, Crashes, Stop, Fault
  <2> QED BY <1>9, <2>2, <2>3, <2>4, <2>5 DEF Hosted
<1> QED BY <1>4, <1>5, <1>6, <1>7, <1>8, <1>9 DEF Next, SenderSteps

LEMMA InitIInv == Init => IInv
BY InitTypeOK DEF Init, BrokerInit, IInv, WorkedOn, InService

LEMMA NextIInv == IInv /\ [Next]_vars => IInv'
BY NextTypeOK, NextWorked, NextInService DEF IInv

\* IInv holds in every reachable state.
THEOREM Inductive == Spec => []IInv
BY InitIInv, NextIInv, PTL DEF Spec

----------------------------------------------------------------------------
(* The starts lose nothing.                                                *)

Lossless ==
  faults = 0 /\ stops = 0 =>
    \A m \in Messages : fate'[m] = "lost" /\ fate[m] # "lost" =>
      \A r \in Receivers :
        Subscription(r) = Priority(m) => role[r] \in {"down", "starting"}

LEMMA NextLossless ==
  ASSUME TypeOK, InService, [Next]_vars
  PROVE  Lossless
<1> SUFFICES ASSUME faults = 0, stops = 0,
                    NEW m \in Messages, fate'[m] = "lost", fate[m] # "lost",
                    NEW r \in Receivers, Subscription(r) = Priority(m)
             PROVE  role[r] \in {"down", "starting"}
  BY DEF Lossless
<1>1. FatesOK /\ HandlersOK(Roles, Steps) /\ fate'[m] # fate[m]
  BY TypeParts
<1>2. CASE UNCHANGED fate
  BY <1>1, <1>2
<1>3. ASSUME NEW p \in Priorities, SendBatch(p) \/ SendFails(p), ~UNCHANGED fate
      PROVE  role[r] \in {"down", "starting"}
  <2>1. PICK batch \in Batches(p) : Become(batch, Accepted(p))
    BY <1>3 DEF SendBatch, SendFails
  <2>2. m \in batch /\ Accepted(p) = "lost"
    BY <1>1, <2>1 DEF Become
  <2>3. Priority(m) \notin subscriptions
    BY <2>2 DEF Batches, Accepted
  <2> QED BY <2>3 DEF InService
<1>4. CASE \E n \in Messages : LockLost(n)
  BY <1>1, <1>4, UnlockedIs DEF LockLost, LockExpires, Become
<1>5. CASE \E q \in Receivers, n \in Messages : Deliver(q, n)
  BY <1>1, <1>5 DEF Deliver, Receive, Become
<1>6. CASE \E h \in handlers : Handles(h)
  BY <1>1, <1>6 DEF Handles, Begins, Works, Completes, Served, Throws, Become, broker
<1>7. ASSUME NEW q \in Receivers, Stops(q) PROVE FALSE
  BY <1>7 DEF Stops, InService
<1> QED
  BY <1>2, <1>3, <1>4, <1>5, <1>6, <1>7
  DEF Next, SenderStarts, WaitOver, SenderStops, Hosted, Starts, SetupSubscription, Closes,
      Pauses, Crashes, broker, vars

\* As long as nothing fails or is stopped, a message is lost only for want of a
\* worker: nobody's start deletes or replaces what another start has set up.
THEOREM StartsLoseNothing == Spec => NothingLostInService
<1>1. IInv /\ [Next]_vars => [Lossless]_vars
  BY NextLossless DEF IInv
<1> QED BY Inductive, <1>1, PTL DEF Spec, NothingLostInService, Lossless

----------------------------------------------------------------------------
(* The promise is kept.                                                    *)

LEMMA InitDelivery == Init => Delivery!Init
BY DEF Init, BrokerInit, Outline, Delivery!Init

\* A batch is waiting in its subscription, or lost.
LEMMA BatchFates ==
  ASSUME FatesOK, NEW p \in Priorities, NEW batch \in Batches(p),
         Become(batch, Accepted(p)), UNCHANGED processed
  PROVE  Delivery!Next
<1> DEFINE g == IF Accepted(p) \in {"queued", "locked"} THEN "waiting" ELSE Accepted(p)
<1>1. Outline' = [n \in Messages |-> IF n \in batch THEN g ELSE Outline[n]]
  BY OutlineBecome
<1>2. g \in {"waiting", "lost"}
  BY DEF Accepted
<1>3. batch \in SUBSET Messages /\ \A m \in batch : Outline[m] = "unsent"
  BY DEF Batches, Unsent, Outline
<1> HIDE DEF g
<1>4. Delivery!Send(batch)
  BY <1>1, <1>2, <1>3 DEF Delivery!Send, Delivery!Become
<1> QED BY <1>3, <1>4 DEF Delivery!Next

LEMMA PurgedFates ==
  ASSUME FatesOK, Purge(Messages), UNCHANGED processed
  PROVE  Delivery!Next
<1> DEFINE S == {m \in Messages : fate[m] \in InQueue}
<1>1. Outline' = [n \in Messages |-> IF n \in S THEN "lost" ELSE Outline[n]]
  BY OutlineBecome DEF Purge, InQueue
<1>2. S \in SUBSET Messages /\ \A m \in S : Outline[m] \in {"waiting", "dead"}
  BY DEF Outline, InQueue
<1> HIDE DEF S
<1>3. Delivery!Lose(S)
  BY <1>1, <1>2 DEF Delivery!Lose, Delivery!Become
<1> QED BY <1>2, <1>3 DEF Delivery!Next

\* A message in a subscription is locked, given back, dead-lettered or completed.
LEMMA OneFate ==
  ASSUME FatesOK, NEW m \in Messages, NEW f, Become({m}, f),
         fate[m] \in {"queued", "locked"}, UNCHANGED processed,
         f \in {"queued", "locked", "dead"} \/ (f = "completed" /\ m \in processed)
  PROVE  [Delivery!Next]_Delivery!vars
<1> DEFINE g == IF f \in {"queued", "locked"} THEN "waiting" ELSE f
<1>1. Outline[m] = "waiting"
  BY DEF Outline
<1>2. Outline' = [n \in Messages |-> IF n \in {m} THEN g ELSE Outline[n]]
  BY OutlineBecome
<1>3. CASE f \in {"queued", "locked"}
  <2>1. Outline' = Outline
    BY <1>1, <1>2, <1>3 DEF Outline
  <2> QED BY <2>1 DEF Delivery!vars
<1>4. CASE f = "dead"
  <2>1. Delivery!DeadLetter(m)
    BY <1>1, <1>2, <1>4 DEF Delivery!DeadLetter, Delivery!Become
  <2> QED BY <2>1 DEF Delivery!Next
<1>5. CASE f = "completed" /\ m \in processed
  <2>1. Delivery!Complete(m)
    BY <1>1, <1>2, <1>5 DEF Delivery!Complete, Delivery!Become
  <2> QED BY <2>1 DEF Delivery!Next
<1> QED BY <1>3, <1>4, <1>5

LEMMA NextDelivery ==
  ASSUME TypeOK, WorkedOn, [Next]_vars
  PROVE  [Delivery!Next]_Delivery!vars
<1>1. /\ FatesOK /\ HandlersOK(Roles, Steps) /\ BoundsOK
      /\ \A h \in handlers : h.msg \in Messages /\ fate[h.msg] # "unsent"
  BY TypeParts DEF FatesOK, HandlersOK, Deliveries
<1>2. ASSUME UNCHANGED <<fate, processed>> PROVE [Delivery!Next]_Delivery!vars
  BY <1>2 DEF Delivery!vars, Outline
<1>3. CASE UNCHANGED vars
  BY <1>2, <1>3 DEF vars, broker
<1>4. CASE SenderStarts \/ WaitOver \/ SenderStops
  BY <1>2, <1>4 DEF SenderStarts, WaitOver, SenderStops, broker
<1>5. CASE \E p \in Priorities : SendBatch(p) \/ SendFails(p)
  BY <1>1, <1>2, <1>5, BatchFates DEF SendBatch, SendFails
<1>6. CASE \E m \in Messages : LockLost(m)
  BY <1>1, <1>6, OneFate, UnlockedIs DEF LockLost, LockExpires
<1>7. CASE \E r \in Receivers, m \in Messages : Deliver(r, m)
  BY <1>1, <1>7, OneFate DEF Deliver, Receive
<1>8. ASSUME NEW h \in handlers, Handles(h) PROVE [Delivery!Next]_Delivery!vars
  <2>1. CASE Begins(h)
    BY <1>2, <2>1 DEF Begins, broker
  <2>2. CASE Works(h)
    <3>1. Outline' = Outline /\ Outline[h.msg] # "unsent"
      BY <1>1, <2>2 DEF Works, broker, Outline
    <3>2. Delivery!Process(h.msg)
      BY <2>2, <3>1 DEF Works, Delivery!Process
    <3> QED BY <1>1, <3>2 DEF Delivery!Next
  <2>3. CASE Completes(h)
    <3>1. h.msg \in processed /\ UNCHANGED processed
      BY <2>3 DEF Completes, WorkedOn
    <3>2. UNCHANGED fate \/ (fate[h.msg] = "locked" /\ Become({h.msg}, "completed"))
      BY <2>3 DEF Completes, Served, Throws, Holds
    <3> QED BY <1>1, <1>2, <3>1, <3>2, OneFate
  <2> QED BY <1>8, <2>1, <2>2, <2>3 DEF Handles
<1>9. ASSUME NEW r \in Receivers, Hosted(r) \/ Pauses(r) \/ Crashes(r)
      PROVE  [Delivery!Next]_Delivery!vars
  <2>1. CASE Stops(r)
    BY <1>1, <2>1, PurgedFates DEF Stops
  <2>2. CASE Starts(r) \/ SetupSubscription(r) \/ Closes(r) \/ Pauses(r) \/ Crashes(r)
    BY <1>2, <2>2 DEF Starts, SetupSubscription, Closes, Pauses, Crashes, broker
  <2> QED BY <1>9, <2>1, <2>2 DEF Hosted
<1> QED BY <1>3, <1>4, <1>5, <1>6, <1>7, <1>8, <1>9 DEF Next

\* The sample implements MessageDelivery: what is completed was processed
\* before, and what became of a message is final, unless its topic is deleted.
THEOREM KeepsThePromise == Spec => AtLeastOnce
<1>1. IInv /\ [Next]_vars => [Delivery!Next]_Delivery!vars
  BY NextDelivery DEF IInv
<1> QED BY InitDelivery, Inductive, <1>1, PTL DEF Spec, AtLeastOnce, Delivery!Spec
=============================================================================
