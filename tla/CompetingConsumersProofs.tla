---------------------- MODULE CompetingConsumersProofs ----------------------
(***************************************************************************)
(* Theorems about CompetingConsumers, for any messages and receivers and   *)
(* any number of faults and stops: its ranges, that an invalid message     *)
(* stays in the dead-letter queue, and that it implements MessageDelivery. *)
(***************************************************************************)
EXTENDS CompetingConsumers, PeekLockProofs, TLAPS

InQueue == {"queued", "locked", "dead"}

\* TypeOK without the broker's part.
OwnOK ==
  /\ queueExists \in BOOLEAN
  /\ ~queueExists => \A m \in Messages : fate[m] \notin InQueue
  /\ sender \in {"down", "up"}
  /\ processed \subseteq Messages \ Unsent

LEMMA TypeParts ==
  /\ TypeOK <=> /\ FatesOK /\ HandlersOK(Roles, Steps) /\ BoundsOK /\ OwnOK
  /\ TypeOK' <=> /\ FatesOK' /\ HandlersOK(Roles, Steps)' /\ BoundsOK' /\ OwnOK'
BY DEF TypeOK, BrokerTypeOK, OwnOK, InQueue

LEMMA InitTypeOK == Init => TypeOK
<1> SUFFICES ASSUME Init PROVE BrokerTypeOK(Roles, Steps) /\ OwnOK
  BY TypeParts DEF BrokerTypeOK
<1>1. BrokerTypeOK(Roles, Steps)
  BY BrokerInitOK DEF Init, Roles
<1>2. OwnOK
  BY DEF Init, BrokerInit, OwnOK, InQueue
<1> QED BY <1>1, <1>2

----------------------------------------------------------------------------
(* TypeOK: the sender and the other clients.                               *)

LEMMA CreateKeeps ==
  ASSUME BoundsOK, queueExists \in BOOLEAN, CreateQueue, UNCHANGED stops
  PROVE  BoundsOK' /\ queueExists' \in BOOLEAN /\ (queueExists => queueExists')
<1>1. BoundsOK'
  BY LimitsAssumption DEF BoundsOK, CreateQueue, Fault
<1>2. queueExists' \in BOOLEAN /\ (queueExists => queueExists')
  BY Zenon DEF CreateQueue
<1> QED  BY <1>1, <1>2

LEMMA SenderTypeOK ==
  ASSUME TypeOK,
         Sender \/ SendBatch \/ (\E m \in Messages : OtherSends(m))
  PROVE  TypeOK'
<1>0. FatesOK /\ HandlersOK(Roles, Steps) /\ BoundsOK /\ OwnOK
  BY TypeParts
<1>1. ASSUME UNCHANGED <<count, role, handlers>> PROVE HandlersOK(Roles, Steps)'
  BY <1>0, <1>1 DEF HandlersOK
<1>2. ASSUME UNCHANGED broker PROVE FatesOK'
  BY <1>0, <1>2 DEF FatesOK, broker
<1>3. \A m \in Unsent : count[m] = 0 /\ count[m] < MaxDeliveryCount
  BY <1>0, LimitsAssumption DEF FatesOK, Unsent
<1>4. "queued" \in Fates \ {"unsent", "locked"}
  BY DEF Fates
<1>5. CASE SenderStarts
  <2>1. OwnOK'
    <3>1. queueExists' \in BOOLEAN /\ (queueExists => queueExists')
      BY <1>0, <1>5, CreateKeeps DEF SenderStarts, OwnOK
    <3> QED BY <1>0, <1>5, <3>1 DEF SenderStarts, OwnOK, Unsent, broker
  <2>2. BoundsOK'
    BY <1>0, <1>5, CreateKeeps DEF SenderStarts, OwnOK
  <2> QED BY <1>1, <1>2, <1>5, <2>1, <2>2, TypeParts DEF SenderStarts, broker
<1>6. CASE SendBatch
  <2> PICK batch \in SUBSET (Unsent \ Invalid) : Become(batch, "queued")
    BY <1>6 DEF SendBatch
  <2>1. FatesOK'
    BY <1>0, <1>3, <1>4, <1>6, BecomeKeeps DEF SendBatch
  <2>2. OwnOK'
    BY <1>0, <1>6 DEF SendBatch, OwnOK, FatesOK, Become, Unsent
  <2> QED BY TypeParts, <1>0, <1>1, <1>6, <2>1, <2>2 DEF SendBatch, bounds, BoundsOK
<1>7. CASE SendFails
  <2>1. FatesOK'
    BY <1>0, <1>2, <1>3, <1>4, <1>7, BecomeKeeps DEF SendFails, broker
  <2>2. OwnOK'
    BY <1>0, <1>7 DEF SendFails, OwnOK, FatesOK, Become, Unsent
  <2>3. BoundsOK'
    BY <1>0, <1>7, LimitsAssumption DEF SendFails, BoundsOK, Fault
  <2> QED BY TypeParts, <1>0, <1>1, <1>7, <2>1, <2>2, <2>3 DEF SendFails
<1>8. CASE SenderStops
  <2>1. OwnOK' /\ BoundsOK'
    BY <1>0, <1>8, LimitsAssumption
    DEF SenderStops, OwnOK, BoundsOK, Stop, Unsent, broker
  <2> QED BY TypeParts, <1>0, <1>1, <1>2, <1>8, <2>1 DEF SenderStops, broker
<1>9. CASE \E m \in Messages : OtherSends(m)
  <2> PICK m \in Messages : OtherSends(m)
    BY <1>9
  <2>1. FatesOK'
    BY <1>0, <1>3, <1>4, BecomeKeeps DEF OtherSends
  <2>2. OwnOK'
    BY <1>0 DEF OtherSends, OwnOK, FatesOK, Become, Unsent
  <2> QED BY TypeParts, <1>0, <1>1, <2>1, <2>2 DEF OtherSends, bounds, BoundsOK
<1> QED BY <1>5, <1>6, <1>7, <1>8, <1>9 DEF Sender

----------------------------------------------------------------------------
(* TypeOK: the receivers.                                                  *)

\* A change of the fates by the broker or a handler, while there is a queue.
LEMMA OwnKeeps ==
  ASSUME FatesOK, OwnOK, UNCHANGED <<queueExists, sender>>,
         processed \subseteq processed', processed' \subseteq Messages \ Unsent,
         \/ UNCHANGED fate
         \/ \E m \in Messages, f \in Fates \ {"unsent"} :
              fate[m] \in InQueue /\ Become({m}, f)
  PROVE  OwnOK'
BY DEF FatesOK, OwnOK, Become, InQueue, Unsent

LEMMA CallTypeOK ==
  ASSUME TypeOK, NEW h \in handlers, NEW f \in Fates \ {"unsent", "locked"},
         f = "queued" => count[h.msg] < MaxDeliveryCount,
         Served(h, f) \/ Throws(h, f),
         UNCHANGED <<count, stops, queueExists, role, sender, processed>>,
         Ends(h) \/ \E step \in Steps : Step(h, step)
  PROVE  TypeOK'
<1>1. /\ FatesOK /\ HandlersOK(Roles, Steps) /\ BoundsOK /\ OwnOK
      /\ h.msg \in Messages
  BY TypeParts DEF HandlersOK, Deliveries
<1>2. /\ FatesOK' /\ BoundsOK'
      /\ UNCHANGED fate \/ (fate[h.msg] = "locked" /\ Become({h.msg}, f))
  BY <1>1, CallKeeps
<1>3. HandlersOK(Roles, Steps)'
  BY <1>1, EndsKeeps, StepKeeps
<1>4. OwnOK'
  BY <1>1, <1>2, OwnKeeps DEF InQueue, OwnOK
<1> QED BY <1>2, <1>3, <1>4, TypeParts

LEMMA HandlesTypeOK ==
  ASSUME TypeOK, NEW h \in handlers, Handles(h)
  PROVE  TypeOK'
<1>1. /\ FatesOK /\ HandlersOK(Roles, Steps) /\ BoundsOK /\ OwnOK
      /\ h.msg \in Messages \ Unsent
  BY TypeParts DEF FatesOK, HandlersOK, Deliveries, Unsent
<1>2. {"deadlettering", "working", "completing", "abandoning"} \subseteq Steps
  BY DEF Steps
<1>3. /\ {"dead", "completed"} \subseteq Fates \ {"unsent", "locked", "queued"}
      /\ Unlocked(h.msg) \in Fates \ {"unsent", "locked"}
      /\ Unlocked(h.msg) = "queued" => count[h.msg] < MaxDeliveryCount
  BY <1>1, UnlockedIs DEF Fates
<1>4. CASE Begins(h) \/ Works(h)
  <2>1. HandlersOK(Roles, Steps)'
    BY <1>1, <1>2, <1>4, StepKeeps DEF Begins, Works, broker
  <2>2. FatesOK' /\ BoundsOK'
    BY <1>1, <1>4 DEF Begins, Works, broker, bounds, FatesOK, BoundsOK
  <2>3. OwnOK'
    BY <1>1, <1>4, OwnKeeps DEF Begins, Works, broker, OwnOK
  <2> QED BY <2>1, <2>2, <2>3, TypeParts
<1>5. CASE DeadLetterAsync(h)
  BY <1>2, <1>3, <1>5, CallTypeOK DEF DeadLetterAsync
<1>6. CASE CompleteAsync(h)
  BY <1>2, <1>3, <1>6, CallTypeOK DEF CompleteAsync
<1>7. CASE Abandon(h)
  BY <1>2, <1>3, <1>7, CallTypeOK DEF Abandon
<1> QED BY <1>4, <1>5, <1>6, <1>7 DEF Handles

LEMMA DeliveryTypeOK ==
  ASSUME TypeOK, NEW m \in Messages,
         LockLost(m) \/ \E r \in Receivers : Deliver(r, m)
  PROVE  TypeOK'
<1>1. FatesOK /\ HandlersOK(Roles, Steps) /\ BoundsOK /\ OwnOK
  BY TypeParts
<1>2. CASE LockLost(m)
  <2>1. FatesOK' /\ HandlersOK(Roles, Steps)' /\ BoundsOK'
    BY <1>1, <1>2, LockExpiresKeeps DEF LockLost, BrokerTypeOK
  <2>2. fate[m] \in InQueue /\ \E f \in Fates \ {"unsent"} : Become({m}, f)
    BY <1>2, UnlockedIs DEF LockLost, LockExpires, InQueue
  <2>3. OwnOK'
    BY <1>1, <1>2, <2>2, OwnKeeps DEF LockLost, OwnOK
  <2> QED BY <2>1, <2>3, TypeParts
<1>3. CASE \E r \in Receivers : Deliver(r, m)
  <2> PICK r \in Receivers : Deliver(r, m)
    BY <1>3
  <2>1. FatesOK' /\ HandlersOK(Roles, Steps)'
    BY <1>1, ReceiveKeeps DEF Deliver, Steps
  <2>2. "locked" \in Fates \ {"unsent"} /\ fate[m] \in InQueue /\ Become({m}, "locked")
    BY DEF Deliver, Receive, InQueue, Fates
  <2>3. OwnOK'
    BY <1>1, <2>2, OwnKeeps DEF Deliver, OwnOK
  <2> QED BY <1>1, <2>1, <2>3, TypeParts DEF Deliver, bounds, BoundsOK
<1> QED BY <1>2, <1>3

Hosted(r) == Starts(r) \/ Pauses(r) \/ Closes(r) \/ Stops(r) \/ Crashes(r)

LEMMA RoleTypeOK ==
  ASSUME TypeOK, NEW r \in Receivers, Hosted(r)
  PROVE  TypeOK'
<1>1. FatesOK /\ HandlersOK(Roles, Steps) /\ BoundsOK /\ OwnOK
  BY TypeParts
<1>2. {"up", "pausing", "closed"} \subseteq Roles \ {"down"} /\ "down" \in Roles
  BY DEF Roles
<1>3. CASE Starts(r)
  <2>1. HandlersOK(Roles, Steps)' /\ FatesOK'
    BY <1>1, <1>2, <1>3, RoleKeeps DEF Starts, broker, FatesOK
  <2>2. /\ BoundsOK' /\ queueExists' \in BOOLEAN
        /\ queueExists => queueExists'
    BY <1>1, <1>3, CreateKeeps DEF Starts, OwnOK
  <2>3. OwnOK'
    BY <1>1, <1>3, <2>2 DEF Starts, OwnOK, Unsent, broker
  <2> QED BY <2>1, <2>2, <2>3, TypeParts
<1>4. CASE Pauses(r) \/ Closes(r)
  <2>1. HandlersOK(Roles, Steps)' /\ FatesOK'
    BY <1>1, <1>2, <1>4, RoleKeeps DEF Pauses, Closes, broker, FatesOK
  <2>2. OwnOK'
    BY <1>1, <1>4 DEF Pauses, Closes, OwnOK, Unsent, broker
  <2>3. BoundsOK'
    BY <1>1, <1>4, LimitsAssumption DEF Pauses, Closes, Stop, BoundsOK, bounds
  <2> QED BY <2>1, <2>2, <2>3, TypeParts
<1>5. CASE Stops(r)
  <2>1. HandlersOK(Roles, Steps)'
    BY <1>1, <1>2, <1>5, LeavesKeeps DEF Stops
  <2>2. "lost" \in Fates \ {"unsent", "locked", "queued"}
    BY DEF Fates
  <2>3. FatesOK'
    BY <1>1, <1>5, <2>2, BecomeKeeps DEF Stops, Purge
  <2>4. OwnOK'
    BY <1>1, <1>5 DEF Stops, Purge, Become, OwnOK, InQueue, FatesOK, Unsent
  <2> QED BY <1>1, <1>5, <2>1, <2>3, <2>4, TypeParts DEF Stops, BoundsOK
<1>6. CASE Crashes(r)
  <2>1. HandlersOK(Roles, Steps)' /\ FatesOK'
    BY <1>1, <1>2, <1>6, LeavesKeeps DEF Crashes, broker, FatesOK
  <2>2. OwnOK'
    BY <1>1, <1>6 DEF Crashes, OwnOK, Unsent, broker
  <2>3. BoundsOK'
    BY <1>1, <1>6, LimitsAssumption DEF Crashes, Fault, BoundsOK
  <2> QED BY <2>1, <2>2, <2>3, TypeParts
<1> QED BY <1>3, <1>4, <1>5, <1>6 DEF Hosted

LEMMA NextTypeOK == TypeOK /\ [Next]_vars => TypeOK'
<1>1. ASSUME TypeOK, UNCHANGED vars PROVE TypeOK'
  BY <1>1, TypeParts
  DEF vars, broker, bounds, FatesOK, HandlersOK, BoundsOK, OwnOK, Unsent
<1>2. ASSUME TypeOK, Next PROVE TypeOK'
  BY <1>2, SenderTypeOK, HandlesTypeOK, DeliveryTypeOK, RoleTypeOK DEF Next, Hosted
<1> QED BY <1>1, <1>2

\* The variables stay in their ranges: no handler outlives its process or has
\* another's delivery, no delivery exceeds the limit, and no message is in a
\* queue that does not exist.
THEOREM TypeCorrect == Spec => []TypeOK
BY InitTypeOK, NextTypeOK, PTL DEF Spec

----------------------------------------------------------------------------
(* What is completed was processed, and invalid messages are kept.         *)

\* A step that brings no handler further, and completes nothing.
LEMMA OtherStepKeeps ==
  ASSUME TypeOK, WorkedOn, InvalidDead, processed \subseteq processed',
         \A h \in handlers' : h \in handlers \/ h.step = "received",
         \A m \in Messages :
           \/ fate'[m] = fate[m]
           \/ fate[m] \notin {"dead", "lost"} /\ fate'[m] # "completed"
           \/ fate'[m] = "lost"
  PROVE  WorkedOn' /\ InvalidDead'
<1>1. \A h \in handlers : h.msg \in Messages
  BY TypeParts DEF HandlersOK, Deliveries
<1>2. WorkedOn'
  BY DEF WorkedOn
<1>3. InvalidDead'
  BY <1>1, MessagesAssumption DEF InvalidDead, InvalidKept
<1> QED BY <1>2, <1>3

\* The fates that the steps of others bring.
LEMMA FateSteps ==
  ASSUME TypeOK, Next, \A h \in handlers : ~Handles(h)
  PROVE  /\ processed \subseteq processed'
         /\ \A h \in handlers' : h \in handlers \/ h.step = "received"
         /\ \A m \in Messages :
              \/ fate'[m] = fate[m]
              \/ fate[m] \notin {"dead", "lost"} /\ fate'[m] # "completed"
              \/ fate'[m] = "lost"
<1> USE DEF broker
<1>1. FatesOK
  BY TypeParts
<1>2. CASE Sender \/ SendBatch
  BY <1>1, <1>2
  DEF Sender, SenderStarts, SendFails, SenderStops, SendBatch, Become, Unsent, FatesOK
<1>3. CASE \E m \in Messages : OtherSends(m)
  BY <1>1, <1>3 DEF OtherSends, Become, Unsent, FatesOK
<1>4. CASE \E m \in Messages : LockLost(m)
  BY <1>1, <1>4, UnlockedIs DEF LockLost, LockExpires, Become, FatesOK
<1>5. CASE \E r \in Receivers, m \in Messages : Deliver(r, m)
  BY <1>1, <1>5 DEF Deliver, Receive, Become, FatesOK
<1>6. CASE \E r \in Receivers : Hosted(r)
  BY <1>1, <1>6
  DEF Hosted, Starts, Pauses, Closes, Stops, Crashes, Leaves, Purge, Become, FatesOK
<1> QED BY <1>2, <1>3, <1>4, <1>5, <1>6 DEF Next, Hosted

LEMMA HandlesWorked ==
  ASSUME TypeOK, WorkedOn, InvalidDead, NEW h \in handlers, Handles(h)
  PROVE  WorkedOn' /\ InvalidDead'
<1>1. /\ FatesOK /\ HandlersOK(Roles, Steps) /\ BoundsOK
      /\ \A g \in handlers : g.msg \in Messages
  BY TypeParts DEF HandlersOK, Deliveries
<1>2. {"deadlettering", "working", "completing", "abandoning"} \subseteq Steps
  BY DEF Steps
<1>3. /\ {"dead", "completed"} \subseteq Fates \ {"unsent", "locked", "queued"}
      /\ Unlocked(h.msg) \in Fates \ {"unsent", "locked"}
      /\ Unlocked(h.msg) \in {"queued", "dead"}
      /\ Unlocked(h.msg) = "queued" => count[h.msg] < MaxDeliveryCount
  BY <1>1, UnlockedIs DEF Fates
<1> DEFINE NewStep(step) ==
      \A g \in handlers' :
        \/ g \in handlers /\ g # h
        \/ g.msg = h.msg /\ g.step = step
<1>4. ASSUME NEW step \in Steps, Step(h, step), UNCHANGED <<role, count>>
      PROVE  NewStep(step)
  BY <1>1, <1>4, StepShape
<1>5. CASE Begins(h)
  <2>1. NewStep(IF h.msg \in Invalid THEN "deadlettering" ELSE "working")
    BY <1>2, <1>4, <1>5 DEF Begins, broker
  <2> QED BY <1>1, <1>5, <2>1 DEF Begins, WorkedOn, InvalidDead, InvalidKept, broker
<1>6. CASE DeadLetterAsync(h)
  <2>1. CASE Served(h, "dead") /\ Step(h, "working")
    <3>1. NewStep("working") /\ UNCHANGED processed
      BY <1>2, <1>4, <1>6, <2>1 DEF DeadLetterAsync
    <3>2. fate' = [fate EXCEPT ![h.msg] = "dead"]
      BY <1>1, <2>1 DEF Served, Become, FatesOK
    <3>3. WorkedOn'
      BY <3>1 DEF WorkedOn
    <3>4. InvalidDead'
      BY <1>1, <3>1, <3>2, MessagesAssumption DEF InvalidDead, InvalidKept, FatesOK
    <3> QED BY <3>3, <3>4
  <2>2. CASE Throws(h, "dead") /\ Step(h, "abandoning")
    <3>1. NewStep("abandoning") /\ UNCHANGED processed
      BY <1>2, <1>4, <1>6, <2>2 DEF DeadLetterAsync
    <3>2. UNCHANGED fate \/ fate' = [fate EXCEPT ![h.msg] = "dead"]
      BY <1>1, <2>2 DEF Throws, Become, FatesOK
    <3>3. WorkedOn'
      BY <3>1 DEF WorkedOn
    <3>4. InvalidDead'
      BY <1>1, <3>1, <3>2, MessagesAssumption DEF InvalidDead, InvalidKept, FatesOK
    <3> QED BY <3>3, <3>4
  <2> QED BY <1>6, <2>1, <2>2 DEF DeadLetterAsync
<1>7. CASE Works(h)
  <2>1. NewStep("completing")
    BY <1>2, <1>4, <1>7 DEF Works, broker
  <2>2. processed' = processed \cup {h.msg} /\ h.step = "working" /\ UNCHANGED fate
    BY <1>7 DEF Works, broker
  <2>3. WorkedOn'
    BY <2>1, <2>2 DEF WorkedOn
  <2>4. InvalidDead'
    BY <2>1, <2>2 DEF InvalidDead, InvalidKept
  <2> QED BY <2>3, <2>4
<1>8. CASE CompleteAsync(h)
  <2>1. \/ UNCHANGED fate
        \/ fate[h.msg] = "locked" /\ fate' = [fate EXCEPT ![h.msg] = "completed"]
    BY <1>1, <1>3, <1>8, CallKeeps DEF CompleteAsync, Become, FatesOK
  <2>2. UNCHANGED processed
        /\ \A g \in handlers' : g \in handlers \/ g.step = "abandoning"
    BY <1>2, <1>4, <1>8 DEF CompleteAsync, Ends
  <2>3. fate[h.msg] = "locked" => h.msg \notin Invalid
    BY <1>8 DEF CompleteAsync, InvalidDead
  <2>4. WorkedOn'
    BY <2>2 DEF WorkedOn
  <2>5. InvalidDead'
    BY <1>1, <2>1, <2>2, <2>3, MessagesAssumption DEF InvalidDead, InvalidKept, FatesOK
  <2> QED BY <2>4, <2>5
<1>9. CASE Abandon(h)
  <2>1. \/ UNCHANGED fate
        \/ fate[h.msg] = "locked" /\ fate' = [fate EXCEPT ![h.msg] = Unlocked(h.msg)]
    BY <1>1, <1>3, <1>9, CallKeeps DEF Abandon, Become, FatesOK
  <2>2. \A m \in Messages :
          \/ fate'[m] = fate[m]
          \/ fate[m] \notin {"dead", "lost"} /\ fate'[m] # "completed"
    BY <1>1, <1>3, <2>1 DEF FatesOK
  <2> QED BY <1>9, <2>2, OtherStepKeeps DEF Abandon, Ends
<1> QED BY <1>5, <1>6, <1>7, <1>8, <1>9 DEF Handles

LEMMA NextWorked ==
  ASSUME TypeOK, WorkedOn, InvalidDead, [Next]_vars
  PROVE  WorkedOn' /\ InvalidDead'
<1>1. CASE UNCHANGED vars
  BY <1>1 DEF vars, broker, WorkedOn, InvalidDead, InvalidKept
<1>2. CASE \E h \in handlers : Handles(h)
  BY <1>2, HandlesWorked
<1>3. CASE Next /\ \A h \in handlers : ~Handles(h)
  BY <1>3, FateSteps, OtherStepKeeps
<1> QED BY <1>1, <1>2, <1>3 DEF Next

----------------------------------------------------------------------------
(* The promise is kept.                                                    *)

LEMMA InitDelivery == Init => Delivery!Init
BY DEF Init, BrokerInit, Outline, Delivery!Init

\* A change of one message's fate, seen by the promise.
LEMMA OneFate ==
  ASSUME TypeOK, NEW m \in Messages, NEW f \in Fates \ {"unsent"}, Become({m}, f),
         fate[m] \in {"queued", "locked"}, UNCHANGED processed,
         f = "lost" \/ f = "dead" \/ f \in {"queued", "locked"}
           \/ (f = "completed" /\ m \in processed)
  PROVE  [Delivery!Next]_Delivery!vars
<1>1. FatesOK /\ Outline[m] = "waiting"
  BY TypeParts DEF Outline
<1>2. CASE f \in {"queued", "locked"}
  <2>1. Outline' = [n \in Messages |-> IF n \in {m} THEN "waiting" ELSE Outline[n]]
    BY <1>1, <1>2, OutlineBecome
  <2>2. Outline' = Outline
    BY <1>1, <2>1 DEF Outline
  <2> QED BY <2>2 DEF Delivery!vars
<1>3. CASE f = "dead"
  <2>1. Outline' = [n \in Messages |-> IF n \in {m} THEN f ELSE Outline[n]]
    BY <1>1, <1>3, OutlineBecome
  <2>2. Delivery!DeadLetter(m)
    BY <1>1, <1>3, <2>1 DEF Delivery!DeadLetter, Delivery!Become
  <2> QED BY <2>2 DEF Delivery!Next
<1>4. CASE f = "completed" /\ m \in processed
  <2>1. Outline' = [n \in Messages |-> IF n \in {m} THEN f ELSE Outline[n]]
    BY <1>1, <1>4, OutlineBecome
  <2>2. Delivery!Complete(m)
    BY <1>1, <1>4, <2>1 DEF Delivery!Complete, Delivery!Become
  <2> QED BY <2>2 DEF Delivery!Next
<1>5. CASE f = "lost"
  <2>1. Outline' = [n \in Messages |-> IF n \in {m} THEN f ELSE Outline[n]]
    BY <1>1, <1>5, OutlineBecome
  <2>2. Delivery!Lose({m})
    BY <1>1, <1>5, <2>1 DEF Delivery!Lose, Delivery!Become
  <2> QED BY <2>2 DEF Delivery!Next
<1> QED BY <1>2, <1>3, <1>4, <1>5

\* Messages are sent, or fail to be.
LEMMA SentFates ==
  ASSUME TypeOK, NEW S \in SUBSET Unsent, Become(S, "queued"), UNCHANGED processed
  PROVE  Delivery!Next
<1>1. Outline' = [n \in Messages |-> IF n \in S THEN "waiting" ELSE Outline[n]]
  BY TypeParts, OutlineBecome
<1>2. S \in SUBSET Messages /\ \A m \in S : Outline[m] = "unsent"
  BY DEF Unsent, Outline
<1>3. Delivery!Send(S)
  BY <1>1, <1>2 DEF Delivery!Send, Delivery!Become
<1> QED BY <1>2, <1>3 DEF Delivery!Next

LEMMA PurgedFates ==
  ASSUME TypeOK, Purge(Messages), UNCHANGED processed
  PROVE  Delivery!Next
<1> DEFINE S == {m \in Messages : fate[m] \in InQueue}
<1>1. Outline' = [n \in Messages |-> IF n \in S THEN "lost" ELSE Outline[n]]
  BY TypeParts, OutlineBecome DEF Purge, InQueue
<1>2. S \in SUBSET Messages /\ \A m \in S : Outline[m] \in {"waiting", "dead"}
  BY DEF Outline, InQueue
<1> HIDE DEF S
<1>3. Delivery!Lose(S)
  BY <1>1, <1>2 DEF Delivery!Lose, Delivery!Become
<1> QED BY <1>2, <1>3 DEF Delivery!Next

LEMMA NextDelivery ==
  ASSUME TypeOK, WorkedOn, [Next]_vars
  PROVE  [Delivery!Next]_Delivery!vars
<1>1. FatesOK /\ HandlersOK(Roles, Steps) /\ BoundsOK
  BY TypeParts
<1>2. \A h \in handlers : h.msg \in Messages /\ Outline[h.msg] # "unsent"
  <2>1. \A h \in handlers : h.msg \in Messages /\ fate[h.msg] # "unsent"
    BY <1>1 DEF FatesOK, HandlersOK, Deliveries
  <2> QED BY <2>1 DEF Outline
<1>3. ASSUME UNCHANGED <<fate, processed>> PROVE [Delivery!Next]_Delivery!vars
  BY <1>3 DEF Delivery!vars, Outline
<1>4. CASE UNCHANGED vars
  BY <1>3, <1>4 DEF vars, broker
<1>5. CASE Sender \/ SendBatch \/ \E m \in Messages : OtherSends(m)
  <2>1. CASE SenderStarts \/ SenderStops
    BY <1>3, <2>1 DEF SenderStarts, SenderStops, broker
  <2>2. CASE SendFails
    BY <1>3, <2>2, SentFates DEF SendFails
  <2>3. CASE SendBatch
    BY <2>3, SentFates DEF SendBatch
  <2>4. CASE \E m \in Messages : OtherSends(m)
    <3> PICK m \in Messages : OtherSends(m)
      BY <2>4
    <3>1. {m} \in SUBSET Unsent
      BY DEF OtherSends
    <3> QED BY <3>1, SentFates DEF OtherSends
  <2> QED BY <1>5, <2>1, <2>2, <2>3, <2>4 DEF Sender
<1>6. CASE \E m \in Messages : LockLost(m)
  BY <1>6, OneFate, UnlockedIs DEF LockLost, LockExpires
<1>7. CASE \E r \in Receivers, m \in Messages : Deliver(r, m)
  BY <1>7, OneFate DEF Deliver, Receive, Fates
<1>8. ASSUME NEW h \in handlers, Handles(h) PROVE [Delivery!Next]_Delivery!vars
  <2>1. CASE Begins(h)
    BY <1>3, <2>1 DEF Begins, broker
  <2>2. CASE Works(h)
    <3>1. Outline' = Outline /\ processed' = processed \cup {h.msg}
      BY <2>2 DEF Works, broker, Outline
    <3>2. Delivery!Process(h.msg)
      BY <1>2, <3>1 DEF Delivery!Process
    <3> QED BY <1>2, <3>2 DEF Delivery!Next
  <2>3. {"dead", "completed"} \subseteq Fates \ {"unsent", "locked", "queued"}
    BY DEF Fates
  <2>4. CASE DeadLetterAsync(h)
    <3>1. \/ UNCHANGED fate
          \/ fate[h.msg] = "locked" /\ Become({h.msg}, "dead")
      BY <1>1, <2>3, <2>4, CallKeeps DEF DeadLetterAsync
    <3> QED BY <1>2, <1>3, <2>3, <2>4, <3>1, OneFate DEF DeadLetterAsync
  <2>5. CASE CompleteAsync(h)
    <3>1. \/ UNCHANGED fate
          \/ fate[h.msg] = "locked" /\ Become({h.msg}, "completed")
      BY <1>1, <2>3, <2>5, CallKeeps DEF CompleteAsync
    <3>2. h.msg \in processed
      BY <2>5 DEF CompleteAsync, WorkedOn
    <3> QED BY <1>2, <1>3, <2>3, <2>5, <3>1, <3>2, OneFate DEF CompleteAsync
  <2>6. CASE Abandon(h)
    <3>1. /\ Unlocked(h.msg) \in {"queued", "dead"}
          /\ Unlocked(h.msg) \in Fates \ {"unsent", "locked"}
          /\ Unlocked(h.msg) = "queued" => count[h.msg] < MaxDeliveryCount
      BY <1>2, UnlockedIs
    <3>2. \/ UNCHANGED fate
          \/ fate[h.msg] = "locked" /\ Become({h.msg}, Unlocked(h.msg))
      BY <1>1, <2>6, <3>1, CallKeeps DEF Abandon
    <3> QED BY <1>2, <1>3, <2>6, <3>1, <3>2, OneFate DEF Abandon
  <2> QED BY <1>8, <2>1, <2>2, <2>4, <2>5, <2>6 DEF Handles
<1>9. CASE \E r \in Receivers : Hosted(r)
  <2>1. CASE \E r \in Receivers : Stops(r)
    BY <2>1, PurgedFates DEF Stops
  <2>2. CASE \E r \in Receivers : Starts(r) \/ Pauses(r) \/ Closes(r) \/ Crashes(r)
    BY <1>3, <2>2 DEF Starts, Pauses, Closes, Crashes, broker
  <2> QED BY <1>9, <2>1, <2>2 DEF Hosted
<1> QED BY <1>4, <1>5, <1>6, <1>7, <1>8, <1>9 DEF Next, Hosted

----------------------------------------------------------------------------
(* Every delivery but the first is explained.                              *)

LEMMA MarginType ==
  ASSUME BoundsOK
  PROVE  /\ IsFiniteSet(Pausing) /\ Cardinality(Pausing) \in Nat
         /\ Margin \in Int /\ Margin <= faults + stops
<1>1. IsFiniteSet(Pausing) /\ Cardinality(Pausing) \in Nat
  BY ReceiversAssumption, FS_Subset, FS_CardinalityType DEF Pausing
<1> QED BY <1>1, LimitsAssumption DEF Margin, BoundsOK

\* The margin after a step of a role.
LEMMA MarginMoves ==
  ASSUME BoundsOK, BoundsOK', NEW r \in Receivers,
         \A q \in Receivers \ {r} : role'[q] = role[q]
  PROVE  /\ role[r] # "pausing" /\ role'[r] # "pausing" =>
              Margin' = Margin + (faults' + stops' - faults - stops)
         /\ role[r] # "pausing" /\ role'[r] = "pausing" =>
              Margin' = Margin + (faults' + stops' - faults - stops) - 1
         /\ role[r] = "pausing" /\ role'[r] # "pausing" =>
              Margin' = Margin + (faults' + stops' - faults - stops) + 1
<1>1. /\ IsFiniteSet(Pausing) /\ Cardinality(Pausing) \in Nat
      /\ faults \in Int /\ stops \in Int /\ faults' \in Int /\ stops' \in Int
  BY MarginType, LimitsAssumption DEF BoundsOK
<1>2. CASE role[r] # "pausing" /\ role'[r] # "pausing"
  <2>1. Pausing' = Pausing
    BY <1>2 DEF Pausing
  <2> QED BY <1>1, <1>2, <2>1 DEF Margin
<1>3. CASE role[r] # "pausing" /\ role'[r] = "pausing"
  <2>1. Pausing' = Pausing \cup {r} /\ r \notin Pausing
    BY <1>3 DEF Pausing
  <2>2. Cardinality(Pausing') = Cardinality(Pausing) + 1
    BY <1>1, <2>1, FS_AddElement
  <2> QED BY <1>1, <1>3, <2>2 DEF Margin
<1>4. CASE role[r] = "pausing" /\ role'[r] # "pausing"
  <2>1. Pausing' = Pausing \ {r} /\ r \in Pausing
    BY <1>4 DEF Pausing
  <2>2. Cardinality(Pausing') = Cardinality(Pausing) - 1
    BY <1>1, <2>1, FS_RemoveElement
  <2> QED BY <1>1, <1>4, <2>2 DEF Margin
<1>5. CASE role[r] = "pausing" /\ role'[r] = "pausing"
  BY <1>5
<1> QED BY <1>2, <1>3, <1>4, <1>5

\* The margin after a step of anybody else.
LEMMA MarginStays ==
  ASSUME BoundsOK, BoundsOK', role' = role
  PROVE  Margin' = Margin + (faults' + stops' - faults - stops)
<1>1. /\ Cardinality(Pausing) \in Nat /\ Pausing' = Pausing
      /\ faults \in Int /\ stops \in Int /\ faults' \in Int /\ stops' \in Int
  BY MarginType, LimitsAssumption DEF BoundsOK, Pausing
<1> QED BY <1>1 DEF Margin

\* A step that makes no message due that was not, or that is a failure itself.
LEMMA Explained ==
  ASSUME FatesOK, BoundsOK, BoundsOK', FailuresCount, count' = count,
         \/ Margin' >= Margin /\ \A m \in Messages : Due(m)' => Due(m)
         \/ Margin' >= Margin + 1
  PROVE  FailuresCount'
<1>1. /\ Margin \in Int /\ Margin' \in Int
      /\ \A m \in Messages : count[m] \in Nat
  <2>1. Margin \in Int
    BY MarginType
  <2>2. Cardinality(Pausing)' \in Nat
    BY ReceiversAssumption, FS_Subset, FS_CardinalityType DEF Pausing
  <2> QED BY <2>1, <2>2, LimitsAssumption DEF FatesOK, BoundsOK, Margin
<1> QED BY <1>1 DEF FailuresCount

\* Messages stay in work when their handlers go on.
LEMMA StaysDue ==
  ASSUME FatesOK, HandlersOK(Roles, Steps), count' = count,
         \A h \in handlers :
           Holds(h) /\ Open(h) /\ h.step # "abandoning" /\ fate'[h.msg] = "locked" =>
             \E g \in handlers' :
               /\ g.to = h.to /\ g.msg = h.msg /\ g.count = h.count
               /\ g.step # "abandoning" /\ role'[g.to] # "closed",
         \A m \in Messages :
           \/ fate'[m] = fate[m]
           \/ fate'[m] \in {"unsent", "queued", "locked"} => Due(m)
  PROVE  \A m \in Messages : Due(m)' => Due(m)
<1> SUFFICES ASSUME NEW m \in Messages, Due(m)', ~Due(m) PROVE FALSE
  OBVIOUS
<1>1. fate'[m] = fate[m] \/ fate'[m] \notin {"unsent", "queued", "locked"}
  OBVIOUS
<1>2. fate[m] # "unsent" /\ fate[m] # "queued"
  BY DEF Due
<1>3. CASE fate'[m] = "unsent"
  BY <1>1, <1>2, <1>3
<1>4. CASE fate'[m] = "locked" /\ fate[m] = "locked"
  <2>1. InWork(m)
    BY <1>4 DEF Due
  <2>2. PICK h \in handlers : h.msg = m /\ Holds(h) /\ Open(h) /\ h.step # "abandoning"
    BY <2>1 DEF InWork
  <2>3. InWork(m)'
    BY <1>4, <2>2 DEF InWork, Holds, Open
  <2> QED BY <1>4, <2>3 DEF Due
<1> QED BY <1>1, <1>2, <1>3, <1>4 DEF Due

LEMMA SenderFailures ==
  ASSUME TypeOK, FailuresCount,
         Sender \/ SendBatch \/ \E m \in Messages : OtherSends(m)
  PROVE  FailuresCount'
<1>1. /\ FatesOK /\ HandlersOK(Roles, Steps) /\ BoundsOK /\ BoundsOK'
      /\ MaxFaults \in Nat /\ MaxStops \in Nat
  BY TypeParts, SenderTypeOK, LimitsAssumption
<1>2. UNCHANGED <<count, role, handlers>>
  BY DEF Sender, SenderStarts, SendFails, SenderStops, SendBatch, OtherSends, broker
<1>3. Margin' >= Margin /\ Margin \in Int
  <2> DEFINE Paid == /\ faults' = faults \/ faults' = faults + 1
                     /\ stops' = stops \/ stops' = stops + 1
  <2>1. ASSUME SenderStarts PROVE Paid
    BY <2>1 DEF SenderStarts, CreateQueue, Fault
  <2>2. ASSUME SendFails PROVE Paid
    BY <2>2 DEF SendFails, Fault
  <2>3. ASSUME SenderStops PROVE Paid
    BY <2>3 DEF SenderStops, Stop
  <2>4. ASSUME SendBatch \/ \E m \in Messages : OtherSends(m) PROVE Paid
    BY <2>4 DEF SendBatch, OtherSends, bounds
  <2>5. Paid
    BY <2>1, <2>2, <2>3, <2>4 DEF Sender
  <2>6. faults \in Int /\ stops \in Int /\ Margin \in Int
    BY <1>1, MarginType DEF BoundsOK
  <2>7. Margin' = Margin + (faults' + stops' - faults - stops)
    BY <1>1, <1>2, MarginStays
  <2> HIDE DEF Margin
  <2> QED BY <2>5, <2>6, <2>7
<1>4. \A m \in Messages : fate'[m] = fate[m] \/ Due(m)
  BY <1>1
  DEF Sender, SenderStarts, SendFails, SenderStops, SendBatch, OtherSends, broker,
      Become, Unsent, Due, FatesOK
<1>5. \A m \in Messages : Due(m)' => Due(m)
  BY <1>1, <1>2, <1>4, StaysDue DEF Open
<1> QED BY <1>1, <1>2, <1>3, <1>5, Explained

\* A handler that calls the broker.
LEMMA CallFailures ==
  ASSUME TypeOK, TypeOK', FailuresCount, NEW h \in handlers,
         NEW f \in {"dead", "completed"} \cup {Unlocked(h.msg)},
         Served(h, f) \/ Throws(h, f), count' = count, stops' = stops, role' = role,
         \A g \in handlers \ {h} : g \in handlers',
         \/ h.step = "abandoning"
         \/ f \in {"dead", "completed"}
  PROVE  FailuresCount'
<1>1. /\ FatesOK /\ HandlersOK(Roles, Steps) /\ BoundsOK /\ BoundsOK'
      /\ \A g \in handlers : g.msg \in Messages
      /\ faults \in Int /\ stops \in Int
  BY TypeParts, LimitsAssumption DEF BoundsOK, HandlersOK, Deliveries
<1>2. Margin' = Margin + (faults' + stops' - faults - stops) /\ Margin \in Int
  BY <1>1, MarginStays, MarginType
<1>3. CASE Fault
  <2>1. Margin' = Margin + 1
    BY <1>1, <1>2, <1>3 DEF Fault
  <2> QED BY <1>1, <1>2, <2>1, Explained
<1>4. CASE ~Fault
  <2>1. faults' = faults
    BY <1>4 DEF Served, Throws
  <2>2. Margin' >= Margin
    BY <1>1, <1>2, <2>1
  <2>3. ASSUME Holds(h), h.step = "abandoning" PROVE Due(h.msg)
    <3>1. \A g \in handlers : g.msg = h.msg /\ Holds(g) => g = h
      BY <1>1, <2>3 DEF Holds, HandlersOK
    <3> QED BY <2>3, <3>1 DEF Due, InWork, Holds
  <2>4. \A m \in Messages :
          \/ fate'[m] = fate[m]
          \/ fate'[m] \in {"unsent", "queued", "locked"} => Due(m)
    BY <1>1, <1>4, <2>3, UnlockedIs DEF Served, Throws, Become, FatesOK
  <2>5. ASSUME NEW g \in handlers, Holds(g), Open(g), g.step # "abandoning",
               fate'[g.msg] = "locked"
        PROVE  g \in handlers'
    <3>1. CASE g = h
      <4>1. Served(h, f)
        BY <1>4, <2>5, <3>1 DEF Throws
      <4>2. fate'[h.msg] \in {"dead", "completed"}
        BY <1>1, <2>5, <3>1, <4>1 DEF Served, Become
      <4> QED BY <2>5, <3>1, <4>2
    <3>2. CASE g # h
      BY <3>2
    <3> QED BY <3>1, <3>2
  <2>6. \A m \in Messages : Due(m)' => Due(m)
    BY <1>1, <2>4, <2>5, StaysDue DEF Open
  <2> QED BY <1>1, <2>2, <2>6, Explained
<1> QED BY <1>3, <1>4

LEMMA HandlesFailures ==
  ASSUME TypeOK, FailuresCount, NEW h \in handlers, Handles(h)
  PROVE  FailuresCount'
<1>1. /\ FatesOK /\ HandlersOK(Roles, Steps) /\ BoundsOK /\ TypeOK' /\ BoundsOK'
  BY TypeParts, HandlesTypeOK
<1>2. {"deadlettering", "working", "completing", "abandoning"} \subseteq Steps
  BY DEF Steps
<1>3. ASSUME NEW step \in Steps, Step(h, step), UNCHANGED <<role, count>>
      PROVE  /\ \A g \in handlers \ {h} : g \in handlers'
             /\ \E g \in handlers' :
                  g.to = h.to /\ g.msg = h.msg /\ g.count = h.count /\ g.step = step
  BY <1>1, <1>3, StepShape
<1>4. CASE Begins(h) \/ Works(h)
  <2>1. UNCHANGED <<fate, count, role, faults, stops>>
    BY <1>4 DEF Begins, Works, broker, bounds
  <2>2. \E step \in {"deadlettering", "working", "completing"} : Step(h, step)
    BY <1>4 DEF Begins, Works
  <2>3. \A g \in handlers :
          \E d \in handlers' :
            /\ d.to = g.to /\ d.msg = g.msg /\ d.count = g.count
            /\ d.step # "abandoning" \/ d.step = g.step
    BY <1>2, <1>3, <2>1, <2>2
  <2>4. \A m \in Messages : Due(m)' => Due(m)
    BY <1>1, <2>1, <2>3, StaysDue DEF Open
  <2>5. Margin' >= Margin
    BY <1>1, <2>1, MarginStays, MarginType, LimitsAssumption DEF BoundsOK
  <2> QED BY <1>1, <2>1, <2>4, <2>5, Explained
<1>5. CASE DeadLetterAsync(h)
  <2>1. \A g \in handlers \ {h} : g \in handlers'
    BY <1>2, <1>3, <1>5 DEF DeadLetterAsync
  <2> QED BY <1>1, <1>5, <2>1, CallFailures DEF DeadLetterAsync
<1>6. CASE CompleteAsync(h)
  <2>1. \A g \in handlers \ {h} : g \in handlers'
    BY <1>2, <1>3, <1>6 DEF CompleteAsync, Ends
  <2> QED BY <1>1, <1>6, <2>1, CallFailures DEF CompleteAsync
<1>7. CASE Abandon(h)
  <2>1. \A g \in handlers \ {h} : g \in handlers'
    BY <1>7 DEF Abandon, Ends
  <2> QED BY <1>1, <1>7, <2>1, CallFailures DEF Abandon
<1> QED BY <1>4, <1>5, <1>6, <1>7 DEF Handles

\* The delivery of a message that was due: from now on it is in work.
LEMMA DeliverFailures ==
  ASSUME TypeOK, FailuresCount, NEW m \in Messages, NEW r \in Receivers, Deliver(r, m)
  PROVE  FailuresCount'
<1> DEFINE d == [to |-> r, msg |-> m, count |-> count[m] + 1, step |-> "received"]
<1>1. /\ FatesOK /\ HandlersOK(Roles, Steps) /\ BoundsOK /\ BoundsOK'
      /\ \A n \in Messages : count[n] \in Nat
      /\ UNCHANGED <<role, faults, stops>>
  BY TypeParts, DeliveryTypeOK, LimitsAssumption DEF Deliver, FatesOK, bounds
<1>2. /\ d.to = r /\ d.msg = m /\ d.count = count[m] + 1 /\ d.step = "received"
      /\ handlers' = handlers \cup {d}
  BY DEF Deliver, Receive
<1> HIDE DEF d
<1>3. Margin' = Margin /\ Margin \in Int
  <2>1. Margin' = Margin + (faults' + stops' - faults - stops)
    BY <1>1, MarginStays
  <2>2. Margin \in Int /\ faults \in Int /\ stops \in Int
    BY <1>1, MarginType, LimitsAssumption DEF BoundsOK
  <2> QED BY <1>1, <2>1, <2>2
<1>4. /\ fate[m] = "queued" /\ role[r] \in {"up", "pausing"}
      /\ fate' = [fate EXCEPT ![m] = "locked"]
      /\ count' = [count EXCEPT ![m] = count[m] + 1]
  BY <1>1 DEF Deliver, Receive, Become, FatesOK
<1>5. fate'[m] = "locked" /\ count'[m] = count[m] + 1 /\ count[m] <= Margin
  BY <1>1, <1>4 DEF FailuresCount, Due, FatesOK
<1>6. ~Due(m)'
  BY <1>1, <1>2, <1>4, <1>5 DEF Due, InWork, Holds, Open
<1>7. ASSUME NEW n \in Messages \ {m} PROVE count'[n] = count[n] /\ (Due(n)' => Due(n))
  <2>1. count'[n] = count[n] /\ fate'[n] = fate[n]
    BY <1>1, <1>4 DEF FatesOK
  <2>2. InWork(n) => InWork(n)'
    BY <1>1, <1>2, <2>1 DEF InWork, Holds, Open
  <2> QED BY <2>1, <2>2 DEF Due
<1> QED BY <1>1, <1>3, <1>5, <1>6, <1>7 DEF FailuresCount

LEMMA LockFailures ==
  ASSUME TypeOK, FailuresCount, NEW m \in Messages, LockLost(m)
  PROVE  FailuresCount'
<1>1. /\ FatesOK /\ HandlersOK(Roles, Steps) /\ BoundsOK /\ BoundsOK'
      /\ UNCHANGED <<count, role, handlers, stops>>
      /\ faults \in Int /\ stops \in Int
  BY TypeParts, DeliveryTypeOK, LimitsAssumption DEF LockLost, LockExpires, BoundsOK
<1>2. Margin' = Margin + (faults' + stops' - faults - stops) /\ Margin \in Int
  BY <1>1, MarginStays, MarginType
<1>3. CASE Renewed(m) /\ Fault
  <2>1. Margin' >= Margin + 1
    BY <1>1, <1>2, <1>3 DEF Fault
  <2> QED BY <1>1, <2>1, Explained
<1>4. CASE ~Renewed(m) /\ UNCHANGED faults
  <2>1. Margin' >= Margin
    BY <1>1, <1>2, <1>4
  <2>2. Due(m)
    BY <1>4 DEF LockLost, LockExpires, Due, InWork, Renewed
  <2>3. \A n \in Messages : fate'[n] = fate[n] \/ Due(n)
    BY <1>1, <2>2 DEF LockLost, LockExpires, Become, FatesOK
  <2>4. \A n \in Messages : Due(n)' => Due(n)
    BY <1>1, <2>3, StaysDue DEF Open
  <2> QED BY <1>1, <2>1, <2>4, Explained
<1> QED BY <1>3, <1>4 DEF LockLost, LockExpires

LEMMA RoleFailures ==
  ASSUME TypeOK, FailuresCount, NEW r \in Receivers, Hosted(r)
  PROVE  FailuresCount'
<1>1. /\ FatesOK /\ HandlersOK(Roles, Steps) /\ BoundsOK /\ BoundsOK'
      /\ role \in [Receivers -> Roles] /\ count' = count
      /\ faults \in Int /\ stops \in Int /\ Margin \in Int
  <2>1. FatesOK /\ HandlersOK(Roles, Steps) /\ BoundsOK /\ BoundsOK'
    BY TypeParts, RoleTypeOK
  <2>2. count' = count
    BY DEF Hosted, Starts, Pauses, Closes, Stops, Crashes, broker
  <2> QED BY <2>1, <2>2, MarginType, LimitsAssumption DEF HandlersOK, BoundsOK
<1>2. \A h \in handlers : h.to \in Receivers /\ h.msg \in Messages
  BY <1>1 DEF HandlersOK, Deliveries
<1>3. CASE Starts(r)
  <2>1. faults' + stops' - faults - stops \in {0, 1}
    BY <1>1, <1>3 DEF Starts, CreateQueue, Fault
  <2>2. Margin' >= Margin
    <3>1. /\ role[r] = "down" /\ role'[r] = "up"
          /\ \A q \in Receivers \ {r} : role'[q] = role[q]
      BY <1>1, <1>3 DEF Starts
    <3>2. Margin' = Margin + (faults' + stops' - faults - stops)
      BY <1>1, <3>1, MarginMoves
    <3> QED BY <1>1, <2>1, <3>2
  <2>3. UNCHANGED <<fate, handlers>> /\ role' = [role EXCEPT ![r] = "up"]
    BY <1>3 DEF Starts, broker
  <2>4. \A m \in Messages : Due(m)' => Due(m)
    BY <1>1, <1>2, <2>3, StaysDue DEF Open
  <2> QED BY <1>1, <2>2, <2>4, Explained
<1>4. CASE Pauses(r)
  <2>1. faults' + stops' - faults - stops = 1
    BY <1>1, <1>4 DEF Pauses, Stop
  <2>2. Margin' = Margin
    <3>1. /\ role[r] = "up" /\ role'[r] = "pausing"
          /\ \A q \in Receivers \ {r} : role'[q] = role[q]
      BY <1>1, <1>4 DEF Pauses
    <3>2. Margin' = Margin + (faults' + stops' - faults - stops) - 1
      BY <1>1, <3>1, MarginMoves
    <3> QED BY <1>1, <2>1, <3>2
  <2>3. UNCHANGED <<fate, handlers>> /\ role' = [role EXCEPT ![r] = "pausing"]
    BY <1>4 DEF Pauses, broker
  <2>4. \A m \in Messages : Due(m)' => Due(m)
    BY <1>1, <1>2, <2>3, StaysDue DEF Open
  <2> QED BY <1>1, <2>2, <2>4, Explained
<1>5. CASE Closes(r)
  <2>1. faults' + stops' - faults - stops = 0
    BY <1>1, <1>5 DEF Closes, bounds
  <2>2. Margin' = Margin + 1
    <3>1. /\ role[r] = "pausing" /\ role'[r] = "closed"
          /\ \A q \in Receivers \ {r} : role'[q] = role[q]
      BY <1>1, <1>5 DEF Closes
    <3>2. Margin' = Margin + (faults' + stops' - faults - stops) + 1
      BY <1>1, <3>1, MarginMoves
    <3> QED BY <1>1, <2>1, <3>2
  <2> QED BY <1>1, <2>2, Explained
<1>6. CASE Stops(r)
  <2>1. faults' + stops' - faults - stops = 0
    BY <1>1, <1>6 DEF Stops
  <2>2. Margin' = Margin
    <3>1. /\ role[r] = "closed" /\ role'[r] = "down"
          /\ \A q \in Receivers \ {r} : role'[q] = role[q]
      BY <1>1, <1>6 DEF Stops, Leaves
    <3>2. Margin' = Margin + (faults' + stops' - faults - stops)
      BY <1>1, <3>1, MarginMoves
    <3> QED BY <1>1, <2>1, <3>2
  <2>3. \A m \in Messages : fate'[m] = fate[m] \/ fate'[m] = "lost"
    BY <1>1, <1>6 DEF Stops, Purge, Become, FatesOK
  <2>4. \A h \in handlers :
          Open(h) => h \in handlers' /\ role'[h.to] # "closed"
    BY <1>1, <1>2, <1>6 DEF Stops, Leaves, Open
  <2>5. \A m \in Messages : Due(m)' => Due(m)
    BY <1>1, <2>3, <2>4, StaysDue
  <2> QED BY <1>1, <2>2, <2>5, Explained
<1>7. CASE Crashes(r)
  <2>1. faults' + stops' - faults - stops = 1
    BY <1>1, <1>7 DEF Crashes, Fault
  <2>2. Margin' >= Margin + 1
    <3>1. /\ role'[r] = "down"
          /\ \A q \in Receivers \ {r} : role'[q] = role[q]
      BY <1>1, <1>7 DEF Crashes, Leaves
    <3> QED BY <1>1, <2>1, <3>1, MarginMoves
  <2> QED BY <1>1, <2>2, Explained
<1> QED BY <1>3, <1>4, <1>5, <1>6, <1>7 DEF Hosted

LEMMA NextFailures ==
  ASSUME TypeOK, FailuresCount, [Next]_vars
  PROVE  FailuresCount'
<1>1. CASE UNCHANGED vars
  BY <1>1
  DEF vars, broker, bounds, FailuresCount, Margin, Pausing, Due, InWork, Holds, Open
<1>2. CASE Next
  BY <1>2, SenderFailures, HandlesFailures, DeliverFailures, LockFailures, RoleFailures
  DEF Next, Hosted
<1> QED BY <1>1, <1>2

----------------------------------------------------------------------------
(* The inductive invariant and what follows from it.                       *)

LEMMA InitIInv == Init => IInv
<1> SUFFICES ASSUME Init PROVE IInv
  OBVIOUS
<1>1. TypeOK
  BY InitTypeOK
<1>2. WorkedOn /\ InvalidDead
  BY MessagesAssumption DEF Init, BrokerInit, WorkedOn, InvalidDead, InvalidKept
<1>3. FailuresCount
  <2>1. Pausing = {} /\ faults = 0 /\ stops = 0 /\ \A m \in Messages : count[m] = 0
    BY DEF Init, BrokerInit, Pausing
  <2>2. Margin = 0
    BY <2>1, FS_EmptySet DEF Margin
  <2> QED BY <2>1, <2>2 DEF FailuresCount
<1> QED BY <1>1, <1>2, <1>3 DEF IInv

LEMMA NextIInv == IInv /\ [Next]_vars => IInv'
BY NextTypeOK, NextWorked, NextFailures DEF IInv

\* IInv holds in every reachable state.
THEOREM Inductive == Spec => []IInv
BY InitIInv, NextIInv, PTL DEF Spec

\* An invalid message is never completed, although its handler goes on.
THEOREM InvalidIsKept == Spec => []InvalidKept
<1>1. IInv => InvalidKept
  BY DEF IInv, InvalidDead
<1> QED BY <1>1, Inductive, PTL

\* A message is delivered once, and once more for each fault or stop at most.
THEOREM RedeliveryIsExplained == Spec => []DeliveriesExplained
<1>1. IInv => DeliveriesExplained
  <2> SUFFICES ASSUME IInv, NEW m \in Messages PROVE count[m] <= 1 + faults + stops
    BY DEF DeliveriesExplained
  <2>1. FatesOK /\ BoundsOK /\ count[m] <= 1 + Margin
    BY TypeParts DEF IInv, FailuresCount
  <2>2. /\ Margin \in Int /\ Margin <= faults + stops
        /\ count[m] \in Int /\ faults \in Int /\ stops \in Int
    BY <2>1, MarginType, LimitsAssumption DEF FatesOK, BoundsOK
  <2> QED BY <2>1, <2>2
<1> QED BY <1>1, Inductive, PTL

\* The sample implements MessageDelivery: what is completed was processed
\* before, what became of a message is final, and only with its queue is it lost.
THEOREM KeepsThePromise == Spec => AtLeastOnce
<1>1. IInv /\ [Next]_vars => [Delivery!Next]_Delivery!vars
  BY NextDelivery DEF IInv
<1> QED BY InitDelivery, Inductive, <1>1, PTL DEF Spec, AtLeastOnce, Delivery!Spec
=============================================================================
