--------------------------- MODULE PeekLockProofs ---------------------------
(***************************************************************************)
(* Lemmas about the broker and the pumps, for the samples that use them:   *)
(* what each operator keeps of BrokerTypeOK, whatever the roles and the    *)
(* steps are, and what the promise sees of a change of fates.              *)
(***************************************************************************)
EXTENDS PeekLock, FiniteSetTheorems, TLAPS

LEMMA BrokerInitOK ==
  ASSUME NEW Roles, NEW Steps, "down" \in Roles, BrokerInit
  PROVE  BrokerTypeOK(Roles, Steps)
<1>1. FatesOK
  BY LimitsAssumption DEF BrokerInit, FatesOK, Fates
<1>2. HandlersOK(Roles, Steps)
  BY DEF BrokerInit, HandlersOK
<1>3. BoundsOK
  BY LimitsAssumption DEF BrokerInit, BoundsOK
<1> QED  BY <1>1, <1>2, <1>3 DEF BrokerTypeOK

\* Messages that are sent, given back, settled or purged.
LEMMA BecomeKeeps ==
  ASSUME FatesOK, NEW S, NEW f \in Fates \ {"unsent", "locked"}, Become(S, f),
         count' = count,
         f = "queued" => \A m \in S \cap Messages : count[m] < MaxDeliveryCount
  PROVE  FatesOK'
BY DEF FatesOK, Become

LEMMA UnlockedIs ==
  ASSUME NEW m \in Messages
  PROVE  /\ Unlocked(m) \in {"queued", "dead"}
         /\ Unlocked(m) \in Fates \ {"unsent", "locked"}
         /\ Unlocked(m) = "queued" => count[m] < MaxDeliveryCount
BY DEF Unlocked, Fates

\* One more delivery.
LEMMA ReceiveKeeps ==
  ASSUME NEW Roles, NEW Steps, FatesOK, HandlersOK(Roles, Steps),
         "received" \in Steps,
         NEW r \in Receivers, NEW m \in Messages, Receive(r, m), role' = role
  PROVE  FatesOK' /\ HandlersOK(Roles, Steps)'
<1> DEFINE d == [to |-> r, msg |-> m, count |-> count[m] + 1, step |-> "received"]
<1>1. /\ count[m] \in Nat /\ count[m] + 1 \in 1..MaxDeliveryCount
      /\ count' = [count EXCEPT ![m] = count[m] + 1]
  BY LimitsAssumption DEF FatesOK, Receive
<1>2. /\ d \in Deliveries(Steps)
      /\ d.to = r /\ d.msg = m /\ d.count = count[m] + 1
  BY <1>1 DEF Deliveries
<1>3. handlers' = handlers \cup {d} /\ fate' = [fate EXCEPT ![m] = "locked"]
  BY DEF Receive, Become, FatesOK
<1> HIDE DEF d
<1>4. FatesOK'
  BY <1>1, <1>3 DEF FatesOK, Fates
<1>5. /\ handlers' \subseteq Deliveries(Steps)
      /\ \A h \in handlers' : h.count <= count'[h.msg] /\ role'[h.to] # "down"
  BY <1>1, <1>2, <1>3, LimitsAssumption
  DEF FatesOK, HandlersOK, Deliveries, Receive
<1>6. \A g, h \in handlers' : g.msg = h.msg /\ g.count = h.count => g = h
  BY <1>1, <1>2, <1>3, LimitsAssumption DEF FatesOK, HandlersOK, Deliveries
<1> QED  BY <1>4, <1>5, <1>6 DEF HandlersOK

\* A handler's step.
LEMMA StepKeeps ==
  ASSUME NEW Roles, NEW Steps, HandlersOK(Roles, Steps),
         NEW h \in handlers, NEW step \in Steps, Step(h, step),
         role' = role, count' = count
  PROVE  HandlersOK(Roles, Steps)'
<1> DEFINE d == [h EXCEPT !.step = step]
<1>1. /\ d \in Deliveries(Steps)
      /\ d.to = h.to /\ d.msg = h.msg /\ d.count = h.count /\ d.step = step
  BY DEF HandlersOK, Deliveries
<1>2. handlers' = (handlers \ {h}) \cup {d}
  BY DEF Step
<1> HIDE DEF d
<1>3. \A f, g \in handlers' : f.msg = g.msg /\ f.count = g.count => f = g
  BY <1>1, <1>2 DEF HandlersOK
<1>4. /\ handlers' \subseteq Deliveries(Steps)
      /\ \A g \in handlers' : g.count <= count'[g.msg] /\ role'[g.to] # "down"
  BY <1>1, <1>2 DEF HandlersOK
<1> QED  BY <1>3, <1>4 DEF HandlersOK

\* What the handlers are after it.
LEMMA StepShape ==
  ASSUME NEW Roles, NEW Steps, HandlersOK(Roles, Steps),
         NEW h \in handlers, NEW step \in Steps, Step(h, step),
         role' = role, count' = count
  PROVE  /\ \A g \in handlers' :
              \/ g \in handlers /\ g # h
              \/ g.to = h.to /\ g.msg = h.msg /\ g.count = h.count /\ g.step = step
         /\ \A g \in handlers \ {h} : g \in handlers'
         /\ \E g \in handlers' :
              g.to = h.to /\ g.msg = h.msg /\ g.count = h.count /\ g.step = step
<1> DEFINE d == [h EXCEPT !.step = step]
<1>1. d.to = h.to /\ d.msg = h.msg /\ d.count = h.count /\ d.step = step
  BY DEF HandlersOK, Deliveries
<1>2. handlers' = (handlers \ {h}) \cup {d}
  BY DEF Step
<1> HIDE DEF d
<1> QED  BY <1>1, <1>2

LEMMA EndsKeeps ==
  ASSUME NEW Roles, NEW Steps, HandlersOK(Roles, Steps), NEW h \in handlers,
         Ends(h), role' = role, count' = count
  PROVE  HandlersOK(Roles, Steps)'
BY DEF HandlersOK, Ends

LEMMA LeavesKeeps ==
  ASSUME NEW Roles, NEW Steps, HandlersOK(Roles, Steps), "down" \in Roles,
         NEW r \in Receivers, Leaves(r), count' = count
  PROVE  HandlersOK(Roles, Steps)'
BY DEF HandlersOK, Leaves, Deliveries

\* A role that starts, or goes on with its stop.
LEMMA RoleKeeps ==
  ASSUME NEW Roles, NEW Steps, HandlersOK(Roles, Steps),
         NEW r \in Receivers, NEW s \in Roles \ {"down"},
         role' = [role EXCEPT ![r] = s], handlers' = handlers, count' = count
  PROVE  HandlersOK(Roles, Steps)'
BY DEF HandlersOK, Deliveries

\* A call that settles a message, served or not: the message has the new fate, or
\* the call threw and nothing has changed but the number of faults.
LEMMA CallKeeps ==
  ASSUME NEW Roles, NEW Steps, FatesOK, HandlersOK(Roles, Steps), BoundsOK,
         NEW h \in handlers, NEW f \in Fates \ {"unsent", "locked"},
         f = "queued" => count[h.msg] < MaxDeliveryCount,
         Served(h, f) \/ Throws(h, f), count' = count, stops' = stops
  PROVE  /\ FatesOK' /\ BoundsOK'
         /\ \/ UNCHANGED fate
            \/ fate[h.msg] = "locked" /\ Holds(h) /\ Become({h.msg}, f)
<1>1. UNCHANGED fate \/ (fate[h.msg] = "locked" /\ Holds(h) /\ Become({h.msg}, f))
  BY DEF Served, Throws, Holds
<1>2. FatesOK'
  <2>1. CASE UNCHANGED fate
    BY <2>1 DEF FatesOK
  <2>2. CASE Become({h.msg}, f)
    BY <2>2, BecomeKeeps
  <2> QED  BY <1>1, <2>1, <2>2
<1>3. BoundsOK'
  BY LimitsAssumption DEF BoundsOK, Served, Throws, Fault
<1> QED  BY <1>1, <1>2, <1>3

LEMMA LockExpiresKeeps ==
  ASSUME NEW Roles, NEW Steps, BrokerTypeOK(Roles, Steps),
         NEW m \in Messages, LockExpires(m)
  PROVE  BrokerTypeOK(Roles, Steps)'
<1>1. FatesOK'
  BY UnlockedIs, BecomeKeeps DEF BrokerTypeOK, LockExpires
<1>2. BoundsOK'
  BY LimitsAssumption DEF BrokerTypeOK, BoundsOK, LockExpires, Fault
<1>3. HandlersOK(Roles, Steps)'
  BY DEF BrokerTypeOK, HandlersOK, LockExpires
<1> QED  BY <1>1, <1>2, <1>3 DEF BrokerTypeOK

\* What the promise sees when the messages in S come to the fate f.
LEMMA OutlineBecome ==
  ASSUME FatesOK, NEW S, NEW f, NEW g, Become(S, f),
         g = IF f \in {"queued", "locked"} THEN "waiting" ELSE f
  PROVE  Outline' = [m \in Messages |-> IF m \in S THEN g ELSE Outline[m]]
BY DEF FatesOK, Become, Outline
=============================================================================
