------------------------------ MODULE PeekLock ------------------------------
(***************************************************************************)
(* Service Bus messages in peek-lock mode and the message pumps of its     *)
(* client (external), as several samples use them: a delivery locks a      *)
(* message and is counted, and an abandoned or expired lock makes way for  *)
(* another delivery, up to MaxDeliveryCount of them.  A pump runs a        *)
(* handler for each delivery, and renews its lock while the handler runs.  *)
(***************************************************************************)
EXTENDS Naturals, FiniteSets

CONSTANTS
  Messages,
  Receivers,          \* the role instances that have a pump
  MaxConcurrentCalls, \* handlers a pump runs at a time
  MaxDeliveryCount,   \* deliveries before a message is dead-lettered
  MaxFaults,          \* bound: crashes, lost locks, failed calls
  MaxStops            \* bound: roles that are stopped

ASSUME LimitsAssumption ==
  /\ MaxConcurrentCalls \in Nat \ {0} /\ MaxDeliveryCount \in Nat \ {0}
  /\ MaxFaults \in Nat /\ MaxStops \in Nat

ASSUME ReceiversAssumption == IsFiniteSet(Receivers)

VARIABLES
  fate,       \* of each message
  count,      \* its deliveries so far
  role,       \* of each receiver: down, pausing, closed, or at work
  handlers,   \* the deliveries that are being handled, and the step they are at
  faults, stops

broker == <<fate, count>>
bounds == <<faults, stops>>

Fates == {"unsent", "queued", "locked", "completed", "dead", "lost"}

BrokerInit ==
  /\ fate = [m \in Messages |-> "unsent"]
  /\ count = [m \in Messages |-> 0]
  /\ role = [r \in Receivers |-> "down"]
  /\ handlers = {}
  /\ faults = 0 /\ stops = 0

\* The ranges of the variables; handlers belong to deliveries that took place,
\* one to each, in processes that live.
FatesOK ==
  /\ fate \in [Messages -> Fates]
  /\ count \in [Messages -> 0..MaxDeliveryCount]
  /\ \A m \in Messages : fate[m] = "unsent" => count[m] = 0
  /\ \A m \in Messages : fate[m] = "queued" => count[m] < MaxDeliveryCount
  /\ \A m \in Messages : fate[m] = "locked" => count[m] > 0

Deliveries(Steps) ==
  [to : Receivers, msg : Messages, count : 1..MaxDeliveryCount, step : Steps]

HandlersOK(Roles, Steps) ==
  /\ role \in [Receivers -> Roles]
  /\ handlers \subseteq Deliveries(Steps)
  /\ \A h \in handlers : h.count <= count[h.msg] /\ role[h.to] # "down"
  /\ \A g, h \in handlers : g.msg = h.msg /\ g.count = h.count => g = h

BoundsOK == faults \in 0..MaxFaults /\ stops \in 0..MaxStops

BrokerTypeOK(Roles, Steps) == FatesOK /\ HandlersOK(Roles, Steps) /\ BoundsOK

Fault == faults < MaxFaults /\ faults' = faults + 1
Stop  == stops < MaxStops /\ stops' = stops + 1

Unsent == {m \in Messages : fate[m] = "unsent"}

Become(S, f) == fate' = [m \in Messages |-> IF m \in S THEN f ELSE fate[m]]

\* What an abandoned message, or one whose lock is lost, becomes.
Unlocked(m) == IF count[m] < MaxDeliveryCount THEN "queued" ELSE "dead"

\* The messages in S go with their queue, those in its dead-letter queue too.
Purge(S) ==
  Become({m \in S : fate[m] \in {"queued", "locked", "dead"}}, "lost")

----------------------------------------------------------------------------
(* A pump and its handlers.                                                *)

\* One more delivery of m.
Receive(r, m) ==
  /\ role[r] \in {"up", "pausing"}
  /\ Cardinality({h \in handlers : h.to = r}) < MaxConcurrentCalls
  /\ fate[m] = "queued"
  /\ Become({m}, "locked")
  /\ count' = [count EXCEPT ![m] = @ + 1]
  /\ handlers' = handlers \cup
       {[to |-> r, msg |-> m, count |-> count[m] + 1, step |-> "received"]}

Step(h, step) == handlers' = (handlers \ {h}) \cup {[h EXCEPT !.step = step]}
Ends(h) == handlers' = handlers \ {h}

\* The delivery still has the lock; the client is open.
Holds(h) == fate[h.msg] = "locked" /\ count[h.msg] = h.count
Open(h)  == role[h.to] # "closed"

\* A call settles the message as f; it throws without the lock, with a closed
\* client, and when it fails, where the broker may have served it or not.
Served(h, f) == Open(h) /\ Holds(h) /\ Become({h.msg}, f) /\ UNCHANGED faults

Throws(h, f) ==
  \/ ~(Open(h) /\ Holds(h)) /\ UNCHANGED <<fate, faults>>
  \/ /\ Open(h) /\ Holds(h) /\ Fault
     /\ Become({h.msg}, f) \/ UNCHANGED fate

\* The pump renews the lock of a message in work until it is closed; a renewal
\* may fail.
Renewed(m) == \E h \in handlers : h.msg = m /\ Holds(h) /\ Open(h)

LockExpires(m) ==
  /\ fate[m] = "locked"
  /\ \/ Renewed(m) /\ Fault
     \/ ~Renewed(m) /\ UNCHANGED faults
  /\ Become({m}, Unlocked(m))
  /\ UNCHANGED <<count, role, handlers, stops>>

\* The process of r ends.
Leaves(r) ==
  /\ role' = [role EXCEPT ![r] = "down"]
  /\ handlers' = {h \in handlers : h.to # r}

----------------------------------------------------------------------------
\* The promise above this broker's detail.
Outline == [m \in Messages |->
  IF fate[m] \in {"queued", "locked"} THEN "waiting" ELSE fate[m]]
=============================================================================
