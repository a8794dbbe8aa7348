--------------------------- MODULE PriorityQueue ---------------------------
(***************************************************************************)
(* A sender sends batches of low and of high priority to a topic; a worker *)
(* creates the subscription of its priority and handles what comes through *)
(* its filter.  A message for which there is no subscription vanishes.  A  *)
(* worker that is stopped deletes the topic, and with it the subscriptions *)
(* of all priorities.                                                      *)
(***************************************************************************)
EXTENDS PeekLock

CONSTANTS
  High,               \* the messages of high priority, the others are low
  HighWorkers,        \* the receivers that serve it
  BatchSize           \* messages the sender sends at a time

Priorities == {"low", "high"}
Priority(m)     == IF m \in High THEN "high" ELSE "low"
Subscription(r) == IF r \in HighWorkers THEN "high" ELSE "low"

ASSUME MessagesAssumption == High \subseteq Messages
ASSUME WorkersAssumption == HighWorkers \subseteq Receivers
ASSUME SizeAssumption == BatchSize \in Nat \ {0}

VARIABLES
  topicExists,
  subscriptions,  \* the priorities the topic has a subscription for
  sender,         \* down, waiting, or about to send a low or a high batch
  processed       \* messages whose work was done

topic == <<topicExists, subscriptions>>
vars == <<broker, bounds, role, handlers, topic, sender, processed>>

Init ==
  /\ BrokerInit
  /\ topicExists = FALSE
  /\ subscriptions = {}
  /\ sender = "down"
  /\ processed = {}

----------------------------------------------------------------------------
(* The sender, and the first half of Setup.                                *)

\* The topic is created if it does not exist; a conflict with another creation,
\* or with a deletion under way, is only traced.
SetupTopic ==
  \/ topicExists' = TRUE /\ UNCHANGED faults
  \/ ~topicExists /\ Fault /\ UNCHANGED topicExists

SenderStarts ==
  /\ sender = "down"
  /\ sender' = "low"
  /\ SetupTopic
  /\ UNCHANGED <<broker, stops, role, handlers, subscriptions, processed>>

Batches(p) ==
  {S \in SUBSET Unsent : Cardinality(S) = BatchSize /\ \A m \in S : Priority(m) = p}

\* No filter matches a message without a subscription.
Accepted(p) == IF p \in subscriptions THEN "queued" ELSE "lost"

SendBatch(p) ==
  /\ sender = p /\ topicExists
  /\ sender' = IF p = "low" THEN "high" ELSE "waiting"
  /\ \E batch \in Batches(p) : Become(batch, Accepted(p))
  /\ UNCHANGED <<count, bounds, role, handlers, topic, processed>>

\* The exception is caught, and the loop goes on after a while, with a low
\* batch of new messages.  A batch whose answer is lost may have got through.
SendFails(p) ==
  /\ sender = p
  /\ sender' = "waiting"
  /\ \/ ~topicExists /\ UNCHANGED <<fate, faults>>
     \/ /\ topicExists /\ Fault
        /\ UNCHANGED fate \/ \E batch \in Batches(p) : Become(batch, Accepted(p))
  /\ UNCHANGED <<count, stops, role, handlers, topic, processed>>

WaitOver ==
  /\ sender = "waiting"
  /\ sender' = "low"
  /\ UNCHANGED <<broker, bounds, role, handlers, topic, processed>>

\* OnStop closes the client and ends the loop, or the process crashes: whether a
\* batch on its way got through was SendBatch.
SenderStops ==
  /\ sender # "down" /\ Stop
  /\ sender' = "down"
  /\ UNCHANGED <<broker, faults, role, handlers, topic, processed>>

----------------------------------------------------------------------------
(* A worker's message pump and its handler, ProcessMessage.                *)

\* Mutant: the client of a worker is that of the other subscription too.
UnfilteredDeliver(r, m) ==
  /\ Receive(r, m)
  /\ UNCHANGED <<bounds, role, topic, sender, processed>>

Deliver(r, m) ==
  /\ Priority(m) = Subscription(r)
  /\ Receive(r, m)
  /\ UNCHANGED <<bounds, role, topic, sender, processed>>

\* Mutant: the work is not awaited.
UnawaitedBegins(h) ==
  /\ h.step = "received" /\ role[h.to] = "up"
  /\ Step(h, "completing")
  /\ UNCHANGED <<broker, bounds, role, topic, sender, processed>>

\* The handler passes pauseProcessingEvent, unless StopReceiver has reset it.
Begins(h) ==
  /\ h.step = "received" /\ role[h.to] = "up"
  /\ Step(h, "working")
  /\ UNCHANGED <<broker, bounds, role, topic, sender, processed>>

Works(h) ==
  /\ h.step = "working"
  /\ Step(h, "completing")
  /\ processed' = processed \cup {h.msg}
  /\ UNCHANGED <<broker, bounds, role, topic, sender>>

\* AutoComplete; if it throws, that is only traced.
Completes(h) ==
  /\ h.step = "completing"
  /\ Served(h, "completed") \/ Throws(h, "completed")
  /\ Ends(h)
  /\ UNCHANGED <<count, stops, role, topic, sender, processed>>

LockLost(m) ==
  /\ LockExpires(m)
  /\ UNCHANGED <<topic, sender, processed>>

----------------------------------------------------------------------------
(* A worker's role: OnStart, which calls Setup, and OnStop.                *)

\* Mutant: a worker makes sure to start with a new topic.
CleanStarts(r) ==
  /\ role[r] = "down"
  /\ role' = [role EXCEPT ![r] = "starting"]
  /\ topicExists' = TRUE /\ subscriptions' = {}
  /\ Purge(Messages)
  /\ UNCHANGED <<count, bounds, handlers, sender, processed>>

Starts(r) ==
  /\ role[r] = "down"
  /\ role' = [role EXCEPT ![r] = "starting"]
  /\ SetupTopic
  /\ UNCHANGED <<broker, stops, handlers, subscriptions, sender, processed>>

\* Mutant: an exception for the missing topic is traced like a conflict.
SilentSetupSubscription(r) ==
  /\ role[r] = "starting"
  /\ role' = [role EXCEPT ![r] = "up"]
  /\ \/ /\ topicExists
        /\ subscriptions' = subscriptions \cup {Subscription(r)}
        /\ UNCHANGED faults
     \/ ~topicExists /\ UNCHANGED <<subscriptions, faults>>
     \/ /\ topicExists /\ Subscription(r) \notin subscriptions /\ Fault
        /\ UNCHANGED subscriptions
  /\ UNCHANGED <<broker, stops, handlers, topicExists, sender, processed>>

\* A conflict is only traced here too; without the topic the exception ends
\* OnStart, and the fabric starts the role again.
SetupSubscription(r) ==
  /\ role[r] = "starting"
  /\ \/ /\ topicExists
        /\ subscriptions' = subscriptions \cup {Subscription(r)}
        /\ role' = [role EXCEPT ![r] = "up"]
        /\ UNCHANGED faults
     \/ /\ ~topicExists
        /\ role' = [role EXCEPT ![r] = "down"]
        /\ UNCHANGED <<subscriptions, faults>>
     \/ /\ topicExists /\ Subscription(r) \notin subscriptions /\ Fault
        /\ role' = [role EXCEPT ![r] = "up"]
        /\ UNCHANGED subscriptions
  /\ UNCHANGED <<broker, stops, handlers, topicExists, sender, processed>>

\* StopReceiver: no new work is begun; after a while the client is closed,
\* whatever is still at work; the topic is deleted, and the process ends.
Pauses(r) ==
  /\ role[r] = "up" /\ Stop
  /\ role' = [role EXCEPT ![r] = "pausing"]
  /\ UNCHANGED <<broker, faults, handlers, topic, sender, processed>>

\* Mutant: the client is closed when its handlers have ended, though some wait for
\* the event that is not set again.
PatientCloses(r) ==
  /\ role[r] = "pausing"
  /\ \A h \in handlers : h.to # r
  /\ role' = [role EXCEPT ![r] = "closed"]
  /\ UNCHANGED <<broker, bounds, handlers, topic, sender, processed>>

Closes(r) ==
  /\ role[r] = "pausing"
  /\ role' = [role EXCEPT ![r] = "closed"]
  /\ UNCHANGED <<broker, bounds, handlers, topic, sender, processed>>

Stops(r) ==
  /\ role[r] = "closed"
  /\ topicExists' = FALSE
  /\ subscriptions' = {}
  /\ Purge(Messages)
  /\ Leaves(r)
  /\ UNCHANGED <<count, bounds, sender, processed>>

Crashes(r) ==
  /\ role[r] # "down" /\ Fault
  /\ Leaves(r)
  /\ UNCHANGED <<broker, stops, topic, sender, processed>>

----------------------------------------------------------------------------
Handles(h) == Begins(h) \/ Works(h) \/ Completes(h)

Hosted(r) == Starts(r) \/ SetupSubscription(r) \/ Closes(r) \/ Stops(r)

Next ==
  \/ SenderStarts \/ WaitOver \/ SenderStops
  \/ \E p \in Priorities : SendBatch(p) \/ SendFails(p)
  \/ \E m \in Messages : LockLost(m)
  \/ \E r \in Receivers, m \in Messages : Deliver(r, m)
  \/ \E h \in handlers : Handles(h)
  \/ \E r \in Receivers : Hosted(r) \/ Pauses(r) \/ Crashes(r)

Spec == Init /\ [][Next]_vars

\* The broker delivers and gives up locks nobody renews, handlers go on, the
\* fabric starts roles and lets OnStop end.
Fairness ==
  /\ \A m \in Messages : WF_vars(~Renewed(m) /\ LockLost(m))
  /\ \A r \in Receivers : WF_vars(\E m \in Messages : Deliver(r, m))
  /\ WF_vars(\E h \in handlers : Handles(h))
  /\ \A r \in Receivers : WF_vars(Hosted(r))

FairSpec == Spec /\ Fairness

----------------------------------------------------------------------------
Roles == {"down", "starting", "up", "pausing", "closed"}
Steps == {"received", "working", "completing"}

\* The ranges of the variables; messages are in subscriptions, subscriptions in
\* the topic, and a handler has a message of its worker's priority, and is not
\* there before its worker has started.
TypeOK ==
  /\ BrokerTypeOK(Roles, Steps)
  /\ topicExists \in BOOLEAN
  /\ subscriptions \subseteq Priorities
  /\ ~topicExists => subscriptions = {}
  /\ \A m \in Messages :
       fate[m] \in {"queued", "locked", "dead"} => Priority(m) \in subscriptions
  /\ \A h \in handlers :
       Priority(h.msg) = Subscription(h.to) /\ role[h.to] # "starting"
  /\ sender \in Priorities \cup {"down", "waiting"}
  /\ processed \subseteq Messages \ Unsent

\* The samples' promise: completed only after it was processed, and for good.
Delivery == INSTANCE MessageDelivery WITH fate <- Outline
AtLeastOnce == Delivery!Spec

\* Before anything fails or is stopped, only messages are lost that were sent
\* when no worker of their priority had finished its start: the creations by
\* all the roles that start at once do not get in each other's way.
NothingLostInService ==
  [][faults = 0 /\ stops = 0 =>
       \A m \in Messages : fate'[m] = "lost" /\ fate[m] # "lost" =>
         \A r \in Receivers :
           Subscription(r) = Priority(m) => role[r] \in {"down", "starting"}]_vars

----------------------------------------------------------------------------
(* The inductive invariant.                                                *)

\* A message that is about to be completed was processed.
WorkedOn == \A h \in handlers : h.step = "completing" => h.msg \in processed

\* Before anything fails or is stopped, a worker that is up has its subscription.
InService ==
  faults = 0 /\ stops = 0 =>
    \A r \in Receivers :
      \/ role[r] \in {"down", "starting"}
      \/ role[r] = "up" /\ Subscription(r) \in subscriptions

IInv == TypeOK /\ WorkedOn /\ InService

----------------------------------------------------------------------------
\* Whatever fails, every message that got into its subscription is completed,
\* dead-lettered or deleted with the topic in the end.
Settled ==
  \A m \in Messages :
    fate[m] = "queued" ~> fate[m] \in {"completed", "dead", "lost"}

\* The topic comes back whenever it was deleted, even if a role did not get it
\* created: a worker does not get past its start without it.
TopicReturns == []<>topicExists

\* What Readme.htm says of the workers, they read messages from subscriptions
\* that have the corresponding priority: so that there always is one again.
SubscriptionsReturn == \A p \in Priorities : []<>(p \in subscriptions)
=============================================================================
