------------------------- MODULE CompetingConsumers -------------------------
(***************************************************************************)
(* One sender and several receivers compete for the messages of one queue. *)
(* A receiver's pump hands each message it has locked to a handler, which  *)
(* settles it itself: it dead-letters an invalid message, works, completes *)
(* the message, and abandons it when anything threw.  A receiver that is   *)
(* stopped deletes the queue under all the others; whoever starts creates  *)
(* it again, and the sender is started anew when it fails to send.         *)
(***************************************************************************)
EXTENDS PeekLock

CONSTANTS
  Invalid,   \* messages without an id, from another client
  BatchSize  \* messages the sender sends at a time

ASSUME MessagesAssumption == Invalid \subseteq Messages
ASSUME SizeAssumption == BatchSize \in Nat \ {0}

VARIABLES
  queueExists,
  sender,     \* down or up
  processed   \* messages whose work was done

vars == <<broker, bounds, role, handlers, queueExists, sender, processed>>

Init ==
  /\ BrokerInit
  /\ queueExists = FALSE
  /\ sender = "down"
  /\ processed = {}

----------------------------------------------------------------------------
(* QueueManager.Start, the sender, and other clients of the queue.         *)

\* The queue is created if it does not exist; a conflict with another creation,
\* or with a deletion under way, is only traced.
CreateQueue ==
  \/ queueExists' = TRUE /\ UNCHANGED faults
  \/ ~queueExists /\ Fault /\ UNCHANGED queueExists

SenderStarts ==
  /\ sender = "down"
  /\ sender' = "up"
  /\ CreateQueue
  /\ UNCHANGED <<broker, stops, role, handlers, processed>>

SendBatch ==
  /\ sender = "up" /\ queueExists
  /\ \E batch \in SUBSET (Unsent \ Invalid) :
       /\ Cardinality(batch) = BatchSize
       /\ Become(batch, "queued")
  /\ UNCHANGED <<count, bounds, queueExists, role, handlers, sender,
                 processed>>

\* Mutant: the exception is caught, and the sender tries again.
StubbornSendFails ==
  /\ sender = "up" /\ ~queueExists
  /\ UNCHANGED vars

\* The exception ends Run, and the fabric starts the role again.  A batch whose
\* answer is lost may have got through; its messages are never sent again.
SendFails ==
  /\ sender = "up"
  /\ sender' = "down"
  /\ \/ ~queueExists /\ UNCHANGED <<fate, faults>>
     \/ /\ queueExists /\ Fault
        /\ \E batch \in SUBSET (Unsent \ Invalid) :
             Cardinality(batch) \in {0, BatchSize} /\ Become(batch, "queued")
  /\ UNCHANGED <<count, stops, queueExists, role, handlers, processed>>

\* OnStop, or a crash: whether a batch on its way got through was SendBatch.
SenderStops ==
  /\ sender = "up" /\ Stop
  /\ sender' = "down"
  /\ UNCHANGED <<broker, faults, queueExists, role, handlers, processed>>

OtherSends(m) ==
  /\ queueExists
  /\ m \in Unsent \cap Invalid
  /\ Become({m}, "queued")
  /\ UNCHANGED <<count, bounds, queueExists, role, handlers, sender,
                 processed>>

----------------------------------------------------------------------------
(* A receiver's message pump and its handler, ProcessMessage.              *)

Deliver(r, m) ==
  /\ Receive(r, m)
  /\ UNCHANGED <<bounds, role, queueExists, sender, processed>>

\* Mutant: a handler that comes to a reset event returns.
ImpatientBegins(h) ==
  /\ h.step = "received"
  /\ \/ /\ role[h.to] = "up"
        /\ Step(h, IF h.msg \in Invalid THEN "deadlettering" ELSE "working")
     \/ role[h.to] = "pausing" /\ Ends(h)
  /\ UNCHANGED <<broker, bounds, queueExists, role, sender, processed>>

\* Mutant: the message is not tested.
TrustfulBegins(h) ==
  /\ h.step = "received" /\ role[h.to] = "up"
  /\ Step(h, "working")
  /\ UNCHANGED <<broker, bounds, queueExists, role, sender, processed>>

\* Mutant: DeadLetterAsync is not awaited, and goes on next to the work.
ForkingBegins(h) ==
  /\ h.step = "received" /\ role[h.to] = "up"
  /\ handlers' = (handlers \ {h}) \cup
       {[h EXCEPT !.step = s] : s \in IF h.msg \in Invalid THEN {"deadlettering", "working"}
                                                          ELSE {"working"}}
  /\ UNCHANGED <<broker, bounds, queueExists, role, sender, processed>>

\* Mutant: the work is not awaited.
UnawaitedBegins(h) ==
  /\ h.step = "received" /\ role[h.to] = "up"
  /\ Step(h, IF h.msg \in Invalid THEN "deadlettering" ELSE "completing")
  /\ UNCHANGED <<broker, bounds, queueExists, role, sender, processed>>

\* The handler passes pauseProcessingEvent, unless Stop has reset it, and tests
\* the message.
Begins(h) ==
  /\ h.step = "received" /\ role[h.to] = "up"
  /\ Step(h, IF h.msg \in Invalid THEN "deadlettering" ELSE "working")
  /\ UNCHANGED <<broker, bounds, queueExists, role, sender, processed>>

\* There is no return after DeadLetterAsync: the handler goes on to its work.
DeadLetterAsync(h) ==
  /\ h.step = "deadlettering"
  /\ \/ Served(h, "dead") /\ Step(h, "working")
     \/ Throws(h, "dead") /\ Step(h, "abandoning")
  /\ UNCHANGED <<count, stops, queueExists, role, sender, processed>>

Works(h) ==
  /\ h.step = "working"
  /\ Step(h, "completing")
  /\ processed' = processed \cup {h.msg}
  /\ UNCHANGED <<broker, bounds, queueExists, role, sender>>

CompleteAsync(h) ==
  /\ h.step = "completing"
  /\ \/ Served(h, "completed") /\ Ends(h)
     \/ Throws(h, "completed") /\ Step(h, "abandoning")
  /\ UNCHANGED <<count, stops, queueExists, role, sender, processed>>

\* Mutant: the handler waits for Abandon to succeed.
HangingAbandon(h) ==
  /\ h.step = "abandoning"
  /\ Served(h, Unlocked(h.msg)) /\ Ends(h)
  /\ UNCHANGED <<count, stops, queueExists, role, sender, processed>>

\* In the catch block; if it throws, the exception goes to the pump.
Abandon(h) ==
  /\ h.step = "abandoning"
  /\ Ends(h)
  /\ Served(h, Unlocked(h.msg)) \/ Throws(h, Unlocked(h.msg))
  /\ UNCHANGED <<count, stops, queueExists, role, sender, processed>>

LockLost(m) ==
  /\ LockExpires(m)
  /\ UNCHANGED <<queueExists, sender, processed>>

----------------------------------------------------------------------------
(* A receiver's role: OnStart, and OnStop, which calls QueueManager.Stop.  *)

Starts(r) ==
  /\ role[r] = "down"
  /\ role' = [role EXCEPT ![r] = "up"]
  /\ CreateQueue
  /\ UNCHANGED <<broker, stops, handlers, sender, processed>>

\* No new work is begun; after a while the client is closed, whatever is still
\* at work; the queue is deleted, and the process ends.
Pauses(r) ==
  /\ role[r] = "up" /\ Stop
  /\ role' = [role EXCEPT ![r] = "pausing"]
  /\ UNCHANGED <<broker, faults, queueExists, handlers, sender, processed>>

Closes(r) ==
  /\ role[r] = "pausing"
  /\ role' = [role EXCEPT ![r] = "closed"]
  /\ UNCHANGED <<broker, bounds, queueExists, handlers, sender, processed>>

Stops(r) ==
  /\ role[r] = "closed"
  /\ queueExists' = FALSE
  /\ Purge(Messages)
  /\ Leaves(r)
  /\ UNCHANGED <<count, faults, stops, sender, processed>>

Crashes(r) ==
  /\ role[r] # "down" /\ Fault
  /\ Leaves(r)
  /\ UNCHANGED <<broker, stops, queueExists, sender, processed>>

----------------------------------------------------------------------------
Handles(h) ==
  \/ Begins(h)
  \/ DeadLetterAsync(h)
  \/ Works(h)
  \/ CompleteAsync(h)
  \/ Abandon(h)

Sender == SenderStarts \/ SendFails \/ SenderStops

Next ==
  \/ Sender
  \/ SendBatch
  \/ \E m \in Messages : OtherSends(m) \/ LockLost(m)
  \/ \E r \in Receivers, m \in Messages : Deliver(r, m)
  \/ \E h \in handlers : Handles(h)
  \/ \E r \in Receivers : Starts(r) \/ Pauses(r) \/ Closes(r) \/ Stops(r) \/ Crashes(r)

Spec == Init /\ [][Next]_vars

\* The broker delivers and gives up locks nobody renews, handlers go on, the
\* sender sends again and again, the fabric starts roles and lets OnStop end.
Fairness ==
  /\ \A m \in Messages : WF_vars(~Renewed(m) /\ LockLost(m))
  /\ WF_vars(\E r \in Receivers, m \in Messages : Deliver(r, m))
  /\ WF_vars(\E h \in handlers : Handles(h))
  /\ WF_vars(SenderStarts \/ (~queueExists /\ SendFails))
  /\ \A r \in Receivers : WF_vars(Starts(r) \/ Closes(r) \/ Stops(r))

FairSpec == Spec /\ Fairness

----------------------------------------------------------------------------
Roles == {"down", "up", "pausing", "closed"}
Steps == {"received", "deadlettering", "working", "completing", "abandoning"}

\* The ranges of the variables; without a queue there are no messages in it.
TypeOK ==
  /\ BrokerTypeOK(Roles, Steps)
  /\ queueExists \in BOOLEAN
  /\ ~queueExists => \A m \in Messages : fate[m] \notin {"queued", "locked", "dead"}
  /\ sender \in {"down", "up"}
  /\ processed \subseteq Messages \ Unsent

\* The samples' promise: completed only after it was processed, and for good.
Delivery == INSTANCE MessageDelivery WITH fate <- Outline
AtLeastOnce == Delivery!Spec

\* A message is delivered again only because of a failure or a stop, one for
\* each delivery: as long as these are fewer than the deliveries allowed, no
\* message is dead-lettered by the broker, however slow its handlers are.
DeliveriesExplained ==
  \A m \in Messages : count[m] <= 1 + faults + stops

\* Though an invalid message is worked on like any other after it has been
\* dead-lettered, and completed, it stays in the dead-letter queue.
InvalidKept == \A m \in Invalid : fate[m] # "completed"

----------------------------------------------------------------------------
(* The inductive invariant.                                                *)

\* A message that is about to be completed was processed.
WorkedOn == \A h \in handlers : h.step = "completing" => h.msg \in processed

\* The work on an invalid message begins when it is in the dead-letter queue.
InvalidDead ==
  /\ InvalidKept
  /\ \A h \in handlers :
       h.msg \in Invalid /\ h.step \in {"working", "completing"} =>
         fate[h.msg] \in {"dead", "lost"}

\* The receivers whose stop will have their handlers lose their locks, once.
Pausing == {r \in Receivers : role[r] = "pausing"}

\* A delivery that has not failed.
InWork(m) ==
  /\ fate[m] = "locked"
  /\ \E h \in handlers :
       h.msg = m /\ Holds(h) /\ Open(h) /\ h.step # "abandoning"

\* It can be delivered, or will be when the broker notices.
Due(m) ==
  fate[m] \in {"unsent", "queued"} \/ (fate[m] = "locked" /\ ~InWork(m))

\* The deliveries of a message that have failed are at most the faults and the
\* stops, even those by which no lock has been lost yet left out.
Margin == faults + stops - Cardinality(Pausing)

FailuresCount ==
  \A m \in Messages :
    /\ count[m] <= 1 + Margin
    /\ Due(m) => count[m] <= Margin

IInv == TypeOK /\ WorkedOn /\ InvalidDead /\ FailuresCount

----------------------------------------------------------------------------
\* Whatever fails, every message that is sent is completed, dead-lettered or
\* deleted with the queue in the end.
Settled ==
  \A m \in Messages :
    fate[m] # "unsent" ~> fate[m] \in {"completed", "dead", "lost"}

\* The queue comes back whenever it was deleted, even if those who were started
\* did not get it created: the sender is restarted until it is.
QueueReturns == []<>queueExists
=============================================================================
