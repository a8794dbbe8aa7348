-------------------------- MODULE PipesAndFilters --------------------------
(***************************************************************************)
(* A pipeline of filters, each a worker role with one instance, connected  *)
(* by Service Bus queues.  Filter s takes messages from queue s in peek-   *)
(* lock mode, one at a time, sends its output to queue s + 1, and only     *)
(* then completes its input; the last one is the final receiver.  Roles    *)
(* crash and restart, and delete their queue when they are stopped.        *)
(*                                                                         *)
(* A delivery of a message makes at most one copy of it in the next queue, *)
(* or is received once: a copy of msg is named by the numbers of the       *)
(* deliveries it came by, via, and it lies in queue Len(via) + 1.          *)
(***************************************************************************)
EXTENDS Naturals, Sequences, FiniteSets

CONSTANTS
  Messages, NoMessage,
  Poison,                     \* messages that make every filter throw
  N,                          \* the filters: A, B and the final receiver
  MaxServiceBusDeliveryCount, \* deliveries before a filter gives up
  SenderLimit, DefaultLimit,  \* MaxDeliveryCount of a queue the sender, or a
                              \* filter, has created
  MaxFaults,                  \* bound: crashes, lost locks, failed calls
  MaxStops                    \* bound: roles that are stopped

Filters == 1..N

ASSUME MessagesAssumption == Poison \subseteq Messages /\ NoMessage \notin Messages
ASSUME NumbersAssumption ==
  /\ N \in Nat \ {0} /\ MaxServiceBusDeliveryCount \in Nat \ {0}
  /\ SenderLimit \in Nat \ {0} /\ DefaultLimit \in Nat \ {0}
  /\ MaxFaults \in Nat /\ MaxStops \in Nat

VARIABLES
  limit,      \* of each queue: its MaxDeliveryCount, 0 when there is no queue
  copies,     \* in the queues: their deliveries so far, and if they are locked
  dead,       \* copies in the dead-letter queues
  role,       \* of each filter: down, up, pausing or closed
  handler,    \* the delivery a filter is busy with
  sender,     \* down, up or stopping
  sent,       \* messages sent into the pipeline
  received,   \* deliveries the final receiver has processed
  purged,     \* messages that were in a queue when it was deleted
  faults, stops

queues == <<limit, copies, dead, purged>>
vars == <<queues, role, handler, sender, sent, received, faults, stops>>

Idle == [step |-> "none", msg |-> NoMessage, via |-> <<>>, count |-> 0]

Init ==
  /\ limit = [q \in Filters |-> 0]
  /\ copies = {} /\ dead = {}
  /\ role = [s \in Filters |-> "down"]
  /\ handler = [s \in Filters |-> Idle]
  /\ sender = "down"
  /\ sent = {} /\ received = {} /\ purged = {}
  /\ faults = 0 /\ stops = 0

----------------------------------------------------------------------------
(* The queues (external).                                                  *)

QueueExists(q) == limit[q] > 0
Queue(c) == Len(c.via) + 1
Name(c)  == [msg |-> c.msg, via |-> c.via]

Lock(c)  == [msg |-> c.msg, via |-> c.via, count |-> c.count + 1, locked |-> TRUE]

\* Another delivery, unless there were too many.
Unlock(c) ==
  \/ /\ c.count < limit[Queue(c)]
     /\ copies' = (copies \ {c}) \cup {[c EXCEPT !.locked = FALSE]}
     /\ UNCHANGED dead
  \/ /\ c.count >= limit[Queue(c)]
     /\ copies' = copies \ {c}
     /\ dead' = dead \cup {Name(c)}

\* The copy that filter s has locked, if it still has the lock.
Locked(s) == {c \in copies : /\ Name(c) = Name(handler[s])
                             /\ c.count = handler[s].count
                             /\ c.locked}

Fault == faults < MaxFaults /\ faults' = faults + 1

\* The pump renews the lock of a message in work until it is closed.
Renewed(c) == \E s \in Filters : role[s] # "closed" /\ c \in Locked(s)

\* Renewing may fail.
LockExpires(c) ==
  /\ c.locked
  /\ \/ Renewed(c) /\ Fault
     \/ ~Renewed(c) /\ UNCHANGED faults
  /\ Unlock(c)
  /\ UNCHANGED <<limit, purged, role, handler, sender, sent, received, stops>>

DeleteQueue(q) ==
  /\ limit' = [limit EXCEPT ![q] = 0]
  /\ copies' = {c \in copies : Queue(c) # q}
  /\ dead' = {c \in dead : Queue(c) # q}
  /\ purged' = purged \cup {c.msg : c \in {d \in copies \cup dead : Queue(d) = q}}

----------------------------------------------------------------------------
(* The initial sender.                                                     *)

\* The queue is created if it does not exist; a creation that fails, or meets
\* one that is being deleted, is only traced.
SenderStarts ==
  /\ sender = "down"
  /\ sender' = "up"
  /\ \/ /\ limit' = [limit EXCEPT ![1] = IF @ = 0 THEN SenderLimit ELSE @]
        /\ UNCHANGED faults
     \/ /\ ~QueueExists(1) /\ Fault
        /\ UNCHANGED limit
  /\ UNCHANGED <<copies, dead, purged, role, handler, sent, received, stops>>

Send(m) ==
  /\ sender = "up" /\ QueueExists(1)
  /\ m \notin sent
  /\ sent' = sent \cup {m}
  /\ copies' = copies \cup {[msg |-> m, via |-> <<>>, count |-> 0, locked |-> FALSE]}
  /\ UNCHANGED <<limit, dead, purged, role, handler, sender, received, faults,
                 stops>>

\* OnStop: the client is closed and the queue deleted; then Run may end.
SenderStops ==
  /\ sender = "up" /\ stops < MaxStops
  /\ stops' = stops + 1
  /\ sender' = "stopping"
  /\ DeleteQueue(1)
  /\ UNCHANGED <<role, handler, sent, received, faults>>

SenderEnds ==
  /\ sender = "stopping"
  /\ sender' = "down"
  /\ UNCHANGED <<queues, role, handler, sent, received, faults, stops>>

----------------------------------------------------------------------------
(* A filter's message handler.                                             *)

Step(s, step) == handler' = [handler EXCEPT ![s].step = step]
Ends(s) == handler' = [handler EXCEPT ![s] = Idle]

\* What comes of the delivery filter s is busy with is named by it.
Output(s) == Append(handler[s].via, handler[s].count)

Deliver(s) ==
  /\ role[s] \in {"up", "pausing"} /\ handler[s] = Idle
  /\ \E c \in copies :
       /\ Queue(c) = s /\ ~c.locked
       /\ copies' = (copies \ {c}) \cup {Lock(c)}
       /\ handler' = [handler EXCEPT ![s] = [step |-> "received",
                        msg |-> c.msg, via |-> c.via, count |-> c.count + 1]]
  /\ UNCHANGED <<limit, dead, purged, role, sender, sent, received, faults,
                 stops>>

\* Mutant: neither test holds for the last delivery allowed.
UnreachedBegins(s) ==
  /\ handler[s].step = "received" /\ role[s] = "up"
  /\ handler[s].count < MaxServiceBusDeliveryCount
  /\ Step(s, "filtering")
  /\ UNCHANGED <<queues, role, sender, sent, received, faults, stops>>

\* The handler passes pauseProcessingEvent, if it is not reset, and lets the
\* filter work on the message or gives up on it.
Begins(s) ==
  /\ handler[s].step = "received" /\ role[s] = "up"
  /\ handler[s].count <= MaxServiceBusDeliveryCount
  /\ Step(s, "filtering")
  /\ UNCHANGED <<queues, role, sender, sent, received, faults, stops>>

DeadLetters(s) ==
  /\ handler[s].step = "received" /\ role[s] = "up"
  /\ handler[s].count > MaxServiceBusDeliveryCount
  /\ copies' = copies \ Locked(s)
  /\ dead' = dead \cup {Name(c) : c \in Locked(s)}
  /\ Ends(s)
  /\ UNCHANGED <<limit, purged, role, sender, sent, received, faults, stops>>

\* The pump abandons a message whose handler throws, with an open client.
Throws(s) ==
  /\ Ends(s)
  /\ \/ /\ role[s] # "closed"
        /\ \E c \in Locked(s) : Unlock(c)
     \/ /\ role[s] = "closed" \/ Locked(s) = {}
        /\ UNCHANGED <<copies, dead>>

FilterThrows(s) ==
  /\ handler[s].step = "filtering"
  /\ handler[s].msg \in Poison
  /\ Throws(s)
  /\ UNCHANGED <<limit, purged, role, sender, sent, received, faults, stops>>

\* Mutant: the input is completed, then the output is sent.
HastyFiltered(s) ==
  /\ handler[s].step = "filtering"
  /\ handler[s].msg \notin Poison
  /\ Step(s, IF s = N THEN "completing" ELSE "sending")
  /\ received' = IF s = N
                  THEN received \cup {[msg |-> handler[s].msg, via |-> Output(s)]}
                  ELSE received
  /\ copies' = copies \ Locked(s)
  /\ UNCHANGED <<limit, dead, purged, role, sender, sent, faults, stops>>

\* The final receiver's work is done here, and it has no output.
Filtered(s) ==
  /\ handler[s].step = "filtering"
  /\ handler[s].msg \notin Poison
  /\ Step(s, IF s = N THEN "completing" ELSE "sending")
  /\ received' = IF s = N
                  THEN received \cup {[msg |-> handler[s].msg, via |-> Output(s)]}
                  ELSE received
  /\ UNCHANGED <<queues, role, sender, sent, faults, stops>>

\* Mutant: the handler sends again when it is not sure that it has sent.
RepeatedSendsOutput(s) ==
  /\ handler[s].step = "sending" /\ QueueExists(s + 1)
  /\ copies' = copies \cup {[msg |-> handler[s].msg, via |-> Output(s),
                             count |-> 0, locked |-> FALSE]}
  /\ Step(s, "completing") \/ UNCHANGED handler
  /\ UNCHANGED <<limit, dead, purged, role, sender, sent, received, faults,
                 stops>>

SendsOutput(s) ==
  /\ handler[s].step = "sending" /\ QueueExists(s + 1)
  /\ copies' = copies \cup {[msg |-> handler[s].msg, via |-> Output(s),
                             count |-> 0, locked |-> FALSE]}
  /\ Step(s, "completing")
  /\ UNCHANGED <<limit, dead, purged, role, sender, sent, received, faults,
                 stops>>

\* Mutant: a send that fails is only traced.
SilentSendFails(s) ==
  /\ handler[s].step = "sending"
  /\ \/ ~QueueExists(s + 1) /\ UNCHANGED faults
     \/ QueueExists(s + 1) /\ Fault
  /\ Step(s, "completing")
  /\ UNCHANGED <<queues, role, sender, sent, received, stops>>

SendFails(s) ==
  /\ handler[s].step = "sending"
  /\ \/ ~QueueExists(s + 1) /\ UNCHANGED faults
     \/ QueueExists(s + 1) /\ Fault
  /\ Throws(s)
  /\ UNCHANGED <<limit, purged, role, sender, sent, received, stops>>

\* Mutant: nobody completes the message.
ForgetfulCompletes(s) ==
  /\ handler[s].step = "completing"
  /\ Ends(s)
  /\ UNCHANGED <<queues, role, sender, sent, received, faults, stops>>

\* AutoComplete, which fails without the lock, and with a closed client.
Completes(s) ==
  /\ handler[s].step = "completing"
  /\ copies' = IF role[s] = "closed" THEN copies ELSE copies \ Locked(s)
  /\ Ends(s)
  /\ UNCHANGED <<limit, dead, purged, role, sender, sent, received, faults,
                 stops>>

----------------------------------------------------------------------------
(* A filter's role.                                                        *)

\* Mutant: a filter leaves its output queue to the next one.
LazyStarts(s) ==
  /\ role[s] = "down"
  /\ role' = [role EXCEPT ![s] = "up"]
  /\ \/ /\ limit' = [limit EXCEPT ![s] = IF @ = 0 THEN DefaultLimit ELSE @]
        /\ UNCHANGED faults
     \/ /\ ~QueueExists(s) /\ Fault
        /\ UNCHANGED limit
  /\ UNCHANGED <<copies, dead, purged, handler, sender, sent, received, stops>>

\* Start creates the input queue, and the output queue unless it is the final
\* receiver, if they do not exist; see SenderStarts.
Starts(s) ==
  /\ role[s] = "down"
  /\ role' = [role EXCEPT ![s] = "up"]
  /\ \E created \in SUBSET {q \in {s, s + 1} \cap Filters : ~QueueExists(q)} :
       /\ limit' = [q \in Filters |->
                      IF q \in created THEN DefaultLimit ELSE limit[q]]
       /\ \/ (\A q \in {s, s + 1} \cap Filters : limit'[q] > 0) /\ UNCHANGED faults
          \/ (\E q \in {s, s + 1} \cap Filters : limit'[q] = 0) /\ Fault
  /\ UNCHANGED <<copies, dead, purged, handler, sender, sent, received, stops>>

\* Close: no new processing, a while for the handler to finish, which it may
\* not, then the pump is closed and the input queue deleted.
Pauses(s) ==
  /\ role[s] = "up" /\ stops < MaxStops
  /\ stops' = stops + 1
  /\ role' = [role EXCEPT ![s] = "pausing"]
  /\ UNCHANGED <<queues, handler, sender, sent, received, faults>>

Closes(s) ==
  /\ role[s] = "pausing"
  /\ role' = [role EXCEPT ![s] = "closed"]
  /\ UNCHANGED <<queues, handler, sender, sent, received, faults, stops>>

Stops(s) ==
  /\ role[s] = "closed"
  /\ role' = [role EXCEPT ![s] = "down"]
  /\ Ends(s)
  /\ DeleteQueue(s)
  /\ UNCHANGED <<sender, sent, received, faults, stops>>

Crashes(s) ==
  /\ role[s] # "down" /\ Fault
  /\ role' = [role EXCEPT ![s] = "down"]
  /\ Ends(s)
  /\ UNCHANGED <<queues, sender, sent, received, stops>>

----------------------------------------------------------------------------
Handles(s) ==
  \/ Begins(s)
  \/ DeadLetters(s)
  \/ FilterThrows(s)
  \/ Filtered(s)
  \/ SendsOutput(s)
  \/ SendFails(s)
  \/ Completes(s)

Sender == SenderStarts \/ SenderStops \/ SenderEnds

Next ==
  \/ \E c \in copies : LockExpires(c)
  \/ Sender
  \/ \E m \in Messages : Send(m)
  \/ \E s \in Filters : Deliver(s) \/ Handles(s)
  \/ \E s \in Filters : Starts(s) \/ Pauses(s) \/ Closes(s) \/ Stops(s) \/ Crashes(s)

Spec == Init /\ [][Next]_vars

LostLockExpires == \E c \in copies : ~Renewed(c) /\ LockExpires(c)

\* The broker delivers and gives up locks that are not renewed, the fabric
\* restarts a role and lets OnStop end, and handlers go on.
Fairness ==
  /\ WF_vars(LostLockExpires)
  /\ \A s \in Filters : /\ WF_vars(Deliver(s))
                        /\ WF_vars(Handles(s))
                        /\ WF_vars(Starts(s) \/ Closes(s) \/ Stops(s))

FairSpec == Spec /\ Fairness

----------------------------------------------------------------------------
MaxDeliveries == IF SenderLimit < DefaultLimit THEN DefaultLimit ELSE SenderLimit

Steps  == {"none", "received", "filtering", "sending", "completing"}
Counts == 0..MaxDeliveries
Vias   == Seq(Counts)

\* The ranges of the variables; copies lie in queues that exist, with no more
\* deliveries than these allow, and a name is that of one copy.
TypeOK ==
  /\ limit \in [Filters -> {0, SenderLimit, DefaultLimit}]
  /\ copies \subseteq [msg : sent, via : Vias, count : Counts, locked : BOOLEAN]
  /\ \A c \in copies : QueueExists(Queue(c)) /\ c.count <= limit[Queue(c)]
  /\ \A c, d \in copies : Name(c) = Name(d) => c = d
  /\ dead \cup received \subseteq [msg : sent, via : Vias]
  /\ \A c \in dead : Queue(c) \in Filters
  /\ \A c \in received : Len(c.via) = N
  /\ role \in [Filters -> {"down", "up", "pausing", "closed"}]
  /\ handler \in [Filters ->
       [step : Steps, msg : sent \cup {NoMessage}, via : Vias, count : Counts]]
  /\ \A s \in Filters :
       \/ handler[s] = Idle
       \/ /\ handler[s].msg \in sent /\ Queue(handler[s]) = s
          /\ handler[s].count > 0
          /\ role[s] # "down" /\ handler[s].step # "none"
  /\ sender \in {"down", "up", "stopping"}
  /\ sent \subseteq Messages /\ purged \subseteq sent
  /\ faults \in 0..MaxFaults /\ stops \in 0..MaxStops

Somewhere(m) == \E c \in copies \cup dead : c.msg = m
Received(m)  == \E c \in received : c.msg = m

\* A message is never lost on its way, whatever crashes, fails or is delivered
\* twice: only the deletion of a queue takes messages away.
NoMessageLost ==
  \A m \in sent : Received(m) \/ Somewhere(m) \/ m \in purged

\* What makes it so: a delivery that waits to be completed has passed its message
\* on, to a queue further down or to the final receiver.
PassedOn ==
  \A s \in Filters : handler[s].step = "completing" =>
    \/ Received(handler[s].msg) \/ handler[s].msg \in purged
    \/ \E c \in copies \cup dead : c.msg = handler[s].msg /\ Queue(c) > s

\* The part of TypeOK that its proof needs.
Shapes ==
  /\ copies \subseteq [msg : Messages, via : Seq(Nat), count : Nat, locked : BOOLEAN]
  /\ dead \subseteq [msg : Messages, via : Seq(Nat)]
  /\ handler \in [Filters -> [step : Steps, msg : Messages \cup {NoMessage},
                              via : Seq(Nat), count : Nat]]
  /\ \A s \in Filters : handler[s].step # "none" =>
       handler[s].msg \in Messages /\ Queue(handler[s]) = s

\* The inductive invariant.
IInv == Shapes /\ PassedOn /\ NoMessageLost

\* Hop by hop, the queues store and forward: a filter forgets a message only
\* when it is further on, and passes on only what was in its own queue.
At(q) == {c.msg : c \in {d \in copies \cup dead : Queue(d) = q}}

Relay == INSTANCE StoreAndForward WITH
  at <- [q \in Filters |-> At(q)],
  received <- {c.msg : c \in received}

HopByHop == Relay!Spec

\* Why a filter has what it passes on.
HeldInv ==
  \A s \in Filters :
    handler[s].step # "none" => handler[s].msg \in At(s) \cup purged

\* Without failures and stops every message is received once at most.
OnceWithoutFaults ==
  faults = 0 /\ stops = 0 =>
    \A c, d \in received : c.msg = d.msg => c = d

\* And only poison is dead-lettered, in whatever order the roles start: a
\* filter that runs before the next one does, has a queue to send to.
HealthyPasses ==
  faults = 0 /\ stops = 0 => \A c \in dead : c.msg \in Poison

\* Why the name is that of one copy.  x came by a delivery of c, number By.
From(x, c) ==
  /\ x.msg = c.msg /\ Len(c.via) < Len(x.via)
  /\ \A n \in DOMAIN c.via : x.via[n] = c.via[n]

By(x, c) == x.via[Len(c.via) + 1]

Busy(s) == handler[s].step # "none"

\* Nothing has come by a delivery that is still to be made, and what has come
\* by the one that a handler is busy with, has been sent already.
Traced(x) ==
  /\ \A c \in copies : From(x, c) => By(x, c) <= c.count
  /\ \A s \in Filters : Busy(s) /\ From(x, handler[s]) =>
       \/ By(x, handler[s]) < handler[s].count
       \/ By(x, handler[s]) = handler[s].count /\ handler[s].step = "completing"

TraceInv ==
  /\ \A x \in copies \cup dead \cup received : Traced(x)
  /\ \A s \in Filters : Busy(s) => Traced(handler[s])
  /\ \A c \in copies, s \in Filters :
       Busy(s) /\ Name(c) = Name(handler[s]) => c.count = handler[s].count

LimitInv ==
  /\ \A c \in copies : /\ Queue(c) \in Filters
                       /\ ~c.locked => c.count < limit[Queue(c)]
  /\ \A s \in Filters : handler[s].step = "sending" => s # N

NameIInv == TypeOK /\ LimitInv /\ TraceInv

\* Why nothing is received twice without failures and stops: no send fails,
\* since a filter is up only with its queues, no lock is lost, and what throws
\* is poison; so a healthy message is delivered once in every queue.
Straight(x) == \A n \in DOMAIN x.via : x.via[n] = 1

CalmInv ==
  faults = 0 /\ stops = 0 =>
    /\ \A s \in Filters :
         /\ role[s] \in {"down", "up"}
         /\ role[s] = "up" => \A q \in {s, s + 1} \cap Filters : QueueExists(q)
         /\ Busy(s) /\ handler[s].msg \notin Poison =>
              handler[s].count = 1 /\ Straight(handler[s])
    /\ \A c \in copies : c.msg \notin Poison =>
         /\ Straight(c)
         /\ \/ ~c.locked /\ c.count = 0
            \/ c.locked /\ c.count = 1 /\ Name(c) = Name(handler[Queue(c)])
    /\ \A c \in received : c.msg \notin Poison /\ Straight(c)
    /\ \A c \in dead : c.msg \in Poison

\* Every message that was sent gets to the final receiver, or to a dead-letter
\* queue, unless a queue is deleted with it, after any failures.
Delivered ==
  \A m \in Messages :
    m \in sent ~> Received(m) \/ m \in purged \/ \E c \in dead : c.msg = m
=============================================================================
