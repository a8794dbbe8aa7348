------------------------ MODULE PipesAndFiltersProofs ------------------------
(***************************************************************************)
(* The pipeline, for any number of filters, messages, crashes, lost locks  *)
(* and stopped roles, in five parts: no message is lost, type correctness, *)
(* the names of copies, the pipeline without failures and stops, and its   *)
(* refinement of StoreAndForward.                                          *)
(*                                                                         *)
(* Nothing is lost since an input is completed only when its output lies   *)
(* further down, so what completing takes away is still somewhere; every   *)
(* other step keeps each copy in its queue or its dead-letter queue, or    *)
(* deletes the queue.                                                      *)
(***************************************************************************)
EXTENDS PipesAndFilters, SequenceTheorems, TLAPS

\* A copy keeps its name when it is unlocked.
LEMMA UnlockKeeps ==
  ASSUME NEW c \in copies, Shapes, Unlock(c)
  PROVE  /\ copies' \subseteq [msg : Messages, via : Seq(Nat), count : Nat,
                               locked : BOOLEAN]
         /\ dead' \subseteq [msg : Messages, via : Seq(Nat)]
         /\ \A d \in copies \cup dead : \E e \in copies' \cup dead' :
              e.msg = d.msg /\ e.via = d.via
<1> DEFINE u == [c EXCEPT !.locked = FALSE]
<1>1. /\ c \in [msg : Messages, via : Seq(Nat), count : Nat, locked : BOOLEAN]
      /\ u \in [msg : Messages, via : Seq(Nat), count : Nat, locked : BOOLEAN]
      /\ u.msg = c.msg /\ u.via = c.via
  BY DEF Shapes
<1>2. /\ Name(c) \in [msg : Messages, via : Seq(Nat)]
      /\ Name(c).msg = c.msg /\ Name(c).via = c.via
  BY <1>1 DEF Name
<1> HIDE DEF u
<1>3. CASE copies' = (copies \ {c}) \cup {u} /\ dead' = dead
  BY <1>1, <1>3 DEF Shapes
<1>4. CASE copies' = copies \ {c} /\ dead' = dead \cup {Name(c)}
  BY <1>2, <1>4 DEF Shapes
<1> QED  BY <1>3, <1>4 DEF Unlock, u

\* A step after which every copy is where it was, or its queue is deleted, and
\* which brings no handler to its completion, keeps messages from being lost.
LEMMA Kept ==
  ASSUME PassedOn, NoMessageLost, sent' = sent,
         received \subseteq received', purged \subseteq purged',
         \A c \in copies \cup dead :
           \/ c.msg \in purged'
           \/ \E d \in copies' \cup dead' : d.msg = c.msg /\ d.via = c.via,
         \A s \in Filters :
           handler'[s].step = "completing" => handler'[s] = handler[s]
  PROVE  PassedOn' /\ NoMessageLost'
<1>1. PassedOn'
  <2> SUFFICES ASSUME NEW s \in Filters, handler'[s].step = "completing"
               PROVE  \/ Received(handler[s].msg)' \/ handler[s].msg \in purged'
                      \/ \E c \in copies' \cup dead' :
                           c.msg = handler[s].msg /\ Queue(c) > s
    BY DEF PassedOn, Received, Queue
  <2>1. CASE Received(handler[s].msg) \/ handler[s].msg \in purged
    BY <2>1 DEF Received
  <2>2. CASE \E c \in copies \cup dead : c.msg = handler[s].msg /\ Queue(c) > s
    BY <2>2 DEF Queue
  <2> QED  BY <2>1, <2>2 DEF PassedOn
<1>2. NoMessageLost'
  BY DEF NoMessageLost, Received, Somewhere
<1> QED  BY <1>1, <1>2

\* A queue's copies are purged with it.
LEMMA DeleteKeeps ==
  ASSUME NEW q \in Filters, Shapes, DeleteQueue(q)
  PROVE  /\ copies' \subseteq copies /\ dead' \subseteq dead
         /\ purged \subseteq purged'
         /\ \A c \in copies \cup dead : c.msg \in purged' \/ c \in copies' \cup dead'
BY DEF DeleteQueue

LEMMA IdleShape ==
  /\ Idle \in [step : Steps, msg : Messages \cup {NoMessage}, via : Seq(Nat),
               count : Nat]
  /\ Idle.step = "none"
<1>1. <<>> \in Seq(Nat)
  BY SMT
<1>2. 0 \in Nat
  BY SMT
<1>3. Idle \in [step : Steps, msg : Messages \cup {NoMessage}, via : Seq(Nat),
                count : Nat]
  BY <1>1, <1>2, Zenon DEF Idle, Steps
<1>4. Idle.step = "none"
  BY DEF Idle
<1> QED  BY <1>3, <1>4

LEMMA InitIInv == Init => IInv
<1> SUFFICES ASSUME Init PROVE IInv
  OBVIOUS
<1>1. Idle \in [step : Steps, msg : Messages \cup {NoMessage}, via : Seq(Nat),
                count : Nat]
  BY IdleShape
<1>2. \A s \in Filters : handler[s] = Idle /\ handler[s].step = "none"
  BY DEF Init, Idle
<1>3. copies = {} /\ dead = {} /\ sent = {}
  BY DEF Init
<1>4. handler \in [Filters -> [step : Steps, msg : Messages \cup {NoMessage},
                               via : Seq(Nat), count : Nat]]
  BY <1>1 DEF Init
<1>5. Shapes
  BY <1>2, <1>3, <1>4 DEF Shapes
<1>6. PassedOn /\ NoMessageLost
  BY <1>2, <1>3 DEF PassedOn, NoMessageLost
<1> QED  BY <1>5, <1>6 DEF IInv

\* Handlers that end, or stay as they are, keep their shape.
LEMMA EndsKeeps ==
  ASSUME NEW s \in Filters, Shapes, Ends(s)
  PROVE  /\ handler' \in [Filters -> [step : Steps, msg : Messages \cup {NoMessage},
                                      via : Seq(Nat), count : Nat]]
         /\ \A t \in Filters :
              /\ handler'[t].step # "none" => handler'[t] = handler[t]
              /\ handler'[t].step = "completing" => handler'[t] = handler[t]
<1>1. Idle \in [step : Steps, msg : Messages \cup {NoMessage}, via : Seq(Nat),
                count : Nat] /\ Idle.step = "none"
  BY IdleShape
<1> QED  BY <1>1 DEF Ends, Shapes

LEMMA StepKeeps ==
  ASSUME NEW s \in Filters, NEW step \in Steps, Shapes, Step(s, step),
         handler[s].step # "none"
  PROVE  /\ handler' \in [Filters -> [step : Steps, msg : Messages \cup {NoMessage},
                                      via : Seq(Nat), count : Nat]]
         /\ \A t \in Filters \ {s} : handler'[t] = handler[t]
         /\ handler'[s].step = step
         /\ handler'[s].msg = handler[s].msg /\ handler'[s].via = handler[s].via
BY DEF Step, Shapes

\* A handler that throws leaves its copy, or lets it be unlocked.
LEMMA ThrowsKeeps ==
  ASSUME NEW s \in Filters, IInv, Throws(s),
         UNCHANGED <<purged, sent, received>>
  PROVE  IInv'
<1> USE DEF IInv
<1>1. /\ handler' \in [Filters -> [step : Steps, msg : Messages \cup {NoMessage},
                                   via : Seq(Nat), count : Nat]]
      /\ \A t \in Filters :
           /\ handler'[t].step # "none" => handler'[t] = handler[t]
           /\ handler'[t].step = "completing" => handler'[t] = handler[t]
  BY EndsKeeps DEF Throws
<1>2. /\ copies' \subseteq [msg : Messages, via : Seq(Nat), count : Nat,
                            locked : BOOLEAN]
      /\ dead' \subseteq [msg : Messages, via : Seq(Nat)]
      /\ \A d \in copies \cup dead : \E e \in copies' \cup dead' :
           e.msg = d.msg /\ e.via = d.via
  <2>1. CASE UNCHANGED <<copies, dead>>
    BY <2>1 DEF Shapes
  <2>2. CASE \E c \in Locked(s) : Unlock(c)
    BY <2>2, UnlockKeeps DEF Locked
  <2> QED  BY <2>1, <2>2 DEF Throws
<1>3. Shapes'
  BY <1>1, <1>2 DEF Shapes, Queue
<1>4. PassedOn' /\ NoMessageLost'
  BY <1>1, <1>2, Kept
<1> QED  BY <1>3, <1>4

\* The steps that leave the messages and the handlers that complete alone.
LEMMA StayKeeps ==
  ASSUME IInv, UNCHANGED <<sent, received>>, purged \subseteq purged',
         \/ UNCHANGED handler
         \/ \E s \in Filters : Ends(s)
         \/ \E s \in Filters, step \in Steps \ {"completing"} :
              handler[s].step # "none" /\ Step(s, step),
         copies' \subseteq copies, dead' \subseteq dead,
         \A c \in copies \cup dead : c.msg \in purged' \/ c \in copies' \cup dead'
  PROVE  IInv'
<1> USE DEF IInv
<1>1. /\ handler' \in [Filters -> [step : Steps, msg : Messages \cup {NoMessage},
                                   via : Seq(Nat), count : Nat]]
      /\ \A t \in Filters :
           /\ handler'[t].step # "none" =>
                /\ handler[t].step # "none"
                /\ handler'[t].msg = handler[t].msg
                /\ handler'[t].via = handler[t].via
           /\ handler'[t].step = "completing" => handler'[t] = handler[t]
  <2>1. CASE UNCHANGED handler
    BY <2>1 DEF Shapes
  <2>2. ASSUME NEW s \in Filters, Ends(s) PROVE <1>1
    BY <2>2, EndsKeeps
  <2>3. ASSUME NEW s \in Filters, NEW step \in Steps \ {"completing"},
               handler[s].step # "none", Step(s, step)
        PROVE  <1>1
    BY <2>3, StepKeeps
  <2> QED  BY <2>1, <2>2, <2>3
<1>2. Shapes'
  BY <1>1 DEF Shapes, Queue
<1>3. PassedOn' /\ NoMessageLost'
  BY <1>1, Kept
<1> QED  BY <1>2, <1>3

LEMMA LockExpiresKeeps ==
  ASSUME IInv, NEW c \in copies, LockExpires(c)
  PROVE  IInv'
<1>1. /\ copies' \subseteq [msg : Messages, via : Seq(Nat), count : Nat,
                            locked : BOOLEAN]
      /\ dead' \subseteq [msg : Messages, via : Seq(Nat)]
      /\ \A d \in copies \cup dead : \E e \in copies' \cup dead' :
           e.msg = d.msg /\ e.via = d.via
  BY UnlockKeeps DEF LockExpires, IInv
<1>2. UNCHANGED <<handler, sent, received, purged>>
  BY DEF LockExpires
<1>3. Shapes'
  BY <1>1, <1>2 DEF Shapes, Queue, IInv
<1>4. PassedOn' /\ NoMessageLost'
  BY <1>1, <1>2, Kept DEF IInv
<1> QED  BY <1>3, <1>4 DEF IInv

LEMMA SendKeeps ==
  ASSUME IInv, NEW m \in Messages, Send(m)
  PROVE  IInv'
<1> DEFINE c == [msg |-> m, via |-> <<>>, count |-> 0, locked |-> FALSE]
<1>1. copies' = copies \cup {c} /\ sent' = sent \cup {m}
      /\ UNCHANGED <<dead, purged, received, handler>>
  BY DEF Send
<1>2. c \in [msg : Messages, via : Seq(Nat), count : Nat, locked : BOOLEAN]
      /\ c.msg = m
  BY EmptySeq
<1> HIDE DEF c
<1>3. Shapes'
  BY <1>1, <1>2 DEF Shapes, Queue, IInv
<1>4. PassedOn'
  BY <1>1 DEF PassedOn, Received, Queue, IInv
<1>5. NoMessageLost'
  BY <1>1, <1>2 DEF NoMessageLost, Received, Somewhere, IInv
<1> QED  BY <1>3, <1>4, <1>5 DEF IInv

LEMMA DeliverKeeps ==
  ASSUME IInv, NEW s \in Filters, Deliver(s)
  PROVE  IInv'
<1>1. PICK c \in copies :
        /\ Queue(c) = s
        /\ copies' = (copies \ {c}) \cup {Lock(c)}
        /\ handler' = [handler EXCEPT ![s] = [step |-> "received",
                         msg |-> c.msg, via |-> c.via, count |-> c.count + 1]]
  BY DEF Deliver
<1>2. UNCHANGED <<sent, received, purged, dead>>
  BY DEF Deliver
<1> DEFINE d == Lock(c)
           h == [step |-> "received", msg |-> c.msg, via |-> c.via,
                 count |-> c.count + 1]
<1>3. /\ c \in [msg : Messages, via : Seq(Nat), count : Nat, locked : BOOLEAN]
      /\ d \in [msg : Messages, via : Seq(Nat), count : Nat, locked : BOOLEAN]
      /\ d.msg = c.msg /\ d.via = c.via
  <2>1. c \in [msg : Messages, via : Seq(Nat), count : Nat, locked : BOOLEAN]
    BY DEF IInv, Shapes
  <2>2. d = [msg |-> c.msg, via |-> c.via, count |-> c.count + 1, locked |-> TRUE]
    BY DEF Lock
  <2>3. c.count + 1 \in Nat
    BY <2>1
  <2> HIDE DEF d
  <2> QED  BY <2>1, <2>2, <2>3
<1>4. /\ h \in [step : Steps, msg : Messages \cup {NoMessage}, via : Seq(Nat),
                count : Nat]
      /\ h.step = "received" /\ h.msg = c.msg /\ h.via = c.via
  BY <1>3 DEF Steps
<1>5. copies' = (copies \ {c}) \cup {d} /\ handler' = [handler EXCEPT ![s] = h]
  BY <1>1
<1> HIDE DEF d, h
<1>6. Shapes'
  BY <1>1, <1>2, <1>3, <1>4, <1>5 DEF Shapes, Queue, IInv
<1>7. PassedOn' /\ NoMessageLost'
  BY <1>2, <1>3, <1>4, <1>5, Kept DEF IInv, Shapes
<1> QED  BY <1>6, <1>7 DEF IInv

LEMMA DeadLettersKeeps ==
  ASSUME IInv, NEW s \in Filters, DeadLetters(s)
  PROVE  IInv'
<1>1. /\ copies' = copies \ Locked(s)
      /\ dead' = dead \cup {Name(c) : c \in Locked(s)}
      /\ Ends(s) /\ UNCHANGED <<sent, received, purged>>
  BY DEF DeadLetters
<1>2. \A c \in Locked(s) : /\ c \in copies
                           /\ Name(c) \in [msg : Messages, via : Seq(Nat)]
                           /\ Name(c).msg = c.msg /\ Name(c).via = c.via
  BY DEF IInv, Shapes, Locked, Name
<1>3. /\ dead' \subseteq [msg : Messages, via : Seq(Nat)]
      /\ \A d \in copies \cup dead : \E e \in copies' \cup dead' :
           e.msg = d.msg /\ e.via = d.via
  BY <1>1, <1>2 DEF IInv, Shapes
<1>4. /\ handler' \in [Filters -> [step : Steps, msg : Messages \cup {NoMessage},
                                   via : Seq(Nat), count : Nat]]
      /\ \A t \in Filters :
           /\ handler'[t].step # "none" => handler'[t] = handler[t]
           /\ handler'[t].step = "completing" => handler'[t] = handler[t]
  BY <1>1, EndsKeeps DEF IInv
<1>5. Shapes'
  BY <1>1, <1>3, <1>4 DEF Shapes, Queue, IInv
<1>6. PassedOn' /\ NoMessageLost'
  BY <1>1, <1>3, <1>4, Kept DEF IInv
<1> QED  BY <1>5, <1>6 DEF IInv

LEMMA FilteredKeeps ==
  ASSUME IInv, NEW s \in Filters, Filtered(s)
  PROVE  IInv'
<1>1. PICK step \in {"completing", "sending"} :
        /\ Step(s, step) /\ handler[s].step # "none"
        /\ step = "completing" =>
             received' = received \cup {[msg |-> handler[s].msg, via |-> Output(s)]}
  BY Zenon DEF Filtered
<1>2. received \subseteq received' /\ UNCHANGED <<copies, dead, sent, purged>>
  BY DEF Filtered, queues
<1>3. /\ handler' \in [Filters -> [step : Steps, msg : Messages \cup {NoMessage},
                                   via : Seq(Nat), count : Nat]]
      /\ \A t \in Filters \ {s} : handler'[t] = handler[t]
      /\ handler'[s].step = step
      /\ handler'[s].msg = handler[s].msg /\ handler'[s].via = handler[s].via
  BY <1>1, StepKeeps DEF IInv, Steps
<1>4. Shapes'
  BY <1>1, <1>2, <1>3 DEF Shapes, Queue, IInv
<1>5. NoMessageLost'
  BY <1>2 DEF NoMessageLost, Received, Somewhere, IInv
<1>6. PassedOn'
  <2> SUFFICES ASSUME NEW t \in Filters, handler'[t].step = "completing"
               PROVE  \/ Received(handler[t].msg)' \/ handler'[t].msg \in purged'
                      \/ \E c \in copies' \cup dead' :
                           c.msg = handler'[t].msg /\ Queue(c) > t
    BY DEF PassedOn, Received, Queue
  <2>1. CASE t = s
    <3> DEFINE c == [msg |-> handler[s].msg, via |-> Output(s)]
    <3>1. c \in received'
      BY <1>1, <1>3, <2>1
    <3>2. c.msg = handler'[t].msg
      BY <1>3, <2>1
    <3> HIDE DEF c
    <3> QED  BY <3>1, <3>2 DEF Received
  <2>2. CASE t # s
    BY <1>2, <1>3, <2>2 DEF PassedOn, Received, IInv
  <2> QED  BY <2>1, <2>2
<1> QED  BY <1>4, <1>5, <1>6 DEF IInv

LEMMA SendsOutputKeeps ==
  ASSUME IInv, NEW s \in Filters, SendsOutput(s)
  PROVE  IInv'
<1> DEFINE c == [msg |-> handler[s].msg, via |-> Output(s),
                 count |-> 0, locked |-> FALSE]
<1>1. /\ copies' = copies \cup {c} /\ Step(s, "completing")
      /\ handler[s].step # "none"
      /\ UNCHANGED <<dead, purged, sent, received>>
  BY DEF SendsOutput
<1>2. /\ handler[s].msg \in Messages /\ handler[s].via \in Seq(Nat)
      /\ handler[s].count \in Nat /\ Len(handler[s].via) + 1 = s
  BY <1>1 DEF IInv, Shapes, Queue
<1>3. /\ c \in [msg : Messages, via : Seq(Nat), count : Nat, locked : BOOLEAN]
      /\ c.msg = handler[s].msg /\ Len(c.via) = s
  BY <1>2, AppendProperties DEF Output
<1> HIDE DEF c
<1>4. /\ handler' \in [Filters -> [step : Steps, msg : Messages \cup {NoMessage},
                                   via : Seq(Nat), count : Nat]]
      /\ \A t \in Filters \ {s} : handler'[t] = handler[t]
      /\ handler'[s].msg = handler[s].msg /\ handler'[s].via = handler[s].via
  BY <1>1, StepKeeps DEF IInv, Steps
<1>5. Shapes'
  BY <1>1, <1>3, <1>4 DEF Shapes, Queue, IInv
<1>6. NoMessageLost'
  BY <1>1 DEF NoMessageLost, Received, Somewhere, IInv
<1>7. Queue(c) > s
  BY <1>3 DEF Queue, Filters
<1>8. PassedOn'
  BY <1>1, <1>3, <1>4, <1>7 DEF PassedOn, Received, Queue, IInv
<1> QED  BY <1>5, <1>6, <1>8 DEF IInv

\* What is completed has been passed on, and what it was passed on to lies
\* further down than any copy that is completed here.
LEMMA CompletesKeeps ==
  ASSUME IInv, NEW s \in Filters, Completes(s)
  PROVE  IInv'
<1>1. /\ copies' \subseteq copies /\ copies \ Locked(s) \subseteq copies'
      /\ Ends(s) /\ handler[s].step = "completing"
      /\ UNCHANGED <<dead, purged, sent, received>>
  BY DEF Completes
<1>2. /\ handler' \in [Filters -> [step : Steps, msg : Messages \cup {NoMessage},
                                   via : Seq(Nat), count : Nat]]
      /\ \A t \in Filters :
           /\ handler'[t].step # "none" => handler'[t] = handler[t]
           /\ handler'[t].step = "completing" => handler'[t] = handler[t]
  BY <1>1, EndsKeeps DEF IInv
<1>3. Shapes'
  BY <1>1, <1>2 DEF Shapes, Queue, IInv
<1>4. \A c \in Locked(s) : /\ c \in copies /\ c.msg = handler[s].msg
                           /\ c.via = handler[s].via /\ Queue(c) = s
  BY <1>1 DEF IInv, Shapes, Locked, Name, Queue
<1>5. \/ Received(handler[s].msg) \/ handler[s].msg \in purged
      \/ \E c \in copies' \cup dead : c.msg = handler[s].msg /\ Queue(c) > s
  <2>1. s \in Nat
    BY DEF Filters
  <2> QED  BY <1>1, <1>4, <2>1 DEF IInv, PassedOn
<1>6. NoMessageLost'
  BY <1>1, <1>4, <1>5 DEF NoMessageLost, Received, Somewhere, IInv
<1>7. PassedOn'
  <2> SUFFICES ASSUME NEW t \in Filters, handler'[t].step = "completing"
               PROVE  \/ Received(handler[t].msg) \/ handler[t].msg \in purged
                      \/ \E c \in copies' \cup dead :
                           c.msg = handler[t].msg /\ Queue(c) > t
    BY <1>1, <1>2 DEF PassedOn, Received, Queue
  <2>1. CASE Received(handler[t].msg) \/ handler[t].msg \in purged
    BY <2>1
  <2>2. CASE \E c \in copies \cup dead : c.msg = handler[t].msg /\ Queue(c) > t
    <3>1. PICK c \in copies \cup dead : c.msg = handler[t].msg /\ Queue(c) > t
      BY <2>2
    <3>2. CASE c \in copies' \cup dead
      BY <3>1, <3>2
    <3>3. CASE c \in Locked(s)
      <4>1. handler[s].msg = handler[t].msg /\ s > t
        BY <1>4, <3>1, <3>3
      <4>2. s \in Nat /\ t \in Nat
        BY DEF Filters
      <4>3. \A d \in copies' \cup dead : Queue(d) > s => Queue(d) > t
        <5>1. \A d \in copies' \cup dead : Queue(d) \in Nat
          BY <1>1 DEF Queue, IInv, Shapes
        <5> QED  BY <4>1, <4>2, <5>1
      <4> QED  BY <1>5, <4>1, <4>3
    <3> QED  BY <1>1, <3>1, <3>2, <3>3
  <2> QED  BY <1>2, <2>1, <2>2 DEF IInv, PassedOn
<1> QED  BY <1>3, <1>6, <1>7 DEF IInv

\* Every step keeps the invariant.
THEOREM Inductive == IInv /\ [Next]_vars => IInv'
<1> SUFFICES ASSUME IInv, [Next]_vars PROVE IInv'
  OBVIOUS
<1>1. CASE UNCHANGED vars
  BY <1>1, StayKeeps DEF vars, queues
<1>2. ASSUME NEW c \in copies, LockExpires(c) PROVE IInv'
  BY <1>2, LockExpiresKeeps
<1>3. CASE Sender
  <2>1. CASE SenderStarts
    BY <2>1, StayKeeps DEF SenderStarts
  <2>2. CASE SenderStops
    <3>1. 1 \in Filters
      BY NumbersAssumption DEF Filters
    <3> QED  BY <2>2, <3>1, DeleteKeeps, StayKeeps DEF SenderStops, IInv
  <2>3. CASE SenderEnds
    BY <2>3, StayKeeps DEF SenderEnds, queues
  <2> QED  BY <1>3, <2>1, <2>2, <2>3 DEF Sender
<1>4. ASSUME NEW m \in Messages, Send(m) PROVE IInv'
  BY <1>4, SendKeeps
<1>5. ASSUME NEW s \in Filters, Deliver(s) PROVE IInv'
  BY <1>5, DeliverKeeps
<1>6. ASSUME NEW s \in Filters, Handles(s) PROVE IInv'
  <2>1. CASE Begins(s)
    BY <2>1, StayKeeps DEF Begins, queues, Steps
  <2>2. CASE DeadLetters(s)
    BY <2>2, DeadLettersKeeps
  <2>3. CASE FilterThrows(s)
    BY <2>3, ThrowsKeeps DEF FilterThrows
  <2>4. CASE Filtered(s)
    BY <2>4, FilteredKeeps
  <2>5. CASE SendsOutput(s)
    BY <2>5, SendsOutputKeeps
  <2>6. CASE SendFails(s)
    BY <2>6, ThrowsKeeps DEF SendFails
  <2>7. CASE Completes(s)
    BY <2>7, CompletesKeeps
  <2> QED  BY <1>6, <2>1, <2>2, <2>3, <2>4, <2>5, <2>6, <2>7 DEF Handles
<1>7. ASSUME NEW s \in Filters,
             Starts(s) \/ Pauses(s) \/ Closes(s) \/ Stops(s) \/ Crashes(s)
      PROVE  IInv'
  <2>1. CASE Starts(s)
    BY <2>1, StayKeeps DEF Starts
  <2>2. CASE Pauses(s)
    BY <2>2, StayKeeps DEF Pauses, queues
  <2>3. CASE Closes(s)
    BY <2>3, StayKeeps DEF Closes, queues
  <2>4. CASE Stops(s)
    BY <2>4, DeleteKeeps, StayKeeps DEF Stops, IInv
  <2>5. CASE Crashes(s)
    BY <2>5, StayKeeps DEF Crashes, queues
  <2> QED  BY <1>7, <2>1, <2>2, <2>3, <2>4, <2>5
<1> QED  BY <1>1, <1>2, <1>3, <1>4, <1>5, <1>6, <1>7 DEF Next

\* A message that was sent is in a queue or a dead-letter queue, has been
\* received, or was in a queue that was deleted.
THEOREM NothingIsLost == Spec => []NoMessageLost
<1>1. IInv => NoMessageLost
  BY DEF IInv
<1> QED  BY InitIInv, Inductive, <1>1, PTL DEF Spec

----------------------------------------------------------------------------
(* Type correctness: first the queues, then the handlers, then the rest of *)
(* the ranges; that a name is that of one copy follows in the next part.   *)

LEMMA ViasFacts ==
  /\ <<>> \in Vias /\ Len(<<>>) = 0
  /\ \A v \in Vias : Len(v) \in Nat /\ DOMAIN v = 1..Len(v)
  /\ \A v \in Vias, k \in Counts :
       /\ Append(v, k) \in Vias
       /\ Len(Append(v, k)) = Len(v) + 1
       /\ \A n \in 1..Len(v) : Append(v, k)[n] = v[n]
       /\ Append(v, k)[Len(v) + 1] = k
<1>1. <<>> \in Seq(Counts) /\ Len(<<>>) = 0
  BY EmptySeq
<1>2. \A v \in Seq(Counts) : Len(v) \in Nat /\ DOMAIN v = 1..Len(v)
  BY LenProperties
<1>3. \A v \in Seq(Counts), k \in Counts :
        /\ Append(v, k) \in Seq(Counts)
        /\ Len(Append(v, k)) = Len(v) + 1
        /\ \A n \in 1..Len(v) : Append(v, k)[n] = v[n]
        /\ Append(v, k)[Len(v) + 1] = k
  BY AppendProperties
<1> QED  BY <1>1, <1>2, <1>3 DEF Vias

\* A path is given by its numbers.
LEMMA SameVias ==
  ASSUME NEW v \in Vias, NEW w \in Vias, Len(v) = Len(w),
         \A n \in 1..Len(v) : v[n] = w[n]
  PROVE  v = w
BY SeqEqual DEF Vias

LEMMA LimitFacts ==
  /\ MaxDeliveries \in Nat
  /\ SenderLimit \in 1..MaxDeliveries /\ DefaultLimit \in 1..MaxDeliveries
  /\ 0 \in Counts
BY NumbersAssumption DEF MaxDeliveries, Counts

QueuesOK ==
  /\ limit \in [Filters -> {0, SenderLimit, DefaultLimit}]
  /\ copies \subseteq [msg : sent, via : Vias, count : Counts, locked : BOOLEAN]
  /\ dead \subseteq [msg : sent, via : Vias]
  /\ \A c \in copies : /\ Queue(c) \in Filters /\ limit[Queue(c)] > 0
                       /\ c.count <= limit[Queue(c)]
                       /\ ~c.locked => c.count < limit[Queue(c)]
  /\ \A c \in dead : Queue(c) \in Filters

HandlersOK ==
  /\ role \in [Filters -> {"down", "up", "pausing", "closed"}]
  /\ handler \in [Filters ->
       [step : Steps, msg : sent \cup {NoMessage}, via : Vias, count : Counts]]
  /\ \A s \in Filters :
       \/ handler[s] = Idle
       \/ /\ handler[s].msg \in sent /\ Queue(handler[s]) = s
          /\ handler[s].count > 0
          /\ role[s] # "down" /\ handler[s].step # "none"
          /\ handler[s].step = "sending" => s # N

RestOK ==
  /\ received \subseteq [msg : sent, via : Vias]
  /\ \A c \in received : Len(c.via) = N
  /\ sender \in {"down", "up", "stopping"}
  /\ sent \subseteq Messages /\ purged \subseteq sent
  /\ faults \in 0..MaxFaults /\ stops \in 0..MaxStops

Unique == \A c, d \in copies : Name(c) = Name(d) => c = d

LEMMA TypeParts ==
  TypeOK /\ LimitInv <=> QueuesOK /\ HandlersOK /\ RestOK /\ Unique
<1>1. Idle.step # "sending"
  BY DEF Idle
<1> QED
  BY <1>1, Zenon
  DEF TypeOK, LimitInv, QueuesOK, HandlersOK, RestOK, Unique, QueueExists

\* A limit that a copy may have reached is one of the numbers that are counted.
LEMMA LimitsCounted ==
  ASSUME QueuesOK, NEW q \in Filters
  PROVE  limit[q] \in Nat /\ limit[q] <= MaxDeliveries
BY LimitFacts DEF QueuesOK

\* Copies only vanish, or are dead-lettered.
LEMMA QueuesShrink ==
  ASSUME QueuesOK, sent \subseteq sent', UNCHANGED limit, copies' \subseteq copies,
         \A d \in dead' : d \in dead \/ \E c \in copies : d = Name(c)
  PROVE  QueuesOK'
<1>1. \A c \in copies : /\ Name(c) \in [msg : sent', via : Vias]
                        /\ Queue(Name(c)) = Queue(c)
  BY DEF Name, Queue, QueuesOK
<1> QED
  BY <1>1, Zenon DEF QueuesOK, Queue

LEMMA QueuesUnlock ==
  ASSUME QueuesOK, NEW c \in copies, Unlock(c), UNCHANGED <<limit, sent>>
  PROVE  QueuesOK'
<1> DEFINE u == [c EXCEPT !.locked = FALSE]
<1>1. /\ u \in [msg : sent, via : Vias, count : Counts, locked : BOOLEAN]
      /\ u.msg = c.msg /\ u.via = c.via /\ u.count = c.count /\ u.locked = FALSE
  BY DEF QueuesOK
<1> HIDE DEF u
<1>2. CASE copies' = (copies \ {c}) \cup {u} /\ dead' = dead
           /\ c.count < limit[Queue(c)]
  <2>1. Queue(u) = Queue(c)
    BY <1>1 DEF Queue
  <2>2. /\ copies' \subseteq [msg : sent, via : Vias, count : Counts,
                              locked : BOOLEAN]
        /\ \A d \in copies' : /\ Queue(d) \in Filters /\ limit[Queue(d)] > 0
                              /\ d.count <= limit[Queue(d)]
                              /\ ~d.locked => d.count < limit[Queue(d)]
    BY <1>1, <1>2, <2>1 DEF QueuesOK
  <2> QED  BY <1>2, <2>2, Zenon DEF QueuesOK, Queue
<1>3. CASE copies' = copies \ {c} /\ dead' = dead \cup {Name(c)}
  BY <1>3, QueuesShrink
<1> QED  BY <1>2, <1>3 DEF Unlock, u

LEMMA QueuesDelete ==
  ASSUME QueuesOK, NEW q \in Filters, DeleteQueue(q), UNCHANGED sent
  PROVE  QueuesOK'
<1>1. /\ limit' \in [Filters -> {0, SenderLimit, DefaultLimit}]
      /\ \A r \in Filters \ {q} : limit'[r] = limit[r]
  BY DEF DeleteQueue, QueuesOK
<1>2. /\ copies' \subseteq copies /\ \A c \in copies' : Queue(c) # q
      /\ dead' \subseteq dead
  BY DEF DeleteQueue
<1>3. \A c \in copies' : limit'[Queue(c)] = limit[Queue(c)]
  BY <1>1, <1>2 DEF QueuesOK
<1> QED  BY <1>1, <1>2, <1>3 DEF QueuesOK, Queue

\* Creating a queue leaves those alone that exist.
LEMMA QueuesCreate ==
  ASSUME QueuesOK, UNCHANGED <<copies, dead, sent>>,
         limit' \in [Filters -> {0, SenderLimit, DefaultLimit}],
         \A q \in Filters : limit[q] > 0 => limit'[q] = limit[q]
  PROVE  QueuesOK'
BY DEF QueuesOK, Queue

\* A new copy.
LEMMA QueuesAdd ==
  ASSUME QueuesOK, sent \subseteq sent', UNCHANGED <<limit, dead>>,
         NEW m \in sent', NEW v \in Vias, Len(v) + 1 \in Filters,
         limit[Len(v) + 1] > 0,
         copies' = copies \cup {[msg |-> m, via |-> v, count |-> 0, locked |-> FALSE]}
  PROVE  QueuesOK'
<1> DEFINE c == [msg |-> m, via |-> v, count |-> 0, locked |-> FALSE]
<1>1. /\ c \in [msg : sent', via : Vias, count : Counts, locked : BOOLEAN]
      /\ Queue(c) = Len(v) + 1 /\ c.count = 0
  BY LimitFacts DEF Queue
<1> HIDE DEF c
<1>2. copies' = copies \cup {c}
  BY DEF c
<1>3. \A d \in copies' : /\ d \in [msg : sent', via : Vias, count : Counts,
                                   locked : BOOLEAN]
                         /\ Queue(d) \in Filters /\ limit[Queue(d)] > 0
                         /\ d.count <= limit[Queue(d)]
                         /\ ~d.locked => d.count < limit[Queue(d)]
  <2> SUFFICES ASSUME NEW d \in copies'
               PROVE  /\ d \in [msg : sent', via : Vias, count : Counts,
                                locked : BOOLEAN]
                      /\ Queue(d) \in Filters /\ limit[Queue(d)] > 0
                      /\ d.count <= limit[Queue(d)]
                      /\ ~d.locked => d.count < limit[Queue(d)]
    OBVIOUS
  <2>1. CASE d \in copies
    BY <2>1 DEF QueuesOK
  <2>2. CASE d = c
    <3>1. 0 <= limit[Len(v) + 1]
      BY LimitsCounted
    <3> QED  BY <1>1, <2>2, <3>1
  <2> QED  BY <1>2, <2>1, <2>2
<1>4. dead' \subseteq [msg : sent', via : Vias]
  BY DEF QueuesOK
<1> QED
  BY <1>3, <1>4 DEF QueuesOK, Queue

LEMMA QueuesDeliver ==
  ASSUME QueuesOK, NEW s \in Filters, Deliver(s)
  PROVE  QueuesOK'
<1>1. PICK c \in copies :
        Queue(c) = s /\ ~c.locked /\ copies' = (copies \ {c}) \cup {Lock(c)}
  BY DEF Deliver
<1>2. UNCHANGED <<limit, dead, sent>>
  BY DEF Deliver
<1>3. c.count + 1 <= limit[s] /\ c.count + 1 \in Counts
  BY <1>1, LimitsCounted, LimitFacts DEF QueuesOK, Counts
<1> DEFINE d == Lock(c)
<1>4. /\ d \in [msg : sent, via : Vias, count : Counts, locked : BOOLEAN]
      /\ Queue(d) = s /\ d.count = c.count + 1 /\ d.locked
  BY <1>1, <1>3 DEF Lock, Queue, QueuesOK
<1> HIDE DEF d
<1>5. copies' = (copies \ {c}) \cup {d}
  BY <1>1 DEF d
<1>6. /\ copies' \subseteq [msg : sent, via : Vias, count : Counts,
                            locked : BOOLEAN]
      /\ \A e \in copies' : /\ Queue(e) \in Filters /\ limit[Queue(e)] > 0
                            /\ e.count <= limit[Queue(e)]
                            /\ ~e.locked => e.count < limit[Queue(e)]
  BY <1>1, <1>3, <1>4, <1>5 DEF QueuesOK
<1> QED  BY <1>2, <1>6, Zenon DEF QueuesOK, Queue

LEMMA QueuesThrow ==
  ASSUME QueuesOK, NEW s \in Filters, Throws(s), UNCHANGED <<limit, sent>>
  PROVE  QueuesOK'
<1>1. CASE UNCHANGED <<copies, dead>>
  BY <1>1, QueuesShrink
<1>2. CASE \E c \in Locked(s) : Unlock(c)
  BY <1>2, QueuesUnlock DEF Locked
<1> QED  BY <1>1, <1>2 DEF Throws

LEMMA QueuesStep ==
  ASSUME QueuesOK, HandlersOK, [Next]_vars
  PROVE  QueuesOK'
<1>1. ASSUME UNCHANGED <<limit, copies, dead, sent>> PROVE QueuesOK'
  BY <1>1, QueuesShrink
<1>2. ASSUME NEW c \in copies, LockExpires(c) PROVE QueuesOK'
  BY <1>2, QueuesUnlock DEF LockExpires
<1>3. CASE Sender
  <2>1. 1 \in Filters
    BY NumbersAssumption DEF Filters
  <2>2. CASE SenderStarts
    <3>1. limit' \in [Filters -> {0, SenderLimit, DefaultLimit}]
          /\ \A q \in Filters : limit[q] > 0 => limit'[q] = limit[q]
      BY <2>2 DEF SenderStarts, QueuesOK
    <3> QED  BY <2>2, <3>1, QueuesCreate DEF SenderStarts
  <2>3. CASE SenderStops
    BY <2>1, <2>3, QueuesDelete DEF SenderStops
  <2>4. CASE SenderEnds
    BY <2>4, <1>1 DEF SenderEnds, queues
  <2> QED  BY <1>3, <2>2, <2>3, <2>4 DEF Sender
<1>4. ASSUME NEW m \in Messages, Send(m) PROVE QueuesOK'
  <2>1. /\ m \in sent' /\ sent \subseteq sent' /\ UNCHANGED <<limit, dead>>
        /\ limit[1] > 0
        /\ copies' = copies \cup
                     {[msg |-> m, via |-> <<>>, count |-> 0, locked |-> FALSE]}
    BY <1>4 DEF Send, QueueExists
  <2>2. <<>> \in Vias /\ Len(<<>>) + 1 = 1 /\ 1 \in Filters
    BY ViasFacts, NumbersAssumption DEF Filters
  <2> QED  BY <2>1, <2>2, QueuesAdd
<1>5. ASSUME NEW s \in Filters, Deliver(s) PROVE QueuesOK'
  BY <1>5, QueuesDeliver
<1>6. ASSUME NEW s \in Filters, Handles(s) PROVE QueuesOK'
  <2>1. CASE Begins(s) \/ Filtered(s)
    BY <2>1, <1>1 DEF Begins, Filtered, queues
  <2>2. CASE DeadLetters(s)
    <3>1. /\ copies' \subseteq copies /\ UNCHANGED <<limit, sent>>
          /\ \A d \in dead' : d \in dead \/ \E c \in copies : d = Name(c)
      BY <2>2 DEF DeadLetters, Locked
    <3> QED  BY <3>1, QueuesShrink
  <2>3. CASE FilterThrows(s)
    BY <2>3, QueuesThrow DEF FilterThrows
  <2>4. CASE SendFails(s)
    BY <2>4, QueuesThrow DEF SendFails
  <2>5. CASE SendsOutput(s)
    <3>1. /\ handler[s].msg \in sent /\ handler[s].via \in Vias
          /\ handler[s].count \in Counts /\ Len(handler[s].via) + 1 = s /\ s # N
      BY <2>5 DEF SendsOutput, HandlersOK, Queue, Idle
    <3>2. Output(s) \in Vias /\ Len(Output(s)) = s
      BY <3>1, ViasFacts DEF Output
    <3>3. s + 1 \in Filters
      BY <3>1, NumbersAssumption DEF Filters
    <3>4. /\ limit[s + 1] > 0 /\ UNCHANGED <<limit, dead, sent>>
          /\ copies' = copies \cup {[msg |-> handler[s].msg, via |-> Output(s),
                                     count |-> 0, locked |-> FALSE]}
      BY <2>5 DEF SendsOutput, QueueExists
    <3> QED  BY <3>1, <3>2, <3>3, <3>4, QueuesAdd
  <2>6. CASE Completes(s)
    <3>1. copies' \subseteq copies /\ UNCHANGED <<limit, sent, dead>>
      BY <2>6 DEF Completes
    <3> QED  BY <3>1, QueuesShrink
  <2> QED  BY <1>6, <2>1, <2>2, <2>3, <2>4, <2>5, <2>6 DEF Handles
<1>7. ASSUME NEW s \in Filters,
             Starts(s) \/ Pauses(s) \/ Closes(s) \/ Stops(s) \/ Crashes(s)
      PROVE  QueuesOK'
  <2>1. CASE Starts(s)
    <3>1. PICK created \in SUBSET {q \in {s, s + 1} \cap Filters : ~QueueExists(q)} :
            limit' = [q \in Filters |->
                        IF q \in created THEN DefaultLimit ELSE limit[q]]
      BY <2>1 DEF Starts
    <3>2. /\ limit' \in [Filters -> {0, SenderLimit, DefaultLimit}]
          /\ \A q \in Filters : limit[q] > 0 => limit'[q] = limit[q]
      BY <3>1 DEF QueuesOK, QueueExists
    <3> QED  BY <2>1, <3>2, QueuesCreate DEF Starts
  <2>2. CASE Pauses(s) \/ Closes(s) \/ Crashes(s)
    BY <2>2, <1>1 DEF Pauses, Closes, Crashes, queues
  <2>3. CASE Stops(s)
    BY <2>3, QueuesDelete DEF Stops
  <2> QED  BY <1>7, <2>1, <2>2, <2>3
<1>8. CASE UNCHANGED vars
  BY <1>8, <1>1 DEF vars, queues
<1> QED  BY <1>2, <1>3, <1>4, <1>5, <1>6, <1>7, <1>8 DEF Next

\* The handlers.
HandlerSet == [step : Steps, msg : sent \cup {NoMessage}, via : Vias, count : Counts]

LEMMA IdleHandler == Idle \in HandlerSet /\ Idle.step = "none"
<1>1. <<>> \in Vias /\ 0 \in Counts
  BY ViasFacts, LimitFacts
<1> QED  BY <1>1, Zenon DEF Idle, HandlerSet, Steps

\* Handlers end or stay as they are while the roles that have one stay up.
LEMMA HandlersEnd ==
  ASSUME HandlersOK, sent \subseteq sent',
         \/ UNCHANGED handler
         \/ \E s \in Filters : Ends(s),
         role' \in [Filters -> {"down", "up", "pausing", "closed"}],
         \A s \in Filters : role'[s] = "down" => role[s] = "down" \/ handler'[s] = Idle
  PROVE  HandlersOK'
<1>1. \A s \in Filters : handler'[s] \in {handler[s], Idle}
  BY DEF Ends, HandlersOK
<1>2. handler' \in [Filters -> [step : Steps, msg : sent \cup {NoMessage},
                                via : Vias, count : Counts]]
  BY IdleHandler DEF Ends, HandlersOK, HandlerSet
<1>3. handler' \in [Filters -> [step : Steps, msg : sent' \cup {NoMessage},
                                via : Vias, count : Counts]]
  BY <1>2
<1> QED  BY <1>1, <1>3 DEF HandlersOK, Queue

LEMMA HandlersGoOn ==
  ASSUME HandlersOK, NEW s \in Filters, NEW step \in Steps \ {"none"},
         handler[s].step # "none", Step(s, step), step = "sending" => s # N,
         UNCHANGED <<role, sent>>
  PROVE  HandlersOK'
<1>1. /\ handler'[s].step = step /\ handler'[s].msg = handler[s].msg
      /\ handler'[s].via = handler[s].via /\ handler'[s].count = handler[s].count
      /\ handler'[s] \in [step : Steps, msg : sent \cup {NoMessage}, via : Vias,
                          count : Counts]
      /\ \A t \in Filters \ {s} : handler'[t] = handler[t]
      /\ handler' \in [Filters -> [step : Steps, msg : sent \cup {NoMessage},
                                   via : Vias, count : Counts]]
  BY DEF Step, HandlersOK
<1>2. handler[s] # Idle
  BY IdleHandler
<1> QED  BY <1>1, <1>2 DEF HandlersOK, Queue

LEMMA HandlersStep ==
  ASSUME QueuesOK, HandlersOK, [Next]_vars
  PROVE  HandlersOK'
<1>1. ASSUME UNCHANGED <<role, handler>>, sent \subseteq sent' PROVE HandlersOK'
  BY <1>1, HandlersEnd DEF HandlersOK
<1>2. ASSUME NEW s \in Filters, Ends(s), UNCHANGED <<role, sent>>
      PROVE  HandlersOK'
  BY <1>2, HandlersEnd DEF HandlersOK
<1>3. ASSUME NEW c \in copies, LockExpires(c) PROVE HandlersOK'
  BY <1>3, <1>1 DEF LockExpires
<1>4. CASE Sender
  BY <1>4, <1>1 DEF Sender, SenderStarts, SenderStops, SenderEnds
<1>5. ASSUME NEW m \in Messages, Send(m) PROVE HandlersOK'
  BY <1>5, <1>1 DEF Send
<1>6. ASSUME NEW s \in Filters, Deliver(s) PROVE HandlersOK'
  <2>1. PICK c \in copies :
          /\ Queue(c) = s /\ ~c.locked
          /\ handler' = [handler EXCEPT ![s] = [step |-> "received",
                           msg |-> c.msg, via |-> c.via, count |-> c.count + 1]]
    BY <1>6 DEF Deliver
  <2>2. UNCHANGED <<role, sent>> /\ role[s] # "down"
    BY <1>6 DEF Deliver
  <2>3. c.count + 1 \in Counts /\ c.count + 1 > 0
    BY <2>1, LimitsCounted, LimitFacts DEF QueuesOK, Counts
  <2> DEFINE h == [step |-> "received", msg |-> c.msg, via |-> c.via,
                   count |-> c.count + 1]
  <2>4. /\ h \in [step : Steps, msg : sent \cup {NoMessage}, via : Vias,
                  count : Counts]
        /\ h.msg \in sent /\ Queue(h) = s /\ h.count > 0 /\ h.step = "received"
    BY <2>1, <2>3 DEF QueuesOK, Steps, Queue
  <2> HIDE DEF h
  <2>5. handler' = [handler EXCEPT ![s] = h]
    BY <2>1 DEF h
  <2> QED  BY <2>2, <2>4, <2>5 DEF HandlersOK, Queue
<1>7. ASSUME NEW s \in Filters, Handles(s) PROVE HandlersOK'
  <2>1. CASE Begins(s)
    BY <2>1, HandlersGoOn DEF Begins, Steps
  <2>2. CASE Filtered(s)
    BY <2>2, HandlersGoOn DEF Filtered, Steps
  <2>3. CASE SendsOutput(s)
    BY <2>3, HandlersGoOn DEF SendsOutput, Steps
  <2>4. CASE DeadLetters(s) \/ Completes(s) \/ FilterThrows(s) \/ SendFails(s)
    BY <2>4, <1>2 DEF DeadLetters, Completes, FilterThrows, SendFails, Throws
  <2> QED  BY <1>7, <2>1, <2>2, <2>3, <2>4 DEF Handles
<1>8. ASSUME NEW s \in Filters,
             Starts(s) \/ Pauses(s) \/ Closes(s) \/ Stops(s) \/ Crashes(s)
      PROVE  HandlersOK'
  <2>1. CASE Starts(s) \/ Pauses(s) \/ Closes(s)
    <3>1. /\ UNCHANGED <<handler, sent>>
          /\ role' \in [Filters -> {"down", "up", "pausing", "closed"}]
          /\ \A t \in Filters : role'[t] = "down" => role[t] = "down"
      BY <2>1 DEF Starts, Pauses, Closes, HandlersOK
    <3> QED  BY <3>1, HandlersEnd
  <2>2. CASE Stops(s) \/ Crashes(s)
    <3>1. /\ Ends(s) /\ UNCHANGED sent /\ handler'[s] = Idle
          /\ role' \in [Filters -> {"down", "up", "pausing", "closed"}]
          /\ \A t \in Filters : role'[t] = "down" => role[t] = "down" \/ t = s
      BY <2>2 DEF Stops, Crashes, HandlersOK, Ends
    <3> QED  BY <3>1, HandlersEnd
  <2> QED  BY <1>8, <2>1, <2>2
<1>9. CASE UNCHANGED vars
  BY <1>9, <1>1 DEF vars
<1> QED  BY <1>3, <1>4, <1>5, <1>6, <1>7, <1>8, <1>9 DEF Next

LEMMA RestStep ==
  ASSUME QueuesOK, HandlersOK, RestOK, [Next]_vars
  PROVE  RestOK'
<1> USE NumbersAssumption DEF RestOK
<1>1. ASSUME NEW c \in copies, LockExpires(c) PROVE RestOK'
  BY <1>1 DEF LockExpires, Fault
<1>2. ASSUME NEW q \in Filters, DeleteQueue(q), UNCHANGED sent
      PROVE  (purged \subseteq sent)'
  BY <1>2 DEF DeleteQueue, QueuesOK
<1>3. CASE Sender
  <2>1. CASE SenderStarts
    BY <2>1 DEF SenderStarts, Fault
  <2>2. CASE SenderStops
    <3>1. 1 \in Filters
      BY DEF Filters
    <3> QED  BY <1>2, <2>2, <3>1 DEF SenderStops
  <2>3. CASE SenderEnds
    BY <2>3 DEF SenderEnds, queues
  <2> QED  BY <1>3, <2>1, <2>2, <2>3 DEF Sender
<1>4. ASSUME NEW m \in Messages, Send(m) PROVE RestOK'
  BY <1>4 DEF Send
<1>5. ASSUME NEW s \in Filters, Deliver(s) PROVE RestOK'
  BY <1>5 DEF Deliver
<1>6. ASSUME NEW s \in Filters, Handles(s) PROVE RestOK'
  <2>1. CASE Begins(s)
    BY <2>1 DEF Begins, queues
  <2>2. CASE Filtered(s)
    <3>1. /\ handler[s].msg \in sent /\ handler[s].via \in Vias
          /\ handler[s].count \in Counts /\ Len(handler[s].via) + 1 = s
      BY <2>2 DEF Filtered, HandlersOK, Queue, Idle
    <3>2. Output(s) \in Vias /\ Len(Output(s)) = s
      BY <3>1, ViasFacts DEF Output
    <3> DEFINE x == [msg |-> handler[s].msg, via |-> Output(s)]
    <3>3. x \in [msg : sent, via : Vias] /\ Len(x.via) = s
      BY <3>1, <3>2
    <3> HIDE DEF x
    <3>4. received' = IF s = N THEN received \cup {x} ELSE received
      BY <2>2 DEF Filtered, x
    <3> QED  BY <2>2, <3>3, <3>4 DEF Filtered, queues
  <2>3. CASE DeadLetters(s) \/ FilterThrows(s) \/ SendsOutput(s) \/ Completes(s)
    BY <2>3 DEF DeadLetters, FilterThrows, SendsOutput, Completes
  <2>4. CASE SendFails(s)
    BY <2>4 DEF SendFails, Fault
  <2> QED  BY <1>6, <2>1, <2>2, <2>3, <2>4 DEF Handles
<1>7. ASSUME NEW s \in Filters,
             Starts(s) \/ Pauses(s) \/ Closes(s) \/ Stops(s) \/ Crashes(s)
      PROVE  RestOK'
  <2>1. CASE Starts(s)
    BY <2>1 DEF Starts, Fault
  <2>2. CASE Pauses(s) \/ Closes(s) \/ Crashes(s)
    BY <2>2 DEF Pauses, Closes, Crashes, queues, Fault
  <2>3. CASE Stops(s)
    BY <2>3, <1>2 DEF Stops
  <2> QED  BY <1>7, <2>1, <2>2, <2>3
<1>8. CASE UNCHANGED vars
  BY <1>8 DEF vars, queues
<1> QED  BY <1>1, <1>3, <1>4, <1>5, <1>6, <1>7, <1>8 DEF Next

----------------------------------------------------------------------------
(* A name is that of one copy. *)

Alike(x, y) == x.msg = y.msg /\ x.via = y.via

LEMMA NameAlike ==
  ASSUME NEW x, NEW y
  PROVE  Name(x) = Name(y) <=> Alike(x, y)
BY DEF Name, Alike

LEMMA FromAlike ==
  ASSUME NEW x, NEW y, NEW c, NEW d, Alike(x, y), Alike(c, d)
  PROVE  (From(x, c) <=> From(y, d)) /\ By(x, c) = By(y, d)
BY DEF Alike, From, By

\* Nothing new, and no handler that is further back than it was.
LEMMA TraceKept ==
  ASSUME TraceInv,
         \A x \in copies' \cup dead' \cup received' :
           \E y \in copies \cup dead \cup received : Alike(x, y),
         \A c \in copies' : \E d \in copies : Alike(c, d) /\ c.count = d.count,
         \A s \in Filters : handler'[s].step # "none" =>
           /\ handler[s].step # "none" /\ Alike(handler'[s], handler[s])
           /\ handler'[s].count = handler[s].count
           /\ handler[s].step = "completing" => handler'[s].step = "completing"
  PROVE  TraceInv'
<1>1. ASSUME NEW x, NEW y, Alike(x, y), Traced(y) PROVE Traced(x)'
  <2>1. ASSUME NEW c \in copies', From(x, c) PROVE By(x, c) <= c.count
    <3>1. PICK d \in copies : Alike(c, d) /\ c.count = d.count
      OBVIOUS
    <3> QED  BY <1>1, <2>1, <3>1, FromAlike DEF Traced
  <2>2. ASSUME NEW s \in Filters, handler'[s].step # "none", From(x, handler'[s])
        PROVE  \/ By(x, handler'[s]) < handler'[s].count
               \/ /\ By(x, handler'[s]) = handler'[s].count
                  /\ handler'[s].step = "completing"
    BY <1>1, <2>2, FromAlike DEF Traced, Busy
  <2> QED  BY <2>1, <2>2 DEF Traced, Busy, From, By
<1>2. \A x \in copies' \cup dead' \cup received' : Traced(x)'
  BY <1>1 DEF TraceInv
<1>3. \A s \in Filters : Busy(s)' => Traced(handler[s])'
  <2> SUFFICES ASSUME NEW s \in Filters, handler'[s].step # "none"
               PROVE  Traced(handler[s])'
    BY DEF Busy
  <2> DEFINE h == handler'[s]
  <2>1. Alike(h, handler[s]) /\ Traced(handler[s])
    BY DEF TraceInv, Busy
  <2>2. Traced(handler[s])' <=> /\ \A c \in copies' : From(h, c) => By(h, c) <= c.count
          /\ \A t \in Filters : Busy(t)' /\ From(h, handler'[t]) =>
               \/ By(h, handler'[t]) < handler'[t].count
               \/ By(h, handler'[t]) = handler'[t].count /\ handler'[t].step = "completing"
    BY DEF Traced, From, By
  <2>3. ASSUME NEW c \in copies', From(h, c) PROVE By(h, c) <= c.count
    <3>1. PICK d \in copies : Alike(c, d) /\ c.count = d.count
      OBVIOUS
    <3> QED  BY <2>1, <2>3, <3>1, FromAlike DEF Traced
  <2>4. ASSUME NEW t \in Filters, handler'[t].step # "none", From(h, handler'[t])
        PROVE  \/ By(h, handler'[t]) < handler'[t].count
               \/ /\ By(h, handler'[t]) = handler'[t].count
                  /\ handler'[t].step = "completing"
    BY <2>1, <2>4, FromAlike DEF Traced, Busy
  <2> QED  BY <2>2, <2>3, <2>4 DEF Busy
<1>4. \A c \in copies', s \in Filters :
        handler'[s].step # "none" /\ Alike(c, handler'[s]) =>
          c.count = handler'[s].count
  BY NameAlike DEF TraceInv, Busy, Alike
<1>5. (\A c \in copies, s \in Filters :
         Busy(s) /\ Name(c) = Name(handler[s]) => c.count = handler[s].count)'
  BY <1>4, NameAlike DEF Busy, Name, Alike
<1> QED  BY <1>2, <1>3, <1>5 DEF TraceInv

\* The steps that only take copies away, or move them to the dead letters.
LEMMA NamesShrink ==
  ASSUME HandlersOK, TraceInv, Unique,
         copies' \subseteq copies, received' = received,
         \A d \in dead' : d \in dead \/ \E c \in copies : d = Name(c),
         \/ UNCHANGED handler
         \/ \E s \in Filters : Ends(s)
         \/ \E s \in Filters, step \in Steps \ {"none"} :
              handler[s].step \notin {"none", "completing"} /\ Step(s, step)
  PROVE  TraceInv' /\ Unique'
<1>1. \A c \in copies : Alike(Name(c), c)
  BY DEF Name, Alike
<1>2. \A x \in copies' \cup dead' \cup received' :
        \E y \in copies \cup dead \cup received : Alike(x, y)
  BY <1>1 DEF Alike
<1>3. \A c \in copies' : \E d \in copies : Alike(c, d) /\ c.count = d.count
  BY DEF Alike
<1>4. \A s \in Filters : handler'[s].step # "none" =>
        /\ handler[s].step # "none" /\ Alike(handler'[s], handler[s])
        /\ handler'[s].count = handler[s].count
        /\ handler[s].step = "completing" => handler'[s].step = "completing"
  <2>1. CASE UNCHANGED handler
    BY <2>1 DEF Alike
  <2>2. ASSUME NEW t \in Filters, Ends(t) PROVE <1>4
    BY <2>2, IdleHandler DEF Ends, HandlersOK, Alike
  <2>3. ASSUME NEW t \in Filters, NEW step \in Steps \ {"none"},
               handler[t].step \notin {"none", "completing"}, Step(t, step)
        PROVE  <1>4
    BY <2>3 DEF Step, HandlersOK, Alike
  <2> QED  BY <2>1, <2>2, <2>3
<1>5. Unique'
  BY DEF Unique, Name
<1> QED  BY <1>2, <1>3, <1>4, <1>5, TraceKept

LEMMA NamesUnlock ==
  ASSUME QueuesOK, HandlersOK, TraceInv, Unique, received' = received,
         UNCHANGED handler \/ \E s \in Filters : Ends(s),
         NEW c \in copies, Unlock(c)
  PROVE  TraceInv' /\ Unique'
<1> DEFINE u == [c EXCEPT !.locked = FALSE]
<1>1. Alike(u, c) /\ u.count = c.count
  BY DEF QueuesOK, Alike
<1> HIDE DEF u
<1>2. CASE copies' = (copies \ {c}) \cup {u} /\ dead' = dead
  <2>1. \A d \in copies' : \E e \in copies : Alike(d, e) /\ d.count = e.count
    BY <1>1, <1>2 DEF Alike
  <2>2. \A x \in copies' \cup dead' \cup received' :
          \E y \in copies \cup dead \cup received : Alike(x, y)
    BY <1>2, <2>1 DEF Alike
  <2>3. \A s \in Filters : handler'[s].step # "none" =>
          /\ handler[s].step # "none" /\ Alike(handler'[s], handler[s])
          /\ handler'[s].count = handler[s].count
          /\ handler[s].step = "completing" => handler'[s].step = "completing"
    BY IdleHandler DEF Ends, HandlersOK, Alike
  <2>4. Unique'
    <3> SUFFICES ASSUME NEW d \in copies', NEW e \in copies', Alike(d, e)
                 PROVE  d = e
      BY NameAlike DEF Unique, Name, Alike
    <3>1. \A x \in copies, y \in copies : Alike(x, y) => x = y
      BY NameAlike DEF Unique
    <3>2. \A x \in copies : Alike(x, u) => x = c
      BY <1>1, <3>1 DEF Alike
    <3> QED  BY <1>2, <3>1, <3>2 DEF Alike
  <2> QED  BY <2>1, <2>2, <2>3, <2>4, TraceKept
<1>3. CASE copies' = copies \ {c} /\ dead' = dead \cup {Name(c)}
  BY <1>3, NamesShrink
<1> QED  BY <1>2, <1>3 DEF Unlock, u

LEMMA NamesThrow ==
  ASSUME QueuesOK, HandlersOK, TraceInv, Unique, received' = received,
         NEW s \in Filters, Throws(s)
  PROVE  TraceInv' /\ Unique'
<1>1. CASE UNCHANGED <<copies, dead>>
  BY <1>1, NamesShrink DEF Throws
<1>2. CASE \E c \in Locked(s) : Unlock(c)
  BY <1>2, NamesUnlock DEF Throws, Locked
<1> QED  BY <1>1, <1>2 DEF Throws

\* A message is sent into the pipeline: nothing has come of it yet.
LEMMA NamesSend ==
  ASSUME QueuesOK, HandlersOK, RestOK, TraceInv, Unique,
         NEW m \in Messages, Send(m)
  PROVE  TraceInv' /\ Unique'
<1> DEFINE r == [msg |-> m, via |-> <<>>, count |-> 0, locked |-> FALSE]
<1>1. r.msg = m /\ Len(r.via) = 0
  BY EmptySeq
<1>2. /\ copies' = copies \cup {r} /\ m \notin sent
      /\ UNCHANGED <<dead, received, handler>>
  BY DEF Send
<1> HIDE DEF r
<1>3. \A y \in copies \cup dead \cup received : y.msg # m
  BY <1>2 DEF QueuesOK, RestOK
<1>4. \A s \in Filters : Busy(s) => handler[s].msg # m
  BY <1>2, IdleHandler DEF HandlersOK, Busy
<1>5. \A y \in copies \cup dead \cup received : ~From(y, r) /\ ~From(r, y)
  BY <1>1, <1>3 DEF From
<1>6. \A s \in Filters : Busy(s) => ~From(handler[s], r) /\ ~From(r, handler[s])
  BY <1>1, <1>4 DEF From
<1>7. ~From(r, r)
  BY <1>1 DEF From
<1>8. \A x \in copies' \cup dead' \cup received' : Traced(x)'
  BY <1>2, <1>5, <1>6, <1>7 DEF TraceInv, Traced, Busy, From, By
<1>9. \A s \in Filters : Busy(s)' => Traced(handler[s])'
  BY <1>2, <1>6 DEF TraceInv, Traced, Busy, From, By
<1>10. (\A c \in copies, s \in Filters :
          Busy(s) /\ Name(c) = Name(handler[s]) => c.count = handler[s].count)'
  BY <1>1, <1>2, <1>4, NameAlike DEF TraceInv, Busy, Name, Alike
<1>11. Unique'
  BY <1>1, <1>2, <1>3 DEF Unique, Name
<1> QED  BY <1>8, <1>9, <1>10, <1>11 DEF TraceInv

LEMMA ByNumber ==
  ASSUME NEW x, NEW c, x.via \in Vias, c.via \in Vias, From(x, c)
  PROVE  By(x, c) \in Nat
<1>1. Len(c.via) \in Nat /\ Len(x.via) \in Nat /\ Len(c.via) < Len(x.via)
  BY ViasFacts DEF From
<1>2. Len(c.via) + 1 \in 1..Len(x.via)
  BY <1>1
<1>3. \A v \in Seq(Counts) : \A n \in 1..Len(v) : v[n] \in Counts
  BY ElementOfSeq
<1>4. x.via[Len(c.via) + 1] \in Counts
  BY <1>2, <1>3 DEF Vias
<1> QED  BY <1>4 DEF By, Counts

LEMMA ThingsVias ==
  ASSUME QueuesOK, HandlersOK, RestOK
  PROVE  /\ \A x \in copies \cup dead \cup received : x.via \in Vias
         /\ \A s \in Filters : handler[s].via \in Vias /\ handler[s].count \in Nat
         /\ \A c \in copies : c.count \in Nat
BY LimitFacts DEF QueuesOK, HandlersOK, RestOK, Counts

\* A delivery is one more than any by which something has come.
LEMMA NamesDeliver ==
  ASSUME QueuesOK, HandlersOK, RestOK, TraceInv, Unique,
         NEW s \in Filters, Deliver(s)
  PROVE  TraceInv' /\ Unique'
<1>1. PICK c \in copies :
        /\ Queue(c) = s /\ copies' = (copies \ {c}) \cup {Lock(c)}
        /\ handler' = [handler EXCEPT ![s] = [step |-> "received",
                         msg |-> c.msg, via |-> c.via, count |-> c.count + 1]]
  BY DEF Deliver
<1>2. UNCHANGED <<dead, received>>
  BY DEF Deliver
<1> DEFINE d == Lock(c)
           h == [step |-> "received", msg |-> c.msg, via |-> c.via,
                 count |-> c.count + 1]
<1>3. /\ Alike(d, c) /\ d.count = c.count + 1
      /\ Alike(h, c) /\ h.count = c.count + 1 /\ h.step = "received"
  BY DEF Lock, Alike
<1>4. /\ copies' = (copies \ {c}) \cup {d}
      /\ handler'[s] = h /\ \A t \in Filters \ {s} : handler'[t] = handler[t]
  BY <1>1 DEF HandlersOK
<1> HIDE DEF d, h
<1>5. /\ \A x \in copies \cup dead \cup received : x.via \in Vias
      /\ \A t \in Filters : handler[t].via \in Vias
      /\ c.count \in Nat
  BY ThingsVias
<1>6. ASSUME NEW x, x.via \in Vias, Traced(x)
      PROVE  /\ \A e \in copies' : From(x, e) => By(x, e) <= e.count
             /\ \A t \in Filters :
                  handler'[t].step # "none" /\ From(x, handler'[t]) =>
                    \/ By(x, handler'[t]) < handler'[t].count
                    \/ /\ By(x, handler'[t]) = handler'[t].count
                       /\ handler'[t].step = "completing"
  <2>1. From(x, c) => By(x, c) \in Nat /\ By(x, c) <= c.count
    BY <1>5, <1>6, ByNumber DEF Traced
  <2>2. From(x, c) => By(x, c) <= c.count + 1 /\ By(x, c) < c.count + 1
    BY <1>5, <2>1
  <2>3. /\ From(x, d) <=> From(x, c)
        /\ From(x, h) <=> From(x, c)
        /\ By(x, d) = By(x, c) /\ By(x, h) = By(x, c)
    BY <1>3 DEF From, By, Alike
  <2>4. ASSUME NEW e \in copies', From(x, e) PROVE By(x, e) <= e.count
    BY <1>3, <1>4, <1>6, <2>2, <2>3, <2>4 DEF Traced
  <2>5. ASSUME NEW t \in Filters, handler'[t].step # "none", From(x, handler'[t])
        PROVE  \/ By(x, handler'[t]) < handler'[t].count
               \/ /\ By(x, handler'[t]) = handler'[t].count
                  /\ handler'[t].step = "completing"
    <3>1. CASE t # s
      BY <1>4, <1>6, <2>5, <3>1 DEF Traced, Busy
    <3>2. CASE t = s
      BY <1>3, <1>4, <2>2, <2>3, <2>5, <3>2
    <3> QED  BY <3>1, <3>2
  <2> QED  BY <2>4, <2>5
<1>7. \A x \in copies' \cup dead' \cup received' : Traced(x)'
  <2> SUFFICES ASSUME NEW x \in copies' \cup dead' \cup received'
               PROVE  Traced(x)'
    OBVIOUS
  <2>1. CASE x \in copies \cup dead \cup received
    BY <1>5, <1>6, <2>1 DEF TraceInv, Traced, Busy, From, By
  <2>2. CASE x = d
    <3>1. Traced(c) /\ c.via \in Vias
      BY <1>5 DEF TraceInv
    <3>2. Traced(d) /\ d.via \in Vias
      BY <1>3, <3>1 DEF Traced, From, By, Alike
    <3> QED  BY <1>6, <2>2, <3>2 DEF Traced, Busy, From, By
  <2> QED  BY <1>2, <1>4, <2>1, <2>2
<1>8. \A t \in Filters : Busy(t)' => Traced(handler[t])'
  <2> SUFFICES ASSUME NEW t \in Filters, handler'[t].step # "none"
               PROVE  Traced(handler[t])'
    BY DEF Busy
  <2>1. CASE t # s
    <3> DEFINE g == handler[t]
    <3>1. handler'[t] = g /\ g.step # "none"
      BY <1>4, <2>1
    <3>2. Traced(g) /\ g.via \in Vias
      BY <1>5, <3>1 DEF TraceInv, Busy
    <3> HIDE DEF g
    <3> QED  BY <1>6, <3>1, <3>2 DEF Traced, Busy, From, By
  <2>2. CASE t = s
    <3>1. Traced(c) /\ c.via \in Vias
      BY <1>5 DEF TraceInv
    <3>2. Traced(h) /\ h.via \in Vias
      BY <1>3, <3>1 DEF Traced, From, By, Alike
    <3> QED  BY <1>4, <1>6, <2>2, <3>2 DEF Traced, Busy, From, By
  <2> QED  BY <2>1, <2>2
<1>9. \A x \in copies, y \in copies : Alike(x, y) => x = y
  BY NameAlike DEF Unique
<1>10. \A x \in copies : Alike(x, d) => x = c
  BY <1>3, <1>9 DEF Alike
<1>11. \A e \in copies', t \in Filters :
         handler'[t].step # "none" /\ Alike(e, handler'[t]) =>
           e.count = handler'[t].count
  <2> SUFFICES ASSUME NEW e \in copies', NEW t \in Filters,
                      handler'[t].step # "none", Alike(e, handler'[t])
               PROVE  e.count = handler'[t].count
    OBVIOUS
  <2>1. CASE t = s
    <3>1. e = d
      BY <1>3, <1>4, <1>10, <2>1 DEF Alike
    <3> QED  BY <1>3, <1>4, <2>1, <3>1
  <2>2. CASE t # s
    <3>1. Queue(handler[t]) = t /\ handler'[t] = handler[t]
      BY <1>4, <2>2, IdleHandler DEF HandlersOK
    <3>2. e # d
      BY <1>1, <1>3, <2>2, <3>1 DEF Queue, Alike
    <3> QED  BY <1>4, <3>1, <3>2, NameAlike DEF TraceInv, Busy
  <2> QED  BY <2>1, <2>2
<1>12. (\A e \in copies, t \in Filters :
          Busy(t) /\ Name(e) = Name(handler[t]) => e.count = handler[t].count)'
  BY <1>11, NameAlike DEF Busy, Name, Alike
<1>13. Unique'
  <2> SUFFICES ASSUME NEW x \in copies', NEW y \in copies', Alike(x, y)
               PROVE  x = y
    BY NameAlike DEF Unique, Name, Alike
  <2> QED  BY <1>4, <1>9, <1>10 DEF Alike
<1> QED  BY <1>7, <1>8, <1>12, <1>13 DEF TraceInv

\* What a handler sends, or the final receiver takes, comes by the delivery it
\* is busy with: nothing has, until it is done.
LEMMA NamesAdd ==
  ASSUME QueuesOK, HandlersOK, RestOK, TraceInv, Unique,
         NEW s \in Filters, handler[s].step \notin {"none", "completing"},
         Step(s, "completing"),
         NEW x, x.msg = handler[s].msg, x.via = Output(s),
         \A y \in copies' \cup dead' \cup received' :
           y \in copies \cup dead \cup received \/ y = x,
         \A c \in copies' : c \in copies \/ c = x
  PROVE  TraceInv' /\ Unique'
<1> DEFINE h == handler[s]
           k == handler'[s]
<1>1. /\ handler[s].via \in Vias /\ handler[s].count \in Counts
      /\ Len(handler[s].via) + 1 = s /\ Busy(s)
  BY IdleHandler DEF HandlersOK, Queue, Busy
<1>2. /\ x.via \in Vias /\ Len(x.via) = Len(h.via) + 1
      /\ \A n \in 1..Len(h.via) : x.via[n] = h.via[n]
      /\ x.via[Len(h.via) + 1] = h.count
      /\ h.via \in Vias /\ Len(h.via) \in Nat /\ DOMAIN h.via = 1..Len(h.via)
      /\ DOMAIN x.via = 1..Len(x.via) /\ h.count \in Nat
  BY <1>1, ViasFacts DEF Output, Counts
<1>3. /\ Alike(k, h) /\ k.count = h.count /\ k.step = "completing"
      /\ x.msg = h.msg /\ h.step \notin {"none", "completing"}
      /\ \A t \in Filters \ {s} : handler'[t] = handler[t]
  BY DEF Step, HandlersOK, Alike
<1>4. Traced(h) /\ \A y \in copies \cup dead \cup received : Traced(y)
  BY <1>1 DEF TraceInv
<1>5. \A t \in Filters : /\ handler[t].step # "none" => Traced(handler[t])
                         /\ handler[t].step # "none" => Len(handler[t].via) + 1 = t
                         /\ handler[t].via \in Vias
  BY IdleHandler DEF TraceInv, Busy, HandlersOK, Queue
<1> HIDE DEF h, k
<1>6. handler[s] = h /\ handler'[s] = k
  BY DEF h, k
\* Whatever is traced has not come by that delivery.
<1>7. ASSUME NEW y, Traced(y)
      PROVE  /\ From(y, h) => By(y, h) # h.count
             /\ From(y, h) => By(y, h) < h.count
  BY <1>1, <1>2, <1>3, <1>6, <1>7 DEF Traced
<1>8. ASSUME NEW y, Traced(y), y.via \in Vias PROVE ~Alike(y, x) /\ ~From(y, x)
  <2>1. Len(y.via) \in Nat
    BY <1>8, ViasFacts
  <2>2. Alike(y, x) \/ From(y, x) => From(y, h) /\ By(y, h) = h.count
    BY <1>2, <1>3, <2>1 DEF Alike, From, By
  <2> QED  BY <1>7, <1>8, <2>2
\* What has a delivery that x came by, is where h came from, or h itself.
<1>9. ASSUME NEW d, d.via \in Vias, From(x, d)
      PROVE  \/ From(h, d) /\ By(h, d) = By(x, d)
             \/ Alike(d, h) /\ By(x, d) = h.count
  <2>1. /\ Len(d.via) \in Nat /\ DOMAIN d.via = 1..Len(d.via)
        /\ Len(d.via) <= Len(h.via)
    BY <1>2, <1>9, ViasFacts DEF From
  <2>2. \A n \in 1..Len(d.via) : h.via[n] = d.via[n]
    BY <1>2, <1>9, <2>1 DEF From
  <2>3. CASE Len(d.via) < Len(h.via)
    <3>1. Len(d.via) + 1 \in 1..Len(h.via)
      BY <1>2, <2>1, <2>3
    <3>2. By(h, d) = By(x, d)
      BY <1>2, <3>1 DEF By
    <3> QED  BY <1>3, <1>9, <2>1, <2>2, <2>3, <3>2 DEF From
  <2>4. CASE Len(d.via) = Len(h.via)
    <3>1. d.via = h.via
      BY <1>2, <1>9, <2>2, <2>4, SameVias
    <3> QED  BY <1>2, <1>3, <1>9, <3>1 DEF From, By, Alike
  <2> QED  BY <1>2, <2>1, <2>3, <2>4
<1>10. ~From(x, x)
  BY <1>2 DEF From
<1>11. /\ \A y \in copies \cup dead \cup received : y.via \in Vias
       /\ \A c \in copies : Alike(c, h) => c.count = h.count
  BY <1>1, <1>6, ThingsVias, NameAlike DEF TraceInv
\* Old and new things are traced.
<1>12. ASSUME NEW y, Traced(y), y.via \in Vias
       PROVE  /\ \A c \in copies' : From(y, c) => By(y, c) <= c.count
              /\ \A t \in Filters :
                   handler'[t].step # "none" /\ From(y, handler'[t]) =>
                     \/ By(y, handler'[t]) < handler'[t].count
                     \/ /\ By(y, handler'[t]) = handler'[t].count
                        /\ handler'[t].step = "completing"
  <2>1. \A c \in copies' : From(y, c) => c \in copies
    BY <1>8, <1>12
  <2>2. From(y, k) => By(y, k) < k.count
    BY <1>3, <1>7, <1>12, FromAlike DEF Alike, From, By
  <2> QED  BY <1>3, <1>6, <1>12, <2>1, <2>2 DEF Traced, Busy
<1>13. /\ \A c \in copies' : From(x, c) => By(x, c) <= c.count
       /\ \A t \in Filters :
            handler'[t].step # "none" /\ From(x, handler'[t]) =>
              \/ By(x, handler'[t]) < handler'[t].count
              \/ /\ By(x, handler'[t]) = handler'[t].count
                 /\ handler'[t].step = "completing"
  <2>1. ASSUME NEW c \in copies', From(x, c) PROVE By(x, c) <= c.count
    <3>1. c \in copies
      BY <1>10, <2>1
    <3>2. CASE From(h, c) /\ By(h, c) = By(x, c)
      BY <1>4, <3>1, <3>2 DEF Traced
    <3>3. CASE Alike(c, h) /\ By(x, c) = h.count
      BY <1>2, <1>11, <3>1, <3>3
    <3> QED  BY <1>9, <1>11, <2>1, <3>1, <3>2, <3>3
  <2>2. ASSUME NEW t \in Filters, handler'[t].step # "none", From(x, handler'[t])
        PROVE  \/ By(x, handler'[t]) < handler'[t].count
               \/ /\ By(x, handler'[t]) = handler'[t].count
                  /\ handler'[t].step = "completing"
    <3>1. CASE t = s
      <4>1. By(x, k) = h.count
        BY <1>2, <1>3 DEF By, Alike
      <4> QED  BY <1>3, <1>6, <3>1, <4>1
    <3>2. CASE t # s
      <4>1. handler'[t] = handler[t]
        BY <1>3, <3>2
      <4>2. ~Alike(handler[t], h)
        <5>1. Len(handler[t].via) # Len(h.via)
          BY <1>1, <1>5, <1>6, <2>2, <3>2, <4>1
        <5> QED  BY <5>1 DEF Alike
      <4>3. From(h, handler[t]) /\ By(h, handler[t]) = By(x, handler[t])
        BY <1>5, <1>9, <2>2, <4>1, <4>2
      <4> QED  BY <1>4, <2>2, <4>1, <4>3 DEF Traced, Busy
    <3> QED  BY <3>1, <3>2
  <2> QED  BY <2>1, <2>2
<1>14. \A y \in copies' \cup dead' \cup received' : Traced(y)'
  <2> SUFFICES ASSUME NEW y \in copies' \cup dead' \cup received'
               PROVE  Traced(y)'
    OBVIOUS
  <2>1. CASE y \in copies \cup dead \cup received
    BY <1>4, <1>11, <1>12, <2>1 DEF Traced, Busy, From, By
  <2>2. CASE y = x
    BY <1>13, <2>2 DEF Traced, Busy, From, By
  <2> QED  BY <2>1, <2>2
<1>15. \A t \in Filters : Busy(t)' => Traced(handler[t])'
  <2> SUFFICES ASSUME NEW t \in Filters, handler'[t].step # "none"
               PROVE  Traced(handler[t])'
    BY DEF Busy
  <2> DEFINE g == handler'[t]
  <2>1. g.via \in Vias /\ Traced(g)
    <3>1. CASE t = s
      <4>1. g.via = h.via
        BY <1>3, <1>6, <3>1 DEF Alike
      <4>2. Alike(g, h)
        BY <1>3, <1>6, <3>1
      <4>3. Traced(g)
        BY <1>4, <4>2 DEF Traced, Alike, From, By
      <4> QED  BY <1>2, <4>1, <4>3
    <3>2. CASE t # s
      BY <1>3, <1>5, <3>2
    <3> QED  BY <3>1, <3>2
  <2>2. handler'[t] = g
    OBVIOUS
  <2> HIDE DEF g
  <2> QED  BY <1>12, <2>1, <2>2 DEF Traced, Busy, From, By
<1>16. \A c \in copies', t \in Filters :
         handler'[t].step # "none" /\ Alike(c, handler'[t]) =>
           c.count = handler'[t].count
  <2> SUFFICES ASSUME NEW c \in copies', NEW t \in Filters,
                      handler'[t].step # "none", Alike(c, handler'[t])
               PROVE  c.count = handler'[t].count
    OBVIOUS
  <2>1. CASE t = s
    <3>1. Alike(c, h)
      BY <1>3, <1>6, <2>1 DEF Alike
    <3>2. c # x
      BY <1>2, <3>1 DEF Alike
    <3> QED  BY <1>3, <1>6, <1>11, <2>1, <3>1, <3>2
  <2>2. CASE t # s
    <3>1. handler'[t] = handler[t]
      BY <1>3, <2>2
    <3>2. ~Alike(handler[t], x)
      BY <1>5, <1>8, <3>1
    <3>3. c # x
      BY <3>1, <3>2 DEF Alike
    <3> QED  BY <3>1, <3>3, NameAlike DEF TraceInv, Busy
  <2> QED  BY <2>1, <2>2
<1>17. (\A c \in copies, t \in Filters :
          Busy(t) /\ Name(c) = Name(handler[t]) => c.count = handler[t].count)'
  BY <1>16, NameAlike DEF Busy, Name, Alike
<1>18. Unique'
  <2> SUFFICES ASSUME NEW c \in copies', NEW d \in copies', Alike(c, d)
               PROVE  c = d
    BY NameAlike DEF Unique, Name, Alike
  <2>1. \A c1 \in copies, d1 \in copies : Alike(c1, d1) => c1 = d1
    BY NameAlike DEF Unique
  <2>2. \A c1 \in copies : ~Alike(c1, x) /\ ~Alike(x, c1)
    BY <1>4, <1>8, <1>11 DEF Alike
  <2> QED  BY <2>1, <2>2
<1> QED  BY <1>14, <1>15, <1>17, <1>18 DEF TraceInv

LEMMA NamesStep ==
  ASSUME QueuesOK, HandlersOK, RestOK, TraceInv, Unique, [Next]_vars
  PROVE  TraceInv' /\ Unique'
<1> DEFINE Goal == TraceInv' /\ Unique'
<1>1. ASSUME copies' \subseteq copies, dead' \subseteq dead,
             UNCHANGED <<received, handler>>
      PROVE  Goal
  BY <1>1, NamesShrink
<1>2. ASSUME NEW s \in Filters, Ends(s), copies' \subseteq copies,
             dead' \subseteq dead, UNCHANGED received
      PROVE  Goal
  BY <1>2, NamesShrink
<1>3. ASSUME NEW q \in Filters, DeleteQueue(q)
      PROVE  copies' \subseteq copies /\ dead' \subseteq dead
  BY <1>3 DEF DeleteQueue
<1>4. ASSUME NEW c \in copies, LockExpires(c) PROVE Goal
  BY <1>4, NamesUnlock DEF LockExpires
<1>5. CASE Sender
  <2>1. 1 \in Filters
    BY NumbersAssumption DEF Filters
  <2>2. copies' \subseteq copies /\ dead' \subseteq dead
        /\ UNCHANGED <<received, handler>>
    BY <1>3, <1>5, <2>1
    DEF Sender, SenderStarts, SenderStops, SenderEnds, queues
  <2> QED  BY <1>1, <2>2
<1>6. ASSUME NEW m \in Messages, Send(m) PROVE Goal
  BY <1>6, NamesSend
<1>7. ASSUME NEW s \in Filters, Deliver(s) PROVE Goal
  BY <1>7, NamesDeliver
<1>8. ASSUME NEW s \in Filters, Handles(s) PROVE Goal
  <2>1. CASE Begins(s)
    <3>1. /\ UNCHANGED <<copies, dead, received>> /\ Step(s, "filtering")
          /\ handler[s].step \notin {"none", "completing"}
          /\ "filtering" \in Steps \ {"none"}
      BY <2>1 DEF Begins, queues, Steps
    <3> QED  BY <3>1, NamesShrink
  <2>2. CASE DeadLetters(s)
    <3>1. /\ copies' \subseteq copies /\ Ends(s) /\ UNCHANGED received
          /\ \A d \in dead' : d \in dead \/ \E c \in copies : d = Name(c)
      BY <2>2 DEF DeadLetters, Locked
    <3> QED  BY <3>1, NamesShrink
  <2>3. CASE FilterThrows(s)
    BY <2>3, NamesThrow DEF FilterThrows
  <2>4. CASE SendFails(s)
    BY <2>4, NamesThrow DEF SendFails
  <2>5. CASE Filtered(s) /\ s # N
    <3>1. /\ UNCHANGED <<copies, dead, received>> /\ Step(s, "sending")
          /\ handler[s].step \notin {"none", "completing"}
          /\ "sending" \in Steps \ {"none"}
      BY <2>5 DEF Filtered, queues, Steps
    <3> QED  BY <3>1, NamesShrink
  <2>6. CASE Filtered(s) /\ s = N
    <3> DEFINE x == [msg |-> handler[s].msg, via |-> Output(s)]
    <3>1. x.msg = handler[s].msg /\ x.via = Output(s)
      OBVIOUS
    <3>2. received' = received \cup {x}
      BY <2>6 DEF Filtered
    <3> HIDE DEF x
    <3>3. /\ UNCHANGED <<copies, dead>> /\ Step(s, "completing")
          /\ handler[s].step \notin {"none", "completing"}
      BY <2>6 DEF Filtered, queues
    <3> QED  BY <3>1, <3>2, <3>3, NamesAdd
  <2>7. CASE SendsOutput(s)
    <3> DEFINE x == [msg |-> handler[s].msg, via |-> Output(s), count |-> 0,
                     locked |-> FALSE]
    <3>1. x.msg = handler[s].msg /\ x.via = Output(s)
      OBVIOUS
    <3>2. copies' = copies \cup {x}
      BY <2>7 DEF SendsOutput
    <3> HIDE DEF x
    <3>3. /\ UNCHANGED <<dead, received>> /\ Step(s, "completing")
          /\ handler[s].step \notin {"none", "completing"}
      BY <2>7 DEF SendsOutput
    <3> QED  BY <3>1, <3>2, <3>3, NamesAdd
  <2>8. CASE Completes(s)
    BY <2>8, <1>2 DEF Completes
  <2> QED
    BY <1>8, <2>1, <2>2, <2>3, <2>4, <2>5, <2>6, <2>7, <2>8 DEF Handles
<1>9. ASSUME NEW s \in Filters,
             Starts(s) \/ Pauses(s) \/ Closes(s) \/ Stops(s) \/ Crashes(s)
      PROVE  Goal
  <2>1. CASE Starts(s) \/ Pauses(s) \/ Closes(s)
    BY <2>1, <1>1 DEF Starts, Pauses, Closes, queues
  <2>2. CASE Stops(s)
    BY <2>2, <1>2, <1>3 DEF Stops
  <2>3. CASE Crashes(s)
    BY <2>3, <1>2 DEF Crashes, queues
  <2> QED  BY <1>9, <2>1, <2>2, <2>3
<1>10. CASE UNCHANGED vars
  BY <1>10, <1>1 DEF vars, queues
<1> QED  BY <1>4, <1>5, <1>6, <1>7, <1>8, <1>9, <1>10 DEF Next

LEMMA InitNames == Init => NameIInv
<1> SUFFICES ASSUME Init PROVE NameIInv
  OBVIOUS
<1>1. /\ copies = {} /\ dead = {} /\ received = {} /\ sent = {} /\ purged = {}
      /\ \A s \in Filters : handler[s] = Idle /\ ~Busy(s)
  BY IdleHandler DEF Init, Busy
<1>2. QueuesOK
  BY <1>1 DEF Init, QueuesOK
<1>3. HandlersOK
  BY <1>1, IdleHandler DEF Init, HandlersOK, HandlerSet
<1>4. RestOK
  BY <1>1, NumbersAssumption DEF Init, RestOK
<1>5. Unique /\ TraceInv
  BY <1>1 DEF Unique, TraceInv
<1> QED  BY <1>2, <1>3, <1>4, <1>5, TypeParts DEF NameIInv

\* The strengthened invariant of the names is inductive.
THEOREM NamesInductive == Spec => []NameIInv
<1>1. NameIInv /\ [Next]_vars => NameIInv'
  <2> SUFFICES ASSUME NameIInv, [Next]_vars PROVE NameIInv'
    OBVIOUS
  <2>1. QueuesOK /\ HandlersOK /\ RestOK /\ Unique /\ TraceInv
    BY TypeParts DEF NameIInv
  <2>2. QueuesOK' /\ HandlersOK' /\ RestOK' /\ TraceInv' /\ Unique'
    BY <2>1, QueuesStep, HandlersStep, RestStep, NamesStep
  <2>3. (TypeOK /\ LimitInv <=> QueuesOK /\ HandlersOK /\ RestOK /\ Unique)'
    BY TypeParts, PTL
  <2> QED  BY <2>2, <2>3 DEF NameIInv
<1> QED  BY <1>1, InitNames, PTL DEF Spec

\* Copies lie in queues that exist, with no more deliveries than these allow,
\* handlers belong to roles that are up, and no two copies have the same name:
\* a message that is delivered again, after any failure, never meets a copy
\* that an earlier delivery of it has made.
THEOREM TypeCorrect == Spec => []TypeOK
<1>1. NameIInv => TypeOK
  BY DEF NameIInv
<1> QED  BY <1>1, NamesInductive, PTL

----------------------------------------------------------------------------
(* Without failures and stops. *)

RolesCalm ==
  \A s \in Filters :
    /\ role[s] \in {"down", "up"}
    /\ role[s] = "up" => \A q \in {s, s + 1} \cap Filters : limit[q] > 0

HandlersCalm ==
  \A s \in Filters :
    handler[s].step # "none" /\ handler[s].msg \notin Poison =>
      handler[s].count = 1 /\ Straight(handler[s])

CopiesCalm ==
  \A c \in copies : c.msg \notin Poison =>
    /\ Straight(c)
    /\ \/ ~c.locked /\ c.count = 0
       \/ c.locked /\ c.count = 1 /\ Name(c) = Name(handler[Queue(c)])

ReceivedCalm == \A c \in received : c.msg \notin Poison /\ Straight(c)

Calm == RolesCalm /\ HandlersCalm /\ CopiesCalm /\ ReceivedCalm

DeadCalm == \A c \in dead : c.msg \in Poison

LEMMA CalmParts == CalmInv <=> (faults = 0 /\ stops = 0 => Calm /\ DeadCalm)
BY Zenon DEF CalmInv, Calm, RolesCalm, HandlersCalm, CopiesCalm, ReceivedCalm,
             DeadCalm, Busy, QueueExists

LEMMA StraightAlike ==
  ASSUME NEW x, NEW y, x.via = y.via, Straight(y)
  PROVE  Straight(x)
BY DEF Straight

\* The handler of a locked copy of a healthy message has the lock of it.
LEMMA CalmHolder ==
  ASSUME QueuesOK, HandlersOK, RestOK, Calm,
         NEW c \in copies, c.msg \notin Poison, c.locked
  PROVE  /\ Queue(c) \in Filters /\ c \in Locked(Queue(c))
         /\ handler[Queue(c)].step # "none"
         /\ handler[Queue(c)].msg = c.msg
         /\ role[Queue(c)] = "up"
<1> DEFINE s == Queue(c)
<1>1. /\ s \in Filters /\ c.msg \in sent /\ c.msg # NoMessage
      /\ c.count = 1 /\ Name(c) = Name(handler[s])
  BY MessagesAssumption DEF QueuesOK, RestOK, Calm, CopiesCalm
<1>2. handler[s].msg = c.msg
  BY <1>1 DEF Name
<1>3. handler[s] # Idle
  BY <1>1, <1>2 DEF Idle
<1>4. handler[s].step # "none" /\ role[s] # "down"
  BY <1>1, <1>3 DEF HandlersOK
<1>5. handler[s].count = 1 /\ role[s] = "up"
  BY <1>1, <1>2, <1>4 DEF Calm, HandlersCalm, RolesCalm
<1> QED  BY <1>1, <1>2, <1>4, <1>5 DEF Locked

\* Copies of healthy messages only vanish, and handlers end after theirs.
LEMMA CalmKept ==
  ASSUME QueuesOK, HandlersOK, RestOK, Calm, UNCHANGED <<role, received>>,
         \A q \in Filters : limit[q] > 0 => limit'[q] > 0,
         \A e \in copies' : e.msg \notin Poison => e \in copies,
         \A s \in Filters :
           \/ /\ handler'[s].step # "none" => handler[s].step # "none"
              /\ handler'[s].msg = handler[s].msg
              /\ handler'[s].via = handler[s].via
              /\ handler'[s].count = handler[s].count
           \/ /\ handler'[s] = Idle
              /\ handler[s].msg \in Poison \/ copies' \cap Locked(s) = {}
  PROVE  Calm'
<1>1. RolesCalm'
  BY DEF Calm, RolesCalm
<1>2. HandlersCalm'
  BY IdleHandler, StraightAlike DEF Calm, HandlersCalm
<1>3. CopiesCalm'
  <2> SUFFICES ASSUME NEW c \in copies', c.msg \notin Poison
               PROVE  /\ Straight(c)
                      /\ \/ ~c.locked /\ c.count = 0
                         \/ /\ c.locked /\ c.count = 1
                            /\ Name(c) = Name(handler'[Queue(c)])
    BY DEF CopiesCalm, Name, Queue, Straight
  <2>1. c \in copies
    OBVIOUS
  <2>2. CASE ~c.locked
    BY <2>1, <2>2 DEF Calm, CopiesCalm
  <2>3. CASE c.locked
    <3>1. /\ Queue(c) \in Filters /\ c \in Locked(Queue(c))
          /\ handler[Queue(c)].msg = c.msg
      BY <2>1, <2>3, CalmHolder
    <3>2. Name(handler'[Queue(c)]) = Name(handler[Queue(c)])
      BY <3>1 DEF Name
    <3> QED  BY <2>1, <2>3, <3>2 DEF Calm, CopiesCalm
  <2> QED  BY <2>2, <2>3
<1>4. ReceivedCalm'
  BY DEF Calm, ReceivedCalm, Straight
<1> QED  BY <1>1, <1>2, <1>3, <1>4 DEF Calm

\* Only poison is unlocked.
LEMMA UnlockPoison ==
  ASSUME QueuesOK, NEW c \in copies, c.msg \in Poison, Unlock(c)
  PROVE  \A e \in copies' : e.msg \notin Poison => e \in copies
<1> DEFINE u == [c EXCEPT !.locked = FALSE]
<1>1. u.msg \in Poison
  BY DEF QueuesOK
<1> HIDE DEF u
<1> QED  BY <1>1 DEF Unlock, u

\* A new copy of a message that nobody has had yet in its queue.
LEMMA CalmAdd ==
  ASSUME QueuesOK, HandlersOK, RestOK, Calm,
         UNCHANGED <<role, limit, received>>,
         NEW x, copies' = copies \cup {x},
         x.msg \notin Poison => Straight(x) /\ ~x.locked /\ x.count = 0,
         \A s \in Filters :
           /\ handler'[s].step # "none" => handler[s].step # "none"
           /\ handler'[s].msg = handler[s].msg
           /\ handler'[s].via = handler[s].via
           /\ handler'[s].count = handler[s].count
  PROVE  Calm'
<1>1. RolesCalm'
  BY DEF Calm, RolesCalm
<1>2. HandlersCalm'
  BY StraightAlike DEF Calm, HandlersCalm
<1>3. CopiesCalm'
  <2> SUFFICES ASSUME NEW c \in copies', c.msg \notin Poison
               PROVE  /\ Straight(c)
                      /\ \/ ~c.locked /\ c.count = 0
                         \/ /\ c.locked /\ c.count = 1
                            /\ Name(c) = Name(handler'[Queue(c)])
    BY DEF CopiesCalm, Name, Queue, Straight
  <2>1. CASE c = x
    BY <2>1
  <2>2. CASE c \in copies
    <3>1. Queue(c) \in Filters
      BY <2>2 DEF QueuesOK
    <3>2. Name(handler'[Queue(c)]) = Name(handler[Queue(c)])
      BY <3>1 DEF Name
    <3> QED  BY <2>2, <3>2 DEF Calm, CopiesCalm
  <2> QED  BY <2>1, <2>2
<1>4. ReceivedCalm'
  BY DEF Calm, ReceivedCalm, Straight
<1> QED  BY <1>1, <1>2, <1>3, <1>4 DEF Calm

LEMMA CalmDeliver ==
  ASSUME QueuesOK, HandlersOK, RestOK, Calm, NEW s \in Filters, Deliver(s)
  PROVE  Calm'
<1>1. PICK c \in copies :
        /\ Queue(c) = s /\ ~c.locked
        /\ copies' = (copies \ {c}) \cup {Lock(c)}
        /\ handler' = [handler EXCEPT ![s] = [step |-> "received",
                         msg |-> c.msg, via |-> c.via, count |-> c.count + 1]]
  BY DEF Deliver
<1>2. UNCHANGED <<role, limit, received>> /\ handler[s] = Idle
  BY DEF Deliver
<1> DEFINE d == Lock(c)
           h == [step |-> "received", msg |-> c.msg, via |-> c.via,
                 count |-> c.count + 1]
<1>3. /\ d.msg = c.msg /\ d.via = c.via /\ d.count = c.count + 1 /\ d.locked
      /\ h.msg = c.msg /\ h.via = c.via /\ h.count = c.count + 1
  BY DEF Lock
<1>4. /\ copies' = (copies \ {c}) \cup {d}
      /\ handler'[s] = h /\ \A t \in Filters \ {s} : handler'[t] = handler[t]
  BY <1>1 DEF HandlersOK
<1> HIDE DEF d, h
<1>5. c.msg \notin Poison => c.count = 0 /\ Straight(c)
  BY <1>1 DEF Calm, CopiesCalm
<1>6. RolesCalm'
  BY <1>2 DEF Calm, RolesCalm
<1>7. HandlersCalm'
  <2> SUFFICES ASSUME NEW t \in Filters, handler'[t].step # "none",
                      handler'[t].msg \notin Poison
               PROVE  handler'[t].count = 1 /\ Straight(handler'[t])
    BY DEF HandlersCalm, Straight
  <2>1. CASE t = s
    BY <1>3, <1>4, <1>5, <2>1, StraightAlike
  <2>2. CASE t # s
    BY <1>4, <2>2 DEF Calm, HandlersCalm
  <2> QED  BY <2>1, <2>2
<1>8. CopiesCalm'
  <2> SUFFICES ASSUME NEW e \in copies', e.msg \notin Poison
               PROVE  /\ Straight(e)
                      /\ \/ ~e.locked /\ e.count = 0
                         \/ /\ e.locked /\ e.count = 1
                            /\ Name(e) = Name(handler'[Queue(e)])
    BY DEF CopiesCalm, Name, Queue, Straight
  <2>1. CASE e = d
    <3>1. Queue(e) = s
      BY <1>1, <1>3, <2>1 DEF Queue
    <3>2. Name(e) = Name(handler'[s])
      BY <1>3, <1>4, <2>1 DEF Name
    <3> QED  BY <1>3, <1>5, <2>1, <3>1, <3>2, StraightAlike
  <2>2. CASE e \in copies /\ ~e.locked
    BY <2>2 DEF Calm, CopiesCalm
  <2>3. CASE e \in copies /\ e.locked
    <3>1. Queue(e) \in Filters /\ handler[Queue(e)].step # "none"
      BY <2>3, CalmHolder
    <3>2. Queue(e) # s
      BY <1>2, <3>1, IdleHandler
    <3> QED  BY <1>4, <2>3, <3>1, <3>2 DEF Calm, CopiesCalm
  <2> QED  BY <1>4, <2>1, <2>2, <2>3
<1>9. ReceivedCalm'
  BY <1>2 DEF Calm, ReceivedCalm, Straight
<1> QED  BY <1>6, <1>7, <1>8, <1>9 DEF Calm

\* What a first delivery is passed on as.
LEMMA CalmOutput ==
  ASSUME HandlersOK, Calm, NEW s \in Filters,
         handler[s].step # "none", handler[s].msg \notin Poison,
         NEW x, x.via = Output(s)
  PROVE  Straight(x)
<1>1. handler[s].via \in Vias /\ handler[s].count \in Counts
  BY DEF HandlersOK
<1>2. handler[s].count = 1 /\ \A n \in 1..Len(handler[s].via) : handler[s].via[n] = 1
  BY <1>1, ViasFacts DEF Calm, HandlersCalm, Straight
<1>3. /\ Len(handler[s].via) \in Nat
      /\ DOMAIN x.via = 1..(Len(handler[s].via) + 1)
      /\ \A n \in 1..Len(handler[s].via) : x.via[n] = handler[s].via[n]
      /\ x.via[Len(handler[s].via) + 1] = handler[s].count
  BY <1>1, ViasFacts DEF Output
<1> QED  BY <1>2, <1>3 DEF Straight

LEMMA NoFault ==
  ASSUME RestOK, Fault, faults' = 0
  PROVE  FALSE
BY NumbersAssumption DEF RestOK, Fault

\* The filter has started with the queue it sends to.
LEMMA NoSendFails ==
  ASSUME HandlersOK, RestOK, Calm, faults' = 0, NEW s \in Filters, SendFails(s)
  PROVE  FALSE
<1>1. handler[s].step = "sending" /\ ~(limit[s + 1] > 0)
  BY NoFault DEF SendFails, QueueExists
<1>2. s # N /\ role[s] # "down"
  BY <1>1 DEF HandlersOK, Idle
<1>3. s + 1 \in Filters /\ role[s] = "up"
  BY <1>2, NumbersAssumption DEF Filters, Calm, RolesCalm
<1> QED  BY <1>1, <1>3 DEF Calm, RolesCalm

\* A first delivery is below the test for poison.
LEMMA OnlyPoisonDies ==
  ASSUME Calm, NEW s \in Filters, DeadLetters(s)
  PROVE  handler[s].msg \in Poison
BY NumbersAssumption DEF DeadLetters, Calm, HandlersCalm

LEMMA CalmStep ==
  ASSUME QueuesOK, HandlersOK, RestOK, Calm, [Next]_vars,
         faults' = 0, stops' = 0
  PROVE  Calm'
<1>1. ASSUME UNCHANGED <<role, received, handler>>, copies' \subseteq copies,
             \A q \in Filters : limit[q] > 0 => limit'[q] > 0
      PROVE  Calm'
  BY <1>1, CalmKept
<1>2. ASSUME NEW s \in Filters, Ends(s), UNCHANGED <<role, limit, received>>,
             \A e \in copies' : e.msg \notin Poison => e \in copies,
             handler[s].msg \in Poison \/ copies' \cap Locked(s) = {}
      PROVE  Calm'
  <2>1. handler'[s] = Idle /\ \A t \in Filters \ {s} : handler'[t] = handler[t]
    BY <1>2 DEF Ends, HandlersOK
  <2>2. \A q \in Filters : limit[q] > 0 => limit'[q] > 0
    BY <1>2
  <2>3. \A t \in Filters :
          \/ /\ handler'[t].step # "none" => handler[t].step # "none"
             /\ handler'[t].msg = handler[t].msg
             /\ handler'[t].via = handler[t].via
             /\ handler'[t].count = handler[t].count
          \/ /\ handler'[t] = Idle
             /\ handler[t].msg \in Poison \/ copies' \cap Locked(t) = {}
    BY <1>2, <2>1
  <2> QED  BY <1>2, <2>2, <2>3, CalmKept
<1>3. ASSUME NEW s \in Filters, NEW step, Step(s, step), handler[s].step # "none"
      PROVE  \A t \in Filters :
               /\ handler'[t].step # "none" => handler[t].step # "none"
               /\ handler'[t].msg = handler[t].msg
               /\ handler'[t].via = handler[t].via
               /\ handler'[t].count = handler[t].count
  BY <1>3 DEF Step, HandlersOK
<1>4. ASSUME NEW c \in copies, LockExpires(c) PROVE Calm'
  <2>1. c.locked /\ ~Renewed(c) /\ Unlock(c)
    BY <1>4, NoFault DEF LockExpires
  <2>2. c.msg \in Poison
    BY <2>1, CalmHolder DEF Renewed
  <2>3. \A e \in copies' : e.msg \notin Poison => e \in copies
    BY <2>1, <2>2, UnlockPoison
  <2> QED  BY <1>4, <2>3, CalmKept DEF LockExpires
<1>5. CASE Sender
  <2>1. CASE SenderStarts
    <3>1. \A q \in Filters : limit[q] > 0 => limit'[q] > 0
      BY <2>1 DEF SenderStarts, QueuesOK
    <3> QED  BY <2>1, <3>1, <1>1 DEF SenderStarts
  <2>2. CASE SenderStops
    BY <2>2, NumbersAssumption DEF SenderStops, RestOK
  <2>3. CASE SenderEnds
    BY <2>3, <1>1 DEF SenderEnds, queues
  <2> QED  BY <1>5, <2>1, <2>2, <2>3 DEF Sender
<1>6. ASSUME NEW m \in Messages, Send(m) PROVE Calm'
  <2> DEFINE x == [msg |-> m, via |-> <<>>, count |-> 0, locked |-> FALSE]
  <2>1. Straight(x) /\ ~x.locked /\ x.count = 0
    <3>1. x.via = <<>> /\ ~x.locked /\ x.count = 0
      OBVIOUS
    <3>2. DOMAIN x.via = {}
      BY <3>1, SMT
    <3> HIDE DEF x
    <3> QED  BY <3>1, <3>2 DEF Straight
  <2>2. copies' = copies \cup {x}
    BY <1>6 DEF Send
  <2> HIDE DEF x
  <2> QED  BY <1>6, <2>1, <2>2, CalmAdd DEF Send
<1>7. ASSUME NEW s \in Filters, Deliver(s) PROVE Calm'
  BY <1>7, CalmDeliver
<1>8. ASSUME NEW s \in Filters, Handles(s) PROVE Calm'
  <2>1. CASE Begins(s)
    <3>1. UNCHANGED <<role, limit, copies, received>> /\ Step(s, "filtering")
          /\ handler[s].step # "none"
      BY <2>1 DEF Begins, queues
    <3> QED  BY <3>1, <1>3, CalmKept
  <2>2. CASE DeadLetters(s)
    BY <2>2, OnlyPoisonDies, <1>2 DEF DeadLetters
  <2>3. CASE FilterThrows(s)
    <3>1. handler[s].msg \in Poison /\ Throws(s) /\ Ends(s)
          /\ UNCHANGED <<role, limit, received>>
      BY <2>3 DEF FilterThrows, Throws
    <3>2. \A e \in copies' : e.msg \notin Poison => e \in copies
      <4>1. CASE UNCHANGED copies
        BY <4>1
      <4>2. ASSUME NEW c \in Locked(s), Unlock(c) PROVE <3>2
        <5>1. c \in copies /\ c.msg = handler[s].msg
          BY <4>2 DEF Locked, Name
        <5> QED  BY <3>1, <4>2, <5>1, UnlockPoison
      <4> QED  BY <3>1, <4>1, <4>2 DEF Throws
    <3> QED  BY <3>1, <3>2, <1>2
  <2>4. CASE Filtered(s)
    <3>1. UNCHANGED <<role, limit, copies>> /\ handler[s].step # "none"
          /\ handler[s].msg \notin Poison
      BY <2>4 DEF Filtered, queues
    <3>2. \A t \in Filters :
            /\ handler'[t].step # "none" => handler[t].step # "none"
            /\ handler'[t].msg = handler[t].msg
            /\ handler'[t].via = handler[t].via
            /\ handler'[t].count = handler[t].count
      BY <2>4, <3>1, <1>3 DEF Filtered
    <3> DEFINE x == [msg |-> handler[s].msg, via |-> Output(s)]
    <3>3. x.via = Output(s) /\ x.msg \notin Poison
      BY <3>1
    <3>4. received' \subseteq received \cup {x}
      BY <2>4 DEF Filtered
    <3> HIDE DEF x
    <3>5. Straight(x)
      BY <3>1, <3>3, CalmOutput
    <3>6. ReceivedCalm'
      BY <3>3, <3>4, <3>5 DEF Calm, ReceivedCalm, Straight
    <3>7. RolesCalm' /\ HandlersCalm'
      BY <3>1, <3>2, StraightAlike DEF Calm, RolesCalm, HandlersCalm
    <3>8. CopiesCalm'
      <4>1. \A c \in copies : Queue(c) \in Filters
                /\ Name(handler'[Queue(c)]) = Name(handler[Queue(c)])
        BY <3>2 DEF QueuesOK, Name
      <4> QED  BY <3>1, <4>1 DEF Calm, CopiesCalm, Name, Queue, Straight
    <3> QED  BY <3>6, <3>7, <3>8 DEF Calm
  <2>5. CASE SendsOutput(s)
    <3> DEFINE x == [msg |-> handler[s].msg, via |-> Output(s), count |-> 0,
                     locked |-> FALSE]
    <3>1. x.msg = handler[s].msg /\ x.via = Output(s) /\ ~x.locked /\ x.count = 0
      OBVIOUS
    <3>2. copies' = copies \cup {x}
      BY <2>5 DEF SendsOutput
    <3> HIDE DEF x
    <3>3. UNCHANGED <<role, limit, received>> /\ Step(s, "completing")
          /\ handler[s].step # "none"
      BY <2>5 DEF SendsOutput
    <3>4. x.msg \notin Poison => Straight(x)
      BY <3>1, <3>3, CalmOutput
    <3> QED  BY <1>3, <3>1, <3>2, <3>3, <3>4, CalmAdd
  <2>6. CASE SendFails(s)
    BY <2>6, NoSendFails
  <2>7. CASE Completes(s)
    <3>1. role[s] # "closed"
      BY DEF Calm, RolesCalm
    <3>2. copies' = copies \ Locked(s)
      BY <2>7, <3>1 DEF Completes
    <3> QED  BY <2>7, <3>2, <1>2 DEF Completes
  <2> QED  BY <1>8, <2>1, <2>2, <2>3, <2>4, <2>5, <2>6, <2>7 DEF Handles
<1>9. ASSUME NEW s \in Filters,
             Starts(s) \/ Pauses(s) \/ Closes(s) \/ Stops(s) \/ Crashes(s)
      PROVE  Calm'
  <2>1. CASE Starts(s)
    <3>1. /\ UNCHANGED <<copies, handler, received>>
          /\ role' = [role EXCEPT ![s] = "up"]
          /\ \A q \in {s, s + 1} \cap Filters : limit'[q] > 0
      BY <2>1, NoFault DEF Starts
    <3>2. PICK created \in SUBSET {q \in {s, s + 1} \cap Filters : ~QueueExists(q)} :
            limit' = [q \in Filters |->
                        IF q \in created THEN DefaultLimit ELSE limit[q]]
      BY <2>1 DEF Starts
    <3>3. \A q \in Filters : limit[q] > 0 => limit'[q] > 0
      BY <3>2, NumbersAssumption
    <3>4. RolesCalm'
      BY <3>1, <3>3 DEF Calm, RolesCalm, HandlersOK
    <3>5. HandlersCalm' /\ CopiesCalm' /\ ReceivedCalm'
      BY <3>1
      DEF Calm, HandlersCalm, CopiesCalm, ReceivedCalm, Straight, Name, Queue
    <3> QED  BY <3>4, <3>5 DEF Calm
  <2>2. CASE Pauses(s)
    BY <2>2, NumbersAssumption DEF Pauses, RestOK
  <2>3. CASE Closes(s) \/ Stops(s)
    BY <2>3 DEF Closes, Stops, Calm, RolesCalm
  <2>4. CASE Crashes(s)
    BY <2>4, NoFault DEF Crashes
  <2> QED  BY <1>9, <2>1, <2>2, <2>3, <2>4
<1>10. CASE UNCHANGED vars
  BY <1>10, <1>1 DEF vars, queues
<1> QED  BY <1>4, <1>5, <1>6, <1>7, <1>8, <1>9, <1>10 DEF Next

\* What is dead-lettered is unlocked, or given up, and poison.
LEMMA UnlockDies ==
  ASSUME DeadCalm, NEW c \in copies, c.msg \in Poison, Unlock(c)
  PROVE  DeadCalm'
<1>1. Name(c).msg = c.msg
  BY DEF Name
<1> QED  BY <1>1 DEF DeadCalm, Unlock

LEMMA DeadStep ==
  ASSUME QueuesOK, HandlersOK, RestOK, Calm, DeadCalm, [Next]_vars,
         faults' = 0, stops' = 0
  PROVE  DeadCalm'
<1>1. ASSUME dead' \subseteq dead PROVE DeadCalm'
  BY <1>1 DEF DeadCalm
<1>2. ASSUME NEW c \in copies, LockExpires(c) PROVE DeadCalm'
  <2>1. c.locked /\ ~Renewed(c) /\ Unlock(c)
    BY <1>2, NoFault DEF LockExpires
  <2>2. c.msg \in Poison
    BY <2>1, CalmHolder DEF Renewed
  <2> QED  BY <2>1, <2>2, UnlockDies
<1>3. CASE Sender \/ \E m \in Messages : Send(m)
  BY <1>3, <1>1
  DEF Sender, SenderStarts, SenderStops, SenderEnds, DeleteQueue, queues, Send
<1>4. ASSUME NEW s \in Filters, Handles(s) PROVE DeadCalm'
  <2>1. CASE Begins(s) \/ Filtered(s) \/ SendsOutput(s) \/ Completes(s)
    BY <2>1, <1>1 DEF Begins, Filtered, SendsOutput, Completes, queues
  <2>2. CASE DeadLetters(s)
    <3>1. handler[s].msg \in Poison
      BY <2>2, OnlyPoisonDies
    <3>2. \A c \in Locked(s) : Name(c).msg = handler[s].msg
      BY DEF Locked, Name
    <3> QED  BY <2>2, <3>1, <3>2 DEF DeadLetters, DeadCalm
  <2>3. CASE FilterThrows(s)
    <3>1. \A c \in Locked(s) : c \in copies /\ c.msg \in Poison
      BY <2>3 DEF FilterThrows, Locked, Name
    <3> QED  BY <2>3, <3>1, <1>1, UnlockDies DEF FilterThrows, Throws
  <2>4. CASE SendFails(s)
    BY <2>4, NoSendFails
  <2> QED  BY <1>4, <2>1, <2>2, <2>3, <2>4 DEF Handles
<1>5. ASSUME NEW s \in Filters,
             \/ Deliver(s) \/ Starts(s) \/ Pauses(s) \/ Closes(s) \/ Stops(s)
             \/ Crashes(s)
      PROVE  DeadCalm'
  BY <1>5, <1>1
  DEF Deliver, Starts, Pauses, Closes, Stops, Crashes, DeleteQueue, queues
<1>6. CASE UNCHANGED vars
  BY <1>6, <1>1 DEF vars, queues
<1> QED  BY <1>2, <1>3, <1>4, <1>5, <1>6 DEF Next

\* The bounds' counters never fall.
LEMMA CountersRise ==
  ASSUME RestOK, [Next]_vars
  PROVE  faults' >= faults /\ stops' >= stops
<1> USE NumbersAssumption DEF RestOK
<1>1. ASSUME NEW c \in copies, LockExpires(c) PROVE faults' >= faults /\ stops' >= stops
  BY <1>1 DEF LockExpires, Fault
<1>2. CASE Sender
  BY <1>2 DEF Sender, SenderStarts, SenderStops, SenderEnds, Fault, queues
<1>3. ASSUME NEW m \in Messages, Send(m) PROVE faults' >= faults /\ stops' >= stops
  BY <1>3 DEF Send
<1>4. ASSUME NEW s \in Filters, Deliver(s) \/ Handles(s)
      PROVE  faults' >= faults /\ stops' >= stops
  <2>1. CASE Deliver(s) \/ Begins(s) \/ DeadLetters(s) \/ FilterThrows(s)
    BY <2>1 DEF Deliver, Begins, DeadLetters, FilterThrows, queues
  <2>2. CASE Filtered(s) \/ SendsOutput(s) \/ SendFails(s) \/ Completes(s)
    BY <2>2 DEF Filtered, SendsOutput, SendFails, Completes, Fault
  <2> QED  BY <1>4, <2>1, <2>2 DEF Handles
<1>5. ASSUME NEW s \in Filters,
             Starts(s) \/ Pauses(s) \/ Closes(s) \/ Stops(s) \/ Crashes(s)
      PROVE  faults' >= faults /\ stops' >= stops
  BY <1>5 DEF Starts, Pauses, Closes, Stops, Crashes, Fault
<1>6. CASE UNCHANGED vars
  BY <1>6 DEF vars
<1> QED  BY <1>1, <1>2, <1>3, <1>4, <1>5, <1>6 DEF Next

THEOREM CalmInductive == Spec => []CalmInv
<1>1. Init => CalmInv
  <2> SUFFICES ASSUME Init PROVE Calm /\ DeadCalm
    BY CalmParts
  <2>1. /\ copies = {} /\ received = {} /\ dead = {}
        /\ \A s \in Filters : handler[s].step = "none" /\ role[s] = "down"
    BY IdleHandler DEF Init
  <2> QED
    BY <2>1 DEF Calm, RolesCalm, HandlersCalm, CopiesCalm, ReceivedCalm, DeadCalm
<1>2. NameIInv /\ CalmInv /\ [Next]_vars => CalmInv'
  <2> SUFFICES ASSUME NameIInv, CalmInv, [Next]_vars, faults' = 0, stops' = 0
               PROVE  Calm' /\ DeadCalm'
    <3>1. (CalmInv <=> (faults = 0 /\ stops = 0 => Calm /\ DeadCalm))'
      BY CalmParts, PTL
    <3> QED  BY <3>1
  <2>1. QueuesOK /\ HandlersOK /\ RestOK
    BY TypeParts DEF NameIInv
  <2>2. faults = 0 /\ stops = 0
    BY <2>1, CountersRise DEF RestOK
  <2> QED  BY <2>1, <2>2, CalmParts, CalmStep, DeadStep
<1> QED  BY <1>1, <1>2, NamesInductive, PTL DEF Spec

\* Without failures and stops no message is received twice, whatever order the
\* roles start in, however they interleave, and whatever else in the pipeline
\* is poison.
THEOREM ReceivedOnce == Spec => []OnceWithoutFaults
<1>1. NameIInv /\ CalmInv => OnceWithoutFaults
  <2> SUFFICES ASSUME NameIInv, CalmInv, faults = 0, stops = 0,
                      NEW c \in received, NEW d \in received, c.msg = d.msg
               PROVE  c = d
    BY DEF OnceWithoutFaults
  <2>1. /\ c \in [msg : sent, via : Vias] /\ d \in [msg : sent, via : Vias]
        /\ Len(c.via) = N /\ Len(d.via) = N
    BY TypeParts DEF NameIInv, RestOK
  <2>2. Straight(c) /\ Straight(d)
    BY CalmParts DEF Calm, ReceivedCalm
  <2>3. DOMAIN c.via = 1..Len(c.via) /\ DOMAIN d.via = 1..Len(d.via)
    BY <2>1, ViasFacts
  <2>4. c.via = d.via
    BY <2>1, <2>2, <2>3, SameVias DEF Straight
  <2> QED  BY <2>1, <2>4
<1> QED  BY <1>1, NamesInductive, CalmInductive, PTL

\* Without failures and stops only poison is dead-lettered: no healthy message
\* uses up its deliveries, in whatever order the roles start.
THEOREM HealthyGetsThrough == Spec => []HealthyPasses
<1>1. CalmInv => HealthyPasses
  BY CalmParts DEF HealthyPasses, DeadCalm
<1> QED  BY <1>1, CalmInductive, PTL

----------------------------------------------------------------------------
(* The pipeline stores and forwards.  A filter has what it is busy with in *)
(* its queue, unless that was deleted, so that it passes on only what was  *)
(* there; and what it completes has been passed on, by PassedOn.           *)

\* Copies are where they were.
LEMMA AtSame ==
  ASSUME \A c \in copies \cup dead : \E d \in copies' \cup dead' : Alike(d, c),
         \A d \in copies' \cup dead' : \E c \in copies \cup dead : Alike(d, c)
  PROVE  \A q \in Filters : At(q)' = At(q)
BY DEF At, Alike, Queue

LEMMA UnlockAlike ==
  ASSUME QueuesOK, NEW c \in copies, Unlock(c)
  PROVE  \A q \in Filters : At(q)' = At(q)
<1> DEFINE u == [c EXCEPT !.locked = FALSE]
<1>1. Alike(u, c)
  BY DEF QueuesOK, Alike
<1> HIDE DEF u
<1>2. Alike(Name(c), c) /\ \A d : Alike(d, d)
  BY DEF Name, Alike
<1> QED  BY <1>1, <1>2, AtSame DEF Unlock, u

LEMMA ThrowsAlike ==
  ASSUME QueuesOK, NEW s \in Filters, Throws(s)
  PROVE  \A q \in Filters : At(q)' = At(q)
<1>1. ASSUME UNCHANGED <<copies, dead>> PROVE \A q \in Filters : At(q)' = At(q)
  BY <1>1 DEF At, Queue
<1> QED  BY <1>1, UnlockAlike DEF Throws, Locked

LEMMA DeliverAlike ==
  ASSUME NEW s \in Filters, Deliver(s)
  PROVE  \A q \in Filters : At(q)' = At(q)
<1>1. PICK c \in copies : copies' = (copies \ {c}) \cup {Lock(c)}
  BY DEF Deliver
<1>2. Alike(Lock(c), c) /\ \A d : Alike(d, d)
  BY DEF Lock, Alike
<1> QED  BY <1>1, <1>2, AtSame DEF Deliver

LEMMA DeadLettersAlike ==
  ASSUME NEW s \in Filters, DeadLetters(s)
  PROVE  \A q \in Filters : At(q)' = At(q)
<1>1. \A c : Alike(Name(c), c) /\ Alike(c, c)
  BY DEF Name, Alike
<1>2. Locked(s) \subseteq copies
  BY DEF Locked
<1> QED  BY <1>1, <1>2, AtSame DEF DeadLetters

\* A new copy, a deleted queue, a completed input.
LEMMA AtAdd ==
  ASSUME NEW x, copies' = copies \cup {x}, UNCHANGED dead, Queue(x) \in Filters
  PROVE  /\ At(Queue(x))' = At(Queue(x)) \cup {x.msg}
         /\ \A q \in Filters \ {Queue(x)} : At(q)' = At(q)
BY DEF At, Queue

LEMMA AtDelete ==
  ASSUME NEW q \in Filters, DeleteQueue(q)
  PROVE  /\ At(q)' = {} /\ purged' = purged \cup At(q)
         /\ \A r \in Filters \ {q} : At(r)' = At(r)
BY DEF DeleteQueue, At, Queue

LEMMA AtComplete ==
  ASSUME HandlersOK, NEW s \in Filters, Completes(s)
  PROVE  /\ At(s)' \in {At(s), At(s) \ {handler[s].msg}}
         /\ At(s)' # At(s) => handler[s].msg \in At(s)
         /\ \A q \in Filters \ {s} : At(q)' = At(q)
<1>1. Queue(handler[s]) = s
  BY DEF Completes, HandlersOK, Idle
<1>2. \A c \in Locked(s) : c \in copies /\ c.msg = handler[s].msg /\ Queue(c) = s
  BY <1>1 DEF Locked, Name, Queue
<1>3. copies \ Locked(s) \subseteq copies' /\ copies' \subseteq copies
      /\ dead' = dead
  BY DEF Completes
<1>4. \A q \in Filters \ {s} : At(q)' = At(q)
  BY <1>2, <1>3 DEF At, Queue
<1>5. At(s)' \subseteq At(s) /\ At(s) \ {handler[s].msg} \subseteq At(s)'
  BY <1>2, <1>3 DEF At, Queue
<1> QED  BY <1>4, <1>5

\* The messages in a queue stay there, are purged, or are completed by it.
LEMMA HeldStep ==
  ASSUME QueuesOK, HandlersOK, HeldInv, [Next]_vars
  PROVE  HeldInv'
<1>1. ASSUME purged \subseteq purged',
             \A q \in Filters : At(q) \subseteq At(q)' \cup purged',
             \A s \in Filters : handler'[s].step # "none" =>
               handler[s].step # "none" /\ handler'[s].msg = handler[s].msg
      PROVE  HeldInv'
  BY <1>1 DEF HeldInv
<1>2. ASSUME UNCHANGED <<copies, dead>> PROVE \A q \in Filters : At(q)' = At(q)
  BY <1>2 DEF At, Queue
<1>3. ASSUME NEW s \in Filters, Ends(s)
      PROVE  \A t \in Filters : handler'[t].step # "none" =>
               handler[t].step # "none" /\ handler'[t].msg = handler[t].msg
  BY <1>3, IdleHandler DEF Ends, HandlersOK
<1>4. ASSUME NEW s \in Filters, NEW step, Step(s, step), handler[s].step # "none"
      PROVE  \A t \in Filters : handler'[t].step # "none" =>
               handler[t].step # "none" /\ handler'[t].msg = handler[t].msg
  BY <1>4 DEF Step, HandlersOK
<1>5. ASSUME NEW c \in copies, LockExpires(c) PROVE HeldInv'
  BY <1>5, <1>1, UnlockAlike DEF LockExpires
<1>6. CASE Sender
  <2>1. CASE SenderStarts \/ SenderEnds
    BY <2>1, <1>1, <1>2 DEF SenderStarts, SenderEnds, queues
  <2>2. CASE SenderStops
    <3>1. 1 \in Filters
      BY NumbersAssumption DEF Filters
    <3> QED  BY <2>2, <3>1, <1>1, AtDelete DEF SenderStops
  <2> QED  BY <1>6, <2>1, <2>2 DEF Sender
<1>7. ASSUME NEW m \in Messages, Send(m) PROVE HeldInv'
  <2>1. \A q \in Filters : At(q) \subseteq At(q)'
    BY <1>7 DEF Send, At, Queue
  <2> QED  BY <1>7, <2>1, <1>1 DEF Send
<1>8. ASSUME NEW s \in Filters, Deliver(s) PROVE HeldInv'
  <2>1. PICK c \in copies :
          /\ Queue(c) = s
          /\ handler' = [handler EXCEPT ![s] = [step |-> "received",
                           msg |-> c.msg, via |-> c.via, count |-> c.count + 1]]
    BY <1>8 DEF Deliver
  <2>2. \A q \in Filters : At(q)' = At(q)
    BY <1>8, DeliverAlike
  <2>3. handler'[s].msg = c.msg /\ \A t \in Filters \ {s} : handler'[t] = handler[t]
    BY <2>1 DEF HandlersOK
  <2>4. c.msg \in At(s)
    BY <2>1 DEF At
  <2>5. UNCHANGED purged
    BY <1>8 DEF Deliver
  <2> QED  BY <2>2, <2>3, <2>4, <2>5 DEF HeldInv
<1>9. ASSUME NEW s \in Filters, Handles(s) PROVE HeldInv'
  <2>1. CASE Begins(s) \/ Filtered(s)
    BY <2>1, <1>1, <1>2, <1>4 DEF Begins, Filtered, queues
  <2>2. CASE DeadLetters(s)
    BY <2>2, <1>1, <1>3, DeadLettersAlike DEF DeadLetters
  <2>3. CASE FilterThrows(s) \/ SendFails(s)
    BY <2>3, <1>1, <1>3, ThrowsAlike DEF FilterThrows, SendFails, Throws
  <2>4. CASE SendsOutput(s)
    <3>1. \A q \in Filters : At(q) \subseteq At(q)'
      BY <2>4 DEF SendsOutput, At, Queue
    <3> QED  BY <2>4, <3>1, <1>1, <1>4 DEF SendsOutput
  <2>5. CASE Completes(s)
    <3>1. /\ handler'[s].step = "none" /\ UNCHANGED purged
          /\ \A t \in Filters \ {s} : handler'[t] = handler[t]
      BY <2>5, IdleHandler DEF Completes, Ends, HandlersOK
    <3>2. \A q \in Filters \ {s} : At(q)' = At(q)
      BY <2>5, AtComplete
    <3> QED  BY <3>1, <3>2 DEF HeldInv
  <2> QED  BY <1>9, <2>1, <2>2, <2>3, <2>4, <2>5 DEF Handles
<1>10. ASSUME NEW s \in Filters,
              Starts(s) \/ Pauses(s) \/ Closes(s) \/ Stops(s) \/ Crashes(s)
       PROVE  HeldInv'
  <2>1. CASE Starts(s) \/ Pauses(s) \/ Closes(s)
    BY <2>1, <1>1, <1>2 DEF Starts, Pauses, Closes, queues
  <2>2. CASE Stops(s)
    BY <2>2, <1>1, <1>3, AtDelete DEF Stops
  <2>3. CASE Crashes(s)
    BY <2>3, <1>1, <1>2, <1>3 DEF Crashes, queues
  <2> QED  BY <1>10, <2>1, <2>2, <2>3
<1>11. CASE UNCHANGED vars
  BY <1>11, <1>1, <1>2 DEF vars, queues
<1> QED  BY <1>5, <1>6, <1>7, <1>8, <1>9, <1>10, <1>11 DEF Next

\* What a filter is busy with, and passes on, is or was in its queue.
THEOREM HeldInductive == Spec => []HeldInv
<1>1. Init => HeldInv
  BY IdleHandler DEF Init, HeldInv
<1>2. NameIInv /\ HeldInv /\ [Next]_vars => HeldInv'
  BY TypeParts, HeldStep DEF NameIInv
<1> QED  BY <1>1, <1>2, NamesInductive, PTL DEF Spec

\* The steps of the relay, from what the queues hold.
LEMMA RelayStays ==
  ASSUME \A q \in Filters : At(q)' = At(q),
         {c.msg : c \in received'} = {c.msg : c \in received},
         UNCHANGED <<sent, purged>>
  PROVE  UNCHANGED Relay!vars
BY DEF Relay!vars

LEMMA RelaySends ==
  ASSUME NEW m \in Messages, m \notin sent, sent' = sent \cup {m},
         At(1)' = At(1) \cup {m}, \A q \in Filters \ {1} : At(q)' = At(q),
         UNCHANGED <<received, purged>>
  PROVE  Relay!Next
<1>1. [q \in Filters |-> At(q)'] =
        [[q \in Filters |-> At(q)] EXCEPT ![1] = @ \cup {m}]
  OBVIOUS
<1>2. Relay!Send(m)
  BY <1>1 DEF Relay!Send
<1> QED  BY <1>2 DEF Relay!Next

LEMMA RelayForwards ==
  ASSUME NEW m \in Messages, NEW s \in Filters, m \in At(s) \cup purged, s # N,
         At(s + 1)' = At(s + 1) \cup {m},
         \A q \in Filters \ {s + 1} : At(q)' = At(q),
         UNCHANGED <<sent, received, purged>>
  PROVE  Relay!Next
<1>1. [q \in Filters |-> At(q)'] =
        [[q \in Filters |-> At(q)] EXCEPT ![s + 1] = @ \cup {m}]
  OBVIOUS
<1>2. Relay!Forward(m, s)
  BY <1>1 DEF Relay!Forward
<1> QED  BY <1>2 DEF Relay!Next, Relay!Stages, Filters

LEMMA RelayReceives ==
  ASSUME NEW m \in Messages, m \in At(N) \cup purged,
         \A q \in Filters : At(q)' = At(q),
         {c.msg : c \in received'} = {c.msg : c \in received} \cup {m},
         UNCHANGED <<sent, purged>>
  PROVE  Relay!Next
<1>1. N \in Filters
  BY NumbersAssumption DEF Filters
<1>2. Relay!Receive(m)
  BY <1>1 DEF Relay!Receive
<1> QED  BY <1>2 DEF Relay!Next

LEMMA RelayForgets ==
  ASSUME NEW m \in Messages, NEW s \in Filters, m \in At(s),
         \/ m \in {c.msg : c \in received} \cup purged
         \/ \E q \in Filters : q > s /\ m \in At(q),
         At(s)' = At(s) \ {m}, \A q \in Filters \ {s} : At(q)' = At(q),
         UNCHANGED <<sent, received, purged>>
  PROVE  Relay!Next
<1>1. [q \in Filters |-> At(q)'] =
        [[q \in Filters |-> At(q)] EXCEPT ![s] = @ \ {m}]
  OBVIOUS
<1>2. Relay!Further(m, s)
  BY DEF Relay!Further, Relay!Stages, Filters
<1>3. Relay!Forget(m, s)
  BY <1>1, <1>2 DEF Relay!Forget
<1> QED  BY <1>3 DEF Relay!Next, Relay!Stages, Filters

LEMMA RelayDeletes ==
  ASSUME NEW q \in Filters, DeleteQueue(q), UNCHANGED <<sent, received>>
  PROVE  Relay!Next
<1>1. /\ At(q)' = {} /\ purged' = purged \cup At(q)
      /\ \A r \in Filters \ {q} : At(r)' = At(r)
  BY AtDelete
<1>2. [r \in Filters |-> At(r)'] = [[r \in Filters |-> At(r)] EXCEPT ![q] = {}]
  BY <1>1
<1>3. Relay!Delete(q)
  BY <1>1, <1>2 DEF Relay!Delete
<1> QED  BY <1>3 DEF Relay!Next, Relay!Stages, Filters

\* What a handler takes to the relay: its message, from its own queue.
LEMMA BusyHas ==
  ASSUME HandlersOK, RestOK, HeldInv, NEW s \in Filters, handler[s].step # "none"
  PROVE  handler[s].msg \in Messages /\ handler[s].msg \in At(s) \cup purged
BY IdleHandler DEF HandlersOK, RestOK, HeldInv

LEMMA RelaySendsOutput ==
  ASSUME HandlersOK, RestOK, HeldInv, NEW s \in Filters, SendsOutput(s)
  PROVE  Relay!Next
<1> DEFINE x == [msg |-> handler[s].msg, via |-> Output(s), count |-> 0,
                 locked |-> FALSE]
<1>1. /\ handler[s].step = "sending" /\ copies' = copies \cup {x}
      /\ UNCHANGED <<dead, purged, sent, received>>
  BY DEF SendsOutput
<1>2. /\ handler[s].via \in Vias /\ handler[s].count \in Counts
      /\ Len(handler[s].via) + 1 = s /\ s # N
  BY <1>1 DEF HandlersOK, Queue, Idle
<1>3. x.msg = handler[s].msg /\ Queue(x) = s + 1 /\ s + 1 \in Filters
  BY <1>2, ViasFacts, NumbersAssumption DEF Output, Queue, Filters
<1> HIDE DEF x
<1>4. /\ At(s + 1)' = At(s + 1) \cup {handler[s].msg}
      /\ \A q \in Filters \ {s + 1} : At(q)' = At(q)
  BY <1>1, <1>3, AtAdd
<1>5. handler[s].msg \in Messages /\ handler[s].msg \in At(s) \cup purged
  BY <1>1, BusyHas
<1> QED  BY <1>1, <1>2, <1>4, <1>5, RelayForwards

LEMMA RelayCompletes ==
  ASSUME QueuesOK, HandlersOK, RestOK, HeldInv, PassedOn, NEW s \in Filters,
         Completes(s)
  PROVE  [Relay!Next]_Relay!vars
<1>1. handler[s].step = "completing" /\ UNCHANGED <<sent, received, purged>>
  BY DEF Completes
<1>2. /\ At(s)' \in {At(s), At(s) \ {handler[s].msg}}
      /\ At(s)' # At(s) => handler[s].msg \in At(s)
      /\ \A q \in Filters \ {s} : At(q)' = At(q)
  BY AtComplete
<1>3. CASE At(s)' = At(s)
  BY <1>1, <1>2, <1>3, RelayStays
<1>4. CASE At(s)' # At(s)
  <2>1. handler[s].msg \in Messages
    BY <1>1, BusyHas
  <2>2. \/ handler[s].msg \in {c.msg : c \in received} \cup purged
        \/ \E q \in Filters : q > s /\ handler[s].msg \in At(q)
    BY <1>1 DEF PassedOn, Received, QueuesOK, At
  <2> QED  BY <1>1, <1>2, <1>4, <2>1, <2>2, RelayForgets
<1> QED  BY <1>3, <1>4

LEMMA RelayFiltered ==
  ASSUME HandlersOK, RestOK, HeldInv, NEW s \in Filters, Filtered(s)
  PROVE  [Relay!Next]_Relay!vars
<1> DEFINE x == [msg |-> handler[s].msg, via |-> Output(s)]
<1>1. /\ handler[s].step = "filtering"
      /\ UNCHANGED <<copies, dead, sent, purged>>
      /\ received' = IF s = N THEN received \cup {x} ELSE received
      /\ x.msg = handler[s].msg
  BY DEF Filtered, queues
<1> HIDE DEF x
<1>2. \A q \in Filters : At(q)' = At(q)
  BY <1>1 DEF At, Queue
<1>3. CASE s # N
  BY <1>1, <1>2, <1>3, RelayStays
<1>4. CASE s = N
  <2>1. {c.msg : c \in received'} = {c.msg : c \in received} \cup {handler[s].msg}
    BY <1>1, <1>4
  <2>2. handler[s].msg \in Messages /\ handler[s].msg \in At(N) \cup purged
    BY <1>1, <1>4, BusyHas
  <2> QED  BY <1>1, <1>2, <2>1, <2>2, RelayReceives
<1> QED  BY <1>3, <1>4

LEMMA RelayStep ==
  ASSUME QueuesOK, HandlersOK, RestOK, HeldInv, PassedOn, [Next]_vars
  PROVE  [Relay!Next]_Relay!vars
<1>1. ASSUME \A q \in Filters : At(q)' = At(q), UNCHANGED <<sent, received, purged>>
      PROVE  UNCHANGED Relay!vars
  BY <1>1, RelayStays
<1>2. ASSUME UNCHANGED <<copies, dead, sent, received, purged>>
      PROVE  UNCHANGED Relay!vars
  BY <1>1, <1>2 DEF At, Queue
<1>3. ASSUME NEW c \in copies, LockExpires(c) PROVE UNCHANGED Relay!vars
  BY <1>3, <1>1, UnlockAlike DEF LockExpires
<1>4. 1 \in Filters
  BY NumbersAssumption DEF Filters
<1>5. CASE Sender
  <2>1. CASE SenderStarts \/ SenderEnds
    BY <2>1, <1>2 DEF SenderStarts, SenderEnds, queues
  <2>2. CASE SenderStops
    BY <2>2, <1>4, RelayDeletes DEF SenderStops
  <2> QED  BY <1>5, <2>1, <2>2 DEF Sender
<1>6. ASSUME NEW m \in Messages, Send(m) PROVE Relay!Next
  <2> DEFINE x == [msg |-> m, via |-> <<>>, count |-> 0, locked |-> FALSE]
  <2>1. x.msg = m /\ Queue(x) = 1
    BY EmptySeq DEF Queue
  <2>2. copies' = copies \cup {x} /\ UNCHANGED dead
    BY <1>6 DEF Send
  <2> HIDE DEF x
  <2>3. At(1)' = At(1) \cup {m} /\ \A q \in Filters \ {1} : At(q)' = At(q)
    BY <1>4, <2>1, <2>2, AtAdd
  <2> QED  BY <1>6, <2>3, RelaySends DEF Send
<1>7. ASSUME NEW s \in Filters, Deliver(s) PROVE UNCHANGED Relay!vars
  BY <1>7, <1>1, DeliverAlike DEF Deliver
<1>8. ASSUME NEW s \in Filters, Handles(s) PROVE [Relay!Next]_Relay!vars
  <2>1. CASE Begins(s)
    BY <2>1, <1>2 DEF Begins, queues
  <2>2. CASE DeadLetters(s)
    BY <2>2, <1>1, DeadLettersAlike DEF DeadLetters
  <2>3. CASE FilterThrows(s) \/ SendFails(s)
    BY <2>3, <1>1, ThrowsAlike DEF FilterThrows, SendFails
  <2>4. CASE Filtered(s)
    BY <2>4, RelayFiltered
  <2>5. CASE SendsOutput(s)
    BY <2>5, RelaySendsOutput
  <2>6. CASE Completes(s)
    BY <2>6, RelayCompletes
  <2> QED  BY <1>8, <2>1, <2>2, <2>3, <2>4, <2>5, <2>6 DEF Handles
<1>9. ASSUME NEW s \in Filters,
             Starts(s) \/ Pauses(s) \/ Closes(s) \/ Stops(s) \/ Crashes(s)
      PROVE  [Relay!Next]_Relay!vars
  <2>1. CASE Starts(s) \/ Pauses(s) \/ Closes(s) \/ Crashes(s)
    BY <2>1, <1>2 DEF Starts, Pauses, Closes, Crashes, queues
  <2>2. CASE Stops(s)
    BY <2>2, RelayDeletes DEF Stops
  <2> QED  BY <1>9, <2>1, <2>2
<1>10. CASE UNCHANGED vars
  BY <1>10, <1>2 DEF vars, queues
<1> QED  BY <1>3, <1>5, <1>6, <1>7, <1>8, <1>9, <1>10 DEF Next

LEMMA InitRelay == Init => Relay!Init
BY DEF Init, Relay!Init, Relay!Stages, Filters, At

\* The pipeline implements the relay: whatever crashes, fails, is delivered
\* again or deleted, each of its steps is one of StoreAndForward, or none.
THEOREM StoresAndForwards == Spec => HopByHop
<1>1. NameIInv /\ IInv /\ HeldInv /\ [Next]_vars => [Relay!Next]_Relay!vars
  BY TypeParts, RelayStep DEF NameIInv, IInv
<1>2. Spec => []IInv
  BY InitIInv, Inductive, PTL DEF Spec
<1> QED
  BY <1>1, <1>2, InitRelay, NamesInductive, HeldInductive, PTL
  DEF Spec, HopByHop, Relay!Spec
=============================================================================
