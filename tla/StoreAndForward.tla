--------------------------- MODULE StoreAndForward ---------------------------
(***************************************************************************)
(* What a pipeline of queues promises: each stage forwards what is in it   *)
(* to the next one, and forgets it only when it is known to be further on. *)
(* A message may be forwarded and received any number of times.  Only the  *)
(* deletion of a stage takes messages away, and what was in work there may *)
(* still go on.                                                            *)
(***************************************************************************)
EXTENDS Naturals

CONSTANTS Messages, N

Stages == 1..N

VARIABLES
  at,        \* the messages in each stage
  sent, received,
  purged     \* messages that were in a stage when it was deleted

vars == <<at, sent, received, purged>>

Init ==
  /\ at = [s \in Stages |-> {}]
  /\ sent = {} /\ received = {} /\ purged = {}

\* m is beyond stage s, or was taken away.
Further(m, s) ==
  m \in received \cup purged \/ \E t \in Stages : t > s /\ m \in at[t]

Send(m) ==
  /\ m \notin sent
  /\ sent' = sent \cup {m}
  /\ at' = [at EXCEPT ![1] = @ \cup {m}]
  /\ UNCHANGED <<received, purged>>

Forward(m, s) ==
  /\ m \in at[s] \cup purged /\ s # N
  /\ at' = [at EXCEPT ![s + 1] = @ \cup {m}]
  /\ UNCHANGED <<sent, received, purged>>

Receive(m) ==
  /\ m \in at[N] \cup purged
  /\ received' = received \cup {m}
  /\ UNCHANGED <<at, sent, purged>>

Forget(m, s) ==
  /\ m \in at[s] /\ Further(m, s)
  /\ at' = [at EXCEPT ![s] = @ \ {m}]
  /\ UNCHANGED <<sent, received, purged>>

Delete(s) ==
  /\ at' = [at EXCEPT ![s] = {}]
  /\ purged' = purged \cup at[s]
  /\ UNCHANGED <<sent, received>>

Next ==
  \/ \E m \in Messages : Send(m) \/ Receive(m)
  \/ \E m \in Messages, s \in Stages : Forward(m, s) \/ Forget(m, s)
  \/ \E s \in Stages : Delete(s)

Spec == Init /\ [][Next]_vars
=============================================================================
