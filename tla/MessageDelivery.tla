-------------------------- MODULE MessageDelivery --------------------------
(***************************************************************************)
(* What the messaging samples promise for their messages, whatever         *)
(* crashes, is delivered twice or is stopped: a message leaves the queue   *)
(* as completed only after somebody has processed it, what became of it is *)
(* final, and one that is given up is kept apart.  Only with its queue,    *)
(* or for want of one to lie in, is a message lost.                        *)
(***************************************************************************)
CONSTANT Messages

VARIABLES fate, processed

vars == <<fate, processed>>

Fates == {"unsent", "waiting", "completed", "dead", "lost"}

Init ==
  /\ fate = [m \in Messages |-> "unsent"]
  /\ processed = {}

Become(S, f) == fate' = [m \in Messages |-> IF m \in S THEN f ELSE fate[m]]

Send(S) ==
  /\ \A m \in S : fate[m] = "unsent"
  /\ \E f \in {"waiting", "lost"} : Become(S, f)
  /\ UNCHANGED processed

\* At least once: also a message whose fate is settled may be processed again.
Process(m) ==
  /\ fate[m] # "unsent"
  /\ processed' = processed \cup {m}
  /\ UNCHANGED fate

Complete(m) ==
  /\ fate[m] = "waiting" /\ m \in processed
  /\ Become({m}, "completed")
  /\ UNCHANGED processed

DeadLetter(m) ==
  /\ fate[m] = "waiting"
  /\ Become({m}, "dead")
  /\ UNCHANGED processed

Lose(S) ==
  /\ \A m \in S : fate[m] \in {"waiting", "dead"}
  /\ Become(S, "lost")
  /\ UNCHANGED processed

Next ==
  \/ \E S \in SUBSET Messages : Send(S) \/ Lose(S)
  \/ \E m \in Messages : Process(m) \/ Complete(m) \/ DeadLetter(m)

Spec == Init /\ [][Next]_vars
=============================================================================
