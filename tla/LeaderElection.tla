--------------------------- MODULE LeaderElection ---------------------------
(***************************************************************************)
(* What the distributed mutex promises to the role instances that use it,  *)
(* without leases, calls or time.  At most one instance is the leader, in  *)
(* the sense that its leader task has not been told to stop.  A leader     *)
(* loses the role at any time, and its task may then go on with the round  *)
(* it is in, next to the work of a new leader; but the instance itself is  *)
(* not elected again before that task has ended.                           *)
(***************************************************************************)
CONSTANT Instances

VARIABLES
  leaders,    \* the instances whose leader task runs and is not cancelled
  working     \* the instances whose leader task has not ended

vars == <<leaders, working>>

Init ==
  /\ leaders = {}
  /\ working = {}

Elect(i) ==
  /\ leaders = {}
  /\ i \notin working
  /\ leaders' = {i}
  /\ working' = working \cup {i}

\* The lease is lost, or the instance is being stopped.
Cancel(i) ==
  /\ i \in leaders
  /\ leaders' = {}
  /\ UNCHANGED working

\* A leader task ends: cancelled, by an exception, or with its process.
Finish(i) ==
  /\ i \in working
  /\ leaders' = leaders \ {i}
  /\ working' = working \ {i}

Next == \E i \in Instances : Elect(i) \/ Cancel(i) \/ Finish(i)

Spec == Init /\ [][Next]_vars
=============================================================================
