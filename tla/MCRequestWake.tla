---------------------------- MODULE MCRequestWake ----------------------------
(* Instances of RequestWake for TLC. *)
EXTENDS MetricWindow

\* The smallest groups a wake fits into, and one more node in each.
TightSize == [g \in Groups |-> WakeSize[g]]
RoomySize == [g \in Groups |-> WakeSize[g] + 1]
=============================================================================
