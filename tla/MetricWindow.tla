---------------------------- MODULE MetricWindow ----------------------------
(***************************************************************************)
(* The query of has_request (infra/lambda/request_wake/handler.py): how    *)
(* its period grows with the age of the sleep.  CloudWatch answers at most *)
(* 1440 datapoints, keeps those of 60 s for 15 days and those of 300 s for *)
(* 63 days, and aligns the periods by itself, so that both ends of the     *)
(* window may lie in a period of which the rest is outside.                *)
(***************************************************************************)
EXTENDS RequestWake

Day == 86400

\* The finest datapoints there still are of the start of the window.
Unit(age) == IF age >= 63 * Day THEN 3600 ELSE IF age >= 15 * Day THEN 300 ELSE 60

\* Mutant: the number of units is rounded down.
PeriodMutant(age) ==
  LET units == age \div (Unit(age) * 1400) IN
  IF units * Unit(age) > Unit(age) THEN units * Unit(age) ELSE Unit(age)

Period(age) ==
  LET units == age \div (Unit(age) * 1400) + 1 IN
  IF units * Unit(age) > Unit(age) THEN units * Unit(age) ELSE Unit(age)

\* Periods that a window from start to one second after now can touch.
Points(age) == age \div Period(age) + 2

-----------------------------------------------------------------------------
\* CloudWatch accepts the query and has its datapoints.
Accepted(age) == Points(age) <= 1440 /\ Period(age) % Unit(age) = 0

\* Around the ages at which the unit or the period changes, up to ten months.
Edges == {60, 15 * Day, 63 * Day} \union {k * 84000 : k \in 1 .. 16}
           \union {k * 420000 : k \in 3 .. 13} \union {k * 5040000 : k \in 1 .. 5}
Ages == UNION {edge - 60 .. edge + 60 : edge \in Edges}

WindowAccepted == \A age \in Ages : Accepted(age)

\* "Delayed datapoints must not lose the only request": whenever the controller
\* asks for requests (Detect), and however long the cluster has slept by then, the
\* query is one that CloudWatch answers.
QueryAccepted == pc.stage = "detect" => WindowAccepted
=============================================================================
