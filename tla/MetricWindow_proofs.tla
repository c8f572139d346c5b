------------------------- MODULE MetricWindow_proofs -------------------------
(* The query of has_request is accepted for a sleep of any length.         *)
EXTENDS MetricWindow, TLAPS

\* For one unit u: the period is a multiple of it, and 1400 of them are longer
\* than the window.
LEMMA PeriodOfUnit ==
  ASSUME NEW age \in Nat, NEW u \in {60, 300, 3600}, Unit(age) = u
  PROVE  /\ Period(age) \in Nat \ {0}
         /\ age < 1400 * Period(age)
         /\ Period(age) % u = 0
<1> DEFINE n == age \div (u * 1400)
<1>1. CASE u = 60
  <2>1. n \in Nat /\ age < (n + 1) * 84000 BY <1>1, SMT
  <2>2. Period(age) = (n + 1) * 60 BY <2>1, <1>1, SMT DEF Period
  <2> QED BY <2>1, <2>2, <1>1, SMT
<1>2. CASE u = 300
  <2>1. n \in Nat /\ age < (n + 1) * 420000 BY <1>2, SMT
  <2>2. Period(age) = (n + 1) * 300 BY <2>1, <1>2, SMT DEF Period
  <2> QED BY <2>1, <2>2, <1>2, SMT
<1>3. CASE u = 3600
  <2>1. n \in Nat /\ age < (n + 1) * 5040000 BY <1>3, SMT
  <2>2. Period(age) = (n + 1) * 3600 BY <2>1, <1>3, SMT DEF Period
  <2> QED BY <2>1, <2>2, <1>3, SMT
<1> QED BY <1>1, <1>2, <1>3

\* Whatever the age of the sleep, CloudWatch accepts the query of has_request.
THEOREM EveryAgeAccepted == \A age \in Nat : Accepted(age)
<1> SUFFICES ASSUME NEW age \in Nat PROVE Accepted(age) OBVIOUS
<1>1. Unit(age) \in {60, 300, 3600} BY DEF Unit
<1>2. PICK u \in {60, 300, 3600} : Unit(age) = u BY <1>1
<1>3. /\ Period(age) \in Nat \ {0}
      /\ age < 1400 * Period(age)
      /\ Period(age) % u = 0
  BY <1>2, PeriodOfUnit
<1>4. age \div Period(age) < 1400
  <2> DEFINE q == age \div Period(age)
  <2>1. q \in Nat /\ Period(age) * q <= age BY <1>3, SMT
  <2>2. Period(age) * q < Period(age) * 1400 BY <1>3, <2>1, SMT
  <2> QED BY <1>3, <2>1, <2>2, SMT
<1>5. age \div Period(age) \in Nat BY <1>3, SMT
<1> QED BY <1>2, <1>3, <1>4, <1>5 DEF Accepted, Points

\* The controller only ever makes queries that are accepted: the ages the model
\* checker looks at are among those of the theorem above.
THEOREM QueryAlwaysAccepted == Spec => []QueryAccepted
<1>1. \A edge \in Edges : edge \in Nat /\ edge >= 60
  <2>1. \A k \in 1 .. 16 : k * 84000 \in Nat /\ k * 84000 >= 60 BY SMT
  <2>2. \A k \in 3 .. 13 : k * 420000 \in Nat /\ k * 420000 >= 60 BY SMT
  <2>3. \A k \in 1 .. 5 : k * 5040000 \in Nat /\ k * 5040000 >= 60 BY SMT
  <2> QED BY <2>1, <2>2, <2>3 DEF Edges, Day
<1>2. Ages \subseteq Nat BY <1>1 DEF Ages
<1>3. QueryAccepted BY <1>2, EveryAgeAccepted DEF QueryAccepted, WindowAccepted
<1> QED BY <1>3, PTL
=============================================================================
