----------------------------- MODULE MCSchedules -----------------------------
(***************************************************************************)
(* Instances of Schedules for TLC: two replicas, two schedules, two users   *)
(* and the triggers schedules have.                                         *)
(***************************************************************************)
EXTENDS Schedules, TLC

CONSTANTS w1, w2, s1, s2, q1, q2

Replicas == Permutations(Workers) \cup Permutations(Requests)

(* An interval counts from the firing, a cron expression from the clock.    *)
(* "Once" is a cron expression with one match in sight: the 29th of         *)
(* February, the first Friday the 13th for more than a year.                *)
Interval(k) == [t \in Times |-> t + k]
Cron(k)     == [t \in Times |-> (t \div k + 1) * k]
Once        == [t \in Times |-> IF t < 1 THEN 1 ELSE Never]

EveryMinute == [s \in Schedules |-> Interval(1)]
Mixed       == [s \in Schedules |-> IF s = s1 THEN Interval(1) ELSE Cron(2)]
RareFirst   == [s \in Schedules |-> IF s = s1 THEN Once ELSE Interval(1)]

=============================================================================
