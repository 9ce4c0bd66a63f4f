------------------------------- MODULE MCSuites -------------------------------
EXTENDS Suites

CONSTANTS r1, r2, s3, s4, t4, s5, a, b, c, d, e

Runners == {r1, r2, s3, s4, t4, s5}
TheSuites == {s3, s4, t4, s5}
Configs == {a, b, c, d, e}
Programs == [s \in TheSuites |-> IF s = s3 THEN "S03" ELSE IF s = s5 THEN "S05" ELSE "S04"]

\* Both runners work on one configuration; S05 trains nothing.
TheWork ==
  [r \in Runners |-> CASE r = r1 -> <<a, b>> [] r = r2 -> <<a>> [] r = s3 -> <<c>>
                      [] r \in {s4, t4} -> <<d, e>> [] r = s5 -> <<>>]
TheLaunches == {{r1, r2}, {s3, r2}, {s4, r2}, {s4, t4}, {s5}}

\* configs/S05.yaml; the last point is the first checkpoint by itself
NinePoints ==
  <<<<40, 40, 40>>, <<60, 36, 24>>, <<60, 24, 36>>, <<48, 48, 24>>, <<48, 24, 48>>, <<72, 24, 24>>,
    <<120, 0, 0>>, <<0, 120, 0>>, <<0, 0, 120>>>>
TwoRefinements == <<<<6, 2>>, <<3, 1>>>>

Land(aus, rus) == [aus |-> aus, rus |-> rus, final |-> [i \in 1..3 |-> aus[i] + rus[i]]]
Both(l) == [fast |-> l, full |-> l]

\* RUS against AUS; only just infeasible points of more RUS; nothing feasible;
\* all alike; and a fast evaluation that is too optimistic.
TheLandscapes ==
  {Both(Land(<<100, 89, 89>>, <<50, 70, 90>>)), Both(Land(<<96, 95, 94>>, <<50, 60, 70>>)),
   Both(Land(<<80, 70, 60>>, <<50, 60, 70>>)), Both(Land(<<95, 95, 95>>, <<50, 50, 50>>)),
   [fast |-> Land(<<96, 95, 94>>, <<50, 60, 70>>), full |-> Land(<<94, 94, 94>>, <<50, 60, 70>>)]}

\* 9 initial points, and 6 around each of 2 centers and of 1
ASSUME ConfiguredBudget == BudgetSuffices
===============================================================================
