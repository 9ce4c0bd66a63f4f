------------------------------ MODULE SoupSearch ------------------------------
(***************************************************************************)
(* The search of student_docker/S05.py and tools/S05_run.py: averages of     *)
(* three checkpoints, evaluated at initial points, at refinements around the *)
(* best of them, and, for a shortlist, by the full scorer.                   *)
(*                                                                         *)
(* Simplifications:                                                        *)
(*  - a weight is a multiple of 1/Unit, which the configured points and     *)
(*    steps are: equal weights have equal keys;                             *)
(*  - a metric is linear in the weights, of the configured scale: a         *)
(*    landscape gives its values at the three ends.                         *)
(***************************************************************************)
EXTENDS Integers, Sequences, FiniteSets, SequencesExt

CONSTANTS
  Unit,          \* parts of a weight
  Initial,       \* search.initial_weights, the equal thirds first
  Refinements,   \* search.refinement: pairs of a step and a number of centers
  MaxCandidates, \* search.max_candidates
  TopK,          \* search.full_top_k
  MinAus, Margin \* search.min_aus and fast_margin, on the scale of the metrics

Donors == 1..3
Weights == {w \in [Donors -> 0..Unit] : w[1] + w[2] + w[3] = Unit}

ASSUME UnitAssumption == Unit \in Nat \ {0}
ASSUME InitialAssumption ==
  Initial \in Seq(Weights) /\ Len(Initial) > 0 /\ (\A i, j \in DOMAIN Initial : Initial[i] = Initial[j] => i = j)
ASSUME RefinementAssumption == Refinements \in Seq((1..Unit) \X Nat)
ASSUME MarginAssumption == MinAus \in Nat /\ Margin \in 0..MinAus
ASSUME CountAssumption == MaxCandidates \in Nat /\ TopK \in Nat \ {0}

\* The budget covers the initial points and what the refinements may add.
Fits(budget) ==
  /\ budget[0] >= Len(Initial)
  /\ \A i \in 1..Len(Refinements) : budget[i] >= budget[i - 1] + 6 * Refinements[i][2]
BudgetSuffices == \E budget \in [0..Len(Refinements) -> 0..MaxCandidates] : Fits(budget)

\* A landscape gives, for AUS, RUS and the final score, the metric at each end.
Landscape == [aus : [Donors -> Int], rus : [Donors -> Int], final : [Donors -> Int]]
Metric(ends, w) == ends[1] * w[1] + ends[2] * w[2] + ends[3] * w[3]
Metrics(land, w) == [aus |-> Metric(land.aus, w), rus |-> Metric(land.rus, w), final |-> Metric(land.final, w)]

-----------------------------------------------------------------------------
(* Refinement *)

\* Pairs of a donor and a recipient in the order of the nested loops.
Moves == <<<<1, 2>>, <<1, 3>>, <<2, 1>>, <<2, 3>>, <<3, 1>>, <<3, 2>>>>
Shifted(w, m, step) == [w EXCEPT ![m[1]] = @ - step, ![m[2]] = @ + step]

\* The items of a sequence that are in a set, each at its first place
Firsts(q, fit) ==
  LET new == {i \in DOMAIN q : q[i] \in fit /\ \A j \in 1..i - 1 : q[j] # q[i]}
  IN  [k \in 1..Cardinality(new) |-> q[CHOOSE i \in new : Cardinality({j \in new : j < i}) = k - 1]]

\* Every shift of one step between two of the three weights of a center
Shifts(centers, step) ==
  [i \in 1..6 * Len(centers) |-> Shifted(centers[((i - 1) \div 6) + 1], Moves[((i - 1) % 6) + 1], step)]

\* Mutant: a point is not known after it has been taken up.
RefinementAgain(centers, step, seen) == SelectSeq(Shifts(centers, step), LAMBDA w : w \in Weights \ seen)

\* refinement(centers, step, seen): a donor has the step to give if all weights
\* are still weights.
Refinement(centers, step, seen) == Firsts(Shifts(centers, step), Weights \ seen)

-----------------------------------------------------------------------------
(* Ranking; a row is a candidate with its number and its metrics *)

\* _rank_key, compared from the left
Before(x, y) ==
  LET p == x.metrics
      q == y.metrics
  IN  \/ p.rus > q.rus
      \/ p.rus = q.rus /\ p.final > q.final
      \/ p.rus = q.rus /\ p.final = q.final /\ p.aus > q.aus
      \/ p = q /\ x.id < y.id

\* The order of a screen: when no row is eligible, the larger AUS comes first.
Precedes(byAus, x, y) ==
  \/ byAus /\ x.metrics.aus > y.metrics.aus
  \/ (byAus => x.metrics.aus = y.metrics.aus) /\ Before(x, y)

\* sorted(rows)[:n]: at place k the row that k - 1 others precede
SortedFirst(rows, n, byAus) ==
  [k \in 1..(IF n < Cardinality(rows) THEN n ELSE Cardinality(rows)) |->
    CHOOSE r \in rows : Cardinality({x \in rows : Precedes(byAus, x, r)}) = k - 1]

\* select_best
SelectBest(rows) ==
  LET eligible == {r \in rows : r.metrics.aus >= MinAus}
  IN  {r \in eligible : \A other \in eligible : other = r \/ Before(r, other)}

\* rank_screen(rows, MinAus, margin)[:n]: by AUS first when no row is eligible
RankScreen(rows, margin, n) ==
  LET eligible == {r \in rows : r.metrics.aus >= MinAus - margin}
  IN  IF eligible # {} THEN SortedFirst(eligible, n, FALSE) ELSE SortedFirst(rows, n, TRUE)

\* The row with the largest AUS and, of those, RUS; the first of them.
LargestAus(rows) ==
  CHOOSE r \in rows : \A x \in rows : \/ r.metrics.aus > x.metrics.aus
                                      \/ r.metrics.aus = x.metrics.aus /\ r.metrics.rus > x.metrics.rus
                                      \/ r.metrics.aus = x.metrics.aus /\ r.metrics.rus = x.metrics.rus /\ r.id <= x.id

\* Mutant: no places for those that meet the threshold as they are.
FinalistsByMargin(rows) ==
  RankScreen(rows, Margin, TopK) \o <<LargestAus(rows), CHOOSE r \in rows : r.id = 1>>

\* finalists, the repeated ones left out
Finalists(rows) ==
  LET strict == {r \in rows : r.metrics.aus >= MinAus}
      selected == RankScreen(strict, 0, TopK) \o RankScreen(rows, Margin, TopK)
                  \o <<LargestAus(rows), CHOOSE r \in rows : r.id = 1>>
  IN  Firsts(selected, rows)
=============================================================================
