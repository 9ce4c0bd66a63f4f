------------------------- MODULE MCSubmissionClient -------------------------
EXTENDS SubmissionClient, TLC

CONSTANTS r1, r2, q1, i1, i2, a, b

TwoRequests == {r1, r2}
OneRequest == {r1}
TwoIds == {i1, i2}
Contents == {a, b}

Spend(edit, fault, crash) ==
  [c \in Costs |-> CASE c = "edit" -> edit [] c = "fault" -> fault [] c = "crash" -> crash]
SubmitBudget == Spend(1, 1, 1)
QueryBudget == Spend(1, 0, 1)

\* Requests, ids and contents are interchangeable.
Interchangeable == Permutations(TwoRequests) \cup Permutations(TwoIds) \cup Permutations(Contents)
==============================================================================
