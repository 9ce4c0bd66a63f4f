--------------------------- MODULE MCSnapshotStore ---------------------------
(* Instances of SnapshotStore: values for its constants. *)
EXTENDS SnapshotStore, TLC

CONSTANTS t1, t2, t3, p1, p2, i1, i2, n1, n2, a, b, r1

OneThread == t1 :> p1
TwoProcs == t1 :> p1 @@ t2 :> p2
SharedProc == t1 :> p1 @@ t2 :> p1 @@ t3 :> p2

\* Two checkpoints of two blocks that differ in both blocks.
TwoFiles == n1 :> <<a, a>> @@ n2 :> <<b, b>>
SmallFiles == n1 :> <<a>> @@ n2 :> <<b>>

Spend(e, f, c, p, k) ==
  [cost \in Costs |-> CASE cost = "edit" -> e [] cost = "fault" -> f
                        [] cost = "crash" -> c [] cost = "power" -> p
                        [] cost = "call" -> k]
PowerBudget == Spend(2, 1, 1, 1, 2)
LiveBudget == Spend(0, 1, 1, 0, 3)
RetryBudget == Spend(0, 0, 1, 1, 2)
==============================================================================
