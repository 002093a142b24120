----------------------------- MODULE MCChecker -----------------------------
(* Checker on up to three partitions with 0, 2 or 4 entries, two workers   *)
(* and a threshold of 6 entries: two partitions of 2 entries are searched  *)
(* sequentially, and 2 + 4 or more by the workers.                         *)
EXTENDS Checker, TLC

CONSTANTS p1, p2, p3, w1, w2

TwoPartitions   == {p1, p2}
ThreePartitions == {p1, p2, p3}
TwoWorkers      == {w1, w2}
LastPartition   == {p2}

Symmetry == Permutations(ThreePartitions) \cup Permutations(TwoWorkers)
=============================================================================
