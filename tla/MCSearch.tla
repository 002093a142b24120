------------------------------ MODULE MCSearch ------------------------------
(* Search on every register history of up to MaxOps operations, numbered   *)
(* in the order of their calls, over writes of the non-zero values and     *)
(* reads of all of them.                                                   *)
EXTENDS Search, RegisterModel

CONSTANT MaxOps

Operations == { Write(v) : v \in 1..MaxValue } \cup { Read(v) : v \in 0..MaxValue }

Shapes == [n \in 0..MaxOps |-> CallOrdered(n)]

MCHistories == UNION { EntryLists(Shapes[n], n, Operations) : n \in 0..MaxOps }
=============================================================================
