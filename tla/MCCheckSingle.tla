--------------------------- MODULE MCCheckSingle ---------------------------
(* CheckSingle on every register history of up to MaxOps operations, with  *)
(* words of W bits so that a bitset takes several of them.                 *)
EXTENDS CheckSingle, RegisterModel

CONSTANT MaxOps

Operations == { Write(v) : v \in 1..MaxValue } \cup { Read(v) : v \in 0..MaxValue }

Shapes == [n \in 0..MaxOps |-> CallOrdered(n)]

MCHistories == UNION { EntryLists(Shapes[n], n, Operations) : n \in 0..MaxOps }
=============================================================================
