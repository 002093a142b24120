----------------------------- MODULE MCNdSearch -----------------------------
(* NdSearch on the lossy register: every history of up to MaxOps           *)
(* operations over writes of the non-zero values and reads of all of them. *)
EXTENDS NdSearch, LossyRegister

CONSTANT MaxOps

Operations == { LossyWrite(v) : v \in 1..MaxValue } \cup { LossyRead(v) : v \in 0..MaxValue }

Shapes == [n \in 0..MaxOps |-> CallOrdered(n)]

MCHistories == UNION { EntryLists(Shapes[n], n, Operations) : n \in 0..MaxOps }
=============================================================================
