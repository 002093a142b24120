----------------------------- MODULE NodeArena -----------------------------
(***************************************************************************)
(* The index-based doubly linked list of src/checker.rs.  An arena is a    *)
(* function from node indices to nodes; index 0 is the sentinel HEAD and   *)
(* index p is the entry at position p of the list.                         *)
(***************************************************************************)
EXTENDS History

CONSTANT NONE   \* NodeRef::NONE

ASSUME NoneAssumption == NONE \notin Nat

(* The return node of operation i, NONE if there is none. *)
return_idx(E, i) ==
  IF \E p \in DOMAIN E : E[p].id = i /\ IsReturn(E, p)
  THEN ReturnOf(E, i) ELSE NONE

from_entriesPastEnd(E) ==                                 \* mutant
  [p \in 0..Len(E) |->
    [id        |-> IF p = 0 THEN NONE ELSE E[p].id,
     match_idx |-> IF p > 0 /\ IsCall(E, p) THEN return_idx(E, E[p].id) ELSE NONE,
     prev      |-> IF p = 0 THEN 0 ELSE p - 1,
     next      |-> p + 1]]

from_entries(E) ==
  LET n == Len(E) IN
  [p \in 0..n |->
    [id        |-> IF p = 0 THEN NONE ELSE E[p].id,
     match_idx |-> IF p > 0 /\ IsCall(E, p) THEN return_idx(E, E[p].id) ELSE NONE,
     prev      |-> IF p = 0 THEN 0 ELSE p - 1,
     next      |-> IF p < n THEN p + 1 ELSE NONE]]

head_next(A)   == A[0].next
next_of(A, p)  == A[p].next
match_of(A, p) == A[p].match_idx

SetNext(A, p, q) == [A EXCEPT ![p].next = q]
SetPrev(A, p, q) == IF p = NONE THEN A ELSE [A EXCEPT ![p].prev = q]

(* Node p keeps its own links, by which it can be put back. *)
UnlinkNextOnly(A, p) == SetNext(A, A[p].prev, A[p].next)  \* mutant
Unlink(A, p) == SetPrev(SetNext(A, A[p].prev, A[p].next), A[p].next, A[p].prev)
Relink(A, p) == SetPrev(SetNext(A, A[p].prev, p), A[p].next, p)

lift(A, c) == Unlink(Unlink(A, c), A[c].match_idx)

unlift(A, c) == Relink(Relink(A, A[c].match_idx), c)
-----------------------------------------------------------------------------
IsNext(S, p, q) ==
  IF \E r \in S : r > p
  THEN q \in S /\ q > p /\ \A r \in S : r > p => r >= q
  ELSE q = NONE

IsPrev(S, p, q) ==
  q \in S \cup {0} /\ q < p /\ \A r \in S : r < p => r <= q

(* The list holds exactly the nodes of S, in the order of time, and its    *)
(* prev links mirror its next links.                                       *)
Links(A, S) ==
  /\ \A p \in S \cup {0} : IsNext(S, p, A[p].next)
  /\ \A p \in S : IsPrev(S, p, A[p].prev)
=============================================================================
