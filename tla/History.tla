------------------------------ MODULE History ------------------------------
(***************************************************************************)
(* The data a linearizability check works on: a sequential model (the      *)
(* Model trait of src/model.rs), the entry list a partition is flattened   *)
(* into (Entry of src/checker.rs) and the definition of a linearization    *)
(* of such a list.                                                         *)
(*                                                                         *)
(* An entry is one end of an operation: its call, carrying the input, or   *)
(* its return, carrying the output.  The position of an entry in the list  *)
(* is its time: the `time` field is only read by the sort that builds the  *)
(* list.                                                                   *)
(***************************************************************************)
EXTENDS Naturals, Sequences

CONSTANTS
  State,        \* Model::State
  Input,        \* Model::Input
  Output,       \* Model::Output
  InitState,    \* the value of Model::init
  Rejected,     \* the None of Model::step
  Step(_, _, _) \* Model::step

ASSUME ModelAssumption ==
  /\ InitState \in State
  /\ Rejected \notin State
  /\ \A s \in State, i \in Input, o \in Output :
       Step(s, i, o) \in State \cup {Rejected}

IsCall(E, p)   == E[p].kind = "call"
IsReturn(E, p) == E[p].kind = "return"

Ops(E) == { E[p].id : p \in DOMAIN E }

(* Every operation of the list is exactly one call followed by one return. *)
WellFormed(E) ==
  /\ Len(E) \in Nat /\ DOMAIN E = 1..Len(E)
  /\ \A i \in Ops(E) : \E c, r \in DOMAIN E :
       /\ c < r
       /\ IsCall(E, c) /\ E[c].value \in Input
       /\ IsReturn(E, r) /\ E[r].value \in Output
       /\ \A p \in DOMAIN E : E[p].id = i <=> p \in {c, r}

CallOf(E, i)   == CHOOSE p \in DOMAIN E : E[p].id = i /\ IsCall(E, p)
ReturnOf(E, i) == CHOOSE p \in DOMAIN E : E[p].id = i /\ IsReturn(E, p)

(* The model's answer to operation i, as E records it, in state s. *)
Apply(E, s, i) == Step(s, E[CallOf(E, i)].value, E[ReturnOf(E, i)].value)

(* Operation i has returned before operation j is called. *)
Precedes(E, i, j) == ReturnOf(E, i) < CallOf(E, j)

(* order[1], ..., order[n] is every operation of S once, in an order that  *)
(* respects real time.                                                     *)
IsOrder(E, S, n, order) ==
  /\ { order[k] : k \in 1..n } = S
  /\ \A j, k \in 1..n :
       j < k => order[j] # order[k] /\ ~ Precedes(E, order[k], order[j])

(* The model, in state s, accepts them one by one, passing through at.     *)
IsRun(E, s, n, order, at) ==
  /\ at[0] = s
  /\ \A k \in 1..n : /\ at[k] \in State
                     /\ at[k] = Apply(E, at[k - 1], order[k])

IsLinearization(E, n, order, at) ==
  IsOrder(E, Ops(E), n, order) /\ IsRun(E, InitState, n, order, at)

(* The operations of S, n in number, can follow state s. *)
Completable(E, S, n, s) ==
  \E order \in [1..n -> S] :
    /\ IsOrder(E, S, n, order)
    /\ \E at \in [0..n -> State] : IsRun(E, s, n, order, at)

Linearizable(E) == Completable(E, Ops(E), Len(E) \div 2, InitState)
=============================================================================
