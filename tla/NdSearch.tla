------------------------------ MODULE NdSearch ------------------------------
(***************************************************************************)
(* Search on a model made from a nondeterministic one by PowerSetModel of  *)
(* src/model.rs: what a verdict on the one says of the other.              *)
(***************************************************************************)
EXTENDS Search, PowerSet

CONSTANTS
  Nd,        \* the nondeterministic model
  NdState    \* its states

(* The model of the search is the adapter of Nd, which can begin. *)
ASSUME AdapterAssumption ==
  /\ State \subseteq Seq(NdState) /\ NoPower \notin Seq(NdState)
  /\ Nd.init \in Seq(NdState) /\ Nd.init # <<>>
  /\ \A s \in NdState, i \in Input, o \in Output :
       Nd.step[<<s, <<i, o>>>>] \in Seq(NdState)
  /\ InitState = PowerInit(Nd)
  /\ Rejected = NoPower
  /\ \A states \in State, i \in Input, o \in Output :
       Step(states, i, o) = PowerStep(Nd, states, <<i, o>>)

(* The input of operation i with the output recorded for it. *)
Label(E, i) == <<E[CallOf(E, i)].value, E[ReturnOf(E, i)].value>>

(* Nd itself follows the first n operations of the order through at. *)
NdFollows(E, n, order, at) ==
  /\ at[0] \in Range(Nd.init)
  /\ \A k \in 1..n : at[k] \in Range(Nd.step[<<at[k - 1], Label(E, order[k])>>])

(* A linearization of the list that the nondeterministic model can follow, *)
(* making one choice or another at every operation.                        *)
NdLinearizable(E) ==
  LET n == Len(E) \div 2 IN
  \E order \in [1..n -> Ops(E)] :
    /\ IsOrder(E, Ops(E), n, order)
    /\ \E at \in [0..n -> NdState] : NdFollows(E, n, order, at)

(* INV-ND-01: checked through PowerSetModel, a history is accepted exactly *)
(* when the nondeterministic model has a run along some linearization.     *)
NdVerdict ==
  /\ returned = "true" => NdLinearizable(entries)
  /\ returned = "false" /\ ~kill => ~NdLinearizable(entries)
=============================================================================
