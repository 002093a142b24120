---------------------------- MODULE PowerSetRun ----------------------------
(***************************************************************************)
(* The two adapters of module PowerSet taken through the same steps, as    *)
(* check_single takes them along one linearization, next to the runs of    *)
(* the nondeterministic model they stand for.                              *)
(***************************************************************************)
EXTENDS PowerSet

CONSTANTS
  NdState,   \* the states of the nondeterministic model
  Labels,    \* its inputs with their outputs
  NdModels,  \* the models to adapt
  MaxSteps   \* bound: the most operations applied

ASSUME NdAssumption ==
  /\ NoPower \notin Seq(NdState)
  /\ \A m \in NdModels :
       /\ m.init \in Seq(NdState)
       /\ \A s \in NdState, l \in Labels : m.step[<<s, l>>] \in Seq(NdState)

VARIABLES
  nd,      \* the model adapted
  labels,  \* the operations applied so far
  power,   \* PowerSetModel's state after them
  hashed   \* HashedPowerSetModel's

vars == <<nd, labels, power, hashed>>

Init ==
  /\ nd \in NdModels
  /\ labels = <<>>
  /\ power = PowerInit(nd)
  /\ hashed = HashedInit(nd)

Apply(l) ==
  /\ power # NoPower /\ hashed # NoPower
  /\ Len(labels) < MaxSteps
  /\ power' = PowerStep(nd, power, l)
  /\ hashed' = HashedStep(nd, hashed, l)
  /\ labels' = Append(labels, l)
  /\ UNCHANGED nd

Next == \E l \in Labels : Apply(l)

Spec == Init /\ [][Next]_vars

-----------------------------------------------------------------------------
(* A run of the nondeterministic model itself. *)
IsNdRun(at) ==
  /\ at[0] \in Range(nd.init)
  /\ \A k \in DOMAIN labels : at[k] \in Range(nd.step[<<at[k - 1], labels[k]>>])

NdReachable ==
  { at[Len(labels)] : at \in { f \in [0..Len(labels) -> NdState] : IsNdRun(f) } }

(* INV-ND-01: after any operations the power state holds exactly the       *)
(* states that some run of the nondeterministic model ends in, and the     *)
(* step is rejected exactly when there is no such run.                     *)
PowerIsReachable ==
  IF power = NoPower THEN NdReachable = {} ELSE Range(power) = NdReachable

(* INV-ND-01, part 3: no state is in a power state twice, however often    *)
(* init or step lists it and however many states lead to it.               *)
NoDuplicates == power # NoPower => IsInjective(power)

(* The two adapters pass through the same states, listed in the same       *)
(* order: as sequences they are what the cache of the search compares.     *)
AdaptersAgree == hashed = power
=============================================================================
