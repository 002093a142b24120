------------------------- MODULE PowerSetRun_proof -------------------------
(***************************************************************************)
(* Proofs about PowerSetRun: the two adapters follow every run of every    *)
(* nondeterministic model and nothing else, for any number of steps.       *)
(***************************************************************************)
EXTENDS PowerSetRun, PowerSet_proof

IInv ==
  /\ nd \in NdModels
  /\ labels \in Seq(Labels)
  /\ power \in Seq(NdState) \cup {NoPower}
  /\ PowerIsReachable
  /\ NoDuplicates
  /\ AdaptersAgree

(* Before any operation the initial states are reachable.                  *)
LEMMA ReachableAtFirst ==
  ASSUME nd \in NdModels, labels = <<>>
  PROVE  NdReachable = Range(nd.init)
<1>1. Len(labels) = 0 /\ DOMAIN labels = {}
  OBVIOUS
<1>2. Range(nd.init) \subseteq NdState
  BY NdAssumption DEF Range
<1>3. ASSUME NEW s \in Range(nd.init) PROVE s \in NdReachable
  <2>. DEFINE at == [k \in 0..0 |-> s]
  <2>1. at \in [0..Len(labels) -> NdState] /\ at[0] = s
    BY <1>1, <1>2
  <2>2. IsNdRun(at)
    BY <1>1, <2>1 DEF IsNdRun
  <2>. QED BY <1>1, <2>1, <2>2 DEF NdReachable
<1>4. ASSUME NEW s \in NdReachable PROVE s \in Range(nd.init)
  BY <1>1 DEF NdReachable, IsNdRun
<1>. QED BY <1>3, <1>4

(* One operation more, and what can be reached is what a step leads to.    *)
LEMMA ReachableNext ==
  ASSUME nd \in NdModels, labels \in Seq(Labels), NEW l \in Labels,
         labels' = Append(labels, l), UNCHANGED nd
  PROVE  NdReachable' = Image(nd, NdReachable, l)
<1>. DEFINE n == Len(labels)
<1>1. /\ n \in Nat /\ Len(labels') = n + 1 /\ DOMAIN labels = 1..n /\ DOMAIN labels' = 1..(n + 1)
      /\ labels'[n + 1] = l /\ \A k \in 1..n : labels'[k] = labels[k]
  OBVIOUS
<1>2. ASSUME NEW t \in NdReachable'
      PROVE  \E s \in NdReachable : t \in Range(nd.step[<<s, l>>])
  <2>1. PICK at \in [0..(n + 1) -> NdState] : IsNdRun(at)' /\ t = at[n + 1]
    BY <1>1 DEF NdReachable
  <2>. DEFINE before == [k \in 0..n |-> at[k]]
  <2>2. before \in [0..n -> NdState]
    BY <1>1
  <2>3. IsNdRun(before)
    <3>1. before[0] \in Range(nd.init)
      BY <1>1, <2>1 DEF IsNdRun
    <3>2. ASSUME NEW k \in 1..n PROVE before[k] \in Range(nd.step[<<before[k - 1], labels[k]>>])
      <4>1. k \in 0..n /\ k - 1 \in 0..n /\ k \in 1..(n + 1)
        BY <1>1
      <4>2. at[k] \in Range(nd.step[<<at[k - 1], labels[k]>>])
        BY <1>1, <2>1, <4>1 DEF IsNdRun
      <4>3. before[k] = at[k] /\ before[k - 1] = at[k - 1]
        BY <4>1
      <4>. HIDE DEF before
      <4>. QED BY <4>2, <4>3
    <3>. HIDE DEF before
    <3>. QED BY <1>1, <3>1, <3>2 DEF IsNdRun
  <2>4. before[n] \in NdReachable
    <3>. HIDE DEF before
    <3>. QED BY <2>2, <2>3 DEF NdReachable
  <2>5. at[n + 1] \in Range(nd.step[<<at[n], l>>])
    <3>1. n + 1 \in 1..(n + 1) /\ (n + 1) - 1 = n
      BY <1>1
    <3>2. at[n + 1] \in Range(nd.step[<<at[(n + 1) - 1], labels'[n + 1]>>])
      BY <1>1, <2>1, <3>1 DEF IsNdRun
    <3>. QED BY <1>1, <3>1, <3>2
  <2>6. before[n] = at[n]
    BY <1>1
  <2>. QED BY <2>1, <2>4, <2>5, <2>6
<1>3. ASSUME NEW s \in NdReachable, NEW t \in Range(nd.step[<<s, l>>])
      PROVE  t \in NdReachable'
  <2>1. PICK before \in [0..n -> NdState] : IsNdRun(before) /\ s = before[n]
    BY DEF NdReachable
  <2>2. s \in NdState
    BY <1>1, <2>1
  <2>3. t \in NdState
    <3>1. nd.step[<<s, l>>] \in Seq(NdState)
      BY <2>2, NdAssumption
    <3>. QED BY <3>1 DEF Range
  <2>4. PICK at \in [0..(n + 1) -> NdState] :
          at[n + 1] = t /\ \A k \in 0..n : at[k] = before[k]
    <3>. DEFINE f == [k \in 0..(n + 1) |-> IF k = n + 1 THEN t ELSE before[k]]
    <3>1. f \in [0..(n + 1) -> NdState]
      BY <1>1, <2>1, <2>3
    <3>2. f[n + 1] = t /\ \A k \in 0..n : f[k] = before[k]
      BY <1>1
    <3>. HIDE DEF f
    <3>. QED BY <3>1, <3>2
  <2>5. at[0] \in Range(nd.init)
    BY <1>1, <2>1, <2>4 DEF IsNdRun
  <2>6. ASSUME NEW k \in 1..(n + 1) PROVE at[k] \in Range(nd.step[<<at[k - 1], labels'[k]>>])
    <3>1. CASE k = n + 1
      <4>1. at[k - 1] = s
        BY <1>1, <2>1, <2>4, <3>1
      <4>. QED BY <1>1, <1>3, <2>4, <3>1, <4>1
    <3>2. CASE k # n + 1
      <4>1. k \in 1..n /\ k \in 0..n /\ k - 1 \in 0..n
        BY <1>1, <3>2
      <4>2. before[k] \in Range(nd.step[<<before[k - 1], labels[k]>>])
        BY <1>1, <2>1, <4>1 DEF IsNdRun
      <4>. QED BY <1>1, <2>4, <4>1, <4>2
    <3>. QED BY <3>1, <3>2
  <2>7. IsNdRun(at)'
    BY <1>1, <2>5, <2>6 DEF IsNdRun
  <2>. QED BY <1>1, <2>4, <2>7 DEF NdReachable
<1>. QED BY <1>2, <1>3 DEF Image

LEMMA InitInv == Init => IInv
<1>. SUFFICES ASSUME Init PROVE IInv
  OBVIOUS
<1>1. nd \in NdModels /\ nd.init \in Seq(NdState) /\ labels = <<>> /\ labels \in Seq(Labels)
  BY NdAssumption DEF Init
<1>2. /\ power \in Seq(NdState) /\ Range(power) = Range(nd.init)
      /\ IsInjective(power) /\ hashed = power
  BY <1>1, PowerInitIs DEF Init
<1>3. NdReachable = Range(nd.init)
  BY <1>1, ReachableAtFirst
<1>. QED
  BY <1>1, <1>2, <1>3, NdAssumption
     DEF IInv, PowerIsReachable, NoDuplicates, AdaptersAgree

LEMMA StepInv == IInv /\ [Next]_vars => IInv'
<1>. SUFFICES ASSUME IInv, [Next]_vars PROVE IInv'
  OBVIOUS
<1>1. CASE UNCHANGED vars
  BY <1>1
     DEF IInv, vars, PowerIsReachable, NoDuplicates, AdaptersAgree, NdReachable, IsNdRun
<1>2. ASSUME NEW l \in Labels, Apply(l) PROVE IInv'
  <2>1. /\ power # NoPower /\ labels' = Append(labels, l) /\ UNCHANGED nd
        /\ power' = PowerStep(nd, power, l) /\ hashed' = HashedStep(nd, power, l)
    BY <1>2 DEF Apply, IInv, AdaptersAgree
  <2>2. nd \in NdModels /\ power \in Seq(NdState) /\ Range(power) = NdReachable
    BY <2>1 DEF IInv, PowerIsReachable
  <2>3. labels' \in Seq(Labels)
    BY <2>1 DEF IInv
  <2>. DEFINE after == Image(nd, Range(power), l)
  <2>4. /\ after = {} => power' = NoPower
        /\ after # {} => power' \in Seq(NdState) /\ Range(power') = after /\ IsInjective(power')
        /\ hashed' = power'
    <3>1. \A s \in NdState : nd.step[<<s, l>>] \in Seq(NdState)
      BY <2>2, NdAssumption
    <3>. QED BY <2>1, <2>2, <3>1, PowerStepIs
  <2>5. NdReachable' = after
    BY <2>1, <2>2, ReachableNext DEF IInv
  <2>. HIDE DEF after
  <2>6. PowerIsReachable'
    <3>1. CASE after = {}
      BY <2>4, <2>5, <3>1 DEF PowerIsReachable
    <3>2. CASE after # {}
      <4>1. power' # NoPower
        BY <2>4, <3>2, NdAssumption
      <4>. QED BY <2>4, <2>5, <3>2, <4>1 DEF PowerIsReachable
    <3>. QED BY <3>1, <3>2
  <2>7. NoDuplicates' /\ AdaptersAgree' /\ power' \in Seq(NdState) \cup {NoPower}
    BY <2>4 DEF NoDuplicates, AdaptersAgree
  <2>. QED BY <2>1, <2>2, <2>3, <2>6, <2>7 DEF IInv
<1>. QED BY <1>1, <1>2 DEF Next

LEMMA Always == Spec => []IInv
BY InitInv, StepInv, PTL DEF Spec
-----------------------------------------------------------------------------
(* INV-ND-01: whatever nd lists, and after any number of operations, the   *)
(* power state holds the states that a run of nd ends in, and no others.   *)
THEOREM PowerFollowsEveryRun == Spec => []PowerIsReachable
<1>1. IInv => PowerIsReachable
  BY DEF IInv
<1>. QED BY <1>1, Always, PTL

(* INV-ND-01, part 3: no power state lists a state twice.                  *)
THEOREM PowerStatesAreSets == Spec => []NoDuplicates
<1>1. IInv => NoDuplicates
  BY DEF IInv
<1>. QED BY <1>1, Always, PTL

(* PowerSetModel and HashedPowerSetModel are the same model.               *)
THEOREM AdaptersAreOne == Spec => []AdaptersAgree
<1>1. IInv => AdaptersAgree
  BY DEF IInv
<1>. QED BY <1>1, Always, PTL
=============================================================================
