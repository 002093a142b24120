--------------------------- MODULE NdSearch_proof ---------------------------
(***************************************************************************)
(* From the entry list to the nondeterministic model: the verdict of the   *)
(* search on the adapter is the one on the model it adapts, for every      *)
(* model, every set of well-formed lists and every moment of a kill.       *)
(***************************************************************************)
EXTENDS NdSearch, Search_proof, PowerSet_proof

(* The adapter's state, after a step that is not refused, is the image of  *)
(* the one before.                                                         *)
LEMMA StepIs ==
  ASSUME NEW E, WellFormed(E), NEW i \in Ops(E), NEW states \in State
  PROVE  /\ Image(Nd, Range(states), Label(E, i)) = {} => Apply(E, states, i) = Rejected
         /\ Image(Nd, Range(states), Label(E, i)) # {} =>
              /\ Apply(E, states, i) \in State
              /\ Range(Apply(E, states, i)) = Image(Nd, Range(states), Label(E, i))
<1>. DEFINE l == Label(E, i)
<1>1. E[CallOf(E, i)].value \in Input /\ E[ReturnOf(E, i)].value \in Output
  BY OpEntries
<1>2. Apply(E, states, i) = PowerStep(Nd, states, l)
  BY <1>1, AdapterAssumption DEF Apply, Label
<1>3. \A s \in NdState : Nd.step[<<s, l>>] \in Seq(NdState)
  BY <1>1, AdapterAssumption DEF Label
<1>4. states \in Seq(NdState)
  BY AdapterAssumption
<1>. HIDE DEF l
<1>5. /\ Image(Nd, Range(states), l) = {} => PowerStep(Nd, states, l) = NoPower
      /\ Image(Nd, Range(states), l) # {} =>
           /\ PowerStep(Nd, states, l) \in Seq(NdState)
           /\ Range(PowerStep(Nd, states, l)) = Image(Nd, Range(states), l)
  BY <1>3, <1>4, PowerStepIs
<1>6. Apply(E, states, i) \in State \cup {Rejected}
  BY ApplyType
<1>7. Image(Nd, Range(states), l) # {} => Apply(E, states, i) # Rejected
  <2>1. SUFFICES ASSUME Image(Nd, Range(states), l) # {}, PowerStep(Nd, states, l) = NoPower
                 PROVE  FALSE
    BY <1>2, AdapterAssumption
  <2>. QED BY <1>5, <2>1, AdapterAssumption
<1>. QED BY <1>2, <1>5, <1>6, <1>7, AdapterAssumption DEF l

(* What the adapter may be in, Nd may be in, having made the right choices.*)
LEMMA ChoicesExist ==
  ASSUME NEW E, WellFormed(E), NEW n \in Nat, NEW order \in [1..n -> Ops(E)],
         NEW at \in [0..n -> State], IsRun(E, InitState, n, order, at)
  PROVE  \E f \in [0..n -> NdState] : NdFollows(E, n, order, f)
<1>. DEFINE Ends(m, t) == \E f \in [0..m -> NdState] : NdFollows(E, m, order, f) /\ f[m] = t
            D == { m \in 0..n : ~ (Range(at[m]) # {} /\ \A t \in Range(at[m]) : Ends(m, t)) }
<1>1. \A m \in 0..n : at[m] \in Seq(NdState)
  BY AdapterAssumption
<1>2. ASSUME D # {} PROVE FALSE
  <2>1. PICK m \in D : \A k \in D : ~ (k < m)
    <3>1. D \subseteq Nat
      OBVIOUS
    <3>. HIDE DEF D
    <3>. QED BY <1>2, <3>1, Least
  <2>2. CASE m = 0
    <3>1. Range(at[0]) = Range(Nd.init)
      BY PowerInitIs, AdapterAssumption DEF IsRun
    <3>2. Range(Nd.init) # {}
      <4>1. Nd.init \in Seq(NdState) /\ Nd.init # <<>>
        BY AdapterAssumption
      <4>2. 1 \in DOMAIN Nd.init
        BY <4>1, EmptySeq
      <4>. QED BY <4>2 DEF Range
    <3>3. ASSUME NEW t \in Range(Nd.init) PROVE Ends(0, t)
      <4>. DEFINE f == [k \in 0..0 |-> t]
      <4>1. t \in NdState
        <5>1. Nd.init \in Seq(NdState)
          BY AdapterAssumption
        <5>. QED BY <5>1 DEF Range
      <4>2. f \in [0..0 -> NdState] /\ f[0] = t
        BY <4>1
      <4>3. NdFollows(E, 0, order, f)
        BY <4>2 DEF NdFollows
      <4>. QED BY <4>2, <4>3
    <3>. HIDE DEF Ends
    <3>. QED BY <2>2, <3>1, <3>2, <3>3
  <2>3. CASE m # 0
    <3>1. m \in 1..n /\ m \in Nat /\ m - 1 \in 0..n /\ m - 1 < m
      BY <2>3
    <3>2. Range(at[m - 1]) # {} /\ \A t \in Range(at[m - 1]) : Ends(m - 1, t)
      <4>. HIDE DEF Ends
      <4>. QED BY <2>1, <3>1
    <3>. DEFINE l == Label(E, order[m])
    <3>3. Range(at[m]) = Image(Nd, Range(at[m - 1]), l) /\ Range(at[m]) # {}
      <4>1. at[m] \in State /\ at[m] = Apply(E, at[m - 1], order[m]) /\ at[m - 1] \in State
        BY <3>1 DEF IsRun
      <4>2. order[m] \in Ops(E) /\ at[m] # Rejected
        BY <3>1, <4>1, ModelAssumption
      <4>. QED BY <4>1, <4>2, StepIs
    <3>4. ASSUME NEW t \in Range(at[m]) PROVE Ends(m, t)
      <4>1. PICK s \in Range(at[m - 1]) : t \in Range(Nd.step[<<s, l>>])
        BY <3>3 DEF Image
      <4>2. PICK g \in [0..(m - 1) -> NdState] : NdFollows(E, m - 1, order, g) /\ g[m - 1] = s
        BY <3>2
      <4>3. t \in NdState
        <5>1. at[m] \in Seq(NdState)
          BY <1>1, <3>1
        <5>. QED BY <5>1 DEF Range
      <4>4. PICK f \in [0..m -> NdState] : f[m] = t /\ \A k \in 0..(m - 1) : f[k] = g[k]
        <5>. DEFINE h == [k \in 0..m |-> IF k = m THEN t ELSE g[k]]
        <5>1. h \in [0..m -> NdState]
          BY <3>1, <4>2, <4>3
        <5>2. h[m] = t /\ \A k \in 0..(m - 1) : h[k] = g[k]
          BY <3>1
        <5>. HIDE DEF h
        <5>. QED BY <5>1, <5>2
      <4>5. f[0] \in Range(Nd.init)
        BY <3>1, <4>2, <4>4 DEF NdFollows
      <4>6. ASSUME NEW k \in 1..m PROVE f[k] \in Range(Nd.step[<<f[k - 1], Label(E, order[k])>>])
        <5>1. CASE k = m
          <6>1. f[k - 1] = s
            BY <3>1, <4>2, <4>4, <5>1
          <6>. QED BY <4>1, <4>4, <5>1, <6>1
        <5>2. CASE k # m
          <6>1. k \in 1..(m - 1) /\ k \in 0..(m - 1) /\ k - 1 \in 0..(m - 1)
            BY <3>1, <5>2
          <6>2. g[k] \in Range(Nd.step[<<g[k - 1], Label(E, order[k])>>])
            BY <4>2, <6>1 DEF NdFollows
          <6>. QED BY <4>4, <6>1, <6>2
        <5>. QED BY <5>1, <5>2
      <4>7. NdFollows(E, m, order, f)
        BY <4>5, <4>6 DEF NdFollows
      <4>. QED BY <4>4, <4>7
    <3>. HIDE DEF Ends
    <3>. QED BY <3>1, <3>3, <3>4
  <2>. QED BY <2>2, <2>3
<1>3. n \in 0..n
  OBVIOUS
<1>4. Range(at[n]) # {} /\ \A t \in Range(at[n]) : Ends(n, t)
  <2>. HIDE DEF Ends
  <2>. QED BY <1>2, <1>3
<1>. QED BY <1>4

(* What Nd has gone through, the adapter can go through.                   *)
LEMMA AdapterFollows ==
  ASSUME NEW E, WellFormed(E), NEW n \in Nat, NEW order \in [1..n -> Ops(E)],
         NEW f \in [0..n -> NdState], NdFollows(E, n, order, f)
  PROVE  \E at \in [0..n -> State] : IsRun(E, InitState, n, order, at)
<1>. DEFINE Goes(m) == \E at \in [0..m -> State] :
                         IsRun(E, InitState, m, order, at) /\ f[m] \in Range(at[m])
            D == { m \in 0..n : ~ Goes(m) }
<1>1. ASSUME D # {} PROVE FALSE
  <2>1. PICK m \in D : \A k \in D : ~ (k < m)
    <3>1. D \subseteq Nat
      OBVIOUS
    <3>. HIDE DEF D
    <3>. QED BY <1>1, <3>1, Least
  <2>2. CASE m = 0
    <3>. DEFINE at == [k \in 0..0 |-> InitState]
    <3>1. at \in [0..0 -> State] /\ at[0] = InitState
      BY ModelAssumption
    <3>2. f[0] \in Range(at[0])
      BY <3>1, PowerInitIs, AdapterAssumption DEF NdFollows
    <3>3. IsRun(E, InitState, 0, order, at)
      BY <3>1 DEF IsRun
    <3>4. Goes(0)
      BY <3>1, <3>2, <3>3
    <3>. HIDE DEF Goes
    <3>. QED BY <2>2, <3>4
  <2>3. CASE m # 0
    <3>1. m \in 1..n /\ m \in Nat /\ m - 1 \in 0..n /\ m - 1 < m
      BY <2>3
    <3>2. Goes(m - 1)
      <4>. HIDE DEF Goes
      <4>. QED BY <2>1, <3>1
    <3>3. PICK g \in [0..(m - 1) -> State] :
            IsRun(E, InitState, m - 1, order, g) /\ f[m - 1] \in Range(g[m - 1])
      BY <3>2
    <3>. DEFINE s == g[m - 1]
                t == Apply(E, s, order[m])
    <3>4. s \in State
      BY <3>1, <3>3
    <3>5. f[m] \in Image(Nd, Range(s), Label(E, order[m]))
      BY <3>1, <3>3 DEF NdFollows, Image
    <3>6. t \in State /\ f[m] \in Range(t)
      <4>. HIDE DEF s
      <4>1. order[m] \in Ops(E)
        BY <3>1
      <4>. QED BY <3>4, <3>5, <4>1, StepIs
    <3>7. PICK at \in [0..m -> State] : at[m] = t /\ \A k \in 0..(m - 1) : at[k] = g[k]
      <4>. DEFINE h == [k \in 0..m |-> IF k = m THEN t ELSE g[k]]
      <4>1. h \in [0..m -> State]
        BY <3>1, <3>3, <3>6
      <4>2. h[m] = t /\ \A k \in 0..(m - 1) : h[k] = g[k]
        BY <3>1
      <4>. HIDE DEF h, t
      <4>. QED BY <4>1, <4>2
    <3>8. at[0] = InitState
      BY <3>1, <3>3, <3>7 DEF IsRun
    <3>9. ASSUME NEW k \in 1..m PROVE at[k] \in State /\ at[k] = Apply(E, at[k - 1], order[k])
      <4>0. at[k] \in State
        BY <3>1
      <4>1. CASE k = m
        <5>1. at[k - 1] = s
          BY <3>1, <3>3, <3>7, <4>1
        <5>. HIDE DEF s
        <5>. QED BY <3>7, <4>0, <4>1, <5>1
      <4>2. CASE k # m
        <5>1. k \in 1..(m - 1) /\ k \in 0..(m - 1) /\ k - 1 \in 0..(m - 1)
          BY <3>1, <4>2
        <5>2. g[k] = Apply(E, g[k - 1], order[k])
          BY <3>3, <5>1 DEF IsRun
        <5>. QED BY <3>7, <4>0, <5>1, <5>2
      <4>. QED BY <4>1, <4>2
    <3>10. IsRun(E, InitState, m, order, at)
      BY <3>8, <3>9 DEF IsRun
    <3>11. Goes(m)
      BY <3>6, <3>7, <3>10
    <3>. HIDE DEF Goes
    <3>. QED BY <3>1, <3>11
  <2>. QED BY <2>2, <2>3
<1>2. n \in 0..n
  OBVIOUS
<1>3. Goes(n)
  <2>. HIDE DEF Goes
  <2>. QED BY <1>1, <1>2
<1>. QED BY <1>3

(* So a list has a linearization with the one iff it has with the other.   *)
LEMMA SameVerdict ==
  ASSUME NEW E, WellFormed(E), Len(E) \div 2 \in Nat
  PROVE  Linearizable(E) <=> NdLinearizable(E)
<1>. DEFINE n == Len(E) \div 2
<1>1. ASSUME Linearizable(E) PROVE NdLinearizable(E)
  <2>1. PICK order \in [1..n -> Ops(E)], at \in [0..n -> State] :
          IsOrder(E, Ops(E), n, order) /\ IsRun(E, InitState, n, order, at)
    BY <1>1 DEF Linearizable, Completable
  <2>2. \E f \in [0..n -> NdState] : NdFollows(E, n, order, f)
    <3>. HIDE DEF n
    <3>1. n \in Nat
      BY DEF n
    <3>. QED BY <2>1, <3>1, ChoicesExist
  <2>. QED BY <2>1, <2>2 DEF NdLinearizable
<1>2. ASSUME NdLinearizable(E) PROVE Linearizable(E)
  <2>1. PICK order \in [1..n -> Ops(E)], f \in [0..n -> NdState] :
          IsOrder(E, Ops(E), n, order) /\ NdFollows(E, n, order, f)
    BY <1>2 DEF NdLinearizable
  <2>2. \E at \in [0..n -> State] : IsRun(E, InitState, n, order, at)
    <3>. HIDE DEF n
    <3>1. n \in Nat
      BY DEF n
    <3>. QED BY <2>1, <3>1, AdapterFollows
  <2>. QED BY <2>1, <2>2 DEF Linearizable, Completable
<1>. QED BY <1>1, <1>2
-----------------------------------------------------------------------------
(* INV-ND-01 from end to end: what check_single answers on an adapter is   *)
(* the truth about the nondeterministic model.                             *)
THEOREM NdVerdictIsRight == Spec => []NdVerdict
<1>1. CInv => NdVerdict
  <2>. SUFFICES ASSUME CInv PROVE NdVerdict
    OBVIOUS
  <2>1. IInv /\ WellFormed(entries)
    BY DEF CInv, IInv, TypeOK
  <2>2. Len(entries) \div 2 \in Nat
    BY <2>1 DEF WellFormed
  <2>3. Linearizable(entries) <=> NdLinearizable(entries)
    BY <2>1, <2>2, SameVerdict
  <2>4. returned = "true" => Linearizable(entries)
    BY <2>1, AcceptedLinearizable
  <2>5. returned = "false" /\ ~kill => ~Linearizable(entries)
    BY RefusedHopeless DEF RefusedIsNotLinearizable
  <2>. QED BY <2>3, <2>4, <2>5 DEF NdVerdict
<1>2. Init => CInv
  BY InitComplete
<1>3. CInv /\ [Next]_vars => CInv'
  BY StepComplete
<1>. QED BY <1>1, <1>2, <1>3, PTL DEF Spec
=============================================================================
