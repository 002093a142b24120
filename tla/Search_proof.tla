---------------------------- MODULE Search_proof ----------------------------
(***************************************************************************)
(* Proofs about Search, for every model, every set of well-formed entry    *)
(* lists and every moment at which the kill flag is raised: the stack is   *)
(* an execution (soundness), and what is refused or pruned by the cache    *)
(* has no linearization (completeness).                                    *)
(***************************************************************************)
EXTENDS Search, SequenceTheorems, FiniteSetTheorems, WellFoundedInduction, TLAPS

-----------------------------------------------------------------------------
(* The two entries of an operation, and their order, in a well-formed list *)
(* (what match_idx is filled in from).                                     *)
LEMMA OpEntries ==
  ASSUME NEW E, WellFormed(E), NEW i \in Ops(E)
  PROVE  /\ CallOf(E, i) \in DOMAIN E /\ E[CallOf(E, i)].id = i
         /\ IsCall(E, CallOf(E, i)) /\ E[CallOf(E, i)].value \in Input
         /\ ReturnOf(E, i) \in DOMAIN E /\ E[ReturnOf(E, i)].id = i
         /\ IsReturn(E, ReturnOf(E, i)) /\ E[ReturnOf(E, i)].value \in Output
         /\ CallOf(E, i) < ReturnOf(E, i)
         /\ \A p \in DOMAIN E :
              E[p].id = i => p = CallOf(E, i) \/ p = ReturnOf(E, i)
<1>1. PICK c, r \in DOMAIN E :
        /\ c < r
        /\ IsCall(E, c) /\ E[c].value \in Input
        /\ IsReturn(E, r) /\ E[r].value \in Output
        /\ \A p \in DOMAIN E : E[p].id = i <=> p \in {c, r}
  BY DEF WellFormed
<1>2. ~IsCall(E, r) /\ ~IsReturn(E, c)
  BY <1>1 DEF IsCall, IsReturn
<1>3. CallOf(E, i) = c
  BY <1>1, <1>2 DEF CallOf
<1>4. ReturnOf(E, i) = r
  BY <1>1, <1>2 DEF ReturnOf
<1>. QED BY <1>1, <1>3, <1>4

(* Every position of a well-formed list is the call or the return of its   *)
(* operation and never both, so check_single's match_of tells them apart.  *)
LEMMA EntryKind ==
  ASSUME NEW E, WellFormed(E), NEW p \in DOMAIN E
  PROVE  /\ E[p].id \in Ops(E)
         /\ IsCall(E, p) \/ IsReturn(E, p)
         /\ ~ (IsCall(E, p) /\ IsReturn(E, p))
         /\ IsCall(E, p) => p = CallOf(E, E[p].id)
         /\ IsReturn(E, p) => p = ReturnOf(E, E[p].id)
<1>1. E[p].id \in Ops(E)
  BY DEF Ops
<1>2. ~ (IsCall(E, p) /\ IsReturn(E, p))
  BY DEF IsCall, IsReturn
<1>3. p = CallOf(E, E[p].id) \/ p = ReturnOf(E, E[p].id)
  BY <1>1, OpEntries
<1>4. /\ IsCall(E, CallOf(E, E[p].id))
      /\ IsReturn(E, ReturnOf(E, E[p].id))
      /\ ~ IsReturn(E, CallOf(E, E[p].id))
      /\ ~ IsCall(E, ReturnOf(E, E[p].id))
  BY <1>1, OpEntries DEF IsCall, IsReturn
<1>. QED BY <1>1, <1>2, <1>3, <1>4

(* Model::step answers with a state or refuses.                            *)
LEMMA ApplyType ==
  ASSUME NEW E, WellFormed(E), NEW i \in Ops(E), NEW s \in State
  PROVE  Apply(E, s, i) \in State \cup {Rejected}
BY OpEntries, ModelAssumption DEF Apply
-----------------------------------------------------------------------------
(* What pushing a frame does to the stack.                                 *)
LEMMA Push ==
  ASSUME NEW S, NEW s \in Seq(S), NEW f \in S
  PROVE  /\ Append(s, f) \in Seq(S)
         /\ Len(s) \in Nat
         /\ Len(Append(s, f)) = Len(s) + 1
         /\ \A k \in 1..Len(s) : Append(s, f)[k] = s[k]
         /\ Append(s, f)[Len(s) + 1] = f
OBVIOUS

(* The first n elements of a sequence.                                     *)
LEMMA Prefix ==
  ASSUME NEW S, NEW s \in Seq(S), NEW n \in 0..Len(s)
  PROVE  /\ SubSeq(s, 1, n) \in Seq(S)
         /\ Len(SubSeq(s, 1, n)) = n
         /\ \A k \in 1..n : SubSeq(s, 1, n)[k] = s[k]
OBVIOUS

(* What popping a frame does to the stack.                                 *)
LEMMA Pop ==
  ASSUME NEW S, NEW s \in Seq(S), s # <<>>
  PROVE  /\ Len(s) \in Nat \ {0}
         /\ s[Len(s)] \in S
         /\ SubSeq(s, 1, Len(s) - 1) \in Seq(S)
         /\ Len(SubSeq(s, 1, Len(s) - 1)) = Len(s) - 1
         /\ \A k \in 1..(Len(s) - 1) : SubSeq(s, 1, Len(s) - 1)[k] = s[k]
<1>1. Len(s) \in Nat \ {0}
  BY EmptySeq
<1>2. s[Len(s)] \in S
  BY <1>1, ElementOfSeq
<1>3. Len(s) - 1 \in 0..Len(s)
  BY <1>1
<1>. QED BY <1>1, <1>2, <1>3, Prefix, Zenon

-----------------------------------------------------------------------------
CallFrames == [node : DOMAIN entries, state : State]

(* The facts about the operation under the cursor that TypeOK gives. *)
LEMMA AtCallType ==
  ASSUME TypeOK, AtCall
  PROVE  /\ cursor \in DOMAIN entries
         /\ entries[cursor].id \in Ops(entries)
         /\ NextState \in State \cup {Rejected}
<1>1. cursor \in DOMAIN entries
  BY DEF TypeOK, AtCall
<1>2. entries[cursor].id \in Ops(entries)
  BY <1>1, EntryKind DEF TypeOK
<1>. QED BY <1>1, <1>2, ApplyType DEF TypeOK, NextState

LEMMA InitType == Init => TypeOK
<1>. SUFFICES ASSUME Init PROVE TypeOK
  OBVIOUS
<1>1. <<>> \in Seq(CallFrames)
  BY EmptySeq
<1>. QED BY <1>1, HistoriesAssumption, ModelAssumption DEF Init, TypeOK, CallFrames

LEMMA StepType == TypeOK /\ [Next]_vars => TypeOK'
<1>. SUFFICES ASSUME TypeOK, [Next]_vars PROVE TypeOK'
  OBVIOUS
<1>. USE DEF TypeOK
<1>1. CASE ReturnEmpty
  BY <1>1 DEF ReturnEmpty, Return
<1>2. CASE ReturnKilled
  BY <1>2 DEF ReturnKilled, Return
<1>3. CASE ReturnTrue
  BY <1>3 DEF ReturnTrue, Return
<1>4. CASE Linearize
  <2>. USE <1>4 DEF Linearize
  <2>1. /\ cursor \in DOMAIN entries
        /\ entries[cursor].id \in Ops(entries)
        /\ NextState \in State
    BY AtCallType
  <2>2. calls' \in Seq(CallFrames)
    <3>1. [node |-> cursor, state |-> state] \in CallFrames
      BY <2>1 DEF CallFrames
    <3>2. calls \in Seq(CallFrames)
      BY DEF CallFrames
    <3>. QED BY <3>1, <3>2, Push
  <2>3. NextNode \in (SUBSET Ops(entries)) \X State
    BY <2>1 DEF NextNode
  <2>4. cursor' \in DOMAIN entries \cup {End(entries)}
    BY DEF MoveCursor
  <2>. QED BY <2>1, <2>2, <2>3, <2>4 DEF CallFrames
<1>5. CASE SkipRejected
  BY <1>5 DEF SkipRejected, Skip, MoveCursor
<1>6. CASE SkipCached
  BY <1>6 DEF SkipCached, Skip, MoveCursor
<1>7. CASE Backtrack
  <2>. USE <1>7 DEF Backtrack, BacktrackTo
  <2>1. calls \in Seq(CallFrames) /\ calls # <<>>
    BY DEF CallFrames
  <2>2. calls[Len(calls)] \in CallFrames
    BY <2>1, Pop
  <2>3. calls' \in Seq(CallFrames)
    BY <2>1, Pop
  <2>4. Frame.state \in State
    BY <2>2 DEF CallFrames, Frame
  <2>5. cursor' \in DOMAIN entries \cup {End(entries)}
    BY DEF MoveCursor
  <2>. QED BY <2>3, <2>4, <2>5 DEF CallFrames
<1>8. CASE ReturnExhausted
  BY <1>8 DEF ReturnExhausted, Return
<1>9. CASE SetKill
  BY <1>9 DEF SetKill
<1>10. CASE Returned \/ UNCHANGED vars
  BY <1>10 DEF Returned, vars
<1>. QED
  BY <1>1, <1>2, <1>3, <1>4, <1>5, <1>6, <1>7, <1>8, <1>9, <1>10 DEF Next, Iterate

(* The variables of check_single keep their types: the stack holds call    *)
(* positions of the list and states of the model, the cache holds pairs of *)
(* a set of operations and a state, and a refused step never becomes the   *)
(* current state.                                                          *)
THEOREM TypeCorrect == Spec => []TypeOK
BY InitType, StepType, PTL DEF Spec
-----------------------------------------------------------------------------
(* The inductive invariant behind soundness: the cursor only ever stands   *)
(* on a live entry, and "true" is returned with nothing left to linearize. *)
CursorIsLive == cursor \in Live(entries, linearized) \cup {End(entries)}

AcceptedIsComplete == returned = "true" => linearized = Ops(entries)

IInv ==
  /\ TypeOK
  /\ StackIsExecution
  /\ NoReturnJumped
  /\ CursorIsLive
  /\ AcceptedIsComplete

(* Everything a cursor move passes over has been linearized.               *)
LEMMA PassedOver ==
  ASSUME NEW E, WellFormed(E), NEW L, NEW p \in Nat, NEW q, FirstAfter(E, L, p, q)
  PROVE  /\ q \in Live(E, L) \cup {End(E)}
         /\ \A r \in DOMAIN E : r > p /\ r < q => E[r].id \in L
BY DEF WellFormed, FirstAfter, Live, End

(* With the cursor off the list, every operation has been linearized.      *)
LEMMA AtEndComplete ==
  ASSUME TypeOK, NoReturnJumped, cursor = End(entries)
  PROVE  linearized = Ops(entries)
<1>. SUFFICES ASSUME NEW i \in Ops(entries) PROVE i \in linearized
  BY DEF TypeOK
<1>1. /\ ReturnOf(entries, i) \in DOMAIN entries
      /\ entries[ReturnOf(entries, i)].id = i
      /\ IsReturn(entries, ReturnOf(entries, i))
  BY OpEntries DEF TypeOK
<1>2. ReturnOf(entries, i) < End(entries)
  BY <1>1 DEF TypeOK, WellFormed, End
<1>. QED BY <1>1, <1>2 DEF NoReturnJumped

LEMMA InitInv == Init => IInv
<1>. SUFFICES ASSUME Init PROVE IInv
  OBVIOUS
<1>1. TypeOK
  BY InitType
<1>2. Len(calls) = 0
  BY DEF Init
<1>3. StackIsExecution
  BY <1>2 DEF Init, StackIsExecution, Order, Trace
<1>4. /\ cursor \in Live(entries, {}) \cup {End(entries)}
      /\ \A r \in DOMAIN entries : ~ (r > 0 /\ r < cursor)
  <2>1. /\ 0 \in Nat /\ WellFormed(entries)
        /\ FirstAfter(entries, linearized, 0, cursor)
    BY <1>1 DEF Init, TypeOK
  <2>2. /\ cursor \in Live(entries, linearized) \cup {End(entries)}
        /\ \A r \in DOMAIN entries : r > 0 /\ r < cursor => entries[r].id \in linearized
    BY <2>1, PassedOver, Zenon
  <2>. QED BY <2>2 DEF Init
<1>5. \A r \in DOMAIN entries : r > 0
  BY <1>1 DEF TypeOK, WellFormed
<1>6. NoReturnJumped
  BY <1>2, <1>4, <1>5 DEF NoReturnJumped
<1>. QED BY <1>1, <1>3, <1>4, <1>6 DEF IInv, CursorIsLive, AcceptedIsComplete, Init

(* Steps that only return, or only raise the kill flag.                    *)
LEMMA StillInv ==
  ASSUME StackIsExecution, NoReturnJumped, CursorIsLive,
         UNCHANGED <<entries, linearized, state, calls, cursor>>
  PROVE  StackIsExecution' /\ NoReturnJumped' /\ CursorIsLive'
<1>1. Order' = Order /\ Trace' = Trace
  BY DEF Order, Trace
<1>2. StackIsExecution'
  BY <1>1 DEF StackIsExecution
<1>3. NoReturnJumped'
  BY <1>1 DEF NoReturnJumped
<1>4. CursorIsLive'
  BY DEF CursorIsLive
<1>. QED BY <1>2, <1>3, <1>4

LEMMA LinearizeInv ==
  ASSUME TypeOK, TypeOK', StackIsExecution, NoReturnJumped, CursorIsLive, Linearize
  PROVE  StackIsExecution' /\ NoReturnJumped' /\ CursorIsLive'
<1>. DEFINE n  == Len(calls)
            op == entries[cursor].id
<1>1. /\ cursor \in DOMAIN entries
      /\ op \in Ops(entries)
      /\ op \notin linearized
      /\ IsCall(entries, cursor)
  BY AtCallType DEF Linearize, AtCall, CursorIsLive, Live, TypeOK
<1>2. /\ entries' = entries
      /\ linearized' = linearized \cup {op}
      /\ state' = Apply(entries, state, op)
  BY DEF Linearize, NextState
<1>3. /\ n \in Nat
      /\ Len(calls') = n + 1
      /\ \A k \in 1..n : calls'[k] = calls[k]
      /\ calls'[n + 1] = [node |-> cursor, state |-> state]
  <2>1. [node |-> cursor, state |-> state] \in [node : DOMAIN entries, state : State]
    BY <1>1 DEF TypeOK
  <2>. QED BY <2>1, Push DEF Linearize, TypeOK
<1>4. /\ \A k \in 1..n : Order'[k] = Order[k]
      /\ Order'[n + 1] = op
  BY <1>2, <1>3 DEF Order
<1>5. /\ \A k \in 0..n : Trace'[k] = Trace[k]
      /\ Trace[n] = state
      /\ Trace'[n + 1] = state'
  BY <1>3 DEF Trace
<1>6. 1..(n + 1) = (1..n) \cup {n + 1}
  BY <1>3
<1>7. linearized = { Order[k] : k \in 1..n }
  BY DEF StackIsExecution
<1>8. StackIsExecution'
  <2>1. \A j, k \in 1..(n + 1) : j < k => Order'[j] # Order'[k]
    <3>1. \A j, k \in 1..n : j < k => Order'[j] # Order'[k]
      BY <1>4 DEF StackIsExecution
    <3>2. \A j \in 1..n : Order'[j] # op
      BY <1>1, <1>4, <1>7
    <3>. QED BY <1>3, <1>4, <3>1, <3>2
  <2>2. linearized' = { Order'[k] : k \in 1..(n + 1) }
    BY <1>2, <1>4, <1>6, <1>7
  <2>3. Trace'[0] = InitState
    BY <1>3, <1>5 DEF StackIsExecution
  <2>4. \A k \in 1..(n + 1) : Trace'[k] = Apply(entries, Trace'[k - 1], Order'[k])
    <3>1. \A k \in 1..n : Trace'[k] = Apply(entries, Trace'[k - 1], Order'[k])
      <4>. SUFFICES ASSUME NEW k \in 1..n
                    PROVE  Trace'[k] = Apply(entries, Trace'[k - 1], Order'[k])
        OBVIOUS
      <4>1. k \in 0..n /\ k - 1 \in 0..n
        BY <1>3
      <4>2. Trace[k] = Apply(entries, Trace[k - 1], Order[k])
        BY DEF StackIsExecution
      <4>. QED BY <1>4, <1>5, <4>1, <4>2
    <3>2. Trace'[n + 1] = Apply(entries, Trace'[(n + 1) - 1], Order'[n + 1])
      BY <1>2, <1>3, <1>4, <1>5
    <3>. QED BY <1>6, <3>1, <3>2
  <2>. QED BY <1>2, <1>3, <2>1, <2>2, <2>3, <2>4 DEF StackIsExecution
<1>9. /\ cursor' \in Live(entries, linearized') \cup {End(entries)}
      /\ \A r \in DOMAIN entries : r > 0 /\ r < cursor' => entries[r].id \in linearized'
  <2>1. /\ 0 \in Nat /\ WellFormed(entries)
        /\ FirstAfter(entries, linearized', 0, cursor')
    BY DEF Linearize, MoveCursor, TypeOK
  <2>. QED BY <2>1, PassedOver, Zenon
<1>10. NoReturnJumped'
  <2>1. \A k \in 1..(n + 1) :
          /\ IsCall(entries, calls'[k].node)
          /\ \A p \in DOMAIN entries :
               p < calls'[k].node /\ IsReturn(entries, p)
                 => \E j \in 1..(k - 1) : Order'[j] = entries[p].id
    <3>1. /\ IsCall(entries, calls'[n + 1].node)
          /\ \A p \in DOMAIN entries :
               p < calls'[n + 1].node /\ IsReturn(entries, p)
                 => \E j \in 1..((n + 1) - 1) : Order'[j] = entries[p].id
      BY <1>1, <1>3, <1>4, <1>7 DEF NoReturnJumped
    <3>2. ASSUME NEW k \in 1..n
          PROVE  /\ IsCall(entries, calls'[k].node)
                 /\ \A p \in DOMAIN entries :
                      p < calls'[k].node /\ IsReturn(entries, p)
                        => \E j \in 1..(k - 1) : Order'[j] = entries[p].id
      <4>1. \A j \in 1..(k - 1) : j \in 1..n
        BY <1>3
      <4>. QED BY <1>3, <1>4, <4>1 DEF NoReturnJumped
    <3>. QED BY <1>6, <3>1, <3>2
  <2>2. \A p \in DOMAIN entries :
          p < cursor' /\ IsReturn(entries, p) => entries[p].id \in linearized'
    BY <1>9 DEF TypeOK, WellFormed
  <2>. QED BY <1>2, <1>3, <2>1, <2>2 DEF NoReturnJumped
<1>11. CursorIsLive'
  BY <1>2, <1>9 DEF CursorIsLive
<1>. QED BY <1>8, <1>10, <1>11

LEMMA SkipInv ==
  ASSUME TypeOK, TypeOK', StackIsExecution, NoReturnJumped, AtCall, Skip
  PROVE  StackIsExecution' /\ NoReturnJumped' /\ CursorIsLive'
<1>1. UNCHANGED <<entries, linearized, state, calls>>
  BY DEF Skip
<1>2. Order' = Order /\ Trace' = Trace
  BY <1>1 DEF Order, Trace
<1>3. StackIsExecution'
  BY <1>1, <1>2 DEF StackIsExecution
<1>4. cursor \in DOMAIN entries /\ ~ IsReturn(entries, cursor)
  BY EntryKind DEF AtCall, TypeOK
<1>5. cursor \in Nat
  BY <1>4 DEF TypeOK, WellFormed
<1>6. /\ cursor' \in Live(entries, linearized) \cup {End(entries)}
      /\ \A r \in DOMAIN entries :
           r > cursor /\ r < cursor' => entries[r].id \in linearized
  <2>1. WellFormed(entries) /\ FirstAfter(entries, linearized, cursor, cursor')
    BY DEF Skip, MoveCursor, TypeOK
  <2>. QED BY <1>5, <2>1, PassedOver, Zenon
<1>7. NoReturnJumped'
  <2>1. \A p \in DOMAIN entries :
          p < cursor' /\ IsReturn(entries, p) => entries[p].id \in linearized
    <3>. SUFFICES ASSUME NEW p \in DOMAIN entries, p < cursor', IsReturn(entries, p)
                  PROVE  entries[p].id \in linearized
      OBVIOUS
    <3>1. p # cursor
      BY <1>4
    <3>2. p < cursor \/ p > cursor
      BY <1>5, <3>1 DEF TypeOK, WellFormed
    <3>. QED BY <1>6, <3>2 DEF NoReturnJumped
  <2>. QED BY <1>1, <1>2, <2>1 DEF NoReturnJumped
<1>8. CursorIsLive'
  BY <1>1, <1>6 DEF CursorIsLive
<1>. QED BY <1>3, <1>7, <1>8

LEMMA BacktrackInv ==
  ASSUME TypeOK, TypeOK', StackIsExecution, NoReturnJumped, Backtrack
  PROVE  StackIsExecution' /\ NoReturnJumped' /\ CursorIsLive'
<1>. DEFINE n == Len(calls)
<1>1. /\ n \in Nat \ {0}
      /\ Frame \in [node : DOMAIN entries, state : State]
      /\ Len(calls') = n - 1
      /\ \A k \in 1..(n - 1) : calls'[k] = calls[k]
  BY Pop DEF Backtrack, BacktrackTo, Frame, TypeOK
<1>2. /\ entries' = entries
      /\ linearized' = linearized \ {FrameOp}
      /\ state' = Frame.state
  BY DEF Backtrack, BacktrackTo
<1>3. /\ \A k \in 1..(n - 1) : Order'[k] = Order[k]
      /\ Order[n] = FrameOp
  BY <1>1, <1>2 DEF Order, FrameOp, Frame
<1>4. \A k \in 0..(n - 1) : Trace'[k] = Trace[k]
  BY <1>1, <1>2 DEF Trace, Frame
<1>5. 1..n = (1..(n - 1)) \cup {n}
  BY <1>1
<1>6. /\ linearized = { Order[k] : k \in 1..n }
      /\ \A k \in 1..(n - 1) : Order[k] # FrameOp
  BY <1>1, <1>3 DEF StackIsExecution
<1>7. StackIsExecution'
  <2>1. \A j, k \in 1..(n - 1) : j < k => Order'[j] # Order'[k]
    BY <1>3, <1>5 DEF StackIsExecution
  <2>2. linearized' = { Order'[k] : k \in 1..(n - 1) }
    BY <1>2, <1>3, <1>5, <1>6
  <2>3. Trace'[0] = InitState
    BY <1>1, <1>4 DEF StackIsExecution
  <2>4. ASSUME NEW k \in 1..(n - 1)
        PROVE  Trace'[k] = Apply(entries, Trace'[k - 1], Order'[k])
    <3>1. k \in 1..n /\ k \in 0..(n - 1) /\ k - 1 \in 0..(n - 1)
      BY <1>1
    <3>. QED BY <1>3, <1>4, <3>1 DEF StackIsExecution
  <2>. QED BY <1>1, <1>2, <2>1, <2>2, <2>3, <2>4 DEF StackIsExecution
<1>8. /\ cursor' \in Live(entries, linearized') \cup {End(entries)}
      /\ \A r \in DOMAIN entries :
           r > Frame.node /\ r < cursor' => entries[r].id \in linearized'
  <2>1. /\ WellFormed(entries) /\ Frame.node \in Nat
        /\ FirstAfter(entries, linearized', Frame.node, cursor')
    BY <1>1 DEF Backtrack, BacktrackTo, MoveCursor, TypeOK, WellFormed
  <2>. QED BY <2>1, PassedOver, Zenon
<1>9. NoReturnJumped'
  <2>1. ASSUME NEW k \in 1..(n - 1)
        PROVE  /\ IsCall(entries, calls'[k].node)
               /\ \A p \in DOMAIN entries :
                    p < calls'[k].node /\ IsReturn(entries, p)
                      => \E j \in 1..(k - 1) : Order'[j] = entries[p].id
    <3>1. k \in 1..n /\ \A j \in 1..(k - 1) : j \in 1..(n - 1)
      BY <1>1
    <3>2. /\ IsCall(entries, calls[k].node)
          /\ \A p \in DOMAIN entries :
               p < calls[k].node /\ IsReturn(entries, p)
                 => \E j \in 1..(k - 1) : Order[j] = entries[p].id
      BY <3>1 DEF NoReturnJumped
    <3>3. calls'[k] = calls[k] /\ \A j \in 1..(k - 1) : Order'[j] = Order[j]
      BY <1>1, <1>3, <3>1
    <3>. QED BY <3>2, <3>3
  <2>2. ASSUME NEW p \in DOMAIN entries, p < cursor', IsReturn(entries, p)
        PROVE  entries[p].id \in linearized'
    <3>1. n \in 1..n /\ Frame = calls[n]
      BY <1>1 DEF Frame
    <3>2. CASE p < Frame.node
      <4>1. PICK j \in 1..(n - 1) : Order[j] = entries[p].id
        BY <2>2, <3>1, <3>2 DEF NoReturnJumped
      <4>2. j \in 1..n
        BY <1>1
      <4>. QED BY <1>2, <1>6, <4>1, <4>2
    <3>3. CASE p = Frame.node
      <4>1. IsCall(entries, Frame.node)
        BY <3>1 DEF NoReturnJumped
      <4>. QED BY <2>2, <3>3, <4>1 DEF IsCall, IsReturn
    <3>4. CASE p > Frame.node
      BY <1>8, <2>2, <3>4
    <3>5. p \in Nat /\ Frame.node \in Nat
      BY <1>1 DEF TypeOK, WellFormed
    <3>. QED BY <3>2, <3>3, <3>4, <3>5
  <2>. QED BY <1>1, <1>2, <2>1, <2>2 DEF NoReturnJumped
<1>10. CursorIsLive'
  BY <1>2, <1>8 DEF CursorIsLive
<1>. QED BY <1>7, <1>9, <1>10

LEMMA StepInv == IInv /\ [Next]_vars => IInv'
<1>. SUFFICES ASSUME IInv, [Next]_vars PROVE IInv'
  OBVIOUS
<1>. USE DEF IInv
<1>1. TypeOK'
  BY StepType
<1>2. CASE ReturnEmpty
  <2>1. linearized = Ops(entries)
    BY <1>2 DEF ReturnEmpty, TypeOK, Ops
  <2>. QED BY <1>1, <1>2, <2>1, StillInv DEF ReturnEmpty, Return, AcceptedIsComplete
<1>3. CASE ReturnKilled
  BY <1>1, <1>3, StillInv DEF ReturnKilled, Return, AcceptedIsComplete
<1>4. CASE ReturnTrue
  <2>1. linearized = Ops(entries)
    BY <1>4, AtEndComplete DEF ReturnTrue
  <2>. QED BY <1>1, <1>4, <2>1, StillInv DEF ReturnTrue, Return, AcceptedIsComplete
<1>5. CASE Linearize
  <2>1. AcceptedIsComplete'
    BY <1>5 DEF Linearize, AtCall, Running, Looping, AcceptedIsComplete
  <2>. QED BY <1>1, <1>5, <2>1, LinearizeInv
<1>6. CASE AtCall /\ Skip
  <2>1. AcceptedIsComplete'
    BY <1>6 DEF Skip, AtCall, Running, Looping, AcceptedIsComplete
  <2>. QED BY <1>1, <1>6, <2>1, SkipInv
<1>7. CASE Backtrack
  <2>1. AcceptedIsComplete'
    BY <1>7 DEF Backtrack, BacktrackTo, AtReturn, Running, Looping, AcceptedIsComplete
  <2>. QED BY <1>1, <1>7, <2>1, BacktrackInv
<1>8. CASE ReturnExhausted
  BY <1>1, <1>8, StillInv DEF ReturnExhausted, Return, AcceptedIsComplete
<1>9. CASE SetKill
  BY <1>1, <1>9, StillInv DEF SetKill, AcceptedIsComplete
<1>10. CASE Returned \/ UNCHANGED vars
  BY <1>1, <1>10, StillInv DEF Returned, vars, AcceptedIsComplete
<1>. QED
  BY <1>2, <1>3, <1>4, <1>5, <1>6, <1>7, <1>8, <1>9, <1>10
  DEF Next, Iterate, SkipRejected, SkipCached

(* A stack that is a legal execution, jumped over no return and holds      *)
(* every operation is a linearization.                                     *)
LEMMA InvAccepts == IInv => AcceptedIsLinearization
<1>. SUFFICES ASSUME IInv, returned = "true"
              PROVE  IsLinearization(entries, Len(calls), Order, Trace)
  BY DEF AcceptedIsLinearization
<1>. DEFINE n == Len(calls)
<1>. USE DEF IInv
<1>1. /\ n \in Nat
      /\ \A k \in 1..n : calls[k].node \in DOMAIN entries /\ calls[k].state \in State
  <2>1. n \in Nat
    BY LenProperties DEF TypeOK
  <2>2. \A k \in 1..n : calls[k] \in [node : DOMAIN entries, state : State]
    BY ElementOfSeq DEF TypeOK
  <2>. QED BY <2>1, <2>2
<1>2. { Order[k] : k \in 1..n } = Ops(entries)
  BY DEF StackIsExecution, AcceptedIsComplete
<1>3. ASSUME NEW j \in 1..n, NEW k \in 1..n, j < k
      PROVE  Order[j] # Order[k] /\ ~ Precedes(entries, Order[k], Order[j])
  <2>1. Order[j] # Order[k]
    BY <1>3 DEF StackIsExecution
  <2>2. SUFFICES ASSUME Precedes(entries, Order[k], Order[j]) PROVE FALSE
    BY <2>1
  <2>. DEFINE r == ReturnOf(entries, Order[k])
  <2>3. Order[k] \in Ops(entries)
    BY <1>2
  <2>4. /\ r \in DOMAIN entries
        /\ entries[r].id = Order[k]
        /\ IsReturn(entries, r)
    BY <2>3, OpEntries DEF TypeOK
  <2>5. CallOf(entries, Order[j]) = calls[j].node
    BY <1>1, EntryKind DEF NoReturnJumped, Order, TypeOK
  <2>6. r < calls[j].node
    BY <2>2, <2>5 DEF Precedes
  <2>7. PICK i \in 1..(j - 1) : Order[i] = Order[k]
    BY <2>4, <2>6 DEF NoReturnJumped
  <2>8. i \in 1..n /\ i < k
    BY <1>1, <1>3
  <2>. QED BY <2>7, <2>8 DEF StackIsExecution
<1>4. IsOrder(entries, Ops(entries), n, Order)
  BY <1>2, <1>3 DEF IsOrder
<1>5. IsRun(entries, InitState, n, Order, Trace)
  <2>1. ASSUME NEW k \in 1..n PROVE Trace[k] \in State
    <3>1. CASE k = n
      BY <1>1, <3>1 DEF Trace, TypeOK
    <3>2. CASE k # n
      <4>1. k + 1 \in 1..n /\ k \in 0..n
        BY <1>1, <3>2
      <4>. QED BY <1>1, <3>2, <4>1 DEF Trace
    <3>. QED BY <3>1, <3>2
  <2>. QED BY <2>1 DEF IsRun, StackIsExecution
<1>. QED BY <1>4, <1>5 DEF IsLinearization

(* The stack of check_single is at every moment a legal execution of the   *)
(* operations in the bitset, from Model::init to the current state.        *)
THEOREM ExecutionCorrect == Spec => []StackIsExecution
<1>1. IInv => StackIsExecution
  BY DEF IInv
<1>. QED BY InitInv, StepInv, <1>1, PTL DEF Spec

(* No call is linearized, and no entry examined, past the return of an     *)
(* operation that was not linearized before.                               *)
THEOREM RealTimeOrderKept == Spec => []NoReturnJumped
<1>1. IInv => NoReturnJumped
  BY DEF IInv
<1>. QED BY InitInv, StepInv, <1>1, PTL DEF Spec

(* Soundness (INV-LIN-01): whenever check_single returns true, its stack   *)
(* is a linearization of the entry list, for every model and history.      *)
THEOREM Soundness == Spec => []AcceptedIsLinearization
BY InitInv, StepInv, InvAccepts, PTL DEF Spec

(***************************************************************************)
(* Completeness: what is refused, or pruned, has no linearization.         *)
(***************************************************************************)

(* The call at p may come next when the operations of S are done.          *)
Eligible(E, S, p) ==
  /\ p \in DOMAIN E
  /\ IsCall(E, p)
  /\ E[p].id \notin S
  /\ \A q \in DOMAIN E : q < p /\ IsReturn(E, q) => E[q].id \in S

(* The model refuses it, or what it leads to is in C.                      *)
Tried(E, C, S, s, p) ==
  \/ Apply(E, s, E[p].id) = Rejected
  \/ <<S \cup {E[p].id}, Apply(E, s, E[p].id)>> \in C

TriedBefore(E, C, S, s, m) ==
  \A p \in DOMAIN E : p < m /\ Eligible(E, S, p) => Tried(E, C, S, s, p)

Closed(E, C, S, s) ==
  \A p \in DOMAIN E : Eligible(E, S, p) => Tried(E, C, S, s, p)

(* The stack as nodes of the search: done after k frames, and where the    *)
(* search stands in each of them.                                          *)
Done(k)     == { Order[j] : j \in 1..k }
Position(k) == IF k = Len(calls) THEN cursor ELSE calls[k + 1].node
OnStack(c)  == \E k \in 1..Len(calls) : c = <<Done(k), Trace[k]>>

(* On the stack, everything before the position has been tried; off it, a  *)
(* cached pair is closed.                                                  *)
StackTried ==
  \A k \in 0..Len(calls) :
    TriedBefore(entries, cache, Done(k), Trace[k], Position(k))

StackCached == \A k \in 1..Len(calls) : <<Done(k), Trace[k]>> \in cache

CacheClosed ==
  \A c \in cache : OnStack(c) \/ Closed(entries, cache, c[1], c[2])

CompleteAtEnd ==
  \A c \in cache : c[1] = Ops(entries) => linearized = Ops(entries)

(* An unkilled refusal is given at a return with an empty stack.           *)
RefusedAtReturn ==
  returned = "false" /\ ~kill
    => /\ calls = <<>>
       /\ cursor \in DOMAIN entries /\ IsReturn(entries, cursor)

CInv ==
  /\ IInv
  /\ StackTried
  /\ StackCached
  /\ CacheClosed
  /\ CompleteAtEnd
  /\ RefusedAtReturn
-----------------------------------------------------------------------------
(* A set of numbers that is not empty has a least one.                     *)
LEMMA Least ==
  ASSUME NEW D, D \subseteq Nat, D # {}
  PROVE  \E m \in D : \A k \in D : ~ (k < m)
<1>1. IsWellFoundedOn(OpToRel(<, Nat), Nat)
  BY NatLessThanWellFounded, Zenon
<1>2. \E m \in D : \A k \in D : ~ (<<k, m>> \in OpToRel(<, Nat))
  BY <1>1, WFMin, Zenon
<1>3. \A k, m \in Nat : k < m => <<k, m>> \in OpToRel(<, Nat)
  BY DEF OpToRel
<1>. QED BY <1>2, <1>3

(* If S with s is closed, and so is everything of C that contains S, none  *)
(* of it complete, then S with s cannot be completed: the first node of a  *)
(* completion that is not in C would have been entered from the one before.*)
LEMMA Hopeless ==
  ASSUME NEW E, WellFormed(E), NEW C, NEW S \in SUBSET Ops(E), NEW s \in State,
         Closed(E, C, S, s), S # Ops(E),
         \A T \in SUBSET Ops(E), t \in State :
           S \subseteq T /\ <<T, t>> \in C => Closed(E, C, T, t) /\ T # Ops(E),
         NEW n \in Nat
  PROVE  ~ Completable(E, Ops(E) \ S, n, s)
<1>. SUFFICES ASSUME NEW order \in [1..n -> Ops(E) \ S], NEW at \in [0..n -> State],
                     IsOrder(E, Ops(E) \ S, n, order), IsRun(E, s, n, order, at)
              PROVE  FALSE
  BY DEF Completable
<1>. DEFINE After(k) == S \cup { order[j] : j \in 1..k }
            Missing == { k \in 1..n : <<After(k), at[k]>> \notin C }
<1>1. \A k \in 0..n : After(k) \in SUBSET Ops(E) /\ S \subseteq After(k) /\ at[k] \in State
  <2>1. \A k \in 0..n : \A j \in 1..k : order[j] \in Ops(E)
    OBVIOUS
  <2>. QED BY <2>1
<1>2. CASE Missing = {}
  <2>1. After(n) = Ops(E)
    BY DEF IsOrder
  <2>2. n \in 1..n
    BY DEF IsOrder
  <2>3. <<After(n), at[n]>> \in C
    BY <1>2, <2>2
  <2>4. n \in 0..n
    OBVIOUS
  <2>. QED BY <1>1, <2>1, <2>3, <2>4
<1>3. CASE Missing # {}
  <2>1. PICK m \in Missing : \A k \in Missing : ~ (k < m)
    <3>1. Missing \subseteq Nat
      OBVIOUS
    <3>. HIDE DEF Missing
    <3>. QED BY <1>3, <3>1, Least, Zenon
  <2>. DEFINE op == order[m]
              p  == CallOf(E, op)
  <2>2. m \in 1..n /\ m - 1 \in 0..n /\ (m - 1 = 0 \/ m - 1 \in 1..n)
    OBVIOUS
  <2>3. Closed(E, C, After(m - 1), at[m - 1])
    <3>1. CASE m - 1 = 0
      <4>1. After(m - 1) = S /\ at[m - 1] = s
        BY <3>1 DEF IsRun
      <4>. QED BY <4>1
    <3>2. CASE m - 1 \in 1..n
      <4>1. <<After(m - 1), at[m - 1]>> \in C
        <5>1. m - 1 < m
          BY <2>2
        <5>2. m - 1 \notin Missing
          <6>. HIDE DEF Missing
          <6>. QED BY <2>1, <5>1
        <5>. HIDE DEF After
        <5>. QED BY <3>2, <5>2
      <4>. HIDE DEF After
      <4>. QED BY <1>1, <2>2, <4>1
    <3>. QED BY <2>2, <3>1, <3>2
  <2>4. op \in Ops(E) /\ op \notin S
    BY <2>2
  <2>5. /\ p \in DOMAIN E /\ E[p].id = op /\ IsCall(E, p)
        /\ p < ReturnOf(E, op)
    BY <2>4, OpEntries, Zenon
  <2>6. Eligible(E, After(m - 1), p)
    <3>1. op \notin After(m - 1)
      BY <2>2, <2>4 DEF IsOrder
    <3>2. ASSUME NEW q \in DOMAIN E, q < p, IsReturn(E, q), E[q].id \notin S
          PROVE  E[q].id \in After(m - 1)
      <4>1. E[q].id \in Ops(E) /\ q = ReturnOf(E, E[q].id)
        BY <3>2, EntryKind, Zenon
      <4>2. PICK j \in 1..n : order[j] = E[q].id
        BY <3>2, <4>1 DEF IsOrder
      <4>3. Precedes(E, order[j], order[m])
        BY <3>2, <4>1, <4>2 DEF Precedes
      <4>4. ~ (m < j)
        BY <2>2, <4>3 DEF IsOrder
      <4>5. j # m
        <5>1. q \in Nat /\ p \in Nat
          BY <2>5 DEF WellFormed
        <5>. QED BY <2>5, <3>2, <4>1, <4>2, <5>1
      <4>6. j \in 1..(m - 1)
        BY <2>2, <4>4, <4>5
      <4>. QED BY <4>2, <4>6
    <3>. HIDE DEF p
    <3>. QED BY <2>5, <3>1, <3>2 DEF Eligible
  <2>7. Tried(E, C, After(m - 1), at[m - 1], p)
    <3>. HIDE DEF After, p
    <3>. QED BY <2>3, <2>5, <2>6 DEF Closed
  <2>8. at[m] \in State /\ at[m] = Apply(E, at[m - 1], op)
    BY <2>2 DEF IsRun
  <2>9. After(m - 1) \cup {op} = After(m)
    <3>1. 1..m = (1..(m - 1)) \cup {m}
      BY <2>2
    <3>. QED BY <3>1
  <2>10. <<After(m), at[m]>> \in C
    <3>. HIDE DEF After, p
    <3>. QED BY <2>5, <2>7, <2>8, <2>9, ModelAssumption DEF Tried
  <2>. QED BY <2>10
<1>. QED BY <1>2, <1>3
-----------------------------------------------------------------------------
(* More cached nodes only ever close more of the search.                   *)
LEMMA Monotone ==
  ASSUME NEW E, NEW C, NEW D, C \subseteq D, NEW S, NEW s
  PROVE  /\ \A m : TriedBefore(E, C, S, s, m) => TriedBefore(E, D, S, s, m)
         /\ Closed(E, C, S, s) => Closed(E, D, S, s)
BY DEF TriedBefore, Closed, Tried

(* The top of the stack is the current node of the search.                 *)
LEMMA Top ==
  ASSUME TypeOK, StackIsExecution
  PROVE  /\ Len(calls) \in Nat
         /\ Done(Len(calls)) = linearized
         /\ Trace[Len(calls)] = state
         /\ Position(Len(calls)) = cursor
         /\ \A k \in 0..Len(calls) : Done(k) \subseteq linearized
<1>1. Len(calls) \in Nat
  BY LenProperties DEF TypeOK
<1>2. Done(Len(calls)) = linearized
  BY DEF StackIsExecution, Done
<1>3. \A k \in 0..Len(calls) : \A j \in 1..k : j \in 1..Len(calls)
  BY <1>1
<1>4. \A k \in 0..Len(calls) : Done(k) \subseteq linearized
  BY <1>3 DEF StackIsExecution, Done
<1>. QED BY <1>1, <1>2, <1>4 DEF Trace, Position

(* A step that keeps the stack below m keeps what it says below m.         *)
LEMMA StackKept ==
  ASSUME TypeOK, NEW m \in 0..Len(calls), UNCHANGED entries, Len(calls') \in Nat,
         m <= Len(calls'), \A k \in 1..m : calls'[k] = calls[k]
  PROVE  /\ \A k \in 0..m : Done(k)' = Done(k)
         /\ \A k \in 0..(m - 1) : Trace'[k] = Trace[k] /\ Position(k)' = Position(k)
<1>1. Len(calls) \in Nat
  BY LenProperties DEF TypeOK
<1>2. \A k \in 1..m : Order'[k] = Order[k]
  BY <1>1 DEF Order
<1>3. \A k \in 0..m : Done(k)' = Done(k)
  <2>. SUFFICES ASSUME NEW k \in 0..m PROVE Done(k)' = Done(k)
    OBVIOUS
  <2>1. \A j \in 1..k : j \in 1..m
    BY <1>1
  <2>. QED BY <1>2, <2>1 DEF Done
<1>4. ASSUME NEW k \in 0..(m - 1)
      PROVE  Trace'[k] = Trace[k] /\ Position(k)' = Position(k)
  <2>1. /\ k + 1 \in 1..m /\ k # Len(calls) /\ k # Len(calls')
        /\ k \in 0..Len(calls) /\ k \in 0..Len(calls')
    BY <1>1
  <2>. QED BY <2>1 DEF Trace, Position
<1>. QED BY <1>3, <1>4

(* Steps that only return, or only raise the kill flag.                    *)
LEMMA StillComplete ==
  ASSUME StackTried, StackCached, CacheClosed, CompleteAtEnd,
         UNCHANGED <<entries, linearized, state, calls, cursor, cache>>
  PROVE  StackTried' /\ StackCached' /\ CacheClosed' /\ CompleteAtEnd'
<1>1. Order' = Order /\ Trace' = Trace
  BY DEF Order, Trace
<1>2. \A k : Done(k)' = Done(k) /\ Position(k)' = Position(k)
  BY <1>1 DEF Done, Position
<1>3. \A c : OnStack(c)' <=> OnStack(c)
  BY <1>1, <1>2 DEF OnStack
<1>4. StackTried'
  BY <1>1, <1>2 DEF StackTried
<1>5. StackCached'
  BY <1>1, <1>2 DEF StackCached
<1>6. CacheClosed'
  BY <1>3 DEF CacheClosed
<1>. QED BY <1>4, <1>5, <1>6 DEF CompleteAtEnd

(* A new node is on the stack, and everything before the cursor in it has  *)
(* been linearized.                                                        *)
LEMMA LinearizeComplete ==
  ASSUME CInv, IInv', Linearize
  PROVE  StackTried' /\ StackCached' /\ CacheClosed' /\ CompleteAtEnd'
<1>. DEFINE op == entries[cursor].id
<1>0. PICK n \in Nat : n = Len(calls)
  BY LenProperties DEF TypeOK, CInv, IInv
<1>1. /\ cursor \in DOMAIN entries
      /\ op \in Ops(entries)
      /\ op \notin linearized
  BY AtCallType DEF Linearize, AtCall, CursorIsLive, Live, TypeOK, CInv, IInv
<1>2. /\ entries' = entries
      /\ linearized' = linearized \cup {op}
      /\ state' = Apply(entries, state, op)
      /\ cache' = cache \cup {<<linearized', state'>>}
  BY DEF Linearize, NextState, NextNode
<1>3. /\ Len(calls') = n + 1
      /\ \A k \in 1..n : calls'[k] = calls[k]
      /\ calls'[n + 1] = [node |-> cursor, state |-> state]
  <2>1. [node |-> cursor, state |-> state] \in [node : DOMAIN entries, state : State]
    BY <1>1 DEF TypeOK, CInv, IInv
  <2>. QED BY <1>0, <2>1, Push DEF Linearize, TypeOK, CInv, IInv
<1>4. /\ \A k \in 0..n : Done(k)' = Done(k)
      /\ \A k \in 0..(n - 1) : Trace'[k] = Trace[k] /\ Position(k)' = Position(k)
  <2>1. n \in 0..n /\ Len(calls') \in Nat /\ n <= Len(calls')
    BY <1>3
  <2>. QED BY <1>0, <1>2, <1>3, <2>1, StackKept DEF CInv, IInv
<1>5. /\ Trace'[n] = state /\ Position(n)' = cursor
      /\ Trace[n] = state /\ Position(n) = cursor
  BY <1>0, <1>3 DEF Trace, Position
<1>6. /\ Done(n + 1)' = linearized'
      /\ Trace'[n + 1] = state'
      /\ Position(n + 1)' = cursor'
  <2>1. Done(n + 1)' = linearized'
    BY <1>3 DEF IInv, StackIsExecution, Done
  <2>. QED BY <1>3, <2>1 DEF Trace, Position
<1>7. 0..(n + 1) = (0..(n - 1)) \cup {n, n + 1} /\ 1..(n + 1) = (1..n) \cup {n + 1}
  BY <1>0
<1>8. StackTried'
  <2>1. ASSUME NEW k \in 0..n
        PROVE  TriedBefore(entries, cache', Done(k)', Trace'[k], Position(k)')
    <3>1. k \in 0..(n - 1) \/ k = n
      OBVIOUS
    <3>2. TriedBefore(entries, cache, Done(k), Trace[k], Position(k))
      BY <1>0 DEF CInv, StackTried
    <3>3. TriedBefore(entries, cache', Done(k), Trace[k], Position(k))
      <4>1. cache \subseteq cache'
        BY <1>2
      <4>. QED BY <3>2, <4>1, Monotone, Zenon
    <3>. QED BY <1>4, <1>5, <3>1, <3>3
  <2>2. TriedBefore(entries, cache', linearized', state', cursor')
    <3>1. \A r \in DOMAIN entries : r > 0 /\ r < cursor' => entries[r].id \in linearized'
      <4>1. /\ 0 \in Nat /\ WellFormed(entries)
            /\ FirstAfter(entries, linearized', 0, cursor')
        BY DEF Linearize, MoveCursor, TypeOK, CInv, IInv
      <4>. QED BY <4>1, PassedOver, Zenon
    <3>2. \A r \in DOMAIN entries : r > 0
      BY DEF TypeOK, WellFormed, CInv, IInv
    <3>. QED BY <3>1, <3>2 DEF TriedBefore, Eligible
  <2>3. TriedBefore(entries, cache', Done(n + 1)', Trace'[n + 1], Position(n + 1)')
    BY <1>6, <2>2
  <2>4. ASSUME NEW k \in 0..Len(calls')
        PROVE  TriedBefore(entries, cache', Done(k)', Trace'[k], Position(k)')
    <3>1. k \in 0..n \/ k = n + 1
      BY <1>3
    <3>2. CASE k = n + 1
      BY <2>3, <3>2, Zenon
    <3>. QED BY <2>1, <3>1, <3>2
  <2>. QED BY <1>2, <2>4 DEF StackTried
<1>9. StackCached'
  <2>1. ASSUME NEW k \in 1..n PROVE <<Done(k)', Trace'[k]>> \in cache'
    <3>1. k \in 0..n /\ (k \in 0..(n - 1) \/ k = n)
      BY <1>3
    <3>2. <<Done(k), Trace[k]>> \in cache
      BY <1>0 DEF CInv, StackCached
    <3>. QED BY <1>2, <1>4, <1>5, <3>1, <3>2
  <2>. QED BY <1>2, <1>3, <1>6, <1>7, <2>1 DEF StackCached
<1>10. CacheClosed'
  <2>. SUFFICES ASSUME NEW c \in cache'
                PROVE  OnStack(c)' \/ Closed(entries, cache', c[1], c[2])
    BY <1>2 DEF CacheClosed
  <2>1. CASE c = <<linearized', state'>>
    <3>1. n + 1 \in 1..Len(calls')
      BY <1>3
    <3>. QED BY <1>6, <2>1, <3>1 DEF OnStack
  <2>2. CASE c \in cache /\ OnStack(c)
    <3>1. PICK k \in 1..n : c = <<Done(k), Trace[k]>>
      BY <1>0, <2>2 DEF OnStack
    <3>2. k \in 0..n /\ k \in 1..Len(calls') /\ (k \in 0..(n - 1) \/ k = n)
      BY <1>3
    <3>. QED BY <1>4, <1>5, <3>1, <3>2 DEF OnStack
  <2>3. CASE c \in cache /\ Closed(entries, cache, c[1], c[2])
    <3>1. cache \subseteq cache'
      BY <1>2
    <3>. QED BY <2>3, <3>1, Monotone, Zenon
  <2>. QED BY <1>2, <2>1, <2>2, <2>3 DEF CInv, CacheClosed
<1>11. CompleteAtEnd'
  BY <1>1, <1>2 DEF CInv, CompleteAtEnd
<1>. QED BY <1>8, <1>9, <1>10, <1>11

(* What the cursor passes by at a call is refused or cached; what it jumps *)
(* over is linearized.                                                     *)
LEMMA SkipComplete ==
  ASSUME CInv, AtCall, Skip, NextState = Rejected \/ CacheHit
  PROVE  StackTried' /\ StackCached' /\ CacheClosed' /\ CompleteAtEnd'
<1>0. PICK n \in Nat : n = Len(calls)
  BY LenProperties DEF TypeOK, CInv, IInv
<1>1. UNCHANGED <<entries, linearized, state, calls, cache>>
  BY DEF Skip
<1>2. Order' = Order /\ Trace' = Trace
  BY <1>1 DEF Order, Trace
<1>3. /\ \A k : Done(k)' = Done(k)
      /\ \A k \in 0..n : k # n => Position(k)' = Position(k)
      /\ \A c : OnStack(c)' <=> OnStack(c)
  BY <1>0, <1>1, <1>2 DEF Done, Position, OnStack
<1>4. /\ Done(n) = linearized /\ Trace[n] = state
      /\ Position(n) = cursor /\ Position(n)' = cursor'
  <2>1. Done(n) = linearized /\ Trace[n] = state /\ Position(n) = cursor
    BY <1>0, Top DEF CInv, IInv
  <2>. QED BY <1>0, <1>1, <2>1 DEF Position
<1>5. TriedBefore(entries, cache, linearized, state, cursor')
  <2>. SUFFICES ASSUME NEW p \in DOMAIN entries, p < cursor',
                       Eligible(entries, linearized, p)
                PROVE  Tried(entries, cache, linearized, state, p)
    BY DEF TriedBefore
  <2>1. cursor \in DOMAIN entries /\ cursor \in Nat /\ p \in Nat
    BY DEF AtCall, TypeOK, WellFormed, CInv, IInv
  <2>2. CASE p < cursor
    <3>1. n \in 0..Len(calls)
      BY <1>0
    <3>2. TriedBefore(entries, cache, linearized, state, cursor)
      BY <1>4, <3>1 DEF CInv, StackTried
    <3>. QED BY <2>2, <3>2 DEF TriedBefore
  <2>3. CASE p = cursor
    BY <2>3 DEF Tried, NextState, CacheHit, NextNode
  <2>4. CASE p > cursor
    <3>1. WellFormed(entries) /\ FirstAfter(entries, linearized, cursor, cursor')
      BY DEF Skip, MoveCursor, TypeOK, CInv, IInv
    <3>2. \A r \in DOMAIN entries :
             r > cursor /\ r < cursor' => entries[r].id \in linearized
      BY <2>1, <3>1, PassedOver, Zenon
    <3>. QED BY <2>4, <3>2 DEF Eligible
  <2>. QED BY <2>1, <2>2, <2>3, <2>4
<1>6. StackTried'
  <2>1. ASSUME NEW k \in 0..n
        PROVE  TriedBefore(entries, cache, Done(k), Trace[k], Position(k)')
    <3>1. CASE k = n
      BY <1>4, <1>5, <3>1, Zenon
    <3>2. CASE k # n
      BY <1>0, <1>3, <3>2 DEF CInv, StackTried
    <3>. QED BY <3>1, <3>2
  <2>. QED BY <1>0, <1>1, <1>2, <1>3, <2>1 DEF StackTried
<1>7. StackCached'
  BY <1>1, <1>2, <1>3 DEF CInv, StackCached
<1>8. CacheClosed'
  BY <1>1, <1>3 DEF CInv, CacheClosed
<1>9. CompleteAtEnd'
  BY <1>1 DEF CInv, CompleteAtEnd
<1>. QED BY <1>6, <1>7, <1>8, <1>9

(* At a live return nothing is eligible from the cursor on, so the node on *)
(* the top of the stack is closed.                                         *)
LEMMA ClosedAtReturn ==
  ASSUME CInv, cursor \in DOMAIN entries, IsReturn(entries, cursor)
  PROVE  /\ Closed(entries, cache, linearized, state)
         /\ linearized # Ops(entries)
<1>0. PICK n \in Nat : n = Len(calls)
  BY LenProperties DEF TypeOK, CInv, IInv
<1>1. Done(n) = linearized /\ Trace[n] = state /\ Position(n) = cursor
  BY <1>0, Top DEF CInv, IInv
<1>2. TriedBefore(entries, cache, linearized, state, cursor)
  <2>1. n \in 0..Len(calls)
    BY <1>0
  <2>. QED BY <1>1, <2>1 DEF CInv, StackTried
<1>3. cursor \in Nat /\ entries[cursor].id \in Ops(entries)
      /\ entries[cursor].id \notin linearized
  BY DEF TypeOK, WellFormed, Ops, CursorIsLive, Live, End, CInv, IInv
<1>4. ASSUME NEW p \in DOMAIN entries, Eligible(entries, linearized, p)
      PROVE  p < cursor
  <2>1. p \in Nat
    BY DEF TypeOK, WellFormed, CInv, IInv
  <2>2. p # cursor
    BY <1>4 DEF Eligible, IsCall, IsReturn
  <2>3. ~ (cursor < p)
    BY <1>3, <1>4 DEF Eligible
  <2>. QED BY <1>3, <2>1, <2>2, <2>3
<1>5. Closed(entries, cache, linearized, state)
  BY <1>2, <1>4 DEF TriedBefore, Closed
<1>. QED BY <1>3, <1>5

(* The node that leaves the stack is closed, and it is the one its call    *)
(* leads to from the node below.                                           *)
LEMMA BacktrackComplete ==
  ASSUME CInv, IInv', Backtrack
  PROVE  StackTried' /\ StackCached' /\ CacheClosed' /\ CompleteAtEnd'
<1>0. PICK n \in Nat : n = Len(calls)
  BY LenProperties DEF TypeOK, CInv, IInv
<1>1. /\ n # 0
      /\ Frame = calls[n]
      /\ Frame \in [node : DOMAIN entries, state : State]
      /\ Len(calls') = n - 1
      /\ \A k \in 1..(n - 1) : calls'[k] = calls[k]
  BY <1>0, Pop DEF Backtrack, BacktrackTo, Frame, TypeOK, CInv, IInv
<1>2. /\ UNCHANGED <<entries, cache>>
      /\ state' = Frame.state
      /\ cursor \in DOMAIN entries /\ IsReturn(entries, cursor)
  BY DEF Backtrack, BacktrackTo, AtReturn, TypeOK, CInv, IInv
<1>3. /\ \A k \in 0..(n - 1) : Done(k)' = Done(k)
      /\ \A k \in 0..((n - 1) - 1) : Trace'[k] = Trace[k] /\ Position(k)' = Position(k)
  <2>1. n - 1 \in 0..Len(calls) /\ Len(calls') \in Nat /\ n - 1 <= Len(calls')
    BY <1>0, <1>1
  <2>. QED BY <1>1, <1>2, <2>1, StackKept DEF CInv, IInv
<1>4. /\ Trace'[n - 1] = Frame.state /\ Position(n - 1)' = cursor'
      /\ Trace[n - 1] = Frame.state /\ Position(n - 1) = Frame.node
  BY <1>0, <1>1, <1>2 DEF Trace, Position
<1>5. linearized' = Done(n - 1)
  <2>1. linearized' = Done(n - 1)'
    BY <1>1 DEF IInv, StackIsExecution, Done
  <2>. QED BY <1>1, <1>3, <2>1
<1>6. /\ Done(n) = linearized /\ Trace[n] = state
      /\ Done(n) = Done(n - 1) \cup {FrameOp}
      /\ state = Apply(entries, Frame.state, FrameOp)
  <2>1. Done(n) = linearized /\ Trace[n] = state
    BY <1>0, Top DEF CInv, IInv
  <2>2. n \in 1..n /\ Order[n] = FrameOp
    BY <1>0, <1>1 DEF Order, FrameOp
  <2>3. Trace[n] = Apply(entries, Trace[n - 1], FrameOp)
    BY <1>0, <2>2 DEF CInv, IInv, StackIsExecution
  <2>4. Done(n) = Done(n - 1) \cup {FrameOp}
    <3>1. 1..n = (1..(n - 1)) \cup {n}
      BY <2>2
    <3>. QED BY <2>2, <3>1 DEF Done
  <2>. QED BY <1>4, <2>1, <2>3, <2>4
<1>7. TriedBefore(entries, cache, Done(n - 1), Frame.state, cursor')
  <2>. SUFFICES ASSUME NEW p \in DOMAIN entries, p < cursor',
                       Eligible(entries, Done(n - 1), p)
                PROVE  Tried(entries, cache, Done(n - 1), Frame.state, p)
    BY DEF TriedBefore
  <2>1. Frame.node \in DOMAIN entries /\ Frame.node \in Nat /\ p \in Nat
    BY <1>1 DEF TypeOK, WellFormed, CInv, IInv
  <2>2. CASE p < Frame.node
    <3>1. n - 1 \in 0..Len(calls)
      BY <1>0, <1>1
    <3>2. TriedBefore(entries, cache, Done(n - 1), Frame.state, Frame.node)
      BY <1>4, <3>1 DEF CInv, StackTried
    <3>. QED BY <2>2, <3>2 DEF TriedBefore
  <2>3. CASE p = Frame.node
    <3>1. n \in 1..Len(calls)
      BY <1>0, <1>1
    <3>2. <<Done(n), state>> \in cache
      BY <1>6, <3>1 DEF CInv, StackCached
    <3>. QED BY <1>6, <2>3, <3>2 DEF Tried, FrameOp
  <2>4. CASE p > Frame.node
    <3>1. WellFormed(entries) /\ FirstAfter(entries, linearized', Frame.node, cursor')
      BY DEF Backtrack, BacktrackTo, MoveCursor, TypeOK, CInv, IInv
    <3>2. \A r \in DOMAIN entries :
             r > Frame.node /\ r < cursor' => entries[r].id \in linearized'
      BY <2>1, <3>1, PassedOver, Zenon
    <3>. QED BY <1>5, <2>4, <3>2 DEF Eligible
  <2>. QED BY <2>1, <2>2, <2>3, <2>4
<1>8. ASSUME NEW k \in 0..(n - 1)
      PROVE  /\ Done(k)' = Done(k) /\ Trace'[k] = Trace[k]
             /\ k \in 0..n
             /\ k \in 0..((n - 1) - 1) \/ k = n - 1
  BY <1>1, <1>3, <1>4
<1>9. StackTried'
  <2>1. ASSUME NEW k \in 0..(n - 1)
        PROVE  TriedBefore(entries, cache, Done(k), Trace[k], Position(k)')
    <3>1. CASE k = n - 1
      BY <1>4, <1>7, <3>1, Zenon
    <3>2. CASE k # n - 1
      BY <1>0, <1>3, <1>8, <3>2 DEF CInv, StackTried
    <3>. QED BY <3>1, <3>2
  <2>. QED BY <1>1, <1>2, <1>8, <2>1 DEF StackTried
<1>10. StackCached'
  <2>1. ASSUME NEW k \in 1..(n - 1)
        PROVE  <<Done(k)', Trace'[k]>> \in cache
    <3>1. k \in 0..(n - 1) /\ k \in 1..n
      BY <1>1
    <3>. QED BY <1>0, <1>8, <3>1 DEF CInv, StackCached
  <2>. QED BY <1>1, <1>2, <2>1 DEF StackCached
<1>11. CacheClosed'
  <2>. SUFFICES ASSUME NEW c \in cache
                PROVE  OnStack(c)' \/ Closed(entries, cache, c[1], c[2])
    BY <1>2 DEF CacheClosed
  <2>1. CASE OnStack(c)
    <3>1. PICK k \in 1..n : c = <<Done(k), Trace[k]>>
      BY <1>0, <2>1 DEF OnStack
    <3>2. CASE k = n
      BY <1>2, <1>6, <3>1, <3>2, ClosedAtReturn
    <3>3. CASE k # n
      <4>1. k \in 1..(n - 1) /\ k \in 0..(n - 1)
        BY <1>1, <3>3
      <4>. QED BY <1>1, <1>8, <3>1, <4>1 DEF OnStack
    <3>. QED BY <3>2, <3>3
  <2>. QED BY <2>1 DEF CInv, CacheClosed
<1>12. CompleteAtEnd'
  BY <1>2, ClosedAtReturn DEF CInv, CompleteAtEnd
<1>. QED BY <1>9, <1>10, <1>11, <1>12
-----------------------------------------------------------------------------
LEMMA InitComplete == Init => CInv
<1>. SUFFICES ASSUME Init PROVE CInv
  OBVIOUS
<1>1. IInv
  BY InitInv
<1>2. Len(calls) = 0 /\ Done(0) = {} /\ Position(0) = cursor
  BY DEF Init, Done, Position
<1>3. TriedBefore(entries, cache, {}, Trace[0], cursor)
  <2>1. /\ 0 \in Nat /\ WellFormed(entries)
        /\ FirstAfter(entries, linearized, 0, cursor)
    BY <1>1 DEF Init, IInv, TypeOK
  <2>2. \A r \in DOMAIN entries : r > 0 /\ r < cursor => entries[r].id \in linearized
    BY <2>1, PassedOver, Zenon
  <2>3. \A r \in DOMAIN entries : r > 0
    BY <2>1 DEF WellFormed
  <2>. QED BY <2>2, <2>3 DEF Init, TriedBefore, Eligible
<1>4. StackTried
  <2>1. ASSUME NEW k \in 0..Len(calls) PROVE k = 0
    BY <1>2
  <2>. QED BY <1>2, <1>3, <2>1 DEF StackTried
<1>. QED BY <1>1, <1>2, <1>4
     DEF Init, CInv, StackCached, CacheClosed, CompleteAtEnd, RefusedAtReturn

LEMMA StepComplete == CInv /\ [Next]_vars => CInv'
<1>. SUFFICES ASSUME CInv, [Next]_vars PROVE CInv'
  OBVIOUS
<1>1. IInv'
  BY StepInv DEF CInv
<1>2. SUFFICES /\ StackTried' /\ StackCached' /\ CacheClosed' /\ CompleteAtEnd'
               /\ RefusedAtReturn'
  BY <1>1 DEF CInv
<1>3. CASE ReturnEmpty
  BY <1>3, StillComplete DEF ReturnEmpty, Return, RefusedAtReturn, CInv
<1>4. CASE ReturnKilled
  BY <1>4, StillComplete DEF ReturnKilled, Return, RefusedAtReturn, CInv
<1>5. CASE ReturnTrue
  BY <1>5, StillComplete DEF ReturnTrue, Return, RefusedAtReturn, CInv
<1>6. CASE Linearize
  <2>1. RefusedAtReturn'
    BY <1>6 DEF Linearize, AtCall, Running, Looping, RefusedAtReturn
  <2>. QED BY <1>1, <1>6, <2>1, LinearizeComplete
<1>7. CASE SkipRejected \/ SkipCached
  <2>1. AtCall /\ Skip /\ (NextState = Rejected \/ CacheHit)
    BY <1>7 DEF SkipRejected, SkipCached
  <2>2. RefusedAtReturn'
    BY <2>1 DEF Skip, AtCall, Running, Looping, RefusedAtReturn
  <2>. QED BY <2>1, <2>2, SkipComplete
<1>8. CASE Backtrack
  <2>1. RefusedAtReturn'
    BY <1>8 DEF Backtrack, BacktrackTo, AtReturn, Running, Looping, RefusedAtReturn
  <2>. QED BY <1>1, <1>8, <2>1, BacktrackComplete
<1>9. CASE ReturnExhausted
  <2>1. RefusedAtReturn'
    BY <1>9 DEF ReturnExhausted, Return, AtReturn, RefusedAtReturn, CInv, IInv, TypeOK
  <2>. QED BY <1>9, <2>1, StillComplete DEF ReturnExhausted, Return, CInv
<1>10. CASE SetKill
  BY <1>10, StillComplete DEF SetKill, RefusedAtReturn, CInv
<1>11. CASE Returned \/ UNCHANGED vars
  BY <1>11, StillComplete DEF Returned, vars, RefusedAtReturn, CInv
<1>. QED BY <1>3, <1>4, <1>5, <1>6, <1>7, <1>8, <1>9, <1>10, <1>11 DEF Next, Iterate

(* A cached node that contains an operation not yet linearized is closed,  *)
(* and it is not the end of a linearization.                               *)
LEMMA CachedBeyond ==
  ASSUME CInv, NEW i \in Ops(entries), i \notin linearized,
         NEW T, NEW t, i \in T, <<T, t>> \in cache
  PROVE  Closed(entries, cache, T, t) /\ T # Ops(entries)
<1>1. ~ OnStack(<<T, t>>)
  <2>. SUFFICES ASSUME NEW k \in 1..Len(calls), T = Done(k)
                PROVE  FALSE
    BY DEF OnStack
  <2>1. k \in 0..Len(calls)
    BY LenProperties DEF TypeOK, CInv, IInv
  <2>2. Done(k) \subseteq linearized
    BY <2>1, Top DEF CInv, IInv
  <2>. QED BY <2>2
<1>2. Closed(entries, cache, T, t)
  BY <1>1 DEF CInv, CacheClosed
<1>3. T # Ops(entries)
  BY DEF CInv, CompleteAtEnd
<1>. QED BY <1>2, <1>3

LEMMA RefusedHopeless == CInv => RefusedIsNotLinearizable
<1>. SUFFICES ASSUME CInv, returned = "false", ~ kill
              PROVE  ~ Linearizable(entries)
  BY DEF RefusedIsNotLinearizable
<1>1. /\ calls = <<>>
      /\ cursor \in DOMAIN entries /\ IsReturn(entries, cursor)
  BY DEF CInv, RefusedAtReturn
<1>2. linearized = {} /\ state = InitState
  BY <1>1 DEF CInv, IInv, StackIsExecution, Trace
<1>3. Closed(entries, cache, {}, InitState) /\ {} # Ops(entries)
  BY <1>1, <1>2, ClosedAtReturn
<1>4. ASSUME NEW T \in SUBSET Ops(entries), NEW t \in State, <<T, t>> \in cache
      PROVE  Closed(entries, cache, T, t) /\ T # Ops(entries)
  <2>1. ~ OnStack(<<T, t>>)
    BY <1>1 DEF OnStack
  <2>2. Closed(entries, cache, T, t)
    BY <1>4, <2>1 DEF CInv, CacheClosed
  <2>3. T # Ops(entries)
    BY <1>2, <1>3, <1>4 DEF CInv, CompleteAtEnd
  <2>. QED BY <2>2, <2>3
<1>5. WellFormed(entries) /\ InitState \in State /\ Len(entries) \div 2 \in Nat
  BY ModelAssumption DEF CInv, IInv, TypeOK, WellFormed
<1>6. ~ Completable(entries, Ops(entries) \ {}, Len(entries) \div 2, InitState)
  BY <1>3, <1>4, <1>5, Hopeless, Zenon
<1>. QED BY <1>6 DEF Linearizable

LEMMA OpsFinite ==
  ASSUME NEW E, WellFormed(E), NEW R \in SUBSET Ops(E)
  PROVE  Cardinality(R) \in Nat
<1>. DEFINE f == [p \in DOMAIN E |-> E[p].id]
<1>1. f \in Surjection(DOMAIN E, Ops(E))
  BY DEF Surjection, Ops
<1>2. IsFiniteSet(DOMAIN E)
  <2>1. DOMAIN E = 1..Len(E) /\ 1 \in Int /\ Len(E) \in Int
    BY DEF WellFormed
  <2>. QED BY <2>1, FS_Interval, Zenon
<1>3. IsFiniteSet(Ops(E))
  BY <1>1, <1>2, FS_Surjection, Zenon
<1>. QED BY <1>3, FS_Subset, FS_CardinalityType, Zenon

LEMMA PrunedHopeless ==
  ASSUME CInv, SkipCached
  PROVE  LET rest == Ops(entries) \ NextNode[1] IN
           ~ Completable(entries, rest, Cardinality(rest), NextNode[2])
<1>. DEFINE i == entries[cursor].id
            S == linearized \cup {i}
<1>1. /\ i \in Ops(entries) /\ i \notin linearized
      /\ S \in SUBSET Ops(entries) /\ NextState \in State
      /\ <<S, NextState>> \in cache
  BY AtCallType DEF SkipCached, AtCall, CacheHit, NextNode, TypeOK,
                    CursorIsLive, Live, CInv, IInv
<1>2. WellFormed(entries)
  BY DEF CInv, IInv, TypeOK
<1>3. Closed(entries, cache, S, NextState) /\ S # Ops(entries)
  BY <1>1, CachedBeyond
<1>4. \A T \in SUBSET Ops(entries), t \in State :
        S \subseteq T /\ <<T, t>> \in cache
          => Closed(entries, cache, T, t) /\ T # Ops(entries)
  BY <1>1, CachedBeyond
<1>5. Cardinality(Ops(entries) \ S) \in Nat
  <2>1. Ops(entries) \ S \in SUBSET Ops(entries)
    OBVIOUS
  <2>. HIDE DEF S
  <2>. QED BY <1>2, <2>1, OpsFinite, Zenon
<1>6. ~ Completable(entries, Ops(entries) \ S, Cardinality(Ops(entries) \ S), NextState)
  <2>. HIDE DEF S
  <2>. QED BY <1>1, <1>2, <1>3, <1>4, <1>5, Hopeless, Zenon
<1>7. NextNode[1] = S /\ NextNode[2] = NextState
  BY DEF NextNode
<1>. QED BY <1>6, <1>7

(* Completeness (INV-LIN-02): whenever check_single returns false without  *)
(* the kill flag, no order of the operations that respects real time is    *)
(* accepted by the model, for every model and history.                     *)
THEOREM Completeness == Spec => []RefusedIsNotLinearizable
BY InitComplete, StepComplete, RefusedHopeless, PTL DEF Spec

(* Cache soundness (INV-LIN-04): what a cache hit prunes could never have  *)
(* been completed to a linearization, for every model and history.         *)
THEOREM CacheSound == Spec => PrunedIsHopeless
<1>1. CInv => (SkipCached => LET rest == Ops(entries) \ NextNode[1] IN
                 ~ Completable(entries, rest, Cardinality(rest), NextNode[2]))
  BY PrunedHopeless, Zenon
<1>. QED BY InitComplete, StepComplete, <1>1, PTL DEF Spec, PrunedIsHopeless
-----------------------------------------------------------------------------
(* What check_parallel is told of the search: the contract of Decision.    *)
Contract == INSTANCE Decision WITH
  empty <- entries = <<>>, linearizable <- Linearizable(entries)

(* Every operation takes two entries.                                      *)
LEMMA CountOps ==
  ASSUME NEW E, WellFormed(E)
  PROVE  Len(E) \div 2 = Cardinality(Ops(E))
<1>. DEFINE C == { p \in DOMAIN E : IsCall(E, p) }
            R == { p \in DOMAIN E : IsReturn(E, p) }
            c == [p \in C |-> E[p].id]
            r == [p \in R |-> E[p].id]
<1>1. \A i \in Ops(E) : /\ CallOf(E, i) \in C /\ E[CallOf(E, i)].id = i
                       /\ ReturnOf(E, i) \in R /\ E[ReturnOf(E, i)].id = i
  BY OpEntries
<1>2. /\ \A p \in C : E[p].id \in Ops(E) /\ p = CallOf(E, E[p].id)
      /\ \A p \in R : E[p].id \in Ops(E) /\ p = ReturnOf(E, E[p].id)
      /\ C \cup R = DOMAIN E /\ C \cap R = {}
  BY EntryKind
<1>3. c \in Bijection(C, Ops(E)) /\ r \in Bijection(R, Ops(E))
  <2>. HIDE DEF C, R
  <2>. QED BY <1>1, <1>2 DEF Bijection, Injection, IsInjective, Surjection
<1>4. /\ DOMAIN E = 1..Len(E) /\ Len(E) \in Nat
      /\ IsFiniteSet(DOMAIN E) /\ Cardinality(DOMAIN E) = Len(E)
  <2>1. DOMAIN E = 1..Len(E) /\ Len(E) \in Nat
    BY DEF WellFormed
  <2>2. IsFiniteSet(1..Len(E))
        /\ Cardinality(1..Len(E)) = IF 1 > Len(E) THEN 0 ELSE Len(E) - 1 + 1
    <3>1. 1 \in Int /\ Len(E) \in Int
      BY <2>1
    <3>. QED BY <3>1, FS_Interval, Zenon
  <2>. QED BY <2>1, <2>2
<1>5. IsFiniteSet(C) /\ IsFiniteSet(R)
  <2>1. C \in SUBSET DOMAIN E /\ R \in SUBSET DOMAIN E
    OBVIOUS
  <2>. HIDE DEF C, R
  <2>. QED BY <1>4, <2>1, FS_Subset, Zenon
<1>6. Cardinality(Ops(E)) = Cardinality(C) /\ Cardinality(Ops(E)) = Cardinality(R)
  <2>. HIDE DEF C, R, c, r
  <2>. QED BY <1>3, <1>5, FS_Bijection, Zenon DEF ExistsBijection
<1>7. Cardinality(DOMAIN E) = Cardinality(C) + Cardinality(R)
  <2>. HIDE DEF C, R
  <2>1. Cardinality(C \cup R) = Cardinality(C) + Cardinality(R) - Cardinality(C \cap R)
    BY <1>5, FS_Union, Zenon
  <2>2. Cardinality(C \cap R) = 0
    BY <1>2, FS_EmptySet, Zenon
  <2>3. Cardinality(C) \in Nat /\ Cardinality(R) \in Nat
    BY <1>5, FS_CardinalityType, Zenon
  <2>. QED BY <1>2, <2>1, <2>2, <2>3
<1>8. Cardinality(C) \in Nat
  <2>. HIDE DEF C
  <2>. QED BY <1>5, FS_CardinalityType, Zenon
<1>. HIDE DEF C, R
<1>. QED BY <1>4, <1>6, <1>7, <1>8

(* An accepted stack has as many frames as there are operations.           *)
LEMMA AcceptedLinearizable == IInv /\ returned = "true" => Linearizable(entries)
<1>. SUFFICES ASSUME IInv, returned = "true" PROVE Linearizable(entries)
  OBVIOUS
<1>0. PICK n \in Nat : n = Len(calls)
  BY LenProperties DEF TypeOK, IInv
<1>1. IsOrder(entries, Ops(entries), n, Order) /\ IsRun(entries, InitState, n, Order, Trace)
  BY <1>0, InvAccepts DEF AcceptedIsLinearization, IsLinearization
<1>2. DOMAIN Order = 1..n /\ Order = [k \in 1..n |-> Order[k]]
  BY <1>0 DEF Order
<1>3. Order \in [1..n -> Ops(entries)]
  BY <1>1, <1>2 DEF IsOrder
<1>4. Trace \in [0..n -> State]
  <2>1. Trace = [k \in 0..n |-> Trace[k]]
    BY <1>0 DEF Trace
  <2>2. ASSUME NEW k \in 0..n PROVE Trace[k] \in State
    <3>1. k = 0 \/ k \in 1..n
      OBVIOUS
    <3>. QED BY <1>1, <3>1, ModelAssumption DEF IsRun
  <2>. QED BY <2>1, <2>2
<1>5. n = Cardinality(Ops(entries))
  <2>1. Order \in Bijection(1..n, Ops(entries))
    <3>1. \A j, k \in 1..n : Order[j] = Order[k] => j = k
      BY <1>1 DEF IsOrder
    <3>2. \A i \in Ops(entries) : \E k \in 1..n : Order[k] = i
      BY <1>1 DEF IsOrder
    <3>. QED BY <1>3, <3>1, <3>2 DEF Bijection, Injection, IsInjective, Surjection
  <2>2. IsFiniteSet(1..n) /\ Cardinality(1..n) = IF 1 > n THEN 0 ELSE n - 1 + 1
    <3>1. 1 \in Int /\ n \in Int
      OBVIOUS
    <3>. QED BY <3>1, FS_Interval, Zenon
  <2>3. Cardinality(Ops(entries)) = Cardinality(1..n)
    BY <2>1, <2>2, FS_Bijection, Zenon DEF ExistsBijection
  <2>. QED BY <2>2, <2>3
<1>6. n = Len(entries) \div 2
  BY <1>5, CountOps DEF IInv, TypeOK
<1>. QED BY <1>1, <1>3, <1>4, <1>6 DEF Linearizable, Completable

LEMMA EmptyLinearizable == WellFormed(<<>>) => Linearizable(<<>>)
<1>. DEFINE order == [k \in 1..0 |-> k]
            at    == [k \in 0..0 |-> InitState]
<1>1. Ops(<<>>) = {} /\ Len(<<>>) \div 2 = 0
  BY DEF Ops
<1>2. order \in [1..0 -> {}] /\ at \in [0..0 -> State]
  BY ModelAssumption
<1>3. IsOrder(<<>>, {}, 0, order) /\ IsRun(<<>>, InitState, 0, order, at)
  BY DEF IsOrder, IsRun
<1>4. Completable(<<>>, {}, 0, InitState)
  <2>. HIDE DEF order, at
  <2>. QED BY <1>2, <1>3 DEF Completable
<1>. QED BY <1>1, <1>4 DEF Linearizable

(* The search keeps its contract with check_parallel, up to the fairness   *)
(* under which TLC checks it: it answers once, with the truth in an        *)
(* iteration that found the kill flag clear, with false in one that found  *)
(* it set.                                                                 *)
THEOREM ContractKept == Spec => Contract!Spec
<1>1. Init => Contract!Init
  <2>. SUFFICES ASSUME Init PROVE Contract!Init
    OBVIOUS
  <2>1. entries = <<>> => Linearizable(entries)
    BY HistoriesAssumption, EmptyLinearizable DEF Init
  <2>2. (entries = <<>>) \in BOOLEAN /\ Linearizable(entries) \in BOOLEAN
    BY Zenon DEF Linearizable, Completable
  <2>. QED BY <2>1, <2>2, Zenon DEF Init, Contract!Init
<1>2. CInv' => RefusedIsNotLinearizable' /\ (returned = "true" => Linearizable(entries))'
  <2>1. CInv => RefusedIsNotLinearizable /\ (returned = "true" => Linearizable(entries))
    BY RefusedHopeless, AcceptedLinearizable DEF CInv
  <2>. QED BY <2>1, PTL
<1>3. CInv /\ [Next]_vars => [Contract!Next]_(Contract!vars)
  <2>. SUFFICES ASSUME CInv, [Next]_vars, CInv'
                PROVE  [Contract!Next]_(Contract!vars)
    BY StepComplete
  <2>1. /\ returned' = "true" => Linearizable(entries')
        /\ returned' = "false" /\ ~ kill' => ~ Linearizable(entries')
    BY <1>2 DEF RefusedIsNotLinearizable
  <2>2. CASE ReturnEmpty \/ ReturnTrue \/ ReturnExhausted
    <3>1. /\ returned = "no" /\ UNCHANGED <<entries, kill>>
          /\ entries = <<>> \/ ~ kill
          /\ returned' = "true" \/ (returned' = "false" /\ ~ kill)
      BY <2>2 DEF ReturnEmpty, ReturnTrue, ReturnExhausted, Return,
                  AtReturn, Running, Looping
    <3>2. returned' = IF Linearizable(entries) THEN "true" ELSE "false"
      BY <2>1, <3>1
    <3>3. Contract!Decide
      BY <3>1, <3>2, Zenon DEF Contract!Decide, Contract!Return
    <3>. QED BY <3>3 DEF Contract!Next
  <2>3. CASE ReturnKilled
    <3>1. /\ returned = "no" /\ UNCHANGED <<entries, kill>>
          /\ entries # <<>> /\ kill /\ returned' = "false"
      BY <2>3 DEF ReturnKilled, Return, Looping
    <3>2. Contract!Abandon
      BY <3>1, Zenon DEF Contract!Abandon, Contract!Return
    <3>. QED BY <3>2 DEF Contract!Next
  <2>4. CASE SetKill
    <3>1. UNCHANGED <<entries, returned>> /\ ~ kill /\ kill' = TRUE
      BY <2>4 DEF SetKill
    <3>2. Contract!SetKill
      BY <3>1, Zenon DEF Contract!SetKill
    <3>. QED BY <3>2 DEF Contract!Next
  <2>5. CASE UNCHANGED <<entries, kill, returned>>
    BY <2>5, Zenon DEF Contract!vars
  <2>6. UNCHANGED <<entries, kill, returned>>
        \/ ReturnEmpty \/ ReturnTrue \/ ReturnExhausted \/ ReturnKilled \/ SetKill
    BY DEF Next, Iterate, Linearize, SkipRejected, SkipCached, Skip, Backtrack,
           BacktrackTo, Returned, vars
  <2>. QED BY <2>2, <2>3, <2>4, <2>5, <2>6
<1>. QED BY <1>1, <1>3, InitComplete, StepComplete, PTL DEF Spec, Contract!Spec
=============================================================================
