--------------------------- MODULE LossyRegister ---------------------------
(***************************************************************************)
(* `LossyNdRegister` of tests/common/mod.rs, a register whose writes may   *)
(* be lost, adapted to a deterministic model by PowerSetModel.             *)
(***************************************************************************)
EXTENDS RegisterModel, PowerSet

CONSTANT NoOutput   \* the None a write answers

LossyOutput == [some : RegOutput] \cup {NoOutput}

LossyWrite(v) == [input |-> [is_write |-> TRUE, value |-> v], output |-> NoOutput]
LossyRead(v)  == [input |-> [is_write |-> FALSE, value |-> 0], output |-> [some |-> v]]

LossySuccessors(s, input, output) ==
  IF input.is_write
  THEN IF output # NoOutput THEN <<>>
       ELSE IF input.value = s THEN <<s>> ELSE <<input.value, s>>
  ELSE IF output = [some |-> s] THEN <<s>> ELSE <<>>

LossyNdRegister ==
  [init |-> <<0>>,
   step |-> [x \in RegState \X (RegInput \X LossyOutput) |->
               LossySuccessors(x[1], x[2][1], x[2][2])]]

LossyState == UNION { SetToSeqs(S) : S \in (SUBSET RegState) \ {{}} }
LossyInit  == PowerInit(LossyNdRegister)

LossyStep(states, input, output) == PowerStep(LossyNdRegister, states, <<input, output>>)
=============================================================================
